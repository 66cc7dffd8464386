----------------------- MODULE PlaygroundChildProofs -----------------------
(* Proofs about PlaygroundChild, for every number of messages and every     *)
(* limit of the queue.                                                      *)
EXTENDS PlaygroundChild, FiniteSetTheorems, TLAPS

Busy == Locks \union Waiting

\* What a step may do to the queue's slots: nothing, a command comes in, one
\* that waits gets a slot, one ends.
Same       == Locks' = Locks /\ Waiting' = Waiting
TakesSlot(r) ==
  /\ Cardinality(Locks) < Concurrent
  /\ Locks' = Locks \union {r} /\ Waiting' = Waiting \ {r}
ComesIn(r) ==
  /\ r \in Runners /\ InFlight(r) = {}
  /\ \/ TakesSlot(r)
     \/ /\ Cardinality(Waiting) < MaxQueue
        /\ Locks' = Locks /\ Waiting' = Waiting \union {r}
GoesOn(r)  == r \in Waiting /\ TakesSlot(r)
EndsOne(r) == Locks' = Locks \ {r} /\ Waiting' = Waiting
QueueStep  == Same \/ \E r \in Runners : ComesIn(r) \/ GoesOn(r) \/ EndsOne(r)

StageOK == stage \in [Runners -> {"none", "waiting", "starting", "cli"}]

\* Locks and Waiting are subsets of the finite set of commands.
LEMMA Finite == IsFiniteSet(Locks) /\ IsFiniteSet(Waiting)
<1>1. IsFiniteSet(Runners) BY MessagesAssumption
<1>2. Locks \subseteq Runners /\ Waiting \subseteq Runners BY DEF Locks, Waiting
<1> QED BY <1>1, <1>2, FS_Subset

\* A step of the queue keeps its limits.
LEMMA StepKeepsLimits == QueueKeepsItsLimits /\ QueueStep => QueueKeepsItsLimits'
<1> SUFFICES ASSUME QueueKeepsItsLimits, QueueStep PROVE QueueKeepsItsLimits'
  OBVIOUS
<1> USE LimitsAssumption
<1> DEFINE L == Cardinality(Locks)  W == Cardinality(Waiting)
<1>n. L \in Nat /\ W \in Nat BY Finite, FS_CardinalityType
<1>old. L <= Concurrent /\ W <= MaxQueue BY DEF QueueKeepsItsLimits
<1>one. \A r1, r2 \in Locks \union Waiting : Key[r1] = Key[r2] => r1 = r2
  BY DEF QueueKeepsItsLimits
<1>1. CASE Same
  BY <1>1 DEF Same, QueueKeepsItsLimits
<1>2. ASSUME NEW r \in Runners, ComesIn(r) PROVE QueueKeepsItsLimits'
  <2>1. \A l \in Locks \union Waiting : Key[l] # Key[r] BY <1>2 DEF ComesIn, InFlight
  <2>2. r \notin Locks \union Waiting BY <2>1
  <2>3. Cardinality(Locks \union {r}) = L + 1 /\ Cardinality(Waiting \union {r}) = W + 1
    BY <2>2, Finite, FS_AddElement
  <2>4. Waiting \ {r} = Waiting BY <2>2
  <2>5. (Locks \union Waiting)' = Locks \union Waiting \union {r}
    BY <1>2, <2>4 DEF ComesIn, TakesSlot
  <2>6. Cardinality(Locks') <= Concurrent /\ Cardinality(Waiting') <= MaxQueue
    <3>1. CASE TakesSlot(r)
      <4>1. Locks' = Locks \union {r} /\ Waiting' = Waiting BY <3>1, <2>4 DEF TakesSlot
      <4>2. L + 1 <= Concurrent BY <3>1, <1>n DEF TakesSlot
      <4> QED BY <4>1, <4>2, <1>old, <2>3
    <3>2. CASE Cardinality(Waiting) < MaxQueue /\ Locks' = Locks /\ Waiting' = Waiting \union {r}
      <4>1. W + 1 <= MaxQueue BY <3>2, <1>n
      <4> QED BY <4>1, <3>2, <1>old, <2>3
    <3> QED BY <1>2, <3>1, <3>2 DEF ComesIn
  <2>7. \A r1, r2 \in (Locks \union Waiting)' : Key[r1] = Key[r2] => r1 = r2
    BY <1>one, <2>1, <2>5
  <2> QED BY <2>6, <2>7 DEF QueueKeepsItsLimits
<1>3. ASSUME NEW r \in Runners, GoesOn(r) PROVE QueueKeepsItsLimits'
  <2>1. r \in Waiting BY <1>3 DEF GoesOn
  <2>2. r \notin Locks BY <2>1 DEF Locks, Waiting
  <2>3. Cardinality(Locks \union {r}) = L + 1 BY <2>2, Finite, FS_AddElement
  <2>4. Cardinality(Waiting \ {r}) = W - 1 BY <2>1, Finite, FS_RemoveElement
  <2>5. (Locks \union Waiting)' \subseteq Locks \union Waiting
    BY <1>3, <2>1 DEF GoesOn, TakesSlot
  <2>6. Cardinality(Locks') <= Concurrent /\ Cardinality(Waiting') <= MaxQueue
    BY <1>3, <1>n, <1>old, <2>3, <2>4 DEF GoesOn, TakesSlot
  <2> QED BY <1>one, <2>5, <2>6 DEF QueueKeepsItsLimits
<1>4. ASSUME NEW r \in Runners, EndsOne(r) PROVE QueueKeepsItsLimits'
  <2>1. Cardinality(Locks \ {r}) <= L /\ Cardinality(Locks \ {r}) \in Nat
    BY Finite, FS_Subset, FS_CardinalityType
  <2>2. (Locks \union Waiting)' \subseteq Locks \union Waiting BY <1>4 DEF EndsOne
  <2>3. Cardinality(Locks') <= Concurrent /\ Cardinality(Waiting') <= MaxQueue
    BY <1>4, <1>n, <1>old, <2>1 DEF EndsOne
  <2> QED BY <1>one, <2>2, <2>3 DEF QueueKeepsItsLimits
<1> QED BY <1>1, <1>2, <1>3, <1>4 DEF QueueStep

\* A step that leaves the stages alone does nothing to the queue's slots.
LEMMA SameStage == stage' = stage => Same
BY DEF Same, Locks, Waiting

\* A new command comes in.
LEMMA EnteringComesIn ==
  ASSUME StageOK, NEW r \in Runners, Enters(r)
  PROVE  StageOK' /\ ComesIn(r)
<1>1. r \notin Locks \union Waiting BY DEF Enters, InFlight
<1>2. CASE Cardinality(Locks) < Concurrent
  <2>1. stage' = [stage EXCEPT ![r] = "starting"] BY <1>2 DEF Enters
  <2>2. Locks' = Locks \union {r} /\ Waiting' = Waiting \ {r}
    BY <1>1, <2>1 DEF StageOK, Locks, Waiting
  <2> QED BY <1>2, <2>1, <2>2 DEF ComesIn, TakesSlot, Enters, StageOK
<1>3. CASE ~(Cardinality(Locks) < Concurrent)
  <2>1. stage' = [stage EXCEPT ![r] = "waiting"] BY <1>3 DEF Enters
  <2>2. Locks' = Locks /\ Waiting' = Waiting \union {r}
    BY <1>1, <2>1 DEF StageOK, Locks, Waiting
  <2> QED BY <2>1, <2>2 DEF ComesIn, Enters, StageOK
<1> QED BY <1>2, <1>3

\* A woken command gets a slot or waits on.
LEMMA WakingGoesOn ==
  ASSUME StageOK, NEW r \in Runners, Wakes(r)
  PROVE  StageOK' /\ QueueStep
<1>1. r \in Waiting BY DEF Wakes, Woken
<1>2. CASE Cardinality(Locks) < Concurrent
  <2>1. stage' = [stage EXCEPT ![r] = "starting"] BY <1>2 DEF Wakes
  <2>2. Locks' = Locks \union {r} /\ Waiting' = Waiting \ {r}
    BY <2>1 DEF StageOK, Locks, Waiting
  <2> QED BY <1>1, <1>2, <2>1, <2>2 DEF QueueStep, GoesOn, TakesSlot, StageOK
<1>3. CASE ~(Cardinality(Locks) < Concurrent)
  BY <1>3, SameStage DEF Wakes, StageOK, QueueStep
<1> QED BY <1>2, <1>3

\* A command that has a slot and is settled gives it back.
LEMMA SettlingEnds ==
  ASSUME StageOK, NEW r \in Locks, Settled(r)
  PROVE  StageOK' /\ QueueStep
<1>1. r \in Runners /\ stage' = [stage EXCEPT ![r] = "none"] BY DEF Locks, Settled
<1>2. EndsOne(r) BY <1>1 DEF EndsOne, StageOK, Locks, Waiting
<1> QED BY <1>1, <1>2 DEF QueueStep, StageOK

\* Every step of the process is a step of the queue.
LEMMA NextIsQueueStep == StageOK /\ [Next]_vars => StageOK' /\ QueueStep
<1> SUFFICES ASSUME StageOK, [Next]_vars PROVE StageOK' /\ QueueStep
  OBVIOUS
<1>0. stage' = stage => StageOK' /\ QueueStep BY SameStage DEF StageOK, QueueStep
<1>1. CASE UNCHANGED vars
  BY <1>0, <1>1 DEF vars, queue
<1>2. CASE Ends \/ Leaves \/ Startup
  BY <1>0, <1>2 DEF Ends, Leaves, Startup, ArgsReady, CliReturns, SetUp, Undone, queue
<1>3. ASSUME NEW m \in Messages,
             StartServer(m) \/ StopServer(m) \/ Disposed(m) \/ RunBlueprint(m)
               \/ BlueprintEnds(m) \/ Aborts(m)
      PROVE  StageOK' /\ QueueStep
  BY <1>0, <1>3 DEF StartServer, StopServer, Disposed, RunBlueprint, BlueprintEnds, Aborts, queue
<1>4. ASSUME NEW r \in Runners, RunWpCliCommand(r) PROVE StageOK' /\ QueueStep
  <2>1. CASE Joins(r) BY <1>0, <2>1 DEF Joins
  <2>2. CASE QueueFull(r) BY <1>0, <2>2 DEF QueueFull, queue
  <2>3. CASE Enters(r) BY <2>3, EnteringComesIn DEF QueueStep
  <2> QED BY <1>4, <2>1, <2>2, <2>3 DEF RunWpCliCommand
<1>5. ASSUME NEW r \in Runners, Wakes(r) PROVE StageOK' /\ QueueStep
  BY <1>5, WakingGoesOn
<1>6. ASSUME NEW r \in Runners, CommandStarts(r) PROVE StageOK' /\ QueueStep
  <2>1. r \in Locks BY <1>6 DEF CommandStarts, Locks
  <2>2. CASE server
    <3>1. stage' = [stage EXCEPT ![r] = "cli"] BY <1>6, <2>2 DEF CommandStarts
    <3>2. Same BY <2>1, <3>1 DEF Same, StageOK, Locks, Waiting
    <3> QED BY <3>1, <3>2 DEF StageOK, QueueStep
  <2>3. CASE ~server
    BY <1>6, <2>1, <2>3, SettlingEnds DEF CommandStarts
  <2> QED BY <2>2, <2>3
<1>7. ASSUME NEW r \in Runners, CommandEnds(r) PROVE StageOK' /\ QueueStep
  <2>1. r \in Locks BY <1>7 DEF CommandEnds, Locks
  <2> QED BY <1>7, <2>1, SettlingEnds DEF CommandEnds
<1> QED BY <1>1, <1>2, <1>3, <1>4, <1>5, <1>6, <1>7
        DEF Next, Works, IsSent, Command, Messages

\* At most Concurrent commands run and at most MaxQueue wait, and no two of
\* them have the same arguments, whatever arrives while others are woken.
THEOREM QueueIsLimited == Spec => []QueueKeepsItsLimits
<1>1. Init => StageOK /\ QueueKeepsItsLimits
  <2> SUFFICES ASSUME Init PROVE StageOK /\ QueueKeepsItsLimits
    OBVIOUS
  <2>1. Locks = {} /\ Waiting = {} BY DEF Init, Locks, Waiting
  <2>2. Cardinality(Locks) = 0 /\ Cardinality(Waiting) = 0 BY <2>1, FS_EmptySet
  <2> QED BY <2>1, <2>2, LimitsAssumption DEF Init, StageOK, QueueKeepsItsLimits
<1>2. StageOK /\ QueueKeepsItsLimits /\ [Next]_vars => StageOK' /\ QueueKeepsItsLimits'
  BY NextIsQueueStep, StepKeepsLimits
<1> QED BY <1>1, <1>2, PTL DEF Spec

-----------------------------------------------------------------------------
Answer == {"unsent", "pending", "result", "aborted", "error"}
AnsOK  == ans \in [Messages -> Answer]

\* Only messages of S are answered, and with a.
Answers(S, a) ==
  AnsOK' /\ \A m \in Messages : ans'[m] = ans[m] \/ (m \in S /\ ans'[m] = a)

\* What the answers, the signal and the commands say of the startup.
CommandsOK == \A r \in Runners : stage[r] = "cli" => startup \in {"ok", "failed"}
ServerOK   == server => startup \notin {"none", "args", "cli"}
StopOK     == /\ \A m \in Stoppers : ans[m] = "aborted" => stopAsked
              /\ stopAsked => startup \notin {"none", "ok"}
StartOK    == \A m \in Starters : ans[m] = "result" => startup = "ok"
StartupOK  == startup \in {"none", "args", "cli", "setup", "undoing", "ok", "failed"}
StartupInv == AnsOK /\ StageOK /\ StartupOK /\ CommandsOK /\ ServerOK /\ StopOK /\ StartOK

\* A result, when it is sent, answers with it.
LEMMA ResultsAnswer ==
  ASSUME AnsOK, NEW S, NEW a \in Answer, Results(S, a) PROVE Answers(S, a)
BY DEF AnsOK, Results, Answers

\* Errors answer with an error.
LEMMA ErrorsAnswer ==
  ASSUME AnsOK, NEW S, Errors(S) PROVE Answers(S, "error")
BY DEF AnsOK, Errors, Answers, Answer

\* No answer at all.
LEMMA NothingAnswers ==
  ASSUME AnsOK, ans' = ans PROVE Answers({}, "error")
BY DEF AnsOK, Answers

\* A message that is taken in is pending.
LEMMA PendingAnswers ==
  ASSUME AnsOK, NEW m \in Messages, ans' = [ans EXCEPT ![m] = "pending"]
  PROVE  Answers({m}, "pending")
BY DEF AnsOK, Answers, Answer

\* Steps that change neither the startup nor the signal of a stop, and answer
\* no start with a result and no stop as aborted.
LEMMA HarmlessAnswers ==
  ASSUME StartupInv, NEW S, NEW a \in Answer, Answers(S, a),
         a = "result" => S \intersect Starters = {} \/ startup = "ok",
         a # "aborted",
         StageOK', \A r \in Runners : stage'[r] = "cli" => stage[r] = "cli",
         server' => server,
         UNCHANGED <<startup, stopAsked>>
  PROVE  StartupInv'
<1>1. Starters \subseteq Messages /\ Stoppers \subseteq Messages BY DEF Messages
<1>2. AnsOK' /\ StartupOK' BY DEF Answers, StartupInv, StartupOK
<1>3. CommandsOK' BY DEF StartupInv, CommandsOK
<1>4. ServerOK' BY DEF StartupInv, ServerOK
<1>5. StopOK' BY <1>1 DEF StartupInv, StopOK, Answers
<1>6. StartOK' BY <1>1 DEF StartupInv, StartOK, Answers
<1> QED BY <1>2, <1>3, <1>4, <1>5, <1>6 DEF StartupInv

\* A startup that fails: its starts are answered with the error.
LEMMA StartupFailing ==
  ASSUME StartupInv, StartupFails, Starting, stage' = stage, stopAsked' = stopAsked
  PROVE  StartupInv'
<1>1. Answers(Pending(Starters), "error")
  BY ErrorsAnswer DEF StartupFails, Exits, StartupInv
<1>2. Starters \subseteq Messages /\ Stoppers \subseteq Messages BY DEF Messages
<1>3. startup' = "failed" BY DEF StartupFails
<1>4. AnsOK' /\ StageOK' /\ StartupOK'
  BY <1>1, <1>3 DEF Answers, StartupInv, StageOK, StartupOK
<1>5. CommandsOK' /\ ServerOK' BY <1>3 DEF CommandsOK, ServerOK
<1>6. StopOK' BY <1>1, <1>2, <1>3 DEF StartupInv, StopOK, Answers
<1>7. StartOK' BY <1>1, <1>2, <1>3 DEF StartupInv, StartOK, Answers, Starting
<1> QED BY <1>4, <1>5, <1>6, <1>7 DEF StartupInv

\* A startup that goes on and answers nobody.
LEMMA StartupMoves ==
  ASSUME StartupInv, Starting, startup' \in {"cli", "setup", "undoing"},
         ans' = ans, stage' = stage, stopAsked' = stopAsked,
         server' => startup' # "cli"
  PROVE  StartupInv'
BY DEF StartupInv, AnsOK, StageOK, StartupOK, CommandsOK, ServerOK, StopOK, StartOK, Starting

\* A start: it begins the startup, awaits it, or is answered at once.
LEMMA StartServerKeeps ==
  ASSUME StartupInv, NEW m \in Starters, StartServer(m) PROVE StartupInv'
<1> USE DEF StartServer
<1>0. m \in Messages /\ AnsOK /\ Starters \intersect Stoppers = {}
  BY MessagesAssumption DEF Messages, StartupInv
<1>s. stage' = stage /\ StageOK' BY DEF queue, StartupInv, StageOK
<1>1. CASE startup = "none"
  <2>1. startup' = "args" /\ ans' = [ans EXCEPT ![m] = "pending"] BY <1>1 DEF Starting
  <2>2. Answers({m}, "pending") BY <1>0, <2>1, PendingAnswers
  <2>3. AnsOK' /\ StartupOK' BY <2>1, <2>2 DEF Answers, StartupOK
  <2>4. CommandsOK' /\ ServerOK'
    BY <1>s, <1>1 DEF StartupInv, CommandsOK, ServerOK
  <2>5. Starters \subseteq Messages /\ Stoppers \subseteq Messages BY DEF Messages
  <2>6. StopOK' BY <1>1, <2>1, <2>2, <2>5 DEF StartupInv, StopOK, Answers
  <2>7. StartOK' BY <1>1, <2>2, <2>5 DEF StartupInv, StartOK, Answers
  <2> QED BY <1>s, <2>3, <2>4, <2>6, <2>7 DEF StartupInv
<1>2. CASE Starting
  <2>1. startup' = startup /\ ans' = [ans EXCEPT ![m] = "pending"] BY <1>2 DEF Starting
  <2>2. Answers({m}, "pending") BY <1>0, <2>1, PendingAnswers
  <2> QED BY <1>s, <2>1, <2>2, HarmlessAnswers DEF Answer
<1>3. CASE startup = "ok"
  <2>1. startup' = startup /\ Results({m}, "result") BY <1>3 DEF Starting
  <2>2. Answers({m}, "result") BY <1>0, <2>1, ResultsAnswer DEF Answer
  <2> QED BY <1>s, <1>3, <2>1, <2>2, HarmlessAnswers DEF Answer
<1>4. CASE startup = "failed"
  <2>1. startup' = startup /\ Errors({m}) BY <1>4 DEF Exits, Starting
  <2>2. Answers({m}, "error") BY <1>0, <2>1, ErrorsAnswer
  <2> QED BY <1>s, <2>1, <2>2, HarmlessAnswers DEF Answer
<1> QED BY <1>1, <1>2, <1>3, <1>4 DEF StartupInv, StartupOK, Starting

\* The startup's own steps.
LEMMA StartupKeeps ==
  ASSUME StartupInv, Startup PROVE StartupInv'
<1>0. AnsOK /\ StageOK BY DEF StartupInv
<1>1. CASE ArgsReady
  <2>1. Starting /\ stage' = stage /\ stopAsked' = stopAsked /\ server' = server /\ ~server
    BY <1>1 DEF ArgsReady, Starting, queue, StartupInv, ServerOK
  <2>2. (startup' = "cli" /\ ans' = ans) \/ StartupFails BY <1>1 DEF ArgsReady
  <2> QED BY <2>1, <2>2, StartupMoves, StartupFailing
<1>2. CASE CliReturns
  <2>1. Starting /\ stage' = stage /\ stopAsked' = stopAsked
    BY <1>2 DEF CliReturns, Starting, queue
  <2>2. CASE startup' \in {"setup", "undoing"} /\ ans' = ans
    BY <2>1, <2>2, StartupMoves
  <2>3. CASE StartupFails BY <2>1, <2>3, StartupFailing
  <2>4. CASE ans' = ans /\ startup' = startup /\ server' = server
    BY <1>0, <2>1, <2>4, NothingAnswers, HarmlessAnswers DEF StageOK, Answer
  <2> QED BY <1>2, <2>2, <2>3, <2>4 DEF CliReturns
<1>3. CASE SetUp
  <2>1. Starting /\ stage' = stage /\ stopAsked' = stopAsked /\ server' = server
    BY <1>3 DEF SetUp, Starting, queue
  <2>2. CASE startup' = "undoing" /\ ans' = ans BY <2>1, <2>2, StartupMoves
  <2>3. CASE ~StopSignal /\ startup' = "ok" /\ Results(Pending(Starters), "result")
    <3>1. Answers(Pending(Starters), "result") BY <1>0, <2>3, ResultsAnswer DEF Answer
    <3>2. Starters \subseteq Messages /\ Stoppers \subseteq Messages
          /\ Starters \intersect Stoppers = {}
      BY MessagesAssumption DEF Messages
    <3>3. ~stopAsked' BY <2>1, <2>3 DEF StopSignal
    <3>4. AnsOK' /\ StageOK' /\ StartupOK' /\ CommandsOK' /\ ServerOK'
      BY <1>0, <2>1, <2>3, <3>1 DEF Answers, StageOK, StartupOK, CommandsOK, ServerOK
    <3>5. \A m \in Stoppers : ans'[m] # "aborted"
      BY <2>3, <3>1, <3>2 DEF StartupInv, StopOK, Answers, StopSignal
    <3>6. StopOK' /\ StartOK' BY <2>3, <3>3, <3>5 DEF StopOK, StartOK
    <3> QED BY <3>4, <3>6 DEF StartupInv
  <2> QED BY <1>3, <2>2, <2>3 DEF SetUp
<1>4. CASE Undone
  BY <1>4, StartupFailing DEF Undone, Starting, queue
<1> QED BY <1>1, <1>2, <1>3, <1>4 DEF Startup

\* A stop: it aborts the startup, or finds no server, or disposes of it.
LEMMA StopServerKeeps ==
  ASSUME StartupInv, NEW m \in Stoppers, StopServer(m) PROVE StartupInv'
<1> USE DEF StopServer
<1>0. /\ m \in Messages /\ AnsOK /\ m \notin Starters
      /\ Starters \subseteq Messages /\ Stoppers \subseteq Messages
  BY MessagesAssumption DEF Messages, StartupInv
<1>s. stage' = stage /\ StageOK' /\ startup' = startup /\ server' = server
  BY DEF queue, StartupInv, StageOK
<1>1. CASE Starting /\ stopAsked' = TRUE /\ Results({m}, "aborted")
  <2>1. Answers({m}, "aborted") BY <1>0, <1>1, ResultsAnswer DEF Answer
  <2>2. AnsOK' /\ StartupOK' /\ CommandsOK' /\ ServerOK'
    BY <1>s, <2>1 DEF StartupInv, Answers, StartupOK, CommandsOK, ServerOK
  <2>3. StopOK' BY <1>s, <1>1 DEF StopOK, Starting
  <2>4. StartOK' BY <1>0, <1>s, <2>1 DEF StartupInv, StartOK, Answers
  <2> QED BY <1>s, <2>2, <2>3, <2>4 DEF StartupInv
<1>2. CASE Results({m}, "result") /\ stopAsked' = stopAsked
  <2>1. Answers({m}, "result") BY <1>0, <1>2, ResultsAnswer DEF Answer
  <2> QED BY <1>0, <1>s, <1>2, <2>1, HarmlessAnswers DEF Answer
<1>3. CASE ans' = [ans EXCEPT ![m] = "pending"] /\ stopAsked' = stopAsked
  <2>1. Answers({m}, "pending") BY <1>0, <1>3, PendingAnswers
  <2> QED BY <1>s, <1>3, <2>1, HarmlessAnswers DEF Answer
<1> QED BY <1>1, <1>2, <1>3

\* The rest of a stop, and a blueprint.
LEMMA HandlersKeep ==
  ASSUME StartupInv, NEW m \in Messages, m \notin Starters,
         Disposed(m) \/ RunBlueprint(m) \/ BlueprintEnds(m)
  PROVE  StartupInv'
<1> USE DEF Disposed, RunBlueprint, BlueprintEnds
<1>0. AnsOK BY DEF StartupInv
<1>s. /\ stage' = stage /\ StageOK' /\ startup' = startup /\ stopAsked' = stopAsked
      /\ server' => server
  BY DEF queue, start, StartupInv, StageOK
<1>1. CASE Results({m}, "result")
  <2>1. Answers({m}, "result") BY <1>0, <1>1, ResultsAnswer DEF Answer
  <2> QED BY <1>s, <2>1, HarmlessAnswers DEF Answer
<1>2. CASE Errors({m})
  <2>1. Answers({m}, "error") BY <1>0, <1>2, ErrorsAnswer
  <2> QED BY <1>s, <2>1, HarmlessAnswers DEF Answer
<1>3. CASE ans' = [ans EXCEPT ![m] = "pending"]
  <2>1. Answers({m}, "pending") BY <1>0, <1>3, PendingAnswers
  <2> QED BY <1>s, <2>1, HarmlessAnswers DEF Answer
<1>4. CASE ans' = ans
  <2>1. Answers({}, "error") BY <1>0, <1>4, NothingAnswers
  <2> QED BY <1>s, <2>1, HarmlessAnswers DEF Answer
<1> QED BY <1>1, <1>2, <1>3, <1>4 DEF Exits

\* A WP-CLI command comes in, waits, runs and ends.
LEMMA CommandsKeep ==
  ASSUME StartupInv, StageOK', NEW r \in Runners, RunWpCliCommand(r) \/ Command(r)
  PROVE  StartupInv'
<1> USE DEF StartupInv
<1>0. r \in Messages /\ Runners \intersect Starters = {} /\ Sharers(r) \subseteq Runners
  BY MessagesAssumption DEF Messages, Sharers
<1>s. startup' = startup /\ stopAsked' = stopAsked /\ server' = server
  BY DEF RunWpCliCommand, Command, Wakes, CommandStarts, CommandEnds, start
<1>1. CASE RunWpCliCommand(r)
  <2>1. \A q \in Runners : stage'[q] = "cli" => stage[q] = "cli"
    BY <1>1 DEF RunWpCliCommand, Joins, QueueFull, Enters, queue, StageOK
  <2>2. CASE ans' = [ans EXCEPT ![r] = "pending"]
    <3>1. Answers({r}, "pending") BY <1>0, <2>2, PendingAnswers
    <3> QED BY <1>s, <2>1, <3>1, HarmlessAnswers DEF Answer
  <2>3. CASE Errors({r})
    <3>1. Answers({r}, "error") BY <2>3, ErrorsAnswer
    <3> QED BY <1>s, <2>1, <3>1, HarmlessAnswers DEF Answer
  <2> QED BY <1>1, <2>2, <2>3 DEF RunWpCliCommand, Joins, QueueFull, Enters
<1>2. CASE Wakes(r)
  <2>1. \A q \in Runners : stage'[q] = "cli" => stage[q] = "cli"
    BY <1>2 DEF Wakes, StageOK
  <2>2. Answers({}, "error") BY <1>2, NothingAnswers DEF Wakes
  <2> QED BY <1>s, <2>1, <2>2, HarmlessAnswers DEF Answer
<1>3. CASE CommandStarts(r) /\ server
  <2>1. startup \in {"ok", "failed"} BY <1>3 DEF CommandStarts, Starting, ServerOK, StartupOK
  <2>2. ans' = ans BY <1>3 DEF CommandStarts
  <2> QED BY <1>s, <2>1, <2>2 DEF AnsOK, StartupOK, CommandsOK, ServerOK, StopOK, StartOK
<1>4. CASE Settled(r) /\ Errors(Sharers(r))
  <2>1. \A q \in Runners : stage'[q] = "cli" => stage[q] = "cli"
    BY <1>4 DEF Settled, StageOK
  <2>2. Answers(Sharers(r), "error") BY <1>4, ErrorsAnswer
  <2> QED BY <1>s, <2>1, <2>2, HarmlessAnswers DEF Answer
<1>5. CASE Settled(r) /\ Results(Sharers(r), "result")
  <2>1. \A q \in Runners : stage'[q] = "cli" => stage[q] = "cli"
    BY <1>5 DEF Settled, StageOK
  <2>2. Answers(Sharers(r), "result") BY <1>5, ResultsAnswer DEF Answer
  <2> QED BY <1>0, <1>s, <2>1, <2>2, HarmlessAnswers DEF Answer
<1> QED BY <1>1, <1>2, <1>3, <1>4, <1>5 DEF Command, CommandStarts, CommandEnds

\* Every step keeps the invariant.
LEMMA StartupInvKept == StartupInv /\ [Next]_vars => StartupInv'
<1> SUFFICES ASSUME StartupInv, [Next]_vars PROVE StartupInv'
  OBVIOUS
<1>0. StageOK' BY NextIsQueueStep DEF StartupInv
<1>q. ans' = ans /\ stage' = stage /\ startup' = startup /\ stopAsked' = stopAsked
        /\ server' = server => StartupInv'
  BY DEF StartupInv, AnsOK, StageOK, StartupOK, CommandsOK, ServerOK, StopOK, StartOK
<1>1. CASE UNCHANGED vars BY <1>q, <1>1 DEF vars, queue, start
<1>2. CASE Ends \/ Leaves BY <1>q, <1>2 DEF Ends, Leaves, queue, start
<1>3. CASE Startup BY <1>3, StartupKeeps
<1>4. ASSUME NEW m \in Messages, Aborts(m) PROVE StartupInv'
  BY <1>q, <1>4 DEF Aborts, queue, start
<1>5. ASSUME NEW m \in Starters, StartServer(m) PROVE StartupInv'
  BY <1>5, StartServerKeeps
<1>6. ASSUME NEW m \in Stoppers, StopServer(m) PROVE StartupInv'
  BY <1>6, StopServerKeeps
<1>7. ASSUME NEW m \in Stoppers \union Blueprints,
             Disposed(m) \/ RunBlueprint(m) \/ BlueprintEnds(m)
      PROVE  StartupInv'
  <2>1. m \in Messages /\ m \notin Starters BY MessagesAssumption DEF Messages
  <2> QED BY <1>7, <2>1, HandlersKeep
<1>8. ASSUME NEW r \in Runners, RunWpCliCommand(r) \/ Command(r) PROVE StartupInv'
  BY <1>0, <1>8, CommandsKeep
<1> QED BY <1>1, <1>2, <1>3, <1>4, <1>5, <1>6, <1>7, <1>8 DEF Next, Works, IsSent

\* The server is used when its startup has ended well, and only then: no
\* command runs during it, and no start is answered with a result once a stop
\* was told that the startup is aborted.
THEOREM StartupDecidesHolds == Spec => []StartupDecides
<1>1. Init => StartupInv
  BY DEF Init, Messages, StartupInv, AnsOK, Answer, StageOK, StartupOK, CommandsOK, ServerOK, StopOK, StartOK
<1>2. StartupInv /\ [Next]_vars => StartupInv' BY StartupInvKept
<1>3. StartupInv => StartupDecides
  BY DEF StartupInv, CommandsOK, StopOK, StartOK, StartupDecides, NoCommandDuringStartup,
         AbortedStartupFails, Starting
<1> QED BY <1>1, <1>2, <1>3, PTL DEF Spec

-----------------------------------------------------------------------------
\* What a waiting command waits for has a slot.
WaitsOK == waitsFor \in [Runners -> SUBSET Runners] /\ \A r \in Runners : waitsFor[r] \subseteq Locks
\* The types of the rest.
RestOK ==
  /\ purpose \in {"server", "blueprint"}
  /\ leader \in [Runners -> Runners \union {Nobody}]
  /\ starter \in Starters \union {Nobody}
  /\ aborted \subseteq Messages
  /\ stopAsked \in BOOLEAN /\ server \in BOOLEAN /\ connected \in BOOLEAN
  /\ child \in {"up", "exiting", "dead"}
  /\ cause \in {"none", "exit", "left", "closed", "cli", "command"}

\* A command that comes in waits for those that have a slot; nobody loses one.
LEMMA EnteringWaits ==
  ASSUME StageOK, WaitsOK, NEW r \in Runners, Enters(r) PROVE WaitsOK'
<1>1. r \notin Locks BY DEF Enters, InFlight
<1>2. Locks \subseteq Runners BY DEF Locks
<1>3. CASE Cardinality(Locks) < Concurrent
  <2>1. stage' = [stage EXCEPT ![r] = "starting"] /\ waitsFor' = waitsFor BY <1>3 DEF Enters
  <2>2. Locks \subseteq Locks' BY <2>1 DEF StageOK, Locks
  <2>. QED BY <2>1, <2>2 DEF WaitsOK
<1>4. CASE ~(Cardinality(Locks) < Concurrent)
  <2>1. stage' = [stage EXCEPT ![r] = "waiting"] /\ waitsFor' = [waitsFor EXCEPT ![r] = Locks]
    BY <1>4 DEF Enters
  <2>2. Locks \subseteq Locks' BY <1>1, <2>1 DEF StageOK, Locks
  <2>. QED BY <1>2, <2>1, <2>2 DEF WaitsOK
<1>. QED BY <1>3, <1>4

\* So does one that is woken and finds no slot.
LEMMA WakingWaits ==
  ASSUME StageOK, WaitsOK, NEW r \in Runners, Wakes(r) PROVE WaitsOK'
<1>1. Locks \subseteq Runners BY DEF Locks
<1>2. CASE Cardinality(Locks) < Concurrent
  <2>1. stage' = [stage EXCEPT ![r] = "starting"] /\ waitsFor' = waitsFor BY <1>2 DEF Wakes
  <2>2. Locks \subseteq Locks' BY <2>1 DEF StageOK, Locks
  <2>. QED BY <2>1, <2>2 DEF WaitsOK
<1>3. CASE ~(Cardinality(Locks) < Concurrent)
  <2>1. waitsFor' = [waitsFor EXCEPT ![r] = Locks] /\ stage' = stage BY <1>3 DEF Wakes
  <2>2. Locks' = Locks BY <2>1 DEF Locks
  <2>. QED BY <1>1, <2>1, <2>2 DEF WaitsOK
<1>. QED BY <1>2, <1>3

\* A command that is settled is waited for no more.
LEMMA SettlingWaits ==
  ASSUME StageOK, WaitsOK, NEW r \in Runners, Settled(r) PROVE WaitsOK'
<1>1. /\ stage' = [stage EXCEPT ![r] = "none"]
      /\ waitsFor' = [w \in Runners |-> waitsFor[w] \ {r}]
  BY DEF Settled
<1>2. Locks \ {r} \subseteq Locks' BY <1>1 DEF StageOK, Locks
<1>3. \A w \in Runners : waitsFor'[w] \subseteq Locks' BY <1>1, <1>2 DEF WaitsOK
<1>4. waitsFor' \in [Runners -> SUBSET Runners] BY <1>1 DEF WaitsOK
<1>. QED BY <1>3, <1>4 DEF WaitsOK

\* Every step keeps what the queue's types say.
LEMMA WaitsKept == StageOK /\ WaitsOK /\ [Next]_vars => WaitsOK'
<1>. SUFFICES ASSUME StageOK, WaitsOK, [Next]_vars PROVE WaitsOK'
  OBVIOUS
<1>0. stage' = stage /\ waitsFor' = waitsFor => WaitsOK' BY DEF WaitsOK, Locks
<1>1. CASE UNCHANGED vars BY <1>0, <1>1 DEF vars, queue
<1>2. CASE Ends \/ Leaves \/ Startup
  BY <1>0, <1>2 DEF Ends, Leaves, Startup, ArgsReady, CliReturns, SetUp, Undone, queue
<1>3. ASSUME NEW m \in Messages,
             StartServer(m) \/ StopServer(m) \/ Disposed(m) \/ RunBlueprint(m)
               \/ BlueprintEnds(m) \/ Aborts(m)
      PROVE  WaitsOK'
  BY <1>0, <1>3 DEF StartServer, StopServer, Disposed, RunBlueprint, BlueprintEnds, Aborts, queue
<1>4. ASSUME NEW r \in Runners, RunWpCliCommand(r) PROVE WaitsOK'
  <2>1. CASE Joins(r) \/ QueueFull(r) BY <1>0, <2>1 DEF Joins, QueueFull, queue
  <2>2. CASE Enters(r) BY <2>2, EnteringWaits
  <2>. QED BY <1>4, <2>1, <2>2 DEF RunWpCliCommand
<1>5. ASSUME NEW r \in Runners, Wakes(r) PROVE WaitsOK'
  BY <1>5, WakingWaits
<1>6. ASSUME NEW r \in Runners, CommandStarts(r) PROVE WaitsOK'
  <2>1. CASE server
    <3>1. stage' = [stage EXCEPT ![r] = "cli"] /\ waitsFor' = waitsFor /\ r \in Locks
      BY <1>6, <2>1 DEF CommandStarts, Locks
    <3>2. Locks' = Locks BY <3>1 DEF StageOK, Locks
    <3>. QED BY <3>1, <3>2 DEF WaitsOK
  <2>2. CASE ~server BY <1>6, <2>2, SettlingWaits DEF CommandStarts
  <2>. QED BY <2>1, <2>2
<1>7. ASSUME NEW r \in Runners, CommandEnds(r) PROVE WaitsOK'
  BY <1>7, SettlingWaits DEF CommandEnds
<1>. QED BY <1>1, <1>2, <1>3, <1>4, <1>5, <1>6, <1>7
        DEF Next, Works, IsSent, Command, Messages

\* How a step may answer, and what becomes of the process.
LEMMA AnswersKeepRest ==
  ASSUME RestOK, NEW S, NEW a, Results(S, a) \/ (Errors(S) /\ UNCHANGED <<child, cause>>) \/ Exits(S)
  PROVE  /\ child' \in {"up", "exiting", "dead"}
         /\ cause' \in {"none", "exit", "left", "closed", "cli", "command"}
BY DEF RestOK, Results, Exits, Dies

\* Every step keeps the types of the rest.
LEMMA RestKept == RestOK /\ [Next]_vars => RestOK'
<1>. SUFFICES ASSUME RestOK, [Next]_vars PROVE RestOK'
  OBVIOUS
<1>1. CASE UNCHANGED vars BY <1>1 DEF vars, queue, start, proc, RestOK
<1>2. CASE Ends \/ Leaves BY <1>2 DEF Ends, Leaves, Dies, queue, start, RestOK
<1>3. CASE ArgsReady
  BY <1>3, AnswersKeepRest DEF ArgsReady, StartupFails, queue, RestOK
<1>4. CASE CliReturns
  <2>1. CASE StartupFails BY <1>4, <2>1, AnswersKeepRest DEF CliReturns, StartupFails, queue, RestOK
  <2>2. CASE ~StartupFails BY <1>4, <2>2 DEF CliReturns, Dies, queue, RestOK
  <2>. QED BY <2>1, <2>2
<1>5. CASE SetUp BY <1>5, AnswersKeepRest DEF SetUp, queue, RestOK
<1>6. CASE Undone BY <1>6, AnswersKeepRest DEF Undone, StartupFails, queue, RestOK
<1>7. ASSUME NEW m \in Starters, StartServer(m) PROVE RestOK'
  <2>1. starter' \in {starter, m} BY <1>7 DEF StartServer
  <2>2. \/ UNCHANGED proc
        \/ (Results({m}, "result") \/ Exits({m})) /\ UNCHANGED connected
    BY <1>7 DEF StartServer
  <2>3. /\ child' \in {"up", "exiting", "dead"} /\ connected' = connected
        /\ cause' \in {"none", "exit", "left", "closed", "cli", "command"}
    BY <2>2, AnswersKeepRest DEF RestOK, proc
  <2>. QED BY <1>7, <2>1, <2>3 DEF StartServer, queue, RestOK
<1>8. ASSUME NEW m \in Stoppers, StopServer(m) PROVE RestOK'
  <2>1. \/ UNCHANGED proc
        \/ Results({m}, "aborted") /\ UNCHANGED connected
        \/ Results({m}, "result") /\ connected' = FALSE
    BY <1>8 DEF StopServer
  <2>2. /\ child' \in {"up", "exiting", "dead"} /\ connected' \in {connected, FALSE}
        /\ cause' \in {"none", "exit", "left", "closed", "cli", "command"}
    BY <2>1, AnswersKeepRest DEF RestOK, proc
  <2>. QED BY <1>8, <2>2 DEF StopServer, queue, RestOK
<1>9. ASSUME NEW m \in Stoppers, Disposed(m) PROVE RestOK'
  BY <1>9, AnswersKeepRest DEF Disposed, queue, RestOK
<1>10. ASSUME NEW m \in Blueprints, RunBlueprint(m) PROVE RestOK'
  BY <1>10 DEF RunBlueprint, queue, start, proc, RestOK
<1>11. ASSUME NEW m \in Blueprints, BlueprintEnds(m) PROVE RestOK'
  <2>1. /\ child' \in {"up", "exiting", "dead"}
        /\ cause' \in {"none", "exit", "left", "closed", "cli", "command"}
    BY <1>11, AnswersKeepRest DEF BlueprintEnds, Dies
  <2>. QED BY <1>11, <2>1 DEF BlueprintEnds, queue, start, RestOK
<1>12. ASSUME NEW r \in Runners, RunWpCliCommand(r) PROVE RestOK'
  <2>1. leader' \in [Runners -> Runners \union {Nobody}]
    BY <1>12 DEF RunWpCliCommand, Joins, QueueFull, Enters, InFlight, Locks, Waiting, queue, RestOK
  <2>. QED BY <1>12, <2>1 DEF RunWpCliCommand, start, proc, RestOK
<1>13. ASSUME NEW r \in Runners, Wakes(r) \/ CommandStarts(r) PROVE RestOK'
  BY <1>13 DEF Wakes, CommandStarts, Settled, start, proc, RestOK
<1>14. ASSUME NEW r \in Runners, CommandEnds(r) PROVE RestOK'
  BY <1>14, AnswersKeepRest DEF CommandEnds, Settled, start, RestOK
<1>15. ASSUME NEW m \in Messages, Aborts(m) PROVE RestOK'
  BY <1>15 DEF Aborts, Dies, queue, start, RestOK
<1>. QED BY <1>1, <1>2, <1>3, <1>4, <1>5, <1>6, <1>7, <1>8, <1>9, <1>10, <1>11, <1>12, <1>13, <1>14, <1>15
        DEF Next, Works, IsSent, Startup, Command

\* TypeOK, for any number of messages and any limits of the queue: among the types, that
\* a command waits only for commands that have a slot (sequential.ts), so that each of
\* them wakes it when it ends.
THEOREM TypeCorrect == Spec => []TypeOK
<1>. DEFINE Inv == StartupInv /\ WaitsOK /\ RestOK
<1>1. Init => Inv
  <2>. SUFFICES ASSUME Init PROVE Inv OBVIOUS
  <2>1. StartupInv
    BY DEF Init, Messages, StartupInv, AnsOK, Answer, StageOK, StartupOK, CommandsOK, ServerOK,
           StopOK, StartOK
  <2>2. WaitsOK /\ RestOK BY DEF Init, WaitsOK, RestOK
  <2>. QED BY <2>1, <2>2
<1>2. Inv /\ [Next]_vars => Inv'
  <2>1. StartupInv => StageOK BY DEF StartupInv
  <2>. QED BY <2>1, StartupInvKept, WaitsKept, RestKept
<1>3. Inv => TypeOK
  BY DEF StartupInv, AnsOK, Answer, StageOK, StartupOK, WaitsOK, RestOK, TypeOK
<1>. QED BY <1>1, <1>2, <1>3, PTL DEF Spec
=============================================================================
