---------------------------- MODULE DaemonProofs ----------------------------
(* Proofs about the process manager daemon: its services (ProcessManager,    *)
(* for every set of names and clients), then how commands find and leave it  *)
(* (DaemonConnect, for every set of commands and daemons).                   *)
EXTENDS ProcessManager, DaemonConnect, FiniteSetTheorems, SequenceTheorems, TLAPS

\* The number of stop calls that wait for one exit is a number: the events
\* broadcast on an exit form a sequence (handleProcessExit and stopProcess).
LEMMA ExitEventsType ==
  ASSUME NEW p \in Pm, NEW done, done \subseteq Waiter
  PROVE  ExitEvents(p, Cardinality(done)) \in Seq(Events)
<1>1. IsFiniteSet(Waiter)
  <2>1. IsFiniteSet(Clients \cup {Shutdown})
    BY ClientsAreFinite, FS_AddElement
  <2>2. IsFiniteSet(Pm)
    BY MaxPmIsNat, FS_Interval DEF Pm
  <2>. QED BY <2>1, <2>2, FS_Product DEF Waiter
<1>2. Cardinality(done) \in Nat
  BY <1>1, FS_Subset, FS_CardinalityType
<1>3. [i \in 1..Cardinality(done) |-> Event("delete", p)] \in Seq(Events)
  <2>1. Event("delete", p) \in Events
    BY DEF Event, Events
  <2>. QED BY <1>2, <2>1, SeqDef
<1>4. <<Event("exit", p)>> \in Seq(Events)
  BY DEF Event, Events
<1>. QED BY <1>3, <1>4, ConcatProperties DEF ExitEvents

\* getManagedProcessByName: at most one process has the name, so the first in
\* the table is the one that has it.
LEMMA FirstOfName ==
  ASSUME TypeOK, TableInv, NEW n, ManagedByName(n) # {}
  PROVE  /\ First(ManagedByName(n)) \in managed
         /\ pname[First(ManagedByName(n))] = n
         /\ First(ManagedByName(n)) \in Pm
         /\ First(ManagedByName(n)) < nextPmId
<1>1. PICK p \in managed : pname[p] = n
  BY DEF ManagedByName
<1>2. p \in Pm /\ p < nextPmId /\ p <= p
  BY MaxPmIsNat DEF TypeOK, Pm
<1>3. \A q \in ManagedByName(n) : q = p
  BY <1>1 DEF TableInv, ManagedByName
<1>4. p \in ManagedByName(n)
  BY <1>1 DEF ManagedByName
<1>5. First(ManagedByName(n)) = p
  BY <1>2, <1>3, <1>4 DEF First
<1>. QED BY <1>1, <1>2, <1>5

\* The invariant holds initially.
LEMMA InitInv == Init => IInv
<1>. SUFFICES ASSUME Init PROVE IInv
  OBVIOUS
<1>1. TypeOK
  <2>1. NoCall \in Calls
    BY MaxPmIsNat DEF NoCall, Calls, CallState
  <2>2. log \in [Names -> Seq(Events)]
    BY EmptySeq DEF Init
  <2>3. 1 \in 1..(MaxPm + 1) /\ 1 \in 1..1
    BY MaxPmIsNat
  <2>. QED BY <2>1, <2>2, <2>3 DEF Init, TypeOK
<1>2. TableInv /\ ShutdownInv /\ CallInv /\ StopAnsweredWhenDead
  BY DEF Init, TableInv, ShutdownInv, CallInv, StopAnsweredWhenDead, NoCall, Pm
<1>. QED BY <1>1, <1>2 DEF IInv

\* An answer keeps the type of the requests and touches no other request.
LEMMA AnswerType ==
  ASSUME TypeOK, NEW c \in Clients, NEW st \in CallState, NEW p \in 0..MaxPm,
         Answer(c, st, p)
  PROVE  /\ call' \in [Clients -> Calls]
         /\ \A d \in Clients \ {c} : call'[d] = call[d]
         /\ call'[c].op = call[c].op /\ call'[c].name = call[c].name
         /\ call'[c].st = st /\ call'[c].pm = p
<1>1. [call[c] EXCEPT !.st = st, !.pm = p] \in Calls
  BY DEF TypeOK, Calls
<1>2. call' = [call EXCEPT ![c] = [call[c] EXCEPT !.st = st, !.pm = p]]
  BY DEF Answer, TypeOK, Calls
<1>3. /\ [call[c] EXCEPT !.st = st, !.pm = p].op = call[c].op
      /\ [call[c] EXCEPT !.st = st, !.pm = p].st = st
      /\ [call[c] EXCEPT !.st = st, !.pm = p].pm = p
  BY DEF TypeOK, Calls
<1>. QED BY <1>1, <1>2, <1>3 DEF TypeOK

\* Every change of a step that leaves the stop calls alone: it answers one
\* request that nobody waits for, and brings no older child back to life.
LEMMA AnswerKeepsCalls ==
  ASSUME IInv, NEW c \in Clients, NEW st \in CallState, NEW p \in 0..MaxPm,
         Answer(c, st, p), call[c].st = "sent", call[c].op # "none",
         call[c].op = "stop-process" => p = 0,
         nextPmId' \in Nat, nextPmId <= nextPmId', p < nextPmId',
         \A d \in Clients, q \in Pm : <<d, q>> \in waiters' => <<d, q>> \in waiters,
         \A q \in Pm : q < nextPmId /\ child'[q] = "alive" => child[q] = "alive",
         daemon' # "exited" => daemon # "exited"
  PROVE  CallInv' /\ StopAnsweredWhenDead'
<1>1. /\ \A d \in Clients \ {c} : call'[d] = call[d]
      /\ call'[c].op = call[c].op /\ call'[c].name = call[c].name
      /\ call'[c].st = st /\ call'[c].pm = p
  BY AnswerType DEF IInv
<1>2. \A d \in Clients : call[d].pm \in 0..MaxPm /\ call[d].pm < nextPmId
  BY DEF IInv, CallInv, TypeOK, Calls
<1>3. nextPmId \in Nat
  BY MaxPmIsNat DEF IInv, TypeOK
<1>4. \A d \in Clients : /\ call'[d].op # "none" => call'[d].name \in Names
                         /\ call'[d].pm < nextPmId'
  BY <1>1, <1>2, <1>3, MaxPmIsNat DEF IInv, CallInv
<1>5. ASSUME NEW d \in Clients, NEW q \in Pm, <<d, q>> \in waiters', daemon' # "exited"
      PROVE  call'[d].op = "stop-process" /\ call'[d].st = "waiting" /\ call'[d].pm = q
  <2>1. call[d].op = "stop-process" /\ call[d].st = "waiting" /\ call[d].pm = q
    BY <1>5 DEF IInv, CallInv
  <2>2. d # c
    BY <2>1
  <2>. QED BY <1>1, <2>1, <2>2
<1>6. ASSUME NEW d \in Clients,
             call'[d].op = "stop-process", call'[d].st = "ok", call'[d].pm # 0
      PROVE  child'[call'[d].pm] # "alive"
  <2>1. d # c /\ call'[d] = call[d]
    BY <1>1, <1>6
  <2>2. child[call[d].pm] # "alive"
    BY <1>6, <2>1 DEF IInv, StopAnsweredWhenDead, Alive
  <2>. QED BY <1>2, <1>6, <2>1, <2>2 DEF Pm
<1>. QED BY <1>4, <1>5, <1>6 DEF CallInv, StopAnsweredWhenDead, Alive

\* Steps of the clients: only call changes, to a fresh or empty request.
LEMMA ClientSteps ==
  ASSUME IInv, NEW c \in Clients,
         \/ \E op \in Ops, n \in Names : Request(c, op, n)
         \/ Acknowledge(c) \/ Refuse(c)
  PROVE  IInv'
<1>. USE DEF IInv, tableVars, osVars, stopVars, shutVars
<1>1. TypeOK'
  <2>1. ASSUME NEW op \in Ops, NEW n \in Names, Request(c, op, n)
        PROVE  call' \in [Clients -> Calls]
    <3>1. [op |-> op, name |-> n, pm |-> 0, st |-> "sent"] \in Calls
      BY MaxPmIsNat DEF Calls, CallState
    <3>. QED BY <2>1, <3>1 DEF TypeOK, Request
  <2>2. Acknowledge(c) => call' \in [Clients -> Calls]
    <3>1. NoCall \in Calls
      BY MaxPmIsNat DEF NoCall, Calls, CallState
    <3>. QED BY <3>1 DEF TypeOK, Acknowledge
  <2>3. Refuse(c) => call' \in [Clients -> Calls]
    BY MaxPmIsNat, AnswerType DEF Refuse, CallState
  <2>. QED BY <2>1, <2>2, <2>3 DEF TypeOK, Request, Acknowledge, Refuse
<1>2. TableInv' /\ ShutdownInv'
  BY DEF TableInv, ShutdownInv, Request, Acknowledge, Refuse
<1>3. \A d \in Clients : \/ call'[d] = call[d]
                         \/ /\ d = c /\ call'[c].pm = 0
                            /\ call'[c].op # "none" => call'[c].name \in Names
  BY DEF CallInv, Ops, TypeOK, Calls, Request, Acknowledge, Refuse, Answer, NoCall
<1>4. daemon' # "exited" =>
        \A d \in Clients : call[d].st = "waiting" => call'[d] = call[d]
  BY DEF TypeOK, Calls, Request, Acknowledge, Refuse, Answer, NoCall
<1>5. CallInv' /\ StopAnsweredWhenDead'
  <2>1. UNCHANGED <<child, waiters, nextPmId, daemon>>
    BY DEF Request, Acknowledge, Refuse
  <2>2. \A d \in Clients : /\ call'[d].pm < nextPmId
                           /\ call'[d].op # "none" => call'[d].name \in Names
    BY <1>3 DEF CallInv, TypeOK
  <2>. QED BY <1>3, <1>4, <2>1, <2>2 DEF CallInv, StopAnsweredWhenDead, Alive
<1>. QED BY <1>1, <1>2, <1>5

\* start-process: the new process is the only one of its name, and older ids
\* keep what they were.
LEMMA StartSteps ==
  ASSUME IInv, NEW c \in Clients,
         StartExisting(c) \/ StartProcess(c) \/ StartFails(c)
  PROVE  IInv'
<1>. DEFINE n == call[c].name
<1>. USE DEF IInv
<1>1. CASE StartExisting(c)
  <2>1. PICK p \in 0..MaxPm : p \in managed /\ p < nextPmId /\ Answer(c, "ok", p)
    BY <1>1, FirstOfName DEF StartExisting, Pm
  <2>2. /\ call' \in [Clients -> Calls]
        /\ \A d \in Clients \ {c} : call'[d] = call[d]
        /\ call'[c].op = "start-process" /\ call'[c].pm = p
        /\ call'[c].name = call[c].name
    BY <1>1, <2>1, AnswerType DEF CallState, StartExisting, Serving
  <2>3. call[c].st = "sent" /\ call[c].op = "start-process"
    BY <1>1 DEF StartExisting, Serving
  <2>4. UNCHANGED <<tableVars, osVars, known, told, stopVars, shutVars, log>>
    BY <1>1 DEF StartExisting
  <2>. USE <2>4 DEF tableVars, osVars, stopVars, shutVars
  <2>5. TypeOK' /\ TableInv' /\ ShutdownInv'
    BY <2>2 DEF TypeOK, TableInv, ShutdownInv
  <2>6. CallInv' /\ StopAnsweredWhenDead'
    <3>1. nextPmId' \in Nat /\ nextPmId <= nextPmId'
      BY MaxPmIsNat DEF TypeOK
    <3>. HIDE DEF IInv
    <3>. QED BY <2>1, <2>3, <3>1, AnswerKeepsCalls DEF CallState
  <2>. QED BY <2>5, <2>6
<1>2. CASE StartProcess(c) \/ StartFails(c)
  <2>. DEFINE p == nextPmId
  <2>1. /\ ManagedByName(n) = {}
        /\ p \in Pm /\ nextPmId' = p + 1
        /\ pname' = [pname EXCEPT ![p] = n]
        /\ Answer(c, "ok", p)
        /\ call[c].op = "start-process" /\ call[c].st = "sent"
        /\ UNCHANGED <<worker, known, told, stopVars, shutVars>>
    BY <1>2, MaxPmIsNat DEF StartProcess, StartFails, TakePmId, Serving, TypeOK, Pm
  <2>2. /\ \/ managed' = managed \cup {p} /\ child' = [child EXCEPT ![p] = "alive"]
           \/ managed' = managed /\ child' = [child EXCEPT ![p] = "gone"]
        /\ log' \in [Names -> Seq(Events)]
    <3>1. Event("online", p) \in Events /\ Event("exit", p) \in Events
      BY <2>1 DEF Event, Events
    <3>2. <<Event("online", p), Event("exit", p)>> \in Seq(Events)
      BY <3>1
    <3>3. \A s \in Seq(Events) : /\ Append(s, Event("online", p)) \in Seq(Events)
                                 /\ s \o <<Event("online", p), Event("exit", p)>> \in Seq(Events)
      BY <3>1, <3>2, AppendProperties, ConcatProperties
    <3>4. log[n] \in Seq(Events) \/ n \notin Names
      BY DEF TypeOK
    <3>5. CASE StartProcess(c)
      BY <3>3, <3>4, <3>5 DEF TypeOK, StartProcess
    <3>6. CASE StartFails(c)
      BY <3>3, <3>4, <3>6 DEF TypeOK, StartFails
    <3>. QED BY <1>2, <3>5, <3>6
  <2>3. p \notin managed /\ (\A q \in managed : q \in Pm /\ q < p)
    BY MaxPmIsNat DEF TypeOK, Pm
  <2>4. /\ call' \in [Clients -> Calls]
        /\ \A d \in Clients \ {c} : call'[d] = call[d]
        /\ call'[c].op = "start-process" /\ call'[c].pm = p
        /\ call'[c].name = call[c].name
    BY <2>1, AnswerType DEF CallState, Pm
  <2>6. n \in Names
    BY <2>1 DEF CallInv
  <2>7. TypeOK'
    <3>1. pname' \in [Pm -> Names \cup {"none"}] /\ nextPmId' \in 1..(MaxPm + 1)
      BY <2>1, <2>6, MaxPmIsNat DEF TypeOK, Pm
    <3>2. /\ managed' \subseteq 1..(nextPmId' - 1)
          /\ child' \in [Pm -> {"none", "alive", "dead", "gone"}]
          /\ cutoff' \in 1..nextPmId'
      <4>1. cutoff' = cutoff
        BY <2>1 DEF shutVars
      <4>2. managed' \subseteq 1..p
        <5>1. \A q \in managed' : q \in Pm /\ q <= p
          BY <2>1, <2>2, <2>3, MaxPmIsNat DEF Pm
        <5>. QED BY <2>1, <5>1, MaxPmIsNat DEF Pm
      <4>3. child' \in [Pm -> {"none", "alive", "dead", "gone"}]
        BY <2>1, <2>2 DEF TypeOK
      <4>4. cutoff \in 1..p /\ p \in Nat
        BY MaxPmIsNat DEF TypeOK
      <4>. HIDE DEF IInv, p
      <4>. QED BY <2>1, <4>1, <4>2, <4>3, <4>4
    <3>3. UNCHANGED <<daemon, worker, known, told, waiters, timers, shutdownOn>>
      BY <2>1 DEF stopVars, shutVars
    <3>4. TypeOK
      OBVIOUS
    <3>. HIDE DEF IInv, p
    <3>. QED BY <2>2, <2>4, <3>1, <3>2, <3>3, <3>4 DEF TypeOK
  <2>8. TableInv'
    <3>1. \A q \in managed : q # p /\ pname'[q] = pname[q] /\ pname[q] # n
      BY <2>1, <2>3 DEF TypeOK, ManagedByName
    <3>2. pname'[p] = n
      BY <2>1 DEF TypeOK
    <3>3. \A q \in Pm : q \in managed' <=> child'[q] \in {"alive", "dead"}
      BY <2>1, <2>2, <2>3 DEF TypeOK, TableInv
    <3>. QED BY <2>2, <2>6, <3>1, <3>2, <3>3 DEF TableInv
  <2>9. ShutdownInv'
    <3>1. UNCHANGED <<waiters, shutdownOn, cutoff>>
      BY <2>1 DEF stopVars, shutVars
    <3>2. p \in Int /\ cutoff \in Int /\ cutoff <= p
      BY MaxPmIsNat DEF TypeOK
    <3>3. ShutdownInv /\ managed' \subseteq managed \cup {p}
      BY <2>2
    <3>. HIDE DEF IInv, p
    <3>. QED BY <3>1, <3>2, <3>3 DEF ShutdownInv
  <2>10. CallInv' /\ StopAnsweredWhenDead'
    <3>1. /\ nextPmId' \in Nat /\ nextPmId <= nextPmId' /\ p < nextPmId' /\ p \in 0..MaxPm
          /\ \A q \in Pm : q < nextPmId /\ child'[q] = "alive" => child[q] = "alive"
      BY <2>1, <2>2, MaxPmIsNat DEF TypeOK, Pm
    <3>2. waiters' = waiters /\ daemon' = daemon
      BY <2>1 DEF stopVars, shutVars
    <3>3. "ok" \in CallState /\ Answer(c, "ok", p) /\ call[c].st = "sent"
          /\ call[c].op = "start-process"
      BY <2>1 DEF CallState
    <3>. HIDE DEF IInv, p
    <3>. QED BY <3>1, <3>2, <3>3, AnswerKeepsCalls
  <2>. QED BY <2>7, <2>8, <2>9, <2>10
<1>. QED BY <1>1, <1>2

\* stop-process: one more stop call waits for the process of that name.
LEMMA StopSteps ==
  ASSUME IInv, NEW c \in Clients, StopNothing(c) \/ StopProcess(c)
  PROVE  IInv'
<1>1. CASE StopNothing(c)
  <2>1. /\ Answer(c, "ok", 0) /\ call[c].st = "sent" /\ call[c].op = "stop-process"
        /\ UNCHANGED <<nextPmId, pname, managed, child, worker, known, told,
                       waiters, timers, daemon, shutdownOn, cutoff, log>>
    BY <1>1 DEF StopNothing, Serving, tableVars, osVars, stopVars, shutVars
  <2>2. 0 \in 0..MaxPm /\ "ok" \in CallState /\ TypeOK
    BY MaxPmIsNat DEF CallState, IInv
  <2>3. TypeOK'
    BY <2>1, <2>2, AnswerType DEF TypeOK
  <2>4. TableInv' /\ ShutdownInv'
    BY <2>1 DEF IInv, TableInv, ShutdownInv
  <2>5. nextPmId' \in Nat /\ nextPmId <= nextPmId' /\ 0 < nextPmId'
    BY <2>1, <2>2, MaxPmIsNat DEF TypeOK
  <2>6. CallInv' /\ StopAnsweredWhenDead'
    BY <2>1, <2>2, <2>5, AnswerKeepsCalls
  <2>. QED BY <2>3, <2>4, <2>6 DEF IInv
<1>2. CASE StopProcess(c)
  <2>. DEFINE p == First(ManagedByName(call[c].name))
  <2>1. /\ Answer(c, "waiting", p) /\ call[c].st = "sent" /\ call[c].op = "stop-process"
        /\ waiters' = waiters \cup ({c} \X {p})
        /\ timers' = timers \cup ({c} \X {p})
        /\ told' = told \cup ({p} \cap known)
        /\ UNCHANGED <<nextPmId, pname, managed, child, worker, known,
                       daemon, shutdownOn, cutoff, log>>
    BY <1>2 DEF StopProcess, Stop, Serving, tableVars, osVars, shutVars
  <2>2. p \in Pm /\ p < nextPmId /\ p \in 0..MaxPm
    BY <1>2, FirstOfName, MaxPmIsNat DEF StopProcess, IInv, Pm
  <2>. HIDE DEF p
  <2>3. TypeOK /\ "waiting" \in CallState
    BY DEF CallState, IInv
  <2>4. /\ call' \in [Clients -> Calls]
        /\ \A d \in Clients \ {c} : call'[d] = call[d]
        /\ call'[c].op = "stop-process" /\ call'[c].name = call[c].name
        /\ call'[c].st = "waiting" /\ call'[c].pm = p
    BY <2>1, <2>2, <2>3, AnswerType
  <2>5. TypeOK'
    <3>1. waiters' \subseteq Waiter /\ timers' \subseteq waiters' /\ told' \subseteq Pm
      BY <2>1, <2>2, <2>3 DEF TypeOK, Waiter
    <3>. QED BY <2>1, <2>3, <2>4, <3>1 DEF TypeOK
  <2>6. TableInv' /\ ShutdownInv'
    BY <2>1 DEF IInv, TableInv, ShutdownInv
  <2>7. \A d \in Clients : /\ call'[d].op # "none" => call'[d].name \in Names
                           /\ call'[d].pm < nextPmId
    BY <2>1, <2>2, <2>4 DEF IInv, CallInv
  <2>8. ASSUME NEW d \in Clients, NEW q \in Pm, <<d, q>> \in waiters', daemon # "exited"
        PROVE  call'[d].op = "stop-process" /\ call'[d].st = "waiting" /\ call'[d].pm = q
    <3>1. CASE <<d, q>> \in waiters
      <4>1. call[d].op = "stop-process" /\ call[d].st = "waiting" /\ call[d].pm = q
        BY <2>8, <3>1 DEF IInv, CallInv
      <4>. QED BY <2>1, <2>4, <4>1
    <3>2. CASE d = c /\ q = p
      BY <2>4, <3>2
    <3>. QED BY <2>1, <2>8, <3>1, <3>2
  <2>9. StopAnsweredWhenDead'
    BY <2>1, <2>4 DEF IInv, StopAnsweredWhenDead, Alive
  <2>. QED BY <2>1, <2>5, <2>6, <2>7, <2>8, <2>9 DEF IInv, CallInv
<1>. QED BY <1>1, <1>2

\* beginShutdownByKillingChildren: what it leaves true of the table, the
\* shutdown and the stop calls.
LEMMA BeginShutdownStep ==
  ASSUME IInv, BeginShutdown, UNCHANGED <<tableVars, osVars, known, log>>,
         daemon # "exited"
  PROVE  /\ daemon' \in {"running", "closing"} /\ shutdownOn' \in BOOLEAN
         /\ cutoff' \in 1..nextPmId'
         /\ waiters' \subseteq Waiter /\ timers' \subseteq waiters' /\ told' \subseteq Pm
         /\ \A d \in Clients, q \in Pm : <<d, q>> \in waiters' => <<d, q>> \in waiters
         /\ TableInv' /\ ShutdownInv'
<1>1. TypeOK /\ managed \subseteq Pm /\ nextPmId \in 1..nextPmId
  BY MaxPmIsNat DEF IInv, TypeOK, Pm
<1>2. TableInv'
  BY DEF IInv, TableInv, tableVars, osVars
<1>3. CASE shutdownOn /\ UNCHANGED <<stopVars, told, shutVars>>
  BY <1>1, <1>2, <1>3 DEF IInv, TypeOK, ShutdownInv, stopVars, shutVars, tableVars
<1>4. CASE /\ ~shutdownOn /\ shutdownOn' = TRUE /\ cutoff' = nextPmId
           /\ Stop(Shutdown, managed) /\ UNCHANGED daemon
  <2>1. waiters' = waiters \cup ({Shutdown} \X managed)
        /\ timers' = timers \cup ({Shutdown} \X managed)
        /\ told' = told \cup (managed \cap known)
    BY <1>4 DEF Stop
  <2>2. waiters' \subseteq Waiter /\ timers' \subseteq waiters' /\ told' \subseteq Pm
    BY <1>1, <2>1 DEF TypeOK, Waiter
  <2>3. \A d \in Clients, q \in Pm : <<d, q>> \in waiters' => <<d, q>> \in waiters
    BY <2>1, ShutdownIsNoClient
  <2>4. ShutdownInv'
    BY <1>4, <2>1 DEF ShutdownInv, tableVars
  <2>. QED BY <1>1, <1>2, <1>4, <2>2, <2>3, <2>4 DEF TypeOK, tableVars
<1>5. CASE /\ ~shutdownOn /\ managed = {} /\ daemon' = "closing" /\ cutoff' = nextPmId
           /\ UNCHANGED <<shutdownOn, stopVars, told>>
  <2>1. ShutdownInv'
    BY <1>5 DEF ShutdownInv, tableVars
  <2>. QED BY <1>1, <1>2, <1>5, <2>1 DEF TypeOK, tableVars, stopVars
<1>. QED BY <1>3, <1>4, <1>5 DEF BeginShutdown, ToShutDown

\* kill-daemon, SIGINT and SIGTERM.
LEMMA ShutdownSteps ==
  ASSUME IInv, (\E c \in Clients : KillDaemon(c)) \/ Signal
  PROVE  IInv'
<1>1. BeginShutdown /\ daemon # "exited"
      /\ UNCHANGED <<tableVars, osVars, known, log>>
  BY DEF KillDaemon, Signal, Serving
<1>2. /\ daemon' \in {"running", "closing"} /\ shutdownOn' \in BOOLEAN
      /\ cutoff' \in 1..nextPmId'
      /\ waiters' \subseteq Waiter /\ timers' \subseteq waiters' /\ told' \subseteq Pm
      /\ \A d \in Clients, q \in Pm : <<d, q>> \in waiters' => <<d, q>> \in waiters
      /\ TableInv' /\ ShutdownInv'
  BY <1>1, BeginShutdownStep
<1>3. UNCHANGED <<nextPmId, pname, managed, child, worker, known, log>>
  BY <1>1 DEF tableVars, osVars
<1>4. TypeOK
  BY DEF IInv
<1>5. CASE \E c \in Clients : KillDaemon(c)
  <2>1. PICK c \in Clients : KillDaemon(c)
    BY <1>5
  <2>2. PICK st \in {"waiting", "ok"} : Answer(c, st, 0)
    BY <2>1 DEF KillDaemon
  <2>3. call[c].st = "sent" /\ call[c].op = "kill-daemon"
    BY <2>1 DEF KillDaemon, Serving
  <2>4. 0 \in 0..MaxPm /\ st \in CallState
    BY MaxPmIsNat DEF CallState
  <2>5. TypeOK'
    BY <1>2, <1>3, <1>4, <2>2, <2>4, AnswerType DEF TypeOK
  <2>6. nextPmId' \in Nat /\ nextPmId <= nextPmId' /\ 0 < nextPmId'
    BY <1>3, <1>4, MaxPmIsNat DEF TypeOK
  <2>7. CallInv' /\ StopAnsweredWhenDead'
    BY <1>1, <1>2, <1>3, <2>2, <2>3, <2>4, <2>6, AnswerKeepsCalls
  <2>. QED BY <1>2, <2>5, <2>7 DEF IInv
<1>6. CASE Signal
  <2>1. call' = call
    BY <1>6 DEF Signal
  <2>2. TypeOK'
    BY <1>2, <1>3, <1>4, <2>1 DEF TypeOK
  <2>3. CallInv' /\ StopAnsweredWhenDead'
    BY <1>1, <1>2, <1>3, <2>1 DEF IInv, CallInv, StopAnsweredWhenDead, Alive
  <2>. QED BY <1>2, <2>2, <2>3 DEF IInv
<1>. QED BY <1>5, <1>6

\* The escalation timeout: SIGKILL may end the child and its workers.
LEMMA TimeoutStep ==
  ASSUME IInv, NEW w \in Waiter, StopTimeout(w)
  PROVE  IInv'
<1>1. /\ UNCHANGED <<nextPmId, pname, managed, known, call, waiters, daemon,
                     shutdownOn, cutoff, log>>
      /\ timers' = timers \ {w} /\ Kill({w[2]})
  BY DEF StopTimeout, tableVars, shutVars
<1>2. TypeOK'
  BY <1>1 DEF IInv, TypeOK, Kill
<1>3. \A p \in Pm : /\ child'[p] \in {"alive", "dead"} <=> child[p] \in {"alive", "dead"}
                    /\ child'[p] = "alive" => child[p] = "alive"
  BY <1>1 DEF Kill, Alive
<1>4. TableInv' /\ ShutdownInv'
  BY <1>1, <1>3 DEF IInv, TableInv, ShutdownInv
<1>5. CallInv'
  BY <1>1 DEF IInv, CallInv
<1>6. StopAnsweredWhenDead'
  BY <1>1, <1>3 DEF IInv, StopAnsweredWhenDead, Alive, TypeOK, Calls, Pm
<1>. QED BY <1>2, <1>4, <1>5, <1>6 DEF IInv

\* process.exit: SIGKILL for the first process of the table, and the connections
\* of the calls in progress close.
LEMMA ExitDaemonStep ==
  ASSUME IInv, ExitDaemon
  PROVE  IInv'
<1>1. PICK S : /\ Kill(S) /\ daemon' = "exited"
               /\ UNCHANGED <<nextPmId, pname, managed, known, waiters, timers,
                              shutdownOn, cutoff, log>>
  BY DEF ExitDaemon, tableVars, stopVars
<1>2. \A c \in Clients : /\ call'[c] \in Calls
                         /\ call'[c].op = call[c].op /\ call'[c].name = call[c].name
                         /\ call'[c].pm = call[c].pm
                         /\ call'[c].st = "ok" => call[c].st = "ok"
  BY DEF ExitDaemon, IInv, TypeOK, Calls, CallState
<1>3. call' \in [Clients -> Calls]
  BY <1>2 DEF ExitDaemon
<1>4. TypeOK'
  BY <1>1, <1>3 DEF IInv, TypeOK, Kill
<1>5. \A p \in Pm : /\ child'[p] \in {"alive", "dead"} <=> child[p] \in {"alive", "dead"}
                    /\ child'[p] = "alive" => child[p] = "alive"
  BY <1>1 DEF Kill, Alive
<1>6. TableInv' /\ ShutdownInv'
  BY <1>1, <1>5 DEF IInv, TableInv, ShutdownInv
<1>7. CallInv'
  BY <1>1, <1>2 DEF IInv, CallInv
<1>8. StopAnsweredWhenDead'
  BY <1>2, <1>5 DEF IInv, StopAnsweredWhenDead, Alive, TypeOK, Calls, Pm
<1>. QED BY <1>4, <1>6, <1>7, <1>8 DEF IInv

\* The 'exit' event of a child: it leaves the table, the calls that waited for
\* it are answered, and the shutdown is over if it was the last it waited for.
LEMMA ExitedStep ==
  ASSUME IInv, NEW p \in Pm, Exited(p)
  PROVE  IInv'
<1>. DEFINE done == {w \in waiters : w[2] = p}
            left == waiters \ done
            over == shutdownOn /\ \A w \in left : w[1] # Shutdown
<1>1. /\ daemon # "exited" /\ child[p] = "dead"
      /\ child' = [child EXCEPT ![p] = "gone"]
      /\ managed' = managed \ {p}
      /\ waiters' = left /\ timers' = timers \ done
      /\ log' = [log EXCEPT ![pname[p]] = @ \o ExitEvents(p, Cardinality(done))]
      /\ shutdownOn' = (shutdownOn /\ ~over)
      /\ daemon' = IF over THEN "closing" ELSE daemon
      /\ UNCHANGED <<nextPmId, pname, worker, known, told, cutoff>>
  BY DEF Exited, ShutdownOver
<1>2. TypeOK /\ TableInv /\ ShutdownInv
  BY DEF IInv
<1>3. p \in managed /\ pname[p] \in Names
  BY <1>1, <1>2 DEF TableInv
<1>4. ASSUME NEW c \in Clients
      PROVE  /\ call'[c] \in Calls
             /\ call'[c].op = call[c].op /\ call'[c].name = call[c].name
             /\ call'[c].pm = call[c].pm
             /\ call'[c] = call[c] \/ <<c, p>> \in waiters \/ call[c].op = "kill-daemon"
  <2>1. call[c] \in Calls
    BY <1>2 DEF TypeOK
  <2>2. \/ call'[c] = call[c]
        \/ /\ <<c, p>> \in waiters \/ call[c].op = "kill-daemon"
           /\ call'[c] = [call[c] EXCEPT !.st = "ok"]
    BY DEF Exited
  <2>. QED BY <2>1, <2>2 DEF Calls, CallState
<1>5. TypeOK'
  <2>1. call' \in [Clients -> Calls]
    BY <1>4 DEF Exited
  <2>2. ExitEvents(p, Cardinality(done)) \in Seq(Events)
    <3>1. done \subseteq Waiter
      BY <1>2 DEF TypeOK
    <3>. QED BY <3>1, ExitEventsType
  <2>3. log' \in [Names -> Seq(Events)]
    BY <1>1, <1>2, <2>2, ConcatProperties DEF TypeOK
  <2>4. /\ daemon' \in {"running", "closing", "exited"} /\ shutdownOn' \in BOOLEAN
        /\ waiters' \subseteq Waiter /\ timers' \subseteq waiters'
        /\ child' \in [Pm -> {"none", "alive", "dead", "gone"}]
        /\ managed' \subseteq 1..(nextPmId - 1)
    BY <1>1, <1>2 DEF TypeOK
  <2>. QED BY <1>1, <1>2, <2>1, <2>3, <2>4 DEF TypeOK
<1>6. TableInv'
  BY <1>1, <1>2 DEF TableInv, TypeOK
<1>7. ShutdownInv'
  <2>1. ASSUME shutdownOn', NEW q \in managed', q < cutoff
        PROVE  <<Shutdown, q>> \in waiters'
    BY <1>1, <1>2, <2>1 DEF ShutdownInv
  <2>2. ASSUME ~shutdownOn', NEW q \in managed'
        PROVE  q >= cutoff
    <3>1. q \in managed /\ q # p
      BY <1>1
    <3>2. CASE ~shutdownOn
      BY <1>2, <3>1, <3>2 DEF ShutdownInv
    <3>3. CASE over
      <4>1. <<Shutdown, q>> \notin waiters
        BY <3>1, <3>3
      <4>2. ~(q < cutoff)
        BY <1>2, <3>1, <3>3, <4>1 DEF ShutdownInv
      <4>3. q \in Int /\ cutoff \in Int
        BY <1>2, <3>1, MaxPmIsNat DEF TypeOK
      <4>. QED BY <4>2, <4>3
    <3>. QED BY <1>1, <2>2, <3>2, <3>3
  <2>. QED BY <1>1, <2>1, <2>2 DEF ShutdownInv
<1>8. CallInv'
  <2>1. \A c \in Clients : /\ call'[c].op # "none" => call'[c].name \in Names
                           /\ call'[c].pm < nextPmId
    BY <1>4 DEF IInv, CallInv
  <2>2. ASSUME NEW c \in Clients, NEW q \in Pm, <<c, q>> \in waiters'
        PROVE  call'[c].op = "stop-process" /\ call'[c].st = "waiting" /\ call'[c].pm = q
    <3>1. <<c, q>> \in waiters /\ q # p
      BY <1>1, <2>2
    <3>2. call[c].op = "stop-process" /\ call[c].st = "waiting" /\ call[c].pm = q
      BY <1>1, <3>1 DEF IInv, CallInv
    <3>3. <<c, p>> \notin waiters
      BY <1>1, <3>1, <3>2 DEF IInv, CallInv
    <3>. QED BY <1>4, <3>2, <3>3
  <2>. QED BY <1>1, <2>1, <2>2 DEF CallInv
<1>9. StopAnsweredWhenDead'
  <2>. SUFFICES ASSUME NEW c \in Clients,
                       call'[c].op = "stop-process", call'[c].st = "ok", call'[c].pm # 0
                PROVE  child'[call'[c].pm] # "alive"
    BY DEF StopAnsweredWhenDead, Alive
  <2>1. call[c].pm \in Pm
    <3>1. call'[c].pm \in 0..MaxPm
      <4>1. call'[c] \in Calls
        BY <1>4
      <4>. QED BY <4>1 DEF Calls
    <3>2. call'[c].pm = call[c].pm
      BY <1>4
    <3>. QED BY <3>1, <3>2, MaxPmIsNat DEF Pm
  <2>2. CASE call[c].st = "ok"
    BY <1>1, <1>2, <1>4, <2>1, <2>2 DEF IInv, StopAnsweredWhenDead, Alive, TypeOK
  <2>3. CASE <<c, p>> \in waiters
    <3>1. call[c].pm = p
      BY <1>1, <2>3 DEF IInv, CallInv
    <3>. QED BY <1>1, <1>2, <1>4, <3>1 DEF TypeOK
  <2>. QED BY <1>4, <2>2, <2>3
<1>. QED BY <1>5, <1>6, <1>7, <1>8, <1>9 DEF IInv

\* What the children and their workers do by themselves.
LEMMA OsSteps ==
  ASSUME IInv, NEW p \in Pm,
         \/ WorkerReported(p) \/ WorkerStarts(p) \/ WorkerExits(p)
         \/ ChildQuits(p) \/ ChildCrashes(p)
  PROVE  IInv'
<1>1. /\ UNCHANGED <<nextPmId, pname, managed, call, waiters, timers, daemon,
                     shutdownOn, cutoff, log>>
      /\ known' \in SUBSET Pm /\ told' \in SUBSET Pm
      /\ child' \in [Pm -> {"none", "alive", "dead", "gone"}]
      /\ worker' \in [Pm -> {"none", "alive", "dead"}]
  BY DEF IInv, TypeOK, WorkerReported, WorkerStarts, WorkerExits, ChildQuits,
         ChildCrashes, tableVars, osVars, stopVars, shutVars
<1>2. \A q \in Pm : /\ child'[q] \in {"alive", "dead"} <=> child[q] \in {"alive", "dead"}
                    /\ child'[q] = "alive" => child[q] = "alive"
  BY DEF IInv, TypeOK, Alive, WorkerReported, WorkerStarts, WorkerExits,
         ChildQuits, ChildCrashes, osVars
<1>3. TypeOK'
  BY <1>1 DEF IInv, TypeOK
<1>4. TableInv' /\ ShutdownInv'
  BY <1>1, <1>2 DEF IInv, TableInv, ShutdownInv
<1>5. CallInv'
  BY <1>1 DEF IInv, CallInv
<1>6. StopAnsweredWhenDead'
  BY <1>1, <1>2 DEF IInv, StopAnsweredWhenDead, Alive, TypeOK, Calls, Pm
<1>. QED BY <1>3, <1>4, <1>5, <1>6 DEF IInv

\* The invariant is inductive.
THEOREM Invariance == Spec => []IInv
<1>1. ASSUME IInv, [Next]_vars PROVE IInv'
  <2>1. CASE UNCHANGED vars
    BY <1>1, <2>1 DEF IInv, TypeOK, TableInv, ShutdownInv, CallInv, StopAnsweredWhenDead,
       Alive, vars, tableVars, osVars, stopVars, shutVars
  <2>2. CASE Next
    BY <1>1, <2>2, ClientSteps, StartSteps, StopSteps, ShutdownSteps, TimeoutStep,
       ExitDaemonStep, ExitedStep, OsSteps DEF Next
  <2>. QED BY <1>1, <2>1, <2>2
<1>. QED BY <1>1, InitInv, PTL DEF Spec

\* Type correctness of the daemon's state.
THEOREM TypeCorrect == Spec => []TypeOK
<1>1. IInv => TypeOK
  BY DEF IInv
<1>. QED BY <1>1, Invariance, PTL

\* A stop-process request is answered only when the child it found is dead.
THEOREM StopIsSafe == Spec => []StopAnsweredWhenDead
<1>1. IInv => StopAnsweredWhenDead
  BY DEF IInv
<1>. QED BY <1>1, Invariance, PTL

\* Live children are in the table, so stop-process and kill-daemon reach them.
THEOREM TableIsComplete == Spec => []LiveChildIsManaged
<1>1. IInv => LiveChildIsManaged
  BY DEF IInv, TableInv, LiveChildIsManaged, Alive
<1>. QED BY <1>1, Invariance, PTL

\* No two live children share a name.
THEOREM OneServerPerSite == Spec => []OneLiveChildPerName
<1>1. IInv => OneLiveChildPerName
  BY DEF IInv, TableInv, OneLiveChildPerName, Alive
<1>. QED BY <1>1, Invariance, PTL

\* A shutdown that is over has ended every child started before it began.
THEOREM ShutdownIsComplete == Spec => []ShutdownKillsAllBefore
<1>1. IInv => ShutdownKillsAllBefore
  <2>1. ASSUME IInv, ~shutdownOn, NEW p \in Pm, p < cutoff PROVE ~Alive(p)
    <3>1. p \notin managed
      <4>1. p \in Int /\ cutoff \in Int
        BY <2>1, MaxPmIsNat DEF IInv, TypeOK, Pm
      <4>. QED BY <2>1, <4>1 DEF IInv, ShutdownInv
    <3>. QED BY <2>1, <3>1 DEF IInv, TableInv, Alive
  <2>. QED BY <2>1 DEF ShutdownKillsAllBefore
<1>. QED BY <1>1, Invariance, PTL

-----------------------------------------------------------------------------
(* The daemon implements ServiceSlots: each of its steps is a step of the    *)
(* abstract specification, or one that it does not see.                      *)

\* What the mapping makes of a table: the process that holds slot n.
SlotOf(table, names, n) ==
  LET S == {p \in table : names[p] = n} IN IF S = {} THEN 0 ELSE First(S)
SlotMap == [n \in Names |-> SlotOf(managed, pname, n)]

\* The id of a slot is that of the only process with its name.
LEMMA SlotOfOne ==
  ASSUME NEW table, NEW names, NEW n, NEW p \in Nat, {q \in table : names[q] = n} = {p}
  PROVE  SlotOf(table, names, n) = p
<1>1. First({p}) = p BY DEF First
<1>. QED BY <1>1 DEF SlotOf

\* A slot whose name no process of the table has is empty.
LEMMA SlotOfNone ==
  ASSUME NEW table, NEW names, NEW n, \A q \in table : names[q] # n
  PROVE  SlotOf(table, names, n) = 0
BY DEF SlotOf

\* A change of the table that does not touch the processes of n leaves its slot.
LEMMA SlotOfSame ==
  ASSUME NEW table, NEW names, NEW n, NEW table2, NEW names2,
         \A q : q \in table /\ names[q] = n <=> q \in table2 /\ names2[q] = n
  PROVE  SlotOf(table2, names2, n) = SlotOf(table, names, n)
<1>1. {q \in table2 : names2[q] = n} = {q \in table : names[q] = n}
  OBVIOUS
<1>. QED BY <1>1 DEF SlotOf

\* The empty table is the empty set of slots.
LEMMA InitIsInit == Init => Slots!Init
<1>. SUFFICES ASSUME Init PROVE Slots!Init OBVIOUS
<1>1. SlotMap = [n \in Names |-> 0] BY SlotOfNone DEF Init, SlotMap
<1>. QED BY <1>1 DEF Init, SlotMap, SlotOf, Slots!Init

\* A spawn launches an instance in the slot of its name.
LEMMA StartIsLaunch ==
  ASSUME IInv, NEW c \in Clients, StartProcess(c), NEW n \in Names, call[c].name = n
  PROVE  Slots!Launch(n)
<1>. DEFINE p == nextPmId
<1>1. /\ ManagedByName(n) = {} /\ nextPmId' = p + 1 /\ p \in Pm
      /\ pname' = [pname EXCEPT ![p] = n] /\ managed' = managed \cup {p}
      /\ log' = [log EXCEPT ![n] = Append(@, Event("online", p))]
  BY MaxPmIsNat DEF StartProcess, TakePmId, IInv, TypeOK, Pm
<1>2. p \in Nat /\ p \notin managed /\ p + 1 - 1 = p /\ p - 1 + 1 = p
      /\ pname \in [Pm -> Names \cup {"none"}] /\ managed \subseteq Pm /\ log \in [Names -> Seq(Events)]
  BY <1>1, MaxPmIsNat DEF IInv, TypeOK, Pm
<1>3. SlotMap[n] = 0 BY <1>1, SlotOfNone DEF SlotMap, ManagedByName
<1>4. SlotOf(managed', pname', n) = p
  <2>1. pname'[p] = n /\ p \in managed' /\ p \in Nat
    BY <1>1, <1>2
  <2>2. \A q \in managed' : pname'[q] = n => q = p
    BY <1>1, <1>2 DEF ManagedByName
  <2>. HIDE DEF p
  <2>3. {q \in managed' : pname'[q] = n} = {p} BY <2>1, <2>2
  <2>. QED BY <2>1, <2>3, SlotOfOne
<1>5. ASSUME NEW m \in Names, m # n
      PROVE  SlotOf(managed', pname', m) = SlotOf(managed, pname, m)
  <2>1. \A q : q \in managed /\ pname[q] = m <=> q \in managed' /\ pname'[q] = m
    BY <1>1, <1>2, <1>5
  <2>. QED BY <2>1, SlotOfSame
<1>6. SlotMap' = [SlotMap EXCEPT ![n] = p - 1 + 1]
  BY <1>2, <1>4, <1>5 DEF SlotMap
<1>7. log' = [log EXCEPT ![n] = @ \o <<Event("online", p - 1 + 1)>>]
  <2>1. Event("online", p) \in Events BY <1>1 DEF Event, Events
  <2>2. Append(log[n], Event("online", p)) = log[n] \o <<Event("online", p)>>
    BY <1>1, <1>2, <2>1, AppendIsConcat
  <2>. QED BY <1>1, <1>2, <2>2
<1>8. nextPmId' - 1 = nextPmId - 1 + 1 BY <1>1, <1>2
<1>. QED BY <1>3, <1>6, <1>7, <1>8, <1>1
        DEF Slots!Launch, Slots!Say, Slots!Event, Event, SlotMap, SlotOf

\* A spawn that fails spends an id, and its slot stays empty.
LEMMA FailureIsFailure ==
  ASSUME IInv, NEW c \in Clients, StartFails(c), NEW n \in Names, call[c].name = n
  PROVE  Slots!LaunchFails(n)
<1>. DEFINE p == nextPmId
<1>1. /\ ManagedByName(n) = {} /\ nextPmId' = p + 1 /\ p \in Pm
      /\ pname' = [pname EXCEPT ![p] = n] /\ managed' = managed
      /\ log' = [log EXCEPT ![n] = @ \o <<Event("online", p), Event("exit", p)>>]
  BY MaxPmIsNat DEF StartFails, TakePmId, IInv, TypeOK, Pm
<1>2. p \in Nat /\ p \notin managed /\ p + 1 - 1 = p /\ p - 1 + 1 = p
  BY <1>1, MaxPmIsNat DEF IInv, TypeOK, Pm
<1>3. SlotMap[n] = 0 BY <1>1, SlotOfNone DEF SlotMap, ManagedByName
<1>4. ASSUME NEW m \in Names
      PROVE  SlotOf(managed', pname', m) = SlotOf(managed, pname, m)
  <2>1. \A q : q \in managed /\ pname[q] = m <=> q \in managed' /\ pname'[q] = m
    BY <1>1, <1>2 DEF IInv, TypeOK
  <2>. QED BY <2>1, SlotOfSame
<1>5. SlotMap' = SlotMap BY <1>4 DEF SlotMap
<1>6. nextPmId' - 1 = nextPmId - 1 + 1 BY <1>1, <1>2
<1>. QED BY <1>1, <1>2, <1>3, <1>5, <1>6
        DEF Slots!LaunchFails, Slots!Say, Slots!Event, Event, SlotMap, SlotOf

\* At most every client and the shutdown wait for one process.
LEMMA FewWait ==
  ASSUME waiters \subseteq Waiter, NEW p \in Pm
  PROVE  Cardinality({w \in waiters : w[2] = p}) \in 0..(Cardinality(Clients) + 1)
<1>. DEFINE done == {w \in waiters : w[2] = p}
            all == Clients \cup {Shutdown}
            who == [w \in done |-> w[1]]
<1>1. IsFiniteSet(all) /\ Cardinality(all) = Cardinality(Clients) + 1
  BY ClientsAreFinite, ShutdownIsNoClient, FS_AddElement
<1>2. \A w \in done : w = <<w[1], p>> /\ w[1] \in all BY DEF Waiter
<1>3. who \in Injection(done, all)
  BY <1>2 DEF Injection, IsInjective
<1>4. IsFiniteSet(done) /\ Cardinality(done) <= Cardinality(all)
  BY <1>1, <1>3, FS_Injection
<1>5. Cardinality(done) \in Nat /\ Cardinality(Clients) \in Nat
  BY <1>4, ClientsAreFinite, FS_CardinalityType
<1>. QED BY <1>1, <1>4, <1>5

\* The exit of a child ends the instance of its slot, and tells so once for
\* itself and once for every stop call.
LEMMA ExitIsEnd ==
  ASSUME IInv, NEW p \in Pm, Exited(p), NEW n \in Names, pname[p] = n
  PROVE  \E stops \in 0..(Cardinality(Clients) + 1) : Slots!End(n, stops)
<1>7. PICK stops \in 0..(Cardinality(Clients) + 1) :
        stops = Cardinality({w \in waiters : w[2] = p})
  BY FewWait DEF IInv, TypeOK
<1>1. /\ child[p] = "dead" /\ managed' = managed \ {p}
      /\ log' = [log EXCEPT ![n] = @ \o ExitEvents(p, stops)]
      /\ nextPmId' = nextPmId /\ pname' = pname
  BY <1>7 DEF Exited
<1>2. /\ p \in managed /\ n \in Names /\ p \in Nat /\ p # 0
      /\ \A q \in managed : pname[q] = n => q = p
  BY <1>1 DEF IInv, TableInv, Pm
<1>3. SlotMap[n] = p
  <2>1. {q \in managed : pname[q] = n} = {p} BY <1>2
  <2>2. SlotOf(managed, pname, n) = p BY <1>2, <2>1, SlotOfOne
  <2>. QED BY <2>2 DEF SlotMap
<1>4. SlotOf(managed', pname', n) = 0 BY <1>1, <1>2, SlotOfNone
<1>5. ASSUME NEW m \in Names, m # n
      PROVE  SlotOf(managed', pname', m) = SlotOf(managed, pname, m)
  <2>1. \A q : q \in managed /\ pname[q] = m <=> q \in managed' /\ pname'[q] = m
    BY <1>1, <1>5
  <2>. QED BY <2>1, SlotOfSame
<1>6. SlotMap' = [SlotMap EXCEPT ![n] = 0] BY <1>2, <1>4, <1>5 DEF SlotMap
<1>8. ExitEvents(p, stops)
      = <<Slots!Event("exit", p)>> \o [i \in 1..stops |-> Slots!Event("delete", p)]
  BY DEF ExitEvents, Event, Slots!Event
<1>9. Slots!End(n, stops)
  BY <1>1, <1>2, <1>3, <1>6, <1>8 DEF Slots!End, Slots!Say, SlotMap, SlotOf
<1>. QED BY <1>9

\* Nothing else changes the table, hands out an id or broadcasts an event.
LEMMA OthersStutter ==
  ASSUME Next,
         \A c \in Clients : ~StartProcess(c) /\ ~StartFails(c),
         \A p \in Pm : ~Exited(p)
  PROVE  UNCHANGED <<nextPmId, pname, managed, log>>
BY DEF Next, Request, Acknowledge, Refuse, StartExisting, StopNothing, StopProcess, KillDaemon,
       Signal, ExitDaemon, StopTimeout, WorkerReported, WorkerStarts, WorkerExits, ChildQuits,
       ChildCrashes, tableVars

\* Every step of the daemon is one of the slots, or leaves them as they are.
LEMMA StepIsStep == IInv /\ [Next]_vars => [Slots!Next]_(Slots!vars)
<1>. SUFFICES ASSUME IInv, [Next]_vars PROVE [Slots!Next]_(Slots!vars) OBVIOUS
<1>1. CASE \E c \in Clients : StartProcess(c) \/ StartFails(c)
  <2>1. PICK c \in Clients : StartProcess(c) \/ StartFails(c) BY <1>1
  <2>2. PICK n \in Names : call[c].name = n
    BY <2>1 DEF StartProcess, StartFails, Serving, IInv, CallInv
  <2>. QED BY <2>1, <2>2, StartIsLaunch, FailureIsFailure DEF Slots!Next
<1>2. CASE \E p \in Pm : Exited(p)
  <2>1. PICK p \in Pm : Exited(p) BY <1>2
  <2>2. PICK n \in Names : pname[p] = n BY <2>1 DEF Exited, IInv, TableInv
  <2>. QED BY <2>1, <2>2, ExitIsEnd DEF Slots!Next
<1>3. CASE /\ \A c \in Clients : ~StartProcess(c) /\ ~StartFails(c)
           /\ \A p \in Pm : ~Exited(p)
  <2>1. UNCHANGED <<nextPmId, pname, managed, log>>
    BY <1>3, OthersStutter DEF vars, tableVars
  <2>. QED BY <2>1 DEF Slots!vars
<1>. QED BY <1>1, <1>2, <1>3

\* The process manager implements ServiceSlots, for every set of names and
\* clients: the events of a name tell one story after the other.
THEOREM Implements == Spec => ImplementsSlots
<1>. QED BY InitIsInit, StepIsStep, Invariance, PTL DEF Spec, ImplementsSlots, Slots!Spec

-----------------------------------------------------------------------------
(* DaemonConnect: the invariants                                             *)

Leaving == {"none", "ending", "ended", "draining"}

(* Only a command that is connected has a stream.                            *)
StreamsInv == \A c \in Commands : bus[c] # Nobody => step[c] = "connected"

(* Who works under the lock holds it; a daemon that starts is the one the    *)
(* holder of the lock waits for, or may be that of a holder that was killed. *)
LockInv ==
  /\ \A c \in Commands : step[c] \in Holding => lock = c
  /\ \A d \in Daemons : at[d] \in Starting =>
       lock = Stale \/ (lock \in Commands /\ step[lock] = "wait" /\ spawned[lock] = d)

(* Where a daemon listens at each stage.                                     *)
StageInv ==
  /\ \A d \in Daemons : at[d] \in {"up", "closing"} => listening[d] = Endpoints
  /\ \A d \in Daemons : at[d] \in {"ending", "ended"} => listening[d] = {"events"}
  /\ \A d \in Daemons : at[d] \in {"none", "draining"} => listening[d] = {}
  /\ \A d \in Daemons : at[d] \in Starting => "control" \notin listening[d]

(* All daemons but one are on their way out.                                 *)
OneStays == \A d1, d2 \in Daemons : at[d1] \notin Leaving /\ at[d2] \notin Leaving => d1 = d2

(* The socket files are of those who listen; a daemon removes the file only  *)
(* of an endpoint where nobody listens.                                      *)
FilesInv ==
  /\ \A d \in Daemons : \A e \in listening[d] : file[e] = d
  /\ \A d \in Daemons : at[d] \in {"unlink", "rebind"} =>
       \A q \in Daemons : ToBind(d) \notin listening[q]
  /\ \A d \in Daemons : at[d] = "rebind" => file[ToBind(d)] = Nobody

(* The other end of a stream that is not late serves events, and was not told *)
(* to end its streams.                                                       *)
BusInv ==
  \A c \in Commands \ late : bus[c] # Nobody =>
    "events" \in listening[bus[c]] /\ at[bus[c]] # "ended"

(* No daemon has its events socket only.                                     *)
WholeInv == \A d \in Daemons : at[d] # "half"

Calm == LockInv /\ StageInv /\ OneStays /\ FilesInv /\ BusInv /\ WholeInv

(* Nothing is claimed once a lock was taken over from a command at work, or  *)
(* given back while its daemon was starting.                                 *)
ConnectInv == ConnectTypeOK /\ StreamsInv /\ (~stolen => Calm)

-----------------------------------------------------------------------------
(* Types *)

Stages == {"none", "bind", "probe", "unlink", "rebind", "up", "half", "closing",
           "ending", "ended", "draining"}

(* The daemon that a connection reaches listens there, and has the file.     *)
LEMMA ServerListens ==
  ASSUME ConnectTypeOK, NEW e \in Endpoints
  PROVE  /\ Server(e) \in Daemons \cup {Nobody}
         /\ Server(e) # Nobody => file[e] = Server(e) /\ e \in listening[Server(e)]
         /\ \A d \in Daemons : file[e] = d /\ e \in listening[d] => Server(e) = d
  BY NamesAreDistinct DEF Server, ConnectTypeOK

(* A daemon that starts binds events first, then control.                    *)
LEMMA ToBindIsEndpoint == ASSUME NEW d \in Daemons PROVE ToBind(d) \in Endpoints
  BY DEF ToBind, Endpoints

(* A process that is gone leaves everything typed, and its commands alone.   *)
LEMMA GoneFits ==
  ASSUME ConnectTypeOK, StreamsInv, NEW d \in Daemons, Gone(d)
  PROVE  /\ at' = [at EXCEPT ![d] = "none"] /\ listening' = [listening EXCEPT ![d] = {}]
         /\ at' \in [Daemons -> Stages] /\ listening' \in [Daemons -> SUBSET Endpoints]
         /\ spawned' \in [Commands -> Daemons \cup {Nobody}]
         /\ bus' \in [Commands -> Daemons \cup {Nobody}]
         /\ late' \subseteq {c \in Commands : bus'[c] # Nobody}
         /\ \A c \in Commands : bus'[c] = IF bus[c] = d THEN Nobody ELSE bus[c]
         /\ \A c \in Commands : spawned'[c] = IF spawned[c] = d THEN Nobody ELSE spawned[c]
         /\ \A c \in Commands : bus'[c] # Nobody => (c \in late' <=> c \in late)
  BY DEF Gone, Set, Disconnect, ConnectTypeOK, Stages

(* A step of a daemon keeps the types, and streams are left to the connected.*)
LEMMA DaemonTypes ==
  ASSUME ConnectTypeOK, StreamsInv, NEW d \in Daemons,
         \/ Bind(d) \/ Probe(d) \/ Unlink(d) \/ Rebind(d) \/ ShutDown(d) \/ CloseControl(d)
         \/ EndEvents(d) \/ CloseEvents(d) \/ Exit(d) \/ Crash(d)
  PROVE  ConnectTypeOK' /\ StreamsInv'
<1>. USE ToBindIsEndpoint
<1>1. CASE Bind(d)
  BY <1>1 DEF Bind, Bound, Set, ConnectTypeOK, StreamsInv, commandVars, streamVars
<1>f. ASSUME ListenFails(d) PROVE ConnectTypeOK' /\ StreamsInv'
  <2>1. CASE Gone(d) BY <1>f, <2>1, GoneFits DEF ListenFails, ConnectTypeOK, StreamsInv, Stages
  <2>2. CASE Set(d, "half") /\ UNCHANGED <<listening, streamVars, spawned>>
    BY <1>f, <2>2 DEF ListenFails, Set, ConnectTypeOK, StreamsInv, streamVars
  <2>. QED BY <1>f, <2>1, <2>2 DEF ListenFails
<1>2. CASE Probe(d)
  BY <1>2, <1>f DEF Probe, Set, ConnectTypeOK, StreamsInv, commandVars, streamVars
<1>3. CASE Unlink(d)
  BY <1>3 DEF Unlink, Set, ConnectTypeOK, StreamsInv, commandVars, streamVars
<1>4. CASE Rebind(d)
  BY <1>4, <1>f DEF Rebind, Bound, Set, ConnectTypeOK, StreamsInv, commandVars, streamVars
<1>5. CASE ShutDown(d)
  BY <1>5 DEF ShutDown, Set, ConnectTypeOK, StreamsInv, commandVars, streamVars
<1>6. CASE CloseControl(d)
  BY <1>6 DEF CloseControl, Close, Set, ConnectTypeOK, StreamsInv, commandVars, streamVars,
       Endpoints
<1>7. CASE EndEvents(d)
  BY <1>7 DEF EndEvents, Disconnect, Set, ConnectTypeOK, StreamsInv, commandVars
<1>8. CASE CloseEvents(d)
  BY <1>8 DEF CloseEvents, Close, Set, ConnectTypeOK, StreamsInv, commandVars, streamVars, Endpoints
<1>9. CASE Exit(d) BY <1>9, GoneFits DEF Exit, ConnectTypeOK, StreamsInv, Stages
<1>10. CASE Crash(d)
  <2>1. file' \in [Endpoints -> Daemons \cup {Stale, Nobody}] BY <1>10 DEF Crash, ConnectTypeOK
  <2>. QED BY <1>10, <2>1, GoneFits DEF Crash, ConnectTypeOK, StreamsInv, Stages
<1>. QED BY <1>1, <1>2, <1>3, <1>4, <1>5, <1>6, <1>7, <1>8, <1>9, <1>10

(* A stream is opened to who serves events, and is late if that one has ended *)
(* its streams already.                                                      *)
LEMMA BusFits ==
  ASSUME ConnectTypeOK, NEW c \in Commands, OpenBus(c), bus[c] = Nobody
  PROVE  /\ bus' = [bus EXCEPT ![c] = Server("events")]
         /\ bus' \in [Commands -> Daemons \cup {Nobody}]
         /\ late' \subseteq {b \in Commands : bus'[b] # Nobody}
         /\ late \subseteq late'
         /\ Server("events") # Nobody /\ at[Server("events")] = "ended" => c \in late'
<1>1. Server("events") \in Daemons \cup {Nobody} BY ServerListens DEF Endpoints
<1>2. c \notin late BY DEF ConnectTypeOK
<1>3. late' \subseteq late \cup {c} BY DEF OpenBus
<1>4. c \in late' => Server("events") # Nobody
  BY <1>2, NamesAreDistinct DEF OpenBus
<1>5. bus' = [bus EXCEPT ![c] = Server("events")] BY DEF OpenBus
<1>6. bus' \in [Commands -> Daemons \cup {Nobody}] BY <1>1, <1>5 DEF ConnectTypeOK
<1>7. late' \subseteq {b \in Commands : bus'[b] # Nobody} BY <1>2, <1>3, <1>4, <1>5,
     <1>6 DEF ConnectTypeOK
<1>8. Server("events") # Nobody /\ at[Server("events")] = "ended" => c \in late'
  BY <1>1 DEF OpenBus
<1>. QED BY <1>5, <1>6, <1>7, <1>8 DEF OpenBus

CommandSteps(c) ==
  \/ Connect(c) \/ Lock(c) \/ LockTimeout(c) \/ PingAnswered(c) \/ PingFails(c)
  \/ WaitTimeout(c) \/ ConnectBus(c) \/ Reconnect(c) \/ Done(c) \/ Interrupted(c) \/ Killed(c)
  \/ \E d \in Daemons : Spawn(c, d)

(* So does a step of a command.                                              *)
LEMMA CommandTypes ==
  ASSUME ConnectTypeOK, StreamsInv, NEW c \in Commands, CommandSteps(c)
  PROVE  ConnectTypeOK' /\ StreamsInv'
<1>. USE DEF Go, Holding, commandVars, streamVars, daemonVars
<1>1. CASE Connect(c) BY <1>1 DEF Connect, ConnectTypeOK, StreamsInv
<1>2. CASE Lock(c) BY <1>2 DEF Lock, ConnectTypeOK, StreamsInv
<1>3. CASE LockTimeout(c) BY <1>3 DEF LockTimeout, ConnectTypeOK, StreamsInv
<1>4. CASE PingAnswered(c) BY <1>4 DEF PingAnswered, ConnectTypeOK, StreamsInv
<1>5. CASE PingFails(c) BY <1>5 DEF PingFails, UnlockAnd, ConnectTypeOK, StreamsInv
<1>6. CASE WaitTimeout(c) BY <1>6 DEF WaitTimeout, UnlockAnd, ConnectTypeOK, StreamsInv
<1>7. CASE ConnectBus(c)
  <2>1. bus[c] = Nobody BY <1>7 DEF ConnectBus, StreamsInv
  <2>2. step' \in [Commands -> Holding \cup {"idle", "lock", "connected", "failed"}]
    BY <1>7 DEF ConnectBus, UnlockAnd, ConnectTypeOK
  <2>3. ConnectTypeOK' BY <1>7, <2>1, <2>2, BusFits DEF ConnectBus, UnlockAnd, ConnectTypeOK
  <2>4. bus' = [bus EXCEPT ![c] = Server("events")] BY <1>7, <2>1, BusFits DEF ConnectBus
  <2>5. step' = [step EXCEPT ![c] = IF Server("events") = Nobody THEN "failed" ELSE "connected"]
    BY <1>7 DEF ConnectBus, UnlockAnd
  <2>. QED BY <2>3, <2>4, <2>5 DEF ConnectTypeOK, StreamsInv
<1>8. CASE Reconnect(c)
  <2>1. bus[c] = Nobody /\ step[c] = "connected" BY <1>8 DEF Reconnect
  <2>2. ConnectTypeOK' BY <1>8, <2>1, BusFits DEF Reconnect, ConnectTypeOK
  <2>3. bus' = [bus EXCEPT ![c] = Server("events")] BY <1>8, <2>1, BusFits DEF Reconnect
  <2>. QED BY <1>8, <2>1, <2>2, <2>3 DEF Reconnect, ConnectTypeOK, StreamsInv
<1>9. CASE Done(c) BY <1>9 DEF Done, Disconnect, ConnectTypeOK, StreamsInv
<1>10. CASE \E d \in Daemons : Spawn(c, d)
  BY <1>10 DEF Spawn, Set, ConnectTypeOK, StreamsInv
<1>11. CASE Interrupted(c)
  BY <1>11 DEF Interrupted, Ends, ConnectTypeOK, StreamsInv
<1>12. CASE Killed(c) BY <1>12 DEF Killed, Ends, ConnectTypeOK, StreamsInv
<1>. QED BY <1>1, <1>2, <1>3, <1>4, <1>5, <1>6, <1>7, <1>8, <1>9, <1>10, <1>11, <1>12
         DEF CommandSteps

-----------------------------------------------------------------------------
(* One daemon *)

(* While a daemon starts, nobody serves requests and no other daemon takes   *)
(* up new work: it finds its endpoints free or taken by files only.          *)
LEMMA NobodyServes ==
  ASSUME ConnectTypeOK, Calm, NEW d \in Daemons, at[d] \in Starting
  PROVE  /\ \A q \in Daemons : "control" \notin listening[q]
         /\ Server("control") = Nobody
         /\ \A q \in Daemons \ {d} : at[q] \in Leaving
<1>1. ASSUME NEW q \in Daemons \ {d} PROVE at[q] \in Leaving
  BY <1>1 DEF Calm, OneStays, Starting, Leaving
<1>2. ASSUME NEW q \in Daemons PROVE "control" \notin listening[q]
  BY <1>1 DEF Calm, StageInv, Starting, Leaving
<1>. QED BY <1>1, <1>2, ServerListens DEF Endpoints

(* A daemon begins to listen where nobody does.                              *)
LEMMA BoundIsCalm ==
  ASSUME ConnectTypeOK, StreamsInv, Calm, NEW d \in Daemons, at[d] \in Starting, Bound(d,
         ToBind(d)),
         \A q \in Daemons : ToBind(d) \notin listening[q]
  PROVE  Calm'
<1>. DEFINE e == ToBind(d)
<1>1. /\ e \in Endpoints /\ \A q \in Daemons : e \notin listening[q]
      /\ e = "control" => listening[d] = {"events"}
      /\ e = "events" => listening[d] = {}
  BY ToBindIsEndpoint DEF ToBind, ConnectTypeOK, Endpoints, Calm, StageInv
<1>2. /\ listening' = [listening EXCEPT ![d] = @ \cup {e}]
      /\ file' = [file EXCEPT ![e] = d]
      /\ at' = [at EXCEPT ![d] = IF e = "control" THEN "up" ELSE "bind"]
      /\ UNCHANGED <<lock, step, spawned, stolen, bus, late>>
  BY DEF Bound, Set, commandVars, streamVars
<1>. HIDE DEF e
<1>3. \A q \in Daemons \ {d} : at[q] \in Leaving BY NobodyServes
<1>4. LockInv'
  BY <1>1, <1>2 DEF Calm, LockInv, ConnectTypeOK, Starting
<1>5. StageInv'
  BY <1>1, <1>2 DEF Calm, StageInv, ConnectTypeOK, Starting, Endpoints
<1>6. OneStays' BY <1>1, <1>2, <1>3 DEF OneStays, ConnectTypeOK, Leaving
<1>7. FilesInv'
  <2>1. ASSUME NEW q \in Daemons, NEW f \in listening'[q] PROVE file'[f] = q
    BY <1>1, <1>2, <2>1 DEF Calm, FilesInv, ConnectTypeOK, Endpoints
  <2>2. \A q \in Daemons : at'[q] \notin {"unlink", "rebind"}
    BY <1>2, <1>3 DEF ConnectTypeOK, Leaving
  <2>. QED BY <2>1, <2>2 DEF FilesInv
<1>8. BusInv' BY <1>2 DEF Calm, BusInv, ConnectTypeOK, Starting
<1>9. WholeInv' BY <1>2 DEF Calm, WholeInv, ConnectTypeOK
<1>. QED BY <1>4, <1>5, <1>6, <1>7, <1>8, <1>9 DEF Calm

(* What a process that is gone leaves behind is calm, whatever becomes of    *)
(* the files it had.                                                         *)
LEMMA GoneIsCalm ==
  ASSUME ConnectTypeOK, StreamsInv, Calm, NEW d \in Daemons, Gone(d), UNCHANGED <<lock, step>>,
         file' \in [Endpoints -> Daemons \cup {Stale, Nobody}],
         \A e \in Endpoints : file'[e] = IF file[e] = d THEN file'[e] ELSE file[e]
  PROVE  Calm'
<1>1. /\ at' = [at EXCEPT ![d] = "none"] /\ listening' = [listening EXCEPT ![d] = {}]
      /\ \A c \in Commands : bus'[c] = IF bus[c] = d THEN Nobody ELSE bus[c]
      /\ \A c \in Commands : spawned'[c] = IF spawned[c] = d THEN Nobody ELSE spawned[c]
      /\ \A c \in Commands : bus'[c] # Nobody => (c \in late' <=> c \in late)
  BY GoneFits
<1>2. ASSUME NEW q \in Daemons, at'[q] # "none" PROVE q # d /\ at'[q] = at[q]
  BY <1>1, <1>2 DEF ConnectTypeOK
<1>3. ASSUME NEW q \in Daemons PROVE listening'[q] = IF q = d THEN {} ELSE listening[q]
  BY <1>1 DEF ConnectTypeOK
<1>4. LockInv'
  <2>1. ASSUME NEW q \in Daemons, at'[q] \in Starting
        PROVE  \/ lock' = Stale
               \/ lock' \in Commands /\ step'[lock'] = "wait" /\ spawned'[lock'] = q
    BY <1>1, <1>2, <2>1 DEF Calm, LockInv, Starting, ConnectTypeOK
  <2>. QED BY <2>1 DEF Calm, LockInv
<1>5. StageInv' BY <1>1 DEF Calm, StageInv, ConnectTypeOK, Starting
<1>6. OneStays' BY <1>1 DEF Calm, OneStays, ConnectTypeOK, Leaving
<1>7. FilesInv'
  <2>1. ASSUME NEW q \in Daemons, NEW f \in listening'[q] PROVE file'[f] = q
    <3>1. q # d /\ f \in listening[q] BY <1>3, <2>1
    <3>2. file[f] = q /\ f \in Endpoints BY <3>1 DEF Calm, FilesInv, ConnectTypeOK
    <3>. QED BY <3>1, <3>2
  <2>2. ASSUME NEW q \in Daemons, at'[q] \in {"unlink", "rebind"}
        PROVE  \A o \in Daemons : ToBind(q)' \notin listening'[o]
    BY <1>2, <1>3, <2>2 DEF Calm, FilesInv, ToBind
  <2>3. ASSUME NEW q \in Daemons, at'[q] = "rebind" PROVE file'[ToBind(q)'] = Nobody
    <3>1. q # d /\ at[q] = "rebind" BY <1>2, <2>3
    <3>2. ToBind(q)' = ToBind(q) BY <1>3, <3>1 DEF ToBind
    <3>3. file[ToBind(q)] = Nobody /\ ToBind(q) \in Endpoints
      BY <3>1, ToBindIsEndpoint DEF Calm, FilesInv
    <3>. QED BY <3>2, <3>3, NamesAreDistinct
  <2>. QED BY <2>1, <2>2, <2>3 DEF FilesInv
<1>8. BusInv' BY <1>1, <1>3 DEF Calm, BusInv, ConnectTypeOK
<1>9. WholeInv' BY <1>1 DEF Calm, WholeInv, ConnectTypeOK
<1>. QED BY <1>4, <1>5, <1>6, <1>7, <1>8, <1>9 DEF Calm

(* A daemon that starts does not fail with its events socket bound: so it    *)
(* exits.                                                                    *)
LEMMA FailIsCalm ==
  ASSUME ConnectTypeOK, StreamsInv, Calm, NEW d \in Daemons, at[d] \in Starting,
         listening[d] = {}, ListenFails(d)
  PROVE  Calm'
  BY GoneIsCalm DEF ListenFails, ConnectTypeOK

(* A stage of starting that changes neither sockets nor files.               *)
LEMMA WaitIsCalm ==
  ASSUME ConnectTypeOK, Calm, NEW d \in Daemons, at[d] \in Starting, NEW s \in {"probe", "unlink"},
         Set(d, s), s = "unlink" => \A q \in Daemons : ToBind(d) \notin listening[q],
         UNCHANGED <<commandVars, streamVars, listening, file>>
  PROVE  Calm'
<1>1. /\ at' = [at EXCEPT ![d] = s] /\ UNCHANGED <<lock, step, spawned, bus, late, listening, file>>
  BY DEF Set, commandVars, streamVars
<1>2. LockInv' BY <1>1 DEF Calm, LockInv, ConnectTypeOK, Starting
<1>3. StageInv' BY <1>1 DEF Calm, StageInv, ConnectTypeOK, Starting
<1>4. OneStays' BY <1>1, NobodyServes DEF OneStays, ConnectTypeOK, Leaving
<1>5. FilesInv'
  BY <1>1 DEF Calm, FilesInv, ConnectTypeOK, ToBind
<1>6. BusInv' BY <1>1 DEF Calm, BusInv, ConnectTypeOK
<1>7. WholeInv' BY <1>1 DEF Calm, WholeInv, ConnectTypeOK
<1>. QED BY <1>2, <1>3, <1>4, <1>5, <1>6, <1>7 DEF Calm

(* A daemon that starts never takes an endpoint from one that listens.       *)
LEMMA StartIsCalm ==
  ASSUME ConnectTypeOK, StreamsInv, Calm, NEW d \in Daemons,
         Bind(d) \/ Probe(d) \/ Unlink(d) \/ Rebind(d)
  PROVE  Calm'
<1>1. at[d] \in Starting BY DEF Bind, Probe, Unlink, Rebind, Starting
<1>2. ToBind(d) \in Endpoints BY ToBindIsEndpoint
<1>3. \A q \in Daemons : "control" \notin listening[q] BY <1>1, NobodyServes
<1>4. file[ToBind(d)] \notin Daemons => \A q \in Daemons : ToBind(d) \notin listening[q]
  BY DEF Calm, FilesInv
<1>5. CASE Bind(d)
  <2>1. CASE file[ToBind(d)] = Nobody
    BY <1>1, <1>4, <1>5, <2>1, BoundIsCalm, NamesAreDistinct DEF Bind
  <2>2. CASE file[ToBind(d)] # Nobody
    BY <1>1, <1>5, <2>2, WaitIsCalm DEF Bind
  <2>. QED BY <2>1, <2>2
<1>6. CASE Probe(d)
  <2>1. CASE Server(ToBind(d)) # Nobody
    <3>1. ToBind(d) # "control" BY <1>1, <2>1, NobodyServes
    <3>2. listening[d] = {} BY <1>3, <3>1 DEF ToBind, ConnectTypeOK, Endpoints
    <3>. QED BY <1>1, <1>6, <2>1, <3>2, FailIsCalm DEF Probe
  <2>2. CASE Server(ToBind(d)) = Nobody
    <3>1. ASSUME NEW q \in Daemons PROVE ToBind(d) \notin listening[q]
      BY <1>2, <2>2, ServerListens, NamesAreDistinct DEF Calm, FilesInv
    <3>. QED BY <1>1, <1>6, <2>2, <3>1, WaitIsCalm DEF Probe
  <2>. QED BY <2>1, <2>2
<1>7. CASE Unlink(d)
  <2>1. /\ at' = [at EXCEPT ![d] = "rebind"] /\ file' = [file EXCEPT ![ToBind(d)] = Nobody]
        /\ UNCHANGED <<lock, step, spawned, bus, late, listening>>
    BY <1>7 DEF Unlink, Set, commandVars, streamVars
  <2>2. \A q \in Daemons : ToBind(d) \notin listening[q] BY <1>7 DEF Unlink, Calm, FilesInv
  <2>3. LockInv' BY <1>1, <2>1 DEF Calm, LockInv, ConnectTypeOK, Starting
  <2>4. StageInv' BY <1>1, <2>1 DEF Calm, StageInv, ConnectTypeOK, Starting
  <2>5. OneStays' BY <1>1, <2>1, NobodyServes DEF OneStays, ConnectTypeOK, Leaving
  <2>6. FilesInv'
    <3>1. \A q \in Daemons \ {d} : at[q] \in Leaving BY <1>1, NobodyServes
    <3>2. \A q \in Daemons : ToBind(q)' = ToBind(q) BY <2>1 DEF ToBind
    <3>3. \A q \in Daemons : \A e \in listening'[q] : file'[e] = q
      BY <1>2, <2>1, <2>2 DEF Calm, FilesInv, ConnectTypeOK
    <3>4. \A q \in Daemons \ {d} : at'[q] \notin {"unlink", "rebind"}
      BY <2>1, <3>1 DEF ConnectTypeOK, Leaving
    <3>5. file'[ToBind(d)] = Nobody BY <1>2, <2>1 DEF ConnectTypeOK
    <3>. QED BY <2>1, <2>2, <3>2, <3>3, <3>4, <3>5 DEF FilesInv
  <2>7. BusInv' BY <2>1 DEF Calm, BusInv, ConnectTypeOK
  <2>8. WholeInv' BY <2>1 DEF Calm, WholeInv, ConnectTypeOK
  <2>. QED BY <2>3, <2>4, <2>5, <2>6, <2>7, <2>8 DEF Calm
<1>8. CASE Rebind(d)
  <2>1. file[ToBind(d)] = Nobody BY <1>8 DEF Rebind, Calm, FilesInv
  <2>. QED BY <1>1, <1>4, <1>8, <2>1, BoundIsCalm, NamesAreDistinct DEF Rebind
<1>. QED BY <1>5, <1>6, <1>7, <1>8

(* The stages of a shutdown: a daemon that leaves takes nothing from another *)
(* one.                                                                      *)
LEMMA EndIsCalm ==
  ASSUME ConnectTypeOK, StreamsInv, Calm, NEW d \in Daemons,
         ShutDown(d) \/ CloseControl(d) \/ EndEvents(d) \/ CloseEvents(d)
  PROVE  Calm'
<1>. DEFINE next == CASE at[d] = "up" -> "closing" [] at[d] = "closing" -> "ending"
                      [] at[d] = "ending" -> "ended" [] OTHER -> "draining"
            closed == CASE at[d] = "closing" -> {"control"} [] at[d] = "ended" -> {"events"}
                        [] OTHER -> {}
            ended == IF at[d] = "ending" THEN {c \in Commands : bus[c] = d} ELSE {}
<1>1. at[d] \in {"up", "closing", "ending", "ended"}
  BY DEF ShutDown, CloseControl, EndEvents, CloseEvents
<1>2. /\ at' = [at EXCEPT ![d] = next]
      /\ listening' = [listening EXCEPT ![d] = @ \ closed]
      /\ file' = [e \in Endpoints |-> IF e \in closed THEN Nobody ELSE file[e]]
      /\ bus' = [c \in Commands |-> IF c \in ended THEN Nobody ELSE bus[c]]
      /\ late' = late \ ended
      /\ UNCHANGED <<lock, step, spawned, stolen>>
  <2>1. CASE ShutDown(d) BY <2>1 DEF ShutDown, Set, commandVars, streamVars, ConnectTypeOK
  <2>2. CASE CloseControl(d)
    BY <2>2 DEF CloseControl, Close, Set, commandVars, streamVars, ConnectTypeOK, Endpoints
  <2>3. CASE EndEvents(d) BY <2>3 DEF EndEvents, Disconnect, Set, commandVars, ConnectTypeOK
  <2>4. CASE CloseEvents(d)
    BY <2>4 DEF CloseEvents, Close, Set, commandVars, streamVars, ConnectTypeOK, Endpoints
  <2>. QED BY <2>1, <2>2, <2>3, <2>4
<1>3. closed \subseteq listening[d]
  BY <1>1 DEF Calm, StageInv, Endpoints
<1>4. at' \in [Daemons -> Stages] /\ at'[d] = next /\ \A q \in Daemons \ {d} : at'[q] = at[q]
  BY <1>1, <1>2 DEF ConnectTypeOK, Stages
<1>5. \A q \in Daemons : listening'[q] = IF q = d THEN listening[d] \ closed ELSE listening[q]
  BY <1>2 DEF ConnectTypeOK
<1>6. LockInv' BY <1>1, <1>2, <1>4 DEF Calm, LockInv, Starting
<1>7. StageInv' BY <1>1, <1>4, <1>5 DEF Calm, StageInv, Starting, Endpoints
<1>8. OneStays' BY <1>1, <1>4 DEF Calm, OneStays, Leaving
<1>9. FilesInv'
  <2>1. ASSUME NEW q \in Daemons, NEW f \in listening'[q] PROVE file'[f] = q
    BY <1>2, <1>3, <1>5, <2>1 DEF Calm, FilesInv, ConnectTypeOK
  <2>2. ASSUME NEW q \in Daemons, at'[q] \in {"unlink", "rebind"}
        PROVE  /\ at'[q] = at[q] /\ ToBind(q)' = ToBind(q) /\ ToBind(q) \in Endpoints
               /\ \A o \in Daemons : ToBind(q) \notin listening'[o]
    BY <1>1, <1>4, <1>5, <2>2, ToBindIsEndpoint DEF ToBind, Calm, FilesInv
  <2>3. ASSUME NEW q \in Daemons, at'[q] = "rebind" PROVE file'[ToBind(q)'] = Nobody
    BY <1>2, <2>2, <2>3 DEF Calm, FilesInv
  <2>. QED BY <2>1, <2>2, <2>3 DEF FilesInv
<1>10. BusInv'
  <2>1. ASSUME NEW c \in Commands, c \notin late', bus'[c] # Nobody
        PROVE  /\ bus[c] \in Daemons /\ bus'[c] = bus[c] /\ c \notin late
               /\ bus[c] = d => at[d] # "ending"
    BY <1>2, <2>1 DEF ConnectTypeOK
  <2>. QED BY <1>1, <1>4, <1>5, <2>1 DEF Calm, BusInv
<1>11. WholeInv' BY <1>1, <1>4 DEF Calm, WholeInv
<1>. QED BY <1>6, <1>7, <1>8, <1>9, <1>10, <1>11 DEF Calm

(* Daemons, crashes included, keep the calm.                                 *)
LEMMA DaemonKeepsCalm ==
  ASSUME ConnectTypeOK, StreamsInv, Calm, NEW d \in Daemons,
         \/ Bind(d) \/ Probe(d) \/ Unlink(d) \/ Rebind(d) \/ ShutDown(d) \/ CloseControl(d)
         \/ EndEvents(d) \/ CloseEvents(d) \/ Exit(d) \/ Crash(d)
  PROVE  Calm'
<1>1. CASE Exit(d) BY <1>1, GoneIsCalm DEF Exit, ConnectTypeOK
<1>2. CASE Crash(d)
  <2>1. /\ file' \in [Endpoints -> Daemons \cup {Stale, Nobody}]
        /\ \A e \in Endpoints : file'[e] = IF file[e] = d THEN file'[e] ELSE file[e]
    BY <1>2 DEF Crash, ConnectTypeOK
  <2>. QED BY <1>2, <2>1, GoneIsCalm DEF Crash
<1>. QED BY <1>1, <1>2, StartIsCalm, EndIsCalm

(* Commands: the daemons' sockets and files are not theirs to change, so all *)
(* that matters is the lock, the daemon they spawn and their streams.        *)
LEMMA CommandKeepsCalm ==
  ASSUME ConnectTypeOK, StreamsInv, Calm, ~stolen, ~stolen', NEW c \in Commands, CommandSteps(c)
  PROVE  Calm'
<1>. USE DEF Go, commandVars, streamVars, daemonVars
<1>s. ASSUME UNCHANGED daemonVars PROVE StageInv' /\ OneStays' /\ FilesInv' /\ WholeInv'
  BY <1>s DEF Calm, StageInv, OneStays, FilesInv, WholeInv, ToBind
<1>b. ASSUME UNCHANGED <<daemonVars, streamVars>> PROVE BusInv'
  BY <1>b DEF Calm, BusInv
<1>l. ASSUME \A d \in Daemons : at[d] \notin Starting, UNCHANGED at,
             \A b \in Commands : step'[b] \in Holding => lock' = b
      PROVE  LockInv'
  BY <1>l DEF LockInv
<1>1. CASE Connect(c)
  <2>1. LockInv' BY <1>1 DEF Connect, Calm, LockInv, ConnectTypeOK, Holding, Starting
  <2>. QED BY <1>1, <1>s, <1>b, <2>1 DEF Connect, Calm
<1>2. CASE Lock(c)
  <2>1. lock = Nobody \/ LockIsLeft BY <1>2 DEF Lock, LockFree
  <2>2. \A d \in Daemons : at[d] \notin Starting
    BY <2>1, NamesAreDistinct DEF LockIsLeft, Calm, LockInv
  <2>3. \A b \in Commands : step'[b] \in Holding => lock' = b
    BY <1>2, <2>1, NamesAreDistinct
       DEF Lock, LockIsLeft, Calm, LockInv, ConnectTypeOK, Holding
  <2>. QED BY <1>2, <1>s, <1>b, <1>l, <2>2, <2>3 DEF Lock, Calm
<1>3. CASE LockTimeout(c)
  <2>1. LockInv' BY <1>3 DEF LockTimeout, Calm, LockInv, ConnectTypeOK, Holding, Starting
  <2>. QED BY <1>3, <1>s, <1>b, <2>1 DEF LockTimeout, Calm
<1>4. CASE PingAnswered(c)
  <2>1. \A d \in Daemons : at[d] \notin Starting BY <1>4, NobodyServes DEF PingAnswered
  <2>2. \A b \in Commands : step'[b] \in Holding => lock' = b
    BY <1>4 DEF PingAnswered, Calm, LockInv, ConnectTypeOK, Holding
  <2>. QED BY <1>4, <1>s, <1>b, <1>l, <2>1, <2>2 DEF PingAnswered, Calm
(* Whoever gives the lock back has no daemon that starts.                    *)
<1>u. ASSUME step[c] \in Holding, UNCHANGED at,
             \A d \in Daemons : at[d] \in Starting => step[c] # "wait" \/ spawned[c] # d,
             NEW s \in {"failed", "connected"}, UnlockAnd(c, s)
      PROVE  LockInv'
  <2>1. lock = c BY <1>u DEF Calm, LockInv
  <2>2. \A d \in Daemons : at[d] \notin Starting BY <1>u, <2>1, NamesAreDistinct DEF Calm, LockInv
  <2>3. \A b \in Commands : step'[b] \in Holding => lock' = b
    BY <1>u, <2>1 DEF UnlockAnd, Calm, LockInv, ConnectTypeOK, Holding
  <2>. QED BY <1>l, <1>u, <2>2, <2>3
<1>5. CASE PingFails(c)
  <2>1. LockInv' BY <1>5, <1>u DEF PingFails, UnlockAnd, Holding
  <2>. QED BY <1>5, <1>s, <1>b, <2>1 DEF PingFails, UnlockAnd, Calm
<1>6. CASE WaitTimeout(c)
  <2>1. LockInv' BY <1>6, <1>u DEF WaitTimeout, WaitIsOver, UnlockAnd, Holding, Starting
  <2>. QED BY <1>6, <1>s, <1>b, <2>1 DEF WaitTimeout, UnlockAnd, Calm
<1>o. ASSUME OpenBus(c), bus[c] = Nobody, UNCHANGED daemonVars PROVE BusInv'
  <2>1. ASSUME NEW b \in Commands, b \notin late', bus'[b] # Nobody
        PROVE  "events" \in listening[bus'[b]] /\ at[bus'[b]] # "ended"
    <3>1. CASE b = c
      <4>1. bus'[b] = Server("events") BY <1>o, <3>1, BusFits DEF ConnectTypeOK
      <4>. QED BY <1>o, <2>1, <3>1, <4>1, BusFits, ServerListens DEF Endpoints
    <3>2. CASE b # c BY <1>o, <2>1, <3>2, BusFits DEF ConnectTypeOK, Calm, BusInv
    <3>. QED BY <3>1, <3>2
  <2>. QED BY <1>o, <2>1 DEF BusInv
<1>7. CASE ConnectBus(c)
  <2>1. bus[c] = Nobody BY <1>7 DEF ConnectBus, StreamsInv
  <2>2. LockInv' BY <1>7, <1>u DEF ConnectBus, UnlockAnd, Holding
  <2>. QED BY <1>7, <1>s, <1>o, <2>1, <2>2 DEF ConnectBus, UnlockAnd, Calm
<1>8. CASE Reconnect(c)
  <2>1. LockInv' BY <1>8 DEF Reconnect, Calm, LockInv
  <2>. QED BY <1>8, <1>s, <1>o, <2>1 DEF Reconnect, Calm
<1>9. CASE Done(c)
  <2>1. LockInv'
    BY <1>9 DEF Done, Calm, LockInv, ConnectTypeOK, Holding, Starting
  <2>2. BusInv' BY <1>9 DEF Done, Disconnect, Calm, BusInv, ConnectTypeOK
  <2>. QED BY <1>9, <1>s, <2>1, <2>2 DEF Done, Calm
(* A daemon is spawned only when nobody serves requests and nobody starts.   *)
<1>10. ASSUME NEW d \in Daemons, Spawn(c, d) PROVE Calm'
  <2>1. /\ lock = c /\ step[c] = "ping" /\ at[d] = "none" /\ Server("control") = Nobody
        /\ at' = [at EXCEPT ![d] = "bind"] /\ spawned' = [spawned EXCEPT ![c] = d]
        /\ step' = [step EXCEPT ![c] = "wait"]
        /\ UNCHANGED <<lock, bus, late, listening, file>>
    BY <1>10 DEF Spawn, Set, Calm, LockInv, Holding
  <2>2. \A q \in Daemons : at[q] \notin Starting BY <2>1, NamesAreDistinct DEF Calm, LockInv
  <2>3. \A q \in Daemons : at[q] \in Leaving
    <3>1. ASSUME NEW q \in Daemons, at[q] \in {"up", "closing"} PROVE FALSE
      <4>1. "control" \in listening[q] BY <3>1 DEF Calm, StageInv, Endpoints
      <4>2. file["control"] = q BY <4>1 DEF Calm, FilesInv
      <4>3. Server("control") = q BY <4>1, <4>2, ServerListens DEF Endpoints
      <4>. QED BY <2>1, <4>3, NamesAreDistinct
    <3>. QED BY <2>2, <3>1 DEF ConnectTypeOK, Starting, Leaving, Calm, WholeInv
  <2>4. LockInv' BY <2>1, <2>3 DEF Calm, LockInv, ConnectTypeOK, Holding, Starting, Leaving
  <2>5. StageInv' BY <2>1, <2>3 DEF Calm, StageInv, ConnectTypeOK, Starting
  <2>6. OneStays' BY <2>1, <2>3 DEF OneStays, ConnectTypeOK, Leaving
  <2>7. FilesInv' BY <2>1, <2>3 DEF Calm, FilesInv, ConnectTypeOK, Leaving
  <2>8. BusInv' BY <2>1 DEF Calm, BusInv, ConnectTypeOK
  <2>9. WholeInv' BY <2>1 DEF Calm, WholeInv, ConnectTypeOK
  <2>. QED BY <2>4, <2>5, <2>6, <2>7, <2>8, <2>9 DEF Calm
(* A command that is interrupted takes the lock with it, and was not waiting  *)
(* for a daemon that starts; one that is killed leaves it.                    *)
<1>11. CASE Interrupted(c)
  <2>1. CASE step[c] = "lock"
    <3>1. lock' = lock /\ step' = [step EXCEPT ![c] = "idle"]
          /\ spawned' = [spawned EXCEPT ![c] = Nobody] /\ UNCHANGED at
      BY <1>11, <2>1 DEF Interrupted, Ends, Holding
    <3>2. LockInv' BY <2>1, <3>1 DEF Calm, LockInv, ConnectTypeOK, Holding, Starting
    <3>. QED BY <1>11, <1>s, <1>b, <3>2 DEF Interrupted, Ends, Calm
  <2>2. CASE step[c] \in Holding
    <3>1. lock = c BY <2>2 DEF Calm, LockInv
    <3>2. \A d \in Daemons : at[d] \notin Starting
      BY <1>11, <3>1, NamesAreDistinct DEF Interrupted, Calm, LockInv
    <3>3. \A b \in Commands : step'[b] \in Holding => lock' = b
      BY <1>11, <2>2, <3>1 DEF Interrupted, Ends, Calm, LockInv, ConnectTypeOK, Holding
    <3>. QED BY <1>11, <1>s, <1>b, <1>l, <3>2, <3>3 DEF Interrupted, Ends, Calm
  <2>. QED BY <1>11, <2>1, <2>2 DEF Interrupted, Ends
<1>12. CASE Killed(c)
  <2>1. /\ lock' = (IF lock = c THEN Stale ELSE lock) /\ step' = [step EXCEPT ![c] = "idle"]
        /\ spawned' = [spawned EXCEPT ![c] = Nobody] /\ UNCHANGED at
    BY <1>12 DEF Killed, Ends
  <2>2. \A b \in Commands : step'[b] \in Holding => lock' = b
    BY <2>1 DEF Calm, LockInv, ConnectTypeOK, Holding
  <2>3. ASSUME NEW d \in Daemons, at'[d] \in Starting
        PROVE  \/ lock' = Stale
               \/ lock' \in Commands /\ step'[lock'] = "wait" /\ spawned'[lock'] = d
    BY <2>1, <2>3 DEF Calm, LockInv, ConnectTypeOK
  <2>4. LockInv' BY <2>2, <2>3 DEF LockInv
  <2>. QED BY <1>12, <1>s, <1>b, <2>4 DEF Killed, Ends, Calm
<1>. QED BY <1>1, <1>2, <1>3, <1>4, <1>5, <1>6, <1>7, <1>8, <1>9, <1>10, <1>11, <1>12
         DEF CommandSteps

-----------------------------------------------------------------------------
(* The theorems *)

(* No daemon runs at first: all files are stale.                             *)
LEMMA ConnectInitInv == ConnectInit => ConnectInv
<1>. SUFFICES ASSUME ConnectInit PROVE ConnectInv OBVIOUS
<1>1. ConnectTypeOK BY DEF ConnectInit, ConnectTypeOK
<1>2. StreamsInv BY DEF ConnectInit, StreamsInv
<1>3. LockInv /\ StageInv /\ OneStays /\ FilesInv /\ BusInv /\ WholeInv
  BY DEF ConnectInit, LockInv, StageInv, OneStays, FilesInv, BusInv, WholeInv, Holding, Starting,
       Leaving
<1>. QED BY <1>1, <1>2, <1>3 DEF ConnectInv, Calm

(* History is not forgotten.                                                 *)
LEMMA StolenStays == [ConnectNext]_connectVars /\ stolen => stolen'
  BY DEF ConnectNext, connectVars, commandVars, streamVars, Bind, Bound, Probe, ListenFails,
       Unlink, Rebind,
         ShutDown, CloseControl, EndEvents, CloseEvents, Exit, Crash, Connect, Lock,
         LockTimeout, PingAnswered, Spawn, PingFails, WaitTimeout, ConnectBus, Reconnect, Done,
         UnlockAnd, Interrupted, Killed

(* Every step keeps the inductive invariant.                                 *)
LEMMA ConnectStep == ConnectInv /\ [ConnectNext]_connectVars => ConnectInv'
<1>. SUFFICES ASSUME ConnectInv, [ConnectNext]_connectVars PROVE ConnectInv' OBVIOUS
<1>1. CASE UNCHANGED connectVars
  <2>1. ConnectTypeOK' /\ StreamsInv'
    BY <1>1 DEF ConnectInv, ConnectTypeOK, StreamsInv, connectVars, commandVars, streamVars,
         daemonVars
  <2>2. ~stolen' => Calm'
    BY <1>1 DEF ConnectInv, Calm, LockInv, StageInv, OneStays, FilesInv, BusInv, WholeInv, ToBind,
                connectVars, commandVars, streamVars, daemonVars
  <2>. QED BY <2>1, <2>2 DEF ConnectInv
<1>2. ASSUME NEW d \in Daemons,
             \/ Bind(d) \/ Probe(d) \/ Unlink(d) \/ Rebind(d) \/ ShutDown(d) \/ CloseControl(d)
             \/ EndEvents(d) \/ CloseEvents(d) \/ Exit(d) \/ Crash(d)
      PROVE  ConnectInv'
  BY <1>2, DaemonTypes, DaemonKeepsCalm, StolenStays DEF ConnectInv
<1>3. ASSUME NEW c \in Commands, CommandSteps(c) PROVE ConnectInv'
  BY <1>3, CommandTypes, CommandKeepsCalm, StolenStays DEF ConnectInv
<1>. QED BY <1>1, <1>2, <1>3 DEF ConnectNext, CommandSteps

(* The variables keep their types, whoever connects, crashes and shuts down. *)
THEOREM ConnectTypeCorrect == ConnectSpec => []ConnectTypeOK
<1>1. ConnectInv => ConnectTypeOK BY DEF ConnectInv
<1>. QED BY <1>1, ConnectInitInv, ConnectStep, PTL DEF ConnectSpec

(* As long as no lock is taken over from a command at work, and no command is *)
(* interrupted while the daemon it spawned is starting, two daemons never     *)
(* listen at one endpoint, none is left with its events socket only, one that *)
(* serves can be reached, and commands get the events of the daemon that      *)
(* serves their requests.                                                     *)
THEOREM OneWholeDaemonHolds == ConnectSpec => []OneWholeDaemon
<1>1. ConnectInv => OneWholeDaemon
  <2>. SUFFICES ASSUME ConnectInv, ~stolen PROVE OneWholeDaemon
    BY DEF OneWholeDaemon, OneDaemon, NoHalfDaemon, SameDaemon, Reachable
  <2>. USE DEF ConnectInv, Calm
  <2>1. OneDaemon BY DEF OneDaemon, FilesInv
  <2>2. NoHalfDaemon BY DEF NoHalfDaemon, WholeInv
  <2>3. Reachable
    <3>1. ASSUME NEW d \in Daemons, at[d] = "up" PROVE Server("control") = d /\ Server("events") = d
      BY <3>1, ServerListens DEF StageInv, FilesInv, Endpoints
    <3>. QED BY <3>1 DEF Reachable
  <2>4. SameDaemon
    <3>1. ASSUME NEW c \in Commands \ late, bus[c] # Nobody, Server("control") # Nobody
          PROVE  bus[c] = Server("control")
      <4>. DEFINE m == Server("control")
      <4>1. m \in Daemons /\ "control" \in listening[m] BY <3>1, ServerListens DEF Endpoints
      <4>2. "events" \in listening[m]
        BY <4>1 DEF StageInv, WholeInv, ConnectTypeOK, Starting, Endpoints
      <4>3. bus[c] \in Daemons /\ "events" \in listening[bus[c]] BY <3>1 DEF BusInv, ConnectTypeOK
      <4>. QED BY <4>1, <4>2, <4>3 DEF FilesInv
    <3>. QED BY <3>1 DEF SameDaemon
  <2>. QED BY <2>1, <2>2, <2>3, <2>4 DEF OneWholeDaemon
<1>. QED BY <1>1, ConnectInitInv, ConnectStep, PTL DEF ConnectSpec
=============================================================================
