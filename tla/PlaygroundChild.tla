-------------------------- MODULE PlaygroundChild --------------------------
(***************************************************************************)
(* The child process that serves a site with WordPress Playground          *)
(* (playground-server-child.ts), and the queue its WP-CLI commands go      *)
(* through (sequential.ts).  Messages come from several CLI commands by    *)
(* way of the daemon; each has a handler of its own, and the handlers      *)
(* share the server, the one startup and the queue.  One process serves a  *)
(* site or applies one blueprint.                                          *)
(*                                                                         *)
(* Abstracted: what a command prints, the steps of a startup between two   *)
(* looks at its signal, and time: a disposal ends or its timeout fires.    *)
(***************************************************************************)
EXTENDS Integers, FiniteSets

CONSTANTS
  Starters, Stoppers, Runners, Blueprints,  \* messages, by their topic
  Keys, Key,      \* the arguments of each WP-CLI command, joined
  Concurrent,     \* commands that run at once
  MaxQueue,       \* commands that wait
  Nobody

Messages == Starters \union Stoppers \union Runners \union Blueprints

ASSUME MessagesAssumption ==
  /\ IsFiniteSet(Runners) /\ Key \in [Runners -> Keys] /\ Nobody \notin Runners
  /\ Runners \intersect (Starters \union Stoppers \union Blueprints) = {}
  /\ Stoppers \intersect (Starters \union Blueprints) = {}
  /\ Starters \intersect Blueprints = {}
ASSUME LimitsAssumption ==
  Concurrent \in Nat \ {0} /\ MaxQueue \in Nat

VARIABLES
  purpose,    \* what the process is for
  ans,        \* each message: not received, in its handler, or its answer
  leader,     \* the command whose promise a WP-CLI command's handler awaits
  stage,      \* how far each leading command is
  waitsFor,   \* of the commands a waiting one found running, who still runs
  startup,    \* how far the one startup is
  starter,    \* the message whose signal it was given
  aborted,    \* messages whose controller was aborted
  stopAsked,  \* startupAbortController was
  server,     \* the variable `server` is not null
  connected,  \* the IPC channel is open
  child,      \* the process
  cause       \* history: what ended it

queue == <<leader, stage, waitsFor>>
start == <<startup, starter, stopAsked, server>>
proc  == <<connected, child, cause>>
vars  == <<purpose, ans, aborted, queue, start, proc>>

Locks   == {r \in Runners : stage[r] \in {"starting", "cli"}}
Waiting == {r \in Runners : stage[r] = "waiting"}
Woken   == {r \in Waiting : waitsFor[r] = {}}
Starting == startup \in {"args", "cli", "setup", "undoing"}
Alive == child # "dead"

\* No promise is settled whose awaiter has yet to go on: the event loop takes
\* the next message or result only then.
Calm == Alive /\ Woken = {} /\ (Starting \/ \A r \in Runners : stage[r] # "starting")

Init ==
  /\ purpose \in {"server", "blueprint"}
  /\ ans = [m \in Messages |-> "unsent"]
  /\ leader = [r \in Runners |-> Nobody]
  /\ stage = [r \in Runners |-> "none"]
  /\ waitsFor = [r \in Runners |-> {}]
  /\ startup = "none" /\ starter = Nobody /\ stopAsked = FALSE /\ server = FALSE
  /\ aborted = {}
  /\ connected = TRUE /\ child = "up" /\ cause = "none"

Receives(m) == Calm /\ connected /\ ans[m] = "unsent"
Dies(why) == child' = "dead" /\ cause' = why

-----------------------------------------------------------------------------
(* Answers.  A result sent on a closed channel is an error event of the     *)
(* process that nobody handles; an error has a callback and is just lost.   *)

Results(S, a) ==
  IF connected
  THEN ans' = [m \in Messages |-> IF m \in S THEN a ELSE ans[m]] /\ UNCHANGED <<child, cause>>
  ELSE UNCHANGED ans /\ Dies("closed")

Errors(S) == ans' = [m \in Messages |-> IF m \in S /\ connected THEN "error" ELSE ans[m]]

\* The error of any handler but a WP-CLI command's ends the process, once
\* the answer is on its way.
Exits(S) ==
  /\ Errors(S)
  /\ child' = "exiting" /\ UNCHANGED cause

Ends ==
  /\ Calm /\ child = "exiting"
  /\ Dies("exit")
  /\ UNCHANGED <<purpose, ans, aborted, queue, start, connected>>

\* Disconnected, with nothing left to do.
Leaves ==
  /\ Calm /\ child = "up" /\ ~connected /\ Locks = {}
  /\ \A m \in Stoppers \union Blueprints : ans[m] # "pending"
  /\ Dies("left")
  /\ UNCHANGED <<purpose, ans, aborted, queue, start, connected>>

-----------------------------------------------------------------------------
(* start-server: one startup per process, which every start awaits.         *)

StartServer(m) ==
  /\ purpose = "server" /\ Receives(m)
  /\ \/ /\ startup = "none"
        /\ startup' = "args" /\ starter' = m
        /\ ans' = [ans EXCEPT ![m] = "pending"] /\ UNCHANGED proc
     \/ /\ Starting
        /\ ans' = [ans EXCEPT ![m] = "pending"] /\ UNCHANGED <<startup, starter, proc>>
     \/ /\ startup = "ok"
        /\ Results({m}, "result") /\ UNCHANGED <<startup, starter, connected>>
     \/ /\ startup = "failed"
        /\ Exits({m}) /\ UNCHANGED <<startup, starter, connected>>
  /\ UNCHANGED <<purpose, aborted, queue, stopAsked, server>>

Pending(S) == {m \in S : ans[m] = "pending"}

\* stopSignal: the first start's own signal or the stop's.
StopSignal == stopAsked \/ starter \in aborted

\* Mutant: the process stays.
StartupFailsStays ==
  /\ startup' = "failed"
  /\ Errors(Pending(Starters)) /\ UNCHANGED <<child, cause>>

StartupFails ==
  /\ startup' = "failed"
  /\ Exits(Pending(Starters))

ArgsReady ==
  /\ Calm /\ startup = "args"
  /\ \/ startup' = "cli" /\ UNCHANGED <<ans, child, cause>>
     \/ StartupFails
  /\ UNCHANGED <<purpose, aborted, queue, starter, stopAsked, server, connected>>

\* runCLI returns the server, or throws, or ends the process itself.
CliReturns ==
  /\ Calm /\ startup = "cli"
  /\ \/ /\ server' = TRUE
        /\ startup' = IF StopSignal THEN "undoing" ELSE "setup"
        /\ UNCHANGED <<ans, child, cause>>
     \/ StartupFails /\ UNCHANGED server
     \/ Dies("cli") /\ UNCHANGED <<ans, startup, server>>
  /\ UNCHANGED <<purpose, aborted, queue, starter, stopAsked, connected>>

\* Mutant: the signal is not looked at after the last await.
SetUpUnasked ==
  /\ Calm /\ startup = "setup"
  /\ startup' = "ok" /\ Results(Pending(Starters), "result")
  /\ UNCHANGED <<purpose, aborted, queue, starter, stopAsked, server, connected>>

\* The CA bundle, the ini entries and the credentials, and the last look at
\* the signal.
SetUp ==
  /\ Calm /\ startup = "setup"
  /\ \/ /\ ~StopSignal
        /\ startup' = "ok" /\ Results(Pending(Starters), "result")
     \/ startup' = "undoing" /\ UNCHANGED <<ans, child, cause>>
  /\ UNCHANGED <<purpose, aborted, queue, starter, stopAsked, server, connected>>

\* A disposal that throws leaves `server` as it is.
Undone ==
  /\ Calm /\ startup = "undoing"
  /\ StartupFails
  /\ server' \in BOOLEAN
  /\ UNCHANGED <<purpose, aborted, queue, starter, stopAsked, connected>>

-----------------------------------------------------------------------------
(* stop-server and run-blueprint.                                           *)

StopServer(m) ==
  /\ Receives(m)
  /\ \/ /\ Starting  \* startupAbortController is not null
        /\ stopAsked' = TRUE
        /\ Results({m}, "aborted") /\ UNCHANGED connected
     \/ /\ ~Starting /\ ~server
        /\ Results({m}, "result") /\ connected' = FALSE
        /\ UNCHANGED stopAsked
     \/ /\ ~Starting /\ server
        /\ ans' = [ans EXCEPT ![m] = "pending"] /\ UNCHANGED <<stopAsked, proc>>
  /\ UNCHANGED <<purpose, aborted, queue, startup, starter, server>>

\* The disposal ended, or failed, or its timeout fired.
Disposed(m) ==
  /\ Calm /\ ans[m] = "pending"
  /\ server' = FALSE
  /\ \/ Results({m}, "result") /\ connected' = FALSE
     \/ Exits({m}) /\ UNCHANGED connected
  /\ UNCHANGED <<purpose, aborted, queue, startup, starter, stopAsked>>

RunBlueprint(m) ==
  /\ purpose = "blueprint" /\ Receives(m)
  /\ ans' = [ans EXCEPT ![m] = "pending"]
  /\ UNCHANGED <<purpose, aborted, queue, start, proc>>

BlueprintEnds(m) ==
  /\ Calm /\ ans[m] = "pending"
  /\ \/ m \notin aborted /\ Results({m}, "result")
     \/ Exits({m})
     \/ Dies("cli") /\ UNCHANGED ans
  /\ UNCHANGED <<purpose, aborted, queue, start, connected>>

-----------------------------------------------------------------------------
(* wp-cli-command: sequential with a limit, a queue and a key.              *)

\* The command that runs or waits with these arguments.  No Key stands for the empty
\* one, of a command without arguments, which sequential never shares.
InFlight(r) == {l \in Locks \union Waiting : Key[l] = Key[r]}

\* Joins: the handler awaits the promise that is there.  QueueFull: an error
\* for this one, also when a slot is free.  Enters: `execute` goes on.
Joins(r) ==
  \E l \in InFlight(r) :
    /\ leader' = [leader EXCEPT ![r] = l]
    /\ ans' = [ans EXCEPT ![r] = "pending"] /\ UNCHANGED <<stage, waitsFor>>

QueueFull(r) ==
  /\ InFlight(r) = {} /\ Cardinality(Waiting) >= MaxQueue
  /\ Errors({r}) /\ UNCHANGED queue

\* Mutant: the limit is passed by one.
EntersOneMore(r) ==
  /\ InFlight(r) = {} /\ Cardinality(Waiting) <= MaxQueue
  /\ leader' = [leader EXCEPT ![r] = r]
  /\ ans' = [ans EXCEPT ![r] = "pending"]
  /\ IF Cardinality(Locks) < Concurrent
     THEN stage' = [stage EXCEPT ![r] = "starting"] /\ UNCHANGED waitsFor
     ELSE /\ stage' = [stage EXCEPT ![r] = "waiting"]
          /\ waitsFor' = [waitsFor EXCEPT ![r] = Locks]

Enters(r) ==
  /\ InFlight(r) = {} /\ Cardinality(Waiting) < MaxQueue
  /\ leader' = [leader EXCEPT ![r] = r]
  /\ ans' = [ans EXCEPT ![r] = "pending"]
  /\ IF Cardinality(Locks) < Concurrent
     THEN stage' = [stage EXCEPT ![r] = "starting"] /\ UNCHANGED waitsFor
     ELSE /\ stage' = [stage EXCEPT ![r] = "waiting"]
          /\ waitsFor' = [waitsFor EXCEPT ![r] = Locks]

RunWpCliCommand(r) ==
  /\ purpose = "server" /\ Receives(r)
  /\ Joins(r) \/ QueueFull(r) \/ Enters(r)
  /\ UNCHANGED <<purpose, aborted, start, proc>>

\* Every command it found running has ended; others may have come since.
Wakes(r) ==
  /\ Alive /\ r \in Woken
  /\ IF Cardinality(Locks) < Concurrent
     THEN stage' = [stage EXCEPT ![r] = "starting"] /\ UNCHANGED waitsFor
     ELSE waitsFor' = [waitsFor EXCEPT ![r] = Locks] /\ UNCHANGED stage
  /\ UNCHANGED <<purpose, ans, aborted, leader, start, proc>>

\* Mutant: the slot of a command that ends is not given back.
SettledKeeps(r) ==
  /\ stage' = [stage EXCEPT ![r] = "none"]
  /\ UNCHANGED <<leader, waitsFor>>

\* The promise of r is settled: its slot and its key are free, and of those
\* who wait for it the ones who wait for nobody else are woken.
Settled(r) ==
  /\ stage' = [stage EXCEPT ![r] = "none"]
  /\ waitsFor' = [w \in Runners |-> waitsFor[w] \ {r}]
  /\ UNCHANGED leader

\* The handlers that await it.
Sharers(r) == {m \in Runners : leader[m] = r /\ ans[m] = "pending"}

\* Mutant: a command does not wait for the startup.
CommandStartsEarly(r) ==
  /\ Alive /\ stage[r] = "starting" /\ Woken = {}
  /\ IF server
     THEN stage' = [stage EXCEPT ![r] = "cli"] /\ UNCHANGED <<ans, leader, waitsFor>>
     ELSE Settled(r) /\ Errors(Sharers(r))
  /\ UNCHANGED <<purpose, aborted, start, proc>>

\* The startup has settled or there is none.  From here on the abort of the
\* first caller throws in a listener.
CommandStarts(r) ==
  /\ Alive /\ stage[r] = "starting" /\ ~Starting /\ Woken = {}
  /\ IF server
     THEN stage' = [stage EXCEPT ![r] = "cli"] /\ UNCHANGED <<ans, leader, waitsFor>>
     ELSE Settled(r) /\ Errors(Sharers(r))
  /\ UNCHANGED <<purpose, aborted, start, proc>>

CommandEnds(r) ==
  /\ Calm /\ stage[r] = "cli"
  /\ Settled(r)
  /\ \/ Results(Sharers(r), "result")
     \/ Errors(Sharers(r)) /\ UNCHANGED <<child, cause>>
  /\ UNCHANGED <<purpose, aborted, start, connected>>

\* An abort message aborts the controller of the message it names.  Nobody
\* looks at the signal of a stop, of a start but the first, or of a WP-CLI
\* command that joined another; that of one that waits has no listener yet,
\* and gets none that would be called.  The listener of one that runs throws,
\* which nothing catches.
Aborts(m) ==
  /\ Calm /\ connected /\ ans[m] = "pending" /\ m \notin aborted
  /\ \/ m \in {starter} \union Blueprints /\ UNCHANGED <<child, cause>>
     \/ m \in Runners /\ stage[m] = "cli" /\ Dies("command")
  /\ aborted' = aborted \union {m}
  /\ UNCHANGED <<purpose, ans, queue, start, connected>>

-----------------------------------------------------------------------------
Startup == ArgsReady \/ CliReturns \/ SetUp \/ Undone
Command(r) == Wakes(r) \/ CommandStarts(r) \/ CommandEnds(r)

\* What the process does by itself, and what it is sent.
Works ==
  \/ Ends \/ Leaves \/ Startup
  \/ \E m \in Stoppers : Disposed(m)
  \/ \E m \in Blueprints : BlueprintEnds(m)
  \/ \E r \in Runners : Command(r)

IsSent ==
  \/ \E m \in Starters : StartServer(m)
  \/ \E m \in Stoppers : StopServer(m)
  \/ \E m \in Blueprints : RunBlueprint(m)
  \/ \E r \in Runners : RunWpCliCommand(r)
  \/ \E m \in Messages : Aborts(m)

Next == Works \/ IsSent

Spec == Init /\ [][Next]_vars

\* As long as something that was begun is to end (runCLI, a command, a
\* disposal, which has a timeout), something does; no message has to come.
FairSpec == Spec /\ WF_vars(Works)

-----------------------------------------------------------------------------
\* The state of each variable; a command waits for some that run.
TypeOK ==
  /\ purpose \in {"server", "blueprint"}
  /\ ans \in [Messages -> {"unsent", "pending", "result", "aborted", "error"}]
  /\ leader \in [Runners -> Runners \union {Nobody}]
  /\ stage \in [Runners -> {"none", "waiting", "starting", "cli"}]
  /\ waitsFor \in [Runners -> SUBSET Runners] /\ \A r \in Runners : waitsFor[r] \subseteq Locks
  /\ startup \in {"none", "args", "cli", "setup", "undoing", "ok", "failed"}
  /\ starter \in Starters \union {Nobody}
  /\ aborted \subseteq Messages
  /\ stopAsked \in BOOLEAN /\ server \in BOOLEAN /\ connected \in BOOLEAN
  /\ child \in {"up", "exiting", "dead"}
  /\ cause \in {"none", "exit", "left", "closed", "cli", "command"}

\* No more commands run or wait than the queue was given, and no two with the
\* same arguments, whoever comes while others are being woken
\* (sequential.ts:19-47).
QueueKeepsItsLimits ==
  /\ Cardinality(Locks) <= Concurrent
  /\ Cardinality(Waiting) <= MaxQueue
  /\ \A r1, r2 \in Locks \union Waiting : Key[r1] = Key[r2] => r1 = r2

\* No command runs on a server that is still being set up, though it is there
\* before the startup ends (playground-server-child.ts:460, 562).
NoCommandDuringStartup == Starting => \A r \in Runners : stage[r] # "cli"

\* A stop that was told it aborted the startup did: no start is answered with
\* a result (playground-server-child.ts:462-478, 510-514).
AbortedStartupFails ==
  (\E m \in Stoppers : ans[m] = "aborted") => \A m \in Starters : ans[m] # "result"

\* The server is used when its startup has ended well, and only then.
StartupDecides == NoCommandDuringStartup /\ AbortedStartupFails

\* Every message is answered unless the process ends (each comes once, so in
\* the end none is pending): no command waits for
\* ever behind others, and no handler awaits what never settles.
AnsweredOrEnded == <>[](child = "dead" \/ Pending(Messages) = {})

\* A process that was told to stop ends, whatever it was doing.
StopEndsChild == (\E m \in Stoppers : ans[m] # "unsent") ~> child = "dead"

\* Nothing the process is sent goes on for ever (sequential.ts:37-49,
\* playground-server-child.ts:439-539).
AllEnds == AnsweredOrEnded /\ StopEndsChild

\* "Don't crash, just return error to caller" (playground-server-child.ts:694)
\* The code does not keep it: README, "Known divergences".
CommandsNeverKill == cause # "command"
=============================================================================
