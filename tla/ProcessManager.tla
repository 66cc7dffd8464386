--------------------------- MODULE ProcessManager ---------------------------
(***************************************************************************)
(* The process manager daemon (apps/cli/process-manager-daemon.ts).        *)
(*                                                                         *)
(* One Node.js process owns a table of child processes, one per running    *)
(* site, proxy or other service.  Clients send it requests over the        *)
(* control socket; it spawns, stops and lists children and broadcasts what *)
(* happens to them over the events socket.                                 *)
(*                                                                         *)
(* A handler runs without interruption up to its first await, so each      *)
(* request handler, each child process callback and each timer is one      *)
(* action; the promise continuations a callback triggers run before the    *)
(* next callback and belong to its action.  The children are processes of  *)
(* the operating system: they die when they like, and the daemon learns of *)
(* it later, when their 'exit' event is delivered.                         *)
(*                                                                         *)
(* Abstracted: log files, environment, arguments, ping, list-processes and *)
(* send-message-to-process (they change nothing in the daemon).  A native  *)
(* PHP server child has several workers; one per child stands for them.    *)
(* Signals are modelled for POSIX: SIGKILL ends its target, SIGTERM only   *)
(* asks.                                                                   *)
(***************************************************************************)
EXTENDS Naturals, Sequences, FiniteSets

CONSTANTS Names,     \* process names: one per site or service
          Clients,   \* CLI commands with a request slot on the control socket
          Shutdown,  \* stands for the shutdown routine where it waits like a client
          Native,    \* the names whose children are native PHP servers, with workers
          MaxPm      \* bound: processes spawned during the daemon's life

ASSUME MaxPmIsNat == MaxPm \in Nat
ASSUME NativeAreNames == Native \subseteq Names
ASSUME ClientsAreFinite == IsFiniteSet(Clients)
ASSUME ShutdownIsNoClient == Shutdown \notin Clients

Pm == 1..MaxPm
Ops == {"start-process", "stop-process", "kill-daemon"}
Waiter == (Clients \cup {Shutdown}) \X Pm

VARIABLES
  daemon,      \* "running", "closing" its sockets, or "exited"
  nextPmId,    \* next id of the process table
  pname,       \* pname[p]: the name process p was started under
  managed,     \* keys of managedProcesses: the processes that are not settled
  child,       \* child[p]: "dead" until its 'exit' event is delivered, then "gone"
  worker,      \* worker[p]: the PHP workers of child p
  known,       \* children whose workers' pids are in grandchildrenPids
  told,        \* children whose known workers the daemon has signalled
  call,        \* call[c]: the request of client c and what became of it
  waiters,     \* stopProcess calls that wait for the 'exit' of a child
  timers,      \* those of them whose escalation timeout has not fired
  shutdownOn,  \* shutdownPromise is not null
  cutoff,      \* history: nextPmId when the latest shutdown began
  log          \* log[n]: history of the process events broadcast for name n

tableVars == <<nextPmId, pname, managed>>
osVars == <<child, worker>>
stopVars == <<waiters, timers>>
shutVars == <<daemon, shutdownOn, cutoff>>
vars == <<tableVars, osVars, known, told, call, stopVars, shutVars, log>>

NoCall == [op |-> "none", name |-> "none", pm |-> 0, st |-> "idle"]

Init ==
  /\ daemon = "running"
  /\ nextPmId = 1
  /\ pname = [p \in Pm |-> "none"]
  /\ managed = {} /\ known = {} /\ told = {}
  /\ child = [p \in Pm |-> "none"]
  /\ worker = [p \in Pm |-> "none"]
  /\ call = [c \in Clients |-> NoCall]
  /\ waiters = {} /\ timers = {}
  /\ shutdownOn = FALSE /\ cutoff = 1
  /\ log = [n \in Names |-> <<>>]
-----------------------------------------------------------------------------
(* Helpers. *)

Alive(p) == child[p] = "alive"

\* managedProcesses.values() is in insertion order, hence by increasing id.
First(S) == CHOOSE p \in S : \A q \in S : p <= q

\* Mutant: a process that is being stopped no longer counts.
ManagedByNameUnlessStopping(n) ==
  {p \in managed : pname[p] = n /\ \A w \in waiters : w[2] # p}
ManagedByName(n) == {p \in managed : pname[p] = n}

Event(ev, p) == [event |-> ev, pm |-> p]

\* The daemon serves requests until process.exit, also while it shuts down.
Serving(c, op) ==
  /\ daemon # "exited"
  /\ call[c].st = "sent" /\ call[c].op = op

Answer(c, st, p) == call' = [call EXCEPT ![c].st = st, ![c].pm = p]

\* Mutant: the escalation repeats SIGTERM.
KillAsks(S) == UNCHANGED osVars /\ told' = told \cup (S \cap known)
\* signalProcessGroup with SIGKILL, for the processes in S: their own groups
\* and the groups of the workers they have reported.
Kill(S) ==
  /\ child' = [p \in Pm |-> IF p \in S /\ Alive(p) THEN "dead" ELSE child[p]]
  /\ worker' = [p \in Pm |-> IF p \in S \cap known /\ worker[p] = "alive"
                            THEN "dead" ELSE worker[p]]
  /\ told' = told \cup (S \cap known)

\* stopProcess on behalf of w, for the processes in S: wait for 'exit', arm
\* the escalation timeout, send SIGTERM.
Stop(w, S) ==
  /\ waiters' = waiters \cup ({w} \X S)
  /\ timers' = timers \cup ({w} \X S)
  /\ told' = told \cup (S \cap known)
-----------------------------------------------------------------------------
(* Clients. *)

\* A command connects to the control socket and writes one request.
Request(c, op, n) ==
  /\ call[c].st = "idle"
  /\ call' = [call EXCEPT ![c] = [op |-> op, name |-> n, pm |-> 0, st |-> "sent"]]
  /\ UNCHANGED <<tableVars, osVars, known, told, stopVars, shutVars, log>>

\* The command reads the response and closes its connection.
Acknowledge(c) ==
  /\ call[c].st \in {"ok", "error"}
  /\ call' = [call EXCEPT ![c] = NoCall]
  /\ UNCHANGED <<tableVars, osVars, known, told, stopVars, shutVars, log>>

\* Nobody listens any more: the connection is refused or closed.
Refuse(c) ==
  /\ daemon = "exited" /\ call[c].st = "sent"
  /\ Answer(c, "error", 0)
  /\ UNCHANGED <<tableVars, osVars, known, told, stopVars, shutVars, log>>
-----------------------------------------------------------------------------
(* Request handlers. *)

\* Mutant: the id counter is read but not advanced.
TakePmIdOnly == nextPmId <= MaxPm /\ nextPmId' = nextPmId
TakePmId == nextPmId <= MaxPm /\ nextPmId' = nextPmId + 1

\* start-process when a process of that name is online: nothing is spawned.
StartExisting(c) ==
  /\ Serving(c, "start-process")
  /\ ManagedByName(call[c].name) # {}
  /\ Answer(c, "ok", First(ManagedByName(call[c].name)))
  /\ UNCHANGED <<tableVars, osVars, known, told, stopVars, shutVars, log>>

\* start-process spawns; the process is in the table before anyone hears of it.
StartProcess(c) ==
  LET n == call[c].name
      p == nextPmId
  IN  /\ Serving(c, "start-process")
      /\ ManagedByName(n) = {}
      /\ TakePmId
      /\ pname' = [pname EXCEPT ![p] = n]
      /\ managed' = managed \cup {p}
      /\ child' = [child EXCEPT ![p] = "alive"]
      /\ log' = [log EXCEPT ![n] = Append(@, Event("online", p))]
      /\ Answer(c, "ok", p)
      /\ UNCHANGED <<worker, known, told, stopVars, shutVars>>

\* spawn fails: the 'error' event comes on the next tick, before the response
\* and before any other request, and settles the process.
StartFails(c) ==
  LET n == call[c].name
      p == nextPmId
  IN  /\ Serving(c, "start-process")
      /\ ManagedByName(n) = {}
      /\ TakePmId
      /\ pname' = [pname EXCEPT ![p] = n]
      /\ child' = [child EXCEPT ![p] = "gone"]
      /\ log' = [log EXCEPT ![n] = @ \o <<Event("online", p), Event("exit", p)>>]
      /\ Answer(c, "ok", p)
      /\ UNCHANGED <<managed, worker, known, told, stopVars, shutVars>>

\* stop-process for a name nobody runs under: answered at once.
StopNothing(c) ==
  /\ Serving(c, "stop-process")
  /\ ManagedByName(call[c].name) = {}
  /\ Answer(c, "ok", 0)
  /\ UNCHANGED <<tableVars, osVars, known, told, stopVars, shutVars, log>>

StopProcess(c) ==
  LET p == First(ManagedByName(call[c].name))
  IN  /\ Serving(c, "stop-process")
      /\ ManagedByName(call[c].name) # {}
      /\ Stop(c, {p})
      /\ Answer(c, "waiting", p)
      /\ UNCHANGED <<tableVars, osVars, known, shutVars, log>>

\* Mutant: processes that are being stopped already are not waited for.
ToShutDownNew == managed \ {w[2] : w \in waiters}
\* The processes stopAllChildren stops: a snapshot of the table.
ToShutDown == managed

\* beginShutdownByKillingChildren: join the shutdown that is on, or stop every
\* process of the table; with none to stop it is over at once.
BeginShutdown ==
  \/ /\ shutdownOn
     /\ UNCHANGED <<stopVars, told, shutVars>>
  \/ /\ ~shutdownOn /\ managed # {}
     /\ shutdownOn' = TRUE /\ cutoff' = nextPmId
     /\ Stop(Shutdown, ToShutDown)
     /\ UNCHANGED daemon
  \/ /\ ~shutdownOn /\ managed = {}
     /\ daemon' = "closing" /\ cutoff' = nextPmId
     /\ UNCHANGED <<shutdownOn, stopVars, told>>

KillDaemon(c) ==
  /\ Serving(c, "kill-daemon")
  /\ BeginShutdown
  /\ Answer(c, IF shutdownOn' THEN "waiting" ELSE "ok", 0)
  /\ UNCHANGED <<tableVars, osVars, known, log>>

\* SIGINT or SIGTERM.
Signal ==
  /\ daemon # "exited"
  /\ BeginShutdown
  /\ UNCHANGED <<tableVars, osVars, known, call, log>>
-----------------------------------------------------------------------------
(* Timers and child process events. *)

\* Mutant: the timeout answers the request.
StopTimeoutGivesUp(w) ==
  /\ daemon # "exited" /\ w \in timers
  /\ timers' = timers \ {w}
  /\ call' = [c \in Clients |-> IF c = w[1] THEN [call[c] EXCEPT !.st = "ok"] ELSE call[c]]
  /\ UNCHANGED <<tableVars, osVars, known, told, waiters, shutVars, log>>
\* STOP_TIMEOUT_MS after SIGTERM the child has not exited: SIGKILL.
StopTimeout(w) ==
  /\ daemon # "exited" /\ w \in timers
  /\ timers' = timers \ {w}
  /\ Kill({w[2]})
  /\ UNCHANGED <<tableVars, known, call, waiters, shutVars, log>>

\* Mutant: the stop listeners run before handleProcessExit.
ExitEventsSwapped(p, stops) ==
  [i \in 1..stops |-> Event("delete", p)] \o <<Event("exit", p)>>
\* What the exit of p broadcasts when so many stopProcess calls wait for it.
ExitEvents(p, stops) ==
  <<Event("exit", p)>> \o [i \in 1..stops |-> Event("delete", p)]

\* All stopProcess calls of the shutdown have returned when p has exited and the
\* calls in left still wait.
ShutdownOver(p, left) == shutdownOn /\ \A w \in left : w[1] # Shutdown

\* The 'exit' listeners of child p, in the order they were added:
\* handleProcessExit, then those of the stopProcess calls that wait for it.  The
\* last of a shutdown broadcasts daemon-kill and lets the daemon close.
Exited(p) ==
  LET done == {w \in waiters : w[2] = p}
      left == waiters \ done
      over == ShutdownOver(p, left)
  IN  /\ daemon # "exited"
      /\ child[p] = "dead"
      /\ child' = [child EXCEPT ![p] = "gone"]
      /\ managed' = managed \ {p}
      /\ waiters' = left
      /\ timers' = timers \ done
      /\ log' = [log EXCEPT ![pname[p]] = @ \o ExitEvents(p, Cardinality(done))]
      /\ call' = [c \in Clients |->
                    IF \/ <<c, p>> \in done
                       \/ over /\ call[c].op = "kill-daemon" /\ call[c].st = "waiting"
                    THEN [call[c] EXCEPT !.st = "ok"] ELSE call[c]]
      /\ shutdownOn' = (shutdownOn /\ ~over)
      /\ daemon' = IF over THEN "closing" ELSE daemon
      /\ UNCHANGED <<nextPmId, pname, worker, known, told, cutoff>>

\* A 'server-process-started' message of child p.
WorkerReported(p) ==
  /\ daemon # "exited"
  /\ child[p] \in {"alive", "dead"} /\ worker[p] # "none"
  /\ known' = known \cup {p}
  /\ UNCHANGED <<tableVars, osVars, told, call, stopVars, shutVars, log>>

\* The sockets are closed and the process exits.  forceCleanupChildren runs in
\* the 'exit' handler of the process, where nothing after an await is executed:
\* only the first process of the table is signalled.
ExitDaemon ==
  /\ daemon = "closing"
  /\ daemon' = "exited"
  /\ Kill(IF managed = {} THEN {} ELSE {First(managed)})
  /\ call' = [c \in Clients |-> IF call[c].st = "waiting"
                               THEN [call[c] EXCEPT !.st = "error"] ELSE call[c]]
  /\ UNCHANGED <<tableVars, known, stopVars, shutdownOn, cutoff, log>>
-----------------------------------------------------------------------------
(* The operating system. *)

\* The child starts its workers, or starts new ones for those it lost.
WorkerStarts(p) ==
  /\ pname[p] \in Native /\ Alive(p) /\ worker[p] # "alive"
  /\ worker' = [worker EXCEPT ![p] = "alive"]
  /\ known' = known \ {p} /\ told' = told \ {p}
  /\ UNCHANGED <<tableVars, child, call, stopVars, shutVars, log>>

WorkerExits(p) ==
  /\ worker[p] = "alive"
  /\ worker' = [worker EXCEPT ![p] = "dead"]
  /\ UNCHANGED <<tableVars, child, known, told, call, stopVars, shutVars, log>>

\* The child ends by itself or heeds SIGTERM, and reaps its workers first.
ChildQuits(p) ==
  /\ Alive(p)
  /\ child' = [child EXCEPT ![p] = "dead"]
  /\ worker' = [worker EXCEPT ![p] = IF @ = "alive" THEN "dead" ELSE @]
  /\ UNCHANGED <<tableVars, known, told, call, stopVars, shutVars, log>>

\* The child is killed from outside and its workers are not.
ChildCrashes(p) ==
  /\ Alive(p)
  /\ child' = [child EXCEPT ![p] = "dead"]
  /\ UNCHANGED <<tableVars, worker, known, told, call, stopVars, shutVars, log>>
-----------------------------------------------------------------------------
Next ==
  \/ \E c \in Clients :
       \/ \E op \in Ops, n \in Names : Request(c, op, n)
       \/ Acknowledge(c) \/ Refuse(c)
       \/ StartExisting(c) \/ StartProcess(c) \/ StartFails(c)
       \/ StopNothing(c) \/ StopProcess(c)
       \/ KillDaemon(c)
  \/ Signal \/ ExitDaemon
  \/ \E w \in Waiter : StopTimeout(w)
  \/ \E p \in Pm : \/ Exited(p) \/ WorkerReported(p)
                   \/ WorkerStarts(p) \/ WorkerExits(p)
                   \/ ChildQuits(p) \/ ChildCrashes(p)

Spec == Init /\ [][Next]_vars

\* The daemon's event loop serves requests, timers and exits; nothing is
\* assumed of clients, signals, children and workers.
Fairness ==
  /\ \A c \in Clients : WF_vars(Refuse(c) \/ StopNothing(c) \/ StopProcess(c) \/ KillDaemon(c))
  /\ \A w \in Waiter : WF_vars(StopTimeout(w))
  /\ \A p \in Pm : WF_vars(Exited(p))
  /\ WF_vars(ExitDaemon)

FairSpec == Spec /\ Fairness
-----------------------------------------------------------------------------
(* Properties. *)

CallState == {"idle", "sent", "waiting", "ok", "error"}
Calls == [op : Ops \cup {"none"}, name : Names \cup {"none"}, pm : 0..MaxPm,
          st : CallState]
Events == [event : {"online", "exit", "delete"}, pm : Pm]

\* Types, and ids: only ids that were handed out are in the table.
TypeOK ==
  /\ daemon \in {"running", "closing", "exited"}
  /\ nextPmId \in 1..(MaxPm + 1)
  /\ pname \in [Pm -> Names \cup {"none"}]
  /\ managed \subseteq 1..(nextPmId - 1)
  /\ child \in [Pm -> {"none", "alive", "dead", "gone"}]
  /\ worker \in [Pm -> {"none", "alive", "dead"}]
  /\ known \subseteq Pm /\ told \subseteq Pm
  /\ call \in [Clients -> Calls]
  /\ waiters \subseteq Waiter /\ timers \subseteq waiters
  /\ shutdownOn \in BOOLEAN
  /\ cutoff \in 1..nextPmId
  /\ log \in [Names -> Seq(Events)]

\* As long as the daemon runs, a live child is in its table: list-processes
\* shows it and stop-process and kill-daemon reach it (startProcess inserts
\* before it answers, handleProcessExit removes only after the exit).
LiveChildIsManaged ==
  daemon # "exited" => \A p \in Pm : Alive(p) => p \in managed

\* Two start-process requests for one name, whatever stops, exits and shutdowns
\* come between, never leave two live children under it: two servers would
\* serve one site directory on one port.
OneLiveChildPerName ==
  \A p, q \in Pm : Alive(p) /\ Alive(q) /\ pname[p] = pname[q] => p = q

\* A stop-process request is answered only when the child it found is dead:
\* the caller goes on to delete files the child would still use.
StopAnsweredWhenDead ==
  \A c \in Clients :
    call[c].op = "stop-process" /\ call[c].st = "ok" /\ call[c].pm # 0
      => ~Alive(call[c].pm)

\* Once a shutdown is over no child started before it began is alive: those
\* that outlive the daemon were started while it was shutting down.
ShutdownKillsAllBefore ==
  ~shutdownOn => \A p \in Pm : p < cutoff => ~Alive(p)

\* Every stop-process and kill-daemon request is answered, or its connection
\* closed, even when the child ignores SIGTERM and stops and shutdowns overlap.
StopsEnd ==
  \A c \in Clients :
    call[c].op \in {"stop-process", "kill-daemon"} /\ call[c].st \in {"sent", "waiting"}
      ~> call[c].st \in {"ok", "error"}

\* A shutdown, once begun, leads to the end of the daemon, although start
\* requests are served until then.
ShutdownEnds == shutdownOn ~> daemon = "exited"

\* Whatever is asked to end, ends: stops, shutdowns and their requests
\* (stopProcess and beginShutdownByKillingChildren).
RequestsEnd == StopsEnd /\ ShutdownEnds

\* The daemon implements ServiceSlots: a name is a slot, its instance is the
\* process of that name in the table.  In the events broadcast for a name, then,
\* the story of one process ends before that of the next begins, and is: online,
\* one exit, deletes.  Listeners that track a site by name rely on it.
Slots == INSTANCE ServiceSlots WITH
  slot <- [n \in Names |-> LET S == {p \in managed : pname[p] = n}
                             IN  IF S = {} THEN 0 ELSE First(S)],
  last <- nextPmId - 1,
  MaxStops <- Cardinality(Clients) + 1

ImplementsSlots == Slots!Spec

\* "Track child pids of the child process so that they aren't orphaned when the
\* parent exits" (process-manager-daemon.ts:48): once the exit of a child is
\* handled, the workers it reported are dead or have been signalled.
\* The code does not keep it: README, "Known divergences".
ReportedWorkersNotOrphaned ==
  \A p \in known : child[p] = "gone" => worker[p] # "alive" \/ p \in told
-----------------------------------------------------------------------------
(* The inductive invariant behind the safety properties. *)

\* The table holds exactly the children whose exit is not handled yet, under
\* different names.
TableInv ==
  /\ \A p \in Pm : p \in managed <=> child[p] \in {"alive", "dead"}
  /\ \A p \in managed : pname[p] \in Names
  /\ \A p, q \in managed : pname[p] = pname[q] => p = q

\* A shutdown waits for every child it found; when none is on, they are gone.
ShutdownInv ==
  /\ shutdownOn => \A p \in managed : p < cutoff => <<Shutdown, p>> \in waiters
  /\ ~shutdownOn => \A p \in managed : p >= cutoff

\* A stop call in progress waits for the child its client asked about.
CallInv ==
  /\ \A c \in Clients : /\ call[c].op # "none" => call[c].name \in Names
                        /\ call[c].pm < nextPmId
  /\ \A c \in Clients, p \in Pm :
       <<c, p>> \in waiters /\ daemon # "exited"
         => call[c].op = "stop-process" /\ call[c].st = "waiting" /\ call[c].pm = p

\* The inductive invariant.
IInv == TypeOK /\ TableInv /\ ShutdownInv /\ CallInv /\ StopAnsweredWhenDead
=============================================================================
