--------------------------- MODULE ServerHandshake ---------------------------
(***************************************************************************)
(* How CLI commands start and stop the server of one site                  *)
(* (apps/cli/lib/wordpress-server-manager.ts): startWordPressServer,       *)
(* subscribeForReadyOrExit, sendMessage and stopWordPressServer, against   *)
(* the daemon and the server child they talk to.                           *)
(*                                                                         *)
(* A command is a process of its own.  It has two ways to the daemon: each *)
(* request is a connection to the control socket that carries one answer,  *)
(* and the events socket carries what the daemon broadcasts.  Nothing      *)
(* orders an answer and an event against each other.  The child talks to   *)
(* the daemon over its IPC channel, and the daemon may see the child's     *)
(* exit before it has read the child's last messages.                      *)
(*                                                                         *)
(* The daemon is taken at its promise (ServiceSlots: one instance per      *)
(* name, fresh ids, stop answered when the instance is gone).  The child   *)
(* is what both runtimes have in common: it says "ready", coalesces        *)
(* starts, lets a stop abort a startup, answers an error before it exits.  *)
(*                                                                         *)
(* Abstracted: activity and console messages, which only postpone the      *)
(* inactivity timeout; what a start does before it subscribes (SQLite,     *)
(* custom domain, PHP binary) and the error text.                          *)
(***************************************************************************)
EXTENDS Naturals, Sequences, FiniteSets, SequencesExt

CONSTANTS Starters,  \* commands that start the site's server
          Stoppers,  \* commands that stop it
          MaxPm      \* bound: server processes spawned

ASSUME MaxPmIsNat == MaxPm \in Nat
ASSUME RolesAreDisjoint == Starters \cap Stoppers = {}
ASSUME NoneIsNoClient == "none" \notin Starters \cup Stoppers

Clients == Starters \cup Stoppers
Pm == 1..MaxPm

VARIABLES
  last,     \* the last process id the daemon handed out
  proc,     \* proc[p]: "none", "online", "dead", or "gone" once the exit is handled
  phase,    \* phase[p]: what child p is doing
  owed,     \* owed[p]: the requests child p has taken and not answered, oldest first
  inbox,    \* inbox[p]: messages the daemon has written to child p
  wire,     \* wire[p]: messages of child p that the daemon has not read
  events,   \* events[c]: broadcasts on their way to client c
  step,     \* step[c]: where client c stands
  pm,       \* pm[c]: the process client c deals with
  buffer,   \* buffer[c]: pendingReady and pendingExits, the processes heard of
  sending,  \* clients whose send-message request the daemon has not served
  grace,    \* clients with an exit timer (CHILD_EXIT_ERROR_GRACE_MS) running
  exited,   \* stoppers whose exit listener has fired
  since,    \* history: last when client c subscribed
  stale,    \* history: clients that still had an older exit to hear of when
            \* the daemon told them their process
  served    \* history: the processes whose startup succeeded

daemonVars == <<last, proc>>
childVars == <<phase, owed, served>>
chanVars == <<inbox, wire>>
clientVars == <<step, pm, buffer, sending, grace, exited, since, stale>>
vars == <<daemonVars, childVars, chanVars, events, clientVars>>

Final == {"running", "started", "aborted", "timeout", "refused", "error", "exit",
          "nothing", "stopped"}
Over(c) == step[c] \in Final

\* A command that is over may have left a server running.
Init ==
  /\ last \in (0..1) \cap (0..MaxPm)
  /\ proc = [p \in Pm |-> IF p <= last THEN "online" ELSE "none"]
  /\ phase = [p \in Pm |-> IF p <= last THEN "serving" ELSE "none"]
  /\ served = 1..last
  /\ owed = [p \in Pm |-> <<>>]
  /\ inbox = [p \in Pm |-> <<>>] /\ wire = [p \in Pm |-> <<>>]
  /\ events = [c \in Clients |-> <<>>]
  /\ step = [c \in Clients |-> "begin"]
  /\ pm = [c \in Clients |-> 0]
  /\ buffer = [c \in Clients |-> [ready |-> {}, exit |-> {}]]
  /\ sending = {} /\ grace = {} /\ exited = {} /\ stale = {}
  /\ since = [c \in Clients |-> 0]
-----------------------------------------------------------------------------
(* Helpers. *)

\* The process listed as online under the site's name, if any.
Listed == {p \in Pm : proc[p] \in {"online", "dead"}}

\* Event ev about process p; a child's answer names the request it answers.
Event(ev, p, c) == [event |-> ev, pm |-> p, to |-> c]

\* Whether a listener of client c, now or later, reacts to e: left out are
\* "ready" for stoppers and answers of processes that are not the client's.
Concerns(e, c) ==
  \/ e.event = "exit"
  \/ e.event = "ready" /\ c \in Starters
  \/ e.event \in {"result", "error"} /\ e.pm = pm[c]

\* Every connected client gets a broadcast; a finished one has disconnected.
Broadcast(e) ==
  events' = [c \in Clients |-> IF Over(c) THEN <<>>
                               ELSE IF Concerns(e, c) THEN Append(events[c], e) ELSE events[c]]

\* Mutant: the exit timer is not cleared.
EndKeepsTimer(c, result) ==
  /\ step' = [step EXCEPT ![c] = result]
  /\ events' = [events EXCEPT ![c] = <<>>]
  /\ UNCHANGED grace
\* The client leaves: listeners and timers go, the bus closes.  A request it
\* has sent is served all the same.
EndAs(c, result) ==
  /\ step' = [step EXCEPT ![c] = result]
  /\ events' = [events EXCEPT ![c] = <<>>]
  /\ grace' = grace \ {c}

\* A message to the child: the request of c, or its abort.
Message(c, topic) == [from |-> c, topic |-> topic]
Topic(c) == IF c \in Starters THEN "start" ELSE "stop"

\* An exit of another instance is still on its way to c.
StaleExit(c, p) == \E i \in DOMAIN events[c] : events[c][i].event = "exit" /\ events[c][i].pm # p
-----------------------------------------------------------------------------
(* A start. *)

\* isServerRunning finds the process online: "already running".
AlreadyRunning(c) ==
  /\ c \in Starters /\ step[c] = "begin" /\ Listed # {}
  /\ EndAs(c, "running")
  /\ UNCHANGED <<daemonVars, childVars, chanVars, pm, buffer, sending, exited, since, stale>>

NotRunning(c) ==
  /\ c \in Starters /\ step[c] = "begin" /\ Listed = {}
  /\ step' = [step EXCEPT ![c] = "setup"]
  /\ UNCHANGED <<daemonVars, childVars, chanVars, events, pm, buffer, sending, grace,
                 exited, since, stale>>

\* subscribeForReadyOrExit, and the start-process request sets out.
Subscribe(c) ==
  /\ step[c] = "setup"
  /\ step' = [step EXCEPT ![c] = "subscribed"]
  /\ since' = [since EXCEPT ![c] = last]
  /\ UNCHANGED <<daemonVars, childVars, chanVars, events, pm, buffer, sending, grace,
                 exited, stale>>

\* The client is told of process p and goes on at step s.
Told(c, p, s) ==
  /\ step' = [step EXCEPT ![c] = s]
  /\ pm' = [pm EXCEPT ![c] = p]
  /\ stale' = IF StaleExit(c, p) THEN stale \cup {c} ELSE stale

\* The daemon serves start-process: the instance there is, or a new one.
GetInstance(c) ==
  /\ step[c] = "subscribed"
  /\ \E p \in Listed : Told(c, p, "told")
  /\ UNCHANGED <<daemonVars, childVars, chanVars, events, buffer, sending, grace,
                 exited, since>>

NewInstance(c) ==
  /\ step[c] = "subscribed" /\ Listed = {} /\ last < MaxPm
  /\ last' = last + 1
  /\ proc' = [proc EXCEPT ![last'] = "online"]
  /\ phase' = [phase EXCEPT ![last'] = "booting"]
  /\ Told(c, last', "told")
  /\ UNCHANGED <<owed, served, chanVars, events, buffer, sending, grace, exited, since>>

\* Mutant: the buffered events are not replayed.
ReplayNothing(c) == "waiting"
\* Mutant: a buffered exit of any process of the name counts.
ReplayAnyExit(c) ==
  IF buffer[c].exit # {} THEN "exit"
  ELSE IF pm[c] \in buffer[c].ready THEN "ready" ELSE "waiting"
\* What waitFor makes of the events buffered so far.
Replay(c) ==
  IF pm[c] \in buffer[c].exit THEN "exit"
  ELSE IF pm[c] \in buffer[c].ready THEN "ready" ELSE "waiting"

\* The answer to start-process arrives and waitFor is called.
WaitFor(c) ==
  /\ step[c] = "told"
  /\ IF Replay(c) = "exit" THEN EndAs(c, "exit")
     ELSE /\ step' = [step EXCEPT ![c] = Replay(c)]
          /\ UNCHANGED <<events, grace>>
  /\ UNCHANGED <<daemonVars, childVars, chanVars, pm, buffer, sending, exited, since, stale>>
-----------------------------------------------------------------------------
(* A stop. *)

\* stopWordPressServer asks isProcessRunning.
LookForServer(c) ==
  /\ c \in Stoppers /\ step[c] = "begin"
  /\ IF Listed = {} THEN /\ EndAs(c, "nothing")
                         /\ UNCHANGED <<pm, stale>>
     ELSE /\ \E p \in Listed : Told(c, p, "ready")
          /\ UNCHANGED <<events, grace>>
  /\ UNCHANGED <<daemonVars, childVars, chanVars, buffer, sending, exited, since>>

\* Mutant: the answer of the child is enough.
ExitHeardOrNot(c) == TRUE
ExitHeard(c) == c \in exited

\* Both waits of a stop are over: the result, and an exit of the name.
CloseStop(c) ==
  /\ step[c] = "closing" /\ ExitHeard(c)
  /\ EndAs(c, "stopped")
  /\ UNCHANGED <<daemonVars, childVars, chanVars, pm, buffer, sending, exited, since, stale>>

\* Mutant: nothing bounds the wait for the exit.
CloseTimeoutNever(c) == FALSE /\ UNCHANGED vars
\* stopWordPressServer gives up waiting and turns to stopProcess.
CloseTimeout(c) ==
  /\ step[c] = "closing" /\ c \notin exited
  /\ step' = [step EXCEPT ![c] = "kill"]
  /\ UNCHANGED <<daemonVars, childVars, chanVars, events, pm, buffer, sending, grace,
                 exited, since, stale>>

\* stopProcess, served by the daemon: answered when the instance is gone.
AskToKill(c) ==
  /\ step[c] = "kill"
  /\ IF Listed = {} THEN EndAs(c, "stopped") /\ UNCHANGED pm
     ELSE /\ \E p \in Listed : pm' = [pm EXCEPT ![c] = p]
          /\ step' = [step EXCEPT ![c] = "killing"]
          /\ UNCHANGED <<events, grace>>
  /\ UNCHANGED <<daemonVars, childVars, chanVars, buffer, sending, exited, since, stale>>

\* The child heeds SIGTERM, or STOP_TIMEOUT_MS later it is killed.
Kill(p) ==
  /\ proc[p] = "online" /\ \E c \in Stoppers : step[c] = "killing" /\ pm[c] = p
  /\ proc' = [proc EXCEPT ![p] = "dead"]
  /\ UNCHANGED <<last, childVars, chanVars, events, clientVars>>
-----------------------------------------------------------------------------
(* sendMessage: start-server for a starter, stop-server for a stopper. *)

\* How sendMessage ends badly: the start fails, a stop turns to stopProcess.
Fail(c, why) ==
  IF c \in Starters THEN EndAs(c, why)
  ELSE /\ step' = [step EXCEPT ![c] = "kill"]
       /\ grace' = grace \ {c}
       /\ UNCHANGED events

\* The listeners are attached and the send-message request sets out.
SendMessage(c) ==
  /\ step[c] = "ready"
  /\ step' = [step EXCEPT ![c] = "talking"]
  /\ sending' = sending \cup {c}
  /\ UNCHANGED <<daemonVars, childVars, chanVars, events, pm, buffer, grace, exited,
                 since, stale>>

\* The daemon serves it: the child gets the message, or it has left.
Forward(c) ==
  /\ c \in sending /\ sending' = sending \ {c}
  /\ IF pm[c] \in Listed /\ phase[pm[c]] # "disconnected"
     THEN /\ inbox' = [inbox EXCEPT ![pm[c]] = Append(@, Message(c, Topic(c)))]
          /\ UNCHANGED <<step, grace, events>>
     ELSE /\ IF step[c] = "talking" THEN Fail(c, "refused")
                                    ELSE UNCHANGED <<step, grace, events>>
          /\ UNCHANGED inbox
  /\ UNCHANGED <<daemonVars, childVars, wire, pm, buffer, exited, since, stale>>

\* Neither a ready, an answer nor an exit has come in time.
Timeout(c) ==
  /\ step[c] \in {"waiting", "talking"}
  /\ Fail(c, "timeout")
  /\ UNCHANGED <<daemonVars, childVars, chanVars, pm, buffer, sending, exited, since, stale>>

\* The exit timer fires.  Assumed: what the child said before it ended takes
\* less than CHILD_EXIT_ERROR_GRACE_MS to arrive.
GraceOver(c) ==
  /\ c \in grace
  /\ wire[pm[c]] = <<>> /\ \A i \in DOMAIN events[c] : events[c][i].to # c
  /\ Fail(c, "exit")
  /\ UNCHANGED <<daemonVars, childVars, chanVars, pm, buffer, sending, exited, since, stale>>

\* SIGINT or SIGTERM during a start.  Only the two waits listen for it; the
\* second tells the child, with a request that may die with the command.
Abort(c) ==
  /\ c \in Starters /\ step[c] \in {"waiting", "talking"}
  /\ EndAs(c, "aborted")
  /\ \/ /\ step[c] = "talking" /\ c \notin sending /\ pm[c] \in Listed
        /\ inbox' = [inbox EXCEPT ![pm[c]] = Append(@, Message(c, "abort"))]
     \/ UNCHANGED inbox
  /\ UNCHANGED <<daemonVars, childVars, wire, pm, buffer, sending, exited, since, stale>>
-----------------------------------------------------------------------------
(* The bus: client c hears the next broadcast. *)

Hears(c, kinds) == events[c] # <<>> /\ Head(events[c]).event \in kinds
Rest(c) == events' = [events EXCEPT ![c] = Tail(@)]

\* Before waitFor is called, ready and exit events are buffered.
Buffering(c) == step[c] \in {"subscribed", "told"}

BufferEvent(c) ==
  /\ Hears(c, {"ready", "exit"}) /\ Buffering(c)
  /\ buffer' = [buffer EXCEPT ![c][Head(events[c]).event] = @ \cup {Head(events[c]).pm}]
  /\ Rest(c)
  /\ UNCHANGED <<daemonVars, childVars, chanVars, step, pm, sending, grace, exited,
                 since, stale>>

\* While waitFor waits, the next ready or exit of the name settles it,
\* whichever process it is about.
WaitEnds(c) ==
  /\ Hears(c, {"ready", "exit"}) /\ step[c] = "waiting"
  /\ IF Head(events[c]).event = "exit" THEN EndAs(c, "exit")
     ELSE /\ step' = [step EXCEPT ![c] = "ready"]
          /\ Rest(c) /\ UNCHANGED grace
  /\ UNCHANGED <<daemonVars, childVars, chanVars, pm, buffer, sending, exited, since, stale>>

\* Mutant: any answer of the process is taken for the answer to this message.
IsAnswerOfProcess(c, e) == e.event \in {"result", "error"} /\ e.pm = pm[c]
IsAnswer(c, e) == e.event \in {"result", "error"} /\ e.pm = pm[c] /\ e.to = c

\* The answer to the message; it disarms the exit timer.
HearAnswer(c) ==
  /\ events[c] # <<>> /\ step[c] = "talking" /\ IsAnswer(c, Head(events[c]))
  /\ IF c \in Starters
     THEN EndAs(c, IF Head(events[c]).event = "result" THEN "started" ELSE "error")
     ELSE /\ step' = [step EXCEPT ![c] = IF Head(events[c]).event = "result"
                                         THEN "closing" ELSE "kill"]
          /\ grace' = grace \ {c} /\ Rest(c)
  /\ UNCHANGED <<daemonVars, childVars, chanVars, pm, buffer, sending, exited, since, stale>>

\* Mutant: an exit rejects the call at once.
OnExitFail(c) == Fail(c, "exit")
\* An exit of any process of the name arms the exit timer.
OnExit(c) == grace' = grace \cup {c} /\ Rest(c) /\ UNCHANGED step

HearExit(c) ==
  /\ Hears(c, {"exit"}) /\ step[c] = "talking"
  /\ OnExit(c)
  /\ exited' = IF c \in Stoppers THEN exited \cup {c} ELSE exited
  /\ UNCHANGED <<daemonVars, childVars, chanVars, pm, buffer, sending, since, stale>>

HearExitClosing(c) ==
  /\ Hears(c, {"exit"}) /\ step[c] = "closing"
  /\ exited' = exited \cup {c} /\ Rest(c)
  /\ UNCHANGED <<daemonVars, childVars, chanVars, step, pm, buffer, sending, grace,
                 since, stale>>

\* Nobody listens for this event now.
Ignore(c) ==
  /\ events[c] # <<>>
  /\ ~Buffering(c) \/ ~Hears(c, {"ready", "exit"})
  /\ step[c] = "waiting" => ~Hears(c, {"ready", "exit"})
  /\ step[c] = "talking" => ~Hears(c, {"exit"}) /\ ~IsAnswer(c, Head(events[c]))
  /\ step[c] = "closing" => ~Hears(c, {"exit"})
  /\ Rest(c)
  /\ UNCHANGED <<daemonVars, childVars, chanVars, clientVars>>

Deliver(c) ==
  \/ BufferEvent(c) \/ WaitEnds(c) \/ HearAnswer(c)
  \/ HearExit(c) \/ HearExitClosing(c) \/ Ignore(c)
-----------------------------------------------------------------------------
(* The daemon and the child. *)

\* The daemon reads the child's next message and broadcasts it.
ReadWire(p) ==
  /\ wire[p] # <<>>
  /\ wire' = [wire EXCEPT ![p] = Tail(@)]
  /\ Broadcast(Head(wire[p]))
  /\ UNCHANGED <<daemonVars, childVars, inbox, clientVars>>

\* The daemon handles the exit; the stop-process requests for p are answered.
HandleExit(p) ==
  LET freed == {c \in Stoppers : step[c] = "killing" /\ pm[c] = p}
  IN  /\ proc[p] = "dead"
      /\ proc' = [proc EXCEPT ![p] = "gone"]
      /\ step' = [c \in Clients |-> IF c \in freed THEN "stopped" ELSE step[c]]
      /\ events' = [c \in Clients |-> IF Over(c) \/ c \in freed THEN <<>>
                                      ELSE Append(events[c], Event("exit", p, "none"))]
      /\ inbox' = [inbox EXCEPT ![p] = <<>>]
      /\ owed' = [owed EXCEPT ![p] = <<>>]
      /\ phase' = [phase EXCEPT ![p] = "none"]
      /\ UNCHANGED <<last, served, wire, pm, buffer, sending, grace, exited, since, stale>>

ChildReady(p) ==
  /\ proc[p] = "online" /\ phase[p] = "booting"
  /\ phase' = [phase EXCEPT ![p] = "idle"]
  /\ wire' = [wire EXCEPT ![p] = Append(@, Event("ready", p, "none"))]
  /\ UNCHANGED <<daemonVars, owed, served, inbox, events, clientVars>>

\* Child p answers the clients of the sequence cs and goes on in phase ph.
Answers(p, kind, cs, ph) ==
  /\ wire' = [wire EXCEPT ![p] = @ \o [i \in DOMAIN cs |-> Event(kind, p, cs[i])]]
  /\ phase' = [phase EXCEPT ![p] = ph]

\* The child takes the next message of client c, if it is in one of the phases.
Takes(p, c, topic, phases) ==
  /\ proc[p] = "online" /\ phase[p] \in phases
  /\ inbox[p] # <<>> /\ Head(inbox[p]) = Message(c, topic)
  /\ inbox' = [inbox EXCEPT ![p] = Tail(@)]
  /\ UNCHANGED <<daemonVars, events, clientVars>>

\* A start-server message begins a startup or joins the one in progress.
TakeStart(p, c) ==
  /\ Takes(p, c, "start", {"idle", "starting", "aborting"})
  /\ phase' = [phase EXCEPT ![p] = IF @ = "idle" THEN "starting" ELSE @]
  /\ owed' = [owed EXCEPT ![p] = Append(@, c)]
  /\ UNCHANGED <<served, wire>>

\* It runs already.  While it is being stopped, Playground still says so, and
\* native PHP begins a startup that dies with the process.
TakeStartAgain(p, c) ==
  /\ Takes(p, c, "start", {"serving", "stopping"})
  /\ \/ Answers(p, "result", <<c>>, phase[p])
     \/ phase[p] = "stopping" /\ UNCHANGED <<phase, served, wire>>
  /\ UNCHANGED <<owed, served>>

\* stop-server during a startup aborts it: ABORTED_STARTUP.
TakeStopStarting(p, c) ==
  /\ Takes(p, c, "stop", {"starting", "aborting"})
  /\ Answers(p, "result", <<c>>, "aborting")
  /\ UNCHANGED <<owed, served>>

\* stop-server when no server runs, or none that it can see any more: the
\* child answers and disconnects.
TakeStopIdle(p, c) ==
  /\ Takes(p, c, "stop", {"idle", "stopping"})
  /\ Answers(p, "result", <<c>>, "disconnected")
  /\ UNCHANGED <<owed, served>>

TakeStopServing(p, c) ==
  /\ Takes(p, c, "stop", {"serving", "stopping"})
  /\ phase' = [phase EXCEPT ![p] = "stopping"]
  /\ owed' = [owed EXCEPT ![p] = Append(@, c)]
  /\ UNCHANGED <<served, wire>>

\* abort aborts the startup that c began; it changes nothing for one c joined.
TakeAbort(p, c) ==
  /\ Takes(p, c, "abort", {"idle", "starting", "aborting", "serving", "stopping"})
  /\ phase' = [phase EXCEPT ![p] = IF @ = "starting" /\ Head(owed[p]) = c
                                   THEN "aborting" ELSE @]
  /\ UNCHANGED <<owed, served, wire>>

\* Startup or stop come to their end; after an error the child exits.
Finish(p) ==
  /\ proc[p] = "online"
  /\ \/ phase[p] = "starting" /\ Answers(p, "result", owed[p], "serving")
     \/ phase[p] = "stopping" /\ Answers(p, "result", owed[p], "disconnected")
     \/ phase[p] \in {"starting", "aborting", "stopping"} /\ Answers(p, "error", owed[p], "leaving")
  /\ owed' = [owed EXCEPT ![p] = <<>>]
  /\ served' = IF phase'[p] = "serving" THEN served \cup {p} ELSE served
  /\ UNCHANGED <<daemonVars, inbox, events, clientVars>>

\* The child exits, as it means to or not.
ChildEnds(p) ==
  /\ proc[p] = "online"
  /\ proc' = [proc EXCEPT ![p] = "dead"]
  /\ UNCHANGED <<last, childVars, chanVars, events, clientVars>>
-----------------------------------------------------------------------------
Next ==
  \/ \E c \in Clients :
       \/ AlreadyRunning(c) \/ NotRunning(c) \/ Subscribe(c)
       \/ GetInstance(c) \/ NewInstance(c) \/ WaitFor(c)
       \/ LookForServer(c) \/ CloseStop(c) \/ CloseTimeout(c) \/ AskToKill(c)
       \/ SendMessage(c) \/ Forward(c)
       \/ Timeout(c) \/ GraceOver(c) \/ Abort(c)
       \/ Deliver(c)
  \/ \E p \in Pm :
       \/ ReadWire(p) \/ HandleExit(p) \/ Kill(p)
       \/ ChildReady(p) \/ Finish(p) \/ ChildEnds(p)
       \/ \E c \in Clients :
            \/ TakeStart(p, c) \/ TakeStartAgain(p, c)
            \/ TakeStopStarting(p, c) \/ TakeStopIdle(p, c) \/ TakeStopServing(p, c)
            \/ TakeAbort(p, c)

Spec == Init /\ [][Next]_vars

\* Commands go on, requests are served, messages and broadcasts arrive, a
\* living child boots, a stop's timers fire and the daemon's kill works.  No
\* child is assumed to answer or to exit, and no start to run into its timeout.
Fairness ==
  /\ \A c \in Clients :
       /\ WF_vars(Subscribe(c) \/ WaitFor(c) \/ SendMessage(c) \/ CloseStop(c)
                  \/ CloseTimeout(c) \/ AskToKill(c))
       /\ WF_vars(GetInstance(c) \/ NewInstance(c))
       /\ WF_vars(Forward(c)) /\ WF_vars(Deliver(c)) /\ WF_vars(GraceOver(c))
  /\ \A c \in Stoppers : WF_vars(Timeout(c))
  /\ \A p \in Pm : WF_vars(ReadWire(p)) /\ WF_vars(HandleExit(p))
                   /\ WF_vars(Kill(p)) /\ WF_vars(ChildReady(p))

FairSpec == Spec /\ Fairness
-----------------------------------------------------------------------------
(* Properties. *)

EventOf == [event : {"ready", "exit", "result", "error"}, pm : Pm, to : Clients \cup {"none"}]
MessageOf == [from : Clients, topic : {"start", "stop", "abort"}]
Steps == {"begin", "setup", "subscribed", "told", "waiting", "ready", "talking",
          "closing", "kill", "killing"} \cup Final

\* Types; and a client that deals with a process knows one that was spawned.
TypeOK ==
  /\ last \in 0..MaxPm
  /\ proc \in [Pm -> {"none", "online", "dead", "gone"}]
  /\ \A p \in Pm : proc[p] = "none" <=> p > last
  /\ phase \in [Pm -> {"none", "booting", "idle", "starting", "aborting", "serving",
                       "stopping", "disconnected", "leaving"}]
  /\ owed \in [Pm -> Seq(Clients)]
  /\ inbox \in [Pm -> Seq(MessageOf)] /\ wire \in [Pm -> Seq(EventOf)]
  /\ events \in [Clients -> Seq(EventOf)]
  /\ step \in [Clients -> Steps]
  /\ pm \in [Clients -> 0..last]
  /\ \A c \in Clients : step[c] \in {"told", "waiting", "ready", "talking", "killing"} => pm[c] # 0
  /\ buffer \in [Clients -> [ready : SUBSET Pm, exit : SUBSET Pm]]
  /\ sending \cup grace \subseteq Clients /\ exited \subseteq Stoppers /\ stale \subseteq Clients
  /\ \A c \in grace : step[c] = "talking"
  /\ since \in [Clients -> 0..last]
  /\ served \subseteq Pm

\* A start whose process was spawned after it subscribed cannot miss the
\* "ready" or "exit" that ends its wait: it has not happened yet, or is on its
\* way (the buffer of subscribeForReadyOrExit and its replay).
NothingMissed ==
  \A c \in Starters : step[c] = "waiting" /\ pm[c] > since[c] =>
    LET p == pm[c]
        tells(q) == \E i \in DOMAIN q : q[i].pm = p /\ q[i].event \in {"ready", "exit"}
    IN  \/ proc[p] = "online" /\ phase[p] = "booting"
        \/ proc[p] = "dead" \/ tells(wire[p]) \/ tells(events[c])

\* A start that reports success returns a process whose startup succeeded,
\* whatever starts, stops and aborts overlapped with it.
SuccessIsServed == \A c \in Starters : step[c] = "started" => pm[c] \in served

\* A start neither waits for what it has missed nor believes another's answer
\* (subscribeForReadyOrExit and sendMessage).
StartsAreRight == NothingMissed /\ SuccessIsServed

\* When the child has said what went wrong, or that all is well, the user is
\* told that and not that a process exited, even if the exit came first.
ErrorBeatsExit ==
  [][\A c \in Starters : step[c] # "exit" /\ step'[c] = "exit" =>
       \A p \in Pm : \A e \in ToSet(wire[p]) \cup ToSet(events[c]) : e.to # c]_vars

\* A start that blames an exit of its process is right, unless an older exit
\* was still on its way when the daemon answered it.
BlameIsRight ==
  \A c \in Starters : step[c] = "exit" /\ c \notin stale => proc[pm[c]] \in {"dead", "gone"}

\* A stop that returns leaves no process behind of those it dealt with, unless
\* an older exit was still on its way when it looked.
StopMeansStopped ==
  \A c \in Stoppers : step[c] = "stopped" /\ c \notin stale => pm[c] = 0 \/ proc[pm[c]] \in {"dead", "gone"}

\* What a start or a stop concludes from an exit event is true of the process
\* it deals with (waitFor, and stopWordPressServer's wait for the exit).
ExitsAreRight == BlameIsRight /\ StopMeansStopped

\* Every stop ends, though the child may neither answer nor exit.
StopsEnd == \A c \in Stoppers : step[c] # "begin" ~> Over(c)

\* "so we cannot miss an early `ready` or `exit` event"
\* (wordpress-server-manager.ts:325): a wait for them does not need its timeout.
\* The code does not keep it: README, "Known divergences".
WaitsAreAnswered == \A c \in Starters : step[c] = "waiting" ~> step[c] # "waiting"

\* "WordPress server is already running" (commands/site/start.ts:35): when every
\* command is over, the process that was reported as a running server is one
\* that was told to serve.
\* The code does not keep it: README, "Known divergences".
RunningWasToldToServe ==
  (\A c \in Clients : Over(c)) /\ sending = {} =>
    \A c \in Starters : step[c] = "running" =>
      \A p \in Listed : phase[p] = "idle" => inbox[p] # <<>>
=============================================================================
