------------------------------ MODULE AgentRuns ------------------------------
(***************************************************************************)
(* The runs of Studio's assistant in one chat session.  The window         *)
(* (studio-code-session/use-agent-run.tsx) sends a prompt, or queues it    *)
(* while a run is going on, sends the head of the queue when the run has   *)
(* ended, stops runs and answers questions.  The main process              *)
(* (modules/ai-agent/run-manager.ts) forks a child for a prompt (`studio   *)
(* code sessions resume`), which works, may ask, completes its turn and    *)
(* exits, and forwards its messages to the window as events.               *)
(*                                                                         *)
(* Calls of the window reach the main process in order but                 *)
(* continueAiSession reads files before it starts a run; what the main     *)
(* process sends (answers and events) arrives in order.  Messages of a     *)
(* child may be read after its exit, and events wait in a queue of their   *)
(* run while a session is placed on disk.  A child may fail to spawn, and  *)
(* then has neither messages nor an exit.  The window may be reloaded, its *)
(* assistant tab left (AgentRunProvider lives there), and another session  *)
(* of the tab shown.                                                       *)
(*                                                                         *)
(* Abstracted: what prompts and messages say, the entries of the           *)
(* conversation, statistics, a batch of questions is one question.  Other  *)
(* sessions are seen where they hold dispatchingQueuedRef.  Not modelled:  *)
(* closing the window (abortOnDestroy, run-manager.ts:275).                *)
(***************************************************************************)
EXTENDS Naturals, Sequences, FiniteSets, SequencesExt

CONSTANTS
  MaxPrompts,   \* prompts the user sends, numbered in their order
  MaxRuns,      \* bound: children forked
  MaxQuestions, \* bound: questions that children ask, in all
  MaxReloads,   \* bound: reloads of the window, and times its tab is left
  MaxSwitches,  \* bound: times another session is shown
  MaxFaults     \* bound: refused starts (no login, unreadable session), failed spawns, crashes

ASSUME AgentRunsAssumption ==
  /\ MaxPrompts \in Nat /\ MaxRuns \in Nat /\ MaxQuestions \in Nat
  /\ MaxReloads \in Nat /\ MaxSwitches \in Nat /\ MaxFaults \in Nat

Prompts == 1..MaxPrompts
Runs == 1..MaxRuns

VARIABLES
  state,       \* the session's State in the window: phase, runId, queue, asked
  subscribed,  \* the run whose events count, or 0
  ignored,     \* runs whose events do not
  stopPending, \* a stop was clicked before the run had an id
  stopping,    \* the run whose interrupt call is remembered, or 0
  dispatching, \* the prompt the queue's effect is sending, or 0
  call,        \* call[p]: continueAiSession for p waits for a stop, is invoked, or an orphan
  after,       \* after[p]: the stop it waits for
  doomed,      \* orphans of a tab that was left with stopPending: the first that runs is stopped
  view,        \* the session is shown; hidden; or passed: shown, but its effect found
               \* dispatchingQueuedRef held by another session
  sent,        \* prompts sent so far
  stops,       \* interrupt calls on their way, in order
  inbox,       \* answers and events on their way to the window
  bySession,   \* runsBySessionId for the session: a run or 0
  prompt,      \* prompt[r]: what run r was forked for, 0 if it was not
  interrupted, \* runs that were told to stop
  child,       \* child[r]: none, failed (never spawned), working, asking, done, ended;
               \* drains (its exit was handled, its eventQueue is not empty), gone when it is
  late,        \* runs whose last message is read after their exit
  questions, reloads, switches, faults,
  settled,     \* history: prompts removed, refused or cleared
  forgotten,   \* history: prompts lost with the state of a page or tab that came back
  stopped,     \* history: prompts whose run the user stopped
  misled,      \* history: a queued prompt was removed while it was being sent
  stale,       \* history: stopPending may meet another start than it was meant for
  lost         \* history: runs whose entry in bySession another run's exit removed, and
               \* runs forked for a page that was gone

window  == <<state, subscribed, ignored, stopPending, stopping, dispatching, call, after,
             doomed, view, sent>>
manager == <<bySession, prompt, interrupted, late>>
chans   == <<stops, inbox>>
bounds  == <<questions, reloads, switches, faults>>
history == <<settled, forgotten, stopped, misled, stale, lost>>
vars == <<window, manager, child, chans, bounds, history>>

initialState == [phase |-> "idle", runId |-> 0, queue |-> <<>>, asked |-> FALSE]

Init ==
  /\ state = initialState /\ subscribed = 0 /\ ignored = {} /\ stopPending = FALSE
  /\ stopping = 0 /\ dispatching = 0 /\ sent = 0 /\ doomed = {} /\ view = "shown"
  /\ call = [p \in Prompts |-> "none"] /\ after = [p \in Prompts |-> 0]
  /\ stops = <<>> /\ inbox = <<>>
  /\ bySession = 0 /\ prompt = [r \in Runs |-> 0]
  /\ interrupted = {} /\ late = {}
  /\ child = [r \in Runs |-> "none"]
  /\ questions = 0 /\ reloads = 0 /\ switches = 0 /\ faults = 0
  /\ settled = {} /\ forgotten = {} /\ stopped = {} /\ misled = FALSE /\ stale = FALSE /\ lost = {}

Fault == faults < MaxFaults /\ faults' = faults + 1

-----------------------------------------------------------------------------
(* The window: the reducer of a session. *)

Hydrated(s, r) == [s EXCEPT !.phase = "running", !.runId = r]
TurnCompleted ==
  [state EXCEPT !.phase = IF @ = "idle" THEN "idle" ELSE "winding_down", !.asked = FALSE]
\* Mutant: the run's end resets all but the phase.
EndedButBusy == [initialState EXCEPT !.queue = state.queue, !.phase = state.phase]
RunEnded == [initialState EXCEPT !.queue = state.queue]
InterruptRequested == [state EXCEPT !.phase = "idle", !.runId = 0, !.asked = FALSE]

(* The window: what the user does. *)

\* The queue's effect runs again when its dependencies change.
Refires ==
  view' \in IF view = "passed" /\ (state'.phase # state.phase \/ state'.queue # state.queue)
            THEN {"shown", "passed"} ELSE {view}

\* The prompts whose start has not been answered yet.
Starting == {p \in Prompts : call[p] \in {"waits", "invoked"}} \union
            {m.prompt : m \in {m \in ToSet(inbox) : m.type = "reply"}}

\* The first part of startRun: a stop that is on its way comes first.
StartRun(p) ==
  /\ call' = [call EXCEPT ![p] = IF stopping = 0 THEN "invoked" ELSE "waits"]
  /\ after' = [after EXCEPT ![p] = stopping]
  /\ state' = [state EXCEPT !.phase = "starting", !.runId = 0]
  /\ stale' = (stale \/ (stopPending /\ Starting # {}))

Busy == state.phase # "idle" \/ state.asked \/ state.queue # <<>>

SendMessage ==
  /\ view # "hidden" /\ sent < MaxPrompts /\ sent' = sent + 1
  /\ \/ /\ Busy
        /\ state' = [state EXCEPT !.queue = Append(@, sent + 1)]
        /\ UNCHANGED <<call, after, stale>>
     \/ ~Busy /\ StartRun(sent + 1)
  /\ Refires
  /\ UNCHANGED <<subscribed, ignored, stopPending, stopping, dispatching, doomed, manager, child,
                 chans, bounds, settled, forgotten, stopped, misled, lost>>

\* Mutant: no guard against a second send of the head.
DispatchTwice ==
  /\ view = "shown" /\ state.phase = "idle" /\ state.queue # <<>>
  /\ dispatching' = Head(state.queue) /\ StartRun(Head(state.queue))
  /\ UNCHANGED <<subscribed, ignored, stopPending, stopping, doomed, view, sent, manager, child,
                 chans, bounds, settled, forgotten, stopped, misled, lost>>
\* The effect that sends the head of the queue when no run is going on.
DispatchQueued ==
  /\ view = "shown" /\ state.phase = "idle" /\ state.queue # <<>> /\ dispatching = 0
  /\ dispatching' = Head(state.queue) /\ StartRun(Head(state.queue))
  /\ UNCHANGED <<subscribed, ignored, stopPending, stopping, doomed, view, sent, manager, child,
                 chans, bounds, settled, forgotten, stopped, misled, lost>>

RemoveQueuedPrompt ==
  \E i \in DOMAIN state.queue :
    /\ view # "hidden"
    /\ state' = [state EXCEPT !.queue = RemoveAt(@, i)]
    /\ settled' = settled \union {state.queue[i]}
    /\ misled' = (misled \/ state.queue[i] = dispatching)
    /\ Refires
    /\ UNCHANGED <<subscribed, ignored, stopPending, stopping, dispatching, call, after, doomed,
                   sent, manager, child, chans, bounds, forgotten, stopped, stale, lost>>

AskToStop(r) == stops' = Append(stops, r) /\ stopping' = r

\* The stop button.  A run without an id is stopped when it gets one.
Interrupt ==
  /\ view # "hidden" /\ state.phase # "idle"
  /\ state' = InterruptRequested /\ subscribed' = 0
  /\ \/ /\ state.runId # 0
        /\ ignored' = ignored \union {state.runId} /\ AskToStop(state.runId)
        /\ stopped' = stopped \union {prompt[state.runId]}
        /\ UNCHANGED <<stopPending, stale>>
     \/ /\ state.runId = 0
        /\ stopPending' = TRUE
        /\ stopped' = stopped \union Starting
        /\ stale' = (stale \/ Starting = {})
        /\ UNCHANGED <<ignored, stops, stopping>>
  /\ Refires
  /\ UNCHANGED <<dispatching, call, after, doomed, sent, manager, child, inbox, bounds,
                 settled, forgotten, misled, lost>>

\* The answer reaches the child if it still waits for one.
AnswerQuestion ==
  /\ view # "hidden" /\ state.asked /\ state.runId # 0
  /\ state' = [state EXCEPT !.asked = FALSE]
  /\ child' = (IF child[state.runId] = "asking" THEN [child EXCEPT ![state.runId] = "working"] ELSE child)
  /\ UNCHANGED <<subscribed, ignored, stopPending, stopping, dispatching, call, after, doomed, view,
                 sent, manager, chans, bounds, history>>

\* What a page or tab that comes back knows: it asks for the active run first,
\* and what it knew and what was sent to it is lost.  What happens while it is
\* away happens before.
ComesBack ==
  /\ reloads < MaxReloads /\ reloads' = reloads + 1
  /\ stops = <<>>
  /\ state' = (IF bySession = 0 THEN initialState ELSE Hydrated(initialState, bySession))
  /\ subscribed' = bySession
  /\ ignored' = {} /\ stopPending' = FALSE /\ stopping' = 0 /\ dispatching' = 0 /\ view' = "shown"
  /\ after' = [p \in Prompts |-> 0]
  /\ inbox' = <<>>
  /\ UNCHANGED <<sent, manager, child, stops, questions, switches, faults,
                 settled, stopped, misled, stale, lost>>

\* Calls in these stages go on, for nobody.
Orphaned(stages) == [p \in Prompts |-> IF call[p] \in stages THEN "orphan" ELSE "none"]

\* The page goes: calls that were invoked are served.
Reload ==
  /\ ComesBack
  /\ call' = Orphaned({"invoked", "orphan"}) /\ doomed' = {}
  /\ forgotten' = forgotten \union ToSet(state.queue) \union {p \in Starting : call[p] # "invoked"}

\* The provider goes with its tab or its site's page: what it awaits it still
\* does, and a stop that waits for a run's id still hits that run.  (Two tabs
\* that were left with such a stop are not told apart.)
LeaveTab ==
  /\ ComesBack
  /\ stopPending => doomed = {} /\ \A m \in ToSet(inbox) : m.type # "reply"
  /\ call' = Orphaned({"waits", "invoked", "orphan"})
  /\ doomed' = IF stopPending THEN {p \in Prompts : call[p] \in {"waits", "invoked"}} ELSE doomed
  /\ forgotten' = forgotten \union ToSet(state.queue) \union {p \in Starting : call[p] = "none"}

\* Another session of the tab is shown, and this one again.
HideSession ==
  /\ view # "hidden" /\ view' = "hidden"
  /\ switches < MaxSwitches /\ switches' = switches + 1
  /\ UNCHANGED <<state, subscribed, ignored, stopPending, stopping, dispatching, call, after,
                 doomed, sent, manager, child, chans, questions, reloads, faults, history>>
ShowSession ==
  /\ view = "hidden"
  /\ \/ view' = "shown"
     \/ dispatching = 0 /\ view' = "passed"
  /\ UNCHANGED <<state, subscribed, ignored, stopPending, stopping, dispatching, call, after,
                 doomed, sent, manager, child, chans, bounds, history>>

-----------------------------------------------------------------------------
(* The window: what it is told. *)

Message(type, r, p) == [type |-> type, run |-> r, prompt |-> p]
Event(type, r) == Message(type, r, 0)
Ends == {"run.interrupted", "run.exited"}

Told(type) == inbox # <<>> /\ Head(inbox).type = type /\ inbox' = Tail(inbox)

\* Mutant: the prompt stays in the queue until its run ends.
ShiftedLate(p, s) == s
\* The queue's effect goes on: queue_shift.
Shifted(p, s) == IF dispatching = p /\ s.queue # <<>> THEN [s EXCEPT !.queue = Tail(@)] ELSE s
Dispatched(p) == dispatching' = IF dispatching = p THEN 0 ELSE dispatching

\* Mutant: a stop that waited for the run's id is not forgotten.
StoppedForEver ==
  LET r == Head(inbox).run
      p == Head(inbox).prompt
  IN  /\ Told("reply") /\ r # 0
      /\ \/ /\ stopPending
            /\ ignored' = ignored \union {r} /\ AskToStop(r)
            /\ state' = Shifted(p, state)
            /\ UNCHANGED <<subscribed, stopPending>>
         \/ /\ ~stopPending
            /\ state' = Shifted(p, Hydrated(state, r)) /\ subscribed' = r
            /\ UNCHANGED <<ignored, stopPending, stops, stopping>>
      /\ Dispatched(p) /\ Refires
      /\ UNCHANGED <<call, after, doomed, sent, manager, child, bounds, history>>
\* startRun after continueAiSession has a run.
RunStarted ==
  LET r == Head(inbox).run
      p == Head(inbox).prompt
  IN  /\ Told("reply") /\ r # 0
      /\ \/ /\ stopPending /\ stopPending' = FALSE
            /\ ignored' = ignored \union {r} /\ AskToStop(r)
            /\ state' = Shifted(p, state)
            /\ UNCHANGED subscribed
         \/ /\ ~stopPending
            /\ state' = Shifted(p, Hydrated(state, r)) /\ subscribed' = r
            /\ UNCHANGED <<ignored, stopPending, stops, stopping>>
      /\ Dispatched(p) /\ Refires
      /\ UNCHANGED <<call, after, doomed, sent, manager, child, bounds, history>>

\* startRun after continueAiSession has thrown: queue_clear.
RunRefused ==
  LET p == Head(inbox).prompt
  IN  /\ Told("reply") /\ Head(inbox).run = 0
      /\ state' = IF dispatching = p THEN [state EXCEPT !.queue = <<>>] ELSE state
      /\ settled' = settled \union {p} \union (IF dispatching = p THEN ToSet(state.queue) ELSE {})
      /\ Dispatched(p) /\ Refires
      /\ stale' = (stale \/ stopPending)
      /\ UNCHANGED <<subscribed, ignored, stopPending, stopping, call, after, doomed, sent, manager,
                     child, stops, bounds, forgotten, stopped, misled, lost>>

\* An interrupt call is answered: its finally, and the starts that wait for it.
StopAnswered ==
  LET r == Head(inbox).run
  IN  /\ Told("stopped")
      /\ stopping' = IF stopping = r THEN 0 ELSE stopping
      /\ call' = [p \in Prompts |-> IF call[p] = "waits" /\ after[p] = r THEN "invoked" ELSE call[p]]
      /\ after' = [p \in Prompts |-> IF after[p] = r THEN 0 ELSE after[p]]
      /\ UNCHANGED <<state, subscribed, ignored, stopPending, dispatching, doomed, view, sent,
                     manager, child, stops, bounds, history>>

\* The switch of handleAgentEvent.
Reduced(m) ==
  CASE m.type = "run.started" -> Hydrated(state, m.run)
    [] m.type = "turn.completed" -> TurnCompleted
    [] m.type = "run.interrupting" -> InterruptRequested
    [] m.type = "question.asked" -> [state EXCEPT !.asked = TRUE]
    [] m.type \in Ends -> RunEnded

EventTypes == {"run.started", "turn.completed", "run.interrupting", "question.asked"} \union Ends

\* Mutant: the end of a run that the user stopped is not waited for: every event counts.
AllEventsCount ==
  LET m == Head(inbox)
  IN  /\ inbox # <<>> /\ m.type \in EventTypes /\ inbox' = Tail(inbox)
      /\ state' = Reduced(m)
      /\ subscribed' = (IF m.type = "run.started" THEN m.run
                        ELSE IF m.type \in Ends THEN 0 ELSE subscribed)
      /\ Refires
      /\ UNCHANGED <<ignored, stopPending, stopping, dispatching, call, after, doomed, sent,
                     manager, child, stops, bounds, history>>
HandleAgentEvent ==
  LET m == Head(inbox)
  IN  /\ inbox # <<>> /\ m.type \in EventTypes /\ inbox' = Tail(inbox)
      /\ \/ /\ m.run \in ignored
            /\ ignored' = IF m.type \in Ends THEN ignored \ {m.run} ELSE ignored
            /\ UNCHANGED <<state, subscribed>>
         \/ /\ m.run \notin ignored /\ subscribed \notin {0, m.run}
            /\ UNCHANGED <<state, subscribed, ignored>>
         \/ /\ m.run \notin ignored /\ subscribed \in {0, m.run}
            /\ state' = Reduced(m)
            /\ subscribed' = (IF m.type = "run.started" THEN m.run
                              ELSE IF m.type \in Ends THEN 0 ELSE subscribed)
            /\ UNCHANGED ignored
      /\ Refires
      /\ UNCHANGED <<stopPending, stopping, dispatching, call, after, doomed, sent, manager, child,
                     stops, bounds, history>>

-----------------------------------------------------------------------------
(* The main process. *)

Sends(messages) == inbox' = inbox \o messages

\* continueAiSession fails, or startAgentRun finds a run of the session.
Refuse(p) ==
  /\ call[p] \in {"invoked", "orphan"}
  /\ \/ bySession # 0 /\ UNCHANGED faults
     \/ Fault
  /\ call' = [call EXCEPT ![p] = "none"] /\ doomed' = doomed \ {p}
  /\ \/ call[p] = "invoked" /\ Sends(<<Message("reply", 0, p)>>) /\ UNCHANGED forgotten
     \/ call[p] = "orphan" /\ forgotten' = forgotten \union {p} /\ UNCHANGED inbox
  /\ UNCHANGED <<state, subscribed, ignored, stopPending, stopping, dispatching, after, view, sent,
                 manager, child, stops, questions, reloads, switches, settled, stopped, misled,
                 stale, lost>>

\* startAgentRun forks a child; its spawn event follows the answer.  One that
\* cannot be spawned has an error event instead, which only sets a text.  An
\* orphan's answer stops the run if a stop has waited for it.
StartAgentRun(p) ==
  \E r \in Runs :
    /\ call[p] \in {"invoked", "orphan"} /\ bySession = 0
    /\ prompt[r] = 0 /\ \A q \in 1..(r - 1) : prompt[q] # 0
    /\ call' = [call EXCEPT ![p] = "none"]
    /\ bySession' = r /\ prompt' = [prompt EXCEPT ![r] = p]
    /\ LET answer == IF call[p] = "invoked" THEN <<Message("reply", r, p)>> ELSE <<>>
       IN  \/ /\ child' = [child EXCEPT ![r] = "working"]
              /\ Sends(answer \o <<Event("run.started", r)>>) /\ UNCHANGED faults
           \/ child' = [child EXCEPT ![r] = "failed"] /\ Sends(answer) /\ Fault
    /\ stops' = (IF p \in doomed THEN Append(stops, r) ELSE stops)
    /\ doomed' = (IF p \in doomed THEN {} ELSE doomed)
    /\ lost' = (IF call[p] = "orphan" THEN lost \union {r} ELSE lost)
    /\ UNCHANGED <<state, subscribed, ignored, stopPending, stopping, dispatching, after, view,
                   sent, interrupted, late, questions, reloads, switches, settled, forgotten,
                   stopped, misled, stale>>

\* runsById: the children whose exit was not handled, those that failed for ever.
ById == {r \in Runs : child[r] \notin {"none", "drains", "gone"}}
Killed(r) == child' = [child EXCEPT ![r] = IF @ = "failed" THEN @ ELSE "ended"]

\* interruptAgentRun: a first call asks the child (and arms a timeout), or
\* kills one that cannot be reached; a second call kills.
InterruptAgentRun ==
  LET r == Head(stops)
      asks == r \in ById \ interrupted
  IN  /\ stops # <<>> /\ stops' = Tail(stops)
      /\ interrupted' = interrupted \union ({r} \intersect ById)
      /\ bySession' = (IF r \in ById /\ bySession = r THEN 0 ELSE bySession)
      /\ \/ /\ asks
            /\ Sends(<<Event("run.interrupting", r), Event("stopped", r)>>)
            /\ UNCHANGED child
         \/ /\ asks => child[r] \in {"done", "ended", "failed"}
            /\ IF r \in ById THEN Killed(r) ELSE UNCHANGED child
            /\ Sends(<<Event("stopped", r)>>)
      /\ UNCHANGED <<window, prompt, late, bounds, history>>

\* Mutant: the timeout finds the child gone from a table it was never in.
NeverKilled(r) ==
  FALSE /\ child' = [child EXCEPT ![r] = "ended"] /\ UNCHANGED <<window, manager, chans, bounds, history>>
\* INTERRUPT_FORCE_KILL_TIMEOUT_MS is over.
ForceKill(r) ==
  /\ r \in interrupted /\ child[r] \in {"working", "asking", "done"}
  /\ Killed(r)
  /\ UNCHANGED <<window, manager, chans, bounds, history>>

\* Mutant: the exit leaves the session's entry.
EntryStays(r) ==
  /\ child[r] = "ended" /\ child' = [child EXCEPT ![r] = "drains"]
  /\ UNCHANGED <<window, bySession, lost, prompt, interrupted, late, chans, bounds, settled,
                 forgotten, stopped, misled, stale>>
\* The child's exit: cleanup takes the session's entry, whoever's it is.
Cleanup(r) ==
  /\ child[r] = "ended" /\ child' = [child EXCEPT ![r] = "drains"]
  /\ bySession' = 0
  /\ lost' = lost \union ({bySession} \ {0, r})
  /\ UNCHANGED <<window, prompt, interrupted, late, chans, bounds, settled, forgotten, stopped,
                 misled, stale>>

\* The eventQueue is empty: the end is told.
EventQueueDrained(r) ==
  /\ child[r] = "drains" /\ child' = [child EXCEPT ![r] = "gone"]
  /\ Sends((IF r \in interrupted THEN <<Event("run.interrupted", r)>> ELSE <<>>)
           \o <<Event("run.exited", r)>>
           \o (IF r \in late THEN <<Event("turn.completed", r)>> ELSE <<>>))
  /\ UNCHANGED <<window, manager, stops, bounds, history>>

-----------------------------------------------------------------------------
(* The child. *)

AskUser(r) ==
  /\ child[r] = "working" /\ questions < MaxQuestions /\ questions' = questions + 1
  /\ child' = [child EXCEPT ![r] = "asking"] /\ Sends(<<Event("question.asked", r)>>)
  /\ UNCHANGED <<window, manager, stops, reloads, switches, faults, history>>

\* The turn ends by itself, or because the child was told to stop.
CompleteTurn(r) ==
  /\ \/ child[r] = "working"
     \/ child[r] = "asking" /\ r \in interrupted
  /\ child' = [child EXCEPT ![r] = "done"]
  /\ \/ Sends(<<Event("turn.completed", r)>>) /\ UNCHANGED late
     \/ late' = late \union {r} /\ UNCHANGED inbox
  /\ UNCHANGED <<window, bySession, prompt, interrupted, stops, bounds, history>>

EndChild(r) ==
  /\ \/ child[r] = "done" /\ UNCHANGED faults
     \/ child[r] \in {"working", "asking"} /\ Fault
  /\ Killed(r)
  /\ UNCHANGED <<window, manager, chans, questions, reloads, switches, history>>

-----------------------------------------------------------------------------
Receive == RunStarted \/ RunRefused \/ StopAnswered \/ HandleAgentEvent
User == SendMessage \/ RemoveQueuedPrompt \/ Interrupt \/ AnswerQuestion \/ Reload \/ LeaveTab
        \/ HideSession \/ ShowSession

Next ==
  \/ User \/ DispatchQueued \/ Receive
  \/ \E p \in Prompts : Refuse(p) \/ StartAgentRun(p)
  \/ InterruptAgentRun
  \/ \E r \in Runs : ForceKill(r) \/ Cleanup(r) \/ EventQueueDrained(r)
                     \/ AskUser(r) \/ CompleteTurn(r) \/ EndChild(r)

Spec == Init /\ [][Next]_vars

\* Both processes go on, a turn that was not told to stop ends (or asks), a child
\* that has completed its turn exits, and the user answers what is asked.  A child
\* that was told to stop need not obey, and the session need not be shown.
Fairness ==
  /\ WF_vars(DispatchQueued) /\ WF_vars(Receive) /\ WF_vars(InterruptAgentRun)
  /\ WF_vars(AnswerQuestion)
  /\ \A p \in Prompts : WF_vars(Refuse(p) \/ StartAgentRun(p))
  /\ \A r \in Runs :
       /\ WF_vars(ForceKill(r)) /\ WF_vars(Cleanup(r)) /\ WF_vars(EventQueueDrained(r))
       /\ WF_vars(r \notin interrupted /\ CompleteTurn(r))
       /\ WF_vars(r \notin interrupted /\ child[r] = "done" /\ EndChild(r))
FairSpec == Spec /\ Fairness
-----------------------------------------------------------------------------
(* Properties. *)

Views == {"shown", "passed", "hidden"}
Phases == {"idle", "starting", "running", "winding_down"}
Forked == {r \in Runs : prompt[r] # 0}

\* Every variable has its type; the session's entry is a child whose exit was
\* not handled, and only children that were forked were told to stop.
TypeOK ==
  /\ state.phase \in Phases /\ state.runId \in {0} \union Runs /\ state.asked \in BOOLEAN
  /\ state.queue \in Seq(Prompts)
  /\ subscribed \in {0} \union Runs /\ ignored \subseteq Runs /\ stopPending \in BOOLEAN
  /\ stopping \in {0} \union Runs /\ dispatching \in {0} \union Prompts
  /\ sent \in 0..MaxPrompts /\ view \in Views
  /\ call \in [Prompts -> {"none", "waits", "invoked", "orphan"}] /\ after \in [Prompts -> {0} \union Runs]
  /\ doomed \subseteq {p \in Prompts : call[p] = "orphan"}
  /\ bySession \in {0} \union ById
  /\ interrupted \subseteq Forked /\ late \subseteq Forked
  /\ child \in [Runs -> {"none", "failed", "working", "asking", "done", "ended", "drains", "gone"}]
  /\ \A r \in Runs : (child[r] = "none") = (prompt[r] = 0)

Alive == {r \in Runs : child[r] \in {"working", "asking", "done"}}

\* No prompt is given to two children, however its start, the queue's effect
\* and stops interleave (use-agent-run.tsx, the comment on dispatchingQueuedRef).
PromptsRunOnce == \A r, q \in Forked : prompt[r] = prompt[q] => r = q

IsKept(p) ==
  \/ p \in settled \union ToSet(state.queue) \union Starting \/ call[p] = "orphan"
  \/ \E r \in Forked : prompt[r] = p

\* A prompt the user sent is run, or waits to be, or its loss was shown: it was
\* removed, or refused with an error.
\* The code does not keep it: README, "Known divergences".
EveryPromptIsKept == \A p \in 1..sent : IsKept(p)

\* It is, unless a prompt was removed from the queue while it was being sent, or
\* it was waiting when the page or its tab went (use-agent-run.tsx, the comment
\* on run_ended: staged follow-ups survive the end of a run).
PromptsAreKept == ~misled => \A p \in 1..sent : p \in forgotten \/ IsKept(p)

\* Only runs the user stopped are told to stop.
\* The code does not keep it: README, "Known divergences".
StopsAreExact == \A r \in interrupted : prompt[r] \in stopped

\* Only they are, unless a stop was clicked when no start was going on: that one
\* hits the next run.
StopsHitTheirRun == ~stale => StopsAreExact

Quiet ==
  /\ inbox = <<>> /\ stops = <<>> /\ \A p \in Prompts : call[p] = "none"
  /\ \A r \in Runs : child[r] \notin {"ended", "drains"}

\* With nothing on its way, a child that works was told to stop or is the run
\* the window shows and can stop, unless another child's exit took its entry or
\* it was forked for a page that was gone.
NothingRunsUnseen == Quiet => Alive \ (interrupted \union lost) \subseteq {state.runId}

\* With nothing on its way, the run that the window shows is alive.
\* The code does not keep it: README, "Known divergences".
ShownRunsLive == Quiet /\ state.runId # 0 => state.runId \in Alive

\* It is, or its child could not be spawned, and the user has to stop it.
ShownRuns == Quiet /\ state.runId # 0 => state.runId \in Alive \/ child[state.runId] = "failed"

\* What the window and the main process believe of a session's runs agrees.
RunsAreRight ==
  PromptsRunOnce /\ PromptsAreKept /\ StopsHitTheirRun /\ NothingRunsUnseen /\ ShownRuns

\* A start that failed leaves its phase behind (which a late message of the run
\* before it may have changed), a run whose child was not
\* spawned is shown until it is stopped, a page that was reloaded does not know
\* the question its run waits with, and the queue of a session that is not
\* shown, or that was passed over when it was idle, is not sent.
AwaitsUser ==
  \/ state.phase = "starting" /\ Starting = {}
  \/ state.phase = "winding_down" /\ state.runId = 0 /\ Starting = {} /\ late # {}
  \/ state.runId # 0 /\ child[state.runId] = "failed"
  \/ \E r \in Runs : child[r] = "asking" /\ ~state.asked
  \/ view = "hidden"
  \/ view = "passed" /\ state.phase = "idle"

\* A run that was told to stop ends, whether its child obeys or not, if it was
\* ever spawned, and a queue is sent or cleared in the end, whatever becomes of
\* the runs before it, unless the session waits for the user.
RunsMove ==
  /\ interrupted # {} ~> \A r \in interrupted : child[r] \in {"gone", "failed"}
  /\ state.queue # <<>> ~> state.queue = <<>> \/ AwaitsUser

\* "Two subprocesses resuming the same session id would race on the JSONL
\* recorder, so we reject the second one": no two children of the session are
\* alive.
\* The code does not keep it: README, "Known divergences".
OneChildAtATime == Cardinality(Alive) <= 1

\* A session whose start failed is idle again.
\* The code does not keep it: README, "Known divergences".
FailedStartsEnd == state.phase = "starting" => Starting # {}

\* A session whose start is under way does not look idle, unless it was stopped.
\* The code does not keep it: README, "Known divergences".
StartsAreShown == \A p \in Starting \ stopped : state.phase # "idle"

\* A question that a run waits with is shown.
\* The code does not keep it: README, "Known divergences".
QuestionsAreShown == Quiet => \A r \in Runs : child[r] = "asking" => r \in interrupted \/ state.asked
=============================================================================
