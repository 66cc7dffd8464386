---------------------------- MODULE RemoteSession ----------------------------
(***************************************************************************)
(* A remote session (cli/remote-session): one process polls a Telegram bot *)
(* for messages (poll-loop.ts), has a child of its own answer each of them *)
(* (turn-runner.ts), shows on the way what the child does in one message   *)
(* that it edits (progress-streamer.ts), sends the child's photos          *)
(* (media-streamer.ts), and goes on until it is told to detach, its token  *)
(* is refused or its poll fails.                                           *)
(*                                                                         *)
(* Loop, child, status line, photos and signals interleave at every await. *)
(* Abstracted: texts, session ids (a chat has a saved session or not), the *)
(* retries inside respondMessage, log and statistics.  The cooldown and    *)
(* the limit of the rate of edits are one flag.                            *)
(***************************************************************************)
EXTENDS Naturals

CONSTANTS
  Chats,       \* chats that messages come from
  Bound,       \* the chat of the config, or None
  MaxMessages, \* messages polled
  MaxEvents,   \* steps and photos a child tells about, in all
  MaxFaults,   \* errors of files and of the network
  None

ASSUME SessionAssumption ==
  /\ Bound \in Chats \union {None} /\ None \notin Chats
  /\ MaxMessages \in Nat /\ MaxEvents \in Nat /\ MaxFaults \in Nat

VARIABLES
  at,        \* the await the loop is at
  batch,     \* messages of the last poll that are still to be handled
  polled,    \* messages handled, with the one at hand
  chat,      \* the chat of the message at hand
  saved,     \* the chat whose session the state file has
  requested, \* detachRequested
  aborted,   \* the signal that detach aborts
  goodbyes,  \* notices that the agent is detached
  child,     \* none, runs, deaf (never heard of the signal) or killed
  turn,      \* what handleTurn knows of its turn
  line,      \* the ProgressStreamer of the turn
  photos,    \* photos in the queue of its MediaStreamer
  told,      \* history: what answered the message at hand
  events, faults

loop  == <<at, batch, polled, chat, requested>>
chats == <<goodbyes, told>>
bound == <<events, faults>>
sessionVars  == <<loop, chats, bound, saved, aborted, child, turn, line, photos>>

At(step) == at = step
Over == {"poll", "sleep", "message", "bye", "done"}

NoTurn == [resumes |-> FALSE, status |-> None, reply |-> "none", crash |-> FALSE, session |-> "none",
           absorb |-> FALSE, absorbed |-> FALSE, thrown |-> FALSE, posted |-> FALSE]
NoLine == [known |-> FALSE, active |-> FALSE, pending |-> FALSE, timer |-> FALSE, cooling |-> FALSE,
           disposed |-> FALSE, shown |-> "none", sure |-> TRUE]

SessionInit ==
  /\ at = (IF Bound = None THEN "poll" ELSE "attach") /\ batch = 0 /\ polled = 0 /\ chat = None
  /\ saved \in Chats \union {None}
  /\ requested = FALSE /\ aborted = FALSE /\ goodbyes = 0
  /\ child = "none" /\ turn = NoTurn /\ line = NoLine /\ photos = 0 /\ told = {}
  /\ events = 0 /\ faults = 0

Goes(step) == at' = step
Fault == faults < MaxFaults /\ faults' = faults + 1
Tells(what) == told' = told \union {what}

\* The end of one round of the for loop: the next one, or what is after it.
Proceeds(stops) ==
  /\ requested' = stops
  /\ Goes(IF stops THEN "bye" ELSE IF batch > 0 THEN "message" ELSE "poll")
  /\ UNCHANGED <<batch, polled, chat>>

Awaits(step) == Goes(step) /\ UNCHANGED <<batch, polled, chat, requested>>

-----------------------------------------------------------------------------
(* The loop *)

Quiet == UNCHANGED <<chats, saved, aborted, child, turn, line, photos>>

\* The chat of the config is told; signals are not handled yet.
Attach ==
  /\ At("attach")
  /\ \/ Awaits("poll") /\ UNCHANGED faults
     \/ Fault /\ Awaits("crashed")
  /\ UNCHANGED events /\ Quiet

Poll ==
  /\ At("poll")
  /\ \/ \E b \in 1..(MaxMessages - polled) :
          /\ batch' = b /\ Goes("message")
          /\ UNCHANGED <<polled, chat, requested, faults>>
     \/ Awaits("sleep") /\ UNCHANGED faults                   \* none, or a transient error
     \/ aborted /\ Awaits("bye") /\ UNCHANGED faults
     \/ /\ Fault /\ requested' = TRUE                         \* a bad token, or a fatal error
        /\ \E step \in {"bye", "bad token"} : (step = "bad token" => Bound # None) /\ Goes(step)
        /\ UNCHANGED <<batch, polled, chat>>
  /\ UNCHANGED events /\ Quiet

Sleep ==
  /\ At("sleep")
  /\ Awaits(IF requested THEN "bye" ELSE "poll")
  /\ UNCHANGED bound /\ Quiet

TellBadToken ==
  /\ At("bad token") /\ Awaits("bye")
  /\ UNCHANGED bound /\ Quiet

\* Mutant: announced once the post is done.
AnnounceDetachAgain == goodbyes' = goodbyes + 1

AnnounceDetach == goodbyes' = IF goodbyes > 0 THEN goodbyes ELSE goodbyes + 1

Bye ==
  /\ At("bye") /\ Awaits("done")
  /\ AnnounceDetach
  /\ UNCHANGED <<told, bound, saved, aborted, child, turn, line, photos>>

\* A message for another chat than the one of the config is dropped.
Message ==
  /\ At("message")
  /\ batch' = batch - 1 /\ polled' = polled + 1
  /\ chat' \in Chats
  /\ IF Bound # None /\ chat' # Bound
     THEN /\ Goes(IF requested THEN "bye" ELSE IF batch' > 0 THEN "message" ELSE "poll")
          /\ told' = {"dropped"}
     ELSE /\ \E step \in {"read", "clear", "notice"} : Goes(step)  \* a text, /new, nothing
          /\ told' = {}
  /\ turn' = NoTurn /\ line' = NoLine
  /\ UNCHANGED <<requested, goodbyes, bound, saved, aborted, child, photos>>

\* /new.  The file has one chat: another's session goes too.  Nothing catches an
\* error of the file, or one of the network that respondMessage does not get over.
ClearForNew ==
  /\ At("clear")
  /\ \/ saved' = None /\ Awaits("ack") /\ UNCHANGED faults
     \/ Fault /\ Awaits("crashed") /\ UNCHANGED saved
  /\ UNCHANGED <<chats, events, aborted, child, turn, line, photos>>

AckNew ==
  /\ At("ack")
  /\ Tells("ack")
  /\ \/ Proceeds(requested) /\ UNCHANGED faults
     \/ Fault /\ Awaits("crashed")
  /\ UNCHANGED <<goodbyes, events, saved, aborted, child, turn, line, photos>>

\* postBestEffort, the last thing that is done for a message
Notice ==
  /\ At("notice")
  /\ Tells("notice") /\ Proceeds(requested)
  /\ UNCHANGED <<goodbyes, bound, saved, aborted, child, turn, line, photos>>

-----------------------------------------------------------------------------
(* A turn (handleTurn, runTurn) *)

\* A child that is spawned when the signal is aborted already hears of it never.
Spawns(resumes) ==
  \/ /\ child' = IF aborted THEN "deaf" ELSE "runs"
     /\ turn' = [NoTurn EXCEPT !.resumes = resumes, !.posted = turn.posted]
     /\ Awaits("turn") /\ UNCHANGED faults
  \/ /\ Fault
     /\ turn' = [NoTurn EXCEPT !.status = "spawn_error", !.posted = turn.posted]
     /\ Awaits("drain") /\ UNCHANGED child

ReadState ==
  /\ At("read")
  /\ \/ Spawns(saved = chat)
     \/ Fault /\ Awaits("notice") /\ UNCHANGED <<child, turn>>
  /\ UNCHANGED <<chats, events, saved, aborted, line, photos>>

Alive == child # "none"

\* Mutant: SIGTERM is all there is.
ExitsPolitely == At("turn") /\ child \in {"runs", "deaf"}

\* The child ends by itself or, killed, at the latest with SIGKILL.
Exits == At("turn") /\ Alive

Replies == {"none", "short", "long"}

\* Some of what it wrote may not have been read when the exit is told.
ChildExits ==
  /\ Exits /\ child' = "none"
  /\ \E session \in {"none", "new"} \union (IF turn.resumes THEN {"same"} ELSE {}),
        reply \in Replies, crash \in BOOLEAN, status \in {"success", "error"} :
       turn' = [turn EXCEPT
         !.session = session,
         !.status = IF child = "killed" THEN "timeout" ELSE status,
         !.reply = IF child = "killed" THEN "none" ELSE reply,
         !.crash = crash /\ child # "killed",
         !.absorb = status = "success" /\ ~crash /\ reply = "short" /\ child # "killed" /\ ~aborted]
  /\ Awaits("drain")
  /\ UNCHANGED <<chats, bound, saved, aborted, line, photos>>

\* The session the child was told to resume is not there (detectStaleSession).
SessionIsStale ==
  /\ Exits /\ child' = "none"
  /\ turn.resumes /\ child # "killed" /\ ~aborted
  /\ Awaits("forget")
  /\ UNCHANGED <<chats, bound, saved, aborted, turn, line, photos>>

ForgetSession ==
  /\ At("forget")
  /\ \/ saved' = None /\ Awaits("expired") /\ UNCHANGED <<faults, turn>>
     \/ Fault /\ turn' = [turn EXCEPT !.status = "error", !.thrown = TRUE] /\ Awaits("drain")
        /\ UNCHANGED saved
  /\ UNCHANGED <<chats, events, aborted, child, line, photos>>

RunAgain ==
  /\ At("expired")
  /\ Spawns(FALSE)
  /\ UNCHANGED <<chats, events, saved, aborted, line, photos>>

TurnTimesOut ==
  /\ Alive /\ child' = "killed"
  /\ UNCHANGED <<loop, chats, bound, saved, aborted, turn, line, photos>>

-----------------------------------------------------------------------------
(* What the child tells while it runs: steps for the status line, photos *)

Sends(l) == [l EXCEPT !.active = TRUE, !.pending = FALSE, !.timer = FALSE, !.cooling = TRUE]

\* schedulePendingFlush
Flushes(l) ==
  IF l.disposed \/ ~l.pending \/ l.timer THEN l
  ELSE IF l.cooling THEN [l EXCEPT !.timer = TRUE] ELSE Sends(l)

ProgressEvent ==
  /\ Alive /\ events < MaxEvents /\ events' = events + 1
  /\ line' = IF line.active THEN [line EXCEPT !.pending = TRUE]
             ELSE IF line.cooling THEN [line EXCEPT !.pending = TRUE, !.timer = TRUE]
             ELSE Sends(line)
  /\ UNCHANGED <<loop, chats, faults, saved, aborted, child, turn, photos>>

TimerFires ==
  /\ line.timer
  /\ line' = Sends(line)
  /\ UNCHANGED <<loop, chats, bound, saved, aborted, child, turn, photos>>

CooldownEnds ==
  /\ line.cooling /\ ~line.timer /\ ~line.disposed
  /\ line' = [line EXCEPT !.cooling = FALSE]
  /\ UNCHANGED <<loop, chats, bound, saved, aborted, child, turn, photos>>

\* The post lands, or fails, or lands with an answer that is lost.
PostSettles ==
  /\ line.active
  /\ \/ line' = Flushes([line EXCEPT !.active = FALSE, !.known = TRUE, !.shown = "step"])
        /\ UNCHANGED faults
     \/ Fault /\ \E landed \in BOOLEAN :
          line' = Flushes([line EXCEPT !.active = FALSE, !.sure = @ /\ ~landed])
  /\ UNCHANGED <<loop, chats, events, saved, aborted, child, turn, photos>>

PhotoEvent ==
  /\ Alive /\ events < MaxEvents /\ events' = events + 1
  /\ photos' = photos + 1
  /\ UNCHANGED <<loop, chats, faults, saved, aborted, child, turn, line>>

PhotoSettles ==
  /\ photos > 0 /\ photos' = photos - 1
  /\ \/ turn' = [turn EXCEPT !.posted = TRUE] /\ Tells("photo") /\ UNCHANGED faults
     \/ Fault /\ UNCHANGED <<turn, told>>
  /\ UNCHANGED <<loop, goodbyes, events, saved, aborted, child, line>>

-----------------------------------------------------------------------------
(* The end of a turn: photos, status line, session, reply *)

\* Mutant: the photos come when they come.
NotDrained == At("drain")

Drained == At("drain") /\ photos = 0

Drain ==
  /\ Drained
  /\ line' = [line EXCEPT !.disposed = TRUE, !.pending = FALSE, !.timer = FALSE]
  /\ Awaits(IF turn.absorb /\ ~turn.posted THEN "replace" ELSE "stop")
  /\ UNCHANGED <<chats, bound, saved, aborted, child, turn, photos>>

\* Mutant: the last edit does not wait for the one in flight.
SettledAtOnce == TRUE

\* waitForActivePost
Settled == ~line.active

\* Two seconds are over: the post is aborted here, and may land all the same.
WaitTimesOut ==
  /\ at \in {"replace", "stop"} /\ line.active
  /\ line' = [line EXCEPT !.active = FALSE, !.sure = FALSE]
  /\ Awaits("stop")
  /\ UNCHANGED <<chats, bound, saved, aborted, child, turn, photos>>

\* respondWithTimeout: it lands or is logged.
FinalEdit(text) ==
  \/ line' = [line EXCEPT !.shown = text] /\ UNCHANGED faults
  \/ Fault /\ line' = [line EXCEPT !.sure = FALSE]

ReplaceWithReply ==
  /\ At("replace") /\ Settled
  /\ \/ /\ line.known /\ FinalEdit("reply") /\ Tells("edit")
        /\ turn' = [turn EXCEPT !.absorbed = TRUE]
        /\ Awaits("write")
     \/ /\ ~line.known /\ Awaits("stop")
        /\ UNCHANGED <<line, turn, told, faults>>
  /\ UNCHANGED <<goodbyes, events, saved, aborted, child, photos>>

Stop ==
  /\ At("stop") /\ Settled
  /\ \/ line.known /\ FinalEdit("summary")
     \/ ~line.known /\ UNCHANGED <<line, faults>>
  /\ Awaits(IF turn.thrown THEN "notice" ELSE "write")
  /\ UNCHANGED <<chats, events, saved, aborted, child, turn, photos>>

\* Mutant: what replaceWithReply did is forgotten.
AnswersAnyway ==
  IF \/ turn.status \in {"timeout", "spawn_error"}
     \/ turn.reply = "none" /\ (turn.crash \/ ~turn.posted)
  THEN "notice"
  ELSE IF turn.reply = "none" THEN "nothing" ELSE "last chunk"

\* What the message is answered with, once the session is written.
Answers ==
  IF \/ turn.status \in {"timeout", "spawn_error"}
     \/ turn.crash /\ turn.reply = "none"
     \/ ~turn.absorbed /\ turn.reply = "none" /\ ~turn.posted
  THEN "notice"
  ELSE IF turn.absorbed \/ turn.reply = "none" THEN "nothing"
  ELSE IF turn.reply = "long" THEN "chunk" ELSE "last chunk"

WriteSession ==
  /\ At("write")
  /\ \/ /\ saved' = IF turn.session = "new" THEN chat ELSE saved
        /\ IF aborted \/ Answers = "nothing" THEN Proceeds(requested) ELSE Awaits(Answers)
        /\ UNCHANGED faults
     \/ turn.session = "new" /\ Fault /\ Awaits("notice") /\ UNCHANGED saved
  /\ UNCHANGED <<chats, events, aborted, child, turn, line, photos>>

\* A long reply takes two posts.  The token may be refused, the post too.
PostChunk ==
  /\ at \in {"chunk", "last chunk"}
  /\ Tells("chunk")
  /\ \/ At("chunk") /\ Awaits("last chunk") /\ UNCHANGED faults
     \/ At("last chunk") /\ Proceeds(requested) /\ UNCHANGED faults
     \/ Fault /\ (Proceeds(TRUE) \/ Proceeds(requested) \/ Awaits("notice"))
  /\ UNCHANGED <<goodbyes, events, saved, aborted, child, turn, line, photos>>

-----------------------------------------------------------------------------
\* Mutant: the loop is not told.
DetachSignals ==
  /\ ~aborted /\ at \notin {"attach", "done", "crashed"}
  /\ aborted' = TRUE
  /\ AnnounceDetach
  /\ child' = IF child = "runs" THEN "killed" ELSE child
  /\ UNCHANGED <<loop, told, bound, saved, turn, line, photos>>

\* SIGINT or SIGTERM
Detach ==
  /\ ~aborted /\ at \notin {"attach", "done", "crashed"}
  /\ aborted' = TRUE /\ requested' = TRUE
  /\ AnnounceDetach
  /\ child' = IF child = "runs" THEN "killed" ELSE child
  /\ UNCHANGED <<at, batch, polled, chat, told, bound, saved, turn, line, photos>>

\* The loop goes on, or what it awaits does.
Works ==
  \/ Attach \/ Poll \/ Sleep \/ TellBadToken \/ Bye \/ Message \/ ClearForNew \/ AckNew \/ Notice
  \/ ReadState \/ ForgetSession \/ RunAgain
  \/ Drain \/ ReplaceWithReply \/ Stop \/ WriteSession \/ PostChunk
Answered == PostSettles \/ TimerFires \/ PhotoSettles
Ends == ChildExits \/ SessionIsStale

SessionNext == \/ Works \/ Answered \/ Ends \/ Detach
        \/ TurnTimesOut \/ WaitTimesOut \/ CooldownEnds \/ ProgressEvent \/ PhotoEvent

SessionSpec == SessionInit /\ [][SessionNext]_sessionVars

\* Requests end, timers fire, and a killed child exits.
FairSessionSpec ==
  /\ SessionSpec /\ WF_sessionVars(Works) /\ WF_sessionVars(PostSettles) /\ WF_sessionVars(PhotoSettles)
  /\ WF_sessionVars(TurnTimesOut) /\ WF_sessionVars(child = "killed" /\ Ends)
-----------------------------------------------------------------------------
(* The values the variables have; one child, only during a turn, and a status  *)
(* line and photos that belong to it.                                          *)
SessionTypeOK ==
  /\ at \in Over \union {"attach", "bad token", "crashed", "read", "clear", "ack", "notice", "turn", "forget",
            "expired", "drain", "replace", "stop", "write", "chunk", "last chunk"}
  /\ polled + batch <= MaxMessages
  /\ chat \in Chats \union {None} /\ saved \in Chats \union {None}
  /\ goodbyes \in Nat /\ (aborted => requested)
  /\ child \in {"none", "runs", "deaf", "killed"} /\ (Alive <=> At("turn"))
  /\ At("message") => batch > 0
  /\ events \in 0..MaxEvents /\ faults \in 0..MaxFaults
  /\ turn.absorb => turn.reply = "short"
  /\ ~(line.active /\ line.timer) /\ (line.timer => line.pending /\ ~line.disposed)

(* A message is answered once: its reply is never both edited into the status   *)
(* line and posted ("nothing left to post"), and when the loop goes on it has   *)
(* had some answer, if only that there is none.                                 *)
AnsweredOnce ==
  /\ ~({"edit", "chunk"} \subseteq told)
  /\ at \in {"poll", "sleep", "message"} /\ polled > 0 => told # {}

(* "Drain in-flight photos BEFORE finalizing the live status": no photo is on   *)
(* its way when the reply is.                                                   *)
PhotosComeFirst == at \in {"replace", "stop", "write", "chunk", "last chunk", "notice"} => photos = 0

(* The status line ends with the reply or a summary: no post of a step that is  *)
(* told of later, or held back until then, undoes it.                           *)
LastLineStays == at \in Over /\ line.sure => line.shown # "step" /\ ~line.active

(* The agent says goodbye once, whoever ends the session, before it is over.    *)
GoodbyeOnce == goodbyes <= 1 /\ (at = "done" => goodbyes = 1)

ChatIsRight == AnsweredOnce /\ PhotosComeFirst /\ LastLineStays /\ GoodbyeOnce

(* A detach ends the session and its child, whatever they are at: the loop      *)
(* looks at the flag, the poll at the signal, and a child that ignores both     *)
(* runs into its timeout and is killed.                                         *)
DetachEnds == aborted ~> at \in {"done", "crashed"} /\ child = "none"

(* A reply that fits one message reaches the chat: "true when the edit landed   *)
(* (caller should skip posting the reply as a new message)".                    *)
\* The code does not keep it: README, "Known divergences".
ReplyLands == at \in {"poll", "sleep", "message"} /\ turn.absorbed => line.shown = "reply"

(* A detach kills the child of the turn at hand.                                *)
\* The code does not keep it: README, "Known divergences".
DetachKillsTurn == aborted => child \in {"none", "killed"}

(* A session that was attached says so when it ends ("the detach flow will       *)
(* announce").                                                                  *)
\* The code does not keep it: README, "Known divergences".
EndIsAnnounced == at = "crashed" => polled = 0
=============================================================================
