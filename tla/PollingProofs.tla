---------------------------- MODULE PollingProofs ----------------------------
(* Proofs about the two components that poll a remote service: about         *)
(* SyncOperations, for any number of pulls, pushes and logins, and about     *)
(* RemoteSession, for any number of chats, messages, photos and faults.      *)
EXTENDS SyncOperations, RemoteSession, TLAPS

-----------------------------------------------------------------------------
(* Pulls and pushes: the inductive invariant                                 *)

(* Pulls: one that was not answered has no loop yet, and the one in the map   *)
(* runs and was not aborted.                                                  *)
PullInv ==
  /\ \A p \in Pulls : p > pulls => post[p] = "idle"
  /\ \A p \in Pulls : post[p] # "done" => pullPoll[p].at = "off"
  /\ \A p \in Pulls : pullPoll[p].at = "off" => ~pullPoll[p].aborted
  /\ pullPoller # 0 => Runs(pullPoll[pullPoller].at) /\ ~pullPoll[pullPoller].aborted
  /\ ~loggedIn => pull.status # "in-progress"

(* PollsAreSound, of pulls: it is not inductive without PullInv.              *)
PullsAreSound ==
  /\ \A p \in Pulls : Runs(pullPoll[p].at) /\ ~pullPoll[p].aborted => pullPoller = p
  /\ ~loggedIn \/ pull.status = "cancelled" =>
       \A p \in Pulls : Runs(pullPoll[p].at) => pullPoll[p].aborted
  /\ Pollable(pull) => pullPoller # 0

(* Pushes, likewise: the loop of a push, or of a login, begins with an answer. *)
PushInv ==
  /\ \A i \in Logins : i > logins => init[i] = "off"
  /\ \A i \in Logins : init[i] # "done" => pushPoll[MaxPushes + i].at = "off"
  /\ \A q \in Pushes : q > pushes => thunk[q].at = "idle"
  /\ \A q \in Pushes : thunk[q].at # "done" => pushPoll[q].at = "off"
  /\ \A r \in Starters : pushPoll[r].at = "off" => ~pushPoll[r].aborted
  /\ pushPoller # 0 => Runs(pushPoll[pushPoller].at) /\ ~pushPoll[pushPoller].aborted

(* PollsAreSound, of pushes.                                                  *)
PushesAreSound ==
  /\ \A r \in Starters : Runs(pushPoll[r].at) /\ ~pushPoll[r].aborted => pushPoller = r
  /\ ~loggedIn \/ push = "cancelled" =>
       \A r \in Starters : Runs(pushPoll[r].at) => pushPoll[r].aborted
  /\ push = "remote" /\ ~stray => pushPoller # 0

(* The upload in the registry is being sent.  A push that overlaps no other   *)
(* can be reached by its abort callback until it ends; one that was cancelled *)
(* while exporting has been aborted, and was not applied.                     *)
ThunkInv ==
  /\ tus # 0 => thunk[tus].at = "sending" /\ ~thunk[tus].cut
  /\ \A q \in applied : thunk[q].at = "done"
  /\ \A q \in alone : q <= pushes
  /\ \A q \in alone \cap InProgress : InProgress = {q} /\ (callback = q \/ thunk[q].aborted)
  /\ \A q \in stopped : q \notin applied /\
       (thunk[q].at = "done" \/ (thunk[q].at = "exporting" /\ thunk[q].aborted))

(* While nothing was pushed or polled, the flag of the main process is about  *)
(* the pull.                                                                  *)
NoPush == pushes = 0 /\ \A r \in Starters : pushPoll[r].at = "off"
QuitInv ==
  /\ pushes = 0 => event = "none"
  /\ NoPush => push \in {"none", "remote"}
  /\ NoPush /\ push = "none" /\ pull.status \in {"downloading", "importing"} => active

-----------------------------------------------------------------------------
(* Types *)

PullStages == {"off", "asking", "checking", "downloading", "importing", "stamping", "sleeping",
               "ended"}
ThunkStages == {"idle", "exporting", "token", "sending", "initiating", "stuck", "done"}
PushStages == {"off", "asking", "stamping", "sleeping", "ended"}
PullPolls == [at : PullStages, aborted : BOOLEAN, cut : BOOLEAN]
Thunks == [at : ThunkStages, aborted : BOOLEAN, cut : BOOLEAN]
PushPolls == [at : PushStages, aborted : BOOLEAN]
PullStates == [status : {"none", "in-progress", "downloading", "importing"} \cup Terminal,
               backup : 0..MaxPulls]
PullStatuses == {"in-progress", "downloading", "importing"} \cup Terminal
PushStates == {"none", "creatingBackup", "remote"} \cup Uploads \cup Terminal
Controllers == {Nobody} \cup [op : {"pull"}, id : Pulls] \cup [op : {"push"}, id : Pushes]

AuthOK ==
  /\ loggedIn \in BOOLEAN /\ stray \in BOOLEAN /\ logins \in 0..MaxLogins
  /\ init \in [Logins -> {"off", "asking", "done"}]
PullOK ==
  /\ pull \in PullStates /\ pulls \in 0..MaxPulls
  /\ post \in [Pulls -> {"idle", "asking", "done"}]
  /\ pullPoll \in [Pulls -> PullPolls] /\ pullPoller \in 0..MaxPulls
PushOK ==
  /\ push \in PushStates /\ pushes \in 0..MaxPushes
  /\ thunk \in [Pushes -> Thunks]
  /\ pushPoll \in [Starters -> PushPolls] /\ pushPoller \in {0} \cup Starters
  /\ callback \in 0..MaxPushes
  /\ applied \subseteq Pushes /\ alone \subseteq Pushes /\ stopped \subseteq Pushes
MainOK ==
  /\ paused \in BOOLEAN /\ active \in BOOLEAN /\ tus \in 0..MaxPushes
  /\ ctl \in Controllers /\ event \in {"none"} \cup Uploads

TypeInv == AuthOK /\ PullOK /\ PushOK /\ MainOK

(* TypeOK, with names for its sets.                                          *)
LEMMA TypesAre == TypeOK <=> TypeInv
<1>1. {loggedIn, paused, active, stray} \subseteq BOOLEAN
        <=> loggedIn \in BOOLEAN /\ paused \in BOOLEAN /\ active \in BOOLEAN /\ stray \in BOOLEAN
  OBVIOUS
<1>2. applied \cup alone \cup stopped \subseteq Pushes
        <=> applied \subseteq Pushes /\ alone \subseteq Pushes /\ stopped \subseteq Pushes
  OBVIOUS
<1>. QED BY <1>1, <1>2
         DEF TypeOK, TypeInv, AuthOK, PullOK, PushOK, MainOK, PullStates, PushStates, PullPolls,
            Thunks, PushPolls, PullStages,
             ThunkStages, PushStages, Controllers

(* The bounds are numbers, and nothing and nobody are among their values.    *)
LEMMA Bounds ==
  /\ MaxPulls \in Nat /\ MaxPushes \in Nat /\ MaxOperations \in Nat /\ MaxLogins \in Nat
  /\ 0 \in 0..MaxPulls /\ 0 \in 0..MaxPushes /\ 0 \in 0..MaxLogins
<1>1. MaxPulls \in Nat /\ MaxPushes \in Nat /\ MaxOperations \in Nat /\ MaxLogins \in Nat
  BY SyncBounds
<1>. QED BY <1>1

(* A loop or a push at another stage, ended or stopped.                      *)
LEMMA StageTypes ==
  ASSUME TypeInv
  PROVE  /\ \A p \in Pulls, a \in PullStages :
               [pullPoll EXCEPT ![p].at = a] \in [Pulls -> PullPolls]
         /\ \A q \in Pushes, a \in ThunkStages : [thunk EXCEPT ![q].at = a] \in [Pushes -> Thunks]
         /\ \A r \in Starters, a \in PushStages :
              [pushPoll EXCEPT ![r].at = a] \in [Starters -> PushPolls]
         /\ PullEnded \in PullPolls /\ ThunkEnded \in Thunks /\ PushEnded \in PushPolls
  BY DEF TypeInv, PullOK, PushOK, PullPolls, Thunks, PushPolls, PullEnded, ThunkEnded, PushEnded,
     PullStages, ThunkStages, PushStages

(* The records of the slice that the steps make.                             *)
LEMMA StatusTypes ==
  ASSUME TypeInv
  PROVE  /\ NoPull \in PullStates
         /\ \A s \in PullStatuses :
              [pull EXCEPT !.status = s] \in PullStates
         /\ [pull EXCEPT !.status = Rejected(@)] \in PullStates
         /\ \A p \in Pulls : [pull EXCEPT !.backup = p] \in PullStates
         /\ [status |-> "in-progress", backup |-> 0] \in PullStates
         /\ Rejected(push) \in PushStates
<1>1. 0 \in 0..MaxPulls /\ \A p \in Pulls : p \in 0..MaxPulls BY Bounds DEF Pulls
<1>. QED BY <1>1 DEF TypeInv, PullOK, PushOK, PullStates, PushStates, PullStatuses, NoPull,
        Rejected, Terminal

(* Stopping leaves every loop and every push at its stage.                   *)
LEMMA StoppedTypes ==
  ASSUME TypeInv, NEW stop \in BOOLEAN, NEW cut \in BOOLEAN
  PROVE  /\ PullPollStopped(stop, cut) \in [Pulls -> PullPolls]
         /\ ThunksStopped(stop, cut) \in [Pushes -> Thunks]
         /\ [r \in Starters |-> [pushPoll[r] EXCEPT !.aborted = @ \/ r = pushPoller]]
              \in [Starters -> PushPolls]
<1>1. ASSUME NEW p \in Pulls, NEW a \in BOOLEAN, NEW b \in BOOLEAN
      PROVE  [pullPoll[p] EXCEPT !.aborted = a, !.cut = b] \in PullPolls
  BY DEF TypeInv, PullOK, PushOK, PullPolls
<1>2. ASSUME NEW q \in Pushes, NEW a \in BOOLEAN, NEW b \in BOOLEAN
      PROVE  [thunk[q] EXCEPT !.aborted = a, !.cut = b] \in Thunks
  BY DEF TypeInv, PullOK, PushOK, Thunks
<1>3. ASSUME NEW r \in Starters, NEW a \in BOOLEAN
      PROVE [pushPoll[r] EXCEPT !.aborted = a] \in PushPolls
  BY DEF TypeInv, PullOK, PushOK, PushPolls
<1>4. PullPollStopped(stop, cut) \in [Pulls -> PullPolls] BY <1>1 DEF PullPollStopped
<1>5. ThunksStopped(stop, cut) \in [Pushes -> Thunks] BY <1>2 DEF ThunksStopped
<1>. QED BY <1>3, <1>4, <1>5

(* What the operators that an action is made of leave.                       *)
LEMMA PartTypes ==
  ASSUME TypeInv
  PROVE  /\ \A s \in PullStatuses, c \in Controllers :
              SetPull(s, c) => pull' \in PullStates /\ active' \in BOOLEAN /\ ctl' \in Controllers
         /\ \A s \in PushStates, c \in Controllers :
              SetPush(s, c) => push' \in PushStates /\ active' \in BOOLEAN /\ ctl' \in Controllers
         /\ \A s, c : Synced(s, c) /\ c \in Controllers => active' \in BOOLEAN
               /\ ctl' \in Controllers
         /\ \A p \in Pulls : EndPull(p) =>
              pullPoll' \in [Pulls -> PullPolls] /\ pullPoller' \in 0..MaxPulls
         /\ \A p \in Pulls : NextPull(p) =>
              pullPoll' \in [Pulls -> PullPolls] /\ pullPoller' \in 0..MaxPulls
         /\ \A p \in Pulls : StartPullPoller(p) =>
              pullPoll' \in [Pulls -> PullPolls] /\ pullPoller' \in 0..MaxPulls
         /\ \A r \in Starters : EndPush(r) =>
              pushPoll' \in [Starters -> PushPolls] /\ pushPoller' \in {0} \cup Starters
         /\ \A r \in Starters : StartPushPoller(r) =>
              pushPoll' \in [Starters -> PushPolls] /\ pushPoller' \in {0} \cup Starters
         /\ StopPushPoller =>
              pushPoll' \in [Starters -> PushPolls] /\ pushPoller' \in {0} \cup Starters
         /\ CancelSyncOperation =>
              active' \in BOOLEAN /\ ctl' \in Controllers /\ tus' \in 0..MaxPushes
                 /\ paused' \in BOOLEAN
         /\ ClearSyncOperation => active' \in BOOLEAN /\ ctl' \in Controllers
<1>. USE Bounds DEF TypeInv, PullOK, PushOK, MainOK
<1>c. Nobody \in Controllers BY DEF Controllers
<1>n. 0 \in 0..MaxPulls /\ 0 \in 0..MaxPushes /\ \A p \in Pulls : p \in 0..MaxPulls BY DEF Pulls
<1>k. \A s : KeepsQuit(s) \in BOOLEAN BY DEF KeepsQuit
<1>0. \A s, c : Synced(s, c) /\ c \in Controllers => active' \in BOOLEAN /\ ctl' \in Controllers
  BY <1>c, <1>k DEF Synced
<1>1. \A s \in PullStatuses, c \in Controllers :
        SetPull(s, c) => pull' \in PullStates /\ active' \in BOOLEAN /\ ctl' \in Controllers
  BY <1>0, StatusTypes DEF SetPull
<1>2. \A s \in PushStates, c \in Controllers :
        SetPush(s, c) => push' \in PushStates /\ active' \in BOOLEAN /\ ctl' \in Controllers
  BY <1>0 DEF SetPush
<1>3. \A p \in Pulls : EndPull(p) =>
        pullPoll' \in [Pulls -> PullPolls] /\ pullPoller' \in 0..MaxPulls
  BY StageTypes, <1>n DEF EndPull
<1>4. \A p \in Pulls : NextPull(p) =>
        pullPoll' \in [Pulls -> PullPolls] /\ pullPoller' \in 0..MaxPulls
  BY StageTypes, <1>3 DEF NextPull, PullStages
<1>5. \A p \in Pulls : StartPullPoller(p) =>
        pullPoll' \in [Pulls -> PullPolls] /\ pullPoller' \in 0..MaxPulls
  <2> SUFFICES ASSUME NEW p \in Pulls, StartPullPoller(p)
               PROVE  pullPoll' \in [Pulls -> PullPolls] /\ pullPoller' \in 0..MaxPulls
    OBVIOUS
  <2>1. "asking" \in PullStages BY DEF PullStages
  <2>2. [pullPoll EXCEPT ![p].at = "asking"] \in [Pulls -> PullPolls] BY StageTypes, <2>1
  <2>3. pullPoll \in [Pulls -> PullPolls] /\ pullPoller \in 0..MaxPulls OBVIOUS
  <2>. QED BY <1>n, <2>2, <2>3 DEF StartPullPoller
<1>6. \A r \in Starters : EndPush(r) =>
        pushPoll' \in [Starters -> PushPolls] /\ pushPoller' \in {0} \cup Starters
  BY StageTypes DEF EndPush
<1>7. \A r \in Starters : StartPushPoller(r) =>
        pushPoll' \in [Starters -> PushPolls] /\ pushPoller' \in {0} \cup Starters
  <2> SUFFICES ASSUME NEW r \in Starters, StartPushPoller(r)
               PROVE  pushPoll' \in [Starters -> PushPolls] /\ pushPoller' \in {0} \cup Starters
    OBVIOUS
  <2>1. "asking" \in PushStages BY DEF PushStages
  <2>2. [pushPoll EXCEPT ![r].at = "asking"] \in [Starters -> PushPolls] BY StageTypes, <2>1
  <2>3. pushPoll \in [Starters -> PushPolls] /\ pushPoller \in {0} \cup Starters OBVIOUS
  <2>. QED BY <2>2, <2>3 DEF StartPushPoller
<1>8. StopPushPoller =>
        pushPoll' \in [Starters -> PushPolls] /\ pushPoller' \in {0} \cup Starters
  BY StoppedTypes DEF StopPushPoller
<1>9. CancelSyncOperation =>
        active' \in BOOLEAN /\ ctl' \in Controllers /\ tus' \in 0..MaxPushes /\ paused' \in BOOLEAN
  BY <1>c, <1>n DEF CancelSyncOperation
<1>10. ClearSyncOperation => active' \in BOOLEAN /\ ctl' \in Controllers
  BY <1>c DEF ClearSyncOperation
<1>. QED BY <1>0, <1>1, <1>2, <1>3, <1>4, <1>5, <1>6, <1>7, <1>8, <1>9, <1>10

(* What the user does keeps the types.                                       *)
LEMMA UserTypes == ASSUME TypeInv, User PROVE TypeInv'
<1>. USE Bounds DEF TypeInv, AuthOK, PullOK, PushOK, MainOK, authVars, pullVars, pushVars, mainVars
<1>c. Nobody \in Controllers /\ \A q \in Pushes : [op |-> "push", id |-> q] \in Controllers
  BY DEF Controllers
<1>1. CASE Login BY <1>1 DEF Login, Logins
<1>2. CASE Logout
  <2>1. pullPoll' \in [Pulls -> PullPolls] /\ thunk' \in [Pushes -> Thunks]
    BY <1>2, StoppedTypes DEF Logout
  <2>2. MainOK' BY <1>2, PartTypes DEF Logout
  <2>3. pull' \in PullStates /\ push' \in PushStates BY <1>2, StatusTypes DEF Logout, PushStates
  <2>. QED BY <1>2, <2>1, <2>2, <2>3, PartTypes DEF Logout
<1>3. CASE StartPull
  <2>1. pulls' \in Pulls BY <1>3 DEF StartPull, Pulls
  <2>. QED BY <1>3, <2>1, StatusTypes, PartTypes DEF StartPull, Pulls
<1>4. CASE CancelPull
  <2>1. pullPoll' \in [Pulls -> PullPolls] /\ thunk' \in [Pushes -> Thunks]
    BY <1>4, StoppedTypes DEF CancelPull
  <2>2. pull' \in PullStates BY <1>4, StatusTypes DEF CancelPull, PullStatuses, Terminal
  <2>. QED BY <1>4, <2>1, <2>2, PartTypes DEF CancelPull
<1>5. CASE ClearPull
  <2>1. pullPoll' \in [Pulls -> PullPolls] BY <1>5, StoppedTypes DEF ClearPull
  <2>. QED BY <1>5, <2>1, PartTypes, StatusTypes DEF ClearPull
<1>6. CASE StartPush
  <2>1. pushes' \in Pushes /\ pushes' \in 0..MaxPushes BY <1>6 DEF StartPush, Pushes
  <2>2. thunk' \in [Pushes -> Thunks] BY <1>6, <2>1, StageTypes DEF StartPush, ThunkStages
  <2>3. push' \in PushStates /\ active' \in BOOLEAN /\ ctl' \in Controllers
    BY <1>6, <1>c, <2>1, PartTypes DEF StartPush, PushStates
  <2>4. alone' \subseteq Pushes BY <1>6, <2>1 DEF StartPush
  <2>. QED BY <1>6, <2>1, <2>2, <2>3, <2>4 DEF StartPush
<1>7. CASE CancelPush
  <2>1. pullPoll' \in [Pulls -> PullPolls] /\ thunk' \in [Pushes -> Thunks]
    BY <1>7, StoppedTypes DEF CancelPush
  <2>. QED BY <1>7, <2>1, PartTypes DEF CancelPush, PushStates, Terminal
<1>8. CASE ClearPush BY <1>8, PartTypes DEF ClearPush, PushStates
<1>9. CASE PauseUpload BY <1>9 DEF PauseUpload, Uploads
<1>10. CASE ResumeUpload BY <1>10 DEF ResumeUpload, Uploads
<1>. QED BY <1>1, <1>2, <1>3, <1>4, <1>5, <1>6, <1>7, <1>8, <1>9, <1>10 DEF User

(* So does a step of a pull.                                                 *)
LEMMA PullTypes == ASSUME TypeInv, NEW p \in Pulls, PullStep(p) PROVE TypeInv'
<1>. USE Bounds DEF TypeInv, AuthOK, PullOK, PushOK, MainOK, authVars, pullVars, pushVars, mainVars
<1>s. {"in-progress", "failed", "downloading", "importing", "finished"} \subseteq PullStatuses
  BY DEF PullStatuses, Terminal
<1>a. {"asking", "checking", "downloading", "importing", "stamping"} \subseteq PullStages
  BY DEF PullStages
<1>c. ctl \in Controllers /\ Nobody \in Controllers /\ [op |-> "pull", id |-> p] \in Controllers
  BY DEF Controllers
<1>1. CASE BackupRequested(p) BY <1>1, StatusTypes, PartTypes DEF BackupRequested
<1>2. CASE BackupRefused(p) BY <1>2, StatusTypes DEF BackupRefused
<1>3. CASE PullWakes(p) BY <1>3, <1>a, StageTypes, PartTypes DEF PullWakes
<1>4. CASE PullAnswered(p) BY <1>4, <1>s, <1>c, PartTypes DEF PullAnswered
<1>5. CASE BackupReady(p) BY <1>5, <1>a, StageTypes DEF BackupReady
<1>6. CASE Downloads(p) BY <1>6, <1>s, <1>a, <1>c, StageTypes, PartTypes DEF Downloads
<1>7. CASE TooLarge(p)
  <2>1. pullPoll' \in [Pulls -> PullPolls] BY <1>7, StoppedTypes, StageTypes DEF TooLarge
  <2>. QED BY <1>7, <2>1, PartTypes, StatusTypes DEF TooLarge
<1>8. CASE Downloaded(p) BY <1>8, <1>s, <1>a, <1>c, StageTypes, PartTypes DEF Downloaded
<1>9. CASE Imported(p) BY <1>9, <1>a, StageTypes DEF Imported
<1>10. CASE PullFinishes(p) BY <1>10, <1>s, <1>c, PartTypes DEF PullFinishes
<1>11. CASE PullUnwinds(p) BY <1>11, <1>c, StatusTypes, PartTypes DEF PullUnwinds
<1>. QED BY <1>1, <1>2, <1>3, <1>4, <1>5, <1>6, <1>7, <1>8, <1>9, <1>10, <1>11 DEF PullStep

(* A push, an upload event, and the search for pushes after a login.         *)
LEMMA PushTypes ==
  ASSUME TypeInv,
         \/ EventArrives \/ \E q \in Pushes : PushStep(q)
         \/ \E i \in Logins : InitFindsNothing(i) \/ InitFindsPush(i)
  PROVE  TypeInv'
<1>. USE Bounds DEF TypeInv, AuthOK, PullOK, PushOK, MainOK, authVars, pullVars, pushVars, mainVars
<1>s. \A q \in Pushes : q \in Starters /\ q \in 0..MaxPushes BY DEF Pushes, Starters
<1>l. \A i \in Logins : MaxPushes + i \in Starters BY DEF Logins, Starters
<1>a. {"token", "sending", "initiating", "stuck"} \subseteq ThunkStages BY DEF ThunkStages
<1>u. Uploads \subseteq PushStates /\ "remote" \in PushStates /\ "uploading" \in Uploads
      /\ "uploadingPaused" \in Uploads
  BY DEF PushStates, Uploads
<1>c. ctl \in Controllers /\ Nobody \in Controllers BY DEF Controllers
<1>1. CASE EventArrives BY <1>1, <1>u, <1>c, PartTypes DEF EventArrives
<1>2. ASSUME NEW q \in Pushes, Exported(q) PROVE TypeInv'
  BY <1>2, <1>u, <1>c, <1>a, PartTypes, StageTypes DEF Exported
<1>3. ASSUME NEW q \in Pushes, UploadStarts(q) PROVE TypeInv'
  <2>1. ASSUME NEW r \in Pushes PROVE thunk'[r] \in Thunks
    BY <1>3 DEF UploadStarts, Thunks, ThunkStages
  <2>2. thunk' \in [Pushes -> Thunks] BY <1>3, <2>1 DEF UploadStarts
  <2>. QED BY <1>3, <1>s, <2>2 DEF UploadStarts
<1>4. ASSUME NEW q \in Pushes, UploadEvent(q) PROVE TypeInv'
  BY <1>4, <1>u DEF UploadEvent
<1>5. ASSUME NEW q \in Pushes, Uploaded(q) PROVE TypeInv'
  BY <1>5, <1>a, StageTypes DEF Uploaded
<1>6. ASSUME NEW q \in Pushes, Initiated(q) PROVE TypeInv'
  <2>1. thunk' \in [Pushes -> Thunks] /\ applied' \subseteq Pushes BY <1>6, StageTypes DEF Initiated
  <2>2. push' \in PushStates /\ active' \in BOOLEAN /\ ctl' \in Controllers /\ stray' \in BOOLEAN
    BY <1>6, <1>u, <1>c, PartTypes DEF Initiated
  <2>3. pushPoll' \in [Starters -> PushPolls] /\ pushPoller' \in {0} \cup Starters
    BY <1>6, <1>s, PartTypes DEF Initiated
  <2>. QED BY <1>6, <2>1, <2>2, <2>3 DEF Initiated
<1>7. ASSUME NEW q \in Pushes, PushUnwinds(q) PROVE TypeInv'
  <2>1. thunk' \in [Pushes -> Thunks] /\ push' \in PushStates /\ ctl' \in Controllers
    BY <1>7, <1>c, StageTypes, StatusTypes DEF PushUnwinds
  <2>. QED BY <1>7, <2>1 DEF PushUnwinds
<1>8. ASSUME NEW i \in Logins, InitFindsNothing(i) PROVE TypeInv'
  BY <1>8 DEF InitFindsNothing
<1>9. ASSUME NEW i \in Logins, InitFindsPush(i) PROVE TypeInv'
  BY <1>9, <1>l, <1>u, <1>c, PartTypes DEF InitFindsPush
<1>. QED BY <1>1, <1>2, <1>3, <1>4, <1>5, <1>6, <1>7, <1>8, <1>9 DEF PushStep

(* The poll loop of a push.                                                  *)
LEMMA PushPollTypes == ASSUME TypeInv, NEW r \in Starters, PushPollStep(r) PROVE TypeInv'
<1>. USE Bounds DEF TypeInv, AuthOK, PullOK, PushOK, MainOK, authVars, pullVars, pushVars, mainVars
<1>u. "remote" \in PushStates /\ "finished" \in PushStates BY DEF PushStates, Terminal
<1>a. {"asking", "stamping", "sleeping"} \subseteq PushStages BY DEF PushStages
<1>1. CASE PushWakes(r) BY <1>1, <1>a, StageTypes, PartTypes DEF PushWakes
<1>2. CASE PushAnswered(r) BY <1>2, <1>a, <1>u, StageTypes, PartTypes DEF PushAnswered
<1>3. CASE RemoteFinished(r) BY <1>3, <1>a, StageTypes DEF RemoteFinished
<1>4. CASE PushFinishes(r) BY <1>4, <1>u, PartTypes DEF PushFinishes
<1>5. CASE PushPollUnwinds(r) BY <1>5, StatusTypes, PartTypes DEF PushPollUnwinds
<1>. QED BY <1>1, <1>2, <1>3, <1>4, <1>5 DEF PushPollStep

(* Every step keeps the types.                                               *)
LEMMA TypeStep == ASSUME TypeInv, [Next]_vars PROVE TypeInv'
<1>1. CASE UNCHANGED vars
  BY <1>1 DEF TypeInv, AuthOK, PullOK, PushOK, MainOK, vars, authVars, pullVars, pushVars, mainVars
<1>. QED BY <1>1, UserTypes, PullTypes, PushTypes, PushPollTypes DEF Next

(* At first nothing is pulled, pushed or polled.                             *)
LEMMA InitTypes == Init => TypeInv
<1>. SUFFICES ASSUME Init PROVE TypeInv OBVIOUS
<1>. USE Bounds DEF Init
<1>1. AuthOK BY DEF AuthOK
<1>2. PullOK BY DEF PullOK, NoPull, PullStates, PullPolls, PullStages
<1>3. PushOK BY DEF PushOK, PushStates, Thunks, ThunkStages, PushPolls, PushStages
<1>4. MainOK BY DEF MainOK, Controllers
<1>. QED BY <1>1, <1>2, <1>3, <1>4 DEF TypeInv

-----------------------------------------------------------------------------
(* Pulls *)

PullSound == PullInv /\ PullsAreSound

(* What a step does to the loops of pulls: nothing, p goes to stage s, it     *)
(* ends, it begins, or the one in the map is aborted.                         *)
PullsRest ==
  /\ pullPoller' = pullPoller
  /\ \A q \in Pulls : pullPoll'[q].at = pullPoll[q].at /\ pullPoll'[q].aborted = pullPoll[q].aborted
PullGoes(p, s) ==
  /\ Runs(pullPoll[p].at) /\ Runs(s) /\ pullPoller' = pullPoller
  /\ \A q \in Pulls : /\ pullPoll'[q].at = IF q = p THEN s ELSE pullPoll[q].at
                      /\ pullPoll'[q].aborted = pullPoll[q].aborted
PullStops(p) ==
  /\ Runs(pullPoll[p].at) /\ pullPoller' = IF pullPoller = p THEN 0 ELSE pullPoller
  /\ \A q \in Pulls : /\ pullPoll'[q].at = IF q = p THEN "ended" ELSE pullPoll[q].at
                      /\ pullPoll'[q].aborted = (q # p /\ pullPoll[q].aborted)
PullBegins(p) ==
  /\ loggedIn /\ pullPoller = 0 /\ pullPoller' = p
  /\ \A q \in Pulls : /\ pullPoll'[q].at = IF q = p THEN "asking" ELSE pullPoll[q].at
                      /\ pullPoll'[q].aborted = pullPoll[q].aborted
PullsAborted ==
  /\ pullPoller' = 0
  /\ \A q \in Pulls : /\ pullPoll'[q].at \in {pullPoll[q].at, "ended"}
                      /\ pullPoll[q].at = "off" => pullPoll'[q].at = "off"
                      /\ IF Runs(pullPoll'[q].at) THEN pullPoll'[q].aborted
                         ELSE pullPoll'[q].aborted => pullPoll[q].aborted

(* The operators of the model make such moves.                               *)
LEMMA PullMoves ==
  ASSUME TypeInv, PullSound
  PROVE  /\ \A p \in Pulls : \A s : pullPoll' = [pullPoll EXCEPT ![p].at = s]
               /\ pullPoller' = pullPoller
              /\ Runs(pullPoll[p].at) /\ Runs(s) => PullGoes(p, s)
         /\ \A p \in Pulls : Runs(pullPoll[p].at) /\ EndPull(p) => PullStops(p)
         /\ \A p \in Pulls : StartPullPoller(p) =>
              PullBegins(p) \/ (PullsRest /\ (pullPoller # 0 \/ ~loggedIn))
         /\ \A cut \in BOOLEAN : pullPoll' = PullPollStopped(TRUE, cut) /\ pullPoller' = 0
               => PullsAborted
         /\ \A cut \in BOOLEAN : pullPoll' = PullPollStopped(FALSE, cut) /\ pullPoller' = pullPoller
              => PullsRest
         /\ \A p \in Pulls : pullPoll' = [PullPollStopped(TRUE, FALSE) EXCEPT ![p] = PullEnded]
              /\ pullPoller' = 0 /\ Runs(pullPoll[p].at) => PullsAborted
         /\ UNCHANGED <<pullPoll, pullPoller>> => PullsRest
<1>. USE DEF TypeInv, PullOK, PullPolls
<1>1. ASSUME NEW p \in Pulls, NEW s, pullPoll' = [pullPoll EXCEPT ![p].at = s],
             pullPoller' = pullPoller,
             Runs(pullPoll[p].at), Runs(s)
      PROVE  PullGoes(p, s)
  BY <1>1 DEF PullGoes
<1>2. ASSUME NEW p \in Pulls, Runs(pullPoll[p].at), EndPull(p) PROVE PullStops(p)
  BY <1>2 DEF PullStops, EndPull, PullEnded
<1>3. ASSUME NEW p \in Pulls, StartPullPoller(p)
      PROVE  PullBegins(p) \/ (PullsRest /\ (pullPoller # 0 \/ ~loggedIn))
  BY <1>3 DEF StartPullPoller, PullBegins, PullsRest
<1>4. ASSUME NEW q \in Pulls, NEW cut \in BOOLEAN
      PROVE  LET t == PullPollStopped(TRUE, cut)[q]
                 f == PullPollStopped(FALSE, cut)[q]
             IN  /\ t.at = pullPoll[q].at /\ t.aborted = (pullPoll[q].aborted \/ q = pullPoller)
                 /\ f.at = pullPoll[q].at /\ f.aborted = pullPoll[q].aborted
  BY DEF PullPollStopped
<1>r. /\ \A q \in Pulls : Runs(pullPoll[q].at) /\ ~pullPoll[q].aborted => pullPoller = q
      /\ \A q \in Pulls : q = pullPoller => Runs(pullPoll[q].at)
  <2>1. \A q \in Pulls : q # 0 BY DEF Pulls
  <2>. QED BY <2>1 DEF PullSound, PullsAreSound, PullInv
<1>5. ASSUME NEW cut \in BOOLEAN, pullPoll' = PullPollStopped(TRUE, cut), pullPoller' = 0
      PROVE  PullsAborted
  BY <1>4, <1>5, <1>r DEF PullsAborted
<1>6. ASSUME NEW cut \in BOOLEAN, pullPoll' = PullPollStopped(FALSE, cut), pullPoller' = pullPoller
      PROVE  PullsRest
  BY <1>4, <1>6 DEF PullsRest
<1>7. ASSUME NEW p \in Pulls, pullPoll' = [PullPollStopped(TRUE, FALSE) EXCEPT ![p] = PullEnded],
             pullPoller' = 0, Runs(pullPoll[p].at)
      PROVE  PullsAborted
  <2>1. DOMAIN PullPollStopped(TRUE, FALSE) = Pulls BY DEF PullPollStopped
  <2>2. pullPoll'[p] = PullEnded /\ \A q \in Pulls \ {p} :
           pullPoll'[q] = PullPollStopped(TRUE, FALSE)[q]
    BY <1>7, <2>1
  <2>3. PullEnded.at = "ended" /\ PullEnded.aborted = FALSE BY DEF PullEnded
  <2>4. ~Runs("ended") /\ pullPoll[p].at # "off" BY <1>7 DEF Runs
  <2>5. ASSUME NEW q \in Pulls \ {p}
        PROVE  pullPoll'[q].at = pullPoll[q].at
                  /\ pullPoll'[q].aborted = (pullPoll[q].aborted \/ q = pullPoller)
    BY <1>4, <2>2
  <2>6. ASSUME NEW q \in Pulls
        PROVE  /\ pullPoll'[q].at \in {pullPoll[q].at, "ended"}
               /\ pullPoll[q].at = "off" => pullPoll'[q].at = "off"
               /\ IF Runs(pullPoll'[q].at) THEN pullPoll'[q].aborted
                  ELSE pullPoll'[q].aborted => pullPoll[q].aborted
    <3>1. CASE q = p BY <2>2, <2>3, <2>4, <3>1
    <3>2. CASE q # p
      <4>1. q \in Pulls \ {p} BY <3>2
      <4>2. pullPoll'[q].at = pullPoll[q].at BY <2>5, <4>1
      <4>3. pullPoll'[q].aborted = (pullPoll[q].aborted \/ q = pullPoller) BY <2>5, <4>1
      <4>4. CASE Runs(pullPoll[q].at) BY <1>r, <4>2, <4>3, <4>4
      <4>5. CASE ~Runs(pullPoll[q].at) BY <1>r, <4>2, <4>3, <4>5
      <4>. QED BY <4>4, <4>5
    <3>. QED BY <3>1, <3>2
  <2>. QED BY <1>7, <2>6 DEF PullsAborted
<1>8. ASSUME UNCHANGED <<pullPoll, pullPoller>> PROVE PullsRest BY <1>8 DEF PullsRest
<1>. QED BY <1>1, <1>2, <1>3, <1>5, <1>6, <1>7, <1>8

PullLoops ==
  /\ \A p \in Pulls : pullPoll[p].at = "off" => ~pullPoll[p].aborted
  /\ pullPoller # 0 => Runs(pullPoll[pullPoller].at) /\ ~pullPoll[pullPoller].aborted
  /\ \A p \in Pulls : Runs(pullPoll[p].at) /\ ~pullPoll[p].aborted => pullPoller = p

AllAborted == \A p \in Pulls : Runs(pullPoll[p].at) => pullPoll[p].aborted

(* Every move keeps the loops in order; only one that begins adds to those   *)
(* that run without being aborted.                                           *)
LEMMA PullMovesSound ==
  ASSUME TypeInv, PullSound,
         \/ PullsRest \/ PullsAborted
         \/ \E p \in Pulls : \/ PullStops(p) \/ \E s : PullGoes(p, s)
                             \/ PullBegins(p) /\ pullPoll[p].at = "off"
  PROVE  /\ PullLoops'
         /\ (PullsRest \/ PullsAborted \/ \E p \in Pulls : PullStops(p) \/ \E s : PullGoes(p, s))
              => (AllAborted => AllAborted')
         /\ \A p \in Pulls : PullStops(p) \/ (\E s : PullGoes(p, s)) \/ PullBegins(p)
              => \A q \in Pulls \ {p} : pullPoll[q].at = "off" => pullPoll'[q].at = "off"
         /\ PullsRest \/ PullsAborted => \A q \in Pulls : pullPoll[q].at = "off"
               => pullPoll'[q].at = "off"
         /\ PullsAborted => AllAborted'
<1>. USE DEF PullSound, PullInv, PullsAreSound, PullLoops, AllAborted
<1>0. /\ \A p \in Pulls : p # 0 /\ pullPoll[p].aborted \in BOOLEAN
      /\ ~Runs("off") /\ ~Runs("ended") /\ Runs("asking") /\ pullPoller \in Pulls \cup {0}
  BY Bounds DEF Pulls, Runs, TypeInv, PullOK, PullPolls
<1>1. CASE PullsRest BY <1>0, <1>1 DEF PullsRest, PullsAborted, PullStops, PullGoes, PullBegins
<1>2. CASE PullsAborted BY <1>0, <1>2 DEF PullsAborted
<1>3. ASSUME NEW p \in Pulls, PullStops(p) PROVE PullLoops' /\ (AllAborted => AllAborted')
  BY <1>0, <1>3 DEF PullStops
<1>4. ASSUME NEW p \in Pulls, NEW s, PullGoes(p, s) PROVE PullLoops' /\ (AllAborted => AllAborted')
  BY <1>0, <1>4 DEF PullGoes
<1>5. ASSUME NEW p \in Pulls, PullBegins(p), pullPoll[p].at = "off" PROVE PullLoops'
  BY <1>0, <1>5 DEF PullBegins
<1>6. PullLoops' BY <1>1, <1>2, <1>3, <1>4, <1>5
<1>7. (PullsRest \/ PullsAborted \/ \E p \in Pulls : PullStops(p) \/ \E s : PullGoes(p, s))
         => (AllAborted => AllAborted')
  <2>1. PullsRest => (AllAborted => AllAborted') BY DEF PullsRest
  <2>2. PullsAborted => AllAborted' BY DEF PullsAborted
  <2>. QED BY <1>3, <1>4, <2>1, <2>2
<1>8. /\ \A p \in Pulls : PullStops(p) \/ (\E s : PullGoes(p, s)) \/ PullBegins(p)
           => \A q \in Pulls \ {p} : pullPoll[q].at = "off" => pullPoll'[q].at = "off"
      /\ PullsRest \/ PullsAborted => \A q \in Pulls : pullPoll[q].at = "off"
            => pullPoll'[q].at = "off"
      /\ PullsAborted => AllAborted'
  BY DEF PullsRest, PullsAborted, PullStops, PullGoes, PullBegins
<1>. QED BY <1>6, <1>7, <1>8

(* No step that leaves pulls alone touches their loops.                      *)
LEMMA PullsAlone ==
  ASSUME TypeInv, PullSound, UNCHANGED <<loggedIn, pull, pulls, post, pullPoll, pullPoller>>
  PROVE  PullSound'
  BY DEF PullSound, PullInv, PullsAreSound

(* The pulls are sound when their loops are and the slice agrees with them.  *)
LEMMA PullSoundIs ==
  /\ PullSound <=> PullLoops /\ (\A p \in Pulls : p > pulls => post[p] = "idle")
       /\ (\A p \in Pulls : post[p] # "done" => pullPoll[p].at = "off")
       /\ (~loggedIn => pull.status # "in-progress")
       /\ (~loggedIn \/ pull.status = "cancelled" => AllAborted)
       /\ (Pollable(pull) => pullPoller # 0)
  /\ PullSound' <=> PullLoops' /\ (\A p \in Pulls : p > pulls' => post'[p] = "idle")
       /\ (\A p \in Pulls : post'[p] # "done" => pullPoll'[p].at = "off")
       /\ (~loggedIn' => pull'.status # "in-progress")
       /\ (~loggedIn' \/ pull'.status = "cancelled" => AllAborted')
       /\ (Pollable(pull') => pullPoller' # 0)
  BY DEF PullSound, PullInv, PullsAreSound, PullLoops, AllAborted

(* What the user does keeps the pulls sound.                                 *)
LEMMA UserPulls == ASSUME TypeInv, PullSound, User PROVE PullSound'
<1>. USE Bounds, PullMoves, PullMovesSound DEF authVars, pullVars, pushVars, mainVars
<1>0. pull \in PullStates BY DEF TypeInv, PullOK
<1>1. CASE Login
  <2>1. PullsRest BY <1>1 DEF Login
  <2>. QED BY <1>1, PullSoundIs, <2>1 DEF Login
<1>2. CASE Logout
  <2>1. \E cut \in BOOLEAN : pullPoll' = PullPollStopped(TRUE, cut) /\ pullPoller' = 0
    BY <1>2 DEF Logout
  <2>2. PullsAborted BY <2>1
  <2>. QED BY <1>2, PullSoundIs, <2>2 DEF Logout, NoPull, Pollable
<1>3. CASE StartPull
  <2>1. PullsRest BY <1>3 DEF StartPull
  <2>2. pulls' \in Pulls /\ pulls' = pulls + 1 /\ pulls \in Nat
    BY <1>3 DEF StartPull, Pulls, TypeInv, PullOK
  <2>3. post' = [post EXCEPT ![pulls'] = "asking"] /\ DOMAIN post = Pulls
    BY <1>3 DEF StartPull, TypeInv, PullOK
  <2>4. \A p \in Pulls : p > pulls' => post'[p] = "idle" BY PullSoundIs, <2>2, <2>3 DEF Pulls
  <2>5. \A p \in Pulls : post'[p] # "done" => pullPoll'[p].at = "off"
    BY PullSoundIs, <2>1, <2>2, <2>3 DEF PullsRest
  <2>. QED BY <1>3, PullSoundIs, <2>1, <2>4, <2>5 DEF StartPull, Pollable
<1>4. CASE CancelPull
  <2>1. PullsAborted BY <1>4 DEF CancelPull
  <2>2. pull'.status = "cancelled" BY <1>4, <1>0 DEF CancelPull, PullStates
  <2>. QED BY <1>4, PullSoundIs, <2>1, <2>2 DEF CancelPull, Pollable
<1>5. CASE ClearPull
  <2>1. PullsAborted BY <1>5 DEF ClearPull
  <2>. QED BY <1>5, PullSoundIs, <2>1 DEF ClearPull, NoPull, Pollable
<1>6. CASE CancelPush
  <2>1. PullsRest BY <1>6 DEF CancelPush
  <2>. QED BY <1>6, PullSoundIs, <2>1 DEF CancelPush, PullsRest
<1>7. CASE StartPush \/ ClearPush \/ PauseUpload \/ ResumeUpload
  BY <1>7, PullsAlone DEF StartPush, ClearPush, PauseUpload, ResumeUpload
<1>. QED BY <1>1, <1>2, <1>3, <1>4, <1>5, <1>6, <1>7 DEF User

(* Every step of a pull keeps the pulls sound.                               *)
LEMMA PullStepPulls == ASSUME TypeInv, PullSound, NEW p \in Pulls, PullStep(p) PROVE PullSound'
<1>. USE Bounds, PullMoves, PullMovesSound DEF authVars, pullVars, pushVars, mainVars
<1>0. pull \in PullStates BY DEF TypeInv, PullOK
<1>f. \A s : /\ [pull EXCEPT !.status = s].status = s
             /\ [pull EXCEPT !.status = s].backup = pull.backup
             /\ [pull EXCEPT !.backup = p].status = pull.status
  BY <1>0 DEF PullStates
<1>p. p # 0 BY DEF Pulls
<1>r. /\ Runs("asking") /\ Runs("checking") /\ Runs("downloading") /\ Runs("importing")
      /\ Runs("stamping") /\ Runs("sleeping")
      /\ pullPoll[p].at # "off" <=> (Runs(pullPoll[p].at) \/ pullPoll[p].at = "ended")
  BY DEF Runs
(* A step of a loop that began before, or of no loop.                        *)
<1>m. ASSUME UNCHANGED <<loggedIn, pulls, post>>, Runs(pullPoll[p].at),
             PullsAborted \/ PullStops(p) \/ \E s : PullGoes(p, s),
             pull'.status # pull.status => pull'.status \notin {"cancelled", "in-progress"},
             Pollable(pull') => pullPoller' # 0
      PROVE  PullSound'
  <2>1. \A q \in Pulls : post'[q] # "done" => pullPoll'[q].at = "off"
    BY <1>m, <1>r, PullSoundIs
  <2>. QED BY <1>m, <2>1, PullSoundIs
<1>n. ASSUME NextPull(p), Runs(pullPoll[p].at)
      PROVE  PullGoes(p, "sleeping") \/ (PullStops(p) /\ (pullPoll[p].aborted \/ ~Pollable(pull')))
  BY <1>n, <1>r DEF NextPull
(* A loop that was aborted is not the one in the map.                        *)
<1>k. pullPoll[p].aborted => pullPoller # p BY <1>p, PullSoundIs DEF PullLoops
<1>1. CASE BackupRequested(p)
  <2>1. pullPoll[p].at = "off" BY <1>1, PullSoundIs DEF BackupRequested
  <2>2. \A q \in Pulls : /\ q > pulls => q # p /\ post'[q] = post[q]
                         /\ post'[q] # "done" => q # p /\ post[q] # "done"
    BY <1>1, PullSoundIs DEF BackupRequested, TypeInv, PullOK
  <2>3. pull'.status = pull.status BY <1>1, <1>f DEF BackupRequested
  <2>4. CASE PullsRest /\ (pull' = pull \/ pullPoller # 0 \/ ~loggedIn)
    BY <1>1, <2>2, <2>3, <2>4, PullSoundIs DEF BackupRequested, PullsRest, Pollable
  <2>5. CASE PullBegins(p) /\ pull.status # "cancelled"
    <3>1. pullPoller' # 0 /\ loggedIn BY <2>5, <1>p DEF PullBegins
    <3>. QED BY <1>1, <2>1, <2>2, <2>3, <2>5, <3>1, PullSoundIs DEF BackupRequested
  <2>. QED BY <1>1, <2>4, <2>5 DEF BackupRequested
<1>2. CASE BackupRefused(p)
  <2>1. PullsRest BY <1>2 DEF BackupRefused
  <2>2. \A q \in Pulls : /\ q > pulls => q # p /\ post'[q] = post[q]
                         /\ post'[q] # "done" => q # p /\ post[q] # "done"
    BY <1>2, PullSoundIs DEF BackupRefused, TypeInv, PullOK
  <2>3. pull'.status = pull.status \/ pull'.status = "failed"
    BY <1>2, <1>f DEF BackupRefused, Rejected
  <2>4. Pollable(pull') => Pollable(pull) BY <1>2, <1>f, <2>3 DEF BackupRefused, Pollable
  <2>. QED BY <1>2, <2>1, <2>2, <2>3, <2>4, PullSoundIs DEF BackupRefused, PullsRest
<1>3. CASE PullWakes(p)
  <2>1. PullStops(p) \/ PullGoes(p, "asking") BY <1>3, <1>r DEF PullWakes
  <2>2. Pollable(pull) => pullPoller' # 0
    <3>1. CASE PullGoes(p, "asking") BY <3>1, PullSoundIs DEF PullGoes
    <3>2. CASE EndPull(p) /\ (pullPoll[p].aborted \/ ~loggedIn \/ pull.backup = 0)
      <4>1. pullPoller = p => pull.backup = 0
        BY <1>3, <1>k, <1>r, <3>2, PullSoundIs DEF AllAborted, PullWakes
      <4>. QED BY <3>2, <4>1, PullSoundIs DEF EndPull, Pollable
    <3>. QED BY <1>3, <1>r, <3>1, <3>2 DEF PullWakes
  <2>. QED BY <1>3, <1>m, <1>r, <2>1, <2>2 DEF PullWakes
<1>4. CASE PullAnswered(p)
  <2>1. pullPoller = p /\ loggedIn /\ Runs(pullPoll[p].at)
    BY <1>4, <1>r, PullSoundIs DEF PullAnswered, PullLoops, AllAborted
  <2>2. PICK s \in {"in-progress", "failed", "downloading"} : pull' = [pull EXCEPT !.status = s]
    BY <1>4 DEF PullAnswered, SetPull
  <2>3. pull'.status # "cancelled" BY <1>f, <2>2
  <2>4. PullGoes(p, "sleeping") \/ (PullStops(p) /\ ~Pollable(pull'))
    BY <1>4, <1>n, <2>1 DEF PullAnswered
  <2>5. Pollable(pull') => pullPoller' # 0 BY <1>p, <2>1, <2>4 DEF PullGoes
  <2>6. \A q \in Pulls : post'[q] # "done" => pullPoll'[q].at = "off"
    BY <1>4, <1>r, <2>1, <2>4, PullSoundIs DEF PullAnswered
  <2>. QED BY <1>4, <2>1, <2>3, <2>4, <2>5, <2>6, PullSoundIs DEF PullAnswered
<1>5. CASE BackupReady(p)
  <2>1. PullGoes(p, "checking") BY <1>5, <1>r DEF BackupReady
  <2>. QED BY <1>5, <1>m, <1>r, <2>1, PullSoundIs DEF BackupReady, PullGoes
<1>6. CASE Downloads(p)
  <2>1. PullGoes(p, "downloading") BY <1>6, <1>r DEF Downloads
  <2>2. pull'.status = "downloading" BY <1>6, <1>f DEF Downloads, SetPull
  <2>. QED BY <1>6, <1>m, <1>r, <2>1, <2>2 DEF Downloads, Pollable
<1>7. CASE TooLarge(p)
  <2>1. PullsAborted BY <1>7, <1>r DEF TooLarge
  <2>2. pull'.status = "none" BY <1>7 DEF TooLarge, NoPull
  <2>. QED BY <1>7, <1>m, <1>r, <2>1, <2>2 DEF TooLarge, Pollable
<1>8. CASE Downloaded(p)
  <2>1. PullGoes(p, "importing") BY <1>8, <1>r DEF Downloaded
  <2>2. pull'.status = "importing" BY <1>8, <1>f DEF Downloaded, SetPull
  <2>. QED BY <1>8, <1>m, <1>r, <2>1, <2>2 DEF Downloaded, Pollable
<1>9. CASE Imported(p)
  <2>1. PullGoes(p, "stamping") BY <1>9, <1>r DEF Imported
  <2>. QED BY <1>9, <1>m, <1>r, <2>1, PullSoundIs DEF Imported, PullGoes
<1>10. CASE PullFinishes(p)
  <2>1. PullStops(p) BY <1>10, <1>r DEF PullFinishes
  <2>2. pull'.status = "finished" BY <1>10, <1>f DEF PullFinishes, SetPull
  <2>. QED BY <1>10, <1>m, <1>r, <2>1, <2>2 DEF PullFinishes, Pollable
<1>11. CASE PullUnwinds(p)
  <2>1. Runs(pullPoll[p].at) /\ NextPull(p) /\ UNCHANGED <<loggedIn, pulls, post>>
    BY <1>11, <1>r DEF PullUnwinds
  <2>2. pull' = pull \/ pull'.status \in {"none", "failed"}
    BY <1>11, <1>f DEF PullUnwinds, Rejected
  <2>3. PullGoes(p, "sleeping") \/ (PullStops(p) /\ (pullPoller = p => ~Pollable(pull')))
    BY <1>k, <1>n, <2>1
  <2>4. Pollable(pull') => Pollable(pull) BY <2>2 DEF Pollable
  <2>5. Pollable(pull') => pullPoller' # 0 BY <2>3, <2>4, PullSoundIs DEF PullGoes, PullStops
  <2>. QED BY <1>m, <2>1, <2>2, <2>3, <2>5
<1>. QED BY <1>1, <1>2, <1>3, <1>4, <1>5, <1>6, <1>7, <1>8, <1>9, <1>10, <1>11 DEF PullStep

-----------------------------------------------------------------------------
(* Pushes *)

PushSound == PushInv /\ PushesAreSound

(* What a step does to the loops of pushes, likewise.                        *)
PushesRest ==
  /\ pushPoller' = pushPoller
  /\ \A q \in Starters : pushPoll'[q].at = pushPoll[q].at
        /\ pushPoll'[q].aborted = pushPoll[q].aborted
PushGoes(p, s) ==
  /\ Runs(pushPoll[p].at) /\ Runs(s) /\ pushPoller' = pushPoller
  /\ \A q \in Starters : /\ pushPoll'[q].at = IF q = p THEN s ELSE pushPoll[q].at
                         /\ pushPoll'[q].aborted = pushPoll[q].aborted
PushStops(p) ==
  /\ Runs(pushPoll[p].at) /\ pushPoller' = IF pushPoller = p THEN 0 ELSE pushPoller
  /\ \A q \in Starters : /\ pushPoll'[q].at = IF q = p THEN "ended" ELSE pushPoll[q].at
                         /\ pushPoll'[q].aborted = (q # p /\ pushPoll[q].aborted)
PushBegins(p) ==
  /\ loggedIn /\ pushPoller = 0 /\ pushPoller' = p
  /\ \A q \in Starters : /\ pushPoll'[q].at = IF q = p THEN "asking" ELSE pushPoll[q].at
                         /\ pushPoll'[q].aborted = pushPoll[q].aborted
PushesAborted ==
  /\ pushPoller' = 0
  /\ \A q \in Starters : /\ pushPoll'[q].at = pushPoll[q].at
                         /\ IF Runs(pushPoll[q].at) THEN pushPoll'[q].aborted
                            ELSE pushPoll'[q].aborted => pushPoll[q].aborted

(* The operators of the model make such moves.                               *)
LEMMA PushMoves ==
  ASSUME TypeInv, PushSound
  PROVE  /\ \A p \in Starters : \A s : pushPoll' = [pushPoll EXCEPT ![p].at = s]
              /\ pushPoller' = pushPoller /\ Runs(pushPoll[p].at) /\ Runs(s) => PushGoes(p, s)
         /\ \A p \in Starters : Runs(pushPoll[p].at) /\ EndPush(p) => PushStops(p)
         /\ \A p \in Starters : StartPushPoller(p) =>
              PushBegins(p) \/ (PushesRest /\ (pushPoller # 0 \/ ~loggedIn))
         /\ StopPushPoller => PushesAborted
         /\ UNCHANGED <<pushPoll, pushPoller>> => PushesRest
<1>. USE DEF TypeInv, PushOK, PushPolls
<1>1. ASSUME NEW p \in Starters, NEW s, pushPoll' = [pushPoll EXCEPT ![p].at = s],
             pushPoller' = pushPoller, Runs(pushPoll[p].at), Runs(s)
      PROVE  PushGoes(p, s)
  BY <1>1 DEF PushGoes
<1>2. ASSUME NEW p \in Starters, Runs(pushPoll[p].at), EndPush(p) PROVE PushStops(p)
  BY <1>2 DEF PushStops, EndPush, PushEnded
<1>3. ASSUME NEW p \in Starters, StartPushPoller(p)
      PROVE  PushBegins(p) \/ (PushesRest /\ (pushPoller # 0 \/ ~loggedIn))
  BY <1>3 DEF StartPushPoller, PushBegins, PushesRest
<1>4. ASSUME StopPushPoller PROVE PushesAborted
  <2>1. \A q \in Starters : q # 0 BY DEF Starters
  <2>2. \A q \in Starters : Runs(pushPoll[q].at) /\ ~pushPoll[q].aborted => pushPoller = q
    BY DEF PushSound, PushesAreSound
  <2>3. \A q \in Starters : q = pushPoller => Runs(pushPoll[q].at)
    BY <2>1 DEF PushSound, PushInv
  <2>4. \A q \in Starters : /\ pushPoll'[q].at = pushPoll[q].at
                            /\ pushPoll'[q].aborted = (pushPoll[q].aborted \/ q = pushPoller)
    BY <1>4 DEF StopPushPoller
  <2>. QED BY <1>4, <2>2, <2>3, <2>4 DEF StopPushPoller, PushesAborted
<1>5. ASSUME UNCHANGED <<pushPoll, pushPoller>> PROVE PushesRest BY <1>5 DEF PushesRest
<1>. QED BY <1>1, <1>2, <1>3, <1>4, <1>5

PushLoops ==
  /\ \A p \in Starters : pushPoll[p].at = "off" => ~pushPoll[p].aborted
  /\ pushPoller # 0 => Runs(pushPoll[pushPoller].at) /\ ~pushPoll[pushPoller].aborted
  /\ \A p \in Starters : Runs(pushPoll[p].at) /\ ~pushPoll[p].aborted => pushPoller = p

PushesEnd == \A p \in Starters : Runs(pushPoll[p].at) => pushPoll[p].aborted

(* The starts that were answered are the only ones with a loop.              *)
PushStarts ==
  /\ \A i \in Logins : i > logins => init[i] = "off"
  /\ \A i \in Logins : init[i] # "done" => pushPoll[MaxPushes + i].at = "off"
  /\ \A q \in Pushes : q > pushes => thunk[q].at = "idle"
  /\ \A q \in Pushes : thunk[q].at # "done" => pushPoll[q].at = "off"

(* The pushes are sound when their loops are and the slice agrees with them. *)
LEMMA PushSoundIs ==
  /\ PushSound <=> PushLoops /\ PushStarts /\ (~loggedIn \/ push = "cancelled" => PushesEnd)
       /\ (push = "remote" /\ ~stray => pushPoller # 0)
  /\ PushSound' <=> PushLoops' /\ PushStarts' /\ (~loggedIn' \/ push' = "cancelled" => PushesEnd')
       /\ (push' = "remote" /\ ~stray' => pushPoller' # 0)
  BY DEF PushSound, PushInv, PushesAreSound, PushLoops, PushStarts, PushesEnd

(* Every move keeps the loops in order, as with pulls.                       *)
LEMMA PushMovesSound ==
  ASSUME TypeInv, PushSound
  PROVE  /\ PushesRest => PushLoops' /\ (PushesEnd => PushesEnd')
              /\ \A q \in Starters : pushPoll'[q].at = pushPoll[q].at
         /\ PushesAborted => PushLoops' /\ PushesEnd'
              /\ \A q \in Starters : pushPoll'[q].at = pushPoll[q].at
         /\ \A p \in Starters : PushStops(p) \/ (\E s : PushGoes(p, s)) =>
              PushLoops' /\ (PushesEnd => PushesEnd')
                /\ \A q \in Starters : pushPoll[q].at = "off" => pushPoll'[q].at = "off"
         /\ \A p \in Starters : PushBegins(p) /\ pushPoll[p].at = "off" =>
              PushLoops' /\ \A q \in Starters \ {p} : pushPoll[q].at = "off"
                 => pushPoll'[q].at = "off"
<1>. USE DEF PushLoops, PushesEnd
<1>0. /\ \A p \in Starters : p # 0 /\ pushPoll[p].aborted \in BOOLEAN
      /\ ~Runs("off") /\ ~Runs("ended") /\ Runs("asking") /\ pushPoller \in Starters \cup {0}
  BY Bounds DEF Starters, Runs, TypeInv, PushOK, PushPolls
<1>1. ASSUME PushesRest
      PROVE  PushLoops' /\ (PushesEnd => PushesEnd') /\ \A q \in Starters :
                pushPoll'[q].at = pushPoll[q].at
  BY <1>0, <1>1, PushSoundIs DEF PushesRest
<1>2. ASSUME PushesAborted
      PROVE  PushLoops' /\ PushesEnd' /\ \A q \in Starters : pushPoll'[q].at = pushPoll[q].at
  BY <1>0, <1>2, PushSoundIs DEF PushesAborted
<1>3. ASSUME NEW p \in Starters, PushStops(p)
      PROVE  PushLoops' /\ (PushesEnd => PushesEnd')
                /\ \A q \in Starters : pushPoll[q].at = "off" => pushPoll'[q].at = "off"
  BY <1>0, <1>3, PushSoundIs DEF PushStops
<1>4. ASSUME NEW p \in Starters, NEW s, PushGoes(p, s)
      PROVE  PushLoops' /\ (PushesEnd => PushesEnd')
                /\ \A q \in Starters : pushPoll[q].at = "off" => pushPoll'[q].at = "off"
  BY <1>0, <1>4, PushSoundIs DEF PushGoes
<1>5. ASSUME NEW p \in Starters, PushBegins(p), pushPoll[p].at = "off"
      PROVE  PushLoops' /\ \A q \in Starters \ {p} : pushPoll[q].at = "off"
                => pushPoll'[q].at = "off"
  BY <1>0, <1>5, PushSoundIs DEF PushBegins
<1>. QED BY <1>1, <1>2, <1>3, <1>4, <1>5

(* A step that starts nothing leaves the starts as they are.                 *)
LEMMA StartsStay ==
  ASSUME TypeInv, PushSound, UNCHANGED <<logins, init, pushes>>,
         \A q \in Pushes : thunk'[q].at = "done"
            \/ (thunk'[q].at # "idle" /\ thunk[q].at \notin {"idle", "done"})
                             \/ thunk'[q].at = thunk[q].at,
         \A q \in Pushes : q > pushes => thunk'[q].at = thunk[q].at,
         \A q \in Starters : pushPoll[q].at = "off" => pushPoll'[q].at = "off"
  PROVE  PushStarts'
<1>1. /\ \A q \in Pushes : q \in Starters
      /\ \A i \in Logins : MaxPushes + i \in Starters
  BY Bounds DEF Pushes, Logins, Starters
<1>. QED BY <1>1, PushSoundIs DEF PushStarts

(* What keeps the login, the slice's push and the loops keeps the pushes sound. *)
LEMMA PushesAlone ==
  ASSUME TypeInv, PushSound,
         UNCHANGED <<loggedIn, logins, init, stray, push, pushes, pushPoll, pushPoller>>,
         \A q \in Pushes : thunk'[q].at = thunk[q].at
  PROVE  PushSound'
  BY DEF PushSound, PushInv, PushesAreSound

(* Stopping and cutting leave every push at its stage.                       *)
LEMMA StoppedStages ==
  ASSUME TypeInv, NEW stop \in BOOLEAN, NEW cut \in BOOLEAN, thunk' = ThunksStopped(stop, cut)
  PROVE  \A q \in Pushes : thunk'[q].at = thunk[q].at
  BY DEF ThunksStopped, TypeInv, PushOK, Thunks

(* What the user does keeps the pushes sound.                                *)
LEMMA UserPushes == ASSUME TypeInv, PushSound, User PROVE PushSound'
<1>. USE Bounds DEF authVars, pullVars, pushVars, mainVars
<1>c. "cancelled" # "none" /\ "cancelled" # "remote" OBVIOUS
<1>1. CASE Login
  <2>1. PushesRest BY <1>1, PushMoves DEF Login
  <2>2. PushLoops' /\ (PushesEnd => PushesEnd') /\ \A q \in Starters :
           pushPoll'[q].at = pushPoll[q].at
    BY <2>1, PushMovesSound
  <2>3. logins \in Nat /\ logins' = logins + 1 /\ loggedIn' BY <1>1 DEF Login, TypeInv, AuthOK
  <2>4. init' = [init EXCEPT ![logins + 1] = "asking"]
           /\ init \in [Logins -> {"off", "asking", "done"}]
    BY <1>1 DEF Login, TypeInv, AuthOK
  <2>5. UNCHANGED <<push, stray, pushes, thunk, pushPoll, pushPoller>> BY <1>1 DEF Login
  <2>6. PushStarts
    BY PushSoundIs
  <2>7. \A i \in Logins : i > logins' => init'[i] = "off"
    BY <2>3, <2>4, <2>6 DEF PushStarts, Logins
  <2>8. \A i \in Logins : init'[i] # "done" => init[i] # "done"
    <3>1. logins + 1 \in Logins => init[logins + 1] = "off" BY <2>3, <2>6 DEF PushStarts, Logins
    <3>. QED BY <3>1, <2>4
  <2>9. PushStarts' BY <2>5, <2>6, <2>7, <2>8 DEF PushStarts
  <2>10. push' = "cancelled" => PushesEnd' BY <2>2, <2>5, PushSoundIs
  <2>11. push' = "remote" /\ ~stray' => pushPoller' # 0 BY <2>5, PushSoundIs
  <2>. QED BY <2>2, <2>3, <2>9, <2>10, <2>11, PushSoundIs
<1>2. CASE Logout
  <2>1. PushesAborted BY <1>2, PushMoves DEF Logout
  <2>2. PushLoops' /\ PushesEnd' /\ \A q \in Starters : pushPoll'[q].at = pushPoll[q].at
    BY <2>1, PushMovesSound
  <2>3. \E cut \in BOOLEAN : thunk' = ThunksStopped(TRUE, cut) BY <1>2 DEF Logout
  <2>4. \A q \in Pushes : thunk'[q].at = thunk[q].at BY <2>3, StoppedStages
  <2>5. PushStarts' BY <1>2, <2>2, <2>4, StartsStay DEF Logout
  <2>. QED BY <1>2, <2>2, <2>5, PushSoundIs DEF Logout
<1>3. CASE StartPull BY <1>3, PushesAlone DEF StartPull
<1>4. CASE CancelPull
  <2>1. \A q \in Pushes : thunk'[q].at = thunk[q].at BY <1>4, StoppedStages DEF CancelPull
  <2>. QED BY <1>4, <2>1, PushesAlone DEF CancelPull
<1>5. CASE ClearPull BY <1>5, PushesAlone DEF ClearPull
<1>6. CASE StartPush
  <2>1. PushesRest BY <1>6, PushMoves DEF StartPush
  <2>2. PushLoops' /\ (PushesEnd => PushesEnd') /\ \A q \in Starters :
           pushPoll'[q].at = pushPoll[q].at
    BY <2>1, PushMovesSound
  <2>3. pushes \in Nat /\ pushes' = pushes + 1 /\ loggedIn' = loggedIn /\ loggedIn
    BY <1>6 DEF StartPush, TypeInv, PushOK
  <2>4. thunk \in [Pushes -> Thunks] BY DEF TypeInv, PushOK
  <2>5. \A q \in Pushes : thunk'[q].at = IF q = pushes' THEN "exporting" ELSE thunk[q].at
    BY <1>6, <2>4 DEF StartPush, Thunks
  <2>6. PushStarts BY PushSoundIs
  <2>7. \A q \in Pushes : q > pushes' => thunk'[q].at = "idle"
    BY <2>3, <2>5, <2>6 DEF PushStarts, Pushes
  <2>8. \A q \in Pushes : thunk'[q].at # "done" => thunk[q].at # "done"
    <3>1. pushes' \in Pushes => thunk[pushes'].at = "idle" BY <2>3, <2>6 DEF PushStarts, Pushes
    <3>. QED BY <3>1, <2>5
  <2>9. PushStarts'
    <3>1. UNCHANGED <<logins, init>> BY <1>6 DEF StartPush
    <3>2. \A q \in Pushes : q \in Starters BY DEF Pushes, Starters
    <3>3. \A i \in Logins : MaxPushes + i \in Starters BY DEF Logins, Starters
    <3>. QED BY <3>1, <3>2, <3>3, <2>2, <2>6, <2>7, <2>8 DEF PushStarts
  <2>10. push' = "creatingBackup" BY <1>6 DEF StartPush, SetPush
  <2>. QED BY <2>2, <2>3, <2>9, <2>10, PushSoundIs
<1>7. CASE CancelPush
  <2>1. PushesAborted BY <1>7, PushMoves DEF CancelPush
  <2>2. PushLoops' /\ PushesEnd' /\ \A q \in Starters : pushPoll'[q].at = pushPoll[q].at
    BY <2>1, PushMovesSound
  <2>4. \A q \in Pushes : thunk'[q].at = thunk[q].at BY <1>7, StoppedStages DEF CancelPush
  <2>5. PushStarts' BY <1>7, <2>2, <2>4, StartsStay DEF CancelPush
  <2>. QED BY <1>7, <2>2, <2>5, PushSoundIs DEF CancelPush
<1>8. CASE ClearPush
  <2>1. PushesAborted BY <1>8, PushMoves DEF ClearPush
  <2>2. PushLoops' /\ PushesEnd' /\ \A q \in Starters : pushPoll'[q].at = pushPoll[q].at
    BY <2>1, PushMovesSound
  <2>5. PushStarts' BY <1>8, <2>2, StartsStay DEF ClearPush
  <2>. QED BY <1>8, <2>2, <2>5, PushSoundIs DEF ClearPush
<1>9. CASE PauseUpload BY <1>9, PushesAlone DEF PauseUpload
<1>10. CASE ResumeUpload BY <1>10, PushesAlone DEF ResumeUpload
<1>. QED BY <1>1, <1>2, <1>3, <1>4, <1>5, <1>6, <1>7, <1>8, <1>9, <1>10 DEF User

(* A step of a pull leaves the pushes alone.                                 *)
LEMMA PullStepPushes == ASSUME TypeInv, PushSound, NEW p \in Pulls, PullStep(p) PROVE PushSound'
<1>1. UNCHANGED <<authVars, push, pushVars>>
  BY DEF PullStep, BackupRequested, BackupRefused, PullWakes, PullAnswered, BackupReady,
     Downloads, TooLarge,
         Downloaded, Imported, PullFinishes, PullUnwinds
<1>. QED BY <1>1, PushesAlone DEF authVars, pushVars

(* A step that only makes an upload go on, or a push that polls already.     *)
LEMMA PushesGoOn ==
  ASSUME TypeInv, PushSound, PushesRest, UNCHANGED <<loggedIn, logins, init, stray, pushes>>,
         push' = push \/ push' \notin {"remote", "cancelled"},
         \A q \in Pushes : thunk'[q].at = "done"
            \/ (thunk'[q].at # "idle" /\ thunk[q].at \notin {"idle", "done"})
                             \/ thunk'[q].at = thunk[q].at,
         \A q \in Pushes : q > pushes => thunk'[q].at = thunk[q].at
  PROVE  PushSound'
<1>1. PushLoops' /\ (PushesEnd => PushesEnd') /\ \A q \in Starters :
         pushPoll'[q].at = pushPoll[q].at
  BY PushMovesSound
<1>2. PushStarts' BY <1>1, StartsStay
<1>. QED BY <1>1, <1>2, PushSoundIs DEF PushesRest

(* A push at a stage has been started.                                       *)
LEMMA StagesHaveStarts ==
  ASSUME TypeInv, PushSound, NEW q \in Pushes, thunk[q].at # "idle"
  PROVE  ~(q > pushes)
  BY PushSoundIs DEF PushStarts

(* A step of a push keeps the pushes sound.                                  *)
LEMMA PushStepPushes ==
  ASSUME TypeInv, PushSound, ThunkInv, NEW q \in Pushes, PushStep(q)
  PROVE  PushSound'
<1>. USE Bounds DEF authVars, pullVars, pushVars, mainVars
<1>0. thunk \in [Pushes -> Thunks] BY DEF TypeInv, PushOK
<1>s. thunk[q].at # "idle" /\ ~(q > pushes)
  <2>1. thunk[q].at # "idle"
    BY DEF PushStep, Exported, UploadStarts, UploadEvent, Sending, Uploaded, Initiated, PushUnwinds
  <2>. QED BY <2>1, StagesHaveStarts
<1>1. CASE Exported(q)
  <2>1. PushesRest BY <1>1, PushMoves DEF Exported
  <2>2. \A s \in Pushes : thunk'[s].at = IF s = q THEN "token" ELSE thunk[s].at
    BY <1>0, <1>1 DEF Exported, Thunks
  <2>4. push' = "uploading" BY <1>1 DEF Exported, SetPush
  <2>. QED BY <1>1, <1>s, <2>1, <2>2, <2>4, PushesGoOn DEF Exported
<1>2. CASE UploadStarts(q)
  <2>1. PushesRest BY <1>2, PushMoves DEF UploadStarts
  <2>2. \A s \in Pushes : thunk'[s].at = IF s = q THEN "sending"
                                         ELSE IF s = tus THEN "stuck" ELSE thunk[s].at
    BY <1>0, <1>2 DEF UploadStarts, Thunks
  <2>3. \A s \in Pushes : s = tus => thunk[s].at = "sending" /\ ~(s > pushes)
    BY StagesHaveStarts DEF ThunkInv, Pushes
  <2>4. thunk[q].at = "token" /\ UNCHANGED <<loggedIn, logins, init, stray, push, pushes>>
    BY <1>2 DEF UploadStarts
  <2>5. \A s \in Pushes : s > pushes => thunk'[s].at = thunk[s].at BY <1>s, <2>2, <2>3
  <2>6. \A s \in Pushes : \/ thunk'[s].at = thunk[s].at
                          \/ thunk'[s].at # "idle" /\ thunk[s].at \notin {"idle", "done"}
    BY <2>2, <2>3, <2>4
  <2>. QED BY <2>1, <2>4, <2>5, <2>6, PushesGoOn
<1>3. CASE UploadEvent(q) BY <1>3, PushesAlone DEF UploadEvent
<1>4. CASE Uploaded(q)
  <2>1. PushesRest BY <1>4, PushMoves DEF Uploaded
  <2>2. \A s \in Pushes : thunk'[s].at = IF s = q THEN "initiating" ELSE thunk[s].at
    BY <1>0, <1>4 DEF Uploaded, Thunks
  <2>3. thunk[q].at = "sending" BY <1>4 DEF Uploaded, Sending
  <2>. QED BY <1>4, <1>s, <2>1, <2>2, <2>3, PushesGoOn DEF Uploaded
<1>5. CASE Initiated(q)
  <2>1. \A s \in Pushes : thunk'[s].at = IF s = q THEN "done" ELSE thunk[s].at
    BY <1>0, <1>5 DEF Initiated, ThunkEnded, Thunks
  <2>2. thunk[q].at = "initiating" /\ UNCHANGED <<loggedIn, logins, init, pushes>>
    BY <1>5 DEF Initiated
  <2>3. CASE thunk[q].aborted
    <3>1. PushesRest BY <1>5, <2>3, PushMoves DEF Initiated
    <3>. QED BY <1>5, <1>s, <2>1, <2>2, <2>3, <3>1, PushesGoOn DEF Initiated
  <2>4. CASE ~thunk[q].aborted
    <3>1. q \in Starters /\ pushPoll[q].at = "off"
      BY <2>2, PushSoundIs DEF PushStarts, Pushes, Starters
    <3>2. push' = "remote" /\ StartPushPoller(q) /\ stray' = (stray \/ ~loggedIn)
      BY <1>5, <2>4 DEF Initiated, SetPush
    <3>3. PushBegins(q) \/ (PushesRest /\ (pushPoller # 0 \/ ~loggedIn)) BY <3>1, <3>2, PushMoves
    <3>4. CASE PushesRest /\ (pushPoller # 0 \/ ~loggedIn)
      <4>1. PushLoops' /\ (PushesEnd => PushesEnd') /\ \A r \in Starters :
               pushPoll'[r].at = pushPoll[r].at
        BY <3>4, PushMovesSound
      <4>2. PushStarts' BY <1>s, <2>1, <2>2, <4>1, StartsStay
      <4>3. pushPoller' = pushPoller BY <3>4 DEF PushesRest
      <4>. QED BY <2>2, <3>2, <3>4, <4>1, <4>2, <4>3, PushSoundIs
    <3>5. CASE PushBegins(q)
      <4>1. PushLoops' /\ \A r \in Starters \ {q} : pushPoll[r].at = "off"
               => pushPoll'[r].at = "off"
        BY <3>1, <3>5, PushMovesSound
      <4>2. q # 0 /\ pushPoller' = q /\ loggedIn BY <3>5 DEF PushBegins, Pushes
      <4>3. PushStarts'
        <5>1. \A s \in Pushes : s \in Starters BY DEF Pushes, Starters
        <5>2. \A i \in Logins : MaxPushes + i \in Starters \ {q} BY DEF Logins, Starters, Pushes
        <5>3. PushStarts BY PushSoundIs
        <5>. QED BY <1>s, <2>1, <2>2, <4>1, <5>1, <5>2, <5>3 DEF PushStarts
      <4>. QED BY <2>2, <3>2, <4>1, <4>2, <4>3, PushSoundIs
    <3>. QED BY <3>3, <3>4, <3>5
  <2>. QED BY <2>3, <2>4
<1>6. CASE PushUnwinds(q)
  <2>1. PushesRest BY <1>6, PushMoves DEF PushUnwinds
  <2>2. \A s \in Pushes : thunk'[s].at = IF s = q THEN "done" ELSE thunk[s].at
    BY <1>0, <1>6 DEF PushUnwinds, ThunkEnded, Thunks
  <2>3. push' = push \/ push' \notin {"remote", "cancelled"} BY <1>6 DEF PushUnwinds, Rejected
  <2>. QED BY <1>6, <1>s, <2>1, <2>2, <2>3, PushesGoOn DEF PushUnwinds
<1>. QED BY <1>1, <1>2, <1>3, <1>4, <1>5, <1>6 DEF PushStep

(* An upload event, and the search for pushes after a login.                 *)
LEMMA FoundPushes ==
  ASSUME TypeInv, PushSound,
         EventArrives \/ \E i \in Logins : InitFindsNothing(i) \/ InitFindsPush(i)
  PROVE  PushSound'
<1>. USE Bounds DEF authVars, pullVars, pushVars, mainVars
<1>0. init \in [Logins -> {"off", "asking", "done"}] BY DEF TypeInv, AuthOK
<1>1. CASE EventArrives
  <2>1. PushesRest BY <1>1, PushMoves DEF EventArrives
  <2>2. push' \notin {"remote", "cancelled"}
    BY <1>1 DEF EventArrives, SetPush, TypeInv, MainOK, Uploads
  <2>. QED BY <1>1, <2>1, <2>2, PushesGoOn DEF EventArrives
<1>2. ASSUME NEW i \in Logins, InitFindsNothing(i) \/ InitFindsPush(i) PROVE PushSound'
  <2>1. /\ \A j \in Logins : init'[j] = IF j = i THEN "done" ELSE init[j]
        /\ ~(i > logins) /\ init[i] = "asking"
        /\ UNCHANGED <<loggedIn, logins, pushes, thunk>>
    BY <1>0, <1>2, PushSoundIs DEF InitFindsNothing, InitFindsPush, PushStarts
  <2>2. CASE InitFindsNothing(i)
    <3>1. UNCHANGED <<stray, push, pushPoll, pushPoller>> BY <2>2 DEF InitFindsNothing
    <3>2. PushStarts' BY <2>1, <3>1, PushSoundIs DEF PushStarts
    <3>. QED BY <2>1, <3>1, <3>2, PushSoundIs DEF PushLoops, PushesEnd
  <2>3. CASE InitFindsPush(i)
    <3>1. MaxPushes + i \in Starters /\ pushPoll[MaxPushes + i].at = "off"
      BY <2>1, PushSoundIs DEF PushStarts, Logins, Starters
    <3>2. push' = "remote" /\ StartPushPoller(MaxPushes + i) /\ stray' = (stray \/ ~loggedIn)
      BY <2>3 DEF InitFindsPush, SetPush
    <3>3. PICK r \in Starters : r = MaxPushes + i BY <3>1
    <3>4. PushBegins(r) \/ (PushesRest /\ (pushPoller # 0 \/ ~loggedIn)) BY <3>2, <3>3, PushMoves
    <3>s. /\ PushStarts /\ \A q \in Pushes : q \in Starters \ {r}
          /\ \A j \in Logins : MaxPushes + j \in Starters /\ (j # i => MaxPushes + j # r)
      BY <3>3, PushSoundIs DEF Pushes, Logins, Starters
    <3>5. CASE PushesRest /\ (pushPoller # 0 \/ ~loggedIn)
      <4>1. PushLoops' /\ (PushesEnd => PushesEnd') /\ \A p \in Starters :
               pushPoll'[p].at = pushPoll[p].at
        BY <3>5, PushMovesSound
      <4>2. PushStarts' BY <2>1, <3>s, <4>1 DEF PushStarts
      <4>3. pushPoller' = pushPoller BY <3>5 DEF PushesRest
      <4>. QED BY <2>1, <3>2, <3>5, <4>1, <4>2, <4>3, PushSoundIs
    <3>6. CASE PushBegins(r)
      <4>1. PushLoops' /\ \A p \in Starters \ {r} : pushPoll[p].at = "off"
               => pushPoll'[p].at = "off"
        BY <3>1, <3>3, <3>6, PushMovesSound
      <4>2. r # 0 /\ pushPoller' = r /\ loggedIn BY <3>6 DEF PushBegins, Starters
      <4>3. PushStarts' BY <2>1, <3>s, <4>1 DEF PushStarts
      <4>. QED BY <2>1, <3>2, <4>1, <4>2, <4>3, PushSoundIs
    <3>. QED BY <3>4, <3>5, <3>6
  <2>. QED BY <1>2, <2>2, <2>3
<1>. QED BY <1>1, <1>2

(* A loop of a push keeps the pushes sound.                                  *)
LEMMA PushPollPushes == ASSUME TypeInv, PushSound, NEW r \in Starters, PushPollStep(r)
PROVE PushSound'
<1>. USE Bounds DEF authVars, pullVars, pushVars, mainVars
<1>r. Runs("asking") /\ Runs("stamping") /\ Runs("sleeping") BY DEF Runs
<1>0. /\ Runs(pushPoll[r].at)
      /\ UNCHANGED <<loggedIn, logins, init, stray, pushes, thunk>>
  BY <1>r DEF PushPollStep, PushWakes, PushAnswered, RemoteFinished, PushFinishes, PushPollUnwinds
<1>1. ASSUME PushStops(r) \/ \E s : PushGoes(r, s)
      PROVE  PushLoops' /\ (PushesEnd => PushesEnd') /\ PushStarts'
  <2>1. PushLoops' /\ (PushesEnd => PushesEnd')
          /\ \A q \in Starters : pushPoll[q].at = "off" => pushPoll'[q].at = "off"
    BY <1>1, PushMovesSound
  <2>2. PushStarts' BY <1>0, <2>1, StartsStay
  <2>. QED BY <2>1, <2>2
<1>2. \A s : PushGoes(r, s) => pushPoller' = pushPoller BY DEF PushGoes
<1>3. PushStops(r) => pushPoller' = IF pushPoller = r THEN 0 ELSE pushPoller BY DEF PushStops
<1>4. /\ pushPoll[r].aborted => pushPoller # r
      /\ ~loggedIn \/ push = "cancelled" => pushPoll[r].aborted
      /\ ~pushPoll[r].aborted => pushPoller = r /\ pushPoller # 0
  BY <1>0, PushSoundIs DEF PushLoops, PushesEnd, Starters
<1>5. CASE PushWakes(r)
  <2>1. push' = push BY <1>5 DEF PushWakes
  <2>2. CASE ~pushPoll[r].aborted /\ loggedIn /\ push # "none"
    <3>1. PushGoes(r, "asking") BY <1>0, <1>r, <1>5, <2>2, PushMoves DEF PushWakes
    <3>. QED BY <1>0, <1>1, <1>2, <2>1, <3>1, PushSoundIs
  <2>3. CASE ~(~pushPoll[r].aborted /\ loggedIn /\ push # "none")
    <3>1. PushStops(r) BY <1>0, <1>5, <2>3, PushMoves DEF PushWakes
    <3>2. push = "none" \/ pushPoller # r BY <1>4, <2>3
    <3>. QED BY <1>0, <1>1, <1>3, <2>1, <3>1, <3>2, PushSoundIs
  <2>. QED BY <2>2, <2>3
<1>6. CASE PushAnswered(r)
  <2>1. PushGoes(r, "sleeping") BY <1>0, <1>r, <1>6, PushMoves DEF PushAnswered
  <2>2. push' = "remote" /\ ~pushPoll[r].aborted BY <1>6 DEF PushAnswered, SetPush
  <2>. QED BY <1>0, <1>1, <1>2, <1>4, <2>1, <2>2, PushSoundIs
<1>7. CASE RemoteFinished(r)
  <2>1. PushGoes(r, "stamping") BY <1>0, <1>r, <1>7, PushMoves DEF RemoteFinished
  <2>2. push' = push BY <1>7 DEF RemoteFinished
  <2>. QED BY <1>0, <1>1, <1>2, <2>1, <2>2, PushSoundIs
<1>8. CASE PushFinishes(r)
  <2>1. PushStops(r) BY <1>0, <1>8, PushMoves DEF PushFinishes
  <2>2. push' = "finished" BY <1>8 DEF PushFinishes, SetPush
  <2>. QED BY <1>0, <1>1, <2>1, <2>2, PushSoundIs
<1>9. CASE PushPollUnwinds(r)
  <2>1. PushStops(r) BY <1>0, <1>9, PushMoves DEF PushPollUnwinds
  <2>2. push' = IF pushPoll[r].aborted THEN push ELSE Rejected(push) BY <1>9 DEF PushPollUnwinds
  <2>3. Rejected(push) \notin {"remote", "cancelled"} BY DEF Rejected
  <2>. QED BY <1>0, <1>1, <1>3, <1>4, <2>1, <2>2, <2>3, PushSoundIs
<1>. QED BY <1>5, <1>6, <1>7, <1>8, <1>9 DEF PushPollStep

(* Stages of pushes.                                                         *)

(* What InProgress is after a step.                                          *)
LEMMA InProgressIs ==
  /\ \A q \in Pushes : q \in InProgress <=> thunk[q].at \notin {"idle", "done"}
  /\ \A q \in Pushes : q \in InProgress' <=> thunk'[q].at \notin {"idle", "done"}
  /\ InProgress \subseteq Pushes /\ InProgress' \subseteq Pushes
  BY DEF InProgress

(* What keeps the pushes, the abort callback and the upload keeps them so.   *)
LEMMA ThunksAlone ==
  ASSUME TypeInv, ThunkInv, UNCHANGED <<pushes, thunk, callback, applied, alone, stopped, tus>>
  PROVE  ThunkInv'
  BY DEF ThunkInv, InProgress

(* Stopping or cutting pushes, by a cancel or a logout.                      *)
LEMMA ThunksStop ==
  ASSUME TypeInv, ThunkInv, NEW stop \in BOOLEAN, NEW cut \in BOOLEAN,
         thunk' = ThunksStopped(stop, cut), UNCHANGED <<pushes, applied, alone>>,
         tus' = 0 \/ (tus' = tus /\ ~cut),
         callback' = callback \/ (stop /\ callback' = 0),
         stopped' = stopped \/ (stop /\ stopped' = stopped \cup {q \in alone :
            thunk[q].at = "exporting"})
  PROVE  ThunkInv'
<1>1. /\ \A q \in Pushes : thunk[q] \in Thunks
      /\ applied \subseteq Pushes /\ alone \subseteq Pushes /\ stopped \subseteq Pushes
      /\ tus \in Pushes \cup {0}
  BY Bounds DEF TypeInv, PushOK, MainOK, Pushes
<1>2. \A q \in Pushes : /\ thunk'[q].at = thunk[q].at
                        /\ thunk'[q].aborted = (thunk[q].aborted \/ (stop /\ q = callback))
                        /\ ~cut => thunk'[q].cut = thunk[q].cut
  BY <1>1 DEF ThunksStopped, Thunks
<1>3. InProgress' = InProgress BY <1>2 DEF InProgress
<1>4. tus' # 0 => thunk'[tus'].at = "sending" /\ ~thunk'[tus'].cut
  BY <1>1, <1>2 DEF ThunkInv
<1>5. \A q \in applied' : thunk'[q].at = "done" BY <1>1, <1>2 DEF ThunkInv
<1>6. \A q \in alone' : q <= pushes' BY DEF ThunkInv
<1>7. \A q \in alone' \cap InProgress' : InProgress' = {q} /\ (callback' = q \/ thunk'[q].aborted)
  BY <1>1, <1>2, <1>3 DEF ThunkInv
<1>8. ASSUME NEW q \in stopped'
      PROVE  q \notin applied' /\ (thunk'[q].at = "done"
                \/ (thunk'[q].at = "exporting" /\ thunk'[q].aborted))
  <2>1. CASE q \in stopped BY <1>1, <1>2, <2>1 DEF ThunkInv
  <2>2. CASE q \in alone /\ thunk[q].at = "exporting" /\ stop
    <3>1. q \in alone \cap InProgress BY <1>1, <2>2 DEF InProgress
    <3>. QED BY <1>1, <1>2, <2>2, <3>1 DEF ThunkInv
  <2>. QED BY <1>8, <2>1, <2>2
<1>. QED BY <1>4, <1>5, <1>6, <1>7, <1>8 DEF ThunkInv

(* What the user does.                                                       *)
LEMMA UserThunks == ASSUME TypeInv, PushSound, ThunkInv, User PROVE ThunkInv'
<1>. USE Bounds DEF authVars, pullVars, pushVars, mainVars
<1>1. CASE Login BY <1>1, ThunksAlone DEF Login
<1>2. CASE Logout
  <2>1. PICK cut \in BOOLEAN : /\ thunk' = ThunksStopped(TRUE, cut) /\ callback' = 0
                               /\ tus' = 0 \/ (tus' = tus /\ ~cut)
    BY <1>2 DEF Logout, CancelSyncOperation
  <2>. QED BY <1>2, <2>1, ThunksStop DEF Logout
<1>3. CASE StartPull BY <1>3, ThunksAlone DEF StartPull
<1>4. CASE CancelPull BY <1>4, ThunksStop DEF CancelPull, CancelSyncOperation
<1>5. CASE ClearPull BY <1>5, ThunksAlone DEF ClearPull
<1>6. CASE StartPush
  <2>1. /\ thunk \in [Pushes -> Thunks] /\ pushes \in Nat /\ tus \in Pushes \cup {0}
        /\ applied \subseteq Pushes /\ alone \subseteq Pushes /\ stopped \subseteq Pushes
    BY DEF TypeInv, PushOK, MainOK, Pushes
  <2>2. PICK n \in Pushes : n = pushes + 1 BY <1>6, <2>1 DEF StartPush, Pushes
  <2>3. thunk[n].at = "idle" BY <2>1, <2>2, PushSoundIs DEF PushStarts, Pushes
  <2>4. /\ thunk'[n].at = "exporting" /\ \A q \in Pushes \ {n} : thunk'[q] = thunk[q]
        /\ callback' = n /\ pushes' = n
        /\ alone' = IF InProgress = {} THEN alone \cup {n} ELSE alone \ InProgress
        /\ UNCHANGED <<applied, stopped, tus>>
    BY <1>6, <2>1, <2>2 DEF StartPush, Thunks
  <2>5. /\ n \notin alone /\ n \notin stopped /\ n \notin applied /\ tus # n
    BY <2>1, <2>2, <2>3 DEF ThunkInv, Pushes
  <2>6. InProgress' = InProgress \cup {n} BY <2>4, <2>3, InProgressIs
  <2>7. \A q \in alone' \cap InProgress' : InProgress' = {q} /\ callback' = q
    BY <2>1, <2>4, <2>5, <2>6
  <2>8. \A q \in alone' : q <= pushes' BY <2>1, <2>2, <2>4 DEF ThunkInv, Pushes
  <2>9. tus' # 0 => thunk'[tus'].at = "sending" /\ ~thunk'[tus'].cut
    BY <2>1, <2>4, <2>5 DEF ThunkInv
  <2>. QED BY <2>1, <2>4, <2>5, <2>7, <2>8, <2>9 DEF ThunkInv
<1>7. CASE CancelPush BY <1>7, ThunksStop DEF CancelPush, CancelSyncOperation
<1>8. CASE ClearPush BY <1>8, ThunksAlone DEF ClearPush
<1>9. CASE PauseUpload BY <1>9, ThunksAlone DEF PauseUpload
<1>10. CASE ResumeUpload BY <1>10, ThunksAlone DEF ResumeUpload
<1>. QED BY <1>1, <1>2, <1>3, <1>4, <1>5, <1>6, <1>7, <1>8, <1>9, <1>10 DEF User

(* A push.                                                                   *)
LEMMA PushStepThunks == ASSUME TypeInv, ThunkInv, NEW q \in Pushes, PushStep(q) PROVE ThunkInv'
<1>. USE Bounds DEF authVars, pullVars, pushVars, mainVars
<1>0. /\ thunk \in [Pushes -> Thunks] /\ tus \in Pushes \cup {0} /\ q # 0
      /\ applied \subseteq Pushes /\ alone \subseteq Pushes /\ stopped \subseteq Pushes
  BY DEF TypeInv, PushOK, MainOK, Pushes
<1>1. ASSUME UNCHANGED <<pushes, callback, applied, alone, stopped>>,
             q \notin stopped, q \notin applied, thunk[q].at \notin {"idle", "done"},
             thunk'[q].at \notin {"idle", "done"}, thunk'[q].aborted = thunk[q].aborted,
             \A s \in Pushes \ {q} : \/ thunk'[s] = thunk[s]
                                     \/ /\ s = tus /\ thunk'[s].at = "stuck"
                                        /\ thunk'[s].aborted = thunk[s].aborted,
             tus' # 0 => thunk'[tus'].at = "sending" /\ ~thunk'[tus'].cut
      PROVE  ThunkInv'
  <2>1. tus \in Pushes => thunk[tus].at = "sending" BY <1>0 DEF ThunkInv, Pushes
  <2>2. InProgress' = InProgress BY <1>1, <2>1, InProgressIs
  <2>3. \A s \in stopped \cup applied : thunk'[s] = thunk[s] BY <1>0, <1>1, <2>1 DEF ThunkInv
  <2>4. \A s \in Pushes : thunk'[s].aborted = thunk[s].aborted BY <1>1
  <2>5. \A s \in alone' \cap InProgress' : InProgress' = {s} /\ (callback' = s \/ thunk'[s].aborted)
    BY <1>0, <1>1, <2>2, <2>4 DEF ThunkInv
  <2>. QED BY <1>1, <2>3, <2>5 DEF ThunkInv
<1>2. ASSUME UNCHANGED <<pushes, alone, stopped>>, callback' = 0, q \in InProgress,
             thunk'[q].at = "done",
             \A s \in Pushes \ {q} : thunk'[s] = thunk[s],
             applied' = applied \/ (applied' = applied \cup {q} /\ q \notin stopped),
             tus' = 0 \/ (tus' = tus /\ tus # q)
      PROVE  ThunkInv'
  <2>1. InProgress' = InProgress \ {q} BY <1>2, InProgressIs
  <2>2. \A s \in alone' : s \notin InProgress' BY <1>2, <2>1 DEF ThunkInv
  <2>3. tus' # 0 => thunk'[tus'].at = "sending" /\ ~thunk'[tus'].cut BY <1>0, <1>2 DEF ThunkInv
  <2>4. \A s \in stopped' : s \notin applied' /\
          (thunk'[s].at = "done" \/ (thunk'[s].at = "exporting" /\ thunk'[s].aborted))
    BY <1>0, <1>2 DEF ThunkInv
  <2>5. \A s \in applied' : thunk'[s].at = "done" BY <1>0, <1>2 DEF ThunkInv
  <2>. QED BY <1>2, <2>2, <2>3, <2>4, <2>5 DEF ThunkInv
<1>3. CASE Exported(q)
  <2>1. thunk[q].at = "exporting" /\ ~thunk[q].aborted BY <1>3 DEF Exported
  <2>2. thunk'[q].at = "token" /\ thunk'[q].aborted = thunk[q].aborted
          /\ \A s \in Pushes \ {q} : thunk'[s] = thunk[s]
    BY <1>0, <1>3 DEF Exported, Thunks
  <2>3. q \notin stopped /\ q \notin applied /\ tus # q BY <1>0, <2>1 DEF ThunkInv
  <2>4. UNCHANGED <<pushes, callback, applied, alone, stopped, tus>> BY <1>3 DEF Exported
  <2>5. tus' # 0 => thunk'[tus'].at = "sending" /\ ~thunk'[tus'].cut
    BY <1>0, <2>2, <2>3, <2>4 DEF ThunkInv
  <2>. QED BY <1>1, <2>1, <2>2, <2>3, <2>4, <2>5
<1>4. CASE UploadStarts(q)
  <2>1. thunk[q].at = "token" /\ tus' = q BY <1>4 DEF UploadStarts
  <2>2. /\ thunk'[q].at = "sending" /\ thunk'[q].aborted = thunk[q].aborted /\ ~thunk'[q].cut
        /\ \A s \in Pushes \ {q} : IF s = tus THEN /\ thunk'[s].at = "stuck"
                                                   /\ thunk'[s].aborted = thunk[s].aborted
                                   ELSE thunk'[s] = thunk[s]
    BY <1>0, <1>4 DEF UploadStarts, Thunks
  <2>3. q \notin stopped /\ q \notin applied BY <1>0, <2>1 DEF ThunkInv
  <2>4. UNCHANGED <<pushes, callback, applied, alone, stopped>> BY <1>4 DEF UploadStarts
  <2>. QED BY <1>1, <2>1, <2>2, <2>3, <2>4
<1>5. CASE UploadEvent(q) BY <1>5, ThunksAlone DEF UploadEvent
<1>6. CASE Uploaded(q)
  <2>1. thunk[q].at = "sending" /\ tus' = 0 BY <1>6 DEF Uploaded, Sending
  <2>2. thunk'[q].at = "initiating" /\ thunk'[q].aborted = thunk[q].aborted
          /\ \A s \in Pushes \ {q} : thunk'[s] = thunk[s]
    BY <1>0, <1>6 DEF Uploaded, Thunks
  <2>3. q \notin stopped /\ q \notin applied BY <1>0, <2>1 DEF ThunkInv
  <2>4. UNCHANGED <<pushes, callback, applied, alone, stopped>> BY <1>6 DEF Uploaded
  <2>. QED BY <1>1, <2>1, <2>2, <2>3, <2>4
<1>7. CASE Initiated(q)
  <2>1. thunk[q].at = "initiating" /\ applied' = applied \cup {q} /\ callback' = 0
          /\ UNCHANGED <<pushes, alone, stopped, tus>>
    BY <1>7 DEF Initiated
  <2>2. thunk'[q].at = "done" /\ \A s \in Pushes \ {q} : thunk'[s] = thunk[s]
    BY <1>0, <1>7 DEF Initiated, ThunkEnded
  <2>3. q \notin stopped /\ tus # q BY <1>0, <2>1 DEF ThunkInv
  <2>4. q \in InProgress BY <2>1, InProgressIs
  <2>. QED BY <1>2, <2>1, <2>2, <2>3, <2>4
<1>8. CASE PushUnwinds(q)
  <2>1. /\ thunk[q].at \notin {"idle", "done"} /\ callback' = 0
        /\ UNCHANGED <<pushes, applied, alone, stopped>>
        /\ IF thunk[q].at = "sending" /\ ~thunk[q].cut THEN tus' = 0 ELSE tus' = tus
    BY <1>8 DEF PushUnwinds
  <2>2. thunk'[q].at = "done" /\ \A s \in Pushes \ {q} : thunk'[s] = thunk[s]
    BY <1>0, <1>8 DEF PushUnwinds, ThunkEnded
  <2>3. tus' = 0 \/ (tus' = tus /\ tus # q) BY <1>0, <2>1 DEF ThunkInv
  <2>4. q \in InProgress BY <2>1, InProgressIs
  <2>. QED BY <1>2, <2>1, <2>2, <2>3, <2>4
<1>. QED BY <1>3, <1>4, <1>5, <1>6, <1>7, <1>8 DEF PushStep

(* Every other step leaves the pushes at their stages.                       *)
LEMMA OtherThunks ==
  ASSUME TypeInv, ThunkInv,
         \/ EventArrives \/ \E p \in Pulls : PullStep(p)
         \/ \E i \in Logins : InitFindsNothing(i) \/ InitFindsPush(i)
         \/ \E r \in Starters : PushPollStep(r)
  PROVE  ThunkInv'
<1>1. UNCHANGED <<pushes, thunk, callback, applied, alone, stopped, tus>>
  BY DEF EventArrives, InitFindsNothing, InitFindsPush, PushPollStep, PushWakes, PushAnswered,
         RemoteFinished, PushFinishes, PushPollUnwinds, PullStep, BackupRequested, BackupRefused,
            PullWakes,
         PullAnswered, BackupReady, Downloads, TooLarge, Downloaded, Imported, PullFinishes,
            PullUnwinds,
         ClearSyncOperation, pushVars, mainVars
<1>. QED BY <1>1, ThunksAlone

-----------------------------------------------------------------------------
(* Quitting *)

(* A push that was started at all is one of those counted.                   *)
LEMMA SentIsCounted ==
  ASSUME TypeInv, PushSound, ThunkInv
  PROVE  /\ \A q \in Pushes : thunk[q].at # "idle" => pushes # 0
         /\ tus # 0 => pushes # 0
<1>1. pushes \in Nat /\ tus \in Pushes \cup {0} BY Bounds DEF TypeInv, PushOK, MainOK, Pushes
<1>2. \A q \in Pushes : thunk[q].at # "idle" => pushes # 0
  BY <1>1, PushSoundIs DEF PushStarts, Pushes
<1>. QED BY <1>1, <1>2 DEF ThunkInv

(* A step that leaves the push and the pull as they are.                     *)
LEMMA QuitAlone ==
  ASSUME QuitInv, NoPush' => NoPush, event' = event \/ event' = "none" \/ pushes' # 0,
         pushes' = 0 => pushes = 0,
         NoPush' => push' = push \/ push' \in {"remote", "none"},
         NoPush' /\ push' = "none" =>
           \/ pull'.status \notin {"downloading", "importing"}
           \/ active'
           \/ push = "none" /\ pull'.status = pull.status /\ active' = active
  PROVE  QuitInv'
  BY DEF QuitInv

(* A step of a pull marks it as active.                                      *)
LEMMA PullStepQuit == ASSUME TypeInv, QuitInv, NEW p \in Pulls, PullStep(p) PROVE QuitInv'
<1>. USE DEF authVars, pullVars, pushVars, mainVars
<1>0. UNCHANGED <<push, pushes, pushPoll, event>>
  BY DEF PullStep, BackupRequested, BackupRefused, PullWakes, PullAnswered, BackupReady,
     Downloads, TooLarge,
         Downloaded, Imported, PullFinishes, PullUnwinds
<1>1. NoPush' <=> NoPush BY <1>0 DEF NoPush
<1>2. pull \in PullStates BY DEF TypeInv, PullOK
<1>f. \A s : /\ [pull EXCEPT !.status = s].status = s
             /\ [pull EXCEPT !.backup = p].status = pull.status
  BY <1>2 DEF PullStates
<1>3. \/ pull'.status \notin {"downloading", "importing"}
      \/ active'
      \/ pull'.status = pull.status /\ active' = active
  <2>1. CASE BackupRequested(p) BY <1>f, <2>1 DEF BackupRequested
  <2>2. CASE BackupRefused(p)
    <3>1. pull'.status = Rejected(pull.status) BY <1>f, <2>2 DEF BackupRefused
    <3>. QED BY <3>1 DEF Rejected
  <2>3. CASE PullWakes(p) BY <2>3 DEF PullWakes
  <2>4. CASE PullAnswered(p)
    <3>1. PICK s \in {"in-progress", "failed", "downloading"} : SetPull(s, ctl)
      BY <2>4 DEF PullAnswered
    <3>. QED BY <1>f, <3>1 DEF SetPull, Synced, KeepsQuit, Terminal
  <2>5. CASE BackupReady(p) BY <2>5 DEF BackupReady
  <2>6. CASE Downloads(p) BY <2>6 DEF Downloads, SetPull, Synced, KeepsQuit, Terminal
  <2>7. CASE TooLarge(p) BY <2>7 DEF TooLarge, NoPull
  <2>8. CASE Downloaded(p) BY <2>8 DEF Downloaded, SetPull, Synced, KeepsQuit, Terminal
  <2>9. CASE Imported(p) BY <2>9 DEF Imported
  <2>10. CASE PullFinishes(p) BY <1>f, <2>10 DEF PullFinishes, SetPull
  <2>11. CASE PullUnwinds(p)
    <3>1. pull' = pull \/ pull'.status = Rejected(pull.status) BY <1>f, <2>11 DEF PullUnwinds
    <3>2. active' = active BY <2>11 DEF PullUnwinds
    <3>. QED BY <3>1, <3>2 DEF Rejected
  <2>. QED BY <2>1, <2>2, <2>3, <2>4, <2>5, <2>6, <2>7, <2>8, <2>9, <2>10, <2>11 DEF PullStep
<1>. QED BY <1>0, <1>1, <1>3, QuitAlone

(* What the user does.                                                       *)
LEMMA UserQuit == ASSUME TypeInv, PushSound, ThunkInv, QuitInv, User PROVE QuitInv'
<1>. USE Bounds, QuitAlone DEF authVars, pullVars, pushVars, mainVars
<1>0. pull \in PullStates /\ pushes \in Nat BY DEF TypeInv, PullOK, PushOK
<1>n. UNCHANGED <<pushes, pushPoll>> => (NoPush' <=> NoPush) BY DEF NoPush
<1>s. pushPoll' = [r \in Starters |-> [pushPoll[r] EXCEPT !.aborted = @ \/ r = pushPoller]]
        /\ pushes' = pushes => (NoPush' <=> NoPush)
  BY DEF NoPush, TypeInv, PushOK, PushPolls
<1>1. CASE Login BY <1>1, <1>n DEF Login
<1>2. CASE Logout BY <1>2, <1>s DEF Logout, NoPull, StopPushPoller
<1>3. CASE StartPull BY <1>3, <1>n DEF StartPull
<1>4. CASE CancelPull BY <1>0, <1>4, <1>n DEF CancelPull, PullStates
<1>5. CASE ClearPull BY <1>5, <1>n DEF ClearPull, NoPull
<1>6. CASE StartPush BY <1>0, <1>6 DEF StartPush, QuitInv, NoPush
<1>7. CASE CancelPush BY <1>7, <1>s DEF CancelPush, StopPushPoller, QuitInv
<1>8. CASE ClearPush BY <1>8, <1>s DEF ClearPush, StopPushPoller, Terminal, QuitInv
<1>9. CASE PauseUpload BY <1>9, <1>n, SentIsCounted DEF PauseUpload
<1>10. CASE ResumeUpload BY <1>10, <1>n, SentIsCounted DEF ResumeUpload
<1>. QED BY <1>1, <1>2, <1>3, <1>4, <1>5, <1>6, <1>7, <1>8, <1>9, <1>10 DEF User

(* Pushes.                                                                   *)
LEMMA PushQuit ==
  ASSUME TypeInv, PushSound, ThunkInv, QuitInv,
         \/ EventArrives \/ \E q \in Pushes : PushStep(q)
         \/ \E i \in Logins : InitFindsNothing(i) \/ InitFindsPush(i)
         \/ \E r \in Starters : PushPollStep(r)
  PROVE  QuitInv'
<1>. USE Bounds DEF authVars, pullVars, pushVars, mainVars
<1>1. CASE EventArrives BY <1>1 DEF EventArrives, QuitInv, NoPush
<1>2. ASSUME NEW q \in Pushes, PushStep(q) PROVE QuitInv'
  <2>1. thunk[q].at # "idle" /\ pushes' = pushes
    BY <1>2 DEF PushStep, Exported, UploadStarts, UploadEvent, Sending, Uploaded, Initiated,
       PushUnwinds
  <2>2. pushes' # 0 BY <2>1, SentIsCounted
  <2>. QED BY <2>2 DEF QuitInv, NoPush
<1>3. ASSUME NEW i \in Logins, InitFindsNothing(i) PROVE QuitInv'
  BY <1>3 DEF InitFindsNothing, QuitInv, NoPush
<1>4. ASSUME NEW i \in Logins, InitFindsPush(i) PROVE QuitInv'
  BY <1>4 DEF InitFindsPush, SetPush, QuitInv
<1>5. ASSUME NEW r \in Starters, PushPollStep(r) PROVE QuitInv'
  <2>1. pushPoll'[r].at # "off" /\ UNCHANGED <<event, pushes>>
    BY <1>5 DEF PushPollStep, PushWakes, PushAnswered, RemoteFinished, PushFinishes,
       PushPollUnwinds, EndPush,
                PushEnded, TypeInv, PushOK, PushPolls
  <2>. QED BY <2>1 DEF QuitInv, NoPush
<1>. QED BY <1>1, <1>2, <1>3, <1>4, <1>5

IInv == TypeInv /\ PullSound /\ PushSound /\ ThunkInv /\ QuitInv

(* At first nothing runs.                                                    *)
LEMMA InitInv == Init => IInv
<1>. SUFFICES ASSUME Init PROVE IInv OBVIOUS
<1>. USE DEF Init
<1>0. ~Runs("off") /\ ~Pollable(NoPull) BY DEF Runs, Pollable, NoPull
<1>1. PullSound BY <1>0 DEF PullSound, PullInv, PullsAreSound, NoPull
<1>2. PushSound
  <2>1. \A i \in Logins : MaxPushes + i \in Starters BY Bounds DEF Logins, Starters
  <2>2. \A q \in Pushes : q \in Starters BY Bounds DEF Pushes, Starters
  <2>. QED BY <1>0, <2>1, <2>2 DEF PushSound, PushInv, PushesAreSound
<1>3. ThunkInv BY DEF ThunkInv, InProgress
<1>4. QuitInv BY DEF QuitInv, NoPull
<1>. QED BY <1>1, <1>2, <1>3, <1>4, InitTypes DEF IInv

(* A step of a push leaves the pulls alone.                                  *)
LEMMA OtherPulls ==
  ASSUME TypeInv, PullSound,
         \/ EventArrives \/ \E q \in Pushes : PushStep(q)
         \/ \E i \in Logins : InitFindsNothing(i) \/ InitFindsPush(i)
         \/ \E r \in Starters : PushPollStep(r)
  PROVE  PullSound'
<1>1. UNCHANGED <<loggedIn, pull, pullVars>>
  BY DEF EventArrives, InitFindsNothing, InitFindsPush, PushPollStep, PushWakes, PushAnswered,
         RemoteFinished, PushFinishes, PushPollUnwinds, PushStep, Exported, UploadStarts,
            UploadEvent,
         Uploaded, Initiated, PushUnwinds, authVars
<1>. QED BY <1>1, PullsAlone DEF pullVars

(* Every step keeps the inductive invariant.                                 *)
LEMMA StepInv == ASSUME IInv, [Next]_vars PROVE IInv'
<1>. USE DEF IInv
<1>0. TypeInv' BY TypeStep
<1>1. CASE UNCHANGED vars
  <2>1. UNCHANGED <<loggedIn, logins, init, stray, pull, push, pulls, post, pullPoll, pullPoller,
           pushes, thunk,
                    pushPoll, pushPoller, callback, applied, alone, stopped, tus, event, active>>
    BY <1>1 DEF vars, authVars, pullVars, pushVars, mainVars
  <2>2. PullSound' BY <2>1, PullsAlone
  <2>3. PushSound' BY <2>1, PushesAlone
  <2>4. ThunkInv' BY <2>1, ThunksAlone
  <2>5. QuitInv' BY <2>1 DEF QuitInv, NoPush
  <2>. QED BY <1>0, <2>2, <2>3, <2>4, <2>5
<1>2. CASE User BY <1>0, <1>2, UserPulls, UserPushes, UserThunks, UserQuit
<1>3. CASE \E p \in Pulls : PullStep(p)
  BY <1>0, <1>3, PullStepPulls, PullStepPushes, OtherThunks, PullStepQuit
<1>4. CASE \/ EventArrives
           \/ \E i \in Logins : InitFindsNothing(i) \/ InitFindsPush(i)
  BY <1>0, <1>4, OtherPulls, FoundPushes, OtherThunks, PushQuit
<1>5. CASE \E q \in Pushes : PushStep(q)
  BY <1>0, <1>5, OtherPulls, PushStepPushes, PushStepThunks, PushQuit
<1>6. CASE \E r \in Starters : PushPollStep(r)
  BY <1>0, <1>6, OtherPulls, PushPollPushes, OtherThunks, PushQuit
<1>. QED BY <1>1, <1>2, <1>3, <1>4, <1>5, <1>6 DEF Next

(* It holds whatever the user, the server and the network do.               *)
LEMMA Invariant == Spec => []IInv
<1>. QED BY InitInv, StepInv, PTL DEF Spec

-----------------------------------------------------------------------------
(* Pulls and pushes: the theorems                                            *)

(* The variables keep their types.                                           *)
THEOREM TypeCorrect == Spec => []TypeOK
<1>1. IInv => TypeOK BY TypesAre DEF IInv
<1>. QED BY <1>1, Invariant, PTL

(* However pulls, pushes, cancels, logouts and logins interleave, a poll     *)
(* loop that runs and was not aborted is the one in the map, a cancel or a   *)
(* logout has aborted them all, and what waits for the server is polled.     *)
THEOREM PollsAreSoundHolds == Spec => []PollsAreSound
<1>1. IInv => PollsAreSound
  BY DEF IInv, PullSound, PushSound, PullsAreSound, PushesAreSound, PollsAreSound,
     PollersAreReachable, StoppedStaysStopped, PollableIsPolled
<1>. QED BY <1>1, Invariant, PTL

(* However they interleave, a push that was cancelled during its export is   *)
(* not applied unless another push of the pair overlapped it, and while the  *)
(* machine only pulls the main process knows that it does.                   *)
THEOREM MainFollowsWindowHolds == Spec => []MainFollowsWindow
<1>1. IInv => CancelledExportIsNotApplied BY DEF IInv, ThunkInv, CancelledExportIsNotApplied
<1>2. IInv => QuitAsksDuringPull BY DEF IInv, QuitInv, NoPush, QuitAsksDuringPull
<1>3. IInv => MainFollowsWindow BY <1>1, <1>2 DEF MainFollowsWindow
<1>. QED BY <1>3, Invariant, PTL

-----------------------------------------------------------------------------
(* A remote session: the inductive invariant                                 *)

(* The awaits of the loop, what handleTurn knows of a turn, and the status   *)
(* line.                                                                     *)
Steps == Over \union {"attach", "bad token", "crashed", "read", "clear", "ack", "notice", "turn",
                      "forget", "expired", "drain", "replace", "stop", "write", "chunk",
                      "last chunk"}
Turns == [resumes : BOOLEAN, status : {None, "success", "error", "timeout", "spawn_error"},
          reply : Replies, crash : BOOLEAN, session : {"none", "new", "same"}, absorb : BOOLEAN,
          absorbed : BOOLEAN, thrown : BOOLEAN, posted : BOOLEAN]
Lines == [known : BOOLEAN, active : BOOLEAN, pending : BOOLEAN, timer : BOOLEAN, cooling : BOOLEAN,
          disposed : BOOLEAN, shown : {"none", "step", "reply", "summary"}, sure : BOOLEAN]

(* What the loop is at, who said goodbye, and whose child runs.              *)
AtInv ==
  /\ at \in Steps
  /\ child \in {"none", "runs", "deaf", "killed"} /\ (Alive <=> At("turn"))
  /\ goodbyes \in {0, 1} /\ (At("done") => goodbyes = 1)

(* What it has polled.                                                       *)
BatchInv ==
  /\ batch \in Nat /\ polled \in Nat /\ polled + batch <= MaxMessages
  /\ (At("message") => batch > 0) /\ (At("attach") => polled = 0)

(* Whose messages, and who may have told it to detach.                       *)
ChatInv ==
  /\ chat \in Chats \union {None} /\ saved \in Chats \union {None}
  /\ requested \in BOOLEAN /\ aborted \in BOOLEAN /\ (aborted => requested)

BoundInv == events \in 0..MaxEvents /\ faults \in 0..MaxFaults

(* Photos are queued while a child runs, and sent before what follows.       *)
PhotoInv ==
  /\ photos \in Nat
  /\ at \notin {"turn", "forget", "expired", "drain"} => photos = 0

(* What a turn knows, and what can answer a message.                         *)
TurnInv ==
  /\ turn \in Turns /\ (turn.absorb => turn.reply = "short")
  /\ told \subseteq {"dropped", "ack", "notice", "photo", "edit", "chunk"}

(* A turn tells the reply at most once: edited in, or posted after a turn    *)
(* that edited nothing in.  What the turn notes of it is what happened.      *)
AnswerInv ==
  /\ turn.absorbed <=> "edit" \in told
  /\ turn.posted => "photo" \in told
  /\ at \in {"read", "turn", "forget", "expired", "drain", "replace"} => told \subseteq {"photo"}
  /\ at \in {"stop", "write"} => "chunk" \notin told
  /\ at \in {"chunk", "last chunk"} => "edit" \notin told
  /\ "edit" \in told => "chunk" \notin told
  /\ at \in {"poll", "sleep", "message"} /\ polled > 0 => told # {}

(* The status line is still while no turn uses it.                           *)
LineInv ==
  /\ line \in Lines
  /\ ~(line.active /\ line.timer) /\ (line.timer => line.pending /\ ~line.disposed)
  /\ line.shown = "step" => line.known
  /\ at \in {"read", "turn", "forget", "expired", "drain"} => ~line.disposed
  /\ at \in {"replace", "stop"} => line.disposed
  /\ at \notin {"turn", "forget", "expired", "drain", "replace", "stop"} =>
       ~line.active /\ ~line.timer /\ (line.sure => line.shown # "step")

SessionInv ==
  AtInv /\ BatchInv /\ ChatInv /\ BoundInv /\ PhotoInv /\ TurnInv /\ AnswerInv /\ LineInv

-----------------------------------------------------------------------------
(* A remote session: every step keeps it                                     *)

(* At first the loop is at its first await and no message was polled.        *)
LEMMA SessionStarts == SessionInit => SessionInv
<1> SUFFICES ASSUME SessionInit PROVE SessionInv
  OBVIOUS
<1> USE SessionAssumption DEF SessionInit, At, Alive
<1>1. AtInv BY DEF AtInv, Steps, Over
<1>2. BatchInv BY DEF BatchInv
<1>3. ChatInv BY DEF ChatInv
<1>4. BoundInv BY DEF BoundInv
<1>5. PhotoInv BY DEF PhotoInv
<1>6. TurnInv BY DEF TurnInv, Turns, NoTurn, Replies
<1>7. AnswerInv BY DEF AnswerInv, NoTurn
<1>8. LineInv BY DEF LineInv, Lines, NoLine
<1>. QED BY <1>1, <1>2, <1>3, <1>4, <1>5, <1>6, <1>7, <1>8 DEF SessionInv

(* The agent says goodbye if it has not yet.                                 *)
LEMMA Announced ==
  ASSUME AtInv, AnnounceDetach
  PROVE  goodbyes' = 1 /\ goodbyes' \in {0, 1}
BY DEF AtInv, AnnounceDetach

(* The queue of photos grows while a child runs.                             *)
LEMMA OnePhotoMore ==
  ASSUME PhotoInv, at = "turn", at' = at, photos' = photos + 1
  PROVE  PhotoInv'
BY DEF PhotoInv

(* It shrinks as one of them is sent or lost.                                *)
LEMMA OnePhotoLess ==
  ASSUME PhotoInv, photos > 0, at' = at, photos' = photos - 1
  PROVE  PhotoInv'
BY DEF PhotoInv

(* A turn whose child is spawned, or cannot be, begins anew.                 *)
LEMMA TurnOfSpawn ==
  ASSUME turn \in Turns, NEW resumes \in BOOLEAN, Spawns(resumes)
  PROVE  turn' \in Turns /\ turn'.absorb = FALSE
<1>1. turn.posted \in BOOLEAN BY DEF Turns
<1>2. \/ turn' = [NoTurn EXCEPT !.resumes = resumes, !.posted = turn.posted]
      \/ turn' = [NoTurn EXCEPT !.status = "spawn_error", !.posted = turn.posted]
  BY DEF Spawns
<1>. QED BY <1>1, <1>2 DEF Turns, NoTurn, Replies

(* What the end of a child leaves of a turn.                                 *)
LEMMA TurnOfExit ==
  ASSUME turn \in Turns, NEW session \in {"none", "new", "same"},
         NEW end \in {"success", "error", "timeout"},
         NEW reply \in Replies, NEW crash \in BOOLEAN, NEW absorb \in BOOLEAN,
         turn' = [turn EXCEPT !.session = session, !.status = end, !.reply = reply,
            !.crash = crash, !.absorb = absorb]
  PROVE  turn' \in Turns /\ turn'.absorb = absorb /\ turn'.reply = reply
BY DEF Turns

(* Messages are polled while there is room.                                  *)
LEMMA MessagesPolled ==
  ASSUME BatchInv, NEW b \in 1..(MaxMessages - polled), batch' = b, polled' = polled,
         at' = "message"
  PROVE  BatchInv'
BY SessionAssumption DEF BatchInv, At

(* Nothing is to be answered before the first message.                       *)
LEMMA NothingPolled ==
  ASSUME polled' = 0
  PROVE  ~(polled' > 0)
OBVIOUS

(* What the loop is at, and who said goodbye, after any step.                *)
LEMMA AtStep ==
  ASSUME SessionInv, [SessionNext]_sessionVars
  PROVE  AtInv'
<1> USE SessionAssumption DEF SessionInv, At, Alive, Goes, Awaits, Proceeds, loop, chats, bound,
       Fault, Quiet, Tells, Steps, Over, AtInv
<1>1. CASE Attach BY <1>1 DEF Attach
<1>2. CASE Poll BY <1>2 DEF Poll
<1>3. CASE Sleep BY <1>3 DEF Sleep
<1>4. CASE TellBadToken BY <1>4 DEF TellBadToken
<1>5. CASE Bye BY <1>5, Announced DEF Bye
<1>6. CASE Message BY <1>6 DEF Message
<1>7. CASE ClearForNew BY <1>7 DEF ClearForNew
<1>8. CASE AckNew BY <1>8 DEF AckNew
<1>9. CASE Notice BY <1>9 DEF Notice
<1>10. CASE ReadState BY <1>10 DEF ReadState, Spawns
<1>11. CASE ForgetSession BY <1>11 DEF ForgetSession
<1>12. CASE RunAgain BY <1>12 DEF RunAgain, Spawns
<1>13. CASE Drain BY <1>13 DEF Drain, Drained
<1>14. CASE ReplaceWithReply BY <1>14 DEF ReplaceWithReply, Settled, FinalEdit
<1>15. CASE Stop BY <1>15 DEF Stop, Settled, FinalEdit
<1>16. CASE WriteSession BY <1>16 DEF WriteSession, Answers
<1>17. CASE PostChunk BY <1>17 DEF PostChunk
<1>18. CASE PostSettles BY <1>18 DEF PostSettles
<1>19. CASE TimerFires BY <1>19 DEF TimerFires
<1>20. CASE PhotoSettles BY <1>20 DEF PhotoSettles
<1>21. CASE ChildExits BY <1>21 DEF ChildExits, Exits
<1>22. CASE SessionIsStale BY <1>22 DEF SessionIsStale, Exits
<1>23. CASE Detach
  <2>1. goodbyes' = 1 /\ goodbyes' \in {0, 1} /\ at' = at BY <1>23, Announced DEF Detach
  <2>2. (Alive <=> At("turn"))' /\ child' \in {"none", "runs", "deaf", "killed"}
    BY <1>23, <2>1 DEF Detach
  <2>. QED BY <2>1, <2>2
<1>24. CASE TurnTimesOut BY <1>24 DEF TurnTimesOut
<1>25. CASE WaitTimesOut BY <1>25 DEF WaitTimesOut
<1>26. CASE CooldownEnds BY <1>26 DEF CooldownEnds
<1>27. CASE ProgressEvent BY <1>27 DEF ProgressEvent
<1>28. CASE PhotoEvent BY <1>28 DEF PhotoEvent
<1>29. CASE UNCHANGED sessionVars BY <1>29 DEF sessionVars
<1>. QED BY <1>1, <1>2, <1>3, <1>4, <1>5, <1>6, <1>7, <1>8, <1>9, <1>10, <1>11, <1>12, <1>13,
        <1>14, <1>15, <1>16, <1>17, <1>18, <1>19, <1>20, <1>21, <1>22, <1>23, <1>24, <1>25, <1>26,
        <1>27, <1>28, <1>29 DEF SessionNext, Works, Answered, Ends

(* What was polled, after any step.                                          *)
LEMMA BatchStep ==
  ASSUME SessionInv, [SessionNext]_sessionVars
  PROVE  BatchInv'
<1> USE SessionAssumption DEF SessionInv, At, Alive, Goes, Awaits, Proceeds, loop, chats, bound,
       Fault, Quiet, Tells, Steps, Over, BatchInv
<1>1. CASE Attach BY <1>1 DEF Attach
<1>2. CASE Poll
  <2>1. CASE at' = "message"
    <3>1. PICK b \in 1..(MaxMessages - polled) : batch' = b BY <1>2, <2>1 DEF Poll
    <3>2. polled' = polled BY <1>2 DEF Poll
    <3>. QED BY <2>1, <3>1, <3>2, MessagesPolled
  <2>2. CASE at' # "message" BY <1>2, <2>2 DEF Poll
  <2>. QED BY <2>1, <2>2
<1>3. CASE Sleep BY <1>3 DEF Sleep
<1>4. CASE TellBadToken BY <1>4 DEF TellBadToken
<1>5. CASE Bye BY <1>5 DEF Bye, AnnounceDetach
<1>6. CASE Message BY <1>6 DEF Message
<1>7. CASE ClearForNew BY <1>7 DEF ClearForNew
<1>8. CASE AckNew BY <1>8 DEF AckNew
<1>9. CASE Notice BY <1>9 DEF Notice
<1>10. CASE ReadState BY <1>10 DEF ReadState, Spawns
<1>11. CASE ForgetSession BY <1>11 DEF ForgetSession
<1>12. CASE RunAgain BY <1>12 DEF RunAgain, Spawns
<1>13. CASE Drain BY <1>13 DEF Drain, Drained
<1>14. CASE ReplaceWithReply BY <1>14 DEF ReplaceWithReply, Settled, FinalEdit
<1>15. CASE Stop BY <1>15 DEF Stop, Settled, FinalEdit
<1>16. CASE WriteSession BY <1>16 DEF WriteSession, Answers
<1>17. CASE PostChunk BY <1>17 DEF PostChunk
<1>18. CASE PostSettles BY <1>18 DEF PostSettles
<1>19. CASE TimerFires BY <1>19 DEF TimerFires
<1>20. CASE PhotoSettles BY <1>20 DEF PhotoSettles
<1>21. CASE ChildExits BY <1>21 DEF ChildExits, Exits
<1>22. CASE SessionIsStale BY <1>22 DEF SessionIsStale, Exits
<1>23. CASE Detach BY <1>23 DEF Detach, AnnounceDetach
<1>24. CASE TurnTimesOut BY <1>24 DEF TurnTimesOut
<1>25. CASE WaitTimesOut BY <1>25 DEF WaitTimesOut
<1>26. CASE CooldownEnds BY <1>26 DEF CooldownEnds
<1>27. CASE ProgressEvent BY <1>27 DEF ProgressEvent
<1>28. CASE PhotoEvent BY <1>28 DEF PhotoEvent
<1>29. CASE UNCHANGED sessionVars BY <1>29 DEF sessionVars
<1>. QED BY <1>1, <1>2, <1>3, <1>4, <1>5, <1>6, <1>7, <1>8, <1>9, <1>10, <1>11, <1>12, <1>13,
        <1>14, <1>15, <1>16, <1>17, <1>18, <1>19, <1>20, <1>21, <1>22, <1>23, <1>24, <1>25, <1>26,
        <1>27, <1>28, <1>29 DEF SessionNext, Works, Answered, Ends

(* Whose messages they are, after any step.                                  *)
LEMMA ChatStep ==
  ASSUME SessionInv, [SessionNext]_sessionVars
  PROVE  ChatInv'
<1> USE SessionAssumption DEF SessionInv, At, Alive, Goes, Awaits, Proceeds, loop, chats, bound,
       Fault, Quiet, Tells, Steps, Over, ChatInv
<1>1. CASE Attach BY <1>1 DEF Attach
<1>2. CASE Poll BY <1>2 DEF Poll
<1>3. CASE Sleep BY <1>3 DEF Sleep
<1>4. CASE TellBadToken BY <1>4 DEF TellBadToken
<1>5. CASE Bye BY <1>5 DEF Bye, AnnounceDetach
<1>6. CASE Message BY <1>6 DEF Message
<1>7. CASE ClearForNew BY <1>7 DEF ClearForNew
<1>8. CASE AckNew BY <1>8 DEF AckNew
<1>9. CASE Notice BY <1>9 DEF Notice
<1>10. CASE ReadState BY <1>10 DEF ReadState, Spawns
<1>11. CASE ForgetSession BY <1>11 DEF ForgetSession
<1>12. CASE RunAgain BY <1>12 DEF RunAgain, Spawns
<1>13. CASE Drain BY <1>13 DEF Drain, Drained
<1>14. CASE ReplaceWithReply BY <1>14 DEF ReplaceWithReply, Settled, FinalEdit
<1>15. CASE Stop BY <1>15 DEF Stop, Settled, FinalEdit
<1>16. CASE WriteSession BY <1>16 DEF WriteSession, Answers
<1>17. CASE PostChunk
  <2>1. UNCHANGED <<chat, saved, aborted>> BY <1>17 DEF PostChunk
  <2>2. requested' \in {requested, TRUE} BY <1>17 DEF PostChunk
  <2>. QED BY <2>1, <2>2
<1>18. CASE PostSettles BY <1>18 DEF PostSettles
<1>19. CASE TimerFires BY <1>19 DEF TimerFires
<1>20. CASE PhotoSettles BY <1>20 DEF PhotoSettles
<1>21. CASE ChildExits BY <1>21 DEF ChildExits, Exits
<1>22. CASE SessionIsStale BY <1>22 DEF SessionIsStale, Exits
<1>23. CASE Detach BY <1>23 DEF Detach, AnnounceDetach
<1>24. CASE TurnTimesOut BY <1>24 DEF TurnTimesOut
<1>25. CASE WaitTimesOut BY <1>25 DEF WaitTimesOut
<1>26. CASE CooldownEnds BY <1>26 DEF CooldownEnds
<1>27. CASE ProgressEvent BY <1>27 DEF ProgressEvent
<1>28. CASE PhotoEvent BY <1>28 DEF PhotoEvent
<1>29. CASE UNCHANGED sessionVars BY <1>29 DEF sessionVars
<1>. QED BY <1>1, <1>2, <1>3, <1>4, <1>5, <1>6, <1>7, <1>8, <1>9, <1>10, <1>11, <1>12, <1>13,
        <1>14, <1>15, <1>16, <1>17, <1>18, <1>19, <1>20, <1>21, <1>22, <1>23, <1>24, <1>25, <1>26,
        <1>27, <1>28, <1>29 DEF SessionNext, Works, Answered, Ends

(* Bounds are kept, by any step.                                             *)
LEMMA BoundStep ==
  ASSUME SessionInv, [SessionNext]_sessionVars
  PROVE  BoundInv'
<1> USE SessionAssumption DEF SessionInv, At, Alive, Goes, Awaits, Proceeds, loop, chats, bound,
       Quiet, Tells, Steps, Over, BoundInv
<1>f. Fault => faults' \in 0..MaxFaults BY DEF Fault
<1>1. CASE Attach BY <1>f, <1>1 DEF Attach
<1>2. CASE Poll BY <1>f, <1>2 DEF Poll
<1>3. CASE Sleep BY <1>f, <1>3 DEF Sleep
<1>4. CASE TellBadToken BY <1>f, <1>4 DEF TellBadToken
<1>5. CASE Bye BY <1>f, <1>5 DEF Bye, AnnounceDetach
<1>6. CASE Message BY <1>f, <1>6 DEF Message
<1>7. CASE ClearForNew BY <1>f, <1>7 DEF ClearForNew
<1>8. CASE AckNew BY <1>f, <1>8 DEF AckNew
<1>9. CASE Notice BY <1>f, <1>9 DEF Notice
<1>10. CASE ReadState BY <1>f, <1>10 DEF ReadState, Spawns
<1>11. CASE ForgetSession BY <1>f, <1>11 DEF ForgetSession
<1>12. CASE RunAgain BY <1>f, <1>12 DEF RunAgain, Spawns
<1>13. CASE Drain BY <1>f, <1>13 DEF Drain, Drained
<1>14. CASE ReplaceWithReply BY <1>f, <1>14 DEF ReplaceWithReply, Settled, FinalEdit
<1>15. CASE Stop BY <1>f, <1>15 DEF Stop, Settled, FinalEdit
<1>16. CASE WriteSession BY <1>f, <1>16 DEF WriteSession, Answers
<1>17. CASE PostChunk BY <1>f, <1>17 DEF PostChunk
<1>18. CASE PostSettles BY <1>f, <1>18 DEF PostSettles
<1>19. CASE TimerFires BY <1>f, <1>19 DEF TimerFires
<1>20. CASE PhotoSettles BY <1>f, <1>20 DEF PhotoSettles
<1>21. CASE ChildExits BY <1>f, <1>21 DEF ChildExits, Exits
<1>22. CASE SessionIsStale BY <1>f, <1>22 DEF SessionIsStale, Exits
<1>23. CASE Detach BY <1>f, <1>23 DEF Detach, AnnounceDetach
<1>24. CASE TurnTimesOut BY <1>f, <1>24 DEF TurnTimesOut
<1>25. CASE WaitTimesOut BY <1>f, <1>25 DEF WaitTimesOut
<1>26. CASE CooldownEnds BY <1>f, <1>26 DEF CooldownEnds
<1>27. CASE ProgressEvent BY <1>f, <1>27 DEF ProgressEvent
<1>28. CASE PhotoEvent BY <1>f, <1>28 DEF PhotoEvent
<1>29. CASE UNCHANGED sessionVars BY <1>29 DEF sessionVars
<1>. QED BY <1>1, <1>2, <1>3, <1>4, <1>5, <1>6, <1>7, <1>8, <1>9, <1>10, <1>11, <1>12, <1>13,
        <1>14, <1>15, <1>16, <1>17, <1>18, <1>19, <1>20, <1>21, <1>22, <1>23, <1>24, <1>25, <1>26,
        <1>27, <1>28, <1>29 DEF SessionNext, Works, Answered, Ends

(* The queue of photos, after any step.                                      *)
LEMMA PhotoStep ==
  ASSUME SessionInv, [SessionNext]_sessionVars
  PROVE  PhotoInv'
<1> USE SessionAssumption DEF SessionInv, At, Alive, Goes, Awaits, Proceeds, loop, chats, bound,
       Fault, Quiet, Tells, Steps, Over, AtInv, PhotoInv
<1>1. CASE Attach BY <1>1 DEF Attach
<1>2. CASE Poll BY <1>2 DEF Poll
<1>3. CASE Sleep BY <1>3 DEF Sleep
<1>4. CASE TellBadToken BY <1>4 DEF TellBadToken
<1>5. CASE Bye BY <1>5 DEF Bye, AnnounceDetach
<1>6. CASE Message BY <1>6 DEF Message
<1>7. CASE ClearForNew BY <1>7 DEF ClearForNew
<1>8. CASE AckNew BY <1>8 DEF AckNew
<1>9. CASE Notice BY <1>9 DEF Notice
<1>10. CASE ReadState BY <1>10 DEF ReadState, Spawns
<1>11. CASE ForgetSession BY <1>11 DEF ForgetSession
<1>12. CASE RunAgain BY <1>12 DEF RunAgain, Spawns
<1>13. CASE Drain BY <1>13 DEF Drain, Drained
<1>14. CASE ReplaceWithReply BY <1>14 DEF ReplaceWithReply, Settled, FinalEdit
<1>15. CASE Stop BY <1>15 DEF Stop, Settled, FinalEdit
<1>16. CASE WriteSession BY <1>16 DEF WriteSession, Answers
<1>17. CASE PostChunk BY <1>17 DEF PostChunk
<1>18. CASE PostSettles BY <1>18 DEF PostSettles
<1>19. CASE TimerFires BY <1>19 DEF TimerFires
<1>20. CASE PhotoSettles
  <2>1. photos' = photos - 1 /\ photos > 0 /\ at' = at BY <1>20 DEF PhotoSettles
  <2>. QED BY <2>1, OnePhotoLess
<1>21. CASE ChildExits BY <1>21 DEF ChildExits, Exits
<1>22. CASE SessionIsStale BY <1>22 DEF SessionIsStale, Exits
<1>23. CASE Detach BY <1>23 DEF Detach, AnnounceDetach
<1>24. CASE TurnTimesOut BY <1>24 DEF TurnTimesOut
<1>25. CASE WaitTimesOut BY <1>25 DEF WaitTimesOut
<1>26. CASE CooldownEnds BY <1>26 DEF CooldownEnds
<1>27. CASE ProgressEvent BY <1>27 DEF ProgressEvent
<1>28. CASE PhotoEvent
  <2>1. photos' = photos + 1 /\ at' = at /\ at = "turn" BY <1>28 DEF PhotoEvent
  <2>. QED BY <2>1, OnePhotoMore
<1>29. CASE UNCHANGED sessionVars BY <1>29 DEF sessionVars
<1>. QED BY <1>1, <1>2, <1>3, <1>4, <1>5, <1>6, <1>7, <1>8, <1>9, <1>10, <1>11, <1>12, <1>13,
        <1>14, <1>15, <1>16, <1>17, <1>18, <1>19, <1>20, <1>21, <1>22, <1>23, <1>24, <1>25, <1>26,
        <1>27, <1>28, <1>29 DEF SessionNext, Works, Answered, Ends

(* What the turn knows, after any step.                                      *)
LEMMA TurnStep ==
  ASSUME SessionInv, [SessionNext]_sessionVars
  PROVE  TurnInv'
<1> USE SessionAssumption DEF SessionInv, At, Alive, Goes, Awaits, Proceeds, loop, chats, bound,
       Fault, Quiet, Tells, TurnInv
<1>1. CASE Attach BY <1>1 DEF Attach
<1>2. CASE Poll BY <1>2 DEF Poll
<1>3. CASE Sleep BY <1>3 DEF Sleep
<1>4. CASE TellBadToken BY <1>4 DEF TellBadToken
<1>5. CASE Bye BY <1>5 DEF Bye, AnnounceDetach
<1>6. CASE Message BY <1>6 DEF Message, Turns, Replies, NoTurn
<1>7. CASE ClearForNew BY <1>7 DEF ClearForNew
<1>8. CASE AckNew BY <1>8 DEF AckNew
<1>9. CASE Notice BY <1>9 DEF Notice
<1>10. CASE ReadState
  <2>1. PICK resumes \in BOOLEAN : resumes = (saved = chat) OBVIOUS
  <2>2. CASE turn' = turn BY <1>10, <2>2 DEF ReadState
  <2>3. CASE turn' # turn
    <3>1. Spawns(resumes) /\ told' = told BY <1>10, <2>1, <2>3 DEF ReadState
    <3>. QED BY <3>1, TurnOfSpawn
  <2>. QED BY <2>2, <2>3
<1>11. CASE ForgetSession BY <1>11 DEF ForgetSession, Turns, Replies
<1>12. CASE RunAgain
  <2>1. Spawns(FALSE) /\ told' = told BY <1>12 DEF RunAgain
  <2>. QED BY <2>1, TurnOfSpawn
<1>13. CASE Drain BY <1>13 DEF Drain, Drained
<1>14. CASE ReplaceWithReply BY <1>14 DEF ReplaceWithReply, Settled, FinalEdit, Turns, Replies
<1>15. CASE Stop BY <1>15 DEF Stop, Settled, FinalEdit
<1>16. CASE WriteSession BY <1>16 DEF WriteSession, Answers
<1>17. CASE PostChunk BY <1>17 DEF PostChunk
<1>18. CASE PostSettles BY <1>18 DEF PostSettles
<1>19. CASE TimerFires BY <1>19 DEF TimerFires
<1>20. CASE PhotoSettles BY <1>20 DEF PhotoSettles, Turns, Replies
<1>21. CASE ChildExits
  <2>1. PICK session \in {"none", "new"} \union (IF turn.resumes THEN {"same"} ELSE {}),
               reply \in Replies, crash \in BOOLEAN, status \in {"success", "error"} :
          turn' = [turn EXCEPT
            !.session = session,
            !.status = IF child = "killed" THEN "timeout" ELSE status,
            !.reply = IF child = "killed" THEN "none" ELSE reply,
            !.crash = crash /\ child # "killed",
            !.absorb = status = "success" /\ ~crash /\ reply = "short" /\ child # "killed"
               /\ ~aborted]
    BY <1>21 DEF ChildExits
  <2>0. session \in {"none", "new", "same"} OBVIOUS
  <2>2. PICK absorb \in BOOLEAN :
          absorb = (status = "success" /\ ~crash /\ reply = "short" /\ child # "killed" /\ ~aborted)
    OBVIOUS
  <2>3. PICK crashed \in BOOLEAN : crashed = (crash /\ child # "killed") OBVIOUS
  <2>4. told' = told BY <1>21 DEF ChildExits
  <2>5. PICK end \in {"success", "error", "timeout"}, text \in Replies :
          /\ end = (IF child = "killed" THEN "timeout" ELSE status)
          /\ text = (IF child = "killed" THEN "none" ELSE reply)
    BY DEF Replies
  <2>6. turn' = [turn EXCEPT !.session = session, !.status = end, !.reply = text,
           !.crash = crashed, !.absorb = absorb]
    BY <2>1, <2>2, <2>3, <2>5
  <2>7. absorb => text = "short" BY ONLY <2>2, <2>5
  <2>8. turn' \in Turns /\ turn'.absorb = absorb /\ turn'.reply = text
    <3>1. turn \in Turns OBVIOUS
    <3>. QED BY ONLY <3>1, <2>0, <2>6, TurnOfExit, ZenonT(40), absorb \in BOOLEAN,
                crashed \in BOOLEAN, text \in Replies, end \in {"success", "error", "timeout"}
  <2>. QED BY <2>4, <2>7, <2>8
<1>22. CASE SessionIsStale BY <1>22 DEF SessionIsStale, Exits
<1>23. CASE Detach BY <1>23 DEF Detach, AnnounceDetach
<1>24. CASE TurnTimesOut BY <1>24 DEF TurnTimesOut
<1>25. CASE WaitTimesOut BY <1>25 DEF WaitTimesOut
<1>26. CASE CooldownEnds BY <1>26 DEF CooldownEnds
<1>27. CASE ProgressEvent BY <1>27 DEF ProgressEvent
<1>28. CASE PhotoEvent BY <1>28 DEF PhotoEvent
<1>29. CASE UNCHANGED sessionVars BY <1>29 DEF sessionVars
<1>. QED BY <1>1, <1>2, <1>3, <1>4, <1>5, <1>6, <1>7, <1>8, <1>9, <1>10, <1>11, <1>12, <1>13,
        <1>14, <1>15, <1>16, <1>17, <1>18, <1>19, <1>20, <1>21, <1>22, <1>23, <1>24, <1>25, <1>26,
        <1>27, <1>28, <1>29 DEF SessionNext, Works, Answered, Ends

(* What the message was answered with, after any step.                       *)
LEMMA AnswerStep ==
  ASSUME SessionInv, [SessionNext]_sessionVars
  PROVE  AnswerInv'
<1> USE SessionAssumption DEF SessionInv, At, Alive, Goes, Awaits, Proceeds, loop, chats, bound,
       Fault, Quiet, Tells, AtInv, TurnInv, AnswerInv
<1>1. CASE Attach
  <2>1. polled' = 0 /\ at' \in {"poll", "crashed"} /\ UNCHANGED <<turn, told>>
    BY <1>1 DEF Attach, BatchInv
  <2>2. ~(polled' > 0) BY <2>1, NothingPolled
  <2>3. "edit" \in told' => "chunk" \notin told' BY <2>1
  <2>. QED BY <2>1, <2>2, <2>3
<1>2. CASE Poll BY <1>2 DEF Poll
<1>3. CASE Sleep BY <1>3 DEF Sleep
<1>4. CASE TellBadToken BY <1>4 DEF TellBadToken
<1>5. CASE Bye BY <1>5 DEF Bye, AnnounceDetach
<1>6. CASE Message BY <1>6 DEF Message, NoTurn
<1>7. CASE ClearForNew BY <1>7 DEF ClearForNew
<1>8. CASE AckNew BY <1>8 DEF AckNew
<1>9. CASE Notice BY <1>9 DEF Notice
<1>10. CASE ReadState BY <1>10 DEF ReadState, Spawns, NoTurn
<1>11. CASE ForgetSession BY <1>11 DEF ForgetSession, Turns
<1>12. CASE RunAgain BY <1>12 DEF RunAgain, Spawns, NoTurn
<1>13. CASE Drain BY <1>13 DEF Drain, Drained
<1>14. CASE ReplaceWithReply BY <1>14 DEF ReplaceWithReply, Settled, FinalEdit, Turns
<1>15. CASE Stop BY <1>15 DEF Stop, Settled, FinalEdit
<1>16. CASE WriteSession BY <1>16 DEF WriteSession, Answers, ChatInv
<1>17. CASE PostChunk BY <1>17 DEF PostChunk
<1>18. CASE PostSettles BY <1>18 DEF PostSettles
<1>19. CASE TimerFires BY <1>19 DEF TimerFires
<1>20. CASE PhotoSettles BY <1>20 DEF PhotoSettles, Turns
<1>21. CASE ChildExits BY <1>21 DEF ChildExits, Exits, Turns
<1>22. CASE SessionIsStale BY <1>22 DEF SessionIsStale, Exits
<1>23. CASE Detach BY <1>23 DEF Detach, AnnounceDetach
<1>24. CASE TurnTimesOut BY <1>24 DEF TurnTimesOut
<1>25. CASE WaitTimesOut BY <1>25 DEF WaitTimesOut
<1>26. CASE CooldownEnds BY <1>26 DEF CooldownEnds
<1>27. CASE ProgressEvent BY <1>27 DEF ProgressEvent
<1>28. CASE PhotoEvent BY <1>28 DEF PhotoEvent
<1>29. CASE UNCHANGED sessionVars BY <1>29 DEF sessionVars
<1>. QED BY <1>1, <1>2, <1>3, <1>4, <1>5, <1>6, <1>7, <1>8, <1>9, <1>10, <1>11, <1>12, <1>13,
        <1>14, <1>15, <1>16, <1>17, <1>18, <1>19, <1>20, <1>21, <1>22, <1>23, <1>24, <1>25, <1>26,
        <1>27, <1>28, <1>29 DEF SessionNext, Works, Answered, Ends

(* The status line, after any step.                                          *)
LEMMA LineStep ==
  ASSUME SessionInv, [SessionNext]_sessionVars
  PROVE  LineInv'
<1> USE SessionAssumption DEF SessionInv, At, Alive, Goes, Awaits, Proceeds, loop, chats, bound,
       Fault, Quiet, Tells, Steps, Over, AtInv, LineInv, Lines, NoLine, Sends
<1>1. CASE Attach BY <1>1 DEF Attach
<1>2. CASE Poll BY <1>2 DEF Poll
<1>3. CASE Sleep BY <1>3 DEF Sleep
<1>4. CASE TellBadToken BY <1>4 DEF TellBadToken
<1>5. CASE Bye BY <1>5 DEF Bye, AnnounceDetach
<1>6. CASE Message BY <1>6 DEF Message
<1>7. CASE ClearForNew BY <1>7 DEF ClearForNew
<1>8. CASE AckNew BY <1>8 DEF AckNew
<1>9. CASE Notice BY <1>9 DEF Notice
<1>10. CASE ReadState BY <1>10 DEF ReadState, Spawns
<1>11. CASE ForgetSession BY <1>11 DEF ForgetSession
<1>12. CASE RunAgain BY <1>12 DEF RunAgain, Spawns
<1>13. CASE Drain BY <1>13 DEF Drain, Drained
<1>14. CASE ReplaceWithReply BY <1>14 DEF ReplaceWithReply, Settled, FinalEdit
<1>15. CASE Stop BY <1>15 DEF Stop, Settled, FinalEdit
<1>16. CASE WriteSession BY <1>16 DEF WriteSession, Answers
<1>17. CASE PostChunk BY <1>17 DEF PostChunk
<1>18. CASE PostSettles
  <2>1. at' = at /\ line.active BY <1>18 DEF PostSettles
  <2>2. PICK l \in {[line EXCEPT !.active = FALSE, !.known = TRUE, !.shown = "step"]}
                 \union {[line EXCEPT !.active = FALSE, !.sure = @ /\ ~landed] :
                    landed \in BOOLEAN} :
          line' = Flushes(l)
    BY <1>18 DEF PostSettles
  <2>3. /\ l \in Lines /\ ~l.active /\ ~l.timer /\ (l.shown = "step" => l.known)
        /\ l.disposed = line.disposed
    <3>1. CASE l = [line EXCEPT !.active = FALSE, !.known = TRUE, !.shown = "step"] BY <2>1, <3>1
    <3>2. ASSUME NEW landed \in BOOLEAN, l = [line EXCEPT !.active = FALSE, !.sure = @ /\ ~landed]
          PROVE  /\ l \in Lines /\ ~l.active /\ ~l.timer /\ (l.shown = "step" => l.known)
                 /\ l.disposed = line.disposed
      <4>1. (line.sure /\ ~landed) \in BOOLEAN OBVIOUS
      <4>. QED BY <2>1, <3>2, <4>1
    <3>. QED BY <2>2, <3>1, <3>2
  <2>4. /\ line' \in Lines /\ ~(line'.active /\ line'.timer)
              /\ (line'.timer => line'.pending /\ ~line'.disposed)
        /\ (line'.shown = "step" => line'.known) /\ line'.disposed = l.disposed
    BY <2>2, <2>3 DEF Flushes, Sends
  <2>. QED BY <2>1, <2>3, <2>4
<1>19. CASE TimerFires BY <1>19 DEF TimerFires
<1>20. CASE PhotoSettles BY <1>20 DEF PhotoSettles
<1>21. CASE ChildExits BY <1>21 DEF ChildExits, Exits
<1>22. CASE SessionIsStale BY <1>22 DEF SessionIsStale, Exits
<1>23. CASE Detach BY <1>23 DEF Detach, AnnounceDetach
<1>24. CASE TurnTimesOut BY <1>24 DEF TurnTimesOut
<1>25. CASE WaitTimesOut BY <1>25 DEF WaitTimesOut
<1>26. CASE CooldownEnds BY <1>26 DEF CooldownEnds
<1>27. CASE ProgressEvent BY <1>27 DEF ProgressEvent
<1>28. CASE PhotoEvent BY <1>28 DEF PhotoEvent
<1>29. CASE UNCHANGED sessionVars BY <1>29 DEF sessionVars
<1>. QED BY <1>1, <1>2, <1>3, <1>4, <1>5, <1>6, <1>7, <1>8, <1>9, <1>10, <1>11, <1>12, <1>13,
        <1>14, <1>15, <1>16, <1>17, <1>18, <1>19, <1>20, <1>21, <1>22, <1>23, <1>24, <1>25, <1>26,
        <1>27, <1>28, <1>29 DEF SessionNext, Works, Answered, Ends

-----------------------------------------------------------------------------
(* A remote session: the theorems                                            *)

(* The invariant holds in every state of a session.                          *)
LEMMA SessionInvariant == SessionSpec => []SessionInv
<1>1. ASSUME SessionInv, [SessionNext]_sessionVars PROVE SessionInv'
  BY <1>1, AtStep, BatchStep, ChatStep, BoundStep, PhotoStep, TurnStep, AnswerStep,
     LineStep DEF SessionInv
<1>. QED BY <1>1, SessionStarts, PTL DEF SessionSpec

(* The variables of a session keep their types: one child, only during a     *)
(* turn, and never two posts of the status line at once.                     *)
THEOREM SessionTypeCorrect == SessionSpec => []SessionTypeOK
<1>1. SessionInv => SessionTypeOK
  <2> SUFFICES ASSUME SessionInv PROVE SessionTypeOK
    OBVIOUS
  <2>1. goodbyes \in Nat BY DEF SessionInv, AtInv
  <2>. QED BY <2>1
       DEF SessionInv, SessionTypeOK, AtInv, BatchInv, ChatInv, BoundInv, TurnInv, LineInv, Steps
<1>. QED BY <1>1, SessionInvariant, PTL

(* However messages, children, photos, edits and signals interleave, a       *)
(* message is answered once and after its photos, no late step undoes the    *)
(* last line, and the agent says goodbye once.                               *)
THEOREM ChatIsRightHolds == SessionSpec => []ChatIsRight
<1>1. SessionInv => AnsweredOnce BY DEF SessionInv, AnswerInv, AnsweredOnce
<1>2. SessionInv => PhotosComeFirst BY DEF SessionInv, PhotoInv, PhotosComeFirst
<1>3. SessionInv => LastLineStays BY DEF SessionInv, LineInv, LastLineStays, Over
<1>4. SessionInv => GoodbyeOnce BY DEF SessionInv, AtInv, At, GoodbyeOnce
<1>5. SessionInv => ChatIsRight BY <1>1, <1>2, <1>3, <1>4 DEF ChatIsRight
<1>. QED BY <1>5, SessionInvariant, PTL
=============================================================================
