---------------------------- MODULE SyncOperations ----------------------------
(***************************************************************************)
(* Pushing and pulling a site (apps/studio/src/stores/sync/                *)
(* sync-operations-slice.ts, the renderer) and the exports, uploads and    *)
(* downloads behind it (apps/studio/src/modules/sync/lib/ipc-handlers.ts,  *)
(* the main process), for one pair of a local and a remote site.           *)
(*                                                                         *)
(* Each push and each pull is a chain of awaits that nothing serialises:   *)
(* the dialog that starts one does not look at the state when it is        *)
(* confirmed.  All of them write the same two records of the slice, and    *)
(* share the poller maps, the map of abort callbacks and, in the main      *)
(* process, the registries of abort controllers and uploads, every one     *)
(* keyed by the pair of sites.  A cancel or a logout may fall between any  *)
(* two awaits.  One stage of a chain is one action.                        *)
(*                                                                         *)
(* Abstracted: progress figures; the three statuses of a push that is      *)
(* applied remotely are one, "remote"; the content of archives; the server *)
(* answers as it likes.  Messages of the renderer that expect no answer    *)
(* reach the main process at once, in order; upload events, the other way, *)
(* are delayed, and handled before the answer of the call they belong to.  *)
(***************************************************************************)
EXTENDS Naturals

CONSTANTS MaxPulls, MaxPushes, \* bounds: pulls and pushes of the pair,
          MaxOperations,       \* both together,
          MaxLogins            \* times the user logs in

ASSUME SyncBounds == {MaxPulls, MaxPushes, MaxOperations, MaxLogins} \subseteq Nat

Pulls == 1..MaxPulls
Pushes == 1..MaxPushes
Logins == 1..MaxLogins
\* A push poller is named after the push or the initialization that starts it.
Starters == 1..(MaxPushes + MaxLogins)
Nobody == [op |-> "none", id |-> 0]

VARIABLES
  loggedIn, logins, \* there is a WordPress.com client; times there has been
  init,       \* init[i]: the initializeSyncStates of login i
  pull,       \* pullStates[id]: status ("none" when absent) and backupId (0 for null)
  push,       \* pushStates[id].status, "none" when absent
  pulls, post,      \* pulls started; post[p]: the request of pull p for a backup
  pullPoll,   \* pullPoll[p]: the poll loop that the answer to pull p started
  pullPoller, \* PULL_POLLERS.get(id), 0 for none
  pushes, thunk,    \* pushes started; thunk[q]: the pushSite of push q
  pushPoll, pushPoller, \* the poll loops of pushes; PUSH_POLLERS.get(id)
  callback,   \* PUSH_SITE_ABORT_CALLBACKS.get(id), 0 for none
  ctl,        \* SYNC_ABORT_CONTROLLERS.get(id): of a download or an export
  tus, paused,\* SYNC_TUS_UPLOADS.get(id), 0 for none; isManuallyPaused
  event,      \* an upload event on its way to the renderer
  active,     \* ACTIVE_SYNC_OPERATIONS has the id
  applied,    \* pushes the remote site has accepted
  alone, stopped, \* history: see StartPush and CancelPush
  stray       \* history: a push was found, or accepted, after the logout it belongs before

authVars == <<loggedIn, logins, init, stray>>
pullVars == <<pulls, post, pullPoll, pullPoller>>
pushVars == <<pushes, thunk, pushPoll, pushPoller, callback, applied, alone, stopped>>
mainVars == <<ctl, tus, paused, event, active>>
vars == <<authVars, pull, push, pullVars, pushVars, mainVars>>

Terminal == {"finished", "failed", "cancelled"}
Uploads == {"uploading", "uploadingPaused", "uploadingManuallyPaused"}
NoPull == [status |-> "none", backup |-> 0]

TypeOK ==
  /\ {loggedIn, paused, active, stray} \subseteq BOOLEAN
  /\ logins \in 0..MaxLogins /\ pulls \in 0..MaxPulls /\ pushes \in 0..MaxPushes
  /\ init \in [Logins -> {"off", "asking", "done"}]
  /\ pull \in [status : {"none", "in-progress", "downloading", "importing"} \cup Terminal,
               backup : 0..MaxPulls]
  /\ push \in {"none", "creatingBackup", "remote"} \cup Uploads \cup Terminal
  /\ post \in [Pulls -> {"idle", "asking", "done"}]
  /\ pullPoll \in [Pulls -> [at : {"off", "asking", "checking", "downloading", "importing",
                                   "stamping", "sleeping", "ended"},
                             aborted : BOOLEAN, cut : BOOLEAN]]
  /\ thunk \in [Pushes -> [at : {"idle", "exporting", "token", "sending", "initiating",
                                 "stuck", "done"},
                           aborted : BOOLEAN, cut : BOOLEAN]]
  /\ pushPoll \in [Starters -> [at : {"off", "asking", "stamping", "sleeping", "ended"},
                                aborted : BOOLEAN]]
  /\ pullPoller \in 0..MaxPulls /\ pushPoller \in {0} \cup Starters
  /\ callback \in 0..MaxPushes /\ tus \in 0..MaxPushes
  /\ ctl \in {Nobody} \cup [op : {"pull"}, id : Pulls] \cup [op : {"push"}, id : Pushes]
  /\ event \in {"none"} \cup Uploads
  /\ applied \cup alone \cup stopped \subseteq Pushes

Init ==
  /\ loggedIn = FALSE /\ logins = 0 /\ init = [i \in Logins |-> "off"] /\ stray = FALSE
  /\ pull = NoPull /\ push = "none"
  /\ pulls = 0 /\ post = [p \in Pulls |-> "idle"]
  /\ pullPoll = [p \in Pulls |-> [at |-> "off", aborted |-> FALSE, cut |-> FALSE]]
  /\ pushes = 0
  /\ thunk = [q \in Pushes |-> [at |-> "idle", aborted |-> FALSE, cut |-> FALSE]]
  /\ pushPoll = [r \in Starters |-> [at |-> "off", aborted |-> FALSE]]
  /\ pullPoller = 0 /\ pushPoller = 0 /\ callback = 0
  /\ ctl = Nobody /\ tus = 0 /\ paused = FALSE /\ event = "none" /\ active = FALSE
  /\ applied = {} /\ alone = {} /\ stopped = {}

(* What updatePullState, updatePushState and the rejected cases do to a status. *)

\* Mutant: a status of local work is taken for a terminal one.
KeepsQuitCertain(s) == s \in {"in-progress", "importing", "creatingBackup", "remote"} \cup Uploads

KeepsQuit(s) == s \notin Terminal

\* keepSyncOperationInSync, which runs with every update that has a status; c is
\* what the step makes of the abort controller otherwise.
Synced(s, c) == active' = KeepsQuit(s) /\ ctl' = IF KeepsQuit(s) THEN c ELSE Nobody

Rejected(s) == IF s = "none" THEN s ELSE "failed"

\* Mutant: the update takes the place of the record.
SetPullWhole(s, c) == pull' = [status |-> s] /\ Synced(s, c)

SetPull(s, c) == pull' = [pull EXCEPT !.status = s] /\ Synced(s, c)
SetPush(s, c) == push' = s /\ Synced(s, c)

(* Pollers. *)

PullEnded == [at |-> "ended", aborted |-> FALSE, cut |-> FALSE]
PushEnded == [at |-> "ended", aborted |-> FALSE]
ThunkEnded == [at |-> "done", aborted |-> FALSE, cut |-> FALSE]

\* Mutant: the loop that ends takes its successor out of the map.
EndPullAnyway(p) == /\ pullPoll' = [pullPoll EXCEPT ![p] = PullEnded]
                    /\ pullPoller' = 0

EndPull(p) == /\ pullPoll' = [pullPoll EXCEPT ![p] = PullEnded]
              /\ pullPoller' = IF pullPoller = p THEN 0 ELSE pullPoller

EndPush(r) == /\ pushPoll' = [pushPoll EXCEPT ![r] = PushEnded]
              /\ pushPoller' = IF pushPoller = r THEN 0 ELSE pushPoller

Pollable(pl) == pl.status = "in-progress" /\ pl.backup # 0

\* The loop of startPullPoller, when a poll has left pull' in the slice.
NextPull(p) ==
  IF ~pullPoll[p].aborted /\ Pollable(pull')
    THEN pullPoll' = [pullPoll EXCEPT ![p].at = "sleeping"] /\ UNCHANGED pullPoller
    ELSE EndPull(p)

\* Without a client the loop breaks at once and leaves the map as it was.
StartPullPoller(p) ==
  IF pullPoller = 0 /\ loggedIn
    THEN pullPoller' = p /\ pullPoll' = [pullPoll EXCEPT ![p].at = "asking"]
    ELSE UNCHANGED <<pullPoller, pullPoll>>

StartPushPoller(r) ==
  IF pushPoller = 0 /\ loggedIn
    THEN pushPoller' = r /\ pushPoll' = [pushPoll EXCEPT ![r].at = "asking"]
    ELSE UNCHANGED <<pushPoller, pushPoll>>

StopPushPoller ==
  /\ pushPoll' = [r \in Starters |-> [pushPoll[r] EXCEPT !.aborted = @ \/ r = pushPoller]]
  /\ pushPoller' = 0

\* stopPullPoller, and what cutting the main process's operation does to a download.
PullPollStopped(stop, cut) ==
  [p \in Pulls |-> [pullPoll[p] EXCEPT !.aborted = @ \/ (stop /\ p = pullPoller),
                                       !.cut = @ \/ (cut /\ ctl = [op |-> "pull", id |-> p])]]

\* The signal of a push is aborted; its export or its upload is cut.
ThunksStopped(stop, cut) ==
  [q \in Pushes |-> [thunk[q] EXCEPT !.aborted = @ \/ (stop /\ q = callback),
                                     !.cut = @ \/ (cut /\ (ctl = [op |-> "push", id |-> q] \/ tus = q))]]

\* cancelSyncOperation, but for the cuts, and clearSyncOperation.
CancelSyncOperation == ctl' = Nobody /\ tus' = 0 /\ paused' = FALSE /\ active' = FALSE
ClearSyncOperation == ctl' = Nobody /\ active' = FALSE

(* The user. *)

\* Logging in makes a client, which starts initializeSyncStates.
Login ==
  /\ ~loggedIn /\ logins < MaxLogins
  /\ loggedIn' = TRUE /\ logins' = logins + 1
  /\ init' = [init EXCEPT ![logins + 1] = "asking"]
  /\ UNCHANGED <<stray, pull, push, pullVars, pushVars, mainVars>>

\* Reset of the slice, then abortAllSyncOperations: it knows of an operation only
\* if a poller or an abort callback is registered.
Logout ==
  /\ loggedIn /\ loggedIn' = FALSE
  /\ pull' = NoPull /\ push' = "none"
  /\ LET known == {pullPoller, pushPoller, callback} # {0} IN
     /\ pullPoll' = PullPollStopped(TRUE, known) /\ pullPoller' = 0
     /\ StopPushPoller
     /\ thunk' = ThunksStopped(TRUE, known) /\ callback' = 0
     /\ IF known THEN CancelSyncOperation ELSE UNCHANGED <<ctl, tus, paused, active>>
  /\ UNCHANGED <<logins, init, stray, pulls, post, pushes, applied, alone, stopped, event>>

StartPull ==
  /\ loggedIn /\ pulls < MaxPulls /\ pulls + pushes < MaxOperations
  /\ pulls' = pulls + 1
  /\ pull' = [status |-> "in-progress", backup |-> 0] /\ Synced("in-progress", ctl)
  /\ post' = [post EXCEPT ![pulls'] = "asking"]
  /\ UNCHANGED <<authVars, push, pullPoll, pullPoller, pushVars, tus, paused, event>>

\* Mutant: the stopped loop stays in the map.
CancelPullKeeps ==
  /\ loggedIn /\ pull.status \in {"in-progress", "downloading"}
  /\ pullPoll' = PullPollStopped(TRUE, TRUE)
  /\ thunk' = ThunksStopped(FALSE, TRUE)
  /\ pull' = [pull EXCEPT !.status = "cancelled"]
  /\ CancelSyncOperation
  /\ UNCHANGED <<authVars, push, pulls, post, pullPoller, pushes, pushPoll, pushPoller, callback,
                 applied, alone, stopped, event>>

\* canCancelPull guards the button.  The operation's id is that of a push of the
\* pair, too: an export or an upload in progress is cut.
CancelPull ==
  /\ loggedIn /\ pull.status \in {"in-progress", "downloading"}
  /\ pullPoll' = PullPollStopped(TRUE, TRUE) /\ pullPoller' = 0
  /\ thunk' = ThunksStopped(FALSE, TRUE)
  /\ pull' = [pull EXCEPT !.status = "cancelled"]
  /\ CancelSyncOperation
  /\ UNCHANGED <<authVars, push, pulls, post, pushes, pushPoll, pushPoller, callback,
                 applied, alone, stopped, event>>

ClearPull ==
  /\ loggedIn /\ pull.status \in Terminal
  /\ pull' = NoPull
  /\ pullPoll' = PullPollStopped(TRUE, FALSE) /\ pullPoller' = 0
  /\ ClearSyncOperation
  /\ UNCHANGED <<authVars, push, pulls, post, pushVars, tus, paused, event>>

InProgress == {q \in Pushes : thunk[q].at \notin {"idle", "done"}}

\* pushSite up to its first await, and exportSiteForPush up to its own.
StartPush ==
  /\ loggedIn /\ pushes < MaxPushes /\ pulls + pushes < MaxOperations
  /\ pushes' = pushes + 1
  /\ thunk' = [thunk EXCEPT ![pushes'].at = "exporting"]
  /\ callback' = pushes'
  /\ SetPush("creatingBackup", [op |-> "push", id |-> pushes'])
  /\ alone' = IF InProgress = {} THEN alone \cup {pushes'} ELSE alone \ InProgress
  /\ UNCHANGED <<authVars, pull, pullVars, pushPoll, pushPoller, applied, stopped, tus, paused, event>>

\* canCancelPush guards the button.
CancelPush ==
  /\ loggedIn /\ push \in {"creatingBackup", "uploading", "uploadingManuallyPaused"}
  /\ StopPushPoller
  /\ thunk' = ThunksStopped(TRUE, TRUE)
  /\ pullPoll' = PullPollStopped(FALSE, TRUE)
  /\ push' = "cancelled"
  /\ CancelSyncOperation
  /\ stopped' = stopped \cup {q \in alone : thunk[q].at = "exporting"}
  /\ UNCHANGED <<authVars, pull, pulls, post, pullPoller, pushes, callback, applied, alone,
                 event>>

ClearPush ==
  /\ loggedIn /\ push \in Terminal
  /\ push' = "none"
  /\ StopPushPoller
  /\ ClearSyncOperation
  /\ UNCHANGED <<authVars, pull, pullVars, pushes, thunk, callback, applied, alone, stopped,
                 tus, paused, event>>

PauseUpload ==
  /\ loggedIn /\ push = "uploading" /\ event = "none"
  /\ tus # 0 /\ ~paused
  /\ paused' = TRUE /\ event' = "uploadingManuallyPaused"
  /\ UNCHANGED <<authVars, pull, push, pullVars, pushVars, ctl, tus, active>>

ResumeUpload ==
  /\ loggedIn /\ push = "uploadingManuallyPaused" /\ event = "none"
  /\ tus # 0 /\ paused
  /\ paused' = FALSE /\ event' = "uploading"
  /\ UNCHANGED <<authVars, pull, push, pullVars, pushVars, ctl, tus, active>>

(* A pull. *)

\* Mutant: a pull that is no longer there is resurrected.
BackupRequestedAlways(p) ==
  /\ post[p] = "asking"
  /\ post' = [post EXCEPT ![p] = "done"]
  /\ pull' = [pull EXCEPT !.backup = p]
  /\ StartPullPoller(p)
  /\ UNCHANGED <<authVars, push, pulls, pushVars, mainVars>>

\* The remote site makes a backup, here named after the pull.
BackupRequested(p) ==
  /\ post[p] = "asking"
  /\ post' = [post EXCEPT ![p] = "done"]
  /\ IF pull.status \notin {"none", "cancelled"}
       THEN pull' = [pull EXCEPT !.backup = p] /\ StartPullPoller(p)
       ELSE UNCHANGED <<pull, pullPoll, pullPoller>>
  /\ UNCHANGED <<authVars, push, pulls, pushVars, mainVars>>

\* Not asked whether the pull has been cancelled: it then fails.
BackupRefused(p) ==
  /\ post[p] = "asking"
  /\ post' = [post EXCEPT ![p] = "done"]
  /\ pull' = [pull EXCEPT !.status = Rejected(@)]
  /\ UNCHANGED <<authVars, push, pulls, pullPoll, pullPoller, pushVars, mainVars>>

PullWakes(p) ==
  /\ pullPoll[p].at = "sleeping"
  /\ IF ~pullPoll[p].aborted /\ loggedIn /\ pull.backup # 0
       THEN pullPoll' = [pullPoll EXCEPT ![p].at = "asking"] /\ UNCHANGED pullPoller
       ELSE EndPull(p)
  /\ UNCHANGED <<authVars, pull, push, pulls, post, pushVars, mainVars>>

\* The backup is not ready, has failed, or is ready without an address; the loop
\* goes on while isPullPollable.
PullAnswered(p) ==
  /\ pullPoll[p].at = "asking" /\ ~pullPoll[p].aborted
  /\ \E s \in {"in-progress", "failed", "downloading"} : SetPull(s, ctl)
  /\ NextPull(p)
  /\ UNCHANGED <<authVars, push, pulls, post, pushVars, tus, paused, event>>

\* checkSyncBackupSize, and a question to the user if the backup is large.
BackupReady(p) ==
  /\ pullPoll[p].at = "asking" /\ ~pullPoll[p].aborted
  /\ pullPoll' = [pullPoll EXCEPT ![p].at = "checking"]
  /\ UNCHANGED <<authVars, pull, push, pulls, post, pullPoller, pushVars, mainVars>>

\* The signal is not looked at again before the download begins.
Downloads(p) ==
  /\ pullPoll[p].at = "checking"
  /\ SetPull("downloading", [op |-> "pull", id |-> p])
  /\ pullPoll' = [pullPoll EXCEPT ![p].at = "downloading"]
  /\ UNCHANGED <<authVars, push, pulls, post, pullPoller, pushVars, tus, paused, event>>

\* The user does not want a large backup: cancelled, then cleared, whose listener
\* stops the poller in the map.
TooLarge(p) ==
  /\ pullPoll[p].at = "checking"
  /\ pull' = NoPull
  /\ pullPoll' = [PullPollStopped(TRUE, FALSE) EXCEPT ![p] = PullEnded] /\ pullPoller' = 0
  /\ ClearSyncOperation
  /\ UNCHANGED <<authVars, push, pulls, post, pushVars, tus, paused, event>>

Downloaded(p) ==
  /\ pullPoll[p].at = "downloading" /\ ~pullPoll[p].aborted /\ ~pullPoll[p].cut
  /\ SetPull("importing", Nobody)
  /\ pullPoll' = [pullPoll EXCEPT ![p].at = "importing"]
  /\ UNCHANGED <<authVars, push, pulls, post, pullPoller, pushVars, tus, paused, event>>

Imported(p) ==
  /\ pullPoll[p].at = "importing" /\ ~pullPoll[p].aborted
  /\ pullPoll' = [pullPoll EXCEPT ![p].at = "stamping"]
  /\ UNCHANGED <<authVars, pull, push, pulls, post, pullPoller, pushVars, mainVars>>

\* updateSiteTimestamp is over; the signal is not looked at again.
PullFinishes(p) ==
  /\ pullPoll[p].at = "stamping"
  /\ SetPull("finished", ctl)
  /\ EndPull(p)
  /\ UNCHANGED <<authVars, push, pulls, post, pushVars, tus, paused, event>>

\* A stage fails, or finds the signal aborted or no download: only a failure that
\* is not an abort is shown.  The download's finally drops whatever controller
\* there is.
PullUnwinds(p) ==
  /\ pullPoll[p].at \in {"asking", "checking", "downloading", "importing", "stamping"}
  /\ pull' = IF pullPoll[p].aborted \/ pullPoll[p].cut THEN pull
             ELSE [pull EXCEPT !.status = Rejected(@)]
  /\ ctl' = IF pullPoll[p].at = "downloading" THEN Nobody ELSE ctl
  /\ NextPull(p)
  /\ UNCHANGED <<authVars, push, pulls, post, pushVars, tus, paused, event, active>>

(* A push. *)

\* Mutant: the signal is not looked at after the export.
ExportedUnasked(q) ==
  /\ thunk[q].at = "exporting"
  /\ SetPush("uploading", Nobody)
  /\ thunk' = [thunk EXCEPT ![q].at = "token"]
  /\ UNCHANGED <<authVars, pull, pullVars, pushes, pushPoll, pushPoller, callback, applied, alone,
                 stopped, tus, paused, event>>

\* The archive is there and pushArchive is called.
Exported(q) ==
  /\ thunk[q].at = "exporting" /\ ~thunk[q].aborted /\ ~thunk[q].cut
  /\ SetPush("uploading", Nobody)
  /\ thunk' = [thunk EXCEPT ![q].at = "token"]
  /\ UNCHANGED <<authVars, pull, pullVars, pushes, pushPoll, pushPoller, callback, applied, alone,
                 stopped, tus, paused, event>>

\* With the token, pushArchive puts its upload in the place of another, whose
\* promise is never settled.
UploadStarts(q) ==
  /\ thunk[q].at = "token" /\ loggedIn
  /\ thunk' = [r \in Pushes |-> IF r = q THEN [thunk[r] EXCEPT !.at = "sending", !.cut = FALSE]
                                 ELSE IF r = tus THEN [thunk[r] EXCEPT !.at = "stuck"]
                                 ELSE thunk[r]]
  /\ tus' = q /\ paused' = FALSE
  /\ UNCHANGED <<authVars, pull, push, pullVars, pushes, pushPoll, pushPoller, callback, applied,
                 alone, stopped, ctl, event, active>>

Sending(q) == thunk[q].at = "sending" /\ ~thunk[q].cut /\ (tus = q => ~paused)

\* onProgress, or a network error that is retried.
UploadEvent(q) ==
  /\ Sending(q) /\ event = "none"
  /\ event' \in {"uploading", "uploadingPaused"}
  /\ UNCHANGED <<authVars, pull, push, pullVars, pushVars, ctl, tus, paused, active>>

EventArrives ==
  /\ event # "none" /\ event' = "none"
  /\ SetPush(event, ctl)
  /\ UNCHANGED <<authVars, pull, pullVars, pushVars, tus, paused>>

\* The upload is over, and the registry forgets whichever upload it has; the
\* remote site is asked to import it.
Uploaded(q) ==
  /\ Sending(q)
  /\ thunk' = [thunk EXCEPT ![q].at = "initiating"]
  /\ tus' = 0 /\ paused' = FALSE
  /\ UNCHANGED <<authVars, pull, push, pullVars, pushes, pushPoll, pushPoller, callback, applied,
                 alone, stopped, ctl, event, active>>

\* The remote site accepts.  The finally drops whatever callback there is.
Initiated(q) ==
  /\ thunk[q].at = "initiating" /\ event = "none"
  /\ applied' = applied \cup {q}
  /\ IF thunk[q].aborted THEN UNCHANGED <<push, active, ctl, pushPoll, pushPoller, stray>>
     ELSE /\ SetPush("remote", ctl) /\ StartPushPoller(q)
          /\ stray' = (stray \/ ~loggedIn)
  /\ thunk' = [thunk EXCEPT ![q] = ThunkEnded] /\ callback' = 0
  /\ UNCHANGED <<loggedIn, logins, init, pull, pullVars, pushes, alone, stopped, tus, paused, event>>

\* A stage fails, the archive is too large, or the signal is found aborted.  What
\* the finally of an upload that was cut removes is gone already: it runs with the
\* cut, before another upload can be registered.
PushUnwinds(q) ==
  /\ \/ thunk[q].at \in {"exporting", "sending", "initiating"}
     \/ thunk[q].at = "token" /\ ~loggedIn
  /\ push' = IF thunk[q].aborted THEN push ELSE Rejected(push)
  /\ thunk' = [thunk EXCEPT ![q] = ThunkEnded] /\ callback' = 0
  /\ ctl' = IF thunk[q].at = "exporting" THEN Nobody ELSE ctl
  /\ IF thunk[q].at = "sending" /\ ~thunk[q].cut
       THEN tus' = 0 /\ paused' = FALSE ELSE UNCHANGED <<tus, paused>>
  /\ UNCHANGED <<authVars, pull, pullVars, pushes, pushPoll, pushPoller, applied, alone, stopped,
                 event, active>>

\* initializeSyncStates finds nothing in progress, or its request fails.
InitFindsNothing(i) ==
  /\ init[i] = "asking" /\ init' = [init EXCEPT ![i] = "done"]
  /\ UNCHANGED <<loggedIn, logins, stray, pull, push, pullVars, pushVars, mainVars>>

\* It finds a push in progress, and does not look at what the slice has by now.
InitFindsPush(i) ==
  /\ init[i] = "asking" /\ init' = [init EXCEPT ![i] = "done"]
  /\ SetPush("remote", ctl)
  /\ StartPushPoller(MaxPushes + i)
  /\ stray' = (stray \/ ~loggedIn)
  /\ UNCHANGED <<loggedIn, logins, pull, pullVars, pushes, thunk, callback, applied, alone, stopped,
                 tus, paused, event>>

PushWakes(r) ==
  /\ pushPoll[r].at = "sleeping"
  /\ IF ~pushPoll[r].aborted /\ loggedIn /\ push # "none"
       THEN pushPoll' = [pushPoll EXCEPT ![r].at = "asking"] /\ UNCHANGED pushPoller
       ELSE EndPush(r)
  /\ UNCHANGED <<authVars, pull, push, pullVars, pushes, thunk, callback, applied, alone, stopped,
                 mainVars>>

\* Still at work: the status is one of PUSH_POLLING_KEYS and the loop goes on.
PushAnswered(r) ==
  /\ pushPoll[r].at = "asking" /\ ~pushPoll[r].aborted
  /\ SetPush("remote", ctl)
  /\ pushPoll' = [pushPoll EXCEPT ![r].at = "sleeping"]
  /\ UNCHANGED <<authVars, pull, pullVars, pushes, thunk, pushPoller, callback, applied, alone,
                 stopped, tus, paused, event>>

RemoteFinished(r) ==
  /\ pushPoll[r].at = "asking" /\ ~pushPoll[r].aborted
  /\ pushPoll' = [pushPoll EXCEPT ![r].at = "stamping"]
  /\ UNCHANGED <<authVars, pull, push, pullVars, pushes, thunk, pushPoller, callback, applied,
                 alone, stopped, mainVars>>

\* updateSiteTimestamp is over; the signal is not looked at again.
PushFinishes(r) ==
  /\ pushPoll[r].at = "stamping"
  /\ SetPush("finished", ctl)
  /\ EndPush(r)
  /\ UNCHANGED <<authVars, pull, pullVars, pushes, thunk, callback, applied, alone, stopped,
                 tus, paused, event>>

PushPollUnwinds(r) ==
  /\ pushPoll[r].at \in {"asking", "stamping"}
  /\ push' = IF pushPoll[r].aborted THEN push ELSE Rejected(push)
  /\ EndPush(r)
  /\ UNCHANGED <<authVars, pull, pullVars, pushes, thunk, callback, applied, alone, stopped,
                 mainVars>>

User == \/ Login \/ Logout \/ StartPull \/ CancelPull \/ ClearPull
        \/ StartPush \/ CancelPush \/ ClearPush \/ PauseUpload \/ ResumeUpload

PullStep(p) == \/ BackupRequested(p) \/ BackupRefused(p) \/ PullWakes(p) \/ PullAnswered(p)
               \/ BackupReady(p) \/ Downloads(p) \/ TooLarge(p) \/ Downloaded(p) \/ Imported(p)
               \/ PullFinishes(p) \/ PullUnwinds(p)

PushStep(q) == \/ Exported(q) \/ UploadStarts(q) \/ UploadEvent(q) \/ Uploaded(q)
               \/ Initiated(q) \/ PushUnwinds(q)

PushPollStep(r) == \/ PushWakes(r) \/ PushAnswered(r) \/ RemoteFinished(r) \/ PushFinishes(r)
                   \/ PushPollUnwinds(r)

Next == \/ User \/ EventArrives
        \/ \E p \in Pulls : PullStep(p)
        \/ \E q \in Pushes : PushStep(q)
        \/ \E i \in Logins : InitFindsNothing(i) \/ InitFindsPush(i)
        \/ \E r \in Starters : PushPollStep(r)

Spec == Init /\ [][Next]_vars
-----------------------------------------------------------------------------
Runs(at) == at \notin {"off", "ended"}

(* A poll loop that runs and has not been aborted is the one in the map, so   *)
(* that there is at most one of each kind and a cancel or a logout reaches it, *)
(* although loops that were aborted are still unwinding beside it.             *)
PollersAreReachable ==
  /\ \A p \in Pulls : Runs(pullPoll[p].at) /\ ~pullPoll[p].aborted => pullPoller = p
  /\ \A r \in Starters : Runs(pushPoll[r].at) /\ ~pushPoll[r].aborted => pushPoller = r

(* What the poll loops wait for is polled: isPullPollable and isPushPollable   *)
(* hold only while a loop is in the map, or the status would never change.     *)
(* The exception is a push that is found, or accepted, after a logout.         *)
PollableIsPolled ==
  /\ Pollable(pull) => pullPoller # 0
  /\ push = "remote" /\ ~stray => pushPoller # 0

(* What was stopped stays stopped: after a logout, and while a pull or a push  *)
(* is shown as cancelled, no loop for it goes on.  Those there were have been  *)
(* aborted, and late answers to requests start no other.                       *)
StoppedStaysStopped ==
  /\ ~loggedIn \/ pull.status = "cancelled" =>
       \A p \in Pulls : Runs(pullPoll[p].at) => pullPoll[p].aborted
  /\ ~loggedIn \/ push = "cancelled" =>
       \A r \in Starters : Runs(pushPoll[r].at) => pushPoll[r].aborted

(* Whoever stops a pull, a push or everything stops the loops that run for it, *)
(* and what waits for the server has one.                                      *)
PollsAreSound == PollersAreReachable /\ StoppedStaysStopped /\ PollableIsPolled

(* A push that is cancelled while its site is exported, and that no other push *)
(* of the pair overlaps, is never applied to the remote site, even if the main *)
(* process has lost the controller of the export to a pull.                    *)
CancelledExportIsNotApplied == stopped \cap applied = {}

(* While the local machine pulls and nothing is pushed, the main process asks  *)
(* before it quits (hasActiveSyncOperations).                                  *)
QuitAsksDuringPull ==
  /\ pushes = 0 /\ push = "none" /\ \A r \in Starters : pushPoll[r].at = "off"
  /\ pull.status \in {"downloading", "importing"}
  => active

(* The main process does what the window believes it does, although exports,   *)
(* downloads and pushes of one pair share a controller and a flag.             *)
MainFollowsWindow == CancelledExportIsNotApplied /\ QuitAsksDuringPull

(* "if the user logged out / cancelled while it finished, don't surface        *)
(* post-logout "finished" UI (notification + re-populated sync state)": after  *)
(* a logout there is no pull in the slice.                                     *)
\* The code does not keep it: README, "Known divergences".
LoggedOutHasNoPull == ~loggedIn => pull.status = "none"
=============================================================================
