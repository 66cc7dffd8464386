---------------------------- MODULE PullReprint ----------------------------
(***************************************************************************)
(* studio pull-reprint (commands/pull-reprint.ts): a remote site is pulled *)
(* in stages, each of which writes its output to the technical directory   *)
(* or the site's folder and then its name to pull.json.  Any stage may be  *)
(* killed or fail; the same command, run again, goes on after the last     *)
(* stage of pull.json.  Nothing keeps two runs, an --abort and the other   *)
(* site commands apart, except for the lock of the config file.            *)
(*                                                                         *)
(* One WordPress.com site, pulled without --name.  Abstracted: the files   *)
(* of a stage (reprint.phar is external: what its commands leave on disk   *)
(* is inferred from how Studio reads it), the password of the site's       *)
(* admin, the daemon, and looks at the file system, which go with the step *)
(* they are for.  Other sites have folders of their own.                   *)
(***************************************************************************)
EXTENDS Integers, FiniteSets

CONSTANTS
  Pulls,      \* processes that run the command
  MaxPort,    \* ports are 1..MaxPort, 0 is none
  MaxFolder,  \* folders the site may get: the name, "name 2", ...
  MaxFaults,  \* kills, failures, aborts, deletions, secrets and windows that expire
  None

ASSUME PullsAssumption ==
  /\ MaxPort \in Nat /\ MaxFolder \in Nat /\ MaxFaults \in Nat
  /\ "pull.json" \notin Pulls
ASSUME NoneIsNoSession ==
  None \notin [stage : Nat, folder : Nat, port : Nat, secret : BOOLEAN]

VARIABLES
  meta,       \* pull.json, or None
  disk,       \* the rest of the technical directory
  folder,     \* each folder: empty, or the flattened site, or part of it
  sites,      \* the entries of the config file for the technical directory
  others,     \* ports of its other entries
  at,         \* the await each process is at
  mem,        \* the metadata each process has in memory
  holds,      \* who has the secret that the remote site accepts
  exporterOn, \* its exporter was enabled within the last hour
  resolved,   \* the runs that have looked the site up on WordPress.com
  faults,
  disturbed   \* history: the session or its entry was changed under a run

store    == <<meta, disk, folder>>
exporter == <<exporterOn, resolved>>
vars     == <<store, sites, others, at, mem, holds, exporter, faults, disturbed>>

File == "pull.json"

\* pullStageOrder
Initialized     == 0
EssentialFiles  == 1
Flattened       == 2
DbDownloaded    == 3
DbApplied       == 4
RuntimeGenerated == 5
SiteRegistered  == 6
SiteStarted     == 7
Completed       == 8

Ports   == 1..MaxPort
Folders == 1..MaxFolder
EmptyDirectory ==
  [preflight |-> FALSE, files |-> "none", dump |-> FALSE, db |-> 0, runtime |-> FALSE, rest |-> FALSE]

At(p, step) == at[p] = step
Running == {p \in Pulls : at[p] # "off"}

Init ==
  /\ meta = None /\ disk = EmptyDirectory
  /\ folder = [f \in Folders |-> "empty"]
  /\ sites = {} /\ others = {}
  /\ at = [p \in Pulls |-> "off"]
  /\ mem = [p \in Pulls |-> None]
  /\ holds = {} /\ exporterOn \in BOOLEAN /\ resolved = {}
  /\ faults = 0 /\ disturbed = FALSE

-----------------------------------------------------------------------------
(* The process and pull.json *)

Goes(p, step) == at' = [at EXCEPT ![p] = step]

Ends(p) ==
  /\ Goes(p, "off")
  /\ mem' = [mem EXCEPT ![p] = None]
  /\ holds' = holds \ {p}
  /\ resolved' = resolved \ {p}

\* The metadata of p become m, on disk too.
Save(p, m) ==
  /\ meta' = m
  /\ mem' = [mem EXCEPT ![p] = m]
  /\ holds' = IF p \in holds THEN holds \union {File} ELSE holds \ {File}

RecordCompletedStage(p, stage) == Save(p, [mem[p] EXCEPT !.stage = stage])

\* hasPullCompletedStage: the first step that is not done.
NextStep(stage) ==
  CASE stage = Initialized      -> "files"
    [] stage = EssentialFiles   -> "flatten"
    [] stage = Flattened        -> "dump"
    [] stage = DbDownloaded     -> "apply"
    [] stage = DbApplied        -> "runtime"
    [] stage = RuntimeGenerated -> "register"
    [] OTHER                    -> "entry"

\* Every run sees to the port once the database is there.
ResumeAt(stage) == IF stage >= DbDownloaded THEN "port" ELSE NextStep(stage)

-----------------------------------------------------------------------------
(* The source, the session and the user's consent *)

\* What the remote site answers p.
Accepted(p) == p \in holds /\ exporterOn

InUse(f) == folder[f] # "empty" \/ \E e \in sites : e.folder = f

\* The first numbered name that no site has and whose folder is empty.
NewFolder(f) == ~InUse(f) /\ \A g \in Folders : g < f => InUse(g)

\* Before it was flattened, what is in the folder is taken for user data.
Refuses(m) == m.stage < Flattened /\ folder[m.folder] # "empty"

\* Mutant: what was read is not used.
ResumeSessionUnread(p) ==
  /\ meta # None
  /\ Goes(p, "enable")
  /\ UNCHANGED <<meta, mem>>

ResumeSession(p) ==
  /\ meta # None
  /\ mem' = [mem EXCEPT ![p] = meta]
  /\ Goes(p, CASE Refuses(meta) -> "exit"
               [] meta.stage = Completed -> "exit"
               [] OTHER -> "enable")
  /\ UNCHANGED meta

CreateSession(p) ==
  /\ meta = None
  /\ \E f \in Folders :
       LET m == [stage |-> Initialized, folder |-> f, port |-> 0, secret |-> FALSE] IN
       /\ NewFolder(f)
       /\ meta' = m
       /\ mem' = [mem EXCEPT ![p] = m]
       /\ \E step \in {"confirm", "enable"} : Goes(p, step)

\* With the secrets that h hold.
GetPullSessionMetadata(p, h) ==
  /\ ResumeSession(p) \/ CreateSession(p)
  /\ holds' = h

SecretIsCached == meta # None /\ meta.secret

\* resolveSourceSite: without --url the site is looked up on WordPress.com in
\* any case, with it only if no secret is cached.
Begin(p) ==
  /\ At(p, "off")
  /\ disturbed' = (disturbed \/ Running # {})
  /\ \/ GetPullSessionMetadata(p, holds \union {p})           \* --secret
     \/ /\ SecretIsCached                                       \* --url
        /\ GetPullSessionMetadata(p, IF File \in holds THEN holds \union {p} ELSE holds)
     \/ /\ Goes(p, "rotate")
        /\ UNCHANGED <<meta, mem, holds>>
  /\ UNCHANGED <<disk, folder, sites, others, exporter, faults>>

\* rotateReprintSecret: whoever had the secret before has an old one.
RotateFirst(p) ==
  /\ At(p, "rotate")
  /\ GetPullSessionMetadata(p, {p})
  /\ resolved' = resolved \union {p}
  /\ UNCHANGED <<disk, folder, sites, others, exporterOn, faults, disturbed>>

\* The user declines: the technical directory goes, whatever is in it by now.
Confirm(p) ==
  /\ At(p, "confirm")
  /\ Goes(p, "enable")
  /\ UNCHANGED <<store, sites, others, mem, holds, exporter, faults, disturbed>>

Decline(p) ==
  /\ At(p, "confirm") /\ faults < MaxFaults
  /\ meta' = None /\ disk' = EmptyDirectory
  /\ at' = [at EXCEPT ![p] = "off"]
  /\ mem' = [mem EXCEPT ![p] = None]
  /\ holds' = holds \ {p, File}
  /\ resolved' = resolved \ {p}
  /\ faults' = faults + 1
  /\ disturbed' = (disturbed \/ Running # {p})
  /\ UNCHANGED <<folder, sites, others, exporterOn>>

Exit(p) ==
  /\ At(p, "exit")
  /\ Ends(p)
  /\ UNCHANGED <<store, sites, others, exporterOn, faults, disturbed>>

-----------------------------------------------------------------------------
(* The exporter and preflight, which is answered from its cache if it has   *)
(* one.                                                                     *)

\* Only a run that has looked the site up can enable the exporter.
EnableReprintExporter(p) ==
  /\ At(p, "enable")
  /\ Goes(p, "preflight")
  /\ exporterOn' = (exporterOn \/ p \in resolved)
  /\ UNCHANGED <<store, sites, others, mem, holds, resolved, faults, disturbed>>

Preflight(p) ==
  /\ at[p] \in {"preflight", "again"}
  /\ IF disk.preflight \/ Accepted(p)
     THEN /\ disk' = [disk EXCEPT !.preflight = TRUE]
          /\ Save(p, [mem[p] EXCEPT !.secret = TRUE])
          /\ Goes(p, ResumeAt(mem[p].stage))
     ELSE /\ Goes(p, IF At(p, "preflight") THEN "renew" ELSE "exit")
          /\ UNCHANGED <<meta, disk, mem, holds>>
  /\ UNCHANGED <<folder, sites, others, exporter, faults, disturbed>>

RotateReprintSecret(p) ==
  /\ At(p, "renew")
  /\ Goes(p, "again")
  /\ holds' = {p}
  /\ UNCHANGED <<store, sites, others, mem, exporter, faults, disturbed>>

-----------------------------------------------------------------------------
(* The stages.  Each waits for a command of reprint.phar.                    *)

\* Mutant: reprint.phar is trusted to see to it.
RestartNever == FALSE

\* Indexing was killed before its first cursor was saved: a plain files-sync
\* would look for the cursor.
ShouldRestartFilesSyncIndex == disk.files = "torn"

ClearFilesSyncIndex(p) ==
  /\ At(p, "files") /\ ShouldRestartFilesSyncIndex
  /\ disk' = [disk EXCEPT !.files = "none"]
  /\ UNCHANGED <<meta, folder, sites, others, at, mem, holds, exporter, faults, disturbed>>

\* What the command that p waits for leaves on disk when it is done.
Output(p) ==
  \/ /\ At(p, "files") /\ disk.files # "torn" /\ Accepted(p)
     /\ \E skipped \in BOOLEAN : disk' = [disk EXCEPT !.files = "synced", !.rest = skipped]
     /\ UNCHANGED folder
  \/ /\ At(p, "flatten")
     /\ folder' = [folder EXCEPT ![mem[p].folder] = "site"]
     /\ UNCHANGED disk
  \/ At(p, "dump") /\ Accepted(p) /\ disk' = [disk EXCEPT !.dump = TRUE] /\ UNCHANGED folder
  \/ At(p, "apply") /\ disk' = [disk EXCEPT !.db = mem[p].port] /\ UNCHANGED folder
  \/ At(p, "runtime") /\ disk' = [disk EXCEPT !.runtime = TRUE] /\ UNCHANGED folder
  \/ /\ At(p, "rest") /\ (disk.rest => Accepted(p))
     /\ disk' = [disk EXCEPT !.rest = FALSE] /\ UNCHANGED folder

\* And when it is killed half-way.
PartOfOutput(p) ==
  \/ /\ At(p, "files") /\ disk.files = "none" /\ Accepted(p)
     /\ disk' = [disk EXCEPT !.files = "torn"] /\ UNCHANGED folder
  \/ /\ At(p, "flatten")
     /\ folder' = [folder EXCEPT ![mem[p].folder] = "part"] /\ UNCHANGED disk
  \/ At(p, "apply") /\ disk' = [disk EXCEPT !.db = 0] /\ UNCHANGED folder

Stage(p, step, stage, next) ==
  /\ At(p, step)
  /\ Output(p)
  /\ RecordCompletedStage(p, stage)
  /\ Goes(p, next)
  /\ UNCHANGED <<sites, others, exporter, faults, disturbed>>

DownloadEssentialSiteFiles(p) == Stage(p, "files", EssentialFiles, "flatten")
RefreshFlattenedSiteDirectory(p) == Stage(p, "flatten", Flattened, "dump")
DownloadRemoteDatabase(p) == Stage(p, "dump", DbDownloaded, "port")
ApplyDownloadedDatabase(p) == Stage(p, "apply", DbApplied, "runtime")
GenerateRuntimeConfiguration(p) == Stage(p, "runtime", RuntimeGenerated, "register")

\* The last one has nothing to do if no file was skipped.
DownloadSkippedFiles(p) == Stage(p, "rest", Completed, "exit")

\* The remote site refuses the secret, or its exporter is off by now.
Rejected(p) ==
  /\ ~Accepted(p)
  /\ \/ At(p, "files") /\ ~ShouldRestartFilesSyncIndex
     \/ At(p, "dump")
     \/ At(p, "rest") /\ disk.rest
  /\ Goes(p, "exit")
  /\ UNCHANGED <<store, sites, others, mem, holds, exporter, faults, disturbed>>

\* Mutant: a resumed pull looks for a port again.
EnsurePortAnew(p) ==
  /\ At(p, "port")
  /\ \E q \in Ports :
       /\ IF sites = {} THEN q \notin others ELSE \E e \in sites : e.port = q
       /\ Save(p, [mem[p] EXCEPT !.port = q])
  /\ Goes(p, NextStep(mem[p].stage))
  /\ UNCHANGED <<disk, folder, sites, others, exporter, faults, disturbed>>

\* The port of the entry there is, or one that no entry has.
EnsurePort(p) ==
  /\ At(p, "port")
  /\ \/ mem[p].port # 0 /\ UNCHANGED <<meta, mem, holds>>
     \/ /\ mem[p].port = 0
        /\ \E q \in Ports :
             /\ IF sites = {} THEN q \notin others ELSE \E e \in sites : e.port = q
             /\ Save(p, [mem[p] EXCEPT !.port = q])
  /\ Goes(p, NextStep(mem[p].stage))
  /\ UNCHANGED <<disk, folder, sites, others, exporter, faults, disturbed>>

-----------------------------------------------------------------------------
(* The entry of the config file and the start of the site                    *)

\* registerSite, before it has the lock.
FindExistingSite(p) ==
  /\ At(p, "register")
  /\ IF sites # {}
     THEN RecordCompletedStage(p, SiteRegistered) /\ Goes(p, "entry")
     ELSE Goes(p, "lock") /\ UNCHANGED <<meta, mem, holds>>
  /\ UNCHANGED <<disk, folder, sites, others, exporter, faults, disturbed>>

\* Mutant: what was found before there was a lock is taken to hold.
RegisterSiteUnlocked(p) ==
  /\ At(p, "lock")
  /\ sites' = sites \union {[folder |-> mem[p].folder, port |-> mem[p].port]}
  /\ Goes(p, "registered")
  /\ UNCHANGED <<meta, mem, holds, disk, folder, others, exporter, faults, disturbed>>

\* With the lock: read, look again, write, in one step; what a waiter does
\* that has waited too long for the lock is SiteCommands'.
RegisterSite(p) ==
  /\ At(p, "lock")
  /\ \/ /\ sites = {}
        /\ sites' = {[folder |-> mem[p].folder, port |-> mem[p].port]}
        /\ Goes(p, "registered")
        /\ UNCHANGED <<meta, mem, holds>>
     \/ \E e \in sites :
          /\ Save(p, [mem[p] EXCEPT !.port = e.port, !.stage = SiteRegistered])
          /\ Goes(p, "entry")
          /\ UNCHANGED sites
  /\ UNCHANGED <<disk, folder, others, exporter, faults, disturbed>>

RecordRegistered(p) ==
  /\ At(p, "registered")
  /\ RecordCompletedStage(p, SiteRegistered)
  /\ Goes(p, "entry")
  /\ UNCHANGED <<disk, folder, sites, others, exporter, faults, disturbed>>

\* An entry that is gone is an error.
ReadEntry(p) ==
  /\ At(p, "entry")
  /\ Goes(p, CASE sites = {} -> "exit"
               [] mem[p].stage = SiteRegistered -> "start"
               [] OTHER -> "rest")
  /\ UNCHANGED <<store, sites, others, mem, holds, exporter, faults, disturbed>>

\* Another entry has the port as well, and its site may run.
PortIsTaken == \E e \in sites : e.port \in others

StartSite(p) ==
  /\ At(p, "start")
  /\ \/ /\ sites = {} \/ PortIsTaken
        /\ Goes(p, "exit") /\ UNCHANGED <<meta, mem, holds>>
     \/ /\ sites # {}
        /\ RecordCompletedStage(p, SiteStarted) /\ Goes(p, "rest")
  /\ UNCHANGED <<disk, folder, sites, others, exporter, faults, disturbed>>

-----------------------------------------------------------------------------
(* What interrupts a pull, and what others do                                *)

\* A kill, or an error of what p waits for; what p had asked for may be done,
\* or half done.
Kill(p) ==
  /\ at[p] \notin {"off", "exit"} /\ faults < MaxFaults
  /\ at' = [at EXCEPT ![p] = "off"]
  /\ mem' = [mem EXCEPT ![p] = None]
  /\ resolved' = resolved \ {p}
  /\ \/ /\ holds' = holds \ {p} /\ UNCHANGED exporterOn
        /\ Output(p) \/ PartOfOutput(p) \/ UNCHANGED <<disk, folder>>
     \/ /\ at[p] \in {"rotate", "renew"}
        /\ holds' = {} /\ UNCHANGED <<disk, folder, exporterOn>>
     \/ /\ At(p, "enable") /\ p \in resolved /\ exporterOn' = TRUE
        /\ holds' = holds \ {p} /\ UNCHANGED <<disk, folder>>
     \/ /\ at[p] \in {"preflight", "again"} /\ Accepted(p)
        /\ disk' = [disk EXCEPT !.preflight = TRUE]
        /\ holds' = holds \ {p} /\ UNCHANGED <<folder, exporterOn>>
  /\ faults' = faults + 1
  /\ UNCHANGED <<meta, sites, others, disturbed>>

\* Mutant: the technical directory stays.
AbortPullFolder ==
  /\ meta # None /\ meta.stage # Completed /\ faults < MaxFaults
  /\ folder' = [folder EXCEPT ![meta.folder] = "empty"]
  /\ faults' = faults + 1
  /\ disturbed' = (disturbed \/ Running # {} \/ sites # {})
  /\ UNCHANGED <<meta, disk, holds, sites, others, at, mem, exporter>>

\* --abort: the folder and the technical directory go, the entry stays.
AbortPull ==
  /\ meta # None /\ meta.stage # Completed /\ faults < MaxFaults
  /\ folder' = [folder EXCEPT ![meta.folder] = "empty"]
  /\ meta' = None /\ disk' = EmptyDirectory
  /\ holds' = holds \ {File}
  /\ faults' = faults + 1
  /\ disturbed' = (disturbed \/ Running # {} \/ sites # {})
  /\ UNCHANGED <<sites, others, at, mem, exporter>>

\* site delete, with or without --no-files
DeleteSite(e) ==
  /\ e \in sites /\ faults < MaxFaults
  /\ sites' = sites \ {e}
  /\ \/ UNCHANGED <<store, holds>>
     \/ /\ folder' = [folder EXCEPT ![e.folder] = "empty"]
        /\ meta' = None /\ disk' = EmptyDirectory
        /\ holds' = holds \ {File}
  /\ faults' = faults + 1
  /\ disturbed' = (disturbed \/ Running # {})
  /\ UNCHANGED <<others, at, mem, exporter>>

\* site create of another site; one port is left.
CreateOther ==
  /\ \E q \in Ports \ others :
       /\ \A e \in sites : e.port # q
       /\ Ports # others \union {q}
       /\ others' = others \union {q}
  /\ UNCHANGED <<store, sites, at, mem, holds, exporter, faults, disturbed>>

\* The remote site, or another machine, makes a new secret.
ExpireSecret ==
  /\ holds # {} /\ faults < MaxFaults
  /\ holds' = {}
  /\ faults' = faults + 1
  /\ UNCHANGED <<store, sites, others, at, mem, exporter, disturbed>>

\* An hour has gone by since the exporter was last enabled.
ExporterTimesOut ==
  /\ exporterOn /\ faults < MaxFaults
  /\ exporterOn' = FALSE
  /\ faults' = faults + 1
  /\ UNCHANGED <<store, sites, others, at, mem, holds, resolved, disturbed>>

Step(p) == \/ RotateFirst(p) \/ Confirm(p) \/ Exit(p)
           \/ EnableReprintExporter(p) \/ Preflight(p) \/ RotateReprintSecret(p)
           \/ ClearFilesSyncIndex(p) \/ DownloadEssentialSiteFiles(p)
           \/ RefreshFlattenedSiteDirectory(p) \/ DownloadRemoteDatabase(p)
           \/ EnsurePort(p) \/ ApplyDownloadedDatabase(p) \/ GenerateRuntimeConfiguration(p)
           \/ DownloadSkippedFiles(p) \/ Rejected(p)
           \/ FindExistingSite(p) \/ RegisterSite(p) \/ RecordRegistered(p)
           \/ ReadEntry(p) \/ StartSite(p)

Rerun == Running = {} /\ \E p \in Pulls : Begin(p)

Fault == \/ \E p \in Pulls : Kill(p) \/ Decline(p)
         \/ AbortPull \/ \E e \in sites : DeleteSite(e)
         \/ ExpireSecret \/ ExporterTimesOut

Next == Fault \/ CreateOther \/ \E p \in Pulls : Begin(p) \/ Step(p)

Spec == Init /\ [][Next]_vars

\* The user runs an interrupted command again; reprint.phar ends.
FairSpec == Spec /\ WF_vars(Rerun) /\ \A p \in Pulls : WF_vars(Step(p))
-----------------------------------------------------------------------------
Steps == {"off", "exit", "rotate", "confirm", "enable", "preflight", "renew", "again", "files",
          "flatten", "dump", "port", "apply", "runtime", "register", "lock", "registered", "entry",
          "start", "rest"}
Sessions == [stage : Initialized..Completed, folder : Folders, port : 0..MaxPort, secret : BOOLEAN]

(* The values the variables have; a process that is not running has forgotten  *)
(* its metadata and its secret.                                                *)
TypeOK ==
  /\ meta \in Sessions \union {None}
  /\ disk \in [preflight : BOOLEAN, files : {"none", "torn", "synced"}, dump : BOOLEAN,
                db : 0..MaxPort, runtime : BOOLEAN, rest : BOOLEAN]
  /\ folder \in [Folders -> {"empty", "part", "site"}]
  /\ sites \subseteq [folder : Folders, port : 0..MaxPort]
  /\ others \subseteq Ports
  /\ at \in [Pulls -> Steps]
  /\ mem \in [Pulls -> Sessions \union {None}]
  /\ \A p \in Pulls : at[p] \notin {"off", "rotate"} => mem[p] # None
  /\ holds \subseteq Pulls \union {File}
  /\ exporterOn \in BOOLEAN /\ resolved \subseteq Pulls
  /\ faults \in 0..MaxFaults /\ disturbed \in BOOLEAN

(* "two parallel pull-reprint runs can't both insert a record for the same     *)
(* directory": however runs, kills, aborts and deletions overlap.              *)
OneEntry == \A e, f \in sites : e = f

(* A stage that pull.json calls complete has its output on disk, wherever the  *)
(* runs before were killed; a run that goes on after it may use it.            *)
StagesAreBacked ==
  ~disturbed /\ meta # None =>
    /\ meta.stage >= EssentialFiles => disk.files = "synced"
    /\ meta.stage >= Flattened => folder[meta.folder] = "site"
    /\ meta.stage >= DbDownloaded => disk.dump
    /\ meta.stage >= DbApplied => disk.db = meta.port /\ meta.port # 0
    /\ meta.stage >= RuntimeGenerated => disk.runtime
    /\ meta.stage = Completed => ~disk.rest

(* The URLs in the database name the port that the site is served on, and the  *)
(* entry names the folder that was filled, although the port was chosen by an  *)
(* earlier run and other sites have come since.                                *)
EntryMatchesPull ==
  ~disturbed /\ meta # None =>
    \A e \in sites : e.port = disk.db /\ e.folder = meta.folder

PullIsSound == OneEntry /\ StagesAreBacked /\ EntryMatchesPull

\* What is left to do needs the remote site.
NeedsSource == meta.stage < DbDownloaded \/ disk.rest

\* What the same command may not get over, however often it is run: README,
\* "Known divergences".
Stuck ==
  /\ meta # None
  /\ \/ Refuses(meta)
     \/ NeedsSource /\ meta.secret /\ disk.preflight /\ File \notin holds
     \/ NeedsSource /\ ~exporterOn
     \/ meta.stage >= SiteRegistered /\ sites = {}
     \/ meta.stage = SiteRegistered /\ PortIsTaken

(* "a crash anywhere in the pipeline resumes at the next stage on re-run": once *)
(* nothing interrupts it any more, a pull that is run again until it ends is    *)
(* completed, with the exceptions in Stuck.                                     *)
PullEnds == <>[](disturbed \/ Stuck \/ (meta # None /\ meta.stage = Completed))

(* "If it's stale, preflight will 403 later and fall back to rotating a fresh  *)
(* one": a cached secret that the remote site refuses is replaced.             *)
\* The code does not keep it: README, "Known divergences".
StaleSecretIsRenewed ==
  SecretIsCached /\ File \notin holds
  ~> File \in holds \/ meta = None \/ (meta # None /\ meta.stage = Completed)

(* "Runs on every pull (including resumes) since the sliding window may have    *)
(* expired between runs": the exporter is on when a run comes to preflight.    *)
\* The code does not keep it: README, "Known divergences".
RunsEnableTheExporter ==
  [][\A p \in Pulls : At(p, "enable") /\ at'[p] = "preflight" => exporterOn']_vars

(* A run that was killed while it flattened the site can be run again.         *)
\* The code does not keep it: README, "Known divergences".
FlatteningResumes == ~disturbed /\ meta # None => ~Refuses(meta)

(* A pull that says it is completed has a site.                                *)
\* The code does not keep it: README, "Known divergences".
CompletedHasSite == meta # None /\ meta.stage = Completed => sites # {}

(* The folder of a registered pull is the one its site is served from.         *)
\* The code does not keep it: README, "Known divergences".
PulledFolderIsServed ==
  meta # None /\ meta.stage >= SiteRegistered => \A e \in sites : e.folder = meta.folder

(* No two sites have the same port.                                            *)
\* The code does not keep it: README, "Known divergences".
PortsDiffer == \A e \in sites : e.port \notin others
=============================================================================
