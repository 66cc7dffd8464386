---------------------------- MODULE PhpServerChild ----------------------------
(***************************************************************************)
(* The server child of a native PHP site (apps/cli/php-server-child.ts)    *)
(* and the PHP processes it spawns (lib/native-php/php-process.ts).        *)
(*                                                                         *)
(* One Node.js process, the wrapper, runs a pool of PHP workers behind an  *)
(* HTTP proxy.  Three asynchronous jobs change the pool: the startup that  *)
(* a start-server message begins, the restart that a new symlink under     *)
(* wp-content begins (open_basedir cannot be extended while PHP runs), and *)
(* the stop of a stop-server message.  They share module variables and     *)
(* interleave at every await; one stage of a job is one action.            *)
(*                                                                         *)
(* Whatever goes wrong ends the wrapper: a failed job exits, and so do the *)
(* unexpected exit of a worker, a signal and the end of the IPC channel.   *)
(* The wrapper being killed from outside is ProcessManager's concern.      *)
(*                                                                         *)
(* Abstracted: WordPress installation and blueprints (stages of a startup  *)
(* that share nothing with the other jobs), ports, request contents, and   *)
(* the escalation from SIGTERM to SIGKILL for a worker that is stopped.    *)
(* The site's file access is "site directory": otherwise there are no      *)
(* allowlist, watcher and restarts.                                        *)
(***************************************************************************)
EXTENDS Naturals, FiniteSets

CONSTANTS Links,       \* symlink targets that may appear under wp-content
          Requests,    \* HTTP requests
          PoolSize,    \* NATIVE_PHP_WORKER_POOL_SIZE
          MaxStarts,   \* bound: startups
          MaxFailures  \* bound: failures of the symlink watcher, below its budget

ASSUME PoolIsNotEmpty == PoolSize \in Nat \ {0}
ASSUME BoundsAreNat == {MaxStarts, MaxFailures} \subseteq Nat
ASSUME SetsAreFinite == IsFiniteSet(Links) /\ IsFiniteSet(Requests)

Jobs == {"startup", "restart"}
\* Each restart is for a link that was not on the allowlist.
Pools == 1..(MaxStarts + Cardinality(Links))
Index == 1..PoolSize
Worker == Pools \X Index

VARIABLES
  wrapper,    \* "up" or "gone"
  at,         \* at[k]: the stage of the startup, the restart and the stop
  building,   \* building[j]: the pool job j is starting, 0 for none
  pools,      \* pools begun so far
  phpProcess, \* the pool that runs (the code keeps its first worker), 0 for none
  current,    \* the pool of phpWorkerProcesses, 0 for none
  proxy,      \* the pool phpProxyServer was started for, 0 for none
  alive,      \* the workers that are alive
  grants,     \* grants[w]: the symlink targets open_basedir of worker w allows
  dropped,    \* workers whose exit listener stopPhpChild has removed
  runningConfig, aborted, \* runningConfig is set; startupAbortController has aborted
  allowlist,  \* symlink targets in currentOpenBasedirAllowlist
  timer,      \* symlinkRestartTimer is set
  watch,      \* the watcher: "off", "scan", "on", or "dead" until it heals
  reconcile,  \* reconcileSymlinkAllowlist is scanning
  seen,       \* links the watcher is inspecting
  disk,       \* links that are there
  counts,     \* phpWorkerRequestTracker: open requests by worker index
  open,       \* open[r]: the worker index request r was proxied to, 0 for none
  released,   \* requests whose release() has run
  starts, failures, \* startups begun; watcher failures
  late,       \* history: links that appeared while the watcher was on or dead
  due         \* history: links on the allowlist when the last restart began

jobVars == <<wrapper, at, building, pools, aborted, starts>>
poolVars == <<phpProcess, current, proxy, alive, grants, dropped, runningConfig>>
linkVars == <<allowlist, timer, watch, reconcile, seen, disk, failures, late, due>>
requestVars == <<counts, open, released>>
vars == <<jobVars, poolVars, linkVars, requestVars>>

Init ==
  /\ wrapper = "up"
  /\ at = [k \in Jobs \cup {"stop"} |-> "idle"]
  /\ building = [j \in Jobs |-> 0]
  /\ pools = 0 /\ phpProcess = 0 /\ current = 0 /\ proxy = 0
  /\ alive = {} /\ grants = [w \in Worker |-> {}] /\ dropped = {}
  /\ runningConfig = FALSE /\ aborted = FALSE
  /\ allowlist = {} /\ timer = FALSE /\ watch = "off" /\ reconcile = FALSE
  /\ seen = {} /\ disk \in SUBSET Links
  /\ counts = <<>> /\ open = [r \in Requests |-> 0] /\ released = {}
  /\ starts = 0 /\ failures = 0 /\ late = {} /\ due = {}
-----------------------------------------------------------------------------
(* Helpers. *)

Up == wrapper = "up"
Goto(k, stage) == at' = [at EXCEPT ![k] = stage]
WorkersOf(p) == {p} \X Index

\* Mutant: only the workers of the promoted pool are killed.
KilledAtExitPromoted == alive \cap WorkersOf(current)
\* killAllLivePhpProcesses: every PHP process spawned and not exited.
KilledAtExit == alive

\* The wrapper exits; its 'exit' handler kills the PHP processes.
Exit ==
  /\ wrapper' = "gone"
  /\ alive' = alive \ KilledAtExit
  /\ UNCHANGED <<at, building, pools, aborted, starts, phpProcess, current, proxy, grants,
                 dropped, runningConfig, linkVars, requestVars>>
-----------------------------------------------------------------------------
(* The startup: startServer. *)

\* start-server.  One that finds a startup in progress joins it, one that finds
\* the server running is answered at once: neither changes anything.
StartServer ==
  /\ Up /\ starts < MaxStarts
  /\ at["startup"] = "idle" /\ phpProcess = 0
  /\ starts' = starts + 1
  /\ Goto("startup", "prepare") /\ aborted' = FALSE
  /\ UNCHANGED <<wrapper, building, pools, poolVars, linkVars, requestVars>>

\* WordPress is installed; the existing symlinks are collected ...
CollectLinks ==
  /\ Up /\ at["startup"] = "prepare" /\ ~aborted
  /\ allowlist' = allowlist \cup disk
  /\ runningConfig' = TRUE
  /\ Goto("startup", "ports")
  /\ UNCHANGED <<wrapper, building, pools, aborted, starts, phpProcess, current, proxy, alive,
                 grants, dropped, timer, watch, reconcile, seen, disk, failures, late, due,
                 requestVars>>

\* ... and, once the server answers, the admin's credentials are set.
SetCredentials ==
  /\ Up /\ at["startup"] = "credentials" /\ ~aborted
  /\ Goto("startup", "idle")
  /\ UNCHANGED <<wrapper, building, pools, aborted, starts, poolVars, linkVars, requestVars>>
-----------------------------------------------------------------------------
(* The pool: doStartServer for job j. *)

Building(j) == Up /\ ~(j = "startup" /\ aborted)

\* Mutant: a restart spawns the workers with the arguments of the old ones.
GrantedBefore(j) == IF j = "restart" THEN UNION {grants[w] : w \in Worker} ELSE allowlist
\* Every worker gets the allowlist of the moment it is spawned.
Granted(j) == allowlist

\* Ports are found: a fresh request tracker, and the first worker is spawned.
Spawn(j, p, i) ==
  /\ alive' = alive \cup {<<p, i>>}
  /\ grants' = [grants EXCEPT ![<<p, i>>] = Granted(j)]
  /\ Goto(j, IF i = PoolSize THEN "ready" ELSE "spawn")

SpawnFirst(j) ==
  /\ Building(j) /\ at[j] = "ports"
  /\ pools' = pools + 1
  /\ building' = [building EXCEPT ![j] = pools']
  /\ counts' = [i \in Index |-> 0]
  /\ Spawn(j, pools', 1)
  /\ UNCHANGED <<wrapper, aborted, starts, phpProcess, current, proxy, dropped, runningConfig,
                 linkVars, open, released>>

SpawnNext(j) ==
  /\ Building(j) /\ at[j] = "spawn"
  /\ \E i \in Index : /\ <<building[j], i - 1>> \in alive /\ <<building[j], i>> \notin alive
                      /\ Spawn(j, building[j], i)
  /\ UNCHANGED <<wrapper, building, pools, aborted, starts, phpProcess, current, proxy, dropped,
                 runningConfig, linkVars, requestVars>>

\* All workers answer and the proxy listens on the site's port.
Listen(j) ==
  /\ Building(j) /\ at[j] = "ready" /\ proxy = 0
  /\ proxy' = building[j] /\ current' = building[j]
  /\ Goto(j, "check")
  /\ UNCHANGED <<wrapper, building, pools, aborted, starts, phpProcess, alive, grants, dropped,
                 runningConfig, linkVars, requestVars>>

\* The site answers: the watcher is started, the job has its server.
Served(j) ==
  /\ Building(j) /\ at[j] = "check"
  /\ watch' = IF watch = "off" THEN "scan" ELSE watch
  /\ phpProcess' = building[j]
  /\ building' = [building EXCEPT ![j] = 0]
  /\ Goto(j, IF j = "startup" THEN "credentials" ELSE "idle")
  /\ UNCHANGED <<wrapper, pools, aborted, starts, current, proxy, alive, grants, dropped,
                 runningConfig, allowlist, timer, reconcile, seen, disk, failures, late, due,
                 requestVars>>

\* A stage fails, the port is taken, the startup is aborted: the job cleans up
\* its pool, reports the error and exits.
JobFails(j) ==
  /\ Up /\ at[j] \in {"prepare", "ports", "spawn", "ready", "check", "credentials"}
  /\ Exit
\* An aborted startup fails at its next check.
AbortedFails == aborted /\ JobFails("startup")
-----------------------------------------------------------------------------
(* The restart: restartPhpServer. *)

\* Mutant: the restart does not wait for the old workers.
NextAfterClose == "ports"
\* stopPhpChild waits for the workers to exit.
AfterClose == "stopping"

\* Mutant: the proxy is told to close but not waited for.
DrainedAtOnce == TRUE
\* server.close() calls back when the last connection has ended.
Drained == \A r \in Requests : open[r] = 0

\* stopCurrentPhpServer, up to its first await: the pool and the proxy are
\* taken from the module variables, the tracker is emptied.
TakeDown ==
  /\ phpProcess' = 0 /\ current' = 0 /\ proxy' = 0
  /\ counts' = <<>>

\* The debounced restart; with no server running it is dropped.
TimerFires ==
  /\ Up /\ timer
  /\ at["restart"] = "idle" \/ phpProcess = 0 \* two restarts at once need two servers
  /\ timer' = FALSE
  /\ IF phpProcess # 0 /\ runningConfig
     THEN /\ Goto("restart", "closing")
          /\ building' = [building EXCEPT !["restart"] = phpProcess]
          /\ due' = allowlist
          /\ TakeDown
     ELSE UNCHANGED <<at, building, due, phpProcess, current, proxy, counts>>
  /\ UNCHANGED <<wrapper, pools, aborted, starts, alive, grants, dropped, runningConfig, allowlist,
                 watch, reconcile, seen, disk, failures, late, open, released>>

\* The proxy is closed; stopPhpChild removes the workers' listeners.
RestartClosed ==
  /\ Up /\ at["restart"] = "closing" /\ Drained
  /\ dropped' = dropped \cup WorkersOf(building["restart"])
  /\ Goto("restart", AfterClose)
  /\ UNCHANGED <<wrapper, building, pools, aborted, starts, phpProcess, current, proxy, alive,
                 grants, runningConfig, linkVars, requestVars>>

\* The old workers have exited.  A stop has taken the configuration away in
\* the meantime: doStartServer throws and the wrapper exits.
RestartStopped ==
  /\ Up /\ at["restart"] = "stopping"
  /\ IF runningConfig
     THEN /\ alive' = alive \ WorkersOf(building["restart"])
          /\ Goto("restart", "ports")
          /\ building' = [building EXCEPT !["restart"] = 0]
          /\ UNCHANGED <<wrapper, pools, aborted, starts, phpProcess, current, proxy, grants,
                         dropped, runningConfig, linkVars, requestVars>>
     ELSE Exit
-----------------------------------------------------------------------------
(* The stop: stopServer. *)

\* stop-server during a startup aborts it.
StopAborts ==
  /\ Up /\ at["startup"] # "idle"
  /\ aborted' = TRUE
  /\ UNCHANGED <<wrapper, at, building, pools, starts, poolVars, linkVars, requestVars>>

\* Otherwise it stops the watcher first ...
StopServer ==
  /\ Up /\ at["startup"] = "idle" /\ at["stop"] = "idle"
  /\ timer' = FALSE /\ watch' = "off"
  /\ Goto("stop", "watcher")
  /\ UNCHANGED <<wrapper, building, pools, aborted, starts, poolVars, allowlist, reconcile, seen,
                 disk, failures, late, due, requestVars>>

\* ... then the server, if it finds one, and disconnects: the wrapper exits.
StopWatcherClosed ==
  /\ Up /\ at["stop"] = "watcher"
  /\ IF current = 0 /\ proxy = 0 /\ phpProcess = 0 THEN Exit
     ELSE /\ runningConfig' = FALSE /\ allowlist' = {}
          /\ Goto("stop", "closing")
          /\ TakeDown
          /\ UNCHANGED <<wrapper, building, pools, aborted, starts, alive, grants, dropped, timer,
                         watch, reconcile, seen, disk, failures, late, due, open, released>>

\* Mutant: the wrapper does not disconnect.
StayAfterStop == Goto("stop", "idle") /\ UNCHANGED <<wrapper, building, pools, aborted, starts,
                                               poolVars, linkVars, requestVars>>
AfterStop == Exit

StopClosed == Up /\ at["stop"] = "closing" /\ Drained /\ AfterStop

\* SIGTERM, SIGINT, or the daemon is gone.
Signal == Up /\ Exit
-----------------------------------------------------------------------------
(* Symlinks. *)

\* A symlink appears; a working watcher gets an event and inspects it.
LinkAppears(l) ==
  /\ Up /\ l \notin disk
  /\ disk' = disk \cup {l}
  /\ seen' = IF watch = "on" THEN seen \cup {l} ELSE seen
  /\ late' = IF watch \in {"on", "dead"} THEN late \cup {l} ELSE late
  /\ UNCHANGED <<jobVars, poolVars, allowlist, timer, watch, reconcile, failures, due, requestVars>>

\* Mutant: known links restart the timer, too.
AllowAgain(found) == allowlist' = allowlist \cup found /\ timer' = (timer \/ found # {})
\* What is new among found goes on the allowlist and (re)starts the timer.
Allow(found) ==
  /\ allowlist' = allowlist \cup found
  /\ timer' = (timer \/ ~(found \subseteq allowlist))

\* The watcher's 'symlink' event, which an inspection in progress emits even
\* after the watcher was stopped.
LinkSeen(l) ==
  /\ Up /\ l \in seen
  /\ seen' = seen \ {l}
  /\ Allow({l})
  /\ UNCHANGED <<jobVars, poolVars, watch, reconcile, disk, failures, late, due, requestVars>>

\* The initial scan is over, whose finds are ignored (ignoreInitial): from now
\* on what is new is an event.
WatcherScanned ==
  /\ Up /\ watch = "scan"
  /\ watch' = "on"
  /\ UNCHANGED <<jobVars, poolVars, allowlist, timer, reconcile, seen, disk, failures, late, due,
                 requestVars>>

WatcherFails ==
  /\ Up /\ watch \in {"scan", "on"} /\ failures < MaxFailures
  /\ watch' = "dead" /\ failures' = failures + 1
  /\ UNCHANGED <<jobVars, poolVars, allowlist, timer, reconcile, seen, disk, late, due, requestVars>>

\* Mutant: the caller does not scan again.
ReconcileNot == FALSE
\* The 'restart' handler scans for what appeared in the dead window.
ReconcileAfterHeal == TRUE

\* The watcher is attached again and says so.
WatcherHeals ==
  /\ Up /\ watch = "dead"
  /\ watch' = "scan" /\ reconcile' = (reconcile \/ ReconcileAfterHeal)
  /\ UNCHANGED <<jobVars, poolVars, allowlist, timer, seen, disk, failures, late, due, requestVars>>

Reconcile ==
  /\ Up /\ reconcile
  /\ reconcile' = FALSE
  /\ Allow(disk)
  /\ UNCHANGED <<jobVars, poolVars, watch, seen, disk, failures, late, due, requestVars>>
-----------------------------------------------------------------------------
(* Requests and workers. *)

\* PhpWorkerRequestTracker.set: an index it does not know is ignored, and a
\* count does not fall below 0.
CountUp(i) == IF i \in DOMAIN counts THEN [counts EXCEPT ![i] = @ + 1] ELSE counts
CountDown(i) ==
  IF i \in DOMAIN counts /\ counts[i] > 0 THEN [counts EXCEPT ![i] = @ - 1] ELSE counts

\* getFirstFreeWorker: the first index with the least count.
Free == CHOOSE i \in DOMAIN counts :
          \A j \in DOMAIN counts : counts[i] <= counts[j] /\ (i <= j \/ counts[i] < counts[j])

\* A request comes to the proxy; others than GET go to the primary worker.
RequestArrives(r) ==
  /\ Up /\ proxy # 0 /\ open[r] = 0 /\ counts # <<>>
  /\ \E i \in {1, Free} : open' = [open EXCEPT ![r] = i] /\ counts' = CountUp(i)
  /\ released' = released \ {r}
  /\ UNCHANGED <<jobVars, poolVars, linkVars>>

\* Mutant: release counts down each time it is called.
ReleaseAgain(r) == counts' = CountDown(open[r]) /\ released' = released \cup {r}
Release(r) ==
  /\ counts' = IF r \in released THEN counts ELSE CountDown(open[r])
  /\ released' = released \cup {r}

\* The connection to the worker breaks; the response is still to be closed.
WorkerRefuses(r) ==
  /\ Up /\ open[r] # 0 /\ r \notin released
  /\ Release(r)
  /\ UNCHANGED <<jobVars, poolVars, linkVars, open>>

RequestCloses(r) ==
  /\ Up /\ open[r] # 0
  /\ Release(r)
  /\ open' = [open EXCEPT ![r] = 0]
  /\ UNCHANGED <<jobVars, poolVars, linkVars>>

\* A worker exits: unexpected unless it is being stopped.
WorkerExits(w) ==
  /\ Up /\ w \in alive
  /\ IF w \in dropped
     THEN /\ alive' = alive \ {w}
          /\ UNCHANGED <<jobVars, phpProcess, current, proxy, grants, dropped, runningConfig,
                         linkVars, requestVars>>
     ELSE Exit
-----------------------------------------------------------------------------
Next ==
  \/ StartServer \/ CollectLinks \/ SetCredentials
  \/ \E j \in Jobs : \/ SpawnFirst(j) \/ SpawnNext(j) \/ Listen(j) \/ Served(j)
                     \/ JobFails(j)
  \/ TimerFires \/ RestartClosed \/ RestartStopped
  \/ StopAborts \/ StopServer \/ StopWatcherClosed \/ StopClosed \/ Signal
  \/ \E l \in Links : LinkAppears(l) \/ LinkSeen(l)
  \/ WatcherScanned \/ WatcherFails \/ WatcherHeals \/ Reconcile
  \/ \E r \in Requests : RequestArrives(r) \/ WorkerRefuses(r) \/ RequestCloses(r)
  \/ \E w \in Worker : WorkerExits(w)

Spec == Init /\ [][Next]_vars

\* The wrapper's event loop: every await that is over goes on, timers fire,
\* the watcher inspects and heals.  Messages, failures, symlinks and requests
\* come or not; a request, once open, is closed.
Fairness ==
  /\ WF_vars(CollectLinks) /\ WF_vars(SetCredentials) /\ WF_vars(AbortedFails)
  /\ \A j \in Jobs : WF_vars(SpawnFirst(j) \/ SpawnNext(j) \/ Listen(j) \/ Served(j))
  /\ WF_vars(TimerFires) /\ WF_vars(RestartClosed) /\ WF_vars(RestartStopped)
  /\ WF_vars(StopWatcherClosed) /\ WF_vars(StopClosed)
  /\ \A l \in Links : WF_vars(LinkSeen(l))
  /\ WF_vars(WatcherScanned) /\ WF_vars(WatcherHeals) /\ WF_vars(Reconcile)
  /\ \A r \in Requests : WF_vars(RequestCloses(r))

FairSpec == Spec /\ Fairness
-----------------------------------------------------------------------------
(* Properties. *)

\* Types; and no restart without a new link.
TypeOK ==
  /\ wrapper \in {"up", "gone"}
  /\ at["startup"] \in {"idle", "prepare", "ports", "spawn", "ready", "check", "credentials"}
  /\ at["restart"] \in {"idle", "closing", "stopping", "ports", "spawn", "ready", "check"}
  /\ at["stop"] \in {"idle", "watcher", "closing"}
  /\ pools \in Pools \cup {0}
  /\ building \in [Jobs -> 0..pools]
  /\ {phpProcess, current, proxy} \subseteq 0..pools
  /\ alive \subseteq (1..pools) \X Index /\ dropped \subseteq (1..pools) \X Index
  /\ grants \in [Worker -> SUBSET Links]
  /\ {runningConfig, aborted, timer, reconcile} \subseteq BOOLEAN
  /\ watch \in {"off", "scan", "on", "dead"}
  /\ allowlist \subseteq Links /\ seen \subseteq disk /\ disk \subseteq Links
  /\ late \subseteq disk /\ due \subseteq Links
  /\ counts \in {<<>>} \cup [Index -> 0..Cardinality(Requests)]
  /\ open \in [Requests -> 0..PoolSize] /\ released \subseteq Requests
  /\ starts \in 0..MaxStarts /\ failures \in 0..MaxFailures

\* No PHP worker outlives a wrapper that exits, whichever jobs it had in
\* progress: the workers would keep the site's ports and files.
NoOrphans == wrapper = "gone" => alive = {}

\* A single startup and any restarts and stops never have workers of two pools
\* alive at once: two PHP servers on one site.
OnePool == \A v, w \in alive : v[1] = w[1]

\* While the proxy serves, the tracker counts exactly the requests open at each
\* worker, although requests of the pool before it end during a restart.
TrackerExact ==
  proxy # 0 => \A i \in Index :
    counts[i] = Cardinality({r \in Requests : open[r] = i /\ r \notin released})

\* A worker that lives belongs to the one pool of a wrapper that lives, and what
\* the proxy believes of the pool is true (doStartServer, stopCurrentPhpServer,
\* the exit handlers and the tracker of PhpProxyServer).
PoolIsContained == NoOrphans /\ OnePool /\ TrackerExact

\* Nothing is in progress and nothing is scheduled.
Steady == /\ Up /\ phpProcess # 0 /\ \A k \in Jobs \cup {"stop"} : at[k] = "idle"
          /\ ~timer /\ seen = {} /\ ~reconcile /\ watch = "on"

\* A symlink that appears while there is a watcher ends on the allowlist, also
\* when the watcher was broken at that moment.
LateLinksAllowed == Steady => late \subseteq allowlist

\* After a restart every worker may read what was on the allowlist when the
\* restart began.
RestartGrants == Steady => \A w \in WorkersOf(phpProcess) : due \subseteq grants[w]

\* Symlinks the wrapper has seen come to be readable: allowed by the watcher
\* and its reconciliation, granted by the restart.
LinksAreGranted == LateLinksAllowed /\ RestartGrants

\* After a stop-server message the wrapper ends, whatever it was doing.
StopEndsWrapper == at["stop"] # "idle" \/ aborted ~> wrapper = "gone"

\* "when a new symlink appears under the site directory we have to restart the
\* PHP server with an updated allowlist" (php-server-child.ts:100-102): in a
\* steady state the workers may read whatever is on the allowlist.
\* The code does not keep it: README, "Known divergences".
AllowedIsGranted == Steady => \A w \in WorkersOf(phpProcess) : allowlist \subseteq grants[w]
=============================================================================
