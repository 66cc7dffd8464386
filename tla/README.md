# WordPress Studio: verification project

WordPress Studio runs WordPress sites on a developer's machine. A CLI (`apps/cli`)
does the work; a desktop app (`apps/studio`) and a renderer (`apps/ui`) drive the CLI.
What is hard about it is not WordPress but concurrency: one daemon, many short-lived
commands, one server process per site (with worker processes of its own), a desktop app
that learns of all this from events, chats that run children, transfers that are stopped
and resumed - talking over sockets and IPC channels, sharing files, and any of them may be
interrupted, killed or started twice. This project models that part in TLA+, checks it
with TLC on small instances and proves central safety properties with TLAPS.

## 1. The system

### Components, state and operations

| Component | Source | State | Operations |
|---|---|---|---|
| Process manager daemon | `apps/cli/process-manager-daemon.ts` | `managedProcesses` (by `pmId`), `nextPmId`, `shutdownPromise`, the workers' pids each child reported | `start-process`, `stop-process`, `kill-daemon`, `list-processes`, `send-message-to-process`, `ping`; child events `exit`, `error`, `message`; signals |
| Daemon client, sockets | `apps/cli/lib/daemon-client.ts`, `lib/socket.ts` | the daemon bus of the process, a lock file, two socket files | `connectToDaemon`, `disconnectFromDaemon`, `SocketServer.listen/close`, reconnects |
| Server manager | `apps/cli/lib/wordpress-server-manager.ts` | per call: buffered ready and exit events, timers, the pending answer | `startWordPressServer`, `stopWordPressServer`, `sendMessage`, `runBlueprint`, `sendWpCliCommand` |
| Native PHP server child | `apps/cli/php-server-child.ts`, `lib/native-php/php-process.ts`, `lib/symlinks.ts` | the worker pool, HTTP proxy, request tracker, symlink allowlist and watcher, running and starting flags | `start-server`, `stop-server`, symlink restarts, worker exits, signals |
| Playground server child and its queue | `apps/cli/playground-server-child.ts`, `tools/common/lib/sequential.ts` | server, `startingPromise`, abort controllers, the queue of WP-CLI calls | `start-server`, `stop-server`, `run-blueprint`, `wp-cli-command` |
| Site commands and config file | `apps/cli/commands/site/*.ts`, `lib/cli-config/*.ts`, `lib/site-utils.ts` | the config file and its lock file; the proxy process | `site create/start/stop/delete/set/list/status` |
| Events command, Studio's sites | `apps/cli/commands/_events.ts`, `apps/studio/src/modules/cli`, `site-server.ts`, `use-site-details.tsx` | an event queue in the relay, `SiteServer`s in the main process, a list in the renderer | relay, apply and show events; ask for the list |
| Studio's pushes and pulls | `apps/studio/src/stores/sync`, `modules/sync/lib/ipc-handlers.ts` | the slice's states, poller and callback maps; abort controllers and uploads of the main process | push, pull, cancel, pause, log out, quit |
| Pull of a remote site in stages | `apps/cli/commands/pull-reprint.ts`, `lib/pull/reprint-state.ts` | `pull.json`, the technical directory, the site's folder | run, resume, `--abort` |
| Remote session | `apps/cli/remote-session/*.ts` | poll loop, current turn, status line, photos, state file | poll, run a turn, stream progress, detach |
| Runs of the assistant in Studio | `apps/studio/src/modules/ai-agent/run-manager.ts`, `components/studio-code-session/use-agent-run.tsx` | runs by session and by id; phase, queue, ignored and subscribed runs of the window | send, queue, stop, answer, reload, leave the tab, show another session |
| The rest | AI agent, web server, import and export, previews, proxy, dependency downloads, migrations, windows, renderers | | see "Not modelled" |

### How they interact

    command --control socket: one request, one answer---> daemon --spawn, IPC--> server child --spawn--> PHP workers
       ^  \                                                 |                        |
       |   +--- its own events ----> `_events` relay <------+<------- messages ------+
       |                                 |
       |                                 +--stdout--> Studio main process --IPC--> renderer
       +--- lock file, config file, hosts file --- other commands, Studio

A command that starts a site connects to the daemon (spawning it if there is none),
reads the config file, asks the daemon for a process, waits for the child's `ready` on
the events socket, sends `start-server` through the daemon, waits for the answer on the
events socket, and writes the pid to the config file under its lock. Nothing orders an
answer on the control socket against an event on the events socket, and nothing stops
another command from doing something between any two awaits. Studio sees none of it
directly: it reads what the relay writes, and asks for lists whose answers cross events.

### What makes the components correct

- daemon: every live child is in the table, one per name; a stop is answered when the
  child is dead; a shutdown ends and leaves nothing of what it found; the events of a name
  tell one story after the other;
- client and sockets: one daemon, whole and reachable; connecting and shutting down end;
- server manager: no ready, exit or answer is missed or attributed to the wrong process;
  success means a served site; a stop ends and leaves nothing;
- native PHP child: one pool, no worker outlives it, exact request counts, symlinks are
  granted, a stop ends it;
- Playground child: the queue's limits, no command before the startup has ended well, every
  message answered, a stop ends the process;
- site commands: no update of the config file is lost, a deleted site stays deleted, the
  status shown is true, running sites start again with Studio, their domains are served;
- Studio's sites: once everything has been told, what is shown is what is;
- pushes and pulls: poll loops can be stopped and stay stopped, what waits for the server is
  polled, a cancelled export is not applied;
- pull in stages: one entry, stages that are called complete have their output, a pull that
  is run again completes;
- remote session: one answer per message, after its photos and not undone, one goodbye; a
  detach ends it;
- assistant: no prompt runs twice or vanishes, a stop hits its run and ends it, nothing runs
  that the window does not show.

`PROJECT.json` lists the hazards, each at its line, with the properties about it.

## 2. Modules

| Module | Models | Run |
|---|---|---|
| `ServiceSlots` | abstract specification of the daemon: a name is a slot for one instance, and its events tell that story | implemented by `ProcessManager` |
| `ProcessManager` (+ `DaemonProofs`) | the daemon's table, requests, timers, shutdown, the children and their workers | `process_manager` |
| `DaemonConnect` (+ `DaemonProofs`) | finding, spawning, leaving and closing the daemon over socket files and a lock file | `daemon_connect` |
| `ServerHandshake` (+ `ServerHandshakeProofs`) | start and stop of one site's server: commands, daemon (as `ServiceSlots` promises it), channels, child | `hs_starts`, `hs_stops` |
| `PhpServerChild` (+ `PhpServerChildProofs`) | the native PHP wrapper: startup, symlink restarts, stop, tracker | `php_child` |
| `PlaygroundChild` (+ `PlaygroundChildProofs`) | the Playground child and the sequential queue in it | `playground_child` |
| `SiteCommands` (+ `SiteCommandsProofs`) | create, start, stop, stop --all, delete and set as concurrent commands over the config file, the processes and the proxy | `sc_commands` |
| `StudioSites` (+ `SitesProofs`) | the relay, the main process and the renderer, against what the commands do | `studio_sites` |
| `SyncOperations` (+ `PollingProofs`) | pushes and pulls of one pair of sites in the renderer and the main process | `sync_operations` |
| `PullReprint` (+ `SitesProofs`) | the stages of `pull-reprint`, killed and resumed | `pull_reprint` |
| `RemoteSession` (+ `PollingProofs`) | poll loop, turn, child, status line, photos, signals | `remote_session` |
| `AgentRuns` (+ `AgentRunsProofs`) | the assistant's runs of one chat: window, main process, children | `agent_runs` |
| `MC*` | instances for TLC: symmetry sets, constraints, values of functions | |

How they fit: `ProcessManager` implements `ServiceSlots`; `ServerHandshake` uses exactly
what `ServiceSlots` promises (one instance per name, fresh ids, a stop answered when the
instance is gone); `SiteCommands` and `StudioSites` use what `ServerHandshake` shows of a
start and a stop; `PhpServerChild` and `PlaygroundChild` are the two children behind
`ServerHandshake`'s; `DaemonConnect` is about the daemon around its request handlers;
`PullReprint` ends in the config file of `SiteCommands`, of which it keeps the entries of
one directory.

One rule decides what an action is: Node.js runs a callback without interruption up to
its next await, so one action is the code between two awaits (with the promise
continuations that run before the next callback). Processes of the operating system
change on their own.

In every module a definition that begins with the comment "Mutant" is a plausible bug, to
be put in the place of the definition after it (`PROJECT.json`, "mutants"): the run must
then find the property violated. History variables are marked so; no guard of the code
depends on them.

### ProcessManager

`managed`, `nextPmId`, `shutdownOn` are the fields of the daemon; `child` and `worker`
what the operating system knows (a child is "dead" until its `exit` event is delivered,
then "gone"); `waiters` and `timers` the pending `stopProcess` promises and their
SIGKILL timeouts; `call` a request on the control socket; `log` the history of
broadcasts. Each handler of `handleRequest` is one action per outcome (`StartExisting`,
`StartProcess`, `StartFails`, `StopNothing`, `StopProcess`, `KillDaemon`), and so are the
timeout, the exit listeners (`Exited`, in their order), the signals and the exit handler
(`ExitDaemon`, which signals only the first child because nothing after an await runs in
an exit handler). Log files, environment and Windows signalling are left out.

### DaemonConnect

`file[e]` is who bound a socket file (`Stale`: nobody listens), `listening` who listens.
`Probe`, `Unlink` and `Rebind` are the three steps of `SocketServer.listen` on a file that
exists, `CloseControl`, `EndEvents`, `CloseEvents` and `Exit` those of a shutdown. Commands
go through `connectToDaemon` under the lock. `stolen` records that a lock was taken over
from a command still at work (5 s make it stale, its holder may wait 10 s), or removed while the
daemon of its holder was still starting: after that the safety properties are not claimed.
`Interrupted` is Ctrl-C: the lock is removed as the command exits, and the detached daemon it
may have spawned goes on to bind; `Killed` leaves the lock file, which is stale later (`Stale`). `late` records subscribers that were accepted after the
daemon had disconnected its subscribers and before it stopped accepting.

### ServerHandshake

Each command has a `step`, what it has buffered (`buffer`, the two maps of
`subscribeForReadyOrExit`) and its timers. `wire`, `events` and `inbox` are the channels;
they are FIFO each and unordered among themselves. The child is what both runtimes have
in common. Activity messages and console output, which only postpone a timeout, are left
out. The history variables `since`, `stale` and `served` say what a property excepts: an
older exit event that was still on its way when the daemon named the process can be taken
for the process's own.

### PhpServerChild

Three jobs, startup, restart and stop, interleave at their awaits (`at`); `phpProcess`,
`current` and `proxy` are `phpProcess`, `phpWorkerProcesses` and `phpProxyServer`, each as
the number of the pool they belong to; `alive` and `grants` are the PHP processes and what
`open_basedir` allows them. Any failure ends the wrapper (`Exit`). A link that appears
between the startup's snapshot and the end of the watcher's first scan is lost (properties
are about `late` links).

### PlaygroundChild

One process serves a site or applies a blueprint (`purpose`). `ans[m]` is how far the
handler of a message is; `startup` the one startup that `startingPromise` stands for, with
the message whose signal it was given; `stage` and `waitsFor` the calls of `sequential.ts`,
where a waiting call waits for those it found running and looks again, and `leader` the
call whose promise a call with the same arguments shares. `Calm` is the event loop: the
next message or result is taken when the promises settled before have run their
continuations.

### SiteCommands

`Flow` lists the awaits of each command in order; `cmd[c]` says which one a command is at
and what it has read. Steps in `Locked` take three awaits (`Lock`, `Read`, `Save`). Every
command may fail at every request, be interrupted anywhere (`Interrupt`, which also stands
for a read that fails) or give up on the lock (`LockTimeout`, which removes another's lock:
the `finally` of the code does, `broken` records it). A create takes an id of `unused` (a
random UUID), checks folder and domain on an unlocked read, appends, starts, and takes its
entry out again when the start fails (`undo`). Two overlapping commands may disturb
each other in known ways; `tainted` records what is then left to chance: a site that two
commands work on, the proxy when a stop overlaps with a start, the Xdebug check when two
commands enable it, the folder check when two create. The properties are about everything
else: commands on different sites, commands one after another, and whatever a failed one
left behind must not leak to others. `NoLostUpdate` and `DeletedStaysDeleted` hold with
every overlap.

### StudioSites

The truth is `config`, `recorded` (the pid on record is the process's) and `server`.
`bus`, `queue`, `ipc` and `asked` are the channels on the way to the window: daemon events,
calls of `emitSiteEvent` (run one after the other, each of which reads the config, `job`,
and may ask the daemon), lines on stdout, and replies of `getSiteDetails`. `main` and `ui`
are the two copies. A DELETED takes the site off the map first (`handling`), and is forwarded when
the app's data have been written, or not at all (`UnregisterFails`); `created` is what createSite
read of a site for its reply, which the window applies later (`CreateReplied`). `stale` collects the sites of which a change is told by no event (the
relay was not yet subscribed, the daemon's bus was down, a command was killed between its
change and its event), `crossed` those of which a list or createSite's reply was read before an
event and arrived after it, and those whose deletion could not be recorded.

### SyncOperations

One record of each kind, because everything is keyed by the pair of sites; `thunk[q]`,
`post[p]`, `pushPoll` and `pullPoll` are the chains of awaits, each with the signal it looks
at (`aborted`). `pushPoller`, `pullPoller`, `callback`, `ctl` and `tus` are the maps. `event`
is an upload event on its way from the main process. Starting never looks at what is going
on, as the dialog does not; that is what makes two chains of a pair overlap.

### PullReprint

`meta` is `pull.json`, `disk` and `folder` the output of the stages, `sites` and `others` the
config file, `mem[p]` what a run has in memory. A stage is one action, its
output and then its name; `Kill` is where a run leaves an output, or part of it, without the
name. `reprint.phar` is external: what its commands
leave is inferred from how Studio reads it. The remote site answers who has its secret (`holds`)
as long as its exporter was enabled within the hour (`exporterOn`; `ExporterTimesOut` at any
time). A run enables it, before its preflight, only if it has looked the site up on WordPress.com
(`resolved`), which one with `--url` and a cached secret has not. `RegisterSite` takes the lock of the
config file, looks again and writes in one step. `disturbed` records that an `--abort`, a `site
delete` or another run changed the session under a run: only `OneEntry` is claimed then.

### RemoteSession

`at` is the await of the loop, `child` the process of the turn ("deaf": it was spawned after
the signal it should hear), `turn` what `handleTurn` knows, `line` the `ProgressStreamer`
(what is shown, a post in flight, the cooldown's timer), `photos` the queue of the
`MediaStreamer`. A signal may come at any step. A post that was aborted after two seconds may
land later (`sure`). An answer counts as given (`told`) when it was posted, although the post may
fail: of a chunk or a notice the code does not know either; of photos and edits it does.

### AgentRuns

`state` is the reducer's state of the session, `subscribed`, `ignored`, `stopPending`,
`stopping` and `dispatching` the refs beside it. `call[p]` is `startRun` for a prompt, which
first waits for a stop that is on its way; `stops` and `inbox` are the two directions of IPC
(answers and events arrive in order, calls are served in any). `bySession`, `ById` and
`interrupted` are the run manager's; a child's exit is handled (`Cleanup`) before its events
are drained, and a last message may be read after that (`late`). A child may fail to spawn
("failed"): it has an error event, which only sets a text, and neither messages nor an exit. The
state of the window lives in `AgentRunProvider`, and so goes with a `Reload` and with the tab or
the page of the site (`LeaveTab`); calls under way are served for nobody then ("orphan"), and a
stop that waited for a run's id still hits that run if only the tab was left (`doomed`). The
effect that sends the queue (`DispatchQueued`) is that of the session shown: `view` is "hidden"
when another session is, and "passed" when the effect met the one flag of all sessions,
`dispatchingQueuedRef`, set for another one and has not run again since. `misled`, `stale`,
`lost` and `forgotten` (prompts that went with the window's state) are the exceptions of the
invariants; each is a divergence below.

## 3. Runs

| Run | Instance | Shows |
|---|---|---|
| `process_manager` | 2 names, one with workers, 2 spawns, 2 clients, one of which only stops; fairness | the daemon's safety, that stops and shutdowns end, and that it implements `ServiceSlots` |
| `hs_starts` | 2 starts, 1 stop, one child | `StartsAreRight`: nothing is missed, success is served; the child's error beats its exit |
| `hs_stops` | 1 start, 1 stop, two instances of the child, fairness | `ExitsAreRight`: the cause a failed start reports is right, a stop that succeeded means stopped; stops end |
| `php_child` | 2 links, 2 requests, 2 workers, 1 watcher failure, fairness | `PoolIsContained` (no orphans, one pool, an exact tracker), `LinksAreGranted`, a stop ends the wrapper |
| `playground_child` | 2 starts, 1 stop, 5 commands (two with the same arguments), 1 blueprint, 2 at once, 1 waiting, fairness | the queue's limits, `StartupDecides`, and that all ends |
| `daemon_connect` | 2 commands, which may be interrupted or killed, 2 daemons at a time, fairness | `OneWholeDaemon`: one, whole, reachable, the same for both sockets; connecting and shutdown end |
| `sc_commands` | 2 commands of any kind, 2 sites, 2 folders, 4 pids, from every consistent state | no lost update, no revival, and `SitesAtRest`: status, autostart, domains, Xdebug, folders |
| `studio_sites` | 1 site, 2 actors, 3 changes | `SitesAreTrueAtRest`: when all is told, main process and window show what is |
| `sync_operations` | 2 pulls, 2 pushes, 3 in all, 1 login | `PollsAreSound`, `MainFollowsWindow` |
| `pull_reprint` | 2 processes, 2 ports, 3 folders, 3 faults, fairness | `PullIsSound`: one entry, stages backed, entry matches; the pull ends |
| `remote_session` | 2 chats, 2 messages, 3 steps or photos, 2 faults, fairness | `ChatIsRight`, `DetachEnds` |
| `agent_runs` | 3 prompts, 3 runs, 1 question, 1 reload or tab left, 1 session switch, 1 fault, 2 disturbances (1 once all prompts are sent), fairness | `RunsAreRight`, `RunsMove` |

The properties with such names are conjunctions; each part has its own definition and
comment in the module.

Bounds. Ids are bounded (`MaxPm`, `MaxRuns`) because they only grow, and pids (`MaxPid`) to
as many as the entry, the commands and one new process need to differ; the
values are the smallest at which a name, a site or a session is served by one process, then
another, while a third party still remembers the first. In `ProcessManager` the second client
only stops the process with workers (`StoppersStop`): two stops of one process, with a start,
a shutdown or a signal between them, are the overlaps that two clients add to one. In
`SiteCommands` a command invocation happens once (two in all), and `Init` is every state that
finished commands leave, so a longer history is a longer `Init`; states in which a lock was
removed from its holder are reached and not explored further (`LockIsKept`). In `StudioSites`
sites do not share anything but the queues, which one site's three changes fill with more
than one call; states in which every site is stale are not explored (`SomeSiteIsNotStale`).
In `PullReprint`, `disturbed` is permanent and only `OneEntry` speaks of it, so after the first
fault of a disturbed session no more are tried, nor an hour that is over or other sites
(`FewFaultsOnceDisturbed`). In `AgentRuns` three prompts put two into the queue, which is what
`queue_shift` can lose one of. Stops, removals, refusals, losses, late messages, questions,
crashes, failed spawns, reloads, tabs left and switches are two in all until the third prompt is
sent and one from then on (`FewDisturbances`): each exception and divergence needs at most two
of them, those about the queue one with three prompts. Watcher failures (1) and startups (1) are
the numbers the code's own budget and one `site start` give. Five commands with room for three
make the queue refuse, wait, wake and share. Deadlock checking is off in every run because
commands end and clients may never ask for anything again.

Fairness. Assumed of this program's event loops (a callback that is due is called: requests,
timers, exits that the operating system reports), of messages in a channel, and of SIGKILL.
Never assumed: that a child that was told to end answers, exits or heeds SIGTERM, that a client
asks, that a user interrupts. `php_child` assumes that an HTTP request ends, for the property
that a stop ends the wrapper; a restart waits for every response of the old pool, so it depends
on it. `ConnectEnds` excepts the case that the bound on daemons is used up. `playground_child`
assumes that what the process works at settles (a startup's step, a running command, or its
timeout). `pull_reprint` assumes that `reprint.phar` ends and that the user runs the command
again when nothing runs. `remote_session` assumes that posts settle, a turn runs into its
timeout and a child that was killed ends. `agent_runs` assumes that a turn that was not told to
stop ends, that a child which completed its turn exits, and that the user answers what is shown;
not that a session is shown: `DispatchQueued` is enabled only when it is and was not passed over, and
`AwaitsUser` names what the queue waits with otherwise.

## 4. Known divergences

What the code, its comments or its interface say and the code does not do. Each is a
definition of the module; added to the cfg as an INVARIANT (a temporal one as a PROPERTY) it
gives the counterexample. The checked properties step around them by the history variables
named above.

| Definition | Says | Does |
|---|---|---|
| `ProcessManager`: `ReportedWorkersNotOrphaned` | "Track child pids of the child process so that they aren't orphaned when the parent exits" (`process-manager-daemon.ts:48`) | the exit handler drops the tracked pids: the workers of a wrapper that was killed stay |
| `ServerHandshake`: `WaitsAreAnswered` | the listeners are attached early "so we cannot miss an early `ready`" | a process that another command spawned may have been ready before: the second start waits into its timeout |
| `ServerHandshake`: `RunningWasToldToServe` | "WordPress server is already running" | said of any online process, also of one whose start failed after the spawn |
| `PhpServerChild`: `AllowedIsGranted` | a new symlink means a restart "with an updated allowlist" | one that comes during a restart is put on the list and never granted |
| `PhpServerChild`: `OnePool` with `MaxStarts = 2` | one server per child | a `start-server` during a symlink restart finds neither process nor startup (`php-server-child.ts:720`) and starts a second pool |
| `PlaygroundChild`: `CommandsNeverKill` | "Don't crash, just return error to caller" (`playground-server-child.ts:694`) | the abort of a running command throws in an event listener and ends the process |
| `SiteCommands`: `OneXdebug` | "Only one site can have Xdebug enabled at a time" | the check is before the lock: two `set --xdebug` both pass it |
| `StudioSites`: `ListFollowsEvents` | "No need to update the `sites` state. That's handled in the `site-event` listener" (`use-site-details.tsx:227`) | a reply of `getSiteDetails` or `createSite` that was read before an event and arrives after it overwrites it; and a deletion is not forwarded when `SiteServer.unregister` cannot lock or write the app's data: the window keeps the site |
| `SyncOperations`: `LoggedOutHasNoPull` | "if the user logged out / cancelled while it finished, don't surface post-logout 'finished' UI" | the signal is not looked at after the last await: the pull comes back |
| `PullReprint`: `StaleSecretIsRenewed` | "If it's stale, preflight will 403 later and fall back to rotating a fresh one" (`pull-reprint.ts`, about 1100) | `preflight.json` is cached: a resumed run never meets the 403 there, and later stages fail for good |
| `PullReprint`: `RunsEnableTheExporter` | "Runs on every pull (including resumes) since the sliding window may have expired between runs" (`pull-reprint.ts:344`) | a run with `--url` and a cached secret has no WordPress.com site and token and skips it: with the preflight cached, the stages that need the remote site are refused every time |
| `PullReprint`: `FlatteningResumes` | a crash anywhere resumes at the next stage | killed while it flattens, every later run says the directory exists and is not empty |
| `PullReprint`: `CompletedHasSite` | completed means there is a site | `site delete` that keeps the files leaves a completed `pull.json` |
| `PullReprint`: `PulledFolderIsServed` | the pulled folder is the site's | an `--abort` after the registration leaves an entry that the next pull takes for its own |
| `PullReprint`: `PortsDiffer` | ports are free when they are chosen | chosen at one stage, recorded at another: a site created in between may have it, and while that one runs the pulled site does not start |
| `RemoteSession`: `ReplyLands` | "true when the edit landed" (`progress-streamer.ts:350`) | also true when the edit failed or timed out: the reply is not posted |
| `RemoteSession`: `DetachKillsTurn` | a detach kills the turn's child | the abort is not looked at before the listener is added: a child spawned just after runs to its timeout |
| `RemoteSession`: `EndIsAnnounced` | "the detach flow will announce" | an error around `/new` (`poll-loop.ts:501-522`) rejects the loop without a word |
| `AgentRuns`: `OneChildAtATime` | "Two subprocesses resuming the same session id would race on the JSONL recorder, so we reject the second one" (`run-manager.ts:34`) | a stop frees the session while its child lives on for up to two seconds, and the exit of an old child removes the entry of the next run |
| `AgentRuns`: `StopsAreExact` | Stop ends what is running | a Stop between a failed start and the next one is remembered and ends the next one |
| `AgentRuns`: `FailedStartsEnd` | a failed start shows its error | the phase stays "starting": what is sent is queued until Stop is clicked |
| `AgentRuns`: `StartsAreShown` | a run that starts is shown | a stopped run tells two ends (`run.interrupted`, `run.exited`); the first takes it off the ignored ones and the second resets the next start to idle |
| `AgentRuns`: `ShownRunsLive` | what is shown as running runs | a child that fails to spawn has an `error` and no `exit` (`run-manager.ts:265`): its run is shown until Stop is clicked, and its entry in `runsById` stays for ever |
| `AgentRuns`: `EveryPromptIsKept` | the queue survives the end of a run | removing the head while it is being sent makes `queue_shift` drop the next prompt; and a reload, another tab or another site silently drops the queue |
| `AgentRuns`: `RunsMove` without the last two lines of `AwaitsUser` | "Auto-dispatch the head of the queue once the previous run ends" (`use-agent-run.tsx:617`) | not of a session that is hidden, and not of one that became idle or was shown while `dispatchingQueuedRef` was held for another: the flag's release does not run the effect again |
| `AgentRuns`: `QuestionsAreShown` | a question is asked | a page that is reloaded hydrates the run and not its question |

## 5. Proofs

Each proof module extends the module or modules it is about and proves its theorems for every
value of the constants, from the named assumptions of those modules. (`DaemonConnect` is
extended together with `ProcessManager`, `RemoteSession` together with `SyncOperations`, and
`StudioSites` together with `PullReprint`: hence the prefixes of `ConnectSpec`, `SessionSpec`
and `SitesSpec`.)

`DaemonProofs`, about `ProcessManager`: `TypeCorrect`, `StopIsSafe`, `TableIsComplete`, `OneServerPerSite`
and `ShutdownIsComplete`, for every set of names, every finite set of clients and every bound
on spawns. None of the properties is inductive alone. The invariant `IInv` adds that the
table holds exactly the children whose exit is not handled, under different names
(`TableInv`); that a shutdown waits for every child it found, and when none is on they are
gone (`ShutdownInv`); and that a waiting stop call has the child its client asked about
(`CallInv`): without the last one, an exit could answer a stop for another child. One lemma
per group of actions shows that it is kept; the theorems follow with `PTL`. Assumed: `MaxPm`
is a number, `Native` a set of names, clients are finite (the answers of an exit are
counted), `Shutdown` is no client. `Implements` is the refinement, step by step:
`StepIsStep` shows that a spawn is a `Launch`, the exit of a child leaves its slot and answers
those who wait for it, and all else stutters. `TableInv` gives the slot its one instance, and
of the calls that wait for an exit there are at most the clients' and the shutdown's, which
is the bound `MaxStops` of the abstract specification.

`ServerHandshakeProofs`: `TypeCorrect`, `StartsAreRightHolds`, `ExitsAreRightHolds` and the
action property `ErrorBeatsExitHolds`, for any number of starts, stops and processes. The
invariant follows what is under way. Of a process spawned since a start subscribed: it is
booting or dead, or its ready or exit is on its wire, on the start's bus, or buffered
(`MissInv`); who waits has not heard of its process (`WaitInv`), so a wait has missed
nothing. A success under way to a start comes from a child whose startup succeeded
(`ServedInv`). One process is listed at a time (`OneListed`) and an exit is broadcast when it
is handled (`GoneInv`); so an exit that a client hears of another process than its own, and
that was not under way when it was told its process, can only come when its own is gone as
well: that is why a wait by process name blames and waits rightly (`ExitInv`). Nobody answers
a start that has not sent its message, and only the process it sent it to does
(`AnswerInv`); with that, the guard of the exit timer is all that `ErrorBeatsExit` needs. A
step of a client has to show only what is said of that client (`ClientStep`), a step of a
child only what it adds to its wire (`ChildStep`). Assumed: `MaxPm` is a number, no command
is both a start and a stop, and `"none"` is none.

`SiteCommandsProofs`: `NoLostUpdateHolds` and `DeletedStaysDeletedHolds`, for every set of
commands and sites. The invariant: while no lock was removed by another, a command between
its lock and its save holds the lock (`LockInv`), what it has read is what the file says, and
the entry it is about to change is there (`EntryInv`). A save then writes the file it read
with one change, and only a create, with an id of its own, adds an entry. Assumed: `Nobody`
is no command.

There too: `TypeCorrect` and `SitesAtRestHolds`, for any number of commands, sites and
folders. `SitesAtRest` speaks of sites that nobody works on, so it says nothing of the steps
on the way there. The invariant has three layers. `TypeInv`: every command is at a step of
its operation's flow (`StepsOf`) and knows what that step uses. `AloneInv` and `KindInv`: of
a site that is not tainted one command at a time is in charge, and unless the proxy, Xdebug
or the folders are tainted, no two commands at work decide about them. `SiteInv`: a site
nobody works on is at rest (`Rest`), and one that a command works on is as the command's
step claims (`Claim`): found stopped before it is booted, with the command's pid when it is
served, on the list of `stop --all` when it is online. What sites share has its own part:
`XdebugInv`, `FolderInv` and `ProxyInv` carry what a command has checked up to the step that
relies on it. The proof follows the shape of `Claim`: each action settles the sites of its
command (`Settles`, one lemma per action) and leaves the others alone (`Kept`), from which
`SettleStep` gives `SiteInv` once for all; a call is the only step at which a second command
comes in, and taints what both touch (`CalledRest`). Nothing is claimed once a lock was
removed from its holder. Assumed: sites and commands are finite, and `MaxPid` is more than
the commands and one, so that the operating system has a new pid for a process.

`DaemonProofs`, about `DaemonConnect`: `ConnectTypeCorrect` and `OneWholeDaemonHolds`, for any
number of commands and daemons. The daemon removes socket files without asking whose they are; that this is safe
rests on the lock of those who spawn. As long as none is taken over from its holder (`Calm`):
who works under the lock holds it, and a daemon that starts is the one the holder waits for
(`LockInv`); all other daemons are on their way out (`OneStays`), and listen where their
stage says (`StageInv`); so nobody listens at an endpoint whose file is removed, and the
files are those of the daemons that listen (`FilesInv`); a stream that is not late ends at a
daemon that serves events (`BusInv`); and no daemon keeps its events socket alone, because
the lock is held until it serves both (`WholeInv`). A lock may also be that of a command that was
killed, while the daemon it spawned may still start; `LockInv` says that none starts under any
other lock than its command's or such a one, and so none once the lock was given back. Assumed: the names of daemons, commands,
nobody and of a file left behind differ.

`PhpServerChildProofs`: `TypeCorrect`, `PoolIsContainedHolds` and `LinksAreGrantedHolds`, for
any pool size and any number of links, requests and watcher failures, of a wrapper that is
told to start once: the CLI tells it so once, and a second start-server message in the same
wrapper would begin a second pool. The jobs take turns (`JobsInv`), so that the living
workers are of the pool begun last, all of them once it is ready and none when the next one
begins (`PoolInv`); a new tracker starts when no request is open (`RequestInv`); after a stop
took the server down nobody starts another (`StopInv`). The restarts are bounded by the links
(`BudgetInv`): each one is for a link that no earlier one was for, which is also what the
type of the pool's number needs. `LinkInv` follows a link from the disk over what the watcher
saw to the allowlist and to the workers' grants. Assumed: the pool has a worker; links and
requests are finite.

`PlaygroundChildProofs`: `TypeCorrect`, `QueueIsLimited` and `StartupDecidesHolds`, for any
number of messages and any limits of the queue. The types need that a command waits only for
commands that have a slot (`WaitsOK`), whom the first of them to settle wakes. The limits rest on the two sets that the code counts,
calls and waiting calls, being counted together: a call leaves the waiting ones in the step
in which it counts itself in (`QueueStep`). `StartupDecides` rests on
`StartupInv`: a command is at work only when the startup has ended, a start is answered with
a result only when it ended well, and no later step takes that back.

`SitesProofs`, about `StudioSites`: `SitesTypeCorrect` and `SitesTrue`, for any set of sites and
number of changes. `SitesAreTrueAtRest` says nothing until everything has been told, so the
invariant `StudioInv` says at every moment what is still on its way. It has three parts.
`TypeInv` also bounds what is queued in each phase of the relay and pays for every edit in
advance. `SiteInv` holds of every site: one that is not created yet has told nobody
(`NewInv`); once a DELETED is under way the entry is gone, and what is written after it was
read after the deletion (`DeleteInv`); what was read of a site that is there found it there
(`PresentInv`); a status that is being waited for is queued (`StatusInv`). `TrueInv` holds of
the sites that are not stale: one that is there is shown, or a CREATED, a list or a command
will show it (`KnownInv`); one that is gone is not shown, or a DELETED will take it away
(`AbsentInv`); the last payload in the channel, or else the view, has the edits of the config
unless something will be read later (`EditsInv`); the last word about the process, on the bus,
in the queue or in the channel, is the daemon's (`RunningInv`); the window shows what the main
process has or the events in the channel will make it, the DELETED that is being handled among
them, unless a reply to it is on its way (`WindowInv`). Only the last word counts
because calls read the config when their turn comes: that is why an event overtaken by
another is harmless, and why the queue must not reorder. The proof follows it: `Mine` and
`Lasts` say what a queue holds about one site and lemmas say how they change when an item is
added or taken (`HeadHere`, `QueueConcat`); an action is about one site and changes nothing
that the invariants of another look at (`SameTruth` and its kin, `SameIsGood`). `SitesRest`
reads the property off the invariant when the channels are empty. Assumed: sites are
finitely many, and the bound is a number.

`SitesProofs`, about `PullReprint`: `TypeCorrect` and `PullIsSoundHolds`, for any number of runs, ports,
folders and faults. `PullIsSound` says nothing of the runs, so it is not inductive; `IInv`
adds what a run relies on as long as nobody interferes (`Calm`): only one process runs, it
has in memory what `pull.json` says, the step it is at fits the stage there (`Fits`), and
there is an entry only of a pull that has a runtime. So an entry fixes the port (`Backed`),
a kill leaves parts only of what is not called complete (`KillIsCalm`), and a run that begins
when nobody runs starts from what is on disk (`BeginIsCalm`). That there is one entry needs
none of it: `registerSite` looks again under the lock. Assumed: the bounds are numbers, the
file is no process, and `None` is no metadata.

`AgentRunsProofs`: `TypeCorrect`, `PromptsRunOnceHolds` and `RunsAreRightHolds`, for any
number of prompts, children, questions, reloads, tabs left, sessions switched and faults.
`PromptsRunOnce`, the first part
of `RunsAreRight`, is about children only, and what could break it is in the queue. `IInv`
adds: no prompt is queued twice, and the one that is being sent is the head or no longer
queued (`HeadInv`), so that `queue_shift` never leaves behind what was started; what is queued
behind it has neither a child nor a start under way, and a start under way has no child
(`StartInv`); what was not sent yet is nowhere (`FreshInv`).

The other parts relate the window to the children over two channels that no side reads at
once, so `AgreeInv` says what may be on its way. The session's entry is the newest child
(`ForksInv`). Whatever the window knows, or has still to read, was forked and is true
(`KnownInv`), and the answer to a start precedes the other events of its run (`OrderInv`). The
window listens to the run it shows (`WindowInv`); when that run is gone, its exit is still in
the inbox, behind whatever could show the run once more (`EndInv`); one that was never spawned
stays what it is. A working child that
nobody stopped and that is not lost (another child's exit took its entry, or it was forked for
a page that was gone) is the session's entry, and the window shows it, will read the answer to its start, or has sent it a stop (`SeenInv`); from
this and `EndInv` follow `NothingRunsUnseen` and `ShownRuns`. Stops go only to what the user
stopped, and one that waits for a run's id has a stopped start to wait for (`StopsInv`). The
prompt that is being sent heads the queue (`HeadIsSent`), so shifting it loses no other. Orphaned
starts have prompts of their own, and those that a stop still waits for were stopped by the user
(`DoomedOK`); what was removed, refused or lost with a page or tab (`GivenUp`) is neither queued nor
sent again.
Where the property excepts a misled or stale window, the invariant does too. Assumed: the
bounds are numbers.

`PollingProofs`, about `SyncOperations`: `TypeCorrect`, `PollsAreSoundHolds` and
`MainFollowsWindowHolds`, for any number of pulls, pushes and logins. `PollsAreSound` is
nearly inductive for pulls and for pushes apart (`PullsAreSound`, `PushesAreSound`); what it needs is that the loop in the map
runs and was not aborted, so that a successor finds no place before it has left, and that a
request, a push or a login which has no answer yet has no loop: a loop that begins is new, and
no earlier abort is on it (`PullInv`, `PushInv`). Every step makes one of five moves with the
loops of a kind: it leaves them, moves one, ends one, begins one, or aborts them all
(`PullMoves`, `PushMoves`), and that a move is sound is proved once for each
(`PullMovesSound`, `PushMovesSound`). `ThunkInv` carries a push from its start to its end: one
that no other overlaps is reached by the abort callback as long as it is under way, and one
that was cancelled while exporting has been aborted and is still there or has ended, not
applied. `QuitInv` says of the flag in the main process what `QuitAsksDuringPull` needs: as
long as nothing was pushed or polled, only the pull sets and clears it. Assumed: the bounds
are numbers.

`PollingProofs`, about `RemoteSession`: `SessionTypeCorrect` and `ChatIsRightHolds`, for any
chats, one of them bound or none, and any number of messages, events and faults. The
properties speak of the awaits at which they must hold, the invariant `SessionInv` of all of
them, per group of variables. What a turn notes of itself is what happened: it has taken the
reply over if and only if the edit was told, and a turn that posted told of a photo
(`AnswerInv`), so "nothing left to post" is never said to a chat that got nothing. A status
line that was disposed of sends nothing again and every step shown is known (`LineInv`), so
the last edit is the last, if the posts before it have settled. Photos are queued only
between the spawn of a child and the drain after it (`PhotoInv`). Assumed: the bound chat is
a chat or none, and the bounds are numbers.

Every invariant that a run checks is stated by a theorem, and so are the refinement of
`ServiceSlots` and the action properties. Model-checked only: liveness under fairness
(`StopsEnd` and its kin), which TLAPS does not prove.

## 6. Not modelled

- `site list` and `status` (they read; what they show is `StatusIsTrue`), `runBlueprint` and
  `sendWpCliCommand` of the server manager (one message and its answer, over the channels of
  `ServerHandshake`).
- Import, export, previews, `push` and `pull` of the CLI, dependency downloads, migrations:
  sequences of file and network operations of one process that do not resume.
- The AI agent and its tools: what they do depends on a language model service. The web
  server for agent runs repeats the run manager without a window.
- Windows and menus, IPC glue, storage of preferences, updates, connected sites, previews in
  Studio, renderers: no state that interleavings could break beyond what `StudioSites`,
  `SyncOperations` and `AgentRuns` hold.
- Closing Studio's window while the assistant runs (`abortOnDestroy` of the run manager stops the
  window's runs): `AgentRuns` has the page go and come back, never for good.
- A WP-CLI command without arguments, whose empty key `sequential.ts` never shares (`if ( key )`):
  every command of `PlaygroundChild` has a key.
- In `PullReprint`, a waiter for the lock of the config file that gives up and removes another's
  lock: that is in `SiteCommands`, whose commands do nothing else with the file.
- Below the models' granularity: a config file torn by a kill in the middle of a write,
  packets split or too large on a socket, clocks, texts.

## 7. Plan

In this order:

1. The server manager's `runBlueprint` and `sendWpCliCommand` in `ServerHandshake`, which ends
   in `PlaygroundChild`'s queue.
2. The web server of agent runs, as a second client of the rules of `AgentRuns`.
3. Studio's connected sites and previews, and the CLI's import and export, if reading them
   shows state that outlives a step.
