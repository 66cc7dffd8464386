---------------------------- MODULE StudioSites ----------------------------
(***************************************************************************)
(* What Studio shows of the sites, and how it learns it.  The truth is in  *)
(* the CLI's config file and in the process daemon; commands change both,  *)
(* run in a terminal or by Studio itself.  The hidden `_events` command    *)
(* (the relay) listens to the commands and to the daemon and writes one    *)
(* event after the other to Studio's main process, which keeps a map of    *)
(* SiteServers and passes the events on to the renderer, which keeps a     *)
(* list of its own: a copy of a copy, and replies to questions that cross  *)
(* the events on their way.                                                *)
(*                                                                         *)
(* Abstracted: an entry of the config is the number of its edits; the      *)
(* stages of a start are ServerHandshake's; an id is used once             *)
(* (crypto.randomUUID), so a path finds the site its id finds.             *)
(***************************************************************************)
EXTENDS Integers, Sequences, FiniteSets, SequencesExt

CONSTANTS
  Sites,        \* site ids
  MaxChanges    \* bound: commands, calls, starts, other results, kills together

ASSUME BoundsAssumption == IsFiniteSet(Sites) /\ MaxChanges \in Nat

VARIABLES
  config,         \* edits of each site's entry in the CLI config, or Gone, Unborn
  recorded,       \* the entry's latestCliPid is the pid of the site's process
  server,         \* the site's process in the daemon
  cmd,            \* the command each actor runs on each site
  phase,          \* how far Studio's launch and the relay's are
  listed,         \* the config as `site list` read it, until the relay listens
  untold,         \* sites emitAllSitesStatus has yet to emit
  teller,         \* the one it waits for
  linked,         \* the relay's bus is connected to a daemon
  bus,            \* daemon -> relay
  queue,          \* calls of emitSiteEvent
  job,            \* what the first of them has read, if it has
  ipc,            \* relay -> main process
  handling,       \* the first of it, a DELETED, waits for the app's data
  main,           \* the main process's SiteServers
  created,        \* the replies of createSite
  asked,          \* replies of getSiteDetails on their way
  ui,             \* the renderer's list
  mounted,        \* the renderer has asked for its first list
  stale,          \* history: sites of which some change is told by no event
  crossed,        \* history: sites for which a reply came too late, or no event
  spent           \* how much of the bound is used

truth  == <<config, recorded, server>>
relay  == <<phase, listed, untold, teller, linked, bus, queue, job>>
window == <<created, asked, ui, mounted, crossed>>
studio == <<ipc, handling, main, window>>
sitesVars   == <<truth, cmd, relay, studio, stale, spent>>

Gone   == -1
Unborn == -2
Absent == [shown |-> FALSE, edits |-> Gone, running |-> FALSE]
Entry(n, r) == [shown |-> TRUE, edits |-> n, running |-> r]
InConfig(s) == config[s] >= 0
Read(s) == IF InConfig(s) THEN config[s] ELSE Gone

Up(s) == server[s] = "up"
\* What isSiteRunning says to one who read the entry when its pid was this.
IsSiteRunning(s, ofProcess) == server[s] # "down" /\ ofProcess

Actors == {"terminal", "studio"}
Idle == [kind |-> "none", pc |-> "none"]
Doing(a, s, kind, pc) == cmd[a][s] = [kind |-> kind, pc |-> pc]
Moves(a, s, pc) == cmd' = [cmd EXCEPT ![a][s].pc = pc]
Finishes(a, s) == cmd' = [cmd EXCEPT ![a][s] = Idle]
EventOf(kind) == CASE kind = "create" -> "CREATED" [] kind = "set" -> "UPDATED"
                   [] kind = "delete" -> "DELETED"

\* A call of emitSiteEvent: the running state is given, or to be asked from
\* the daemon ("ask", and "status" for one that emitAllSitesStatus awaits).
Item(e, s, r) == [event |-> e, site |-> s, running |-> r]
NoJob == [read |-> FALSE, edits |-> Gone, ofProcess |-> FALSE]
Payload(e, s, n, r) == [event |-> e, site |-> s, edits |-> n, running |-> r]
NoPayload == Payload("none", CHOOSE s \in Sites : TRUE, Gone, FALSE)
NoView == [s \in Sites |-> Absent]

Spend == spent < MaxChanges /\ spent' = spent + 1

Listening  == phase \in {"listening", "telling", "subscribed"}
Stale(S) == stale' = stale \union S

SitesInit ==
  /\ config \in [Sites -> {0, Unborn}]
  /\ \E S \in SUBSET {s \in Sites : config[s] = 0} :
       /\ server = [s \in Sites |-> IF s \in S THEN "up" ELSE "down"]
       /\ recorded = [s \in Sites |-> s \in S]
  /\ cmd = [a \in Actors |-> [s \in Sites |-> Idle]]
  /\ phase = "launched" /\ listed = [s \in Sites |-> Gone]
  /\ untold = {} /\ teller = {} /\ linked = TRUE
  /\ bus = <<>> /\ queue = <<>> /\ job = NoJob /\ ipc = <<>>
  /\ handling = FALSE /\ main = NoView /\ created = NoView
  /\ asked = <<>> /\ ui = NoView /\ mounted = FALSE
  /\ stale = {} /\ crossed = {}
  /\ spent = 0

-----------------------------------------------------------------------------
(* The servers.  The daemon broadcasts every exit, and every result message *)
(* of a server: of its start, of its stop, of a WP-CLI command.             *)

\* The relay drops what comes before its listeners are attached or while its
\* bus reconnects; a site that emitAllSitesStatus has yet to emit is told.
Broadcast(s, running) ==
  IF phase = "subscribed" /\ linked
  THEN bus' = Append(bus, Item("UPDATED", s, running)) /\ Stale({})
  ELSE /\ bus' = bus
       /\ Stale(IF phase \in {"telling", "subscribed"} /\ s \notin untold \union teller
                THEN {s} ELSE {})

Spawned(s) == server' = [server EXCEPT ![s] = "booting"]

\* `site start`, by Studio or in a terminal: the process is spawned.
Start(s) ==
  /\ InConfig(s) /\ server[s] = "down" /\ Spend
  /\ Spawned(s)
  /\ UNCHANGED <<config, recorded, cmd, relay, studio, stale>>

Booted(s) ==
  /\ server[s] = "booting"
  /\ server' = [server EXCEPT ![s] = "up"]
  /\ Broadcast(s, "yes")
  /\ UNCHANGED <<config, recorded, cmd, phase, listed, untold, teller, linked, queue, job,
                 studio, spent>>

\* Mutant: the pid of a process that does not run yet is recorded.
RecordsPidEarly(s) ==
  /\ server[s] # "down" /\ ~recorded[s]
  /\ recorded' = [recorded EXCEPT ![s] = TRUE]
  /\ UNCHANGED <<config, server, cmd, relay, studio, stale, spent>>

\* updateSiteLatestCliPid, by the command that started the server: until
\* then isSiteRunning does not take the process for the site's.
RecordsPid(s) ==
  /\ Up(s) /\ ~recorded[s]
  /\ recorded' = [recorded EXCEPT ![s] = TRUE]
  /\ UNCHANGED <<config, server, cmd, relay, studio, stale, spent>>

\* A crash, a boot that fails, a stop by any command: a pid recorded, or
\* read by the relay, is no process's now.
Exits(s) ==
  /\ server[s] # "down"
  /\ server' = [server EXCEPT ![s] = "down"]
  /\ recorded' = [recorded EXCEPT ![s] = FALSE]
  /\ job' = IF job.read /\ Head(queue).site = s THEN [job EXCEPT !.ofProcess = FALSE] ELSE job
  /\ Broadcast(s, "no")
  /\ UNCHANGED <<config, cmd, phase, listed, untold, teller, linked, queue, studio, spent>>

\* The answer to stop-server or to a WP-CLI command is a result as well.
Replies(s) ==
  /\ Up(s) /\ Spend
  /\ Broadcast(s, "yes")
  /\ UNCHANGED <<truth, cmd, phase, listed, untold, teller, linked, queue, job, studio>>

\* `site stop --all` kills the daemon once its children are dead; the next
\* command starts another, and the relay tries to connect every half second.
KillDaemon ==
  /\ phase = "subscribed" /\ linked /\ \A s \in Sites : server[s] = "down"
  /\ Spend
  /\ linked' = FALSE
  /\ bus' = Append(bus, Item("KILL", NoPayload.site, "no"))
  /\ UNCHANGED <<truth, cmd, phase, listed, untold, teller, queue, job, studio, stale>>

Relink ==
  /\ ~linked /\ bus = <<>>
  /\ linked' = TRUE
  /\ UNCHANGED <<truth, cmd, phase, listed, untold, teller, bus, queue, job, studio, stale, spent>>

-----------------------------------------------------------------------------
(* The commands, run in a terminal or by Studio's window.                   *)

\* emitCliEvent: the relay has queued the event when the command goes on, or
\* nobody listens and it is lost.  That matters for what neither the list
\* Studio has read nor the round of emitAllSitesStatus will say.
EmitCliEvent(s, e) ==
  IF Listening
  THEN queue' = Append(queue, Item(e, s, "ask")) /\ Stale({})
  ELSE /\ queue' = queue
       /\ Stale(IF (e = "CREATED" /\ phase # "launched" /\ listed[s] = Gone) \/
                   (e = "DELETED" /\ (main[s].shown \/ listed[s] # Gone))
                THEN {s} ELSE {})

Begins(a, s, kind) == cmd' = [cmd EXCEPT ![a][s] = [kind |-> kind, pc |-> "running"]]

TerminalCreates(s) ==
  /\ config[s] = Unborn /\ Spend
  /\ config' = [config EXCEPT ![s] = Gone]
  /\ Begins("terminal", s, "create")
  /\ UNCHANGED <<recorded, server, relay, studio, stale>>

TerminalRuns(s, kind) ==
  /\ InConfig(s) /\ cmd["terminal"][s] = Idle /\ Spend
  /\ Begins("terminal", s, kind)
  /\ UNCHANGED <<truth, relay, studio, stale>>

\* createSite: the main process registers a placeholder and the renderer
\* shows one until the command has ended.
StudioCreates(s) ==
  /\ mounted /\ config[s] = Unborn /\ Spend
  /\ config' = [config EXCEPT ![s] = Gone]
  /\ Begins("studio", s, "create")
  /\ main' = [main EXCEPT ![s] = Entry(Gone, FALSE)]
  /\ ui' = [ui EXCEPT ![s] = Entry(Gone, FALSE)]
  /\ UNCHANGED <<recorded, server, relay, ipc, handling, created, asked, mounted, crossed,
                 stale>>

StudioCalls(s, kind) ==
  /\ mounted /\ ui[s].shown /\ main[s].shown /\ cmd["studio"][s] = Idle
  /\ Spend
  /\ Begins("studio", s, kind)
  /\ UNCHANGED <<truth, relay, studio, stale>>

\* What the command does to the config, and for create to the daemon.
SavesNew(a, s) ==
  /\ Doing(a, s, "create", "running")
  /\ config' = [config EXCEPT ![s] = 0]
  /\ \/ Moves(a, s, "saved") /\ UNCHANGED <<server, spent>>  \* noStart
     \/ Moves(a, s, "starting") /\ Spend /\ Spawned(s)
  /\ UNCHANGED <<recorded, relay, studio, stale>>

SavesEdit(a, s) ==
  /\ Doing(a, s, "set", "running") /\ InConfig(s)
  /\ config' = [config EXCEPT ![s] = @ + 1]
  /\ Moves(a, s, "saved")
  /\ UNCHANGED <<recorded, server, relay, studio, stale, spent>>

\* site delete stops the server first, and takes the entry away later.
Stops(a, s) ==
  /\ Doing(a, s, "delete", "running") /\ server[s] = "down"
  /\ Moves(a, s, "stopped")
  /\ UNCHANGED <<truth, relay, studio, stale, spent>>

SavesDeletion(a, s) ==
  /\ Doing(a, s, "delete", "stopped") /\ InConfig(s)
  /\ config' = [config EXCEPT ![s] = Gone]
  /\ Moves(a, s, "saved")
  /\ UNCHANGED <<recorded, server, relay, studio, stale, spent>>

\* The last step of a command that went well: its event, with create's only
\* after its server is up and its pid recorded.
Tells(a, s) ==
  /\ \/ cmd[a][s].pc = "saved"
     \/ cmd[a][s].pc = "starting" /\ recorded[s]
  /\ EmitCliEvent(s, EventOf(cmd[a][s].kind))
  /\ IF a = "terminal" THEN Finishes(a, s)
     ELSE Moves(a, s, IF cmd[a][s].pc = "starting" THEN "toldUp" ELSE "told")
  /\ UNCHANGED <<truth, phase, listed, untold, teller, linked, bus, job, studio, spent>>

\* A failure before the config was changed: of a create in Studio, the
\* placeholders stay (the renderer forgets its own after two seconds).
FailsEarly(a, s) ==
  /\ cmd[a][s].pc \in {"running", "stopped"} /\ cmd[a][s].kind # "stop"
  /\ Finishes(a, s)
  /\ IF a = "studio" /\ cmd[a][s].kind = "create"
     THEN ui' = [ui EXCEPT ![s] = Absent] /\ Stale({s})
     ELSE ui' = ui /\ Stale({})
  /\ UNCHANGED <<truth, relay, ipc, handling, main, created, asked, mounted, crossed, spent>>

\* A failure after it: create takes its entry back, set and delete leave
\* theirs (a restart or the move of the files failed), and no event is sent.
FailsLate(a, s) ==
  /\ \/ cmd[a][s].pc = "saved" /\ cmd[a][s].kind \in {"set", "delete"} /\ config' = config
     \/ /\ cmd[a][s].pc = "starting" /\ server[s] = "down"
        /\ config' = [config EXCEPT ![s] = Gone]
  /\ Finishes(a, s) /\ Stale({s})
  /\ ui' = IF a = "studio" /\ cmd[a][s].kind = "create" THEN [ui EXCEPT ![s] = Absent] ELSE ui
  /\ UNCHANGED <<recorded, server, relay, ipc, handling, main, created, asked, mounted,
                 crossed, spent>>

-----------------------------------------------------------------------------
(* The calls return in the main process when their command has exited.      *)

\* SiteServer.create: the result's running state overwrites what events have
\* said since.  createSite returns the details as they are now, and awaits
\* the removal of the blueprint's folder before they leave.
CreateReturns(s) ==
  LET up == cmd["studio"][s].pc = "toldUp"
      now == IF main[s].shown THEN [main[s] EXCEPT !.running = @ \/ up] ELSE Entry(0, up) IN
  /\ cmd["studio"][s].kind = "create" /\ cmd["studio"][s].pc \in {"told", "toldUp"}
  /\ Moves("studio", s, "returned")
  /\ main' = IF main[s].shown THEN [main EXCEPT ![s] = now] ELSE main
  /\ created' = [created EXCEPT ![s] = now]
  /\ Stale(IF ~main[s].shown \/ (up /\ ~Up(s)) THEN {s} ELSE {})
  /\ UNCHANGED <<truth, relay, ipc, handling, asked, ui, mounted, crossed, spent>>

\* The renderer puts the reply in place of its placeholder, and of whatever
\* events have made of it since.
CreateReplied(s) ==
  /\ Doing("studio", s, "create", "returned")
  /\ Finishes("studio", s)
  /\ ui' = [ui EXCEPT ![s] = created[s]]
  /\ created' = [created EXCEPT ![s] = Absent]
  /\ crossed' = IF created[s] # main[s] THEN crossed \union {s} ELSE crossed
  /\ UNCHANGED <<truth, relay, ipc, handling, main, asked, mounted, stale, spent>>

\* updateSite: nothing is done to the SiteServer; the renderer asks for the
\* list.
SetReturns(s) ==
  /\ Doing("studio", s, "set", "told")
  /\ Finishes("studio", s)
  /\ asked' = Append(asked, main)
  /\ UNCHANGED <<truth, relay, ipc, handling, main, created, ui, mounted, crossed, stale, spent>>

DeleteReturns(s) ==
  /\ Doing("studio", s, "delete", "told")
  /\ Finishes("studio", s)
  /\ main' = [main EXCEPT ![s] = Absent]
  /\ UNCHANGED <<truth, relay, ipc, handling, window, stale, spent>>

\* SiteServer.stop: the command has ended, well or not; the site is said not
\* to run whatever events have said since, or are about to say.
StopReturns(s) ==
  /\ Doing("studio", s, "stop", "running")
  /\ Finishes("studio", s)
  /\ main' = [main EXCEPT ![s].running = FALSE]
  /\ Stale(IF main[s].shown /\ Up(s) THEN {s} ELSE {})
  /\ UNCHANGED <<truth, relay, ipc, handling, window, spent>>

-----------------------------------------------------------------------------
(* Studio's launch: fetchAll, then the relay, then the window.              *)

ListsSites ==
  /\ phase = "launched" /\ phase' = "listing"
  /\ listed' = [s \in Sites |-> Read(s)]
  /\ UNCHANGED <<truth, cmd, untold, teller, linked, bus, queue, job, studio, stale, spent>>

\* The listed sites are registered, each as it ran at some moment meanwhile, or
\* the command fails and none is; then the relay's process is spawned.
FetchesAll ==
  /\ phase = "listing" /\ phase' = "registered"
  /\ LET found == {s \in Sites : listed[s] # Gone} IN
     \/ /\ \E R \in SUBSET found :
             main' = [s \in Sites |-> IF s \in found THEN Entry(listed[s], s \in R) ELSE main[s]]
        /\ Stale({})
     \/ main' = main /\ Stale(found)
  /\ UNCHANGED <<truth, cmd, listed, untold, teller, linked, bus, queue, job, ipc,
                 handling, window, spent>>

Listens ==
  /\ phase = "registered" /\ phase' = "listening"
  /\ listed' = [s \in Sites |-> Gone]
  /\ UNCHANGED <<truth, cmd, untold, teller, linked, bus, queue, job, studio, stale, spent>>

\* Mutant: only the sites that run are told.
ConnectsRunning ==
  /\ phase = "listening" /\ phase' = "telling"
  /\ untold' = {s \in Sites : InConfig(s) /\ Up(s)}
  /\ UNCHANGED <<truth, cmd, listed, teller, linked, bus, queue, job, studio, stale, spent>>

\* connectToDaemon, and the first line of emitAllSitesStatus.
Connects ==
  /\ phase = "listening" /\ phase' = "telling"
  /\ untold' = {s \in Sites : InConfig(s)}
  /\ UNCHANGED <<truth, cmd, listed, teller, linked, bus, queue, job, studio, stale, spent>>

\* One site at a time; one whose folder is gone or empty loses its entry.
TellsStatus(s) ==
  /\ phase = "telling" /\ teller = {} /\ s \in untold
  /\ untold' = untold \ {s} /\ teller' = {s}
  /\ \/ /\ UNCHANGED <<config, spent>>
        /\ queue' = Append(queue, Item("UPDATED", s, "status"))
     \/ /\ config' = [config EXCEPT ![s] = Gone] /\ Spend
        /\ queue' = Append(queue, Item("DELETED", s, "status"))
  /\ UNCHANGED <<recorded, server, cmd, phase, listed, linked, bus, job, studio, stale>>

\* The bus's listeners are attached only now.
Subscribes ==
  /\ phase = "telling" /\ untold = {} /\ teller = {}
  /\ phase' = "subscribed"
  /\ UNCHANGED <<truth, cmd, listed, untold, teller, linked, bus, queue, job, studio, stale, spent>>

-----------------------------------------------------------------------------
(* The relay.  emitSiteEvent is sequential: it reads the config, then asks  *)
(* the daemon if it must, then writes.                                      *)

Hears ==
  /\ bus # <<>> /\ Head(bus).event # "KILL"
  /\ bus' = Tail(bus) /\ queue' = Append(queue, Head(bus))
  /\ UNCHANGED <<truth, cmd, phase, listed, untold, teller, linked, job, studio, stale, spent>>

\* emitAllSitesStopped waits for no call in progress.
HearsKill ==
  /\ bus # <<>> /\ Head(bus).event = "KILL"
  /\ bus' = Tail(bus)
  /\ LET all == SetToSeq({s \in Sites : InConfig(s)}) IN
     ipc' = ipc \o [i \in DOMAIN all |-> Payload("UPDATED", all[i], config[all[i]], FALSE)]
  /\ Stale({s \in Sites : Up(s)})
  /\ UNCHANGED <<truth, cmd, phase, listed, untold, teller, linked, queue, job, handling,
                 main, window, spent>>

ReadsConfig ==
  /\ queue # <<>> /\ ~job.read
  /\ LET s == Head(queue).site IN
     job' = [read |-> TRUE, edits |-> Read(s), ofProcess |-> recorded[s]]
  /\ UNCHANGED <<truth, cmd, phase, listed, untold, teller, linked, bus, queue, studio, stale, spent>>

\* An answer that the pid read earlier spoils overrules what the bus said.
Emits ==
  LET item == Head(queue)
      s == item.site
      running == CASE item.running = "yes" -> TRUE [] item.running = "no" -> FALSE
                   [] OTHER -> job.edits # Gone /\ IsSiteRunning(s, job.ofProcess) IN
  /\ job.read /\ job' = NoJob
  /\ queue' = Tail(queue)
  /\ ipc' = Append(ipc, Payload(item.event, s, job.edits, running))
  /\ teller' = IF item.running = "status" THEN teller \ {s} ELSE teller
  /\ Stale(IF item.running \in {"ask", "status"} /\ Up(s) /\ ~running THEN {s} ELSE {})
  /\ UNCHANGED <<truth, cmd, phase, listed, untold, linked, bus, handling, main, window, spent>>

-----------------------------------------------------------------------------
(* The main process.  handleSiteEvent is sequential as well; what it awaits *)
(* (theme and icon of a site that began to run) it awaits last.             *)

\* Mutant: a site the renderer does not know is never added.
ForwardsKnown(p, entry) ==
  ui' = IF mounted /\ ui[p.site].shown THEN [ui EXCEPT ![p.site] = entry] ELSE ui

\* The renderer shows the event if it is there; it adds a site on CREATED
\* events only.  Messages to it are not reordered and change nothing in the
\* main process: it shows them at once here.
Forwards(p, entry) ==
  ui' = IF mounted /\ (p.event # "UPDATED" \/ ui[p.site].shown)
        THEN [ui EXCEPT ![p.site] = entry] ELSE ui

\* SiteServer.unregister: the server leaves the map; then the lock of the
\* app's data and the file are waited for.
HandlesDeleted ==
  /\ ipc # <<>> /\ Head(ipc).event = "DELETED" /\ ~handling
  /\ handling' = TRUE
  /\ main' = [main EXCEPT ![Head(ipc).site] = Absent]
  /\ UNCHANGED <<truth, cmd, relay, ipc, window, stale, spent>>

ForwardsDeleted ==
  /\ handling /\ handling' = FALSE
  /\ ipc' = Tail(ipc)
  /\ Forwards(Head(ipc), Absent)
  /\ UNCHANGED <<truth, cmd, relay, main, created, asked, mounted, crossed, stale, spent>>

\* The lock is not to be had, or the file is not to be read or written: the
\* renderer is never told.
UnregisterFails ==
  /\ handling /\ handling' = FALSE
  /\ ipc' = Tail(ipc)
  /\ crossed' = crossed \union {Head(ipc).site}
  /\ UNCHANGED <<truth, cmd, relay, main, created, asked, ui, mounted, stale, spent>>

\* A site that left the config meanwhile, or an update of an unknown one.
Ignores ==
  /\ ipc # <<>> /\ Head(ipc).event # "DELETED" /\ ipc' = Tail(ipc)
  /\ \/ Head(ipc).edits = Gone
     \/ Head(ipc).event = "UPDATED" /\ ~main[Head(ipc).site].shown
  /\ UNCHANGED <<truth, cmd, relay, handling, main, window, stale, spent>>

HandlesDetails ==
  /\ ipc # <<>> /\ Head(ipc).event # "DELETED" /\ Head(ipc).edits # Gone
  /\ LET p == Head(ipc) IN
     /\ p.event = "CREATED" \/ main[p.site].shown
     /\ main' = [main EXCEPT ![p.site] = Entry(p.edits, p.running)]
     /\ Forwards(p, Entry(p.edits, p.running))
  /\ ipc' = Tail(ipc)
  /\ UNCHANGED <<truth, cmd, relay, handling, created, asked, mounted, crossed, stale, spent>>

-----------------------------------------------------------------------------
(* The renderer's list: SiteDetailsProvider.                                *)

Mounts ==
  /\ phase \notin {"launched", "listing"} /\ ~mounted
  /\ mounted' = TRUE
  /\ asked' = Append(asked, main)
  /\ UNCHANGED <<truth, cmd, relay, ipc, handling, main, created, ui, crossed, stale, spent>>

\* getSiteDetails copies the details, then awaits the app's data; setSites
\* replaces the whole list by the copy, however old.
Replied ==
  /\ asked # <<>> /\ asked' = Tail(asked)
  /\ ui' = Head(asked)
  /\ crossed' = {s \in Sites : Head(asked)[s] # main[s]}
  /\ UNCHANGED <<truth, cmd, relay, ipc, handling, main, created, mounted, stale, spent>>

-----------------------------------------------------------------------------
Command(a, s) ==
  \/ SavesNew(a, s) \/ SavesEdit(a, s) \/ Stops(a, s) \/ SavesDeletion(a, s) \/ Tells(a, s)
  \/ FailsEarly(a, s) \/ FailsLate(a, s)
Returns(s) ==
  CreateReturns(s) \/ CreateReplied(s) \/ SetReturns(s) \/ DeleteReturns(s) \/ StopReturns(s)
Launch == ListsSites \/ FetchesAll \/ Listens \/ Connects \/ Subscribes \/ Mounts
Relay  == Hears \/ HearsKill \/ ReadsConfig \/ Emits
Main   == HandlesDeleted \/ ForwardsDeleted \/ UnregisterFails \/ Ignores \/ HandlesDetails

SitesNext ==
  \/ \E s \in Sites :
       \/ Start(s) \/ Booted(s) \/ RecordsPid(s) \/ Exits(s) \/ Replies(s)
       \/ TerminalCreates(s) \/ StudioCreates(s) \/ Returns(s) \/ TellsStatus(s)
       \/ \E kind \in {"set", "delete"} : TerminalRuns(s, kind)
       \/ \E kind \in {"set", "delete", "stop"} : StudioCalls(s, kind)
       \/ \E a \in Actors : Command(a, s)
  \/ KillDaemon \/ Relink \/ Launch \/ Relay \/ Main \/ Replied

SitesSpec == SitesInit /\ [][SitesNext]_sitesVars

-----------------------------------------------------------------------------
\* The state of each variable.
SitesTypeOK ==
  /\ config \in [Sites -> Unborn .. MaxChanges]
  /\ server \in [Sites -> {"down", "booting", "up"}]
  /\ recorded \in [Sites -> BOOLEAN] /\ \A s \in Sites : recorded[s] => Up(s)
  /\ \A a \in Actors, s \in Sites :
       /\ cmd[a][s].kind \in {"none", "create", "set", "delete", "stop"}
       /\ cmd[a][s].pc \in {"none", "running", "stopped", "starting", "saved", "told", "toldUp",
                            "returned"}
  /\ phase \in {"launched", "listing", "registered", "listening", "telling", "subscribed"}
  /\ untold \subseteq Sites /\ teller \subseteq Sites /\ Cardinality(teller) <= 1
  /\ job.read => queue # <<>>
  /\ handling \in BOOLEAN /\ (handling => ipc # <<>>)
  /\ \A view \in {main, created, ui} : \A s \in Sites :
       view[s].edits \in Gone .. MaxChanges /\ view[s].running \in BOOLEAN
  /\ stale \subseteq Sites /\ crossed \subseteq Sites

\* Every channel is empty, every command has ended and Studio is up.
AtRest ==
  /\ phase = "subscribed" /\ linked /\ mounted
  /\ bus = <<>> /\ queue = <<>> /\ ipc = <<>> /\ asked = <<>>
  /\ \A a \in Actors, s \in Sites : cmd[a][s] = Idle
  /\ \A s \in Sites : server[s] # "booting"

MainIsTrue(s) == main[s] = IF InConfig(s) THEN Entry(config[s], Up(s)) ELSE Absent

\* When all is quiet the main process's map is the config and the daemon's
\* state, for every site none of whose changes was lost on its way
\* (cli-events-subscriber.ts:62-117, _events.ts:46-60).
MainIsTrueAtRest == AtRest => \A s \in Sites \ stale : MainIsTrue(s)

\* The renderer's list is then the main process's, but for the sites that
\* changed while a reply of getSiteDetails or createSite was on its way, or
\* that were deleted while the app's data could not be written
\* (use-site-details.tsx:149-183, 351-356).
UiIsMainAtRest == AtRest => \A s \in Sites \ (stale \union crossed) : ui[s] = main[s]

\* "No need to update the `sites` state. That's handled in the `site-event`
\* listener" (use-site-details.tsx:227): the list follows the main process's
\* map whatever replies cross.
\* The code does not keep it: README, "Known divergences".
ListFollowsEvents == AtRest => \A s \in Sites \ stale : ui[s] = main[s]

\* What Studio shows when nothing is on its way any more.
SitesAreTrueAtRest == MainIsTrueAtRest /\ UiIsMainAtRest
=============================================================================
