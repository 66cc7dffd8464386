----------------------------- MODULE SiteCommands -----------------------------
(***************************************************************************)
(* The site commands of the CLI (apps/cli/commands/site: create, start,    *)
(* stop, stop --all, delete and set) as concurrent processes that share    *)
(*   - the config file, read without the lock and rewritten under it       *)
(*     (apps/cli/lib/cli-config),                                          *)
(*   - the daemon's processes, one per site, and its proxy process, which  *)
(*     runs as long as a running site has a custom domain                  *)
(*     (apps/cli/lib/site-utils.ts).                                       *)
(* A command is a sequence of awaits; others run between any two of them.  *)
(* ServerHandshake and ProcessManager say what stands behind "boot",       *)
(* "serve" and "halt", DaemonConnect how a command finds the daemon.       *)
(*                                                                         *)
(* Abstracted: of a site's settings, its folder, autoStart, the custom     *)
(* domain, Xdebug and latestCliPid; of several sites of one folder a       *)
(* command may find any; `set` changes one setting; `create` prepares no   *)
(* files and applies no blueprint without a start; the daemon is there;    *)
(* after stop --all has killed it, other commands may go on as if it had   *)
(* been started again.                                                     *)
(***************************************************************************)
EXTENDS Naturals, Sequences, FiniteSets

CONSTANTS Commands, \* invocations of the CLI
          Sites,    \* the ids of sites, those to come too
          Folders,
          Nobody,   \* nobody holds the lock
          MaxPid    \* bound: process ids that are told apart for a site

ASSUME NobodyIsNoCommand == Nobody \notin Commands
ASSUME SitesAreFinite == IsFiniteSet(Sites)
\* A pid for the entry of a site, one for every command, and a new one.
ASSUME PidsSuffice == IsFiniteSet(Commands) /\ MaxPid \in Nat /\ MaxPid > Cardinality(Commands) + 1

Pids == 1 .. MaxPid
NoPid == 0

VARIABLES
  config,  \* config[s]: the entry of site s in the config file
  lock,    \* the command that holds the lock file
  proc,    \* proc[s]: pid of the site's process, NoPid when it is not online
  proxy,   \* the proxy process is online
  cmd,     \* cmd[c]: what command c does and what it has read
  unused,  \* ids that no site has had: a new site has a random UUID
  tainted, \* history: what is left to chance (see Clash and Fail)
  broken   \* history: a command that gave up waiting removed another's lock

world == <<proc, proxy>>
vars == <<config, lock, world, cmd, unused, tainted, broken>>

Flow ==
  [start   |-> <<"load", "check", "needProxy", "startProxy", "boot", "serve", "setPid", "setAuto">>,
   stop    |-> <<"load", "setAuto", "check", "halt", "clearPid",
                 "proxyOn", "proxySites", "proxyUsers", "stopProxy">>,
   delete  |-> <<"load", "check", "halt", "proxyOn", "proxySites", "proxyUsers", "stopProxy", "remove">>,
   xdebug  |-> <<"load", "validate", "apply", "check", "halt", "needProxy", "startProxy", "boot",
                 "serve", "setPid">>,
   domain  |-> <<"load", "validate", "apply", "check", "halt", "needProxy", "startProxy", "boot",
                 "serve", "setPid">>,
   stopAll |-> <<"list", "lookUp", "clearAll", "kill">>,
   create  |-> <<"validate", "append", "needProxy", "startProxy", "boot", "serve", "setPid", "setAuto">>]
Ops == DOMAIN Flow
Set == {"xdebug", "domain"}

\* Flags a command can be given: `stop` sets autoStart, `set` a setting, `create`
\* starts the site or not.
Args(op) == IF op \in Set \cup {"stop", "stopAll", "create"} THEN BOOLEAN ELSE {TRUE}

\* Steps that rewrite the config file under the lock.
Locked == {"setAuto", "clearPid", "remove", "apply", "setPid", "setPidAndEnd", "clearAll", "append", "undo"}
\* Those of them that do not ask for the site to be in the file.
Unasked == {"clearAll", "append", "undo"}
\* Steps of `create` whose failure takes the new site out of the file again.
Undone == {"boot", "serve", "setPid", "setAuto"}

\* The step after step a of op.
After(op, a) ==
  LET here == {i \in DOMAIN Flow[op] : Flow[op][i] = a /\ i < Len(Flow[op])}
  IN  IF here = {} THEN "over" ELSE Flow[op][(CHOOSE i \in here : TRUE) + 1]

Absent == [there |-> FALSE, folder |-> Nobody, auto |-> FALSE, domain |-> FALSE, xdebug |-> FALSE, pid |-> NoPid]
NewEntry(f, domain) == [Absent EXCEPT !.there = TRUE, !.folder = f, !.domain = domain]
Entries == [there : {TRUE}, folder : Folders, auto : BOOLEAN, domain : BOOLEAN, xdebug : BOOLEAN,
            pid : Pids \cup {NoPid}]

\* A command is op (with its flag arg) on a site at a step; phase counts the awaits
\* of a locked step; seen is the entry it loaded, copy the file it read under the
\* lock, pid the process it started or found, todo and found what it looks up. For
\* `create`, seen is the entry it will add.
Idle == [op |-> "stop", arg |-> FALSE, site |-> Nobody, at |-> "idle", phase |-> "lock",
         seen |-> Absent, copy |-> <<>>, pid |-> NoPid, todo |-> {}, found |-> {}]

\* No two sites are of one folder.
FoldersDiffer ==
  \A s, t \in Sites : s # t /\ config[s].there /\ config[t].there => config[s].folder # config[t].folder

\* Nobody is at work and everything is as it should be: the site of a running
\* process has its pid and autoStart (bound: no other site has it to begin with), a
\* domain that is served has the proxy.
Init ==
  /\ config \in [Sites -> {Absent} \cup {e \in Entries : e.pid \in {NoPid, 1} /\ e.auto = (e.pid = 1)}]
  /\ Cardinality({s \in Sites : config[s].xdebug}) <= 1
  /\ FoldersDiffer
  /\ unused = {s \in Sites : ~config[s].there}
  /\ proc = [s \in Sites |-> config[s].pid]
  /\ proxy \in {b \in BOOLEAN : b \/ \A s \in Sites : ~(config[s].domain /\ proc[s] # NoPid)}
  /\ lock = Nobody
  /\ cmd = [c \in Commands |-> Idle]
  /\ tainted = {} /\ broken = FALSE
-----------------------------------------------------------------------------
AtWork(c) == cmd[c].at \notin {"idle", "over"}
At(c, a) == cmd[c].at = a
site(c) == cmd[c].site
Online(s) == proc[s] # NoPid

\* Command c, with its data r, goes to step a; a command that is over forgets them.
With(c, a, r) == cmd' = [cmd EXCEPT ![c] = IF a = "over" THEN [Idle EXCEPT !.at = a]
                                            ELSE [r EXCEPT !.at = a, !.phase = "lock"]]
\* It stays at its step, at the next await of the phases of a locked step.
Stay(c, phase, r) == cmd' = [cmd EXCEPT ![c] = [r EXCEPT !.phase = phase]]
Go(c, a) == With(c, a, cmd[c])
Advance(c) == Go(c, After(cmd[c].op, cmd[c].at))

Touched(op, s) == IF op = "stopAll" THEN Sites ELSE {s}

\* Where two overlapping commands may disturb each other: the sites both work on,
\* the proxy that one may stop while the other relies on it, the check for Xdebug,
\* the check for the folder of a new site.
Clash(op1, s1, op2, s2) ==
  (Touched(op1, s1) \cap Touched(op2, s2))
  \cup (IF /\ {op1, op2} \cap {"stop", "delete", "stopAll"} # {}
           /\ {op1, op2} \cap {"start", "xdebug", "domain", "create"} # {} THEN {"proxy"} ELSE {})
  \cup (IF {op1, op2} = {"xdebug"} THEN {"xdebug"} ELSE {})
  \cup (IF {op1, op2} = {"create"} THEN {"folder"} ELSE {})

\* A command that fails leaves its sites to chance: startWordPressServer leaves the
\* process it started, stop has cleared autoStart, ...
Leave(c, a) ==
  /\ Go(c, a)
  /\ tainted' = tainted \cup Touched(cmd[c].op, site(c))

\* The catch of `create` around its start takes the site out of the file.
Fail(c) == Leave(c, IF cmd[c].op = "create" /\ cmd[c].at \in Undone THEN "undo" ELSE "over")

\* A command is called: r is what it knows from its arguments.
Call(c, op, s, r) ==
  /\ At(c, "idle")
  /\ With(c, Flow[op][1], r)
  /\ tainted' = tainted \cup UNION {Clash(op, s, cmd[d].op, site(d)) : d \in {d \in Commands : AtWork(d)}}
  /\ UNCHANGED <<config, lock, world, broken>>

Begin(c, op, s, arg) ==
  /\ op # "create" /\ Call(c, op, s, [cmd[c] EXCEPT !.op = op, !.site = s, !.arg = arg])
  /\ UNCHANGED unused

\* A new site of folder f, with a domain or without, which is started if arg says so.
BeginCreate(c, s, f, domain, arg) ==
  /\ s \in unused /\ unused' = unused \ {s}
  /\ Call(c, "create", s, [cmd[c] EXCEPT !.op = "create", !.site = s, !.arg = arg, !.seen = NewEntry(f, domain)])

\* The user interrupts the command; lockfile removes a lock the process holds.
Interrupt(c) ==
  /\ AtWork(c)
  /\ Leave(c, "over")
  /\ lock' = IF lock = c THEN Nobody ELSE lock
  /\ UNCHANGED <<config, world, unused, broken>>

\* A site's process dies.
Crash(s) ==
  /\ Online(s)
  /\ proc' = [proc EXCEPT ![s] = NoPid]
  /\ UNCHANGED <<config, lock, proxy, cmd, unused, tainted, broken>>
-----------------------------------------------------------------------------
(* Steps that only read. *)

Reads == UNCHANGED <<config, lock, world, unused, broken>>

\* What a command uses of an entry it has loaded, besides the id.
Known(e) == [Absent EXCEPT !.domain = e.domain, !.xdebug = e.xdebug]

\* getSiteByFolder, without the lock; stop and delete need no more than the id.
Load(c) ==
  /\ At(c, "load") /\ Reads /\ UNCHANGED tainted
  /\ IF config[site(c)].there
     THEN With(c, After(cmd[c].op, "load"),
               [cmd[c] EXCEPT !.seen = IF cmd[c].op \in Set \cup {"start"} THEN Known(config[site(c)]) ELSE Absent])
     ELSE Go(c, "over")

\* Mutant: other sites are not looked at.
ValidNow(c) == cmd[c].op \in Set => cmd[c].arg # cmd[c].seen[cmd[c].op]
\* A new site's folder is no other site's; for `set`, there is something to change,
\* and Xdebug is enabled for one site only.
Valid(c) ==
  /\ cmd[c].op = "create" => \A s \in Sites : config[s].there => config[s].folder # cmd[c].seen.folder
  /\ cmd[c].op \in Set => cmd[c].arg # cmd[c].seen[cmd[c].op]
  /\ cmd[c].op = "xdebug" /\ cmd[c].arg => \A s \in Sites \ {site(c)} : ~config[s].xdebug

Validate(c) ==
  /\ At(c, "validate") /\ Reads /\ UNCHANGED tainted
  /\ IF Valid(c) THEN Advance(c) ELSE Go(c, "over")

\* What a command does when isServerRunning finds nothing.
NotRunning(c) ==
  \/ cmd[c].op = "start" /\ Advance(c)
  \/ cmd[c].op = "delete" /\ Go(c, "remove")
  \/ cmd[c].op \in Set \cup {"stop"} /\ Go(c, "over")

Check(c) ==
  /\ At(c, "check") /\ Reads /\ UNCHANGED tainted
  /\ \/ Online(site(c)) /\ cmd[c].op = "start"
        /\ With(c, "setPidAndEnd", [cmd[c] EXCEPT !.pid = proc[site(c)]])
     \/ Online(site(c)) /\ cmd[c].op # "start" /\ Advance(c)
     \/ ~Online(site(c)) /\ NotRunning(c)

\* list-processes fails: isProcessRunning reports that nothing runs.
ListFails(c) ==
  /\ Reads
  /\ tainted' = tainted \cup Touched(cmd[c].op, site(c)) \cup {"proxy"}
  /\ \/ At(c, "check") /\ NotRunning(c)
     \/ At(c, "halt") /\ Advance(c)
     \/ At(c, "proxyOn") /\ Go(c, After(cmd[c].op, "stopProxy"))
     \/ cmd[c].at \in {"proxyUsers", "lookUp"}
        /\ \E s \in cmd[c].todo : With(c, cmd[c].at, [cmd[c] EXCEPT !.todo = @ \ {s}])

\* setupCustomDomain / startProxyIfNeeded: the last use of the entry that was loaded.
NeedProxy(c) ==
  /\ At(c, "needProxy") /\ Reads /\ UNCHANGED tainted
  /\ With(c, After(cmd[c].op, IF cmd[c].seen.domain /\ ~proxy THEN "needProxy" ELSE "startProxy"),
          [cmd[c] EXCEPT !.seen = Absent])

\* stopProxyIfNoSitesNeedIt, up to stopProxyProcess.
ProxyOn(c) ==
  /\ At(c, "proxyOn") /\ Reads /\ UNCHANGED tainted
  /\ IF proxy THEN Advance(c) ELSE Go(c, After(cmd[c].op, "stopProxy"))

\* Mutant: the sites without a domain.
UsersOther(c) == {s \in Sites \ {site(c)} : config[s].there /\ ~config[s].domain}
Users(c) == {s \in Sites \ {site(c)} : config[s].there /\ config[s].domain}

ProxySites(c) ==
  /\ At(c, "proxySites") /\ Reads /\ UNCHANGED tainted
  /\ With(c, "proxyUsers", [cmd[c] EXCEPT !.todo = Users(c)])

List(c) ==
  /\ At(c, "list") /\ Reads /\ UNCHANGED tainted
  /\ With(c, "lookUp", [cmd[c] EXCEPT !.todo = {s \in Sites : config[s].there}])

\* One isServerRunning after the other (all at once for the proxy's users).
LookUp(c, s) ==
  /\ cmd[c].at \in {"proxyUsers", "lookUp"} /\ s \in cmd[c].todo /\ Reads /\ UNCHANGED tainted
  /\ With(c, cmd[c].at, [cmd[c] EXCEPT !.todo = @ \ {s}, !.found = IF Online(s) THEN @ \cup {s} ELSE @])

LookedUp(c) ==
  /\ cmd[c].at \in {"proxyUsers", "lookUp"} /\ cmd[c].todo = {} /\ Reads /\ UNCHANGED tainted
  /\ \/ At(c, "proxyUsers") /\ cmd[c].found = {} /\ Advance(c)
     \/ At(c, "proxyUsers") /\ cmd[c].found # {} /\ Go(c, After(cmd[c].op, "stopProxy"))
     \/ At(c, "lookUp") /\ cmd[c].found # {} /\ Advance(c)
     \/ At(c, "lookUp") /\ cmd[c].found = {} /\ Go(c, "kill")
-----------------------------------------------------------------------------
(* Steps that rewrite the config file: lock, read, change, save, unlock. *)

\* Mutant: nobody waits for the lock.
LockFreeAlways == TRUE
LockFree == lock = Nobody

Lock(c) ==
  /\ cmd[c].at \in Locked /\ cmd[c].phase = "lock" /\ LockFree
  /\ lock' = c
  /\ Stay(c, "read", cmd[c])
  /\ UNCHANGED <<config, world, unused, tainted, broken>>

\* lockCliConfig rejects inside the try, and unlockCliConfig in its finally removes
\* the lock file of the holder.
LockTimeout(c) ==
  /\ cmd[c].at \in Locked /\ cmd[c].phase = "lock" /\ lock # Nobody
  /\ lock' = Nobody /\ broken' = TRUE
  /\ Fail(c)
  /\ UNCHANGED <<config, world, unused>>

\* "Site not found" unlocks and throws; stop --all and the removal of a failed
\* `create` change what they find, a new site is appended unasked.
Read(c) ==
  /\ cmd[c].at \in Locked /\ cmd[c].phase = "read"
  /\ IF cmd[c].at \in Unasked \/ config[site(c)].there
     THEN Stay(c, "save", [cmd[c] EXCEPT !.copy = config]) /\ UNCHANGED <<lock, tainted>>
     ELSE Fail(c) /\ lock' = Nobody
  /\ UNCHANGED <<config, world, unused, broken>>

\* Mutant: remove leaves an entry that says it is not there.
EditKeeps(c, s, e) == IF At(c, "remove") THEN [e EXCEPT !.there = FALSE] ELSE e
\* The entry e of site s after the change of command c.
Edit(c, s, e) ==
  CASE cmd[c].at \in {"remove", "undo"} -> Absent
    [] At(c, "append") -> cmd[c].seen
    [] At(c, "setAuto") -> [e EXCEPT !.auto = cmd[c].op = "start" \/ cmd[c].arg]
    [] At(c, "clearPid") -> [e EXCEPT !.pid = NoPid]
    [] At(c, "apply") -> [e EXCEPT ![cmd[c].op] = cmd[c].arg]
    [] cmd[c].at \in {"setPid", "setPidAndEnd"} -> [e EXCEPT !.pid = cmd[c].pid]
    [] At(c, "clearAll") -> [e EXCEPT !.pid = NoPid, !.auto = cmd[c].arg]

\* The sites whose entries a command changes.
Changed(c) ==
  CASE At(c, "clearAll") -> {s \in cmd[c].found : cmd[c].copy[s].there}
    [] At(c, "undo") -> {s \in {site(c)} : cmd[c].copy[s].there}
    [] OTHER -> {site(c)}

Saved(c) == [s \in Sites |-> IF s \in Changed(c) THEN Edit(c, s, cmd[c].copy[s]) ELSE cmd[c].copy[s]]

\* With --no-start, `create` ends when the site is saved.
Following(c) == IF At(c, "append") /\ ~cmd[c].arg THEN "over" ELSE After(cmd[c].op, cmd[c].at)

Save(c) ==
  /\ cmd[c].at \in Locked /\ cmd[c].phase = "save"
  /\ config' = Saved(c)
  /\ lock' = Nobody
  /\ With(c, Following(c),
          [cmd[c] EXCEPT !.copy = <<>>, !.pid = NoPid, !.seen = IF At(c, "apply") THEN Known(Saved(c)[site(c)]) ELSE @])
  /\ UNCHANGED <<world, unused, tainted, broken>>
-----------------------------------------------------------------------------
(* Steps that ask the daemon for a change. *)

Asks == UNCHANGED <<config, lock, unused, broken>>

StartProxy(c) ==
  /\ At(c, "startProxy") /\ Asks /\ proxy' = TRUE
  /\ Advance(c)
  /\ UNCHANGED <<proc, tainted>>

StopProxy(c) ==
  /\ At(c, "stopProxy") /\ Asks /\ proxy' = FALSE
  /\ Advance(c)
  /\ UNCHANGED <<proc, tainted>>

\* A pid that is not on record: the system does not reuse one so soon.
Fresh(s) == Pids \ ({config[s].pid} \cup {cmd[c].pid : c \in {c \in Commands : site(c) = s}})

\* start-process: the process that is online, or a new one.
Boot(c) ==
  /\ At(c, "boot") /\ Asks
  /\ LET p == IF Online(site(c)) THEN proc[site(c)] ELSE CHOOSE q \in Fresh(site(c)) : TRUE
     IN  /\ proc' = [proc EXCEPT ![site(c)] = p]
         /\ With(c, "serve", [cmd[c] EXCEPT !.pid = p])
  /\ UNCHANGED <<proxy, tainted>>

\* ready and start-server are answered.
Serve(c) ==
  /\ At(c, "serve") /\ Asks /\ proc[site(c)] = cmd[c].pid
  /\ Advance(c)
  /\ UNCHANGED <<world, tainted>>

\* Mutant: the exit of the process is not awaited, nor enforced.
HaltEarly(c) == At(c, "halt") /\ Asks /\ Advance(c) /\ UNCHANGED <<world, tainted>>
\* stopWordPressServer: whatever process the site has by now.
Halt(c) ==
  /\ At(c, "halt") /\ Asks
  /\ proc' = [proc EXCEPT ![site(c)] = NoPid]
  /\ Advance(c)
  /\ UNCHANGED <<proxy, tainted>>

\* killDaemonAndChildren.
Kill(c) ==
  /\ At(c, "kill") /\ Asks
  /\ proc' = [s \in Sites |-> NoPid] /\ proxy' = FALSE
  /\ Advance(c)
  /\ UNCHANGED tainted

\* A request is refused, answered with an error or not at all.
RequestFails(c) ==
  /\ cmd[c].at \in {"startProxy", "stopProxy", "boot", "serve", "halt", "kill"} /\ Asks
  /\ Fail(c)
  /\ UNCHANGED world
-----------------------------------------------------------------------------
Next ==
  \/ \E c \in Commands :
       \/ \E op \in Ops, s \in Sites : \E arg \in Args(op) : Begin(c, op, s, arg)
       \/ \E s \in Sites, f \in Folders, domain \in BOOLEAN, arg \in Args("create") : BeginCreate(c, s, f, domain, arg)
       \/ Load(c) \/ Validate(c) \/ Check(c) \/ NeedProxy(c) \/ ProxyOn(c) \/ ProxySites(c) \/ List(c)
       \/ (\E s \in Sites : LookUp(c, s)) \/ LookedUp(c)
       \/ Lock(c) \/ LockTimeout(c) \/ Read(c) \/ Save(c)
       \/ StartProxy(c) \/ StopProxy(c) \/ Boot(c) \/ Serve(c) \/ Halt(c) \/ Kill(c)
       \/ RequestFails(c) \/ ListFails(c) \/ Interrupt(c)
  \/ \E s \in Sites : Crash(s)

Spec == Init /\ [][Next]_vars
-----------------------------------------------------------------------------
(* Properties. *)

TypeOK ==
  /\ config \in [Sites -> Entries \cup {Absent}]
  /\ lock \in Commands \cup {Nobody}
  /\ proc \in [Sites -> Pids \cup {NoPid}] /\ proxy \in BOOLEAN
  /\ unused \subseteq Sites
  /\ tainted \subseteq Sites \cup {"proxy", "xdebug", "folder"} /\ broken \in BOOLEAN
  /\ \A c \in Commands : cmd[c].pid \in Pids \cup {NoPid} /\ cmd[c].found \subseteq Sites

\* Nobody at work on site s, now or when something went wrong before.
Settled(s) == ~broken /\ s \notin tainted /\ \A c \in Commands : AtWork(c) => s \notin Touched(cmd[c].op, site(c))

\* The file a command saves is the file it read: nobody's change is lost, as long
\* as no command that gave up has removed another's lock.
NoLostUpdate ==
  ~broken => \A c \in Commands : cmd[c].at \in Locked /\ cmd[c].phase = "save" => cmd[c].copy = config

\* getSitesRunningStatus shows a site as running when its process has the pid on
\* record: an online process is never missed once the commands on its site are
\* over, whatever commands on other sites did meanwhile.
StatusIsTrue ==
  \A s \in Sites : Settled(s) /\ Online(s) => config[s].there /\ config[s].pid = proc[s]

\* A site that runs is started again with Studio.
OnlineAutoStarts ==
  \A s \in Sites : Settled(s) /\ Online(s) => config[s].auto

\* A running site's domain is served, as long as no command stopped the proxy in
\* the middle of another, or without an answer about who needs it.
DomainIsServed ==
  "proxy" \notin tainted =>
    \A s \in Sites : Settled(s) /\ Online(s) /\ config[s].domain => proxy

\* Xdebug is enabled for one site, unless two commands checked at the same time.
OneXdebugAtRest ==
  ~broken /\ "xdebug" \notin tainted => Cardinality({s \in Sites : config[s].xdebug}) <= 1

\* A folder is one site's, unless two commands created sites at the same time.
OneSitePerFolder == ~broken /\ "folder" \notin tainted => FoldersDiffer

\* What the commands promise of a site nobody is at work on: it is shown as it is,
\* comes back with Studio, its domain is served, and Xdebug and its folder are its own.
SitesAtRest == StatusIsTrue /\ OnlineAutoStarts /\ DomainIsServed /\ OneXdebugAtRest /\ OneSitePerFolder

\* A deleted site, or one whose creation failed, does not come back with a file that
\* was read before: an entry appears only when the command that creates it appends it.
DeletedStaysDeleted ==
  [][\A s \in Sites :
       ~broken /\ ~config[s].there /\ config'[s].there => \E c \in Commands : At(c, "append") /\ site(c) = s]_vars

\* apps/studio, edit-site-details: "Only one site can have Xdebug enabled at a time."
\* The code does not keep it: README, "Known divergences".
OneXdebug == Cardinality({s \in Sites : config[s].xdebug}) <= 1
=============================================================================
