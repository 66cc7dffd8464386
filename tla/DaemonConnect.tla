----------------------------- MODULE DaemonConnect -----------------------------
(***************************************************************************)
(* How CLI commands find, spawn and leave the process manager daemon:      *)
(* connectToDaemon of apps/cli/lib/daemon-client.ts, the sockets of        *)
(* apps/cli/lib/socket.ts and the life of the daemon process around its    *)
(* request handlers (start, shutdown; the handlers are ProcessManager's).  *)
(*                                                                         *)
(* A daemon listens on two Unix sockets, first events, then control, and   *)
(* closes control before events.  A socket file outlives a daemon that     *)
(* crashes; listen probes a file it finds and removes it when nobody       *)
(* answers.  Commands spawn a daemon when control does not answer, under a *)
(* lock file that counts as stale after LOCKFILE_STALE_TIME, which is half *)
(* as long as a command waits for the daemon it spawned.  A command may end *)
(* at any await: on Ctrl-C its lock file is removed at once, while the     *)
(* daemon it spawned, which is detached, goes on; when it is killed, the   *)
(* file stays until it counts as stale.                                    *)
(*                                                                         *)
(* Abstracted: times (a daemon that comes up at all does so within         *)
(* LOCKFILE_STALE_TIME), requests other than ping and kill-daemon, Windows *)
(* named pipes (which leave no file).                                      *)
(***************************************************************************)
EXTENDS Naturals, FiniteSets

CONSTANTS Commands, \* CLI commands
          Daemons, \* daemon processes; bound: how many may exist at a time
          Nobody,  \* no daemon, no client, no file
          Stale    \* a socket file that no process listens on, a lock file of nobody alive

ASSUME NamesAreDistinct ==
  Nobody \notin Commands \cup Daemons \cup {Stale} /\ Stale \notin Commands \cup Daemons

Endpoints == {"events", "control"}

VARIABLES
  lock,      \* the holder of the lock file, Stale when it was killed, Nobody: no file
  step,      \* step[c]: where command c is in connectToDaemon
  spawned,   \* spawned[c]: the daemon c spawned, Nobody when it has exited
  bus,       \* bus[c]: the daemon at the other end of c's event stream
  at,        \* at[d]: the stage of daemon d
  listening, \* listening[d]: the endpoints daemon d listens on
  file,      \* file[e]: the daemon that bound the socket file, Stale or Nobody
  stolen,    \* history: a lock was taken over from a command still at work, or given
             \* back by the end of a command whose daemon was still starting
  late       \* history: commands whose stream was opened to a daemon in "ended"

commandVars == <<lock, step, spawned, stolen>>
daemonVars == <<at, listening, file>>
streamVars == <<bus, late>>
connectVars == <<commandVars, streamVars, daemonVars>>

\* No daemon runs; the last one may have crashed, at any stage.
ConnectInit ==
  /\ lock = Nobody /\ stolen = FALSE /\ late = {}
  /\ step = [c \in Commands |-> "idle"]
  /\ spawned = [c \in Commands |-> Nobody] /\ bus = [c \in Commands |-> Nobody]
  /\ at = [d \in Daemons |-> "none"] /\ listening = [d \in Daemons |-> {}]
  /\ file \in [Endpoints -> {Nobody, Stale}] /\ (file["control"] = Stale => file["events"] = Stale)
-----------------------------------------------------------------------------
(* The daemon's sockets. *)

\* Mutant: a socket file is taken for a daemon that listens.
ServerByFile(e) == file[e]
\* The daemon a connection to endpoint e reaches, Nobody when it is refused.
Server(e) == IF file[e] \in Daemons /\ e \in listening[file[e]] THEN file[e] ELSE Nobody

Set(d, stage) == at' = [at EXCEPT ![d] = stage]

\* events is bound before control.
ToBind(d) == IF "events" \in listening[d] THEN "control" ELSE "events"

Bound(d, e) ==
  /\ listening' = [listening EXCEPT ![d] = @ \cup {e}]
  /\ file' = [file EXCEPT ![e] = d]
  /\ Set(d, IF e = "control" THEN "up" ELSE "bind")
  /\ UNCHANGED <<commandVars, streamVars>>

\* The streams of commands C are closed.
Disconnect(C) ==
  /\ bus' = [c \in Commands |-> IF c \in C THEN Nobody ELSE bus[c]]
  /\ late' = late \ C

\* Process d is gone, and with it its connections.
Gone(d) ==
  /\ Set(d, "none")
  /\ listening' = [listening EXCEPT ![d] = {}]
  /\ Disconnect({c \in Commands : bus[c] = d})
  /\ spawned' = [c \in Commands |-> IF spawned[c] = d THEN Nobody ELSE spawned[c]]

\* listen throws and main only logs: a daemon that listens nowhere exits, one
\* that has its events socket stays.
ListenFails(d) ==
  /\ IF listening[d] = {} THEN Gone(d)
     ELSE Set(d, "half") /\ UNCHANGED <<listening, streamVars, spawned>>
  /\ UNCHANGED <<lock, step, stolen, file>>

Bind(d) ==
  /\ at[d] = "bind"
  /\ IF file[ToBind(d)] = Nobody THEN Bound(d, ToBind(d))
     ELSE Set(d, "probe") /\ UNCHANGED <<commandVars, streamVars, listening, file>>

\* Mutant: the file is removed without asking who listens.
ProbeNobody(d) ==
  /\ at[d] = "probe" /\ Set(d, "unlink")
  /\ UNCHANGED <<commandVars, streamVars, listening, file>>
Probe(d) ==
  /\ at[d] = "probe"
  /\ IF Server(ToBind(d)) # Nobody THEN ListenFails(d)
     ELSE Set(d, "unlink") /\ UNCHANGED <<commandVars, streamVars, listening, file>>

Unlink(d) ==
  /\ at[d] = "unlink"
  /\ file' = [file EXCEPT ![ToBind(d)] = Nobody]
  /\ Set(d, "rebind")
  /\ UNCHANGED <<commandVars, streamVars, listening>>

Rebind(d) ==
  /\ at[d] = "rebind"
  /\ IF file[ToBind(d)] = Nobody THEN Bound(d, ToBind(d)) ELSE ListenFails(d)
-----------------------------------------------------------------------------
(* The end of a daemon. *)

\* kill-daemon, once the children are dead and the answer is sent.
ShutDown(d) ==
  /\ at[d] = "up"
  /\ Set(d, "closing")
  /\ UNCHANGED <<commandVars, streamVars, listening, file>>

\* Closing a server removes its socket file, whoever bound it last.
Close(d, e) ==
  /\ listening' = [listening EXCEPT ![d] = @ \ {e}]
  /\ file' = [file EXCEPT ![e] = Nobody]

CloseControl(d) ==
  /\ at[d] = "closing"
  /\ Close(d, "control")
  /\ Set(d, "ending")
  /\ UNCHANGED <<commandVars, streamVars>>

\* Mutant: subscribers are not disconnected.
EndNoEvents(d) ==
  /\ at[d] = "ending" /\ Set(d, "ended")
  /\ UNCHANGED <<commandVars, streamVars, listening, file>>
\* Each subscriber's socket is ended; the server still accepts others.
EndEvents(d) ==
  /\ at[d] = "ending"
  /\ Set(d, "ended")
  /\ Disconnect({c \in Commands : bus[c] = d})
  /\ UNCHANGED <<commandVars, listening, file>>

CloseEvents(d) ==
  /\ at[d] = "ended"
  /\ Close(d, "events")
  /\ Set(d, "draining")
  /\ UNCHANGED <<commandVars, streamVars>>

\* server.close waits for the sockets accepted in the meantime.
Exit(d) ==
  /\ at[d] = "draining" /\ \A c \in Commands : bus[c] # d
  /\ Gone(d)
  /\ UNCHANGED <<lock, step, stolen, file>>

\* The daemon crashes or is killed; its socket files stay.
Crash(d) ==
  /\ at[d] # "none"
  /\ Gone(d)
  /\ file' = [e \in Endpoints |-> IF file[e] = d THEN Stale ELSE file[e]]
  /\ UNCHANGED <<lock, step, stolen>>
-----------------------------------------------------------------------------
(* connectToDaemon. *)

Go(c, s) == step' = [step EXCEPT ![c] = s]
Holding == {"ping", "wait", "again", "bus"}
Starting == {"bind", "probe", "unlink", "rebind"}

Connect(c) ==
  /\ step[c] = "idle"
  /\ Go(c, "lock")
  /\ UNCHANGED <<lock, spawned, stolen, streamVars, daemonVars>>

\* A lock is stale when its holder waits for a daemon that has died: any other
\* holder is done within LOCKFILE_STALE_TIME, and so is a daemon that closes.
LockIsStale ==
  /\ lock \in Commands /\ step[lock] = "wait" /\ spawned[lock] = Nobody
  /\ \A d \in Daemons : at[d] \notin {"closing", "ending", "ended"}

\* So is the lock of a command that was killed, once the daemon it may have spawned
\* has had the time to come up.
LockIsLeft ==
  lock = Stale /\ \A d \in Daemons : at[d] \notin Starting \cup {"closing", "ending", "ended"}

LockFree == lock = Nobody \/ LockIsStale \/ LockIsLeft

Lock(c) ==
  /\ step[c] = "lock" /\ LockFree
  /\ lock' = c /\ stolen' = (stolen \/ LockIsStale)
  /\ Go(c, "ping")
  /\ UNCHANGED <<spawned, streamVars, daemonVars>>

\* LOCKFILE_WAIT_TIME is over: lockFileAsync rejects, outside the try.
LockTimeout(c) ==
  /\ step[c] = "lock" /\ ~LockFree
  /\ Go(c, "failed")
  /\ UNCHANGED <<lock, spawned, stolen, streamVars, daemonVars>>

\* unlockFileAsync removes the file, whoever holds the lock.
UnlockAnd(c, s) ==
  /\ lock' = Nobody
  /\ Go(c, s)
  /\ UNCHANGED <<spawned, stolen, daemonVars>>

\* The control socket answers a ping.
PingAnswered(c) ==
  /\ step[c] \in {"ping", "wait", "again"} /\ Server("control") # Nobody
  /\ Go(c, IF step[c] = "wait" THEN "again" ELSE "bus")
  /\ UNCHANGED <<lock, spawned, stolen, streamVars, daemonVars>>

\* isRecoverableConnectError: there is no socket file, or nobody listens on it.
Spawn(c, d) ==
  /\ step[c] = "ping" /\ Server("control") = Nobody
  /\ at[d] = "none"
  /\ Set(d, "bind")
  /\ spawned' = [spawned EXCEPT ![c] = d]
  /\ Go(c, "wait")
  /\ UNCHANGED <<lock, stolen, streamVars, listening, file>>

\* The connection is closed without an answer, or nobody answers the ping that
\* follows a first answer: an error that is not recovered.
PingFails(c) ==
  /\ \/ step[c] \in {"ping", "again"} /\ \E d \in Daemons : d = Server("control") /\ at[d] = "closing"
     \/ step[c] = "again" /\ Server("control") = Nobody
  /\ UnlockAnd(c, "failed") /\ UNCHANGED streamVars

\* Mutant: the wait has no end.
WaitForever(c) == FALSE
\* CONNECTION_TIMEOUT_MS is over: nobody answers and the spawned daemon does
\* not come up any more.
WaitIsOver(c) ==
  /\ Server("control") = Nobody
  /\ \A d \in Daemons : spawned[c] = d => at[d] \notin Starting

WaitTimeout(c) ==
  /\ step[c] = "wait" /\ WaitIsOver(c)
  /\ UnlockAnd(c, "failed") /\ UNCHANGED streamVars

\* A stream to the daemon that serves events, if there is one.
OpenBus(c) ==
  /\ bus' = [bus EXCEPT ![c] = Server("events")]
  /\ late' = late \cup {b \in {c} : \E d \in Daemons : d = Server("events") /\ at[d] = "ended"}

ConnectBus(c) ==
  /\ step[c] = "bus"
  /\ OpenBus(c)
  /\ UnlockAnd(c, IF Server("events") = Nobody THEN "failed" ELSE "connected")

\* SocketStreamClient: a stream that was closed by the daemon is reopened.
Reconnect(c) ==
  /\ step[c] = "connected" /\ bus[c] = Nobody /\ Server("events") # Nobody
  /\ OpenBus(c)
  /\ UNCHANGED <<commandVars, daemonVars>>

\* The command is over (disconnectFromDaemon), or has reported its failure.
Done(c) ==
  /\ step[c] \in {"connected", "failed"}
  /\ Go(c, "idle")
  /\ Disconnect({c})
  /\ spawned' = [spawned EXCEPT ![c] = Nobody]
  /\ UNCHANGED <<lock, stolen, daemonVars>>
\* Command c is gone before connectToDaemon has returned.
Ends(c) ==
  /\ step[c] \in Holding \cup {"lock"}
  /\ Go(c, "idle")
  /\ spawned' = [spawned EXCEPT ![c] = Nobody]
  /\ UNCHANGED <<streamVars, daemonVars>>

\* Ctrl-C, a closed terminal or an early exit: a command that has taken the lock
\* removes the file as it ends, whoever holds it now.
Interrupted(c) ==
  /\ Ends(c)
  /\ lock' = IF step[c] \in Holding THEN Nobody ELSE lock
  /\ stolen' = (stolen \/ \E d \in Daemons :
                           step[c] = "wait" /\ spawned[c] = d /\ at[d] \in Starting)

\* A command that is killed removes nothing.
Killed(c) ==
  /\ Ends(c)
  /\ lock' = IF lock = c THEN Stale ELSE lock
  /\ UNCHANGED stolen
-----------------------------------------------------------------------------
ConnectNext ==
  \/ \E d \in Daemons : \/ Bind(d) \/ Probe(d) \/ Unlink(d) \/ Rebind(d)
                        \/ ShutDown(d) \/ CloseControl(d) \/ EndEvents(d) \/ CloseEvents(d)
                        \/ Exit(d) \/ Crash(d)
  \/ \E c \in Commands : \/ Connect(c) \/ Lock(c) \/ LockTimeout(c) \/ PingAnswered(c)
                        \/ \E d \in Daemons : Spawn(c, d)
                        \/ PingFails(c) \/ WaitTimeout(c) \/ ConnectBus(c)
                        \/ Reconnect(c) \/ Done(c) \/ Interrupted(c) \/ Killed(c)

ConnectSpec == ConnectInit /\ [][ConnectNext]_connectVars

\* Event loops go on, waits end, commands that failed end.  Whether somebody
\* connects or shuts down, crashes, and how long a command that is connected runs
\* (_events runs as long as Studio) or until it is ended, are left open.
ConnectFairness ==
  /\ \A d \in Daemons : /\ WF_connectVars(Bind(d) \/ Probe(d) \/ Unlink(d) \/ Rebind(d))
                        /\ WF_connectVars(\/ CloseControl(d) \/ EndEvents(d)
                                          \/ CloseEvents(d) \/ Exit(d))
  /\ \A c \in Commands :
       /\ WF_connectVars(Lock(c) \/ LockTimeout(c))
       /\ WF_connectVars(PingAnswered(c) \/ PingFails(c) \/ WaitTimeout(c) \/ ConnectBus(c)
                  \/ \E d \in Daemons : Spawn(c, d))
       /\ WF_connectVars(step[c] = "failed" /\ Done(c))

ConnectFairSpec == ConnectSpec /\ ConnectFairness
-----------------------------------------------------------------------------
(* Properties. *)

ConnectTypeOK ==
  /\ lock \in Commands \cup {Stale, Nobody}
  /\ step \in [Commands -> Holding \cup {"idle", "lock", "connected", "failed"}]
  /\ spawned \in [Commands -> Daemons \cup {Nobody}]
  /\ bus \in [Commands -> Daemons \cup {Nobody}]
  /\ late \subseteq {c \in Commands : bus[c] # Nobody}
  /\ at \in [Daemons -> {"none", "bind", "probe", "unlink", "rebind", "up", "half", "closing",
                         "ending", "ended", "draining"}]
  /\ listening \in [Daemons -> SUBSET Endpoints]
  /\ file \in [Endpoints -> Daemons \cup {Stale, Nobody}]

\* Two daemons never listen at the same endpoint, although each removes the
\* socket files it finds, as long as no lock is taken over and no command is
\* interrupted while the daemon it spawned is still starting.
OneDaemon ==
  ~stolen => \A e \in Endpoints : \A d1, d2 \in Daemons :
    e \in listening[d1] /\ e \in listening[d2] => d1 = d2

\* No daemon has the events socket for itself without ever serving requests.
NoHalfDaemon == ~stolen => \A d \in Daemons : at[d] # "half"

\* The daemon a command gets its events from is the daemon that serves its
\* requests: otherwise it would wait for events that never come.  Excepted are
\* the commands whose stream was accepted between EndEvents and CloseEvents: they
\* keep the old daemon while others use the next one.
SameDaemon ==
  ~stolen => \A c \in Commands \ late : bus[c] # Nobody /\ Server("control") # Nobody =>
    bus[c] = Server("control")

\* A daemon that serves can be reached: its socket files are its own.
Reachable == ~stolen => \A d \in Daemons : at[d] = "up" => Server("control") = d /\ Server("events") = d

\* There is one daemon, it is whole and it can be reached, and those who are
\* connected hear of what they ask for (daemon-client.ts:84-258, socket.ts:340-380).
OneWholeDaemon == OneDaemon /\ NoHalfDaemon /\ SameDaemon /\ Reachable

\* connectToDaemon ends, whatever happens to daemons and lock holders, as long as
\* the bound on Daemons leaves it one to spawn, or the command itself is ended.
ConnectEnds ==
  \A c \in Commands :
    step[c] = "lock" ~> step[c] \in {"connected", "failed", "idle"} \/ \A d \in Daemons : at[d] # "none"

\* A daemon that is told to shut down exits, however long its subscribers live,
\* unless one of them is late.
ClosingEnds ==
  \A d \in Daemons : at[d] = "closing" ~> at[d] = "none" \/ \E c \in late : bus[c] = d

\* Whoever connects or shuts down comes to an end with it.
CallsEnd == ConnectEnds /\ ClosingEnds
=============================================================================
