-------------------------- MODULE SiteCommandsProofs --------------------------
(* Proofs about SiteCommands: the config file under its lock, for every set of *)
(* commands and sites.                                                         *)
EXTENDS SiteCommands, FiniteSetTheorems, TLAPS

\* r has the fields of a command.
IsCommand(r) ==
  r = [op |-> r.op, arg |-> r.arg, site |-> r.site, at |-> r.at, phase |-> r.phase,
       seen |-> r.seen, copy |-> r.copy, pid |-> r.pid, todo |-> r.todo, found |-> r.found]

\* Whatever changes of a command, it keeps its fields.
LEMMA FieldKept ==
  ASSUME NEW r, IsCommand(r), NEW v
  PROVE  /\ IsCommand([r EXCEPT !.op = v]) /\ IsCommand([r EXCEPT !.arg = v])
         /\ IsCommand([r EXCEPT !.site = v]) /\ IsCommand([r EXCEPT !.phase = v])
         /\ IsCommand([r EXCEPT !.seen = v]) /\ IsCommand([r EXCEPT !.copy = v])
         /\ IsCommand([r EXCEPT !.todo = v]) /\ IsCommand([r EXCEPT !.found = v])
         /\ IsCommand([r EXCEPT !.pid = v])
BY DEF IsCommand

\* The same for the changes the actions make of several fields at once.
LEMMA FieldsKept ==
  ASSUME NEW r, IsCommand(r), NEW u, NEW v, NEW w
  PROVE  /\ IsCommand([r EXCEPT !.op = u, !.site = v, !.arg = w])
         /\ IsCommand([r EXCEPT !.todo = u, !.found = v])
         /\ IsCommand([r EXCEPT !.op = "create", !.site = u, !.arg = v, !.seen = w])
         /\ IsCommand([r EXCEPT !.copy = u, !.pid = v, !.seen = w])
<1>1. IsCommand([r EXCEPT !.op = u, !.site = v, !.arg = w])
  <2>1. IsCommand([r EXCEPT !.op = u])
    BY FieldKept
  <2>2. IsCommand([r EXCEPT !.op = u, !.site = v])
    BY <2>1, FieldKept
  <2>. QED BY <2>2, FieldKept
<1>2. IsCommand([r EXCEPT !.todo = u, !.found = v])
  <2>1. IsCommand([r EXCEPT !.todo = u])
    BY FieldKept
  <2>. QED BY <2>1, FieldKept
<1>3. IsCommand([r EXCEPT !.op = "create", !.site = u, !.arg = v, !.seen = w])
  <2>1. IsCommand([r EXCEPT !.op = "create"])
    BY FieldKept
  <2>2. IsCommand([r EXCEPT !.op = "create", !.site = u])
    BY <2>1, FieldKept
  <2>3. IsCommand([r EXCEPT !.op = "create", !.site = u, !.arg = v])
    BY <2>2, FieldKept
  <2>. QED BY <2>3, FieldKept
<1>4. IsCommand([r EXCEPT !.copy = u, !.pid = v, !.seen = w])
  <2>1. IsCommand([r EXCEPT !.copy = u])
    BY FieldKept
  <2>2. IsCommand([r EXCEPT !.copy = u, !.pid = v])
    BY <2>1, FieldKept
  <2>. QED BY <2>2, FieldKept
<1>. QED BY <1>1, <1>2, <1>3, <1>4

CommandsInv ==
  /\ cmd = [c \in Commands |-> cmd[c]]
  /\ \A c \in Commands : IsCommand(cmd[c])

\* Command c is between lockCliConfig and unlockCliConfig.
Inside(c) == cmd[c].at \in Locked /\ cmd[c].phase \in {"read", "save"}
Saving(c) == cmd[c].at \in Locked /\ cmd[c].phase = "save"

\* The lock file is the lock of the only command inside, as long as nobody has
\* removed another's.
LockInv == ~broken => \A c \in Commands : Inside(c) => lock = c

\* A command saves the entry of a site it has found in the file, unless it does not
\* ask for it.
EntryInv == \A c \in Commands : Saving(c) /\ cmd[c].at \notin Unasked => cmd[c].copy[site(c)].there

IInv == CommandsInv /\ LockInv /\ NoLostUpdate /\ EntryInv

\* Command c goes on outside the lock, the others stay where they are.
Outside(c) ==
  /\ cmd' = [d \in Commands |-> cmd'[d]]
  /\ \A d \in Commands : IsCommand(cmd'[d])
  /\ \A d \in Commands \ {c} : cmd'[d] = cmd[d]
  /\ ~(Inside(c)')

\* With leaves the lock: every step begins with its phase "lock".
LEMMA WithIsOutside ==
  ASSUME CommandsInv, NEW c \in Commands, NEW a, NEW r, IsCommand(r), With(c, a, r)
  PROVE  Outside(c)
<1>. DEFINE r2 == IF a = "over" THEN [Idle EXCEPT !.at = a] ELSE [r EXCEPT !.at = a, !.phase = "lock"]
<1>1. cmd' = [cmd EXCEPT ![c] = r2]
  BY DEF With
<1>2. IsCommand(r2) /\ r2.phase = "lock"
  BY DEF IsCommand, Idle
<1>3. cmd' = [d \in Commands |-> IF d = c THEN r2 ELSE cmd[d]]
  <2>. HIDE DEF r2
  <2>. QED BY <1>1 DEF CommandsInv
<1>. HIDE DEF r2
<1>4. cmd'[c] = r2 /\ \A d \in Commands \ {c} : cmd'[d] = cmd[d]
  BY <1>3
<1>5. \A d \in Commands : IsCommand(cmd'[d])
  BY <1>2, <1>4 DEF CommandsInv
<1>6. ~(Inside(c)')
  BY <1>2, <1>4 DEF Inside
<1>. QED BY <1>3, <1>4, <1>5, <1>6 DEF Outside

\* A command that stays at its step: only its phase and its copy may change.
LEMMA StayFields ==
  ASSUME CommandsInv, NEW c \in Commands, NEW phase, NEW r, IsCommand(r), Stay(c, phase, r)
  PROVE  /\ CommandsInv'
         /\ \A d \in Commands \ {c} : cmd'[d] = cmd[d]
         /\ cmd'[c].phase = phase /\ cmd'[c].at = r.at
         /\ cmd'[c].site = r.site /\ cmd'[c].copy = r.copy
<1>. DEFINE r2 == [r EXCEPT !.phase = phase]
<1>1. cmd' = [cmd EXCEPT ![c] = r2]
  BY DEF Stay
<1>2. IsCommand(r2)
  BY FieldKept
<1>3. r2.phase = phase /\ r2.at = r.at /\ r2.site = r.site /\ r2.copy = r.copy
  BY DEF IsCommand
<1>. HIDE DEF r2
<1>4. cmd' = [d \in Commands |-> IF d = c THEN r2 ELSE cmd[d]]
  BY <1>1 DEF CommandsInv
<1>5. cmd'[c] = r2 /\ \A d \in Commands \ {c} : cmd'[d] = cmd[d]
  BY <1>4
<1>6. CommandsInv'
  BY <1>2, <1>4, <1>5 DEF CommandsInv
<1>. QED BY <1>3, <1>5, <1>6

\* A command that goes on to another step is outside the lock.
LEMMA GoIsOutside ==
  ASSUME CommandsInv, NEW c \in Commands, NEW a, Go(c, a)
  PROVE  Outside(c)
BY WithIsOutside DEF Go, CommandsInv

\* A step outside the lock that leaves the file, and the lock to its holder.
LEMMA OutsideStep ==
  ASSUME IInv, NEW c \in Commands, Outside(c), config' = config, broken' = broken,
         lock' = lock \/ (lock = c /\ lock' = Nobody)
  PROVE  IInv'
<1>1. CommandsInv'
  BY DEF Outside, CommandsInv
<1>2. \A d \in Commands : Inside(d)' => d # c /\ Inside(d) /\ cmd'[d] = cmd[d]
  BY DEF Outside, Inside
<1>3. \A d \in Commands : Saving(d)' => d # c /\ Saving(d) /\ cmd'[d] = cmd[d]
  BY DEF Outside, Inside, Saving
<1>4. LockInv'
  BY <1>2 DEF IInv, LockInv
<1>5. NoLostUpdate'
  BY <1>3 DEF IInv, NoLostUpdate, Saving
<1>6. EntryInv'
  BY <1>3 DEF IInv, EntryInv, At, site
<1>. QED BY <1>1, <1>4, <1>5, <1>6 DEF IInv
-----------------------------------------------------------------------------
(* The steps, by what they do to the lock. *)

\* Steps that only read: Begin and all that precedes a change.
LEMMA ReadingStep ==
  ASSUME IInv, NEW c \in Commands,
         \/ \E op \in Ops, s \in Sites : \E arg \in Args(op) : Begin(c, op, s, arg)
         \/ \E s \in Sites, f \in Folders, domain \in BOOLEAN, arg \in Args("create") : BeginCreate(c, s, f, domain, arg)
         \/ Load(c) \/ Validate(c) \/ Check(c) \/ ListFails(c) \/ NeedProxy(c) \/ ProxyOn(c)
         \/ ProxySites(c) \/ List(c) \/ (\E s \in Sites : LookUp(c, s)) \/ LookedUp(c)
  PROVE  IInv'
<1>. IsCommand(cmd[c]) /\ CommandsInv
  BY DEF IInv, CommandsInv
<1>1. CASE \E op \in Ops, s \in Sites : \E arg \in Args(op) : Begin(c, op, s, arg)
  <2>1. PICK op \in Ops, s \in Sites : \E arg \in Args(op) : Begin(c, op, s, arg)
    BY <1>1
  <2>2. PICK arg \in Args(op) : Begin(c, op, s, arg)
    BY <2>1
  <2>3. IsCommand([cmd[c] EXCEPT !.op = op, !.site = s, !.arg = arg])
    BY FieldsKept
  <2>4. Outside(c)
    BY <2>2, <2>3, WithIsOutside DEF Begin, Call
  <2>. QED BY <2>2, <2>4, OutsideStep DEF Begin, Call
<1>13. CASE \E s \in Sites, f \in Folders, domain \in BOOLEAN, arg \in Args("create") : BeginCreate(c, s, f, domain, arg)
  <2>1. PICK s \in Sites, f \in Folders, domain \in BOOLEAN, arg \in Args("create") : BeginCreate(c, s, f, domain, arg)
    BY <1>13
  <2>2. IsCommand([cmd[c] EXCEPT !.op = "create", !.site = s, !.arg = arg, !.seen = NewEntry(f, domain)])
    BY FieldsKept
  <2>3. Outside(c)
    BY <2>1, <2>2, WithIsOutside DEF BeginCreate, Call
  <2>. QED BY <2>1, <2>3, OutsideStep DEF BeginCreate, Call
<1>2. CASE Load(c)
  <2>1. \A e : IsCommand([cmd[c] EXCEPT !.seen = e])
    BY FieldKept
  <2>2. Outside(c)
    BY <1>2, <2>1, WithIsOutside, GoIsOutside DEF Load
  <2>. QED BY <1>2, <2>2, OutsideStep DEF Load, Reads
<1>3. CASE Validate(c)
  BY <1>3, GoIsOutside, OutsideStep DEF Validate, Reads, Advance
<1>4. NotRunning(c) => Outside(c)
  BY GoIsOutside DEF NotRunning, Advance
<1>5. CASE Check(c)
  <2>1. IsCommand([cmd[c] EXCEPT !.pid = proc[site(c)]])
    BY DEF IsCommand
  <2>2. Outside(c)
    BY <1>4, <1>5, <2>1, WithIsOutside, GoIsOutside DEF Check, Advance
  <2>. QED BY <1>5, <2>2, OutsideStep DEF Check, Reads
<1>6. CASE ListFails(c)
  <2>1. \A s : IsCommand([cmd[c] EXCEPT !.todo = @ \ {s}])
    BY DEF IsCommand
  <2>2. Outside(c)
    BY <1>4, <1>6, <2>1, WithIsOutside, GoIsOutside DEF ListFails, Advance
  <2>. QED BY <1>6, <2>2, OutsideStep DEF ListFails, Reads
<1>7. CASE NeedProxy(c)
  <2>1. IsCommand([cmd[c] EXCEPT !.seen = Absent])
    BY FieldKept
  <2>. QED BY <1>7, <2>1, WithIsOutside, OutsideStep DEF NeedProxy, Reads
<1>8. CASE ProxyOn(c)
  BY <1>8, GoIsOutside, OutsideStep DEF ProxyOn, Reads, Advance
<1>9. CASE ProxySites(c)
  <2>1. IsCommand([cmd[c] EXCEPT !.todo = Users(c)])
    BY DEF IsCommand
  <2>. QED BY <1>9, <2>1, WithIsOutside, OutsideStep DEF ProxySites, Reads
<1>10. CASE List(c)
  <2>1. IsCommand([cmd[c] EXCEPT !.todo = {s \in Sites : config[s].there}])
    BY FieldKept
  <2>. QED BY <1>10, <2>1, WithIsOutside, OutsideStep DEF List, Reads
<1>11. CASE \E s \in Sites : LookUp(c, s)
  <2>1. PICK s \in Sites : LookUp(c, s)
    BY <1>11
  <2>2. IsCommand([cmd[c] EXCEPT !.todo = @ \ {s}, !.found = IF Online(s) THEN @ \cup {s} ELSE @])
    BY FieldsKept
  <2>. QED BY <2>1, <2>2, WithIsOutside, OutsideStep DEF LookUp, Reads
<1>12. CASE LookedUp(c)
  BY <1>12, GoIsOutside, OutsideStep DEF LookedUp, Reads, Advance
<1>. QED
  BY <1>1, <1>2, <1>3, <1>5, <1>6, <1>7, <1>8, <1>9, <1>10, <1>11, <1>12, <1>13

\* Steps that ask the daemon, and the ends of a command outside the lock.
LEMMA DaemonStep ==
  ASSUME IInv, NEW c \in Commands,
         StartProxy(c) \/ StopProxy(c) \/ Boot(c) \/ Serve(c) \/ Halt(c) \/ Kill(c) \/ RequestFails(c)
  PROVE  IInv'
<1>. IsCommand(cmd[c]) /\ CommandsInv
  BY DEF IInv, CommandsInv
<1>1. CASE Boot(c)
  <2>1. \A p : IsCommand([cmd[c] EXCEPT !.pid = p])
    BY DEF IsCommand
  <2>2. Outside(c)
    BY <1>1, <2>1, WithIsOutside DEF Boot
  <2>. QED BY <1>1, <2>2, OutsideStep DEF Boot, Asks
<1>2. CASE StartProxy(c) \/ StopProxy(c) \/ Serve(c) \/ Halt(c) \/ Kill(c) \/ RequestFails(c)
  BY <1>2, GoIsOutside, OutsideStep
  DEF StartProxy, StopProxy, Serve, Halt, Kill, RequestFails, Fail, Leave, Advance, Asks
<1>. QED BY <1>1, <1>2

\* An interrupted command gives its own lock back, and no other.
LEMMA InterruptStep == ASSUME IInv, NEW c \in Commands, Interrupt(c) PROVE IInv'
<1>1. CommandsInv
  BY DEF IInv
<1>. QED BY <1>1, GoIsOutside, OutsideStep DEF Interrupt, Leave

\* A command that gives up breaks the lock: nothing is claimed after that, but that
\* entries are found before they are saved.
LEMMA LockTimeoutStep == ASSUME IInv, NEW c \in Commands, LockTimeout(c) PROVE IInv'
<1>1. CommandsInv
  BY DEF IInv
<1>2. Outside(c)
  BY <1>1, GoIsOutside DEF LockTimeout, Fail, Leave
<1>3. CommandsInv'
  BY <1>2 DEF Outside, CommandsInv
<1>4. \A d \in Commands : Saving(d)' => d # c /\ Saving(d) /\ cmd'[d] = cmd[d]
  BY <1>2 DEF Outside, Inside, Saving
<1>5. EntryInv'
  BY <1>4 DEF IInv, EntryInv, At, site
<1>6. broken'
  BY DEF LockTimeout
<1>. QED BY <1>3, <1>5, <1>6 DEF IInv, LockInv, NoLostUpdate

\* Whoever takes the lock finds nobody inside.
LEMMA LockStep == ASSUME IInv, NEW c \in Commands, Lock(c) PROVE IInv'
<1>1. CommandsInv /\ IsCommand(cmd[c]) /\ Stay(c, "read", cmd[c])
  BY DEF IInv, CommandsInv, Lock
<1>2. UNCHANGED <<config, broken>> /\ lock' = c /\ lock = Nobody
  BY DEF Lock, LockFree
<1>3. CommandsInv' /\ cmd'[c].phase = "read" /\ \A d \in Commands \ {c} : cmd'[d] = cmd[d]
  BY <1>1, StayFields
<1>4. LockInv'
  BY <1>2, <1>3, NobodyIsNoCommand DEF IInv, LockInv, Inside
<1>5. \A d \in Commands : Saving(d)' => Saving(d) /\ cmd'[d] = cmd[d]
  BY <1>3 DEF Saving
<1>6. NoLostUpdate' /\ EntryInv'
  BY <1>2, <1>5 DEF IInv, NoLostUpdate, EntryInv, Saving, At, site
<1>. QED BY <1>3, <1>4, <1>6 DEF IInv

\* The command inside reads the file as it is.
LEMMA ReadStep == ASSUME IInv, NEW c \in Commands, Read(c) PROVE IInv'
<1>. CommandsInv
  BY DEF IInv
<1>1. CASE cmd[c].at \in Unasked \/ config[site(c)].there
  <2>. DEFINE r == [cmd[c] EXCEPT !.copy = config]
  <2>1. IsCommand(cmd[c])
    BY DEF CommandsInv
  <2>2. IsCommand(r)
    BY <2>1, FieldKept
  <2>3. r.copy = config /\ r.at = cmd[c].at /\ r.site = cmd[c].site
    BY <2>1 DEF IsCommand
  <2>4. Stay(c, "save", r) /\ UNCHANGED <<config, broken, lock>>
    BY <1>1 DEF Read
  <2>. HIDE DEF r
  <2>5. CommandsInv' /\ \A d \in Commands \ {c} : cmd'[d] = cmd[d]
    BY <2>2, <2>4, StayFields
  <2>6. cmd'[c].at = cmd[c].at /\ cmd'[c].site = cmd[c].site /\ cmd'[c].copy = config
    BY <2>2, <2>3, <2>4, StayFields
  <2>7. Inside(c)
    BY DEF Read, Inside
  <2>8. \A d \in Commands : Inside(d)' => Inside(d)
    BY <2>5, <2>7 DEF Inside
  <2>9. LockInv'
    BY <2>4, <2>8 DEF IInv, LockInv
  <2>10. NoLostUpdate'
    BY <2>4, <2>5, <2>6 DEF IInv, NoLostUpdate
  <2>11. EntryInv'
    BY <1>1, <2>5, <2>6 DEF IInv, EntryInv, Saving, At, site
  <2>. QED BY <2>5, <2>9, <2>10, <2>11 DEF IInv
<1>2. CASE ~(cmd[c].at \in Unasked \/ config[site(c)].there)
  <2>1. Outside(c) /\ lock' = Nobody /\ UNCHANGED <<config, broken>>
    BY <1>2, GoIsOutside DEF Read, Fail, Leave
  <2>2. CASE broken
    <3>1. CommandsInv' /\ broken'
      BY <2>1, <2>2 DEF Outside, CommandsInv
    <3>2. EntryInv'
      <4>1. \A d \in Commands : Saving(d)' => d # c /\ Saving(d) /\ cmd'[d] = cmd[d]
        BY <2>1 DEF Outside, Inside, Saving
      <4>. QED BY <4>1 DEF IInv, EntryInv, At, site
    <3>. QED BY <3>1, <3>2 DEF IInv, LockInv, NoLostUpdate
  <2>3. CASE ~broken
    <3>1. lock = c
      BY <2>3 DEF IInv, LockInv, Inside, Read
    <3>. QED BY <2>1, <3>1, OutsideStep
  <2>. QED BY <2>2, <2>3
<1>. QED BY <1>1, <1>2

\* The command that saves is alone inside.
LEMMA SaveStep == ASSUME IInv, NEW c \in Commands, Save(c) PROVE IInv'
<1>. CommandsInv
  BY DEF IInv
<1>1. IsCommand(cmd[c])
  BY DEF CommandsInv
<1>2. \A e : IsCommand([cmd[c] EXCEPT !.copy = <<>>, !.pid = NoPid, !.seen = e])
  BY <1>1, FieldsKept
<1>3. Outside(c)
  <2>1. PICK e : With(c, Following(c), [cmd[c] EXCEPT !.copy = <<>>, !.pid = NoPid, !.seen = e])
    BY DEF Save
  <2>. QED BY <1>2, <2>1, WithIsOutside
<1>4. CommandsInv'
  BY <1>3 DEF Outside, CommandsInv
<1>5. \A d \in Commands : Inside(d)' => d # c /\ Inside(d) /\ cmd'[d] = cmd[d]
  BY <1>3 DEF Outside, Inside
<1>6. broken' = broken /\ Inside(c)
  BY DEF Save, Inside
<1>7. ~broken => \A d \in Commands : ~(Inside(d)')
  BY <1>5, <1>6 DEF IInv, LockInv
<1>8. LockInv' /\ NoLostUpdate'
  BY <1>6, <1>7 DEF LockInv, NoLostUpdate, Inside
<1>9. \A d \in Commands : Saving(d)' => d # c /\ Saving(d) /\ cmd'[d] = cmd[d]
  BY <1>3 DEF Outside, Inside, Saving
<1>10. EntryInv'
  BY <1>9 DEF IInv, EntryInv, At, site
<1>. QED BY <1>4, <1>8, <1>10 DEF IInv

\* It holds to begin with.
LEMMA InitInv == Init => IInv
<1>. SUFFICES ASSUME Init PROVE IInv
  OBVIOUS
<1>1. CommandsInv /\ \A c \in Commands : cmd[c].at = "idle"
  BY DEF Init, CommandsInv, IsCommand, Idle
<1>. QED
  BY <1>1 DEF IInv, LockInv, Inside, NoLostUpdate, EntryInv, Saving, Locked

\* Every step keeps the invariant.
LEMMA NextInv == IInv /\ [Next]_vars => IInv'
<1>. SUFFICES ASSUME IInv, [Next]_vars PROVE IInv'
  OBVIOUS
<1>1. ASSUME NEW c \in Commands,
             \/ \E op \in Ops, s \in Sites : \E arg \in Args(op) : Begin(c, op, s, arg)
             \/ \E s \in Sites, f \in Folders, domain \in BOOLEAN, arg \in Args("create") : BeginCreate(c, s, f, domain, arg)
             \/ Load(c) \/ Validate(c) \/ Check(c) \/ ListFails(c) \/ NeedProxy(c) \/ ProxyOn(c)
             \/ ProxySites(c) \/ List(c) \/ (\E s \in Sites : LookUp(c, s)) \/ LookedUp(c)
      PROVE  IInv'
  BY <1>1, ReadingStep
<1>2. ASSUME NEW c \in Commands,
             StartProxy(c) \/ StopProxy(c) \/ Boot(c) \/ Serve(c) \/ Halt(c) \/ Kill(c) \/ RequestFails(c)
      PROVE  IInv'
  BY <1>2, DaemonStep
<1>3. ASSUME NEW c \in Commands, Interrupt(c) \/ LockTimeout(c) \/ Lock(c) \/ Read(c) \/ Save(c)
      PROVE  IInv'
  BY <1>3, InterruptStep, LockTimeoutStep, LockStep, ReadStep, SaveStep
<1>4. ASSUME UNCHANGED <<config, lock, cmd, broken>>
      PROVE  IInv'
  <2>1. CommandsInv' /\ LockInv'
    BY <1>4 DEF IInv, CommandsInv, LockInv, Inside
  <2>2. NoLostUpdate' /\ EntryInv'
    BY <1>4 DEF IInv, NoLostUpdate, EntryInv, Saving, At, site
  <2>. QED BY <2>1, <2>2 DEF IInv
<1>5. ASSUME NEW s \in Sites, Crash(s)
      PROVE  IInv'
  BY <1>4, <1>5 DEF Crash
<1>6. CASE UNCHANGED vars
  BY <1>4, <1>6 DEF vars
<1>. QED BY <1>1, <1>2, <1>3, <1>5, <1>6 DEF Next

\* The file a command saves is the file it read, for any number of commands and
\* sites: updateSiteLatestCliPid, updateSiteAutoStart, site set, stop --all and
\* delete lose nobody's change unless a lock was removed by a command that gave up.
THEOREM NoLostUpdateHolds == Spec => []NoLostUpdate
<1>1. IInv => NoLostUpdate
  BY DEF IInv
<1>. QED BY <1>1, InitInv, NextInv, PTL DEF Spec

\* A saved file has no entry that the file it replaces had not: site delete is not
\* undone by a command that read the file before.
THEOREM DeletedStaysDeletedHolds == Spec => DeletedStaysDeleted
<1>1. IInv /\ [Next]_vars => [\A s \in Sites :
    ~broken /\ ~config[s].there /\ config'[s].there => \E c \in Commands : At(c, "append") /\ site(c) = s]_vars
  <2>. SUFFICES ASSUME IInv, [Next]_vars, NEW s \in Sites, ~broken, ~config[s].there, config'[s].there
                PROVE  \E c \in Commands : At(c, "append") /\ site(c) = s
    OBVIOUS
  <2>1. ASSUME NEW c \in Commands, Save(c), ~(At(c, "append") /\ site(c) = s)
        PROVE  FALSE
    <3>1. Saving(c) /\ cmd[c].copy = config /\ config' = Saved(c)
      BY <2>1 DEF Save, Saving, IInv, NoLostUpdate
    <3>2. s \notin Changed(c)
      BY <2>1, <3>1 DEF Changed, IInv, EntryInv, Unasked, At
    <3>3. config'[s] = config[s]
      BY <3>1, <3>2 DEF Saved
    <3>. QED BY <3>3
  <2>2. (\E c \in Commands : Save(c)) \/ config' = config
    BY DEF Next, vars, Begin, BeginCreate, Call, Load, Validate, Check, ListFails, NeedProxy,
       ProxyOn, ProxySites, List, LookUp,
       LookedUp, Reads, Lock, LockTimeout, Read, StartProxy, StopProxy, Boot, Serve, Halt, Kill,
       RequestFails, Asks, Interrupt, Crash
  <2>. QED BY <2>1, <2>2
<1>. QED BY <1>1, InitInv, NextInv, PTL DEF Spec, DeletedStaysDeleted

-----------------------------------------------------------------------------
\* The types of a command, and the steps of its operation's flow.

\* The operations that may start a site's server, and those that stop it.
Starters == {"start", "xdebug", "domain", "create"}
Stoppers == {"stop", "delete", "stopAll"}
AllOps == Starters \cup Stoppers

\* Steps that several operations share: the start of a server, and the question
\* whether the proxy is still needed.
Serving == {"needProxy", "startProxy", "boot", "serve", "setPid"}
AskingForProxy == {"proxyOn", "proxySites", "proxyUsers", "stopProxy"}

\* The steps a command of operation op can be at.
StepsOf(op) ==
  CASE op = "start" -> {"load", "check", "setAuto", "setPidAndEnd"} \cup Serving
    [] op = "stop" -> {"load", "setAuto", "check", "halt", "clearPid"} \cup AskingForProxy
    [] op = "delete" -> {"load", "check", "halt", "remove"} \cup AskingForProxy
    [] op \in Set -> {"load", "validate", "apply", "check", "halt"} \cup Serving
    [] op = "stopAll" -> {"list", "lookUp", "clearAll", "kill"}
    [] op = "create" -> {"validate", "append", "setAuto", "undo"} \cup Serving

Ends == {"idle", "over"}
Steps == Ends \cup {"setPidAndEnd", "undo", "load", "check", "needProxy", "startProxy", "boot",
  "serve", "setPid", "setAuto", "halt", "clearPid", "proxyOn", "proxySites", "proxyUsers",
  "stopProxy", "remove", "validate", "apply", "list", "lookUp", "clearAll", "kill", "append"}
Configs == [Sites -> Entries \cup {Absent}]
SomePid == Pids \cup {NoPid}
SeenEntries == [there : BOOLEAN, folder : Folders \cup {Nobody}, auto : BOOLEAN,
                domain : BOOLEAN, xdebug : BOOLEAN, pid : SomePid]
CommandType == [op : AllOps, arg : BOOLEAN, site : Sites \cup {Nobody}, at : Steps,
                phase : {"lock", "read", "save"}, seen : SeenEntries,
                copy : Configs \cup {<<>>}, pid : SomePid,
                todo : SUBSET Sites, found : SUBSET Sites]

\* A command at work has a site, is at a step of its flow, and holds what the
\* step is about to use.
WorkInv(r) ==
  r.at \notin Ends =>
    /\ r.site \in Sites /\ r.at \in StepsOf(r.op)
    /\ r.at \in {"validate", "append"} /\ r.op = "create" => r.seen \in Entries
    /\ r.at \in Locked /\ r.phase = "save" => r.copy \in Configs

\* What the type invariant needs to be inductive.
TypeInv ==
  /\ config \in Configs
  /\ lock \in Commands \cup {Nobody}
  /\ proc \in [Sites -> SomePid] /\ proxy \in BOOLEAN
  /\ unused \subseteq Sites
  /\ tainted \subseteq Sites \cup {"proxy", "xdebug", "folder"} /\ broken \in BOOLEAN
  /\ cmd \in [Commands -> CommandType] /\ \A c \in Commands : WorkInv(cmd[c])

-----------------------------------------------------------------------------
\* The invariant behind SitesAtRest. A site is tainted when two commands worked on
\* it at once: nothing is said of it. Of the others:

Op(c) == cmd[c].op

\* Command c is at work on site s.
Busy(c, s) == AtWork(c) /\ s \in Touched(Op(c), site(c))

\* One command works on a site.
AloneInv ==
  \A s \in Sites \ tainted, c, d \in Commands : Busy(c, s) /\ Busy(d, s) => c = d

\* Unless what they share is tainted, no command stops sites while another starts
\* one, and one command at a time sets xdebug, and creates a site.
KindInv ==
  /\ "proxy" \notin tainted =>
       \A c, d \in Commands : AtWork(c) /\ AtWork(d) /\ Op(c) \in Stoppers => Op(d) \notin Starters
  /\ "xdebug" \notin tainted =>
       \A c, d \in Commands :
          AtWork(c) /\ AtWork(d) /\ Op(c) = "xdebug" /\ Op(d) = "xdebug" => c = d
  /\ "folder" \notin tainted =>
       \A c, d \in Commands :
          AtWork(c) /\ AtWork(d) /\ Op(c) = "create" /\ Op(d) = "create" => c = d

\* A site that nobody created yet has no entry, no server, and no command that is
\* past the load of its entry.
UnusedInv == ~broken => \A s \in unused :
   /\ ~config[s].there /\ ~Online(s)
   /\ \A c \in Commands : AtWork(c) /\ site(c) = s => Op(c) = "stopAll" \/ At(c, "load")

OnRecord(s) == Online(s) => config[s].there /\ config[s].pid = proc[s]

\* What the file says of a site nobody works on: an online server has its entry,
\* with its pid and autoStart.
Rest(s) == Online(s) => config[s].there /\ config[s].pid = proc[s] /\ config[s].auto

\* What the one command c that works on site s knows of it, step by step: whether
\* the site is at rest, stopped, or served by the pid the command was told, that
\* stop --all misses no online site, and that the custom domain it read is the
\* domain of the file.
Claim(c, s) ==
  /\ ~At(c, "undo")
  /\ \/ cmd[c].at \in {"load", "list", "lookUp", "clearAll", "validate", "apply", "setPidAndEnd"}
     \/ At(c, "check") /\ Op(c) # "stop"
     \/ At(c, "setAuto") /\ Op(c) = "stop"
     => Rest(s)
  /\ \/ cmd[c].at \in {"needProxy", "startProxy", "boot", "clearPid", "remove", "append"} \cup AskingForProxy
     \/ At(c, "validate") /\ Op(c) = "create"
     => ~Online(s)
  /\ cmd[c].at \in {"serve", "setPid", "setPidAndEnd"} /\ Online(s) => proc[s] = cmd[c].pid
  /\ At(c, "setAuto") /\ Op(c) # "stop" => OnRecord(s)
  /\ Op(c) \in Set /\ cmd[c].at \in {"halt"} \cup Serving => config[s].there /\ config[s].auto
  /\ Op(c) = "create" /\ cmd[c].at \in {"setAuto"} \cup Serving => cmd[c].arg
  /\ At(c, "lookUp") /\ Online(s) => s \in cmd[c].todo \cup cmd[c].found
  /\ At(c, "clearAll") /\ Online(s) => s \in cmd[c].found
  /\ \/ Op(c) \in Set \cup {"start"} /\ cmd[c].at \in {"validate", "apply", "check", "halt", "needProxy"}
     \/ Op(c) = "create" /\ At(c, "needProxy")
     => cmd[c].seen.domain = config[s].domain

\* A site that nobody works on is at rest; a command's claim on its sites is true.
SiteInv == ~broken => \A s \in Sites \ tainted :
   /\ (\A c \in Commands : ~Busy(c, s)) => Rest(s)
   /\ \A c \in Commands : Busy(c, s) => Claim(c, s)

\* Xdebug is on for one site, and a command that is about to set it has seen that
\* it is on for no other.
XdebugInv == ~broken /\ "xdebug" \notin tainted =>
   /\ \A s, t \in Sites : config[s].xdebug /\ config[t].xdebug => s = t
   /\ \A c \in Commands :
        Op(c) = "xdebug" /\ At(c, "apply") /\ cmd[c].arg =>
          \A t \in Sites \ {site(c)} : ~config[t].xdebug
   /\ \A c \in Commands : Op(c) = "create" /\ cmd[c].at \in {"validate", "append"} => ~cmd[c].seen.xdebug

\* No two entries have the same folder, nor has the entry about to be appended.
FolderInv == ~broken /\ "folder" \notin tainted =>
   /\ FoldersDiffer
   /\ \A c \in Commands :
        At(c, "append") => \A t \in Sites : config[t].there => config[t].folder # cmd[c].seen.folder

\* While a server with a custom domain is online the proxy is, but for the moment
\* before a restart that sets the domain; and a command that is about to stop the
\* proxy has seen every such server.
ProxyInv == ~broken /\ "proxy" \notin tainted => \A s \in Sites \ tainted :
   /\ Online(s) /\ config[s].domain =>
        proxy \/ \E c \in Commands : Busy(c, s) /\ Op(c) = "domain" /\ cmd[c].at \in {"check", "halt"}
   /\ \A c \in Commands : Busy(c, s) /\ At(c, "boot") => (config[s].domain => proxy)
   /\ \A c \in Commands : AtWork(c) /\ site(c) # s /\ Online(s) /\ config[s].domain =>
         /\ ~At(c, "stopProxy")
         /\ At(c, "proxyUsers") => s \in cmd[c].todo \cup cmd[c].found

RestInv == AloneInv /\ KindInv /\ UnusedInv /\ SiteInv /\ XdebugInv /\ FolderInv /\ ProxyInv

-----------------------------------------------------------------------------

-----------------------------------------------------------------------------
\* What follows each step, by operation.

\* The operations.
LEMMA OpsAre == Ops = AllOps
  BY DEF Ops, Flow, AllOps, Starters, Stoppers

\* What follows each step of `start`.
LEMMA StartFlow ==
  /\ After("start", "load") = "check" /\ After("start", "check") = "needProxy"
  /\ After("start", "needProxy") = "startProxy" /\ After("start", "startProxy") = "boot"
  /\ After("start", "boot") = "serve" /\ After("start", "serve") = "setPid"
  /\ After("start", "setPid") = "setAuto" /\ After("start", "setAuto") = "over"
  /\ After("start", "setPidAndEnd") = "over"
BY DEF Flow, After

\* What follows each step of `stop`.
LEMMA StopFlow ==
  /\ After("stop", "load") = "setAuto" /\ After("stop", "setAuto") = "check"
  /\ After("stop", "check") = "halt" /\ After("stop", "halt") = "clearPid"
  /\ After("stop", "clearPid") = "proxyOn" /\ After("stop", "proxyOn") = "proxySites"
  /\ After("stop", "proxyUsers") = "stopProxy" /\ After("stop", "stopProxy") = "over"
BY DEF Flow, After

\* What follows each step of `delete`.
LEMMA DeleteFlow ==
  /\ After("delete", "load") = "check" /\ After("delete", "check") = "halt"
  /\ After("delete", "halt") = "proxyOn" /\ After("delete", "proxyOn") = "proxySites"
  /\ After("delete", "proxyUsers") = "stopProxy" /\ After("delete", "stopProxy") = "remove"
  /\ After("delete", "remove") = "over"
BY DEF Flow, After

\* What follows each step of `set`.
LEMMA SetFlow ==
  ASSUME NEW op \in Set
  PROVE  /\ After(op, "load") = "validate" /\ After(op, "validate") = "apply"
         /\ After(op, "apply") = "check" /\ After(op, "check") = "halt"
         /\ After(op, "halt") = "needProxy" /\ After(op, "needProxy") = "startProxy"
         /\ After(op, "startProxy") = "boot" /\ After(op, "boot") = "serve"
         /\ After(op, "serve") = "setPid" /\ After(op, "setPid") = "over"
<1>1. CASE op = "xdebug" BY <1>1 DEF Flow, After
<1>2. CASE op = "domain" BY <1>2 DEF Flow, After
<1>. QED BY <1>1, <1>2 DEF Set

\* What follows each step of `stop --all` and `create`.
LEMMA OtherFlows ==
  /\ After("stopAll", "lookUp") = "clearAll" /\ After("stopAll", "clearAll") = "kill"
  /\ After("stopAll", "kill") = "over"
  /\ After("create", "validate") = "append" /\ After("create", "append") = "needProxy"
  /\ After("create", "needProxy") = "startProxy" /\ After("create", "startProxy") = "boot"
  /\ After("create", "boot") = "serve" /\ After("create", "serve") = "setPid"
  /\ After("create", "setPid") = "setAuto" /\ After("create", "setAuto") = "over"
  /\ After("create", "undo") = "over"
BY DEF Flow, After

\* Each operation begins with reading: of an entry, of the list, of all folders.
LEMMA FirstSteps ==
  /\ Flow["start"][1] = "load" /\ Flow["stop"][1] = "load" /\ Flow["delete"][1] = "load"
  /\ Flow["xdebug"][1] = "load" /\ Flow["domain"][1] = "load"
  /\ Flow["stopAll"][1] = "list" /\ Flow["create"][1] = "validate"
BY DEF Flow

-----------------------------------------------------------------------------
\* Types: the commands.

\* Which operations have a step.
LEMMA WhoIsAt ==
  ASSUME NEW op \in AllOps, NEW a, a \in StepsOf(op)
  PROVE  /\ a \in Steps \ Ends
         /\ a = "load" => op \in {"start", "stop", "delete"} \cup Set
         /\ a = "validate" => op \in Set \cup {"create"}
         /\ a = "apply" => op \in Set
         /\ a = "check" => op \in {"start", "stop", "delete"} \cup Set
         /\ a \in Serving => op \in Starters
         /\ a = "halt" => op \in {"stop", "delete"} \cup Set
         /\ a = "clearPid" => op = "stop"
         /\ a \in AskingForProxy => op \in {"stop", "delete"}
         /\ a = "remove" => op = "delete"
         /\ a \in {"list", "lookUp", "clearAll", "kill"} => op = "stopAll"
         /\ a \in {"append", "undo"} => op = "create"
         /\ a = "setAuto" => op \in {"start", "stop", "create"}
         /\ a = "setPidAndEnd" => op = "start"
BY DEF AllOps, StepsOf, Steps, Ends, Serving, AskingForProxy, Starters, Stoppers, Set

\* A command at work.
LEMMA Working ==
  ASSUME TypeInv, NEW c \in Commands, AtWork(c)
  PROVE  site(c) \in Sites /\ cmd[c].at \in StepsOf(Op(c)) /\ Op(c) \in AllOps
         /\ cmd[c] \in CommandType /\ cmd[c].seen \in SeenEntries
BY DEF TypeInv, WorkInv, AtWork, Ends, site, Op, CommandType

\* A command that moves on keeps its data, and waits for the lock if it needs it.
LEMMA WithEffect ==
  ASSUME TypeInv, NEW c \in Commands, NEW a \in Steps, NEW r \in CommandType, With(c, a, r)
  PROVE  /\ cmd' \in [Commands -> CommandType]
         /\ \A d \in Commands \ {c} : cmd'[d] = cmd[d]
         /\ cmd'[c].at = a /\ cmd'[c].phase = "lock"
         /\ a # "over" => /\ cmd'[c].op = r.op /\ cmd'[c].arg = r.arg /\ cmd'[c].site = r.site
                          /\ cmd'[c].seen = r.seen /\ cmd'[c].copy = r.copy /\ cmd'[c].pid = r.pid
                          /\ cmd'[c].todo = r.todo /\ cmd'[c].found = r.found
<1>. DEFINE r2 == IF a = "over" THEN [Idle EXCEPT !.at = a] ELSE [r EXCEPT !.at = a, !.phase = "lock"]
<1>1. cmd' = [cmd EXCEPT ![c] = r2] BY DEF With
<1>2. CASE a = "over"
  <2>1. r2 = [Idle EXCEPT !.at = a] BY <1>2
  <2>2. Absent \in SeenEntries BY DEF Absent, SeenEntries, SomePid
  <2>3. Idle \in CommandType
    BY <2>2 DEF Idle, CommandType, AllOps, Stoppers, SomePid, Steps, Ends
  <2>4. r2 \in CommandType BY <1>2, <2>1, <2>3 DEF CommandType, Idle
  <2>5. r2.at = a /\ r2.phase = "lock" BY <1>2, <2>1 DEF Idle
  <2>. HIDE DEF r2
  <2>. QED BY <1>1, <1>2, <2>4, <2>5 DEF TypeInv
<1>3. CASE a # "over"
  <2>1. r2 = [r EXCEPT !.at = a, !.phase = "lock"] BY <1>3
  <2>2. r2 \in CommandType BY <2>1 DEF CommandType
  <2>3. /\ r2.at = a /\ r2.phase = "lock" /\ r2.op = r.op /\ r2.arg = r.arg /\ r2.site = r.site
        /\ r2.seen = r.seen /\ r2.copy = r.copy /\ r2.pid = r.pid
        /\ r2.todo = r.todo /\ r2.found = r.found
    BY <2>1 DEF CommandType
  <2>. HIDE DEF r2
  <2>4. cmd'[c] = r2 /\ \A d \in Commands \ {c} : cmd'[d] = cmd[d] BY <1>1 DEF TypeInv
  <2>5. cmd' \in [Commands -> CommandType] BY <1>1, <2>2 DEF TypeInv
  <2>. QED BY <1>3, <2>3, <2>4, <2>5
<1>. QED BY <1>2, <1>3

\* A move to a step of the operation keeps what is known of a command at work.
LEMMA MoveTypes ==
  ASSUME TypeInv, NEW c \in Commands, NEW a \in Steps, NEW r \in CommandType, With(c, a, r),
         a = "over" \/ (/\ a \in StepsOf(r.op) /\ r.site \in Sites
                        /\ a \in {"validate", "append"} /\ r.op = "create" => r.seen \in Entries)
  PROVE  cmd' \in [Commands -> CommandType] /\ \A d \in Commands : WorkInv(cmd'[d])
<1>1. \A d \in Commands \ {c} : WorkInv(cmd'[d]) BY WithEffect DEF TypeInv
<1>2. WorkInv(cmd'[c]) BY WithEffect DEF WorkInv, Ends
<1>. QED BY <1>1, <1>2, WithEffect

\* The parts of TypeInv that are not about the commands.
WorldTypes ==
  /\ config \in Configs /\ lock \in Commands \cup {Nobody}
  /\ proc \in [Sites -> SomePid] /\ proxy \in BOOLEAN /\ unused \subseteq Sites
  /\ tainted \subseteq Sites \cup {"proxy", "xdebug", "folder"} /\ broken \in BOOLEAN

\* TypeInv is WorldTypes and what is said of the commands.
LEMMA TypeParts ==
  TypeInv <=> /\ WorldTypes /\ cmd \in [Commands -> CommandType]
              /\ \A c \in Commands : WorkInv(cmd[c])
BY DEF TypeInv, WorldTypes

\* What a command knows of an entry has the types of an entry.
LEMMA EntryTypes ==
  /\ Absent \in SeenEntries /\ Entries \subseteq SeenEntries
  /\ \A e \in SeenEntries : Known(e) \in SeenEntries /\ Known(e).domain = e.domain /\ Known(e).xdebug = e.xdebug
  /\ \A f \in Folders, b \in BOOLEAN : NewEntry(f, b) \in Entries
<1>1. Absent \in SeenEntries BY DEF Absent, SeenEntries, SomePid
<1>2. Entries \subseteq SeenEntries BY DEF Entries, SeenEntries, SomePid
<1>3. \A e \in SeenEntries : Known(e) \in SeenEntries /\ Known(e).domain = e.domain /\ Known(e).xdebug = e.xdebug
  BY <1>1 DEF Known, SeenEntries, Absent
<1>4. \A f \in Folders, b \in BOOLEAN : NewEntry(f, b) \in Entries
  BY DEF NewEntry, Absent, Entries, SomePid
<1>. QED BY <1>1, <1>2, <1>3, <1>4

\* A command touches its own site, or all of them.
LEMMA Touches ==
  ASSUME NEW op, NEW s \in Sites
  PROVE  s \in Touched(op, s) /\ Touched(op, s) \subseteq Sites /\ (op # "stopAll" => Touched(op, s) = {s})
BY DEF Touched

-----------------------------------------------------------------------------
\* Types: calls and moves.

\* What overlapping commands may disturb.
LEMMA ClashTypes ==
  ASSUME NEW op1, NEW op2, NEW s1 \in Sites, NEW s2 \in Sites
  PROVE  Clash(op1, s1, op2, s2) \subseteq Sites \cup {"proxy", "xdebug", "folder"}
BY DEF Clash, Touched

\* What a call taints.
LEMMA CallTaints ==
  ASSUME TypeInv, NEW c \in Commands, NEW op, NEW s \in Sites, NEW r, Call(c, op, s, r)
  PROVE  tainted \subseteq tainted' /\ tainted' \subseteq Sites \cup {"proxy", "xdebug", "folder"}
         /\ \A d \in Commands : AtWork(d) => Clash(op, s, Op(d), site(d)) \subseteq tainted'
<1>1. \A d \in Commands : AtWork(d) => site(d) \in Sites BY Working
<1>. QED BY <1>1, ClashTypes DEF Call, TypeInv, Op

\* A command that is left to chance taints its sites.
LEMMA LeaveTypes ==
  ASSUME TypeInv, NEW c \in Commands, AtWork(c), NEW a \in {"over", "undo"},
         a = "undo" => Op(c) = "create", Leave(c, a)
  PROVE  /\ cmd' \in [Commands -> CommandType] /\ \A d \in Commands : WorkInv(cmd'[d])
         /\ tainted' = tainted \cup Touched(Op(c), site(c))
         /\ tainted' \subseteq Sites \cup {"proxy", "xdebug", "folder"}
<1>1. site(c) \in Sites /\ cmd[c] \in CommandType BY Working
<1>2. tainted' = tainted \cup Touched(Op(c), site(c)) BY DEF Leave, Op
<1>3. tainted' \subseteq Sites \cup {"proxy", "xdebug", "folder"}
  BY <1>1, <1>2, Touches DEF TypeInv
<1>4. a \in Steps /\ (a # "over" => a \in StepsOf(cmd[c].op))
  BY DEF Steps, Ends, StepsOf, Op, Set
<1>5. With(c, a, cmd[c]) BY DEF Leave, Go
<1>6. a \notin {"validate", "append"} OBVIOUS
<1>7. cmd' \in [Commands -> CommandType] /\ \A d \in Commands : WorkInv(cmd'[d])
  BY <1>1, <1>4, <1>5, <1>6, MoveTypes DEF site
<1>. QED BY <1>2, <1>3, <1>7

\* Only `create` is undone when it fails.
LEMMA FailTypes ==
  ASSUME TypeInv, NEW c \in Commands, AtWork(c), Fail(c)
  PROVE  /\ cmd' \in [Commands -> CommandType] /\ \A d \in Commands : WorkInv(cmd'[d])
         /\ tainted' = tainted \cup Touched(Op(c), site(c))
         /\ tainted' \subseteq Sites \cup {"proxy", "xdebug", "folder"}
BY LeaveTypes DEF Fail, Op

\* A call keeps the types.
LEMMA CallTypes ==
  ASSUME TypeInv, NEW c \in Commands,
         \/ \E op \in Ops, s \in Sites : \E arg \in Args(op) : Begin(c, op, s, arg)
         \/ \E s \in Sites, f \in Folders, domain \in BOOLEAN, arg \in Args("create") :
              BeginCreate(c, s, f, domain, arg)
  PROVE  TypeInv'
<1>1. cmd[c] \in CommandType BY DEF TypeInv
<1>2. \A op \in AllOps : Args(op) \subseteq BOOLEAN BY DEF Args
<1>3. ASSUME NEW op \in Ops, NEW s \in Sites, NEW arg \in Args(op), Begin(c, op, s, arg)
      PROVE  TypeInv'
  <2>. DEFINE r == [cmd[c] EXCEPT !.op = op, !.site = s, !.arg = arg]
  <2>1. op \in AllOps /\ arg \in BOOLEAN /\ op # "create"
    BY <1>2, <1>3, OpsAre DEF Begin
  <2>2. r \in CommandType /\ r.op = op /\ r.site = s BY <1>1, <2>1 DEF CommandType
  <2>3. Flow[op][1] \in Steps /\ Flow[op][1] \in StepsOf(op)
        /\ Flow[op][1] \notin {"validate", "append"}
    BY <2>1, FirstSteps DEF AllOps, Starters, Stoppers, StepsOf, Steps, Set
  <2>4. With(c, Flow[op][1], r) /\ Call(c, op, s, r) BY <1>3 DEF Begin, Call
  <2>. HIDE DEF r
  <2>5. cmd' \in [Commands -> CommandType] /\ \A d \in Commands : WorkInv(cmd'[d])
    BY <2>2, <2>3, <2>4, MoveTypes
  <2>6. UNCHANGED <<config, lock, proc, proxy, broken, unused>>
    BY <1>3 DEF Begin, Call, world
  <2>7. tainted' \subseteq Sites \cup {"proxy", "xdebug", "folder"} BY <2>4, CallTaints
  <2>. QED BY <2>5, <2>6, <2>7 DEF TypeInv
<1>4. ASSUME NEW s \in Sites, NEW f \in Folders, NEW domain \in BOOLEAN, NEW arg \in Args("create"),
             BeginCreate(c, s, f, domain, arg)
      PROVE  TypeInv'
  <2>. DEFINE e == NewEntry(f, domain)
              r == [cmd[c] EXCEPT !.op = "create", !.site = s, !.arg = arg, !.seen = e]
  <2>1. arg \in BOOLEAN BY DEF Args
  <2>2. e \in Entries /\ e \in SeenEntries BY EntryTypes
  <2>3. r \in CommandType /\ r.op = "create" /\ r.site = s /\ r.seen = e
    <3>. HIDE DEF e
    <3>. QED BY <1>1, <2>1, <2>2 DEF CommandType, AllOps, Starters
  <2>4. Flow["create"][1] = "validate" /\ "validate" \in Steps /\ "validate" \in StepsOf("create")
    BY FirstSteps DEF StepsOf, Steps, Set
  <2>5. With(c, Flow["create"][1], r) /\ Call(c, "create", s, r) BY <1>4 DEF BeginCreate, Call
  <2>. HIDE DEF r, e
  <2>6. cmd' \in [Commands -> CommandType] /\ \A d \in Commands : WorkInv(cmd'[d])
    BY <2>2, <2>3, <2>4, <2>5, MoveTypes
  <2>7. UNCHANGED <<config, lock, proc, proxy, broken>> /\ unused' \subseteq unused
    BY <1>4 DEF BeginCreate, Call, world
  <2>8. tainted' \subseteq Sites \cup {"proxy", "xdebug", "folder"} BY <2>5, CallTaints
  <2>. QED BY <2>6, <2>7, <2>8 DEF TypeInv
<1>. QED BY <1>3, <1>4

\* A move within the flow of the command's operation.
LEMMA FlowTypes ==
  ASSUME TypeInv, NEW c \in Commands, AtWork(c), NEW a, NEW r \in CommandType, With(c, a, r),
         r.op = Op(c), r.site = site(c), a = "over" \/ a \in StepsOf(Op(c)),
         a \in {"validate", "append"} /\ Op(c) = "create" => r.seen \in Entries
  PROVE  cmd' \in [Commands -> CommandType] /\ \A d \in Commands : WorkInv(cmd'[d])
<1>1. a \in Steps BY Working, WhoIsAt DEF Steps, Ends
<1>. QED BY <1>1, MoveTypes, Working

-----------------------------------------------------------------------------
\* Types: steps that read.

CommandTypes == cmd \in [Commands -> CommandType] /\ \A d \in Commands : WorkInv(cmd[d])

\* Steps that only read keep the types of what they read.
LEMMA ReadTypes ==
  ASSUME TypeInv, CommandTypes', Reads, tainted' \subseteq Sites \cup {"proxy", "xdebug", "folder"}
  PROVE  TypeInv'
BY DEF TypeInv, CommandTypes, Reads, world

\* A command goes on with its own data.
LEMMA GoTypes ==
  ASSUME TypeInv, NEW c \in Commands, AtWork(c), NEW a, Go(c, a),
         a = "over" \/ a \in StepsOf(Op(c)),
         a \in {"validate", "append"} /\ Op(c) = "create" => cmd[c].seen \in Entries
  PROVE  CommandTypes'
BY FlowTypes, Working DEF Go, CommandTypes, Op, site

\* isServerRunning found nothing.
LEMMA NotRunningTypes ==
  ASSUME TypeInv, NEW c \in Commands, At(c, "check"), NotRunning(c)
  PROVE  CommandTypes'
<1>1. AtWork(c) BY DEF At, AtWork
<1>2. CASE Op(c) = "start"
  <2>1. Go(c, "needProxy") BY <1>2, StartFlow DEF NotRunning, Advance, At, Op, Set
  <2>2. "needProxy" \in StepsOf(Op(c)) BY <1>2 DEF StepsOf, Serving
  <2>. QED BY <1>1, <2>1, <2>2, GoTypes
<1>3. CASE Op(c) = "delete"
  <2>1. Go(c, "remove") BY <1>3 DEF NotRunning, Op, Set
  <2>2. "remove" \in StepsOf(Op(c)) BY <1>3 DEF StepsOf, Set
  <2>. QED BY <1>1, <2>1, <2>2, GoTypes
<1>4. CASE Op(c) \notin {"start", "delete"}
  <2>1. Go(c, "over") BY <1>4 DEF NotRunning, Op
  <2>. QED BY <1>1, <2>1, GoTypes
<1>. QED BY <1>2, <1>3, <1>4

\* Loading an entry.
LEMMA LoadTypes == ASSUME TypeInv, NEW c \in Commands, Load(c) PROVE TypeInv'
<1>1. AtWork(c) /\ At(c, "load") BY DEF Load, At, AtWork
<1>2. /\ site(c) \in Sites /\ cmd[c] \in CommandType /\ Op(c) \in AllOps
      /\ Op(c) \in {"start", "stop", "delete"} \cup Set
  BY <1>1, Working, WhoIsAt DEF At
<1>3. After(Op(c), "load") \in StepsOf(Op(c)) \ {"append"} /\ Op(c) # "create"
  BY <1>2, StartFlow, StopFlow, DeleteFlow, SetFlow DEF StepsOf, Serving, Set
<1>4. CASE config[site(c)].there
  <2>1. PICK e \in SeenEntries : With(c, After(Op(c), "load"), [cmd[c] EXCEPT !.seen = e])
    <3>1. config[site(c)] \in SeenEntries BY <1>2, EntryTypes DEF TypeInv, Configs
    <3>2. {Known(config[site(c)]), Absent} \subseteq SeenEntries BY <3>1, EntryTypes
    <3>. QED BY <1>4, <3>2 DEF Load, Op
  <2>. DEFINE r == [cmd[c] EXCEPT !.seen = e]
  <2>2. r \in CommandType /\ r.op = Op(c) /\ r.site = site(c) BY <1>2 DEF CommandType, Op, site
  <2>. HIDE DEF r
  <2>3. CommandTypes' BY <1>1, <1>3, <2>1, <2>2, FlowTypes DEF CommandTypes, r
  <2>. QED BY <2>3, ReadTypes DEF Load, TypeInv
<1>5. CASE ~config[site(c)].there
  <2>1. CommandTypes' BY <1>1, <1>5, GoTypes DEF Load
  <2>. QED BY <2>1, ReadTypes DEF Load, TypeInv
<1>. QED BY <1>4, <1>5

\* Validation.
LEMMA ValidateTypes == ASSUME TypeInv, NEW c \in Commands, Validate(c) PROVE TypeInv'
<1>1. AtWork(c) /\ At(c, "validate") BY DEF Validate, At, AtWork
<1>2. Op(c) \in Set \cup {"create"} /\ Op(c) \in AllOps BY <1>1, Working, WhoIsAt DEF At
<1>3. After(Op(c), "validate") \in StepsOf(Op(c)) BY <1>2, SetFlow, OtherFlows DEF StepsOf, Set
<1>4. Op(c) = "create" => cmd[c].seen \in Entries
  BY <1>1 DEF TypeInv, WorkInv, At, AtWork, Ends, Op
<1>5. Go(c, "over") \/ Go(c, After(Op(c), "validate"))
  BY <1>1 DEF Validate, Advance, At, Op
<1>6. CommandTypes' BY <1>1, <1>3, <1>4, <1>5, GoTypes
<1>. QED BY <1>6, ReadTypes DEF Validate, TypeInv

\* The check whether the site runs.
LEMMA CheckTypes == ASSUME TypeInv, NEW c \in Commands, Check(c) PROVE TypeInv'
<1>1. AtWork(c) /\ At(c, "check") BY DEF Check, At, AtWork
<1>2. /\ site(c) \in Sites /\ cmd[c] \in CommandType /\ Op(c) \in AllOps
      /\ Op(c) \in {"start", "stop", "delete"} \cup Set
  BY <1>1, Working, WhoIsAt DEF At
<1>3. CASE Online(site(c)) /\ Op(c) = "start"
  <2>. DEFINE r == [cmd[c] EXCEPT !.pid = proc[site(c)]]
  <2>1. With(c, "setPidAndEnd", r) BY <1>3 DEF Check, Op
  <2>2. r \in CommandType /\ r.op = Op(c) /\ r.site = site(c)
    BY <1>2 DEF CommandType, TypeInv, Op, site
  <2>3. "setPidAndEnd" \in StepsOf(Op(c)) BY <1>3 DEF StepsOf, Set
  <2>. HIDE DEF r
  <2>4. CommandTypes' BY <1>1, <2>1, <2>2, <2>3, FlowTypes DEF CommandTypes
  <2>. QED BY <2>4, ReadTypes DEF Check, TypeInv
<1>4. CASE Online(site(c)) /\ Op(c) # "start"
  <2>1. After(Op(c), "check") = "halt" /\ "halt" \in StepsOf(Op(c))
    BY <1>2, <1>4, StopFlow, DeleteFlow, SetFlow DEF StepsOf, Set
  <2>2. Go(c, "halt") BY <1>1, <1>4, <2>1 DEF Check, Advance, At, Op
  <2>3. CommandTypes' BY <1>1, <2>1, <2>2, GoTypes
  <2>. QED BY <2>3, ReadTypes DEF Check, TypeInv
<1>5. CASE ~Online(site(c))
  <2>1. NotRunning(c) BY <1>5 DEF Check
  <2>2. CommandTypes' BY <1>1, <2>1, NotRunningTypes
  <2>. QED BY <2>2, ReadTypes DEF Check, TypeInv
<1>. QED BY <1>3, <1>4, <1>5

\* The lookups, one by one.
LEMMA LookTypes ==
  ASSUME TypeInv, NEW c \in Commands, cmd[c].at \in {"proxyUsers", "lookUp"}, NEW r \in CommandType,
         r.op = Op(c), r.site = site(c), With(c, cmd[c].at, r)
  PROVE  CommandTypes'
<1>1. AtWork(c) BY DEF AtWork
<1>2. cmd[c].at \in StepsOf(Op(c)) BY <1>1, Working
<1>. QED BY <1>1, <1>2, FlowTypes DEF CommandTypes

\* What a failed list-processes leads to.
LEMMA ListFailsTypes == ASSUME TypeInv, NEW c \in Commands, ListFails(c) PROVE TypeInv'
<1>1. AtWork(c) /\ cmd[c].at \in {"check", "halt", "proxyOn", "proxyUsers", "lookUp"}
  BY DEF ListFails, At, AtWork
<1>2. site(c) \in Sites /\ cmd[c] \in CommandType /\ Op(c) \in AllOps BY <1>1, Working
<1>3. tainted' \subseteq Sites \cup {"proxy", "xdebug", "folder"}
  BY <1>2, Touches DEF ListFails, TypeInv, Op
<1>4. CASE At(c, "check")
  <2>1. NotRunning(c) BY <1>4 DEF ListFails, At
  <2>2. CommandTypes' BY <1>4, <2>1, NotRunningTypes
  <2>. QED BY <1>3, <2>2, ReadTypes DEF ListFails
<1>5. CASE At(c, "halt")
  <2>1. Op(c) \in {"stop", "delete"} \cup Set BY <1>1, <1>5, Working, WhoIsAt DEF At
  <2>2. After(Op(c), "halt") \in StepsOf(Op(c)) \ {"append", "validate"}
    BY <2>1, StopFlow, DeleteFlow, SetFlow DEF StepsOf, Set, Serving, AskingForProxy
  <2>3. Go(c, After(Op(c), "halt")) BY <1>5 DEF ListFails, At, Advance, Op
  <2>4. CommandTypes' BY <1>1, <2>2, <2>3, GoTypes
  <2>. QED BY <1>3, <2>4, ReadTypes DEF ListFails
<1>6. CASE At(c, "proxyOn")
  <2>1. Op(c) \in {"stop", "delete"} BY <1>1, <1>6, Working, WhoIsAt DEF At, AskingForProxy
  <2>2. After(Op(c), "stopProxy") \in {"over", "remove"}
        /\ After(Op(c), "stopProxy") \in StepsOf(Op(c)) \cup {"over"}
    BY <2>1, StopFlow, DeleteFlow DEF StepsOf, Set
  <2>3. Go(c, After(Op(c), "stopProxy")) BY <1>6 DEF ListFails, At, Op
  <2>4. CommandTypes' BY <1>1, <2>2, <2>3, GoTypes
  <2>. QED BY <1>3, <2>4, ReadTypes DEF ListFails
<1>7. CASE cmd[c].at \in {"proxyUsers", "lookUp"}
  <2>1. PICK s \in cmd[c].todo : With(c, cmd[c].at, [cmd[c] EXCEPT !.todo = @ \ {s}])
    BY <1>7 DEF ListFails, At
  <2>. DEFINE r == [cmd[c] EXCEPT !.todo = @ \ {s}]
  <2>2. r \in CommandType /\ r.op = Op(c) /\ r.site = site(c) BY <1>2 DEF CommandType, Op, site
  <2>. HIDE DEF r
  <2>3. CommandTypes' BY <1>7, <2>1, <2>2, LookTypes DEF r
  <2>. QED BY <1>3, <2>3, ReadTypes DEF ListFails
<1>. QED BY <1>1, <1>4, <1>5, <1>6, <1>7 DEF At

\* The lookups around the proxy and of stop --all.
LEMMA OtherReadTypes ==
  ASSUME TypeInv, NEW c \in Commands,
         \/ NeedProxy(c) \/ ProxyOn(c) \/ ProxySites(c) \/ List(c)
         \/ (\E s \in Sites : LookUp(c, s)) \/ LookedUp(c)
  PROVE  TypeInv'
<1>1. AtWork(c) BY DEF NeedProxy, ProxyOn, ProxySites, List, LookUp, LookedUp, At, AtWork
<1>2. site(c) \in Sites /\ cmd[c] \in CommandType /\ Op(c) \in AllOps BY <1>1, Working
<1>3. Reads /\ tainted' = tainted BY DEF NeedProxy, ProxyOn, ProxySites, List, LookUp, LookedUp
<1>. SUFFICES CommandTypes' BY <1>3, ReadTypes DEF TypeInv
<1>4. CASE NeedProxy(c)
  <2>. DEFINE r == [cmd[c] EXCEPT !.seen = Absent]
  <2>1. r \in CommandType /\ r.op = Op(c) /\ r.site = site(c)
    BY <1>2, EntryTypes DEF CommandType, Op, site
  <2>2. Op(c) \in Starters BY <1>1, <1>4, Working, WhoIsAt DEF NeedProxy, At, Serving
  <2>3. /\ After(Op(c), "needProxy") = "startProxy" /\ After(Op(c), "startProxy") = "boot"
        /\ {"startProxy", "boot"} \subseteq StepsOf(Op(c))
    BY <2>2, StartFlow, SetFlow, OtherFlows DEF Starters, Set, StepsOf, Serving
  <2>4. PICK a \in {"startProxy", "boot"} : With(c, a, r) BY <1>4, <2>3 DEF NeedProxy, Op
  <2>. HIDE DEF r
  <2>. QED BY <1>1, <2>1, <2>3, <2>4, FlowTypes DEF CommandTypes
<1>5. CASE ProxyOn(c)
  <2>1. Op(c) \in {"stop", "delete"} BY <1>1, <1>5, Working, WhoIsAt DEF ProxyOn, At, AskingForProxy
  <2>2. /\ After(Op(c), "proxyOn") = "proxySites" /\ "proxySites" \in StepsOf(Op(c))
        /\ After(Op(c), "stopProxy") \in {"over", "remove"}
        /\ After(Op(c), "stopProxy") \in StepsOf(Op(c)) \cup {"over"}
    BY <2>1, StopFlow, DeleteFlow DEF StepsOf, AskingForProxy, Set
  <2>3. Go(c, "proxySites") \/ Go(c, After(Op(c), "stopProxy"))
    BY <1>5, <2>2 DEF ProxyOn, Advance, At, Op
  <2>. QED BY <1>1, <2>2, <2>3, GoTypes
<1>6. CASE ProxySites(c)
  <2>. DEFINE r == [cmd[c] EXCEPT !.todo = Users(c)]
  <2>1. r \in CommandType /\ r.op = Op(c) /\ r.site = site(c)
    BY <1>2 DEF CommandType, Op, site, Users
  <2>2. Op(c) \in {"stop", "delete"} BY <1>1, <1>6, Working, WhoIsAt DEF ProxySites, At, AskingForProxy
  <2>3. "proxyUsers" \in StepsOf(Op(c)) BY <2>2 DEF StepsOf, AskingForProxy, Set
  <2>4. With(c, "proxyUsers", r) BY <1>6 DEF ProxySites
  <2>. HIDE DEF r
  <2>. QED BY <1>1, <2>1, <2>3, <2>4, FlowTypes DEF CommandTypes
<1>7. CASE List(c)
  <2>. DEFINE r == [cmd[c] EXCEPT !.todo = {s \in Sites : config[s].there}]
  <2>1. r \in CommandType /\ r.op = Op(c) /\ r.site = site(c) BY <1>2 DEF CommandType, Op, site
  <2>2. Op(c) = "stopAll" BY <1>1, <1>7, Working, WhoIsAt DEF List, At
  <2>3. "lookUp" \in StepsOf(Op(c)) BY <2>2 DEF StepsOf, Set
  <2>4. With(c, "lookUp", r) BY <1>7 DEF List
  <2>. HIDE DEF r
  <2>. QED BY <1>1, <2>1, <2>3, <2>4, FlowTypes DEF CommandTypes
<1>8. CASE \E s \in Sites : LookUp(c, s)
  <2>1. PICK s \in Sites : LookUp(c, s) BY <1>8
  <2>2. PICK f \in SUBSET Sites :
          With(c, cmd[c].at, [cmd[c] EXCEPT !.todo = @ \ {s}, !.found = f])
    BY <1>2, <2>1 DEF LookUp, CommandType
  <2>. DEFINE r == [cmd[c] EXCEPT !.todo = @ \ {s}, !.found = f]
  <2>3. r \in CommandType /\ r.op = Op(c) /\ r.site = site(c) BY <1>2 DEF CommandType, Op, site
  <2>. HIDE DEF r
  <2>. QED BY <2>1, <2>2, <2>3, LookTypes DEF LookUp, r
<1>9. CASE LookedUp(c)
  <2>1. CASE At(c, "proxyUsers")
    <3>1. Op(c) \in {"stop", "delete"} BY <1>1, <2>1, Working, WhoIsAt DEF At, AskingForProxy
    <3>2. /\ After(Op(c), "proxyUsers") = "stopProxy" /\ "stopProxy" \in StepsOf(Op(c))
          /\ After(Op(c), "stopProxy") \in {"over", "remove"}
          /\ After(Op(c), "stopProxy") \in StepsOf(Op(c)) \cup {"over"}
      BY <3>1, StopFlow, DeleteFlow DEF StepsOf, AskingForProxy, Set
    <3>3. Go(c, "stopProxy") \/ Go(c, After(Op(c), "stopProxy"))
      BY <1>9, <2>1, <3>2 DEF LookedUp, Advance, At, Op
    <3>. QED BY <1>1, <3>2, <3>3, GoTypes
  <2>2. CASE At(c, "lookUp")
    <3>1. Op(c) = "stopAll" BY <1>1, <2>2, Working, WhoIsAt DEF At
    <3>2. After(Op(c), "lookUp") = "clearAll" /\ {"clearAll", "kill"} \subseteq StepsOf(Op(c))
      BY <3>1, OtherFlows DEF StepsOf, Set
    <3>3. Go(c, "clearAll") \/ Go(c, "kill") BY <1>9, <2>2, <3>2 DEF LookedUp, Advance, At, Op
    <3>. QED BY <1>1, <3>2, <3>3, GoTypes
  <2>. QED BY <1>9, <2>1, <2>2 DEF LookedUp
<1>. QED BY <1>4, <1>5, <1>6, <1>7, <1>8, <1>9

-----------------------------------------------------------------------------
\* Types: the lock, the file and pids.

\* There is a pid that is not on record.
LEMMA FreshPid ==
  ASSUME TypeInv, NEW s \in Sites
  PROVE  (CHOOSE q \in Fresh(s) : TRUE) \in Pids /\ (CHOOSE q \in Fresh(s) : TRUE) # NoPid
<1>. DEFINE D == {d \in Commands : site(d) = s}
            I == {cmd[d].pid : d \in D}
            f == [d \in D |-> cmd[d].pid]
            U == I \cup {config[s].pid}
<1>1. IsFiniteSet(D) /\ Cardinality(D) <= Cardinality(Commands)
  BY PidsSuffice, FS_Subset
<1>2. f \in Surjection(D, I) BY DEF Surjection
<1>3. IsFiniteSet(I) /\ Cardinality(I) <= Cardinality(D) BY <1>1, <1>2, FS_Surjection
<1>4. IsFiniteSet(U) /\ Cardinality(U) \in {Cardinality(I), Cardinality(I) + 1}
  BY <1>3, FS_AddElement
<1>5. Cardinality(I) \in Nat /\ Cardinality(D) \in Nat /\ Cardinality(Commands) \in Nat
  BY <1>1, <1>3, PidsSuffice, FS_CardinalityType
<1>6. Cardinality(Pids) = MaxPid BY PidsSuffice, FS_Interval DEF Pids
<1>7. ~(Pids \subseteq U)
  <2>. SUFFICES ASSUME Pids \subseteq U PROVE FALSE OBVIOUS
  <2>1. Cardinality(Pids) <= Cardinality(U) BY <1>4, FS_Subset
  <2>. QED BY <1>1, <1>3, <1>4, <1>5, <1>6, <2>1, PidsSuffice
<1>8. Fresh(s) = Pids \ U BY DEF Fresh
<1>9. Fresh(s) # {} BY <1>7, <1>8
<1>10. (CHOOSE q \in Fresh(s) : TRUE) \in Fresh(s) BY <1>9
<1>. QED BY <1>8, <1>10, PidsSuffice DEF Pids, NoPid

\* A command that stays at its step.
LEMMA StayEffect ==
  ASSUME TypeInv, NEW c \in Commands, NEW phase \in {"lock", "read", "save"}, NEW r \in CommandType,
         Stay(c, phase, r)
  PROVE  /\ cmd' \in [Commands -> CommandType]
         /\ \A d \in Commands \ {c} : cmd'[d] = cmd[d]
         /\ cmd'[c].phase = phase /\ cmd'[c].at = r.at /\ cmd'[c].op = r.op /\ cmd'[c].arg = r.arg
         /\ cmd'[c].site = r.site /\ cmd'[c].seen = r.seen /\ cmd'[c].copy = r.copy
         /\ cmd'[c].pid = r.pid /\ cmd'[c].todo = r.todo /\ cmd'[c].found = r.found
<1>. DEFINE r2 == [r EXCEPT !.phase = phase]
<1>1. cmd' = [cmd EXCEPT ![c] = r2] BY DEF Stay
<1>2. r2 \in CommandType BY DEF CommandType
<1>3. /\ r2.phase = phase /\ r2.at = r.at /\ r2.op = r.op /\ r2.arg = r.arg
      /\ r2.site = r.site /\ r2.seen = r.seen /\ r2.copy = r.copy
      /\ r2.pid = r.pid /\ r2.todo = r.todo /\ r2.found = r.found
  BY DEF CommandType
<1>. HIDE DEF r2
<1>4. cmd'[c] = r2 /\ \A d \in Commands \ {c} : cmd'[d] = cmd[d] BY <1>1 DEF TypeInv
<1>5. cmd' \in [Commands -> CommandType] BY <1>1, <1>2 DEF TypeInv
<1>. QED BY <1>3, <1>4, <1>5

\* Taking the lock.
LEMMA LockTypes == ASSUME TypeInv, NEW c \in Commands, Lock(c) PROVE TypeInv'
<1>1. cmd[c] \in CommandType /\ Stay(c, "read", cmd[c]) BY DEF TypeInv, Lock
<1>2. /\ cmd' \in [Commands -> CommandType] /\ \A d \in Commands \ {c} : cmd'[d] = cmd[d]
      /\ cmd'[c].phase = "read" /\ cmd'[c].at = cmd[c].at /\ cmd'[c].op = cmd[c].op
      /\ cmd'[c].site = cmd[c].site /\ cmd'[c].seen = cmd[c].seen
  BY <1>1, StayEffect
<1>3. WorkInv(cmd[c]) BY DEF TypeInv
<1>4. WorkInv(cmd'[c]) BY <1>2, <1>3 DEF WorkInv
<1>5. UNCHANGED <<config, proc, proxy, unused, tainted, broken>> /\ lock' = c
  BY DEF Lock, world
<1>. QED BY <1>2, <1>4, <1>5 DEF TypeInv

\* Reading the file under the lock, or not finding the site in it.
LEMMA ReadStepTypes == ASSUME TypeInv, NEW c \in Commands, Read(c) PROVE TypeInv'
<1>0. AtWork(c) BY DEF Read, Locked, AtWork
<1>1. UNCHANGED <<config, proc, proxy, unused, broken>> BY DEF Read, world
<1>2. CASE cmd[c].at \in Unasked \/ config[site(c)].there
  <2>. DEFINE r == [cmd[c] EXCEPT !.copy = config]
  <2>1. Stay(c, "save", r) /\ UNCHANGED <<lock, tainted>> BY <1>2 DEF Read
  <2>2. /\ r \in CommandType /\ r.at = cmd[c].at /\ r.op = cmd[c].op /\ r.site = cmd[c].site
        /\ r.seen = cmd[c].seen /\ r.copy = config
    BY DEF TypeInv, CommandType
  <2>. HIDE DEF r
  <2>3. /\ cmd' \in [Commands -> CommandType] /\ \A d \in Commands \ {c} : cmd'[d] = cmd[d]
        /\ cmd'[c].at = cmd[c].at /\ cmd'[c].op = cmd[c].op
        /\ cmd'[c].site = cmd[c].site /\ cmd'[c].seen = cmd[c].seen /\ cmd'[c].copy = config
    BY <2>1, <2>2, StayEffect
  <2>4. WorkInv(cmd[c]) /\ config \in Configs BY DEF TypeInv
  <2>5. WorkInv(cmd'[c]) BY <2>3, <2>4 DEF WorkInv
  <2>. QED BY <1>1, <2>1, <2>3, <2>5 DEF TypeInv
<1>3. CASE ~(cmd[c].at \in Unasked \/ config[site(c)].there)
  <2>1. Fail(c) /\ lock' = Nobody BY <1>3 DEF Read
  <2>. QED BY <1>0, <1>1, <2>1, FailTypes DEF TypeInv
<1>. QED BY <1>2, <1>3

\* Where a command goes after it saved.
LEMMA FollowingSteps ==
  ASSUME TypeInv, NEW c \in Commands, cmd[c].at \in Locked
  PROVE  Following(c) \in (StepsOf(Op(c)) \cup {"over"}) \ {"validate", "append"}
<1>1. AtWork(c) BY DEF Locked, AtWork
<1>2. Op(c) \in AllOps /\ cmd[c].at \in StepsOf(Op(c)) BY <1>1, Working
<1>3. CASE Op(c) = "start"
  BY <1>2, <1>3, StartFlow DEF StepsOf, Following, Op, At, Serving, Locked, Set
<1>4. CASE Op(c) = "stop"
  BY <1>2, <1>4, StopFlow DEF StepsOf, Following, Op, At, AskingForProxy, Locked, Set
<1>5. CASE Op(c) = "delete"
  BY <1>2, <1>5, DeleteFlow DEF StepsOf, Following, Op, At, AskingForProxy, Locked, Set
<1>6. CASE Op(c) \in Set
  BY <1>2, <1>6, SetFlow DEF StepsOf, Following, Op, At, Serving, Locked, Set
<1>7. CASE Op(c) = "stopAll"
  BY <1>2, <1>7, OtherFlows DEF StepsOf, Following, Op, At, Locked, Set
<1>8. CASE Op(c) = "create"
  BY <1>2, <1>8, OtherFlows DEF StepsOf, Following, Op, At, Serving, Locked, Set
<1>. QED BY <1>2, <1>3, <1>4, <1>5, <1>6, <1>7, <1>8 DEF AllOps, Starters, Stoppers, Set

\* An entry that is there, after a change.
LEMMA EditTypes ==
  ASSUME TypeInv, EntryInv, NEW c \in Commands, Saving(c), NEW s \in Changed(c)
  PROVE  s \in Sites /\ Edit(c, s, cmd[c].copy[s]) \in Entries \cup {Absent}
<1>1. AtWork(c) BY DEF Saving, Locked, AtWork
<1>2. /\ site(c) \in Sites /\ cmd[c] \in CommandType /\ Op(c) \in AllOps
      /\ cmd[c].at \in StepsOf(Op(c)) /\ cmd[c].copy \in Configs /\ cmd[c].found \subseteq Sites
      /\ cmd[c].arg \in BOOLEAN /\ cmd[c].pid \in SomePid
  BY <1>1, Working DEF Saving, TypeInv, WorkInv, CommandType, AtWork, Ends
<1>3. s \in Sites BY <1>2 DEF Changed, At
<1>. DEFINE e == cmd[c].copy[s]
<1>4. e \in Entries \cup {Absent} BY <1>2, <1>3 DEF Configs
<1>5. CASE cmd[c].at \in {"remove", "undo"}
  <2>. HIDE DEF e
  <2>1. Edit(c, s, e) = Absent BY <1>5 DEF Edit, At
  <2>. QED BY <1>3, <2>1 DEF e
<1>6. CASE At(c, "append")
  <2>1. Op(c) = "create" BY <1>2, <1>6, WhoIsAt DEF At
  <2>2. cmd[c].seen \in Entries BY <1>1, <1>6, <2>1 DEF TypeInv, WorkInv, AtWork, Ends, At, Op
  <2>. QED BY <1>3, <1>6, <2>2 DEF Edit, At
<1>7. CASE cmd[c].at \in {"setAuto", "clearPid", "apply", "setPid", "setPidAndEnd", "clearAll"}
  <2>1. e.there
    <3>1. CASE At(c, "clearAll") BY <3>1 DEF Changed
    <3>2. CASE ~At(c, "clearAll")
      <4>1. s = site(c) /\ cmd[c].at \notin Unasked BY <1>7, <3>2 DEF Changed, At, Unasked
      <4>. QED BY <4>1 DEF EntryInv
    <3>. QED BY <3>1, <3>2
  <2>2. e \in Entries BY <1>4, <2>1 DEF Absent
  <2>3. [e EXCEPT !.pid = NoPid] \in Entries /\ [e EXCEPT !.pid = cmd[c].pid] \in Entries
        /\ [e EXCEPT !.pid = NoPid, !.auto = cmd[c].arg] \in Entries
    BY <1>2, <2>2 DEF Entries, SomePid
  <2>4. \A b \in BOOLEAN : [e EXCEPT !.auto = b] \in Entries
    BY <2>2 DEF Entries
  <2>5. Op(c) \in Set => [e EXCEPT ![cmd[c].op] = cmd[c].arg] \in Entries
    BY <1>2, <2>2 DEF Entries, Op, Set
  <2>6. At(c, "apply") => Op(c) \in Set BY <1>2, WhoIsAt DEF At
  <2>7. (cmd[c].op = "start" \/ cmd[c].arg) \in BOOLEAN BY <1>2, Zenon
  <2>. HIDE DEF e
  <2>8. Edit(c, s, e) \in Entries
    BY <1>7, <2>3, <2>4, <2>5, <2>6, <2>7 DEF Edit, At
  <2>. QED BY <1>3, <2>8 DEF e
<1>. QED BY <1>5, <1>6, <1>7 DEF Saving, Locked, At

-----------------------------------------------------------------------------
\* Types: saving, giving up, the daemon.

\* The file a command saves has the types of a file.
LEMMA SavedTypes ==
  ASSUME TypeInv, EntryInv, NEW c \in Commands, Saving(c)
  PROVE  Saved(c) \in Configs
<1>1. cmd[c].copy \in Configs
  BY DEF Saving, Locked, TypeInv, WorkInv, AtWork, Ends
<1>2. \A s \in Sites : s \in Changed(c) => Edit(c, s, cmd[c].copy[s]) \in Entries \cup {Absent}
  BY EditTypes
<1>3. \A s \in Sites : cmd[c].copy[s] \in Entries \cup {Absent}
  BY <1>1 DEF Configs
<1>. DEFINE E(s) == Edit(c, s, cmd[c].copy[s])
<1>. HIDE DEF E
<1>4. Saved(c) = [s \in Sites |-> IF s \in Changed(c) THEN E(s) ELSE cmd[c].copy[s]]
  BY DEF Saved, E
<1>. QED BY <1>2, <1>3, <1>4 DEF Configs, E

\* Saving keeps the types.
LEMMA SaveTypes == ASSUME TypeInv, EntryInv, NEW c \in Commands, Save(c) PROVE TypeInv'
<1>1. AtWork(c) /\ Saving(c) /\ cmd[c].at \in Locked
  BY DEF Save, Saving, Locked, AtWork
<1>2. site(c) \in Sites /\ cmd[c] \in CommandType /\ cmd[c].seen \in SeenEntries
  BY <1>1, Working
<1>3. config' = Saved(c) /\ lock' = Nobody /\ UNCHANGED <<proc, proxy, unused, tainted, broken>>
  BY DEF Save, world
<1>4. Saved(c) \in Configs
  BY <1>1, SavedTypes
<1>5. Known(Saved(c)[site(c)]) \in SeenEntries
  <2>1. Saved(c)[site(c)] \in SeenEntries
    BY <1>2, <1>4, EntryTypes DEF Configs
  <2>. QED BY <2>1, EntryTypes
<1>6. PICK e \in SeenEntries :
        With(c, Following(c), [cmd[c] EXCEPT !.copy = <<>>, !.pid = NoPid, !.seen = e])
  BY <1>2, <1>5 DEF Save
<1>. DEFINE r == [cmd[c] EXCEPT !.copy = <<>>, !.pid = NoPid, !.seen = e]
<1>7. r \in CommandType /\ r.op = Op(c) /\ r.site = site(c)
  BY <1>2 DEF CommandType, Op, site, SomePid
<1>8. With(c, Following(c), r)
  BY <1>6
<1>. HIDE DEF r
<1>9. Following(c) \in (StepsOf(Op(c)) \cup {"over"}) \ {"validate", "append"}
  BY <1>1, FollowingSteps
<1>10. CommandTypes'
  BY <1>1, <1>7, <1>8, <1>9, FlowTypes DEF CommandTypes
<1>. QED BY <1>3, <1>4, <1>10 DEF TypeInv, CommandTypes

\* A command that gives up: on the lock, on the daemon, or because the user says so.
LEMMA GiveUpTypes ==
  ASSUME TypeInv, NEW c \in Commands, LockTimeout(c) \/ RequestFails(c) \/ Interrupt(c)
  PROVE  TypeInv'
<1>1. AtWork(c)
  BY DEF LockTimeout, RequestFails, Interrupt, Locked, AtWork
<1>2. Fail(c) \/ Leave(c, "over")
  BY DEF LockTimeout, RequestFails, Interrupt
<1>3. /\ CommandTypes'
      /\ tainted' \subseteq Sites \cup {"proxy", "xdebug", "folder"}
  BY <1>1, <1>2, FailTypes, LeaveTypes DEF CommandTypes
<1>4. UNCHANGED <<config, proc, proxy, unused>> /\ lock' \in {lock, Nobody}
  BY DEF LockTimeout, RequestFails, Interrupt, Asks, world
<1>5. broken' = broken \/ broken' = TRUE
  <2>1. CASE LockTimeout(c) BY <2>1 DEF LockTimeout
  <2>2. CASE ~LockTimeout(c) BY <2>2 DEF RequestFails, Interrupt, Asks
  <2>. QED BY <2>1, <2>2
<1>6. broken' \in BOOLEAN
  BY <1>5 DEF TypeInv
<1>. QED BY <1>3, <1>4, <1>6 DEF TypeInv, CommandTypes

\* What the daemon is asked for, without the end.
LEMMA AskTypes ==
  ASSUME TypeInv, NEW c \in Commands,
         StartProxy(c) \/ StopProxy(c) \/ Boot(c) \/ Serve(c) \/ Halt(c) \/ Kill(c)
  PROVE  TypeInv'
<1>1. AtWork(c)
  BY DEF StartProxy, StopProxy, Boot, Serve, Halt, Kill, At, AtWork
<1>2. /\ site(c) \in Sites /\ cmd[c] \in CommandType /\ Op(c) \in AllOps
      /\ cmd[c].at \in StepsOf(Op(c))
  BY <1>1, Working
<1>3. UNCHANGED <<config, lock, unused, broken, tainted>>
  BY DEF StartProxy, StopProxy, Boot, Serve, Halt, Kill, Asks, world
<1>4. /\ cmd[c].at \in {"startProxy", "stopProxy", "serve", "halt", "kill"} =>
           After(Op(c), cmd[c].at) \in (StepsOf(Op(c)) \cup {"over"}) \ {"validate", "append"}
      /\ At(c, "boot") => "serve" \in StepsOf(Op(c))
  <2>1. CASE Op(c) = "start"
    BY <1>2, <2>1, StartFlow DEF StepsOf, Serving, Set, At
  <2>2. CASE Op(c) = "stop"
    BY <1>2, <2>2, StopFlow DEF StepsOf, AskingForProxy, Set, At
  <2>3. CASE Op(c) = "delete"
    BY <1>2, <2>3, DeleteFlow DEF StepsOf, AskingForProxy, Set, At
  <2>4. CASE Op(c) \in Set
    BY <1>2, <2>4, SetFlow DEF StepsOf, Serving, Set, At
  <2>5. CASE Op(c) \in {"stopAll", "create"}
    BY <1>2, <2>5, OtherFlows DEF StepsOf, Serving, Set, At
  <2>. QED BY <1>2, <2>1, <2>2, <2>3, <2>4, <2>5 DEF AllOps, Starters, Stoppers, Set
<1>5. CASE ~Boot(c)
  <2>1. Go(c, After(Op(c), cmd[c].at)) /\ cmd[c].at \in {"startProxy", "stopProxy", "serve", "halt", "kill"}
    BY <1>5 DEF StartProxy, StopProxy, Serve, Halt, Kill, Advance, At, Op
  <2>2. CommandTypes'
    BY <1>1, <1>4, <2>1, GoTypes
  <2>3. proxy' = proxy \/ proxy' = TRUE \/ proxy' = FALSE
    BY <1>5 DEF StartProxy, StopProxy, Serve, Halt, Kill, world
  <2>4. proc' \in [Sites -> SomePid]
    <3>1. CASE Halt(c) BY <3>1 DEF Halt, TypeInv, SomePid
    <3>2. CASE Kill(c) BY <3>2 DEF Kill, SomePid
    <3>3. CASE proc' = proc BY <3>3 DEF TypeInv
    <3>. QED BY <1>5, <3>1, <3>2, <3>3 DEF StartProxy, StopProxy, Serve, world
  <2>5. proxy' \in BOOLEAN
    BY <2>3 DEF TypeInv
  <2>. QED BY <1>3, <2>2, <2>4, <2>5 DEF TypeInv, CommandTypes
<1>6. CASE Boot(c)
  <2>1. PICK p \in SomePid : /\ proc' = [proc EXCEPT ![site(c)] = p]
                             /\ With(c, "serve", [cmd[c] EXCEPT !.pid = p])
    BY <1>2, <1>6, FreshPid DEF Boot, TypeInv, SomePid
  <2>. DEFINE r == [cmd[c] EXCEPT !.pid = p]
  <2>2. r \in CommandType /\ r.op = Op(c) /\ r.site = site(c)
    BY <1>2 DEF CommandType, Op, site
  <2>3. With(c, "serve", r)
    BY <2>1
  <2>. HIDE DEF r
  <2>4. CommandTypes'
    BY <1>1, <1>4, <1>6, <2>2, <2>3, FlowTypes DEF CommandTypes, Boot
  <2>5. proc' \in [Sites -> SomePid] /\ proxy' = proxy
    BY <1>6, <2>1 DEF Boot, TypeInv
  <2>. QED BY <1>3, <2>4, <2>5 DEF TypeInv, CommandTypes
<1>. QED BY <1>5, <1>6

\* A site's process dies.
LEMMA CrashTypes == ASSUME TypeInv, NEW s \in Sites, Crash(s) PROVE TypeInv'
<1>1. UNCHANGED <<config, lock, proxy, cmd, unused, tainted, broken>>
  BY DEF Crash
<1>2. proc' \in [Sites -> SomePid]
  BY DEF Crash, TypeInv, SomePid
<1>. QED BY <1>1, <1>2 DEF TypeInv

\* Every variable and every command keeps its type.
LEMMA NextTypes == TypeInv /\ IInv /\ [Next]_vars => TypeInv'
<1>. SUFFICES ASSUME TypeInv, IInv, [Next]_vars PROVE TypeInv'
  OBVIOUS
<1>1. ASSUME NEW c \in Commands,
             \/ \E op \in Ops, s \in Sites : \E arg \in Args(op) : Begin(c, op, s, arg)
             \/ \E s \in Sites, f \in Folders, domain \in BOOLEAN, arg \in Args("create") :
                  BeginCreate(c, s, f, domain, arg)
      PROVE  TypeInv'
  BY <1>1, CallTypes
<1>2. ASSUME NEW c \in Commands,
             \/ Load(c) \/ Validate(c) \/ Check(c) \/ ListFails(c) \/ NeedProxy(c) \/ ProxyOn(c)
             \/ ProxySites(c) \/ List(c) \/ (\E s \in Sites : LookUp(c, s)) \/ LookedUp(c)
      PROVE  TypeInv'
  BY <1>2, LoadTypes, ValidateTypes, CheckTypes, ListFailsTypes, OtherReadTypes
<1>3. ASSUME NEW c \in Commands, Lock(c) \/ Read(c) \/ Save(c)
      PROVE  TypeInv'
  BY <1>3, LockTypes, ReadStepTypes, SaveTypes DEF IInv
<1>4. ASSUME NEW c \in Commands, LockTimeout(c) \/ RequestFails(c) \/ Interrupt(c)
      PROVE  TypeInv'
  BY <1>4, GiveUpTypes
<1>5. ASSUME NEW c \in Commands,
             StartProxy(c) \/ StopProxy(c) \/ Boot(c) \/ Serve(c) \/ Halt(c) \/ Kill(c)
      PROVE  TypeInv'
  BY <1>5, AskTypes
<1>6. CASE UNCHANGED vars
  <2>1. UNCHANGED <<config, lock, proc, proxy, cmd, unused, tainted, broken>>
    BY <1>6 DEF vars, world
  <2>. QED BY <2>1 DEF TypeInv
<1>. QED BY <1>1, <1>2, <1>3, <1>4, <1>5, <1>6, CrashTypes DEF Next

\* The types hold to begin with.
LEMMA InitTypes == Init => TypeInv
<1>. SUFFICES ASSUME Init PROVE TypeInv
  OBVIOUS
<1>1. 1 \in Pids
  BY PidsSuffice, FS_CardinalityType DEF Pids
<1>2. config \in Configs
  BY DEF Init, Configs
<1>3. \A s \in Sites : config[s].pid \in SomePid
  <2>1. \A e \in Entries : e.pid \in SomePid
    BY DEF Entries, SomePid
  <2>2. Absent.pid \in SomePid
    BY DEF Absent, SomePid
  <2>. QED BY <1>2, <2>1, <2>2 DEF Configs
<1>4. proc \in [Sites -> SomePid]
  BY <1>3 DEF Init
<1>5. proxy \in BOOLEAN
  BY DEF Init
<1>6. Absent \in SeenEntries
  BY EntryTypes
<1>7. Idle \in CommandType /\ Idle.at = "idle"
  BY <1>6 DEF Idle, CommandType, AllOps, Stoppers, SomePid, Steps, Ends
<1>8. cmd \in [Commands -> CommandType] /\ \A c \in Commands : WorkInv(cmd[c])
  BY <1>7 DEF Init, WorkInv, Ends
<1>. QED BY <1>2, <1>4, <1>5, <1>8 DEF Init, TypeInv

\* TypeOK, for any number of commands and sites: whatever lockAppdata, readCliConfig,
\* saveCliConfig and the daemon's answers leave behind, the file has an entry or none
\* for each site, the pids are pids, and each command is at a step of its operation.
THEOREM TypeCorrect == Spec => []TypeOK
<1>1. Init => IInv /\ TypeInv
  BY InitInv, InitTypes
<1>2. IInv /\ TypeInv /\ [Next]_vars => (IInv /\ TypeInv)'
  BY NextInv, NextTypes
<1>3. TypeInv => TypeOK
  <2>. SUFFICES ASSUME TypeInv PROVE TypeOK
    OBVIOUS
  <2>1. \A c \in Commands : cmd[c].pid \in Pids \cup {NoPid} /\ cmd[c].found \subseteq Sites
    BY DEF TypeInv, CommandType, SomePid
  <2>. QED BY <2>1 DEF TypeInv, TypeOK, Configs, SomePid
<1>. QED BY <1>1, <1>2, <1>3, PTL DEF Spec

-----------------------------------------------------------------------------
\* Settling the sites of a command.

\* A step of command c in the middle of its work: the others stay where they are.
Kept(c) ==
  /\ AtWork(c)
  /\ \A d \in Commands \ {c} : cmd'[d] = cmd[d]
  /\ cmd'[c].at # "idle"
  /\ cmd'[c].at # "over" =>
       cmd'[c].op = cmd[c].op /\ cmd'[c].arg = cmd[c].arg /\ cmd'[c].site = cmd[c].site
  /\ tainted \subseteq tainted' /\ (broken => broken')

\* What a step of command c has to show: of its sites, that they are as it says or,
\* when it is over, at rest; of the other sites, that it leaves them alone.
Settles(c) ==
  ~broken' => \A s \in Sites \ tainted' :
    /\ Busy(c, s) => IF Busy(c, s)' THEN Claim(c, s)' ELSE Rest(s)'
    /\ ~Busy(c, s) => config'[s] = config[s] /\ proc'[s] = proc[s]

\* A claim rests on the command, the entry and the process of the site.
LEMMA ClaimKept ==
  ASSUME NEW d, NEW s, cmd'[d] = cmd[d], config'[s] = config[s], proc'[s] = proc[s]
  PROVE  /\ Busy(d, s)' <=> Busy(d, s)
         /\ Claim(d, s)' <=> Claim(d, s)
         /\ Rest(s)' <=> Rest(s)
<1>1. Busy(d, s)' <=> Busy(d, s)
  BY DEF Busy, AtWork, Op, site
<1>2. Rest(s)' <=> Rest(s)
  BY DEF Rest, Online
<1>3. Claim(d, s)' <=> Claim(d, s)
  BY DEF Claim, Rest, OnRecord, Online, At, Op
<1>. QED BY <1>1, <1>2, <1>3

\* Who is at work on what only changes for the command that takes the step.
LEMMA KeptWork ==
  ASSUME NEW c \in Commands, Kept(c)
  PROVE  \A d \in Commands : AtWork(d)' => AtWork(d) /\ Op(d)' = Op(d) /\ site(d)' = site(d)
<1>1. ASSUME NEW d \in Commands, d # c, AtWork(d)'
      PROVE  AtWork(d) /\ Op(d)' = Op(d) /\ site(d)' = site(d)
  BY <1>1 DEF Kept, AtWork, Op, site
<1>2. AtWork(c)' => AtWork(c) /\ Op(c)' = Op(c) /\ site(c)' = site(c)
  BY DEF Kept, AtWork, Op, site
<1>. QED BY <1>1, <1>2

\* So is who is busy with a site, for the command itself until it is over.
LEMMA KeptBusy ==
  ASSUME NEW c \in Commands, Kept(c), NEW d \in Commands, NEW s
  PROVE  Busy(d, s)' => Busy(d, s)
<1>1. AtWork(d)' => AtWork(d) /\ Op(d)' = Op(d) /\ site(d)' = site(d)
  BY KeptWork
<1>2. Busy(d, s)' <=> AtWork(d)' /\ s \in Touched(Op(d)', site(d)')
  BY DEF Busy, AtWork, Op, site, Touched
<1>. QED BY <1>1, <1>2 DEF Busy

\* A step that settles its command's sites keeps what is said about every site.
LEMMA SettleStep ==
  ASSUME RestInv, NEW c \in Commands, Kept(c), Settles(c)
  PROVE  AloneInv' /\ KindInv' /\ SiteInv'
<1>1. \A d \in Commands, s \in Sites : Busy(d, s)' => Busy(d, s)
  BY KeptBusy
<1>2. tainted \subseteq tainted' /\ (~broken' => ~broken)
  BY DEF Kept
<1>3. AloneInv'
  <2>1. AloneInv
    BY DEF RestInv
  <2>2. \A s \in Sites \ tainted', d, e \in Commands : Busy(d, s)' /\ Busy(e, s)' => d = e
    BY <1>1, <1>2, <2>1 DEF AloneInv
  <2>. QED BY <2>2 DEF AloneInv
<1>4. KindInv'
  <2>1. KindInv
    BY DEF RestInv
  <2>2. \A d \in Commands : AtWork(d)' => AtWork(d) /\ Op(d)' = Op(d)
    BY KeptWork
  <2>. QED BY <1>2, <2>1, <2>2 DEF KindInv
<1>5. SiteInv'
  <2>. SUFFICES ASSUME ~broken', NEW s \in Sites, s \notin tainted'
                PROVE  /\ (\A d \in Commands : ~(Busy(d, s)')) => Rest(s)'
                       /\ \A d \in Commands : Busy(d, s)' => Claim(d, s)'
    BY DEF SiteInv
  <2>1. ~broken /\ s \notin tainted
    BY <1>2
  <2>2. /\ (\A d \in Commands : ~Busy(d, s)) => Rest(s)
        /\ \A d \in Commands : Busy(d, s) => Claim(d, s)
    BY <2>1 DEF RestInv, SiteInv
  <2>3. CASE Busy(c, s)
    <3>1. \A d \in Commands : Busy(d, s) => d = c
      BY <2>1, <2>3 DEF RestInv, AloneInv
    <3>2. \A d \in Commands : Busy(d, s)' => d = c
      BY <1>1, <3>1
    <3>3. IF Busy(c, s)' THEN Claim(c, s)' ELSE Rest(s)'
      BY <2>3 DEF Settles
    <3>. QED BY <3>2, <3>3
  <2>4. CASE ~Busy(c, s)
    <3>1. config'[s] = config[s] /\ proc'[s] = proc[s]
      BY <2>4 DEF Settles
    <3>2. ~(Busy(c, s)')
      BY <1>1, <2>4
    <3>3. \A d \in Commands \ {c} : cmd'[d] = cmd[d]
      BY DEF Kept
    <3>4. Rest(s)' <=> Rest(s)
      BY <3>1 DEF Rest, Online
    <3>5. \A d \in Commands \ {c} : (Busy(d, s)' <=> Busy(d, s)) /\ (Claim(d, s)' <=> Claim(d, s))
      BY <3>1, <3>3, ClaimKept
    <3>. QED BY <2>2, <2>4, <3>2, <3>4, <3>5
  <2>. QED BY <2>3, <2>4
<1>. QED BY <1>3, <1>4, <1>5

\* A command at work on an untainted site says of it what its step promises.
LEMMA Claims ==
  ASSUME RestInv, TypeInv, NEW c \in Commands, NEW s \in Sites, s \notin tainted, ~broken, Busy(c, s)
  PROVE  /\ AtWork(c) /\ Claim(c, s)
         /\ Op(c) # "stopAll" => s = site(c)
BY Working, Touches DEF RestInv, SiteInv, Busy

\* A command that leaves its sites to chance has nothing to show.
LEMMA LeaveSettles ==
  ASSUME NEW c \in Commands, Touched(Op(c), site(c)) \subseteq tainted', UNCHANGED <<config, proc>>
  PROVE  Settles(c)
BY DEF Settles, Busy

\* What a command has to show of its site s after a step.
Shown(c, s) == (cmd'[c].at # "over" => Claim(c, s)') /\ (cmd'[c].at = "over" => Rest(s)')

\* A step settles its sites when it shows it of each one that is not left to chance.
LEMMA Shows ==
  ASSUME RestInv, TypeInv, NEW c \in Commands, Kept(c),
         \A s \in Sites : ~Busy(c, s) => config'[s] = config[s] /\ proc'[s] = proc[s],
         ~broken' => \A s \in Sites \ tainted' : Busy(c, s) => Shown(c, s)
  PROVE  Settles(c)
<1>. SUFFICES ASSUME ~broken', NEW s \in Sites, s \notin tainted', Busy(c, s)
              PROVE  IF Busy(c, s)' THEN Claim(c, s)' ELSE Rest(s)'
  BY DEF Settles
<1>1. Shown(c, s)
  OBVIOUS
<1>2. Busy(c, s)' => cmd'[c].at # "over"
  BY DEF Busy, AtWork
<1>3. ~(Busy(c, s)') => cmd'[c].at = "over"
  BY DEF Busy, AtWork, Kept, Op, site, Touched
<1>. QED BY <1>1, <1>2, <1>3 DEF Shown

\* A command goes to step a with its data r.
LEMMA Moves ==
  ASSUME TypeInv, NEW c \in Commands, AtWork(c), NEW a, a = "over" \/ a \in StepsOf(Op(c)),
         NEW r \in CommandType, r.op = Op(c), r.site = site(c), r.arg = cmd[c].arg, With(c, a, r),
         tainted \subseteq tainted', broken => broken'
  PROVE  /\ Kept(c) /\ cmd'[c].at = a
         /\ a # "over" => /\ cmd'[c].op = Op(c) /\ cmd'[c].arg = cmd[c].arg /\ cmd'[c].seen = r.seen
                          /\ cmd'[c].pid = r.pid /\ cmd'[c].todo = r.todo /\ cmd'[c].found = r.found
<1>1. a \in Steps /\ a # "idle"
  BY Working, WhoIsAt DEF Steps, Ends
<1>. QED BY <1>1, WithEffect DEF Kept, Op, site

\* A command goes to step a as it is.
LEMMA GoMoves ==
  ASSUME TypeInv, NEW c \in Commands, AtWork(c), NEW a, a = "over" \/ a \in StepsOf(Op(c)), Go(c, a),
         tainted \subseteq tainted', broken => broken'
  PROVE  /\ Kept(c) /\ cmd'[c].at = a
         /\ a # "over" => /\ cmd'[c].op = Op(c) /\ cmd'[c].arg = cmd[c].arg /\ cmd'[c].seen = cmd[c].seen
                          /\ cmd'[c].pid = cmd[c].pid /\ cmd'[c].todo = cmd[c].todo
                          /\ cmd'[c].found = cmd[c].found
BY Moves, Working DEF Go, Op, site

\* The conditions of Claim, one for each step.
LEMMA LoadSettles ==
  ASSUME TypeInv, RestInv, NEW c \in Commands, Load(c)
  PROVE  /\ Kept(c) /\ Settles(c)
         /\ cmd'[c].at \in {"check", "setAuto", "validate", "over"}
         /\ cmd'[c].at = "validate" => cmd'[c].op # "create"
<1>1. AtWork(c) /\ At(c, "load") /\ UNCHANGED <<config, proc, broken, tainted>>
  BY DEF Load, At, AtWork, Reads, world
<1>2. /\ site(c) \in Sites /\ cmd[c] \in CommandType
      /\ Op(c) \in {"start", "stop", "delete"} \cup Set
  BY <1>1, Working, WhoIsAt DEF At
<1>3. CASE config[site(c)].there
  <2>. DEFINE seen == IF Op(c) \in Set \cup {"start"} THEN Known(config[site(c)]) ELSE Absent
              r == [cmd[c] EXCEPT !.seen = seen]
              a == After(Op(c), "load")
  <2>1. seen \in SeenEntries
    BY <1>2, EntryTypes DEF TypeInv, Configs
  <2>2. r \in CommandType /\ r.op = Op(c) /\ r.site = site(c) /\ r.arg = cmd[c].arg /\ r.seen = seen
    <3>. HIDE DEF seen
    <3>. QED BY <1>2, <2>1 DEF CommandType, Op, site
  <2>3. With(c, a, r)
    BY <1>3 DEF Load, Op
  <2>4. /\ a \in StepsOf(Op(c))
        /\ Op(c) \in {"start", "delete"} => a = "check"
        /\ Op(c) = "stop" => a = "setAuto"
        /\ Op(c) \in Set => a = "validate"
    BY <1>2, StartFlow, StopFlow, DeleteFlow, SetFlow DEF StepsOf, Set
  <2>5. Op(c) \in Set \cup {"start"} => seen.domain = config[site(c)].domain
    BY <1>2, EntryTypes DEF TypeInv, Configs
  <2>. HIDE DEF seen, r, a
  <2>6. /\ Kept(c) /\ cmd'[c].at = a
        /\ a # "over" => cmd'[c].op = Op(c) /\ cmd'[c].seen = seen
    BY <1>1, <2>2, <2>3, <2>4, Moves
  <2>7. ASSUME ~broken', NEW s \in Sites, s \notin tainted', Busy(c, s)
        PROVE  Shown(c, s)
    <3>1. Claim(c, s) /\ s = site(c)
      BY <1>1, <1>2, <2>7, Claims DEF Set
    <3>2. Rest(s)
      BY <1>1, <3>1 DEF Claim, At
    <3>3. Rest(s)'
      BY <1>1, <3>2 DEF Rest, Online
    <3>. QED BY <1>1, <1>2, <2>4, <2>5, <2>6, <3>1, <3>3 DEF Shown, Claim, At, Op, Set, Serving,
                AskingForProxy
  <2>8. Settles(c)
    BY <1>1, <2>6, <2>7, Shows
  <2>. QED BY <1>2, <2>4, <2>6, <2>8 DEF Set
<1>4. CASE ~config[site(c)].there
  <2>1. Go(c, "over")
    BY <1>4 DEF Load
  <2>2. Kept(c) /\ cmd'[c].at = "over"
    BY <1>1, <2>1, GoMoves
  <2>3. ASSUME ~broken', NEW s \in Sites, s \notin tainted', Busy(c, s)
        PROVE  Shown(c, s)
    <3>1. Claim(c, s)
      BY <1>1, <2>3, Claims
    <3>2. Rest(s)
      BY <1>1, <3>1 DEF Claim, At
    <3>. QED BY <1>1, <2>2, <3>2 DEF Shown, Rest, Online
  <2>. QED BY <1>1, <2>2, <2>3, Shows
<1>. QED BY <1>3, <1>4

\* `set` and `create` validate what they were asked for: their sites stay as they are.
LEMMA ValidateSettles ==
  ASSUME TypeInv, RestInv, NEW c \in Commands, Validate(c)
  PROVE  /\ Kept(c) /\ Settles(c) /\ Op(c) \in Set \cup {"create"}
         /\ \/ cmd'[c].at = "over"
            \/ /\ cmd'[c].at = (IF Op(c) = "create" THEN "append" ELSE "apply") /\ Valid(c)
               /\ cmd'[c].op = Op(c) /\ cmd'[c].seen = cmd[c].seen
<1>1. AtWork(c) /\ At(c, "validate") /\ UNCHANGED <<config, proc, broken, tainted>>
  BY DEF Validate, At, AtWork, Reads, world
<1>2. site(c) \in Sites /\ cmd[c] \in CommandType /\ Op(c) \in Set \cup {"create"}
  BY <1>1, Working, WhoIsAt DEF At
<1>3. PICK a : /\ Go(c, a) /\ (a = "over" \/ (a = After(Op(c), "validate") /\ Valid(c)))
  BY <1>1 DEF Validate, Advance, At, Op
<1>4. /\ a = "over" \/ a \in StepsOf(Op(c))
      /\ Op(c) \in Set => a \in {"over", "apply"}
      /\ Op(c) = "create" => a \in {"over", "append"}
  BY <1>2, <1>3, SetFlow, OtherFlows DEF StepsOf, Set
<1>5. /\ Kept(c) /\ cmd'[c].at = a
      /\ a # "over" => cmd'[c].op = Op(c) /\ cmd'[c].seen = cmd[c].seen
  BY <1>1, <1>3, <1>4, GoMoves
<1>6. ASSUME ~broken', NEW s \in Sites, s \notin tainted', Busy(c, s)
      PROVE  Shown(c, s)
  <2>1. Claim(c, s)
    BY <1>1, <1>6, Claims
  <2>2. Rest(s) /\ (Op(c) = "create" => ~Online(s))
    BY <1>1, <2>1 DEF Claim, At
  <2>3. Rest(s)' /\ (Op(c) = "create" => ~(Online(s)'))
    BY <1>1, <2>2 DEF Rest, Online
  <2>4. Op(c) \in Set => cmd[c].seen.domain = config[s].domain
    BY <1>1, <2>1 DEF Claim, At
  <2>. QED BY <1>1, <1>2, <1>4, <1>5, <2>3, <2>4 DEF Shown, Claim, At, Op, Set, Serving,
              AskingForProxy
<1>7. Settles(c)
  BY <1>1, <1>5, <1>6, Shows
<1>8. a = "over" \/ (Valid(c) /\ a = IF Op(c) = "create" THEN "append" ELSE "apply")
  BY <1>2, <1>3, SetFlow, OtherFlows DEF Set
<1>. QED BY <1>2, <1>5, <1>7, <1>8

\* isServerRunning: each operation goes on to a step whose claim says what was found.
LEMMA CheckSettles ==
  ASSUME TypeInv, RestInv, NEW c \in Commands, Check(c)
  PROVE  /\ Kept(c) /\ Settles(c)
         /\ cmd'[c].at \in {"setPidAndEnd", "halt", "needProxy", "remove", "over"}
         /\ Op(c) = "domain" /\ Online(site(c)) => cmd'[c].at = "halt"
<1>1. AtWork(c) /\ At(c, "check") /\ UNCHANGED <<config, proc, broken, tainted>>
  BY DEF Check, At, AtWork, Reads, world
<1>2. /\ site(c) \in Sites /\ cmd[c] \in CommandType
      /\ Op(c) \in {"start", "stop", "delete"} \cup Set
  BY <1>1, Working, WhoIsAt DEF At
<1>3. CASE Online(site(c)) /\ Op(c) = "start"
  <2>. DEFINE r == [cmd[c] EXCEPT !.pid = proc[site(c)]]
  <2>1. With(c, "setPidAndEnd", r)
    BY <1>3 DEF Check, Op
  <2>2. /\ r \in CommandType /\ r.op = Op(c) /\ r.site = site(c) /\ r.arg = cmd[c].arg
        /\ r.pid = proc[site(c)]
    BY <1>2 DEF CommandType, TypeInv, Op, site
  <2>3. "setPidAndEnd" \in StepsOf(Op(c))
    BY <1>3 DEF StepsOf, Set
  <2>. HIDE DEF r
  <2>4. Kept(c) /\ cmd'[c].at = "setPidAndEnd" /\ cmd'[c].op = "start" /\ cmd'[c].pid = proc[site(c)]
    BY <1>1, <1>3, <2>1, <2>2, <2>3, Moves
  <2>5. ASSUME ~broken', NEW s \in Sites, s \notin tainted', Busy(c, s)
        PROVE  Shown(c, s)
    <3>1. Claim(c, s) /\ s = site(c)
      BY <1>1, <1>3, <2>5, Claims
    <3>2. Rest(s)
      BY <1>1, <1>3, <3>1 DEF Claim, At
    <3>3. Rest(s)'
      BY <1>1, <3>2 DEF Rest, Online
    <3>. QED BY <1>1, <2>4, <3>1, <3>3 DEF Shown, Claim, At, Op, Set, Serving, AskingForProxy
  <2>6. Settles(c)
    BY <1>1, <2>4, <2>5, Shows
  <2>. QED BY <1>3, <2>4, <2>6
<1>4. CASE Online(site(c)) /\ Op(c) # "start"
  <2>1. After(Op(c), "check") = "halt" /\ "halt" \in StepsOf(Op(c))
    BY <1>2, <1>4, StopFlow, DeleteFlow, SetFlow DEF StepsOf, Set
  <2>2. Go(c, "halt")
    BY <1>1, <1>4, <2>1 DEF Check, Advance, At, Op
  <2>3. Kept(c) /\ cmd'[c].at = "halt" /\ cmd'[c].op = Op(c) /\ cmd'[c].seen = cmd[c].seen
    BY <1>1, <2>1, <2>2, GoMoves
  <2>4. ASSUME ~broken', NEW s \in Sites, s \notin tainted', Busy(c, s)
        PROVE  Shown(c, s)
    <3>1. Claim(c, s) /\ s = site(c)
      BY <1>1, <1>2, <2>4, Claims DEF Set
    <3>2. Op(c) \in Set => config[s].there /\ config[s].auto /\ cmd[c].seen.domain = config[s].domain
      BY <1>1, <1>4, <3>1 DEF Claim, At, Rest, Set
    <3>. QED BY <1>1, <1>2, <1>4, <2>3, <3>2 DEF Shown, Claim, At, Op, Set, Serving, AskingForProxy
  <2>5. Settles(c)
    BY <1>1, <2>3, <2>4, Shows
  <2>. QED BY <2>3, <2>5
<1>5. CASE ~Online(site(c))
  <2>1. PICK a : /\ Go(c, a)
                 /\ Op(c) = "start" => a = "needProxy"
                 /\ Op(c) = "delete" => a = "remove"
                 /\ Op(c) \in Set \cup {"stop"} => a = "over"
    BY <1>1, <1>2, <1>5, StartFlow DEF Check, NotRunning, Advance, At, Op, Set
  <2>2. a = "over" \/ a \in StepsOf(Op(c))
    BY <1>2, <2>1 DEF StepsOf, Set, Serving
  <2>3. /\ Kept(c) /\ cmd'[c].at = a
        /\ a # "over" => cmd'[c].op = Op(c) /\ cmd'[c].seen = cmd[c].seen
    BY <1>1, <2>1, <2>2, GoMoves
  <2>4. ASSUME ~broken', NEW s \in Sites, s \notin tainted', Busy(c, s)
        PROVE  Shown(c, s)
    <3>1. Claim(c, s) /\ s = site(c)
      BY <1>1, <1>2, <2>4, Claims DEF Set
    <3>2. Op(c) = "start" => cmd[c].seen.domain = config[s].domain
      BY <1>1, <3>1 DEF Claim, At
    <3>3. ~(Online(s)') /\ Rest(s)'
      BY <1>1, <1>5, <3>1 DEF Rest, Online
    <3>. QED BY <1>1, <1>2, <2>1, <2>3, <3>2, <3>3 DEF Shown, Claim, At, Op, Set, Serving,
                AskingForProxy
  <2>5. Settles(c)
    BY <1>1, <2>3, <2>4, Shows
  <2>. QED BY <1>2, <1>5, <2>1, <2>3, <2>5
<1>. QED BY <1>3, <1>4, <1>5

\* A start asks whether its site has a custom domain, which the claim knows.
LEMMA NeedProxySettles ==
  ASSUME TypeInv, RestInv, NEW c \in Commands, NeedProxy(c)
  PROVE  /\ Kept(c) /\ Settles(c) /\ Op(c) \in Starters
         /\ cmd'[c].at = "startProxy" \/ (cmd'[c].at = "boot" /\ (cmd[c].seen.domain => proxy))
<1>1. AtWork(c) /\ At(c, "needProxy") /\ UNCHANGED <<config, proc, broken, tainted>>
  BY DEF NeedProxy, At, AtWork, Reads, world
<1>2. site(c) \in Sites /\ cmd[c] \in CommandType /\ Op(c) \in Starters
  BY <1>1, Working, WhoIsAt DEF At, Serving
<1>. DEFINE r == [cmd[c] EXCEPT !.seen = Absent]
<1>3. r \in CommandType /\ r.op = Op(c) /\ r.site = site(c) /\ r.arg = cmd[c].arg
  BY <1>2, EntryTypes DEF CommandType, Op, site
<1>4. /\ After(Op(c), "needProxy") = "startProxy" /\ After(Op(c), "startProxy") = "boot"
      /\ {"startProxy", "boot"} \subseteq StepsOf(Op(c))
  BY <1>2, StartFlow, SetFlow, OtherFlows DEF Starters, Set, StepsOf, Serving
<1>5. PICK a \in {"startProxy", "boot"} : With(c, a, r) /\ (a = "boot" /\ cmd[c].seen.domain => proxy)
  BY <1>4 DEF NeedProxy, Op
<1>. HIDE DEF r
<1>6. Kept(c) /\ cmd'[c].at = a /\ cmd'[c].op = Op(c) /\ cmd'[c].arg = cmd[c].arg
  BY <1>1, <1>3, <1>4, <1>5, Moves
<1>7. ASSUME ~broken', NEW s \in Sites, s \notin tainted', Busy(c, s)
      PROVE  Shown(c, s)
  <2>1. Claim(c, s)
    BY <1>1, <1>7, Claims
  <2>2. /\ ~Online(s)
        /\ Op(c) \in Set => config[s].there /\ config[s].auto
        /\ Op(c) = "create" => cmd[c].arg
    BY <1>1, <2>1 DEF Claim, At, Serving
  <2>3. ~(Online(s)')
    BY <1>1, <2>2 DEF Online
  <2>. QED BY <1>1, <1>6, <2>2, <2>3 DEF Shown, Claim, At, Op, Set, Serving, AskingForProxy
<1>8. Settles(c)
  BY <1>1, <1>6, <1>7, Shows
<1>. QED BY <1>2, <1>5, <1>6, <1>8

\* The steps around the proxy, of `stop` and `delete`: their site is offline.
LEMMA AskingSettles ==
  ASSUME TypeInv, RestInv, NEW c \in Commands, cmd[c].at \in AskingForProxy,
         UNCHANGED <<config, proc, broken, tainted>>, NEW a, NEW r \in CommandType, With(c, a, r),
         r.op = Op(c), r.site = site(c), r.arg = cmd[c].arg,
         a \in AskingForProxy \cup {After(Op(c), "stopProxy")}
  PROVE  /\ Kept(c) /\ Settles(c) /\ Op(c) \in {"stop", "delete"} /\ cmd'[c].at = a
         /\ a # "over" => cmd'[c].todo = r.todo /\ cmd'[c].found = r.found
<1>1. AtWork(c)
  BY DEF AtWork, AskingForProxy
<1>2. site(c) \in Sites /\ Op(c) \in {"stop", "delete"}
  BY <1>1, Working, WhoIsAt
<1>3. /\ a = "over" \/ a \in StepsOf(Op(c))
      /\ a \in AskingForProxy \cup {"over", "remove"}
  BY <1>2, StopFlow, DeleteFlow DEF StepsOf, Set
<1>4. /\ Kept(c) /\ cmd'[c].at = a
      /\ a # "over" => cmd'[c].op = Op(c) /\ cmd'[c].todo = r.todo /\ cmd'[c].found = r.found
  BY <1>1, <1>3, Moves
<1>5. ASSUME ~broken', NEW s \in Sites, s \notin tainted', Busy(c, s)
      PROVE  Shown(c, s)
  <2>1. Claim(c, s)
    BY <1>1, <1>5, Claims
  <2>2. ~Online(s)
    BY <2>1 DEF Claim
  <2>3. ~(Online(s)') /\ Rest(s)'
    BY <2>2 DEF Online, Rest
  <2>. QED BY <1>2, <1>3, <1>4, <2>3 DEF Shown, Claim, At, Op, Set, Serving, AskingForProxy
<1>6. Settles(c)
  BY <1>4, <1>5, Shows
<1>. QED BY <1>2, <1>4, <1>6

\* Reading the entries and looking up their servers changes no site.
LEMMA ProxyReadsSettle ==
  ASSUME TypeInv, RestInv, NEW c \in Commands,
         ProxyOn(c) \/ ProxySites(c) \/ (LookedUp(c) /\ At(c, "proxyUsers"))
  PROVE  /\ Kept(c) /\ Settles(c)
         /\ \/ cmd'[c].at \in {"proxySites", "over", "remove"}
            \/ cmd'[c].at = "stopProxy" /\ cmd[c].at = "proxyUsers" /\ cmd[c].todo = {} /\ cmd[c].found = {}
            \/ cmd'[c].at = "proxyUsers" /\ cmd'[c].todo = Users(c)
<1>1. UNCHANGED <<config, proc, broken, tainted>> /\ cmd[c].at \in AskingForProxy
  BY DEF ProxyOn, ProxySites, LookedUp, Reads, world, At, AskingForProxy
<1>2. AtWork(c)
  BY <1>1 DEF AtWork, AskingForProxy
<1>3. cmd[c] \in CommandType /\ Op(c) \in {"stop", "delete"}
  BY <1>1, <1>2, Working, WhoIsAt
<1>4. CASE ProxyOn(c) \/ (LookedUp(c) /\ At(c, "proxyUsers"))
  <2>1. /\ After(Op(c), "proxyOn") = "proxySites"
        /\ After(Op(c), "proxyUsers") = "stopProxy"
        /\ After(Op(c), "stopProxy") \in {"over", "remove"}
    BY <1>3, StopFlow, DeleteFlow
  <2>2. PICK a \in {"proxySites", "stopProxy", After(Op(c), "stopProxy")} :
          /\ With(c, a, cmd[c])
          /\ a = "stopProxy" => At(c, "proxyUsers") /\ cmd[c].todo = {} /\ cmd[c].found = {}
    BY <1>4, <2>1 DEF ProxyOn, LookedUp, Advance, Go, At, Op
  <2>3. Kept(c) /\ Settles(c) /\ cmd'[c].at = a
    BY <1>1, <1>3, <2>2, AskingSettles DEF Op, site, AskingForProxy
  <2>. QED BY <2>1, <2>2, <2>3 DEF At
<1>5. CASE ProxySites(c)
  <2>. DEFINE r == [cmd[c] EXCEPT !.todo = Users(c)]
  <2>1. /\ r \in CommandType /\ r.op = Op(c) /\ r.site = site(c) /\ r.arg = cmd[c].arg
        /\ r.todo = Users(c)
    BY <1>3 DEF CommandType, Op, site, Users
  <2>2. With(c, "proxyUsers", r)
    BY <1>5 DEF ProxySites
  <2>. HIDE DEF r
  <2>. QED BY <1>1, <2>1, <2>2, AskingSettles DEF AskingForProxy
<1>. QED BY <1>4, <1>5

\* What stop --all looks up.
LEMMA ListSettles ==
  ASSUME TypeInv, RestInv, NEW c \in Commands, List(c)
  PROVE  Kept(c) /\ Settles(c) /\ cmd'[c].at = "lookUp"
<1>1. AtWork(c) /\ At(c, "list") /\ UNCHANGED <<config, proc, broken, tainted>>
  BY DEF List, At, AtWork, Reads, world
<1>2. cmd[c] \in CommandType /\ Op(c) = "stopAll"
  BY <1>1, Working, WhoIsAt DEF At
<1>. DEFINE r == [cmd[c] EXCEPT !.todo = {s \in Sites : config[s].there}]
<1>3. /\ r \in CommandType /\ r.op = Op(c) /\ r.site = site(c) /\ r.arg = cmd[c].arg
      /\ r.todo = {s \in Sites : config[s].there}
  BY <1>2 DEF CommandType, Op, site
<1>4. With(c, "lookUp", r) /\ "lookUp" \in StepsOf(Op(c))
  BY <1>2 DEF List, StepsOf, Set
<1>. HIDE DEF r
<1>5. /\ Kept(c) /\ cmd'[c].at = "lookUp" /\ cmd'[c].op = "stopAll"
      /\ cmd'[c].todo = {s \in Sites : config[s].there}
  BY <1>1, <1>2, <1>3, <1>4, Moves
<1>6. ASSUME ~broken', NEW s \in Sites, s \notin tainted', Busy(c, s)
      PROVE  Shown(c, s)
  <2>1. Claim(c, s)
    BY <1>1, <1>6, Claims
  <2>2. Rest(s)
    BY <1>1, <2>1 DEF Claim, At
  <2>3. Rest(s)' /\ (Online(s)' => s \in cmd'[c].todo)
    BY <1>1, <1>5, <2>2 DEF Rest, Online
  <2>. QED BY <1>5, <2>3 DEF Shown, Claim, At, Op, Set, Serving, AskingForProxy
<1>. QED BY <1>1, <1>5, <1>6, Shows

\* stop --all sorts a looked-up site under found when it is online, so none is missed.
LEMMA LookUpSettles ==
  ASSUME TypeInv, RestInv, NEW c \in Commands, NEW t \in Sites, LookUp(c, t)
  PROVE  /\ Kept(c) /\ Settles(c) /\ cmd'[c].at = cmd[c].at /\ cmd[c].at \in {"proxyUsers", "lookUp"}
         /\ cmd'[c].todo = cmd[c].todo \ {t}
         /\ cmd'[c].found = IF Online(t) THEN cmd[c].found \cup {t} ELSE cmd[c].found
<1>1. AtWork(c) /\ cmd[c].at \in {"proxyUsers", "lookUp"} /\ UNCHANGED <<config, proc, broken, tainted>>
  BY DEF LookUp, AtWork, Reads, world
<1>2. cmd[c] \in CommandType /\ cmd[c].at \in StepsOf(Op(c)) /\ Op(c) \in AllOps
  BY <1>1, Working
<1>. DEFINE f == IF Online(t) THEN cmd[c].found \cup {t} ELSE cmd[c].found
            r == [cmd[c] EXCEPT !.todo = @ \ {t}, !.found = f]
<1>3. f \in SUBSET Sites
  BY <1>2 DEF CommandType
<1>4. With(c, cmd[c].at, r)
  BY <1>2 DEF LookUp, CommandType
<1>5. /\ r \in CommandType /\ r.op = Op(c) /\ r.site = site(c) /\ r.arg = cmd[c].arg
      /\ r.todo = cmd[c].todo \ {t} /\ r.found = f
  <2>. HIDE DEF f
  <2>. QED BY <1>2, <1>3 DEF CommandType, Op, site
<1>. HIDE DEF r
<1>6. CASE At(c, "proxyUsers")
  BY <1>1, <1>4, <1>5, <1>6, AskingSettles DEF At, AskingForProxy
<1>7. CASE At(c, "lookUp")
  <2>1. Kept(c) /\ cmd'[c].at = "lookUp" /\ cmd'[c].todo = cmd[c].todo \ {t} /\ cmd'[c].found = f
        /\ cmd'[c].op = Op(c)
    BY <1>1, <1>2, <1>4, <1>5, <1>7, Moves DEF At
  <2>2. Op(c) = "stopAll"
    BY <1>2, <1>7, WhoIsAt DEF At
  <2>3. ASSUME ~broken', NEW s \in Sites, s \notin tainted', Busy(c, s)
        PROVE  Shown(c, s)
    <3>1. Claim(c, s)
      BY <1>1, <2>3, Claims
    <3>2. Rest(s) /\ (Online(s) => s \in cmd[c].todo \cup cmd[c].found)
      BY <1>7, <3>1 DEF Claim, At
    <3>3. Rest(s)' /\ (Online(s)' => s \in cmd'[c].todo \cup cmd'[c].found)
      BY <1>1, <2>1, <3>2 DEF Rest, Online
    <3>. QED BY <2>1, <2>2, <3>3 DEF Shown, Claim, At, Op, Set, Serving, AskingForProxy
  <2>4. Settles(c)
    BY <1>1, <2>1, <2>3, Shows
  <2>. QED BY <1>7, <2>1, <2>4 DEF At
<1>. QED BY <1>1, <1>6, <1>7 DEF At

\* With nothing left to look up, all that is online has been found.
LEMMA LookedUpSettles ==
  ASSUME TypeInv, RestInv, NEW c \in Commands, LookedUp(c), At(c, "lookUp")
  PROVE  Kept(c) /\ Settles(c) /\ cmd'[c].at \in {"clearAll", "kill"}
<1>1. AtWork(c) /\ UNCHANGED <<config, proc, broken, tainted>> /\ cmd[c].todo = {}
  BY DEF LookedUp, AtWork, Reads, world, At
<1>2. cmd[c] \in CommandType /\ Op(c) = "stopAll"
  BY <1>1, Working, WhoIsAt DEF At
<1>3. PICK a \in {"clearAll", "kill"} : Go(c, a)
  BY <1>2, OtherFlows DEF LookedUp, Advance, At, Op
<1>4. a \in StepsOf(Op(c))
  BY <1>2 DEF StepsOf, Set
<1>5. /\ Kept(c) /\ cmd'[c].at = a /\ cmd'[c].op = "stopAll" /\ cmd'[c].found = cmd[c].found
  BY <1>1, <1>2, <1>3, <1>4, GoMoves
<1>6. ASSUME ~broken', NEW s \in Sites, s \notin tainted', Busy(c, s)
      PROVE  Shown(c, s)
  <2>1. Claim(c, s)
    BY <1>1, <1>6, Claims
  <2>2. Rest(s) /\ (Online(s) => s \in cmd[c].found)
    BY <1>1, <2>1 DEF Claim, At
  <2>3. Rest(s)' /\ (Online(s)' => s \in cmd'[c].found)
    BY <1>1, <1>5, <2>2 DEF Rest, Online
  <2>. QED BY <1>5, <2>3 DEF Shown, Claim, At, Op, Set, Serving, AskingForProxy
<1>. QED BY <1>1, <1>5, <1>6, Shows

\* Taking the lock and reading the file change nothing that is claimed.
LEMMA StaySettles ==
  ASSUME TypeInv, RestInv, NEW c \in Commands,
         Lock(c) \/ (Read(c) /\ (cmd[c].at \in Unasked \/ config[site(c)].there))
  PROVE  /\ Kept(c) /\ Settles(c) /\ cmd[c].at \in Locked
         /\ cmd'[c].at = cmd[c].at /\ cmd'[c].op = cmd[c].op /\ cmd'[c].arg = cmd[c].arg
         /\ cmd'[c].site = cmd[c].site /\ cmd'[c].seen = cmd[c].seen
<1>1. AtWork(c) /\ UNCHANGED <<config, proc, broken, tainted>>
  BY DEF Lock, Read, Locked, AtWork, world
<1>2. cmd[c] \in CommandType /\ site(c) \in Sites
  BY <1>1, Working
<1>3. /\ \A d \in Commands \ {c} : cmd'[d] = cmd[d]
      /\ cmd'[c].at = cmd[c].at /\ cmd'[c].op = cmd[c].op /\ cmd'[c].arg = cmd[c].arg
      /\ cmd'[c].site = cmd[c].site /\ cmd'[c].seen = cmd[c].seen /\ cmd'[c].pid = cmd[c].pid
      /\ cmd'[c].todo = cmd[c].todo /\ cmd'[c].found = cmd[c].found
  <2>1. CASE Lock(c)
    BY <1>2, <2>1, StayEffect DEF Lock
  <2>2. CASE Read(c) /\ (cmd[c].at \in Unasked \/ config[site(c)].there)
    <3>. DEFINE r == [cmd[c] EXCEPT !.copy = config]
    <3>1. Stay(c, "save", r)
      BY <2>2 DEF Read
    <3>2. /\ r \in CommandType /\ r.at = cmd[c].at /\ r.op = cmd[c].op /\ r.arg = cmd[c].arg
          /\ r.site = cmd[c].site /\ r.seen = cmd[c].seen /\ r.pid = cmd[c].pid
          /\ r.todo = cmd[c].todo /\ r.found = cmd[c].found
      BY <1>2 DEF TypeInv, CommandType
    <3>. HIDE DEF r
    <3>. QED BY <3>1, <3>2, StayEffect
  <2>. QED BY <2>1, <2>2
<1>4. Kept(c) /\ cmd'[c].at # "over" /\ cmd[c].at \in Locked
  BY <1>1, <1>3 DEF Kept, AtWork, Lock, Read
<1>5. ASSUME ~broken', NEW s \in Sites, s \notin tainted', Busy(c, s)
      PROVE  Shown(c, s)
  <2>1. Claim(c, s)
    BY <1>1, <1>5, Claims
  <2>2. Claim(c, s)'
    BY <1>1, <1>3, <2>1 DEF Claim, Rest, OnRecord, Online, At, Op
  <2>. QED BY <1>4, <2>2 DEF Shown
<1>6. Settles(c)
  BY <1>1, <1>4, <1>5, Shows
<1>. QED BY <1>3, <1>4, <1>6

\* A command that gives up leaves its sites to chance.
LEMMA GiveUpSettles ==
  ASSUME TypeInv, NEW c \in Commands,
         \/ LockTimeout(c) \/ RequestFails(c) \/ Interrupt(c)
         \/ (Read(c) /\ ~(cmd[c].at \in Unasked \/ config[site(c)].there))
  PROVE  /\ Kept(c) /\ Settles(c) /\ cmd'[c].at \in {"over", "undo"}
         /\ Touched(Op(c), site(c)) \subseteq tainted' /\ (At(c, "load") => cmd'[c].at = "over")
<1>1. AtWork(c)
  BY DEF LockTimeout, RequestFails, Interrupt, Read, Locked, AtWork
<1>2. cmd[c] \in CommandType /\ site(c) \in Sites
  BY <1>1, Working
<1>3. PICK a \in {"over", "undo"} :
        /\ Leave(c, a)
        /\ a = "undo" => Op(c) = "create" /\ cmd[c].at \in Undone
  BY DEF LockTimeout, RequestFails, Interrupt, Read, Fail, Op
<1>4. a = "over" \/ a \in StepsOf(Op(c))
  BY <1>3 DEF StepsOf, Set
<1>5. tainted' = tainted \cup Touched(Op(c), site(c)) /\ Go(c, a)
  BY <1>3 DEF Leave, Op
<1>6. (broken => broken') /\ UNCHANGED <<config, proc>>
  <2>1. CASE LockTimeout(c) BY <2>1 DEF LockTimeout, world
  <2>2. CASE RequestFails(c) \/ Interrupt(c) \/ Read(c)
    BY <2>2 DEF RequestFails, Interrupt, Read, Asks, world
  <2>. QED BY <2>1, <2>2
<1>7. Kept(c) /\ cmd'[c].at = a
  BY <1>1, <1>4, <1>5, <1>6, GoMoves
<1>8. At(c, "load") => a = "over"
  BY <1>3 DEF At, Undone
<1>. QED BY <1>5, <1>6, <1>7, <1>8, LeaveSettles

\* A failed list-processes does so too.
LEMMA ListFailsSettles ==
  ASSUME TypeInv, NEW c \in Commands, ListFails(c)
  PROVE  /\ Kept(c) /\ Settles(c) /\ "proxy" \in tainted' /\ ~At(c, "load")
         /\ cmd'[c].at \notin {"apply", "append", "validate"}
         /\ Touched(Op(c), site(c)) \subseteq tainted'
<1>1. AtWork(c) /\ cmd[c].at \in {"check", "halt", "proxyOn", "proxyUsers", "lookUp"}
  BY DEF ListFails, At, AtWork
<1>2. /\ site(c) \in Sites /\ cmd[c] \in CommandType /\ Op(c) \in AllOps
      /\ cmd[c].at \in StepsOf(Op(c))
  BY <1>1, Working
<1>3. /\ UNCHANGED <<config, proc, broken>>
      /\ tainted' = tainted \cup Touched(Op(c), site(c)) \cup {"proxy"}
  BY DEF ListFails, Reads, world, Op
<1>4. Kept(c) /\ cmd'[c].at \notin {"apply", "append", "validate"}
  <2>1. CASE At(c, "check")
    <3>1. NotRunning(c)
      BY <2>1 DEF ListFails, At
    <3>2. PICK a \in {"needProxy", "remove", "over"} :
            /\ Go(c, a)
            /\ a = "needProxy" => Op(c) = "start"
            /\ a = "remove" => Op(c) = "delete"
      BY <2>1, <3>1, StartFlow DEF NotRunning, Advance, At, Op
    <3>3. a = "over" \/ a \in StepsOf(Op(c))
      BY <3>2 DEF StepsOf, Set, Serving
    <3>. QED BY <1>1, <1>3, <3>2, <3>3, GoMoves
  <2>2. CASE At(c, "halt")
    <3>1. Op(c) \in {"stop", "delete"} \cup Set
      BY <1>2, <2>2, WhoIsAt DEF At
    <3>2. /\ After(Op(c), "halt") \in StepsOf(Op(c))
          /\ After(Op(c), "halt") \notin {"over", "apply", "append", "validate"}
      BY <3>1, StopFlow, DeleteFlow, SetFlow DEF StepsOf, Set, Serving, AskingForProxy
    <3>3. Go(c, After(Op(c), "halt"))
      BY <2>2 DEF ListFails, At, Advance, Op
    <3>. QED BY <1>1, <1>3, <3>2, <3>3, GoMoves
  <2>3. CASE At(c, "proxyOn")
    <3>1. Op(c) \in {"stop", "delete"}
      BY <1>2, <2>3, WhoIsAt DEF At, AskingForProxy
    <3>2. /\ After(Op(c), "stopProxy") \in {"over", "remove"}
          /\ After(Op(c), "stopProxy") \in StepsOf(Op(c)) \cup {"over"}
      BY <3>1, StopFlow, DeleteFlow DEF StepsOf, Set
    <3>3. Go(c, After(Op(c), "stopProxy"))
      BY <2>3 DEF ListFails, At, Op
    <3>. QED BY <1>1, <1>3, <3>2, <3>3, GoMoves
  <2>4. CASE cmd[c].at \in {"proxyUsers", "lookUp"}
    <3>1. PICK t \in cmd[c].todo : With(c, cmd[c].at, [cmd[c] EXCEPT !.todo = @ \ {t}])
      BY <2>4 DEF ListFails, At
    <3>. DEFINE r == [cmd[c] EXCEPT !.todo = @ \ {t}]
    <3>2. r \in CommandType /\ r.op = Op(c) /\ r.site = site(c) /\ r.arg = cmd[c].arg
      BY <1>2 DEF CommandType, Op, site
    <3>3. With(c, cmd[c].at, r)
      BY <3>1
    <3>. HIDE DEF r
    <3>4. Kept(c) /\ cmd'[c].at = cmd[c].at
      BY <1>1, <1>2, <1>3, <3>2, <3>3, Moves
    <3>. QED BY <2>4, <3>4
  <2>. QED BY <1>1, <2>1, <2>2, <2>3, <2>4 DEF At
<1>5. Settles(c)
  BY <1>3, LeaveSettles
<1>. QED BY <1>1, <1>3, <1>4, <1>5 DEF At

\* The steps that ask for the proxy.
LEMMA StartProxySettles ==
  ASSUME TypeInv, RestInv, NEW c \in Commands, StartProxy(c)
  PROVE  Kept(c) /\ Settles(c) /\ Op(c) \in Starters /\ cmd'[c].at = "boot"
<1>1. AtWork(c) /\ At(c, "startProxy") /\ UNCHANGED <<config, proc, broken, tainted>>
  BY DEF StartProxy, At, AtWork, Asks, world
<1>2. site(c) \in Sites /\ cmd[c] \in CommandType /\ Op(c) \in Starters
  BY <1>1, Working, WhoIsAt DEF At, Serving
<1>3. After(Op(c), "startProxy") = "boot" /\ "boot" \in StepsOf(Op(c))
  BY <1>2, StartFlow, SetFlow, OtherFlows DEF Starters, Set, StepsOf, Serving
<1>4. Go(c, "boot")
  BY <1>1, <1>3 DEF StartProxy, Advance, At, Op
<1>5. Kept(c) /\ cmd'[c].at = "boot" /\ cmd'[c].op = Op(c) /\ cmd'[c].arg = cmd[c].arg
  BY <1>1, <1>3, <1>4, GoMoves
<1>6. ASSUME ~broken', NEW s \in Sites, s \notin tainted', Busy(c, s)
      PROVE  Shown(c, s)
  <2>1. Claim(c, s)
    BY <1>1, <1>6, Claims
  <2>2. /\ ~Online(s)
        /\ Op(c) \in Set => config[s].there /\ config[s].auto
        /\ Op(c) = "create" => cmd[c].arg
    BY <1>1, <2>1 DEF Claim, At, Serving
  <2>3. ~(Online(s)')
    BY <1>1, <2>2 DEF Online
  <2>. QED BY <1>1, <1>5, <2>2, <2>3 DEF Shown, Claim, At, Op, Set, Serving, AskingForProxy
<1>. QED BY <1>1, <1>2, <1>5, <1>6, Shows

\* Stopping the proxy changes no site.
LEMMA StopProxySettles ==
  ASSUME TypeInv, RestInv, NEW c \in Commands, StopProxy(c)
  PROVE  Kept(c) /\ Settles(c) /\ Op(c) \in {"stop", "delete"} /\ cmd'[c].at \in {"over", "remove"}
<1>1. AtWork(c) /\ At(c, "stopProxy") /\ UNCHANGED <<config, proc, broken, tainted>>
  BY DEF StopProxy, At, AtWork, Asks, world
<1>2. cmd[c] \in CommandType /\ Op(c) \in {"stop", "delete"}
  BY <1>1, Working, WhoIsAt DEF At, AskingForProxy
<1>3. With(c, After(Op(c), "stopProxy"), cmd[c])
  BY <1>1 DEF StopProxy, Advance, Go, At, Op
<1>4. /\ After(Op(c), "stopProxy") \in {"over", "remove"}
      /\ After(Op(c), "stopProxy") = "over" \/ After(Op(c), "stopProxy") \in StepsOf(Op(c))
  BY <1>2, StopFlow, DeleteFlow DEF StepsOf, Set
<1>5. Kept(c) /\ cmd'[c].at \in {"over", "remove"}
  BY <1>1, <1>2, <1>3, <1>4, Moves DEF Op, site
<1>. QED BY <1>1, <1>2, <1>3, <1>5, AskingSettles DEF Op, site, At, AskingForProxy

\* A started process is new: its site was offline.
LEMMA BootSettles ==
  ASSUME TypeInv, RestInv, NEW c \in Commands, Boot(c)
  PROVE  /\ Kept(c) /\ Settles(c) /\ Op(c) \in Starters /\ cmd'[c].at = "serve"
         /\ site(c) \in Sites /\ \A s \in Sites \ {site(c)} : proc'[s] = proc[s]
<1>1. AtWork(c) /\ At(c, "boot") /\ UNCHANGED <<config, broken, tainted>>
  BY DEF Boot, At, AtWork, Asks
<1>2. site(c) \in Sites /\ cmd[c] \in CommandType /\ Op(c) \in Starters
  BY <1>1, Working, WhoIsAt DEF At, Serving
<1>3. PICK p \in SomePid : /\ proc' = [proc EXCEPT ![site(c)] = p]
                           /\ With(c, "serve", [cmd[c] EXCEPT !.pid = p])
  BY <1>2, FreshPid DEF Boot, TypeInv, SomePid
<1>. DEFINE r == [cmd[c] EXCEPT !.pid = p]
<1>4. r \in CommandType /\ r.op = Op(c) /\ r.site = site(c) /\ r.arg = cmd[c].arg /\ r.pid = p
  BY <1>2 DEF CommandType, Op, site
<1>5. With(c, "serve", r) /\ "serve" \in StepsOf(Op(c))
  BY <1>2, <1>3 DEF StepsOf, Starters, Serving, Set
<1>. HIDE DEF r
<1>6. /\ Kept(c) /\ cmd'[c].at = "serve" /\ cmd'[c].op = Op(c) /\ cmd'[c].arg = cmd[c].arg
      /\ cmd'[c].pid = p
  BY <1>1, <1>4, <1>5, Moves
<1>7. proc'[site(c)] = p /\ \A s \in Sites \ {site(c)} : proc'[s] = proc[s]
  BY <1>2, <1>3 DEF TypeInv
<1>8. ASSUME ~broken', NEW s \in Sites, s \notin tainted', Busy(c, s)
      PROVE  Shown(c, s)
  <2>1. Claim(c, s) /\ s = site(c)
    BY <1>1, <1>2, <1>8, Claims DEF Starters
  <2>2. /\ Op(c) \in Set => config[s].there /\ config[s].auto
        /\ Op(c) = "create" => cmd[c].arg
    BY <1>1, <2>1 DEF Claim, At, Serving
  <2>. QED BY <1>1, <1>6, <1>7, <2>1, <2>2 DEF Shown, Claim, At, Op, Set, Serving, AskingForProxy
<1>9. \A s \in Sites : ~Busy(c, s) => config'[s] = config[s] /\ proc'[s] = proc[s]
  BY <1>1, <1>2, <1>7, Touches DEF Busy
<1>. QED BY <1>2, <1>6, <1>7, <1>8, <1>9, Shows

\* A start that is told its process serves, or does not, knows the pid by then.
LEMMA ServeSettles ==
  ASSUME TypeInv, RestInv, NEW c \in Commands, Serve(c)
  PROVE  Kept(c) /\ Settles(c) /\ cmd'[c].at = "setPid" /\ Op(c) \in Starters
<1>1. AtWork(c) /\ At(c, "serve") /\ UNCHANGED <<config, proc, broken, tainted>>
  BY DEF Serve, At, AtWork, Asks, world
<1>2. site(c) \in Sites /\ cmd[c] \in CommandType /\ Op(c) \in Starters
  BY <1>1, Working, WhoIsAt DEF At, Serving
<1>3. After(Op(c), "serve") = "setPid" /\ "setPid" \in StepsOf(Op(c))
  BY <1>2, StartFlow, SetFlow, OtherFlows DEF Starters, Set, StepsOf, Serving
<1>4. Go(c, "setPid")
  BY <1>1, <1>3 DEF Serve, Advance, At, Op
<1>5. /\ Kept(c) /\ cmd'[c].at = "setPid" /\ cmd'[c].op = Op(c) /\ cmd'[c].arg = cmd[c].arg
      /\ cmd'[c].pid = cmd[c].pid
  BY <1>1, <1>3, <1>4, GoMoves
<1>6. ASSUME ~broken', NEW s \in Sites, s \notin tainted', Busy(c, s)
      PROVE  Shown(c, s)
  <2>1. Claim(c, s)
    BY <1>1, <1>6, Claims
  <2>2. /\ Op(c) \in Set => config[s].there /\ config[s].auto
        /\ Op(c) = "create" => cmd[c].arg
        /\ Online(s) => proc[s] = cmd[c].pid
    BY <1>1, <2>1 DEF Claim, At, Serving
  <2>3. Online(s)' => proc'[s] = cmd'[c].pid
    BY <1>1, <1>5, <2>2 DEF Online
  <2>. QED BY <1>1, <1>5, <2>2, <2>3 DEF Shown, Claim, At, Op, Set, Serving, AskingForProxy
<1>. QED BY <1>1, <1>2, <1>5, <1>6, Shows

\* After stopWordPressServer the site is offline, or the command leaves it to chance.
LEMMA HaltSettles ==
  ASSUME TypeInv, RestInv, NEW c \in Commands, Halt(c)
  PROVE  /\ Kept(c) /\ Settles(c) /\ cmd'[c].at \in {"clearPid", "proxyOn", "needProxy"}
         /\ \A s \in Sites : proc'[s] \in {proc[s], NoPid}
<1>1. AtWork(c) /\ At(c, "halt") /\ UNCHANGED <<config, broken, tainted>>
  BY DEF Halt, At, AtWork, Asks
<1>2. /\ site(c) \in Sites /\ cmd[c] \in CommandType /\ Op(c) \in {"stop", "delete"} \cup Set
  BY <1>1, Working, WhoIsAt DEF At
<1>3. PICK a : /\ Go(c, a) /\ a \in StepsOf(Op(c))
               /\ Op(c) = "stop" => a = "clearPid"
               /\ Op(c) = "delete" => a = "proxyOn"
               /\ Op(c) \in Set => a = "needProxy"
  <2>1. Go(c, After(Op(c), "halt"))
    BY <1>1 DEF Halt, Advance, At, Op
  <2>2. /\ After(Op(c), "halt") \in StepsOf(Op(c))
        /\ Op(c) = "stop" => After(Op(c), "halt") = "clearPid"
        /\ Op(c) = "delete" => After(Op(c), "halt") = "proxyOn"
        /\ Op(c) \in Set => After(Op(c), "halt") = "needProxy"
    BY <1>2, StopFlow, DeleteFlow, SetFlow DEF StepsOf, Set, Serving, AskingForProxy
  <2>. QED BY <2>1, <2>2
<1>4. a \in {"clearPid", "proxyOn", "needProxy"}
  BY <1>2, <1>3
<1>5. Kept(c) /\ cmd'[c].at = a /\ cmd'[c].op = Op(c) /\ cmd'[c].seen = cmd[c].seen
  BY <1>1, <1>3, <1>4, GoMoves
<1>6. proc'[site(c)] = NoPid /\ \A s \in Sites \ {site(c)} : proc'[s] = proc[s]
  BY <1>2 DEF Halt, TypeInv
<1>7. ASSUME ~broken', NEW s \in Sites, s \notin tainted', Busy(c, s)
      PROVE  Shown(c, s)
  <2>1. Claim(c, s) /\ s = site(c)
    BY <1>1, <1>2, <1>7, Claims DEF Set
  <2>2. Op(c) \in Set => config[s].there /\ config[s].auto /\ cmd[c].seen.domain = config[s].domain
    BY <1>1, <2>1 DEF Claim, At
  <2>3. ~(Online(s)')
    BY <1>6, <2>1 DEF Online
  <2>. QED BY <1>1, <1>2, <1>3, <1>4, <1>5, <2>2, <2>3
       DEF Shown, Claim, At, Op, Set, Serving, AskingForProxy, Rest, OnRecord
<1>8. \A s \in Sites : ~Busy(c, s) => config'[s] = config[s] /\ proc'[s] = proc[s]
  BY <1>1, <1>2, <1>6, Touches DEF Busy
<1>. QED BY <1>4, <1>5, <1>6, <1>7, <1>8, Shows

\* stop --all has stopped every site it found online: all its sites are at rest.
LEMMA KillSettles ==
  ASSUME TypeInv, RestInv, NEW c \in Commands, Kill(c)
  PROVE  /\ Kept(c) /\ Settles(c) /\ Op(c) = "stopAll" /\ cmd'[c].at = "over"
         /\ \A s \in Sites : proc'[s] = NoPid
<1>1. AtWork(c) /\ At(c, "kill") /\ UNCHANGED <<config, broken, tainted>>
  BY DEF Kill, At, AtWork, Asks
<1>2. Op(c) = "stopAll"
  BY <1>1, Working, WhoIsAt DEF At
<1>3. Go(c, "over")
  BY <1>1, <1>2, OtherFlows DEF Kill, Advance, At, Op
<1>4. Kept(c) /\ cmd'[c].at = "over"
  BY <1>1, <1>3, GoMoves
<1>5. \A s \in Sites : proc'[s] = NoPid
  BY DEF Kill
<1>6. \A s \in Sites : Busy(c, s)
  BY <1>1, <1>2 DEF Busy, Touched
<1>7. \A s \in Sites : Shown(c, s)
  BY <1>4, <1>5 DEF Shown, Rest, Online
<1>. QED BY <1>2, <1>4, <1>5, <1>6, <1>7, Shows

-----------------------------------------------------------------------------
\* What saving changes.

\* What a command changes of the entry e of a site, to the entry n.
Edited(c, e, n) ==
  /\ n.there = e.there /\ n.folder = e.folder
  /\ n.pid = IF cmd[c].at \in {"clearPid", "clearAll"} THEN NoPid
             ELSE IF cmd[c].at \in {"setPid", "setPidAndEnd"} THEN cmd[c].pid ELSE e.pid
  /\ n.auto = IF At(c, "setAuto") THEN (Op(c) = "start" \/ cmd[c].arg)
              ELSE IF At(c, "clearAll") THEN cmd[c].arg ELSE e.auto
  /\ n.domain = IF At(c, "apply") /\ Op(c) = "domain" THEN cmd[c].arg ELSE e.domain
  /\ n.xdebug = IF At(c, "apply") /\ Op(c) = "xdebug" THEN cmd[c].arg ELSE e.xdebug

\* The change of an entry that is there.
LEMMA EditsEntry ==
  ASSUME NEW c \in Commands, NEW s, NEW e \in Entries, Op(c) = "xdebug" \/ Op(c) = "domain" \/ ~At(c, "apply"),
         cmd[c].at \in {"setAuto", "clearPid", "apply", "setPid", "setPidAndEnd", "clearAll"}
  PROVE  Edited(c, e, Edit(c, s, e))
<1>. DEFINE n == Edit(c, s, e)
<1>1. CASE At(c, "setAuto")
  <2>1. n = [e EXCEPT !.auto = cmd[c].op = "start" \/ cmd[c].arg]
    BY <1>1 DEF Edit, At
  <2>2. /\ n.there = e.there /\ n.folder = e.folder /\ n.pid = e.pid /\ n.domain = e.domain
        /\ n.xdebug = e.xdebug
    BY <2>1 DEF Entries
  <2>3. n.auto = (cmd[c].op = "start" \/ cmd[c].arg)
    BY <2>1 DEF Entries
  <2>. HIDE DEF n
  <2>. QED BY <1>1, <2>2, <2>3 DEF Edited, At, Op, n
<1>2. CASE At(c, "clearPid")
  <2>1. n = [e EXCEPT !.pid = NoPid]
    BY <1>2 DEF Edit, At
  <2>. QED BY <1>2, <2>1 DEF Edited, At, Op, Entries
<1>3. CASE At(c, "apply")
  <2>1. n = [e EXCEPT ![cmd[c].op] = cmd[c].arg]
    BY <1>3 DEF Edit, At
  <2>2. CASE Op(c) = "xdebug"
    BY <1>3, <2>1, <2>2 DEF Edited, At, Op, Entries
  <2>3. CASE Op(c) = "domain"
    BY <1>3, <2>1, <2>3 DEF Edited, At, Op, Entries
  <2>. QED BY <1>3, <2>2, <2>3
<1>4. CASE cmd[c].at \in {"setPid", "setPidAndEnd"}
  <2>1. n = [e EXCEPT !.pid = cmd[c].pid]
    BY <1>4 DEF Edit, At
  <2>. QED BY <1>4, <2>1 DEF Edited, At, Op, Entries
<1>5. CASE At(c, "clearAll")
  <2>1. n = [e EXCEPT !.pid = NoPid, !.auto = cmd[c].arg]
    BY <1>5 DEF Edit, At
  <2>. QED BY <1>5, <2>1 DEF Edited, At, Op, Entries
<1>. QED BY <1>1, <1>2, <1>3, <1>4, <1>5 DEF At

\* What saving does to the file, as long as no lock was broken: to the entries of the
\* command's sites, which it has just read, and to no other.
LEMMA SaveEffect ==
  ASSUME TypeInv, IInv, NEW c \in Commands, Save(c), ~broken
  PROVE  /\ AtWork(c) /\ Changed(c) \subseteq {s \in Sites : Busy(c, s)}
         /\ \A s \in Sites \ Changed(c) : config'[s] = config[s]
         /\ \A s \in Changed(c) :
              /\ cmd[c].at \in {"remove", "undo"} => config'[s] = Absent
              /\ At(c, "append") => config'[s] = cmd[c].seen /\ cmd[c].seen \in Entries
              /\ cmd[c].at \notin {"remove", "undo", "append"} =>
                   config[s].there /\ Edited(c, config[s], config'[s])
<1>1. AtWork(c) /\ Saving(c)
  BY DEF Save, Saving, Locked, AtWork
<1>2. /\ site(c) \in Sites /\ cmd[c] \in CommandType /\ Op(c) \in AllOps
      /\ cmd[c].at \in StepsOf(Op(c)) /\ cmd[c].found \subseteq Sites
  BY <1>1, Working DEF CommandType
<1>3. cmd[c].copy = config /\ config' = Saved(c)
  BY <1>1 DEF IInv, NoLostUpdate, Saving, Save
<1>4. Changed(c) \subseteq Sites
  BY <1>2 DEF Changed, At
<1>5. \A s \in Changed(c) : Busy(c, s)
  <2>1. CASE At(c, "clearAll")
    <3>1. Op(c) = "stopAll"
      BY <1>2, <2>1, WhoIsAt DEF At
    <3>. QED BY <1>1, <1>4, <3>1 DEF Busy, Touched
  <2>2. CASE ~At(c, "clearAll")
    <3>1. Changed(c) \subseteq {site(c)}
      BY <2>2 DEF Changed
    <3>. QED BY <1>1, <1>2, <3>1, Touches DEF Busy
  <2>. QED BY <2>1, <2>2
<1>6. \A s \in Sites \ Changed(c) : config'[s] = config[s]
  BY <1>3 DEF Saved
<1>7. ASSUME NEW s \in Changed(c)
      PROVE  /\ cmd[c].at \in {"remove", "undo"} => config'[s] = Absent
             /\ At(c, "append") => config'[s] = cmd[c].seen /\ cmd[c].seen \in Entries
             /\ cmd[c].at \notin {"remove", "undo", "append"} =>
                  config[s].there /\ Edited(c, config[s], config'[s])
  <2>. DEFINE e == config[s]
  <2>1. s \in Sites
    BY <1>4
  <2>2. config'[s] = Edit(c, s, e)
    BY <1>3, <2>1 DEF Saved
  <2>. HIDE DEF e
  <2>3. cmd[c].at \in {"remove", "undo"} => config'[s] = Absent
    BY <2>2 DEF Edit, At
  <2>4. ASSUME At(c, "append")
        PROVE  config'[s] = cmd[c].seen /\ cmd[c].seen \in Entries
    <3>1. Op(c) = "create"
      BY <1>2, <2>4, WhoIsAt DEF At
    <3>2. cmd[c].seen \in Entries
      BY <1>1, <2>4, <3>1 DEF TypeInv, WorkInv, AtWork, Ends, At, Op
    <3>. QED BY <2>2, <2>4, <3>2 DEF Edit, At
  <2>5. ASSUME cmd[c].at \notin {"remove", "undo", "append"}
        PROVE  config[s].there /\ Edited(c, config[s], config'[s])
    <3>1. cmd[c].at \in {"setAuto", "clearPid", "apply", "setPid", "setPidAndEnd", "clearAll"}
      BY <1>1, <2>5 DEF Saving, Locked
    <3>2. config[s].there
      <4>1. CASE At(c, "clearAll")
        BY <1>3, <4>1 DEF Changed
      <4>2. CASE ~At(c, "clearAll")
        <5>1. s = site(c) /\ cmd[c].at \notin Unasked
          BY <3>1, <4>2 DEF Changed, At, Unasked
        <5>. QED BY <1>1, <1>3, <5>1 DEF IInv, EntryInv
      <4>. QED BY <4>1, <4>2
    <3>3. e \in Entries
      <4>1. config[s] \in Entries \cup {Absent}
        BY <2>1 DEF TypeInv, Configs
      <4>. QED BY <3>2, <4>1 DEF Absent, e
    <3>4. Op(c) = "xdebug" \/ Op(c) = "domain" \/ ~At(c, "apply")
      BY <1>2, WhoIsAt DEF At, Set
    <3>5. Edited(c, e, Edit(c, s, e))
      BY <3>1, <3>3, <3>4, EditsEntry
    <3>. QED BY <2>2, <3>2, <3>5 DEF e
  <2>. QED BY <2>3, <2>4, <2>5
<1>. QED BY <1>1, <1>4, <1>5, <1>6, <1>7

\* Where a command is after it saved, and what it still knows.
LEMMA SaveMoves ==
  ASSUME TypeInv, IInv, NEW c \in Commands, Save(c)
  PROVE  /\ Kept(c) /\ cmd'[c].at = Following(c) /\ UNCHANGED <<proc, proxy, broken, tainted, unused>>
         /\ Following(c) \in (StepsOf(Op(c)) \cup {"over"}) \ {"validate", "append"}
         /\ Following(c) # "over" =>
              /\ cmd'[c].op = Op(c) /\ cmd'[c].arg = cmd[c].arg
              /\ cmd'[c].seen = IF At(c, "apply") THEN Known(config'[site(c)]) ELSE cmd[c].seen
<1>1. AtWork(c) /\ Saving(c) /\ cmd[c].at \in Locked
  BY DEF Save, Saving, Locked, AtWork
<1>2. site(c) \in Sites /\ cmd[c] \in CommandType /\ cmd[c].seen \in SeenEntries
  BY <1>1, Working
<1>3. config' = Saved(c) /\ UNCHANGED <<proc, proxy, broken, tainted, unused>>
  BY DEF Save, world
<1>4. Saved(c) \in Configs
  BY <1>1, SavedTypes DEF IInv
<1>5. Known(Saved(c)[site(c)]) \in SeenEntries
  <2>1. Saved(c)[site(c)] \in SeenEntries
    BY <1>2, <1>4, EntryTypes DEF Configs
  <2>. QED BY <2>1, EntryTypes
<1>. DEFINE e == IF At(c, "apply") THEN Known(Saved(c)[site(c)]) ELSE cmd[c].seen
            r == [cmd[c] EXCEPT !.copy = <<>>, !.pid = NoPid, !.seen = e]
<1>6. e \in SeenEntries
  BY <1>2, <1>5
<1>7. With(c, Following(c), r)
  BY <1>2 DEF Save, CommandType
<1>8. r \in CommandType /\ r.op = Op(c) /\ r.site = site(c) /\ r.arg = cmd[c].arg /\ r.seen = e
  <2>. HIDE DEF e
  <2>. QED BY <1>2, <1>6 DEF CommandType, Op, site, SomePid
<1>. HIDE DEF r
<1>9. Following(c) \in (StepsOf(Op(c)) \cup {"over"}) \ {"validate", "append"}
  BY <1>1, FollowingSteps
<1>. HIDE DEF e
<1>10. /\ Kept(c) /\ cmd'[c].at = Following(c)
       /\ Following(c) # "over" => cmd'[c].op = Op(c) /\ cmd'[c].arg = cmd[c].arg /\ cmd'[c].seen = e
  BY <1>1, <1>3, <1>7, <1>8, <1>9, Moves
<1>. QED BY <1>3, <1>9, <1>10 DEF e

\* Where each operation goes on from a step that saves.
LEMMA SaveFlows ==
  ASSUME TypeInv, NEW c \in Commands, AtWork(c), cmd[c].at \in Locked
  PROVE  /\ At(c, "setAuto") /\ Op(c) = "stop" => Following(c) = "check"
         /\ At(c, "setAuto") /\ Op(c) # "stop" => Following(c) = "over" /\ Op(c) \in {"start", "create"}
         /\ At(c, "clearPid") => Following(c) = "proxyOn" /\ Op(c) = "stop"
         /\ At(c, "remove") => Following(c) = "over" /\ Op(c) = "delete"
         /\ At(c, "apply") => Following(c) = "check" /\ Op(c) \in Set
         /\ At(c, "setPid") /\ Op(c) \in Set => Following(c) = "over"
         /\ At(c, "setPid") /\ Op(c) \notin Set => Following(c) = "setAuto" /\ Op(c) \in {"start", "create"}
         /\ At(c, "setPidAndEnd") => Following(c) = "over" /\ Op(c) = "start"
         /\ At(c, "clearAll") => Following(c) = "kill" /\ Op(c) = "stopAll"
         /\ At(c, "append") => Op(c) = "create" /\ Following(c) = IF cmd[c].arg THEN "needProxy" ELSE "over"
         /\ At(c, "undo") => Following(c) = "over" /\ Op(c) = "create"
<1>1. Op(c) \in AllOps /\ cmd[c].at \in StepsOf(Op(c))
  BY Working
<1>2. /\ At(c, "setAuto") => Op(c) \in {"start", "stop", "create"}
      /\ At(c, "clearPid") => Op(c) = "stop"
      /\ At(c, "remove") => Op(c) = "delete"
      /\ At(c, "apply") => Op(c) \in Set
      /\ At(c, "setPid") => Op(c) \in Set \cup {"start", "create"}
      /\ At(c, "setPidAndEnd") => Op(c) = "start"
      /\ At(c, "clearAll") => Op(c) = "stopAll"
      /\ At(c, "append") => Op(c) = "create"
      /\ At(c, "undo") => Op(c) = "create"
  BY <1>1, WhoIsAt DEF At, Serving, Starters, Set
<1>3. /\ ~At(c, "append") => Following(c) = After(Op(c), cmd[c].at)
      /\ At(c, "append") => Following(c) = IF cmd[c].arg THEN After(Op(c), "append") ELSE "over"
  BY DEF Following, At, Op
<1>. QED BY <1>2, <1>3, StartFlow, StopFlow, DeleteFlow, SetFlow, OtherFlows DEF At, Set

\* After a save the site is at rest or as the next step of its command claims.
LEMMA SaveSettles ==
  ASSUME TypeInv, IInv, RestInv, NEW c \in Commands, Save(c)
  PROVE  Settles(c)
<1>1. AtWork(c) /\ cmd[c].at \in Locked
  BY DEF Save, Locked, AtWork
<1>2. /\ Kept(c) /\ cmd'[c].at = Following(c) /\ UNCHANGED <<proc, broken, tainted>>
      /\ Following(c) # "over" =>
           /\ cmd'[c].op = Op(c) /\ cmd'[c].arg = cmd[c].arg
           /\ cmd'[c].seen = IF At(c, "apply") THEN Known(config'[site(c)]) ELSE cmd[c].seen
  BY SaveMoves
<1>. SUFFICES ASSUME ~broken PROVE Settles(c)
  BY <1>2 DEF Settles
<1>3. /\ Changed(c) \subseteq {s \in Sites : Busy(c, s)}
      /\ \A s \in Sites \ Changed(c) : config'[s] = config[s]
      /\ \A s \in Changed(c) :
              /\ cmd[c].at \in {"remove", "undo"} => config'[s] = Absent
              /\ At(c, "append") => config'[s] = cmd[c].seen /\ cmd[c].seen \in Entries
              /\ cmd[c].at \notin {"remove", "undo", "append"} =>
                   config[s].there /\ Edited(c, config[s], config'[s])
  BY SaveEffect
<1>4. ASSUME NEW s \in Sites, s \notin tainted', Busy(c, s)
      PROVE  Shown(c, s)
  <2>1. Claim(c, s) /\ (Op(c) # "stopAll" => s = site(c))
    BY <1>2, <1>4, Claims
  <2>2. Op(c) # "stopAll" /\ ~At(c, "undo") /\ ~At(c, "clearAll") => s \in Changed(c)
    BY <2>1 DEF Changed
  <2>3. ~At(c, "undo")
    BY <2>1 DEF Claim
  <2>4. CASE At(c, "setAuto") /\ Op(c) = "stop"
    <3>1. cmd'[c].at = "check" /\ cmd'[c].op = "stop"
      BY <1>1, <1>2, <2>4, SaveFlows
    <3>. QED BY <3>1 DEF Shown, Claim, At, Op, Set, Serving, AskingForProxy
  <2>5. CASE At(c, "setAuto") /\ Op(c) # "stop"
    <3>1. cmd'[c].at = "over" /\ Op(c) \in {"start", "create"}
      BY <1>1, <1>2, <2>5, SaveFlows
    <3>2. OnRecord(s) /\ (Op(c) = "create" => cmd[c].arg)
      BY <2>1, <2>5 DEF Claim, At
    <3>3. config[s].there /\ Edited(c, config[s], config'[s])
      BY <1>3, <2>2, <2>5, <3>1 DEF At
    <3>4. config'[s].there = config[s].there /\ config'[s].pid = config[s].pid
      BY <2>5, <3>3 DEF Edited, At
    <3>5. config'[s].auto
      BY <2>5, <3>1, <3>2, <3>3 DEF Edited, At
    <3>. QED BY <1>2, <3>1, <3>2, <3>3, <3>4, <3>5 DEF Shown, Rest, OnRecord, Online
  <2>6. CASE At(c, "clearPid")
    <3>1. cmd'[c].at = "proxyOn" /\ cmd'[c].op = "stop"
      BY <1>1, <1>2, <2>6, SaveFlows
    <3>2. ~(Online(s)')
      BY <1>2, <2>1, <2>6 DEF Claim, At, Online
    <3>. QED BY <3>1, <3>2 DEF Shown, Claim, At, Op, Set, Serving, AskingForProxy
  <2>7. CASE At(c, "remove")
    <3>1. cmd'[c].at = "over"
      BY <1>1, <1>2, <2>7, SaveFlows
    <3>2. ~(Online(s)')
      BY <1>2, <2>1, <2>7 DEF Claim, At, Online
    <3>. QED BY <3>1, <3>2 DEF Shown, Rest
  <2>8. CASE At(c, "apply")
    <3>1. cmd'[c].at = "check" /\ cmd'[c].op = Op(c) /\ Op(c) \in Set
          /\ cmd'[c].seen = Known(config'[site(c)])
      BY <1>1, <1>2, <2>8, SaveFlows
    <3>2. Rest(s) /\ s = site(c)
      BY <2>1, <2>8, <3>1 DEF Claim, At, Set
    <3>3. config[s].there /\ Edited(c, config[s], config'[s])
      BY <1>3, <2>2, <2>8, <3>1 DEF At, Set
    <3>4. /\ config'[s].there = config[s].there /\ config'[s].pid = config[s].pid
          /\ config'[s].auto = config[s].auto
      BY <2>8, <3>3 DEF Edited, At
    <3>5. Rest(s)'
      BY <1>2, <3>2, <3>4 DEF Rest, Online
    <3>6. cmd'[c].seen.domain = config'[s].domain
      <4>1. config'[s] \in SeenEntries
        BY SaveTypes, EntryTypes DEF IInv, TypeInv, Configs
      <4>. QED BY <3>1, <3>2, <4>1, EntryTypes
    <3>. QED BY <3>1, <3>5, <3>6 DEF Shown, Claim, At, Op, Set, Serving, AskingForProxy
  <2>9. CASE At(c, "setPid")
    <3>1. /\ Op(c) \in Set => cmd'[c].at = "over"
          /\ Op(c) \notin Set => /\ cmd'[c].at = "setAuto" /\ Op(c) \in {"start", "create"}
                                 /\ cmd'[c].op = Op(c) /\ cmd'[c].arg = cmd[c].arg
      BY <1>1, <1>2, <2>9, SaveFlows
    <3>2. /\ Online(s) => proc[s] = cmd[c].pid
          /\ Op(c) \in Set => config[s].auto
          /\ Op(c) = "create" => cmd[c].arg
      BY <2>1, <2>9 DEF Claim, At, Serving
    <3>3. config[s].there /\ Edited(c, config[s], config'[s])
      BY <1>3, <2>2, <2>9, <3>1 DEF At, Set
    <3>4. /\ config'[s].there = config[s].there /\ config'[s].pid = cmd[c].pid
          /\ config'[s].auto = config[s].auto
      BY <2>9, <3>3 DEF Edited, At
    <3>5. OnRecord(s)' /\ (Op(c) \in Set => Rest(s)')
      BY <1>2, <3>2, <3>3, <3>4 DEF OnRecord, Rest, Online
    <3>. QED BY <3>1, <3>2, <3>5 DEF Shown, Claim, At, Op, Set, Serving, AskingForProxy
  <2>10. CASE At(c, "setPidAndEnd")
    <3>1. cmd'[c].at = "over" /\ Op(c) = "start"
      BY <1>1, <1>2, <2>10, SaveFlows
    <3>2. Rest(s) /\ (Online(s) => proc[s] = cmd[c].pid)
      BY <2>1, <2>10 DEF Claim, At
    <3>3. config[s].there /\ Edited(c, config[s], config'[s])
      BY <1>3, <2>2, <2>10, <3>1 DEF At
    <3>4. /\ config'[s].there = config[s].there /\ config'[s].pid = cmd[c].pid
          /\ config'[s].auto = config[s].auto
      BY <2>10, <3>3 DEF Edited, At
    <3>. QED BY <1>2, <3>1, <3>2, <3>3, <3>4 DEF Shown, Rest, Online
  <2>11. CASE At(c, "clearAll")
    <3>1. cmd'[c].at = "kill" /\ cmd'[c].op = "stopAll"
      BY <1>1, <1>2, <2>11, SaveFlows
    <3>. QED BY <3>1 DEF Shown, Claim, At, Op, Set, Serving, AskingForProxy
  <2>12. CASE At(c, "append")
    <3>1. /\ Op(c) = "create"
          /\ cmd[c].arg => cmd'[c].at = "needProxy" /\ cmd'[c].op = "create" /\ cmd'[c].arg = cmd[c].arg
                           /\ cmd'[c].seen = cmd[c].seen
          /\ ~cmd[c].arg => cmd'[c].at = "over"
      BY <1>1, <1>2, <2>12, SaveFlows DEF At
    <3>2. ~(Online(s)') /\ Rest(s)'
      BY <1>2, <2>1, <2>12 DEF Claim, At, Online, Rest
    <3>3. config'[s] = cmd[c].seen
      BY <1>3, <2>2, <2>12, <3>1 DEF At
    <3>. QED BY <3>1, <3>2, <3>3 DEF Shown, Claim, At, Op, Set, Serving, AskingForProxy
  <2>. QED BY <1>1, <2>3, <2>4, <2>5, <2>6, <2>7, <2>8, <2>9, <2>10, <2>11, <2>12 DEF Locked, At
<1>5. \A s \in Sites : ~Busy(c, s) => config'[s] = config[s] /\ proc'[s] = proc[s]
  BY <1>2, <1>3
<1>. QED BY <1>2, <1>4, <1>5, Shows

-----------------------------------------------------------------------------
\* What is checked across sites.

\* A step to which what is checked of other sites does not matter.
LEMMA ChecksKept ==
  ASSUME XdebugInv, FolderInv, NEW c \in Commands, Kept(c), config' = config,
         \/ cmd'[c].at \notin {"apply", "append", "validate"}
         \/ cmd'[c].at = "validate" /\ cmd'[c].op # "create"
         \/ /\ cmd'[c].at = cmd[c].at /\ cmd'[c].op = cmd[c].op /\ cmd'[c].arg = cmd[c].arg
            /\ cmd'[c].site = cmd[c].site /\ cmd'[c].seen = cmd[c].seen
  PROVE  XdebugInv' /\ FolderInv'
<1>1. tainted \subseteq tainted' /\ (~broken' => ~broken)
  BY DEF Kept
<1>2. \A d \in Commands :
        \/ cmd'[d] = cmd[d]
        \/ cmd'[d].at \notin {"apply", "append", "validate"}
        \/ cmd'[d].at = "validate" /\ cmd'[d].op # "create"
        \/ /\ cmd'[d].at = cmd[d].at /\ cmd'[d].op = cmd[d].op /\ cmd'[d].arg = cmd[d].arg
           /\ cmd'[d].site = cmd[d].site /\ cmd'[d].seen = cmd[d].seen
  BY DEF Kept
<1>3. XdebugInv'
  <2>. SUFFICES ASSUME ~broken', "xdebug" \notin tainted'
                PROVE  (/\ \A s, t \in Sites : config[s].xdebug /\ config[t].xdebug => s = t
                        /\ \A d \in Commands : Op(d) = "xdebug" /\ At(d, "apply") /\ cmd[d].arg =>
                             \A t \in Sites \ {site(d)} : ~config[t].xdebug
                        /\ \A d \in Commands : Op(d) = "create" /\ cmd[d].at \in {"validate", "append"} =>
                             ~cmd[d].seen.xdebug)'
    BY DEF XdebugInv
  <2>1. ~broken /\ "xdebug" \notin tainted
    BY <1>1
  <2>. QED BY <1>2, <2>1 DEF XdebugInv, Op, At, site
<1>4. FolderInv'
  <2>. SUFFICES ASSUME ~broken', "folder" \notin tainted'
                PROVE  (/\ FoldersDiffer
                        /\ \A d \in Commands : At(d, "append") =>
                             \A t \in Sites : config[t].there => config[t].folder # cmd[d].seen.folder)'
    BY DEF FolderInv
  <2>1. ~broken /\ "folder" \notin tainted
    BY <1>1
  <2>2. FoldersDiffer'
    BY <2>1 DEF FolderInv, FoldersDiffer
  <2>3. \A d \in Commands : cmd'[d].at = "append" => cmd[d].at = "append" /\ cmd'[d].seen = cmd[d].seen
    BY <1>2
  <2>4. \A d \in Commands : At(d, "append") =>
             \A t \in Sites : config[t].there => config[t].folder # cmd[d].seen.folder
    BY <2>1 DEF FolderInv
  <2>. QED BY <2>2, <2>3, <2>4 DEF At
<1>. QED BY <1>3, <1>4

\* Validation checks that Xdebug and the folder are nobody else's.
LEMMA ValidateChecks ==
  ASSUME TypeInv, RestInv, NEW c \in Commands, Validate(c)
  PROVE  XdebugInv' /\ FolderInv'
<1>1. config' = config /\ AtWork(c) /\ At(c, "validate")
  BY DEF Validate, Reads, At, AtWork
<1>2. /\ Kept(c) /\ Op(c) \in Set \cup {"create"}
      /\ \/ cmd'[c].at = "over"
         \/ /\ cmd'[c].at = (IF Op(c) = "create" THEN "append" ELSE "apply") /\ Valid(c)
            /\ cmd'[c].op = Op(c) /\ cmd'[c].seen = cmd[c].seen
  BY ValidateSettles
<1>3. XdebugInv /\ FolderInv
  BY DEF RestInv
<1>4. CASE cmd'[c].at = "over"
  BY <1>1, <1>2, <1>3, <1>4, ChecksKept
<1>5. CASE cmd'[c].at # "over"
  <2>1. /\ Valid(c) /\ cmd'[c].op = Op(c) /\ cmd'[c].seen = cmd[c].seen
        /\ cmd'[c].at = IF Op(c) = "create" THEN "append" ELSE "apply"
        /\ cmd'[c].arg = cmd[c].arg /\ cmd'[c].site = cmd[c].site
    BY <1>2, <1>5 DEF Kept
  <2>2. tainted \subseteq tainted' /\ (~broken' => ~broken) /\ \A d \in Commands \ {c} : cmd'[d] = cmd[d]
    BY <1>2 DEF Kept
  <2>3. Op(c) = "xdebug" /\ cmd[c].arg => \A t \in Sites \ {site(c)} : ~config[t].xdebug
    BY <2>1 DEF Valid, Op
  <2>4. Op(c) = "create" => \A t \in Sites : config[t].there => config[t].folder # cmd[c].seen.folder
    BY <2>1 DEF Valid, Op
  <2>5. XdebugInv'
    <3>. SUFFICES ASSUME ~broken', "xdebug" \notin tainted'
                  PROVE  (/\ \A s, t \in Sites : config[s].xdebug /\ config[t].xdebug => s = t
                          /\ \A d \in Commands : Op(d) = "xdebug" /\ At(d, "apply") /\ cmd[d].arg =>
                               \A t \in Sites \ {site(d)} : ~config[t].xdebug
                          /\ \A d \in Commands : Op(d) = "create" /\ cmd[d].at \in {"validate", "append"} =>
                               ~cmd[d].seen.xdebug)'
      BY DEF XdebugInv
    <3>1. ~broken /\ "xdebug" \notin tainted
      BY <2>2
    <3>2. (\A s, t \in Sites : config[s].xdebug /\ config[t].xdebug => s = t)'
      BY <1>1, <1>3, <3>1 DEF XdebugInv
    <3>3. ASSUME NEW d \in Commands
          PROVE  (/\ Op(d) = "xdebug" /\ At(d, "apply") /\ cmd[d].arg =>
                       \A t \in Sites \ {site(d)} : ~config[t].xdebug
                  /\ Op(d) = "create" /\ cmd[d].at \in {"validate", "append"} => ~cmd[d].seen.xdebug)'
      <4>1. CASE d # c
        BY <1>1, <1>3, <2>2, <3>1, <4>1 DEF XdebugInv, Op, At, site
      <4>2. CASE d = c
        <5>1. Op(c) = "create" => ~cmd[c].seen.xdebug
          BY <1>1, <1>3, <3>1 DEF XdebugInv, At
        <5>. QED BY <1>1, <2>1, <2>3, <4>2, <5>1 DEF Op, At, site
      <4>. QED BY <4>1, <4>2
    <3>. QED BY <3>2, <3>3
  <2>6. FolderInv'
    <3>. SUFFICES ASSUME ~broken', "folder" \notin tainted'
                  PROVE  (/\ FoldersDiffer
                          /\ \A d \in Commands : At(d, "append") =>
                               \A t \in Sites : config[t].there => config[t].folder # cmd[d].seen.folder)'
      BY DEF FolderInv
    <3>1. ~broken /\ "folder" \notin tainted
      BY <2>2
    <3>2. FoldersDiffer'
      BY <1>1, <1>3, <3>1 DEF FolderInv, FoldersDiffer
    <3>3. ASSUME NEW d \in Commands, cmd'[d].at = "append", NEW t \in Sites, config[t].there
          PROVE  config[t].folder # cmd'[d].seen.folder
      <4>1. CASE d # c
        BY <1>3, <2>2, <3>1, <3>3, <4>1 DEF FolderInv, At
      <4>2. CASE d = c
        <5>1. Op(c) = "create"
          BY <2>1, <3>3, <4>2
        <5>. QED BY <2>1, <2>4, <3>3, <4>2, <5>1
      <4>. QED BY <4>1, <4>2
    <3>. QED BY <1>1, <3>2, <3>3 DEF At
  <2>. QED BY <2>5, <2>6
<1>. QED BY <1>4, <1>5

\* What is saved keeps Xdebug and the folders apart.
LEMMA SaveChecks ==
  ASSUME TypeInv, IInv, RestInv, NEW c \in Commands, Save(c)
  PROVE  XdebugInv' /\ FolderInv'
<1>1. /\ Kept(c) /\ UNCHANGED <<broken, tainted>>
      /\ cmd'[c].at \notin {"validate", "append", "apply"}
  <2>1. AtWork(c) /\ cmd[c].at \in Locked
    BY DEF Save, Locked, AtWork
  <2>2. Following(c) # "apply"
    BY <2>1, SaveFlows DEF Locked, At
  <2>. QED BY <2>2, SaveMoves
<1>. SUFFICES ASSUME ~broken PROVE XdebugInv' /\ FolderInv'
  BY <1>1 DEF XdebugInv, FolderInv
<1>2. /\ AtWork(c) /\ Changed(c) \subseteq {s \in Sites : Busy(c, s)}
      /\ \A s \in Sites \ Changed(c) : config'[s] = config[s]
      /\ \A s \in Changed(c) :
              /\ cmd[c].at \in {"remove", "undo"} => config'[s] = Absent
              /\ At(c, "append") => config'[s] = cmd[c].seen /\ cmd[c].seen \in Entries
              /\ cmd[c].at \notin {"remove", "undo", "append"} =>
                   config[s].there /\ Edited(c, config[s], config'[s])
  BY SaveEffect
<1>3. Op(c) \in AllOps /\ cmd[c].at \in StepsOf(Op(c)) /\ \A d \in Commands \ {c} : cmd'[d] = cmd[d]
  BY <1>1, <1>2, Working DEF Kept
<1>4. KindInv
  BY DEF RestInv
<1>5. XdebugInv'
  <2>. SUFFICES ASSUME "xdebug" \notin tainted
                PROVE  (/\ \A s, t \in Sites : config[s].xdebug /\ config[t].xdebug => s = t
                        /\ \A d \in Commands : Op(d) = "xdebug" /\ At(d, "apply") /\ cmd[d].arg =>
                             \A t \in Sites \ {site(d)} : ~config[t].xdebug
                        /\ \A d \in Commands : Op(d) = "create" /\ cmd[d].at \in {"validate", "append"} =>
                             ~cmd[d].seen.xdebug)'
    BY <1>1 DEF XdebugInv
  <2>1. /\ \A s, t \in Sites : config[s].xdebug /\ config[t].xdebug => s = t
        /\ \A d \in Commands : Op(d) = "xdebug" /\ At(d, "apply") /\ cmd[d].arg =>
             \A t \in Sites \ {site(d)} : ~config[t].xdebug
        /\ \A d \in Commands : Op(d) = "create" /\ cmd[d].at \in {"validate", "append"} => ~cmd[d].seen.xdebug
    BY DEF RestInv, XdebugInv
  <2>2. \A d \in Commands : Op(d)' = "create" /\ cmd'[d].at \in {"validate", "append"} => ~cmd'[d].seen.xdebug
    BY <1>1, <1>3, <2>1 DEF Op
  <2>3. CASE At(c, "apply") /\ Op(c) = "xdebug" /\ cmd[c].arg
    <3>1. Changed(c) = {site(c)}
      BY <2>3 DEF Changed, At
    <3>2. \A t \in Sites \ {site(c)} : config'[t] = config[t] /\ ~config[t].xdebug
      BY <1>2, <2>1, <2>3, <3>1
    <3>3. \A d \in Commands \ {c} : ~(AtWork(d) /\ Op(d) = "xdebug")
      BY <1>2, <1>4, <2>3 DEF KindInv
    <3>4. \A d \in Commands : ~(Op(d)' = "xdebug" /\ cmd'[d].at = "apply")
      BY <1>1, <1>3, <3>3 DEF Op, AtWork
    <3>5. (\A s, t \in Sites : config[s].xdebug /\ config[t].xdebug => s = t)'
      BY <3>2
    <3>. QED BY <2>2, <3>4, <3>5 DEF At, Op
  <2>4. CASE ~(At(c, "apply") /\ Op(c) = "xdebug" /\ cmd[c].arg)
    <3>1. ASSUME NEW s \in Sites, config'[s].xdebug
          PROVE  config[s].xdebug
      <4>1. CASE s \notin Changed(c)
        BY <1>2, <3>1, <4>1
      <4>2. CASE s \in Changed(c) /\ cmd[c].at \in {"remove", "undo"}
        BY <1>2, <3>1, <4>2 DEF Absent
      <4>3. CASE s \in Changed(c) /\ At(c, "append")
        <5>1. Op(c) = "create"
          BY <1>3, <4>3, WhoIsAt DEF At
        <5>. QED BY <1>2, <2>1, <3>1, <4>3, <5>1 DEF At
      <4>4. CASE s \in Changed(c) /\ cmd[c].at \notin {"remove", "undo", "append"}
        <5>1. Edited(c, config[s], config'[s])
          BY <1>2, <4>4
        <5>. QED BY <2>4, <3>1, <5>1 DEF Edited
      <4>. QED BY <4>1, <4>2, <4>3, <4>4 DEF At
    <3>2. \A d \in Commands : cmd'[d].at = "apply" => d # c /\ cmd'[d] = cmd[d]
      BY <1>1, <1>3
    <3>3. (\A s, t \in Sites : config[s].xdebug /\ config[t].xdebug => s = t)'
      BY <2>1, <3>1
    <3>4. (\A d \in Commands : Op(d) = "xdebug" /\ At(d, "apply") /\ cmd[d].arg =>
             \A t \in Sites \ {site(d)} : ~config[t].xdebug)'
      BY <2>1, <3>1, <3>2 DEF Op, At, site
    <3>. QED BY <2>2, <3>3, <3>4 DEF Op
  <2>. QED BY <2>3, <2>4
<1>6. FolderInv'
  <2>. SUFFICES ASSUME "folder" \notin tainted
                PROVE  (/\ FoldersDiffer
                        /\ \A d \in Commands : At(d, "append") =>
                             \A t \in Sites : config[t].there => config[t].folder # cmd[d].seen.folder)'
    BY <1>1 DEF FolderInv
  <2>1. /\ FoldersDiffer
        /\ \A d \in Commands : At(d, "append") =>
             \A t \in Sites : config[t].there => config[t].folder # cmd[d].seen.folder
    BY DEF RestInv, FolderInv
  <2>2. \A d \in Commands : cmd'[d].at = "append" => d # c /\ cmd'[d] = cmd[d]
    BY <1>1, <1>3
  <2>3. CASE At(c, "append")
    <3>1. Changed(c) = {site(c)} /\ Op(c) = "create"
      BY <1>3, <2>3, WhoIsAt DEF Changed, At
    <3>2. \A t \in Sites \ {site(c)} : config'[t] = config[t]
      BY <1>2, <3>1
    <3>3. config'[site(c)] = cmd[c].seen
      BY <1>2, <2>3, <3>1
    <3>4. FoldersDiffer'
      BY <2>1, <2>3, <3>2, <3>3 DEF FoldersDiffer
    <3>5. \A d \in Commands \ {c} : ~At(d, "append")
      <4>. SUFFICES ASSUME NEW d \in Commands, d # c, At(d, "append") PROVE FALSE
        OBVIOUS
      <4>1. AtWork(d)
        BY DEF At, AtWork
      <4>2. Op(d) = "create"
        BY <4>1, Working, WhoIsAt DEF At
      <4>. QED BY <1>2, <1>4, <3>1, <4>1, <4>2 DEF KindInv
    <3>. QED BY <2>2, <3>4, <3>5 DEF At
  <2>4. CASE ~At(c, "append")
    <3>1. ASSUME NEW s \in Sites, config'[s].there
          PROVE  config[s].there /\ config'[s].folder = config[s].folder
      <4>1. CASE s \notin Changed(c)
        BY <1>2, <3>1, <4>1
      <4>2. CASE s \in Changed(c) /\ cmd[c].at \in {"remove", "undo"}
        BY <1>2, <3>1, <4>2 DEF Absent
      <4>3. CASE s \in Changed(c) /\ cmd[c].at \notin {"remove", "undo"}
        BY <1>2, <2>4, <4>3 DEF Edited, At
      <4>. QED BY <4>1, <4>2, <4>3
    <3>2. FoldersDiffer'
      BY <2>1, <3>1 DEF FoldersDiffer
    <3>. QED BY <2>1, <2>2, <3>1, <3>2 DEF At
  <2>. QED BY <2>3, <2>4
<1>. QED BY <1>5, <1>6

\* An id that no site has had is not brought to life by a step of a command that
\* does not work on it.
LEMMA UnusedKept ==
  ASSUME TypeInv, UnusedInv, NEW c \in Commands, Kept(c), unused' = unused,
         ~broken' => \A s \in unused : ~config[s].there /\ ~Online(s) => ~config'[s].there /\ proc'[s] = NoPid,
         ~broken' /\ At(c, "load") /\ site(c) \in unused => cmd'[c].at = "over"
  PROVE  UnusedInv'
<1>. SUFFICES ASSUME ~broken', NEW s \in unused
              PROVE  /\ ~config'[s].there /\ proc'[s] = NoPid
                     /\ \A d \in Commands : AtWork(d)' /\ site(d)' = s => Op(d)' = "stopAll" \/ cmd'[d].at = "load"
  BY DEF UnusedInv, Online, At, Op, site
<1>1. ~broken
  BY DEF Kept
<1>2. /\ ~config[s].there /\ ~Online(s)
      /\ \A d \in Commands : AtWork(d) /\ site(d) = s => Op(d) = "stopAll" \/ At(d, "load")
  BY <1>1 DEF UnusedInv
<1>3. ASSUME NEW d \in Commands, AtWork(d)', site(d)' = s
      PROVE  Op(d)' = "stopAll" \/ cmd'[d].at = "load"
  <2>1. AtWork(d) /\ Op(d)' = Op(d) /\ site(d) = s
    BY <1>3, KeptWork
  <2>2. Op(d) = "stopAll" \/ At(d, "load")
    BY <1>2, <2>1
  <2>3. CASE d = c
    BY <1>3, <2>1, <2>2, <2>3 DEF AtWork
  <2>4. CASE d # c
    BY <2>1, <2>2, <2>4 DEF Kept, At
  <2>. QED BY <2>3, <2>4
<1>. QED BY <1>2, <1>3

\* No step but the loading of an entry changes what is unused.
LEMMA SaveUnused ==
  ASSUME TypeInv, IInv, RestInv, NEW c \in Commands, Save(c)
  PROVE  UnusedInv'
<1>1. /\ Kept(c) /\ UNCHANGED <<proc, broken, unused>>
  BY SaveMoves
<1>2. ASSUME ~broken, NEW s \in unused, ~config[s].there
      PROVE  ~config'[s].there
  <2>1. /\ AtWork(c) /\ Changed(c) \subseteq {t \in Sites : Busy(c, t)}
        /\ \A t \in Sites \ Changed(c) : config'[t] = config[t]
        /\ \A t \in Changed(c) :
              /\ cmd[c].at \in {"remove", "undo"} => config'[t] = Absent
              /\ cmd[c].at \notin {"remove", "undo", "append"} => config[t].there
    BY <1>2, SaveEffect
  <2>2. s \in Sites
    BY DEF TypeInv
  <2>3. CASE At(c, "append")
    <3>1. Op(c) = "create" /\ Changed(c) = {site(c)}
      BY <2>1, <2>3, Working, WhoIsAt DEF At, Changed
    <3>2. site(c) # s
      BY <1>2, <2>1, <2>3, <3>1 DEF RestInv, UnusedInv, At
    <3>. QED BY <1>2, <2>1, <2>2, <3>1, <3>2
  <2>. QED BY <1>2, <2>1, <2>2, <2>3 DEF Absent, At
<1>3. cmd[c].at # "load"
  BY DEF Save, Locked
<1>. QED BY <1>1, <1>2, <1>3, UnusedKept DEF RestInv, Online, At

\* A start works on a site that has an entry.
LEMMA BootUnused ==
  ASSUME TypeInv, RestInv, NEW c \in Commands, Boot(c)
  PROVE  UnusedInv'
<1>1. At(c, "boot") /\ AtWork(c) /\ UNCHANGED <<config, unused, broken>>
  BY DEF Boot, Asks, At, AtWork
<1>2. /\ Kept(c) /\ Op(c) \in Starters /\ site(c) \in Sites
      /\ \A s \in Sites \ {site(c)} : proc'[s] = proc[s]
  BY BootSettles
<1>3. ~broken => site(c) \notin unused
  BY <1>1, <1>2 DEF RestInv, UnusedInv, At, Starters
<1>4. unused \subseteq Sites /\ UnusedInv
  BY DEF TypeInv, RestInv
<1>5. ~broken' => \A s \in unused : ~config[s].there /\ ~Online(s) => ~config'[s].there /\ proc'[s] = NoPid
  BY <1>1, <1>2, <1>3, <1>4 DEF Online
<1>. QED BY <1>1, <1>2, <1>4, <1>5, UnusedKept DEF At

\* The steps that neither change the file nor start a process.
LEMMA OtherUnused ==
  ASSUME TypeInv, RestInv, NEW c \in Commands, Kept(c), unused' = unused, config' = config,
         \A s \in Sites : proc'[s] \in {proc[s], NoPid}, At(c, "load") => Load(c) \/ cmd'[c].at = "over"
  PROVE  UnusedInv'
<1>1. unused \subseteq Sites /\ UnusedInv
  BY DEF TypeInv, RestInv
<1>2. ASSUME ~broken', At(c, "load"), site(c) \in unused
      PROVE  cmd'[c].at = "over"
  <2>1. ~broken /\ AtWork(c)
    BY <1>2 DEF Kept
  <2>2. ~config[site(c)].there
    BY <1>1, <1>2, <2>1 DEF UnusedInv
  <2>3. Load(c) => Go(c, "over") /\ tainted' = tainted /\ broken' = broken
    BY <2>2 DEF Load, Reads
  <2>. QED BY <1>2, <2>1, <2>3, GoMoves
<1>3. ~broken' => \A s \in unused : ~config[s].there /\ ~Online(s) => ~config'[s].there /\ proc'[s] = NoPid
  BY <1>1 DEF Online
<1>. QED BY <1>1, <1>2, <1>3, UnusedKept
-----------------------------------------------------------------------------
(* The proxy. *)

\* What a step has to show of the proxy's users, when it leaves the proxy as it is,
\* starts no process and changes no domain.
ProxyShown(c) ==
  ~broken' /\ "proxy" \notin tainted' => \A s \in Sites \ tainted' :
    /\ Busy(c, s) /\ Op(c) = "domain" /\ cmd[c].at \in {"check", "halt"} /\ Online(s)' =>
         cmd'[c].at \in {"check", "halt"}
    /\ Busy(c, s) /\ cmd'[c].at = "boot" /\ config[s].domain => proxy
    /\ site(c) # s /\ Online(s) /\ config[s].domain =>
         /\ cmd'[c].at # "stopProxy"
         /\ cmd'[c].at = "proxyUsers" => s \in cmd'[c].todo \cup cmd'[c].found

\* A step with this to show keeps what is said of the proxy.
LEMMA ProxyKept ==
  ASSUME TypeInv, RestInv, NEW c \in Commands, Kept(c), ProxyShown(c), proxy' = proxy,
         \A s \in Sites : (Online(s)' => Online(s)) /\ config'[s].domain = config[s].domain
  PROVE  ProxyInv'
<1>1. /\ AtWork(c) /\ \A d \in Commands \ {c} : cmd'[d] = cmd[d]
      /\ cmd'[c].at \notin {"over", "idle"} =>
           cmd'[c].op = cmd[c].op /\ cmd'[c].site = cmd[c].site
      /\ tainted \subseteq tainted' /\ (~broken' => ~broken)
  BY DEF Kept
<1>. SUFFICES ASSUME ~broken', "proxy" \notin tainted', NEW s \in Sites, s \notin tainted'
              PROVE  (/\ Online(s) /\ config[s].domain =>
                           \/ proxy
                           \/ \E d \in Commands : Busy(d, s) /\ Op(d) = "domain" /\ cmd[d].at \in {"check", "halt"}
                      /\ \A d \in Commands : Busy(d, s) /\ At(d, "boot") => (config[s].domain => proxy)
                      /\ \A d \in Commands : AtWork(d) /\ site(d) # s /\ Online(s) /\ config[s].domain =>
                           /\ ~At(d, "stopProxy")
                           /\ At(d, "proxyUsers") => s \in cmd[d].todo \cup cmd[d].found)'
  BY DEF ProxyInv
<1>2. /\ Online(s) /\ config[s].domain =>
           \/ proxy
           \/ \E d \in Commands : Busy(d, s) /\ Op(d) = "domain" /\ cmd[d].at \in {"check", "halt"}
      /\ \A d \in Commands : Busy(d, s) /\ At(d, "boot") => (config[s].domain => proxy)
      /\ \A d \in Commands : AtWork(d) /\ site(d) # s /\ Online(s) /\ config[s].domain =>
           /\ ~At(d, "stopProxy")
           /\ At(d, "proxyUsers") => s \in cmd[d].todo \cup cmd[d].found
  BY <1>1 DEF RestInv, ProxyInv
<1>3. /\ Busy(c, s) /\ Op(c) = "domain" /\ cmd[c].at \in {"check", "halt"} /\ Online(s)' =>
           cmd'[c].at \in {"check", "halt"}
      /\ Busy(c, s) /\ cmd'[c].at = "boot" /\ config[s].domain => proxy
      /\ site(c) # s /\ Online(s) /\ config[s].domain =>
           /\ cmd'[c].at # "stopProxy"
           /\ cmd'[c].at = "proxyUsers" => s \in cmd'[c].todo \cup cmd'[c].found
  BY DEF ProxyShown
<1>4. Busy(c, s)' => Busy(c, s)
  BY KeptBusy
<1>5. \A d \in Commands \ {c} : (Busy(d, s)' <=> Busy(d, s)) /\ (AtWork(d)' <=> AtWork(d))
  BY <1>1 DEF Busy, AtWork, Op, site
<1>6. ASSUME Online(s)', config'[s].domain
      PROVE  \/ proxy'
             \/ (\E d \in Commands : Busy(d, s) /\ Op(d) = "domain" /\ cmd[d].at \in {"check", "halt"})'
  <2>1. \/ proxy
        \/ \E d \in Commands : Busy(d, s) /\ Op(d) = "domain" /\ cmd[d].at \in {"check", "halt"}
    BY <1>2, <1>6
  <2>2. CASE proxy
    BY <2>2
  <2>3. CASE \E d \in Commands : Busy(d, s) /\ Op(d) = "domain" /\ cmd[d].at \in {"check", "halt"}
    <3>1. PICK d \in Commands : Busy(d, s) /\ Op(d) = "domain" /\ cmd[d].at \in {"check", "halt"}
      BY <2>3
    <3>2. CASE d # c
      BY <1>1, <1>5, <3>1, <3>2 DEF Op
    <3>3. CASE d = c
      <4>1. cmd'[c].at \in {"check", "halt"}
        BY <1>3, <1>6, <3>1, <3>3
      <4>2. cmd'[c].op = cmd[c].op /\ cmd'[c].site = cmd[c].site
        BY <1>1, <4>1
      <4>3. Busy(c, s)'
        BY <3>1, <3>3, <4>1, <4>2 DEF Busy, AtWork, Op, site, Touched
      <4>. QED BY <3>1, <3>3, <4>1, <4>2, <4>3 DEF Op
    <3>. QED BY <3>2, <3>3
  <2>. QED BY <2>1, <2>2, <2>3
<1>7. ASSUME NEW d \in Commands, Busy(d, s)', cmd'[d].at = "boot", config'[s].domain
      PROVE  proxy'
  <2>1. CASE d # c
    BY <1>1, <1>2, <1>5, <1>7, <2>1 DEF At
  <2>2. CASE d = c
    BY <1>3, <1>4, <1>7, <2>2
  <2>. QED BY <2>1, <2>2
<1>8. ASSUME NEW d \in Commands, AtWork(d)', site(d)' # s, Online(s)', config'[s].domain
      PROVE  /\ cmd'[d].at # "stopProxy"
             /\ cmd'[d].at = "proxyUsers" => s \in cmd'[d].todo \cup cmd'[d].found
  <2>1. CASE d # c
    BY <1>1, <1>2, <1>5, <1>8, <2>1 DEF At, site
  <2>2. CASE d = c
    <3>1. site(c) # s
      BY <1>1, <1>8, <2>2 DEF AtWork, site
    <3>. QED BY <1>3, <1>8, <2>2, <3>1
  <2>. QED BY <2>1, <2>2
<1>. QED BY <1>6, <1>7, <1>8 DEF At

\* Steps far from the proxy.
LEMMA QuietShown ==
  ASSUME NEW c \in Commands, cmd'[c].at \notin {"boot", "stopProxy", "proxyUsers"},
         \A s \in Sites \ tainted' :
           Busy(c, s) /\ Op(c) = "domain" /\ cmd[c].at \in {"check", "halt"} /\ Online(s)' =>
             cmd'[c].at \in {"check", "halt"}
  PROVE  ProxyShown(c)
BY DEF ProxyShown

-----------------------------------------------------------------------------
\* The invariant, action by action.

\* A step that changes neither the file nor the proxy, and starts no process.
LEMMA PlainStep ==
  ASSUME TypeInv, RestInv, NEW c \in Commands, Kept(c), Settles(c), UNCHANGED <<config, proxy, unused>>,
         \A s \in Sites : proc'[s] \in {proc[s], NoPid},
         At(c, "load") => Load(c) \/ cmd'[c].at = "over",
         XdebugInv' /\ FolderInv', ProxyShown(c)
  PROVE  RestInv'
<1>1. AloneInv' /\ KindInv' /\ SiteInv'
  BY SettleStep
<1>2. UnusedInv'
  BY OtherUnused
<1>3. \A s \in Sites : (Online(s)' => Online(s)) /\ config'[s].domain = config[s].domain
  BY DEF Online
<1>4. ProxyInv'
  BY <1>3, ProxyKept
<1>. QED BY <1>1, <1>2, <1>4 DEF RestInv

\* A step that only reads, or only changes what its command knows.
LEMMA QuietStep ==
  ASSUME TypeInv, RestInv, NEW c \in Commands, Kept(c), Settles(c), UNCHANGED <<config, proc, proxy, unused>>,
         At(c, "load") => Load(c) \/ cmd'[c].at = "over", ProxyShown(c),
         \/ cmd'[c].at \notin {"apply", "append", "validate"}
         \/ cmd'[c].at = "validate" /\ cmd'[c].op # "create"
         \/ /\ cmd'[c].at = cmd[c].at /\ cmd'[c].op = cmd[c].op /\ cmd'[c].arg = cmd[c].arg
            /\ cmd'[c].site = cmd[c].site /\ cmd'[c].seen = cmd[c].seen
  PROVE  RestInv'
<1>1. XdebugInv /\ FolderInv
  BY DEF RestInv
<1>2. XdebugInv' /\ FolderInv'
  BY <1>1, ChecksKept
<1>. QED BY <1>2, PlainStep

\* One lemma for each action: RestInv, after it has been settled for the own sites.
\* Loading an entry:
LEMMA LoadRest == ASSUME TypeInv, RestInv, NEW c \in Commands, Load(c) PROVE RestInv'
<1>1. At(c, "load") /\ UNCHANGED <<config, proc, proxy, unused>>
  BY DEF Load, Reads, world
<1>2. /\ Kept(c) /\ Settles(c)
      /\ cmd'[c].at \in {"check", "setAuto", "validate", "over"}
      /\ cmd'[c].at = "validate" => cmd'[c].op # "create"
  BY LoadSettles
<1>3. ProxyShown(c)
  BY <1>1, <1>2, QuietShown DEF At
<1>. QED BY <1>1, <1>2, <1>3, QuietStep

\* Validation.
LEMMA ValidateRest ==
  ASSUME TypeInv, RestInv, NEW c \in Commands, Validate(c)
  PROVE  RestInv'
<1>1. At(c, "validate") /\ UNCHANGED <<config, proc, proxy, unused>>
  BY DEF Validate, Reads, world
<1>2. Kept(c) /\ Settles(c) /\ cmd'[c].at \in {"over", "apply", "append"}
  BY ValidateSettles
<1>3. ProxyShown(c)
  BY <1>1, <1>2, QuietShown DEF At
<1>. QED BY <1>1, <1>2, <1>3, ValidateChecks, PlainStep DEF At

\* The check whether the site runs.
LEMMA CheckRest == ASSUME TypeInv, RestInv, NEW c \in Commands, Check(c) PROVE RestInv'
<1>1. At(c, "check") /\ UNCHANGED <<config, proc, proxy, unused>>
  BY DEF Check, Reads, world
<1>2. /\ Kept(c) /\ Settles(c)
      /\ cmd'[c].at \in {"setPidAndEnd", "halt", "needProxy", "remove", "over"}
      /\ Op(c) = "domain" /\ Online(site(c)) => cmd'[c].at = "halt"
  BY CheckSettles
<1>3. ProxyShown(c)
  <2>1. \A s : Busy(c, s) /\ Op(c) = "domain" => s = site(c)
    BY DEF Busy, Touched
  <2>2. \A s : Online(s)' => Online(s)
    BY <1>1 DEF Online
  <2>. QED BY <1>2, <2>1, <2>2, QuietShown
<1>. QED BY <1>1, <1>2, <1>3, QuietStep DEF At

\* The question whether a custom domain asks for the proxy.
LEMMA ProxyNeedRest ==
  ASSUME TypeInv, RestInv, NEW c \in Commands, NeedProxy(c)
  PROVE  RestInv'
<1>1. At(c, "needProxy") /\ AtWork(c) /\ UNCHANGED <<config, proc, proxy, unused>>
  BY DEF NeedProxy, Reads, world, At, AtWork
<1>2. /\ Kept(c) /\ Settles(c) /\ Op(c) \in Starters
      /\ cmd'[c].at = "startProxy" \/ (cmd'[c].at = "boot" /\ (cmd[c].seen.domain => proxy))
  BY NeedProxySettles
<1>3. ProxyShown(c)
  <2>. SUFFICES ASSUME ~broken', "proxy" \notin tainted', NEW s \in Sites, s \notin tainted'
                PROVE  /\ Busy(c, s) /\ cmd'[c].at = "boot" /\ config[s].domain => proxy
    BY <1>1, <1>2 DEF ProxyShown, At
  <2>. SUFFICES ASSUME Busy(c, s), cmd'[c].at = "boot", config[s].domain PROVE proxy
    OBVIOUS
  <2>1. Claim(c, s)
    BY <1>2, Claims DEF Kept
  <2>2. cmd[c].seen.domain = config[s].domain
    BY <1>1, <1>2, <2>1 DEF Claim, At, Starters, Set
  <2>. QED BY <1>2, <2>2
<1>. QED BY <1>1, <1>2, <1>3, QuietStep DEF At

\* The lookups of a command that asks whether the proxy is needed.
LEMMA ProxyAskedRest ==
  ASSUME TypeInv, RestInv, NEW c \in Commands,
         ProxyOn(c) \/ ProxySites(c) \/ (LookedUp(c) /\ At(c, "proxyUsers"))
  PROVE  RestInv'
<1>1. /\ cmd[c].at \in AskingForProxy /\ AtWork(c) /\ UNCHANGED <<config, proc, proxy, unused>>
  BY DEF ProxyOn, ProxySites, LookedUp, Reads, world, At, AtWork, AskingForProxy
<1>2. /\ Kept(c) /\ Settles(c)
      /\ \/ cmd'[c].at \in {"proxySites", "over", "remove"}
         \/ cmd'[c].at = "stopProxy" /\ cmd[c].at = "proxyUsers" /\ cmd[c].todo = {} /\ cmd[c].found = {}
         \/ cmd'[c].at = "proxyUsers" /\ cmd'[c].todo = Users(c)
  BY ProxyReadsSettle
<1>3. ProxyShown(c)
  <2>. SUFFICES ASSUME ~broken', "proxy" \notin tainted', NEW s \in Sites, s \notin tainted',
                       site(c) # s, Online(s), config[s].domain
                PROVE  /\ cmd'[c].at # "stopProxy"
                       /\ cmd'[c].at = "proxyUsers" => s \in cmd'[c].todo \cup cmd'[c].found
    BY <1>1, <1>2 DEF ProxyShown, AskingForProxy
  <2>1. cmd[c].at = "proxyUsers" => s \in cmd[c].todo \cup cmd[c].found
    BY <1>1, <1>2 DEF RestInv, ProxyInv, Kept, At
  <2>2. cmd'[c].at # "stopProxy"
    BY <1>2, <2>1
  <2>3. s \in Users(c)
    <3>1. config[s] \in Entries \cup {Absent}
      BY DEF TypeInv, Configs
    <3>2. config[s] # Absent
      BY DEF Absent
    <3>3. \A e \in Entries : e.there
      BY DEF Entries
    <3>. QED BY <3>1, <3>2, <3>3 DEF Users
  <2>. QED BY <1>2, <2>2, <2>3
<1>. QED BY <1>1, <1>2, <1>3, QuietStep DEF At, AskingForProxy

\* The list of stop --all.
LEMMA ListRest ==
  ASSUME TypeInv, RestInv, NEW c \in Commands, List(c) \/ (LookedUp(c) /\ At(c, "lookUp"))
  PROVE  RestInv'
<1>1. /\ cmd[c].at \in {"list", "lookUp"} /\ UNCHANGED <<config, proc, proxy, unused>>
  BY DEF List, LookedUp, Reads, world, At
<1>2. Kept(c) /\ Settles(c) /\ cmd'[c].at \in {"lookUp", "clearAll", "kill"}
  BY ListSettles, LookedUpSettles
<1>3. ProxyShown(c)
  BY <1>1, <1>2, QuietShown
<1>. QED BY <1>1, <1>2, <1>3, QuietStep DEF At

\* A lookup in the list of processes.
LEMMA LookUpRest ==
  ASSUME TypeInv, RestInv, NEW c \in Commands, NEW t \in Sites, LookUp(c, t)
  PROVE  RestInv'
<1>1. UNCHANGED <<config, proc, proxy, unused>>
  BY DEF LookUp, Reads, world
<1>2. /\ Kept(c) /\ Settles(c) /\ cmd'[c].at = cmd[c].at /\ cmd[c].at \in {"proxyUsers", "lookUp"}
      /\ cmd'[c].todo = cmd[c].todo \ {t}
      /\ cmd'[c].found = IF Online(t) THEN cmd[c].found \cup {t} ELSE cmd[c].found
  BY LookUpSettles
<1>3. ProxyShown(c)
  <2>. SUFFICES ASSUME ~broken', "proxy" \notin tainted', NEW s \in Sites, s \notin tainted',
                       site(c) # s, Online(s), config[s].domain, cmd'[c].at = "proxyUsers"
                PROVE  s \in cmd'[c].todo \cup cmd'[c].found
    BY <1>2 DEF ProxyShown
  <2>1. s \in cmd[c].todo \cup cmd[c].found
    BY <1>2 DEF RestInv, ProxyInv, Kept, At
  <2>. QED BY <1>2, <2>1
<1>. QED BY <1>1, <1>2, <1>3, QuietStep DEF At

\* Taking the lock, and reading the file.
LEMMA StayRest ==
  ASSUME TypeInv, RestInv, NEW c \in Commands,
         Lock(c) \/ (Read(c) /\ (cmd[c].at \in Unasked \/ config[site(c)].there))
  PROVE  RestInv'
<1>1. UNCHANGED <<config, proc, proxy, unused>>
  BY DEF Lock, Read, world
<1>2. /\ Kept(c) /\ Settles(c) /\ cmd[c].at \in Locked
      /\ cmd'[c].at = cmd[c].at /\ cmd'[c].op = cmd[c].op /\ cmd'[c].arg = cmd[c].arg
      /\ cmd'[c].site = cmd[c].site /\ cmd'[c].seen = cmd[c].seen
  BY StaySettles
<1>3. cmd[c].at \notin {"boot", "stopProxy", "proxyUsers", "check", "halt", "load"}
  BY <1>2 DEF Locked
<1>4. ProxyShown(c)
  BY <1>2, <1>3, QuietShown
<1>. QED BY <1>1, <1>2, <1>3, <1>4, QuietStep DEF At

\* A command gives up.
LEMMA GiveUpRest ==
  ASSUME TypeInv, RestInv, NEW c \in Commands,
         \/ LockTimeout(c) \/ RequestFails(c) \/ Interrupt(c)
         \/ (Read(c) /\ ~(cmd[c].at \in Unasked \/ config[site(c)].there))
  PROVE  RestInv'
<1>1. UNCHANGED <<config, proc, proxy, unused>>
  BY DEF LockTimeout, RequestFails, Interrupt, Read, Asks, world
<1>2. /\ Kept(c) /\ Settles(c) /\ cmd'[c].at \in {"over", "undo"}
      /\ Touched(Op(c), site(c)) \subseteq tainted' /\ (At(c, "load") => cmd'[c].at = "over")
  BY GiveUpSettles
<1>3. ProxyShown(c)
  BY <1>2, QuietShown DEF Busy
<1>. QED BY <1>1, <1>2, <1>3, QuietStep

\* list-processes fails.
LEMMA ListFailsRest ==
  ASSUME TypeInv, RestInv, NEW c \in Commands, ListFails(c)
  PROVE  RestInv'
<1>1. UNCHANGED <<config, proc, proxy, unused>>
  BY DEF ListFails, Reads, world
<1>2. /\ Kept(c) /\ Settles(c) /\ "proxy" \in tainted' /\ ~At(c, "load")
      /\ cmd'[c].at \notin {"apply", "append", "validate"}
  BY ListFailsSettles
<1>3. ProxyShown(c)
  BY <1>2 DEF ProxyShown
<1>. QED BY <1>1, <1>2, <1>3, QuietStep

\* The site's process answers the start.
LEMMA ServeRest == ASSUME TypeInv, RestInv, NEW c \in Commands, Serve(c) PROVE RestInv'
<1>1. At(c, "serve") /\ UNCHANGED <<config, proc, proxy, unused>>
  BY DEF Serve, Asks, world
<1>2. Kept(c) /\ Settles(c) /\ cmd'[c].at = "setPid"
  BY ServeSettles
<1>3. ProxyShown(c)
  BY <1>1, <1>2, QuietShown DEF At
<1>. QED BY <1>1, <1>2, <1>3, QuietStep DEF At

\* A site that is halted needs no proxy.
LEMMA HaltRest == ASSUME TypeInv, RestInv, NEW c \in Commands, Halt(c) PROVE RestInv'
<1>1. At(c, "halt") /\ AtWork(c) /\ UNCHANGED <<config, proxy, unused>>
  BY DEF Halt, Asks, At, AtWork
<1>2. /\ Kept(c) /\ Settles(c) /\ cmd'[c].at \in {"clearPid", "proxyOn", "needProxy"}
      /\ \A s \in Sites : proc'[s] \in {proc[s], NoPid}
  BY HaltSettles
<1>3. ProxyShown(c)
  <2>1. site(c) \in Sites
    BY <1>1, Working
  <2>3. \A s : Busy(c, s) /\ Op(c) = "domain" => s = site(c)
    BY DEF Busy, Touched
  <2>4. \A s \in Sites : Busy(c, s) /\ Op(c) = "domain" => ~(Online(s)')
    <3>. SUFFICES ASSUME NEW s \in Sites, Busy(c, s), Op(c) = "domain" PROVE proc'[s] = NoPid
      BY DEF Online
    <3>1. proc'[site(c)] = NoPid
      BY <2>1 DEF Halt, TypeInv
    <3>. QED BY <2>3, <3>1
  <2>. QED BY <1>2, <2>4, QuietShown
<1>4. XdebugInv /\ FolderInv
  BY DEF RestInv
<1>5. XdebugInv' /\ FolderInv'
  BY <1>1, <1>2, <1>4, ChecksKept
<1>. QED BY <1>1, <1>2, <1>3, <1>5, PlainStep DEF At

\* Starting the proxy serves everybody.
LEMMA StartProxyRest ==
  ASSUME TypeInv, RestInv, NEW c \in Commands, StartProxy(c)
  PROVE  RestInv'
<1>1. At(c, "startProxy") /\ UNCHANGED <<config, proc, unused, broken, tainted>> /\ proxy' = TRUE
  BY DEF StartProxy, Asks
<1>2. Kept(c) /\ Settles(c) /\ Op(c) \in Starters /\ cmd'[c].at = "boot"
  BY StartProxySettles
<1>3. AloneInv' /\ KindInv' /\ SiteInv'
  BY <1>2, SettleStep
<1>4. UnusedInv'
  BY <1>1, <1>2, OtherUnused DEF At
<1>5. XdebugInv' /\ FolderInv'
  BY <1>1, <1>2, ChecksKept DEF RestInv
<1>6. ProxyInv'
  <2>. SUFFICES ASSUME ~broken', "proxy" \notin tainted', NEW s \in Sites, s \notin tainted'
                PROVE  (\A d \in Commands : AtWork(d) /\ site(d) # s /\ Online(s) /\ config[s].domain =>
                           /\ ~At(d, "stopProxy")
                           /\ At(d, "proxyUsers") => s \in cmd[d].todo \cup cmd[d].found)'
    BY <1>1 DEF ProxyInv
  <2>1. \A d \in Commands : AtWork(d) /\ site(d) # s /\ Online(s) /\ config[s].domain =>
                           /\ ~At(d, "stopProxy")
                           /\ At(d, "proxyUsers") => s \in cmd[d].todo \cup cmd[d].found
    BY <1>1 DEF RestInv, ProxyInv
  <2>2. \A d \in Commands \ {c} : cmd'[d] = cmd[d]
    BY <1>2 DEF Kept
  <2>. QED BY <1>1, <1>2, <2>1, <2>2 DEF AtWork, At, site, Online
<1>. QED BY <1>3, <1>4, <1>5, <1>6 DEF RestInv

\* Nobody is at work who starts a site while the proxy is stopped.
LEMMA NoStarter ==
  ASSUME RestInv, NEW c \in Commands, Kept(c), Op(c) \in Stoppers, TypeInv,
         cmd'[c].at # "boot", "proxy" \notin tainted', NEW d \in Commands
  PROVE  ~(AtWork(d)' /\ cmd'[d].at = "boot")
<1>1. "proxy" \notin tainted /\ AtWork(c) /\ (d # c => cmd'[d] = cmd[d])
  BY DEF Kept
<1>. SUFFICES ASSUME d # c, AtWork(d), cmd[d].at = "boot" PROVE FALSE
  BY <1>1 DEF AtWork
<1>2. Op(d) \in Starters
  BY Working, WhoIsAt DEF Serving
<1>. QED BY <1>1, <1>2 DEF RestInv, KindInv

\* The proxy is stopped when no online site has a custom domain.
LEMMA StopProxyRest ==
  ASSUME TypeInv, RestInv, NEW c \in Commands, StopProxy(c)
  PROVE  RestInv'
<1>1. /\ At(c, "stopProxy") /\ AtWork(c) /\ UNCHANGED <<config, proc, unused, broken, tainted>>
      /\ proxy' = FALSE
  BY DEF StopProxy, Asks, At, AtWork
<1>2. Kept(c) /\ Settles(c) /\ Op(c) \in {"stop", "delete"} /\ cmd'[c].at \in {"over", "remove"}
  BY StopProxySettles
<1>3. AloneInv' /\ KindInv' /\ SiteInv'
  BY <1>2, SettleStep
<1>4. UnusedInv'
  BY <1>1, <1>2, OtherUnused DEF At
<1>5. XdebugInv' /\ FolderInv'
  BY <1>1, <1>2, ChecksKept DEF RestInv
<1>6. ProxyInv'
  <2>. SUFFICES ASSUME ~broken', "proxy" \notin tainted', NEW s \in Sites, s \notin tainted'
                PROVE  (/\ ~(Online(s) /\ config[s].domain)
                        /\ \A d \in Commands : ~(Busy(d, s) /\ At(d, "boot")))'
    BY DEF ProxyInv
  <2>1. ~(Online(s) /\ config[s].domain)
    <3>1. CASE site(c) # s
      BY <1>1, <3>1 DEF RestInv, ProxyInv
    <3>2. CASE site(c) = s
      <4>1. Busy(c, s)
        BY <1>1, <3>2, Touches DEF Busy
      <4>2. Claim(c, s)
        BY <1>1, <4>1, Claims
      <4>. QED BY <1>1, <4>2 DEF Claim, At, AskingForProxy
    <3>. QED BY <3>1, <3>2
  <2>2. \A d \in Commands : ~(AtWork(d)' /\ cmd'[d].at = "boot")
    BY <1>2, NoStarter DEF Stoppers
  <2>. QED BY <1>1, <2>1, <2>2 DEF Online, Busy, At, AtWork
<1>. QED BY <1>3, <1>4, <1>5, <1>6 DEF RestInv

\* stop --all stops the sites it found.
LEMMA KillRest == ASSUME TypeInv, RestInv, NEW c \in Commands, Kill(c) PROVE RestInv'
<1>1. At(c, "kill") /\ UNCHANGED <<config, unused, broken, tainted>> /\ proxy' = FALSE
  BY DEF Kill, Asks
<1>2. /\ Kept(c) /\ Settles(c) /\ Op(c) = "stopAll" /\ cmd'[c].at = "over"
      /\ \A s \in Sites : proc'[s] = NoPid
  BY KillSettles
<1>3. AloneInv' /\ KindInv' /\ SiteInv'
  BY <1>2, SettleStep
<1>4. UnusedInv'
  BY <1>1, <1>2, OtherUnused DEF At
<1>5. XdebugInv' /\ FolderInv'
  BY <1>1, <1>2, ChecksKept DEF RestInv
<1>6. ProxyInv'
  <2>. SUFFICES ASSUME ~broken', "proxy" \notin tainted', NEW s \in Sites, s \notin tainted'
                PROVE  (/\ ~Online(s)
                        /\ \A d \in Commands : ~(Busy(d, s) /\ At(d, "boot")))'
    BY DEF ProxyInv
  <2>1. ~(Online(s)')
    BY <1>2 DEF Online
  <2>2. \A d \in Commands : ~(AtWork(d)' /\ cmd'[d].at = "boot")
    BY <1>2, NoStarter DEF Stoppers
  <2>. QED BY <2>1, <2>2 DEF Busy, At, AtWork
<1>. QED BY <1>3, <1>4, <1>5, <1>6 DEF RestInv

\* Commands that look for the proxy's users are not at work while a site is started.
LEMMA NobodyAsks ==
  ASSUME TypeInv, RestInv, NEW c \in Commands, AtWork(c), Op(c) \in Starters, "proxy" \notin tainted,
         NEW d \in Commands, AtWork(d)
  PROVE  cmd[d].at \notin AskingForProxy
<1>. SUFFICES ASSUME cmd[d].at \in AskingForProxy PROVE FALSE
  OBVIOUS
<1>1. Op(d) \in {"stop", "delete"}
  BY Working, WhoIsAt
<1>. QED BY <1>1 DEF RestInv, KindInv, Stoppers

\* A site is started when its proxy runs.
LEMMA BootRest == ASSUME TypeInv, RestInv, NEW c \in Commands, Boot(c) PROVE RestInv'
<1>1. At(c, "boot") /\ AtWork(c) /\ UNCHANGED <<config, unused, broken, tainted, proxy>>
  BY DEF Boot, Asks, At, AtWork
<1>2. /\ Kept(c) /\ Settles(c) /\ Op(c) \in Starters /\ cmd'[c].at = "serve"
      /\ site(c) \in Sites /\ \A s \in Sites \ {site(c)} : proc'[s] = proc[s]
  BY BootSettles
<1>3. AloneInv' /\ KindInv' /\ SiteInv'
  BY <1>2, SettleStep
<1>4. UnusedInv'
  BY BootUnused
<1>5. XdebugInv' /\ FolderInv'
  BY <1>1, <1>2, ChecksKept DEF RestInv
<1>6. ProxyInv'
  <2>. SUFFICES ASSUME ~broken', "proxy" \notin tainted', NEW s \in Sites, s \notin tainted'
                PROVE  (/\ Online(s) /\ config[s].domain =>
                             \/ proxy
                             \/ \E d \in Commands : Busy(d, s) /\ Op(d) = "domain" /\ cmd[d].at \in {"check", "halt"}
                        /\ \A d \in Commands : Busy(d, s) /\ At(d, "boot") => (config[s].domain => proxy)
                        /\ \A d \in Commands : AtWork(d) => cmd[d].at \notin AskingForProxy)'
    BY DEF ProxyInv, At, AskingForProxy
  <2>1. \A d \in Commands \ {c} : cmd'[d] = cmd[d]
    BY <1>2 DEF Kept
  <2>2. /\ Online(s) /\ config[s].domain =>
             \/ proxy
             \/ \E d \in Commands : Busy(d, s) /\ Op(d) = "domain" /\ cmd[d].at \in {"check", "halt"}
        /\ \A d \in Commands : Busy(d, s) /\ At(d, "boot") => (config[s].domain => proxy)
    BY <1>1 DEF RestInv, ProxyInv
  <2>3. (\A d \in Commands : AtWork(d) => cmd[d].at \notin AskingForProxy)'
    BY <1>1, <1>2, <2>1, NobodyAsks DEF AtWork, AskingForProxy
  <2>4. (\A d \in Commands : Busy(d, s) /\ At(d, "boot") => (config[s].domain => proxy))'
    BY <1>1, <1>2, <2>1, <2>2 DEF Busy, AtWork, At, Op, site
  <2>5. ASSUME Online(s)', config[s].domain
        PROVE  \/ proxy
               \/ (\E d \in Commands : Busy(d, s) /\ Op(d) = "domain" /\ cmd[d].at \in {"check", "halt"})'
    <3>1. CASE s = site(c)
      <4>1. Busy(c, s)
        BY <1>1, <3>1, Touches DEF Busy
      <4>. QED BY <1>1, <2>2, <2>5, <4>1
    <3>2. CASE s # site(c)
      <4>1. Online(s)
        BY <1>2, <2>5, <3>2 DEF Online
      <4>2. CASE proxy
        BY <4>2
      <4>3. CASE ~proxy
        <5>1. PICK d \in Commands : Busy(d, s) /\ Op(d) = "domain" /\ cmd[d].at \in {"check", "halt"}
          BY <2>2, <2>5, <4>1, <4>3
        <5>2. d # c
          BY <1>1, <5>1 DEF At
        <5>3. cmd'[d] = cmd[d]
          BY <2>1, <5>2
        <5>. QED BY <5>1, <5>3 DEF Busy, AtWork, Op, site
      <4>. QED BY <4>2, <4>3
    <3>. QED BY <3>1, <3>2
  <2>. QED BY <1>1, <2>3, <2>4, <2>5
<1>. QED BY <1>3, <1>4, <1>5, <1>6 DEF RestInv

\* A changed domain is looked at again before the site goes on.
LEMMA SaveProxy ==
  ASSUME TypeInv, IInv, RestInv, NEW c \in Commands, Save(c)
  PROVE  ProxyInv'
<1>1. /\ Kept(c) /\ UNCHANGED <<proc, proxy, broken, tainted>> /\ cmd'[c].at = Following(c)
      /\ Following(c) # "over" => cmd'[c].op = Op(c)
  BY SaveMoves
<1>. SUFFICES ASSUME ~broken, "proxy" \notin tainted, NEW s \in Sites, s \notin tainted
              PROVE  (/\ Online(s) /\ config[s].domain =>
                           \/ proxy
                           \/ \E d \in Commands : Busy(d, s) /\ Op(d) = "domain" /\ cmd[d].at \in {"check", "halt"}
                      /\ \A d \in Commands : Busy(d, s) /\ At(d, "boot") => (config[s].domain => proxy)
                      /\ \A d \in Commands : AtWork(d) /\ site(d) # s /\ Online(s) /\ config[s].domain =>
                           /\ ~At(d, "stopProxy")
                           /\ At(d, "proxyUsers") => s \in cmd[d].todo \cup cmd[d].found)'
  BY <1>1 DEF ProxyInv
<1>2. /\ AtWork(c) /\ Changed(c) \subseteq {t \in Sites : Busy(c, t)}
      /\ \A t \in Sites \ Changed(c) : config'[t] = config[t]
      /\ \A t \in Changed(c) :
              /\ cmd[c].at \in {"remove", "undo"} => config'[t] = Absent
              /\ At(c, "append") => config'[t] = cmd[c].seen /\ cmd[c].seen \in Entries
              /\ cmd[c].at \notin {"remove", "undo", "append"} =>
                   config[t].there /\ Edited(c, config[t], config'[t])
  BY SaveEffect
<1>3. /\ cmd[c].at \in Locked /\ cmd[c].at \notin {"check", "halt"}
      /\ cmd'[c].at \notin {"boot", "stopProxy", "proxyUsers"}
      /\ At(c, "apply") => cmd'[c].at = "check" /\ Op(c) \in Set
  <2>1. cmd[c].at \in Locked
    BY DEF Save
  <2>. QED BY <1>1, <1>2, <2>1, SaveFlows DEF Locked, At
<1>4. \A d \in Commands \ {c} : cmd'[d] = cmd[d]
  BY <1>1 DEF Kept
<1>5. /\ Online(s) /\ config[s].domain =>
           \/ proxy
           \/ \E d \in Commands : Busy(d, s) /\ Op(d) = "domain" /\ cmd[d].at \in {"check", "halt"}
      /\ \A d \in Commands : Busy(d, s) /\ At(d, "boot") => (config[s].domain => proxy)
      /\ \A d \in Commands : AtWork(d) /\ site(d) # s /\ Online(s) /\ config[s].domain =>
           /\ ~At(d, "stopProxy")
           /\ At(d, "proxyUsers") => s \in cmd[d].todo \cup cmd[d].found
  BY DEF RestInv, ProxyInv
<1>6. ASSUME NEW d \in Commands, Busy(d, s)', cmd'[d].at = "boot", config'[s].domain
      PROVE  proxy
  <2>1. d # c
    BY <1>3, <1>6
  <2>2. Busy(d, s) /\ At(d, "boot")
    BY <1>4, <1>6, <2>1 DEF Busy, AtWork, Op, site, At
  <2>3. s \notin Changed(c)
    BY <1>2, <2>1, <2>2 DEF RestInv, AloneInv
  <2>. QED BY <1>2, <1>5, <1>6, <2>2, <2>3
<1>7. ASSUME NEW d \in Commands, Busy(d, s), Op(d) = "domain", cmd[d].at \in {"check", "halt"}
      PROVE  (\E e \in Commands : Busy(e, s) /\ Op(e) = "domain" /\ cmd[e].at \in {"check", "halt"})'
  <2>1. cmd'[d] = cmd[d]
    BY <1>3, <1>4, <1>7
  <2>. QED BY <1>7, <2>1 DEF Busy, AtWork, Op, site
<1>8. CASE At(c, "apply") /\ Op(c) = "domain" /\ s = site(c)
  <2>1. cmd'[c].at = "check" /\ cmd'[c].op = "domain" /\ cmd'[c].site = cmd[c].site
    BY <1>1, <1>3, <1>8 DEF Kept
  <2>2. (Busy(c, s) /\ Op(c) = "domain" /\ cmd[c].at \in {"check", "halt"})'
    BY <1>8, <2>1 DEF Busy, AtWork, Op, site, Touched
  <2>3. \A d \in Commands : AtWork(d)' => cmd'[d].at \notin {"stopProxy", "proxyUsers"}
    <3>1. \A d \in Commands : AtWork(d) => cmd[d].at \notin AskingForProxy
      BY <1>2, <1>8, NobodyAsks DEF Starters
    <3>. QED BY <1>3, <1>4, <3>1 DEF AtWork, AskingForProxy
  <2>. QED BY <1>1, <1>6, <2>2, <2>3 DEF At
<1>9. CASE ~(At(c, "apply") /\ Op(c) = "domain" /\ s = site(c))
  <2>1. ASSUME Online(s), config'[s].domain
        PROVE  config[s].domain
    <3>1. CASE s \notin Changed(c)
      BY <1>2, <2>1, <3>1
    <3>2. CASE s \in Changed(c) /\ cmd[c].at \in {"remove", "undo"}
      BY <1>2, <2>1, <3>2 DEF Absent
    <3>3. CASE s \in Changed(c) /\ At(c, "append")
      <4>1. Claim(c, s)
        BY <1>2, <3>3, Claims
      <4>. QED BY <2>1, <3>3, <4>1 DEF Claim, At
    <3>4. CASE s \in Changed(c) /\ cmd[c].at \notin {"remove", "undo", "append"}
      <4>1. Edited(c, config[s], config'[s])
        BY <1>2, <3>4
      <4>2. At(c, "apply") => s = site(c)
        BY <3>4 DEF Changed, At
      <4>. QED BY <1>9, <2>1, <4>1, <4>2 DEF Edited
    <3>. QED BY <3>1, <3>2, <3>3, <3>4 DEF At
  <2>2. Online(s)' <=> Online(s)
    BY <1>1 DEF Online
  <2>3. ASSUME NEW d \in Commands, AtWork(d)', site(d)' # s, Online(s), config'[s].domain
        PROVE  /\ cmd'[d].at # "stopProxy"
               /\ cmd'[d].at = "proxyUsers" => s \in cmd'[d].todo \cup cmd'[d].found
    <3>1. CASE d = c
      BY <1>3, <3>1
    <3>2. CASE d # c
      BY <1>4, <1>5, <2>1, <2>3, <3>2 DEF AtWork, At, site
    <3>. QED BY <3>1, <3>2
  <2>4. ASSUME Online(s), config'[s].domain
        PROVE  \/ proxy
               \/ (\E e \in Commands : Busy(e, s) /\ Op(e) = "domain" /\ cmd[e].at \in {"check", "halt"})'
    BY <1>5, <1>7, <2>1, <2>4
  <2>. QED BY <1>1, <1>6, <2>2, <2>3, <2>4 DEF At
<1>. QED BY <1>8, <1>9

\* Saving the file.
LEMMA SaveRest ==
  ASSUME TypeInv, IInv, RestInv, NEW c \in Commands, Save(c)
  PROVE  RestInv'
<1>1. Kept(c) /\ Settles(c)
  BY SaveMoves, SaveSettles
<1>2. AloneInv' /\ KindInv' /\ SiteInv'
  BY <1>1, SettleStep
<1>. QED BY <1>2, SaveChecks, SaveUnused, SaveProxy DEF RestInv

\* The death of a process takes nothing away: all claims are about sites that run.
LEMMA CrashRest == ASSUME TypeInv, RestInv, NEW t \in Sites, Crash(t) PROVE RestInv'
<1>1. UNCHANGED <<config, lock, proxy, cmd, unused, tainted, broken>>
  BY DEF Crash
<1>2. \A s \in Sites : proc'[s] = proc[s] \/ proc'[s] = NoPid
  BY DEF Crash, TypeInv
<1>3. AloneInv' /\ KindInv'
  BY <1>1 DEF RestInv, AloneInv, KindInv, Busy, AtWork, Op, site
<1>4. XdebugInv' /\ FolderInv'
  <2>1. XdebugInv /\ FolderInv
    BY DEF RestInv
  <2>. QED BY <1>1, <2>1 DEF XdebugInv, FolderInv, FoldersDiffer, At, Op, site
<1>5. UnusedInv'
  <2>1. UnusedInv /\ unused \subseteq Sites
    BY DEF RestInv, TypeInv
  <2>. QED BY <1>1, <1>2, <2>1 DEF UnusedInv, Online, AtWork, Op, At, site
<1>6. SiteInv'
  <2>. SUFFICES ASSUME ~broken, NEW s \in Sites, s \notin tainted
                PROVE  (/\ (\A c \in Commands : ~Busy(c, s)) => Rest(s)
                        /\ \A c \in Commands : Busy(c, s) => Claim(c, s))'
    BY <1>1 DEF SiteInv
  <2>1. /\ (\A c \in Commands : ~Busy(c, s)) => Rest(s)
        /\ \A c \in Commands : Busy(c, s) => Claim(c, s)
    BY DEF RestInv, SiteInv
  <2>2. Rest(s) => Rest(s)'
    BY <1>1, <1>2 DEF Rest, Online
  <2>3. \A c \in Commands : Busy(c, s)' <=> Busy(c, s)
    BY <1>1 DEF Busy, AtWork, Op, site
  <2>4. ASSUME NEW c \in Commands, Claim(c, s)
        PROVE  Claim(c, s)'
    <3>1. CASE proc'[s] = proc[s]
      BY <1>1, <2>4, <3>1, ClaimKept
    <3>2. CASE proc'[s] = NoPid
      BY <1>1, <2>4, <3>2 DEF Claim, Rest, OnRecord, Online, At, Op
    <3>. QED BY <1>2, <3>1, <3>2
  <2>. QED BY <2>1, <2>2, <2>3, <2>4
<1>7. ProxyInv'
  <2>. SUFFICES ASSUME ~broken, "proxy" \notin tainted, NEW s \in Sites, s \notin tainted
                PROVE  (/\ Online(s) /\ config[s].domain =>
                             \/ proxy
                             \/ \E d \in Commands : Busy(d, s) /\ Op(d) = "domain" /\ cmd[d].at \in {"check", "halt"}
                        /\ \A d \in Commands : Busy(d, s) /\ At(d, "boot") => (config[s].domain => proxy)
                        /\ \A d \in Commands : AtWork(d) /\ site(d) # s /\ Online(s) /\ config[s].domain =>
                             /\ ~At(d, "stopProxy")
                             /\ At(d, "proxyUsers") => s \in cmd[d].todo \cup cmd[d].found)'
    BY <1>1 DEF ProxyInv
  <2>1. Online(s)' => Online(s)
    BY <1>2 DEF Online
  <2>2. \A d \in Commands : Busy(d, s)' <=> Busy(d, s)
    BY <1>1 DEF Busy, AtWork, Op, site
  <2>. QED BY <1>1, <2>1, <2>2 DEF RestInv, ProxyInv, Op, At, AtWork, site
<1>. QED BY <1>3, <1>4, <1>5, <1>6, <1>7 DEF RestInv

-----------------------------------------------------------------------------
\* Calls.

\* Command c is called on site s: what is not its own stays as it is, and what it may
\* disturb of the commands at work is left to chance.
Called(c, op, s) ==
  /\ ~AtWork(c) /\ \A d \in Commands \ {c} : cmd'[d] = cmd[d]
  /\ cmd'[c].op = op /\ cmd'[c].site = s
  /\ cmd'[c].at = IF op = "stopAll" THEN "list" ELSE IF op = "create" THEN "validate" ELSE "load"
  /\ UNCHANGED <<config, proc, proxy, broken>>
  /\ tainted \subseteq tainted'
  /\ \A d \in Commands : AtWork(d) => Clash(op, s, Op(d), site(d)) \subseteq tainted'

\* What a call leaves alone, and what it may assume of its sites.
LEMMA CallStep ==
  ASSUME TypeInv, NEW c \in Commands, NEW op \in AllOps, NEW s \in Sites, NEW r \in CommandType,
         r.op = op, r.site = s, Call(c, op, s, r)
  PROVE  Called(c, op, s) /\ cmd'[c].seen = r.seen
<1>1. At(c, "idle") /\ With(c, Flow[op][1], r) /\ UNCHANGED <<config, proc, proxy, broken>>
  BY DEF Call, world
<1>2. Flow[op][1] = IF op = "stopAll" THEN "list" ELSE IF op = "create" THEN "validate" ELSE "load"
  BY FirstSteps DEF AllOps, Starters, Stoppers
<1>3. Flow[op][1] \in Steps /\ Flow[op][1] # "over"
  BY <1>2 DEF Steps
<1>4. /\ \A d \in Commands \ {c} : cmd'[d] = cmd[d]
      /\ cmd'[c].at = Flow[op][1] /\ cmd'[c].op = op /\ cmd'[c].site = s /\ cmd'[c].seen = r.seen
  BY <1>1, <1>3, WithEffect
<1>5. tainted \subseteq tainted' /\ \A d \in Commands : AtWork(d) => Clash(op, s, Op(d), site(d)) \subseteq tainted'
  BY CallTaints
<1>. QED BY <1>1, <1>2, <1>4, <1>5 DEF Called, At, AtWork

\* A call keeps what is said of all sites.
LEMMA CalledRest ==
  ASSUME TypeInv, RestInv, NEW c \in Commands, NEW op \in AllOps, NEW s \in Sites, Called(c, op, s),
         op # "create" => unused' = unused,
         op = "create" => /\ s \in unused /\ unused' = unused \ {s} /\ ~cmd'[c].seen.xdebug
  PROVE  RestInv'
<1>1. /\ ~AtWork(c) /\ \A d \in Commands \ {c} : cmd'[d] = cmd[d]
      /\ cmd'[c].op = op /\ cmd'[c].site = s
      /\ cmd'[c].at = IF op = "stopAll" THEN "list" ELSE IF op = "create" THEN "validate" ELSE "load"
      /\ UNCHANGED <<config, proc, proxy, broken>> /\ tainted \subseteq tainted'
      /\ \A d \in Commands : AtWork(d) => Clash(op, s, Op(d), site(d)) \subseteq tainted'
  BY DEF Called
<1>2. \A d \in Commands \ {c} :
        (AtWork(d)' <=> AtWork(d)) /\ Op(d)' = Op(d) /\ site(d)' = site(d)
        /\ \A t \in Sites : Busy(d, t)' <=> Busy(d, t)
  BY <1>1 DEF AtWork, Op, site, Busy
<1>3. AtWork(c)' /\ Op(c)' = op /\ site(c)' = s /\ \A t \in Sites : Busy(c, t)' <=> t \in Touched(op, s)
  BY <1>1 DEF AtWork, Op, site, Busy
<1>4. ASSUME NEW d \in Commands \ {c}, NEW t \in Sites, t \notin tainted', Busy(d, t)
      PROVE  t \notin Touched(op, s)
  <2>1. Clash(op, s, Op(d), site(d)) \subseteq tainted'
    BY <1>1, <1>4 DEF Busy
  <2>. QED BY <1>4, <2>1 DEF Clash, Busy
<1>5. AloneInv'
  <2>. SUFFICES ASSUME NEW t \in Sites, t \notin tainted', NEW d \in Commands, NEW e \in Commands,
                       Busy(d, t)', Busy(e, t)'
                PROVE  d = e
    BY DEF AloneInv
  <2>1. CASE d # c /\ e # c
    BY <1>1, <1>2, <2>1 DEF RestInv, AloneInv
  <2>2. CASE d = c /\ e # c
    BY <1>2, <1>3, <1>4, <2>2
  <2>3. CASE d # c /\ e = c
    BY <1>2, <1>3, <1>4, <2>3
  <2>. QED BY <2>1, <2>2, <2>3
<1>6. KindInv'
  <2>1. KindInv
    BY DEF RestInv
  <2>2. ASSUME NEW d \in Commands \ {c}, AtWork(d)
        PROVE  /\ "proxy" \notin tainted' => ~(op \in Stoppers /\ Op(d) \in Starters)
                                             /\ ~(op \in Starters /\ Op(d) \in Stoppers)
               /\ "xdebug" \notin tainted' => ~(op = "xdebug" /\ Op(d) = "xdebug")
               /\ "folder" \notin tainted' => ~(op = "create" /\ Op(d) = "create")
    <3>1. Clash(op, s, Op(d), site(d)) \subseteq tainted'
      BY <1>1, <2>2
    <3>2. (op \in Stoppers /\ Op(d) \in Starters) \/ (op \in Starters /\ Op(d) \in Stoppers) =>
            "proxy" \in Clash(op, s, Op(d), site(d))
      BY DEF Clash, Stoppers, Starters
    <3>3. op = "xdebug" /\ Op(d) = "xdebug" => "xdebug" \in Clash(op, s, Op(d), site(d))
      BY DEF Clash
    <3>4. op = "create" /\ Op(d) = "create" => "folder" \in Clash(op, s, Op(d), site(d))
      BY DEF Clash
    <3>. QED BY <3>1, <3>2, <3>3, <3>4
  <2>3. ~(op \in Stoppers /\ op \in Starters)
    BY DEF Stoppers, Starters
  <2>4. "proxy" \notin tainted' =>
          (\A d, e \in Commands : AtWork(d) /\ AtWork(e) /\ Op(d) \in Stoppers => Op(e) \notin Starters)'
    <3>. SUFFICES ASSUME "proxy" \notin tainted', NEW d \in Commands, NEW e \in Commands,
                         AtWork(d)', AtWork(e)', Op(d)' \in Stoppers, Op(e)' \in Starters
                  PROVE  FALSE
      OBVIOUS
    <3>1. CASE d # c /\ e # c
      BY <1>1, <1>2, <2>1, <3>1 DEF KindInv
    <3>2. CASE d = c \/ e = c
      BY <1>2, <1>3, <2>2, <2>3, <3>2
    <3>. QED BY <3>1, <3>2
  <2>5. "xdebug" \notin tainted' =>
          (\A d, e \in Commands : AtWork(d) /\ AtWork(e) /\ Op(d) = "xdebug" /\ Op(e) = "xdebug" => d = e)'
    BY <1>1, <1>2, <1>3, <2>1, <2>2 DEF KindInv
  <2>6. "folder" \notin tainted' =>
          (\A d, e \in Commands : AtWork(d) /\ AtWork(e) /\ Op(d) = "create" /\ Op(e) = "create" => d = e)'
    BY <1>1, <1>2, <1>3, <2>1, <2>2 DEF KindInv
  <2>. QED BY <2>4, <2>5, <2>6 DEF KindInv
<1>7. SiteInv'
  <2>. SUFFICES ASSUME ~broken, NEW t \in Sites, t \notin tainted'
                PROVE  (/\ (\A d \in Commands : ~Busy(d, t)) => Rest(t)
                        /\ \A d \in Commands : Busy(d, t) => Claim(d, t))'
    BY <1>1 DEF SiteInv
  <2>1. /\ (\A d \in Commands : ~Busy(d, t)) => Rest(t)
        /\ \A d \in Commands : Busy(d, t) => Claim(d, t)
    BY <1>1 DEF RestInv, SiteInv
  <2>2. ~Busy(c, t)
    BY <1>1 DEF Busy
  <2>3. Rest(t)' <=> Rest(t)
    BY <1>1 DEF Rest, Online
  <2>4. \A d \in Commands \ {c} : Claim(d, t)' <=> Claim(d, t)
    BY <1>1, ClaimKept
  <2>5. CASE t \notin Touched(op, s)
    BY <1>2, <1>3, <2>1, <2>2, <2>3, <2>4, <2>5
  <2>6. CASE t \in Touched(op, s)
    <3>1. \A d \in Commands : ~Busy(d, t)
      BY <1>4, <2>2, <2>6
    <3>2. Rest(t)'
      BY <2>1, <2>3, <3>1
    <3>3. op = "create" => ~(Online(t)')
      BY <1>1, <2>6 DEF RestInv, UnusedInv, Online, Touched
    <3>4. Claim(c, t)'
      BY <1>1, <3>2, <3>3 DEF Claim, At, Op, Set, Serving, AskingForProxy
    <3>. QED BY <1>2, <1>3, <3>1, <3>2, <3>4
  <2>. QED BY <2>5, <2>6
<1>8. UnusedInv'
  <2>. SUFFICES ASSUME ~broken, NEW t \in unused'
                PROVE  (/\ ~config[t].there /\ ~Online(t)
                        /\ \A d \in Commands : AtWork(d) /\ site(d) = t => Op(d) = "stopAll" \/ At(d, "load"))'
    BY <1>1 DEF UnusedInv
  <2>1. t \in unused /\ (op = "create" => t # s)
    OBVIOUS
  <2>2. /\ ~config[t].there /\ ~Online(t)
        /\ \A d \in Commands : AtWork(d) /\ site(d) = t => Op(d) = "stopAll" \/ At(d, "load")
    BY <1>1, <2>1 DEF RestInv, UnusedInv
  <2>3. ASSUME NEW d \in Commands, AtWork(d)', site(d)' = t
        PROVE  Op(d)' = "stopAll" \/ cmd'[d].at = "load"
    <3>1. CASE d = c
      BY <1>1, <1>3, <2>1, <2>3, <3>1
    <3>2. CASE d # c
      BY <1>1, <1>2, <2>2, <2>3, <3>2 DEF At
    <3>. QED BY <3>1, <3>2
  <2>. QED BY <1>1, <2>2, <2>3 DEF Online, At
<1>9. XdebugInv'
  <2>. SUFFICES ASSUME ~broken, "xdebug" \notin tainted'
                PROVE  (/\ \A u, t \in Sites : config[u].xdebug /\ config[t].xdebug => u = t
                        /\ \A d \in Commands : Op(d) = "xdebug" /\ At(d, "apply") /\ cmd[d].arg =>
                             \A t \in Sites \ {site(d)} : ~config[t].xdebug
                        /\ \A d \in Commands : Op(d) = "create" /\ cmd[d].at \in {"validate", "append"} =>
                             ~cmd[d].seen.xdebug)'
    BY <1>1 DEF XdebugInv
  <2>1. /\ \A u, t \in Sites : config[u].xdebug /\ config[t].xdebug => u = t
        /\ \A d \in Commands : Op(d) = "xdebug" /\ At(d, "apply") /\ cmd[d].arg =>
             \A t \in Sites \ {site(d)} : ~config[t].xdebug
        /\ \A d \in Commands : Op(d) = "create" /\ cmd[d].at \in {"validate", "append"} => ~cmd[d].seen.xdebug
    BY <1>1 DEF RestInv, XdebugInv
  <2>2. \A d \in Commands : cmd'[d].at = "apply" => d # c /\ cmd'[d] = cmd[d]
    BY <1>1
  <2>3. \A d \in Commands : Op(d)' = "create" /\ cmd'[d].at \in {"validate", "append"} => ~cmd'[d].seen.xdebug
    BY <1>1, <1>2, <1>3, <2>1
  <2>. QED BY <1>1, <2>1, <2>2, <2>3 DEF Op, At, site
<1>10. FolderInv'
  <2>. SUFFICES ASSUME ~broken, "folder" \notin tainted'
                PROVE  (/\ FoldersDiffer
                        /\ \A d \in Commands : At(d, "append") =>
                             \A t \in Sites : config[t].there => config[t].folder # cmd[d].seen.folder)'
    BY <1>1 DEF FolderInv
  <2>1. /\ FoldersDiffer
        /\ \A d \in Commands : At(d, "append") =>
             \A t \in Sites : config[t].there => config[t].folder # cmd[d].seen.folder
    BY <1>1 DEF RestInv, FolderInv
  <2>2. \A d \in Commands : cmd'[d].at = "append" => d # c /\ cmd'[d] = cmd[d]
    BY <1>1
  <2>. QED BY <1>1, <2>1, <2>2 DEF FoldersDiffer, At
<1>11. ProxyInv'
  <2>. SUFFICES ASSUME ~broken, "proxy" \notin tainted', NEW t \in Sites, t \notin tainted'
                PROVE  (/\ Online(t) /\ config[t].domain =>
                             \/ proxy
                             \/ \E d \in Commands : Busy(d, t) /\ Op(d) = "domain" /\ cmd[d].at \in {"check", "halt"}
                        /\ \A d \in Commands : Busy(d, t) /\ At(d, "boot") => (config[t].domain => proxy)
                        /\ \A d \in Commands : AtWork(d) /\ site(d) # t /\ Online(t) /\ config[t].domain =>
                             /\ ~At(d, "stopProxy")
                             /\ At(d, "proxyUsers") => t \in cmd[d].todo \cup cmd[d].found)'
    BY <1>1 DEF ProxyInv
  <2>1. /\ Online(t) /\ config[t].domain =>
             \/ proxy
             \/ \E d \in Commands : Busy(d, t) /\ Op(d) = "domain" /\ cmd[d].at \in {"check", "halt"}
        /\ \A d \in Commands : Busy(d, t) /\ At(d, "boot") => (config[t].domain => proxy)
        /\ \A d \in Commands : AtWork(d) /\ site(d) # t /\ Online(t) /\ config[t].domain =>
             /\ ~At(d, "stopProxy")
             /\ At(d, "proxyUsers") => t \in cmd[d].todo \cup cmd[d].found
    BY <1>1 DEF RestInv, ProxyInv
  <2>2. ASSUME NEW d \in Commands, Busy(d, t), Op(d) = "domain", cmd[d].at \in {"check", "halt"}
        PROVE  (\E e \in Commands : Busy(e, t) /\ Op(e) = "domain" /\ cmd[e].at \in {"check", "halt"})'
    <3>1. d # c
      BY <1>1, <2>2 DEF Busy
    <3>. QED BY <1>1, <1>2, <2>2, <3>1
  <2>3. Online(t)' <=> Online(t)
    BY <1>1 DEF Online
  <2>4. \A d \in Commands : cmd'[d].at \in {"boot", "stopProxy", "proxyUsers"} => d # c
    BY <1>1
  <2>5. (\A d \in Commands : Busy(d, t) /\ At(d, "boot") => (config[t].domain => proxy))'
    BY <1>1, <1>2, <2>1, <2>4 DEF At
  <2>6. (\A d \in Commands : AtWork(d) /\ site(d) # t /\ Online(t) /\ config[t].domain =>
             /\ ~At(d, "stopProxy")
             /\ At(d, "proxyUsers") => t \in cmd[d].todo \cup cmd[d].found)'
    BY <1>1, <1>2, <2>1, <2>3, <2>4 DEF At
  <2>. QED BY <1>1, <2>1, <2>2, <2>3, <2>5, <2>6
<1>. QED BY <1>5, <1>6, <1>7, <1>8, <1>9, <1>10, <1>11 DEF RestInv

\* The call of an operation.
LEMMA BeginRest ==
  ASSUME TypeInv, RestInv, NEW c \in Commands, NEW op \in Ops, NEW s \in Sites, NEW arg \in Args(op),
         Begin(c, op, s, arg)
  PROVE  RestInv'
<1>. DEFINE r == [cmd[c] EXCEPT !.op = op, !.site = s, !.arg = arg]
<1>1. op \in AllOps /\ arg \in BOOLEAN /\ op # "create" /\ cmd[c] \in CommandType
  BY OpsAre DEF Begin, Args, TypeInv
<1>2. r \in CommandType /\ r.op = op /\ r.site = s
  BY <1>1 DEF CommandType
<1>3. Call(c, op, s, r) /\ unused' = unused
  BY DEF Begin
<1>. HIDE DEF r
<1>4. Called(c, op, s)
  BY <1>1, <1>2, <1>3, CallStep
<1>. QED BY <1>1, <1>3, <1>4, CalledRest

\* The call of `create`.
LEMMA BeginCreateRest ==
  ASSUME TypeInv, RestInv, NEW c \in Commands, NEW s \in Sites, NEW f \in Folders, NEW domain \in BOOLEAN,
         NEW arg \in Args("create"), BeginCreate(c, s, f, domain, arg)
  PROVE  RestInv'
<1>. DEFINE e == NewEntry(f, domain)
            r == [cmd[c] EXCEPT !.op = "create", !.site = s, !.arg = arg, !.seen = e]
<1>1. arg \in BOOLEAN /\ cmd[c] \in CommandType /\ "create" \in AllOps
  BY DEF Args, TypeInv, AllOps, Starters
<1>2. e \in SeenEntries /\ ~e.xdebug
  <2>1. e \in SeenEntries
    BY EntryTypes
  <2>2. ~e.xdebug
    BY DEF NewEntry, Absent
  <2>. QED BY <2>1, <2>2
<1>3. Call(c, "create", s, r) /\ s \in unused /\ unused' = unused \ {s}
  BY DEF BeginCreate
<1>. HIDE DEF e
<1>4. r \in CommandType /\ r.op = "create" /\ r.site = s /\ r.seen = e
  BY <1>1, <1>2 DEF CommandType
<1>. HIDE DEF r
<1>5. Called(c, "create", s) /\ cmd'[c].seen = e
  BY <1>1, <1>3, <1>4, CallStep
<1>. QED BY <1>1, <1>2, <1>3, <1>5, CalledRest

-----------------------------------------------------------------------------
\* Beginning and end.

\* One site at most, as a number and as a formula.
LEMMA AtMostOne ==
  ASSUME NEW S \in SUBSET Sites
  PROVE  Cardinality(S) <= 1 <=> \A s, t \in S : s = t
<1>1. IsFiniteSet(S) /\ Cardinality(S) \in Nat
  BY SitesAreFinite, FS_Subset, FS_CardinalityType
<1>2. ASSUME Cardinality(S) <= 1, NEW s \in S, NEW t \in S, s # t
      PROVE  FALSE
  <2>1. IsFiniteSet({s}) /\ Cardinality({s}) = 1
    BY FS_Singleton
  <2>2. Cardinality({s} \cup {t}) = 2
    BY <1>2, <2>1, FS_AddElement
  <2>3. Cardinality({s} \cup {t}) <= Cardinality(S)
    BY <1>1, FS_Subset
  <2>. QED BY <1>1, <1>2, <2>2, <2>3
<1>3. ASSUME \A s, t \in S : s = t
      PROVE  Cardinality(S) <= 1
  <2>1. CASE S = {}
    BY <2>1, FS_EmptySet
  <2>2. CASE S # {}
    <3>1. PICK s \in S : S = {s}
      BY <1>3, <2>2
    <3>2. Cardinality({s}) = 1
      BY FS_Singleton
    <3>. QED BY <3>1, <3>2
  <2>. QED BY <2>1, <2>2
<1>. QED BY <1>2, <1>3

\* RestInv holds to begin with.
LEMMA InitRest == Init => RestInv
<1>. SUFFICES ASSUME Init PROVE RestInv
  OBVIOUS
<1>1. \A c \in Commands : cmd[c] = Idle /\ ~AtWork(c) /\ cmd[c].at = "idle"
  BY DEF Init, Idle, AtWork
<1>2. \A s \in Sites : proc[s] = config[s].pid
  BY DEF Init
<1>3. \A s \in Sites : \/ config[s] = Absent
                       \/ config[s] \in Entries /\ config[s].pid \in {NoPid, 1} /\ config[s].auto = (config[s].pid = 1)
  BY DEF Init
<1>5. \A s \in Sites, c \in Commands : ~Busy(c, s)
  BY <1>1 DEF Busy
<1>6. Absent.pid = NoPid /\ Absent.there = FALSE /\ \A e \in Entries : e.there
  BY DEF Absent, Entries
<1>7. \A s \in Sites : Rest(s)
  <2>. SUFFICES ASSUME NEW s \in Sites, Online(s)
                PROVE  config[s].there /\ config[s].pid = proc[s] /\ config[s].auto
    BY DEF Rest
  <2>1. config[s].pid # NoPid
    BY <1>2 DEF Online
  <2>2. config[s] \in Entries /\ config[s].pid = 1 /\ config[s].auto = (config[s].pid = 1)
    BY <1>3, <1>6, <2>1
  <2>3. config[s].auto
    BY <2>2
  <2>. QED BY <1>2, <1>6, <2>2, <2>3
<1>8. AloneInv /\ KindInv
  BY <1>1, <1>5 DEF AloneInv, KindInv
<1>9. UnusedInv
  <2>. SUFFICES ASSUME NEW s \in unused
                PROVE  /\ ~config[s].there /\ ~Online(s)
                       /\ \A c \in Commands : AtWork(c) /\ site(c) = s => Op(c) = "stopAll" \/ At(c, "load")
    BY DEF UnusedInv
  <2>1. s \in Sites /\ ~config[s].there
    BY DEF Init
  <2>2. config[s] = Absent
    BY <1>3, <1>6, <2>1
  <2>3. ~Online(s)
    BY <1>2, <1>6, <2>1, <2>2 DEF Online
  <2>. QED BY <1>1, <2>1, <2>3
<1>10. SiteInv
  BY <1>5, <1>7 DEF SiteInv
<1>11. XdebugInv
  <2>. DEFINE S == {s \in Sites : config[s].xdebug}
  <2>1. Cardinality(S) <= 1
    BY DEF Init
  <2>. HIDE DEF S
  <2>2. S \in SUBSET Sites
    BY DEF S
  <2>3. \A s, t \in S : s = t
    BY <2>1, <2>2, AtMostOne
  <2>4. \A s, t \in Sites : config[s].xdebug /\ config[t].xdebug => s = t
    BY <2>3 DEF S
  <2>. QED BY <1>1, <2>4 DEF XdebugInv, At
<1>12. FolderInv
  BY <1>1 DEF FolderInv, At, Init
<1>13. ProxyInv
  <2>1. \A s \in Sites : Online(s) /\ config[s].domain => proxy
    BY DEF Init, Online
  <2>. QED BY <1>1, <1>5, <2>1 DEF ProxyInv
<1>. QED BY <1>8, <1>9, <1>10, <1>11, <1>12, <1>13 DEF RestInv

\* Every step keeps what is said of the sites.
LEMMA NextRest == TypeInv /\ IInv /\ RestInv /\ [Next]_vars => RestInv'
<1>. SUFFICES ASSUME TypeInv, IInv, RestInv, [Next]_vars PROVE RestInv'
  OBVIOUS
<1>1. ASSUME NEW c \in Commands, \E op \in Ops, s \in Sites : \E arg \in Args(op) : Begin(c, op, s, arg)
      PROVE  RestInv'
  BY <1>1, BeginRest
<1>2. ASSUME NEW c \in Commands,
             \E s \in Sites, f \in Folders, domain \in BOOLEAN, arg \in Args("create") :
               BeginCreate(c, s, f, domain, arg)
      PROVE  RestInv'
  BY <1>2, BeginCreateRest
<1>3. ASSUME NEW c \in Commands,
             Load(c) \/ Validate(c) \/ Check(c) \/ NeedProxy(c) \/ ProxyOn(c) \/ ProxySites(c) \/ List(c)
      PROVE  RestInv'
  BY <1>3, LoadRest, ValidateRest, CheckRest, ProxyNeedRest, ProxyAskedRest, ListRest
<1>4. ASSUME NEW c \in Commands, (\E s \in Sites : LookUp(c, s)) \/ LookedUp(c)
      PROVE  RestInv'
  <2>1. LookedUp(c) => At(c, "proxyUsers") \/ At(c, "lookUp")
    BY DEF LookedUp
  <2>. QED BY <1>4, <2>1, LookUpRest, ProxyAskedRest, ListRest
<1>5. ASSUME NEW c \in Commands, Lock(c) \/ LockTimeout(c) \/ Read(c) \/ Save(c)
      PROVE  RestInv'
  BY <1>5, StayRest, GiveUpRest, SaveRest
<1>6. ASSUME NEW c \in Commands,
             \/ StartProxy(c) \/ StopProxy(c) \/ Boot(c) \/ Serve(c) \/ Halt(c) \/ Kill(c)
             \/ RequestFails(c) \/ ListFails(c) \/ Interrupt(c)
      PROVE  RestInv'
  BY <1>6, StartProxyRest, StopProxyRest, BootRest, ServeRest, HaltRest, KillRest, GiveUpRest,
     ListFailsRest
<1>7. CASE UNCHANGED vars
  <2>1. UNCHANGED <<config, lock, proc, proxy, cmd, unused, tainted, broken>>
    BY <1>7 DEF vars, world
  <2>2. AloneInv' /\ KindInv'
    BY <2>1 DEF RestInv, AloneInv, KindInv, Busy, AtWork, Op, site
  <2>3. XdebugInv' /\ FolderInv' /\ UnusedInv'
    BY <2>1 DEF RestInv, XdebugInv, FolderInv, FoldersDiffer, UnusedInv, Online, AtWork, At, Op,
       site
  <2>4. SiteInv'
    BY <2>1 DEF RestInv, SiteInv, Busy, Claim, Rest, OnRecord, Online, AtWork, At, Op, site
  <2>5. ProxyInv'
    BY <2>1 DEF RestInv, ProxyInv, Busy, Online, AtWork, At, Op, site
  <2>. QED BY <2>2, <2>3, <2>4, <2>5 DEF RestInv
<1>. QED BY <1>1, <1>2, <1>3, <1>4, <1>5, <1>6, <1>7, CrashRest DEF Next

\* SitesAtRest, for any number of commands and sites: when no command of `studio site`
\* is at work, cli.json tells the truth about every site that no two commands worked
\* on at once: an online server has its entry, with its pid and autoStart, Xdebug is on
\* for one site, no two sites have one folder, and the proxy runs for every online
\* site with a custom domain. The file itself is read and saved under its lock, the
\* list of processes is not: this is what the code is left with.
THEOREM SitesAtRestHolds == Spec => []SitesAtRest
<1>1. Init => IInv /\ TypeInv /\ RestInv
  BY InitInv, InitTypes, InitRest
<1>2. IInv /\ TypeInv /\ RestInv /\ [Next]_vars => (IInv /\ TypeInv /\ RestInv)'
  BY NextInv, NextTypes, NextRest
<1>3. TypeInv /\ RestInv => SitesAtRest
  <2>. SUFFICES ASSUME TypeInv, RestInv PROVE SitesAtRest
    OBVIOUS
  <2>1. \A s \in Sites : Settled(s) => ~broken /\ s \notin tainted /\ (\A c \in Commands : ~Busy(c, s)) /\ Rest(s)
    BY DEF Settled, Busy, Op, RestInv, SiteInv
  <2>2. StatusIsTrue /\ OnlineAutoStarts
    BY <2>1 DEF StatusIsTrue, OnlineAutoStarts, Rest
  <2>3. DomainIsServed
    BY <2>1 DEF DomainIsServed, RestInv, ProxyInv
  <2>4. OneXdebugAtRest
    <3>. SUFFICES ASSUME ~broken, "xdebug" \notin tainted
                  PROVE  Cardinality({s \in Sites : config[s].xdebug}) <= 1
      BY DEF OneXdebugAtRest
    <3>. DEFINE S == {s \in Sites : config[s].xdebug}
    <3>1. \A s, t \in S : s = t
      BY DEF RestInv, XdebugInv
    <3>2. S \in SUBSET Sites
      OBVIOUS
    <3>. HIDE DEF S
    <3>3. Cardinality(S) <= 1
      BY <3>1, <3>2, AtMostOne
    <3>. QED BY <3>3 DEF S
  <2>5. OneSitePerFolder
    BY DEF OneSitePerFolder, RestInv, FolderInv
  <2>. QED BY <2>2, <2>3, <2>4, <2>5 DEF SitesAtRest
<1>. QED BY <1>1, <1>2, <1>3, PTL DEF Spec
=============================================================================
