------------------------- MODULE PhpServerChildProofs -------------------------
(* Proofs about PhpServerChild, for every number of links, requests, workers *)
(* and failures, and for a wrapper that is told to start once.               *)
EXTENDS PhpServerChild, FiniteSetTheorems, WellFoundedInduction, TLAPS

Stages == {"idle", "prepare", "ports", "spawn", "ready", "check", "credentials", "closing",
           "stopping", "watcher"}
(* A job of these stages has no server yet; a restart of them has none any   *)
(* more, once its stage "closing" is over.                                   *)
Early == {"prepare", "ports", "spawn", "ready"}
Between == {"stopping", "ports", "spawn", "ready"}

StartupStages == {"idle", "prepare", "ports", "spawn", "ready", "check", "credentials"}
RestartStages == {"idle", "closing", "stopping", "ports", "spawn", "ready", "check"}
Counts == [Index -> 0..Cardinality(Requests)]

(* TypeOK, one variable at a time.                                           *)
JobTypes ==
  /\ wrapper \in {"up", "gone"} /\ aborted \in BOOLEAN /\ starts \in 0..MaxStarts
  /\ at \in [Jobs \cup {"stop"} -> Stages]
  /\ at["startup"] \in StartupStages /\ at["restart"] \in RestartStages
  /\ at["stop"] \in {"idle", "watcher", "closing"}
  /\ pools \in 0..(MaxStarts + Cardinality(Links))
  /\ building \in [Jobs -> 0..pools]
PoolTypes ==
  /\ alive \subseteq (1..pools) \X Index /\ dropped \subseteq (1..pools) \X Index
  /\ grants \in [Worker -> SUBSET Links] /\ runningConfig \in BOOLEAN
LinkTypes ==
  /\ allowlist \subseteq Links /\ timer \in BOOLEAN /\ reconcile \in BOOLEAN
  /\ watch \in {"off", "scan", "on", "dead"}
  /\ seen \subseteq disk /\ disk \subseteq Links /\ late \subseteq disk /\ due \subseteq Links
  /\ failures \in 0..MaxFailures
RequestTypes ==
  /\ counts = <<>> \/ counts \in Counts
  /\ open \in [Requests -> 0..PoolSize] /\ released \subseteq Requests

TypeInv == JobTypes /\ PoolTypes /\ LinkTypes /\ RequestTypes

(* The jobs take turns, and the server that runs is the one started last.    *)
JobsInv ==
  /\ starts = 0 => at["startup"] = "idle" /\ at["restart"] = "idle" /\ pools = 0
  /\ at["startup"] \in Early \cup {"check"} => at["restart"] = "idle" /\ phpProcess = 0
  /\ at["startup"] \in {"prepare", "ports"} => pools = 0
  /\ at["startup"] \in Early => proxy = 0 /\ current = 0
  /\ at["restart"] \in Between \cup {"closing"} => proxy = 0 /\ current = 0
  /\ at["restart"] # "idle" => phpProcess = 0
  /\ phpProcess \in {0, pools} /\ current \in {0, pools} /\ proxy \in {0, pools}
  /\ \A j \in Jobs : at[j] \in {"spawn", "ready", "check", "closing", "stopping"} =>
       building[j] = pools /\ pools # 0

(* The workers that live are of the pool begun last: all of them once it is  *)
(* ready, none when the next one is begun.  Only those of a pool that is     *)
(* being stopped may exit.                                                   *)
PoolInv ==
  /\ alive \subseteq WorkersOf(pools)
  /\ starts = 0 \/ at["startup"] \in {"prepare", "ports"} \/ at["restart"] = "ports" => alive = {}
  /\ \A j \in Jobs : at[j] = "spawn" => \E k \in Index : k # PoolSize /\ alive = {pools} \X (1..k)
  /\ \/ phpProcess # 0 \/ at["restart"] = "closing"
     \/ \E j \in Jobs : at[j] \in {"ready", "check"}
     => alive = WorkersOf(pools)
  /\ at["restart"] \notin {"stopping", "ports"} => dropped \cap WorkersOf(pools) = {}

(* No request is open while there is no proxy, unless the one of a restart   *)
(* that closes; so a new tracker starts right.                               *)
RequestInv ==
  /\ TrackerExact
  /\ starts = 0 \/ at["startup"] \in Early \/ at["restart"] \in Between => Drained
  /\ proxy # 0 => counts # <<>>
  /\ \A j \in Jobs : at[j] \in {"spawn", "ready"} => counts = [i \in Index |-> 0]

(* After a stop took the server down nobody starts another one.              *)
StopInv ==
  at["stop"] = "closing" =>
    ~runningConfig /\ starts # 0 /\ at["startup"] \notin Early
    /\ at["restart"] \notin Between \cup {"closing"}

One(b) == IF b THEN 1 ELSE 0
(* Pools that are due: of jobs before their "spawn", and of the timer.       *)
Pending == One(at["startup"] \in {"prepare", "ports"})
           + One(at["restart"] \in {"closing", "stopping", "ports"}) + One(timer)
(* Every restart is for a link of its own.                                   *)
BudgetInv == at["stop"] # "closing" => pools + Pending <= starts + Cardinality(allowlist)

(* Links that came late are on the allowlist or on their way to it; what was *)
(* due when a restart began is granted to the workers that came of it.       *)
LinkInv ==
  /\ at["stop"] = "idle" =>
       late \subseteq allowlist \cup seen \cup (IF watch = "dead" \/ reconcile THEN disk ELSE {})
  /\ at["stop"] # "closing" => due \subseteq allowlist
  /\ at["restart"] \notin {"closing", "stopping"} => \A w \in alive : due \subseteq grants[w]

Inv == /\ TypeInv /\ JobsInv /\ RequestInv /\ StopInv /\ BudgetInv /\ LinkInv
       /\ IF Up THEN PoolInv ELSE alive = {}

(* Nothing is claimed of a wrapper that is told to start again.              *)
IInv == starts \in 0..MaxStarts /\ (starts <= 1 => Inv)

-----------------------------------------------------------------------------
(* Frames: what each part of the invariant depends on.                       *)

(* The types of the jobs depend on the variables of the jobs.                *)
LEMMA KeepJobTypes == JobTypes /\ UNCHANGED jobVars => JobTypes'
  BY DEF JobTypes, jobVars

(* The types of the pools depend on the pools begun and their workers.       *)
LEMMA KeepPoolTypes ==
  PoolTypes /\ UNCHANGED <<pools, alive, dropped, grants, runningConfig>> => PoolTypes'
  BY DEF PoolTypes

(* The types of the links depend on the variables of the links.              *)
LEMMA KeepLinkTypes == LinkTypes /\ UNCHANGED linkVars => LinkTypes'
  BY DEF LinkTypes, linkVars

(* The types of the requests depend on the variables of the requests.        *)
LEMMA KeepRequestTypes == RequestTypes /\ UNCHANGED requestVars => RequestTypes'
  BY DEF RequestTypes, requestVars

(* JobsInv depends on the stages of the jobs and the pools they handle.      *)
LEMMA KeepJobs ==
  JobsInv /\ UNCHANGED <<at, building, pools, starts, phpProcess, current, proxy>> => JobsInv'
  BY DEF JobsInv

(* PoolInv depends on the stages and the workers that live or were let go.   *)
LEMMA KeepPool ==
  PoolInv /\ UNCHANGED <<at, pools, starts, phpProcess, alive, dropped>> => PoolInv'
  BY DEF PoolInv, WorkersOf

(* RequestInv depends on the tracker, the proxy and who may have one.        *)
LEMMA KeepRequests ==
  RequestInv /\ UNCHANGED <<at, starts, proxy, counts, open, released>> => RequestInv'
  BY DEF RequestInv, TrackerExact, Drained

(* StopInv depends on the stages and on whether a site is served.            *)
LEMMA KeepStop == StopInv /\ UNCHANGED <<at, starts, runningConfig>> => StopInv'
  BY DEF StopInv

(* BudgetInv depends on the pools begun and those that are due.              *)
LEMMA KeepBudget == BudgetInv /\ UNCHANGED <<at, pools, starts, timer, allowlist>> => BudgetInv'
  BY DEF BudgetInv, Pending

(* LinkInv depends on the links known and on what the workers were granted.  *)
LEMMA KeepLinks ==
  LinkInv /\ UNCHANGED <<at, late, allowlist, seen, watch, reconcile, disk, due, alive, grants>>
  => LinkInv'
  BY DEF LinkInv

(* While the wrapper's life does not change, its clause is PoolInv's frame.  *)
LEMMA KeepUp ==
  (IF Up THEN PoolInv ELSE alive = {})
    /\ UNCHANGED <<wrapper, at, pools, starts, phpProcess, alive, dropped>>
  => (IF Up THEN PoolInv ELSE alive = {})'
  BY KeepPool DEF Up

-----------------------------------------------------------------------------
(* Requests *)

(* The requests that worker i is busy with.                                  *)
Busy(i) == {r \in Requests : open[r] = i /\ r \notin released}

(* A worker is busy with finitely many requests.                             *)
LEMMA BusyIsFinite ==
  ASSUME NEW i \in Index
  PROVE  /\ IsFiniteSet(Busy(i)) /\ Cardinality(Busy(i)) \in 0..Cardinality(Requests)
<1>1. Busy(i) \in SUBSET Requests BY DEF Busy
<1>2. Cardinality(Busy(i)) \in Nat /\ Cardinality(Requests) \in Nat
  BY <1>1, SetsAreFinite, FS_Subset, FS_CardinalityType
<1>. QED BY <1>1, <1>2, SetsAreFinite, FS_Subset

(* getFirstFreeWorker finds one: counts has a least value, and that value a  *)
(* first index.                                                              *)
LEMMA FreeIsAWorker == ASSUME counts \in Counts PROVE Free \in Index
<1>. DEFINE R == {ss \in Nat \X Nat : ss[1] < ss[2]}
<1>1. IsWellFoundedOn(R, Nat) BY NatLessThanWellFounded DEF OpToRel
<1>2. DOMAIN counts = Index /\ Index # {} /\ Index \subseteq Nat
  BY PoolIsNotEmpty DEF Counts, Index
<1>3. \A i \in Index : counts[i] \in Nat BY DEF Counts
<1>. DEFINE V == {counts[i] : i \in Index}
<1>4. V \subseteq Nat /\ V # {} BY <1>2, <1>3
<1>5. PICK v \in V : \A y \in V : ~(<<y, v>> \in R) BY <1>1, <1>4, WFMin
<1>. DEFINE T == {i \in Index : counts[i] = v}
<1>6. T \subseteq Nat /\ T # {} BY <1>2, <1>5
<1>7. PICK i \in T : \A y \in T : ~(<<y, i>> \in R) BY <1>1, <1>6, WFMin
<1>8. \A j \in Index : counts[i] <= counts[j] /\ (i <= j \/ counts[i] < counts[j])
  <2>. TAKE j \in Index
  <2>1. counts[j] \in V /\ counts[i] = v /\ i \in Nat /\ j \in Nat /\ v \in Nat
    BY <1>2, <1>4, <1>5, <1>7
  <2>2. ~(counts[j] < v) BY <1>3, <1>5, <2>1
  <2>3. counts[j] = v => ~(j < i) BY <1>7, <2>1
  <2>. QED BY <1>3, <2>1, <2>2, <2>3
<1>. QED BY <1>2, <1>7, <1>8 DEF Free

(* What a release does to the counts: exactly the request that is released   *)
(* is no longer counted.                                                     *)
LEMMA ReleaseCounts ==
  ASSUME TypeInv, RequestInv, NEW r \in Requests, open[r] # 0, Release(r),
         open' \in {open, [open EXCEPT ![r] = 0]}
  PROVE  /\ counts' = <<>> \/ counts' \in Counts
         /\ released' \subseteq Requests /\ open' \in [Requests -> 0..PoolSize]
         /\ counts = <<>> <=> counts' = <<>>
         /\ proxy # 0 => \A i \in Index : counts'[i] = Cardinality(Busy(i)')
         /\ counts = [i \in Index |-> 0] => counts' = counts
<1>. DEFINE w == open[r]
<1>1. w \in Index BY DEF TypeInv, RequestTypes, Index
<1>2. \A i \in Index : Busy(i)' = Busy(i) \ {r}
  BY <1>1 DEF Busy, Release, TypeInv, RequestTypes, Index
<1>3. <<>> \notin Counts /\ DOMAIN <<>> = {}
  BY PoolIsNotEmpty DEF Counts, Index
<1>t. released' \subseteq Requests /\ open' \in [Requests -> 0..PoolSize]
  BY PoolIsNotEmpty DEF Release, TypeInv, RequestTypes
<1>e. proxy # 0 => counts # <<>> /\ \A i \in Index : counts[i] = Cardinality(Busy(i))
  BY DEF RequestInv, TrackerExact, Busy
<1>4. CASE r \in released
  <2>1. counts' = counts /\ \A i \in Index : r \notin Busy(i) BY <1>4 DEF Release, Busy
  <2>2. \A i \in Index : Busy(i)' = Busy(i) BY <1>2, <2>1
  <2>. QED BY <1>t, <1>e, <2>1, <2>2 DEF TypeInv, RequestTypes
<1>5. CASE r \notin released
  <2>1. counts' = CountDown(w) BY <1>5 DEF Release
  <2>2. CASE counts = <<>>
    <3>1. counts' = counts BY <1>3, <2>1, <2>2 DEF CountDown
    <3>. QED BY <1>t, <1>e, <2>2, <3>1
  <2>3. CASE counts \in Counts
    <3>1. counts' = IF counts[w] > 0 THEN [counts EXCEPT ![w] = @ - 1] ELSE counts
      BY <1>1, <2>1, <2>3 DEF CountDown, Counts
    <3>2. Cardinality(Requests) \in Nat BY SetsAreFinite, FS_CardinalityType
    <3>3. counts' \in Counts BY <1>1, <2>3, <3>1, <3>2 DEF Counts
    <3>4. ASSUME proxy # 0, NEW i \in Index PROVE counts'[i] = Cardinality(Busy(i)')
      <4>1. /\ IsFiniteSet(Busy(i)) /\ Cardinality(Busy(i)) \in 0..Cardinality(Requests)
            /\ counts[i] = Cardinality(Busy(i))
        BY <1>e, <3>4, BusyIsFinite
      <4>2. r \in Busy(i) <=> i = w BY <1>5 DEF Busy
      <4>3. Cardinality(Busy(i) \ {r}) = IF i = w THEN counts[i] - 1 ELSE counts[i]
        BY <4>1, <4>2, FS_RemoveElement
      <4>4. Cardinality(Busy(i) \ {r}) \in Nat BY <4>1, FS_RemoveElement, FS_CardinalityType
      <4>. QED BY <1>1, <1>2, <2>3, <3>1, <3>2, <4>1, <4>3, <4>4 DEF Counts
    <3>5. counts = [i \in Index |-> 0] => counts' = counts BY <1>1, <3>1
    <3>. QED BY <1>t, <1>3, <2>3, <3>3, <3>4, <3>5
  <2>. QED BY <2>2, <2>3 DEF TypeInv, RequestTypes
<1>. QED BY <1>4, <1>5

(* What an arrival does to them.                                             *)
LEMMA ArrivalCounts ==
  ASSUME TypeInv, RequestInv, NEW r \in Requests, RequestArrives(r)
  PROVE  /\ counts' \in Counts /\ open' \in [Requests -> 0..PoolSize]
         /\ \A i \in Index : counts'[i] = Cardinality(Busy(i)')
<1>1. counts \in Counts /\ proxy # 0 /\ open[r] = 0
  BY DEF RequestArrives, TypeInv, RequestTypes
<1>2. PICK w \in {1, Free} : open' = [open EXCEPT ![r] = w] /\ counts' = CountUp(w)
  BY DEF RequestArrives
<1>3. w \in Index BY <1>1, FreeIsAWorker, PoolIsNotEmpty DEF Index
<1>4. counts' = [counts EXCEPT ![w] = @ + 1] BY <1>1, <1>2, <1>3 DEF CountUp, Counts
<1>5. open' \in [Requests -> 0..PoolSize] BY <1>2, <1>3 DEF TypeInv, RequestTypes, Index
<1>6. ASSUME NEW i \in Index
      PROVE  counts'[i] = Cardinality(Busy(i)') /\ counts'[i] \in 0..Cardinality(Requests)
  <2>1. /\ IsFiniteSet(Busy(i)) /\ Cardinality(Busy(i)) \in 0..Cardinality(Requests)
        /\ counts[i] = Cardinality(Busy(i))
    BY <1>1, BusyIsFinite DEF RequestInv, TrackerExact, Busy
  <2>2. r \notin Busy(i) BY <1>1, PoolIsNotEmpty DEF Busy, Index
  <2>3. Busy(i)' = IF i = w THEN Busy(i) \cup {r} ELSE Busy(i)
    BY <1>1, <1>2, <1>3, <2>2 DEF Busy, RequestArrives, TypeInv, RequestTypes
  <2>4. Cardinality(Busy(i) \cup {r}) = counts[i] + 1 BY <2>1, <2>2, FS_AddElement
  <2>5. Busy(i)' \in SUBSET Requests BY DEF Busy
  <2>6. Cardinality(Busy(i)') <= Cardinality(Requests) BY <2>5, SetsAreFinite, FS_Subset
  <2>7. Cardinality(Requests) \in Nat BY SetsAreFinite, FS_CardinalityType
  <2>. QED BY <1>1, <1>3, <1>4, <2>1, <2>3, <2>4, <2>6, <2>7 DEF Counts
<1>7. counts' \in Counts
  <2>1. counts' = [i \in Index |-> counts'[i]] BY <1>1, <1>4 DEF Counts
  <2>. QED BY <1>6, <2>1 DEF Counts
<1>. QED BY <1>5, <1>6, <1>7

(* Requests that arrive, are refused or close keep the invariant.            *)
LEMMA RequestsKeep ==
  ASSUME Inv, NEW r \in Requests, RequestArrives(r) \/ WorkerRefuses(r) \/ RequestCloses(r)
  PROVE  Inv'
<1>. USE DEF Inv
<1>1. UNCHANGED <<jobVars, poolVars, linkVars>> BY DEF RequestArrives, WorkerRefuses, RequestCloses
<1>2. JobTypes' /\ PoolTypes' /\ LinkTypes'
  <2>1. JobTypes' BY <1>1, KeepJobTypes DEF TypeInv
  <2>2. PoolTypes' BY <1>1, KeepPoolTypes DEF TypeInv, jobVars, poolVars
  <2>3. LinkTypes' BY <1>1, KeepLinkTypes DEF TypeInv
  <2>. QED BY <2>1, <2>2, <2>3
<1>3. JobsInv' /\ StopInv' /\ BudgetInv' /\ LinkInv' /\ (IF Up THEN PoolInv ELSE alive = {})'
  <2>1. JobsInv' BY <1>1, KeepJobs DEF jobVars, poolVars
  <2>2. StopInv' BY <1>1, KeepStop DEF jobVars, poolVars
  <2>3. BudgetInv' BY <1>1, KeepBudget DEF jobVars, poolVars, linkVars
  <2>4. LinkInv' BY <1>1, KeepLinks DEF jobVars, poolVars, linkVars
  <2>5. (IF Up THEN PoolInv ELSE alive = {})' BY <1>1, KeepUp DEF jobVars, poolVars
  <2>. QED BY <2>1, <2>2, <2>3, <2>4, <2>5
<1>4. RequestTypes' /\ RequestInv'
  <2>1. CASE RequestArrives(r)
    <3>1. RequestTypes' BY <2>1, ArrivalCounts DEF RequestArrives, TypeInv, RequestTypes
    <3>2. proxy # 0 BY <2>1 DEF RequestArrives
    <3>3. \A j \in Jobs : at[j] \notin {"spawn", "ready"}
      BY <3>2, <1>1 DEF JobsInv, Jobs, Early, Between
    <3>4. TrackerExact' BY <2>1, ArrivalCounts DEF TrackerExact, Busy
    <3>5. ~(starts = 0 \/ at["startup"] \in Early \/ at["restart"] \in Between)
      BY <3>2 DEF JobsInv
    <3>6. counts' # <<>> BY <2>1, ArrivalCounts, PoolIsNotEmpty DEF Counts, Index
    <3>. QED BY <1>1, <3>1, <3>3, <3>4, <3>5, <3>6 DEF RequestInv, jobVars
  <2>2. CASE WorkerRefuses(r) \/ RequestCloses(r)
    <3>1. Release(r) /\ open[r] # 0 /\ open' \in {open, [open EXCEPT ![r] = 0]}
      BY <2>2 DEF WorkerRefuses, RequestCloses
    <3>2. RequestTypes' BY <3>1, ReleaseCounts DEF RequestTypes
    <3>3. TrackerExact'
      <4>1. proxy' = proxy BY <1>1 DEF poolVars
      <4>. QED BY <3>1, <4>1, ReleaseCounts DEF TrackerExact, Busy
    <3>4. Drained => Drained' BY <3>1 DEF Drained, TypeInv, RequestTypes
    <3>5. proxy # 0 => counts' # <<>> BY <3>1, ReleaseCounts DEF RequestInv
    <3>6. counts = [i \in Index |-> 0] => counts' = counts BY <3>1, ReleaseCounts
    <3>. QED BY <1>1, <3>2, <3>3, <3>4, <3>5, <3>6 DEF RequestInv, jobVars, poolVars
  <2>. QED BY <2>1, <2>2
<1>. QED BY <1>2, <1>3, <1>4 DEF TypeInv

-----------------------------------------------------------------------------
(* Symlinks *)

(* Cardinalities of sets of links.                                           *)
LEMMA LinkCounts ==
  /\ Cardinality(Links) \in Nat
  /\ \A S \in SUBSET Links : Cardinality(S) \in Nat /\ Cardinality(S) <= Cardinality(Links)
  /\ \A S, T \in SUBSET Links : S \subseteq T =>
       Cardinality(S) <= Cardinality(T) /\ (S # T => Cardinality(S) + 1 <= Cardinality(T))
<1>1. Cardinality(Links) \in Nat BY SetsAreFinite, FS_CardinalityType
<1>2. ASSUME NEW S \in SUBSET Links
      PROVE  IsFiniteSet(S) /\ Cardinality(S) \in Nat /\ Cardinality(S) <= Cardinality(Links)
  BY SetsAreFinite, FS_Subset, FS_CardinalityType
<1>3. ASSUME NEW S \in SUBSET Links, NEW T \in SUBSET Links, S \subseteq T
      PROVE  Cardinality(S) <= Cardinality(T) /\ (S # T => Cardinality(S) + 1 <= Cardinality(T))
  <2>1. S \in SUBSET T /\ IsFiniteSet(T) /\ Cardinality(S) \in Nat /\ Cardinality(T) \in Nat
    BY <1>2, <1>3
  <2>2. Cardinality(S) <= Cardinality(T) /\ (Cardinality(T) = Cardinality(S) => T = S)
    BY <2>1, FS_Subset
  <2>. QED BY <2>1, <2>2
<1>. QED BY <1>1, <1>2, <1>3

(* A timer is set only for links that are new.                               *)
LEMMA AllowKeeps ==
  ASSUME TypeInv, BudgetInv, NEW found \in SUBSET Links, Allow(found),
         UNCHANGED <<at, pools, starts>>
  PROVE  /\ allowlist' = allowlist \cup found /\ allowlist' \subseteq Links
         /\ timer' \in BOOLEAN /\ BudgetInv'
<1>1. allowlist' = allowlist \cup found /\ allowlist' \in SUBSET Links /\ allowlist \in SUBSET Links
  BY DEF Allow, TypeInv, LinkTypes
<1>2. timer' \in BOOLEAN BY DEF Allow, TypeInv, LinkTypes
<1>3. /\ Cardinality(allowlist) \in Nat /\ Cardinality(allowlist') \in Nat
      /\ Cardinality(allowlist) <= Cardinality(allowlist')
      /\ allowlist # allowlist' => Cardinality(allowlist) + 1 <= Cardinality(allowlist')
  BY <1>1, LinkCounts
<1>4. One(timer') <= One(timer) + (IF allowlist = allowlist' THEN 0 ELSE 1)
  <2>1. found \subseteq allowlist => (timer' <=> timer) BY Zenon DEF Allow
  <2>2. CASE found \subseteq allowlist BY <1>1, <2>1, <2>2 DEF One
  <2>3. CASE ~(found \subseteq allowlist) BY <1>1, <2>3 DEF One
  <2>. QED BY <2>2, <2>3
<1>5. One(timer) \in Nat /\ One(timer') \in Nat BY DEF One
<1>6. BudgetInv'
  <2>1. SUFFICES ASSUME at["stop"] # "closing"
                 PROVE  pools + Pending' <= starts + Cardinality(allowlist')
    BY DEF BudgetInv
  <2>. DEFINE a == One(at["startup"] \in {"prepare", "ports"})
              b == One(at["restart"] \in {"closing", "stopping", "ports"})
  <2>2. a \in Nat /\ b \in Nat BY DEF One
  <2>3. Pending = a + b + One(timer) /\ Pending' = a + b + One(timer') BY DEF Pending
  <2>4. pools + (a + b + One(timer)) <= starts + Cardinality(allowlist)
    BY <2>1, <2>3 DEF BudgetInv
  <2>5. pools \in Nat /\ starts \in Nat
    BY LinkCounts, BoundsAreNat DEF TypeInv, JobTypes
  <2>. HIDE DEF a, b
  <2>. QED BY <1>3, <1>4, <1>5, <2>2, <2>3, <2>4, <2>5
<1>. QED BY <1>1, <1>2, <1>6

(* The links that were found late stay on their way to the allowlist.        *)
LEMMA LinkStep ==
  ASSUME Inv, \/ \E l \in Links : LinkAppears(l) \/ LinkSeen(l)
              \/ WatcherScanned \/ WatcherFails \/ WatcherHeals \/ Reconcile
  PROVE  Inv'
<1>. USE DEF Inv
<1>1. UNCHANGED <<jobVars, poolVars, requestVars>> /\ due' = due /\ disk \subseteq disk'
  BY DEF LinkAppears, LinkSeen, WatcherScanned, WatcherFails, WatcherHeals, Reconcile
<1>2. JobTypes' /\ PoolTypes' /\ RequestTypes'
  <2>1. JobTypes' BY <1>1, KeepJobTypes DEF TypeInv
  <2>2. PoolTypes' BY <1>1, KeepPoolTypes DEF TypeInv, jobVars, poolVars
  <2>3. RequestTypes' BY <1>1, KeepRequestTypes DEF TypeInv
  <2>. QED BY <2>1, <2>2, <2>3
<1>3. JobsInv' /\ StopInv' /\ RequestInv' /\ (IF Up THEN PoolInv ELSE alive = {})'
  <2>1. JobsInv' BY <1>1, KeepJobs DEF jobVars, poolVars
  <2>2. StopInv' BY <1>1, KeepStop DEF jobVars, poolVars
  <2>3. RequestInv' BY <1>1, KeepRequests DEF jobVars, poolVars, requestVars
  <2>4. (IF Up THEN PoolInv ELSE alive = {})' BY <1>1, KeepUp DEF jobVars, poolVars
  <2>. QED BY <2>1, <2>2, <2>3, <2>4
<1>f. UNCHANGED <<at, pools, starts, alive, grants>> BY <1>1 DEF jobVars, poolVars
<1>4. LinkTypes' /\ BudgetInv' /\ LinkInv'
  <2>1. ASSUME NEW l \in Links, LinkAppears(l) PROVE LinkTypes' /\ BudgetInv' /\ LinkInv'
    <3>1. LinkTypes' BY <2>1 DEF LinkAppears, TypeInv, LinkTypes
    <3>2. BudgetInv' BY <1>f, <2>1, KeepBudget DEF LinkAppears
    <3>. QED BY <1>f, <2>1, <3>1, <3>2 DEF LinkAppears, LinkInv
  <2>2. ASSUME NEW l \in Links, LinkSeen(l) PROVE LinkTypes' /\ BudgetInv' /\ LinkInv'
    <3>1. Allow({l}) BY <2>2 DEF LinkSeen
    <3>2. allowlist' = allowlist \cup {l} /\ allowlist' \subseteq Links /\ timer' \in BOOLEAN
          /\ BudgetInv'
      BY <1>f, <3>1, AllowKeeps
    <3>3. LinkTypes' BY <2>2, <3>2 DEF LinkSeen, TypeInv, LinkTypes
    <3>. QED BY <1>f, <2>2, <3>2, <3>3 DEF LinkSeen, LinkInv
  <2>3. CASE WatcherScanned \/ WatcherFails \/ WatcherHeals
    <3>1. /\ UNCHANGED <<allowlist, timer, seen, disk, late, due>>
          /\ watch' \in {"scan", "on", "dead"} /\ failures' \in {failures, failures + 1}
          /\ failures' # failures => failures < MaxFailures
          /\ \/ watch' = "dead" /\ reconcile' = reconcile
             \/ watch' # "dead" /\ watch # "dead" /\ reconcile' = reconcile
             \/ watch = "dead" /\ reconcile'
      BY <2>3 DEF WatcherScanned, WatcherFails, WatcherHeals, ReconcileAfterHeal
    <3>2. reconcile' \in BOOLEAN
      <4>1. CASE WatcherScanned \/ WatcherFails
        BY <4>1 DEF WatcherScanned, WatcherFails, TypeInv, LinkTypes
      <4>2. CASE WatcherHeals BY <4>2, Zenon DEF WatcherHeals
      <4>. QED BY <2>3, <4>1, <4>2
    <3>3. failures' \in 0..MaxFailures BY <3>1, BoundsAreNat DEF TypeInv, LinkTypes
    <3>4. LinkTypes' BY <3>1, <3>2, <3>3 DEF TypeInv, LinkTypes
    <3>5. BudgetInv' BY <1>f, <3>1, KeepBudget
    <3>6. LinkInv' BY <1>f, <3>1 DEF LinkInv
    <3>. QED BY <3>4, <3>5, <3>6
  <2>4. CASE Reconcile
    <3>1. Allow(disk) /\ disk \in SUBSET Links BY <2>4 DEF Reconcile, TypeInv, LinkTypes
    <3>2. allowlist' = allowlist \cup disk /\ allowlist' \subseteq Links
          /\ timer' \in BOOLEAN /\ BudgetInv'
      BY <1>f, <3>1, AllowKeeps
    <3>3. LinkTypes' BY <2>4, <3>2 DEF Reconcile, TypeInv, LinkTypes
    <3>. QED BY <1>f, <2>4, <3>2, <3>3 DEF Reconcile, LinkInv, TypeInv, LinkTypes
  <2>. QED BY <2>1, <2>2, <2>3, <2>4
<1>. QED BY <1>2, <1>3, <1>4 DEF TypeInv

-----------------------------------------------------------------------------
(* The end of the wrapper *)

(* The end of the wrapper ends every worker, and nothing else changes.       *)
LEMMA ExitKeeps == ASSUME Inv, Exit PROVE Inv'
<1>. USE DEF Inv
<1>1. wrapper' = "gone" /\ alive' = {} BY DEF Exit, KilledAtExit
<1>2. UNCHANGED <<at, building, pools, aborted, starts, phpProcess, current, proxy, grants,
                  dropped, runningConfig, linkVars, requestVars>>
  BY DEF Exit
<1>3. JobTypes' BY <1>1, <1>2 DEF TypeInv, JobTypes
<1>4. PoolTypes' BY <1>1, <1>2 DEF TypeInv, PoolTypes
<1>5. LinkTypes' BY <1>2, KeepLinkTypes DEF TypeInv
<1>6. RequestTypes' BY <1>2, KeepRequestTypes DEF TypeInv
<1>7. JobsInv' BY <1>2, KeepJobs
<1>8. RequestInv' BY <1>2, KeepRequests DEF requestVars
<1>9. StopInv' BY <1>2, KeepStop
<1>10. BudgetInv' BY <1>2, KeepBudget DEF linkVars
<1>11. LinkInv' BY <1>1, <1>2 DEF LinkInv, linkVars
<1>12. (IF Up THEN PoolInv ELSE alive = {})' BY <1>1 DEF Up
<1>. QED BY <1>3, <1>4, <1>5, <1>6, <1>7, <1>8, <1>9, <1>10, <1>11, <1>12 DEF TypeInv

-----------------------------------------------------------------------------
(* The startup *)

(* A job that goes to a stage leaves the other jobs where they are.          *)
LEMMA GotoFits ==
  ASSUME TypeInv, NEW k \in Jobs \cup {"stop"}, NEW s \in Stages, Goto(k, s)
  PROVE  /\ at' \in [Jobs \cup {"stop"} -> Stages] /\ at'[k] = s
         /\ \A m \in (Jobs \cup {"stop"}) \ {k} : at'[m] = at[m]
  BY DEF Goto, TypeInv, JobTypes

(* The counters are natural numbers, and a set of links has at most them all. *)
LEMMA Numbers ==
  ASSUME TypeInv
  PROVE  /\ pools \in Nat /\ starts \in Nat /\ MaxStarts \in Nat /\ MaxFailures \in Nat
         /\ Cardinality(Links) \in Nat /\ Cardinality(allowlist) \in Nat
         /\ Cardinality(allowlist) <= Cardinality(Links)
  BY LinkCounts, BoundsAreNat DEF TypeInv, JobTypes, LinkTypes

(* A step of the startup that leaves the pool alone.                         *)
LEMMA StartupKeeps ==
  ASSUME Inv, starts' <= 1, StartServer \/ CollectLinks \/ SetCredentials
  PROVE  Inv'
<1>. USE DEF Inv
<1>n. /\ pools \in Nat /\ starts \in Nat /\ MaxStarts \in Nat /\ Cardinality(allowlist) \in Nat
  BY Numbers
<1>1. CASE StartServer
  <2>1. Goto("startup", "prepare") /\ starts' = starts + 1 /\ starts < MaxStarts
        /\ at["startup"] = "idle" /\ aborted' = FALSE
        /\ UNCHANGED <<wrapper, building, pools, poolVars, linkVars, requestVars>>
    BY <1>1 DEF StartServer
  <2>2. starts = 0 /\ at["restart"] = "idle" /\ pools = 0 BY <1>n, <2>1 DEF JobsInv
  <2>3. /\ at' \in [Jobs \cup {"stop"} -> Stages] /\ at'["startup"] = "prepare"
        /\ at'["restart"] = "idle" /\ at'["stop"] = at["stop"]
    BY <2>1, <2>2, GotoFits DEF Jobs, Stages
  <2>4. JobTypes'
    <3>1. aborted' \in BOOLEAN BY <2>1, Zenon
    <3>2. starts' \in 0..MaxStarts BY <1>n, <2>1
    <3>. QED BY <2>1, <2>3, <3>1, <3>2 DEF TypeInv, JobTypes, StartupStages, RestartStages
  <2>5. PoolTypes' BY <2>1, KeepPoolTypes DEF TypeInv, poolVars
  <2>6. LinkTypes' BY <2>1, KeepLinkTypes DEF TypeInv
  <2>7. RequestTypes' BY <2>1, KeepRequestTypes DEF TypeInv
  <2>8. phpProcess = 0 /\ proxy = 0 /\ current = 0 BY <2>2 DEF JobsInv
  <2>9. JobsInv' BY <1>n, <2>1, <2>2, <2>3, <2>8 DEF JobsInv, poolVars, Jobs, Early, Between
  <2>10. RequestInv'
    BY <1>n, <2>1, <2>2, <2>3
       DEF RequestInv, TrackerExact, Drained, poolVars, requestVars, Jobs, Between
  <2>11. StopInv' BY <2>2, <2>3 DEF StopInv
  <2>12. BudgetInv'
    <3>1. Pending' = Pending + 1
      BY <2>1, <2>2, <2>3 DEF Pending, One, linkVars, TypeInv, LinkTypes
    <3>2. Pending \in Nat BY DEF Pending, One
    <3>. QED BY <1>n, <2>1, <2>3, <3>1, <3>2 DEF BudgetInv, linkVars
  <2>13. LinkInv' BY <2>1, <2>3, <2>2 DEF LinkInv, linkVars, poolVars
  <2>14. (IF Up THEN PoolInv ELSE alive = {})'
    BY <2>1, <2>2, <2>3, <2>8 DEF Up, PoolInv, poolVars, Jobs, WorkersOf
  <2>. QED BY <2>4, <2>5, <2>6, <2>7, <2>9, <2>10, <2>11, <2>12, <2>13, <2>14 DEF TypeInv
<1>2. CASE CollectLinks
  <2>1. Goto("startup", "ports") /\ at["startup"] = "prepare"
        /\ runningConfig' = TRUE /\ allowlist' = allowlist \cup disk
        /\ UNCHANGED <<wrapper, building, pools, aborted, starts, phpProcess, current, proxy, alive,
                       grants, dropped, timer, watch, reconcile, seen, disk, failures, late, due,
                       requestVars>>
    BY <1>2 DEF CollectLinks
  <2>2. at["restart"] = "idle" /\ pools = 0 /\ starts # 0 BY <2>1 DEF JobsInv, Early
  <2>3. /\ at' \in [Jobs \cup {"stop"} -> Stages] /\ at'["startup"] = "ports"
        /\ at'["restart"] = "idle" /\ at'["stop"] = at["stop"]
    BY <2>1, <2>2, GotoFits DEF Jobs, Stages
  <2>4. JobTypes' BY <2>1, <2>3 DEF TypeInv, JobTypes, StartupStages, RestartStages
  <2>5. PoolTypes' BY <2>1 DEF TypeInv, PoolTypes
  <2>6. LinkTypes' BY <2>1 DEF TypeInv, LinkTypes
  <2>7. RequestTypes' BY <2>1, KeepRequestTypes DEF TypeInv
  <2>8. JobsInv' BY <2>1, <2>2, <2>3 DEF JobsInv, Jobs, Early, Between
  <2>9. RequestInv'
    BY <2>1, <2>2, <2>3 DEF RequestInv, TrackerExact, Drained, requestVars, Jobs, Early, Between
  <2>10. at["stop"] # "closing" BY <2>1 DEF StopInv, Early
  <2>11. StopInv' BY <2>3, <2>10 DEF StopInv
  <2>12. BudgetInv'
    <3>1. allowlist' \in SUBSET Links /\ allowlist \in SUBSET Links
          /\ allowlist \subseteq allowlist'
      BY <2>1 DEF TypeInv, LinkTypes
    <3>2. Cardinality(allowlist) <= Cardinality(allowlist') /\ Cardinality(allowlist') \in Nat
      BY <3>1, LinkCounts
    <3>3. Pending' = Pending BY <2>1, <2>2, <2>3 DEF Pending, One
    <3>4. Pending \in Nat BY DEF Pending, One
    <3>. QED BY <1>n, <2>1, <2>10, <3>2, <3>3, <3>4 DEF BudgetInv
  <2>13. LinkInv' BY <2>1, <2>2, <2>3, <2>10 DEF LinkInv
  <2>14. (IF Up THEN PoolInv ELSE alive = {})'
    BY <2>1, <2>2, <2>3 DEF Up, PoolInv, Jobs, WorkersOf
  <2>. QED BY <2>4, <2>5, <2>6, <2>7, <2>8, <2>9, <2>11, <2>12, <2>13, <2>14 DEF TypeInv
<1>3. CASE SetCredentials
  <2>1. Goto("startup", "idle") /\ at["startup"] = "credentials"
        /\ UNCHANGED <<wrapper, building, pools, aborted, starts, poolVars, linkVars, requestVars>>
    BY <1>3 DEF SetCredentials
  <2>2. starts # 0 BY <2>1 DEF JobsInv
  <2>3. /\ at' \in [Jobs \cup {"stop"} -> Stages] /\ at'["startup"] = "idle"
        /\ at'["restart"] = at["restart"] /\ at'["stop"] = at["stop"]
    BY <2>1, GotoFits DEF Jobs, Stages
  <2>4. JobTypes' BY <2>1, <2>3 DEF TypeInv, JobTypes, StartupStages
  <2>5. PoolTypes' BY <2>1, KeepPoolTypes DEF TypeInv, poolVars
  <2>6. LinkTypes' BY <2>1, KeepLinkTypes DEF TypeInv
  <2>7. RequestTypes' BY <2>1, KeepRequestTypes DEF TypeInv
  <2>8. JobsInv' BY <2>1, <2>2, <2>3 DEF JobsInv, poolVars, Jobs, Early, Between
  <2>9. RequestInv'
    BY <2>1, <2>2, <2>3
       DEF RequestInv, TrackerExact, Drained, poolVars, requestVars, Jobs, Early
  <2>10. StopInv' BY <2>1, <2>3 DEF StopInv, poolVars, Early
  <2>11. BudgetInv' BY <2>1, <2>3 DEF BudgetInv, Pending, One, linkVars
  <2>12. LinkInv' BY <2>1, <2>3 DEF LinkInv, linkVars, poolVars
  <2>13. (IF Up THEN PoolInv ELSE alive = {})'
    BY <2>1, <2>2, <2>3 DEF Up, PoolInv, poolVars, Jobs, WorkersOf
  <2>. QED BY <2>4, <2>5, <2>6, <2>7, <2>8, <2>9, <2>10, <2>11, <2>12, <2>13 DEF TypeInv
<1>. QED BY <1>1, <1>2, <1>3

-----------------------------------------------------------------------------
(* The pool *)

(* The job that starts a pool is alone: no server, no request, and no stop   *)
(* that took a server down.                                                  *)
LEMMA StarterIsAlone ==
  ASSUME Inv, NEW j \in Jobs, at[j] \in {"ports", "spawn", "ready"}
  PROVE  /\ phpProcess = 0 /\ current = 0 /\ proxy = 0 /\ Drained /\ starts # 0
         /\ at["stop"] # "closing"
         /\ \A k \in Jobs \ {j} : at[k] \in {"idle", "credentials"}
  BY DEF Inv, Jobs, JobsInv, RequestInv, StopInv, Early, Between, TypeInv, JobTypes,
         StartupStages, RestartStages

(* The first worker of a new pool is spawned when no other one lives.        *)
LEMMA SpawnFirstKeeps == ASSUME Inv, NEW j \in Jobs, SpawnFirst(j) PROVE Inv'
<1>. USE DEF Inv
<1>. DEFINE next == IF 1 = PoolSize THEN "ready" ELSE "spawn"
            w == <<pools + 1, 1>>
<1>1. /\ at[j] = "ports" /\ pools' = pools + 1 /\ building' = [building EXCEPT ![j] = pools + 1]
      /\ counts' = [i \in Index |-> 0] /\ alive' = alive \cup {w}
      /\ grants' = [grants EXCEPT ![w] = allowlist] /\ Goto(j, next) /\ Up
      /\ UNCHANGED <<wrapper, aborted, starts, phpProcess, current, proxy, dropped, runningConfig,
                     linkVars, open, released>>
  BY DEF SpawnFirst, Spawn, Granted, Building
<1>2. /\ phpProcess = 0 /\ current = 0 /\ proxy = 0 /\ Drained /\ starts # 0
      /\ at["stop"] # "closing" /\ \A k \in Jobs \ {j} : at[k] \in {"idle", "credentials"}
  BY <1>1, StarterIsAlone
<1>3. /\ at' \in [Jobs \cup {"stop"} -> Stages] /\ at'[j] = next
      /\ \A m \in (Jobs \cup {"stop"}) \ {j} : at'[m] = at[m]
  BY <1>1, GotoFits DEF Stages
<1>4. next \in {"ready", "spawn"} OBVIOUS
<1>5. /\ pools \in Nat /\ starts \in Nat /\ Cardinality(allowlist) \in Nat /\ PoolSize \in Nat \ {0}
      /\ MaxStarts \in Nat /\ Cardinality(Links) \in Nat
      /\ Cardinality(allowlist) <= Cardinality(Links)
  BY Numbers, PoolIsNotEmpty
<1>6. alive = {} BY <1>1 DEF PoolInv, Jobs
<1>. HIDE DEF next
<1>7. BudgetInv' /\ pools + 1 <= MaxStarts + Cardinality(Links)
  <2>1. Pending = Pending' + 1
    <3>1. CASE j = "startup" BY <1>1, <1>2, <1>3, <1>4, <3>1 DEF Pending, One, Jobs, linkVars
    <3>2. CASE j = "restart" BY <1>1, <1>2, <1>3, <1>4, <3>2 DEF Pending, One, Jobs, linkVars
    <3>. QED BY <3>1, <3>2 DEF Jobs
  <2>2. Pending' \in Nat BY DEF Pending, One
  <2>3. pools + Pending <= starts + Cardinality(allowlist) BY <1>2 DEF BudgetInv
  <2>4. starts <= MaxStarts BY DEF TypeInv, JobTypes
  <2>. QED BY <1>1, <1>5, <2>1, <2>2, <2>3, <2>4 DEF BudgetInv, linkVars
<1>8. JobTypes'
  <2>1. building' \in [Jobs -> 0..pools'] BY <1>1, <1>5 DEF TypeInv, JobTypes
  <2>2. at'["startup"] \in StartupStages /\ at'["restart"] \in RestartStages
        /\ at'["stop"] \in {"idle", "watcher", "closing"}
    BY <1>3, <1>4 DEF TypeInv, JobTypes, Jobs, StartupStages, RestartStages
  <2>3. pools' \in 0..(MaxStarts + Cardinality(Links)) BY <1>1, <1>5, <1>7
  <2>. QED BY <1>1, <1>3, <2>1, <2>2, <2>3 DEF TypeInv, JobTypes
<1>9. PoolTypes'
  <2>1. w \in (1..pools') \X Index BY <1>1, <1>5 DEF Index
  <2>2. alive' \subseteq (1..pools') \X Index BY <1>1, <1>6, <2>1
  <2>3. dropped' \subseteq (1..pools') \X Index BY <1>1, <1>5 DEF TypeInv, PoolTypes
  <2>4. grants' \in [Worker -> SUBSET Links] BY <1>1 DEF TypeInv, PoolTypes, LinkTypes
  <2>. QED BY <1>1, <2>2, <2>3, <2>4 DEF TypeInv, PoolTypes
<1>10. LinkTypes' BY <1>1, KeepLinkTypes DEF TypeInv
<1>11. counts' \in Counts
  BY <1>1, SetsAreFinite, FS_CardinalityType DEF Counts
<1>12. RequestTypes' BY <1>1, <1>11 DEF TypeInv, RequestTypes
<1>13. JobsInv'
  <2>1. CASE j = "startup"
    BY <1>1, <1>2, <1>3, <1>4, <1>5, <2>1 DEF JobsInv, Jobs, Early, Between, TypeInv, JobTypes
  <2>2. CASE j = "restart"
    BY <1>1, <1>2, <1>3, <1>4, <1>5, <2>2 DEF JobsInv, Jobs, Early, Between, TypeInv, JobTypes
  <2>. QED BY <2>1, <2>2 DEF Jobs
<1>14. RequestInv' BY <1>1, <1>2, <1>3 DEF RequestInv, TrackerExact, Drained
<1>15. StopInv' BY <1>2, <1>3 DEF StopInv, Jobs
<1>16. w \in Worker BY <1>5, <1>7, BoundsAreNat DEF Worker, Pools, Index
<1>17. LinkInv'
  <2>1. alive' = {w} BY <1>1, <1>6
  <2>2. grants'[w] = allowlist BY <1>1, <1>16 DEF TypeInv, PoolTypes
  <2>3. due \subseteq allowlist BY <1>2 DEF LinkInv
  <2>. QED BY <1>1, <1>2, <1>3, <2>1, <2>2, <2>3 DEF LinkInv, linkVars, Jobs
<1>18. PoolInv'
  <2>1. WorkersOf(pools)' = {pools + 1} \X (1..PoolSize) BY <1>1 DEF WorkersOf, Index
  <2>2. alive' = {pools + 1} \X (1..1) BY <1>1, <1>6
  <2>3. alive' \subseteq WorkersOf(pools)' BY <1>5, <2>1, <2>2
  <2>4. \A k \in Jobs : at'[k] \notin {"prepare", "ports", "check"}
        /\ (k # j => at'[k] \notin {"spawn", "ready"})
    BY <1>2, <1>3, <1>4
  <2>5. dropped \cap WorkersOf(pools)' = {} BY <1>5, <2>1 DEF TypeInv, PoolTypes
  <2>6. PoolSize # 1 => at'[j] = "spawn" /\ 1 \in Index BY <1>3, <1>5 DEF next, Index
  <2>7. PoolSize = 1 => at'[j] = "ready" /\ alive' = WorkersOf(pools)' BY <1>3, <2>1, <2>2 DEF next
  <2>8. \A k \in Jobs : at'[k] = "spawn" =>
        \E n \in Index : n # PoolSize /\ alive' = {pools'} \X (1..n)
    BY <1>1, <2>2, <2>4, <2>6, <2>7
  <2>9. (\E k \in Jobs : at'[k] = "ready") => alive' = WorkersOf(pools)' BY <2>4, <2>6, <2>7
  <2>10. starts' # 0 /\ phpProcess' = 0 /\ at'["restart"] # "closing"
    BY <1>1, <1>2, <1>3, <1>4 DEF Jobs
  <2>. QED BY <1>1, <2>3, <2>4, <2>5, <2>8, <2>9, <2>10 DEF PoolInv, Jobs
<1>19. (IF Up THEN PoolInv ELSE alive = {})' BY <1>1, <1>18 DEF Up
<1>. QED BY <1>7, <1>8, <1>9, <1>10, <1>12, <1>13, <1>14, <1>15, <1>17, <1>19 DEF TypeInv

(* The next worker of the pool being built is spawned.                       *)
LEMMA SpawnNextKeeps == ASSUME Inv, NEW j \in Jobs, SpawnNext(j) PROVE Inv'
<1>. USE DEF Inv
<1>1. PICK i \in Index :
        /\ <<building[j], i - 1>> \in alive /\ <<building[j], i>> \notin alive
        /\ Spawn(j, building[j], i)
  BY DEF SpawnNext
<1>. DEFINE next == IF i = PoolSize THEN "ready" ELSE "spawn"
            w == <<pools, i>>
<1>2. at[j] = "spawn" /\ building[j] = pools /\ pools # 0 BY DEF SpawnNext, JobsInv
<1>3. /\ alive' = alive \cup {w} /\ grants' = [grants EXCEPT ![w] = allowlist]
      /\ Goto(j, next) /\ Up
      /\ UNCHANGED <<wrapper, building, pools, aborted, starts, phpProcess, current, proxy, dropped,
                     runningConfig, linkVars, requestVars>>
  BY <1>1, <1>2 DEF SpawnNext, Spawn, Granted, Building
<1>4. /\ phpProcess = 0 /\ current = 0 /\ proxy = 0 /\ Drained /\ starts # 0
      /\ at["stop"] # "closing" /\ \A k \in Jobs \ {j} : at[k] \in {"idle", "credentials"}
  BY <1>2, StarterIsAlone
<1>5. /\ at' \in [Jobs \cup {"stop"} -> Stages] /\ at'[j] = next
      /\ \A m \in (Jobs \cup {"stop"}) \ {j} : at'[m] = at[m]
  BY <1>3, GotoFits DEF Stages
<1>6. next \in {"ready", "spawn"} OBVIOUS
<1>7. pools \in Nat /\ starts \in Nat /\ PoolSize \in Nat \ {0} BY Numbers, PoolIsNotEmpty
<1>8. i \in 1..PoolSize BY DEF Index
(* The workers are spawned in order, and none has exited: i comes next.      *)
<1>9. alive = {pools} \X (1..(i - 1)) /\ i - 1 \in Index
  <2>1. PICK n \in Index : n # PoolSize /\ alive = {pools} \X (1..n)
    BY <1>2, <1>3 DEF PoolInv
  <2>2. i - 1 \in 1..n /\ i \notin 1..n BY <1>1, <1>2, <2>1
  <2>3. n = i - 1 BY <1>8, <2>1, <2>2 DEF Index
  <2>. QED BY <2>1, <2>3
<1>10. alive' = {pools} \X (1..i) BY <1>3, <1>8, <1>9
<1>. HIDE DEF next
<1>11. JobTypes'
  <2>1. at'["startup"] \in StartupStages /\ at'["restart"] \in RestartStages
        /\ at'["stop"] \in {"idle", "watcher", "closing"}
    BY <1>5, <1>6 DEF TypeInv, JobTypes, Jobs, StartupStages, RestartStages
  <2>. QED BY <1>3, <1>5, <2>1 DEF TypeInv, JobTypes
<1>12. PoolTypes'
  <2>1. w \in (1..pools) \X Index BY <1>2, <1>7
  <2>. QED BY <1>3, <2>1 DEF TypeInv, PoolTypes, LinkTypes
<1>13. LinkTypes' BY <1>3, KeepLinkTypes DEF TypeInv
<1>14. RequestTypes' BY <1>3, KeepRequestTypes DEF TypeInv
<1>15. JobsInv'
  <2>1. CASE j = "startup"
    BY <1>2, <1>3, <1>4, <1>5, <1>6, <1>7, <2>1 DEF JobsInv, Jobs, Early, Between, TypeInv, JobTypes
  <2>2. CASE j = "restart"
    BY <1>2, <1>3, <1>4, <1>5, <1>6, <1>7, <2>2 DEF JobsInv, Jobs, Early, Between, TypeInv, JobTypes
  <2>. QED BY <2>1, <2>2 DEF Jobs
<1>16. RequestInv'
  <2>1. counts' = counts /\ counts = [k \in Index |-> 0] BY <1>2, <1>3 DEF RequestInv, requestVars
  <2>. QED BY <1>3, <1>4, <2>1 DEF RequestInv, TrackerExact, Drained, requestVars
<1>17. StopInv' BY <1>4, <1>5 DEF StopInv, Jobs
<1>18. BudgetInv'
  <2>1. Pending = Pending'
    <3>1. CASE j = "startup" BY <1>2, <1>3, <1>5, <1>6, <3>1 DEF Pending, One, Jobs, linkVars
    <3>2. CASE j = "restart" BY <1>2, <1>3, <1>5, <1>6, <3>2 DEF Pending, One, Jobs, linkVars
    <3>. QED BY <3>1, <3>2 DEF Jobs
  <2>. QED BY <1>3, <1>4, <2>1 DEF BudgetInv, linkVars
<1>19. LinkInv'
  <2>1. at["restart"] \notin {"closing", "stopping"} BY <1>2, <1>4 DEF Jobs
  <2>2. w \in Worker
    BY <1>2, <1>7, LinkCounts, BoundsAreNat DEF Worker, Pools, TypeInv, JobTypes
  <2>3. grants'[w] = allowlist BY <1>3, <2>2 DEF TypeInv, PoolTypes
  <2>4. due \subseteq allowlist BY <1>4 DEF LinkInv
  <2>5. \A v \in alive' : due \subseteq grants'[v]
    BY <1>3, <2>1, <2>3, <2>4 DEF LinkInv, TypeInv, PoolTypes
  <2>. QED BY <1>3, <1>4, <1>5, <2>4, <2>5 DEF LinkInv, linkVars, Jobs
<1>20. PoolInv'
  <2>1. WorkersOf(pools)' = {pools} \X (1..PoolSize) /\ WorkersOf(pools)' = WorkersOf(pools)
    BY <1>3 DEF WorkersOf, Index
  <2>2. alive' \subseteq WorkersOf(pools)'
    <3>1. 1..i \subseteq 1..PoolSize BY <1>7, <1>8
    <3>. QED BY <1>10, <2>1, <3>1
  <2>3. \A k \in Jobs : at'[k] \notin {"prepare", "ports", "check"}
        /\ (k # j => at'[k] \notin {"spawn", "ready"})
    BY <1>4, <1>5, <1>6
  <2>4. dropped \cap WorkersOf(pools) = {} BY <1>2, <1>3, <1>4 DEF PoolInv, Jobs
  <2>5. i # PoolSize => at'[j] = "spawn" BY <1>5 DEF next
  <2>6. i = PoolSize => at'[j] = "ready" /\ alive' = WorkersOf(pools)' BY <1>5, <1>10, <2>1 DEF next
  <2>7. \A k \in Jobs : at'[k] = "spawn" =>
        \E n \in Index : n # PoolSize /\ alive' = {pools'} \X (1..n)
    BY <1>3, <1>10, <2>3, <2>6
  <2>8. (\E k \in Jobs : at'[k] = "ready") => alive' = WorkersOf(pools)' BY <2>3, <2>5, <2>6
  <2>9. starts' # 0 /\ phpProcess' = 0 /\ at'["restart"] # "closing"
    BY <1>3, <1>4, <1>5, <1>6 DEF Jobs
  <2>. QED BY <1>3, <2>1, <2>2, <2>3, <2>4, <2>7, <2>8, <2>9 DEF PoolInv, Jobs
<1>21. (IF Up THEN PoolInv ELSE alive = {})' BY <1>3, <1>20 DEF Up
<1>. QED BY <1>11, <1>12, <1>13, <1>14, <1>15, <1>16, <1>17, <1>18, <1>19, <1>21 DEF TypeInv

(* The proxy starts with no request open and a tracker that counts none.     *)
LEMMA ListenKeeps == ASSUME Inv, NEW j \in Jobs, Listen(j) PROVE Inv'
<1>. USE DEF Inv
<1>1. /\ at[j] = "ready" /\ proxy' = building[j] /\ current' = building[j] /\ Goto(j, "check")
      /\ UNCHANGED <<wrapper, building, pools, aborted, starts, phpProcess, alive, grants, dropped,
                     runningConfig, linkVars, requestVars>>
  BY DEF Listen
<1>2. building[j] = pools /\ pools # 0 BY <1>1 DEF JobsInv
<1>3. /\ phpProcess = 0 /\ current = 0 /\ proxy = 0 /\ Drained /\ starts # 0
      /\ at["stop"] # "closing" /\ \A k \in Jobs \ {j} : at[k] \in {"idle", "credentials"}
  BY <1>1, StarterIsAlone
<1>4. /\ at' \in [Jobs \cup {"stop"} -> Stages] /\ at'[j] = "check"
      /\ \A m \in (Jobs \cup {"stop"}) \ {j} : at'[m] = at[m]
  BY <1>1, GotoFits DEF Stages
<1>5. pools \in Nat /\ starts \in Nat /\ PoolSize \in Nat \ {0} BY Numbers, PoolIsNotEmpty
<1>6. JobTypes'
  <2>1. at'["startup"] \in StartupStages /\ at'["restart"] \in RestartStages
        /\ at'["stop"] \in {"idle", "watcher", "closing"}
    BY <1>4 DEF TypeInv, JobTypes, Jobs, StartupStages, RestartStages
  <2>. QED BY <1>1, <1>4, <2>1 DEF TypeInv, JobTypes
<1>7. PoolTypes' BY <1>1, KeepPoolTypes DEF TypeInv
<1>8. LinkTypes' BY <1>1, KeepLinkTypes DEF TypeInv
<1>9. RequestTypes' BY <1>1, KeepRequestTypes DEF TypeInv
<1>10. JobsInv'
  <2>1. CASE j = "startup"
    BY <1>1, <1>2, <1>3, <1>4, <1>5, <2>1 DEF JobsInv, Jobs, Early, Between, TypeInv, JobTypes
  <2>2. CASE j = "restart"
    BY <1>1, <1>2, <1>3, <1>4, <1>5, <2>2 DEF JobsInv, Jobs, Early, Between, TypeInv, JobTypes
  <2>. QED BY <2>1, <2>2 DEF Jobs
<1>11. RequestInv'
  <2>1. counts' = counts /\ counts = [k \in Index |-> 0] /\ open' = open /\ released' = released
    BY <1>1 DEF RequestInv, requestVars
  <2>2. \A i \in Index : Busy(i)' = {} BY <1>3, <2>1 DEF Busy, Drained, Index
  <2>3. TrackerExact' BY <2>1, <2>2, FS_EmptySet DEF TrackerExact, Busy
  <2>4. counts # <<>> BY <1>5, <2>1 DEF Index
  <2>. QED BY <1>3, <2>1, <2>3, <2>4 DEF RequestInv, Drained
<1>12. StopInv' BY <1>3, <1>4 DEF StopInv, Jobs
<1>13. BudgetInv'
  <2>1. Pending = Pending'
    <3>1. CASE j = "startup" BY <1>1, <1>4, <3>1 DEF Pending, One, Jobs, linkVars
    <3>2. CASE j = "restart" BY <1>1, <1>4, <3>2 DEF Pending, One, Jobs, linkVars
    <3>. QED BY <3>1, <3>2 DEF Jobs
  <2>. QED BY <1>1, <1>3, <2>1 DEF BudgetInv, linkVars
<1>14. LinkInv'
  <2>1. at["restart"] \notin {"closing", "stopping"} BY <1>1, <1>3 DEF Jobs
  <2>. QED BY <1>1, <1>3, <1>4, <2>1 DEF LinkInv, linkVars, Jobs
<1>15. (IF Up THEN PoolInv ELSE alive = {})'
  <2>1. Up /\ PoolInv BY DEF Listen, Building
  <2>2. at["restart"] \notin {"closing", "stopping", "ports"} BY <1>1, <1>3 DEF Jobs
  <2>3. at["startup"] \notin {"prepare", "ports"} BY <1>1, <1>3 DEF Jobs
  <2>4. \A k \in Jobs : at'[k] \notin {"spawn", "ready", "ports", "prepare", "closing", "stopping"}
    BY <1>3, <1>4
  <2>5. alive = WorkersOf(pools) BY <1>1, <2>1 DEF PoolInv
  <2>. QED BY <1>1, <1>3, <2>1, <2>2, <2>4, <2>5 DEF Up, PoolInv, Jobs, WorkersOf
<1>. QED BY <1>6, <1>7, <1>8, <1>9, <1>10, <1>11, <1>12, <1>13, <1>14, <1>15 DEF TypeInv

(* The check of the site passed: the new pool is the server that runs.       *)
LEMMA ServedKeeps == ASSUME Inv, NEW j \in Jobs, Served(j) PROVE Inv'
<1>. USE DEF Inv
<1>. DEFINE next == IF j = "startup" THEN "credentials" ELSE "idle"
<1>1. /\ at[j] = "check" /\ watch' = (IF watch = "off" THEN "scan" ELSE watch)
      /\ phpProcess' = building[j] /\ building' = [building EXCEPT ![j] = 0] /\ Goto(j, next)
      /\ UNCHANGED <<wrapper, pools, aborted, starts, current, proxy, alive, grants, dropped,
                     runningConfig, allowlist, timer, reconcile, seen, disk, failures, late, due,
                     requestVars>>
  BY DEF Served
<1>2. building[j] = pools /\ pools # 0 /\ phpProcess = 0 /\ starts # 0
  BY <1>1 DEF JobsInv, Jobs
<1>3. \A k \in Jobs \ {j} : at[k] \in {"idle", "credentials"}
  BY <1>1 DEF Jobs, JobsInv, Early, TypeInv, JobTypes, StartupStages
<1>4. /\ at' \in [Jobs \cup {"stop"} -> Stages] /\ at'[j] = next
      /\ \A m \in (Jobs \cup {"stop"}) \ {j} : at'[m] = at[m]
  BY <1>1, GotoFits DEF Stages
<1>5. pools \in Nat /\ starts \in Nat BY Numbers
<1>6. JobTypes'
  <2>1. at'["startup"] \in StartupStages /\ at'["restart"] \in RestartStages
        /\ at'["stop"] \in {"idle", "watcher", "closing"}
    BY <1>4 DEF TypeInv, JobTypes, Jobs, StartupStages, RestartStages
  <2>2. building' \in [Jobs -> 0..pools] BY <1>1, <1>5 DEF TypeInv, JobTypes
  <2>. QED BY <1>1, <1>4, <2>1, <2>2 DEF TypeInv, JobTypes
<1>7. PoolTypes' BY <1>1, KeepPoolTypes DEF TypeInv
<1>8. LinkTypes' BY <1>1 DEF TypeInv, LinkTypes
<1>9. RequestTypes' BY <1>1, KeepRequestTypes DEF TypeInv
<1>10. JobsInv'
  <2>1. CASE j = "startup"
    BY <1>1, <1>2, <1>3, <1>4, <1>5, <2>1 DEF JobsInv, Jobs, Early, Between, TypeInv, JobTypes
  <2>2. CASE j = "restart"
    BY <1>1, <1>2, <1>3, <1>4, <1>5, <2>2 DEF JobsInv, Jobs, Early, Between, TypeInv, JobTypes
  <2>. QED BY <2>1, <2>2 DEF Jobs
<1>11. RequestInv'
  <2>1. \A k \in Jobs : at'[k] \notin Early \cup Between
    BY <1>3, <1>4 DEF Early, Between
  <2>. QED BY <1>1, <1>2, <2>1 DEF RequestInv, TrackerExact, requestVars, Jobs, Early
<1>12. StopInv' BY <1>1, <1>3, <1>4 DEF StopInv, Jobs, Early, Between
<1>13. BudgetInv'
  <2>1. Pending = Pending'
    <3>1. CASE j = "startup" BY <1>1, <1>4, <3>1 DEF Pending, One, Jobs
    <3>2. CASE j = "restart" BY <1>1, <1>4, <3>2 DEF Pending, One, Jobs
    <3>. QED BY <3>1, <3>2 DEF Jobs
  <2>2. at'["stop"] = at["stop"] BY <1>4 DEF Jobs
  <2>. QED BY <1>1, <2>1, <2>2 DEF BudgetInv
<1>14. LinkInv'
  <2>1. at["restart"] \notin {"closing", "stopping"} BY <1>1, <1>3 DEF Jobs
  <2>2. at'["stop"] = at["stop"] BY <1>4 DEF Jobs
  <2>3. watch' = "dead" <=> watch = "dead" BY <1>1
  <2>. QED BY <1>1, <2>1, <2>2, <2>3 DEF LinkInv
<1>15. (IF Up THEN PoolInv ELSE alive = {})'
  <2>1. Up /\ PoolInv BY DEF Served, Building
  <2>2. at["restart"] \notin {"closing", "stopping", "ports"} BY <1>1, <1>3 DEF Jobs
  <2>3. \A k \in Jobs : at'[k] \in {"idle", "credentials"} BY <1>3, <1>4
  <2>4. alive = WorkersOf(pools) BY <1>1, <2>1 DEF PoolInv
  <2>. QED BY <1>1, <1>2, <2>1, <2>2, <2>3, <2>4 DEF Up, PoolInv, Jobs, WorkersOf
<1>. QED BY <1>6, <1>7, <1>8, <1>9, <1>10, <1>11, <1>12, <1>13, <1>14, <1>15 DEF TypeInv

-----------------------------------------------------------------------------
(* The restart *)

(* The debounce timer fires: a restart begins, or there is nothing to restart. *)
LEMMA TimerKeeps == ASSUME Inv, TimerFires PROVE Inv'
<1>. USE DEF Inv
<1>1. /\ timer /\ timer' = FALSE /\ (at["restart"] = "idle" \/ phpProcess = 0) /\ Up
      /\ UNCHANGED <<wrapper, pools, aborted, starts, alive, grants, dropped, runningConfig,
                     allowlist, watch, reconcile, seen, disk, failures, late, open, released>>
  BY DEF TimerFires
<1>2. timer' \in BOOLEAN BY <1>1, Zenon
<1>n. pools \in Nat /\ starts \in Nat /\ Cardinality(allowlist) \in Nat BY Numbers
<1>3. CASE phpProcess # 0 /\ runningConfig
  <2>1. /\ Goto("restart", "closing") /\ building' = [building EXCEPT !["restart"] = phpProcess]
        /\ due' = allowlist /\ phpProcess' = 0 /\ current' = 0 /\ proxy' = 0 /\ counts' = <<>>
    BY <1>3 DEF TimerFires, TakeDown
  <2>2. /\ at["restart"] = "idle" /\ phpProcess = pools /\ pools # 0 /\ starts # 0
        /\ at["startup"] \notin Early \cup {"check"} /\ at["stop"] # "closing"
    BY <1>1, <1>3 DEF JobsInv, StopInv
  <2>3. /\ at' \in [Jobs \cup {"stop"} -> Stages] /\ at'["restart"] = "closing"
        /\ at'["startup"] = at["startup"] /\ at'["stop"] = at["stop"]
    BY <2>1, GotoFits DEF Jobs, Stages
  <2>4. JobTypes'
    <3>1. building' \in [Jobs -> 0..pools] BY <1>n, <2>1, <2>2 DEF TypeInv, JobTypes, Jobs
    <3>. QED BY <1>1, <2>3, <3>1 DEF TypeInv, JobTypes, RestartStages
  <2>5. PoolTypes' BY <1>1, KeepPoolTypes DEF TypeInv
  <2>6. LinkTypes' BY <1>1, <1>2, <2>1 DEF TypeInv, LinkTypes
  <2>7. RequestTypes' BY <1>1, <2>1 DEF TypeInv, RequestTypes
  <2>8. JobsInv'
    BY <1>1, <2>1, <2>2, <2>3 DEF JobsInv, Jobs, Early, Between, TypeInv, JobTypes
  <2>9. RequestInv'
    BY <1>1, <2>1, <2>2, <2>3 DEF RequestInv, TrackerExact, Jobs, Early, Between
  <2>10. StopInv' BY <2>2, <2>3 DEF StopInv
  <2>11. BudgetInv'
    <3>1. Pending' = Pending
      BY <1>1, <2>2, <2>3 DEF Pending, One
    <3>. QED BY <1>1, <2>3, <3>1 DEF BudgetInv
  <2>12. LinkInv' BY <1>1, <2>1, <2>2, <2>3 DEF LinkInv
  <2>13. (IF Up THEN PoolInv ELSE alive = {})'
    BY <1>1, <1>3, <2>1, <2>2, <2>3 DEF Up, PoolInv, Jobs, WorkersOf, Early
  <2>. QED BY <2>4, <2>5, <2>6, <2>7, <2>8, <2>9, <2>10, <2>11, <2>12, <2>13 DEF TypeInv
<1>4. CASE ~(phpProcess # 0 /\ runningConfig)
  <2>1. UNCHANGED <<at, building, due, phpProcess, current, proxy, counts>>
    BY <1>4 DEF TimerFires
  <2>2. JobTypes' BY <1>1, <2>1, KeepJobTypes DEF TypeInv, jobVars
  <2>3. PoolTypes' BY <1>1, KeepPoolTypes DEF TypeInv
  <2>4. LinkTypes' BY <1>1, <1>2, <2>1 DEF TypeInv, LinkTypes
  <2>5. RequestTypes' BY <1>1, <2>1, KeepRequestTypes DEF TypeInv, requestVars
  <2>6. JobsInv' BY <1>1, <2>1, KeepJobs
  <2>7. RequestInv' BY <1>1, <2>1, KeepRequests
  <2>8. StopInv' BY <1>1, <2>1, KeepStop
  <2>9. BudgetInv'
    <3>1. Pending' + 1 = Pending BY <1>1, <2>1 DEF Pending, One
    <3>2. Pending' \in Nat BY DEF Pending, One
    <3>. QED BY <1>1, <1>n, <2>1, <3>1, <3>2 DEF BudgetInv
  <2>10. LinkInv' BY <1>1, <2>1 DEF LinkInv
  <2>11. (IF Up THEN PoolInv ELSE alive = {})' BY <1>1, <2>1, KeepUp
  <2>. QED BY <2>2, <2>3, <2>4, <2>5, <2>6, <2>7, <2>8, <2>9, <2>10, <2>11 DEF TypeInv
<1>. QED BY <1>3, <1>4

(* The proxy is closed with no request open, and the old workers are let go. *)
LEMMA ClosedKeeps == ASSUME Inv, RestartClosed PROVE Inv'
<1>. USE DEF Inv
<1>1. /\ Up /\ at["restart"] = "closing" /\ Drained /\ Goto("restart", "stopping")
      /\ dropped' = dropped \cup WorkersOf(building["restart"])
      /\ UNCHANGED <<wrapper, building, pools, aborted, starts, phpProcess, current, proxy, alive,
                     grants, runningConfig, linkVars, requestVars>>
  BY DEF RestartClosed, AfterClose
<1>2. /\ building["restart"] = pools /\ pools # 0 /\ phpProcess = 0 /\ proxy = 0 /\ current = 0
      /\ starts # 0 /\ at["startup"] \notin Early \cup {"check"} /\ at["stop"] # "closing"
  BY <1>1 DEF JobsInv, StopInv, Jobs
<1>3. /\ at' \in [Jobs \cup {"stop"} -> Stages] /\ at'["restart"] = "stopping"
      /\ at'["startup"] = at["startup"] /\ at'["stop"] = at["stop"]
  BY <1>1, GotoFits DEF Jobs, Stages
<1>n. pools \in Nat BY Numbers
<1>4. JobTypes' BY <1>1, <1>3 DEF TypeInv, JobTypes, RestartStages
<1>5. PoolTypes' BY <1>1, <1>2, <1>n DEF TypeInv, PoolTypes, WorkersOf
<1>6. LinkTypes' BY <1>1, KeepLinkTypes DEF TypeInv
<1>7. RequestTypes' BY <1>1, KeepRequestTypes DEF TypeInv
<1>8. JobsInv' BY <1>1, <1>2, <1>3 DEF JobsInv, Jobs, Early, Between
<1>9. RequestInv'
  BY <1>1, <1>2, <1>3 DEF RequestInv, TrackerExact, Drained, requestVars, Jobs, Early, Between
<1>10. StopInv' BY <1>2, <1>3 DEF StopInv
<1>11. BudgetInv'
  <2>1. Pending' = Pending BY <1>1, <1>3 DEF Pending, One, linkVars
  <2>. QED BY <1>1, <1>3, <2>1 DEF BudgetInv, linkVars
<1>12. LinkInv' BY <1>1, <1>3 DEF LinkInv, linkVars
<1>13. (IF Up THEN PoolInv ELSE alive = {})'
  BY <1>1, <1>2, <1>3 DEF Up, PoolInv, Jobs, WorkersOf, Early
<1>. QED BY <1>4, <1>5, <1>6, <1>7, <1>8, <1>9, <1>10, <1>11, <1>12, <1>13 DEF TypeInv

(* The old workers have exited; the restart goes on while a site is served.  *)
LEMMA StoppedKeeps == ASSUME Inv, RestartStopped PROVE Inv'
<1>. USE DEF Inv
<1>1. CASE ~runningConfig BY <1>1, ExitKeeps DEF RestartStopped
<1>2. CASE runningConfig
  <2>1. /\ Up /\ at["restart"] = "stopping" /\ Goto("restart", "ports")
        /\ alive' = alive \ WorkersOf(building["restart"])
        /\ building' = [building EXCEPT !["restart"] = 0]
        /\ UNCHANGED <<wrapper, pools, aborted, starts, phpProcess, current, proxy, grants,
                       dropped, runningConfig, linkVars, requestVars>>
    BY <1>2 DEF RestartStopped
  <2>2. /\ building["restart"] = pools /\ pools # 0 /\ phpProcess = 0 /\ proxy = 0 /\ current = 0
        /\ starts # 0 /\ at["startup"] \notin Early \cup {"check"} /\ at["stop"] # "closing"
        /\ Drained
    BY <2>1 DEF JobsInv, StopInv, RequestInv, Jobs, Between
  <2>3. /\ at' \in [Jobs \cup {"stop"} -> Stages] /\ at'["restart"] = "ports"
        /\ at'["startup"] = at["startup"] /\ at'["stop"] = at["stop"]
    BY <2>1, GotoFits DEF Jobs, Stages
  <2>n. pools \in Nat BY Numbers
  <2>4. alive' = {} BY <2>1, <2>2 DEF PoolInv
  <2>5. JobTypes'
    <3>1. building' \in [Jobs -> 0..pools] BY <2>1, <2>n DEF TypeInv, JobTypes, Jobs
    <3>. QED BY <2>1, <2>3, <3>1 DEF TypeInv, JobTypes, RestartStages
  <2>6. PoolTypes' BY <2>1, <2>4 DEF TypeInv, PoolTypes
  <2>7. LinkTypes' BY <2>1, KeepLinkTypes DEF TypeInv
  <2>8. RequestTypes' BY <2>1, KeepRequestTypes DEF TypeInv
  <2>9. JobsInv' BY <2>1, <2>2, <2>3 DEF JobsInv, Jobs, Early, Between
  <2>10. RequestInv'
    BY <2>1, <2>2, <2>3 DEF RequestInv, TrackerExact, Drained, requestVars, Jobs, Early, Between
  <2>11. StopInv' BY <2>2, <2>3 DEF StopInv
  <2>12. BudgetInv'
    <3>1. Pending' = Pending BY <2>1, <2>3 DEF Pending, One, linkVars
    <3>. QED BY <2>1, <2>3, <3>1 DEF BudgetInv, linkVars
  <2>13. LinkInv' BY <2>1, <2>3, <2>4 DEF LinkInv, linkVars
  <2>14. (IF Up THEN PoolInv ELSE alive = {})'
    BY <2>1, <2>2, <2>3, <2>4 DEF Up, PoolInv, Jobs, WorkersOf, Early
  <2>. QED BY <2>5, <2>6, <2>7, <2>8, <2>9, <2>10, <2>11, <2>12, <2>13, <2>14 DEF TypeInv
<1>. QED BY <1>1, <1>2

-----------------------------------------------------------------------------
(* The stop *)

(* A stop first aborts the startup, if one is under way.                     *)
LEMMA StopAbortsKeeps == ASSUME Inv, StopAborts PROVE Inv'
<1>. USE DEF Inv
<1>1. aborted' = TRUE
      /\ UNCHANGED <<wrapper, at, building, pools, starts, poolVars, linkVars, requestVars>>
  BY DEF StopAborts
<1>2. aborted' \in BOOLEAN BY <1>1, Zenon
<1>3. JobTypes' BY <1>1, <1>2 DEF TypeInv, JobTypes
<1>4. PoolTypes' BY <1>1, KeepPoolTypes DEF TypeInv, poolVars
<1>5. LinkTypes' BY <1>1, KeepLinkTypes DEF TypeInv
<1>6. RequestTypes' BY <1>1, KeepRequestTypes DEF TypeInv
<1>7. JobsInv' BY <1>1, KeepJobs DEF poolVars
<1>8. RequestInv' BY <1>1, KeepRequests DEF poolVars, requestVars
<1>9. StopInv' BY <1>1, KeepStop DEF poolVars
<1>10. BudgetInv' BY <1>1, KeepBudget DEF linkVars
<1>11. LinkInv' BY <1>1, KeepLinks DEF poolVars, linkVars
<1>12. (IF Up THEN PoolInv ELSE alive = {})' BY <1>1, KeepUp DEF poolVars
<1>. QED BY <1>3, <1>4, <1>5, <1>6, <1>7, <1>8, <1>9, <1>10, <1>11, <1>12 DEF TypeInv

(* The stop of the server: timer and watcher first, then proxy and workers.  *)
LEMMA StopServerKeeps == ASSUME Inv, StopServer PROVE Inv'
<1>. USE DEF Inv
<1>1. /\ at["startup"] = "idle" /\ at["stop"] = "idle" /\ timer' = FALSE /\ watch' = "off"
      /\ Goto("stop", "watcher")
      /\ UNCHANGED <<wrapper, building, pools, aborted, starts, poolVars, allowlist, reconcile,
                     seen, disk, failures, late, due, requestVars>>
  BY DEF StopServer
<1>2. timer' \in BOOLEAN BY <1>1, Zenon
<1>3. /\ at' \in [Jobs \cup {"stop"} -> Stages] /\ at'["stop"] = "watcher"
      /\ at'["startup"] = at["startup"] /\ at'["restart"] = at["restart"]
  BY <1>1, GotoFits DEF Jobs, Stages
<1>4. \A j \in Jobs : at'[j] = at[j] BY <1>3 DEF Jobs
<1>5. JobTypes' BY <1>1, <1>3 DEF TypeInv, JobTypes
<1>6. PoolTypes' BY <1>1, KeepPoolTypes DEF TypeInv, poolVars
<1>7. LinkTypes' BY <1>1, <1>2 DEF TypeInv, LinkTypes
<1>8. RequestTypes' BY <1>1, KeepRequestTypes DEF TypeInv
<1>9. JobsInv' BY <1>1, <1>3, <1>4 DEF JobsInv, poolVars
<1>10. RequestInv' BY <1>1, <1>3, <1>4 DEF RequestInv, TrackerExact, Drained, poolVars, requestVars
<1>11. StopInv' BY <1>3 DEF StopInv
<1>12. BudgetInv'
  <2>1. One(timer') = 0 /\ One(timer) \in {0, 1} BY <1>1 DEF One
  <2>2. Pending' <= Pending /\ Pending \in Nat /\ Pending' \in Nat BY <1>3, <2>1 DEF Pending, One
  <2>3. pools \in Nat /\ starts \in Nat /\ Cardinality(allowlist) \in Nat BY Numbers
  <2>. QED BY <1>1, <1>3, <2>2, <2>3 DEF BudgetInv
<1>13. LinkInv' BY <1>1, <1>3 DEF LinkInv, poolVars
<1>14. (IF Up THEN PoolInv ELSE alive = {})'
  BY <1>1, <1>3, <1>4 DEF Up, PoolInv, poolVars, WorkersOf
<1>. QED BY <1>5, <1>6, <1>7, <1>8, <1>9, <1>10, <1>11, <1>12, <1>13, <1>14 DEF TypeInv

(* A stop that finds a server finds all jobs done with starting pools.       *)
LEMMA StopClosesKeeps == ASSUME Inv, StopWatcherClosed PROVE Inv'
<1>. USE DEF Inv
<1>1. CASE current = 0 /\ proxy = 0 /\ phpProcess = 0
  BY <1>1, ExitKeeps DEF StopWatcherClosed
<1>2. CASE ~(current = 0 /\ proxy = 0 /\ phpProcess = 0)
  <2>1. /\ runningConfig' = FALSE /\ allowlist' = {} /\ Goto("stop", "closing") /\ Up
        /\ at["stop"] = "watcher"
        /\ phpProcess' = 0 /\ current' = 0 /\ proxy' = 0 /\ counts' = <<>>
        /\ UNCHANGED <<wrapper, building, pools, aborted, starts, alive, grants, dropped, timer,
                       watch, reconcile, seen, disk, failures, late, due, open, released>>
    BY <1>2 DEF StopWatcherClosed, TakeDown
  <2>2. runningConfig' \in BOOLEAN BY <2>1, Zenon
  <2>3. /\ at' \in [Jobs \cup {"stop"} -> Stages] /\ at'["stop"] = "closing"
        /\ at'["startup"] = at["startup"] /\ at'["restart"] = at["restart"]
    BY <2>1, GotoFits DEF Jobs, Stages
  <2>4. /\ starts # 0 /\ at["startup"] \notin Early /\ at["restart"] \notin Between \cup {"closing"}
    BY <1>2 DEF JobsInv, Early, Between
  <2>5. JobTypes' BY <2>1, <2>3 DEF TypeInv, JobTypes
  <2>6. PoolTypes' BY <2>1, <2>2 DEF TypeInv, PoolTypes
  <2>7. LinkTypes' BY <2>1 DEF TypeInv, LinkTypes
  <2>8. RequestTypes' BY <2>1 DEF TypeInv, RequestTypes
  <2>9. JobsInv' BY <2>1, <2>3 DEF JobsInv, Jobs
  <2>10. RequestInv'
    BY <2>1, <2>3, <2>4 DEF RequestInv, TrackerExact, Jobs, Early, Between
  <2>11. StopInv'
    <3>1. ~runningConfig' BY <2>1
    <3>. QED BY <2>1, <2>3, <2>4, <3>1 DEF StopInv
  <2>12. BudgetInv' BY <2>3 DEF BudgetInv
  <2>13. LinkInv' BY <2>1, <2>3 DEF LinkInv
  <2>14. (IF Up THEN PoolInv ELSE alive = {})'
    BY <2>1, <2>3, <2>4 DEF Up, PoolInv, Jobs, WorkersOf, Early
  <2>. QED BY <2>5, <2>6, <2>7, <2>8, <2>9, <2>10, <2>11, <2>12, <2>13, <2>14 DEF TypeInv
<1>. QED BY <1>1, <1>2

-----------------------------------------------------------------------------
(* Only the workers of a pool that is being stopped may exit.                *)
LEMMA WorkerKeeps == ASSUME Inv, NEW w \in Worker, WorkerExits(w) PROVE Inv'
<1>. USE DEF Inv
<1>1. CASE w \notin dropped BY <1>1, ExitKeeps DEF WorkerExits
<1>2. CASE w \in dropped
  <2>1. /\ w \in alive /\ alive' = alive \ {w} /\ Up
        /\ UNCHANGED <<jobVars, phpProcess, current, proxy, grants, dropped, runningConfig,
                       linkVars, requestVars>>
    BY <1>2 DEF WorkerExits
  <2>2. at["restart"] \in {"stopping", "ports"} BY <1>2, <2>1 DEF PoolInv
  <2>3. JobTypes' BY <2>1, KeepJobTypes DEF TypeInv
  <2>4. PoolTypes' BY <2>1 DEF TypeInv, PoolTypes, jobVars
  <2>5. LinkTypes' BY <2>1, KeepLinkTypes DEF TypeInv
  <2>6. RequestTypes' BY <2>1, KeepRequestTypes DEF TypeInv
  <2>7. JobsInv' BY <2>1, KeepJobs DEF jobVars
  <2>8. RequestInv' BY <2>1, KeepRequests DEF jobVars, requestVars
  <2>9. StopInv' BY <2>1, KeepStop DEF jobVars
  <2>10. BudgetInv' BY <2>1, KeepBudget DEF jobVars, linkVars
  <2>11. LinkInv' BY <2>1 DEF LinkInv, jobVars, linkVars
  <2>12. at["restart"] = "stopping" BY <2>1, <2>2 DEF PoolInv
  <2>13. at["startup"] \in {"idle", "credentials"} /\ phpProcess = 0
    BY <2>12 DEF JobsInv, TypeInv, JobTypes, StartupStages, Early
  <2>14. (IF Up THEN PoolInv ELSE alive = {})'
    BY <2>1, <2>12, <2>13 DEF Up, PoolInv, Jobs, WorkersOf, jobVars
  <2>. QED BY <2>3, <2>4, <2>5, <2>6, <2>7, <2>8, <2>9, <2>10, <2>11, <2>14 DEF TypeInv
<1>. QED BY <1>1, <1>2

-----------------------------------------------------------------------------
(* The theorems *)

(* A wrapper that was told nothing yet satisfies the invariant.              *)
LEMMA InitInv == Init => IInv
<1>. SUFFICES ASSUME Init PROVE IInv OBVIOUS
<1>. USE DEF Init
<1>n. MaxStarts \in Nat /\ MaxFailures \in Nat /\ Cardinality(Links) \in Nat
      /\ Cardinality(allowlist) = 0 /\ PoolSize \in Nat
  BY BoundsAreNat, SetsAreFinite, FS_CardinalityType, FS_EmptySet, PoolIsNotEmpty
<1>1. JobTypes
  <2>1. at \in [Jobs \cup {"stop"} -> Stages] BY DEF Stages
  <2>2. aborted \in BOOLEAN BY Zenon
  <2>. QED BY <1>n, <2>1, <2>2 DEF JobTypes, StartupStages, RestartStages, Jobs
<1>2. PoolTypes
  <2>1. runningConfig \in BOOLEAN BY Zenon
  <2>. QED BY <2>1 DEF PoolTypes
<1>3. LinkTypes
  <2>1. timer \in BOOLEAN /\ reconcile \in BOOLEAN BY Zenon
  <2>. QED BY <1>n, <2>1 DEF LinkTypes
<1>4. RequestTypes BY <1>n DEF RequestTypes
<1>5. JobsInv BY DEF JobsInv, Jobs, Early, Between
<1>6. RequestInv BY DEF RequestInv, TrackerExact, Drained, Jobs
<1>7. StopInv /\ LinkInv BY DEF StopInv, LinkInv
<1>8. BudgetInv BY <1>n DEF BudgetInv, Pending, One, Jobs
<1>9. Up /\ PoolInv BY DEF Up, PoolInv, Jobs
<1>. QED BY <1>n, <1>1, <1>2, <1>3, <1>4, <1>5, <1>6, <1>7, <1>8, <1>9 DEF IInv, Inv, TypeInv

(* Only StartServer counts startups.                                         *)
LEMMA StartsGrow ==
  ASSUME starts \in 0..MaxStarts, [Next]_vars
  PROVE  starts' \in 0..MaxStarts /\ starts <= starts'
<1>0. MaxStarts \in Nat BY BoundsAreNat
<1>1. CASE StartServer BY <1>0, <1>1 DEF StartServer
<1>2. CASE ~StartServer
  <2>1. starts' = starts
    BY <1>2 DEF Next, vars, jobVars, Exit, CollectLinks, SetCredentials, SpawnFirst, SpawnNext,
       Listen, Served, JobFails, TimerFires, RestartClosed, RestartStopped, StopAborts, StopServer,
       StopWatcherClosed, StopClosed, AfterStop, Signal, LinkAppears, LinkSeen, WatcherScanned,
       WatcherFails, WatcherHeals, Reconcile, RequestArrives, WorkerRefuses, RequestCloses,
       WorkerExits
  <2>. QED BY <1>0, <2>1
<1>. QED BY <1>1, <1>2

(* No step of the wrapper, its workers or the site's requests breaks it.     *)
LEMMA Step == IInv /\ [Next]_vars => IInv'
<1>. SUFFICES ASSUME IInv, [Next]_vars, starts' <= 1 PROVE Inv'
  BY StartsGrow DEF IInv
<1>1. Inv BY StartsGrow, BoundsAreNat DEF IInv
<1>2. CASE UNCHANGED vars
  <2>. USE <1>1, <1>2 DEF vars, Inv
  <2>1. JobTypes' BY KeepJobTypes DEF TypeInv
  <2>2. PoolTypes' BY KeepPoolTypes DEF TypeInv, jobVars, poolVars
  <2>3. LinkTypes' BY KeepLinkTypes DEF TypeInv
  <2>4. RequestTypes' BY KeepRequestTypes DEF TypeInv
  <2>5. JobsInv' BY KeepJobs DEF jobVars, poolVars
  <2>6. RequestInv' BY KeepRequests DEF jobVars, poolVars, requestVars
  <2>7. StopInv' BY KeepStop DEF jobVars, poolVars
  <2>8. BudgetInv' BY KeepBudget DEF jobVars, linkVars
  <2>9. LinkInv' BY KeepLinks DEF jobVars, poolVars, linkVars
  <2>10. (IF Up THEN PoolInv ELSE alive = {})' BY KeepUp DEF jobVars, poolVars
  <2>. QED BY <2>1, <2>2, <2>3, <2>4, <2>5, <2>6, <2>7, <2>8, <2>9, <2>10 DEF TypeInv
<1>3. CASE StartServer \/ CollectLinks \/ SetCredentials BY <1>1, <1>3, StartupKeeps
<1>4. ASSUME NEW j \in Jobs, SpawnFirst(j) \/ SpawnNext(j) \/ Listen(j) \/ Served(j) \/ JobFails(j)
      PROVE  Inv'
  BY <1>1, <1>4, SpawnFirstKeeps, SpawnNextKeeps, ListenKeeps, ServedKeeps, ExitKeeps DEF JobFails
<1>5. CASE TimerFires \/ RestartClosed \/ RestartStopped
  BY <1>1, <1>5, TimerKeeps, ClosedKeeps, StoppedKeeps
<1>6. CASE StopAborts \/ StopServer \/ StopWatcherClosed \/ StopClosed \/ Signal
  BY <1>1, <1>6, StopAbortsKeeps, StopServerKeeps, StopClosesKeeps, ExitKeeps
     DEF StopClosed, AfterStop, Signal
<1>7. CASE \/ \E l \in Links : LinkAppears(l) \/ LinkSeen(l)
           \/ WatcherScanned \/ WatcherFails \/ WatcherHeals \/ Reconcile
  BY <1>1, <1>7, LinkStep
<1>8. ASSUME NEW r \in Requests, RequestArrives(r) \/ WorkerRefuses(r) \/ RequestCloses(r)
      PROVE  Inv'
  BY <1>1, <1>8, RequestsKeep
<1>9. ASSUME NEW w \in Worker, WorkerExits(w) PROVE Inv' BY <1>1, <1>9, WorkerKeeps
<1>. QED BY <1>2, <1>3, <1>4, <1>5, <1>6, <1>7, <1>8, <1>9 DEF Next

(* In a wrapper that is told to start once, the variables keep their types,  *)
(* and no pool is begun without a start or a new link.                       *)
THEOREM TypeCorrect == Spec => [](starts <= 1 => TypeOK)
<1>1. IInv => (starts <= 1 => TypeOK)
  <2>. SUFFICES ASSUME Inv PROVE TypeOK BY DEF IInv
  <2>. USE DEF Inv, TypeInv
  <2>1. runningConfig \in BOOLEAN /\ aborted \in BOOLEAN /\ timer \in BOOLEAN
        /\ reconcile \in BOOLEAN
    BY DEF JobTypes, PoolTypes, LinkTypes
  <2>2. {runningConfig, aborted, timer, reconcile} \subseteq BOOLEAN BY <2>1, Zenon
  <2>3. pools \in Pools \cup {0} /\ {phpProcess, current, proxy} \subseteq 0..pools
    BY Numbers DEF JobTypes, JobsInv, Pools
  <2>4. counts \in {<<>>} \cup [Index -> 0..Cardinality(Requests)] BY DEF RequestTypes, Counts
  <2>. QED BY <2>2, <2>3, <2>4
          DEF TypeOK, JobTypes, PoolTypes, LinkTypes, RequestTypes, StartupStages, RestartStages
<1>. QED BY <1>1, InitInv, Step, PTL DEF Spec

(* In a wrapper that is told to start once, no worker outlives the wrapper,   *)
(* whichever jobs it had in progress; workers of two pools never live at once; *)
(* and while the proxy serves, the tracker counts exactly the open requests.  *)
THEOREM PoolIsContainedHolds == Spec => [](starts <= 1 => PoolIsContained)
<1>1. IInv => (starts <= 1 => PoolIsContained)
  <2>. SUFFICES ASSUME Inv PROVE PoolIsContained BY DEF IInv
  <2>. USE DEF Inv
  <2>1. NoOrphans BY DEF NoOrphans, Up
  <2>2. OnePool BY DEF OnePool, PoolInv, WorkersOf
  <2>3. TrackerExact BY DEF RequestInv
  <2>. QED BY <2>1, <2>2, <2>3 DEF PoolIsContained
<1>. QED BY <1>1, InitInv, Step, PTL DEF Spec

(* Once nothing is in progress, links that appeared while there was a watcher *)
(* are on the allowlist, and what was there when the last restart began is    *)
(* granted to every worker.                                                  *)
THEOREM LinksAreGrantedHolds == Spec => [](starts <= 1 => LinksAreGranted)
<1>1. IInv => (starts <= 1 => LinksAreGranted)
  <2>. SUFFICES ASSUME Inv, Steady PROVE late \subseteq allowlist
                       /\ \A w \in WorkersOf(phpProcess) : due \subseteq grants[w]
    BY DEF IInv, LinksAreGranted, LateLinksAllowed, RestartGrants
  <2>. USE DEF Inv
  <2>1. /\ Up /\ phpProcess # 0 /\ at["stop"] = "idle" /\ at["restart"] = "idle"
        /\ seen = {} /\ ~reconcile /\ watch = "on"
    BY DEF Steady, Jobs
  <2>2. alive = WorkersOf(phpProcess) BY <2>1 DEF PoolInv, JobsInv
  <2>. QED BY <2>1, <2>2 DEF LinkInv
<1>. QED BY <1>1, InitInv, Step, PTL DEF Spec
=============================================================================
