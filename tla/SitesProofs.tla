---------------------------- MODULE SitesProofs ----------------------------
(* Proofs about what Studio shows of the sites (StudioSites), for every set  *)
(* of sites and number of changes, and about sites that are pulled with      *)
(* pull-reprint (PullReprint), for every number of processes, ports, folders *)
(* and faults.                                                               *)
EXTENDS StudioSites, PullReprint, TLAPS, FiniteSetTheorems

(* What a queue q holds about a site s, and the last of it.  The KILL of the *)
(* bus is about no site.                                                     *)
Of(x, s) == x.site = s /\ x.event # "KILL"
Mine(q, s) == {q[i] : i \in {j \in DOMAIN q : Of(q[j], s)}}
About(q, s) == Mine(q, s) # {}
Lasts(q, s) ==
  {q[i] : i \in {j \in DOMAIN q : Of(q[j], s) /\ \A k \in DOMAIN q : k > j => ~Of(q[k], s)}}

(* What is written after a DELETED was read after the deletion.              *)
GoneAfter(q, s) ==
  \A i, j \in DOMAIN q : i < j /\ q[i].site = s /\ q[j].site = s /\ q[i].event = "DELETED"
    => q[j].edits = Gone

(* The calls of emitSiteEvent that have not read the config yet, and the one *)
(* that has, if it is of s.                                                  *)
Rest(q, j) == IF j.read THEN Tail(q) ELSE q
Unread == Rest(queue, job)
Reading(s) == job.read /\ Head(queue).site = s

Busy(a, s, kind, pcs) == cmd[a][s].kind = kind /\ cmd[a][s].pc \in pcs
Creates(s, pcs) == \E a \in Actors : Busy(a, s, "create", pcs)
Coming(s) == Creates(s, {"saved", "starting"})
Untaken(s) == \E a \in Actors : Busy(a, s, "delete", {"saved"})

Phases == {"launched", "listing", "registered", "listening", "telling", "subscribed"}
Early == phase \in {"launched", "listing", "registered", "listening"}

Counts == -1 .. MaxChanges
Events == {"CREATED", "UPDATED", "DELETED"}
Items == [event : Events, site : Sites, running : {"yes", "no", "ask", "status"}]
Payloads == [event : Events, site : Sites, edits : Counts, running : BOOLEAN]
Killed == Item("KILL", NoPayload.site, "no")
Heard == [event : {"UPDATED"}, site : Sites, running : {"yes", "no"}] \union {Killed}
Views == [shown : BOOLEAN, edits : Counts, running : BOOLEAN]
Cmds ==
  {Idle} \union [kind : {"create"}, pc : {"running", "saved", "starting", "told", "toldUp",
                                         "returned"}]
         \union [kind : {"set"}, pc : {"running", "saved", "told"}]
         \union [kind : {"delete"}, pc : {"running", "stopped", "saved", "told"}]
         \union [kind : {"stop"}, pc : {"running"}]

\* Where only a command of Studio's window can be.
Returning == {"told", "toldUp", "returned"}

\* An edit that is paid for and not made yet.
Pending(c) == IF c = [kind |-> "set", pc |-> "running"] THEN 1 ELSE 0

TruthOK ==
  /\ config \in [Sites -> Unborn .. MaxChanges]
  /\ server \in [Sites -> {"down", "booting", "up"}]
  /\ recorded \in [Sites -> BOOLEAN] /\ \A s \in Sites : recorded[s] => Up(s)
  /\ cmd \in [Actors -> [Sites -> Cmds]]
  /\ \A s \in Sites : cmd["terminal"][s].kind # "stop" /\ cmd["terminal"][s].pc \notin Returning
  /\ spent \in 0 .. MaxChanges
  /\ \A s \in Sites : config[s] + Pending(cmd["terminal"][s]) + Pending(cmd["studio"][s]) <= spent

BusOK ==
  /\ bus \in Seq(Heard) /\ (phase # "subscribed" => bus = <<>>)
  /\ linked \in BOOLEAN
  /\ \A i \in DOMAIN bus : bus[i].event = "KILL" => ~linked

RelayOK ==
  /\ phase \in Phases
  /\ listed \in [Sites -> Counts] /\ (phase \notin {"listing", "registered"} => \A s \in Sites : listed[s] = Gone)
  /\ untold \subseteq Sites /\ (phase # "telling" => untold = {} /\ teller = {})
  /\ teller = {} \/ \E s \in Sites : teller = {s}

QueueOK ==
  /\ queue \in Seq(Items) /\ (~Listening => queue = <<>>)
  /\ job \in [read : BOOLEAN, edits : Counts, ofProcess : BOOLEAN]
  /\ job.read => queue # <<>>
  /\ job.read /\ job.ofProcess => Up(Head(queue).site)
  /\ phase # "subscribed" => \A i \in DOMAIN queue : queue[i].running \in {"ask", "status"}

MainOK ==
  /\ ipc \in Seq(Payloads) /\ (~Listening => ipc = <<>>)
  /\ main \in [Sites -> Views]
  /\ \A s \in Sites : ~main[s].shown => main[s] = Absent
  /\ phase \in {"launched", "listing"} => \A s \in Sites : main[s] = Absent

WindowOK ==
  /\ ui \in [Sites -> Views] /\ created \in [Sites -> Views]
  /\ asked \in Seq([Sites -> Views])
  /\ mounted \in BOOLEAN /\ (mounted => phase \notin {"launched", "listing"})
  /\ ~mounted => \A s \in Sites : cmd["studio"][s] = Idle
  /\ stale \subseteq Sites /\ crossed \subseteq Sites

(* A deletion that is awaited is of a site that has left the map; a reply of *)
(* createSite is awaited by the window.                                      *)
AwaitedOK ==
  /\ handling \in BOOLEAN
  /\ handling => ipc # <<>> /\ Head(ipc).event = "DELETED" /\ main[Head(ipc).site] = Absent
  /\ \A s \in Sites : created[s] # Absent => cmd["studio"][s] = [kind |-> "create", pc |-> "returned"]

TypeInv == TruthOK /\ BusOK /\ RelayOK /\ QueueOK /\ MainOK /\ WindowOK

(* A site that is not created yet has told nobody.                           *)
NewInv(s) ==
  /\ config[s] = Unborn \/ Creates(s, {"running"}) =>
       /\ server[s] = "down" /\ ~recorded[s]
       /\ ~About(bus, s) /\ ~About(Unread, s) /\ ~Reading(s) /\ ~About(ipc, s)
       /\ s \notin untold /\ listed[s] = Gone
  /\ config[s] = Unborn => main[s] = Absent /\ \A a \in Actors : cmd[a][s] = Idle
  /\ Busy("terminal", s, "create", {"running"}) =>
       config[s] = Gone /\ cmd["studio"][s] = Idle /\ main[s] = Absent
  /\ Busy("studio", s, "create", {"running"}) => config[s] = Gone /\ cmd["terminal"][s] = Idle

(* A site that is deleted stays so.                                          *)
Written(s) == \E p \in Mine(ipc, s) : p.event = "DELETED"
Deleting(s) ==
  \/ \E x \in Mine(Unread, s) : x.event = "DELETED"
  \/ Reading(s) /\ Head(queue).event = "DELETED"
  \/ Written(s)
DeleteInv(s) ==
  /\ Deleting(s) \/ (\E a \in Actors : Busy(a, s, "delete", {"saved", "told"})) =>
       config[s] = Gone /\ ~Creates(s, {"running"})
  /\ ~(Busy("terminal", s, "delete", {"saved"}) /\ Busy("studio", s, "delete", {"saved", "told"}))
  /\ GoneAfter(ipc, s)
  /\ Reading(s) /\ Written(s) => job.edits = Gone

(* What is read of a site that is there is there.                            *)
PresentInv(s) ==
  InConfig(s) => /\ \A p \in Mine(ipc, s) : p.edits # Gone
                 /\ Reading(s) => job.edits # Gone

(* What emitAllSitesStatus waits for is queued.                              *)
StatusInv(s) ==
  s \in teller =>
    \/ \E x \in Mine(Unread, s) : x.running = "status"
    \/ Reading(s) /\ Head(queue).running = "status"

SiteInv(s) == NewInv(s) /\ DeleteInv(s) /\ PresentInv(s) /\ StatusInv(s)

(* A site that is there is shown or will be.                                 *)
News(s) ==
  \/ \E p \in Mine(ipc, s) : p.event = "CREATED" /\ p.edits # Gone
  \/ Reading(s) /\ Head(queue).event = "CREATED" /\ job.edits # Gone
KnownInv(s) ==
  /\ InConfig(s) =>
       \/ main[s].shown \/ News(s) \/ Coming(s)
       \/ \E x \in Mine(Unread, s) : x.event = "CREATED"
       \/ phase = "launched"
       \/ phase = "listing" /\ listed[s] # Gone
  /\ phase = "registered" /\ listed[s] # Gone => main[s].shown

(* A site that is not there is not shown, or an event will say so.           *)
AbsentInv(s) ==
  ~InConfig(s) =>
    \/ Untaken(s) \/ Deleting(s) \/ Busy("studio", s, "create", {"running"})
    \/ main[s] = Absent /\ ~News(s) /\ (phase = "listing" => listed[s] = Gone)

Refreshes(s) == Early \/ s \in untold \/ About(bus, s) \/ About(Unread, s)

(* The last that is read of its entry is what the config says.               *)
EditsInv(s) ==
  InConfig(s) =>
    \/ Refreshes(s) \/ Coming(s) \/ \E a \in Actors : Busy(a, s, "set", {"saved"})
    \/ Reading(s) /\ job.edits = config[s]
    \/ /\ ~Reading(s)
       /\ \A p \in Lasts(ipc, s) : p.edits = config[s]
       /\ ~About(ipc, s) /\ main[s].shown => main[s].edits = config[s]

Says(x, s) == x.running \in {"ask", "status"} \/ (x.running = "yes" <=> Up(s))

(* The last that is said of its process is what the daemon says.             *)
RunningInv(s) ==
  InConfig(s) /\ ~Early /\ s \notin untold =>
    /\ \A x \in Lasts(bus, s) : x.running = "yes" <=> Up(s)
    /\ ~About(bus, s) /\ ~Coming(s) =>
         /\ \A x \in Lasts(Unread, s) : Says(x, s)
         /\ ~About(Unread, s) /\ Reading(s) => Says(Head(queue), s)
         /\ ~About(Unread, s) /\ ~Reading(s) =>
              /\ \A p \in Lasts(ipc, s) : p.running = Up(s)
              /\ ~About(ipc, s) => main[s].running = Up(s)

Reports(s) == Refreshes(s) \/ Reading(s) \/ About(ipc, s)

(* What the window shows is what the main process has, or will be.           *)
Following(s) == mounted /\ asked = <<>> /\ created[s] = Absent /\ s \notin crossed
WindowInv(s) ==
  Following(s) =>
    \/ ui[s] = main[s]
    \/ Deleting(s)
    \/ main[s].shown /\ ui[s].shown /\ (Untaken(s) \/ (InConfig(s) /\ (Reports(s) \/ Coming(s))))

TrueInv(s) == KnownInv(s) /\ AbsentInv(s) /\ EditsInv(s) /\ RunningInv(s) /\ WindowInv(s)

StudioInv ==
  /\ TypeInv /\ AwaitedOK
  /\ \A s \in Sites : SiteInv(s)
  /\ \A s \in Sites \ stale : TrueInv(s)
-----------------------------------------------------------------------------
(* Queues.                                                                   *)

(* Appending x to a queue.                                                   *)
LEMMA QueueAppend ==
  ASSUME NEW X, NEW q \in Seq(X), NEW x \in X, NEW s
  PROVE  /\ Mine(Append(q, x), s) = IF Of(x, s) THEN Mine(q, s) \union {x} ELSE Mine(q, s)
         /\ Lasts(Append(q, x), s) = IF Of(x, s) THEN {x} ELSE Lasts(q, s)
<1> DEFINE r == Append(q, x)  n == Len(q)
<1>1. n \in Nat /\ r \in Seq(X) /\ DOMAIN q = 1..n /\ DOMAIN r = 1..(n + 1)
  OBVIOUS
<1>2. r[n + 1] = x /\ \A i \in 1..n : r[i] = q[i]
  OBVIOUS
<1> HIDE DEF r, n
<1>3. CASE Of(x, s)
  <2>1. {j \in DOMAIN r : Of(r[j], s)} = {j \in DOMAIN q : Of(q[j], s)} \union {n + 1}
    BY <1>1, <1>2, <1>3
  <2>2. Mine(r, s) = Mine(q, s) \union {x}
    BY <1>1, <1>2, <2>1 DEF Mine
  <2>3. {j \in DOMAIN r : Of(r[j], s) /\ \A k \in DOMAIN r : k > j => ~Of(r[k], s)} = {n + 1}
    BY <1>1, <1>2, <1>3
  <2>4. Lasts(r, s) = {x}
    BY <1>2, <2>3 DEF Lasts
  <2>. QED
    BY <1>3, <2>2, <2>4 DEF r
<1>4. CASE ~Of(x, s)
  <2>1. {j \in DOMAIN r : Of(r[j], s)} = {j \in DOMAIN q : Of(q[j], s)}
    BY <1>1, <1>2, <1>4
  <2>2. Mine(r, s) = Mine(q, s)
    BY <1>1, <1>2, <2>1 DEF Mine
  <2>3. {j \in DOMAIN r : Of(r[j], s) /\ \A k \in DOMAIN r : k > j => ~Of(r[k], s)}
          = {j \in DOMAIN q : Of(q[j], s) /\ \A k \in DOMAIN q : k > j => ~Of(q[k], s)}
    BY <1>1, <1>2, <1>4
  <2>4. Lasts(r, s) = Lasts(q, s)
    BY <1>1, <1>2, <2>3 DEF Lasts
  <2>. QED
    BY <1>4, <2>2, <2>4 DEF r
<1>. QED
  BY <1>3, <1>4

(* Taking the head of a queue away.                                          *)
LEMMA QueueTail ==
  ASSUME NEW X, NEW q \in Seq(X), q # <<>>, NEW s
  PROVE  /\ Mine(q, s) = IF Of(Head(q), s) THEN Mine(Tail(q), s) \union {Head(q)} ELSE Mine(Tail(q), s)
         /\ Lasts(q, s) = IF About(Tail(q), s) THEN Lasts(Tail(q), s)
                          ELSE IF Of(Head(q), s) THEN {Head(q)} ELSE {}
<1> DEFINE r == Tail(q)  n == Len(q) - 1
<1>1. n \in Nat /\ r \in Seq(X) /\ DOMAIN r = 1..n /\ DOMAIN q = 1..(n + 1)
  OBVIOUS
<1>2. q[1] = Head(q) /\ \A i \in 1..n : r[i] = q[i + 1]
  OBVIOUS
<1> HIDE DEF r, n
<1>3. \A i \in DOMAIN q : i = 1 \/ (i - 1 \in 1..n /\ r[i - 1] = q[i])
  BY <1>1, <1>2
<1>4. Mine(q, s) = IF Of(Head(q), s) THEN Mine(r, s) \union {Head(q)} ELSE Mine(r, s)
  <2>1. \A y \in Mine(r, s) : y \in Mine(q, s)
    BY <1>1, <1>2 DEF Mine
  <2>2. Of(Head(q), s) => Head(q) \in Mine(q, s)
    BY <1>1, <1>2 DEF Mine
  <2>3. \A y \in Mine(q, s) : y \in Mine(r, s) \/ (y = Head(q) /\ Of(y, s))
    BY <1>1, <1>2, <1>3 DEF Mine
  <2>. QED
    BY <2>1, <2>2, <2>3
<1>5. CASE About(r, s)
  <2>1. PICK m \in DOMAIN r : Of(r[m], s)
    BY <1>5 DEF About, Mine
  <2>2. \A y \in Lasts(r, s) : y \in Lasts(q, s)
    <3> SUFFICES ASSUME NEW j \in DOMAIN r, Of(r[j], s), \A k \in DOMAIN r : k > j => ~Of(r[k], s)
                 PROVE  r[j] \in Lasts(q, s)
      BY DEF Lasts
    <3>1. j + 1 \in DOMAIN q /\ q[j + 1] = r[j]
      BY <1>1, <1>2
    <3>2. \A k \in DOMAIN q : k > j + 1 => ~Of(q[k], s)
      BY <1>1, <1>3
    <3>. QED
      BY <3>1, <3>2 DEF Lasts
  <2>3. \A y \in Lasts(q, s) : y \in Lasts(r, s)
    <3> SUFFICES ASSUME NEW j \in DOMAIN q, Of(q[j], s), \A k \in DOMAIN q : k > j => ~Of(q[k], s)
                 PROVE  q[j] \in Lasts(r, s)
      BY DEF Lasts
    <3>1. j # 1
      <4>1. m \in 1..n
        BY <1>1
      <4>2. m + 1 \in DOMAIN q /\ m + 1 > 1 /\ q[m + 1] = r[m]
        BY <4>1, <1>1, <1>2
      <4>. QED
        BY <2>1, <4>2
    <3>2. j - 1 \in DOMAIN r /\ r[j - 1] = q[j]
      BY <1>1, <1>3, <3>1
    <3>3. \A k \in DOMAIN r : k > j - 1 => ~Of(r[k], s)
      <4> TAKE k \in DOMAIN r
      <4>1. k \in 1..n /\ j \in 1..(n + 1)
        BY <1>1
      <4>2. k + 1 \in DOMAIN q /\ q[k + 1] = r[k] /\ (k > j - 1 => k + 1 > j)
        BY <4>1, <1>1, <1>2
      <4>. QED
        BY <4>2
    <3>. QED
      BY <3>2, <3>3 DEF Lasts
  <2>. QED
    BY <1>4, <1>5, <2>2, <2>3 DEF r
<1>6. CASE ~About(r, s)
  <2>1. \A k \in DOMAIN q : k > 1 => ~Of(q[k], s)
    BY <1>1, <1>3, <1>6 DEF About, Mine
  <2>2. \A y \in Lasts(q, s) : y = Head(q) /\ Of(y, s)
    BY <1>1, <1>2, <2>1 DEF Lasts
  <2>3. Of(Head(q), s) => Head(q) \in Lasts(q, s)
    BY <1>1, <1>2, <2>1 DEF Lasts
  <2>. QED
    BY <1>4, <1>6, <2>2, <2>3 DEF r
<1>. QED
  BY <1>5, <1>6

(* An empty queue is about nobody.                                           *)
LEMMA QueueEmpty == \A s : Mine(<<>>, s) = {} /\ Lasts(<<>>, s) = {} /\ ~About(<<>>, s)
  BY DEF Mine, Lasts, About

(* A queue is about the site of its first.                                   *)
LEMMA HeadIsAbout ==
  ASSUME NEW X, NEW q \in Seq(X), q # <<>>, NEW s, Of(Head(q), s)
  PROVE  About(q, s)
  BY QueueTail DEF About

(* The last about s is about s.                                              *)
LEMMA LastsAreMine ==
  ASSUME NEW X, NEW q \in Seq(X), NEW s
  PROVE  /\ Lasts(q, s) \subseteq Mine(q, s)
         /\ \A x \in Mine(q, s) : x \in X /\ x.site = s /\ x.event # "KILL"
  BY DEF Lasts, Mine, Of

(* What is read after a deletion: a queue that grows, that shrinks.          *)
LEMMA GoneAppend ==
  ASSUME NEW X, NEW q \in Seq(X), NEW x \in X, NEW s, GoneAfter(q, s),
         \A y \in X : y.event # "KILL",
         x.site = s /\ (\E p \in Mine(q, s) : p.event = "DELETED") => x.edits = Gone
  PROVE  GoneAfter(Append(q, x), s)
<1> DEFINE r == Append(q, x)  n == Len(q)
<1>1. n \in Nat /\ DOMAIN q = 1..n /\ DOMAIN r = 1..(n + 1)
  OBVIOUS
<1>2. r[n + 1] = x /\ \A i \in 1..n : r[i] = q[i] /\ q[i] \in X
  OBVIOUS
<1> HIDE DEF r, n
<1> SUFFICES ASSUME NEW i \in DOMAIN r, NEW j \in DOMAIN r, i < j,
                    r[i].site = s, r[j].site = s, r[i].event = "DELETED"
             PROVE  r[j].edits = Gone
  BY DEF GoneAfter, r
<1>3. i \in 1..n
  BY <1>1
<1>4. CASE j \in 1..n
  BY <1>1, <1>2, <1>3, <1>4 DEF GoneAfter
<1>5. CASE j = n + 1
  <2>1. q[i] \in Mine(q, s)
    BY <1>1, <1>2, <1>3 DEF Mine, Of
  <2>. QED
    BY <1>2, <1>3, <1>5, <2>1
<1>. QED
  BY <1>1, <1>4, <1>5

(* The rest of a queue keeps it, and has only gone ones after a DELETED that *)
(* was first.                                                                *)
LEMMA GoneTail ==
  ASSUME NEW X, NEW q \in Seq(X), q # <<>>, NEW s, GoneAfter(q, s)
  PROVE  /\ GoneAfter(Tail(q), s)
         /\ Head(q).site = s /\ Head(q).event = "DELETED" => \A p \in Mine(Tail(q), s) : p.edits = Gone
<1> DEFINE r == Tail(q)  n == Len(q) - 1
<1>1. n \in Nat /\ DOMAIN r = 1..n /\ DOMAIN q = 1..(n + 1)
  OBVIOUS
<1>2. q[1] = Head(q) /\ \A i \in 1..n : r[i] = q[i + 1]
  OBVIOUS
<1> HIDE DEF r, n
<1>3. \A i \in 1..n : i + 1 \in DOMAIN q /\ 1 < i + 1
  BY <1>1
<1>4. 1 \in DOMAIN q
  BY <1>1
<1>5. GoneAfter(r, s)
  <2> SUFFICES ASSUME NEW i \in DOMAIN r, NEW j \in DOMAIN r, i < j,
                      r[i].site = s, r[j].site = s, r[i].event = "DELETED"
               PROVE  r[j].edits = Gone
    BY DEF GoneAfter
  <2>1. i + 1 < j + 1
    BY <1>1
  <2>. QED
    BY <1>1, <1>2, <1>3, <2>1 DEF GoneAfter
<1>6. ASSUME Head(q).site = s, Head(q).event = "DELETED", NEW j \in DOMAIN r, Of(r[j], s)
      PROVE  r[j].edits = Gone
  BY <1>1, <1>2, <1>3, <1>4, <1>6 DEF GoneAfter, Of
<1>. QED
  BY <1>5, <1>6 DEF Mine, r

(* An empty queue holds nothing that follows a DELETED.                      *)
LEMMA GoneEmpty == \A s : GoneAfter(<<>>, s)
  BY DEF GoneAfter

(* What the relay has yet to read: a call that arrives, one that is read.    *)
LEMMA RestAppend ==
  ASSUME NEW X, NEW q \in Seq(X), NEW x \in X, NEW j, j.read \in BOOLEAN, j.read => q # <<>>, NEW s
  PROVE  /\ Rest(q, j) \in Seq(X)
         /\ Mine(Rest(Append(q, x), j), s)
              = IF Of(x, s) THEN Mine(Rest(q, j), s) \union {x} ELSE Mine(Rest(q, j), s)
         /\ Lasts(Rest(Append(q, x), j), s) = IF Of(x, s) THEN {x} ELSE Lasts(Rest(q, j), s)
         /\ j.read => Head(Append(q, x)) = Head(q)
<1>1. CASE j.read
  <2>1. Tail(Append(q, x)) = Append(Tail(q), x) /\ Tail(q) \in Seq(X)
    BY <1>1
  <2>2. Head(Append(q, x)) = Head(q)
    BY <1>1
  <2>3. /\ Mine(Append(Tail(q), x), s)
             = IF Of(x, s) THEN Mine(Tail(q), s) \union {x} ELSE Mine(Tail(q), s)
        /\ Lasts(Append(Tail(q), x), s) = IF Of(x, s) THEN {x} ELSE Lasts(Tail(q), s)
    BY <2>1, QueueAppend
  <2>. QED
    BY <1>1, <2>1, <2>2, <2>3 DEF Rest
<1>2. CASE ~j.read
  BY <1>2, QueueAppend DEF Rest
<1>. QED
  BY <1>1, <1>2

(* emitAllSitesStopped writes one payload for each site of the config.       *)
LEMMA SeqOfSites ==
  ASSUME NEW S, IsFiniteSet(S)
  PROVE  /\ SetToSeq(S) \in Seq(S) /\ DOMAIN SetToSeq(S) = 1 .. Len(SetToSeq(S))
         /\ \A s \in S : \E i \in DOMAIN SetToSeq(S) :
              SetToSeq(S)[i] = s /\ \A j \in DOMAIN SetToSeq(S) : SetToSeq(S)[j] = s => j = i
<1> DEFINE n == Cardinality(S)  f == SetToSeq(S)
<1>1. n \in Nat /\ ExistsBijection(1..n, S)
  BY FS_CardinalityType
<1>2. PICK b : b \in Bijection(1..n, S)
  BY <1>1 DEF ExistsBijection
<1>3. b \in [1..n -> S] /\ IsInjective(b)
  BY <1>2 DEF Bijection, Injection
<1>4. f \in [1..n -> S] /\ IsInjective(f)
  BY <1>3 DEF SetToSeq
<1> HIDE DEF f
<1>5. f \in Injection(1..n, S)
  BY <1>4 DEF Injection
<1>6. IsFiniteSet(1..n) /\ Cardinality(1..n) = n
  BY <1>1, FS_Interval
<1>7. f \in Surjection(1..n, S)
  BY <1>5, <1>6, FS_Injection
<1>8. \A s \in S : \E i \in 1..n : f[i] = s
  BY <1>7 DEF Surjection
<1>9. \A i, j \in 1..n : f[i] = f[j] => i = j
  BY <1>4 DEF IsInjective
<1>10. f \in Seq(S) /\ DOMAIN f = 1..n /\ Len(f) = n
  BY <1>1, <1>4
<1>. QED
  BY <1>8, <1>9, <1>10 DEF f

(* One item about a site among many that are appended is the last of it.     *)
LEMMA QueueConcat ==
  ASSUME NEW X, NEW q \in Seq(X), NEW r \in Seq(X), NEW x, NEW s, \A y \in X : y.event # "KILL",
         NEW k \in DOMAIN r, r[k] = x, x.site = s, \A j \in DOMAIN r : r[j].site = s => j = k
  PROVE  /\ Mine(q \o r, s) = Mine(q, s) \union {x}
         /\ Lasts(q \o r, s) = {x}
         /\ GoneAfter(q, s) /\ ~(\E p \in Mine(q, s) : p.event = "DELETED") /\ x.event # "DELETED"
              => GoneAfter(q \o r, s)
<1> DEFINE z == q \o r  n == Len(q)  m == Len(r)
<1>1. n \in Nat /\ m \in Nat /\ DOMAIN q = 1..n /\ DOMAIN r = 1..m /\ DOMAIN z = 1..(n + m)
  OBVIOUS
<1>2. \A i \in 1..n : z[i] = q[i] /\ q[i] \in X
  OBVIOUS
<1>3. \A i \in 1..m : z[n + i] = r[i] /\ r[i] \in X
  OBVIOUS
<1> HIDE DEF z, n, m
<1>4. \A i \in 1..(n + m) : i \in 1..n \/ (i - n \in 1..m /\ z[i] = r[i - n] /\ n + (i - n) = i)
  BY <1>1, <1>3
<1>5. n + k \in DOMAIN z /\ z[n + k] = x /\ Of(x, s)
  BY <1>1, <1>3 DEF Of
<1>6. \A i \in DOMAIN z : z[i].site = s => i \in 1..n \/ i = n + k
  <2> TAKE i \in DOMAIN z
  <2> HAVE z[i].site = s
  <2>1. CASE i \in 1..n
    BY <2>1
  <2>2. CASE i \notin 1..n
    <3>1. i - n \in 1..m /\ z[i] = r[i - n] /\ n + (i - n) = i
      BY <1>1, <1>4, <2>2
    <3>2. i - n = k
      BY <1>1, <3>1
    <3>. QED
      BY <3>1, <3>2
  <2>. QED
    BY <2>1, <2>2
<1>7. Mine(z, s) = Mine(q, s) \union {x}
  <2>1. \A y \in Mine(q, s) : y \in Mine(z, s)
    BY <1>1, <1>2 DEF Mine
  <2>2. x \in Mine(z, s)
    BY <1>5 DEF Mine
  <2>3. \A y \in Mine(z, s) : y \in Mine(q, s) \/ y = x
    BY <1>1, <1>2, <1>5, <1>6 DEF Mine, Of
  <2>. QED
    BY <2>1, <2>2, <2>3
<1>8. Lasts(z, s) = {x}
  <2>1. \A i \in DOMAIN z : i > n + k => ~Of(z[i], s)
    <3> SUFFICES ASSUME NEW i \in DOMAIN z, i > n + k, z[i].site = s PROVE FALSE
      BY DEF Of
    <3>. QED
      BY <1>1, <1>6
  <2>2. x \in Lasts(z, s)
    BY <1>5, <2>1 DEF Lasts
  <2>3. \A i \in 1..n : n + k > i
    BY <1>1
  <2>4. \A y \in Lasts(z, s) : y = x
    BY <1>5, <1>6, <2>3 DEF Lasts, Of
  <2>. QED
    BY <2>2, <2>4
<1>9. ASSUME GoneAfter(q, s), ~(\E p \in Mine(q, s) : p.event = "DELETED"), x.event # "DELETED"
      PROVE  GoneAfter(z, s)
  <2>1. \A i \in DOMAIN z : z[i].site = s => z[i].event # "DELETED"
    <3> SUFFICES ASSUME NEW i \in DOMAIN z, z[i].site = s, z[i].event = "DELETED" PROVE FALSE
      OBVIOUS
    <3>1. CASE i \in 1..n
      <4>1. q[i] \in Mine(q, s)
        BY <1>1, <1>2, <3>1 DEF Mine, Of
      <4>. QED
        BY <1>2, <1>9, <3>1, <4>1
    <3>2. CASE i = n + k
      BY <1>5, <1>9, <3>2
    <3>. QED
      BY <1>6, <3>1, <3>2
  <2>. QED
    BY <2>1 DEF GoneAfter
<1>. QED
  BY <1>7, <1>8, <1>9 DEF z

(* Items about other sites are nothing to a site.                            *)
LEMMA QueueConcatOther ==
  ASSUME NEW X, NEW q \in Seq(X), NEW r \in Seq(X), NEW s, \A j \in DOMAIN r : r[j].site # s
  PROVE  /\ Mine(q \o r, s) = Mine(q, s)
         /\ Lasts(q \o r, s) = Lasts(q, s)
         /\ GoneAfter(q, s) => GoneAfter(q \o r, s)
<1> DEFINE z == q \o r  n == Len(q)  m == Len(r)
<1>1. n \in Nat /\ m \in Nat /\ DOMAIN q = 1..n /\ DOMAIN r = 1..m /\ DOMAIN z = 1..(n + m)
  OBVIOUS
<1>2. \A i \in 1..n : z[i] = q[i] /\ q[i] \in X
  OBVIOUS
<1>3. \A i \in 1..m : z[n + i] = r[i] /\ r[i] \in X
  OBVIOUS
<1> HIDE DEF z, n, m
<1>4. \A i \in DOMAIN z : z[i].site = s => i \in 1..n
  <2> TAKE i \in DOMAIN z
  <2> HAVE z[i].site = s
  <2>1. CASE i \notin 1..n
    <3>1. i - n \in 1..m /\ n + (i - n) = i
      BY <1>1, <2>1
    <3>2. z[i] = r[i - n]
      BY <1>3, <3>1
    <3>. QED
      BY <1>1, <3>1, <3>2
  <2>. QED
    BY <2>1
<1>5. {j \in DOMAIN z : Of(z[j], s)} = {j \in DOMAIN q : Of(q[j], s)}
  BY <1>1, <1>2, <1>4 DEF Of
<1>6. Mine(z, s) = Mine(q, s)
  BY <1>1, <1>2, <1>5 DEF Mine
<1>7. {j \in DOMAIN z : Of(z[j], s) /\ \A k \in DOMAIN z : k > j => ~Of(z[k], s)}
        = {j \in DOMAIN q : Of(q[j], s) /\ \A k \in DOMAIN q : k > j => ~Of(q[k], s)}
  BY <1>1, <1>2, <1>4 DEF Of
<1>8. Lasts(z, s) = Lasts(q, s)
  BY <1>1, <1>2, <1>7 DEF Lasts
<1>9. GoneAfter(q, s) => GoneAfter(z, s)
  BY <1>1, <1>2, <1>4 DEF GoneAfter
<1>. QED
  BY <1>6, <1>8, <1>9 DEF z

-----------------------------------------------------------------------------
(* The types.                                                                *)

(* What one command of one actor does to cmd.                                *)
CmdIs(a, s, c) ==
  /\ cmd' \in [Actors -> [Sites -> Cmds]] /\ cmd'[a][s] = c
  /\ \A b \in Actors, t \in Sites : b # a \/ t # s => cmd'[b][t] = cmd[b][t]

(* cmd set at one place.                                                     *)
LEMMA CmdSet ==
  ASSUME cmd \in [Actors -> [Sites -> Cmds]], NEW a \in Actors, NEW s \in Sites, NEW c \in Cmds,
         cmd' = [cmd EXCEPT ![a][s] = c]
  PROVE  CmdIs(a, s, c)
  BY DEF CmdIs

(* A command begins.                                                         *)
LEMMA CmdBegins ==
  ASSUME cmd \in [Actors -> [Sites -> Cmds]], NEW a \in Actors, NEW s \in Sites,
         NEW kind \in {"create", "set", "delete", "stop"}, Begins(a, s, kind)
  PROVE  CmdIs(a, s, [kind |-> kind, pc |-> "running"])
<1>1. [kind |-> kind, pc |-> "running"] \in Cmds
  BY DEF Cmds
<1>. QED
  BY <1>1, CmdSet DEF Begins

(* A command ends.                                                           *)
LEMMA CmdFinishes ==
  ASSUME cmd \in [Actors -> [Sites -> Cmds]], NEW a \in Actors, NEW s \in Sites, Finishes(a, s)
  PROVE  CmdIs(a, s, Idle)
<1>1. Idle \in Cmds
  BY DEF Cmds
<1>. QED
  BY <1>1, CmdSet DEF Finishes

(* A command goes one step further.                                          *)
LEMMA CmdMoves ==
  ASSUME cmd \in [Actors -> [Sites -> Cmds]], NEW a \in Actors, NEW s \in Sites, NEW pc,
         Moves(a, s, pc), [kind |-> cmd[a][s].kind, pc |-> pc] \in Cmds
  PROVE  CmdIs(a, s, [kind |-> cmd[a][s].kind, pc |-> pc])
<1>1. cmd[a] \in [Sites -> Cmds] /\ cmd[a][s] \in Cmds
  OBVIOUS
<1>2. cmd[a][s] = [kind |-> cmd[a][s].kind, pc |-> cmd[a][s].pc]
  BY <1>1 DEF Cmds, Idle
<1>3. [cmd[a][s] EXCEPT !.pc = pc] = [kind |-> cmd[a][s].kind, pc |-> pc]
  BY <1>2
<1>4. cmd' = [cmd EXCEPT ![a][s] = [kind |-> cmd[a][s].kind, pc |-> pc]]
  BY <1>3 DEF Moves
<1>. QED
  BY <1>4, CmdSet

(* What each command may be at.                                              *)
LEMMA CmdKinds ==
  ASSUME NEW c \in Cmds
  PROVE  /\ c = [kind |-> c.kind, pc |-> c.pc]
         /\ c.kind \in {"none", "create", "set", "delete", "stop"}
         /\ c.pc \in {"none", "running", "stopped", "starting", "saved", "told", "toldUp", "returned"}
         /\ c.kind = "none" => c = Idle
         /\ c.pc = "none" => c.kind = "none"
         /\ c.pc = "stopped" => c.kind = "delete"
         /\ c.pc \in {"starting", "toldUp", "returned"} => c.kind = "create"
         /\ c.pc \in {"saved", "told"} => c.kind \in {"create", "set", "delete"}
         /\ c.kind = "stop" => c.pc = "running"
  BY DEF Cmds, Idle

(* A step that leaves one site's edits within what was spent.                *)
Paid(s) == config[s] + Pending(cmd["terminal"][s]) + Pending(cmd["studio"][s]) <= spent

(* A command owes one edit at most.                                          *)
LEMMA PendingType == \A c : Pending(c) \in {0, 1}
  BY DEF Pending

(* The part of the type invariant about cmd.                                 *)
CmdOK ==
  /\ cmd \in [Actors -> [Sites -> Cmds]]
  /\ \A s \in Sites : cmd["terminal"][s].kind # "stop" /\ cmd["terminal"][s].pc \notin Returning

(* A command's step leaves the types of the commands.                        *)
LEMMA CmdKept ==
  ASSUME CmdOK, NEW a \in Actors, NEW s \in Sites, NEW c \in Cmds, CmdIs(a, s, c),
         a = "terminal" => c.kind # "stop" /\ c.pc \notin Returning
  PROVE  CmdOK'
  BY DEF CmdOK, CmdIs, Actors

(* What a command's step does to the edits that are not made yet.            *)
LEMMA PendingKept ==
  ASSUME CmdOK, NEW a \in Actors, NEW s \in Sites, NEW c \in Cmds, CmdIs(a, s, c), NEW t \in Sites
  PROVE  /\ t # s => /\ cmd'["terminal"][t] = cmd["terminal"][t]
                     /\ cmd'["studio"][t] = cmd["studio"][t]
         /\ \A b \in Actors : b # a => cmd'[b][s] = cmd[b][s]
         /\ a = "terminal" => Pending(cmd'["terminal"][s]) + Pending(cmd'["studio"][s])
                                = Pending(c) + Pending(cmd["studio"][s])
         /\ a = "studio" => Pending(cmd'["terminal"][s]) + Pending(cmd'["studio"][s])
                                = Pending(cmd["terminal"][s]) + Pending(c)
  BY DEF CmdIs, Actors

(* Of two pending edits and the config, a step that adds as much to spent.   *)
LEMMA PaidKept ==
  ASSUME TruthOK, NEW a \in Actors, NEW s \in Sites, NEW c \in Cmds, CmdIs(a, s, c),
         config' \in [Sites -> Unborn .. MaxChanges], spent' \in 0 .. MaxChanges, spent <= spent',
         \A t \in Sites : t # s => config'[t] = config[t],
         \/ config'[s] <= config[s] /\ Pending(c) <= Pending(cmd[a][s])
         \/ config'[s] <= config[s] /\ spent' = spent + 1
         \/ config'[s] <= config[s] + 1 /\ Pending(c) < Pending(cmd[a][s])
         \/ config'[s] <= 0 /\ Pending(c) = 0 /\ \A b \in Actors : b # a => cmd[b][s] = Idle
  PROVE  \A t \in Sites : Paid(t)'
<1>1. CmdOK
  BY DEF TruthOK, CmdOK
<1>2. MaxChanges \in Nat /\ spent \in Int /\ spent' \in Int /\ spent <= spent' /\ 0 <= spent'
  BY BoundsAssumption DEF TruthOK
<1>3. \A t \in Sites : config[t] \in Int /\ config'[t] \in Int
  BY <1>2 DEF TruthOK, Unborn
<1>4. \A t \in Sites : Paid(t)
  BY DEF TruthOK, Paid
<1> TAKE t \in Sites
<1>5. CASE t # s
  <2>1. cmd'["terminal"][t] = cmd["terminal"][t] /\ cmd'["studio"][t] = cmd["studio"][t]
    BY <1>1, <1>5, PendingKept
  <2>2. config'[t] = config[t]
    BY <1>5
  <2>3. Pending(cmd["terminal"][t]) \in Int /\ Pending(cmd["studio"][t]) \in Int
    BY PendingType
  <2>. QED
    BY <1>2, <1>3, <1>4, <2>1, <2>2, <2>3 DEF Paid
<1>6. CASE t = s
  <2>1. Pending(cmd["terminal"][s]) \in {0, 1} /\ Pending(cmd["studio"][s]) \in {0, 1} /\ Pending(c) \in {0, 1}
    BY PendingType
  <2>2. Pending(Idle) = 0
    BY DEF Pending, Idle
  <2>3. config[s] + Pending(cmd["terminal"][s]) + Pending(cmd["studio"][s]) <= spent
    BY <1>4 DEF Paid
  <2>4. CASE a = "terminal"
    <3>1. cmd'["terminal"][s] = c /\ cmd'["studio"][s] = cmd["studio"][s]
      BY <2>4 DEF CmdIs, Actors
    <3>2. \/ config'[s] <= config[s] /\ Pending(c) <= Pending(cmd["terminal"][s])
          \/ config'[s] <= config[s] /\ spent' = spent + 1
          \/ config'[s] <= config[s] + 1 /\ Pending(c) < Pending(cmd["terminal"][s])
          \/ config'[s] <= 0 /\ Pending(c) = 0 /\ Pending(cmd["studio"][s]) = 0
      BY <2>2, <2>4 DEF Actors
    <3>3. config'[s] + Pending(c) + Pending(cmd["studio"][s]) <= spent'
      BY <1>2, <1>3, <2>1, <2>3, <3>2
    <3>. QED
      BY <1>6, <3>1, <3>3 DEF Paid
  <2>5. CASE a = "studio"
    <3>1. cmd'["studio"][s] = c /\ cmd'["terminal"][s] = cmd["terminal"][s]
      BY <2>5 DEF CmdIs, Actors
    <3>2. \/ config'[s] <= config[s] /\ Pending(c) <= Pending(cmd["studio"][s])
          \/ config'[s] <= config[s] /\ spent' = spent + 1
          \/ config'[s] <= config[s] + 1 /\ Pending(c) < Pending(cmd["studio"][s])
          \/ config'[s] <= 0 /\ Pending(c) = 0 /\ Pending(cmd["terminal"][s]) = 0
      BY <2>2, <2>5 DEF Actors
    <3>3. config'[s] + Pending(cmd["terminal"][s]) + Pending(c) <= spent'
      BY <1>2, <1>3, <2>1, <2>3, <3>2
    <3>. QED
      BY <1>6, <3>1, <3>3 DEF Paid
  <2>. QED
    BY <2>4, <2>5 DEF Actors
<1>. QED
  BY <1>5, <1>6

(* The part of it about the servers.                                         *)
ServerOK ==
  /\ server \in [Sites -> {"down", "booting", "up"}]
  /\ recorded \in [Sites -> BOOLEAN] /\ \A s \in Sites : recorded[s] => Up(s)

(* The type invariant of the truth, from its parts.                          *)
LEMMA TruthParts ==
  ASSUME config' \in [Sites -> Unborn .. MaxChanges], ServerOK', CmdOK',
         spent' \in 0 .. MaxChanges, \A s \in Sites : Paid(s)'
  PROVE  TruthOK'
  BY DEF TruthOK, ServerOK, CmdOK, Paid

(* What no command does more is paid for as before.                          *)
LEMMA PaidSame ==
  ASSUME TruthOK, UNCHANGED cmd, config' \in [Sites -> Unborn .. MaxChanges],
         spent' \in 0 .. MaxChanges, spent <= spent', \A t \in Sites : config'[t] <= config[t]
  PROVE  \A t \in Sites : Paid(t)'
<1>2. MaxChanges \in Nat /\ spent \in Int /\ spent' \in Int /\ spent <= spent'
  BY BoundsAssumption DEF TruthOK
<1> TAKE t \in Sites
<1>3. config[t] \in Int /\ config'[t] \in Int /\ config'[t] <= config[t]
  BY <1>2 DEF TruthOK, Unborn
<1>4. Paid(t)
  BY DEF TruthOK, Paid
<1>5. Pending(cmd["terminal"][t]) \in Int /\ Pending(cmd["studio"][t]) \in Int
  BY PendingType
<1>. QED
  BY <1>2, <1>3, <1>4, <1>5 DEF Paid

(* The bound is spent by one.                                                *)
LEMMA SpendType ==
  ASSUME spent \in 0 .. MaxChanges, Spend
  PROVE  spent' = spent + 1 /\ spent' \in 0 .. MaxChanges /\ spent <= spent'
  BY BoundsAssumption DEF Spend

(* The truth, the commands and what is spent keep their types.               *)
LEMMA ServersKeepTruth ==
  ASSUME TruthOK, NEW s \in Sites, Start(s) \/ Booted(s) \/ RecordsPid(s) \/ Exits(s) \/ Replies(s)
  PROVE  TruthOK'
<1>1. UNCHANGED <<config, cmd>> /\ (UNCHANGED spent \/ Spend)
  BY DEF Start, Booted, RecordsPid, Exits, Replies, truth
<1>2. CmdOK' /\ config' \in [Sites -> Unborn .. MaxChanges] /\ \A t \in Sites : config'[t] <= config[t]
  <2>1. \A t \in Sites : config[t] \in Int
    BY BoundsAssumption DEF TruthOK, Unborn
  <2>. QED
    BY <1>1, <2>1 DEF TruthOK, CmdOK
<1>3. spent' \in 0 .. MaxChanges /\ spent <= spent'
  BY <1>1, SpendType, BoundsAssumption DEF TruthOK
<1>4. \A t \in Sites : Paid(t)'
  BY <1>1, <1>2, <1>3, PaidSame
<1>5. ServerOK'
  <2>1. CASE Start(s)
    BY <2>1 DEF Start, Spawned, TruthOK, ServerOK, Up
  <2>2. CASE Booted(s)
    BY <2>2 DEF Booted, TruthOK, ServerOK, Up
  <2>3. CASE RecordsPid(s)
    BY <2>3 DEF RecordsPid, TruthOK, ServerOK, Up
  <2>4. CASE Exits(s)
    BY <2>4 DEF Exits, TruthOK, ServerOK, Up
  <2>5. CASE Replies(s)
    BY <2>5 DEF Replies, truth, TruthOK, ServerOK, Up
  <2>. QED
    BY <2>1, <2>2, <2>3, <2>4, <2>5
<1>. QED
  BY <1>2, <1>3, <1>4, <1>5, TruthParts

(* A site is told, or loses its entry.                                       *)
LEMMA StatusKeepsTruth ==
  ASSUME TruthOK, NEW s \in Sites, TellsStatus(s)
  PROVE  TruthOK'
<1>1. /\ UNCHANGED <<recorded, server, cmd>>
      /\ (UNCHANGED <<config, spent>> \/ (config' = [config EXCEPT ![s] = Gone] /\ Spend))
  BY DEF TellsStatus
<1>2. \A t \in Sites : config[t] \in Int /\ -2 <= config[t] /\ config[t] <= MaxChanges
  BY BoundsAssumption DEF TruthOK, Unborn
<1>3. spent' \in 0 .. MaxChanges /\ spent <= spent'
  BY <1>1, SpendType, BoundsAssumption DEF TruthOK
<1>4. ServerOK' /\ CmdOK'
  BY <1>1 DEF TruthOK, ServerOK, CmdOK, Up
<1>5. CASE UNCHANGED config
  <2>1. \A t \in Sites : config'[t] <= config[t]
    BY <1>2, <1>5
  <2>2. \A t \in Sites : Paid(t)'
    BY <1>1, <1>3, <1>5, <2>1, PaidSame DEF TruthOK
  <2>. QED
    BY <1>3, <1>5, <1>4, <2>2, TruthParts DEF TruthOK
<1>6. CASE config' = [config EXCEPT ![s] = Gone] /\ Spend
  <2>1. config' \in [Sites -> Unborn .. MaxChanges]
    BY <1>6, BoundsAssumption DEF TruthOK, Unborn, Gone
  <2>2. spent \in Int /\ spent' = spent + 1 /\ 0 <= spent
    BY <1>6, SpendType, BoundsAssumption DEF TruthOK
  <2>3. \A t \in Sites : Paid(t)'
    <3> TAKE t \in Sites
    <3>1. Pending(cmd["terminal"][t]) \in {0, 1} /\ Pending(cmd["studio"][t]) \in {0, 1}
      BY PendingType
    <3>2. Paid(t)
      BY DEF TruthOK, Paid
    <3>3. config'[t] = config[t] \/ config'[t] = -1
      BY <1>6, <2>1 DEF TruthOK, Gone
    <3>4. config'[t] + Pending(cmd["terminal"][t]) + Pending(cmd["studio"][t]) <= spent'
      BY <1>2, <2>2, <3>1, <3>2, <3>3 DEF Paid
    <3>. QED
      BY <1>1, <3>4 DEF Paid
  <2>. QED
    BY <1>3, <1>4, <2>1, <2>3, TruthParts
<1>. QED
  BY <1>1, <1>5, <1>6

(* A step of a command: what it sets the config to is paid for.              *)
LEMMA CommandKeepsTruth ==
  ASSUME TruthOK, NEW a \in Actors, NEW s \in Sites, NEW c \in Cmds, CmdIs(a, s, c),
         a = "terminal" => c.kind # "stop" /\ c.pc \notin Returning,
         NEW n \in Unborn .. MaxChanges, config' = [config EXCEPT ![s] = n],
         UNCHANGED spent \/ Spend,
         \/ n <= config[s] /\ Pending(c) <= Pending(cmd[a][s])
         \/ n <= config[s] /\ Spend
         \/ n <= config[s] + 1 /\ Pending(c) < Pending(cmd[a][s])
         \/ n <= 0 /\ Pending(c) = 0 /\ \A b \in Actors : b # a => cmd[b][s] = Idle,
         ServerOK'
  PROVE  TruthOK'
<1>1. spent' \in 0 .. MaxChanges /\ spent <= spent' /\ (Spend => spent' = spent + 1)
  BY SpendType, BoundsAssumption DEF TruthOK
<1>2. config' \in [Sites -> Unborn .. MaxChanges] /\ config'[s] = n
  BY DEF TruthOK
<1>3. \A t \in Sites : t # s => config'[t] = config[t]
  BY DEF TruthOK
<1>4. CmdOK'
  BY CmdKept DEF TruthOK, CmdOK
<1>5. \A t \in Sites : Paid(t)'
  BY <1>1, <1>2, <1>3, PaidKept
<1>. QED
  BY <1>1, <1>2, <1>4, <1>5, TruthParts

(* A command that takes a step and leaves the config.                        *)
LEMMA StepKeepsTruth ==
  ASSUME TruthOK, NEW a \in Actors, NEW s \in Sites, NEW c \in Cmds, CmdIs(a, s, c),
         a = "terminal" => c.kind # "stop" /\ c.pc \notin Returning,
         UNCHANGED truth,
         (UNCHANGED spent /\ Pending(c) <= Pending(cmd[a][s])) \/ Spend
  PROVE  TruthOK'
<1>1. config[s] \in Int /\ config[s] \in Unborn .. MaxChanges /\ config' = [config EXCEPT ![s] = config[s]]
  BY BoundsAssumption DEF truth, TruthOK, Unborn
<1>2. ServerOK'
  BY DEF truth, TruthOK, ServerOK, Up
<1>3. config[s] <= config[s]
  BY <1>1
<1>. QED
  BY <1>1, <1>2, <1>3, CommandKeepsTruth

(* What a command owes.                                                      *)
LEMMA PendingIs ==
  /\ \A k, p : k # "set" \/ p # "running" => Pending([kind |-> k, pc |-> p]) = 0
  /\ Pending([kind |-> "set", pc |-> "running"]) = 1
  /\ Pending(Idle) = 0 /\ \A c : 0 <= Pending(c)
  BY DEF Pending, Idle

(* Commands begin.                                                           *)
LEMMA BeginsKeepTruth ==
  ASSUME TruthOK, NEW s \in Sites, NewInv(s),
         \/ TerminalCreates(s) \/ StudioCreates(s)
         \/ \E kind \in {"set", "delete"} : TerminalRuns(s, kind)
         \/ \E kind \in {"set", "delete", "stop"} : StudioCalls(s, kind)
  PROVE  TruthOK'
<1> "terminal" \in Actors /\ "studio" \in Actors
  BY DEF Actors
<1> cmd \in [Actors -> [Sites -> Cmds]]
  BY DEF TruthOK
<1>1. ASSUME NEW a \in Actors, Begins(a, s, "create"), config[s] = Unborn, Spend,
             config' = [config EXCEPT ![s] = Gone], UNCHANGED <<recorded, server>>
      PROVE  TruthOK'
  <2> DEFINE c == [kind |-> "create", pc |-> "running"]
  <2>1. CmdIs(a, s, c)
    BY <1>1, CmdBegins
  <2>2. c \in Cmds /\ c.kind # "stop" /\ c.pc \notin Returning
    BY DEF Cmds, Returning
  <2>3. Pending(c) = 0
    BY PendingIs
  <2>4. \A b \in Actors : cmd[b][s] = Idle
    BY <1>1 DEF NewInv
  <2>5. Gone \in Unborn .. MaxChanges /\ Gone <= 0
    BY BoundsAssumption DEF Gone, Unborn
  <2>6. ServerOK'
    BY <1>1 DEF TruthOK, ServerOK, Up
  <2> HIDE DEF c
  <2>. QED
    BY <1>1, <2>1, <2>2, <2>3, <2>4, <2>5, <2>6, CommandKeepsTruth
<1>2. ASSUME NEW a \in Actors, NEW kind \in {"set", "delete", "stop"}, a = "terminal" => kind # "stop",
             Begins(a, s, kind), Spend, UNCHANGED truth
      PROVE  TruthOK'
  <2> DEFINE c == [kind |-> kind, pc |-> "running"]
  <2>1. CmdIs(a, s, c)
    BY <1>2, CmdBegins
  <2>2. c \in Cmds /\ c.kind = kind /\ c.pc \notin Returning
    BY DEF Cmds, Returning
  <2> HIDE DEF c
  <2>. QED
    BY <1>2, <2>1, <2>2, StepKeepsTruth
<1>3. CASE TerminalCreates(s)
  BY <1>1, <1>3 DEF TerminalCreates
<1>4. CASE StudioCreates(s)
  BY <1>1, <1>4 DEF StudioCreates
<1>5. CASE \E kind \in {"set", "delete"} : TerminalRuns(s, kind)
  BY <1>2, <1>5 DEF TerminalRuns
<1>6. CASE \E kind \in {"set", "delete", "stop"} : StudioCalls(s, kind)
  BY <1>2, <1>6 DEF StudioCalls
<1>. QED
  BY <1>3, <1>4, <1>5, <1>6

(* A command ends and changes nothing.                                       *)
LEMMA FinishKeepsTruth ==
  ASSUME TruthOK, NEW a \in Actors, NEW s \in Sites, Finishes(a, s), UNCHANGED <<truth, spent>>
  PROVE  TruthOK'
<1>1. CmdIs(a, s, Idle)
  BY CmdFinishes DEF TruthOK
<1>2. Idle \in Cmds /\ Idle.kind # "stop" /\ Idle.pc \notin Returning
  BY DEF Cmds, Idle, Returning
<1>3. Pending(Idle) <= Pending(cmd[a][s])
  BY PendingIs, PendingType
<1>. QED
  BY <1>1, <1>2, <1>3, StepKeepsTruth

(* Commands take their steps.                                                *)
LEMMA CommandsKeepTruth ==
  ASSUME TruthOK, NEW s \in Sites, NewInv(s), NEW a \in Actors, Command(a, s)
  PROVE  TruthOK'
<1> cmd \in [Actors -> [Sites -> Cmds]] /\ cmd[a][s] \in Cmds
  BY DEF TruthOK
<1>0. config[s] \in Int /\ config[s] \in Unborn .. MaxChanges /\ MaxChanges \in Nat
  BY BoundsAssumption DEF TruthOK, Unborn
<1>1. CASE SavesNew(a, s)
  <2>1. Doing(a, s, "create", "running") /\ config' = [config EXCEPT ![s] = 0] /\ UNCHANGED recorded
    BY <1>1 DEF SavesNew
  <2>2. cmd[a][s] = [kind |-> "create", pc |-> "running"] /\ Creates(s, {"running"})
    BY <2>1 DEF Doing, Creates, Busy
  <2>3. ~recorded[s] /\ server[s] = "down"
    BY <2>2 DEF NewInv
  <2>4. \A b \in Actors : b # a => cmd[b][s] = Idle
    BY <2>2 DEF NewInv, Busy, Actors
  <2>5. PICK p \in {"saved", "starting"} :
          Moves(a, s, p) /\ (UNCHANGED spent \/ Spend) /\ (UNCHANGED server \/ Spawned(s))
    BY <1>1 DEF SavesNew
  <2> DEFINE c == [kind |-> "create", pc |-> p]
  <2>6. c \in Cmds /\ c.kind # "stop" /\ c.pc \notin Returning
    BY DEF Cmds, Returning
  <2>7. CmdIs(a, s, c)
    BY <2>2, <2>5, <2>6, CmdMoves
  <2>8. Pending(c) = 0
    BY PendingIs
  <2>9. ServerOK'
    BY <2>1, <2>3, <2>5 DEF ServerOK, TruthOK, Up, Spawned
  <2>10. 0 \in Unborn .. MaxChanges /\ 0 <= 0
    BY <1>0 DEF Unborn
  <2> HIDE DEF c
  <2>. QED
    BY <2>1, <2>4, <2>5, <2>6, <2>7, <2>8, <2>9, <2>10, CommandKeepsTruth
<1>2. CASE SavesEdit(a, s)
  <2>1. /\ Doing(a, s, "set", "running") /\ config' = [config EXCEPT ![s] = config[s] + 1]
        /\ Moves(a, s, "saved") /\ UNCHANGED <<recorded, server, spent>> /\ 0 <= config[s]
    BY <1>2 DEF SavesEdit, InConfig
  <2>2. cmd[a][s] = [kind |-> "set", pc |-> "running"]
    BY <2>1 DEF Doing
  <2> DEFINE c == [kind |-> "set", pc |-> "saved"]
  <2>3. c \in Cmds /\ c.kind # "stop" /\ c.pc \notin Returning
    BY DEF Cmds, Returning
  <2>4. CmdIs(a, s, c)
    BY <2>1, <2>2, <2>3, CmdMoves
  <2>5. Pending(c) = 0 /\ Pending(cmd[a][s]) = 1
    BY <2>2, PendingIs
  <2>6. ServerOK'
    BY <2>1 DEF ServerOK, TruthOK, Up
  <2>7. config[s] + 1 \in Unborn .. MaxChanges
    <3>1. Paid(s) /\ spent \in 0 .. MaxChanges
      BY DEF TruthOK, Paid
    <3>2. Pending(cmd["terminal"][s]) \in {0, 1} /\ Pending(cmd["studio"][s]) \in {0, 1}
      BY PendingType
    <3>3. Pending(cmd["terminal"][s]) = 1 \/ Pending(cmd["studio"][s]) = 1
      BY <2>5 DEF Actors
    <3>. QED
      BY <1>0, <2>1, <3>1, <3>2, <3>3 DEF Paid, Unborn
  <2>8. config[s] + 1 <= config[s] + 1 /\ Pending(c) < Pending(cmd[a][s])
    BY <1>0, <2>5
  <2> HIDE DEF c
  <2>. QED
    BY <2>1, <2>3, <2>4, <2>6, <2>7, <2>8, CommandKeepsTruth
<1>3. CASE Stops(a, s)
  <2>1. cmd[a][s] = [kind |-> "delete", pc |-> "running"] /\ Moves(a, s, "stopped") /\ UNCHANGED <<truth, spent>>
    BY <1>3 DEF Stops, Doing
  <2> DEFINE c == [kind |-> "delete", pc |-> "stopped"]
  <2>2. c \in Cmds /\ c.kind # "stop" /\ c.pc \notin Returning
    BY DEF Cmds, Returning
  <2>3. CmdIs(a, s, c)
    BY <2>1, <2>2, CmdMoves
  <2>4. Pending(c) <= Pending(cmd[a][s])
    BY <2>1, PendingIs
  <2> HIDE DEF c
  <2>. QED
    BY <2>1, <2>2, <2>3, <2>4, StepKeepsTruth
<1>4. CASE SavesDeletion(a, s)
  <2>1. /\ cmd[a][s] = [kind |-> "delete", pc |-> "stopped"] /\ config' = [config EXCEPT ![s] = Gone]
        /\ Moves(a, s, "saved") /\ UNCHANGED <<recorded, server, spent>> /\ 0 <= config[s]
    BY <1>4 DEF SavesDeletion, InConfig, Doing
  <2> DEFINE c == [kind |-> "delete", pc |-> "saved"]
  <2>2. c \in Cmds /\ c.kind # "stop" /\ c.pc \notin Returning
    BY DEF Cmds, Returning
  <2>3. CmdIs(a, s, c)
    BY <2>1, <2>2, CmdMoves
  <2>4. Pending(c) <= Pending(cmd[a][s])
    BY <2>1, PendingIs
  <2>5. Gone \in Unborn .. MaxChanges /\ Gone <= config[s]
    BY <1>0, <2>1 DEF Gone, Unborn
  <2>6. ServerOK'
    BY <2>1 DEF ServerOK, TruthOK, Up
  <2> HIDE DEF c
  <2>. QED
    BY <2>1, <2>2, <2>3, <2>4, <2>5, <2>6, CommandKeepsTruth
<1>5. CASE Tells(a, s)
  <2>1. CASE a = "terminal"
    BY <1>5, <2>1, FinishKeepsTruth DEF Tells
  <2>2. CASE a = "studio"
    <3>1. cmd[a][s].pc \in {"saved", "starting"} /\ UNCHANGED <<truth, spent>>
      BY <1>5 DEF Tells
    <3>2. PICK p \in {"told", "toldUp"} : Moves(a, s, p) /\ (p = "toldUp" => cmd[a][s].pc = "starting")
      BY <1>5, <2>2 DEF Tells
    <3> DEFINE c == [kind |-> cmd[a][s].kind, pc |-> p]
    <3>3. cmd[a][s].kind \in {"create", "set", "delete"} /\ (p = "toldUp" => cmd[a][s].kind = "create")
      BY <3>1, <3>2, CmdKinds
    <3>4. c \in Cmds
      BY <3>3 DEF Cmds
    <3>5. CmdIs(a, s, c)
      BY <3>2, <3>4, CmdMoves
    <3>6. Pending(c) <= Pending(cmd[a][s])
      BY <3>2, PendingIs, PendingType
    <3> HIDE DEF c
    <3>. QED
      BY <2>2, <3>1, <3>4, <3>5, <3>6, StepKeepsTruth
  <2>. QED
    BY <2>1, <2>2 DEF Actors
<1>6. CASE FailsEarly(a, s)
  BY <1>6, FinishKeepsTruth DEF FailsEarly
<1>7. CASE FailsLate(a, s)
  <2>1. Finishes(a, s) /\ UNCHANGED <<recorded, server, spent>>
    BY <1>7 DEF FailsLate
  <2>2. CASE UNCHANGED config
    BY <2>1, <2>2, FinishKeepsTruth DEF truth
  <2>3. CASE cmd[a][s].pc = "starting" /\ config' = [config EXCEPT ![s] = Gone]
    <3>1. CmdIs(a, s, Idle)
      BY <2>1, CmdFinishes
    <3>2. Idle \in Cmds /\ Idle.kind # "stop" /\ Idle.pc \notin Returning
      BY DEF Cmds, Idle, Returning
    <3>3. Pending(Idle) <= Pending(cmd[a][s])
      BY PendingIs, PendingType
    <3>4. Gone \in Unborn .. MaxChanges
      BY <1>0 DEF Gone, Unborn
    <3>5. ServerOK'
      BY <2>1 DEF ServerOK, TruthOK, Up
    <3>6. Gone <= config[s]
      <4>1. config[s] # Unborn
        BY <2>3 DEF NewInv, Idle
      <4>. QED
        BY <1>0, <4>1 DEF Gone, Unborn
    <3>. QED
      BY <2>1, <2>3, <3>1, <3>2, <3>3, <3>4, <3>5, <3>6, CommandKeepsTruth
  <2>. QED
    BY <1>7, <2>2, <2>3 DEF FailsLate
<1>. QED
  BY <1>1, <1>2, <1>3, <1>4, <1>5, <1>6, <1>7 DEF Command

(* Every step keeps the types of the truth.                                  *)
LEMMA TruthKept ==
  ASSUME TruthOK, \A s \in Sites : NewInv(s), SitesNext
  PROVE  TruthOK'
<1>1. ASSUME UNCHANGED <<truth, cmd, spent>> PROVE TruthOK'
  BY <1>1 DEF truth, TruthOK, Up
<1>2. ASSUME NEW s \in Sites, Returns(s) PROVE TruthOK'
  <2>1. CASE CreateReturns(s)
    <3>1. /\ cmd["studio"][s].kind = "create" /\ Moves("studio", s, "returned")
          /\ UNCHANGED <<truth, spent>>
      BY <2>1 DEF CreateReturns
    <3> DEFINE c == [kind |-> "create", pc |-> "returned"]
    <3>2. c \in Cmds
      BY DEF Cmds
    <3>3. CmdIs("studio", s, c)
      <4>1. "studio" \in Actors /\ cmd \in [Actors -> [Sites -> Cmds]]
        BY DEF Actors, TruthOK
      <4>2. [kind |-> cmd["studio"][s].kind, pc |-> "returned"] = c
        BY <3>1
      <4>. QED
        BY <3>1, <3>2, <4>1, <4>2, CmdMoves
    <3>4. Pending(c) <= Pending(cmd["studio"][s])
      BY PendingIs, PendingType
    <3> HIDE DEF c
    <3>. QED
      BY <3>1, <3>2, <3>3, <3>4, StepKeepsTruth DEF Actors
  <2>2. CASE CreateReplied(s) \/ SetReturns(s) \/ DeleteReturns(s) \/ StopReturns(s)
    <3>1. Finishes("studio", s) /\ UNCHANGED <<truth, spent>>
      BY <2>2 DEF CreateReplied, SetReturns, DeleteReturns, StopReturns
    <3>. QED
      BY <3>1, FinishKeepsTruth DEF Actors
  <2>. QED
    BY <1>2, <2>1, <2>2 DEF Returns
<1>3. CASE KillDaemon
  <2>1. UNCHANGED <<truth, cmd>> /\ Spend
    BY <1>3 DEF KillDaemon
  <2>2. spent' \in 0 .. MaxChanges /\ spent <= spent'
    BY <2>1, SpendType DEF TruthOK
  <2>3. \A t \in Sites : config'[t] <= config[t]
    BY <2>1, BoundsAssumption DEF truth, TruthOK, Unborn
  <2>4. config' \in [Sites -> Unborn .. MaxChanges] /\ ServerOK' /\ CmdOK'
    BY <2>1 DEF truth, TruthOK, ServerOK, CmdOK, Up
  <2>5. \A t \in Sites : Paid(t)'
    BY <2>1, <2>2, <2>3, <2>4, PaidSame
  <2>. QED
    BY <2>2, <2>4, <2>5, TruthParts
<1>4. CASE Relink \/ Launch \/ Relay \/ Main \/ Replied
  BY <1>1, <1>4 DEF Relink, Launch, Relay, Main, Replied, ListsSites, FetchesAll, Listens, Connects,
     Subscribes, Mounts, Hears, HearsKill, ReadsConfig, Emits, HandlesDeleted, ForwardsDeleted, UnregisterFails, Ignores,
     HandlesDetails
<1>5. ASSUME NEW s \in Sites,
             \/ Start(s) \/ Booted(s) \/ RecordsPid(s) \/ Exits(s) \/ Replies(s)
             \/ TerminalCreates(s) \/ StudioCreates(s) \/ Returns(s) \/ TellsStatus(s)
             \/ \E kind \in {"set", "delete"} : TerminalRuns(s, kind)
             \/ \E kind \in {"set", "delete", "stop"} : StudioCalls(s, kind)
             \/ \E a \in Actors : Command(a, s)
      PROVE  TruthOK'
  BY <1>2, <1>5, ServersKeepTruth, StatusKeepsTruth, BeginsKeepTruth, CommandsKeepTruth
<1>. QED
  BY <1>3, <1>4, <1>5 DEF SitesNext

(* The relay's channels keep their types.                                    *)
LEMMA BroadcastType ==
  ASSUME BusOK, stale \subseteq Sites, NEW s \in Sites, NEW r \in {"yes", "no"}, Broadcast(s, r),
         UNCHANGED <<phase, linked>>
  PROVE  BusOK' /\ stale' \subseteq Sites
<1>1. stale' \subseteq Sites
  BY DEF Broadcast, Stale
<1>2. CASE bus' = bus
  BY <1>1, <1>2 DEF BusOK
<1>3. CASE phase = "subscribed" /\ linked /\ bus' = Append(bus, Item("UPDATED", s, r))
  <2> DEFINE x == Item("UPDATED", s, r)
  <2>1. x \in Heard /\ x.event = "UPDATED"
    BY DEF Heard, Item
  <2> HIDE DEF x
  <2>2. bus' \in Seq(Heard)
    BY <1>3, <2>1 DEF BusOK, x
  <2>3. \A i \in DOMAIN bus' : bus'[i].event # "KILL"
    <3>1. \A i \in DOMAIN bus : bus[i].event # "KILL"
      BY <1>3 DEF BusOK
    <3>2. \A i \in DOMAIN bus' : bus'[i] = x \/ (i \in DOMAIN bus /\ bus'[i] = bus[i])
      BY <1>3 DEF BusOK, x
    <3>. QED
      BY <2>1, <3>1, <3>2
  <2>. QED
    BY <1>1, <1>3, <2>2, <2>3 DEF BusOK
<1>. QED
  BY <1>2, <1>3 DEF Broadcast

(* Every step keeps the bus.                                                 *)
LEMMA BusKept ==
  ASSUME TypeInv, SitesNext
  PROVE  BusOK'
<1> USE DEF TypeInv
<1>1. ASSUME UNCHANGED <<phase, linked, bus>> PROVE BusOK'
  BY <1>1 DEF BusOK
<1>2. ASSUME UNCHANGED <<linked, bus>>, phase # "subscribed" PROVE BusOK'
  BY <1>2 DEF BusOK
<1>3. ASSUME NEW s \in Sites, Booted(s) \/ Exits(s) \/ Replies(s) PROVE BusOK'
  <2>1. PICK r \in {"yes", "no"} : Broadcast(s, r) /\ UNCHANGED <<phase, linked>>
    BY <1>3 DEF Booted, Exits, Replies
  <2>. QED
    BY <2>1, BroadcastType DEF WindowOK
<1>4. ASSUME NEW s \in Sites,
             \/ Start(s) \/ RecordsPid(s)
             \/ TerminalCreates(s) \/ StudioCreates(s) \/ Returns(s) \/ TellsStatus(s)
             \/ \E kind \in {"set", "delete"} : TerminalRuns(s, kind)
             \/ \E kind \in {"set", "delete", "stop"} : StudioCalls(s, kind)
             \/ \E a \in Actors : Command(a, s)
      PROVE  BusOK'
  BY <1>1, <1>4 DEF Start, RecordsPid, TerminalCreates, StudioCreates, Returns, TellsStatus,
     TerminalRuns,
     StudioCalls, Command, relay, CreateReturns, CreateReplied, SetReturns, DeleteReturns, StopReturns, SavesNew,
     SavesEdit,
     Stops, SavesDeletion, Tells, FailsEarly, FailsLate
<1>5. CASE KillDaemon
  <2>1. linked' = FALSE /\ bus' = Append(bus, Killed) /\ phase = "subscribed" /\ phase' = phase
    BY <1>5 DEF KillDaemon, Killed
  <2>2. Killed \in Heard
    BY DEF Heard
  <2>3. bus' \in Seq(Heard)
    BY <2>1, <2>2 DEF BusOK
  <2>. QED
    BY <2>1, <2>3 DEF BusOK
<1>6. CASE Relink
  BY <1>6 DEF Relink, BusOK
<1>7. CASE Launch
  BY <1>1, <1>2, <1>7 DEF Launch, ListsSites, FetchesAll, Listens, Connects, Subscribes, Mounts,
     relay
<1>8. CASE Hears \/ HearsKill
  <2>1. bus # <<>> /\ bus' = Tail(bus) /\ UNCHANGED <<phase, linked>>
    BY <1>8 DEF Hears, HearsKill
  <2>2. bus' \in Seq(Heard)
    BY <2>1 DEF BusOK
  <2>3. \A i \in DOMAIN bus' : i + 1 \in DOMAIN bus /\ bus'[i] = bus[i + 1]
    BY <2>1 DEF BusOK
  <2>. QED
    BY <2>1, <2>2, <2>3 DEF BusOK
<1>9. CASE ReadsConfig \/ Emits \/ Main \/ Replied
  BY <1>1, <1>9 DEF ReadsConfig, Emits, Main, HandlesDeleted, ForwardsDeleted, UnregisterFails, Ignores, HandlesDetails, Replied,
     relay
<1>. QED
  BY <1>3, <1>4, <1>5, <1>6, <1>7, <1>8, <1>9 DEF SitesNext, Relay

(* The launch, the list and emitAllSitesStatus keep their types.             *)
LEMMA RelayKept ==
  ASSUME TypeInv, SitesNext
  PROVE  RelayOK'
<1> USE DEF TypeInv
<1>1. ASSUME UNCHANGED <<phase, listed, untold, teller>> PROVE RelayOK'
  BY <1>1 DEF RelayOK
<1>2. ASSUME NEW s \in Sites,
             \/ Start(s) \/ Booted(s) \/ RecordsPid(s) \/ Exits(s) \/ Replies(s)
             \/ TerminalCreates(s) \/ StudioCreates(s) \/ Returns(s)
             \/ \E kind \in {"set", "delete"} : TerminalRuns(s, kind)
             \/ \E kind \in {"set", "delete", "stop"} : StudioCalls(s, kind)
             \/ \E a \in Actors : Command(a, s)
      PROVE  RelayOK'
  BY <1>1, <1>2 DEF Start, Booted, Exits, Replies, RecordsPid, TerminalCreates, StudioCreates,
     Returns,
     TerminalRuns, StudioCalls, Command, relay, CreateReturns, CreateReplied, SetReturns, DeleteReturns,
     StopReturns,
     SavesNew, SavesEdit, Stops, SavesDeletion, Tells, FailsEarly, FailsLate
<1>3. ASSUME NEW s \in Sites, TellsStatus(s) PROVE RelayOK'
  BY <1>3 DEF TellsStatus, RelayOK
<1>4. CASE ListsSites
  <2>1. \A s \in Sites : Read(s) \in Counts
    BY BoundsAssumption DEF Read, Counts, InConfig, Gone, TruthOK, Unborn
  <2>. QED
    BY <1>4, <2>1 DEF ListsSites, RelayOK, Phases
<1>5. CASE FetchesAll
  BY <1>5 DEF FetchesAll, RelayOK, Phases
<1>6. CASE Listens
  <2>1. Gone \in Counts
    BY BoundsAssumption DEF Gone, Counts
  <2>. QED
    BY <1>6, <2>1 DEF Listens, RelayOK, Phases
<1>7. CASE Connects
  BY <1>7 DEF Connects, RelayOK, Phases
<1>8. CASE Subscribes
  BY <1>8 DEF Subscribes, RelayOK, Phases
<1>9. CASE Emits
  <2>1. teller' = teller \/ \E s : teller' = teller \ {s}
    BY <1>9 DEF Emits
  <2>. QED
    BY <1>9, <2>1 DEF Emits, RelayOK
<1>10. CASE KillDaemon \/ Relink \/ Mounts \/ Hears \/ HearsKill \/ ReadsConfig \/ Main \/ Replied
  BY <1>1, <1>10 DEF KillDaemon, Relink, Mounts, Hears, HearsKill, ReadsConfig, Main,
     HandlesDeleted, ForwardsDeleted, UnregisterFails, Ignores,
     HandlesDetails, Replied, relay
<1>. QED
  BY <1>2, <1>3, <1>4, <1>5, <1>6, <1>7, <1>8, <1>9, <1>10 DEF SitesNext, Relay, Launch

(* The head of a queue.                                                      *)
LEMMA HeadType ==
  ASSUME NEW X, NEW q \in Seq(X), q # <<>>
  PROVE  Head(q) \in X /\ Tail(q) \in Seq(X)
  OBVIOUS

(* The calls of emitSiteEvent keep their types.                              *)
LEMMA QueueGrows ==
  ASSUME QueueOK, NEW x \in Items, queue' = Append(queue, x), UNCHANGED <<phase, job, server>>, Listening,
         phase = "subscribed" \/ x.running \in {"ask", "status"}
  PROVE  QueueOK'
<1>1. queue' \in Seq(Items) /\ queue' # <<>>
  BY DEF QueueOK
<1>2. queue # <<>> => Head(queue') = Head(queue)
  BY DEF QueueOK
<1>3. \A i \in DOMAIN queue' : queue'[i] = x \/ (i \in DOMAIN queue /\ queue'[i] = queue[i])
  BY DEF QueueOK
<1>. QED
  BY <1>1, <1>2, <1>3 DEF QueueOK, Listening, Up

(* Every step keeps the queue and the job.                                   *)
LEMMA QueueKept ==
  ASSUME TypeInv, SitesNext, \A s \in Sites : NewInv(s)
  PROVE  QueueOK'
<1> USE DEF TypeInv
<1>1. ASSUME UNCHANGED <<phase, queue, job, server>> PROVE QueueOK'
  BY <1>1 DEF QueueOK, Listening, Up
<1>2. ASSUME UNCHANGED <<phase, queue, job>>, \A s \in Sites : Up(s) => Up(s)' PROVE QueueOK'
  <2>1. queue # <<>> => Head(queue).site \in Sites
    <3>1. queue # <<>> => Head(queue) \in Items
      BY HeadType DEF QueueOK
    <3>. QED
      BY <3>1 DEF Items
  <2>. QED
    BY <1>2, <2>1 DEF QueueOK, Listening
<1>3. ASSUME NEW s \in Sites, Start(s) \/ Booted(s) PROVE QueueOK'
  <2>1. UNCHANGED <<phase, queue, job>>
    BY <1>3 DEF Start, Booted, relay
  <2>2. \A t \in Sites : Up(t) => Up(t)'
    BY <1>3 DEF Start, Booted, Spawned, Up, TruthOK
  <2>. QED
    BY <1>2, <2>1, <2>2
<1>4. ASSUME NEW s \in Sites, Exits(s) PROVE QueueOK'
  <2>1. UNCHANGED <<phase, queue>> /\ server' = [server EXCEPT ![s] = "down"]
    BY <1>4 DEF Exits
  <2>2. job' = IF job.read /\ Head(queue).site = s THEN [job EXCEPT !.ofProcess = FALSE] ELSE job
    BY <1>4 DEF Exits
  <2>3. job' \in [read : BOOLEAN, edits : Counts, ofProcess : BOOLEAN] /\ job'.read = job.read
    BY <2>2 DEF QueueOK
  <2>4. job'.read /\ job'.ofProcess => Up(Head(queue).site)'
    <3> SUFFICES ASSUME job'.read, job'.ofProcess PROVE Up(Head(queue).site)'
      OBVIOUS
    <3>1. Head(queue).site # s /\ job' = job
      BY <2>2, <2>3 DEF QueueOK
    <3>2. Up(Head(queue).site)
      BY <3>1 DEF QueueOK
    <3>. QED
      BY <2>1, <3>1, <3>2 DEF Up, TruthOK
  <2>. QED
    BY <2>1, <2>3, <2>4 DEF QueueOK, Listening
<1>5. ASSUME NEW s \in Sites, NEW a \in Actors, SavesNew(a, s) PROVE QueueOK'
  <2>1. UNCHANGED <<phase, queue, job>>
    BY <1>5 DEF SavesNew, relay
  <2>2. server[s] = "down"
    BY <1>5 DEF SavesNew, Doing, NewInv, Creates, Busy
  <2>3. \A t \in Sites : Up(t) => Up(t)'
    BY <1>5, <2>2 DEF SavesNew, Spawned, Up, TruthOK
  <2>. QED
    BY <1>2, <2>1, <2>3
<1>6. ASSUME NEW s \in Sites, NEW a \in Actors, Tells(a, s) PROVE QueueOK'
  <2>1. UNCHANGED <<phase, job, server>> /\ cmd[a][s].pc \in {"saved", "starting"}
    BY <1>6 DEF Tells, truth
  <2>2. cmd[a][s] \in Cmds
    BY DEF TruthOK
  <2>3. cmd[a][s].kind \in {"create", "set", "delete"}
    BY <2>1, <2>2, CmdKinds
  <2> DEFINE x == Item(EventOf(cmd[a][s].kind), s, "ask")
  <2>4. x \in Items /\ x.running = "ask"
    BY <2>3 DEF Item, Items, EventOf, Events
  <2>5. queue' = queue \/ (Listening /\ queue' = Append(queue, x))
    BY <1>6 DEF Tells, EmitCliEvent
  <2> HIDE DEF x
  <2>. QED
    BY <1>1, <2>1, <2>4, <2>5, QueueGrows
<1>7. ASSUME NEW s \in Sites, TellsStatus(s) PROVE QueueOK'
  <2>1. PICK e \in Events : queue' = Append(queue, Item(e, s, "status"))
    BY <1>7 DEF TellsStatus, Events
  <2>2. Item(e, s, "status") \in Items /\ Item(e, s, "status").running = "status"
    BY DEF Item, Items
  <2>3. Listening /\ UNCHANGED <<phase, job, server>>
    BY <1>7 DEF TellsStatus, Listening
  <2>. QED
    BY <2>1, <2>2, <2>3, QueueGrows
<1>8. CASE Hears
  <2>1. Head(bus) \in Heard /\ Head(bus).event # "KILL" /\ bus # <<>>
    BY <1>8 DEF Hears, BusOK
  <2>2. Head(bus) \in Items
    BY <2>1 DEF Heard, Killed, Item, Items, Events
  <2>3. phase = "subscribed"
    BY <2>1 DEF BusOK
  <2>. QED
    BY <1>8, <2>2, <2>3, QueueGrows DEF Hears, Listening, truth
<1>9. CASE ReadsConfig
  <2>1. UNCHANGED <<phase, queue, server>> /\ queue # <<>>
    BY <1>9 DEF ReadsConfig, truth
  <2>2. Head(queue).site \in Sites
    <3>1. Head(queue) \in Items
      BY <2>1, HeadType DEF QueueOK
    <3>. QED
      BY <3>1 DEF Items
  <2>9. PICK s \in Sites : s = Head(queue).site
    BY <2>2
  <2>3. job' = [read |-> TRUE, edits |-> Read(s), ofProcess |-> recorded[s]]
    BY <1>9, <2>9 DEF ReadsConfig
  <2>4. Read(s) \in Counts
    BY <2>2, BoundsAssumption DEF Read, Counts, InConfig, Gone, TruthOK, Unborn
  <2>5. recorded[s] \in BOOLEAN /\ (recorded[s] => Up(s))
    BY <2>2 DEF TruthOK
  <2>6. Up(s)' <=> Up(s)
    BY <2>1 DEF Up
  <2>7. Head(queue').site = s
    BY <2>1, <2>9
  <2>. QED
    BY <2>1, <2>3, <2>4, <2>5, <2>6, <2>7 DEF QueueOK, Listening
<1>10. CASE Emits
  <2>1. UNCHANGED <<phase, server>> /\ queue' = Tail(queue) /\ job' = NoJob /\ queue # <<>>
    BY <1>10 DEF Emits, QueueOK, truth
  <2>2. job' \in [read : BOOLEAN, edits : Counts, ofProcess : BOOLEAN] /\ ~job'.read
    BY <2>1, BoundsAssumption DEF NoJob, Gone, Counts
  <2>3. queue' \in Seq(Items)
    BY <2>1 DEF QueueOK
  <2>4. \A i \in DOMAIN queue' : i + 1 \in DOMAIN queue /\ queue'[i] = queue[i + 1]
    BY <2>1 DEF QueueOK
  <2>5. Listening
    BY <2>1 DEF QueueOK
  <2>. QED
    BY <2>1, <2>2, <2>3, <2>4, <2>5 DEF QueueOK, Listening
<1>11. CASE Launch
  <2>1. UNCHANGED <<queue, job, server>> /\ (phase' # "subscribed" => phase # "subscribed") /\ (Listening => Listening')
    BY <1>11 DEF Launch, ListsSites, FetchesAll, Listens, Connects, Subscribes, Mounts, relay,
       truth, Listening
  <2>. QED
    BY <2>1 DEF QueueOK, Up
<1>12. ASSUME NEW s \in Sites,
             \/ RecordsPid(s) \/ Replies(s) \/ TerminalCreates(s) \/ StudioCreates(s) \/ Returns(s)
             \/ \E kind \in {"set", "delete"} : TerminalRuns(s, kind)
             \/ \E kind \in {"set", "delete", "stop"} : StudioCalls(s, kind)
      PROVE  QueueOK'
  BY <1>1, <1>12 DEF RecordsPid, Replies, TerminalCreates, StudioCreates, Returns, TerminalRuns,
     StudioCalls, relay, truth, CreateReturns, CreateReplied, SetReturns, DeleteReturns, StopReturns
<1>13. ASSUME NEW s \in Sites, NEW a \in Actors,
             SavesEdit(a, s) \/ Stops(a, s) \/ SavesDeletion(a, s) \/ FailsEarly(a, s) \/ FailsLate(a, s)
      PROVE  QueueOK'
  BY <1>1, <1>13 DEF SavesEdit, Stops, SavesDeletion, FailsEarly, FailsLate, relay, truth
<1>14. CASE KillDaemon \/ Relink \/ HearsKill \/ Main \/ Replied
  BY <1>1, <1>14 DEF KillDaemon, Relink, HearsKill, Main, HandlesDeleted, ForwardsDeleted, UnregisterFails, Ignores, HandlesDetails,
     Replied,
     relay, truth
<1>. QED
  BY <1>3, <1>4, <1>5, <1>6, <1>7, <1>8, <1>9, <1>10, <1>11, <1>12, <1>13, <1>14 DEF SitesNext,
     Relay, Command

(* What the relay has written and the main process's map keep their types.   *)
LEMMA MainIs ==
  ASSUME MainOK, UNCHANGED <<ipc, phase>>, NEW s \in Sites, NEW v \in Views, main' = [main EXCEPT ![s] = v],
         v.shown \/ v = Absent, phase \notin {"launched", "listing"}
  PROVE  MainOK'
  BY DEF MainOK, Listening

(* The views that are made are views.                                        *)
LEMMA ViewTypes ==
  /\ Absent \in Views /\ ~Absent.shown
  /\ \A n \in Counts, r \in BOOLEAN : Entry(n, r) \in Views /\ Entry(n, r).shown
  /\ Gone \in Counts /\ 0 \in Counts
  BY BoundsAssumption DEF Absent, Views, Entry, Gone, Counts

(* Views with equal fields are equal.                                        *)
LEMMA ViewEqual ==
  ASSUME NEW v \in Views, NEW w \in Views, v.shown = w.shown, v.edits = w.edits, v.running = w.running
  PROVE  v = w
  BY DEF Views

(* A view that says a site does not run.                                     *)
LEMMA ViewStops ==
  ASSUME NEW v \in Views
  PROVE  /\ [v EXCEPT !.running = FALSE] \in Views
         /\ [v EXCEPT !.running = FALSE].shown = v.shown
         /\ [v EXCEPT !.running = FALSE].edits = v.edits
         /\ [v EXCEPT !.running = FALSE].running = FALSE
         /\ v = Absent \/ v.running = FALSE => [v EXCEPT !.running = FALSE] = v
<1> DEFINE w == [v EXCEPT !.running = FALSE]
<1>1. w \in Views /\ w.shown = v.shown /\ w.edits = v.edits
  BY DEF Views
<1>2. w.running = FALSE
  BY DEF Views
<1>3. v = Absent => v.running = FALSE
  BY DEF Absent
<1> HIDE DEF w
<1>4. v.running = FALSE => w = v
  BY <1>1, <1>2, ViewEqual
<1>. QED
  BY <1>1, <1>2, <1>3, <1>4 DEF w

(* What the relay writes when the daemon is killed.                          *)
LEMMA KillsArePayloads ==
  ASSUME TypeInv, HearsKill
  PROVE  \E r \in Seq(Payloads) : ipc' = ipc \o r
<1> DEFINE S == {s \in Sites : InConfig(s)}
           all == SetToSeq(S)
           r == [i \in DOMAIN all |-> Payload("UPDATED", all[i], config[all[i]], FALSE)]
<1>1. IsFiniteSet(S)
  BY BoundsAssumption, FS_Subset
<1>2. all \in Seq(S) /\ DOMAIN all = 1 .. Len(all)
  BY <1>1, SeqOfSites
<1>3. \A i \in DOMAIN all : all[i] \in S
  BY <1>2
<1>4. \A s \in S : Payload("UPDATED", s, config[s], FALSE) \in Payloads
  BY BoundsAssumption DEF InConfig, TypeInv, TruthOK, Payload, Payloads, Events, Counts, Unborn
<1>5. ipc' = ipc \o r
  BY DEF HearsKill
<1> HIDE DEF all, S
<1>6. \A i \in 1 .. Len(all) : Payload("UPDATED", all[i], config[all[i]], FALSE) \in Payloads
  BY <1>2, <1>3, <1>4
<1>7. r \in Seq(Payloads)
  <2>1. r \in [1 .. Len(all) -> Payloads]
    BY <1>2, <1>6
  <2>2. Len(all) \in Nat
    BY <1>2
  <2> HIDE DEF r
  <2>. QED
    BY <2>1, <2>2
<1>. QED
  BY <1>5, <1>7

(* Every step keeps what the main process has.                               *)
LEMMA MainKept ==
  ASSUME TypeInv, AwaitedOK, SitesNext, \A s \in Sites : NewInv(s)
  PROVE  MainOK'
<1> USE DEF TypeInv
<1>1. ASSUME UNCHANGED <<phase, ipc, main>> PROVE MainOK'
  BY <1>1 DEF MainOK, Listening
<1>2. ASSUME NEW s \in Sites, StudioCreates(s) PROVE MainOK'
  <2>1. Entry(Gone, FALSE) \in Views /\ Entry(Gone, FALSE).shown
    BY ViewTypes
  <2>. QED
    BY <1>2, <2>1, MainIs DEF StudioCreates, relay, WindowOK
<1>3. ASSUME NEW s \in Sites, CreateReturns(s) PROVE MainOK'
  <2>1. UNCHANGED <<phase, ipc>> /\ mounted
    <3>1. cmd["studio"][s] # Idle
      BY <1>3 DEF CreateReturns, Idle
    <3>. QED
      BY <1>3, <3>1 DEF CreateReturns, relay, WindowOK
  <2>2. CASE ~main[s].shown
    BY <1>1, <1>3, <2>1, <2>2 DEF CreateReturns
  <2>3. CASE main[s].shown
    <3> DEFINE up == cmd["studio"][s].pc = "toldUp"
               v == [main[s] EXCEPT !.running = @ \/ up]
    <3>1. main' = [main EXCEPT ![s] = v]
      BY <1>3, <2>3 DEF CreateReturns
    <3>2. up \in BOOLEAN /\ main[s] \in Views
      BY DEF MainOK
    <3>3. v \in Views /\ v.shown
      BY <2>3, <3>2 DEF Views
    <3> HIDE DEF v
    <3>. QED
      BY <2>1, <3>1, <3>3, MainIs DEF WindowOK
  <2>. QED
    BY <2>2, <2>3
<1>4. ASSUME NEW s \in Sites, CreateReplied(s) \/ SetReturns(s) PROVE MainOK'
  BY <1>1, <1>4 DEF CreateReplied, SetReturns, relay
<1>5. ASSUME NEW s \in Sites, DeleteReturns(s) \/ StopReturns(s) PROVE MainOK'
  <2>1. UNCHANGED <<phase, ipc>> /\ mounted
    <3>1. cmd["studio"][s] # Idle
      BY <1>5 DEF DeleteReturns, StopReturns, Idle, Doing
    <3>. QED
      BY <1>5, <3>1 DEF DeleteReturns, StopReturns, relay, WindowOK
  <2> DEFINE v == [main[s] EXCEPT !.running = FALSE]
  <2>2. main' = [main EXCEPT ![s] = Absent] \/ main' = [main EXCEPT ![s] = v]
    BY <1>5 DEF DeleteReturns, StopReturns
  <2>3. main[s] \in Views /\ (~main[s].shown => main[s] = Absent)
    BY DEF MainOK
  <2>4. v \in Views /\ (v.shown \/ v = Absent)
    BY <2>3, ViewStops
  <2> HIDE DEF v
  <2>. QED
    BY <2>1, <2>2, <2>4, ViewTypes, MainIs DEF WindowOK
<1>6. CASE FetchesAll
  <2>1. CASE main' = main
    BY <1>6, <2>1 DEF FetchesAll, MainOK, Listening
  <2>2. CASE main' # main
    <3> DEFINE found == {s \in Sites : listed[s] # Gone}
    <3>1. PICK R \in SUBSET found :
             main' = [s \in Sites |-> IF s \in found THEN Entry(listed[s], s \in R) ELSE main[s]]
      BY <1>6, <2>2 DEF FetchesAll
    <3>2. \A s \in Sites : listed[s] \in Counts /\ (s \in R) \in BOOLEAN
      BY DEF RelayOK
    <3>3. \A s \in Sites : Entry(listed[s], s \in R) \in Views /\ Entry(listed[s], s \in R).shown
      BY <3>2, ViewTypes
    <3>4. phase = "listing" /\ phase' = "registered" /\ UNCHANGED ipc
      BY <1>6 DEF FetchesAll
    <3>. QED
      BY <3>1, <3>3, <3>4 DEF MainOK, Listening
  <2>. QED
    BY <2>1, <2>2
<1>7. CASE ListsSites \/ Listens \/ Connects \/ Subscribes \/ Mounts
  BY <1>7 DEF ListsSites, Listens, Connects, Subscribes, Mounts, MainOK, Listening, relay, studio
<1>8. CASE HearsKill
  <2>1. PICK r \in Seq(Payloads) : ipc' = ipc \o r
    BY <1>8, KillsArePayloads
  <2>2. UNCHANGED <<phase, main>> /\ bus # <<>>
    BY <1>8 DEF HearsKill
  <2>3. ipc' \in Seq(Payloads) /\ phase = "subscribed"
    BY <2>1, <2>2 DEF MainOK, BusOK
  <2>. QED
    BY <2>2, <2>3 DEF MainOK, Listening
<1>9. CASE Emits
  <2> DEFINE item == Head(queue)
             running == CASE item.running = "yes" -> TRUE [] item.running = "no" -> FALSE
                          [] OTHER -> job.edits # Gone /\ IsSiteRunning(item.site, job.ofProcess)
  <2>1. /\ ipc' = Append(ipc, Payload(item.event, item.site, job.edits, running))
        /\ UNCHANGED <<phase, main>> /\ queue # <<>>
    BY <1>9 DEF Emits, QueueOK
  <2>2. item \in Items /\ job.edits \in Counts /\ job.ofProcess \in BOOLEAN
    BY <2>1 DEF QueueOK
  <2>3. running \in BOOLEAN
    BY <2>2 DEF Items, IsSiteRunning
  <2> HIDE DEF running, item
  <2>4. Payload(item.event, item.site, job.edits, running) \in Payloads
    BY <2>2, <2>3 DEF Payload, Payloads, Items
  <2>5. Listening
    BY <2>1 DEF QueueOK
  <2>. QED
    BY <2>1, <2>4, <2>5 DEF MainOK, Listening
<1>10. CASE Main
  <2>1. ipc # <<>> /\ (ipc' = ipc \/ ipc' = Tail(ipc)) /\ UNCHANGED phase
    BY <1>10 DEF AwaitedOK, Main, HandlesDeleted, ForwardsDeleted, UnregisterFails, Ignores, HandlesDetails, relay
  <2>2. Listening /\ Head(ipc) \in Payloads /\ ipc' \in Seq(Payloads)
    BY <2>1 DEF MainOK
  <2>3. main' = main \/ \E s \in Sites, v \in Views : main' = [main EXCEPT ![s] = v] /\ (v.shown \/ v = Absent)
    <3>1. CASE HandlesDeleted
      BY <2>2, <3>1, ViewTypes DEF HandlesDeleted, Payloads
    <3>2. CASE ForwardsDeleted \/ UnregisterFails \/ Ignores
      BY <3>2 DEF ForwardsDeleted, UnregisterFails, Ignores
    <3>3. CASE HandlesDetails
      <4> DEFINE p == Head(ipc)
      <4>1. main' = [main EXCEPT ![p.site] = Entry(p.edits, p.running)]
        BY <3>3 DEF HandlesDetails
      <4>2. p.site \in Sites /\ p.edits \in Counts /\ p.running \in BOOLEAN
        BY <2>2 DEF Payloads
      <4>. QED
        BY <4>1, <4>2, ViewTypes
    <3>. QED
      BY <1>10, <3>1, <3>2, <3>3 DEF Main
  <2>. QED
    BY <2>1, <2>2, <2>3 DEF MainOK, Listening
<1>11. ASSUME NEW s \in Sites,
             \/ Start(s) \/ Booted(s) \/ RecordsPid(s) \/ Exits(s) \/ Replies(s)
             \/ TerminalCreates(s) \/ TellsStatus(s)
             \/ \E kind \in {"set", "delete"} : TerminalRuns(s, kind)
             \/ \E kind \in {"set", "delete", "stop"} : StudioCalls(s, kind)
             \/ \E a \in Actors : Command(a, s)
      PROVE  MainOK'
  BY <1>1, <1>11 DEF Start, Booted, RecordsPid, Exits, Replies, TerminalCreates, TellsStatus,
     TerminalRuns,
     StudioCalls, Command, SavesNew, SavesEdit, Stops, SavesDeletion, Tells, FailsEarly, FailsLate,
     relay, studio
<1>12. CASE KillDaemon \/ Relink \/ Hears \/ ReadsConfig \/ Replied
  BY <1>1, <1>12 DEF KillDaemon, Relink, Hears, ReadsConfig, Replied, relay, studio
<1>. QED
  BY <1>2, <1>3, <1>4, <1>5, <1>6, <1>7, <1>8, <1>9, <1>10, <1>11, <1>12
  DEF SitesNext, Relay, Launch, Returns

(* The window and the history keep their types.                              *)
LEMMA StaleType ==
  ASSUME stale \subseteq Sites, NEW S \in SUBSET Sites, Stale(S)
  PROVE  stale' \subseteq Sites
  BY DEF Stale

(* Every step keeps the type of stale.                                       *)
LEMMA StaleKept ==
  ASSUME TypeInv, SitesNext
  PROVE  stale' \subseteq Sites
<1>0. stale \subseteq Sites
  BY DEF TypeInv, WindowOK
<1>1. ASSUME NEW S \in SUBSET Sites, Stale(S) PROVE stale' \subseteq Sites
  BY <1>0, <1>1, StaleType
<1>2. ASSUME UNCHANGED stale PROVE stale' \subseteq Sites
  BY <1>0, <1>2
<1>3. ASSUME NEW s \in Sites, Booted(s) \/ Exits(s) \/ Replies(s) PROVE stale' \subseteq Sites
  <2>1. PICK r \in {"yes", "no"} : Broadcast(s, r)
    BY <1>3 DEF Booted, Exits, Replies
  <2>. QED
    BY <1>1, <2>1 DEF Broadcast
<1>4. ASSUME NEW s \in Sites, NEW a \in Actors, Tells(a, s) PROVE stale' \subseteq Sites
  BY <1>1, <1>4 DEF Tells, EmitCliEvent
<1>5. ASSUME NEW s \in Sites, NEW a \in Actors, FailsEarly(a, s) \/ FailsLate(a, s)
      PROVE stale' \subseteq Sites
  BY <1>1, <1>5 DEF FailsEarly, FailsLate
<1>6. ASSUME NEW s \in Sites, CreateReturns(s) \/ StopReturns(s) PROVE stale' \subseteq Sites
  BY <1>1, <1>6 DEF CreateReturns, StopReturns
<1>7. CASE FetchesAll
  BY <1>1, <1>7 DEF FetchesAll
<1>8. CASE HearsKill
  <2>1. Stale({s \in Sites : Up(s)})
    BY <1>8 DEF HearsKill
  <2>. QED
    BY <1>1, <2>1
<1>9. CASE Emits
  <2>1. queue # <<>>
    BY <1>9 DEF Emits, TypeInv, QueueOK
  <2>2. Head(queue) \in Items
    BY <2>1, HeadType DEF TypeInv, QueueOK
  <2>3. Head(queue).site \in Sites
    BY <2>2 DEF Items
  <2>4. Stale({Head(queue).site}) \/ Stale({})
    BY <1>9 DEF Emits
  <2>. QED
    BY <1>1, <2>3, <2>4
<1>10. ASSUME NEW s \in Sites,
             \/ Start(s) \/ RecordsPid(s)
             \/ TerminalCreates(s) \/ StudioCreates(s) \/ CreateReplied(s) \/ SetReturns(s)
             \/ DeleteReturns(s) \/ TellsStatus(s)
             \/ \E kind \in {"set", "delete"} : TerminalRuns(s, kind)
             \/ \E kind \in {"set", "delete", "stop"} : StudioCalls(s, kind)
             \/ \E a \in Actors : SavesNew(a, s) \/ SavesEdit(a, s) \/ Stops(a, s) \/ SavesDeletion(a, s)
       PROVE stale' \subseteq Sites
  BY <1>2, <1>10 DEF Start, RecordsPid, TerminalCreates, StudioCreates, CreateReplied, SetReturns,
     DeleteReturns, TellsStatus,
     TerminalRuns, StudioCalls, SavesNew, SavesEdit, Stops, SavesDeletion
<1>11. CASE \/ KillDaemon \/ Relink \/ ListsSites \/ Listens \/ Connects \/ Subscribes \/ Mounts \/ Hears
            \/ ReadsConfig \/ Main \/ Replied
  BY <1>2, <1>11 DEF KillDaemon, Relink, ListsSites, Listens, Connects, Subscribes, Mounts, Hears,
     ReadsConfig,
     Main, HandlesDeleted, ForwardsDeleted, UnregisterFails, Ignores, HandlesDetails, Replied
<1>. QED
  BY <1>3, <1>4, <1>5, <1>6, <1>7, <1>8, <1>9, <1>10, <1>11 DEF SitesNext, Relay, Launch, Returns,
     Command

(* The list is left, or changed at one site.                                 *)
UiIs(s, v) == ui' = ui \/ ui' = [ui EXCEPT ![s] = v]

(* A change of the list at one site keeps the types of the window.           *)
LEMMA WindowIs ==
  ASSUME WindowOK, UNCHANGED <<created, asked, mounted, phase, crossed>>, stale' \subseteq Sites,
         ~mounted => \A t \in Sites : cmd'["studio"][t] = cmd["studio"][t],
         NEW s \in Sites, NEW v \in Views, UiIs(s, v)
  PROVE  WindowOK'
  BY DEF WindowOK, UiIs

(* Studio runs no command before its window is there.                        *)
LEMMA StudioRuns ==
  ASSUME TypeInv, NEW s \in Sites, cmd["studio"][s] # Idle
  PROVE  mounted
  BY DEF TypeInv, WindowOK

(* A step of a command in a terminal is none of Studio's.                    *)
LEMMA TerminalOnly ==
  ASSUME TypeInv, NEW a \in Actors, NEW s \in Sites, NEW c, CmdIs(a, s, c), a = "studio" => mounted
  PROVE  ~mounted => \A t \in Sites : cmd'["studio"][t] = cmd["studio"][t]
  BY DEF CmdIs, Actors

(* Every step keeps the types of the window.                                 *)
LEMMA WindowKept ==
  ASSUME TypeInv, AwaitedOK, SitesNext, \A s \in Sites : NewInv(s)
  PROVE  WindowOK'
<1>1. stale' \subseteq Sites
  BY StaleKept
<1>2. WindowOK /\ cmd \in [Actors -> [Sites -> Cmds]] /\ "terminal" \in Actors /\ "studio" \in Actors
  BY DEF TypeInv, TruthOK, Actors
<1>3. ASSUME UNCHANGED <<phase, cmd, created, asked, ui, mounted, crossed>> PROVE WindowOK'
  BY <1>1, <1>2, <1>3 DEF WindowOK
<1>4. ASSUME NEW a \in Actors, NEW s \in Sites, NEW c, CmdIs(a, s, c), a = "studio" => mounted,
             UNCHANGED <<phase, created, asked, mounted, crossed>>, NEW v \in Views, UiIs(s, v)
      PROVE  WindowOK'
  <2>1. ~mounted => \A t \in Sites : cmd'["studio"][t] = cmd["studio"][t]
    BY <1>4, TerminalOnly
  <2>. QED
    BY <1>1, <1>2, <1>4, <2>1, WindowIs
<1>5. ASSUME NEW s \in Sites, TerminalCreates(s) PROVE WindowOK'
  <2>1. CmdIs("terminal", s, [kind |-> "create", pc |-> "running"])
    BY <1>2, <1>5, CmdBegins DEF TerminalCreates
  <2>2. UNCHANGED <<phase, created, asked, mounted, crossed>> /\ UiIs(s, Absent)
    BY <1>5 DEF TerminalCreates, relay, studio, window, UiIs
  <2>. QED
    BY <1>2, <1>4, <2>1, <2>2, ViewTypes
<1>6. ASSUME NEW s \in Sites, NEW kind \in {"set", "delete"}, TerminalRuns(s, kind) PROVE WindowOK'
  <2>1. CmdIs("terminal", s, [kind |-> kind, pc |-> "running"])
    BY <1>2, <1>6, CmdBegins DEF TerminalRuns
  <2>2. UNCHANGED <<phase, created, asked, mounted, crossed>> /\ UiIs(s, Absent)
    BY <1>6 DEF TerminalRuns, relay, studio, window, UiIs
  <2>. QED
    BY <1>2, <1>4, <2>1, <2>2, ViewTypes
<1>7. ASSUME NEW s \in Sites, StudioCreates(s) PROVE WindowOK'
  <2>1. CmdIs("studio", s, [kind |-> "create", pc |-> "running"])
    BY <1>2, <1>7, CmdBegins DEF StudioCreates
  <2>2. UNCHANGED <<phase, created, asked, mounted, crossed>> /\ UiIs(s, Entry(Gone, FALSE)) /\ mounted
    BY <1>7 DEF StudioCreates, relay, UiIs
  <2>. QED
    BY <1>2, <1>4, <2>1, <2>2, ViewTypes
<1>8. ASSUME NEW s \in Sites, NEW kind \in {"set", "delete", "stop"}, StudioCalls(s, kind)
      PROVE WindowOK'
  <2>1. CmdIs("studio", s, [kind |-> kind, pc |-> "running"])
    BY <1>2, <1>8, CmdBegins DEF StudioCalls
  <2>2. UNCHANGED <<phase, created, asked, mounted, crossed>> /\ UiIs(s, Absent) /\ mounted
    BY <1>8 DEF StudioCalls, relay, studio, window, UiIs
  <2>. QED
    BY <1>2, <1>4, <2>1, <2>2, ViewTypes
<1>9. ASSUME NEW s \in Sites, NEW a \in Actors, Command(a, s) PROVE WindowOK'
  <2>1. cmd[a][s] # Idle
    BY <1>9 DEF Command, SavesNew, SavesEdit, Stops, SavesDeletion, Tells, FailsEarly, FailsLate,
       Doing, Idle
  <2>2. a = "studio" => mounted
    BY <2>1, StudioRuns
  <2>3. UNCHANGED <<phase, created, asked, mounted, crossed>> /\ UiIs(s, Absent)
    BY <1>9 DEF Command, SavesNew, SavesEdit, Stops, SavesDeletion, Tells, FailsEarly, FailsLate,
       relay, studio,
       window, UiIs
  <2>4. Finishes(a, s) \/ \E p : Moves(a, s, p)
    BY <1>9 DEF Command, SavesNew, SavesEdit, Stops, SavesDeletion, Tells, FailsEarly, FailsLate
  <2>5. ~mounted => \A t \in Sites : cmd'["studio"][t] = cmd["studio"][t]
    BY <1>2, <2>2, <2>4 DEF Finishes, Moves
  <2>. QED
    BY <1>1, <1>2, <2>3, <2>5, WindowIs, ViewTypes
<1>10. ASSUME NEW s \in Sites, Returns(s) PROVE WindowOK'
  <2>1. cmd["studio"][s] # Idle
    BY <1>10 DEF Returns, CreateReturns, CreateReplied, SetReturns, DeleteReturns, StopReturns,
       Doing, Idle
  <2>2. mounted
    BY <2>1, StudioRuns
  <2>3. CASE SetReturns(s)
    <3>1. UNCHANGED <<phase, mounted, created, ui, crossed>> /\ asked' = Append(asked, main)
      BY <2>3 DEF SetReturns, relay
    <3>2. main \in [Sites -> Views]
      BY DEF TypeInv, MainOK
    <3>3. asked' \in Seq([Sites -> Views])
      BY <1>2, <3>1, <3>2 DEF WindowOK
    <3>. QED
      BY <1>1, <1>2, <2>2, <3>1, <3>3 DEF WindowOK
  <2>4. CASE CreateReturns(s)
    <3> DEFINE up == cmd["studio"][s].pc = "toldUp"
               v == IF main[s].shown THEN [main[s] EXCEPT !.running = @ \/ up] ELSE Entry(0, up)
    <3>1. created' = [created EXCEPT ![s] = v] /\ UNCHANGED <<phase, asked, ui, mounted, crossed>>
      BY <2>4 DEF CreateReturns, relay
    <3>2. main[s] \in Views /\ up \in BOOLEAN
      BY DEF TypeInv, MainOK
    <3>3. v \in Views
      <4>1. [main[s] EXCEPT !.running = @ \/ up] \in Views
        BY <3>2 DEF Views
      <4>2. Entry(0, up) \in Views
        BY <3>2, ViewTypes
      <4>. QED
        BY <4>1, <4>2
    <3> HIDE DEF v
    <3>. QED
      BY <1>1, <1>2, <2>2, <3>1, <3>3 DEF WindowOK
  <2>6. CASE CreateReplied(s)
    <3>1. /\ ui' = [ui EXCEPT ![s] = created[s]] /\ created' = [created EXCEPT ![s] = Absent]
          /\ crossed' \subseteq crossed \union {s} /\ UNCHANGED <<phase, asked, mounted>>
      BY <2>6 DEF CreateReplied, relay
    <3>. QED
      BY <1>1, <1>2, <2>2, <3>1, ViewTypes DEF WindowOK
  <2>5. CASE DeleteReturns(s) \/ StopReturns(s)
    <3>1. UNCHANGED <<phase, created, asked, ui, mounted, crossed>>
      BY <2>5 DEF DeleteReturns, StopReturns, relay, window
    <3>. QED
      BY <1>1, <1>2, <2>2, <3>1 DEF WindowOK
  <2>. QED
    BY <1>10, <2>3, <2>4, <2>5, <2>6 DEF Returns
<1>11. CASE ListsSites \/ FetchesAll \/ Listens \/ Connects \/ Subscribes
  <2>1. UNCHANGED <<cmd, created, asked, ui, mounted, crossed>> /\ (phase' \in {"launched", "listing"} => phase = "launched")
    BY <1>11 DEF ListsSites, FetchesAll, Listens, Connects, Subscribes, studio, window
  <2>. QED
    BY <1>1, <1>2, <2>1 DEF WindowOK
<1>12. CASE Mounts
  <2>1. main \in [Sites -> Views]
    BY DEF TypeInv, MainOK
  <2>2. asked' \in Seq([Sites -> Views])
    BY <1>2, <1>12, <2>1 DEF Mounts, WindowOK
  <2>. QED
    BY <1>1, <1>2, <1>12, <2>2 DEF Mounts, WindowOK, relay
<1>13. CASE Replied
  <2>1. Head(asked) \in [Sites -> Views] /\ Tail(asked) \in Seq([Sites -> Views])
    BY <1>2, <1>13, HeadType DEF Replied, WindowOK
  <2>2. UNCHANGED <<phase, cmd, created, mounted>> /\ asked' = Tail(asked) /\ ui' = Head(asked) /\ crossed' \subseteq Sites
    BY <1>13 DEF Replied, relay
  <2>. QED
    BY <1>1, <1>2, <2>1, <2>2 DEF WindowOK
<1>14. CASE Main
  <2>1. UNCHANGED <<phase, cmd, created, asked, mounted>> /\ ipc # <<>>
    BY <1>14 DEF Main, HandlesDeleted, ForwardsDeleted, UnregisterFails, Ignores, HandlesDetails,
       AwaitedOK, relay, window
  <2>2. Head(ipc) \in Payloads
    BY <2>1, HeadType DEF TypeInv, MainOK
  <2>3. Head(ipc).site \in Sites /\ Head(ipc).edits \in Counts /\ Head(ipc).running \in BOOLEAN
    BY <2>2 DEF Payloads
  <2>4. ui' \in [Sites -> Views] /\ crossed' \subseteq Sites
    <3>1. CASE ForwardsDeleted
      BY <1>2, <2>3, <3>1, ViewTypes DEF ForwardsDeleted, Forwards, WindowOK
    <3>2. CASE HandlesDeleted \/ UnregisterFails \/ Ignores
      BY <1>2, <2>3, <3>2 DEF HandlesDeleted, UnregisterFails, Ignores, window, WindowOK
    <3>3. CASE HandlesDetails
      BY <1>2, <2>3, <3>3, ViewTypes DEF HandlesDetails, Forwards, WindowOK
    <3>. QED
      BY <1>14, <3>1, <3>2, <3>3 DEF Main
  <2>. QED
    BY <1>1, <1>2, <2>1, <2>4 DEF WindowOK
<1>15. ASSUME NEW s \in Sites, Start(s) \/ Booted(s) \/ RecordsPid(s) \/ Exits(s) \/ Replies(s) \/ TellsStatus(s)
       PROVE  WindowOK'
  BY <1>3, <1>15 DEF Start, Booted, RecordsPid, Exits, Replies, TellsStatus, relay, studio, window
<1>16. CASE KillDaemon \/ Relink \/ Relay
  BY <1>3, <1>16 DEF KillDaemon, Relink, Relay, Hears, HearsKill, ReadsConfig, Emits, studio, window
<1>. QED
  BY <1>5, <1>6, <1>7, <1>8, <1>9, <1>10, <1>11, <1>12, <1>13, <1>14, <1>15, <1>16 DEF SitesNext,
     Launch

(* Every step keeps the types.                                               *)
LEMMA TypesKept ==
  ASSUME TypeInv, AwaitedOK, \A s \in Sites : SiteInv(s), SitesNext
  PROVE  TypeInv'
<1>1. \A s \in Sites : NewInv(s)
  BY DEF SiteInv
<1>2. TruthOK' /\ BusOK' /\ RelayOK' /\ QueueOK' /\ MainOK' /\ WindowOK'
  BY <1>1, TruthKept, BusKept, RelayKept, QueueKept, MainKept, WindowKept DEF TypeInv
<1>. QED
  BY <1>2 DEF TypeInv

(* The two parts of AwaitedOK.                                               *)
DeletionOK ==
  /\ handling \in BOOLEAN
  /\ handling => ipc # <<>> /\ Head(ipc).event = "DELETED" /\ main[Head(ipc).site] = Absent
ReplyOK ==
  \A s \in Sites : created[s] # Absent => cmd["studio"][s] = [kind |-> "create", pc |-> "returned"]

(* A deletion that is awaited stays the first event, and its site away.      *)
LEMMA DeletionKept ==
  ASSUME TypeInv, DeletionOK, SitesNext, \A s \in Sites : NewInv(s)
  PROVE  DeletionOK'
<1>0. main \in [Sites -> Views] /\ ipc \in Seq(Payloads)
  BY DEF TypeInv, MainOK
<1>0a. ipc # <<>> => Head(ipc).site \in Sites
  <2>1. ipc # <<>> => Head(ipc) \in Payloads
    BY <1>0, HeadType
  <2>2. \A p \in Payloads : p.site \in Sites
    BY DEF Payloads
  <2>. QED
    BY <2>1, <2>2
<1>1. ASSUME UNCHANGED <<handling, ipc, main>> PROVE DeletionOK'
  BY <1>1 DEF DeletionOK
<1>2. ASSUME NEW s \in Sites, StudioCreates(s) PROVE DeletionOK'
  <2>1. config[s] = Unborn /\ main' = [main EXCEPT ![s] = Entry(Gone, FALSE)] /\ UNCHANGED <<handling, ipc>>
    BY <1>2 DEF StudioCreates
  <2>2. handling => Head(ipc).site # s
    <3>1. ~About(ipc, s)
      BY <2>1 DEF NewInv
    <3>2. handling => ipc # <<>> /\ Head(ipc).event # "KILL"
      BY DEF DeletionOK
    <3>. QED
      BY <1>0, <3>1, <3>2, HeadIsAbout DEF Of
  <2>3. handling => Head(ipc).site \in Sites
    BY <1>0a DEF DeletionOK
  <2>. QED
    BY <1>0, <2>1, <2>2, <2>3 DEF DeletionOK
<1>3. ASSUME NEW s \in Sites, CreateReturns(s) \/ DeleteReturns(s) \/ StopReturns(s) PROVE DeletionOK'
  <2>1. UNCHANGED <<handling, ipc>>
    BY <1>3 DEF CreateReturns, DeleteReturns, StopReturns
  <2>2. main[s] = Absent => main'[s] = Absent
    <3>1. CASE CreateReturns(s)
      BY <1>0, <3>1, ViewTypes DEF CreateReturns
    <3>2. CASE DeleteReturns(s)
      BY <1>0, <3>2 DEF DeleteReturns
    <3>3. CASE StopReturns(s)
      <4>1. main'[s] = [main[s] EXCEPT !.running = FALSE]
        BY <1>0, <3>3 DEF StopReturns
      <4>. QED
        BY <1>0, <4>1, ViewStops
    <3>. QED
      BY <1>3, <3>1, <3>2, <3>3
  <2>3. \A t \in Sites : t # s => main'[t] = main[t]
    BY <1>0, <1>3 DEF CreateReturns, DeleteReturns, StopReturns
  <2>4. handling => Head(ipc).site \in Sites
    BY <1>0a DEF DeletionOK
  <2>. QED
    BY <2>1, <2>2, <2>3, <2>4 DEF DeletionOK
<1>4. CASE FetchesAll
  <2>1. phase = "listing" /\ UNCHANGED <<handling, ipc>>
    BY <1>4 DEF FetchesAll
  <2>2. ~handling
    BY <2>1 DEF TypeInv, MainOK, Listening, DeletionOK
  <2>. QED
    BY <2>1, <2>2 DEF DeletionOK
<1>5. CASE HearsKill \/ Emits
  <2>1. UNCHANGED <<handling, main>>
    BY <1>5 DEF HearsKill, Emits
  <2>2. PICK r : ipc' = Append(ipc, r) \/ (ipc' = ipc \o r /\ r \in Seq(Payloads))
    BY <1>5, KillsArePayloads DEF HearsKill, Emits
  <2>3. ipc # <<>> => ipc' # <<>> /\ Head(ipc') = Head(ipc)
    BY <1>0, <2>2
  <2>. QED
    BY <2>1, <2>3 DEF DeletionOK
<1>6. CASE HandlesDeleted
  <2>1. Head(ipc).site \in Sites
    BY <1>0a, <1>6 DEF HandlesDeleted
  <2>. QED
    BY <1>0, <1>6, <2>1 DEF HandlesDeleted, DeletionOK
<1>7. CASE ForwardsDeleted \/ UnregisterFails
  BY <1>7 DEF ForwardsDeleted, UnregisterFails, DeletionOK
<1>8. CASE Ignores \/ HandlesDetails
  BY <1>8 DEF Ignores, HandlesDetails, DeletionOK
<1>9. ASSUME NEW s \in Sites,
             \/ Start(s) \/ Booted(s) \/ RecordsPid(s) \/ Exits(s) \/ Replies(s)
             \/ TerminalCreates(s) \/ CreateReplied(s) \/ SetReturns(s) \/ TellsStatus(s)
             \/ \E kind \in {"set", "delete"} : TerminalRuns(s, kind)
             \/ \E kind \in {"set", "delete", "stop"} : StudioCalls(s, kind)
             \/ \E a \in Actors : Command(a, s)
      PROVE  DeletionOK'
  BY <1>1, <1>9 DEF Start, Booted, RecordsPid, Exits, Replies, TerminalCreates, CreateReplied,
     SetReturns, TellsStatus, TerminalRuns, StudioCalls, Command, SavesNew, SavesEdit, Stops,
     SavesDeletion, Tells, FailsEarly, FailsLate, relay, studio
<1>10. CASE \/ KillDaemon \/ Relink \/ ListsSites \/ Listens \/ Connects \/ Subscribes \/ Mounts \/ Hears
            \/ ReadsConfig \/ Replied
  BY <1>1, <1>10 DEF KillDaemon, Relink, ListsSites, Listens, Connects, Subscribes, Mounts, Hears,
     ReadsConfig, Replied, studio
<1>. QED
  BY <1>2, <1>3, <1>4, <1>5, <1>6, <1>7, <1>8, <1>9, <1>10
  DEF SitesNext, Relay, Launch, Main, Returns

(* A reply of createSite is there as long as its call waits for it.          *)
LEMMA ReplyKept ==
  ASSUME TypeInv, ReplyOK, SitesNext, \A s \in Sites : NewInv(s)
  PROVE  ReplyOK'
<1>0. created \in [Sites -> Views] /\ cmd \in [Actors -> [Sites -> Cmds]]
      /\ "studio" \in Actors /\ "terminal" \in Actors
  BY DEF TypeInv, WindowOK, TruthOK, Actors
<1> DEFINE waits == [kind |-> "create", pc |-> "returned"]
<1>1. ASSUME UNCHANGED created, \A t \in Sites : cmd["studio"][t] = waits => cmd'["studio"][t] = waits
      PROVE  ReplyOK'
  BY <1>1 DEF ReplyOK
<1>2. ASSUME NEW s \in Sites, NEW a \in Actors, NEW c, CmdIs(a, s, c), UNCHANGED created, cmd[a][s] # waits
      PROVE  ReplyOK'
  <2>1. ASSUME NEW t \in Sites, cmd["studio"][t] = waits PROVE cmd'["studio"][t] = waits
    BY <1>0, <1>2, <2>1 DEF CmdIs
  <2>. QED
    BY <1>1, <1>2, <2>1
<1>3. ASSUME NEW s \in Sites, CreateReturns(s) PROVE ReplyOK'
  <2>1. cmd["studio"][s].kind = "create" /\ Moves("studio", s, "returned") /\ waits \in Cmds
    BY <1>3 DEF CreateReturns, Cmds
  <2>2. CmdIs("studio", s, waits)
    BY <1>0, <2>1, CmdMoves
  <2>3. \A t \in Sites : t # s => created'[t] = created[t]
    BY <1>0, <1>3 DEF CreateReturns
  <2>. QED
    BY <1>0, <2>2, <2>3 DEF CmdIs, ReplyOK
<1>4. ASSUME NEW s \in Sites, CreateReplied(s) PROVE ReplyOK'
  <2>1. CmdIs("studio", s, Idle) /\ created' = [created EXCEPT ![s] = Absent]
    BY <1>0, <1>4, CmdFinishes DEF CreateReplied
  <2>. QED
    BY <1>0, <2>1 DEF CmdIs, ReplyOK
<1>5. ASSUME NEW s \in Sites, SetReturns(s) \/ DeleteReturns(s) \/ StopReturns(s) PROVE ReplyOK'
  <2>1. Finishes("studio", s) /\ UNCHANGED created /\ cmd["studio"][s] # waits
    BY <1>5 DEF SetReturns, DeleteReturns, StopReturns, window, Doing
  <2>. QED
    BY <1>0, <1>2, <2>1, CmdFinishes
<1>6. ASSUME NEW s \in Sites, NEW a \in Actors, NEW kind \in {"create", "set", "delete", "stop"},
             Begins(a, s, kind), cmd[a][s] # waits, UNCHANGED created
      PROVE  ReplyOK'
  BY <1>0, <1>2, <1>6, CmdBegins
<1>7. ASSUME NEW s \in Sites,
             \/ TerminalCreates(s) \/ StudioCreates(s)
             \/ \E kind \in {"set", "delete"} : TerminalRuns(s, kind)
             \/ \E kind \in {"set", "delete", "stop"} : StudioCalls(s, kind)
      PROVE  ReplyOK'
  <2>1. UNCHANGED created
    BY <1>7 DEF TerminalCreates, StudioCreates, TerminalRuns, StudioCalls, studio, window
  <2>2. CASE TerminalCreates(s) \/ StudioCreates(s)
    <3>1. cmd["terminal"][s] = Idle /\ cmd["studio"][s] = Idle
      BY <1>0, <2>2 DEF TerminalCreates, StudioCreates, NewInv
    <3>2. PICK a \in {"terminal", "studio"} : Begins(a, s, "create")
      BY <2>2 DEF TerminalCreates, StudioCreates
    <3>3. a \in Actors /\ cmd[a][s] # waits
      BY <1>0, <3>1 DEF Idle
    <3>. QED
      BY <1>6, <2>1, <3>2, <3>3
  <2>3. ASSUME NEW kind \in {"set", "delete"}, TerminalRuns(s, kind) PROVE ReplyOK'
    BY <1>0, <1>6, <2>1, <2>3 DEF TerminalRuns, Idle
  <2>4. ASSUME NEW kind \in {"set", "delete", "stop"}, StudioCalls(s, kind) PROVE ReplyOK'
    BY <1>0, <1>6, <2>1, <2>4 DEF StudioCalls, Idle
  <2>. QED
    BY <1>7, <2>2, <2>3, <2>4
<1>8. ASSUME NEW s \in Sites, NEW a \in Actors, Command(a, s) PROVE ReplyOK'
  <2>1. UNCHANGED created /\ cmd[a][s] # waits
    BY <1>8 DEF Command, SavesNew, SavesEdit, Stops, SavesDeletion, Tells, FailsEarly, FailsLate,
       studio, window, Doing
  <2>2. Finishes(a, s) \/ \E p : Moves(a, s, p)
    BY <1>8 DEF Command, SavesNew, SavesEdit, Stops, SavesDeletion, Tells, FailsEarly, FailsLate
  <2>3. \A t \in Sites : a # "studio" \/ t # s => cmd'["studio"][t] = cmd["studio"][t]
    BY <1>0, <2>2 DEF Finishes, Moves
  <2>. QED
    BY <1>1, <2>1, <2>3
<1>9. ASSUME NEW s \in Sites, Start(s) \/ Booted(s) \/ RecordsPid(s) \/ Exits(s) \/ Replies(s) \/ TellsStatus(s)
      PROVE  ReplyOK'
  BY <1>1, <1>9 DEF Start, Booted, RecordsPid, Exits, Replies, TellsStatus, studio, window
<1>10. CASE KillDaemon \/ Relink \/ Launch \/ Relay \/ Main \/ Replied
  BY <1>1, <1>10 DEF KillDaemon, Relink, Launch, ListsSites, FetchesAll, Listens, Connects,
     Subscribes, Mounts, Relay, Hears, HearsKill, ReadsConfig, Emits, Main, HandlesDeleted,
     ForwardsDeleted, UnregisterFails, Ignores, HandlesDetails, Replied, studio, window
<1>. QED
  BY <1>3, <1>4, <1>5, <1>7, <1>8, <1>9, <1>10 DEF SitesNext, Returns

(* Every step keeps what is awaited.                                         *)
LEMMA AwaitedKept ==
  ASSUME TypeInv, AwaitedOK, \A s \in Sites : SiteInv(s), SitesNext
  PROVE  AwaitedOK'
<1>1. \A s \in Sites : NewInv(s)
  BY DEF SiteInv
<1>2. DeletionOK /\ ReplyOK
  BY DEF AwaitedOK, DeletionOK, ReplyOK
<1>3. DeletionOK' /\ ReplyOK'
  BY <1>1, <1>2, DeletionKept, ReplyKept
<1>. QED
  BY <1>3 DEF AwaitedOK, DeletionOK, ReplyOK

-----------------------------------------------------------------------------
(* A step changes what the invariants say of a site only where it changes    *)
(* what they look at.                                                        *)
Good(s) == SiteInv(s) /\ (s \notin stale => TrueInv(s))

(* What the invariants of a site look at, part by part, and that a step      *)
(* leaves it (of cmd: loses no obligation and makes none).                   *)
SameTruth(s) ==
  /\ config'[s] = config[s] /\ (server'[s] = "up" <=> server[s] = "up")
  /\ ~InConfig(s) /\ server[s] = "down" /\ ~recorded[s] => server'[s] = "down" /\ ~recorded'[s]
SameCmd(s) ==
  \A a \in Actors :
    /\ config[s] = Unborn \/ Creates(s, {"running"}) => cmd'[a][s] = cmd[a][s]
    /\ Busy(a, s, "create", {"running"})' <=> Busy(a, s, "create", {"running"})
    /\ Busy(a, s, "create", {"saved", "starting"}) => Busy(a, s, "create", {"saved", "starting"})'
    /\ Busy(a, s, "set", {"saved"}) => Busy(a, s, "set", {"saved"})'
    /\ Busy(a, s, "delete", {"saved"})' <=> Busy(a, s, "delete", {"saved"})
    /\ Busy(a, s, "delete", {"saved", "told"})' => Busy(a, s, "delete", {"saved", "told"})
SameLaunch(s) ==
  phase' = phase /\ listed'[s] = listed[s] /\ (s \in untold' <=> s \in untold) /\ (s \in teller' <=> s \in teller)
SameBus(s) == Mine(bus', s) = Mine(bus, s) /\ Lasts(bus', s) = Lasts(bus, s)
SameCalls(s) == Mine(Unread', s) = Mine(Unread, s) /\ Lasts(Unread', s) = Lasts(Unread, s)
SameJob(s) ==
  (Reading(s)' <=> Reading(s)) /\ (Reading(s) => Head(queue') = Head(queue) /\ job'.edits = job.edits)
SameIpc(s) ==
  Mine(ipc', s) = Mine(ipc, s) /\ Lasts(ipc', s) = Lasts(ipc, s) /\ (GoneAfter(ipc, s) => GoneAfter(ipc', s))
SameMain(s) == main'[s] = main[s]
SameWindow(s) == ui'[s] = ui[s] /\ (Following(s)' => Following(s))
SameStale(s) == s \in stale => s \in stale'

SameRelay(s) == SameLaunch(s) /\ SameBus(s) /\ SameCalls(s) /\ SameJob(s)
SameStudio(s) == SameIpc(s) /\ SameMain(s) /\ SameWindow(s)
Same(s) == SameTruth(s) /\ SameCmd(s) /\ SameRelay(s) /\ SameStudio(s) /\ SameStale(s)

(* Variables that are left keep their parts.                                 *)
LEMMA SameOnes ==
  ASSUME NEW s
  PROVE  /\ UNCHANGED truth => SameTruth(s)
         /\ UNCHANGED cmd => SameCmd(s)
         /\ UNCHANGED <<phase, listed, untold, teller>> => SameLaunch(s)
         /\ UNCHANGED bus => SameBus(s)
         /\ UNCHANGED queue /\ job'.read = job.read /\ job'.edits = job.edits => SameCalls(s) /\ SameJob(s)
         /\ UNCHANGED <<queue, job>> => SameCalls(s) /\ SameJob(s)
         /\ UNCHANGED relay => SameRelay(s)
         /\ UNCHANGED ipc => SameIpc(s)
         /\ UNCHANGED main => SameMain(s)
         /\ UNCHANGED window => SameWindow(s)
         /\ UNCHANGED studio => SameStudio(s)
<1>1. UNCHANGED truth => SameTruth(s)
  BY DEF truth, SameTruth
<1>2. UNCHANGED cmd => SameCmd(s)
  BY DEF SameCmd, Busy
<1>3. UNCHANGED <<phase, listed, untold, teller>> => SameLaunch(s)
  BY DEF SameLaunch
<1>4. UNCHANGED bus => SameBus(s)
  BY DEF SameBus
<1>5. UNCHANGED queue /\ job'.read = job.read /\ job'.edits = job.edits => SameCalls(s) /\ SameJob(s)
  BY DEF SameCalls, SameJob, Unread, Rest, Reading
<1>6. UNCHANGED <<queue, job>> => SameCalls(s) /\ SameJob(s)
  BY DEF SameCalls, SameJob, Unread, Rest, Reading
<1>7. UNCHANGED ipc => SameIpc(s)
  BY DEF SameIpc
<1>8. UNCHANGED main => SameMain(s)
  BY DEF SameMain
<1>9. UNCHANGED window => SameWindow(s)
  BY DEF SameWindow, window, Following
<1>10. UNCHANGED relay => SameRelay(s)
  BY <1>3, <1>4, <1>6 DEF relay, SameRelay
<1>11. UNCHANGED studio => SameStudio(s)
  BY <1>7, <1>8, <1>9 DEF studio, SameStudio
<1>. QED
  BY <1>1, <1>2, <1>3, <1>4, <1>5, <1>6, <1>7, <1>8, <1>9, <1>10, <1>11

(* A step that leaves all of it, but for the window perhaps, keeps the       *)
(* invariants of the site.                                                   *)
LEMMA SameButWindow ==
  ASSUME NEW s, Good(s), SameTruth(s), SameCmd(s), SameRelay(s), SameIpc(s), SameMain(s), SameStale(s),
         SameWindow(s) \/ (s \notin stale' => WindowInv(s)')
  PROVE  Good(s)'
<1> USE DEF SameTruth, SameRelay, SameLaunch, SameBus, SameCalls, SameJob, SameIpc, SameMain,
            SameStale
<1>1. /\ InConfig(s)' <=> InConfig(s)
      /\ Early' <=> Early
      /\ About(bus, s)' <=> About(bus, s)
      /\ About(Unread, s)' <=> About(Unread, s)
      /\ About(ipc, s)' <=> About(ipc, s)
  BY DEF InConfig, Early, About
<1> "terminal" \in Actors /\ "studio" \in Actors /\ \A a \in Actors : a = "terminal" \/ a = "studio"
  BY DEF Actors
<1>2. /\ Creates(s, {"running"})' <=> Creates(s, {"running"})
      /\ Untaken(s)' <=> Untaken(s)
      /\ Coming(s) => Coming(s)'
      /\ (\E a \in Actors : Busy(a, s, "set", {"saved"})) => \E a \in Actors : Busy(a, s, "set", {"saved"})'
      /\ (\E a \in Actors : Busy(a, s, "delete", {"saved", "told"})')
           => \E a \in Actors : Busy(a, s, "delete", {"saved", "told"})
  BY DEF SameCmd, Creates, Coming, Untaken
<1>3. /\ Busy("studio", s, "create", {"running"})' <=> Busy("studio", s, "create", {"running"})
      /\ Busy("terminal", s, "create", {"running"})' <=> Busy("terminal", s, "create", {"running"})
      /\ Busy("terminal", s, "delete", {"saved"})' <=> Busy("terminal", s, "delete", {"saved"})
      /\ Busy("studio", s, "delete", {"saved", "told"})' => Busy("studio", s, "delete", {"saved", "told"})
  BY DEF SameCmd
<1>4. /\ Written(s)' <=> Written(s)
      /\ Deleting(s)' <=> Deleting(s)
      /\ News(s)' <=> News(s)
      /\ Refreshes(s)' <=> Refreshes(s)
      /\ Reports(s)' <=> Reports(s)
  BY <1>1 DEF Written, Deleting, News, Refreshes, Reports
<1>5. NewInv(s)'
  <2>1. NewInv(s)
    BY DEF Good, SiteInv
  <2>2. config[s] = Unborn \/ Creates(s, {"running"}) =>
          ~InConfig(s) /\ cmd'["terminal"][s] = cmd["terminal"][s] /\ cmd'["studio"][s] = cmd["studio"][s]
    BY <2>1 DEF SameCmd, NewInv, Creates, InConfig, Gone, Unborn
  <2>3. \A a \in Actors : Busy(a, s, "create", {"running"}) => Creates(s, {"running"})
    BY DEF Creates
  <2>. QED
    BY <1>1, <1>2, <1>3, <2>1, <2>2, <2>3 DEF NewInv
<1>6. DeleteInv(s)'
  BY <1>2, <1>3, <1>4 DEF DeleteInv, Good, SiteInv
<1>7. PresentInv(s)' /\ StatusInv(s)'
  BY <1>1 DEF PresentInv, StatusInv, Good, SiteInv
<1>8. ASSUME TrueInv(s), s \notin stale' PROVE TrueInv(s)'
  <2>1. KnownInv(s)'
    BY <1>1, <1>2, <1>4, <1>8 DEF KnownInv, TrueInv
  <2>2. AbsentInv(s)'
    BY <1>1, <1>2, <1>3, <1>4, <1>8 DEF AbsentInv, TrueInv
  <2>3. EditsInv(s)'
    BY <1>1, <1>2, <1>4, <1>8 DEF EditsInv, TrueInv
  <2>4. RunningInv(s)'
    <3>1. RunningInv(s)
      BY <1>8 DEF TrueInv
    <3>2. /\ Lasts(bus', s) = Lasts(bus, s) /\ Lasts(Unread', s) = Lasts(Unread, s)
          /\ Lasts(ipc', s) = Lasts(ipc, s) /\ main'[s] = main[s]
      OBVIOUS
    <3>3. s \in untold' <=> s \in untold
      OBVIOUS
    <3>4. Reading(s) => Head(queue') = Head(queue)
      OBVIOUS
    <3>5. Reading(s)' <=> Reading(s)
      OBVIOUS
    <3>6. server'[s] = "up" <=> server[s] = "up"
      OBVIOUS
    <3>. QED
      BY ONLY <1>1, <1>2, <3>1, <3>2, <3>3, <3>4, <3>5, <3>6 DEF RunningInv, Says, Up
  <2>5. WindowInv(s)'
    BY <1>1, <1>2, <1>4, <1>8 DEF WindowInv, TrueInv, SameWindow
  <2>. QED
    BY <2>1, <2>2, <2>3, <2>4, <2>5 DEF TrueInv
<1>. QED
  BY <1>5, <1>6, <1>7, <1>8 DEF Good, SiteInv

(* A step that changes nothing for a site keeps what holds of it.            *)
LEMMA SameIsGood ==
  ASSUME NEW s, Good(s), Same(s)
  PROVE  Good(s)'
  BY SameButWindow DEF Same, SameStudio

-----------------------------------------------------------------------------
(* Steps that leave all that the invariants look at, of one site or of all.  *)
LEMMA CmdElsewhere ==
  ASSUME NEW a \in Actors, NEW s \in Sites, NEW c, CmdIs(a, s, c), NEW t \in Sites, t # s
  PROVE  SameCmd(t)
  BY DEF CmdIs, SameCmd, Busy

(* A site of the config or of the map has been created.                      *)
LEMMA NotNew ==
  ASSUME NEW s \in Sites, NewInv(s), InConfig(s) \/ main[s].shown
  PROVE  /\ config[s] # Unborn /\ ~Busy("terminal", s, "create", {"running"})
         /\ Creates(s, {"running"}) => Busy("studio", s, "create", {"running"})
         /\ InConfig(s) => ~Creates(s, {"running"})
  BY DEF NewInv, InConfig, Gone, Unborn, Creates, Actors, Absent

(* A history that is left.                                                   *)
LEMMA StaleSame ==
  ASSUME UNCHANGED stale, NEW t
  PROVE  SameStale(t)
  BY DEF SameStale

(* A server is spawned, or its pid recorded.                                 *)
LEMMA QuietSteps ==
  ASSUME TypeInv, NEW t \in Sites, Good(t), NEW s \in Sites, Good(s), Start(s) \/ RecordsPid(s)
  PROVE  Good(t)'
<1>1. UNCHANGED <<config, cmd, relay, studio, stale>>
  BY DEF Start, RecordsPid
<1>2. SameTruth(t)
  BY <1>1 DEF Start, RecordsPid, Spawned, SameTruth, Up, TypeInv, TruthOK
<1>. QED
  BY <1>1, <1>2, SameOnes, SameIsGood, StaleSame DEF Same

(* A command other than a create begins.                                     *)
LEMMA CallsKeep ==
  ASSUME TypeInv, NEW t \in Sites, Good(t), NEW s \in Sites, Good(s),
         \/ \E kind \in {"set", "delete"} : TerminalRuns(s, kind)
         \/ \E kind \in {"set", "delete", "stop"} : StudioCalls(s, kind)
  PROVE  Good(t)'
<1>1. PICK a \in Actors, kind \in {"set", "delete", "stop"} :
        /\ Begins(a, s, kind) /\ cmd[a][s] = Idle /\ (InConfig(s) \/ main[s].shown)
        /\ a = "terminal" => InConfig(s)
  BY DEF TerminalRuns, StudioCalls, Actors
<1>2. UNCHANGED <<truth, relay, studio, stale>>
  BY DEF TerminalRuns, StudioCalls
<1> DEFINE c == [kind |-> kind, pc |-> "running"]
<1>3. CmdIs(a, s, c)
  BY <1>1, CmdBegins DEF TypeInv, TruthOK
<1>4. SameCmd(t)
  <2>1. CASE t = s
    <3>1. NewInv(s)
      BY DEF Good, SiteInv
    <3>2. config[s] # Unborn /\ ~Creates(s, {"running"})
      <4>1. a = "studio" => ~Busy("studio", s, "create", {"running"})
        BY <1>1 DEF Busy, Idle
      <4>. QED
        BY <1>1, <3>1, <4>1, NotNew DEF Actors
    <3>3. cmd'[a][s] = c /\ \A b \in Actors : b # a => cmd'[b][s] = cmd[b][s]
      BY <1>3 DEF CmdIs
    <3>. QED
      BY <1>1, <2>1, <3>2, <3>3 DEF SameCmd, Busy, Idle
  <2>. QED
    BY <1>3, <2>1, CmdElsewhere
<1>. QED
  BY <1>2, <1>4, SameOnes, SameIsGood, StaleSame DEF Same

(* The daemon is killed.                                                     *)
LEMMA KillKeeps ==
  ASSUME TypeInv, NEW t \in Sites, Good(t), KillDaemon
  PROVE  Good(t)'
<1>1. UNCHANGED <<truth, cmd, phase, listed, untold, teller, queue, job, studio, stale>> /\ bus' = Append(bus, Killed)
  BY DEF KillDaemon, Killed
<1>2. Killed \in Heard /\ ~Of(Killed, t)
  BY DEF Heard, Killed, Of, Item
<1>3. SameBus(t)
  BY <1>1, <1>2, QueueAppend DEF SameBus, TypeInv, BusOK
<1>. QED
  BY <1>1, <1>3, SameOnes, SameIsGood, StaleSame DEF Same, SameRelay

(* The relay finds another daemon.                                           *)
LEMMA RelinkKeeps ==
  ASSUME TypeInv, NEW t \in Sites, Good(t), Relink
  PROVE  Good(t)'
<1>1. UNCHANGED <<truth, cmd, phase, listed, untold, teller, bus, queue, job, studio, stale>>
  BY DEF Relink
<1>. QED
  BY <1>1, SameOnes, SameIsGood, StaleSame DEF Same, SameRelay

(* The window asks for its first list.                                       *)
LEMMA MountsKeeps ==
  ASSUME TypeInv, NEW t \in Sites, Good(t), Mounts
  PROVE  Good(t)'
<1>1. UNCHANGED <<truth, cmd, relay, ipc, main, created, ui, crossed, stale>> /\ asked' = Append(asked, main)
  BY DEF Mounts
<1>2. main \in [Sites -> Views] /\ asked \in Seq([Sites -> Views])
  BY DEF TypeInv, MainOK, WindowOK
<1>3. asked' # <<>>
  BY <1>1, <1>2
<1>4. SameWindow(t)
  BY <1>1, <1>3 DEF SameWindow, Following
<1>. QED
  BY <1>1, <1>4, SameOnes, SameIsGood, StaleSame DEF Same, SameStudio

(* A delete has stopped the server.                                          *)
LEMMA StopsKeep ==
  ASSUME TypeInv, NEW t \in Sites, Good(t), NEW s \in Sites, Good(s), NEW a \in Actors, Stops(a, s)
  PROVE  Good(t)'
<1>1. UNCHANGED <<truth, relay, studio, stale>>
  BY DEF Stops
<1> DEFINE c == [kind |-> "delete", pc |-> "stopped"]
<1>2. cmd[a][s] = [kind |-> "delete", pc |-> "running"] /\ Moves(a, s, "stopped")
  BY DEF Stops, Doing
<1>3. c \in Cmds
  BY DEF Cmds
<1>4. CmdIs(a, s, c)
  BY <1>2, <1>3, CmdMoves DEF TypeInv, TruthOK
<1>5. SameCmd(t)
  <2>1. CASE t = s
    <3>1. cmd'[a][s] = c /\ \A b \in Actors : b # a => cmd'[b][s] = cmd[b][s]
      BY <1>4 DEF CmdIs
    <3>2. config[s] # Unborn
      BY <1>2 DEF Good, SiteInv, NewInv, Idle
    <3>3. ~Creates(s, {"running"})
      BY <1>2 DEF Good, SiteInv, NewInv, Creates, Busy, Actors, Idle
    <3>. QED
      BY <1>2, <2>1, <3>1, <3>2, <3>3 DEF SameCmd, Busy
  <2>. QED
    BY <1>4, <2>1, CmdElsewhere
<1>. QED
  BY <1>1, <1>5, SameOnes, SameIsGood, StaleSame DEF Same

(* What is known of a call that has not been read, and of the one that has.  *)
LEMMA CallTypes ==
  ASSUME TypeInv, NEW s
  PROVE  /\ Unread \in Seq(Items) /\ (~Listening => Unread = <<>> /\ ~job.read)
         /\ \A x \in Mine(Unread, s) :
              x \in Items /\ x.site = s /\ (phase # "subscribed" => x.running \in {"ask", "status"})
         /\ Reading(s) => /\ Head(queue) \in Items /\ Head(queue).site = s
                          /\ phase # "subscribed" => Head(queue).running \in {"ask", "status"}
<1>1. /\ queue \in Seq(Items) /\ job.read \in BOOLEAN /\ (job.read => queue # <<>>)
      /\ phase # "subscribed" => \A i \in DOMAIN queue : queue[i].running \in {"ask", "status"}
      /\ ~Listening => queue = <<>>
  BY DEF TypeInv, QueueOK
<1>2. Unread \in Seq(Items)
  BY <1>1 DEF Unread, Rest
<1>3. \A i \in DOMAIN Unread : \E j \in DOMAIN queue : Unread[i] = queue[j]
  <2> TAKE i \in DOMAIN Unread
  <2>1. CASE job.read
    <3>1. Unread = Tail(queue) /\ i + 1 \in DOMAIN queue /\ Tail(queue)[i] = queue[i + 1]
      BY <1>1, <2>1 DEF Unread, Rest
    <3>. QED
      BY <3>1
  <2>2. CASE ~job.read
    BY <2>2 DEF Unread, Rest
  <2>. QED
    BY <2>1, <2>2
<1>4. \A x \in Mine(Unread, s) :
        x \in Items /\ x.site = s /\ (phase # "subscribed" => x.running \in {"ask", "status"})
  <2> TAKE x \in Mine(Unread, s)
  <2>1. x \in Items /\ x.site = s
    BY <1>2, LastsAreMine
  <2>2. PICK i \in DOMAIN Unread : x = Unread[i]
    BY DEF Mine
  <2>. QED
    BY <1>1, <1>3, <2>1, <2>2
<1>5. Reading(s) => /\ Head(queue) \in Items /\ Head(queue).site = s
                    /\ phase # "subscribed" => Head(queue).running \in {"ask", "status"}
  <2> SUFFICES ASSUME Reading(s)
               PROVE  /\ Head(queue) \in Items /\ Head(queue).site = s
                      /\ phase # "subscribed" => Head(queue).running \in {"ask", "status"}
    OBVIOUS
  <2>1. queue # <<>> /\ Head(queue).site = s
    BY <1>1 DEF Reading
  <2>2. Head(queue) \in Items
    BY <1>1, <2>1, HeadType
  <2>3. 1 \in DOMAIN queue /\ queue[1] = Head(queue)
    BY <1>1, <2>1
  <2>. QED
    BY <1>1, <2>1, <2>2, <2>3
<1>6. ~Listening => Unread = <<>> /\ ~job.read
  BY <1>1 DEF Unread, Rest
<1>. QED
  BY <1>2, <1>4, <1>5, <1>6

(* What is known of an event on its way to the main process.                 *)
LEMMA PayloadTypes ==
  ASSUME TypeInv, NEW s
  PROVE  /\ ipc \in Seq(Payloads)
         /\ \A p \in Mine(ipc, s) : p \in Payloads /\ p.site = s
         /\ ~Listening => ~About(ipc, s) /\ ~About(Unread, s) /\ ~Reading(s) /\ ~Deleting(s) /\ ~News(s)
<1>1. ipc \in Seq(Payloads) /\ (~Listening => ipc = <<>>)
  BY DEF TypeInv, MainOK
<1>2. \A p \in Mine(ipc, s) : p \in Payloads /\ p.site = s
  BY <1>1, LastsAreMine
<1>3. ASSUME ~Listening
      PROVE ~About(ipc, s) /\ ~About(Unread, s) /\ ~Reading(s) /\ ~Deleting(s) /\ ~News(s)
  <2>1. ipc = <<>> /\ Unread = <<>> /\ ~job.read
    BY <1>1, <1>3, CallTypes
  <2>2. Mine(ipc, s) = {} /\ Mine(Unread, s) = {}
    BY <2>1, QueueEmpty
  <2>. QED
    BY <2>1, <2>2 DEF About, Reading, Deleting, News, Written
<1>. QED
  BY <1>1, <1>2, <1>3

(* The daemon's broadcast reaches the relay, or the relay has yet to ask.    *)
LEMMA BroadcastKeeps ==
  ASSUME TypeInv, NEW s \in Sites, Good(s), NEW t \in Sites, Good(t), NEW r \in {"yes", "no"}, Broadcast(s, r),
         server[s] # "down", r = "yes" <=> server'[s] = "up",
         \A u \in Sites \ {s} : server'[u] = server[u] /\ recorded'[u] = recorded[u],
         UNCHANGED <<config, cmd, phase, listed, untold, teller, queue, studio>>,
         job'.read = job.read, job'.edits = job.edits
  PROVE  Good(t)'
<1> DEFINE x == Item("UPDATED", s, r)
<1>1. x \in Heard /\ x.site = s /\ x.running = r /\ x.event = "UPDATED"
  BY DEF Heard, Item
<1> HIDE DEF x
<1>2. bus \in Seq(Heard)
  BY DEF TypeInv, BusOK
<1>3. bus' = bus \/ bus' = Append(bus, x)
  BY DEF Broadcast, x
<1>4. SameStale(t) /\ SameStale(s)
  BY DEF Broadcast, Stale, SameStale
<1>7. /\ Mine(Append(bus, x), t) = IF Of(x, t) THEN Mine(bus, t) \union {x} ELSE Mine(bus, t)
      /\ Lasts(Append(bus, x), t) = IF Of(x, t) THEN {x} ELSE Lasts(bus, t)
  BY <1>1, <1>2, QueueAppend
<1>5. CASE t # s
  <2>1. ~Of(x, t)
    BY <1>1, <1>5 DEF Of
  <2>2. SameBus(t)
    BY <1>3, <1>7, <2>1 DEF SameBus
  <2>3. SameTruth(t)
    BY <1>5 DEF SameTruth
  <2>. QED
    BY <1>4, <2>2, <2>3, SameOnes, SameIsGood DEF Same, SameRelay
<1>6. CASE t = s
  <2>1. /\ SameCmd(s) /\ SameLaunch(s) /\ SameCalls(s) /\ SameJob(s) /\ SameIpc(s) /\ SameMain(s) /\ SameWindow(s)
    BY SameOnes DEF SameStudio
  <2>2. config[s] # Unborn /\ ~Creates(s, {"running"})
    BY DEF Good, SiteInv, NewInv
  <2>3. /\ InConfig(s)' <=> InConfig(s)
        /\ Early' <=> Early
        /\ About(bus, s) => About(bus, s)'
        /\ About(Unread, s)' <=> About(Unread, s)
        /\ About(ipc, s)' <=> About(ipc, s)
    <3>1. About(bus, s) => About(bus, s)'
      BY <1>3, <1>6, <1>7 DEF About
    <3>. QED
      BY <2>1, <3>1 DEF InConfig, Early, About, SameLaunch, SameCalls, SameIpc
  <2>4. /\ Creates(s, {"running"})' <=> Creates(s, {"running"})
        /\ Coming(s)' <=> Coming(s)
        /\ Untaken(s)' <=> Untaken(s)
        /\ \A a \in Actors : \A k, pcs : Busy(a, s, k, pcs)' <=> Busy(a, s, k, pcs)
    BY DEF Creates, Coming, Untaken, Busy
  <2>5. /\ Written(s)' <=> Written(s)
        /\ Deleting(s)' <=> Deleting(s)
        /\ News(s)' <=> News(s)
        /\ Refreshes(s) => Refreshes(s)'
        /\ Reports(s) => Reports(s)'
    BY <2>1, <2>3 DEF Written, Deleting, News, Refreshes, Reports, SameLaunch, SameCalls, SameJob,
       SameIpc
  <2> "terminal" \in Actors /\ "studio" \in Actors
    BY DEF Actors
  <2>6. NewInv(s)'
    BY <2>2, <2>4 DEF NewInv, Creates
  <2>7. DeleteInv(s)'
    BY <2>1, <2>4, <2>5 DEF DeleteInv, Good, SiteInv, SameJob, SameIpc
  <2>8. PresentInv(s)' /\ StatusInv(s)'
    BY <2>1, <2>3 DEF PresentInv, StatusInv, Good, SiteInv, SameJob, SameIpc, SameCalls, SameLaunch
  <2>9. ASSUME s \notin stale' PROVE TrueInv(s)'
    <3>0. TrueInv(s)
      BY <1>4, <2>9 DEF Good, SameStale
    <3>1. KnownInv(s)'
      BY <2>1, <2>3, <2>4, <2>5, <3>0 DEF KnownInv, TrueInv, SameMain, SameLaunch, SameCalls
    <3>2. AbsentInv(s)'
      BY <2>1, <2>3, <2>4, <2>5, <3>0 DEF AbsentInv, TrueInv, SameMain, SameLaunch
    <3>3. EditsInv(s)'
      BY <2>1, <2>3, <2>4, <2>5, <3>0 DEF EditsInv, TrueInv, SameMain, SameJob, SameIpc
    <3>4. WindowInv(s)'
      BY <2>1, <2>3, <2>4, <2>5, <3>0 DEF WindowInv, TrueInv, SameMain, SameWindow
    <3>5. RunningInv(s)'
      <4>1. CASE bus' = Append(bus, x)
        <5>1. Of(x, s)
          BY <1>1 DEF Of
        <5>2. Lasts(bus', s) = {x} /\ x \in Mine(bus', s)
          BY <1>6, <1>7, <4>1, <5>1
        <5>. QED
          BY <1>1, <5>2 DEF RunningInv, About, Up
      <4>2. CASE bus' # Append(bus, x)
        <5>1. s \in untold \/ s \in teller \/ Early
          BY <2>9, <4>2 DEF Broadcast, Stale, x, Early, TypeInv, RelayOK, Phases
        <5> SUFFICES ASSUME s \in teller PROVE RunningInv(s)'
          BY <2>3, <5>1 DEF RunningInv
        <5>2. phase # "subscribed" /\ bus' = <<>>
          BY <1>3, <4>2 DEF TypeInv, RelayOK, BusOK
        <5>3. Lasts(bus', s) = {} /\ ~About(bus', s)
          BY <5>2, QueueEmpty
        <5>4. \A y \in Lasts(Unread, s) : y.running \in {"ask", "status"}
          BY <5>2, CallTypes, LastsAreMine
        <5>5. Reading(s) => Head(queue).running \in {"ask", "status"}
          BY <5>2, CallTypes
        <5>6. About(Unread, s) \/ Reading(s)
          BY DEF Good, SiteInv, StatusInv, About
        <5>. QED
          BY <2>1, <2>3, <5>3, <5>4, <5>5, <5>6 DEF RunningInv, Says, SameCalls, SameJob
      <4>. QED
        BY <4>1, <4>2
    <3>. QED
      BY <3>1, <3>2, <3>3, <3>4, <3>5 DEF TrueInv
  <2>. QED
    BY <1>6, <2>6, <2>7, <2>8, <2>9 DEF Good, SiteInv
<1>. QED
  BY <1>5, <1>6

(* The daemon broadcasts what becomes of a server.                           *)
LEMMA ServersKeep ==
  ASSUME TypeInv, NEW s \in Sites, Good(s), NEW t \in Sites, Good(t), Booted(s) \/ Exits(s) \/ Replies(s)
  PROVE  Good(t)'
<1>1. server \in [Sites -> {"down", "booting", "up"}] /\ recorded \in [Sites -> BOOLEAN]
  BY DEF TypeInv, TruthOK
<1>2. CASE Booted(s)
  <2>1. server'[s] = "up" /\ server[s] # "down" /\ Broadcast(s, "yes")
    BY <1>1, <1>2 DEF Booted
  <2>. QED
    BY <1>1, <1>2, <2>1, BroadcastKeeps DEF Booted
<1>3. CASE Exits(s)
  <2>1. server'[s] = "down" /\ server[s] # "down" /\ Broadcast(s, "no")
    BY <1>1, <1>3 DEF Exits
  <2>2. job'.read = job.read /\ job'.edits = job.edits
    BY <1>3 DEF Exits, TypeInv, QueueOK
  <2>. QED
    BY <1>1, <1>3, <2>1, <2>2, BroadcastKeeps DEF Exits
<1>4. CASE Replies(s)
  <2>1. UNCHANGED truth /\ server'[s] = "up" /\ server[s] # "down" /\ Broadcast(s, "yes")
    BY <1>4 DEF Replies, Up, truth
  <2>. QED
    BY <1>4, <2>1, BroadcastKeeps DEF Replies, truth
<1>. QED
  BY <1>2, <1>3, <1>4

(* What follows of the relay and of its events being left.                   *)
LEMMA SameFacts ==
  ASSUME NEW s, SameRelay(s), SameIpc(s)
  PROVE  /\ phase' = phase /\ listed'[s] = listed[s] /\ (s \in untold' <=> s \in untold)
         /\ Early' <=> Early
         /\ About(bus, s)' <=> About(bus, s)
         /\ About(Unread, s)' <=> About(Unread, s)
         /\ About(ipc, s)' <=> About(ipc, s)
         /\ Reading(s)' <=> Reading(s)
         /\ Written(s)' <=> Written(s)
         /\ Deleting(s)' <=> Deleting(s)
         /\ News(s)' <=> News(s)
         /\ Refreshes(s)' <=> Refreshes(s)
         /\ Reports(s)' <=> Reports(s)
         /\ StatusInv(s) => StatusInv(s)'
         /\ GoneAfter(ipc, s) => GoneAfter(ipc, s)'
         /\ Lasts(bus, s)' = Lasts(bus, s) /\ Lasts(Unread, s)' = Lasts(Unread, s) /\ Lasts(ipc, s)' = Lasts(ipc, s)
         /\ Mine(Unread, s)' = Mine(Unread, s) /\ Mine(ipc, s)' = Mine(ipc, s)
         /\ Reading(s) => Head(queue)' = Head(queue) /\ job'.edits = job.edits
<1> USE DEF SameRelay, SameLaunch, SameBus, SameCalls, SameJob, SameIpc
<1>1. /\ About(bus, s)' <=> About(bus, s)
      /\ About(Unread, s)' <=> About(Unread, s)
      /\ About(ipc, s)' <=> About(ipc, s)
      /\ Early' <=> Early
  BY DEF About, Early
<1>2. /\ Written(s)' <=> Written(s)
      /\ Deleting(s)' <=> Deleting(s)
      /\ News(s)' <=> News(s)
      /\ Refreshes(s)' <=> Refreshes(s)
      /\ Reports(s)' <=> Reports(s)
      /\ StatusInv(s) => StatusInv(s)'
  BY <1>1 DEF Written, Deleting, News, Refreshes, Reports, StatusInv
<1>. QED
  BY <1>1, <1>2

(* A site that is new is on no queue.                                        *)
LEMMA NewIsQuiet ==
  ASSUME NEW s, NewInv(s), config[s] = Unborn \/ Creates(s, {"running"})
  PROVE  /\ Mine(bus, s) = {} /\ Mine(Unread, s) = {} /\ Mine(ipc, s) = {} /\ ~Reading(s)
         /\ ~Deleting(s) /\ ~News(s) /\ listed[s] = Gone /\ ~InConfig(s)
<1>1. Mine(bus, s) = {} /\ Mine(Unread, s) = {} /\ Mine(ipc, s) = {} /\ ~Reading(s) /\ listed[s] = Gone
  BY DEF NewInv, About
<1>2. ~InConfig(s)
  BY DEF NewInv, InConfig, Creates, Actors, Gone, Unborn
<1>. QED
  BY <1>1, <1>2 DEF Deleting, News, Written

(* A create begins, in a terminal or in Studio.                              *)
LEMMA CreatesKeep ==
  ASSUME TypeInv, NEW s \in Sites, Good(s), NEW t \in Sites, Good(t), TerminalCreates(s) \/ StudioCreates(s)
  PROVE  Good(t)'
<1> "terminal" \in Actors /\ "studio" \in Actors /\ \A b \in Actors : b = "terminal" \/ b = "studio"
  BY DEF Actors
<1>1. PICK a \in Actors :
        /\ Begins(a, s, "create") /\ config[s] = Unborn /\ config' = [config EXCEPT ![s] = Gone]
        /\ UNCHANGED <<recorded, server, relay, ipc, stale>>
        /\ a = "terminal" => UNCHANGED <<main, window>>
        /\ a = "studio" => /\ main' = [main EXCEPT ![s] = Entry(Gone, FALSE)]
                           /\ ui' = [ui EXCEPT ![s] = Entry(Gone, FALSE)]
                           /\ UNCHANGED <<created, asked, mounted, crossed>>
  BY DEF TerminalCreates, StudioCreates, studio
<1> DEFINE c == [kind |-> "create", pc |-> "running"]
<1>2. CmdIs(a, s, c)
  BY <1>1, CmdBegins DEF TypeInv, TruthOK
<1>3. config \in [Sites -> Unborn .. MaxChanges] /\ main \in [Sites -> Views] /\ ui \in [Sites -> Views]
  BY DEF TypeInv, TruthOK, MainOK, WindowOK
<1>4. SameRelay(t) /\ SameIpc(t) /\ SameStale(t)
  BY <1>1, SameOnes, StaleSame
<1>5. CASE t # s
  <2>1. SameTruth(t)
    BY <1>1, <1>3, <1>5 DEF SameTruth
  <2>2. SameMain(t) /\ SameWindow(t)
    <3>1. UNCHANGED <<created, asked, mounted, crossed>>
      BY <1>1 DEF window
    <3>2. main'[t] = main[t] /\ ui'[t] = ui[t]
      BY <1>1, <1>3, <1>5 DEF window
    <3>. QED
      BY <3>1, <3>2 DEF SameMain, SameWindow, Following
  <2>3. SameCmd(t)
    BY <1>2, <1>5, CmdElsewhere
  <2>. QED
    BY <1>4, <2>1, <2>2, <2>3, SameIsGood DEF Same, SameStudio
<1>6. CASE t = s
  <2>1. NewInv(s) /\ DeleteInv(s) /\ PresentInv(s) /\ StatusInv(s)
    BY DEF Good, SiteInv
  <2>2. /\ Mine(bus, s) = {} /\ Mine(Unread, s) = {} /\ Mine(ipc, s) = {} /\ ~Reading(s)
        /\ ~Deleting(s) /\ ~News(s) /\ listed[s] = Gone
    BY <1>1, <2>1, NewIsQuiet
  <2>3. server[s] = "down" /\ ~recorded[s] /\ s \notin untold /\ main[s] = Absent /\ \A b \in Actors : cmd[b][s] = Idle
    BY <1>1, <2>1 DEF NewInv
  <2>4. /\ Mine(bus', s) = {} /\ Mine(Unread', s) = {} /\ Mine(ipc', s) = {} /\ ~Reading(s)' /\ ~Deleting(s)'
        /\ ~News(s)' /\ listed'[s] = Gone /\ s \notin untold' /\ StatusInv(s)' /\ GoneAfter(ipc', s)
        /\ phase' = phase
    BY <1>4, <1>6, <2>1, <2>2, <2>3, SameFacts DEF SameRelay, SameBus, SameCalls, SameIpc, DeleteInv
  <2>5. config'[s] = Gone /\ ~InConfig(s)' /\ config'[s] # Unborn
    BY <1>1, <1>3 DEF InConfig, Gone, Unborn
  <2>6. cmd'[a][s] = c /\ \A b \in Actors : b # a => cmd'[b][s] = Idle
    BY <1>2, <2>3 DEF CmdIs
  <2>7. NewInv(s)'
    <3>1. server'[s] = "down" /\ ~recorded'[s]
      BY <1>1, <2>3
    <3>2. a = "terminal" => main'[s] = Absent
      BY <1>1, <2>3
    <3>. QED
      BY <2>4, <2>5, <2>6, <3>1, <3>2 DEF NewInv, About, Busy, Idle
  <2>8. DeleteInv(s)'
    BY <2>4, <2>6 DEF DeleteInv, Busy, Idle
  <2>9. PresentInv(s)'
    BY <2>5 DEF PresentInv
  <2>10. ASSUME s \notin stale' PROVE TrueInv(s)'
    <3>1. WindowInv(s)
      BY <1>4, <1>6, <2>10 DEF Good, TrueInv, SameStale
    <3>2. KnownInv(s)'
      BY <2>4, <2>5 DEF KnownInv
    <3>3. AbsentInv(s)'
      BY <1>1, <2>3, <2>4, <2>6 DEF AbsentInv, Busy
    <3>4. EditsInv(s)' /\ RunningInv(s)'
      BY <2>5 DEF EditsInv, RunningInv
    <3>5. WindowInv(s)'
      <4>1. CASE a = "terminal"
        <5>1. Following(s)' => Following(s)
          BY <1>1, <4>1 DEF Following, window
        <5>2. ~main[s].shown
          BY <2>3 DEF Absent
        <5>. QED
          BY <1>1, <2>2, <3>1, <4>1, <5>1, <5>2 DEF WindowInv, window
      <4>2. CASE a = "studio"
        BY <1>1, <1>3, <4>2 DEF WindowInv
      <4>. QED
        BY <4>1, <4>2
    <3>. QED
      BY <3>2, <3>3, <3>4, <3>5 DEF TrueInv
  <2>. QED
    BY <1>6, <2>4, <2>7, <2>8, <2>9, <2>10 DEF Good, SiteInv
<1>. QED
  BY <1>5, <1>6

(* A create saves the site.                                                  *)
LEMMA SavesNewKeeps ==
  ASSUME TypeInv, NEW s \in Sites, Good(s), NEW t \in Sites, Good(t), NEW a \in Actors, SavesNew(a, s)
  PROVE  Good(t)'
<1>1. PICK p \in {"saved", "starting"} :
        /\ cmd[a][s] = [kind |-> "create", pc |-> "running"] /\ Moves(a, s, p)
        /\ config' = [config EXCEPT ![s] = 0] /\ UNCHANGED <<recorded, relay, studio, stale>>
        /\ \A u \in Sites \ {s} : server'[u] = server[u]
  BY DEF SavesNew, Doing, Spawned, TypeInv, TruthOK
<1> DEFINE c == [kind |-> "create", pc |-> p]
<1>2. CmdIs(a, s, c)
  <2>1. c \in Cmds
    BY DEF Cmds
  <2>. QED
    BY <1>1, <2>1, CmdMoves DEF TypeInv, TruthOK
<1>3. config \in [Sites -> Unborn .. MaxChanges]
  BY DEF TypeInv, TruthOK
<1>4. SameRelay(t) /\ SameStudio(t) /\ SameIpc(t) /\ SameStale(t)
  <2>1. UNCHANGED ipc
    BY <1>1 DEF studio
  <2>. QED
    BY <1>1, <2>1, SameOnes, StaleSame
<1>5. CASE t # s
  <2>1. SameTruth(t)
    BY <1>1, <1>3, <1>5 DEF SameTruth
  <2>2. SameCmd(t)
    BY <1>2, <1>5, CmdElsewhere
  <2>. QED
    BY <1>4, <2>1, <2>2, SameIsGood DEF Same
<1>6. CASE t = s
  <2>1. NewInv(s) /\ DeleteInv(s) /\ PresentInv(s) /\ StatusInv(s)
    BY DEF Good, SiteInv
  <2>2. Creates(s, {"running"})
    BY <1>1 DEF Creates, Busy
  <2>3. /\ Mine(bus, s) = {} /\ Mine(Unread, s) = {} /\ Mine(ipc, s) = {} /\ ~Reading(s)
        /\ ~Deleting(s) /\ ~News(s) /\ listed[s] = Gone /\ ~InConfig(s)
    BY <2>1, <2>2, NewIsQuiet
  <2>4. /\ Mine(bus', s) = {} /\ Mine(Unread', s) = {} /\ Mine(ipc', s) = {} /\ ~Reading(s)' /\ ~Deleting(s)'
        /\ listed'[s] = Gone /\ StatusInv(s)' /\ GoneAfter(ipc', s)
    BY <1>4, <1>6, <2>1, <2>3, SameFacts DEF SameRelay, SameBus, SameCalls, SameIpc, DeleteInv
  <2>5. config'[s] = 0 /\ InConfig(s)' /\ config'[s] # Unborn
    BY <1>1, <1>3 DEF InConfig, Unborn
  <2>6. cmd'[a][s] = c /\ \A b \in Actors : b # a => cmd[b][s] = Idle /\ cmd'[b][s] = Idle
    BY <1>1, <1>2, <2>1 DEF CmdIs, NewInv, Busy, Actors
  <2>7. ~Creates(s, {"running"})' /\ Coming(s)' /\ ~Untaken(s)
    BY <1>1, <2>6 DEF Creates, Coming, Untaken, Busy, Idle
  <2>8. NewInv(s)'
    BY <2>5, <2>7 DEF NewInv, Creates, Actors
  <2>9. DeleteInv(s)'
    BY <2>4, <2>6 DEF DeleteInv, Busy, Idle, Actors
  <2>10. PresentInv(s)'
    BY <2>4 DEF PresentInv
  <2>11. ASSUME s \notin stale' PROVE TrueInv(s)'
    <3>1. WindowInv(s)
      BY <1>4, <1>6, <2>11 DEF Good, TrueInv, SameStale
    <3>2. KnownInv(s)' /\ AbsentInv(s)' /\ EditsInv(s)'
      BY <2>4, <2>5, <2>7 DEF KnownInv, AbsentInv, EditsInv
    <3>3. Lasts(bus', s) = {}
      BY <2>4, LastsAreMine, <1>1 DEF relay, TypeInv, BusOK
    <3>4. RunningInv(s)'
      BY <2>7, <3>3 DEF RunningInv
    <3>5. WindowInv(s)'
      BY <1>4, <1>6, <2>3, <2>7, <3>1 DEF WindowInv, SameStudio, SameMain, SameWindow
    <3>. QED
      BY <3>2, <3>4, <3>5 DEF TrueInv
  <2>. QED
    BY <1>6, <2>4, <2>8, <2>9, <2>10, <2>11 DEF Good, SiteInv
<1>. QED
  BY <1>5, <1>6

(* A command edits the site.                                                 *)
LEMMA SavesEditKeeps ==
  ASSUME TypeInv, NEW s \in Sites, Good(s), NEW t \in Sites, Good(t), NEW a \in Actors, SavesEdit(a, s)
  PROVE  Good(t)'
<1>1. /\ cmd[a][s] = [kind |-> "set", pc |-> "running"] /\ Moves(a, s, "saved") /\ InConfig(s)
      /\ config' = [config EXCEPT ![s] = config[s] + 1]
      /\ UNCHANGED <<recorded, server, relay, studio, stale>> /\ UNCHANGED ipc
  BY DEF SavesEdit, Doing, studio
<1> DEFINE c == [kind |-> "set", pc |-> "saved"]
<1>2. CmdIs(a, s, c)
  <2>1. c \in Cmds
    BY DEF Cmds
  <2>. QED
    BY <1>1, <2>1, CmdMoves DEF TypeInv, TruthOK
<1>3. config \in [Sites -> Unborn .. MaxChanges] /\ config[s] \in Int /\ 0 <= config[s]
  BY <1>1, BoundsAssumption DEF TypeInv, TruthOK, InConfig, Unborn
<1>4. SameRelay(t) /\ SameStudio(t) /\ SameIpc(t) /\ SameStale(t)
  BY <1>1, SameOnes, StaleSame
<1>5. CASE t # s
  <2>1. SameTruth(t)
    BY <1>1, <1>3, <1>5 DEF SameTruth
  <2>2. SameCmd(t)
    BY <1>2, <1>5, CmdElsewhere
  <2>. QED
    BY <1>4, <2>1, <2>2, SameIsGood DEF Same
<1>6. CASE t = s
  <2>1. NewInv(s) /\ DeleteInv(s) /\ PresentInv(s) /\ StatusInv(s)
    BY DEF Good, SiteInv
  <2>2. InConfig(s)' /\ config'[s] # Unborn /\ config[s] # Gone
    BY <1>1, <1>3 DEF InConfig, Unborn, Gone
  <2>3. ~Creates(s, {"running"}) /\ ~Deleting(s) /\ ~Untaken(s) /\ \A b \in Actors : ~Busy(b, s, "delete", {"saved", "told"})
    BY <1>1, <2>1, <2>2 DEF NewInv, DeleteInv, Creates, Actors, Untaken, Busy
  <2>4. cmd'[a][s] = c /\ \A b \in Actors : b # a => cmd'[b][s] = cmd[b][s]
    BY <1>2 DEF CmdIs
  <2>5. ~Creates(s, {"running"})' /\ ~Untaken(s)' /\ (\A b \in Actors : ~Busy(b, s, "delete", {"saved", "told"})')
    BY <2>3, <2>4 DEF Creates, Busy, Untaken
  <2>6. (Coming(s)' <=> Coming(s)) /\ Busy(a, s, "set", {"saved"})'
    BY <1>1, <2>4 DEF Coming, Creates, Busy
  <2>7. ~Deleting(s)' /\ StatusInv(s)' /\ (Written(s)' <=> Written(s))
    BY <1>4, <1>6, <2>1, <2>3, SameFacts
  <2>8. NewInv(s)'
    BY <2>2, <2>5 DEF NewInv, Creates, Actors
  <2>9. DeleteInv(s)'
    <3>1. GoneAfter(ipc', s)
      BY <1>1, <2>1 DEF DeleteInv
    <3>2. ~Written(s)'
      BY <2>7 DEF Deleting
    <3>. QED
      BY <2>5, <2>7, <3>1, <3>2 DEF DeleteInv, Busy, Actors
  <2>10. PresentInv(s)'
    BY <1>1, <1>4, <1>6, <2>1, SameFacts DEF PresentInv
  <2>11. ASSUME s \notin stale' PROVE TrueInv(s)'
    <3>1. TrueInv(s)
      BY <1>4, <1>6, <2>11 DEF Good, SameStale
    <3>2. main'[s] = main[s] /\ ui'[s] = ui[s] /\ (Following(s)' => Following(s))
      BY <1>4, <1>6 DEF SameStudio, SameMain, SameWindow
    <3>3. KnownInv(s)'
      BY <1>1, <1>4, <1>6, <2>6, <3>1, <3>2, SameFacts DEF TrueInv, KnownInv
    <3>4. AbsentInv(s)' /\ EditsInv(s)'
      BY <2>2, <2>6 DEF AbsentInv, EditsInv
    <3>5. RunningInv(s)'
      <4>1. RunningInv(s)
        BY <3>1 DEF TrueInv
      <4>2. server'[s] = server[s]
        BY <1>1
      <4>. QED
        BY <1>1, <1>4, <1>6, <2>6, <3>2, <4>1, <4>2, SameFacts DEF RunningInv, Says, Up
    <3>6. WindowInv(s)'
      BY <1>1, <1>4, <1>6, <2>2, <2>3, <2>6, <3>1, <3>2, SameFacts DEF TrueInv, WindowInv
    <3>. QED
      BY <3>3, <3>4, <3>5, <3>6 DEF TrueInv
  <2>. QED
    BY <1>6, <2>7, <2>8, <2>9, <2>10, <2>11 DEF Good, SiteInv
<1>. QED
  BY <1>5, <1>6

(* A command takes the site away.                                            *)
LEMMA SavesDeletionKeeps ==
  ASSUME TypeInv, NEW s \in Sites, Good(s), NEW t \in Sites, Good(t), NEW a \in Actors, SavesDeletion(a, s)
  PROVE  Good(t)'
<1>1. /\ cmd[a][s] = [kind |-> "delete", pc |-> "stopped"] /\ Moves(a, s, "saved") /\ InConfig(s)
      /\ config' = [config EXCEPT ![s] = Gone]
      /\ UNCHANGED <<recorded, server, relay, studio, stale>> /\ UNCHANGED ipc
  BY DEF SavesDeletion, Doing, studio
<1> DEFINE c == [kind |-> "delete", pc |-> "saved"]
<1>2. CmdIs(a, s, c)
  <2>1. c \in Cmds
    BY DEF Cmds
  <2>. QED
    BY <1>1, <2>1, CmdMoves DEF TypeInv, TruthOK
<1>3. config \in [Sites -> Unborn .. MaxChanges] /\ config[s] # Gone
  BY <1>1, BoundsAssumption DEF TypeInv, TruthOK, InConfig, Gone
<1>4. SameRelay(t) /\ SameStudio(t) /\ SameIpc(t) /\ SameStale(t)
  BY <1>1, SameOnes, StaleSame
<1>5. CASE t # s
  <2>1. SameTruth(t)
    BY <1>1, <1>3, <1>5 DEF SameTruth
  <2>2. SameCmd(t)
    BY <1>2, <1>5, CmdElsewhere
  <2>. QED
    BY <1>4, <2>1, <2>2, SameIsGood DEF Same
<1>6. CASE t = s
  <2>1. NewInv(s) /\ DeleteInv(s) /\ PresentInv(s) /\ StatusInv(s)
    BY DEF Good, SiteInv
  <2>2. config'[s] = Gone /\ ~InConfig(s)' /\ config'[s] # Unborn
    BY <1>1, <1>3 DEF InConfig, Unborn, Gone
  <2>3. ~Creates(s, {"running"}) /\ ~Deleting(s) /\ \A b \in Actors : ~Busy(b, s, "delete", {"saved", "told"})
    BY <1>1, <1>3, <2>1 DEF NewInv, DeleteInv, Creates, Actors
  <2>4. cmd'[a][s] = c /\ \A b \in Actors : b # a => cmd'[b][s] = cmd[b][s]
    BY <1>2 DEF CmdIs
  <2>5. ~Creates(s, {"running"})' /\ Untaken(s)'
    BY <2>3, <2>4 DEF Creates, Busy, Untaken
  <2>6. \A b \in Actors : b # a => ~Busy(b, s, "delete", {"saved", "told"})'
    BY <2>3, <2>4 DEF Busy
  <2>7. ~Deleting(s)' /\ StatusInv(s)' /\ (Written(s)' <=> Written(s))
    BY <1>4, <1>6, <2>1, <2>3, SameFacts
  <2>8. NewInv(s)'
    BY <2>2, <2>5 DEF NewInv, Creates, Actors
  <2>9. DeleteInv(s)'
    <3>1. GoneAfter(ipc', s)
      BY <1>1, <2>1 DEF DeleteInv
    <3>2. ~Written(s)'
      BY <2>7 DEF Deleting
    <3>3. ~(Busy("terminal", s, "delete", {"saved"}) /\ Busy("studio", s, "delete", {"saved", "told"}))'
      BY <2>4, <2>6 DEF Busy, Actors
    <3>. QED
      BY <2>2, <2>5, <3>1, <3>2, <3>3 DEF DeleteInv
  <2>10. PresentInv(s)'
    BY <2>2 DEF PresentInv
  <2>11. ASSUME s \notin stale' PROVE TrueInv(s)'
    <3>1. TrueInv(s)
      BY <1>4, <1>6, <2>11 DEF Good, SameStale
    <3>2. main'[s] = main[s] /\ ui'[s] = ui[s] /\ (Following(s)' => Following(s))
      BY <1>4, <1>6 DEF SameStudio, SameMain, SameWindow
    <3>3. KnownInv(s)'
      BY <1>4, <1>6, <2>2, <3>1, <3>2, SameFacts DEF TrueInv, KnownInv
    <3>4. AbsentInv(s)' /\ EditsInv(s)' /\ RunningInv(s)'
      BY <2>2, <2>5 DEF AbsentInv, EditsInv, RunningInv
    <3>6. WindowInv(s)'
      BY <1>4, <1>6, <2>5, <3>1, <3>2, SameFacts DEF TrueInv, WindowInv
    <3>. QED
      BY <3>3, <3>4, <3>6 DEF TrueInv
  <2>. QED
    BY <1>6, <2>7, <2>8, <2>9, <2>10, <2>11 DEF Good, SiteInv
<1>. QED
  BY <1>5, <1>6

(* A command fails before it has changed the config.                         *)
LEMMA FailsEarlyKeeps ==
  ASSUME TypeInv, NEW s \in Sites, Good(s), NEW t \in Sites, Good(t), NEW a \in Actors, FailsEarly(a, s)
  PROVE  Good(t)'
<1>1. /\ cmd[a][s].pc \in {"running", "stopped"} /\ cmd[a][s].kind # "stop" /\ Finishes(a, s)
      /\ UNCHANGED <<truth, relay, ipc, main, created, asked, mounted, crossed>>
      /\ ui' = ui \/ ui' = [ui EXCEPT ![s] = Absent]
  BY DEF FailsEarly
<1>2. CmdIs(a, s, Idle) /\ ui \in [Sites -> Views]
  BY <1>1, CmdFinishes DEF TypeInv, TruthOK, WindowOK
<1>3. SameTruth(t) /\ SameRelay(t) /\ SameIpc(t) /\ SameMain(t) /\ SameStale(t)
  BY <1>1, SameOnes DEF FailsEarly, Stale, SameStale
<1>4. Following(t)' <=> Following(t)
  BY <1>1 DEF Following
<1>5. CASE t # s
  <2>1. SameWindow(t)
    BY <1>1, <1>2, <1>4, <1>5 DEF SameWindow
  <2>2. SameCmd(t)
    BY <1>2, <1>5, CmdElsewhere
  <2>. QED
    BY <1>3, <2>1, <2>2, SameIsGood DEF Same, SameStudio
<1>6. CASE t = s
  <2>1. NewInv(s) /\ DeleteInv(s) /\ PresentInv(s) /\ StatusInv(s)
    BY DEF Good, SiteInv
  <2>2. cmd[a][s] \in Cmds /\ Idle \in Cmds
    BY DEF TypeInv, TruthOK, Cmds
  <2>3. cmd'[a][s] = Idle /\ \A b \in Actors : b # a => cmd'[b][s] = cmd[b][s]
    BY <1>2 DEF CmdIs
  <2>4. config[s] # Unborn
    BY <1>1, <2>1 DEF NewInv, Idle
  <2>5. CASE cmd[a][s].kind # "create"
    <3>1. SameWindow(s)
      BY <1>4, <1>6, <2>5 DEF FailsEarly, SameWindow
    <3>2. ~Creates(s, {"running"})
      BY <1>1, <2>1, <2>5 DEF NewInv, Creates, Busy, Actors, Idle
    <3>3. SameCmd(s)
      BY <1>1, <2>3, <2>4, <2>5, <3>2 DEF SameCmd, Busy, Idle
    <3>. QED
      BY <1>3, <1>6, <3>1, <3>3, SameIsGood DEF Same, SameStudio
  <2>6. CASE cmd[a][s].kind = "create"
    <3>1. cmd[a][s].pc = "running"
      BY <1>1, <2>2, <2>6, CmdKinds
    <3>2. Creates(s, {"running"}) /\ Busy(a, s, "create", {"running"})
      BY <2>6, <3>1 DEF Creates, Busy
    <3>3. config[s] = Gone /\ ~InConfig(s) /\ \A b \in Actors : b # a => cmd[b][s] = Idle
      BY <2>1, <3>2 DEF NewInv, Actors, InConfig, Gone
    <3>4. \A b \in Actors : cmd'[b][s] = Idle
      BY <2>3, <3>3
    <3>5. /\ ~Deleting(s) /\ ~News(s) /\ listed[s] = Gone /\ ~Reading(s)
      BY <2>1, <3>2, NewIsQuiet
    <3>6. config'[s] = Gone /\ ~InConfig(s)' /\ config'[s] # Unborn
      BY <1>1, <3>3 DEF truth, InConfig, Gone, Unborn
    <3>7. ~Deleting(s)' /\ ~News(s)' /\ listed'[s] = Gone /\ StatusInv(s)' /\ ~Reading(s)' /\ GoneAfter(ipc', s)
      BY <1>3, <1>6, <2>1, <3>5, SameFacts DEF DeleteInv
    <3>8. NewInv(s)'
      BY <3>4, <3>6 DEF NewInv, Creates, Busy, Idle, Actors
    <3>9. DeleteInv(s)'
      BY <3>4, <3>7 DEF DeleteInv, Busy, Idle, Actors
    <3>10. PresentInv(s)'
      BY <3>6 DEF PresentInv
    <3>11. ASSUME s \notin stale' PROVE TrueInv(s)'
      <4>1. TrueInv(s) /\ a = "terminal" /\ UNCHANGED ui
        <5>1. TrueInv(s)
          BY <1>3, <1>6, <3>11 DEF Good, SameStale
        <5>2. a # "studio" /\ UNCHANGED ui
          BY <2>6, <3>11 DEF FailsEarly, Stale
        <5>. QED
          BY <5>1, <5>2 DEF Actors
      <4>2. main[s] = Absent
        BY <2>1, <3>2, <4>1 DEF NewInv
      <4>3. main'[s] = Absent /\ main'[s] = main[s]
        BY <1>1, <4>2
      <4>4. KnownInv(s)' /\ AbsentInv(s)' /\ EditsInv(s)' /\ RunningInv(s)'
        BY <3>6, <3>7, <4>3 DEF KnownInv, AbsentInv, EditsInv, RunningInv
      <4>5. Following(s) => ui[s] = main[s]
        BY <3>5, <4>1, <4>2 DEF TrueInv, WindowInv, Absent
      <4>6. WindowInv(s)'
        BY <1>4, <1>6, <4>1, <4>3, <4>5 DEF WindowInv
      <4>. QED
        BY <4>4, <4>6 DEF TrueInv
    <3>. QED
      BY <1>6, <3>7, <3>8, <3>9, <3>10, <3>11 DEF Good, SiteInv
  <2>. QED
    BY <2>5, <2>6
<1>. QED
  BY <1>5, <1>6

(* A command fails after it has changed the config.                          *)
LEMMA FailsLateKeeps ==
  ASSUME TypeInv, NEW s \in Sites, Good(s), NEW t \in Sites, Good(t), NEW a \in Actors, FailsLate(a, s)
  PROVE  Good(t)'
<1>1. /\ cmd[a][s].pc \in {"saved", "starting"} /\ Finishes(a, s) /\ Stale({s})
      /\ config' = config \/ config' = [config EXCEPT ![s] = Gone]
      /\ UNCHANGED <<recorded, server, relay, ipc, main, created, asked, mounted, crossed>>
      /\ ui' = ui \/ ui' = [ui EXCEPT ![s] = Absent]
  BY DEF FailsLate
<1>2. CmdIs(a, s, Idle) /\ ui \in [Sites -> Views] /\ config \in [Sites -> Unborn .. MaxChanges]
  BY <1>1, CmdFinishes DEF TypeInv, TruthOK, WindowOK
<1>3. SameRelay(t) /\ SameIpc(t) /\ SameMain(t) /\ SameStale(t)
  BY <1>1, SameOnes DEF Stale, SameStale
<1>5. CASE t # s
  <2>1. SameWindow(t)
    BY <1>1, <1>2, <1>5 DEF SameWindow, Following
  <2>2. SameCmd(t) /\ SameTruth(t)
    BY <1>1, <1>2, <1>5, CmdElsewhere DEF SameTruth
  <2>. QED
    BY <1>3, <2>1, <2>2, SameIsGood DEF Same, SameStudio
<1>6. CASE t = s
  <2>1. NewInv(s) /\ DeleteInv(s) /\ PresentInv(s) /\ StatusInv(s)
    BY DEF Good, SiteInv
  <2>2. s \in stale'
    BY <1>1 DEF Stale
  <2>3. cmd'[a][s] = Idle /\ \A b \in Actors : b # a => cmd'[b][s] = cmd[b][s]
    BY <1>2 DEF CmdIs
  <2>4. config[s] # Unborn /\ ~Creates(s, {"running"})
    BY <1>1, <2>1 DEF NewInv, Creates, Busy, Actors, Idle
  <2>5. config'[s] # Unborn /\ (config[s] = Gone => config'[s] = Gone) /\ (InConfig(s)' => InConfig(s))
    BY <1>1, <1>2, <2>4 DEF InConfig, Gone, Unborn
  <2>6. ~Creates(s, {"running"})' /\ \A b \in Actors : \A k, pcs : k # "none" /\ Busy(b, s, k, pcs)' => Busy(b, s, k, pcs)
    BY <2>3, <2>4 DEF Creates, Busy, Idle
  <2>7. NewInv(s)'
    BY <2>5, <2>6 DEF NewInv, Creates, Actors
  <2>8. DeleteInv(s)'
    BY <1>3, <1>6, <2>1, <2>5, <2>6, SameFacts DEF DeleteInv, Actors
  <2>9. PresentInv(s)' /\ StatusInv(s)'
    BY <1>3, <1>6, <2>1, <2>5, SameFacts DEF PresentInv
  <2>. QED
    BY <1>6, <2>2, <2>7, <2>8, <2>9 DEF Good, SiteInv
<1>. QED
  BY <1>5, <1>6

(* A call is queued.                                                         *)
LEMMA CallArrives ==
  ASSUME TypeInv, NEW s \in Sites, NEW x \in Items, x.site = s, queue' = Append(queue, x), UNCHANGED job, NEW t
  PROVE  /\ SameJob(t)
         /\ t # s => SameCalls(t)
         /\ Mine(Unread', s) = Mine(Unread, s) \union {x} /\ Lasts(Unread', s) = {x}
<1>1. queue \in Seq(Items) /\ job.read \in BOOLEAN /\ (job.read => queue # <<>>)
  BY DEF TypeInv, QueueOK
<1>2. x.event # "KILL"
  BY DEF Items, Events
<1>3. Of(x, s) /\ (t # s => ~Of(x, t))
  BY <1>2 DEF Of
<1>4. Unread' = Rest(Append(queue, x), job)
  BY DEF Unread
<1>5. \A u : /\ Mine(Rest(Append(queue, x), job), u)
                  = IF Of(x, u) THEN Mine(Unread, u) \union {x} ELSE Mine(Unread, u)
             /\ Lasts(Rest(Append(queue, x), job), u) = IF Of(x, u) THEN {x} ELSE Lasts(Unread, u)
  BY <1>1, RestAppend DEF Unread
<1>6. job.read => Head(queue') = Head(queue)
  BY <1>1, RestAppend
<1>7. SameJob(t)
  BY <1>6 DEF SameJob, Reading
<1>. QED
  BY <1>3, <1>4, <1>5, <1>7 DEF SameCalls

(* Nobody listens early only.                                                *)
LEMMA ListeningPhases ==
  ASSUME TypeInv, ~Listening
  PROVE  Early /\ phase \in {"launched", "listing", "registered"}
  BY DEF TypeInv, RelayOK, Phases, Listening, Early

(* A command tells the relay, or nobody listens.                             *)
LEMMA TellsKeeps ==
  ASSUME TypeInv, NEW s \in Sites, Good(s), NEW t \in Sites, Good(t), NEW a \in Actors, Tells(a, s)
  PROVE  Good(t)'
<1> DEFINE x == Item(EventOf(cmd[a][s].kind), s, "ask")
<1>1. /\ cmd[a][s].pc \in {"saved", "starting"}
      /\ UNCHANGED <<truth, phase, listed, untold, teller, linked, bus, job, studio>>
      /\ EmitCliEvent(s, EventOf(cmd[a][s].kind))
  BY DEF Tells
<1>2. cmd[a][s] \in Cmds /\ cmd[a][s].kind \in {"create", "set", "delete"}
      /\ (cmd[a][s].pc = "starting" => cmd[a][s].kind = "create")
  BY <1>1, CmdKinds DEF TypeInv, TruthOK
<1>3. x \in Items /\ x.site = s /\ x.running = "ask"
      /\ (cmd[a][s].kind = "create" <=> x.event = "CREATED") /\ (cmd[a][s].kind = "delete" <=> x.event = "DELETED")
  BY <1>2 DEF Items, Item, Events, EventOf
<1>4. \/ Listening /\ queue' = Append(queue, x) /\ UNCHANGED stale
      \/ /\ ~Listening /\ UNCHANGED queue
         /\ s \notin stale' =>
              /\ cmd[a][s].kind = "create" => phase = "launched" \/ listed[s] # Gone
              /\ cmd[a][s].kind = "delete" => ~main[s].shown /\ listed[s] = Gone
  <2>1. CASE Listening
    BY <1>1, <2>1 DEF EmitCliEvent, Stale
  <2>2. CASE ~Listening
    BY <1>1, <1>2, <2>2 DEF EmitCliEvent, Stale, EventOf
  <2>. QED
    BY <2>1, <2>2
<1>5. PICK c \in Cmds : /\ CmdIs(a, s, c)
                        /\ c = Idle \/ (a = "studio" /\ c.kind = cmd[a][s].kind /\ c.pc \in {"told", "toldUp"})
  <2>1. CASE a = "terminal"
    BY <1>1, <2>1, CmdFinishes DEF Tells, TypeInv, TruthOK, Cmds
  <2>2. CASE a # "terminal"
    <3>1. a = "studio"
      BY <2>2 DEF Actors
    <3>2. PICK p \in {"told", "toldUp"} : Moves(a, s, p) /\ (p = "toldUp" => cmd[a][s].pc = "starting")
      BY <2>2 DEF Tells
    <3>3. [kind |-> cmd[a][s].kind, pc |-> p] \in Cmds
      BY <1>2, <3>2 DEF Cmds
    <3>4. CmdIs(a, s, [kind |-> cmd[a][s].kind, pc |-> p])
      BY <3>2, <3>3, CmdMoves DEF TypeInv, TruthOK
    <3>. QED
      BY <3>1, <3>3, <3>4
  <2>. QED
    BY <2>1, <2>2
<1> HIDE DEF x
<1>6. SameTruth(t) /\ SameLaunch(t) /\ SameBus(t) /\ SameStudio(t) /\ SameIpc(t) /\ SameMain(t) /\ SameStale(t)
  <2>1. UNCHANGED <<ipc, main>>
    BY <1>1 DEF studio
  <2>2. SameStale(t)
    BY <1>1 DEF EmitCliEvent, Stale, SameStale
  <2>. QED
    BY <1>1, <2>1, <2>2, SameOnes
<1>7. SameJob(t) /\ (t # s => SameCalls(t))
  <2>1. CASE UNCHANGED queue
    BY <1>1, <2>1, SameOnes
  <2>2. CASE queue' = Append(queue, x)
    BY <1>1, <1>3, <2>2, CallArrives
  <2>. QED
    BY <1>4, <2>1, <2>2
<1>8. CASE t # s
  BY <1>5, <1>6, <1>7, <1>8, CmdElsewhere, SameIsGood DEF Same, SameRelay
<1>9. CASE t = s
  <2>1. NewInv(s) /\ DeleteInv(s) /\ PresentInv(s) /\ StatusInv(s)
    BY DEF Good, SiteInv
  <2> "terminal" \in Actors /\ "studio" \in Actors /\ \A b \in Actors : b = "terminal" \/ b = "studio"
    BY DEF Actors
  <2>2. cmd'[a][s] = c /\ \A b \in Actors : b # a => cmd'[b][s] = cmd[b][s]
    BY <1>5 DEF CmdIs
  <2>3. config[s] # Unborn /\ ~Creates(s, {"running"})
    BY <1>1, <2>1 DEF NewInv, Creates, Busy, Idle
  <2>4. config'[s] = config[s] /\ (InConfig(s)' <=> InConfig(s)) /\ phase' = phase /\ listed'[s] = listed[s]
    BY <1>1, <1>6, <1>9 DEF truth, InConfig, SameLaunch
  <2>5. \/ Listening /\ Mine(Unread', s) = Mine(Unread, s) \union {x} /\ Lasts(Unread', s) = {x}
        \/ ~Listening /\ Mine(Unread', s) = Mine(Unread, s) /\ Lasts(Unread', s) = Lasts(Unread, s)
    <3>1. CASE UNCHANGED queue /\ ~Listening
      BY <1>1, <3>1 DEF Unread
    <3>2. CASE queue' = Append(queue, x) /\ Listening
      BY <1>1, <1>3, <3>2, CallArrives
    <3>. QED
      BY <1>4, <3>1, <3>2
  <2>6. /\ Reading(s)' <=> Reading(s)
        /\ Reading(s) => Head(queue') = Head(queue) /\ job'.edits = job.edits
        /\ Written(s)' <=> Written(s)
        /\ News(s)' <=> News(s)
        /\ Deleting(s) => Deleting(s)'
        /\ Deleting(s)' => Deleting(s) \/ cmd[a][s].kind = "delete"
        /\ Listening /\ cmd[a][s].kind = "delete" => Deleting(s)'
        /\ StatusInv(s)'
    BY <1>3, <1>6, <1>7, <1>9, <2>1, <2>5
       DEF SameJob, SameIpc, SameLaunch, Written, Deleting, News, StatusInv
  <2>7. ~Creates(s, {"running"})'
    BY <1>5, <2>2, <2>3 DEF Creates, Busy, Idle
  <2>8. \A b \in Actors :
          /\ Busy(b, s, "delete", {"saved", "told"})' => Busy(b, s, "delete", {"saved", "told"})
          /\ Busy(b, s, "delete", {"saved"})' => Busy(b, s, "delete", {"saved"})
    <3>1. cmd[a][s].kind = "delete" => cmd[a][s].pc = "saved"
      BY <1>1, <1>2
    <3>. QED
      BY <1>5, <2>2, <3>1 DEF Busy, Idle
  <2>9. NewInv(s)'
    BY <2>3, <2>4, <2>7 DEF NewInv, Creates
  <2>10. DeleteInv(s)'
    <3>1. cmd[a][s].kind = "delete" => \E b \in Actors : Busy(b, s, "delete", {"saved", "told"})
      BY <1>1, <1>2 DEF Busy
    <3>2. Deleting(s)' \/ (\E b \in Actors : Busy(b, s, "delete", {"saved", "told"})') => config[s] = Gone
      BY <2>1, <2>6, <2>8, <3>1 DEF DeleteInv
    <3>3. GoneAfter(ipc', s)
      BY <1>6, <1>9, <2>1 DEF DeleteInv, SameIpc
    <3>. QED
      BY <2>1, <2>4, <2>6, <2>7, <2>8, <3>2, <3>3 DEF DeleteInv
  <2>11. PresentInv(s)'
    BY <1>6, <1>9, <2>1, <2>4, <2>6 DEF PresentInv, SameIpc
  <2>12. ASSUME s \notin stale' PROVE TrueInv(s)'
    <3>1. TrueInv(s)
      BY <1>6, <1>9, <2>12 DEF Good, SameStale
    <3>2. main'[s] = main[s] /\ ui'[s] = ui[s] /\ (Following(s)' => Following(s))
      BY <1>6, <1>9 DEF SameStudio, SameMain, SameWindow
    <3>3. \A b \in Actors : b # a => \A k, pcs : Busy(b, s, k, pcs)' <=> Busy(b, s, k, pcs)
      BY <2>2 DEF Busy
    <3>4. ASSUME Coming(s) PROVE Coming(s)' \/ cmd[a][s].kind = "create"
      <4>1. PICK b \in Actors : Busy(b, s, "create", {"saved", "starting"})
        BY <3>4 DEF Coming, Creates
      <4>2. CASE b = a
        BY <4>1, <4>2 DEF Busy
      <4>3. CASE b # a
        <5>1. Busy(b, s, "create", {"saved", "starting"})'
          BY <3>3, <4>1, <4>3
        <5>. QED
          BY <5>1 DEF Coming, Creates
      <4>. QED
        BY <4>2, <4>3
    <3>5. Untaken(s) => Untaken(s)' \/ cmd[a][s].kind = "delete"
      BY <3>3, <2>2 DEF Untaken, Busy
    <3>6. Coming(s)' => Coming(s)
      BY <1>5, <2>2 DEF Coming, Creates, Busy, Idle
    <3>7. Refreshes(s)' /\ Reports(s)'
      <4>1. CASE Listening
        BY <2>5, <4>1 DEF Refreshes, Reports, About
      <4>2. CASE ~Listening
        BY <2>4, <4>2, ListeningPhases DEF Refreshes, Reports, Early
      <4>. QED
        BY <4>1, <4>2
    <3>8. KnownInv(s)'
      <4>1. KnownInv(s)
        BY <3>1 DEF TrueInv
      <4>2. CASE Listening
        <5>1. cmd[a][s].kind = "create" => \E y \in Mine(Unread', s) : y.event = "CREATED"
          BY <1>3, <2>5, <4>2
        <5>2. \A y \in Mine(Unread, s) : y \in Mine(Unread', s)
          BY <2>5
        <5>3. phase \notin {"launched", "listing", "registered"}
          BY <4>2 DEF Listening
        <5>. QED
          BY <2>4, <2>6, <3>2, <3>4, <4>1, <5>1, <5>2, <5>3 DEF KnownInv
      <4>3. CASE ~Listening
        <5>1. cmd[a][s].kind = "create" => phase = "launched" \/ listed[s] # Gone
          BY <1>4, <2>12, <4>3
        <5>2. phase \in {"launched", "listing", "registered"}
          BY <4>3, ListeningPhases
        <5>3. Mine(Unread', s) = Mine(Unread, s)
          BY <2>5, <4>3
        <5>. QED
          BY <2>4, <2>6, <3>2, <3>4, <4>1, <5>1, <5>2, <5>3 DEF KnownInv
      <4>. QED
        BY <4>2, <4>3
    <3>9. AbsentInv(s)'
      <4>1. AbsentInv(s)
        BY <3>1 DEF TrueInv
      <4>2. Busy("studio", s, "create", {"running"}) => Busy("studio", s, "create", {"running"})'
        BY <2>3 DEF Creates
      <4>3. CASE Listening
        BY <2>4, <2>6, <3>2, <3>5, <4>1, <4>2, <4>3 DEF AbsentInv
      <4>4. CASE ~Listening
        <5>1. ~News(s)
          BY <4>4, PayloadTypes
        <5>2. cmd[a][s].kind = "delete" => main[s] = Absent /\ listed[s] = Gone
          BY <1>4, <2>12, <4>4 DEF TypeInv, MainOK
        <5>. QED
          BY <2>4, <2>6, <3>2, <3>5, <4>1, <4>2, <5>1, <5>2 DEF AbsentInv
      <4>. QED
        BY <4>3, <4>4
    <3>10. EditsInv(s)'
      BY <3>7 DEF EditsInv
    <3>11. RunningInv(s)'
      <4>1. RunningInv(s)
        BY <3>1 DEF TrueInv
      <4>2. CASE Listening
        <5>1. Lasts(Unread', s) = {x} /\ About(Unread', s)
          BY <2>5, <4>2 DEF About
        <5>2. /\ Lasts(bus', s) = Lasts(bus, s) /\ (s \in untold' <=> s \in untold) /\ (Early' <=> Early)
          BY <1>6, <1>9 DEF SameBus, SameLaunch, Early
        <5>3. server'[s] = server[s]
          BY <1>1 DEF truth
        <5>. QED
          BY <1>3, <2>4, <4>1, <5>1, <5>2, <5>3 DEF RunningInv, Says, Up
      <4>3. CASE ~Listening
        BY <2>4, <4>3, ListeningPhases DEF RunningInv, Early
      <4>. QED
        BY <4>2, <4>3
    <3>12. WindowInv(s)'
      <4>1. WindowInv(s)
        BY <3>1 DEF TrueInv
      <4>2. main[s].shown /\ Untaken(s) => Untaken(s)' \/ Deleting(s)'
        BY <1>4, <2>6, <2>12, <3>5
      <4>. QED
        BY <2>4, <2>6, <3>2, <3>7, <4>1, <4>2 DEF WindowInv
    <3>. QED
      BY <3>8, <3>9, <3>10, <3>11, <3>12 DEF TrueInv
  <2>. QED
    BY <1>9, <2>6, <2>9, <2>10, <2>11, <2>12 DEF Good, SiteInv
<1>. QED
  BY <1>8, <1>9

(* What is not about the copies is kept when only the copies change.         *)
LEMMA SiteInvKept ==
  ASSUME NEW s \in Sites, SiteInv(s), SameTruth(s), SameCmd(s), SameRelay(s), SameIpc(s),
         config[s] = Unborn \/ Busy("terminal", s, "create", {"running"}) => main'[s] = Absent
  PROVE  SiteInv(s)'
<1> "terminal" \in Actors /\ "studio" \in Actors /\ \A a \in Actors : a = "terminal" \/ a = "studio"
  BY DEF Actors
<1>1. NewInv(s) /\ DeleteInv(s) /\ PresentInv(s) /\ StatusInv(s)
  BY DEF SiteInv
<1>2. config'[s] = config[s] /\ (InConfig(s)' <=> InConfig(s))
  BY DEF SameTruth, InConfig
<1>3. /\ Creates(s, {"running"})' <=> Creates(s, {"running"})
      /\ \A a \in Actors : Busy(a, s, "create", {"running"})' <=> Busy(a, s, "create", {"running"})
      /\ \A a \in Actors : Busy(a, s, "delete", {"saved"})' <=> Busy(a, s, "delete", {"saved"})
      /\ \A a \in Actors : Busy(a, s, "delete", {"saved", "told"})' => Busy(a, s, "delete", {"saved", "told"})
  BY DEF SameCmd, Creates
<1>4. NewInv(s)'
  <2>1. config[s] = Unborn \/ Creates(s, {"running"}) =>
          ~InConfig(s) /\ cmd'["terminal"][s] = cmd["terminal"][s] /\ cmd'["studio"][s] = cmd["studio"][s]
          /\ server[s] = "down" /\ ~recorded[s]
    BY <1>1 DEF SameCmd, NewInv, Creates, InConfig, Gone, Unborn
  <2>2. \A a \in Actors : Busy(a, s, "create", {"running"}) => Creates(s, {"running"})
    BY DEF Creates
  <2>3. config[s] = Unborn \/ Creates(s, {"running"}) => server'[s] = "down" /\ ~recorded'[s]
    BY <2>1 DEF SameTruth
  <2>. QED
    BY <1>1, <1>2, <1>3, <2>1, <2>2, <2>3, SameFacts DEF NewInv
<1>5. DeleteInv(s)'
  BY <1>1, <1>2, <1>3, SameFacts DEF DeleteInv
<1>6. PresentInv(s)' /\ StatusInv(s)'
  BY <1>1, <1>2, SameFacts DEF PresentInv
<1>. QED
  BY <1>4, <1>5, <1>6 DEF SiteInv

(* A command of Studio whose process has ended is no obligation any more.    *)
LEMMA ReturnCmd ==
  ASSUME TypeInv, NEW s \in Sites, NewInv(s),
         \/ Finishes("studio", s)
         \/ cmd["studio"][s].kind = "create" /\ Moves("studio", s, "returned"),
         cmd["studio"][s].pc \in Returning \/ cmd["studio"][s].kind = "stop"
  PROVE  /\ \A t \in Sites : SameCmd(t)
         /\ config[s] # Unborn /\ ~Creates(s, {"running"})
<1> "terminal" \in Actors /\ "studio" \in Actors /\ \A a \in Actors : a = "terminal" \/ a = "studio"
  BY DEF Actors
<1>1. PICK c \in {Idle, [kind |-> "create", pc |-> "returned"]} :
        CmdIs("studio", s, c) /\ (c # Idle => cmd["studio"][s].kind = "create")
  <2>1. CASE Finishes("studio", s)
    BY <2>1, CmdFinishes DEF TypeInv, TruthOK
  <2>2. CASE cmd["studio"][s].kind = "create" /\ Moves("studio", s, "returned")
    <3>1. [kind |-> "create", pc |-> "returned"] \in Cmds
      BY DEF Cmds
    <3>. QED
      BY <2>2, <3>1, CmdMoves DEF TypeInv, TruthOK
  <2>. QED
    BY <2>1, <2>2
<1>2. config[s] # Unborn /\ ~Creates(s, {"running"})
  BY DEF NewInv, Creates, Busy, Idle, Returning
<1>3. cmd["studio"][s].kind = "stop" => cmd["studio"][s].pc = "running"
  BY CmdKinds DEF TypeInv, TruthOK
<1>4. SameCmd(s)
  BY <1>1, <1>2, <1>3 DEF SameCmd, CmdIs, Busy, Idle, Returning
<1>. QED
  BY <1>1, <1>2, <1>4, CmdElsewhere

(* A set by Studio has returned, and the list is asked for.                  *)
LEMMA SetReturnsKeeps ==
  ASSUME TypeInv, NEW s \in Sites, Good(s), NEW t \in Sites, Good(t), SetReturns(s)
  PROVE  Good(t)'
<1>1. /\ Finishes("studio", s) /\ cmd["studio"][s].pc = "told" /\ asked' = Append(asked, main)
      /\ UNCHANGED <<truth, relay, ipc, main, created, ui, mounted, crossed, stale>>
  BY DEF SetReturns, Doing
<1>2. SameCmd(t)
  BY <1>1, ReturnCmd DEF Good, SiteInv, Returning
<1>3. asked' # <<>>
  BY <1>1 DEF TypeInv, WindowOK
<1>4. SameWindow(t)
  BY <1>1, <1>3 DEF SameWindow, Following
<1>5. SameTruth(t) /\ SameRelay(t) /\ SameIpc(t) /\ SameMain(t)
  BY <1>1, SameOnes
<1>6. SameStale(t)
  BY <1>1, StaleSame
<1>. QED
  BY <1>2, <1>4, <1>5, <1>6, SameIsGood DEF Same, SameStudio

(* The result of a create is put over what events have said.                 *)
LEMMA CreateReturnsKeeps ==
  ASSUME TypeInv, NEW s \in Sites, Good(s), NEW t \in Sites, Good(t), CreateReturns(s)
  PROVE  Good(t)'
<1> DEFINE up == cmd["studio"][s].pc = "toldUp"
           now == IF main[s].shown THEN [main[s] EXCEPT !.running = @ \/ up] ELSE Entry(0, up)
<1>1. /\ Moves("studio", s, "returned") /\ cmd["studio"][s].kind = "create" /\ cmd["studio"][s].pc \in {"told", "toldUp"}
      /\ main' = IF main[s].shown THEN [main EXCEPT ![s] = now] ELSE main
      /\ created' = [created EXCEPT ![s] = now]
      /\ Stale(IF ~main[s].shown \/ (up /\ ~Up(s)) THEN {s} ELSE {})
      /\ UNCHANGED <<truth, relay, ipc, asked, ui, mounted, crossed>>
  BY DEF CreateReturns
<1>2. SameCmd(t) /\ config[s] # Unborn /\ ~Creates(s, {"running"})
  BY <1>1, ReturnCmd DEF Good, SiteInv, Returning
<1>3. SameTruth(t) /\ SameRelay(t) /\ SameIpc(t)
  BY <1>1, SameOnes
<1>4. SameStale(t)
  BY <1>1 DEF Stale, SameStale
<1>5. main \in [Sites -> Views] /\ created \in [Sites -> Views]
  BY DEF TypeInv, MainOK, WindowOK
<1>6. CASE t # s
  <2>1. SameMain(t) /\ SameWindow(t)
    BY <1>1, <1>5, <1>6 DEF SameMain, SameWindow, Following
  <2>. QED
    BY <1>2, <1>3, <1>4, <2>1, SameIsGood DEF Same, SameStudio
<1>7. CASE t = s
  <2>1. ~Busy("terminal", s, "create", {"running"})
    BY <1>2 DEF Creates, Actors
  <2>2. SiteInv(s)'
    BY <1>2, <1>3, <1>7, <2>1, SiteInvKept DEF Good
  <2>3. ASSUME s \notin stale' PROVE TrueInv(s)'
    <3>1. TrueInv(s)
      BY <1>4, <1>7, <2>3 DEF Good, SameStale
    <3>2. main[s].shown /\ (up => Up(s))
      BY <1>1, <2>3 DEF Stale
    <3>3. now = [main[s] EXCEPT !.running = main[s].running \/ up] /\ main[s] \in Views
      BY <1>5, <3>2
    <3>4. now.shown /\ now.edits = main[s].edits /\ now.running = (main[s].running \/ up)
      BY <3>2, <3>3 DEF Views
    <3>5. main'[s] = now /\ created'[s] = now
      BY <1>1, <1>5, <3>2
    <3> HIDE DEF now, up
    <3>6. InConfig(s)' <=> InConfig(s)
      BY <1>3, <1>7 DEF SameTruth, InConfig
    <3>7. main[s] # Absent /\ main'[s] # Absent /\ created'[s] # Absent
      BY <3>2, <3>4, <3>5 DEF Absent
    <3>8. KnownInv(s)'
      BY <3>4, <3>5 DEF KnownInv
    <3>9. Untaken(s)' <=> Untaken(s)
      BY <1>2, <1>7 DEF SameCmd, Untaken
    <3>10. AbsentInv(s)'
      <4>1. ~Busy("studio", s, "create", {"running"})
        BY <1>2 DEF Creates, Actors
      <4>. QED
        BY <1>3, <1>7, <3>1, <3>6, <3>7, <3>9, <4>1, SameFacts DEF TrueInv, AbsentInv
    <3>11. Coming(s) => Coming(s)'
      BY <1>2, <1>7 DEF SameCmd, Coming, Creates
    <3>12. EditsInv(s)'
      <4>1. (\E a \in Actors : Busy(a, s, "set", {"saved"})) => \E a \in Actors : Busy(a, s, "set", {"saved"})'
        BY <1>2, <1>7 DEF SameCmd
      <4>2. config'[s] = config[s]
        BY <1>3, <1>7 DEF SameTruth
      <4>. QED
        BY <1>3, <1>7, <3>1, <3>2, <3>4, <3>5, <3>6, <3>11, <4>1, <4>2, SameFacts DEF TrueInv,
           EditsInv
    <3>13. RunningInv(s)'
      <4>1. Up(s)' <=> Up(s)
        BY <1>3, <1>7 DEF SameTruth, Up
      <4>2. main[s].running = Up(s) => main'[s].running = Up(s)'
        <5>1. server'[s] = "up" <=> server[s] = "up"
          BY <4>1 DEF Up
        <5>2. up \in BOOLEAN /\ (up => server[s] = "up") /\ main'[s].running = (main[s].running \/ up)
          BY <3>2, <3>4, <3>5 DEF Up, up
        <5>3. main[s].running \in BOOLEAN
          BY <1>5 DEF Views
        <5>. QED
          BY <5>1, <5>2, <5>3 DEF Up
      <4>3. RunningInv(s)
        BY <3>1 DEF TrueInv
      <4>4. (\A p \in Lasts(ipc, s) : p.running = Up(s)) => \A p \in Lasts(ipc, s) : p.running = Up(s)'
        BY <4>1 DEF Up
      <4>. QED
        BY <1>3, <1>7, <3>6, <3>11, <4>1, <4>2, <4>3, <4>4, SameFacts DEF RunningInv, Says
    <3>14. WindowInv(s)'
      BY <3>7 DEF WindowInv, Following
    <3>. QED
      BY <3>8, <3>10, <3>12, <3>13, <3>14 DEF TrueInv
  <2>. QED
    BY <1>7, <2>2, <2>3 DEF Good
<1>. QED
  BY <1>6, <1>7

(* Its reply, in the list of the window: what the map has, or crossed.       *)
LEMMA CreateRepliedKeeps ==
  ASSUME TypeInv, NEW s \in Sites, Good(s), NEW t \in Sites, Good(t), CreateReplied(s)
  PROVE  Good(t)'
<1>1. /\ Finishes("studio", s) /\ cmd["studio"][s].pc = "returned"
      /\ ui' = [ui EXCEPT ![s] = created[s]] /\ created' = [created EXCEPT ![s] = Absent]
      /\ crossed' = IF created[s] # main[s] THEN crossed \union {s} ELSE crossed
      /\ UNCHANGED <<truth, relay, ipc, main, asked, mounted, stale>>
  BY DEF CreateReplied, Doing
<1>2. SameCmd(t)
  BY <1>1, ReturnCmd DEF Good, SiteInv, Returning
<1>3. SameTruth(t) /\ SameRelay(t) /\ SameIpc(t) /\ SameMain(t) /\ SameStale(t)
  BY <1>1, SameOnes, StaleSame
<1>4. ui \in [Sites -> Views] /\ created \in [Sites -> Views]
  BY DEF TypeInv, WindowOK
<1>5. CASE t # s
  <2>1. SameWindow(t)
    BY <1>1, <1>4, <1>5 DEF SameWindow, Following
  <2>. QED
    BY <1>2, <1>3, <2>1, SameButWindow
<1>6. CASE t = s
  <2>1. WindowInv(s)'
    BY <1>1, <1>4 DEF WindowInv, Following
  <2>. QED
    BY <1>2, <1>3, <1>6, <2>1, SameButWindow
<1>. QED
  BY <1>5, <1>6

(* A site deleted by Studio is taken out of the map.                         *)
LEMMA DeleteReturnsKeeps ==
  ASSUME TypeInv, NEW s \in Sites, Good(s), NEW t \in Sites, Good(t), DeleteReturns(s)
  PROVE  Good(t)'
<1>1. /\ Finishes("studio", s) /\ cmd["studio"][s].kind = "delete" /\ cmd["studio"][s].pc = "told"
      /\ main' = [main EXCEPT ![s] = Absent]
      /\ UNCHANGED <<truth, relay, ipc, window, stale>>
  BY DEF DeleteReturns, Doing
<1>2. SameCmd(t) /\ config[s] # Unborn /\ ~Creates(s, {"running"})
  BY <1>1, ReturnCmd DEF Good, SiteInv, Returning
<1>3. SameTruth(t) /\ SameRelay(t) /\ SameIpc(t) /\ SameWindow(t)
  BY <1>1, SameOnes
<1>4. SameStale(t)
  BY <1>1, StaleSame
<1>5. main \in [Sites -> Views]
  BY DEF TypeInv, MainOK
<1>6. CASE t # s \/ main[s] = Absent
  <2>1. SameMain(t)
    BY <1>1, <1>5, <1>6 DEF SameMain
  <2>. QED
    BY <1>2, <1>3, <1>4, <2>1, SameIsGood DEF Same, SameStudio
<1>7. CASE t = s /\ main[s] # Absent
  <2>1. main'[s] = Absent
    BY <1>1, <1>5
  <2>2. SiteInv(s)'
    BY <1>2, <1>3, <1>7, <2>1, SiteInvKept DEF Good
  <2>3. Busy("studio", s, "delete", {"saved", "told"}) /\ "studio" \in Actors
    BY <1>1 DEF Busy, Actors
  <2>4. DeleteInv(s)
    BY DEF Good, SiteInv
  <2>5. config[s] = Gone /\ ~InConfig(s) /\ ~InConfig(s)'
    BY <1>3, <1>7, <2>3, <2>4 DEF DeleteInv, InConfig, Gone, SameTruth
  <2>6. ASSUME s \notin stale' PROVE TrueInv(s)'
    <3>1. TrueInv(s)
      BY <1>4, <1>7, <2>6 DEF Good, SameStale
    <3>2. ~Untaken(s)
      BY <1>1, <2>3, <2>4 DEF DeleteInv, Untaken, Busy, Actors
    <3>3. ~Busy("studio", s, "create", {"running"})
      BY <1>1 DEF Busy
    <3>4. Deleting(s)
      BY <1>7, <2>5, <3>1, <3>2, <3>3 DEF TrueInv, AbsentInv
    <3>5. Deleting(s)'
      BY <1>3, <1>7, <3>4, SameFacts
    <3>6. phase' # "registered"
      BY <1>3, <1>7, <3>4, PayloadTypes, SameFacts DEF Listening
    <3>. QED
      BY <2>5, <3>5, <3>6 DEF TrueInv, KnownInv, AbsentInv, EditsInv, RunningInv, WindowInv
  <2>. QED
    BY <1>7, <2>2, <2>6 DEF Good
<1>. QED
  BY <1>6, <1>7

(* A stop by Studio says of a site that it does not run.                     *)
LEMMA StopReturnsKeeps ==
  ASSUME TypeInv, NEW s \in Sites, Good(s), NEW t \in Sites, Good(t), StopReturns(s)
  PROVE  Good(t)'
<1>1. /\ Finishes("studio", s) /\ cmd["studio"][s].kind = "stop" /\ cmd["studio"][s].pc = "running"
      /\ main' = [main EXCEPT ![s].running = FALSE]
      /\ Stale(IF main[s].shown /\ Up(s) THEN {s} ELSE {})
      /\ UNCHANGED <<truth, relay, ipc, window>>
  BY DEF StopReturns, Doing
<1>2. SameCmd(t) /\ config[s] # Unborn /\ ~Creates(s, {"running"})
  BY <1>1, ReturnCmd DEF Good, SiteInv, Returning
<1>3. SameTruth(t) /\ SameRelay(t) /\ SameIpc(t) /\ SameWindow(t)
  BY <1>1, SameOnes
<1>4. SameStale(t)
  BY <1>1 DEF Stale, SameStale
<1>5. main \in [Sites -> Views] /\ main[s] \in Views
  BY DEF TypeInv, MainOK
<1>6. main'[s] = [main[s] EXCEPT !.running = FALSE] /\ \A u \in Sites : u # s => main'[u] = main[u]
  BY <1>1, <1>5
<1>7. CASE t # s \/ main'[s] = main[s]
  <2>1. SameMain(t)
    BY <1>6, <1>7 DEF SameMain
  <2>. QED
    BY <1>2, <1>3, <1>4, <2>1, SameIsGood DEF Same, SameStudio
<1>8. CASE t = s /\ main'[s] # main[s]
  <2>1. main[s] # Absent /\ main[s].running = TRUE /\ main[s].shown
    <3>1. main[s] # Absent /\ main[s].running # FALSE
      BY <1>5, <1>6, <1>8, ViewStops
    <3>2. main[s].running \in BOOLEAN
      BY <1>5 DEF Views
    <3>3. main[s].shown
      BY <3>1 DEF TypeInv, MainOK
    <3>. QED
      BY <3>1, <3>2, <3>3
  <2>2. main'[s].shown /\ main'[s].edits = main[s].edits /\ main'[s].running = FALSE
    BY <1>5, <1>6, <2>1, ViewStops
  <2>3. ~Busy("terminal", s, "create", {"running"}) /\ ~Busy("studio", s, "create", {"running"})
    BY <1>2 DEF Creates, Actors
  <2>4. SiteInv(s)'
    BY <1>2, <1>3, <1>8, <2>3, SiteInvKept DEF Good
  <2>5. ASSUME s \notin stale' PROVE TrueInv(s)'
    <3>1. TrueInv(s)
      BY <1>4, <1>8, <2>5 DEF Good, SameStale
    <3>2. ~Up(s)
      BY <1>1, <2>1, <2>5 DEF Stale
    <3>3. /\ InConfig(s)' <=> InConfig(s)
          /\ config'[s] = config[s] /\ (Up(s)' <=> Up(s))
      BY <1>3, <1>8 DEF SameTruth, InConfig, Up
    <3>4. Untaken(s)' <=> Untaken(s)
      BY <1>2, <1>8 DEF SameCmd, Untaken
    <3>5. Coming(s) => Coming(s)'
      BY <1>2, <1>8 DEF SameCmd, Coming, Creates
    <3>6. KnownInv(s)'
      BY <2>2 DEF KnownInv
    <3>7. ~InConfig(s) => Untaken(s) \/ Deleting(s)
      BY <2>1, <2>3, <3>1 DEF TrueInv, AbsentInv
    <3>8. AbsentInv(s)'
      BY <1>3, <1>8, <3>3, <3>4, <3>7, SameFacts DEF AbsentInv
    <3>9. EditsInv(s)'
      <4>1. (\E a \in Actors : Busy(a, s, "set", {"saved"})) => \E a \in Actors : Busy(a, s, "set", {"saved"})'
        BY <1>2, <1>8 DEF SameCmd
      <4>. QED
        BY <1>3, <1>8, <2>1, <2>2, <3>1, <3>3, <3>5, <4>1, SameFacts DEF TrueInv, EditsInv
    <3>10. RunningInv(s)'
      <4>1. main'[s].running = Up(s)'
        BY <2>2, <3>2, <3>3 DEF Up
      <4>2. RunningInv(s)
        BY <3>1 DEF TrueInv
      <4>3. (\A p \in Lasts(ipc, s) : p.running = Up(s)) => \A p \in Lasts(ipc, s) : p.running = Up(s)'
        BY <3>3 DEF Up
      <4>. QED
        BY <1>3, <1>8, <3>3, <3>5, <4>1, <4>2, <4>3, SameFacts DEF RunningInv, Says
    <3>11. InConfig(s) => Reports(s) \/ Coming(s)
      <4>1. RunningInv(s)
        BY <3>1 DEF TrueInv
      <4>2. ~(main[s].running = Up(s))
        BY <2>1, <3>2
      <4>. QED
        BY <4>1, <4>2 DEF RunningInv, Reports, Refreshes
    <3>12. WindowInv(s)'
      <4>1. Following(s)' => Following(s) /\ ui'[s] = ui[s]
        BY <1>3, <1>8 DEF SameWindow
      <4>2. CASE Following(s)
        <5>1. ui[s] = main[s] => ui[s].shown
          BY <2>1
        <5>2. Deleting(s) \/ (ui[s].shown /\ (Untaken(s) \/ (InConfig(s) /\ (Reports(s) \/ Coming(s)))))
          BY <3>1, <3>7, <3>11, <4>2, <5>1 DEF TrueInv, WindowInv
        <5>. QED
          BY <1>3, <1>8, <2>2, <3>3, <3>4, <3>5, <4>1, <4>2, <5>2, SameFacts DEF WindowInv
      <4>. QED
        BY <4>1, <4>2 DEF WindowInv
    <3>. QED
      BY <3>6, <3>8, <3>9, <3>10, <3>12 DEF TrueInv
  <2>. QED
    BY <1>8, <2>4, <2>5 DEF Good
<1>. QED
  BY <1>7, <1>8

(* The steps of Studio's launch change the phase, and little else.           *)
Apart == <<truth, cmd, teller, bus, queue, job, ipc>>

(* What a step of the launch leaves.                                         *)
LEMMA LaunchFacts ==
  ASSUME NEW s, UNCHANGED Apart
  PROVE  /\ InConfig(s)' <=> InConfig(s)
         /\ \A a, kind, pcs : Busy(a, s, kind, pcs)' <=> Busy(a, s, kind, pcs)
         /\ Untaken(s)' <=> Untaken(s)
         /\ Coming(s)' <=> Coming(s)
         /\ Creates(s, {"running"})' <=> Creates(s, {"running"})
         /\ Mine(bus, s)' = Mine(bus, s) /\ Mine(Unread, s)' = Mine(Unread, s) /\ Mine(ipc, s)' = Mine(ipc, s)
         /\ Reading(s)' <=> Reading(s)
         /\ Written(s)' <=> Written(s)
         /\ Deleting(s)' <=> Deleting(s)
         /\ News(s)' <=> News(s)
<1>1. UNCHANGED <<config, recorded, server, cmd, bus, queue, job, ipc>>
  BY DEF Apart, truth
<1>2. Unread' = Unread /\ (Reading(s)' <=> Reading(s))
  BY <1>1 DEF Unread, Reading
<1>3. Mine(bus, s)' = Mine(bus, s) /\ Mine(Unread, s)' = Mine(Unread, s) /\ Mine(ipc, s)' = Mine(ipc, s)
  BY <1>1, <1>2
<1>4. (Written(s)' <=> Written(s)) /\ (Deleting(s)' <=> Deleting(s)) /\ (News(s)' <=> News(s))
  BY <1>1, <1>2, <1>3 DEF Written, Deleting, News
<1>5. InConfig(s)' <=> InConfig(s)
  BY <1>1 DEF InConfig
<1>6. \A a, kind, pcs : Busy(a, s, kind, pcs)' <=> Busy(a, s, kind, pcs)
  BY <1>1 DEF Busy
<1>7. (Untaken(s)' <=> Untaken(s)) /\ (Coming(s)' <=> Coming(s)) /\ (Creates(s, {"running"})' <=> Creates(s, {"running"}))
  BY <1>1 DEF Untaken, Coming, Creates, Busy
<1>. QED
  BY <1>2, <1>3, <1>4, <1>5, <1>6, <1>7

(* It keeps the invariants that are about the sites.                         *)
LEMMA LaunchKeepsSites ==
  ASSUME NEW s \in Sites, SiteInv(s), UNCHANGED Apart,
         config[s] = Unborn \/ Creates(s, {"running"}) =>
           main'[s] = main[s] /\ listed'[s] = Gone /\ s \notin untold'
  PROVE  SiteInv(s)'
<1>1. NewInv(s) /\ DeleteInv(s) /\ PresentInv(s) /\ StatusInv(s)
  BY DEF SiteInv
<1>2. UNCHANGED <<config, recorded, server, cmd, teller, bus, queue, job, ipc>>
  BY DEF Apart, truth
<1>3. NewInv(s)'
  <2>1. Busy("terminal", s, "create", {"running"}) \/ Busy("studio", s, "create", {"running"}) =>
          Creates(s, {"running"})
    BY DEF Creates, Actors
  <2>2. About(bus', s) = About(bus, s) /\ About(Unread', s) = About(Unread, s) /\ About(ipc', s) = About(ipc, s)
    BY LaunchFacts DEF About
  <2>. QED
    BY <1>1, <1>2, <2>1, <2>2, LaunchFacts DEF NewInv
<1>4. DeleteInv(s)'
  BY <1>1, <1>2, LaunchFacts DEF DeleteInv
<1>5. PresentInv(s)' /\ StatusInv(s)'
  BY <1>1, <1>2, LaunchFacts DEF PresentInv, StatusInv
<1>. QED
  BY <1>3, <1>4, <1>5 DEF SiteInv

(* The config is listed.                                                     *)
LEMMA ListsKeeps ==
  ASSUME TypeInv, NEW t \in Sites, Good(t), ListsSites
  PROVE  Good(t)'
<1>1. /\ phase = "launched" /\ phase' = "listing" /\ listed' = [s \in Sites |-> Read(s)]
      /\ UNCHANGED <<Apart, untold, studio, stale>>
  BY DEF ListsSites, Apart, studio
<1>2. UNCHANGED Apart /\ UNCHANGED <<main, ui, mounted, untold, stale>>
  BY <1>1 DEF studio, window
<1>3. ~mounted /\ main[t] = Absent /\ ~News(t) /\ untold = {}
  BY <1>1, PayloadTypes DEF TypeInv, WindowOK, MainOK, RelayOK, Listening
<1>4. listed'[t] = IF InConfig(t) THEN config[t] ELSE Gone
  BY <1>1 DEF Read
<1>5. SiteInv(t)'
  <2>1. SiteInv(t) /\ NewInv(t)
    BY DEF Good, SiteInv
  <2>2. config[t] = Unborn \/ Creates(t, {"running"}) => listed'[t] = Gone /\ t \notin untold'
    BY <1>2, <1>3, <1>4, <2>1, NewIsQuiet
  <2>. QED
    BY <1>2, <2>1, <2>2, LaunchKeepsSites
<1>6. TrueInv(t)'
  <2>1. (InConfig(t)' <=> InConfig(t)) /\ ~News(t)' /\ ~mounted' /\ main'[t] = Absent
    BY <1>2, <1>3, LaunchFacts
  <2>2. EditsInv(t)' /\ RunningInv(t)' /\ WindowInv(t)'
    <3>1. Early'
      BY <1>1 DEF Early
    <3>. QED
      BY <2>1, <3>1 DEF EditsInv, RunningInv, WindowInv, Following, Refreshes
  <2>3. KnownInv(t)'
    <3>1. InConfig(t) => listed'[t] # Gone
      BY <1>4 DEF InConfig, Gone
    <3>. QED
      BY <1>1, <2>1, <3>1 DEF KnownInv
  <2>4. AbsentInv(t)'
    BY <1>4, <2>1 DEF AbsentInv
  <2>. QED
    BY <2>2, <2>3, <2>4 DEF TrueInv
<1>. QED
  BY <1>5, <1>6 DEF Good

(* The listed sites are registered, or all of them are stale.                *)
LEMMA FetchesKeeps ==
  ASSUME TypeInv, NEW t \in Sites, Good(t), FetchesAll
  PROVE  Good(t)'
<1> DEFINE found == {s \in Sites : listed[s] # Gone}
<1>1. /\ phase = "listing" /\ phase' = "registered"
      /\ UNCHANGED <<Apart, listed, untold, window>>
  BY DEF FetchesAll, Apart
<1>2. UNCHANGED Apart /\ UNCHANGED <<ui, mounted, untold, listed>>
  BY <1>1 DEF window
<1>3. ~mounted /\ main[t] = Absent /\ untold = {} /\ cmd["studio"][t] = Idle
  BY <1>1 DEF TypeInv, WindowOK, MainOK, RelayOK
<1>4. \/ /\ \E R \in SUBSET found :
              main' = [s \in Sites |-> IF s \in found THEN Entry(listed[s], s \in R) ELSE main[s]]
         /\ Stale({})
      \/ main' = main /\ Stale(found)
  BY DEF FetchesAll
<1>5. /\ listed[t] = Gone => main'[t] = main[t]
      /\ t \notin stale' /\ listed[t] # Gone => main'[t].shown
  <2>1. CASE \E R \in SUBSET found :
               main' = [s \in Sites |-> IF s \in found THEN Entry(listed[s], s \in R) ELSE main[s]]
    BY <2>1 DEF Entry
  <2>2. CASE main' = main /\ Stale(found)
    BY <2>2 DEF Stale
  <2>. QED
    BY <1>4, <2>1, <2>2
<1>6. SiteInv(t)'
  <2>1. SiteInv(t) /\ NewInv(t)
    BY DEF Good, SiteInv
  <2>2. config[t] = Unborn \/ Creates(t, {"running"}) => listed[t] = Gone
    BY <2>1, NewIsQuiet
  <2>. QED
    BY <1>2, <1>3, <1>5, <2>1, <2>2, LaunchKeepsSites
<1>7. ASSUME t \notin stale' PROVE TrueInv(t)'
  <2>1. TrueInv(t)
    BY <1>4, <1>7 DEF Good, Stale
  <2>2. EditsInv(t)' /\ RunningInv(t)' /\ WindowInv(t)'
    <3>1. Early' /\ ~mounted'
      BY <1>1, <1>2, <1>3 DEF Early
    <3>. QED
      BY <3>1 DEF EditsInv, RunningInv, WindowInv, Following, Refreshes
  <2>3. ~Listening
    BY <1>1 DEF Listening
  <2>4. ~News(t) /\ ~Deleting(t) /\ Mine(Unread, t) = {}
    BY <2>3, PayloadTypes DEF About
  <2>5. KnownInv(t)'
    <3>1. InConfig(t) => Coming(t) \/ listed[t] # Gone
      BY <1>1, <1>3, <2>1, <2>4 DEF TrueInv, KnownInv, Absent
    <3>2. listed'[t] # Gone => main'[t].shown
      BY <1>2, <1>5, <1>7
    <3>. QED
      BY <1>2, <3>1, <3>2, LaunchFacts DEF KnownInv
  <2>6. AbsentInv(t)'
    <3>1. ~InConfig(t) => Untaken(t) \/ listed[t] = Gone
      <4>1. ~Busy("studio", t, "create", {"running"})
        BY <1>3 DEF Busy, Idle
      <4>. QED
        BY <1>1, <2>1, <2>4, <4>1 DEF TrueInv, AbsentInv
    <3>2. phase' # "listing"
      BY <1>1
    <3>. QED
      BY <1>2, <1>3, <1>5, <2>4, <3>1, <3>2, LaunchFacts DEF AbsentInv
  <2>. QED
    BY <2>2, <2>5, <2>6 DEF TrueInv
<1>. QED
  BY <1>6, <1>7 DEF Good

(* The relay's process runs, and nothing is lost from then on.               *)
LEMMA ListensKeeps ==
  ASSUME TypeInv, NEW t \in Sites, Good(t), Listens
  PROVE  Good(t)'
<1>1. /\ phase = "registered" /\ phase' = "listening" /\ listed' = [s \in Sites |-> Gone]
      /\ UNCHANGED <<Apart, untold, studio, stale>>
  BY DEF Listens, Apart, studio
<1>2. UNCHANGED Apart /\ UNCHANGED <<main, ui, created, asked, mounted, crossed, untold, stale>>
  BY <1>1 DEF studio, window
<1>3. SiteInv(t)'
  <2>1. SiteInv(t) /\ NewInv(t) /\ untold = {}
    BY <1>1 DEF Good, SiteInv, TypeInv, RelayOK
  <2>. QED
    BY <1>1, <1>2, <2>1, LaunchKeepsSites
<1>4. ASSUME t \notin stale' PROVE TrueInv(t)'
  <2>1. TrueInv(t)
    BY <1>2, <1>4 DEF Good
  <2>2. EditsInv(t)' /\ RunningInv(t)' /\ Reports(t)' /\ Reports(t)
    <3>1. Early' /\ Early
      BY <1>1 DEF Early
    <3>. QED
      BY <3>1 DEF EditsInv, RunningInv, Refreshes, Reports
  <2>3. KnownInv(t)'
    BY <1>1, <1>2, <2>1, LaunchFacts DEF TrueInv, KnownInv
  <2>4. AbsentInv(t)'
    BY <1>1, <1>2, <2>1, LaunchFacts DEF TrueInv, AbsentInv
  <2>5. WindowInv(t)'
    BY <1>2, <2>1, <2>2, LaunchFacts DEF TrueInv, WindowInv, Following
  <2>. QED
    BY <2>2, <2>3, <2>4, <2>5 DEF TrueInv
<1>. QED
  BY <1>3, <1>4 DEF Good

(* The relay is about to tell each site of the config.                       *)
LEMMA ConnectsKeeps ==
  ASSUME TypeInv, NEW t \in Sites, Good(t), Connects
  PROVE  Good(t)'
<1>1. /\ phase = "listening" /\ phase' = "telling" /\ untold' = {s \in Sites : InConfig(s)}
      /\ UNCHANGED <<Apart, listed, studio, stale>>
  BY DEF Connects, Apart, studio
<1>2. UNCHANGED Apart /\ UNCHANGED <<main, ui, created, asked, mounted, crossed, listed, stale>>
  BY <1>1 DEF studio, window
<1>3. SiteInv(t)'
  <2>1. SiteInv(t) /\ NewInv(t)
    BY DEF Good, SiteInv
  <2>2. config[t] = Unborn \/ Creates(t, {"running"}) => listed'[t] = Gone /\ t \notin untold'
    BY <1>1, <1>2, <2>1, NewIsQuiet
  <2>. QED
    BY <1>2, <2>1, <2>2, LaunchKeepsSites
<1>4. ASSUME t \notin stale' PROVE TrueInv(t)'
  <2>1. TrueInv(t)
    BY <1>2, <1>4 DEF Good
  <2>2. (InConfig(t)' <=> InConfig(t)) /\ (InConfig(t) <=> t \in untold')
    BY <1>1, <1>2, LaunchFacts
  <2>3. EditsInv(t)' /\ RunningInv(t)'
    BY <2>2 DEF EditsInv, RunningInv, Refreshes
  <2>4. KnownInv(t)'
    BY <1>1, <1>2, <2>1, LaunchFacts DEF TrueInv, KnownInv
  <2>5. AbsentInv(t)'
    BY <1>1, <1>2, <2>1, LaunchFacts DEF TrueInv, AbsentInv
  <2>6. WindowInv(t)'
    <3>1. InConfig(t) => Reports(t)'
      BY <2>2 DEF Reports, Refreshes
    <3>. QED
      BY <1>2, <2>1, <2>2, <3>1, LaunchFacts DEF TrueInv, WindowInv, Following
  <2>. QED
    BY <2>3, <2>4, <2>5, <2>6 DEF TrueInv
<1>. QED
  BY <1>3, <1>4 DEF Good

(* The relay hears the daemon from now on.                                   *)
LEMMA SubscribesKeeps ==
  ASSUME TypeInv, NEW t \in Sites, Good(t), Subscribes
  PROVE  Good(t)'
<1>1. /\ phase = "telling" /\ phase' = "subscribed" /\ untold = {}
      /\ UNCHANGED <<Apart, listed, untold, studio, stale>>
  BY DEF Subscribes, Apart, studio
<1>2. UNCHANGED Apart /\ UNCHANGED <<main, ui, created, asked, mounted, crossed, listed, untold, stale>>
  BY <1>1 DEF studio, window
<1>3. UNCHANGED <<config, server, bus, queue, job, ipc>>
  BY <1>2 DEF Apart, truth
<1>4. SiteInv(t)'
  <2>1. SiteInv(t) /\ NewInv(t)
    BY DEF Good, SiteInv
  <2>2. config[t] = Unborn \/ Creates(t, {"running"}) => listed'[t] = Gone /\ t \notin untold'
    BY <1>1, <1>2, <2>1, NewIsQuiet
  <2>. QED
    BY <1>2, <2>1, <2>2, LaunchKeepsSites
<1>5. ASSUME t \notin stale' PROVE TrueInv(t)'
  <2>1. TrueInv(t)
    BY <1>2, <1>5 DEF Good
  <2>2. ~Early /\ ~Early'
    BY <1>1 DEF Early
  <2>3. /\ About(bus, t)' <=> About(bus, t)
        /\ About(Unread, t)' <=> About(Unread, t)
        /\ About(ipc, t)' <=> About(ipc, t)
        /\ Refreshes(t)' <=> Refreshes(t)
        /\ Reports(t)' <=> Reports(t)
    BY <1>2, <2>2, LaunchFacts DEF About, Refreshes, Reports
  <2>4. KnownInv(t)'
    BY <1>1, <1>2, <2>1, LaunchFacts DEF TrueInv, KnownInv
  <2>5. AbsentInv(t)'
    BY <1>1, <1>2, <2>1, LaunchFacts DEF TrueInv, AbsentInv
  <2>6. EditsInv(t)'
    <3>1. (\E a \in Actors : Busy(a, t, "set", {"saved"})) => \E a \in Actors : Busy(a, t, "set", {"saved"})'
      BY <1>2, LaunchFacts
    <3>. QED
      BY <1>2, <1>3, <2>1, <2>3, <3>1, LaunchFacts DEF TrueInv, EditsInv
  <2>7. RunningInv(t)'
    <3>1. Lasts(Unread', t) = Lasts(Unread, t) /\ (Up(t)' <=> Up(t)) /\ Up(t)' = Up(t)
      BY <1>3 DEF Unread, Up
    <3>. QED
      BY <1>2, <1>3, <2>1, <2>2, <2>3, <3>1, LaunchFacts DEF TrueInv, RunningInv, Says
  <2>8. WindowInv(t)'
    BY <1>2, <2>1, <2>3, LaunchFacts DEF TrueInv, WindowInv, Following
  <2>. QED
    BY <2>4, <2>5, <2>6, <2>7, <2>8 DEF TrueInv
<1>. QED
  BY <1>4, <1>5 DEF Good

(* The head of a queue that is not about a site is nothing to it; of one     *)
(* that is, the rest says what the queue said.                               *)
LEMMA HeadElsewhere ==
  ASSUME NEW X, NEW q \in Seq(X), q # <<>>, NEW t, ~Of(Head(q), t)
  PROVE  Mine(Tail(q), t) = Mine(q, t) /\ Lasts(Tail(q), t) = Lasts(q, t)
<1>1. Tail(q) \in Seq(X)
  BY HeadType
<1>2. Lasts(Tail(q), t) \subseteq Mine(Tail(q), t)
  BY <1>1, LastsAreMine
<1>. QED
  BY <1>2, QueueTail DEF About

(* The head that is about a site: the rest says what the queue said of it,   *)
(* if it says anything.                                                      *)
LEMMA HeadHere ==
  ASSUME NEW X, NEW q \in Seq(X), q # <<>>, NEW s, Of(Head(q), s)
  PROVE  /\ Mine(q, s) = Mine(Tail(q), s) \union {Head(q)} /\ About(q, s)
         /\ About(Tail(q), s) => Lasts(Tail(q), s) = Lasts(q, s)
         /\ ~About(Tail(q), s) => Mine(Tail(q), s) = {} /\ Lasts(Tail(q), s) = {} /\ Lasts(q, s) = {Head(q)}
<1>1. Tail(q) \in Seq(X)
  BY HeadType
<1>2. Lasts(Tail(q), s) \subseteq Mine(Tail(q), s)
  BY <1>1, LastsAreMine
<1>. QED
  BY <1>2, QueueTail DEF About

(* A site is told, or its entry is taken away.                               *)
LEMMA TellsStatusKeeps ==
  ASSUME TypeInv, NEW s \in Sites, Good(s), NEW t \in Sites, Good(t), TellsStatus(s)
  PROVE  Good(t)'
<1>1. /\ phase = "telling" /\ teller = {} /\ s \in untold /\ untold' = untold \ {s} /\ teller' = {s}
      /\ UNCHANGED <<recorded, server, cmd, phase, listed, linked, bus, job, studio, stale>>
  BY DEF TellsStatus
<1>2. PICK x \in Items : /\ x.site = s /\ x.running = "status" /\ queue' = Append(queue, x)
                         /\ \/ x.event = "UPDATED" /\ config' = config
                            \/ x.event = "DELETED" /\ config' = [config EXCEPT ![s] = Gone]
  <2>1. Item("UPDATED", s, "status") \in Items /\ Item("DELETED", s, "status") \in Items
    BY DEF Item, Items, Events
  <2>. QED
    BY <2>1 DEF TellsStatus, Item
<1>3. SameJob(t) /\ (t # s => SameCalls(t))
      /\ Mine(Unread', s) = Mine(Unread, s) \union {x} /\ Lasts(Unread', s) = {x}
  BY <1>1, <1>2, CallArrives
<1>4. SameCmd(t) /\ SameBus(t) /\ SameStudio(t) /\ SameStale(t)
  BY <1>1, SameOnes, StaleSame
<1>5. config \in [Sites -> Unborn .. MaxChanges]
  BY DEF TypeInv, TruthOK
<1>6. CASE t # s
  <2>1. SameTruth(t) /\ SameLaunch(t)
    BY <1>1, <1>2, <1>5, <1>6 DEF SameTruth, SameLaunch
  <2>. QED
    BY <1>3, <1>4, <1>6, <2>1, SameIsGood DEF Same, SameRelay
<1>7. CASE t = s
  <2>1. NewInv(s) /\ DeleteInv(s) /\ PresentInv(s) /\ StatusInv(s)
    BY DEF Good, SiteInv
  <2>2. config[s] # Unborn /\ ~Creates(s, {"running"})
    BY <1>1, <2>1 DEF NewInv
  <2>3. /\ config'[s] # Unborn /\ (config[s] = Gone => config'[s] = Gone)
        /\ x.event # "DELETED" => config'[s] = config[s]
        /\ x.event = "DELETED" => config'[s] = Gone
        /\ InConfig(s)' => InConfig(s) /\ config'[s] = config[s]
        /\ ~InConfig(s)' => ~InConfig(s) \/ x.event = "DELETED"
    BY <1>2, <1>5, <2>2 DEF InConfig, Gone, Unborn
  <2>4. \A a \in Actors : \A k, pcs : Busy(a, s, k, pcs)' <=> Busy(a, s, k, pcs)
    BY <1>1 DEF Busy
  <2>5. (Untaken(s)' <=> Untaken(s)) /\ (Coming(s)' <=> Coming(s)) /\ ~Creates(s, {"running"})'
    BY <2>2, <2>4 DEF Untaken, Coming, Creates
  <2>6. /\ Mine(ipc', s) = Mine(ipc, s) /\ (GoneAfter(ipc, s) => GoneAfter(ipc', s))
        /\ main'[s] = main[s] /\ ui'[s] = ui[s] /\ (Following(s)' => Following(s)) /\ phase' = phase
        /\ Reading(s)' <=> Reading(s)
        /\ Reading(s) => Head(queue') = Head(queue) /\ job'.edits = job.edits
    BY <1>1, <1>3, <1>4, <1>7 DEF SameStudio, SameIpc, SameMain, SameWindow, SameJob
  <2>7. /\ Written(s)' <=> Written(s)
        /\ News(s)' <=> News(s)
        /\ Deleting(s) => Deleting(s)'
        /\ Deleting(s)' => Deleting(s) \/ x.event = "DELETED"
        /\ x.event = "DELETED" => Deleting(s)'
    BY <1>3, <2>6 DEF Written, News, Deleting
  <2>8. NewInv(s)'
    BY <2>3, <2>4, <2>5 DEF NewInv, Creates, Actors
  <2>9. DeleteInv(s)'
    BY <2>1, <2>3, <2>4, <2>5, <2>6, <2>7 DEF DeleteInv, Actors
  <2>10. PresentInv(s)'
    BY <2>1, <2>3, <2>6 DEF PresentInv
  <2>11. StatusInv(s)'
    BY <1>2, <1>3 DEF StatusInv
  <2>12. About(Unread', s) /\ Refreshes(s)' /\ Reports(s)'
    BY <1>3 DEF About, Refreshes, Reports
  <2>13. ASSUME s \notin stale' PROVE TrueInv(s)'
    <3>1. TrueInv(s)
      BY <1>1, <2>13 DEF Good
    <3>2. KnownInv(s)'
      BY <1>1, <1>3, <2>3, <2>5, <2>6, <2>7, <3>1 DEF TrueInv, KnownInv
    <3>3. AbsentInv(s)'
      BY <1>1, <2>3, <2>4, <2>5, <2>6, <2>7, <3>1 DEF TrueInv, AbsentInv, Actors
    <3>4. EditsInv(s)'
      BY <2>12 DEF EditsInv
    <3>5. RunningInv(s)'
      <4>1. bus' = <<>>
        BY <1>1 DEF TypeInv, BusOK
      <4>2. Lasts(bus', s) = {}
        BY <4>1, QueueEmpty
      <4>3. \A y \in Lasts(Unread', s) : Says(y, s)'
        BY <1>2, <1>3 DEF Says
      <4>. QED
        BY <2>12, <4>2, <4>3 DEF RunningInv
    <3>6. WindowInv(s)'
      <4>1. ~InConfig(s)' => ~InConfig(s) \/ Deleting(s)'
        BY <2>3, <2>7
      <4>. QED
        BY <2>5, <2>6, <2>7, <2>12, <3>1, <4>1 DEF TrueInv, WindowInv
    <3>. QED
      BY <3>2, <3>3, <3>4, <3>5, <3>6 DEF TrueInv
  <2>. QED
    BY <1>7, <2>8, <2>9, <2>10, <2>11, <2>13 DEF Good, SiteInv
<1>. QED
  BY <1>6, <1>7

(* What the daemon broadcast is queued like a call.                          *)
LEMMA HearsKeeps ==
  ASSUME TypeInv, \A u \in Sites : Good(u), NEW t \in Sites, Hears
  PROVE  Good(t)'
<1>1. /\ bus # <<>> /\ Head(bus).event # "KILL" /\ bus' = Tail(bus) /\ queue' = Append(queue, Head(bus))
      /\ UNCHANGED <<truth, cmd, phase, listed, untold, teller, linked, job, studio, stale>>
  BY DEF Hears
<1>2. bus \in Seq(Heard) /\ phase = "subscribed"
  BY <1>1 DEF TypeInv, BusOK
<1>3. Head(bus) \in Heard
  BY <1>1, <1>2, HeadType
<1>4. PICK x \in Items : x = Head(bus) /\ x.event = "UPDATED" /\ x.running \in {"yes", "no"} /\ x.site \in Sites
  BY <1>1, <1>3 DEF Heard, Items, Events, Killed, Item
<1>5. PICK s \in Sites : x.site = s
  BY <1>4
<1>6. SameJob(t) /\ (t # s => SameCalls(t))
      /\ Mine(Unread', s) = Mine(Unread, s) \union {x} /\ Lasts(Unread', s) = {x}
  BY <1>1, <1>4, <1>5, CallArrives
<1>7. SameTruth(t) /\ SameCmd(t) /\ SameLaunch(t) /\ SameStudio(t) /\ SameStale(t)
  BY <1>1, SameOnes, StaleSame
<1>8. Good(t)
  OBVIOUS
<1>9. CASE t # s
  <2>1. ~Of(Head(bus), t)
    BY <1>4, <1>5, <1>9 DEF Of
  <2>2. SameBus(t)
    BY <1>1, <1>2, <2>1, HeadElsewhere DEF SameBus
  <2>. QED
    BY <1>6, <1>7, <1>8, <1>9, <2>2, SameIsGood DEF Same, SameRelay
<1>10. CASE t = s
  <2>1. NewInv(s) /\ DeleteInv(s) /\ PresentInv(s) /\ StatusInv(s)
    BY <1>8, <1>10 DEF Good, SiteInv
  <2>2. Of(Head(bus), s)
    BY <1>1, <1>4, <1>5 DEF Of
  <2>3. /\ About(bus, s)
        /\ About(bus', s) => Lasts(bus', s) = Lasts(bus, s)
        /\ ~About(bus', s) => Lasts(bus', s) = {} /\ Lasts(bus, s) = {x}
    BY <1>1, <1>2, <1>4, <2>2, HeadHere
  <2>4. config[s] # Unborn /\ ~Creates(s, {"running"})
    BY <2>1, <2>3 DEF NewInv
  <2>5. UNCHANGED <<config, server, cmd, phase, listed, untold, teller, ipc, main>>
    BY <1>1 DEF truth, studio
  <2>6. \A a \in Actors : \A k, pcs : Busy(a, s, k, pcs)' <=> Busy(a, s, k, pcs)
    BY <1>1 DEF Busy
  <2>7. (Untaken(s)' <=> Untaken(s)) /\ (Coming(s)' <=> Coming(s)) /\ ~Creates(s, {"running"})'
        /\ (InConfig(s)' <=> InConfig(s)) /\ (Up(s)' <=> Up(s))
    BY <2>4, <2>5, <2>6 DEF Untaken, Coming, Creates, InConfig, Up
  <2>8. /\ ui'[s] = ui[s] /\ (Following(s)' => Following(s))
        /\ Reading(s)' <=> Reading(s)
        /\ Reading(s) => Head(queue') = Head(queue) /\ job'.edits = job.edits
    BY <1>6, <1>7, <1>10 DEF SameStudio, SameWindow, SameJob
  <2>9. (Written(s)' <=> Written(s)) /\ (News(s)' <=> News(s)) /\ (Deleting(s)' <=> Deleting(s))
    BY <1>4, <1>6, <2>5, <2>8 DEF Written, News, Deleting
  <2>10. NewInv(s)'
    BY <2>4, <2>5, <2>6, <2>7 DEF NewInv, Creates, Actors
  <2>11. DeleteInv(s)'
    BY <2>1, <2>5, <2>6, <2>7, <2>8, <2>9 DEF DeleteInv, Actors
  <2>12. PresentInv(s)' /\ StatusInv(s)'
    BY <1>6, <2>1, <2>5, <2>7, <2>8 DEF PresentInv, StatusInv
  <2>13. About(Unread', s) /\ Refreshes(s)' /\ Reports(s)'
    BY <1>6 DEF About, Refreshes, Reports
  <2>14. ASSUME s \notin stale' PROVE TrueInv(s)'
    <3>1. TrueInv(s)
      BY <1>1, <1>8, <1>10, <2>14 DEF Good
    <3>2. KnownInv(s)'
      BY <1>6, <2>5, <2>7, <2>9, <3>1 DEF TrueInv, KnownInv
    <3>3. AbsentInv(s)'
      BY <2>5, <2>6, <2>7, <2>9, <3>1 DEF TrueInv, AbsentInv, Actors
    <3>4. EditsInv(s)'
      BY <2>13 DEF EditsInv
    <3>5. RunningInv(s)'
      <4>1. RunningInv(s)
        BY <3>1 DEF TrueInv
      <4>2. Early' <=> Early
        BY <2>5 DEF Early
      <4>3. CASE About(bus', s)
        BY <2>3, <2>5, <2>7, <4>1, <4>2, <4>3 DEF RunningInv
      <4>4. CASE ~About(bus', s)
        <5>1. InConfig(s)' /\ ~Early' /\ s \notin untold' => (x.running = "yes" <=> Up(s)')
          BY <2>3, <2>5, <2>7, <4>1, <4>2, <4>4 DEF RunningInv
        <5>2. Lasts(bus', s) = {} /\ Lasts(Unread', s) = {x}
          BY <1>6, <2>3, <4>4
        <5>. QED
          BY <2>13, <5>1, <5>2 DEF RunningInv, Says
      <4>. QED
        BY <4>3, <4>4
    <3>6. WindowInv(s)'
      BY <2>5, <2>7, <2>8, <2>9, <2>13, <3>1 DEF TrueInv, WindowInv
    <3>. QED
      BY <3>2, <3>3, <3>4, <3>5, <3>6 DEF TrueInv
  <2>. QED
    BY <1>10, <2>10, <2>11, <2>12, <2>14 DEF Good, SiteInv
<1>. QED
  BY <1>9, <1>10

(* The renderer's list is replaced.                                          *)
LEMMA RepliedKeeps ==
  ASSUME TypeInv, NEW t \in Sites, Good(t), Replied
  PROVE  Good(t)'
<1>1. /\ ui' = Head(asked) /\ crossed' = {s \in Sites : Head(asked)[s] # main[s]}
      /\ UNCHANGED <<truth, cmd, relay, ipc, main, created, mounted, stale>>
  BY DEF Replied
<1>2. SameTruth(t) /\ SameCmd(t) /\ SameRelay(t) /\ SameIpc(t) /\ SameMain(t) /\ SameStale(t)
  BY <1>1, SameOnes, StaleSame
<1>3. WindowInv(t)'
  BY <1>1 DEF WindowInv, Following
<1>. QED
  BY <1>2, <1>3, SameButWindow

(* The first call reads the config.                                          *)
LEMMA ReadsConfigKeeps ==
  ASSUME TypeInv, NEW t \in Sites, Good(t), ReadsConfig
  PROVE  Good(t)'
<1>1. /\ queue # <<>> /\ ~job.read
      /\ job' = [read |-> TRUE, edits |-> Read(Head(queue).site), ofProcess |-> recorded[Head(queue).site]]
      /\ UNCHANGED <<truth, cmd, phase, listed, untold, teller, linked, bus, queue, studio, stale>>
  BY DEF ReadsConfig
<1>2. queue \in Seq(Items)
  BY DEF TypeInv, QueueOK
<1>3. Head(queue) \in Items
  BY <1>1, <1>2, HeadType
<1>4. PICK x \in Items : x = Head(queue) /\ x.event # "KILL" /\ x.site \in Sites
  BY <1>3 DEF Items, Events
<1>5. Unread = queue /\ Unread' = Tail(queue) /\ queue' = queue /\ job'.read = TRUE
  BY <1>1 DEF Unread, Rest
<1>6. SameTruth(t) /\ SameCmd(t) /\ SameLaunch(t) /\ SameBus(t) /\ SameStudio(t) /\ SameStale(t)
  BY <1>1, SameOnes, StaleSame
<1>7. CASE t # x.site
  <2>1. ~Of(Head(queue), t)
    BY <1>4, <1>7 DEF Of
  <2>2. SameCalls(t)
    BY <1>1, <1>2, <1>5, <2>1, HeadElsewhere DEF SameCalls
  <2>3. SameJob(t)
    BY <1>1, <1>4, <1>5, <1>7 DEF SameJob, Reading
  <2>. QED
    BY <1>6, <2>2, <2>3, SameIsGood DEF Same, SameRelay
<1>8. CASE t = x.site
  <2>1. NewInv(t) /\ DeleteInv(t) /\ PresentInv(t) /\ StatusInv(t)
    BY DEF Good, SiteInv
  <2>2. Of(Head(queue), t)
    BY <1>4, <1>8 DEF Of
  <2>3. /\ Mine(Unread, t) = Mine(Unread', t) \union {x} /\ About(Unread, t)
        /\ About(Unread', t) => Lasts(Unread', t) = Lasts(Unread, t)
        /\ ~About(Unread', t) => Lasts(Unread, t) = {x}
    BY <1>1, <1>2, <1>4, <1>5, <2>2, HeadHere
  <2>4. config[t] # Unborn /\ ~Creates(t, {"running"})
    BY <2>1, <2>3 DEF NewInv
  <2>5. UNCHANGED <<config, server, cmd, phase, listed, untold, teller, bus, ipc, main, ui, mounted, created, asked, crossed>>
    BY <1>1 DEF truth, studio, window
  <2>6. \A a \in Actors : \A k, pcs : Busy(a, t, k, pcs)' <=> Busy(a, t, k, pcs)
    BY <1>1 DEF Busy
  <2>7. (Untaken(t)' <=> Untaken(t)) /\ (Coming(t)' <=> Coming(t)) /\ ~Creates(t, {"running"})'
        /\ (InConfig(t)' <=> InConfig(t)) /\ (Up(t)' <=> Up(t)) /\ (Early' <=> Early)
    BY <2>4, <2>5, <2>6 DEF Untaken, Coming, Creates, InConfig, Up, Early
  <2>8. Reading(t)' /\ ~Reading(t) /\ Head(queue') = x /\ job'.edits = Read(t)
    BY <1>1, <1>4, <1>5, <1>8 DEF Reading
  <2>9. Read(t) = IF InConfig(t) THEN config[t] ELSE Gone
    BY DEF Read
  <2>10. /\ Written(t)' <=> Written(t)
         /\ Deleting(t)' <=> Deleting(t)
         /\ News(t)' <=> News(t) \/ (x.event = "CREATED" /\ Read(t) # Gone)
    <3>1. Written(t)' <=> Written(t)
      BY <2>5 DEF Written
    <3>2. Deleting(t)' <=> Deleting(t)
      BY <2>3, <2>8, <3>1 DEF Deleting
    <3>3. News(t)' <=> News(t) \/ (x.event = "CREATED" /\ Read(t) # Gone)
      BY <2>5, <2>8 DEF News
    <3>. QED
      BY <3>1, <3>2, <3>3
  <2>11. NewInv(t)'
    BY <2>4, <2>5, <2>6, <2>7 DEF NewInv, Creates, Actors
  <2>12. DeleteInv(t)'
    <3>1. Deleting(t) => ~InConfig(t)
      BY <2>1 DEF DeleteInv, InConfig, Gone
    <3>2. Written(t) => Read(t) = Gone
      BY <2>9, <3>1 DEF Deleting
    <3>. QED
      BY <2>1, <2>5, <2>6, <2>7, <2>8, <2>10, <3>2 DEF DeleteInv, Actors
  <2>13. InConfig(t) => Read(t) # Gone /\ Read(t) = config[t]
    BY <2>9 DEF InConfig, Gone
  <2>14. PresentInv(t)'
    BY <2>1, <2>5, <2>7, <2>8, <2>13 DEF PresentInv
  <2>15. StatusInv(t)'
    BY <2>1, <2>3, <2>5, <2>8 DEF StatusInv
  <2>16. ASSUME t \notin stale' PROVE TrueInv(t)'
    <3>1. TrueInv(t)
      BY <1>1, <2>16 DEF Good
    <3>2. KnownInv(t)'
      BY <2>3, <2>5, <2>7, <2>10, <2>13, <3>1 DEF TrueInv, KnownInv
    <3>3. AbsentInv(t)'
      BY <2>5, <2>6, <2>7, <2>9, <2>10, <3>1 DEF TrueInv, AbsentInv, Actors
    <3>4. EditsInv(t)'
      BY <2>5, <2>7, <2>8, <2>13 DEF EditsInv
    <3>5. RunningInv(t)'
      <4>1. RunningInv(t)
        BY <3>1 DEF TrueInv
      <4>2. /\ Lasts(bus', t) = Lasts(bus, t) /\ (About(bus, t)' <=> About(bus, t))
            /\ \A y : Says(y, t)' <=> Says(y, t)
        BY <2>5, <2>7 DEF About, Says
      <4>3. CASE About(Unread', t)
        BY <2>3, <2>5, <2>7, <4>1, <4>2, <4>3 DEF RunningInv
      <4>4. CASE ~About(Unread', t)
        <5>1. Lasts(Unread', t) = {}
          BY <1>1, <1>2, <1>5, <2>2, <4>4, HeadHere
        <5>. QED
          BY <2>3, <2>5, <2>7, <2>8, <4>1, <4>2, <4>4, <5>1 DEF RunningInv
      <4>. QED
        BY <4>3, <4>4
    <3>6. WindowInv(t)'
      <4>1. Reports(t)'
        BY <2>8 DEF Reports
      <4>. QED
        BY <2>5, <2>7, <2>10, <3>1, <4>1 DEF TrueInv, WindowInv, Following
    <3>. QED
      BY <3>2, <3>3, <3>4, <3>5, <3>6 DEF TrueInv
  <2>. QED
    BY <2>11, <2>12, <2>14, <2>15, <2>16 DEF Good, SiteInv
<1>. QED
  BY <1>7, <1>8

(* The relay writes what the first call has read.                            *)
LEMMA EmitsKeeps ==
  ASSUME TypeInv, NEW t \in Sites, Good(t), Emits
  PROVE  Good(t)'
<1> DEFINE h == Head(queue)
           running == CASE h.running = "yes" -> TRUE [] h.running = "no" -> FALSE
                        [] OTHER -> job.edits # Gone /\ IsSiteRunning(h.site, job.ofProcess)
           p == Payload(h.event, h.site, job.edits, running)
<1>1. /\ job.read /\ job' = NoJob /\ queue' = Tail(queue) /\ ipc' = Append(ipc, p)
      /\ teller' = IF h.running = "status" THEN teller \ {h.site} ELSE teller
      /\ Stale(IF h.running \in {"ask", "status"} /\ Up(h.site) /\ ~running THEN {h.site} ELSE {})
      /\ UNCHANGED <<truth, cmd, phase, listed, untold, linked, bus, main, window>>
  BY DEF Emits
<1>2. queue \in Seq(Items) /\ queue # <<>> /\ job.edits \in Counts /\ (job.ofProcess => Up(h.site))
  BY <1>1 DEF TypeInv, QueueOK
<1>3. h \in Items
  BY <1>2, HeadType
<1>4. h.event \in Events /\ h.event # "KILL" /\ h.site \in Sites /\ h.running \in {"yes", "no", "ask", "status"}
  BY <1>3 DEF Items, Events
<1>5. running \in BOOLEAN
  BY <1>4 DEF IsSiteRunning
<1>6. p \in Payloads /\ p.event = h.event /\ p.site = h.site /\ p.edits = job.edits /\ p.running = running
  BY <1>2, <1>4, <1>5 DEF Payloads, Payload
<1>7. h.running # "yes" /\ h.running # "no" => running = (job.edits # Gone /\ IsSiteRunning(h.site, job.ofProcess))
  OBVIOUS
<1>8. (h.running = "yes" => running = TRUE) /\ (h.running = "no" => running = FALSE)
  OBVIOUS
<1> HIDE DEF h, running, p
<1>9. ipc \in Seq(Payloads)
  BY DEF TypeInv, MainOK
<1>10. Unread' = Unread /\ ~job'.read
  BY <1>1 DEF Unread, Rest, NoJob
<1>11. SameTruth(t) /\ SameCmd(t) /\ SameBus(t) /\ SameMain(t) /\ SameWindow(t) /\ SameCalls(t)
  BY <1>1, <1>10, SameOnes DEF SameCalls
<1>12. SameStale(t)
  BY <1>1 DEF Stale, SameStale
<1>13. CASE t # h.site
  <2>1. ~Of(p, t)
    BY <1>6, <1>13 DEF Of
  <2>2. SameIpc(t)
    <3>1. Mine(ipc', t) = Mine(ipc, t) /\ Lasts(ipc', t) = Lasts(ipc, t)
      BY <1>1, <1>6, <1>9, <2>1, QueueAppend
    <3>2. \A y \in Payloads : y.event # "KILL"
      BY DEF Payloads, Events
    <3>3. GoneAfter(ipc, t) => GoneAfter(Append(ipc, p), t)
      BY <1>6, <1>9, <1>13, <3>2, GoneAppend
    <3>. QED
      BY <1>1, <3>1, <3>3 DEF SameIpc
  <2>3. SameJob(t)
    BY <1>10, <1>13 DEF SameJob, Reading, h
  <2>4. SameLaunch(t)
    BY <1>1, <1>13 DEF SameLaunch
  <2>. QED
    BY <1>11, <1>12, <2>2, <2>3, <2>4, SameIsGood DEF Same, SameRelay, SameStudio
<1>14. CASE t = h.site
  <2>1. NewInv(t) /\ DeleteInv(t) /\ PresentInv(t) /\ StatusInv(t)
    BY DEF Good, SiteInv
  <2>2. Reading(t) /\ ~Reading(t)' /\ Head(queue) = h
    BY <1>1, <1>10, <1>14 DEF Reading, h
  <2>3. Of(p, t)
    BY <1>4, <1>6, <1>14 DEF Of
  <2>4. Mine(ipc', t) = Mine(ipc, t) \union {p} /\ Lasts(ipc', t) = {p} /\ About(ipc, t)'
    <3>1. Mine(ipc', t) = Mine(ipc, t) \union {p} /\ Lasts(ipc', t) = {p}
      BY <1>1, <1>6, <1>9, <2>3, QueueAppend
    <3>. QED
      BY <3>1 DEF About
  <2>5. config[t] # Unborn /\ ~Creates(t, {"running"})
    BY <2>1, <2>2 DEF NewInv
  <2>6. UNCHANGED <<config, server, cmd, phase, listed, untold, bus, main, ui, mounted, created, asked, crossed>>
    BY <1>1 DEF truth, window
  <2>7. \A a \in Actors : \A k, pcs : Busy(a, t, k, pcs)' <=> Busy(a, t, k, pcs)
    BY <1>1 DEF Busy
  <2>8. (Untaken(t)' <=> Untaken(t)) /\ (Coming(t)' <=> Coming(t)) /\ ~Creates(t, {"running"})'
        /\ (InConfig(t)' <=> InConfig(t)) /\ (Up(t)' <=> Up(t)) /\ (Early' <=> Early)
    BY <2>5, <2>6, <2>7 DEF Untaken, Coming, Creates, InConfig, Up, Early
  <2>9. /\ Written(t)' <=> Written(t) \/ h.event = "DELETED"
        /\ Deleting(t)' <=> Deleting(t)
        /\ News(t)' <=> News(t)
    <3>1. Written(t)' <=> Written(t) \/ h.event = "DELETED"
      BY <1>6, <2>4 DEF Written
    <3>2. Deleting(t)' <=> Deleting(t)
      BY <1>10, <2>2, <3>1 DEF Deleting
    <3>3. News(t)' <=> News(t)
      BY <1>6, <2>2, <2>4 DEF News
    <3>. QED
      BY <3>1, <3>2, <3>3
  <2>10. NewInv(t)'
    BY <2>5, <2>6, <2>7, <2>8 DEF NewInv, Creates, Actors
  <2>11. DeleteInv(t)'
    <3>1. Written(t) => job.edits = Gone
      BY <2>1, <2>2 DEF DeleteInv
    <3>2. \A y \in Payloads : y.event # "KILL"
      BY DEF Payloads, Events
    <3>3. p.site = t /\ (\E y \in Mine(ipc, t) : y.event = "DELETED") => p.edits = Gone
      BY <1>6, <3>1 DEF Written
    <3>4. GoneAfter(Append(ipc, p), t)
      BY <1>6, <1>9, <2>1, <3>2, <3>3, GoneAppend DEF DeleteInv
    <3>. QED
      BY <1>1, <2>1, <2>2, <2>6, <2>7, <2>8, <2>9, <3>4 DEF DeleteInv, Actors
  <2>12. PresentInv(t)'
    BY <1>6, <2>1, <2>2, <2>4, <2>8 DEF PresentInv
  <2>13. StatusInv(t)'
    BY <1>1, <1>10, <1>14, <2>1, <2>2 DEF StatusInv
  <2>14. ASSUME t \notin stale' PROVE TrueInv(t)'
    <3>1. TrueInv(t)
      BY <1>12, <2>14 DEF Good, SameStale
    <3>2. KnownInv(t)'
      BY <1>10, <2>6, <2>8, <2>9, <3>1 DEF TrueInv, KnownInv
    <3>3. AbsentInv(t)'
      BY <2>6, <2>7, <2>8, <2>9, <3>1 DEF TrueInv, AbsentInv, Actors
    <3>4. (Refreshes(t)' <=> Refreshes(t)) /\ (About(bus, t)' <=> About(bus, t)) /\ (About(Unread, t)' <=> About(Unread, t))
      BY <1>10, <2>6, <2>8 DEF Refreshes, About
    <3>5. EditsInv(t)'
      <4>1. (\E a \in Actors : Busy(a, t, "set", {"saved"})) => \E a \in Actors : Busy(a, t, "set", {"saved"})'
        BY <2>7
      <4>. QED
        BY <1>6, <2>2, <2>4, <2>6, <2>8, <3>1, <3>4, <4>1 DEF TrueInv, EditsInv
    <3>6. RunningInv(t)'
      <4>1. RunningInv(t)
        BY <3>1 DEF TrueInv
      <4>2. h.running \in {"ask", "status"} /\ Up(t) => running
        BY <1>1, <1>14, <2>14 DEF Stale
      <4>3. Says(h, t) => running = Up(t)
        <5>1. CASE h.running \in {"ask", "status"}
          <6>1. running => job.ofProcess /\ job.edits # Gone
            BY <1>7, <5>1 DEF IsSiteRunning
          <6>2. running <=> Up(t)
            BY <1>2, <1>14, <4>2, <5>1, <6>1
          <6>. QED
            BY <1>5, <6>2 DEF Up
        <5>2. CASE h.running \in {"yes", "no"}
          BY <1>5, <1>8, <5>2 DEF Says, Up
        <5>. QED
          BY <1>4, <5>1, <5>2
      <4>4. Up(t)' = Up(t) /\ (\A y : Says(y, t)' <=> Says(y, t)) /\ Lasts(bus', t) = Lasts(bus, t)
            /\ Lasts(Unread', t) = Lasts(Unread, t)
        BY <1>10, <2>6 DEF Up, Says
      <4>5. Says(h, t) => \A y \in Lasts(ipc', t) : y.running = Up(t)'
        BY <1>6, <2>4, <4>3, <4>4
      <4>. QED
        BY <2>2, <2>4, <2>6, <2>8, <3>4, <4>1, <4>4, <4>5 DEF RunningInv
    <3>7. WindowInv(t)'
      <4>1. Reports(t)'
        BY <2>4 DEF Reports
      <4>. QED
        BY <2>6, <2>8, <2>9, <3>1, <4>1 DEF TrueInv, WindowInv, Following
    <3>. QED
      BY <3>2, <3>3, <3>5, <3>6, <3>7 DEF TrueInv
  <2>. QED
    BY <2>10, <2>11, <2>12, <2>13, <2>14 DEF Good, SiteInv
<1>. QED
  BY <1>13, <1>14

(* The daemon is killed, and every site is said not to run.                  *)
LEMMA HearsKillKeeps ==
  ASSUME TypeInv, NEW t \in Sites, Good(t), HearsKill
  PROVE  Good(t)'
<1> DEFINE S == {s \in Sites : InConfig(s)}
           all == SetToSeq(S)
           said == [i \in DOMAIN all |-> Payload("UPDATED", all[i], config[all[i]], FALSE)]
<1>1. /\ bus # <<>> /\ Head(bus).event = "KILL" /\ bus' = Tail(bus) /\ ipc' = ipc \o said
      /\ Stale({s \in Sites : Up(s)})
      /\ UNCHANGED <<truth, cmd, phase, listed, untold, teller, queue, job, main, window>>
  BY DEF HearsKill
<1>2. IsFiniteSet(S)
  BY BoundsAssumption, FS_Subset
<1>3. /\ all \in Seq(S) /\ DOMAIN all = 1 .. Len(all)
      /\ \A s \in S : \E i \in DOMAIN all : all[i] = s /\ \A j \in DOMAIN all : all[j] = s => j = i
  BY <1>2, SeqOfSites
<1>4. \A s \in S : Payload("UPDATED", s, config[s], FALSE) \in Payloads
  BY BoundsAssumption DEF InConfig, TypeInv, TruthOK, Payload, Payloads, Events, Counts, Unborn
<1>5. \A i \in DOMAIN all : all[i] \in S
  BY <1>3
<1>6. S \subseteq Sites /\ (t \in S <=> InConfig(t))
  OBVIOUS
<1> HIDE DEF all, S
<1>7. PICK r \in Seq(Payloads) :
        /\ ipc' = ipc \o r /\ DOMAIN r = DOMAIN all
        /\ \A i \in DOMAIN r : r[i] = Payload("UPDATED", all[i], config[all[i]], FALSE)
  <2>1. said \in [1 .. Len(all) -> Payloads]
    BY <1>3, <1>4, <1>5
  <2>2. Len(all) \in Nat
    BY <1>3
  <2>3. /\ DOMAIN said = DOMAIN all
        /\ \A i \in DOMAIN said : said[i] = Payload("UPDATED", all[i], config[all[i]], FALSE)
    OBVIOUS
  <2> HIDE DEF said
  <2>4. said \in Seq(Payloads)
    BY <2>1, <2>2
  <2>. QED
    BY <1>1, <2>3, <2>4
<1> HIDE DEF said
<1>8. ipc \in Seq(Payloads) /\ \A y \in Payloads : y.event # "KILL"
  BY DEF TypeInv, MainOK, Payloads, Events
<1>9. SameTruth(t) /\ SameCmd(t) /\ SameLaunch(t) /\ SameCalls(t) /\ SameJob(t) /\ SameMain(t) /\ SameWindow(t)
  BY <1>1, SameOnes
<1>10. SameBus(t)
  <2>1. ~Of(Head(bus), t) /\ bus \in Seq(Heard)
    BY <1>1 DEF Of, TypeInv, BusOK
  <2>. QED
    BY <1>1, <2>1, HeadElsewhere DEF SameBus
<1>11. SameStale(t)
  BY <1>1 DEF Stale, SameStale
<1>12. CASE ~InConfig(t)
  <2>1. \A j \in DOMAIN r : r[j].site # t
    BY <1>5, <1>6, <1>7, <1>12 DEF Payload
  <2>2. SameIpc(t)
    BY <1>7, <1>8, <2>1, QueueConcatOther DEF SameIpc
  <2>. QED
    BY <1>9, <1>10, <1>11, <2>2, SameIsGood DEF Same, SameRelay, SameStudio
<1>13. CASE InConfig(t)
  <2>1. PICK x : /\ x = Payload("UPDATED", t, config[t], FALSE)
                 /\ x.site = t /\ x.event = "UPDATED" /\ x.edits = config[t] /\ x.running = FALSE
    <3> DEFINE y == Payload("UPDATED", t, config[t], FALSE)
    <3>1. y.site = t /\ y.event = "UPDATED" /\ y.edits = config[t] /\ y.running = FALSE
      BY DEF Payload
    <3> HIDE DEF y
    <3>2. y = Payload("UPDATED", t, config[t], FALSE)
      BY DEF y
    <3>. QED
      BY <3>1, <3>2
  <2>2. PICK k \in DOMAIN r : r[k] = x /\ \A j \in DOMAIN r : r[j].site = t => j = k
    <3>1. PICK k \in DOMAIN all : all[k] = t /\ \A j \in DOMAIN all : all[j] = t => j = k
      BY <1>3, <1>6, <1>13
    <3>2. \A j \in DOMAIN r : r[j].site = all[j]
      BY <1>7 DEF Payload
    <3>. QED
      BY <1>7, <2>1, <3>1, <3>2
  <2>3. NewInv(t) /\ DeleteInv(t) /\ PresentInv(t) /\ StatusInv(t)
    BY DEF Good, SiteInv
  <2>4. ~Deleting(t) /\ ~Written(t)
    BY <1>13, <2>3 DEF DeleteInv, Deleting, InConfig, Gone
  <2>5. Mine(ipc', t) = Mine(ipc, t) \union {x} /\ Lasts(ipc', t) = {x} /\ GoneAfter(ipc', t)
    <3>1. /\ Mine(ipc \o r, t) = Mine(ipc, t) \union {x}
          /\ Lasts(ipc \o r, t) = {x}
          /\ GoneAfter(ipc, t) /\ ~(\E p \in Mine(ipc, t) : p.event = "DELETED") /\ x.event # "DELETED"
               => GoneAfter(ipc \o r, t)
      BY <1>7, <1>8, <2>1, <2>2, QueueConcat
    <3>. QED
      BY <1>7, <2>1, <2>3, <2>4, <3>1 DEF DeleteInv, Written
  <2>6. UNCHANGED <<config, server, cmd, phase, listed, untold, teller, queue, job, main, ui, mounted, created, asked, crossed>>
    BY <1>1 DEF truth, window
  <2>7. config[t] # Unborn /\ ~Creates(t, {"running"})
    BY <1>13, <2>3, NotNew
  <2>8. \A a \in Actors : \A kind, pcs : Busy(a, t, kind, pcs)' <=> Busy(a, t, kind, pcs)
    BY <1>1 DEF Busy
  <2>9. (Untaken(t)' <=> Untaken(t)) /\ (Coming(t)' <=> Coming(t)) /\ ~Creates(t, {"running"})'
        /\ InConfig(t)' /\ (Up(t)' <=> Up(t)) /\ (Early' <=> Early)
    BY <1>13, <2>6, <2>7, <2>8 DEF Untaken, Coming, Creates, InConfig, Up, Early
  <2>10. Unread' = Unread /\ (Reading(t)' <=> Reading(t))
    BY <2>6 DEF Unread, Reading
  <2>11. ~Written(t)' /\ ~Deleting(t)' /\ (News(t) => News(t)')
    BY <2>1, <2>4, <2>5, <2>6, <2>10 DEF Written, Deleting, News
  <2>12. NewInv(t)'
    BY <2>6, <2>7, <2>8, <2>9 DEF NewInv, Creates, Actors
  <2>13. DeleteInv(t)'
    <3>1. \A a \in Actors : ~Busy(a, t, "delete", {"saved", "told"})
      BY <1>13, <2>3 DEF DeleteInv, InConfig, Gone
    <3>. QED
      BY <2>3, <2>5, <2>8, <2>11, <3>1 DEF DeleteInv, Actors
  <2>14. PresentInv(t)'
    <3>1. x.edits # Gone
      <4>1. config[t] # Gone
        BY <1>13 DEF InConfig, Gone
      <4>. QED
        BY <2>1, <4>1
    <3>. QED
      BY <1>13, <2>3, <2>5, <2>6, <2>10, <3>1 DEF PresentInv
  <2>15. StatusInv(t)'
    BY <2>3, <2>6, <2>10 DEF StatusInv
  <2>16. ASSUME t \notin stale' PROVE TrueInv(t)'
    <3>1. TrueInv(t)
      BY <1>11, <2>16 DEF Good, SameStale
    <3>2. ~Up(t)
      BY <1>1, <2>16 DEF Stale
    <3>3. KnownInv(t)'
      BY <1>13, <2>6, <2>9, <2>10, <2>11, <3>1 DEF TrueInv, KnownInv
    <3>4. AbsentInv(t)'
      BY <2>9 DEF AbsentInv
    <3>5. (Refreshes(t)' <=> Refreshes(t)) /\ (About(bus, t)' <=> About(bus, t)) /\ About(ipc, t)'
          /\ (About(Unread, t)' <=> About(Unread, t))
      BY <1>10, <2>5, <2>6, <2>9, <2>10 DEF Refreshes, About, SameBus
    <3>6. EditsInv(t)'
      <4>1. (\E a \in Actors : Busy(a, t, "set", {"saved"})) => \E a \in Actors : Busy(a, t, "set", {"saved"})'
        BY <2>8
      <4>. QED
        BY <1>13, <2>1, <2>5, <2>6, <2>9, <2>10, <3>1, <3>5, <4>1 DEF TrueInv, EditsInv
    <3>7. RunningInv(t)'
      <4>1. RunningInv(t)
        BY <3>1 DEF TrueInv
      <4>2. \A y \in Lasts(ipc', t) : y.running = Up(t)'
        BY <2>1, <2>5, <2>9, <3>2 DEF Up
      <4>3. (\A y : Says(y, t)' <=> Says(y, t)) /\ Lasts(bus', t) = Lasts(bus, t) /\ Lasts(Unread', t) = Lasts(Unread, t)
        BY <1>10, <2>9, <2>10 DEF Says, SameBus
      <4>. QED
        BY <1>13, <2>6, <2>9, <2>10, <3>5, <4>1, <4>2, <4>3 DEF RunningInv
    <3>8. WindowInv(t)'
      <4>1. Reports(t)'
        BY <3>5 DEF Reports
      <4>. QED
        BY <2>4, <2>6, <2>9, <3>1, <4>1 DEF TrueInv, WindowInv, Following
    <3>. QED
      BY <3>3, <3>4, <3>6, <3>7, <3>8 DEF TrueInv
  <2>. QED
    BY <2>12, <2>13, <2>14, <2>15, <2>16 DEF Good, SiteInv
<1>. QED
  BY <1>12, <1>13

(* What the main process does not look at.                                   *)
LEMMA HandleFacts ==
  ASSUME NEW t \in Sites, UNCHANGED <<truth, cmd, relay>>
  PROVE  /\ UNCHANGED <<config, server, phase, listed, untold, teller, queue, job, bus>>
         /\ SameTruth(t) /\ SameCmd(t) /\ SameRelay(t)
         /\ \A a, k, pcs : Busy(a, t, k, pcs)' <=> Busy(a, t, k, pcs)
         /\ Untaken(t)' <=> Untaken(t)
         /\ Coming(t)' <=> Coming(t)
         /\ Creates(t, {"running"})' <=> Creates(t, {"running"})
         /\ InConfig(t)' <=> InConfig(t)
         /\ Up(t)' = Up(t) /\ (Up(t)' <=> Up(t))
         /\ Early' <=> Early
         /\ About(bus, t)' <=> About(bus, t)
         /\ About(Unread, t)' <=> About(Unread, t)
         /\ Refreshes(t)' <=> Refreshes(t)
         /\ Reading(t)' <=> Reading(t)
         /\ Unread' = Unread
         /\ \A y : Says(y, t)' <=> Says(y, t)
<1>1. UNCHANGED <<config, server, cmd, phase, listed, untold, teller, queue, job, bus>>
  BY DEF truth, relay
<1>2. Unread' = Unread /\ (Reading(t)' <=> Reading(t)) /\ (Early' <=> Early)
  BY <1>1 DEF Unread, Reading, Early
<1>3. \A a, k, pcs : Busy(a, t, k, pcs)' <=> Busy(a, t, k, pcs)
  BY <1>1 DEF Busy
<1>4. (Untaken(t)' <=> Untaken(t)) /\ (Coming(t)' <=> Coming(t)) /\ (Creates(t, {"running"})' <=> Creates(t, {"running"}))
  BY <1>1 DEF Untaken, Coming, Creates, Busy
<1>5. (InConfig(t)' <=> InConfig(t)) /\ Up(t)' = Up(t) /\ (Up(t)' <=> Up(t)) /\ \A y : Says(y, t)' <=> Says(y, t)
  BY <1>1 DEF InConfig, Up, Says
<1>6. (About(bus, t)' <=> About(bus, t)) /\ (About(Unread, t)' <=> About(Unread, t)) /\ (Refreshes(t)' <=> Refreshes(t))
  BY <1>1, <1>2 DEF About, Refreshes
<1>. QED
  BY <1>1, <1>2, <1>3, <1>4, <1>5, <1>6, SameOnes

(* The first event is taken: what it leaves of another site, and of its own. *)
LEMMA TakenElsewhere ==
  ASSUME TypeInv, NEW t \in Sites, Good(t), ipc # <<>>, ipc' = Tail(ipc), Head(ipc).site # t,
         UNCHANGED <<truth, cmd, relay, created, asked, mounted, stale>>, t \in crossed' <=> t \in crossed,
         main'[t] = main[t], ui'[t] = ui[t]
  PROVE  Good(t)'
<1>1. ipc \in Seq(Payloads) /\ ~Of(Head(ipc), t)
  BY DEF TypeInv, MainOK, Of
<1>2. SameIpc(t)
  BY <1>1, HeadElsewhere, GoneTail DEF SameIpc
<1>3. SameMain(t) /\ SameWindow(t) /\ SameStale(t)
  BY DEF SameMain, SameWindow, Following, SameStale
<1>. QED
  BY <1>2, <1>3, HandleFacts, SameIsGood DEF Same, SameStudio

(* Its own site: the event was all that Studio had to learn from it.         *)
LEMMA TakenHere ==
  ASSUME TypeInv, NEW s \in Sites, SiteInv(s), ipc # <<>>, ipc' = Tail(ipc), Head(ipc).site = s,
         UNCHANGED <<truth, cmd, relay>>
  PROVE  /\ SiteInv(s)' /\ config[s] # Unborn /\ ~Creates(s, {"running"}) /\ Listening
         /\ Head(ipc) \in Payloads /\ Mine(ipc, s) = Mine(ipc', s) \union {Head(ipc)}
         /\ About(ipc', s) => Lasts(ipc', s) = Lasts(ipc, s)
         /\ ~About(ipc', s) => Lasts(ipc', s) = {} /\ Lasts(ipc, s) = {Head(ipc)}
         /\ Head(ipc).event # "DELETED" => (Written(s)' <=> Written(s)) /\ (Deleting(s)' <=> Deleting(s))
         /\ Head(ipc).event = "DELETED" => config[s] = Gone /\ ~News(s)'
         /\ News(s)' => News(s)
         /\ News(s) => News(s)' \/ (Head(ipc).event = "CREATED" /\ Head(ipc).edits # Gone)
         /\ InConfig(s) => Head(ipc).edits # Gone
<1>1. ipc \in Seq(Payloads) /\ Listening
  BY DEF TypeInv, MainOK
<1>2. Head(ipc) \in Payloads
  BY <1>1, HeadType
<1>3. Of(Head(ipc), s)
  BY <1>2 DEF Of, Payloads, Events
<1>4. /\ Mine(ipc, s) = Mine(ipc', s) \union {Head(ipc)} /\ About(ipc, s)
      /\ About(ipc', s) => Lasts(ipc', s) = Lasts(ipc, s)
      /\ ~About(ipc', s) => Lasts(ipc', s) = {} /\ Lasts(ipc, s) = {Head(ipc)}
  BY <1>1, <1>3, HeadHere
<1>5. NewInv(s) /\ DeleteInv(s) /\ PresentInv(s) /\ StatusInv(s)
  BY DEF SiteInv
<1>6. config[s] # Unborn /\ ~Creates(s, {"running"})
  BY <1>4, <1>5 DEF NewInv
<1>7. GoneAfter(ipc', s) /\ (Head(ipc).event = "DELETED" => \A p \in Mine(ipc', s) : p.edits = Gone)
  BY <1>1, <1>5, GoneTail DEF DeleteInv
<1>8. UNCHANGED <<config, server, phase, listed, untold, teller, queue, job, bus>> /\ Unread' = Unread
      /\ (Reading(s)' <=> Reading(s))
  BY HandleFacts
<1>9. /\ Written(s)' => Written(s)
      /\ Deleting(s)' => Deleting(s)
      /\ Head(ipc).event # "DELETED" => (Written(s) => Written(s)') /\ (Deleting(s) => Deleting(s)')
      /\ Head(ipc).event = "DELETED" => Written(s) /\ Deleting(s)
  <2>1. Written(s) <=> Written(s)' \/ Head(ipc).event = "DELETED"
    BY <1>4 DEF Written
  <2>. QED
    BY <1>8, <2>1 DEF Deleting
<1>10. /\ News(s)' => News(s)
       /\ News(s) => News(s)' \/ (Head(ipc).event = "CREATED" /\ Head(ipc).edits # Gone)
  BY <1>4, <1>8 DEF News
<1>11. Head(ipc).event = "DELETED" => config[s] = Gone /\ ~News(s)'
  <2>1. ASSUME Head(ipc).event = "DELETED" PROVE config[s] = Gone /\ ~News(s)'
    <3>1. config[s] = Gone /\ (Reading(s) => job.edits = Gone)
      BY <1>5, <1>9, <2>1 DEF DeleteInv
    <3>. QED
      BY <1>7, <1>8, <2>1, <3>1 DEF News
  <2>. QED
    BY <2>1
<1>12. NewInv(s)'
  BY <1>6, <1>8, HandleFacts DEF NewInv, Creates, Actors
<1>13. DeleteInv(s)'
  BY <1>5, <1>7, <1>8, <1>9, HandleFacts DEF DeleteInv
<1>14. PresentInv(s)' /\ StatusInv(s)'
  BY <1>4, <1>5, <1>8, HandleFacts DEF PresentInv, StatusInv
<1>15. InConfig(s) => Head(ipc).edits # Gone
  BY <1>4, <1>5 DEF PresentInv
<1>. QED
  BY <1>1, <1>2, <1>4, <1>6, <1>9, <1>10, <1>11, <1>12, <1>13, <1>14, <1>15 DEF SiteInv

(* A site is taken out of the map: an event is there that says so.           *)
LEMMA HandlesDeletedKeeps ==
  ASSUME TypeInv, NEW t \in Sites, Good(t), HandlesDeleted
  PROVE  Good(t)'
<1>1. /\ ipc # <<>> /\ Head(ipc).event = "DELETED"
      /\ main' = [main EXCEPT ![Head(ipc).site] = Absent]
      /\ UNCHANGED <<truth, cmd, relay, ipc, window, stale>>
  BY DEF HandlesDeleted
<1>2. SameTruth(t) /\ SameCmd(t) /\ SameRelay(t) /\ SameIpc(t) /\ SameWindow(t) /\ SameStale(t)
  BY <1>1, SameOnes, StaleSame
<1>3. main \in [Sites -> Views] /\ ipc \in Seq(Payloads)
  BY DEF TypeInv, MainOK
<1>4. CASE Head(ipc).site # t
  <2>1. SameMain(t)
    BY <1>1, <1>3, <1>4 DEF SameMain
  <2>. QED
    BY <1>2, <2>1, SameButWindow
<1>5. CASE Head(ipc).site = t
  <2>1. main'[t] = Absent
    BY <1>1, <1>3, <1>5
  <2>2. Deleting(t) /\ Listening
    <3>1. Of(Head(ipc), t)
      BY <1>1, <1>5 DEF Of
    <3>2. Head(ipc) \in Mine(ipc, t)
      BY <1>1, <1>3, <3>1, HeadHere
    <3>. QED
      BY <1>1, <3>2 DEF Deleting, Written, TypeInv, MainOK
  <2>3. DeleteInv(t)
    BY DEF Good, SiteInv
  <2>4. config[t] = Gone /\ ~Creates(t, {"running"})
    BY <2>2, <2>3 DEF DeleteInv
  <2>5. ~InConfig(t)' /\ phase' = phase /\ Deleting(t)'
    BY <1>1, <1>2, <2>2, <2>4, HandleFacts, SameFacts DEF InConfig, Gone
  <2>6. SiteInv(t)'
    BY <1>2, <2>1, SiteInvKept DEF Good
  <2>7. TrueInv(t)'
    BY <2>2, <2>5 DEF TrueInv, KnownInv, AbsentInv, EditsInv, RunningInv, WindowInv, Listening
  <2>. QED
    BY <2>6, <2>7 DEF Good
<1>. QED
  BY <1>4, <1>5

(* And then out of the list, or not at all if it cannot be forgotten.        *)
LEMMA DeletedLeavesKeep ==
  ASSUME TypeInv, AwaitedOK, NEW t \in Sites, Good(t), ForwardsDeleted \/ UnregisterFails
  PROVE  Good(t)'
<1>1. /\ ipc # <<>> /\ Head(ipc).event = "DELETED" /\ ipc' = Tail(ipc)
      /\ main[Head(ipc).site] = Absent
      /\ UNCHANGED <<truth, cmd, relay, main, created, asked, mounted, stale>>
  BY DEF ForwardsDeleted, UnregisterFails, AwaitedOK
<1>2. \/ UNCHANGED crossed /\ Forwards(Head(ipc), Absent)
      \/ UNCHANGED ui /\ crossed' = crossed \union {Head(ipc).site}
  BY DEF ForwardsDeleted, UnregisterFails
<1>3. ui \in [Sites -> Views]
  BY DEF TypeInv, WindowOK
<1>4. CASE Head(ipc).site # t
  <2>1. ui'[t] = ui[t] /\ (t \in crossed' <=> t \in crossed)
    BY <1>2, <1>3, <1>4 DEF Forwards
  <2>. QED
    BY <1>1, <1>4, <2>1, TakenElsewhere
<1>5. CASE Head(ipc).site = t
  <2>1. SiteInv(t)' /\ Listening /\ config[t] = Gone /\ ~News(t)'
    BY <1>1, <1>5, TakenHere DEF Good
  <2>2. ~InConfig(t)' /\ phase' = phase
    BY <1>1, <2>1, HandleFacts DEF InConfig, Gone
  <2>3. main'[t] = Absent /\ (mounted' /\ t \notin crossed' => ui'[t] = Absent)
    BY <1>1, <1>2, <1>3, <1>5 DEF Forwards
  <2>4. TrueInv(t)'
    BY <2>1, <2>2, <2>3
       DEF TrueInv, KnownInv, AbsentInv, EditsInv, RunningInv, WindowInv, Following, Listening
  <2>. QED
    BY <2>1, <2>4 DEF Good
<1>. QED
  BY <1>4, <1>5

(* An event that the main process drops: what it said was known, or is told  *)
(* again.                                                                    *)
LEMMA IgnoresKeeps ==
  ASSUME TypeInv, NEW t \in Sites, Good(t), Ignores
  PROVE  Good(t)'
<1>1. /\ ipc # <<>> /\ Head(ipc).event # "DELETED" /\ ipc' = Tail(ipc)
      /\ Head(ipc).edits = Gone \/ (Head(ipc).event = "UPDATED" /\ ~main[Head(ipc).site].shown)
      /\ UNCHANGED <<truth, cmd, relay, main, window, stale>>
  BY DEF Ignores
<1>2. UNCHANGED <<truth, cmd, relay, created, asked, mounted, crossed, stale>> /\ main' = main /\ ui' = ui
  BY <1>1 DEF window
<1>3. CASE Head(ipc).site # t
  BY <1>1, <1>2, <1>3, TakenElsewhere
<1>4. CASE Head(ipc).site = t
  <2>1. /\ SiteInv(t)' /\ Listening /\ (Deleting(t)' <=> Deleting(t))
        /\ News(t)' => News(t)
        /\ News(t) => News(t)' \/ (Head(ipc).event = "CREATED" /\ Head(ipc).edits # Gone)
        /\ InConfig(t) => Head(ipc).edits # Gone
        /\ About(ipc', t) => Lasts(ipc', t) = Lasts(ipc, t)
        /\ ~About(ipc', t) => Lasts(ipc', t) = {}
    BY <1>1, <1>2, <1>4, TakenHere DEF Good
  <2>2. InConfig(t) => Head(ipc).event = "UPDATED" /\ ~main[t].shown
    BY <1>1, <1>4, <2>1
  <2>3. ASSUME t \notin stale' PROVE TrueInv(t)'
    <3>1. TrueInv(t)
      BY <1>1, <2>3 DEF Good
    <3>2. KnownInv(t)'
      BY <1>2, <2>1, <2>2, <3>1, HandleFacts DEF TrueInv, KnownInv
    <3>3. AbsentInv(t)'
      BY <1>2, <2>1, <3>1, HandleFacts DEF TrueInv, AbsentInv
    <3>4. EditsInv(t)'
      <4>1. (\E a \in Actors : Busy(a, t, "set", {"saved"})) => \E a \in Actors : Busy(a, t, "set", {"saved"})'
        BY <1>2, HandleFacts
      <4>2. \A p \in Lasts(ipc', t) : p \in Lasts(ipc, t)
        BY <2>1
      <4>. QED
        BY <1>2, <2>2, <3>1, <4>1, <4>2, HandleFacts DEF TrueInv, EditsInv
    <3>5. RunningInv(t)'
      <4>1. RunningInv(t) /\ KnownInv(t)
        BY <3>1 DEF TrueInv
      <4>2. \A p \in Lasts(ipc', t) : p \in Lasts(ipc, t)
        BY <2>1
      <4>3. InConfig(t) /\ ~Coming(t) /\ ~About(Unread, t) /\ ~Reading(t) => About(ipc', t)
        <5>1. InConfig(t) => News(t)' \/ Coming(t) \/ About(Unread, t)
          BY <2>1, <2>2, <4>1 DEF KnownInv, About, Listening
        <5>2. News(t)' /\ ~Reading(t) => About(ipc', t)
          BY <1>2, HandleFacts DEF News, About
        <5>. QED
          BY <5>1, <5>2
      <4>. QED
        BY <1>2, <4>1, <4>2, <4>3, HandleFacts DEF RunningInv
    <3>6. WindowInv(t)'
      BY <1>2, <2>1, <2>2, <3>1, HandleFacts DEF TrueInv, WindowInv, Following
    <3>. QED
      BY <3>2, <3>3, <3>4, <3>5, <3>6 DEF TrueInv
  <2>. QED
    BY <2>1, <2>3 DEF Good
<1>. QED
  BY <1>3, <1>4

(* An event that the main process takes over.                                *)
LEMMA HandlesDetailsKeeps ==
  ASSUME TypeInv, NEW t \in Sites, Good(t), HandlesDetails
  PROVE  Good(t)'
<1>1. PICK p : /\ p = Head(ipc) /\ ipc # <<>> /\ p.event # "DELETED" /\ p.edits # Gone /\ ipc' = Tail(ipc)
               /\ p.event = "CREATED" \/ main[p.site].shown
               /\ main' = [main EXCEPT ![p.site] = Entry(p.edits, p.running)]
               /\ Forwards(p, Entry(p.edits, p.running))
               /\ UNCHANGED <<truth, cmd, relay, created, asked, mounted, crossed, stale>>
  BY DEF HandlesDetails
<1>2. main \in [Sites -> Views] /\ ui \in [Sites -> Views]
  BY DEF TypeInv, MainOK, WindowOK
<1>3. ui' = ui \/ ui' = [ui EXCEPT ![p.site] = Entry(p.edits, p.running)]
  BY <1>1 DEF Forwards
<1>4. CASE p.site # t
  BY <1>1, <1>2, <1>3, <1>4, TakenElsewhere
<1>5. CASE p.site = t
  <2>1. /\ SiteInv(t)' /\ Listening /\ (Deleting(t)' <=> Deleting(t)) /\ ~Creates(t, {"running"})
        /\ Mine(ipc, t) = Mine(ipc', t) \union {p}
        /\ News(t)' => News(t)
        /\ About(ipc', t) => Lasts(ipc', t) = Lasts(ipc, t)
        /\ ~About(ipc', t) => Lasts(ipc', t) = {} /\ Lasts(ipc, t) = {p}
    BY <1>1, <1>5, TakenHere DEF Good
  <2>2. main'[t] = Entry(p.edits, p.running)
    BY <1>1, <1>2, <1>5
  <2>3. main'[t].shown /\ main'[t].edits = p.edits /\ main'[t].running = p.running
    BY <2>2 DEF Entry
  <2>4. mounted /\ (p.event # "UPDATED" \/ ui[t].shown) => ui'[t] = main'[t]
    BY <1>1, <1>2, <1>5, <2>2 DEF Forwards
  <2>5. ASSUME t \notin stale' PROVE TrueInv(t)'
    <3>1. TrueInv(t)
      BY <1>1, <2>5 DEF Good
    <3>2. \A y \in Lasts(ipc', t) : y \in Lasts(ipc, t)
      BY <2>1
    <3>3. KnownInv(t)'
      BY <2>3 DEF KnownInv
    <3>4. AbsentInv(t)'
      <4>1. main[t] = Absent => News(t)
        <5>1. p \in Mine(ipc, t) /\ p.edits # Gone
          BY <1>1, <2>1
        <5>2. main[t] = Absent => p.event = "CREATED"
          BY <1>1, <1>5 DEF Absent
        <5>. QED
          BY <5>1, <5>2 DEF News
      <4>2. ~Busy("studio", t, "create", {"running"})
        BY <2>1 DEF Creates, Actors
      <4>. QED
        BY <1>1, <2>1, <3>1, <4>1, <4>2, HandleFacts DEF TrueInv, AbsentInv
    <3>5. EditsInv(t)'
      <4>1. (\E a \in Actors : Busy(a, t, "set", {"saved"})) => \E a \in Actors : Busy(a, t, "set", {"saved"})'
        BY <1>1, HandleFacts
      <4>. QED
        BY <1>1, <2>1, <2>3, <3>1, <3>2, <4>1, HandleFacts DEF TrueInv, EditsInv
    <3>6. RunningInv(t)'
      <4>1. RunningInv(t)
        BY <3>1 DEF TrueInv
      <4>. QED
        BY <1>1, <2>1, <2>3, <3>2, <4>1, HandleFacts DEF RunningInv
    <3>7. WindowInv(t)'
      <4>1. UNCHANGED <<created, asked, mounted, crossed>>
        BY <1>1
      <4>2. ASSUME Following(t)' PROVE ui'[t] = main'[t] \/ Deleting(t)'
        <5>1. mounted /\ Following(t)
          BY <4>1, <4>2 DEF Following
        <5>2. CASE p.event # "UPDATED" \/ ui[t].shown
          BY <2>4, <5>1, <5>2
        <5>3. CASE p.event = "UPDATED" /\ ~ui[t].shown
          <6>1. main[t].shown
            BY <1>1, <1>5, <5>3
          <6>2. Deleting(t)
            BY <3>1, <5>1, <5>3, <6>1 DEF TrueInv, WindowInv
          <6>. QED
            BY <2>1, <6>2
        <5>. QED
          BY <5>2, <5>3
      <4>. QED
        BY <4>2 DEF WindowInv
    <3>. QED
      BY <3>3, <3>4, <3>5, <3>6, <3>7 DEF TrueInv
  <2>. QED
    BY <2>1, <2>5 DEF Good
<1>. QED
  BY <1>4, <1>5

-----------------------------------------------------------------------------
(* What holds before Studio is launched.                                     *)
LEMMA SitesStart ==
  ASSUME SitesInit
  PROVE  StudioInv
<1>1. "terminal" \in Actors /\ "studio" \in Actors /\ \A a \in Actors : a = "terminal" \/ a = "studio"
  BY DEF Actors
<1>2. cmd \in [Actors -> [Sites -> Cmds]] /\ \A a \in Actors, s \in Sites : cmd[a][s] = Idle
  BY DEF SitesInit, Cmds
<1>3. PICK S \in SUBSET {s \in Sites : config[s] = 0} :
        /\ server = [s \in Sites |-> IF s \in S THEN "up" ELSE "down"]
        /\ recorded = [s \in Sites |-> s \in S]
  BY DEF SitesInit
<1>4. server \in [Sites -> {"down", "booting", "up"}] /\ \A s \in Sites : server[s] = IF s \in S THEN "up" ELSE "down"
  <2>1. \A s \in Sites : (IF s \in S THEN "up" ELSE "down") \in {"down", "booting", "up"}
    OBVIOUS
  <2>2. server \in [Sites -> {"down", "booting", "up"}]
    BY <1>3, <2>1
  <2>3. \A s \in Sites : server[s] = IF s \in S THEN "up" ELSE "down"
    BY <1>3
  <2>. QED
    BY <2>2, <2>3
<1>5. recorded \in [Sites -> BOOLEAN] /\ \A s \in Sites : recorded[s] <=> s \in S
  <2>1. \A s \in Sites : (s \in S) \in BOOLEAN
    OBVIOUS
  <2>2. recorded \in [Sites -> BOOLEAN]
    BY <1>3, <2>1
  <2>3. \A s \in Sites : recorded[s] <=> s \in S
    BY <1>3
  <2>. QED
    BY <2>2, <2>3
<1>6. \A s \in S : config[s] = 0
  OBVIOUS
<1>7. TypeInv
  <2>1. TruthOK
    <3>1. config \in [Sites -> Unborn .. MaxChanges] /\ \A s \in Sites : config[s] <= 0
      BY BoundsAssumption DEF SitesInit, Unborn
    <3>2. /\ server \in [Sites -> {"down", "booting", "up"}]
          /\ recorded \in [Sites -> BOOLEAN] /\ \A s \in Sites : recorded[s] => Up(s)
      BY <1>4, <1>5 DEF Up
    <3>3. \A s \in Sites :
            config[s] + Pending(cmd["terminal"][s]) + Pending(cmd["studio"][s]) <= spent
      <4>1. Pending(Idle) = 0
        BY PendingIs
      <4>2. \A s \in Sites : Pending(cmd["terminal"][s]) = 0 /\ Pending(cmd["studio"][s]) = 0
        BY <1>1, <1>2, <4>1
      <4>3. spent = 0 /\ \A s \in Sites : config[s] \in Int
        BY <3>1 DEF SitesInit, Unborn
      <4>. QED
        BY <3>1, <4>2, <4>3
    <3>4. \A s \in Sites : cmd["terminal"][s].kind # "stop" /\ cmd["terminal"][s].pc \notin Returning
      BY <1>1, <1>2 DEF Idle, Returning
    <3>5. spent \in 0 .. MaxChanges
      BY BoundsAssumption DEF SitesInit
    <3>. QED
      BY <1>2, <3>1, <3>2, <3>3, <3>4, <3>5 DEF TruthOK
  <2>2. BusOK /\ RelayOK
    BY ViewTypes DEF SitesInit, BusOK, RelayOK, Phases
  <2>3. QueueOK
    BY ViewTypes DEF SitesInit, QueueOK, NoJob
  <2>4. MainOK
    BY ViewTypes DEF SitesInit, MainOK, NoView
  <2>5. WindowOK
    <3>1. ui \in [Sites -> Views] /\ created \in [Sites -> Views]
      BY ViewTypes DEF SitesInit, NoView
    <3>2. asked \in Seq([Sites -> Views])
      BY DEF SitesInit
    <3>3. mounted = FALSE /\ stale = {} /\ crossed = {}
      BY DEF SitesInit
    <3>. QED
      BY <1>1, <1>2, <3>1, <3>2, <3>3 DEF WindowOK
  <2>. QED
    BY <2>1, <2>2, <2>3, <2>4, <2>5 DEF TypeInv
<1>8. ASSUME NEW s \in Sites PROVE SiteInv(s) /\ TrueInv(s)
  <2>1. bus = <<>> /\ Unread = <<>> /\ ipc = <<>> /\ ~Reading(s)
    BY DEF SitesInit, Unread, Rest, Reading, NoJob
  <2>2. /\ Mine(bus, s) = {} /\ Mine(Unread, s) = {} /\ Mine(ipc, s) = {} /\ GoneAfter(ipc, s)
        /\ ~About(bus, s) /\ ~About(Unread, s) /\ ~About(ipc, s)
    BY <2>1, QueueEmpty, GoneEmpty
  <2>3. \A a, k, pcs : a \in Actors /\ k # "none" => ~Busy(a, s, k, pcs)
    BY <1>2 DEF Busy, Idle
  <2>4. ~Deleting(s) /\ ~News(s) /\ ~Written(s)
    BY <2>1, <2>2 DEF Deleting, News, Written
  <2>5. main[s] = Absent /\ ~mounted /\ teller = {} /\ untold = {} /\ listed[s] = Gone /\ phase = "launched"
    BY DEF SitesInit, NoView
  <2>6. config[s] = Unborn => server[s] = "down" /\ ~recorded[s]
    BY <1>4, <1>5, <1>6 DEF Unborn
  <2>7. ~Creates(s, {"running"}) /\ ~Untaken(s)
    BY <2>3 DEF Creates, Untaken
  <2>8. NewInv(s)
    BY <1>1, <1>2, <2>1, <2>2, <2>3, <2>5, <2>6, <2>7 DEF NewInv
  <2>9. DeleteInv(s) /\ PresentInv(s) /\ StatusInv(s)
    BY <1>1, <2>1, <2>2, <2>3, <2>4, <2>5, <2>7 DEF DeleteInv, PresentInv, StatusInv
  <2>10. TrueInv(s)
    BY <2>4, <2>5 DEF TrueInv, KnownInv, AbsentInv, EditsInv, RunningInv, WindowInv, Refreshes,
       Early, Following
  <2>. QED
    BY <2>8, <2>9, <2>10 DEF SiteInv
<1>9. AwaitedOK
  BY DEF SitesInit, AwaitedOK, NoView
<1>. QED
  BY <1>7, <1>8, <1>9 DEF StudioInv

(* Every step keeps what holds of each site.                                 *)
LEMMA SitesStep ==
  ASSUME StudioInv, SitesNext
  PROVE  StudioInv'
<1>1. TypeInv /\ AwaitedOK /\ \A s \in Sites : SiteInv(s) /\ Good(s)
  BY DEF StudioInv, Good
<1>2. TypeInv' /\ AwaitedOK'
  BY <1>1, TypesKept, AwaitedKept
<1>3. ASSUME NEW t \in Sites PROVE Good(t)'
  <2>1. CASE KillDaemon \/ Relink \/ Replied
    BY <1>1, <2>1, KillKeeps, RelinkKeeps, RepliedKeeps
  <2>2. CASE Launch
    <3>1. CASE ListsSites \/ FetchesAll \/ Listens
      BY <1>1, <3>1, ListsKeeps, FetchesKeeps, ListensKeeps
    <3>2. CASE Connects \/ Subscribes \/ Mounts
      BY <1>1, <3>2, ConnectsKeeps, SubscribesKeeps, MountsKeeps
    <3>. QED
      BY <2>2, <3>1, <3>2 DEF Launch
  <2>3. CASE Relay
    <3>1. CASE Hears \/ HearsKill
      BY <1>1, <3>1, HearsKeeps, HearsKillKeeps
    <3>2. CASE ReadsConfig \/ Emits
      BY <1>1, <3>2, ReadsConfigKeeps, EmitsKeeps
    <3>. QED
      BY <2>3, <3>1, <3>2 DEF Relay
  <2>4. CASE Main
    BY <1>1, <2>4, HandlesDeletedKeeps, DeletedLeavesKeep, IgnoresKeeps, HandlesDetailsKeeps DEF Main
  <2>5. ASSUME NEW s \in Sites,
               \/ Start(s) \/ Booted(s) \/ RecordsPid(s) \/ Exits(s) \/ Replies(s)
               \/ TerminalCreates(s) \/ StudioCreates(s) \/ Returns(s) \/ TellsStatus(s)
               \/ \E kind \in {"set", "delete"} : TerminalRuns(s, kind)
               \/ \E kind \in {"set", "delete", "stop"} : StudioCalls(s, kind)
               \/ \E a \in Actors : Command(a, s)
        PROVE  Good(t)'
    <3>1. CASE Start(s) \/ RecordsPid(s)
      BY <1>1, <3>1, QuietSteps
    <3>2. CASE Booted(s) \/ Exits(s) \/ Replies(s)
      BY <1>1, <3>2, ServersKeep
    <3>3. CASE TerminalCreates(s) \/ StudioCreates(s)
      BY <1>1, <3>3, CreatesKeep
    <3>4. CASE Returns(s)
      BY <1>1, <3>4, CreateReturnsKeeps, CreateRepliedKeeps, SetReturnsKeeps, DeleteReturnsKeeps,
         StopReturnsKeeps DEF Returns
    <3>5. CASE TellsStatus(s)
      BY <1>1, <3>5, TellsStatusKeeps
    <3>6. CASE \/ \E kind \in {"set", "delete"} : TerminalRuns(s, kind)
               \/ \E kind \in {"set", "delete", "stop"} : StudioCalls(s, kind)
      BY <1>1, <3>6, CallsKeep
    <3>7. ASSUME NEW a \in Actors, Command(a, s) PROVE Good(t)'
      <4>1. CASE SavesNew(a, s) \/ SavesEdit(a, s) \/ SavesDeletion(a, s)
        BY <1>1, <4>1, SavesNewKeeps, SavesEditKeeps, SavesDeletionKeeps
      <4>2. CASE Stops(a, s) \/ Tells(a, s)
        BY <1>1, <4>2, StopsKeep, TellsKeeps
      <4>3. CASE FailsEarly(a, s) \/ FailsLate(a, s)
        BY <1>1, <4>3, FailsEarlyKeeps, FailsLateKeeps
      <4>. QED
        BY <3>7, <4>1, <4>2, <4>3 DEF Command
    <3>. QED
      BY <2>5, <3>1, <3>2, <3>3, <3>4, <3>5, <3>6, <3>7
  <2>. QED
    BY <2>1, <2>2, <2>3, <2>4, <2>5 DEF SitesNext
<1>. QED
  BY <1>2, <1>3 DEF StudioInv, Good

(* A step that changes nothing.                                              *)
LEMMA SitesStutter ==
  ASSUME StudioInv, UNCHANGED sitesVars
  PROVE  StudioInv'
<1>1. UNCHANGED truth /\ UNCHANGED cmd /\ UNCHANGED relay /\ UNCHANGED studio /\ UNCHANGED <<stale, spent>>
  BY DEF sitesVars
<1>2. UNCHANGED <<config, recorded, server, phase, listed, untold, teller, linked, bus, queue, job, ipc, main,
                  handling, created, asked, ui, mounted, crossed>>
  BY <1>1 DEF truth, relay, studio, window
<1>3. TypeInv' /\ AwaitedOK'
  <2>1. TypeInv /\ AwaitedOK
    BY DEF StudioInv
  <2>. QED
    BY <1>1, <1>2, <2>1 DEF TypeInv, TruthOK, BusOK, RelayOK, QueueOK, MainOK, WindowOK, Up,
       Listening, AwaitedOK
<1>4. ASSUME NEW t \in Sites PROVE Good(t)'
  BY <1>1, SameOnes, StaleSame, SameIsGood DEF StudioInv, Good, Same
<1>. QED
  BY <1>3, <1>4 DEF StudioInv, Good

(* The types that the runs check.                                            *)
LEMMA SitesTypes ==
  ASSUME StudioInv
  PROVE  SitesTypeOK
<1>1. TypeInv
  BY DEF StudioInv
<1>2. \A a \in Actors, s \in Sites :
        /\ cmd[a][s].kind \in {"none", "create", "set", "delete", "stop"}
        /\ cmd[a][s].pc \in {"none", "running", "stopped", "starting", "saved", "told", "toldUp", "returned"}
  <2>1. \A a \in Actors, s \in Sites : cmd[a][s] \in Cmds
    BY <1>1 DEF TypeInv, TruthOK
  <2>. QED
    BY <2>1, CmdKinds
<1>3. teller \subseteq Sites /\ Cardinality(teller) <= 1
  <2>1. teller = {} \/ \E s \in Sites : teller = {s}
    BY <1>1 DEF TypeInv, RelayOK
  <2>2. CASE teller = {}
    BY <2>2, FS_EmptySet
  <2>3. ASSUME NEW s \in Sites, teller = {s}
        PROVE teller \subseteq Sites /\ Cardinality(teller) <= 1
    <3>1. Cardinality({s}) = 1
      BY FS_Singleton
    <3>. QED
      BY <2>3, <3>1
  <2>. QED
    BY <2>1, <2>2, <2>3
<1>4. \A view \in {main, created, ui} : \A s \in Sites :
        view[s].edits \in Gone .. MaxChanges /\ view[s].running \in BOOLEAN
  BY <1>1 DEF TypeInv, MainOK, WindowOK, Views, Counts, Gone
<1>5. handling \in BOOLEAN /\ (handling => ipc # <<>>)
  BY DEF StudioInv, AwaitedOK
<1>. QED
  BY <1>1, <1>2, <1>3, <1>4, <1>5
     DEF SitesTypeOK, TypeInv, TruthOK, RelayOK, QueueOK, WindowOK, Phases

(* At rest nothing is on its way, so that the copies are true.               *)
LEMMA SitesRest ==
  ASSUME StudioInv
  PROVE  SitesAreTrueAtRest
<1> SUFFICES ASSUME AtRest, NEW s \in Sites \ stale
             PROVE  MainIsTrue(s) /\ (s \notin crossed => ui[s] = main[s])
  BY DEF SitesAreTrueAtRest, MainIsTrueAtRest, UiIsMainAtRest
<1>1. TypeInv /\ SiteInv(s) /\ TrueInv(s)
  BY DEF StudioInv
<1>2. ~job.read /\ Unread = <<>> /\ bus = <<>> /\ ipc = <<>> /\ asked = <<>>
  BY <1>1 DEF AtRest, TypeInv, QueueOK, Unread, Rest
<1>3. ~Reading(s)
  BY <1>2 DEF Reading
<1>4. /\ Mine(bus, s) = {} /\ Mine(Unread, s) = {} /\ Mine(ipc, s) = {} /\ Lasts(ipc, s) = {}
      /\ ~About(bus, s) /\ ~About(Unread, s) /\ ~About(ipc, s)
  BY <1>2, QueueEmpty
<1>5. ~Deleting(s) /\ ~News(s)
  BY <1>2, <1>3, <1>4 DEF Deleting, News, Written
<1>6. /\ \A a \in Actors : \A k, pcs : k # "none" => ~Busy(a, s, k, pcs)
      /\ ~Untaken(s) /\ ~Coming(s)
  BY DEF AtRest, Busy, Idle, Untaken, Coming, Creates
<1>7. phase = "subscribed" /\ untold = {} /\ mounted
  BY <1>1 DEF AtRest, TypeInv, RelayOK
<1>8. ~Early /\ ~Refreshes(s) /\ ~Reports(s)
  BY <1>3, <1>4, <1>7 DEF Early, Refreshes, Reports
<1>9. "studio" \in Actors
  BY DEF Actors
<1>10. MainIsTrue(s)
  <2>1. CASE InConfig(s)
    <3>1. main[s].shown
      BY <1>1, <1>4, <1>5, <1>6, <1>7, <2>1 DEF TrueInv, KnownInv
    <3>2. main[s].edits = config[s]
      BY <1>1, <1>3, <1>4, <1>6, <1>8, <2>1, <3>1 DEF TrueInv, EditsInv
    <3>3. main[s].running = Up(s)
      BY <1>1, <1>3, <1>4, <1>6, <1>7, <1>8, <2>1 DEF TrueInv, RunningInv
    <3>4. config[s] \in Counts /\ Up(s) \in BOOLEAN
      BY <1>1, <2>1 DEF TypeInv, TruthOK, InConfig, Counts, Unborn, Up
    <3>5. Entry(config[s], Up(s)) \in Views /\ main[s] \in Views
      BY <1>1, <3>4, ViewTypes DEF TypeInv, MainOK
    <3>6. main[s] = Entry(config[s], Up(s))
      <4>1. /\ main[s].shown = Entry(config[s], Up(s)).shown /\ main[s].edits = Entry(config[s], Up(s)).edits
            /\ main[s].running = Entry(config[s], Up(s)).running
        BY <3>1, <3>2, <3>3 DEF Entry
      <4>. QED
        BY <3>5, <4>1, ViewEqual
    <3>. QED
      BY <2>1, <3>6 DEF MainIsTrue
  <2>2. CASE ~InConfig(s)
    BY <1>1, <1>5, <1>6, <1>9, <2>2 DEF TrueInv, AbsentInv, MainIsTrue
  <2>. QED
    BY <2>1, <2>2
<1>11. s \notin crossed => ui[s] = main[s]
  <2>1. created[s] = Absent
    BY <1>9 DEF StudioInv, AwaitedOK, AtRest, Idle
  <2>. QED
    BY <1>1, <1>2, <1>5, <1>6, <1>7, <1>8, <2>1 DEF TrueInv, WindowInv, Following
<1>. QED
  BY <1>10, <1>11

-----------------------------------------------------------------------------
(* Each variable of the model keeps its type.                                *)
THEOREM SitesTypeCorrect == SitesSpec => []SitesTypeOK
<1>1. SitesInit => StudioInv
  BY SitesStart
<1>2. StudioInv /\ [SitesNext]_sitesVars => StudioInv'
  BY SitesStep, SitesStutter
<1>3. StudioInv => SitesTypeOK
  BY SitesTypes
<1>. QED
  BY <1>1, <1>2, <1>3, PTL DEF SitesSpec

(* When nothing is on its way, what Studio shows of a site none of whose     *)
(* changes was lost is what the config file and the daemon say.              *)
THEOREM SitesTrue == SitesSpec => []SitesAreTrueAtRest
<1>1. SitesInit => StudioInv
  BY SitesStart
<1>2. StudioInv /\ [SitesNext]_sitesVars => StudioInv'
  BY SitesStep, SitesStutter
<1>3. StudioInv => SitesAreTrueAtRest
  BY SitesRest
<1>. QED
  BY <1>1, <1>2, <1>3, PTL DEF SitesSpec

-----------------------------------------------------------------------------
(* Sites that are pulled with pull-reprint.                                  *)

USE DEF Initialized, EssentialFiles, Flattened, DbDownloaded, DbApplied, RuntimeGenerated,
        SiteRegistered, SiteStarted, Completed

(* What a step is for: the stage of pull.json, and its port.                 *)
Fits(step, stage, port) ==
  /\ step = "files" => stage = Initialized
  /\ step = "flatten" => stage = EssentialFiles
  /\ step = "dump" => stage = Flattened
  /\ step = "port" => DbDownloaded <= stage /\ stage < Completed
  /\ step = "apply" => stage = DbDownloaded /\ port # 0
  /\ step = "runtime" => stage = DbApplied
  /\ step \in {"register", "lock", "registered"} => stage = RuntimeGenerated
  /\ step = "entry" => SiteRegistered <= stage /\ stage < Completed
  /\ step = "start" => stage = SiteRegistered
  /\ step = "rest" => stage = SiteStarted
  /\ step = "confirm" => stage = Initialized
  /\ step \in {"enable", "preflight", "renew", "again"} => stage < Completed

(* A process that has read pull.json.                                        *)
Reads(p) == at[p] \notin {"off", "rotate"}

(* As long as nobody interferes: one process runs, what it has in memory is  *)
(* what pull.json says, an entry belongs to a pull with a database, and      *)
(* stages and entry are as StagesAreBacked and EntryMatchesPull say.         *)
OneRuns     == \A p, q \in Pulls : at[p] # "off" /\ at[q] # "off" => p = q
MemoryFits  ==
  \A p \in Pulls : Reads(p) => meta # None /\ mem[p] = meta /\ Fits(at[p], meta.stage, meta.port)
EntryIsLate == sites # {} => meta # None /\ meta.stage >= RuntimeGenerated
Backed ==
  meta # None =>
    /\ meta.stage >= EssentialFiles => disk.files = "synced"
    /\ meta.stage >= Flattened => folder[meta.folder] = "site"
    /\ meta.stage >= DbDownloaded => disk.dump
    /\ meta.stage >= DbApplied => disk.db = meta.port /\ meta.port # 0
    /\ meta.stage >= RuntimeGenerated => disk.runtime
    /\ meta.stage = Completed => ~disk.rest
Matched == meta # None => \A e \in sites : e.port = disk.db /\ e.folder = meta.folder

Calm == OneRuns /\ MemoryFits /\ EntryIsLate /\ Backed /\ Matched

IInv == TypeOK /\ OneEntry /\ (disturbed \/ Calm)

(* It holds to begin with.                                                  *)
LEMMA InitInv == Init => IInv
<1> SUFFICES ASSUME Init PROVE IInv
  OBVIOUS
<1> USE PullsAssumption DEF Init
<1>a. disk \in [preflight : BOOLEAN, files : {"none", "torn", "synced"}, dump : BOOLEAN,
                db : 0..MaxPort, runtime : BOOLEAN, rest : BOOLEAN]
  BY DEF EmptyDirectory
<1>b. at \in [Pulls -> Steps] /\ mem \in [Pulls -> Sessions \union {None}]
  BY DEF Steps
<1>c. folder \in [Folders -> {"empty", "part", "site"}]
  OBVIOUS
<1>d. faults \in 0..MaxFaults
  OBVIOUS
<1>f. disturbed \in BOOLEAN
  BY Zenon
<1>g. exporterOn \in BOOLEAN /\ resolved \subseteq Pulls
  OBVIOUS
<1>e. \A p \in Pulls : at[p] = "off"
  OBVIOUS
<1>1. TypeOK
  BY <1>a, <1>b, <1>c, <1>d, <1>e, <1>f, <1>g DEF TypeOK
<1>2. OneEntry /\ Calm
  BY <1>e DEF OneEntry, Calm, OneRuns, MemoryFits, EntryIsLate, Backed, Matched, Reads
<1>. QED BY <1>1, <1>2 DEF IInv

(* What is in Sessions is not None.                                          *)
LEMMA SessionIsNotNone == \A m \in Sessions : m # None
  BY PullsAssumption, NoneIsNoSession DEF Sessions, Folders

DiskType == [preflight : BOOLEAN, files : {"none", "torn", "synced"}, dump : BOOLEAN,
             db : 0..MaxPort, runtime : BOOLEAN, rest : BOOLEAN]

(* Types of what a process changes: p's step and memory, pull.json, secrets. *)
ProcessOK ==
  /\ meta \in Sessions \union {None}
  /\ at \in [Pulls -> Steps] /\ mem \in [Pulls -> Sessions \union {None}]
  /\ \A p \in Pulls : Reads(p) => mem[p] # None
  /\ holds \subseteq Pulls \union {File}

(* And of the rest.                                                          *)
WorldOK ==
  /\ disk \in DiskType
  /\ folder \in [Folders -> {"empty", "part", "site"}]
  /\ sites \subseteq [folder : Folders, port : 0..MaxPort]
  /\ others \subseteq Ports
  /\ faults \in 0..MaxFaults

ExporterOK == exporterOn \in BOOLEAN /\ resolved \subseteq Pulls

(* TypeOK is said of the processes and of the rest.                          *)
LEMMA TypeParts == TypeOK <=> ProcessOK /\ WorldOK /\ ExporterOK /\ disturbed \in BOOLEAN
  BY DEF TypeOK, ProcessOK, WorldOK, ExporterOK, DiskType, Reads

(* The steps that a process goes to.                                         *)
LEMMA NextStepOK ==
  ASSUME NEW stage \in Initialized..Completed
  PROVE  NextStep(stage) \in Steps /\ ResumeAt(stage) \in Steps
         /\ NextStep(stage) \notin {"off", "rotate"} /\ ResumeAt(stage) \notin {"off", "rotate"}
  BY DEF NextStep, ResumeAt, Steps

(* A process that saves metadata and goes to another step keeps the types.   *)
LEMMA SaveOK ==
  ASSUME ProcessOK, NEW p \in Pulls, Reads(p), NEW m \in Sessions, Save(p, m),
         NEW step \in Steps, Goes(p, step)
  PROVE  ProcessOK'
<1>1. m # None BY SessionIsNotNone
<1>2. mem' \in [Pulls -> Sessions \union {None}] /\ mem'[p] = m
      /\ \A q \in Pulls \ {p} : mem'[q] = mem[q]
  BY DEF ProcessOK, Save
<1>3. at' \in [Pulls -> Steps] /\ \A q \in Pulls \ {p} : at'[q] = at[q]
  BY DEF ProcessOK, Goes
<1>4. meta' \in Sessions \union {None} BY DEF Save
<1>5. holds' \subseteq Pulls \union {File} BY DEF Save, ProcessOK
<1>. QED BY <1>1, <1>2, <1>3, <1>4, <1>5 DEF ProcessOK, Reads

(* So does one that only goes to another step.                               *)
LEMMA GoesOK ==
  ASSUME ProcessOK, NEW p \in Pulls, Reads(p), NEW step \in Steps, Goes(p, step),
         UNCHANGED <<meta, mem>>, holds' \subseteq Pulls \union {File}
  PROVE  ProcessOK'
  BY DEF ProcessOK, Goes, Reads

(* So does one that ends.                                                    *)
LEMMA EndsOK ==
  ASSUME ProcessOK, NEW p \in Pulls,
         at' = [at EXCEPT ![p] = "off"], mem' = [mem EXCEPT ![p] = None],
         meta' \in Sessions \union {None}, holds' \subseteq Pulls \union {File}
  PROVE  ProcessOK'
  BY DEF ProcessOK, Reads, Steps

(* So does one that reads or makes pull.json.                                *)
LEMMA GetsOK ==
  ASSUME ProcessOK, NEW p \in Pulls, NEW h \in SUBSET (Pulls \union {File}),
         GetPullSessionMetadata(p, h)
  PROVE  ProcessOK'
<1>1. holds' \subseteq Pulls \union {File} BY DEF GetPullSessionMetadata
<1>2. CASE ResumeSession(p)
  <2>1. meta \in Sessions /\ meta' = meta /\ mem' = [mem EXCEPT ![p] = meta]
    BY <1>2 DEF ResumeSession, ProcessOK
  <2>2. \E step \in Steps : at' = [at EXCEPT ![p] = step]
    BY <1>2 DEF ResumeSession, Goes, Steps
  <2>. QED BY <1>1, <2>1, <2>2, SessionIsNotNone DEF ProcessOK, Reads
<1>3. CASE CreateSession(p)
  <2>1. PICK f \in Folders :
          /\ meta' = [stage |-> Initialized, folder |-> f, port |-> 0, secret |-> FALSE]
          /\ mem' = [mem EXCEPT ![p] = [stage |-> Initialized, folder |-> f, port |-> 0, secret |-> FALSE]]
          /\ \E step \in {"confirm", "enable"} : Goes(p, step)
    BY <1>3 DEF CreateSession
  <2>2. [stage |-> Initialized, folder |-> f, port |-> 0, secret |-> FALSE] \in Sessions
    BY PullsAssumption DEF Sessions
  <2>3. \E step \in Steps : at' = [at EXCEPT ![p] = step]
    BY <2>1 DEF Goes, Steps
  <2>. QED BY <1>1, <2>1, <2>2, <2>3, SessionIsNotNone DEF ProcessOK, Reads
<1>. QED BY <1>2, <1>3 DEF GetPullSessionMetadata

(* The session that p goes on with.                                          *)
LEMMA MemoryIsSession ==
  ASSUME ProcessOK, NEW p \in Pulls, Reads(p)
  PROVE  /\ mem[p] \in Sessions
         /\ mem[p] = [stage |-> mem[p].stage, folder |-> mem[p].folder, port |-> mem[p].port,
                      secret |-> mem[p].secret]
         /\ mem[p].secret \in BOOLEAN
         /\ mem[p].stage \in Initialized..Completed /\ mem[p].port \in 0..MaxPort
         /\ mem[p].folder \in Folders
         /\ \A stage \in Initialized..Completed : [mem[p] EXCEPT !.stage = stage] \in Sessions
         /\ \A port \in 0..MaxPort : [mem[p] EXCEPT !.port = port] \in Sessions
         /\ [mem[p] EXCEPT !.secret = TRUE] \in Sessions
  BY DEF ProcessOK, Sessions

(* What commands of reprint.phar leave has its types.                        *)
LEMMA OutputOK ==
  ASSUME ProcessOK, WorldOK, NEW p \in Pulls, Reads(p), Output(p) \/ PartOfOutput(p)
  PROVE  disk' \in DiskType /\ folder' \in [Folders -> {"empty", "part", "site"}]
<1> DEFINE F == [Folders -> {"empty", "part", "site"}]
<1>1. mem[p].port \in 0..MaxPort /\ mem[p].folder \in Folders
  BY MemoryIsSession
<1>1a. 0 \in 0..MaxPort BY PullsAssumption
<1>2. disk \in DiskType /\ folder \in F BY DEF WorldOK
<1>3. \A b \in BOOLEAN : [disk EXCEPT !.dump = b] \in DiskType
  BY <1>2, Zenon DEF DiskType
<1>3a. \A b \in BOOLEAN : [disk EXCEPT !.runtime = b] \in DiskType
  BY <1>2, Zenon DEF DiskType
<1>3b. \A b \in BOOLEAN : [disk EXCEPT !.rest = b] \in DiskType
  BY <1>2, Zenon DEF DiskType
<1>3c. \A q \in 0..MaxPort : [disk EXCEPT !.db = q] \in DiskType
  BY <1>2 DEF DiskType
<1>3d. \A x \in {"none", "torn", "synced"} : [disk EXCEPT !.files = x] \in DiskType
  BY <1>2 DEF DiskType
<1>3e. \A b \in BOOLEAN : [disk EXCEPT !.files = "synced", !.rest = b] \in DiskType
  BY <1>2, Zenon DEF DiskType
<1>4. \A x \in {"part", "site"} : [folder EXCEPT ![mem[p].folder] = x] \in F
  BY <1>1, <1>2
<1> HIDE DEF F
<1>5. ASSUME Output(p) PROVE disk' \in DiskType /\ folder' \in F
  <2>1. CASE /\ At(p, "files") /\ disk.files # "torn" /\ Accepted(p)
             /\ \E skipped \in BOOLEAN : disk' = [disk EXCEPT !.files = "synced", !.rest = skipped]
             /\ UNCHANGED folder
    BY <2>1, <1>2, <1>3e
  <2>2. CASE /\ At(p, "flatten")
             /\ folder' = [folder EXCEPT ![mem[p].folder] = "site"]
             /\ UNCHANGED disk
    BY <2>2, <1>2, <1>4
  <2>3. CASE At(p, "dump") /\ Accepted(p) /\ disk' = [disk EXCEPT !.dump = TRUE] /\ UNCHANGED folder
    BY <2>3, <1>2, <1>3
  <2>4. CASE At(p, "apply") /\ disk' = [disk EXCEPT !.db = mem[p].port] /\ UNCHANGED folder
    BY <2>4, <1>1, <1>2, <1>3c
  <2>5. CASE At(p, "runtime") /\ disk' = [disk EXCEPT !.runtime = TRUE] /\ UNCHANGED folder
    BY <2>5, <1>2, <1>3a
  <2>6. CASE /\ At(p, "rest") /\ (disk.rest => Accepted(p))
             /\ disk' = [disk EXCEPT !.rest = FALSE] /\ UNCHANGED folder
    BY <2>6, <1>2, <1>3b
  <2>. QED BY <1>5, <2>1, <2>2, <2>3, <2>4, <2>5, <2>6 DEF Output
<1>6. ASSUME PartOfOutput(p) PROVE disk' \in DiskType /\ folder' \in F
  <2>1. CASE disk' = [disk EXCEPT !.files = "torn"] /\ UNCHANGED folder
    BY <2>1, <1>2, <1>3d
  <2>2. CASE folder' = [folder EXCEPT ![mem[p].folder] = "part"] /\ UNCHANGED disk
    BY <2>2, <1>2, <1>4
  <2>3. CASE disk' = [disk EXCEPT !.db = 0] /\ UNCHANGED folder
    BY <2>3, <1>1a, <1>2, <1>3c
  <2>. QED BY <1>6, <2>1, <2>2, <2>3 DEF PartOfOutput
<1>. QED BY <1>5, <1>6 DEF F

-----------------------------------------------------------------------------
(* Types *)

(* The history variable says TRUE or FALSE, and never FALSE again.           *)
LEMMA DisturbedStep == ASSUME disturbed \in BOOLEAN, [Next]_vars
                       PROVE  disturbed' \in BOOLEAN /\ (disturbed => disturbed')
<1>1. \/ UNCHANGED disturbed \/ disturbed' = (disturbed \/ Running # {})
      \/ (\E p \in Pulls : disturbed' = (disturbed \/ Running # {p}))
      \/ disturbed' = (disturbed \/ Running # {} \/ sites # {})
  BY DEF Next, vars, Fault, Begin, Step, RotateFirst, Confirm, Exit, EnableReprintExporter,
         Preflight, RotateReprintSecret,
         ClearFilesSyncIndex, DownloadEssentialSiteFiles, RefreshFlattenedSiteDirectory,
         DownloadRemoteDatabase, EnsurePort, ApplyDownloadedDatabase, GenerateRuntimeConfiguration,
         DownloadSkippedFiles, Rejected, FindExistingSite, RegisterSite, RecordRegistered,
         ReadEntry,
         StartSite, Stage, Kill, Decline, AbortPull, DeleteSite, ExpireSecret, ExporterTimesOut,
         CreateOther
<1>. QED BY <1>1, Zenon

(* The exporter is on or off, and processes look the site up.                *)
LEMMA ExporterStep == ASSUME ExporterOK, [Next]_vars
                      PROVE  ExporterOK'
<1>1. \/ UNCHANGED exporterOn \/ exporterOn' = TRUE \/ exporterOn' = FALSE
      \/ \E p \in Pulls : exporterOn' = (exporterOn \/ p \in resolved)
  BY DEF Next, vars, exporter, Fault, Begin, Step, RotateFirst, Confirm, Exit, EnableReprintExporter,
         Preflight, RotateReprintSecret, ClearFilesSyncIndex, DownloadEssentialSiteFiles,
         RefreshFlattenedSiteDirectory, DownloadRemoteDatabase, EnsurePort,
         ApplyDownloadedDatabase, GenerateRuntimeConfiguration, DownloadSkippedFiles, Rejected,
         FindExistingSite, RegisterSite, RecordRegistered, ReadEntry, StartSite, Stage, Kill,
         Decline, AbortPull, DeleteSite, ExpireSecret, ExporterTimesOut, CreateOther
<1>2. resolved' \subseteq resolved \/ \E p \in Pulls : resolved' = resolved \union {p}
  BY DEF Next, vars, exporter, Fault, Begin, Step, RotateFirst, Confirm, Exit, Ends,
         EnableReprintExporter, Preflight, RotateReprintSecret, ClearFilesSyncIndex,
         DownloadEssentialSiteFiles, RefreshFlattenedSiteDirectory, DownloadRemoteDatabase,
         EnsurePort, ApplyDownloadedDatabase, GenerateRuntimeConfiguration, DownloadSkippedFiles,
         Rejected, FindExistingSite, RegisterSite, RecordRegistered, ReadEntry, StartSite, Stage,
         Kill, Decline, AbortPull, DeleteSite, ExpireSecret, ExporterTimesOut, CreateOther
<1>3. exporterOn' \in BOOLEAN BY <1>1, Zenon DEF ExporterOK
<1>4. resolved' \subseteq Pulls BY <1>2 DEF ExporterOK
<1>. QED BY <1>3, <1>4 DEF ExporterOK

(* So does one that completes a stage.                                       *)
LEMMA RecordOK ==
  ASSUME ProcessOK, NEW p \in Pulls, Reads(p), NEW stage \in Initialized..Completed,
         RecordCompletedStage(p, stage), NEW step \in Steps, Goes(p, step)
  PROVE  ProcessOK'
  BY MemoryIsSession, SaveOK DEF RecordCompletedStage

(* A step of a process keeps the types.                                      *)
LEMMA StepTypes == ASSUME ProcessOK, WorldOK, NEW p \in Pulls, Step(p)
                   PROVE  ProcessOK' /\ WorldOK'
<1>1. CASE RotateFirst(p)
  <2>1. ProcessOK' BY <1>1, GetsOK DEF RotateFirst
  <2>. QED BY <1>1, <2>1 DEF RotateFirst, WorldOK
<1>2. CASE Confirm(p)
  <2>1. ProcessOK' BY <1>2, GoesOK DEF Confirm, store, At, Reads, Steps, ProcessOK
  <2>. QED BY <1>2, <2>1 DEF Confirm, store, WorldOK
<1>3. CASE Exit(p)
  <2>1. ProcessOK' BY <1>3, EndsOK DEF Exit, Ends, Goes, store, ProcessOK
  <2>. QED BY <1>3, <2>1 DEF Exit, store, WorldOK
<1>4. CASE Preflight(p)
  <2>0. Reads(p) BY <1>4 DEF Preflight, Reads
  <2>1. CASE disk.preflight \/ Accepted(p)
    <3>1. ProcessOK'
      BY <1>4, <2>0, <2>1, MemoryIsSession, NextStepOK, SaveOK DEF Preflight
    <3>2. disk' \in DiskType
      <4>1. disk' = [disk EXCEPT !.preflight = TRUE] BY <1>4, <2>1 DEF Preflight
      <4>. QED BY <4>1, Zenon DEF WorldOK, DiskType
    <3>. QED BY <1>4, <3>1, <3>2 DEF Preflight, WorldOK
  <2>2. CASE ~(disk.preflight \/ Accepted(p))
    <3>1. ProcessOK' BY <1>4, <2>0, <2>2, GoesOK DEF Preflight, Steps, ProcessOK
    <3>. QED BY <1>4, <2>2, <3>1 DEF Preflight, WorldOK
  <2>. QED BY <2>1, <2>2
<1>5. CASE RotateReprintSecret(p)
  <2>1. ProcessOK' BY <1>5, GoesOK DEF RotateReprintSecret, store, At, Reads, Steps
  <2>. QED BY <1>5, <2>1 DEF RotateReprintSecret, store, WorldOK
<1>5a. CASE EnableReprintExporter(p)
  <2>1. ProcessOK' BY <1>5a, GoesOK DEF EnableReprintExporter, store, At, Reads, Steps, ProcessOK
  <2>. QED BY <1>5a, <2>1 DEF EnableReprintExporter, store, WorldOK
<1>6. CASE ClearFilesSyncIndex(p)
  <2>1. disk' = [disk EXCEPT !.files = "none"] BY <1>6 DEF ClearFilesSyncIndex
  <2>2. disk' \in DiskType BY <2>1 DEF WorldOK, DiskType
  <2>. QED BY <1>6, <2>2 DEF ClearFilesSyncIndex, WorldOK, ProcessOK, Reads
<1>7. ASSUME NEW step \in Steps \ {"off", "rotate"}, NEW stage \in Initialized..Completed,
             NEW next \in Steps, Stage(p, step, stage, next)
      PROVE  ProcessOK' /\ WorldOK'
  <2>1. Reads(p) BY <1>7 DEF Stage, At, Reads
  <2>2. Output(p) /\ Save(p, [mem[p] EXCEPT !.stage = stage]) /\ Goes(p, next)
        /\ UNCHANGED <<sites, others, faults, disturbed>>
    BY <1>7 DEF Stage, RecordCompletedStage
  <2>3. ProcessOK' BY <2>1, <2>2, MemoryIsSession, SaveOK
  <2>. QED BY <2>1, <2>2, <2>3, OutputOK DEF WorldOK
<1>8. CASE \/ DownloadEssentialSiteFiles(p) \/ RefreshFlattenedSiteDirectory(p)
           \/ DownloadRemoteDatabase(p) \/ ApplyDownloadedDatabase(p)
           \/ GenerateRuntimeConfiguration(p) \/ DownloadSkippedFiles(p)
  BY <1>7, <1>8 DEF DownloadEssentialSiteFiles, RefreshFlattenedSiteDirectory,
         DownloadRemoteDatabase, ApplyDownloadedDatabase, GenerateRuntimeConfiguration,
         DownloadSkippedFiles, Steps
<1>9. CASE Rejected(p)
  <2>1. ProcessOK' BY <1>9, GoesOK DEF Rejected, store, At, Reads, Steps, ProcessOK
  <2>. QED BY <1>9, <2>1 DEF Rejected, store, WorldOK
<1>10. CASE EnsurePort(p)
  <2>0. Reads(p) BY <1>10 DEF EnsurePort, At, Reads
  <2>1. Goes(p, NextStep(mem[p].stage)) /\ NextStep(mem[p].stage) \in Steps
    BY <1>10, <2>0, MemoryIsSession, NextStepOK DEF EnsurePort
  <2>2. ProcessOK'
    <3>1. CASE UNCHANGED <<meta, mem, holds>> BY <2>0, <2>1, <3>1, GoesOK DEF ProcessOK
    <3>2. ASSUME NEW q \in Ports, Save(p, [mem[p] EXCEPT !.port = q]) PROVE ProcessOK'
      <4>1. q \in 0..MaxPort BY PullsAssumption DEF Ports
      <4>. QED BY <2>0, <2>1, <3>2, <4>1, MemoryIsSession, SaveOK
    <3>. QED BY <1>10, <3>1, <3>2 DEF EnsurePort
  <2>. QED BY <1>10, <2>2 DEF EnsurePort, WorldOK
<1>11. CASE FindExistingSite(p)
  <2>0. Reads(p) BY <1>11 DEF FindExistingSite, At, Reads
  <2>1. ProcessOK'
    <3>1. CASE sites # {}
      <4>1. RecordCompletedStage(p, SiteRegistered) /\ Goes(p, "entry")
        BY <1>11, <3>1 DEF FindExistingSite
      <4>2. SiteRegistered \in Initialized..Completed /\ "entry" \in Steps BY DEF Steps
      <4>. QED BY <2>0, <4>1, <4>2, RecordOK
    <3>2. CASE sites = {}
      <4>1. Goes(p, "lock") /\ UNCHANGED <<meta, mem, holds>>
        BY <1>11, <3>2 DEF FindExistingSite
      <4>2. "lock" \in Steps BY DEF Steps
      <4>. QED BY <2>0, <4>1, <4>2, GoesOK DEF ProcessOK
    <3>. QED BY <3>1, <3>2
  <2>. QED BY <1>11, <2>1 DEF FindExistingSite, WorldOK
<1>12. CASE RegisterSite(p)
  <2>0. Reads(p) BY <1>12 DEF RegisterSite, At, Reads
  <2>1. CASE /\ sites' = {[folder |-> mem[p].folder, port |-> mem[p].port]}
             /\ Goes(p, "registered")
             /\ UNCHANGED <<meta, mem, holds>>
    <3>0. "registered" \in Steps BY DEF Steps
    <3>1. ProcessOK' BY <2>0, <2>1, <3>0, GoesOK DEF ProcessOK
    <3>2. sites' \subseteq [folder : Folders, port : 0..MaxPort] 
      <4>1. mem[p].folder \in Folders /\ mem[p].port \in 0..MaxPort BY <2>0, MemoryIsSession
      <4>. QED BY <2>1, <4>1
    <3>. QED BY <1>12, <3>1, <3>2 DEF RegisterSite, WorldOK
  <2>2. ASSUME NEW e \in sites, Goes(p, "entry"), UNCHANGED sites,
               Save(p, [mem[p] EXCEPT !.port = e.port, !.stage = SiteRegistered])
        PROVE ProcessOK' /\ WorldOK'
    <3>1. e.port \in 0..MaxPort BY DEF WorldOK
    <3>2. [mem[p] EXCEPT !.port = e.port, !.stage = SiteRegistered] \in Sessions
      <4>1. [mem[p] EXCEPT !.port = e.port] \in Sessions
        BY <2>0, <3>1, MemoryIsSession
      <4>2. \A m \in Sessions : [m EXCEPT !.stage = SiteRegistered] \in Sessions BY DEF Sessions
      <4>3. [mem[p] EXCEPT !.port = e.port, !.stage = SiteRegistered]
              = [[mem[p] EXCEPT !.port = e.port] EXCEPT !.stage = SiteRegistered]
        BY Zenon
      <4>. QED BY <4>1, <4>2, <4>3
    <3>2a. "entry" \in Steps BY DEF Steps
    <3>3. ProcessOK' BY <2>0, <2>2, <3>2, <3>2a, SaveOK
    <3>. QED BY <1>12, <2>2, <3>3 DEF RegisterSite, WorldOK
  <2>. QED BY <1>12, <2>1, <2>2 DEF RegisterSite
<1>13. CASE RecordRegistered(p)
  <2>0. Reads(p) BY <1>13 DEF RecordRegistered, At, Reads
  <2>1. ProcessOK'
    <3>1. RecordCompletedStage(p, SiteRegistered) /\ Goes(p, "entry")
      BY <1>13 DEF RecordRegistered
    <3>2. SiteRegistered \in Initialized..Completed /\ "entry" \in Steps BY DEF Steps
    <3>. QED BY <2>0, <3>1, <3>2, RecordOK
  <2>. QED BY <1>13, <2>1 DEF RecordRegistered, WorldOK
<1>14. CASE ReadEntry(p)
  <2>0. Reads(p) BY <1>14 DEF ReadEntry, At, Reads
  <2>1. \E step \in Steps : Goes(p, step) BY <1>14 DEF ReadEntry, Steps
  <2>2. ProcessOK' BY <1>14, <2>0, <2>1, GoesOK DEF ReadEntry, store, ProcessOK
  <2>. QED BY <1>14, <2>2 DEF ReadEntry, store, WorldOK
<1>15. CASE StartSite(p)
  <2>0. Reads(p) BY <1>15 DEF StartSite, At, Reads
  <2>1. ProcessOK'
    <3>1. CASE RecordCompletedStage(p, SiteStarted) /\ Goes(p, "rest")
      <4>1. RecordCompletedStage(p, SiteStarted) /\ Goes(p, "rest")
        BY <3>1
      <4>2. SiteStarted \in Initialized..Completed /\ "rest" \in Steps BY DEF Steps
      <4>. QED BY <2>0, <4>1, <4>2, RecordOK
    <3>2. CASE Goes(p, "exit") /\ UNCHANGED <<meta, mem, holds>>
      <4>1. Goes(p, "exit") /\ UNCHANGED <<meta, mem, holds>>
        BY <3>2
      <4>2. "exit" \in Steps BY DEF Steps
      <4>. QED BY <2>0, <4>1, <4>2, GoesOK DEF ProcessOK
    <3>. QED BY <1>15, <3>1, <3>2 DEF StartSite
  <2>. QED BY <1>15, <2>1 DEF StartSite, WorldOK
<1>. QED
  BY <1>1, <1>2, <1>3, <1>4, <1>5, <1>5a, <1>6, <1>8, <1>9, <1>10, <1>11, <1>12, <1>13, <1>14,
     <1>15 DEF Step

(* What interrupts a run, and what others do, keeps them too.                *)
LEMMA FaultTypes == ASSUME ProcessOK, WorldOK, Fault \/ CreateOther
                    PROVE  ProcessOK' /\ WorldOK'
<1>0. EmptyDirectory \in DiskType BY PullsAssumption DEF EmptyDirectory, DiskType
<1>1. ASSUME NEW p \in Pulls, Kill(p) PROVE ProcessOK' /\ WorldOK'
  <2>1. /\ at[p] \notin {"off", "exit"} /\ faults < MaxFaults
        /\ at' = [at EXCEPT ![p] = "off"] /\ mem' = [mem EXCEPT ![p] = None]
        /\ faults' = faults + 1 /\ UNCHANGED <<meta, sites, others, disturbed>>
    BY <1>1 DEF Kill
  <2>2. holds' \subseteq Pulls \union {File} BY <1>1 DEF Kill, ProcessOK
  <2>3. ProcessOK' BY <2>1, <2>2, EndsOK DEF ProcessOK
  <2>4. faults' \in 0..MaxFaults BY <2>1, PullsAssumption DEF WorldOK
  <2>5. disk' \in DiskType /\ folder' \in [Folders -> {"empty", "part", "site"}]
    <3>1. CASE Output(p) \/ PartOfOutput(p)
      <4>1. Reads(p) BY <3>1 DEF Reads, Output, PartOfOutput, At
      <4>. QED BY <3>1, <4>1, OutputOK
    <3>2. CASE UNCHANGED <<disk, folder>> BY <3>2 DEF WorldOK
    <3>3. CASE disk' = [disk EXCEPT !.preflight = TRUE] /\ UNCHANGED folder
      <4>1. disk' \in DiskType BY <3>3, Zenon DEF WorldOK, DiskType
      <4>. QED BY <3>3, <4>1 DEF WorldOK
    <3>. QED BY <1>1, <3>1, <3>2, <3>3 DEF Kill
  <2>. QED BY <2>1, <2>3, <2>4, <2>5 DEF WorldOK
<1>2. ASSUME NEW p \in Pulls, Decline(p) PROVE ProcessOK' /\ WorldOK'
  <2>1. ProcessOK' BY <1>2, EndsOK DEF Decline, ProcessOK
  <2>2. faults' \in 0..MaxFaults BY <1>2, PullsAssumption DEF WorldOK, Decline
  <2>. QED BY <1>0, <1>2, <2>1, <2>2 DEF Decline, WorldOK
<1>3. CASE AbortPull
  <2>1. ProcessOK' BY <1>3 DEF AbortPull, ProcessOK, Reads
  <2>2. faults' \in 0..MaxFaults BY <1>3, PullsAssumption DEF WorldOK, AbortPull
  <2>. QED BY <1>0, <1>3, <2>1, <2>2 DEF AbortPull, WorldOK
<1>4. ASSUME NEW e \in sites, DeleteSite(e) PROVE ProcessOK' /\ WorldOK'
  <2>1. ProcessOK' BY <1>4 DEF DeleteSite, ProcessOK, Reads, store
  <2>2. faults' \in 0..MaxFaults BY <1>4, PullsAssumption DEF WorldOK, DeleteSite
  <2>3. disk' \in DiskType /\ folder' \in [Folders -> {"empty", "part", "site"}]
    BY <1>0, <1>4 DEF DeleteSite, WorldOK, store
  <2>4. sites' \subseteq sites /\ others' = others BY <1>4 DEF DeleteSite
  <2>. QED BY <2>1, <2>2, <2>3, <2>4 DEF WorldOK
<1>5. CASE ExpireSecret
  <2>1. ProcessOK' BY <1>5 DEF ExpireSecret, ProcessOK, Reads, store
  <2>2. faults' \in 0..MaxFaults BY <1>5, PullsAssumption DEF WorldOK, ExpireSecret
  <2>. QED BY <1>5, <2>1, <2>2 DEF ExpireSecret, WorldOK, store
<1>6. CASE CreateOther
  BY <1>6 DEF CreateOther, ProcessOK, WorldOK, Reads, store
<1>7. CASE ExporterTimesOut
  <2>1. ProcessOK' BY <1>7 DEF ExporterTimesOut, ProcessOK, Reads, store
  <2>2. faults' \in 0..MaxFaults BY <1>7, PullsAssumption DEF WorldOK, ExporterTimesOut
  <2>. QED BY <1>7, <2>1, <2>2 DEF ExporterTimesOut, WorldOK, store
<1>. QED BY <1>1, <1>2, <1>3, <1>4, <1>5, <1>6, <1>7 DEF Fault

(* So does the beginning of a run.                                           *)
LEMMA BeginTypes == ASSUME ProcessOK, WorldOK, NEW p \in Pulls, Begin(p)
                    PROVE  ProcessOK' /\ WorldOK'
<1>1. WorldOK' BY DEF Begin, WorldOK
<1>2. ASSUME NEW h \in SUBSET (Pulls \union {File}), GetPullSessionMetadata(p, h) PROVE ProcessOK'
  BY <1>2, GetsOK
<1>3. CASE Goes(p, "rotate") /\ UNCHANGED <<meta, mem, holds>>
  <2>1. at' = [at EXCEPT ![p] = "rotate"] /\ "rotate" \in Steps BY <1>3 DEF Goes, Steps
  <2>2. at' \in [Pulls -> Steps] /\ at'[p] = "rotate" /\ \A q \in Pulls \ {p} : at'[q] = at[q]
    BY <2>1 DEF ProcessOK
  <2>3. meta' = meta /\ mem' = mem /\ holds' = holds BY <1>3
  <2>4. \A q \in Pulls : at'[q] \notin {"off", "rotate"} => q # p /\ at'[q] = at[q] BY <2>2
  <2>5. \A q \in Pulls : at'[q] \notin {"off", "rotate"} => mem'[q] # None
    BY <2>3, <2>4 DEF ProcessOK, Reads
  <2>6. (\A q \in Pulls : Reads(q) => mem[q] # None)' BY <2>5 DEF Reads
  <2>. QED BY <1>1, <2>2, <2>3, <2>6 DEF ProcessOK
<1>4. holds \union {p} \in SUBSET (Pulls \union {File}) /\ holds \in SUBSET (Pulls \union {File})
  BY DEF ProcessOK
<1>. QED BY <1>1, <1>2, <1>3, <1>4 DEF Begin

(* TypeOK is inductive.                                                      *)
LEMMA TypeStep == TypeOK /\ [Next]_vars => TypeOK'
<1> SUFFICES ASSUME TypeOK, [Next]_vars PROVE TypeOK'
  OBVIOUS
<1>1. ProcessOK /\ WorldOK /\ ExporterOK /\ disturbed \in BOOLEAN BY TypeParts
<1>2. disturbed' \in BOOLEAN /\ ExporterOK' BY <1>1, DisturbedStep, ExporterStep
<1>3. ProcessOK' /\ WorldOK'
  <2>1. CASE Next BY <1>1, <2>1, StepTypes, FaultTypes, BeginTypes DEF Next
  <2>2. CASE UNCHANGED vars BY <1>1, <2>2 DEF vars, store, ProcessOK, WorldOK, Reads
  <2>. QED BY <2>1, <2>2
<1>4. (ProcessOK /\ WorldOK /\ ExporterOK /\ disturbed \in BOOLEAN)' => TypeOK'
  BY DEF TypeOK, ProcessOK, WorldOK, ExporterOK, DiskType, Reads
<1>. QED BY <1>2, <1>3, <1>4

(* The variables of PullReprint have the values that TypeOK gives them, for  *)
(* any number of processes, ports, folders and faults.                       *)
THEOREM TypeCorrect == Spec => []TypeOK
<1>1. Init => TypeOK BY InitInv DEF IInv
<1>. QED BY <1>1, TypeStep, PTL DEF Spec

-----------------------------------------------------------------------------
(* One entry *)

(* A step adds an entry only when there is none.                             *)
LEMMA OneEntryStep == OneEntry /\ [Next]_vars => OneEntry'
<1> SUFFICES ASSUME OneEntry, [Next]_vars PROVE OneEntry'
  OBVIOUS
<1>1. \/ sites' \subseteq sites
      \/ \E p \in Pulls : sites' = {[folder |-> mem[p].folder, port |-> mem[p].port]}
  BY DEF Next, vars, Fault, Begin, Step, RotateFirst, Confirm, Exit, EnableReprintExporter,
         Preflight, RotateReprintSecret,
         ClearFilesSyncIndex, DownloadEssentialSiteFiles, RefreshFlattenedSiteDirectory,
         DownloadRemoteDatabase, EnsurePort, ApplyDownloadedDatabase, GenerateRuntimeConfiguration,
         DownloadSkippedFiles, Rejected, FindExistingSite, RegisterSite, RecordRegistered,
         ReadEntry,
         StartSite, Stage, Kill, Decline, AbortPull, DeleteSite, ExpireSecret, ExporterTimesOut,
         CreateOther
<1>. QED BY <1>1 DEF OneEntry

-----------------------------------------------------------------------------
(* Calm *)

(* The other processes are off, and stay it, when p goes to another step.    *)
LEMMA Alone ==
  ASSUME ProcessOK, OneRuns, NEW p \in Pulls, at[p] # "off", NEW step, at' = [at EXCEPT ![p] = step]
  PROVE  at'[p] = step /\ OneRuns' /\ \A q \in Pulls \ {p} : at[q] = "off" /\ at'[q] = "off"
  BY DEF ProcessOK, OneRuns

(* When p has ended, no process runs.                                        *)
LEMMA EndsCalmly ==
  ASSUME ProcessOK, OneRuns, NEW p \in Pulls, at[p] # "off", at' = [at EXCEPT ![p] = "off"]
  PROVE  OneRuns' /\ MemoryFits'
  BY Alone DEF MemoryFits, Reads

(* When p goes to a step that fits pull.json, with pull.json in memory.      *)
LEMMA GoesCalmly ==
  ASSUME ProcessOK, OneRuns, NEW p \in Pulls, at[p] # "off", NEW step, Goes(p, step),
         step \notin {"off", "rotate"} => meta' # None /\ mem'[p] = meta' /\ Fits(step, meta'.stage, meta'.port)
  PROVE  OneRuns' /\ MemoryFits'
<1>1. at'[p] = step /\ OneRuns' /\ \A q \in Pulls \ {p} : at'[q] = "off"
  BY Alone DEF Goes
<1>. QED BY <1>1 DEF MemoryFits, Reads

(* Nothing that is not the process has changed.                              *)
LEMMA RestIsCalm ==
  ASSUME Calm, UNCHANGED <<disk, folder, sites>>, meta \in Sessions \union {None},
         meta # None => meta' \in Sessions /\ meta'.stage = meta.stage /\ meta'.port = meta.port
                        /\ meta'.folder = meta.folder,
         meta = None => meta' = None
  PROVE  EntryIsLate' /\ Backed' /\ Matched'
<1>1. meta' # None => meta # None OBVIOUS
<1>2. meta # None => meta' # None BY SessionIsNotNone
<1>3. EntryIsLate' BY <1>1, <1>2 DEF Calm, EntryIsLate
<1>4. Backed' BY <1>1, <1>2 DEF Calm, Backed
<1>5. Matched' BY <1>1, <1>2 DEF Calm, Matched
<1>. QED BY <1>3, <1>4, <1>5

(* What p knows when nobody interferes.                                      *)
LEMMA CalmProcess ==
  ASSUME ProcessOK, Calm, NEW p \in Pulls, Reads(p)
  PROVE  /\ mem[p] = meta /\ meta \in Sessions /\ meta # None
         /\ meta.stage \in Initialized..Completed /\ meta.port \in 0..MaxPort
         /\ meta.folder \in Folders
         /\ Fits(at[p], meta.stage, meta.port)
<1>1. mem[p] = meta /\ meta # None /\ Fits(at[p], meta.stage, meta.port)
  BY DEF Calm, MemoryFits
<1>. QED BY <1>1, MemoryIsSession

(* Of a pull that has no runtime yet, there is no entry.                     *)
LEMMA NoEntryYet == ASSUME Calm, meta = None \/ meta.stage < RuntimeGenerated, meta \in Sessions \union {None}
                    PROVE  sites = {}
  BY DEF Calm, EntryIsLate, Sessions

(* The step after a stage fits it.                                           *)
LEMMA NextFits ==
  ASSUME NEW stage \in Initialized..Completed, stage < Completed, NEW port
  PROVE  /\ Fits(ResumeAt(stage), stage, port)
         /\ stage >= DbDownloaded /\ port # 0 => Fits(NextStep(stage), stage, port)
  BY DEF Fits, ResumeAt, NextStep

(* What Save does with a session in memory.                                  *)
LEMMA Saved ==
  ASSUME ProcessOK, NEW p \in Pulls, NEW m \in Sessions, Save(p, m)
  PROVE  meta' = m /\ mem'[p] = m /\ m # None
  BY SessionIsNotNone DEF Save, ProcessOK

(* A step of a process leaves it calm.                                       *)
LEMMA StepIsCalm == ASSUME ProcessOK, WorldOK, OneEntry, Calm, NEW p \in Pulls, Step(p)
                    PROVE  Calm'
<1> USE DEF At
<1>0. OneRuns /\ meta \in Sessions \union {None} BY DEF Calm, ProcessOK
<1>r. ASSUME at[p] # "off", NEW step, Goes(p, step), UNCHANGED <<meta, disk, folder, sites>>,
             step \notin {"off", "rotate"} =>
               meta # None /\ mem'[p] = meta /\ Fits(step, meta.stage, meta.port)
      PROVE  Calm'
  <2>1. OneRuns' /\ MemoryFits' BY <1>0, <1>r, GoesCalmly
  <2>2. EntryIsLate' /\ Backed' /\ Matched'
    BY <1>r DEF Calm, EntryIsLate, Backed, Matched
  <2>. QED BY <2>1, <2>2 DEF Calm
<1>1. CASE RotateFirst(p)
  <2>1. CASE ResumeSession(p)
    <3>1. meta \in Sessions /\ meta # None /\ mem'[p] = meta
          /\ UNCHANGED <<meta, disk, folder, sites>> /\ at[p] = "rotate"
      BY <1>0, <1>1, <2>1 DEF ResumeSession, RotateFirst, ProcessOK
    <3>2. meta.stage \in Initialized..Completed BY <3>1 DEF Sessions
    <3>3. CASE Goes(p, "exit") BY <1>r, <3>1, <3>3 DEF Fits
    <3>4. CASE Goes(p, "enable") /\ meta.stage # Completed
      <4>1. Fits("enable", meta.stage, meta.port) BY <3>2, <3>4 DEF Fits
      <4>. QED BY <1>r, <3>1, <3>4, <4>1
    <3>. QED BY <2>1, <3>3, <3>4 DEF ResumeSession
  <2>2. CASE CreateSession(p)
    <3>1. PICK f \in Folders, step \in {"confirm", "enable"} :
            /\ meta' = [stage |-> Initialized, folder |-> f, port |-> 0, secret |-> FALSE]
            /\ mem' = [mem EXCEPT ![p] = [stage |-> Initialized, folder |-> f, port |-> 0, secret |-> FALSE]]
            /\ Goes(p, step)
      BY <2>2 DEF CreateSession
    <3>2. meta' \in Sessions BY <3>1, PullsAssumption DEF Sessions
    <3>3. meta' # None /\ mem'[p] = meta' /\ meta'.stage = Initialized
      BY <3>1, <3>2, SessionIsNotNone DEF ProcessOK
    <3>4. Fits(step, meta'.stage, meta'.port) BY <3>3 DEF Fits
    <3>5. OneRuns' /\ MemoryFits' BY <1>0, <1>1, <3>1, <3>3, <3>4, GoesCalmly DEF RotateFirst
    <3>6. sites' = {} BY <1>0, <1>1, <2>2, NoEntryYet DEF CreateSession, RotateFirst
    <3>7. EntryIsLate' /\ Backed' /\ Matched' BY <3>3, <3>6 DEF EntryIsLate, Backed, Matched
    <3>. QED BY <3>5, <3>7 DEF Calm
  <2>. QED BY <1>1, <2>1, <2>2 DEF RotateFirst, GetPullSessionMetadata
<1>2. CASE Confirm(p)
  <2>0. Reads(p) BY <1>2 DEF Confirm, Reads
  <2>1. Fits("enable", meta.stage, meta.port) BY <1>2, <2>0, CalmProcess DEF Confirm, Fits
  <2>. QED BY <1>2, <1>r, <2>0, <2>1, CalmProcess DEF Confirm, store
<1>3. CASE Exit(p)
  BY <1>3, <1>r DEF Exit, Ends, store
<1>4. CASE Preflight(p)
  <2>0. Reads(p) /\ at[p] \in {"preflight", "again"} BY <1>4 DEF Preflight, Reads
  <2>1. /\ mem[p] = meta /\ meta \in Sessions /\ meta # None /\ meta.stage \in Initialized..Completed
        /\ meta.stage < Completed
    BY <2>0, CalmProcess DEF Fits
  <2>2. CASE disk.preflight \/ Accepted(p)
    <3>1. /\ disk' = [disk EXCEPT !.preflight = TRUE] /\ UNCHANGED <<folder, sites>>
          /\ Save(p, [meta EXCEPT !.secret = TRUE]) /\ Goes(p, ResumeAt(meta.stage))
      BY <1>4, <2>1, <2>2 DEF Preflight
    <3>2. [meta EXCEPT !.secret = TRUE] \in Sessions BY <2>0, <2>1, MemoryIsSession
    <3>3. meta' = [meta EXCEPT !.secret = TRUE] /\ mem'[p] = meta' /\ meta' # None
      BY <3>1, <3>2, Saved
    <3>4. meta'.stage = meta.stage /\ meta'.port = meta.port /\ meta'.folder = meta.folder
      BY <2>1, <3>3 DEF Sessions
    <3>5. Fits(ResumeAt(meta.stage), meta'.stage, meta'.port) BY <2>1, <3>4, NextFits
    <3>6. OneRuns' /\ MemoryFits' BY <1>0, <2>0, <3>1, <3>3, <3>5, GoesCalmly
    <3>7. /\ disk'.files = disk.files /\ disk'.dump = disk.dump /\ disk'.db = disk.db
          /\ disk'.runtime = disk.runtime /\ disk'.rest = disk.rest
      BY <3>1 DEF WorldOK, DiskType
    <3>8. EntryIsLate' /\ Backed' /\ Matched'
      BY <2>1, <3>1, <3>3, <3>4, <3>7 DEF Calm, EntryIsLate, Backed, Matched
    <3>. QED BY <3>6, <3>8 DEF Calm
  <2>3. CASE ~(disk.preflight \/ Accepted(p))
    <3>1. UNCHANGED <<meta, disk, mem, folder, sites>> /\ \E step \in {"renew", "exit"} : Goes(p, step)
      BY <1>4, <2>3 DEF Preflight
    <3>2. \A step \in {"renew", "exit"} : Fits(step, meta.stage, meta.port) BY <2>1 DEF Fits
    <3>. QED BY <1>r, <2>0, <2>1, <3>1, <3>2
  <2>. QED BY <2>2, <2>3
<1>5. CASE RotateReprintSecret(p)
  <2>0. Reads(p) BY <1>5 DEF RotateReprintSecret, Reads
  <2>1. Fits("again", meta.stage, meta.port)
    BY <1>5, <2>0, CalmProcess DEF RotateReprintSecret, Fits
  <2>. QED BY <1>5, <1>r, <2>0, <2>1, CalmProcess DEF RotateReprintSecret, store
<1>5a. CASE EnableReprintExporter(p)
  <2>0. Reads(p) BY <1>5a DEF EnableReprintExporter, Reads
  <2>1. Fits("preflight", meta.stage, meta.port)
    BY <1>5a, <2>0, CalmProcess DEF EnableReprintExporter, Fits
  <2>. QED BY <1>5a, <1>r, <2>0, <2>1, CalmProcess DEF EnableReprintExporter, store
<1>6. CASE ClearFilesSyncIndex(p)
  <2>0. Reads(p) BY <1>6 DEF ClearFilesSyncIndex, Reads
  <2>1. meta.stage = Initialized BY <1>6, <2>0, CalmProcess DEF ClearFilesSyncIndex, Fits
  <2>2. sites' = {} /\ UNCHANGED <<meta, mem, at>>
    BY <1>0, <1>6, <2>1, NoEntryYet DEF ClearFilesSyncIndex
  <2>. QED BY <2>1, <2>2 DEF Calm, OneRuns, MemoryFits, EntryIsLate, Backed, Matched, Reads
<1>s. ASSUME NEW stage \in Initialized..Completed, RecordCompletedStage(p, stage), Reads(p)
      PROVE  /\ meta' \in Sessions /\ mem'[p] = meta' /\ meta' # None /\ meta'.stage = stage
             /\ meta'.port = meta.port /\ meta'.folder = meta.folder
  <2>1. mem[p] = meta /\ meta \in Sessions /\ [meta EXCEPT !.stage = stage] \in Sessions
    BY <1>s, CalmProcess, MemoryIsSession
  <2>2. Save(p, [meta EXCEPT !.stage = stage]) BY <1>s, <2>1 DEF RecordCompletedStage
  <2>3. meta' = [meta EXCEPT !.stage = stage] /\ mem'[p] = meta' /\ meta' # None
    BY <2>1, <2>2, Saved
  <2>. QED BY <2>1, <2>3 DEF Sessions
<1>t. ASSUME Reads(p), NEW step, NEW stage \in Initialized..Completed, NEW next,
             Stage(p, step, stage, next), Fits(next, stage, meta.port)
      PROVE  /\ OneRuns' /\ MemoryFits' /\ meta' # None /\ meta'.stage = stage
             /\ meta'.port = meta.port /\ meta'.folder = meta.folder
             /\ sites' = sites /\ Output(p) /\ mem[p] = meta
  <2>1. RecordCompletedStage(p, stage) /\ Goes(p, next) /\ sites' = sites /\ Output(p)
    BY <1>t DEF Stage
  <2>2. /\ mem'[p] = meta' /\ meta' # None /\ meta'.stage = stage
        /\ meta'.port = meta.port /\ meta'.folder = meta.folder
    BY <1>s, <1>t, <2>1
  <2>3. OneRuns' /\ MemoryFits' BY <1>0, <1>t, <2>1, <2>2, GoesCalmly DEF Reads
  <2>. QED BY <1>t, <2>1, <2>2, <2>3, CalmProcess
<1>d. disk \in DiskType /\ folder \in [Folders -> {"empty", "part", "site"}] BY DEF WorldOK
<1>7. CASE DownloadEssentialSiteFiles(p)
  <2>0. Reads(p) /\ at[p] = "files" /\ Stage(p, "files", EssentialFiles, "flatten")
    BY <1>7 DEF DownloadEssentialSiteFiles, Stage, Reads
  <2>1. meta.stage = Initialized BY <2>0, CalmProcess DEF Fits
  <2>2. Fits("flatten", EssentialFiles, meta.port) BY DEF Fits
  <2>3. /\ OneRuns' /\ MemoryFits' /\ meta' # None /\ meta'.stage = EssentialFiles
        /\ sites' = sites /\ Output(p)
    BY <1>t, <2>0, <2>2
  <2>4. sites' = {} BY <1>0, <2>1, <2>3, NoEntryYet
  <2>5. PICK skipped \in BOOLEAN : disk' = [disk EXCEPT !.files = "synced", !.rest = skipped]
    BY <2>0, <2>3 DEF Output
  <2>6. disk'.files = "synced" BY <1>d, <2>5 DEF DiskType
  <2>. QED BY <2>3, <2>4, <2>6 DEF Calm, EntryIsLate, Backed, Matched
<1>8. CASE RefreshFlattenedSiteDirectory(p)
  <2>0. Reads(p) /\ at[p] = "flatten" /\ Stage(p, "flatten", Flattened, "dump")
    BY <1>8 DEF RefreshFlattenedSiteDirectory, Stage, Reads
  <2>1. meta.stage = EssentialFiles /\ meta # None /\ meta.folder \in Folders
    BY <2>0, CalmProcess DEF Fits
  <2>2. Fits("dump", Flattened, meta.port) BY DEF Fits
  <2>3. /\ OneRuns' /\ MemoryFits' /\ meta' # None /\ meta'.stage = Flattened
        /\ meta'.folder = meta.folder /\ sites' = sites /\ Output(p) /\ mem[p] = meta
    BY <1>t, <2>0, <2>2
  <2>4. sites' = {} BY <1>0, <2>1, <2>3, NoEntryYet
  <2>5. folder' = [folder EXCEPT ![meta.folder] = "site"] /\ disk' = disk
    BY <2>0, <2>3 DEF Output
  <2>6. folder'[meta'.folder] = "site" BY <1>d, <2>1, <2>3, <2>5
  <2>7. disk'.files = "synced" BY <2>1, <2>5 DEF Calm, Backed
  <2>. QED BY <2>3, <2>4, <2>6, <2>7 DEF Calm, EntryIsLate, Backed, Matched
<1>9. CASE DownloadRemoteDatabase(p)
  <2>0. Reads(p) /\ at[p] = "dump" /\ Stage(p, "dump", DbDownloaded, "port")
    BY <1>9 DEF DownloadRemoteDatabase, Stage, Reads
  <2>1. meta.stage = Flattened /\ meta # None BY <2>0, CalmProcess DEF Fits
  <2>2. Fits("port", DbDownloaded, meta.port) BY DEF Fits
  <2>3. /\ OneRuns' /\ MemoryFits' /\ meta' # None /\ meta'.stage = DbDownloaded
        /\ meta'.folder = meta.folder /\ sites' = sites /\ Output(p)
    BY <1>t, <2>0, <2>2
  <2>4. sites' = {} BY <1>0, <2>1, <2>3, NoEntryYet
  <2>5. disk' = [disk EXCEPT !.dump = TRUE] /\ folder' = folder BY <2>0, <2>3 DEF Output
  <2>6. disk'.files = disk.files /\ disk'.dump = TRUE BY <1>d, <2>5 DEF DiskType
  <2>7. disk'.files = "synced" /\ folder'[meta'.folder] = "site"
    BY <2>1, <2>3, <2>5, <2>6 DEF Calm, Backed
  <2>8. disk'.dump BY <2>6
  <2>. QED BY <2>3, <2>4, <2>7, <2>8 DEF Calm, EntryIsLate, Backed, Matched
<1>10. CASE EnsurePort(p)
  <2>0. Reads(p) /\ at[p] = "port" BY <1>10 DEF EnsurePort, Reads
  <2>1. /\ mem[p] = meta /\ meta \in Sessions /\ meta # None /\ meta.stage \in Initialized..Completed
        /\ DbDownloaded <= meta.stage /\ meta.stage < Completed
    BY <2>0, CalmProcess DEF Fits
  <2>2. Goes(p, NextStep(meta.stage)) /\ UNCHANGED <<disk, folder, sites>>
    BY <1>10, <2>1 DEF EnsurePort
  <2>3. CASE meta.port # 0 /\ UNCHANGED <<meta, mem, holds>>
    <3>1. Fits(NextStep(meta.stage), meta.stage, meta.port) BY <2>1, <2>3, NextFits
    <3>. QED BY <1>r, <2>0, <2>1, <2>2, <2>3, <3>1
  <2>4. ASSUME meta.port = 0, NEW q \in Ports, Save(p, [meta EXCEPT !.port = q]) PROVE Calm'
    <3>1. meta.stage = DbDownloaded BY <2>1, <2>4 DEF Calm, Backed
    <3>2. q \in 0..MaxPort /\ q # 0 BY PullsAssumption DEF Ports
    <3>3. [meta EXCEPT !.port = q] \in Sessions BY <2>0, <2>1, <3>2, MemoryIsSession
    <3>4. meta' = [meta EXCEPT !.port = q] /\ mem'[p] = meta' /\ meta' # None BY <2>4, <3>3, Saved
    <3>5. meta'.stage = DbDownloaded /\ meta'.port = q /\ meta'.folder = meta.folder
      BY <2>1, <3>1, <3>4 DEF Sessions
    <3>6. Fits(NextStep(meta.stage), meta'.stage, meta'.port) BY <2>1, <3>1, <3>2, <3>5, NextFits
    <3>7. OneRuns' /\ MemoryFits' BY <1>0, <2>0, <2>2, <3>4, <3>6, GoesCalmly
    <3>8. sites' = {} BY <1>0, <2>2, <3>1, NoEntryYet
    <3>. QED BY <2>1, <2>2, <3>1, <3>4, <3>5, <3>7, <3>8 DEF Calm, EntryIsLate, Backed, Matched
  <2>. QED BY <1>10, <2>1, <2>3, <2>4 DEF EnsurePort
<1>11. CASE ApplyDownloadedDatabase(p)
  <2>0. Reads(p) /\ at[p] = "apply" /\ Stage(p, "apply", DbApplied, "runtime")
    BY <1>11 DEF ApplyDownloadedDatabase, Stage, Reads
  <2>1. meta.stage = DbDownloaded /\ meta # None /\ meta.port # 0 /\ meta.port \in 0..MaxPort
    BY <2>0, CalmProcess DEF Fits
  <2>2. Fits("runtime", DbApplied, meta.port) BY DEF Fits
  <2>3. /\ OneRuns' /\ MemoryFits' /\ meta' # None /\ meta'.stage = DbApplied /\ meta'.port = meta.port
        /\ meta'.folder = meta.folder /\ sites' = sites /\ Output(p) /\ mem[p] = meta
    BY <1>t, <2>0, <2>2
  <2>4. sites' = {} BY <1>0, <2>1, <2>3, NoEntryYet
  <2>5. disk' = [disk EXCEPT !.db = meta.port] /\ folder' = folder BY <2>0, <2>3 DEF Output
  <2>6. disk'.files = disk.files /\ disk'.dump = disk.dump /\ disk'.db = meta.port
    BY <1>d, <2>5 DEF DiskType
  <2>. QED BY <2>1, <2>3, <2>4, <2>5, <2>6 DEF Calm, EntryIsLate, Backed, Matched
<1>12. CASE GenerateRuntimeConfiguration(p)
  <2>0. Reads(p) /\ at[p] = "runtime" /\ Stage(p, "runtime", RuntimeGenerated, "register")
    BY <1>12 DEF GenerateRuntimeConfiguration, Stage, Reads
  <2>1. meta.stage = DbApplied /\ meta # None BY <2>0, CalmProcess DEF Fits
  <2>2. Fits("register", RuntimeGenerated, meta.port) BY DEF Fits
  <2>3. /\ OneRuns' /\ MemoryFits' /\ meta' # None /\ meta'.stage = RuntimeGenerated
        /\ meta'.port = meta.port /\ meta'.folder = meta.folder /\ sites' = sites /\ Output(p)
    BY <1>t, <2>0, <2>2
  <2>4. sites' = {} BY <1>0, <2>1, <2>3, NoEntryYet
  <2>5. disk' = [disk EXCEPT !.runtime = TRUE] /\ folder' = folder BY <2>0, <2>3 DEF Output
  <2>6. disk'.files = disk.files /\ disk'.dump = disk.dump /\ disk'.db = disk.db /\ disk'.runtime = TRUE
    BY <1>d, <2>5 DEF DiskType
  <2>7. disk'.runtime BY <2>6
  <2>. QED BY <2>1, <2>3, <2>4, <2>5, <2>6, <2>7 DEF Calm, EntryIsLate, Backed, Matched
<1>13. CASE DownloadSkippedFiles(p)
  <2>0. Reads(p) /\ at[p] = "rest" /\ Stage(p, "rest", Completed, "exit")
    BY <1>13 DEF DownloadSkippedFiles, Stage, Reads
  <2>1. meta.stage = SiteStarted /\ meta # None BY <2>0, CalmProcess DEF Fits
  <2>2. Fits("exit", Completed, meta.port) BY DEF Fits
  <2>3. /\ OneRuns' /\ MemoryFits' /\ meta' # None /\ meta'.stage = Completed
        /\ meta'.port = meta.port /\ meta'.folder = meta.folder /\ sites' = sites /\ Output(p)
    BY <1>t, <2>0, <2>2
  <2>4. disk' = [disk EXCEPT !.rest = FALSE] /\ folder' = folder BY <2>0, <2>3 DEF Output
  <2>5. /\ disk'.files = disk.files /\ disk'.dump = disk.dump /\ disk'.db = disk.db
        /\ disk'.runtime = disk.runtime /\ disk'.rest = FALSE
    BY <1>d, <2>4 DEF DiskType
  <2>6. ~disk'.rest BY <2>5
  <2>7. EntryIsLate' /\ Matched' BY <2>1, <2>3, <2>5 DEF Calm, EntryIsLate, Matched
  <2>8. Backed' BY <2>1, <2>3, <2>4, <2>5, <2>6 DEF Calm, Backed
  <2>. QED BY <2>3, <2>7, <2>8 DEF Calm
<1>14. CASE Rejected(p)
  <2>0. Reads(p) /\ Goes(p, "exit") /\ UNCHANGED <<meta, mem, disk, folder, sites>>
    BY <1>14 DEF Rejected, Reads, store
  <2>1. Fits("exit", meta.stage, meta.port) BY DEF Fits
  <2>. QED BY <1>r, <2>0, <2>1, CalmProcess DEF Reads
<1>u. ASSUME Reads(p), meta.stage >= RuntimeGenerated, meta.stage < SiteStarted,
             NEW stage \in {SiteRegistered, SiteStarted}, RecordCompletedStage(p, stage),
             NEW next, Goes(p, next), Fits(next, stage, meta.port), UNCHANGED <<disk, folder, sites>>
      PROVE  Calm'
  <2>1. stage \in Initialized..Completed /\ stage >= RuntimeGenerated /\ stage # Completed OBVIOUS
  <2>2. /\ meta' \in Sessions /\ mem'[p] = meta' /\ meta' # None /\ meta'.stage = stage
        /\ meta'.port = meta.port /\ meta'.folder = meta.folder
    BY <1>s, <1>u, <2>1
  <2>3. OneRuns' /\ MemoryFits' BY <1>0, <1>u, <2>2, GoesCalmly DEF Reads
  <2>4. meta # None /\ meta.stage \in Initialized..Completed BY <1>u, CalmProcess
  <2>5. EntryIsLate' /\ Matched' BY <1>u, <2>1, <2>2, <2>4 DEF Calm, EntryIsLate, Matched
  <2>6. Backed' BY <1>u, <2>1, <2>2, <2>4 DEF Calm, Backed
  <2>. QED BY <2>3, <2>5, <2>6 DEF Calm
<1>15. CASE FindExistingSite(p)
  <2>0. Reads(p) /\ at[p] = "register" BY <1>15 DEF FindExistingSite, Reads
  <2>1. meta.stage = RuntimeGenerated /\ mem[p] = meta /\ meta # None
    BY <2>0, CalmProcess DEF Fits
  <2>2. CASE sites # {}
    <3>1. RecordCompletedStage(p, SiteRegistered) /\ Goes(p, "entry") /\ UNCHANGED <<disk, folder, sites>>
      BY <1>15, <2>2 DEF FindExistingSite
    <3>2. Fits("entry", SiteRegistered, meta.port) BY DEF Fits
    <3>. QED BY <1>u, <2>0, <2>1, <3>1, <3>2
  <2>3. CASE sites = {}
    <3>1. Goes(p, "lock") /\ UNCHANGED <<meta, mem, disk, folder, sites>>
      BY <1>15, <2>3 DEF FindExistingSite
    <3>2. Fits("lock", meta.stage, meta.port) BY <2>1 DEF Fits
    <3>. QED BY <1>r, <2>0, <2>1, <3>1, <3>2
  <2>. QED BY <2>2, <2>3
<1>16. CASE RegisterSite(p)
  <2>0. Reads(p) /\ at[p] = "lock" /\ UNCHANGED <<disk, folder>> BY <1>16 DEF RegisterSite, Reads
  <2>1. /\ meta.stage = RuntimeGenerated /\ mem[p] = meta /\ meta # None /\ meta \in Sessions
        /\ meta.folder \in Folders
    BY <2>0, CalmProcess DEF Fits
  <2>2. CASE /\ sites' = {[folder |-> meta.folder, port |-> meta.port]}
             /\ Goes(p, "registered")
             /\ UNCHANGED <<meta, mem, holds>>
    <3>1. Fits("registered", meta.stage, meta.port) BY <2>1 DEF Fits
    <3>2. OneRuns' /\ MemoryFits' BY <1>0, <2>0, <2>1, <2>2, <3>1, GoesCalmly
    <3>3. disk.db = meta.port BY <2>1 DEF Calm, Backed
    <3>. QED BY <2>0, <2>1, <2>2, <3>2, <3>3 DEF Calm, EntryIsLate, Backed, Matched
  <2>3. ASSUME NEW e \in sites, Save(p, [meta EXCEPT !.port = e.port, !.stage = SiteRegistered]),
               Goes(p, "entry"), UNCHANGED sites
        PROVE  Calm'
    <3>1. e.port = disk.db /\ disk.db = meta.port /\ e.port = meta.port
      BY <2>1 DEF Calm, Matched, Backed
    <3>2. [meta EXCEPT !.port = e.port, !.stage = SiteRegistered] = [meta EXCEPT !.stage = SiteRegistered]
      BY <2>1, <3>1 DEF Sessions
    <3>3. RecordCompletedStage(p, SiteRegistered) BY <2>1, <2>3, <3>2 DEF RecordCompletedStage
    <3>4. Fits("entry", SiteRegistered, meta.port) BY DEF Fits
    <3>. QED BY <1>u, <2>0, <2>1, <2>3, <3>3, <3>4
  <2>. QED BY <1>16, <2>1, <2>2, <2>3 DEF RegisterSite
<1>17. CASE RecordRegistered(p)
  <2>0. Reads(p) /\ at[p] = "registered" BY <1>17 DEF RecordRegistered, Reads
  <2>1. meta.stage = RuntimeGenerated BY <2>0, CalmProcess DEF Fits
  <2>2. RecordCompletedStage(p, SiteRegistered) /\ Goes(p, "entry") /\ UNCHANGED <<disk, folder, sites>>
    BY <1>17 DEF RecordRegistered
  <2>3. Fits("entry", SiteRegistered, meta.port) BY DEF Fits
  <2>. QED BY <1>u, <2>0, <2>1, <2>2, <2>3
<1>18. CASE ReadEntry(p)
  <2>0. Reads(p) /\ at[p] = "entry" BY <1>18 DEF ReadEntry, Reads
  <2>1. /\ meta.stage \in Initialized..Completed /\ SiteRegistered <= meta.stage /\ meta.stage < Completed
        /\ mem[p] = meta /\ meta # None
    BY <2>0, CalmProcess DEF Fits
  <2>2. UNCHANGED <<meta, mem, disk, folder, sites>> BY <1>18 DEF ReadEntry, store
  <2>3. \/ Goes(p, "exit")
        \/ Goes(p, "start") /\ meta.stage = SiteRegistered
        \/ Goes(p, "rest") /\ meta.stage # SiteRegistered
    BY <1>18, <2>1 DEF ReadEntry
  <2>4. Fits("exit", meta.stage, meta.port) BY DEF Fits
  <2>5. meta.stage = SiteRegistered => Fits("start", meta.stage, meta.port) BY DEF Fits
  <2>6. meta.stage # SiteRegistered => Fits("rest", meta.stage, meta.port) BY <2>1 DEF Fits
  <2>. QED BY <1>r, <2>0, <2>1, <2>2, <2>3, <2>4, <2>5, <2>6
<1>19. CASE StartSite(p)
  <2>0. Reads(p) /\ at[p] = "start" BY <1>19 DEF StartSite, Reads
  <2>1. meta.stage = SiteRegistered /\ mem[p] = meta /\ meta # None BY <2>0, CalmProcess DEF Fits
  <2>2. CASE Goes(p, "exit") /\ UNCHANGED <<meta, mem, holds>>
    <3>1. Goes(p, "exit") /\ UNCHANGED <<meta, mem, disk, folder, sites>>
      BY <1>19, <2>2 DEF StartSite
    <3>2. Fits("exit", meta.stage, meta.port) BY DEF Fits
    <3>. QED BY <1>r, <2>0, <2>1, <3>1, <3>2
  <2>3. CASE RecordCompletedStage(p, SiteStarted) /\ Goes(p, "rest")
    <3>1. RecordCompletedStage(p, SiteStarted) /\ Goes(p, "rest") /\ UNCHANGED <<disk, folder, sites>>
      BY <1>19, <2>3 DEF StartSite
    <3>2. Fits("rest", SiteStarted, meta.port) BY DEF Fits
    <3>. QED BY <1>u, <2>0, <2>1, <3>1, <3>2
  <2>. QED BY <1>19, <2>2, <2>3 DEF StartSite
<1>. QED BY <1>1, <1>2, <1>3, <1>4, <1>5, <1>5a, <1>6, <1>7, <1>8, <1>9, <1>10, <1>11, <1>12, <1>13,
            <1>14, <1>15, <1>16, <1>17, <1>18, <1>19 DEF Step

(* Nobody runs: nothing but pull.json and the entry can be wrong.            *)
LEMMA NobodyRuns == Running = {} => OneRuns /\ MemoryFits
  BY DEF Running, OneRuns, MemoryFits, Reads

(* A run that begins when nobody runs leaves it calm.                        *)
LEMMA BeginIsCalm == ASSUME ProcessOK, WorldOK, Calm, NEW p \in Pulls, Begin(p)
                     PROVE  Running # {} \/ Calm'
<1> SUFFICES ASSUME Running = {} PROVE Calm'
  OBVIOUS
<1>0. \A q \in Pulls : at[q] = "off" BY DEF Running
<1>1. UNCHANGED <<disk, folder, sites>> /\ meta \in Sessions \union {None}
  BY DEF Begin, ProcessOK
<1>2. ASSUME NEW step, Goes(p, step),
             step # "rotate" => meta' # None /\ mem'[p] = meta' /\ Fits(step, meta'.stage, meta'.port)
      PROVE  OneRuns' /\ MemoryFits'
  <2>1. at'[p] = step /\ \A q \in Pulls \ {p} : at'[q] = "off" BY <1>0, <1>2 DEF Goes, ProcessOK
  <2>. QED BY <1>2, <2>1 DEF OneRuns, MemoryFits, Reads
<1>3. CASE ResumeSession(p)
  <2>1. meta \in Sessions /\ meta # None /\ mem'[p] = meta /\ meta' = meta
    BY <1>1, <1>3 DEF ResumeSession, ProcessOK
  <2>2. meta.stage \in Initialized..Completed BY <2>1 DEF Sessions
  <2>3. Goes(p, "exit") \/ (Goes(p, "enable") /\ meta.stage # Completed)
    <3>1. CASE Refuses(meta) \/ meta.stage = Completed BY <1>3, <3>1 DEF ResumeSession
    <3>2. CASE ~Refuses(meta) /\ meta.stage # Completed BY <1>3, <3>2 DEF ResumeSession
    <3>. QED BY <3>1, <3>2
  <2>4. Fits("exit", meta.stage, meta.port) BY DEF Fits
  <2>5. meta.stage # Completed => Fits("enable", meta.stage, meta.port) BY <2>2 DEF Fits
  <2>6. OneRuns' /\ MemoryFits' BY <1>2, <2>1, <2>3, <2>4, <2>5
  <2>. QED BY <1>1, <2>1, <2>6, RestIsCalm DEF Calm
<1>4. CASE CreateSession(p)
  <2>1. PICK f \in Folders, step \in {"confirm", "enable"} :
          /\ meta' = [stage |-> Initialized, folder |-> f, port |-> 0, secret |-> FALSE]
          /\ mem' = [mem EXCEPT ![p] = [stage |-> Initialized, folder |-> f, port |-> 0, secret |-> FALSE]]
          /\ Goes(p, step)
    BY <1>4 DEF CreateSession
  <2>2. meta' \in Sessions BY <2>1, PullsAssumption DEF Sessions
  <2>3. meta' # None /\ mem'[p] = meta' /\ meta'.stage = Initialized
    BY <2>1, <2>2, SessionIsNotNone DEF ProcessOK
  <2>4. Fits(step, meta'.stage, meta'.port) BY <2>3 DEF Fits
  <2>5. OneRuns' /\ MemoryFits' BY <1>2, <2>1, <2>3, <2>4
  <2>6. sites' = {} BY <1>1, <1>4, NoEntryYet DEF CreateSession
  <2>7. EntryIsLate' /\ Backed' /\ Matched' BY <2>3, <2>6 DEF EntryIsLate, Backed, Matched
  <2>. QED BY <2>5, <2>7 DEF Calm
<1>5. CASE Goes(p, "rotate") /\ UNCHANGED <<meta, mem, holds>>
  <2>1. OneRuns' /\ MemoryFits' BY <1>2, <1>5
  <2>. QED BY <1>1, <1>5, <2>1 DEF Calm, EntryIsLate, Backed, Matched
<1>. QED BY <1>3, <1>4, <1>5 DEF Begin, GetPullSessionMetadata

(* What a kill leaves of the command of p is not called complete, and what   *)
(* was complete stays.                                                       *)
LEMMA KillIsCalm == ASSUME ProcessOK, WorldOK, Calm, NEW p \in Pulls, Kill(p)
                    PROVE  Calm'
<1> USE DEF At
<1>1. /\ at[p] # "off" /\ at' = [at EXCEPT ![p] = "off"] /\ UNCHANGED <<meta, sites>>
  BY DEF Kill
<1>2. OneRuns' /\ MemoryFits' BY <1>1, EndsCalmly DEF Calm
<1>3. EntryIsLate' BY <1>1 DEF Calm, EntryIsLate
<1>d. disk \in DiskType /\ folder \in [Folders -> {"empty", "part", "site"}] BY DEF WorldOK
<1>4. CASE Output(p) \/ PartOfOutput(p)
  <2>0. Reads(p) BY <1>4 DEF Reads, Output, PartOfOutput
  <2>1. mem[p] = meta /\ meta \in Sessions /\ meta # None /\ meta.folder \in Folders /\ Fits(at[p], meta.stage, meta.port)
    BY <2>0, CalmProcess
  <2>2. CASE at[p] = "files"
    <3>1. meta.stage = Initialized BY <2>1, <2>2 DEF Fits
    <3>2. sites' = {} BY <1>1, <2>1, <3>1, NoEntryYet
    <3>. QED BY <1>1, <1>2, <1>3, <3>1, <3>2 DEF Calm, Backed, Matched
  <2>3. CASE at[p] = "flatten"
    <3>1. meta.stage = EssentialFiles BY <2>1, <2>3 DEF Fits
    <3>2. sites' = {} /\ disk' = disk
      BY <1>1, <1>4, <2>1, <2>3, <3>1, NoEntryYet DEF Output, PartOfOutput
    <3>. QED BY <1>1, <1>2, <1>3, <3>1, <3>2 DEF Calm, Backed, Matched
  <2>4. CASE at[p] = "dump"
    <3>1. meta.stage = Flattened BY <2>1, <2>4 DEF Fits
    <3>2. sites' = {} BY <1>1, <2>1, <3>1, NoEntryYet
    <3>3. disk' = [disk EXCEPT !.dump = TRUE] /\ folder' = folder
      BY <1>4, <2>4 DEF Output, PartOfOutput
    <3>4. disk'.files = disk.files BY <1>d, <3>3 DEF DiskType
    <3>. QED BY <1>1, <1>2, <1>3, <3>1, <3>2, <3>3, <3>4 DEF Calm, Backed, Matched
  <2>5. CASE at[p] = "apply"
    <3>1. meta.stage = DbDownloaded BY <2>1, <2>5 DEF Fits
    <3>2. sites' = {} BY <1>1, <2>1, <3>1, NoEntryYet
    <3>3. (\E d : disk' = [disk EXCEPT !.db = d]) /\ folder' = folder
      BY <1>4, <2>5 DEF Output, PartOfOutput
    <3>4. disk'.files = disk.files /\ disk'.dump = disk.dump BY <1>d, <3>3 DEF DiskType
    <3>. QED BY <1>1, <1>2, <1>3, <3>1, <3>2, <3>3, <3>4 DEF Calm, Backed, Matched
  <2>6. CASE at[p] = "runtime"
    <3>1. meta.stage = DbApplied BY <2>1, <2>6 DEF Fits
    <3>2. sites' = {} BY <1>1, <2>1, <3>1, NoEntryYet
    <3>3. disk' = [disk EXCEPT !.runtime = TRUE] /\ folder' = folder
      BY <1>4, <2>6 DEF Output, PartOfOutput
    <3>4. disk'.files = disk.files /\ disk'.dump = disk.dump /\ disk'.db = disk.db
      BY <1>d, <3>3 DEF DiskType
    <3>. QED BY <1>1, <1>2, <1>3, <3>1, <3>2, <3>3, <3>4 DEF Calm, Backed, Matched
  <2>7. CASE at[p] = "rest"
    <3>1. meta.stage = SiteStarted BY <2>1, <2>7 DEF Fits
    <3>2. disk' = [disk EXCEPT !.rest = FALSE] /\ folder' = folder
      BY <1>4, <2>7 DEF Output, PartOfOutput
    <3>3. /\ disk'.files = disk.files /\ disk'.dump = disk.dump /\ disk'.db = disk.db
          /\ disk'.runtime = disk.runtime
      BY <1>d, <3>2 DEF DiskType
    <3>. QED BY <1>1, <1>2, <1>3, <3>1, <3>2, <3>3 DEF Calm, Backed, Matched
  <2>. QED BY <1>4, <2>2, <2>3, <2>4, <2>5, <2>6, <2>7 DEF Output, PartOfOutput
<1>5. CASE UNCHANGED <<disk, folder>>
  BY <1>1, <1>2, <1>3, <1>5 DEF Calm, Backed, Matched
<1>6. CASE disk' = [disk EXCEPT !.preflight = TRUE] /\ UNCHANGED folder
  <2>1. /\ disk'.files = disk.files /\ disk'.dump = disk.dump /\ disk'.db = disk.db
        /\ disk'.runtime = disk.runtime /\ disk'.rest = disk.rest
    BY <1>d, <1>6 DEF DiskType
  <2>. QED BY <1>1, <1>2, <1>3, <1>6, <2>1 DEF Calm, Backed, Matched
<1>. QED BY <1>4, <1>5, <1>6 DEF Kill

(* What else may happen: it leaves it calm, or is seen in disturbed.         *)
LEMMA FaultIsCalm == ASSUME ProcessOK, WorldOK, OneEntry, Calm, Fault \/ CreateOther, ~disturbed'
                     PROVE  Calm'
<1>1. ASSUME NEW p \in Pulls, Kill(p) PROVE Calm'
  BY <1>1, KillIsCalm
<1>2. ASSUME NEW p \in Pulls, Decline(p) PROVE Calm'
  <2>1. /\ at[p] = "confirm" /\ at' = [at EXCEPT ![p] = "off"] /\ meta' = None /\ sites' = sites
    BY <1>2 DEF Decline, At
  <2>2. Reads(p) BY <2>1 DEF Reads
  <2>3. meta.stage = Initialized /\ meta \in Sessions BY <2>1, <2>2, CalmProcess DEF Fits
  <2>4. sites' = {} BY <2>1, <2>3, NoEntryYet
  <2>5. OneRuns' /\ MemoryFits' BY <2>1, EndsCalmly DEF Calm
  <2>. QED BY <2>1, <2>4, <2>5 DEF Calm, EntryIsLate, Backed, Matched
<1>3. CASE AbortPull
  <2>1. Running = {} /\ sites = {} BY <1>3, Zenon DEF AbortPull
  <2>2. meta' = None /\ sites' = sites /\ at' = at BY <1>3 DEF AbortPull
  <2>3. OneRuns' /\ MemoryFits' BY <2>1, <2>2 DEF Running, OneRuns, MemoryFits, Reads
  <2>. QED BY <2>1, <2>2, <2>3 DEF Calm, EntryIsLate, Backed, Matched
<1>4. ASSUME NEW e \in sites, DeleteSite(e) PROVE Calm'
  <2>1. Running = {} BY <1>4, Zenon DEF DeleteSite
  <2>2. sites' = sites \ {e} /\ at' = at BY <1>4 DEF DeleteSite
  <2>3. OneRuns' /\ MemoryFits' BY <2>1, <2>2 DEF Running, OneRuns, MemoryFits, Reads
  <2>4. sites' = {} BY <2>2 DEF OneEntry
  <2>5. Backed' BY <1>4 DEF DeleteSite, store, Calm, Backed
  <2>. QED BY <2>3, <2>4, <2>5 DEF Calm, EntryIsLate, Matched
<1>5. CASE ExpireSecret
  BY <1>5 DEF ExpireSecret, store, Calm, OneRuns, MemoryFits, EntryIsLate, Backed, Matched, Reads
<1>6. CASE CreateOther
  BY <1>6 DEF CreateOther, store, Calm, OneRuns, MemoryFits, EntryIsLate, Backed, Matched, Reads
<1>7. CASE ExporterTimesOut
  BY <1>7 DEF ExporterTimesOut, store, Calm, OneRuns, MemoryFits, EntryIsLate, Backed, Matched, Reads
<1>. QED BY <1>1, <1>2, <1>3, <1>4, <1>5, <1>6, <1>7 DEF Fault

(* IInv is inductive.                                                        *)
LEMMA InvStep == IInv /\ [Next]_vars => IInv'
<1> SUFFICES ASSUME IInv, [Next]_vars PROVE IInv'
  OBVIOUS
<1>1. TypeOK' /\ OneEntry' BY TypeStep, OneEntryStep DEF IInv
<1>2. ProcessOK /\ WorldOK /\ OneEntry /\ disturbed \in BOOLEAN BY TypeParts DEF IInv
<1>3. ASSUME ~disturbed' PROVE Calm'
  <2>1. ~disturbed BY <1>2, <1>3, DisturbedStep
  <2>2. Calm BY <2>1 DEF IInv
  <2>3. ASSUME NEW p \in Pulls, Begin(p) PROVE Calm'
    <3>1. Running = {} BY <1>3, <2>3, Zenon DEF Begin
    <3>. QED BY <1>2, <2>2, <2>3, <3>1, BeginIsCalm
  <2>4. CASE Next BY <1>2, <1>3, <2>2, <2>3, <2>4, StepIsCalm, FaultIsCalm DEF Next
  <2>5. CASE UNCHANGED vars
    BY <2>2, <2>5 DEF vars, store, Calm, OneRuns, MemoryFits, EntryIsLate, Backed, Matched, Reads
  <2>. QED BY <2>4, <2>5
<1>. QED BY <1>1, <1>3 DEF IInv

(* Wherever runs are killed and fail, and whatever other commands do in      *)
(* between, there is one entry for the directory; and as long as nobody      *)
(* interferes with a run, a stage that pull.json calls complete has its      *)
(* output on disk and the entry has the folder of the pull and the port that *)
(* the database names.                                                       *)
THEOREM PullIsSoundHolds == Spec => []PullIsSound
<1>1. IInv => PullIsSound
  <2> SUFFICES ASSUME IInv PROVE PullIsSound
    OBVIOUS
  <2>1. OneEntry BY DEF IInv
  <2>2. StagesAreBacked BY DEF IInv, Calm, Backed, StagesAreBacked
  <2>3. EntryMatchesPull BY DEF IInv, Calm, Matched, EntryMatchesPull
  <2>. QED BY <2>1, <2>2, <2>3 DEF PullIsSound
<1>. QED BY <1>1, InitInv, InvStep, PTL DEF Spec
=============================================================================
