------------------------- MODULE ServerHandshakeProofs -------------------------
(***************************************************************************)
(* Proofs about ServerHandshake, for any number of commands that start or  *)
(* stop the site's server and of processes: its types, that a start misses *)
(* nothing and reports a success only of a startup that succeeded, that    *)
(* what is concluded from an exit is true, and that the child's own error  *)
(* beats its exit.                                                         *)
(*                                                                         *)
(* IInv is inductive.  A step of a client has to show only what is said of *)
(* that client (ClientStep), a step of a child only what it adds to its    *)
(* wire and whom it owes an answer (ChildStep); the daemon's steps touch   *)
(* everybody and are proved part by part.                                  *)
(***************************************************************************)
EXTENDS ServerHandshake, SequenceTheorems, TLAPS

\* A process that is listed is the only one.
OneListed == \A p, q \in Listed : p = q

\* The steps of a start between its subscription and its message.
Listening == {"subscribed", "told", "waiting"}
Said(c, p) ==
  \E e \in ToSet(wire[p]) \cup ToSet(events[c]) : e.pm = p /\ e.event \in {"ready", "exit"}
Heard(c) == buffer[c].ready \cup buffer[c].exit

\* A process that was spawned since c subscribed has not said ready, and has not
\* ended; or c has heard of it, or will hear.
MissOf(c) ==
  step[c] \in Listening =>
    \A p \in Pm : since[c] < p /\ p <= last =>
      \/ proc[p] = "online" /\ phase[p] = "booting"
      \/ proc[p] = "dead" \/ Said(c, p) \/ p \in Heard(c)
MissInv == \A c \in Starters : MissOf(c)

\* Who waits has not heard of its process.
WaitOf(c) == step[c] = "waiting" => pm[c] \notin Heard(c)
WaitInv == \A c \in Clients : WaitOf(c)

\* A start hears of success only from a process whose startup succeeded.
Success(e) == e.event = "result" /\ e.to \in Starters => e.pm \in served
ServedInv ==
  /\ \A p \in Pm : phase[p] \in {"serving", "stopping"} => p \in served
  /\ \A p \in Pm : \A m \in ToSet(inbox[p]) : m.topic = "stop" => m.from \in Stoppers
  /\ \A p \in Pm : \A e \in ToSet(wire[p]) : Success(e)
  /\ \A c \in Clients : \A e \in ToSet(events[c]) : Success(e)
  /\ \A c \in Clients : step[c] = "started" => pm[c] \in served

\* Exits are broadcast when the daemon has handled them.
GoneInv ==
  /\ \A p \in Pm : \A e \in ToSet(wire[p]) : e.event # "exit" /\ e.pm = p
  /\ \A c \in Clients : \A e \in ToSet(events[c]) : e.event = "exit" => proc[e.pm] = "gone"
  /\ \A c \in Clients : \A p \in buffer[c].exit : proc[p] = "gone"

\* The steps at which a client deals with a process.
Dealing == {"told", "waiting", "ready", "talking", "closing"}
HasExit(c) == c \in exited \/ c \in grace \/ \E e \in ToSet(events[c]) : e.event = "exit"
\* A client that is told of its process when no older exit is under way hears of an
\* exit only when that process is gone.
ExitOf(c) ==
  /\ c \in exited => step[c] \in {"talking", "closing", "kill", "killing"} \cup Final
  /\ step[c] \in {"closing", "exit"} => pm[c] # 0
  /\ step[c] = "closing" => c \in Stoppers
  /\ c \notin stale =>
       /\ step[c] \in Dealing /\ HasExit(c) => proc[pm[c]] = "gone"
       /\ step[c] = "exit" => proc[pm[c]] \in {"dead", "gone"}
       /\ step[c] = "stopped" => pm[c] = 0 \/ proc[pm[c]] \in {"dead", "gone"}
ExitInv == \A c \in Clients : ExitOf(c)

\* Nobody answers a start that has not sent its message, and no other process than
\* the one it sent it to.
Sent == {"talking"} \cup Final
AnswerInv ==
  /\ \A c \in Starters : c \in sending => step[c] \in Sent
  /\ \A c \in Starters, p \in Pm :
       (\/ \E m \in ToSet(inbox[p]) : m.from = c
        \/ c \in ToSet(owed[p])
        \/ \E e \in ToSet(wire[p]) : e.to = c)
       => step[c] \in Sent /\ pm[c] = p
  /\ \A c \in Starters, d \in Clients :
       (\E e \in ToSet(events[d]) : e.to = c) => step[c] \in Sent

Works == OneListed /\ MissInv /\ WaitInv /\ ServedInv /\ GoneInv /\ ExitInv /\ AnswerInv
IInv == TypeOK /\ Works
-----------------------------------------------------------------------------
(* Sequences. *)

\* What a sequence holds, after an append, without its head, and joined to another.
LEMMA Holds ==
  ASSUME NEW S, NEW s \in Seq(S)
  PROVE  ToSet(s) = {s[i] : i \in 1..Len(s)} /\ ToSet(s) \subseteq S
<1>1. DOMAIN s = 1..Len(s) /\ \A i \in 1..Len(s) : s[i] \in S BY ElementOfSeq, LenProperties
<1>. QED BY <1>1 DEF ToSet

\* An element is appended.
LEMMA Appended ==
  ASSUME NEW S, NEW s \in Seq(S), NEW e \in S
  PROVE  Append(s, e) \in Seq(S) /\ ToSet(Append(s, e)) = ToSet(s) \cup {e}
<1>1. /\ Append(s, e) \in Seq(S) /\ Len(Append(s, e)) = Len(s) + 1 /\ Len(s) \in Nat
      /\ \A i \in 1..Len(s) : Append(s, e)[i] = s[i]
      /\ Append(s, e)[Len(s) + 1] = e
  BY AppendProperties, LenProperties
<1>2. 1..(Len(s) + 1) = 1..Len(s) \cup {Len(s) + 1} BY <1>1
<1>3. ToSet(Append(s, e)) = {Append(s, e)[i] : i \in 1..(Len(s) + 1)} BY <1>1, Holds
<1>4. ToSet(s) = {s[i] : i \in 1..Len(s)} BY Holds
<1>5. ToSet(Append(s, e)) \subseteq ToSet(s) \cup {e} BY <1>1, <1>2, <1>3, <1>4
<1>6. ToSet(s) \subseteq ToSet(Append(s, e)) BY <1>1, <1>2, <1>3, <1>4
<1>7. e \in ToSet(Append(s, e)) BY <1>1, <1>2, <1>3
<1>. QED BY <1>1, <1>5, <1>6, <1>7

\* The head is taken off.
LEMMA Tailed ==
  ASSUME NEW S, NEW s \in Seq(S), s # <<>>
  PROVE  /\ Head(s) \in S /\ Tail(s) \in Seq(S)
         /\ ToSet(s) = {Head(s)} \cup ToSet(Tail(s))
<1>1. /\ Head(s) \in S /\ Tail(s) \in Seq(S) /\ Len(Tail(s)) = Len(s) - 1
      /\ \A i \in 1..Len(Tail(s)) : Tail(s)[i] = s[i + 1]
      /\ Head(s) = s[1] /\ Len(s) \in Nat \ {0}
  BY HeadTailProperties, EmptySeq, LenProperties
<1>2. \A i \in 1..Len(s) : i = 1 \/ i - 1 \in 1..Len(Tail(s)) BY <1>1
<1>3. ToSet(s) \subseteq {Head(s)} \cup ToSet(Tail(s))
  <2>. SUFFICES ASSUME NEW i \in 1..Len(s) PROVE s[i] \in {Head(s)} \cup ToSet(Tail(s)) BY Holds
  <2>1. CASE i = 1 BY <2>1, <1>1
  <2>2. CASE i # 1
    <3>1. i - 1 \in 1..Len(Tail(s)) /\ Tail(s)[i - 1] = s[i] BY <2>2, <1>1, <1>2
    <3>2. ToSet(Tail(s)) = {Tail(s)[k] : k \in 1..Len(Tail(s))} BY <1>1, Holds
    <3>. QED BY <3>1, <3>2
  <2>. QED BY <2>1, <2>2
<1>4. {Head(s)} \cup ToSet(Tail(s)) \subseteq ToSet(s)
  <2>1. 1 \in 1..Len(s) /\ \A i \in 1..Len(Tail(s)) : i + 1 \in 1..Len(s) BY <1>1
  <2>2. Head(s) \in ToSet(s) BY <2>1, <1>1, Holds
  <2>3. ToSet(Tail(s)) = {Tail(s)[i] : i \in 1..Len(Tail(s))} BY <1>1, Holds
  <2>. QED BY <2>1, <2>2, <2>3, <1>1, Holds
<1>. QED BY <1>1, <1>3, <1>4

\* Two sequences are joined.
LEMMA Joined ==
  ASSUME NEW S, NEW s \in Seq(S), NEW t \in Seq(S)
  PROVE  s \o t \in Seq(S) /\ ToSet(s \o t) = ToSet(s) \cup ToSet(t)
<1>1. /\ s \o t \in Seq(S) /\ Len(s \o t) = Len(s) + Len(t)
      /\ \A i \in 1..Len(s) + Len(t) : (s \o t)[i] = IF i <= Len(s) THEN s[i] ELSE t[i - Len(s)]
      /\ Len(s) \in Nat /\ Len(t) \in Nat
  BY ConcatProperties, LenProperties
<1>0. ToSet(s \o t) = {(s \o t)[i] : i \in 1..(Len(s) + Len(t))} BY <1>1, Holds
<1>2. ToSet(s \o t) \subseteq ToSet(s) \cup ToSet(t)
  <2>. SUFFICES ASSUME NEW i \in 1..(Len(s) + Len(t))
                PROVE  (s \o t)[i] \in ToSet(s) \cup ToSet(t)
    BY <1>0
  <2>1. CASE i <= Len(s)
    <3>1. i \in 1..Len(s) BY <2>1, <1>1
    <3>. QED BY <3>1, <2>1, <1>1, Holds
  <2>2. CASE i > Len(s)
    <3>1. i - Len(s) \in 1..Len(t) BY <2>2, <1>1
    <3>2. (s \o t)[i] = t[i - Len(s)] BY <2>2, <1>1
    <3>. QED BY <3>1, <3>2, Holds
  <2>. QED BY <2>1, <2>2, <1>1
<1>3. ToSet(s) \subseteq ToSet(s \o t)
  <2>. SUFFICES ASSUME NEW i \in 1..Len(s) PROVE s[i] \in ToSet(s \o t) BY Holds
  <2>1. i \in 1..(Len(s) + Len(t)) /\ (s \o t)[i] = s[i] BY <1>1
  <2>. QED BY <2>1, <1>0
<1>4. ToSet(t) \subseteq ToSet(s \o t)
  <2>. SUFFICES ASSUME NEW i \in 1..Len(t) PROVE t[i] \in ToSet(s \o t) BY Holds
  <2>1. i + Len(s) \in 1..(Len(s) + Len(t)) /\ ~(i + Len(s) <= Len(s)) /\ (i + Len(s)) - Len(s) = i
    BY <1>1
  <2>2. (s \o t)[i + Len(s)] = t[i] BY <2>1, <1>1
  <2>. QED BY <2>1, <2>2, <1>0
<1>. QED BY <1>1, <1>2, <1>3, <1>4

\* The empty sequence.
LEMMA EmptyHolds == ToSet(<<>>) = {} /\ \A S : <<>> \in Seq(S)
<1>1. DOMAIN <<>> = {} OBVIOUS
<1>. QED BY <1>1, EmptySeq DEF ToSet

\* The answers to the clients of a sequence.
LEMMA AnswersHold ==
  ASSUME NEW cs \in Seq(Clients), NEW p \in Pm, NEW kind \in {"result", "error"},
         NEW as, as = [i \in DOMAIN cs |-> Event(kind, p, cs[i])]
  PROVE  /\ as \in Seq(EventOf)
         /\ \A e \in ToSet(as) : e.event = kind /\ e.pm = p /\ e.to \in ToSet(cs)
<1>1. DOMAIN cs = 1..Len(cs) /\ Len(cs) \in Nat /\ \A i \in 1..Len(cs) : cs[i] \in Clients
  BY ElementOfSeq, LenProperties
<1>2. \A i \in 1..Len(cs) : as[i] \in EventOf BY <1>1 DEF Event, EventOf
<1>3. as \in Seq(EventOf) BY <1>1, <1>2, IsASeq
<1>4. \A i \in DOMAIN as : as[i].event = kind /\ as[i].pm = p /\ as[i].to \in ToSet(cs)
  BY <1>1 DEF Event, ToSet
<1>. QED BY <1>3, <1>4 DEF ToSet
-----------------------------------------------------------------------------
(* What a step of a client has to show. *)

\* The daemon spawns a process: the only one that is listed.
Spawns ==
  /\ Listed = {} /\ last < MaxPm /\ last' = last + 1
  /\ proc' = [proc EXCEPT ![last + 1] = "online"]
  /\ phase' = [phase EXCEPT ![last + 1] = "booting"]

\* The bus of client c has at most been emptied or read.
Shrinks(c) ==
  /\ events' \in [Clients -> Seq(EventOf)] /\ ToSet(events'[c]) \subseteq ToSet(events[c])
  /\ \A d \in Clients \ {c} : events'[d] = events[d]

\* What a step of client c may change.
ClientMoves(c) ==
  /\ UNCHANGED <<owed, served, wire>>
  /\ UNCHANGED <<last, proc, phase>> \/ Spawns
  /\ inbox' \in [Pm -> Seq(MessageOf)]
  /\ \A p \in Pm : \A m \in ToSet(inbox'[p]) :
       \/ m \in ToSet(inbox[p])
       \/ /\ m.from = c /\ p = pm'[c] /\ (c \in Starters => step'[c] \in Sent)
          /\ m.topic = "stop" => c \in Stoppers
  /\ Shrinks(c)
  /\ step' = [step EXCEPT ![c] = step'[c]] /\ pm' = [pm EXCEPT ![c] = pm'[c]]
  /\ buffer' = [buffer EXCEPT ![c] = buffer'[c]] /\ since' = [since EXCEPT ![c] = since'[c]]
  /\ sending' \subseteq sending \cup {c} /\ grace' \subseteq grace \cup {c}
  /\ exited' \subseteq exited \cup {c} /\ stale \subseteq stale' /\ stale' \subseteq stale \cup {c}

\* What it has to show of the client itself: its types,
ClientTyped(c) ==
  /\ step'[c] \in Steps /\ pm'[c] \in 0..last'
  /\ step'[c] \in {"told", "waiting", "ready", "talking", "killing"} => pm'[c] # 0
  /\ buffer'[c] \in [ready : SUBSET Pm, exit : SUBSET Pm]
  /\ c \in exited' => c \in Stoppers
  /\ c \in grace' => step'[c] = "talking"
  /\ since'[c] \in 0..last'
\* and what the invariant says of it.
ClientShown(c) ==
  /\ c \in Starters => MissOf(c)'
  /\ WaitOf(c)'
  /\ step'[c] = "started" => pm'[c] \in served
  /\ \A p \in buffer'[c].exit : proc'[p] = "gone"
  /\ ExitOf(c)'
  /\ c \in Starters => /\ c \in sending' => step'[c] \in Sent
                       /\ step[c] \in Sent => step'[c] \in Sent /\ pm'[c] = pm[c]

\* The types of what the daemon and the children have, of the channels, of the clients.
DaemonTypes ==
  /\ last \in 0..MaxPm
  /\ proc \in [Pm -> {"none", "online", "dead", "gone"}]
  /\ \A p \in Pm : proc[p] = "none" <=> p > last
  /\ phase \in [Pm -> {"none", "booting", "idle", "starting", "aborting", "serving",
                       "stopping", "disconnected", "leaving"}]
  /\ served \subseteq Pm
ChannelTypes ==
  /\ owed \in [Pm -> Seq(Clients)]
  /\ inbox \in [Pm -> Seq(MessageOf)] /\ wire \in [Pm -> Seq(EventOf)]
  /\ events \in [Clients -> Seq(EventOf)]
ClientTypes ==
  /\ step \in [Clients -> Steps]
  /\ pm \in [Clients -> 0..last]
  /\ \A c \in Clients : step[c] \in {"told", "waiting", "ready", "talking", "killing"} => pm[c] # 0
  /\ buffer \in [Clients -> [ready : SUBSET Pm, exit : SUBSET Pm]]
  /\ sending \cup grace \subseteq Clients /\ exited \subseteq Stoppers /\ stale \subseteq Clients
  /\ \A c \in grace : step[c] = "talking"
  /\ since \in [Clients -> 0..last]

\* TypeOK in its parts.
LEMMA TypeParts == TypeOK <=> DaemonTypes /\ ChannelTypes /\ ClientTypes
BY DEF TypeOK, DaemonTypes, ChannelTypes, ClientTypes

\* A step of a client keeps the types when the client keeps its own.
LEMMA ClientStepTypes ==
  ASSUME TypeOK, NEW c \in Clients, ClientMoves(c), ClientTyped(c)
  PROVE  TypeOK'
<1>. USE MaxPmIsNat
<1>1. /\ last \in Nat /\ last' \in Nat /\ last <= last'
      /\ DaemonTypes'
  <2>1. CASE UNCHANGED <<last, proc, phase>>
    BY <2>1, TypeParts DEF ClientMoves, DaemonTypes
  <2>2. CASE Spawns
    <3>1. last + 1 \in Pm /\ last' \in 0..MaxPm BY <2>2, TypeParts DEF Spawns, DaemonTypes, Pm
    <3>2. \A p \in Pm : proc'[p] = "none" <=> p > last'
      <4>. SUFFICES ASSUME NEW p \in Pm PROVE proc'[p] = "none" <=> p > last' OBVIOUS
      <4>1. proc'[p] = IF p = last + 1 THEN "online" ELSE proc[p]
        BY <2>2, TypeParts DEF Spawns, DaemonTypes
      <4>2. (proc[p] = "none" <=> p > last) /\ last' = last + 1 /\ last \in Nat /\ p \in Nat
        BY <2>2, TypeParts DEF Spawns, DaemonTypes, Pm
      <4>. QED BY <4>1, <4>2
    <3>3. /\ proc' \in [Pm -> {"none", "online", "dead", "gone"}]
          /\ phase' \in [Pm -> {"none", "booting", "idle", "starting", "aborting", "serving",
                       "stopping", "disconnected", "leaving"}]
      BY <2>2, <3>1, TypeParts DEF Spawns, DaemonTypes
    <3>. QED BY <2>2, <3>1, <3>2, <3>3, TypeParts DEF Spawns, DaemonTypes, ClientMoves
  <2>. QED BY <2>1, <2>2 DEF ClientMoves
<1>2. ChannelTypes' BY TypeParts DEF ClientMoves, ChannelTypes, Shrinks
<1>3. ClientTypes'
  <2>1. /\ step' \in [Clients -> Steps]
        /\ buffer' \in [Clients -> [ready : SUBSET Pm, exit : SUBSET Pm]]
    BY TypeParts DEF ClientTypes, ClientMoves, ClientTyped
  <2>2. pm' \in [Clients -> 0..last'] /\ since' \in [Clients -> 0..last']
    <3>1. 0..last \subseteq 0..last' BY <1>1
    <3>. QED BY <3>1, TypeParts DEF ClientTypes, ClientMoves, ClientTyped
  <2>3. \A d \in Clients : step'[d] \in {"told", "waiting", "ready", "talking", "killing"} => pm'[d] # 0
    BY TypeParts DEF ClientTypes, ClientMoves, ClientTyped
  <2>4. /\ sending' \cup grace' \subseteq Clients /\ exited' \subseteq Stoppers
        /\ stale' \subseteq Clients
    BY TypeParts DEF ClientTypes, ClientMoves, ClientTyped
  <2>5. \A d \in grace' : step'[d] = "talking"
    BY TypeParts DEF ClientTypes, ClientMoves, ClientTyped
  <2>. QED BY <2>1, <2>2, <2>3, <2>4, <2>5 DEF ClientTypes
<1>. QED BY <1>1, <1>2, <1>3 DEF TypeOK, DaemonTypes, ChannelTypes, ClientTypes

\* A spawn takes nothing back of what is known of processes.
LEMMA ProcsGo ==
  ASSUME TypeOK, NEW c \in Clients, ClientMoves(c)
  PROVE  /\ last \in Nat /\ last <= last'
         /\ \A p \in Pm : p <= last => proc'[p] = proc[p] /\ phase'[p] = phase[p]
         /\ \A p \in Pm : p <= last' /\ ~(p <= last) => proc'[p] = "online" /\ phase'[p] = "booting"
         /\ \A p \in Pm : proc[p] # "none" => proc'[p] = proc[p]
         /\ \A p \in Pm : phase'[p] \in {phase[p], "booting"}
<1>. USE MaxPmIsNat
<1>1. CASE UNCHANGED <<last, proc, phase>> BY <1>1, TypeParts DEF DaemonTypes
<1>2. CASE Spawns
  <2>1. last + 1 \in Pm /\ last \in Nat /\ last' = last + 1
    BY <1>2, TypeParts DEF Spawns, DaemonTypes, Pm
  <2>2. \A p \in Pm : /\ proc'[p] = IF p = last + 1 THEN "online" ELSE proc[p]
                      /\ phase'[p] = IF p = last + 1 THEN "booting" ELSE phase[p]
                      /\ p \in Nat /\ (proc[p] = "none" <=> p > last)
    BY <1>2, TypeParts DEF Spawns, DaemonTypes, Pm
  <2>. QED BY <2>1, <2>2
<1>. QED BY <1>1, <1>2 DEF ClientMoves

\* A step of a client keeps the invariant when it keeps what is said of the client.
LEMMA ClientStep ==
  ASSUME TypeOK, Works, NEW c \in Clients, ClientMoves(c), ClientTyped(c), ClientShown(c)
  PROVE  TypeOK' /\ Works'
<1>1. TypeOK' BY ClientStepTypes
<1>2. /\ last \in Nat /\ last <= last'
      /\ \A p \in Pm : p <= last => proc'[p] = proc[p] /\ phase'[p] = phase[p]
      /\ \A p \in Pm : p <= last' /\ ~(p <= last) => proc'[p] = "online" /\ phase'[p] = "booting"
      /\ \A p \in Pm : proc[p] # "none" => proc'[p] = proc[p]
      /\ \A p \in Pm : phase'[p] \in {phase[p], "booting"}
  BY ProcsGo
<1>3. \A d \in Clients \ {c} :
        /\ step'[d] = step[d] /\ pm'[d] = pm[d] /\ buffer'[d] = buffer[d] /\ since'[d] = since[d]
        /\ events'[d] = events[d] /\ (d \in sending' => d \in sending)
        /\ (d \in grace' => d \in grace) /\ (d \in exited' => d \in exited)
        /\ (d \notin stale' => d \notin stale)
  BY TypeParts DEF ClientMoves, ClientTypes, Shrinks
<1>4. /\ UNCHANGED <<owed, served, wire>> /\ ToSet(events'[c]) \subseteq ToSet(events[c])
      /\ \A d \in Clients : ToSet(events'[d]) \subseteq ToSet(events[d])
  BY <1>3 DEF ClientMoves, Shrinks
<1>5. OneListed'
  <2>1. CASE UNCHANGED proc BY <2>1 DEF Works, OneListed, Listed
  <2>2. CASE Spawns BY <2>2, TypeParts DEF Spawns, Listed, OneListed, DaemonTypes
  <2>. QED BY <2>1, <2>2 DEF ClientMoves
<1>6. MissInv'
  <2>. SUFFICES ASSUME NEW d \in Starters, d # c PROVE MissOf(d)'
    BY DEF MissInv, ClientShown
  <2>. SUFFICES ASSUME step[d] \in Listening, NEW p \in Pm, since[d] < p, p <= last'
                PROVE  \/ proc'[p] = "online" /\ phase'[p] = "booting"
                       \/ proc'[p] = "dead" \/ Said(d, p)' \/ p \in Heard(d)'
    BY <1>3 DEF MissOf, Clients
  <2>0. d \in Clients \ {c} BY DEF Clients
  <2>1. CASE p <= last
    <3>1. \/ proc[p] = "online" /\ phase[p] = "booting"
          \/ proc[p] = "dead" \/ Said(d, p) \/ p \in Heard(d)
      BY <2>1 DEF Works, MissInv, MissOf
    <3>2. Said(d, p) => Said(d, p)' BY <2>0, <1>3, <1>4 DEF Said
    <3>3. Heard(d)' = Heard(d) BY <2>0, <1>3 DEF Heard
    <3>. QED BY <3>1, <3>2, <3>3, <2>1, <1>2
  <2>2. CASE ~(p <= last) BY <2>2, <1>2
  <2>. QED BY <2>1, <2>2
<1>7. WaitInv'
  <2>. SUFFICES ASSUME NEW d \in Clients, d # c PROVE WaitOf(d)' BY DEF WaitInv, ClientShown
  <2>. QED BY <1>3 DEF Works, WaitInv, WaitOf, Heard
<1>8. ServedInv'
  <2>1. \A p \in Pm : phase'[p] \in {"serving", "stopping"} => p \in served'
    BY <1>2, <1>4 DEF Works, ServedInv
  <2>2. \A p \in Pm : \A m \in ToSet(inbox'[p]) : m.topic = "stop" => m.from \in Stoppers
    BY DEF ClientMoves, Works, ServedInv
  <2>3. \A p \in Pm : \A e \in ToSet(wire'[p]) : Success(e)'
    BY <1>4 DEF Works, ServedInv, Success
  <2>4. \A d \in Clients : \A e \in ToSet(events'[d]) : Success(e)'
    BY <1>4 DEF Works, ServedInv, Success
  <2>5. \A d \in Clients : step'[d] = "started" => pm'[d] \in served'
    BY <1>3, <1>4 DEF Works, ServedInv, ClientShown
  <2>. QED BY <2>1, <2>2, <2>3, <2>4, <2>5 DEF ServedInv
<1>9. GoneInv'
  <2>1. \A p \in Pm : \A e \in ToSet(wire'[p]) : e.event # "exit" /\ e.pm = p
    BY <1>4 DEF Works, GoneInv
  <2>2. \A d \in Clients : \A e \in ToSet(events'[d]) : e.event = "exit" => proc'[e.pm] = "gone"
    <3>. SUFFICES ASSUME NEW d \in Clients, NEW e \in ToSet(events'[d]), e.event = "exit"
                  PROVE  proc'[e.pm] = "gone" OBVIOUS
    <3>1. e \in ToSet(events[d]) /\ proc[e.pm] = "gone" BY <1>4 DEF Works, GoneInv
    <3>2. e.pm \in Pm
      <4>1. events[d] \in Seq(EventOf) BY TypeParts DEF ChannelTypes
      <4>2. ToSet(events[d]) \subseteq EventOf BY <4>1, Holds
      <4>. QED BY <3>1, <4>2 DEF EventOf
    <3>. QED BY <3>1, <3>2, <1>2
  <2>3. \A d \in Clients : \A p \in buffer'[d].exit : proc'[p] = "gone"
    <3>. SUFFICES ASSUME NEW d \in Clients, d # c, NEW p \in buffer[d].exit
                  PROVE  proc'[p] = "gone"
      BY <1>3 DEF ClientShown
    <3>1. p \in Pm BY TypeParts DEF ClientTypes
    <3>. QED BY <3>1, <1>2 DEF Works, GoneInv
  <2>. QED BY <2>1, <2>2, <2>3 DEF GoneInv
<1>10. ExitInv'
  <2>. SUFFICES ASSUME NEW d \in Clients, d # c PROVE ExitOf(d)' BY DEF ExitInv, ClientShown
  <2>1. ExitOf(d) BY DEF Works, ExitInv
  <2>2. HasExit(d)' => HasExit(d) BY <1>3 DEF HasExit
  <2>3. pm[d] \in 0..last /\ last \in 0..MaxPm BY TypeParts DEF ClientTypes, DaemonTypes
  <2>4. pm[d] # 0 => proc'[pm[d]] = proc[pm[d]]
    <3>1. pm[d] # 0 => pm[d] \in Pm /\ pm[d] <= last BY <2>3, MaxPmIsNat DEF Pm
    <3>. QED BY <3>1, <1>2
  <2>5. step[d] \in Dealing => pm[d] # 0 BY <2>1, TypeParts DEF ExitOf, Dealing, ClientTypes
  <2>6. step[d] = "stopped" /\ pm[d] # 0 => proc'[pm[d]] = proc[pm[d]] BY <2>4
  <2>7. /\ step'[d] = step[d] /\ pm'[d] = pm[d] /\ (d \in exited' => d \in exited)
        /\ (d \notin stale' => d \notin stale)
    BY <1>3
  <2>8. /\ d \in exited' => step'[d] \in {"talking", "closing", "kill", "killing"} \cup Final
        /\ step'[d] \in {"closing", "exit"} => pm'[d] # 0
        /\ step'[d] = "closing" => d \in Stoppers
    BY <2>1, <2>7 DEF ExitOf
  <2>9. ASSUME d \notin stale'
        PROVE  /\ step'[d] \in Dealing /\ HasExit(d)' => proc'[pm'[d]] = "gone"
               /\ step'[d] = "exit" => proc'[pm'[d]] \in {"dead", "gone"}
               /\ step'[d] = "stopped" => pm'[d] = 0 \/ proc'[pm'[d]] \in {"dead", "gone"}
    BY <2>1, <2>2, <2>4, <2>5, <2>7, <2>9 DEF ExitOf
  <2>. QED BY <2>8, <2>9 DEF ExitOf
<1>11. AnswerInv'
  <2>1. \A d \in Starters : d \in sending' => step'[d] \in Sent
    BY <1>3 DEF Works, AnswerInv, ClientShown, Clients
  <2>2. \A d \in Starters : step[d] \in Sent => step'[d] \in Sent /\ pm'[d] = pm[d]
    BY <1>3 DEF ClientShown, Clients
  <2>3. \A d \in Starters, p \in Pm :
       (\/ \E m \in ToSet(inbox'[p]) : m.from = d
        \/ d \in ToSet(owed'[p])
        \/ \E e \in ToSet(wire'[p]) : e.to = d)
       => step'[d] \in Sent /\ pm'[d] = p
    <3>. SUFFICES ASSUME NEW d \in Starters, NEW p \in Pm,
                         \/ \E m \in ToSet(inbox'[p]) : m.from = d
                         \/ d \in ToSet(owed'[p])
                         \/ \E e \in ToSet(wire'[p]) : e.to = d
                  PROVE  step'[d] \in Sent /\ pm'[d] = p
      OBVIOUS
    <3>1. CASE \E m \in ToSet(inbox'[p]) : m.from = d
      <4>1. PICK m \in ToSet(inbox'[p]) : m.from = d BY <3>1
      <4>2. CASE m \in ToSet(inbox[p]) BY <4>1, <4>2, <2>2 DEF Works, AnswerInv
      <4>3. CASE m \notin ToSet(inbox[p]) BY <4>1, <4>3 DEF ClientMoves
      <4>. QED BY <4>2, <4>3
    <3>2. CASE d \in ToSet(owed'[p]) \/ \E e \in ToSet(wire'[p]) : e.to = d
      BY <3>2, <1>4, <2>2 DEF Works, AnswerInv
    <3>. QED BY <3>1, <3>2
  <2>4. \A d \in Starters, b \in Clients :
       (\E e \in ToSet(events'[b]) : e.to = d) => step'[d] \in Sent
    BY <1>4, <2>2 DEF Works, AnswerInv
  <2>. QED BY <2>1, <2>3, <2>4 DEF AnswerInv
<1>. QED BY <1>1, <1>5, <1>6, <1>7, <1>8, <1>9, <1>10, <1>11 DEF Works
-----------------------------------------------------------------------------
(* What is known of a client; clients that end. *)

\* What a client may do to its bus: leave it alone, empty it, or take the next event.
LEMMA SameShrinks ==
  ASSUME TypeOK, NEW c \in Clients, UNCHANGED events PROVE Shrinks(c)
BY TypeParts DEF Shrinks, ChannelTypes

\* Empty it.
LEMMA EmptyShrinks ==
  ASSUME TypeOK, NEW c \in Clients, events' = [events EXCEPT ![c] = <<>>]
  PROVE  Shrinks(c) /\ events'[c] = <<>> /\ ToSet(events'[c]) = {}
<1>1. <<>> \in Seq(EventOf) /\ ToSet(<<>>) = {} BY EmptyHolds
<1>2. events \in [Clients -> Seq(EventOf)] BY TypeParts DEF ChannelTypes
<1>3. events'[c] = <<>> BY <1>2
<1>. QED BY <1>1, <1>2, <1>3 DEF Shrinks

\* Take the next event.
LEMMA RestShrinks ==
  ASSUME TypeOK, NEW c \in Clients, events[c] # <<>>, Rest(c)
  PROVE  /\ Shrinks(c) /\ Head(events[c]) \in EventOf
         /\ Head(events[c]) \in ToSet(events[c])
         /\ ToSet(events[c]) = {Head(events[c])} \cup ToSet(events'[c])
<1>1. events \in [Clients -> Seq(EventOf)] BY TypeParts DEF ChannelTypes
<1>2. events'[c] = Tail(events[c]) BY <1>1 DEF Rest
<1>3. /\ Head(events[c]) \in EventOf /\ Tail(events[c]) \in Seq(EventOf)
      /\ ToSet(events[c]) = {Head(events[c])} \cup ToSet(Tail(events[c]))
  BY <1>1, Tailed
<1>. QED BY <1>1, <1>2, <1>3 DEF Rest, Shrinks

\* What is known of a listed process.
LEMMA ListedAre ==
  ASSUME TypeOK, NEW p \in Listed
  PROVE  p \in Pm /\ p \in 1..last /\ proc[p] \in {"online", "dead"}
<1>1. p \in Pm /\ proc[p] \in {"online", "dead"} BY DEF Listed
<1>2. p \in Nat /\ 1 <= p /\ last \in Nat /\ (proc[p] = "none" <=> p > last)
  BY <1>1, TypeParts, MaxPmIsNat DEF DaemonTypes, Pm
<1>. QED BY <1>1, <1>2

\* A client's own data have their types.
LEMMA ClientIsTyped ==
  ASSUME TypeOK, NEW c \in Clients
  PROVE  /\ step[c] \in Steps /\ pm[c] \in 0..last /\ since[c] \in 0..last /\ last \in Nat
         /\ step[c] \in {"told", "waiting", "ready", "talking", "killing"} => pm[c] # 0
         /\ buffer[c] \in [ready : SUBSET Pm, exit : SUBSET Pm]
         /\ c \in exited => c \in Stoppers
         /\ c \in grace => step[c] = "talking"
         /\ inbox \in [Pm -> Seq(MessageOf)]
         /\ step \in [Clients -> Steps] /\ pm \in [Clients -> 0..last]
         /\ since \in [Clients -> 0..last]
         /\ buffer \in [Clients -> [ready : SUBSET Pm, exit : SUBSET Pm]]
         /\ pm[c] # 0 => pm[c] \in Pm
BY TypeParts, MaxPmIsNat DEF ClientTypes, DaemonTypes, ChannelTypes, Pm

\* What the invariant says of a client.
LEMMA ClientKnows ==
  ASSUME Works, NEW c \in Clients
  PROVE  /\ c \in Starters => MissOf(c) /\ (c \in sending => step[c] \in Sent)
         /\ WaitOf(c) /\ ExitOf(c) /\ (step[c] = "started" => pm[c] \in served)
         /\ \A p \in buffer[c].exit : proc[p] = "gone"
         /\ \A e \in ToSet(events[c]) : Success(e) /\ (e.event = "exit" => proc[e.pm] = "gone")
BY DEF Works, MissInv, WaitInv, ExitInv, AnswerInv, ServedInv, GoneInv

\* A client that ends.
LEMMA EndStep ==
  ASSUME TypeOK, Works, NEW c \in Clients, NEW r \in Final, EndAs(c, r),
         UNCHANGED <<last, proc, phase, owed, served, wire, inbox, pm, buffer, sending, exited,
                     since, stale>>,
         step[c] \notin Final,
         r = "started" => pm[c] \in served,
         r = "exit" => pm[c] # 0 /\ (c \notin stale => proc[pm[c]] \in {"dead", "gone"}),
         r = "stopped" /\ c \notin stale => pm[c] = 0 \/ proc[pm[c]] \in {"dead", "gone"}
  PROVE  TypeOK' /\ Works'
<1>1. /\ Shrinks(c) /\ ToSet(events'[c]) = {} /\ step'[c] = r /\ c \notin grace'
      /\ step' = [step EXCEPT ![c] = r]
  BY EmptyShrinks, ClientIsTyped DEF EndAs
<1>2. ClientMoves(c) BY <1>1, ClientIsTyped DEF ClientMoves, EndAs
<1>3. ClientTyped(c) BY <1>1, ClientIsTyped DEF ClientTyped, Steps, Final
<1>4. /\ step'[c] \notin Listening /\ step'[c] \notin Dealing /\ step'[c] \in Sent
      /\ step'[c] # "closing"
  BY <1>1 DEF Listening, Dealing, Sent, Final
<1>5. ExitOf(c)' BY <1>1, <1>4 DEF ExitOf
<1>6. MissOf(c)' /\ WaitOf(c)' BY <1>1, <1>4 DEF MissOf, WaitOf, Listening
<1>7. step[c] \notin Sent \/ pm'[c] = pm[c] OBVIOUS
<1>8. ClientShown(c) BY <1>1, <1>4, <1>5, <1>6, ClientKnows DEF ClientShown
<1>. QED BY <1>2, <1>3, <1>8, ClientStep
-----------------------------------------------------------------------------
(* Clients: up to the process they are told. *)

\* A start that finds the server running.
LEMMA AlreadyRunningStep ==
  ASSUME TypeOK, Works, NEW c \in Clients, AlreadyRunning(c) PROVE TypeOK' /\ Works'
<1>1. EndAs(c, "running") /\ "running" \in Final /\ step[c] \notin Final
  BY DEF AlreadyRunning, Final
<1>. QED BY <1>1, EndStep DEF AlreadyRunning, daemonVars, childVars, chanVars

\* A client that goes to step a, and is told of nothing new.
LEMMA GoStep ==
  ASSUME TypeOK, Works, NEW c \in Clients, NEW a \in Steps, step' = [step EXCEPT ![c] = a],
         UNCHANGED <<last, proc, phase, owed, served, wire, inbox, pm, buffer, exited, since,
                     stale>>,
         sending' \subseteq sending \cup {c}, grace' \subseteq grace \ {c}, Shrinks(c),
         step[c] \notin Final, a \notin Final,
         c \in Starters => MissOf(c)', WaitOf(c)',
         a \in {"closing", "told", "waiting", "ready", "talking", "killing"} => pm[c] # 0,
         c \in exited => a \in {"talking", "closing", "kill", "killing"},
         a \in Dealing => step[c] \in Dealing, a = "closing" => c \in Stoppers,
         c \in Starters => (c \in sending' => a \in Sent) /\ (step[c] \in Sent => a \in Sent)
  PROVE  TypeOK' /\ Works'
<1>1. step'[c] = a /\ pm'[c] = pm[c] /\ c \notin grace' BY ClientIsTyped
<1>2. ClientMoves(c) BY <1>1, ClientIsTyped DEF ClientMoves
<1>3. ClientTyped(c) BY <1>1, ClientIsTyped DEF ClientTyped
<1>4. HasExit(c)' => HasExit(c) BY <1>1 DEF HasExit, Shrinks
<1>5. ExitOf(c)' BY <1>1, <1>4, ClientKnows DEF ExitOf, Final
<1>6. step'[c] # "started" BY <1>1 DEF Final
<1>7. ClientShown(c) BY <1>1, <1>5, <1>6, ClientKnows DEF ClientShown
<1>. QED BY <1>2, <1>3, <1>7, ClientStep

\* A start that finds nothing, and sets up.
LEMMA NotRunningStep ==
  ASSUME TypeOK, Works, NEW c \in Clients, NotRunning(c) PROVE TypeOK' /\ Works'
<1>1. step' = [step EXCEPT ![c] = "setup"] /\ step[c] = "begin" /\ step'[c] = "setup"
  BY ClientIsTyped DEF NotRunning
<1>2. UNCHANGED <<last, proc, phase, owed, served, wire, inbox, pm, buffer, exited, since,
                  stale, sending, grace, events>>
  BY DEF NotRunning, daemonVars, childVars, chanVars
<1>3. MissOf(c)' /\ WaitOf(c)' BY <1>1 DEF MissOf, WaitOf, Listening
<1>4. c \notin grace /\ c \notin exited /\ (c \in Starters => c \notin sending)
  BY <1>1, ClientIsTyped, ClientKnows DEF ExitOf, Sent, Final
<1>. QED BY <1>1, <1>2, <1>3, <1>4, SameShrinks, GoStep DEF Steps, Final, Dealing, Sent

\* A start subscribes: nothing was spawned since.
LEMMA SubscribeStep ==
  ASSUME TypeOK, Works, NEW c \in Clients, Subscribe(c) PROVE TypeOK' /\ Works'
<1>1. /\ step' = [step EXCEPT ![c] = "subscribed"] /\ step[c] = "setup" /\ step'[c] = "subscribed"
      /\ since' = [since EXCEPT ![c] = last] /\ since'[c] = last
  BY ClientIsTyped DEF Subscribe
<1>2. UNCHANGED <<last, proc, phase, owed, served, wire, inbox, pm, buffer, exited, stale,
                  sending, grace, events>>
  BY DEF Subscribe, daemonVars, childVars, chanVars
<1>3. WaitOf(c)' BY <1>1 DEF WaitOf
<1>4. c \notin grace /\ c \notin exited /\ (c \in Starters => c \notin sending)
  BY <1>1, ClientIsTyped, ClientKnows DEF ExitOf, Sent, Final
<1>5. MissOf(c)'
  <2>1. \A p \in Pm : ~(since'[c] < p /\ p <= last') BY <1>1, <1>2, ClientIsTyped DEF Pm
  <2>. QED BY <2>1 DEF MissOf
<1>6. ClientMoves(c) BY <1>1, <1>2, ClientIsTyped, SameShrinks DEF ClientMoves
<1>7. ClientTyped(c) BY <1>1, <1>2, <1>4, ClientIsTyped DEF ClientTyped, Steps
<1>8. ExitOf(c)' BY <1>1, <1>2, <1>4, ClientKnows DEF ExitOf, Dealing
<1>9. ClientShown(c)
  BY <1>1, <1>2, <1>3, <1>4, <1>5, <1>8, ClientKnows DEF ClientShown, Sent, Final
<1>. QED BY <1>6, <1>7, <1>9, ClientStep

\* A client that is told of the listed process p.
LEMMA ToldStep ==
  ASSUME TypeOK, Works, NEW c \in Clients, NEW s, NEW p \in Pm, Told(c, p, s),
         (s = "told" /\ step[c] = "subscribed") \/ (s = "ready" /\ step[c] = "begin"),
         (UNCHANGED <<last, proc, phase>> /\ p \in Listed) \/ (Spawns /\ p = last + 1),
         UNCHANGED <<owed, served, wire, inbox, events, buffer, sending, grace, exited, since>>
  PROVE  TypeOK' /\ Works'
<1>1. /\ step' = [step EXCEPT ![c] = s] /\ step'[c] = s /\ pm' = [pm EXCEPT ![c] = p] /\ pm'[c] = p
  BY ClientIsTyped DEF Told
<1>2. ClientMoves(c) BY <1>1, ClientIsTyped, SameShrinks DEF ClientMoves, Told
<1>3. /\ p \in 1..last' /\ since[c] \in 0..last'
      /\ UNCHANGED <<last, proc, phase>> \/ last' = last + 1
      /\ UNCHANGED proc \/ \A q \in Pm : proc[q] \in {"none", "gone"}
      /\ UNCHANGED proc => proc[p] \in {"online", "dead"}
      /\ ~UNCHANGED proc => proc[p] = "none"
  <2>1. CASE UNCHANGED <<last, proc, phase>> /\ p \in Listed
    BY <2>1, ListedAre, ClientIsTyped
  <2>2. CASE Spawns /\ p = last + 1
    <3>1. last \in Nat /\ last' = last + 1 /\ (proc[p] = "none" <=> p > last)
      BY <2>2, ClientIsTyped, TypeParts DEF Spawns, DaemonTypes
    <3>2. \A q \in Pm : proc[q] \in {"none", "gone"}
      BY <2>2, TypeParts DEF Spawns, Listed, DaemonTypes
    <3>3. proc'[p] = "online" BY <2>2, TypeParts DEF Spawns, DaemonTypes
    <3>. QED BY <2>2, <3>1, <3>2, <3>3, ClientIsTyped
  <2>. QED BY <2>1, <2>2
<1>4. c \notin grace /\ c \notin exited /\ (c \in Starters => c \notin sending)
  BY ClientIsTyped, ClientKnows DEF ExitOf, Sent, Final
<1>5. ClientTyped(c) BY <1>1, <1>3, <1>4, ClientIsTyped DEF ClientTyped, Steps
<1>6. WaitOf(c)' BY <1>1 DEF WaitOf
<1>7. c \in Starters => MissOf(c)'
  <2>. SUFFICES ASSUME c \in Starters, s = "told" PROVE MissOf(c)' BY <1>1 DEF MissOf, Listening
  <2>1. MissOf(c) /\ step[c] \in Listening BY ClientKnows DEF Listening
  <2>. SUFFICES ASSUME NEW q \in Pm, since[c] < q, q <= last'
                PROVE  \/ proc'[q] = "online" /\ phase'[q] = "booting"
                       \/ proc'[q] = "dead" \/ Said(c, q)' \/ q \in Heard(c)'
    BY DEF MissOf
  <2>2. Said(c, q)' <=> Said(c, q) BY DEF Said
  <2>3. Heard(c)' = Heard(c) BY DEF Heard
  <2>. QED BY <2>1, <2>2, <2>3, <1>2, ProcsGo DEF MissOf
<1>8. c \in stale' \/ \A e \in ToSet(events[c]) : e.event # "exit"
  <2>. SUFFICES ASSUME NEW e \in ToSet(events[c]), e.event = "exit" PROVE c \in stale' OBVIOUS
  <2>1. proc[e.pm] = "gone" BY ClientKnows
  <2>2. e.pm # p BY <2>1, <1>3
  <2>3. StaleExit(c, p) BY <2>2 DEF StaleExit, ToSet
  <2>. QED BY <2>3 DEF Told
<1>9. ExitOf(c)' BY <1>1, <1>3, <1>4, <1>8 DEF ExitOf, HasExit, Dealing
<1>10. \A q \in buffer'[c].exit : proc'[q] = "gone"
  <2>1. \A q \in buffer[c].exit : q \in Pm /\ proc[q] = "gone" BY ClientIsTyped, ClientKnows
  <2>. QED BY <2>1, <1>2, ProcsGo
<1>11. step[c] \notin Sent /\ step'[c] # "started" BY <1>1 DEF Sent, Final
<1>12. ClientShown(c) BY <1>4, <1>6, <1>7, <1>9, <1>10, <1>11 DEF ClientShown
<1>. QED BY <1>2, <1>5, <1>12, ClientStep

\* The daemon hands out the process there is.
LEMMA GetInstanceStep ==
  ASSUME TypeOK, Works, NEW c \in Clients, GetInstance(c) PROVE TypeOK' /\ Works'
<1>1. PICK p \in Listed : Told(c, p, "told") BY DEF GetInstance
<1>2. p \in Pm BY DEF Listed
<1>3. UNCHANGED <<owed, served, wire, inbox, events, buffer, sending, grace, exited, since>>
  BY DEF GetInstance, daemonVars, childVars, chanVars
<1>4. UNCHANGED <<last, proc, phase>> /\ step[c] = "subscribed"
  BY DEF GetInstance, daemonVars, childVars
<1>. QED BY <1>1, <1>2, <1>3, <1>4, ToldStep

\* The daemon spawns a process: it is booting, so nothing was missed.
LEMMA NewInstanceStep ==
  ASSUME TypeOK, Works, NEW c \in Clients, NewInstance(c) PROVE TypeOK' /\ Works'
<1>1. Spawns /\ Told(c, last + 1, "told") BY DEF NewInstance, Spawns
<1>2. PICK p \in Pm : p = last + 1 BY <1>1, ClientIsTyped, MaxPmIsNat DEF Spawns, Pm
<1>4. Told(c, p, "told") BY <1>1, <1>2
<1>3. /\ UNCHANGED <<owed, served, wire, inbox, events, buffer, sending, grace, exited, since>>
      /\ step[c] = "subscribed"
  BY DEF NewInstance, chanVars
<1>. QED BY <1>1, <1>2, <1>3, <1>4, ToldStep

\* A stop looks for the process.
LEMMA LookForServerStep ==
  ASSUME TypeOK, Works, NEW c \in Clients, LookForServer(c) PROVE TypeOK' /\ Works'
<1>1. CASE Listed = {}
  <2>1. EndAs(c, "nothing") /\ "nothing" \in Final /\ step[c] \notin Final
    BY <1>1 DEF LookForServer, Final
  <2>. QED BY <1>1, <2>1, EndStep DEF LookForServer, daemonVars, childVars, chanVars
<1>2. CASE Listed # {}
  <2>1. PICK p \in Listed : Told(c, p, "ready") BY <1>2 DEF LookForServer
  <2>2. p \in Pm BY DEF Listed
  <2>3. /\ UNCHANGED <<owed, served, wire, inbox, events, buffer, sending, grace, exited,
                       since>>
        /\ UNCHANGED <<last, proc, phase>> /\ step[c] = "begin"
    BY <1>2 DEF LookForServer, daemonVars, childVars, chanVars
  <2>. QED BY <2>1, <2>2, <2>3, ToldStep
<1>. QED BY <1>1, <1>2
-----------------------------------------------------------------------------
(* Clients: waits, timeouts and kills. *)

\* MissOf and WaitOf say nothing of other steps.
LEMMA NotListening ==
  ASSUME NEW c \in Clients, step'[c] \notin Listening PROVE MissOf(c)' /\ WaitOf(c)'
BY DEF MissOf, WaitOf, Listening

\* A process a client deals with, that is not listed, is gone.
LEMMA NotListed ==
  ASSUME TypeOK, NEW c \in Clients, pm[c] # 0
  PROVE  pm[c] \in Pm /\ (pm[c] \in Listed \/ proc[pm[c]] = "gone")
<1>1. pm[c] \in Pm /\ pm[c] \in 0..last /\ last \in Nat BY ClientIsTyped
<1>2. proc[pm[c]] # "none" /\ proc[pm[c]] \in {"none", "online", "dead", "gone"}
  BY <1>1, TypeParts DEF DaemonTypes, Pm
<1>. QED BY <1>1, <1>2 DEF Listed

\* The replay of subscribeForReadyOrExit: who goes on to wait has not heard of its process.
LEMMA WaitForStep ==
  ASSUME TypeOK, Works, NEW c \in Clients, WaitFor(c) PROVE TypeOK' /\ Works'
<1>1. step[c] = "told" /\ pm[c] # 0 BY ClientIsTyped DEF WaitFor
<1>2. UNCHANGED <<last, proc, phase, owed, served, wire, inbox, pm, buffer, sending, exited,
                  since, stale>>
  BY DEF WaitFor, daemonVars, childVars, chanVars
<1>3. CASE Replay(c) = "exit"
  <2>1. pm[c] \in buffer[c].exit BY <1>3 DEF Replay
  <2>2. proc[pm[c]] = "gone" BY <2>1, ClientKnows
  <2>3. EndAs(c, "exit") /\ "exit" \in Final /\ step[c] \notin Final
    BY <1>1, <1>3 DEF WaitFor, Final
  <2>. QED BY <1>1, <1>2, <2>2, <2>3, EndStep
<1>4. CASE Replay(c) # "exit"
  <2>1. PICK a \in {"ready", "waiting"} : a = Replay(c) BY <1>4 DEF Replay
  <2>2. step' = [step EXCEPT ![c] = a] /\ step'[c] = a /\ UNCHANGED <<events, grace>>
    BY <1>4, <2>1, ClientIsTyped DEF WaitFor
  <2>3. a = "waiting" => pm[c] \notin Heard(c) BY <1>4, <2>1 DEF Replay, Heard
  <2>4. WaitOf(c)' BY <1>2, <2>2, <2>3 DEF WaitOf, Heard
  <2>5. c \in Starters => MissOf(c)'
    BY <1>1, <1>2, <2>2, ClientKnows DEF MissOf, Listening, Said, Heard
  <2>6. c \notin grace /\ c \notin exited /\ (c \in Starters => c \notin sending)
    BY <1>1, ClientIsTyped, ClientKnows DEF ExitOf, Sent, Final
  <2>7. /\ a \in Steps /\ a \notin Final /\ step[c] \notin Final /\ step[c] \notin Sent
        /\ step[c] \in Dealing
    BY <1>1 DEF Steps, Final, Sent, Dealing
  <2>. QED BY <1>1, <1>2, <2>2, <2>4, <2>5, <2>6, <2>7, SameShrinks, GoStep
<1>. QED BY <1>3, <1>4

\* A stop that has heard the exit returns: the process is gone, or the exit was an older one.
LEMMA CloseStopStep ==
  ASSUME TypeOK, Works, NEW c \in Clients, CloseStop(c) PROVE TypeOK' /\ Works'
<1>1. step[c] = "closing" /\ c \in exited BY DEF CloseStop, ExitHeard
<1>2. c \notin stale => proc[pm[c]] = "gone" BY <1>1, ClientKnows DEF ExitOf, HasExit, Dealing
<1>3. EndAs(c, "stopped") /\ "stopped" \in Final /\ step[c] \notin Final
  BY <1>1 DEF CloseStop, Final
<1>. QED BY <1>2, <1>3, EndStep DEF CloseStop, daemonVars, childVars, chanVars

\* A stop gives up waiting for the exit.
LEMMA CloseTimeoutStep ==
  ASSUME TypeOK, Works, NEW c \in Clients, CloseTimeout(c) PROVE TypeOK' /\ Works'
<1>1. step' = [step EXCEPT ![c] = "kill"] /\ step[c] = "closing" /\ step'[c] = "kill"
  BY ClientIsTyped DEF CloseTimeout
<1>2. UNCHANGED <<last, proc, phase, owed, served, wire, inbox, pm, buffer, exited, since,
                  stale, sending, grace, events>>
  BY DEF CloseTimeout, daemonVars, childVars, chanVars
<1>3. MissOf(c)' /\ WaitOf(c)' BY <1>1, NotListening DEF Listening
<1>4. c \notin grace /\ (c \in Starters => c \notin sending)
  BY <1>1, ClientIsTyped, ClientKnows DEF Sent, Final
<1>. QED BY <1>1, <1>2, <1>3, <1>4, SameShrinks, GoStep DEF Steps, Final, Dealing, Sent

\* A stop asks for the kill; with nothing listed its process is gone.
LEMMA AskToKillStep ==
  ASSUME TypeOK, Works, NEW c \in Clients, AskToKill(c) PROVE TypeOK' /\ Works'
<1>1. step[c] = "kill" BY DEF AskToKill
<1>2. UNCHANGED <<last, proc, phase, owed, served, wire, inbox, buffer, sending, exited, since,
                  stale>>
  BY DEF AskToKill, daemonVars, childVars, chanVars
<1>3. CASE Listed = {}
  <2>1. EndAs(c, "stopped") /\ UNCHANGED pm /\ "stopped" \in Final /\ step[c] \notin Final
    BY <1>1, <1>3 DEF AskToKill, Final
  <2>2. pm[c] = 0 \/ proc[pm[c]] = "gone" BY <1>3, NotListed
  <2>. QED BY <1>2, <2>1, <2>2, EndStep
<1>4. CASE Listed # {}
  <2>1. PICK p \in Listed : pm' = [pm EXCEPT ![c] = p] BY <1>4 DEF AskToKill
  <2>2. /\ step' = [step EXCEPT ![c] = "killing"] /\ step'[c] = "killing" /\ pm'[c] = p
        /\ UNCHANGED <<events, grace>> /\ p \in Pm /\ p \in 1..last /\ p # 0
    BY <1>4, <2>1, ClientIsTyped, ListedAre DEF AskToKill
  <2>3. c \notin grace /\ (c \in Starters => c \notin sending)
    BY <1>1, ClientIsTyped, ClientKnows DEF Sent, Final
  <2>4. ClientMoves(c) BY <1>2, <2>1, <2>2, ClientIsTyped, SameShrinks DEF ClientMoves
  <2>5. ClientTyped(c) BY <1>2, <2>2, <2>3, ClientIsTyped DEF ClientTyped, Steps
  <2>6. ExitOf(c)' BY <1>2, <2>2, <2>3 DEF ExitOf, Dealing
  <2>7. MissOf(c)' /\ WaitOf(c)' BY <2>2, NotListening DEF Listening
  <2>8. step[c] \notin Sent /\ step'[c] # "started" BY <1>1, <2>2 DEF Sent, Final
  <2>9. ClientShown(c) BY <1>2, <2>3, <2>6, <2>7, <2>8, ClientKnows DEF ClientShown
  <2>. QED BY <2>4, <2>5, <2>9, ClientStep
<1>. QED BY <1>3, <1>4

\* sendMessage sets out.
LEMMA SendMessageStep ==
  ASSUME TypeOK, Works, NEW c \in Clients, SendMessage(c) PROVE TypeOK' /\ Works'
<1>1. /\ step' = [step EXCEPT ![c] = "talking"] /\ step[c] = "ready" /\ step'[c] = "talking"
      /\ pm[c] # 0
  BY ClientIsTyped DEF SendMessage
<1>2. UNCHANGED <<last, proc, phase, owed, served, wire, inbox, pm, buffer, exited, since,
                  stale, grace, events>>
  BY DEF SendMessage, daemonVars, childVars, chanVars
<1>3. MissOf(c)' /\ WaitOf(c)' BY <1>1, NotListening DEF Listening
<1>4. c \notin grace /\ c \notin exited /\ sending' = sending \cup {c}
  BY <1>1, ClientIsTyped, ClientKnows DEF ExitOf, Final, SendMessage
<1>. QED BY <1>1, <1>2, <1>3, <1>4, SameShrinks, GoStep DEF Steps, Final, Dealing, Sent

\* A client fails, for a reason that is no exit, or for one that is.
LEMMA FailStep ==
  ASSUME TypeOK, Works, NEW c \in Clients, NEW why \in {"refused", "timeout", "exit"}, Fail(c,
         why),
         step[c] = "talking" \/ (step[c] = "waiting" /\ why = "timeout"),
         why = "exit" => (c \notin stale => proc[pm[c]] \in {"dead", "gone"}),
         UNCHANGED <<last, proc, phase, owed, served, wire, inbox, pm, buffer, exited, since,
                     stale>>,
         sending' \in {sending, sending \ {c}}
  PROVE  TypeOK' /\ Works'
<1>1. pm[c] # 0 BY ClientIsTyped
<1>2. CASE c \in Starters
  <2>1. /\ step' = [step EXCEPT ![c] = why] /\ step'[c] = why /\ c \notin grace'
        /\ grace' = grace \ {c}
        /\ Shrinks(c) /\ ToSet(events'[c]) = {}
    BY <1>2, ClientIsTyped, EmptyShrinks DEF Fail, EndAs
  <2>2. ClientMoves(c) BY <2>1, ClientIsTyped DEF ClientMoves
  <2>3. ClientTyped(c) BY <2>1, ClientIsTyped DEF ClientTyped, Steps, Final
  <2>4. MissOf(c)' /\ WaitOf(c)' BY <2>1, NotListening DEF Listening
  <2>5. ExitOf(c)' BY <1>1, <2>1 DEF ExitOf, Dealing, Final
  <2>6. step'[c] \in Sent /\ step'[c] # "started" BY <2>1 DEF Sent, Final
  <2>7. ClientShown(c) BY <2>4, <2>5, <2>6, ClientKnows DEF ClientShown
  <2>. QED BY <2>2, <2>3, <2>7, ClientStep
<1>3. CASE c \notin Starters
  <2>1. /\ step' = [step EXCEPT ![c] = "kill"] /\ step'[c] = "kill" /\ grace' = grace \ {c}
        /\ UNCHANGED events
    BY <1>3, ClientIsTyped DEF Fail
  <2>2. MissOf(c)' /\ WaitOf(c)' BY <2>1, NotListening DEF Listening
  <2>3. Shrinks(c) BY <2>1, SameShrinks
  <2>. QED BY <1>3, <2>1, <2>2, <2>3, GoStep DEF Steps, Final, Dealing, Sent
<1>. QED BY <1>2, <1>3

\* A wait runs into its timeout.
LEMMA TimeoutStep ==
  ASSUME TypeOK, Works, NEW c \in Clients, Timeout(c) PROVE TypeOK' /\ Works'
<1>1. /\ Fail(c, "timeout") /\ step[c] \in {"waiting", "talking"}
      /\ UNCHANGED <<last, proc, phase, owed, served, wire, inbox, pm, buffer, sending, exited,
                     since, stale>>
  BY DEF Timeout, daemonVars, childVars, chanVars
<1>. QED BY <1>1, FailStep

\* The exit timer fires: the exit it was armed by makes the blame right.
LEMMA GraceOverStep ==
  ASSUME TypeOK, Works, NEW c \in Clients, GraceOver(c) PROVE TypeOK' /\ Works'
<1>1. /\ Fail(c, "exit") /\ c \in grace
      /\ UNCHANGED <<last, proc, phase, owed, served, wire, inbox, pm, buffer, sending, exited,
                     since, stale>>
  BY DEF GraceOver, daemonVars, childVars, chanVars
<1>2. step[c] = "talking" BY <1>1, ClientIsTyped
<1>3. c \notin stale => proc[pm[c]] = "gone"
  BY <1>1, <1>2, ClientKnows DEF ExitOf, HasExit, Dealing
<1>. QED BY <1>1, <1>2, <1>3, FailStep
-----------------------------------------------------------------------------
(* Clients: messages and the bus. *)

\* Client c writes message m to the inbox of its process.
LEMMA Written ==
  ASSUME TypeOK, NEW c \in Clients, pm[c] \in Pm, NEW m \in MessageOf,
         inbox' = [inbox EXCEPT ![pm[c]] = Append(@, m)]
  PROVE  /\ inbox' \in [Pm -> Seq(MessageOf)]
         /\ \A p \in Pm : \A x \in ToSet(inbox'[p]) : x \in ToSet(inbox[p]) \/ (x = m /\ p = pm[c])
<1>1. inbox \in [Pm -> Seq(MessageOf)] /\ inbox[pm[c]] \in Seq(MessageOf) BY ClientIsTyped
<1>2. /\ Append(inbox[pm[c]], m) \in Seq(MessageOf)
      /\ ToSet(Append(inbox[pm[c]], m)) = ToSet(inbox[pm[c]]) \cup {m}
  BY <1>1, Appended
<1>. QED BY <1>1, <1>2

\* The daemon writes the message to the child, or refuses.
LEMMA ForwardStep ==
  ASSUME TypeOK, Works, NEW c \in Clients, Forward(c) PROVE TypeOK' /\ Works'
<1>1. /\ UNCHANGED <<last, proc, phase, owed, served, wire, pm, buffer, exited, since, stale>>
      /\ c \in sending /\ sending' = sending \ {c}
  BY DEF Forward, daemonVars, childVars
<1>2. CASE pm[c] \in Listed /\ phase[pm[c]] # "disconnected"
  <2>1. /\ inbox' = [inbox EXCEPT ![pm[c]] = Append(@, Message(c, Topic(c)))]
        /\ UNCHANGED <<step, grace, events>> /\ pm[c] \in Pm
    BY <1>2 DEF Forward, Listed
  <2>2. Message(c, Topic(c)) \in MessageOf BY DEF Message, Topic, MessageOf
  <2>3. /\ inbox' \in [Pm -> Seq(MessageOf)]
        /\ \A p \in Pm : \A x \in ToSet(inbox'[p]) :
              x \in ToSet(inbox[p]) \/ (x = Message(c, Topic(c)) /\ p = pm[c])
    BY <2>1, <2>2, Written
  <2>4. c \in Starters => step[c] \in Sent BY <1>1, ClientKnows
  <2>5. Message(c, Topic(c)).from = c /\ (Message(c, Topic(c)).topic = "stop" => c \in Stoppers)
    BY DEF Message, Topic, Clients
  <2>6. \A p \in Pm : \A m \in ToSet(inbox'[p]) :
           \/ m \in ToSet(inbox[p])
           \/ /\ m.from = c /\ p = pm'[c] /\ (c \in Starters => step'[c] \in Sent)
              /\ m.topic = "stop" => c \in Stoppers
    BY <1>1, <2>1, <2>3, <2>4, <2>5
  <2>7. ClientMoves(c) BY <1>1, <2>1, <2>3, <2>6, ClientIsTyped, SameShrinks DEF ClientMoves
  <2>8. ClientTyped(c) BY <1>1, <2>1, ClientIsTyped DEF ClientTyped
  <2>9. ExitOf(c)' BY <1>1, <2>1, ClientKnows DEF ExitOf, HasExit
  <2>10. WaitOf(c)' /\ (c \in Starters => MissOf(c)')
    BY <1>1, <2>1, ClientKnows DEF WaitOf, MissOf, Said, Heard
  <2>11. ClientShown(c) BY <1>1, <2>1, <2>4, <2>9, <2>10, ClientKnows DEF ClientShown
  <2>. QED BY <2>7, <2>8, <2>11, ClientStep
<1>3. CASE ~(pm[c] \in Listed /\ phase[pm[c]] # "disconnected") /\ step[c] = "talking"
  <2>1. Fail(c, "refused") /\ UNCHANGED inbox BY <1>3 DEF Forward
  <2>. QED BY <1>1, <1>3, <2>1, FailStep
<1>4. CASE ~(pm[c] \in Listed /\ phase[pm[c]] # "disconnected") /\ step[c] # "talking"
  <2>1. UNCHANGED <<step, grace, events, inbox>> BY <1>4 DEF Forward
  <2>2. ClientMoves(c) BY <1>1, <2>1, ClientIsTyped, SameShrinks DEF ClientMoves
  <2>3. ClientTyped(c) BY <1>1, <2>1, ClientIsTyped DEF ClientTyped
  <2>4. ExitOf(c)' BY <1>1, <2>1, ClientKnows DEF ExitOf, HasExit
  <2>5. WaitOf(c)' /\ (c \in Starters => MissOf(c)')
    BY <1>1, <2>1, ClientKnows DEF WaitOf, MissOf, Said, Heard
  <2>6. ClientShown(c) BY <1>1, <2>1, <2>4, <2>5, ClientKnows DEF ClientShown
  <2>. QED BY <2>2, <2>3, <2>6, ClientStep
<1>. QED BY <1>2, <1>3, <1>4

\* A start is aborted, and may tell its child.
LEMMA AbortStep ==
  ASSUME TypeOK, Works, NEW c \in Clients, Abort(c) PROVE TypeOK' /\ Works'
<1>1. /\ UNCHANGED <<last, proc, phase, owed, served, wire, pm, buffer, sending, exited, since,
                     stale>>
      /\ EndAs(c, "aborted") /\ step[c] \in {"waiting", "talking"} /\ c \in Starters
  BY DEF Abort, daemonVars, childVars
<1>2. CASE UNCHANGED inbox
  <2>1. "aborted" \in Final /\ step[c] \notin Final BY <1>1 DEF Final
  <2>. QED BY <1>1, <1>2, <2>1, EndStep
<1>3. CASE ~UNCHANGED inbox
  <2>1. /\ inbox' = [inbox EXCEPT ![pm[c]] = Append(@, Message(c, "abort"))]
        /\ pm[c] \in Pm
    BY <1>3 DEF Abort, Listed
  <2>2. Message(c, "abort") \in MessageOf BY DEF Message, MessageOf
  <2>3. /\ inbox' \in [Pm -> Seq(MessageOf)]
        /\ \A p \in Pm : \A x \in ToSet(inbox'[p]) :
              x \in ToSet(inbox[p]) \/ (x = Message(c, "abort") /\ p = pm[c])
    BY <2>1, <2>2, Written
  <2>4. /\ Shrinks(c) /\ ToSet(events'[c]) = {} /\ step'[c] = "aborted" /\ grace' = grace \ {c}
        /\ step' = [step EXCEPT ![c] = "aborted"]
    BY <1>1, EmptyShrinks, ClientIsTyped DEF EndAs
  <2>5. Message(c, "abort").from = c /\ Message(c, "abort").topic # "stop" BY DEF Message
  <2>6. step'[c] \in Sent /\ step'[c] # "started" BY <2>4 DEF Sent, Final
  <2>7. \A p \in Pm : \A m \in ToSet(inbox'[p]) :
           \/ m \in ToSet(inbox[p])
           \/ /\ m.from = c /\ p = pm'[c] /\ (c \in Starters => step'[c] \in Sent)
              /\ m.topic = "stop" => c \in Stoppers
    BY <1>1, <2>3, <2>5, <2>6
  <2>8. ClientMoves(c) BY <1>1, <2>3, <2>4, <2>7, ClientIsTyped DEF ClientMoves
  <2>9. ClientTyped(c) BY <1>1, <2>4, ClientIsTyped DEF ClientTyped, Steps, Final
  <2>10. ExitOf(c)' BY <2>4 DEF ExitOf, Dealing, Final
  <2>11. MissOf(c)' /\ WaitOf(c)' BY <2>4, NotListening DEF Listening
  <2>12. ClientShown(c) BY <1>1, <2>6, <2>10, <2>11, ClientKnows DEF ClientShown
  <2>. QED BY <2>8, <2>9, <2>12, ClientStep
<1>. QED BY <1>2, <1>3

\* What client c has at the head of its bus.
LEMMA HeadIs ==
  ASSUME TypeOK, Works, NEW c \in Clients, events[c] # <<>>
  PROVE  /\ Head(events[c]) \in EventOf /\ Head(events[c]) \in ToSet(events[c])
         /\ Success(Head(events[c]))
         /\ Head(events[c]).event = "exit" => proc[Head(events[c]).pm] = "gone" /\ HasExit(c)
<1>1. events[c] \in Seq(EventOf) BY TypeParts DEF ChannelTypes
<1>2. Head(events[c]) \in EventOf /\ Head(events[c]) \in ToSet(events[c]) BY <1>1, Tailed
<1>. QED BY <1>2, ClientKnows DEF HasExit

\* An event is buffered: it is heard now.
LEMMA BufferEventStep ==
  ASSUME TypeOK, Works, NEW c \in Clients, BufferEvent(c) PROVE TypeOK' /\ Works'
<1>. DEFINE e == Head(events[c])
<1>1. /\ UNCHANGED <<last, proc, phase, owed, served, wire, inbox, step, pm, sending, grace,
                     exited, since, stale>>
      /\ events[c] # <<>> /\ e.event \in {"ready", "exit"} /\ step[c] \in {"subscribed", "told"}
      /\ Rest(c)
      /\ buffer' = [buffer EXCEPT ![c][e.event] = @ \cup {e.pm}]
  BY DEF BufferEvent, daemonVars, childVars, chanVars, Hears, Buffering
<1>2. /\ e \in EventOf /\ e.pm \in Pm /\ (e.event = "exit" => proc[e.pm] = "gone")
      /\ Shrinks(c) /\ ToSet(events[c]) = {e} \cup ToSet(events'[c])
  BY <1>1, HeadIs, RestShrinks DEF EventOf
<1>. HIDE DEF e
<1>3. /\ e.event = "ready" => buffer'[c] = [buffer[c] EXCEPT !.ready = @ \cup {e.pm}]
      /\ e.event = "exit" => buffer'[c] = [buffer[c] EXCEPT !.exit = @ \cup {e.pm}]
      /\ buffer' = [buffer EXCEPT ![c] = buffer'[c]]
  BY <1>1, ClientIsTyped
<1>4. /\ buffer'[c] \in [ready : SUBSET Pm, exit : SUBSET Pm]
      /\ Heard(c)' = Heard(c) \cup {e.pm}
      /\ \A p \in buffer'[c].exit : proc[p] = "gone"
  BY <1>1, <1>2, <1>3, ClientIsTyped, ClientKnows DEF Heard
<1>5. ClientMoves(c) BY <1>1, <1>2, <1>3, ClientIsTyped DEF ClientMoves
<1>6. ClientTyped(c) BY <1>1, <1>4, ClientIsTyped DEF ClientTyped
<1>7. WaitOf(c)' BY <1>1 DEF WaitOf
<1>8. c \in Starters => MissOf(c)'
  <2>1. \A p \in Pm : Said(c, p) => Said(c, p)' \/ p = e.pm BY <1>1, <1>2 DEF Said
  <2>. QED BY <1>1, <1>4, <2>1, ClientKnows DEF MissOf, Listening
<1>9. HasExit(c)' => HasExit(c) BY <1>1, <1>2 DEF HasExit
<1>10. ExitOf(c)' BY <1>1, <1>9, ClientKnows DEF ExitOf
<1>11. ClientShown(c) BY <1>1, <1>4, <1>7, <1>8, <1>10, ClientKnows DEF ClientShown
<1>. QED BY <1>5, <1>6, <1>11, ClientStep

\* An event ends the wait.
LEMMA WaitEndsStep ==
  ASSUME TypeOK, Works, NEW c \in Clients, WaitEnds(c) PROVE TypeOK' /\ Works'
<1>1. /\ UNCHANGED <<last, proc, phase, owed, served, wire, inbox, pm, buffer, sending, exited,
                     since, stale>>
      /\ step[c] = "waiting" /\ events[c] # <<>> /\ pm[c] # 0
  BY ClientIsTyped DEF WaitEnds, Hears, daemonVars, childVars, chanVars
<1>2. CASE Head(events[c]).event = "exit"
  <2>1. EndAs(c, "exit") /\ "exit" \in Final /\ step[c] \notin Final
    BY <1>1, <1>2 DEF WaitEnds, Final
  <2>2. HasExit(c) BY <1>1, <1>2, HeadIs
  <2>3. c \notin stale => proc[pm[c]] = "gone" BY <1>1, <2>2, ClientKnows DEF ExitOf, Dealing
  <2>. QED BY <1>1, <2>1, <2>3, EndStep
<1>3. CASE Head(events[c]).event # "exit"
  <2>1. /\ step' = [step EXCEPT ![c] = "ready"] /\ step'[c] = "ready" /\ Rest(c) /\ UNCHANGED grace
    BY <1>3, ClientIsTyped DEF WaitEnds
  <2>2. Shrinks(c) BY <1>1, <2>1, RestShrinks
  <2>3. MissOf(c)' /\ WaitOf(c)' BY <2>1, NotListening DEF Listening
  <2>4. c \notin grace /\ c \notin exited /\ (c \in Starters => c \notin sending)
    BY <1>1, ClientIsTyped, ClientKnows DEF ExitOf, Sent, Final
  <2>. QED BY <1>1, <2>1, <2>2, <2>3, <2>4, GoStep DEF Steps, Final, Dealing, Sent
<1>. QED BY <1>2, <1>3

\* The answer to the message: a result comes from a process whose startup succeeded.
LEMMA HearAnswerStep ==
  ASSUME TypeOK, Works, NEW c \in Clients, HearAnswer(c) PROVE TypeOK' /\ Works'
<1>. DEFINE e == Head(events[c])
<1>1. /\ UNCHANGED <<last, proc, phase, owed, served, wire, inbox, pm, buffer, sending, exited,
                     since, stale>>
      /\ step[c] = "talking" /\ events[c] # <<>> /\ pm[c] # 0
      /\ e.event \in {"result", "error"} /\ e.pm = pm[c] /\ e.to = c
  BY ClientIsTyped DEF HearAnswer, IsAnswer, daemonVars, childVars, chanVars
<1>2. CASE c \in Starters
  <2>1. PICK r \in {"started", "error"} : r = IF e.event = "result" THEN "started" ELSE "error" OBVIOUS
  <2>2. EndAs(c, r) /\ r \in Final /\ step[c] \notin Final
    BY <1>1, <1>2, <2>1 DEF HearAnswer, Final
  <2>3. r = "started" => pm[c] \in served BY <1>1, <1>2, <2>1, HeadIs DEF Success
  <2>. QED BY <1>1, <2>1, <2>2, <2>3, EndStep
<1>3. CASE c \notin Starters
  <2>1. PICK a \in {"closing", "kill"} : a = IF e.event = "result" THEN "closing" ELSE "kill" OBVIOUS
  <2>2. /\ step' = [step EXCEPT ![c] = a] /\ step'[c] = a /\ Rest(c) /\ grace' = grace \ {c}
    BY <1>3, <2>1, ClientIsTyped DEF HearAnswer
  <2>3. Shrinks(c) BY <1>1, <2>2, RestShrinks
  <2>4. MissOf(c)' /\ WaitOf(c)' BY <2>1, <2>2, NotListening DEF Listening
  <2>5. /\ a \in Steps /\ a \notin Final /\ step[c] \notin Final /\ step[c] \in Dealing
        /\ c \in Stoppers
    BY <1>1, <1>3 DEF Clients, Steps, Final, Dealing
  <2>. QED BY <1>1, <1>3, <2>1, <2>2, <2>3, <2>4, <2>5, GoStep
<1>. QED BY <1>2, <1>3

\* An exit is heard by a client that talks to its process, or closes.
LEMMA HeardStep ==
  ASSUME TypeOK, Works, NEW c \in Clients, step[c] \in {"talking", "closing"}, Hears(c,
         {"exit"}), Rest(c),
         UNCHANGED <<last, proc, phase, owed, served, wire, inbox, step, pm, buffer, sending,
                     since, stale>>,
         grace' \subseteq grace \cup {c}, c \in grace' => step[c] = "talking",
         exited' \subseteq exited \cup {c}, c \in exited' => c \in Stoppers
  PROVE  TypeOK' /\ Works'
<1>1. /\ events[c] # <<>> /\ Head(events[c]).event = "exit"
      /\ step[c] \notin Listening /\ step[c] \in Dealing
  BY DEF Hears, Listening, Dealing
<1>2. HasExit(c) /\ Shrinks(c) BY <1>1, HeadIs, RestShrinks
<1>3. ClientMoves(c) BY <1>2, ClientIsTyped DEF ClientMoves
<1>4. ClientTyped(c) BY ClientIsTyped DEF ClientTyped
<1>5. ExitOf(c)' BY <1>1, <1>2, ClientKnows DEF ExitOf
<1>6. MissOf(c)' /\ WaitOf(c)' BY <1>1, NotListening
<1>7. ClientShown(c) BY <1>5, <1>6, ClientKnows DEF ClientShown
<1>. QED BY <1>3, <1>4, <1>7, ClientStep

\* The two steps that hear an exit.
LEMMA HearExitStep ==
  ASSUME TypeOK, Works, NEW c \in Clients, HearExit(c) \/ HearExitClosing(c)
  PROVE  TypeOK' /\ Works'
<1>1. CASE HearExit(c)
  BY <1>1, HeardStep, ClientIsTyped DEF HearExit, OnExit, daemonVars, childVars, chanVars
<1>2. CASE HearExitClosing(c)
  <2>1. c \in Stoppers BY <1>2, ClientKnows DEF HearExitClosing, ExitOf
  <2>. QED
    BY <1>2, <2>1, HeardStep, ClientIsTyped DEF HearExitClosing, daemonVars, childVars, chanVars
<1>. QED BY <1>1, <1>2

\* An event nobody listens for is not one that a start waits for.
LEMMA IgnoreStep ==
  ASSUME TypeOK, Works, NEW c \in Clients, Ignore(c) PROVE TypeOK' /\ Works'
<1>1. /\ UNCHANGED <<last, proc, phase, owed, served, wire, inbox, step, pm, buffer, sending,
                     grace, exited, since, stale>>
      /\ events[c] # <<>> /\ Rest(c)
      /\ step[c] \in Listening => Head(events[c]).event \notin {"ready", "exit"}
  BY DEF Ignore, Listening, Buffering, Hears, daemonVars, childVars, chanVars, clientVars
<1>2. Shrinks(c) /\ ToSet(events[c]) = {Head(events[c])} \cup ToSet(events'[c])
  BY <1>1, RestShrinks
<1>3. ClientMoves(c) BY <1>1, <1>2, ClientIsTyped DEF ClientMoves
<1>4. ClientTyped(c) BY <1>1, ClientIsTyped DEF ClientTyped
<1>5. WaitOf(c)' BY <1>1, ClientKnows DEF WaitOf, Heard
<1>6. c \in Starters => MissOf(c)'
  <2>1. step[c] \in Listening => \A p \in Pm : Said(c, p) => Said(c, p)' BY <1>1, <1>2 DEF Said
  <2>2. Heard(c)' = Heard(c) BY <1>1 DEF Heard
  <2>. QED BY <1>1, <2>1, <2>2, ClientKnows DEF MissOf
<1>7. HasExit(c)' => HasExit(c) BY <1>1, <1>2 DEF HasExit
<1>8. ExitOf(c)' BY <1>1, <1>7, ClientKnows DEF ExitOf
<1>9. ClientShown(c) BY <1>1, <1>5, <1>6, <1>8, ClientKnows DEF ClientShown
<1>. QED BY <1>3, <1>4, <1>9, ClientStep

\* The bus of a client, whatever is next on it.
LEMMA DeliverStep ==
  ASSUME TypeOK, Works, NEW c \in Clients, Deliver(c) PROVE TypeOK' /\ Works'
BY BufferEventStep, WaitEndsStep, HearAnswerStep, HearExitStep, IgnoreStep DEF Deliver
-----------------------------------------------------------------------------
(* The child. *)

Phases == {"none", "booting", "idle", "starting", "aborting", "serving",
           "stopping", "disconnected", "leaving"}

\* Client c has a message on its way to child p, or is owed an answer by it.
Asked(c, p) == (\E m \in ToSet(inbox[p]) : m.from = c) \/ c \in ToSet(owed[p])
AllAsked(cs, p) == \A c \in ToSet(cs) : Asked(c, p)

\* What a step of child p may change.
ChildMoves(p) ==
  /\ UNCHANGED <<last, proc, events, step, pm, buffer, sending, grace, exited, since, stale>>
  /\ phase' = [phase EXCEPT ![p] = phase'[p]] /\ phase'[p] \in Phases
  /\ inbox' = [inbox EXCEPT ![p] = inbox'[p]] /\ inbox'[p] \in Seq(MessageOf)
  /\ ToSet(inbox'[p]) \subseteq ToSet(inbox[p])
  /\ owed' = [owed EXCEPT ![p] = owed'[p]] /\ owed'[p] \in Seq(Clients)
  /\ \A c \in ToSet(owed'[p]) : Asked(c, p)
  /\ wire' = [wire EXCEPT ![p] = wire'[p]] /\ wire'[p] \in Seq(EventOf)
  /\ ToSet(wire[p]) \subseteq ToSet(wire'[p])
  /\ \A e \in ToSet(wire'[p]) \ ToSet(wire[p]) :
       /\ e.event # "exit" /\ e.pm = p
       /\ e.event = "result" /\ e.to \in Starters => p \in served'
       /\ e.to \in Starters => Asked(e.to, p)
  /\ served \subseteq served' /\ served' \subseteq served \cup {p}
  /\ phase'[p] \in {"serving", "stopping"} => p \in served'
  /\ phase[p] = "booting" =>
       phase'[p] = "booting" \/ \E e \in ToSet(wire'[p]) : e.event = "ready" /\ e.pm = p

\* A step of a child that moves so keeps the invariant.
LEMMA ChildStep ==
  ASSUME TypeOK, Works, NEW p \in Pm, ChildMoves(p)
  PROVE  TypeOK' /\ Works'
<1>1. TypeOK'
  <2>1. DaemonTypes' BY TypeParts DEF DaemonTypes, ChildMoves, Phases
  <2>2. ChannelTypes' BY TypeParts DEF ChannelTypes, ChildMoves
  <2>3. ClientTypes' BY TypeParts DEF ClientTypes, ChildMoves
  <2>. QED BY <2>1, <2>2, <2>3 DEF TypeOK, DaemonTypes, ChannelTypes, ClientTypes
<1>2. UNCHANGED <<last, proc, events, step, pm, buffer, sending, grace, exited, since, stale>>
  BY DEF ChildMoves
<1>3. \A q \in Pm \ {p} :
        phase'[q] = phase[q] /\ inbox'[q] = inbox[q] /\ owed'[q] = owed[q] /\ wire'[q] = wire[q]
  BY TypeParts DEF ChildMoves, DaemonTypes, ChannelTypes
<1>4. \A q \in Pm : ToSet(wire[q]) \subseteq ToSet(wire'[q]) BY <1>3 DEF ChildMoves
<1>5. OneListed' BY <1>2 DEF Works, OneListed, Listed
<1>6. MissInv'
  <2>. SUFFICES ASSUME NEW c \in Starters, step[c] \in Listening, NEW q \in Pm, since[c] < q, q <= last
                PROVE  \/ proc[q] = "online" /\ phase'[q] = "booting"
                       \/ proc[q] = "dead" \/ Said(c, q)' \/ q \in Heard(c)
    BY <1>2 DEF MissInv, MissOf, Heard
  <2>1. \/ proc[q] = "online" /\ phase[q] = "booting"
        \/ proc[q] = "dead" \/ Said(c, q) \/ q \in Heard(c)
    BY DEF Works, MissInv, MissOf
  <2>2. Said(c, q) => Said(c, q)' BY <1>2, <1>4 DEF Said
  <2>3. CASE q = p
    <3>1. phase[q] = "booting" => phase'[q] = "booting" \/ Said(c, q)'
      BY <2>3 DEF ChildMoves, Said
    <3>. QED BY <2>1, <2>2, <3>1
  <2>4. CASE q # p BY <2>1, <2>2, <2>4, <1>3
  <2>. QED BY <2>3, <2>4
<1>7. WaitInv' BY <1>2 DEF Works, WaitInv, WaitOf, Heard
<1>8. ServedInv'
  <2>1. \A q \in Pm : phase'[q] \in {"serving", "stopping"} => q \in served'
    BY <1>3 DEF Works, ServedInv, ChildMoves
  <2>2. \A q \in Pm : \A m \in ToSet(inbox'[q]) : m.topic = "stop" => m.from \in Stoppers
    BY <1>3 DEF Works, ServedInv, ChildMoves
  <2>3. \A q \in Pm : \A e \in ToSet(wire'[q]) : Success(e)'
    <3>. SUFFICES ASSUME NEW q \in Pm, NEW e \in ToSet(wire'[q]) PROVE Success(e)' OBVIOUS
    <3>1. CASE e \in ToSet(wire[q]) BY <3>1 DEF Works, ServedInv, Success, ChildMoves
    <3>2. CASE e \notin ToSet(wire[q]) BY <3>2, <1>3 DEF Success, ChildMoves
    <3>. QED BY <3>1, <3>2
  <2>4. \A d \in Clients : \A e \in ToSet(events'[d]) : Success(e)'
    BY <1>2 DEF Works, ServedInv, Success, ChildMoves
  <2>5. \A d \in Clients : step'[d] = "started" => pm'[d] \in served'
    BY <1>2 DEF Works, ServedInv, ChildMoves
  <2>. QED BY <2>1, <2>2, <2>3, <2>4, <2>5 DEF ServedInv
<1>9. GoneInv'
  <2>1. \A q \in Pm : \A e \in ToSet(wire'[q]) : e.event # "exit" /\ e.pm = q
    BY <1>3 DEF Works, GoneInv, ChildMoves
  <2>. QED BY <2>1, <1>2 DEF Works, GoneInv
<1>10. ExitInv' BY <1>2 DEF Works, ExitInv, ExitOf, HasExit
<1>11. AnswerInv'
  <2>1. \A c \in Starters, q \in Pm :
       (\/ \E m \in ToSet(inbox'[q]) : m.from = c
        \/ c \in ToSet(owed'[q])
        \/ \E e \in ToSet(wire'[q]) : e.to = c)
       => step[c] \in Sent /\ pm[c] = q
    <3>. SUFFICES ASSUME NEW c \in Starters, NEW q \in Pm,
                         \/ \E m \in ToSet(inbox'[q]) : m.from = c
                         \/ c \in ToSet(owed'[q])
                         \/ \E e \in ToSet(wire'[q]) : e.to = c
                  PROVE  step[c] \in Sent /\ pm[c] = q
      OBVIOUS
    <3>1. Asked(c, q) \/ (\E e \in ToSet(wire[q]) : e.to = c) 
      <4>1. CASE q = p
        <5>1. CASE \E e \in ToSet(wire'[q]) : e.to = c BY <4>1, <5>1 DEF ChildMoves
        <5>2. CASE \E m \in ToSet(inbox'[q]) : m.from = c BY <4>1, <5>2 DEF ChildMoves, Asked
        <5>3. CASE c \in ToSet(owed'[q]) BY <4>1, <5>3 DEF ChildMoves
        <5>. QED BY <5>1, <5>2, <5>3
      <4>2. CASE q # p BY <4>2, <1>3 DEF Asked
      <4>. QED BY <4>1, <4>2
    <3>. QED BY <3>1 DEF Asked, Works, AnswerInv
  <2>. QED BY <2>1, <1>2 DEF Works, AnswerInv
<1>. QED BY <1>1, <1>5, <1>6, <1>7, <1>8, <1>9, <1>10, <1>11 DEF Works

\* What a child has, by type.
LEMMA ChildIsTyped ==
  ASSUME TypeOK, NEW p \in Pm
  PROVE  /\ phase \in [Pm -> Phases] /\ phase[p] \in Phases
         /\ owed \in [Pm -> Seq(Clients)] /\ owed[p] \in Seq(Clients)
         /\ inbox \in [Pm -> Seq(MessageOf)] /\ inbox[p] \in Seq(MessageOf)
         /\ wire \in [Pm -> Seq(EventOf)] /\ wire[p] \in Seq(EventOf)
         /\ served \subseteq Pm
BY TypeParts DEF DaemonTypes, ChannelTypes, Phases

\* A child says ready: it is no longer booting, and that it said so is on its wire.
LEMMA ChildReadyStep ==
  ASSUME TypeOK, Works, NEW p \in Pm, ChildReady(p) PROVE TypeOK' /\ Works'
<1>. DEFINE e == Event("ready", p, "none")
<1>1. e \in EventOf /\ e.event = "ready" /\ e.pm = p /\ e.to = "none" BY DEF Event, EventOf
<1>. HIDE DEF e
<1>2. wire' = [wire EXCEPT ![p] = Append(@, e)] /\ phase' = [phase EXCEPT ![p] = "idle"]
  BY DEF ChildReady, e
<1>3. /\ UNCHANGED <<last, proc, owed, served, inbox, events, step, pm, buffer, sending, grace,
                     exited, since, stale>>
      /\ phase[p] = "booting"
  BY DEF ChildReady, daemonVars, clientVars
<1>4. wire'[p] \in Seq(EventOf) /\ ToSet(wire'[p]) = ToSet(wire[p]) \cup {e}
  BY <1>1, <1>2, ChildIsTyped, Appended
<1>5. \A c \in ToSet(owed[p]) : Asked(c, p) BY DEF Asked
<1>6. ChildMoves(p)
  BY <1>1, <1>2, <1>3, <1>4, <1>5, ChildIsTyped, NoneIsNoClient DEF ChildMoves, Phases
<1>. QED BY <1>6, ChildStep

\* The message a child takes.
LEMMA Taken ==
  ASSUME TypeOK, Works, NEW p \in Pm, NEW c \in Clients, NEW topic, NEW phases, Takes(p, c,
         topic, phases)
  PROVE  /\ UNCHANGED <<last, proc, events, step, pm, buffer, sending, grace, exited, since,
                        stale>>
         /\ inbox' = [inbox EXCEPT ![p] = inbox'[p]] /\ inbox'[p] \in Seq(MessageOf)
         /\ ToSet(inbox'[p]) \subseteq ToSet(inbox[p])
         /\ Asked(c, p) /\ (topic = "stop" => c \in Stoppers) /\ phase[p] \in phases
         /\ \A d \in ToSet(owed[p]) : Asked(d, p)
<1>1. /\ inbox[p] # <<>> /\ Head(inbox[p]) = Message(c, topic)
      /\ inbox' = [inbox EXCEPT ![p] = Tail(@)] /\ phase[p] \in phases
      /\ UNCHANGED <<last, proc, events, step, pm, buffer, sending, grace, exited, since,
                     stale>>
  BY DEF Takes, daemonVars, clientVars
<1>2. /\ Tail(inbox[p]) \in Seq(MessageOf)
      /\ ToSet(inbox[p]) = {Head(inbox[p])} \cup ToSet(Tail(inbox[p]))
  BY <1>1, ChildIsTyped, Tailed
<1>3. inbox'[p] = Tail(inbox[p]) BY <1>1, ChildIsTyped
<1>4. /\ Message(c, topic) \in ToSet(inbox[p]) /\ Message(c, topic).from = c
      /\ Message(c, topic).topic = topic
  BY <1>1, <1>2 DEF Message
<1>5. Asked(c, p) /\ (topic = "stop" => c \in Stoppers) BY <1>4 DEF Asked, Works, ServedInv
<1>. QED BY <1>1, <1>2, <1>3, <1>5 DEF Asked

\* A child owes client c an answer, too.
LEMMA OwedToo ==
  ASSUME TypeOK, NEW p \in Pm, NEW c \in Clients, Asked(c, p),
         owed' = [owed EXCEPT ![p] = Append(@, c)]
  PROVE  /\ owed' = [owed EXCEPT ![p] = owed'[p]] /\ owed'[p] \in Seq(Clients)
         /\ \A d \in ToSet(owed'[p]) : Asked(d, p)
<1>1. Append(owed[p], c) \in Seq(Clients) /\ ToSet(Append(owed[p], c)) = ToSet(owed[p]) \cup {c}
  BY ChildIsTyped, Appended
<1>. QED BY <1>1, ChildIsTyped DEF Asked

\* A child answers those it was asked by.
LEMMA Answered ==
  ASSUME TypeOK, NEW p \in Pm, NEW kind \in {"result", "error"}, NEW cs \in Seq(Clients),
         NEW ph \in Phases,
         Answers(p, kind, cs, ph), AllAsked(cs, p)
  PROVE  /\ phase' = [phase EXCEPT ![p] = phase'[p]] /\ phase'[p] = ph
         /\ wire' = [wire EXCEPT ![p] = wire'[p]] /\ wire'[p] \in Seq(EventOf)
         /\ ToSet(wire[p]) \subseteq ToSet(wire'[p])
         /\ \A e \in ToSet(wire'[p]) \ ToSet(wire[p]) :
              e.event = kind /\ e.pm = p /\ e.to \in ToSet(cs) /\ Asked(e.to, p)
<1>. DEFINE as == [i \in DOMAIN cs |-> Event(kind, p, cs[i])]
<1>1. as \in Seq(EventOf) /\ \A e \in ToSet(as) : e.event = kind /\ e.pm = p /\ e.to \in ToSet(cs)
  BY AnswersHold
<1>2. wire' = [wire EXCEPT ![p] = @ \o as] /\ phase' = [phase EXCEPT ![p] = ph] BY DEF Answers
<1>. HIDE DEF as
<1>3. wire[p] \o as \in Seq(EventOf) /\ ToSet(wire[p] \o as) = ToSet(wire[p]) \cup ToSet(as)
  <2>1. wire[p] \in Seq(EventOf) BY ChildIsTyped
  <2>2. PICK t \in Seq(EventOf) : t = as BY <1>1
  <2>3. wire[p] \o t \in Seq(EventOf) /\ ToSet(wire[p] \o t) = ToSet(wire[p]) \cup ToSet(t)
    BY <2>1, Joined
  <2>. QED BY <2>2, <2>3
<1>4. /\ wire' = [wire EXCEPT ![p] = wire'[p]] /\ wire'[p] = wire[p] \o as
      /\ phase' = [phase EXCEPT ![p] = phase'[p]] /\ phase'[p] = ph
  BY <1>2, ChildIsTyped
<1>. QED BY <1>1, <1>3, <1>4 DEF AllAsked

\* The sequence of one client.
LEMMA OneAnswer ==
  ASSUME NEW c \in Clients PROVE <<c>> \in Seq(Clients) /\ ToSet(<<c>>) = {c}
<1>1. DOMAIN <<c>> = {1} OBVIOUS
<1>. QED BY <1>1 DEF ToSet

\* A start-server message begins a startup or joins one.
LEMMA TakeStartStep ==
  ASSUME TypeOK, Works, NEW p \in Pm, NEW c \in Clients, TakeStart(p, c) PROVE TypeOK' /\ Works'
<1>1. /\ Takes(p, c, "start", {"idle", "starting", "aborting"}) /\ UNCHANGED <<served, wire>>
      /\ phase' = [phase EXCEPT ![p] = IF @ = "idle" THEN "starting" ELSE @]
      /\ owed' = [owed EXCEPT ![p] = Append(@, c)]
  BY DEF TakeStart
<1>2. /\ UNCHANGED <<last, proc, events, step, pm, buffer, sending, grace, exited, since,
                     stale>>
      /\ inbox' = [inbox EXCEPT ![p] = inbox'[p]] /\ inbox'[p] \in Seq(MessageOf)
      /\ ToSet(inbox'[p]) \subseteq ToSet(inbox[p])
      /\ Asked(c, p) /\ phase[p] \in {"idle", "starting", "aborting"}
  BY <1>1, Taken
<1>3. /\ owed' = [owed EXCEPT ![p] = owed'[p]] /\ owed'[p] \in Seq(Clients)
      /\ \A d \in ToSet(owed'[p]) : Asked(d, p)
  BY <1>1, <1>2, OwedToo
<1>4. phase' = [phase EXCEPT ![p] = phase'[p]] /\ phase'[p] \in {"starting", "aborting"}
  BY <1>1, <1>2, ChildIsTyped
<1>5. ChildMoves(p) BY <1>1, <1>2, <1>3, <1>4, ChildIsTyped DEF ChildMoves, Phases
<1>. QED BY <1>5, ChildStep

\* A start-server message to a child that serves: its startup succeeded.
LEMMA TakeStartAgainStep ==
  ASSUME TypeOK, Works, NEW p \in Pm, NEW c \in Clients, TakeStartAgain(p, c)
  PROVE  TypeOK' /\ Works'
<1>1. Takes(p, c, "start", {"serving", "stopping"}) /\ UNCHANGED <<owed, served>>
  BY DEF TakeStartAgain
<1>2. /\ UNCHANGED <<last, proc, events, step, pm, buffer, sending, grace, exited, since,
                     stale>>
      /\ inbox' = [inbox EXCEPT ![p] = inbox'[p]] /\ inbox'[p] \in Seq(MessageOf)
      /\ ToSet(inbox'[p]) \subseteq ToSet(inbox[p])
      /\ Asked(c, p) /\ phase[p] \in {"serving", "stopping"}
      /\ \A d \in ToSet(owed[p]) : Asked(d, p)
  BY <1>1, Taken
<1>3. p \in served BY <1>2 DEF Works, ServedInv
<1>4. CASE Answers(p, "result", <<c>>, phase[p])
  <2>1. /\ phase' = [phase EXCEPT ![p] = phase'[p]] /\ phase'[p] = phase[p]
        /\ wire' = [wire EXCEPT ![p] = wire'[p]] /\ wire'[p] \in Seq(EventOf)
        /\ ToSet(wire[p]) \subseteq ToSet(wire'[p])
        /\ \A e \in ToSet(wire'[p]) \ ToSet(wire[p]) :
              e.event = "result" /\ e.pm = p /\ e.to \in {c} /\ Asked(e.to, p)
    <3>1. PICK ph \in Phases : ph = phase[p] BY ChildIsTyped
    <3>2. PICK cs \in Seq(Clients) : cs = <<c>> /\ ToSet(cs) = {c} BY OneAnswer
    <3>3. Answers(p, "result", cs, ph) BY <1>4, <3>1, <3>2
    <3>4. AllAsked(cs, p) BY <1>2, <3>2 DEF AllAsked
    <3>5. /\ phase' = [phase EXCEPT ![p] = phase'[p]] /\ phase'[p] = ph
          /\ wire' = [wire EXCEPT ![p] = wire'[p]] /\ wire'[p] \in Seq(EventOf)
          /\ ToSet(wire[p]) \subseteq ToSet(wire'[p])
          /\ \A e \in ToSet(wire'[p]) \ ToSet(wire[p]) :
               e.event = "result" /\ e.pm = p /\ e.to \in ToSet(cs) /\ Asked(e.to, p)
      BY <3>3, <3>4, Answered
    <3>. QED BY <3>1, <3>2, <3>5
  <2>2. ChildMoves(p) BY <1>1, <1>2, <1>3, <2>1, ChildIsTyped DEF ChildMoves, Phases
  <2>. QED BY <2>2, ChildStep
<1>5. CASE UNCHANGED <<phase, served, wire>>
  <2>1. ChildMoves(p) BY <1>1, <1>2, <1>3, <1>5, ChildIsTyped DEF ChildMoves, Phases
  <2>. QED BY <2>1, ChildStep
<1>. QED BY <1>4, <1>5 DEF TakeStartAgain

\* A stop-server message to a child that does not serve: only stoppers are told of success.
LEMMA TakeStopStartingStep ==
  ASSUME TypeOK, Works, NEW p \in Pm, NEW c \in Clients,
         TakeStopStarting(p, c) \/ TakeStopIdle(p, c)
  PROVE  TypeOK' /\ Works'
<1>1. PICK ph \in {"aborting", "disconnected"}, phases \in {{"starting", "aborting"}, {"idle", "stopping"}} :
        Takes(p, c, "stop", phases) /\ Answers(p, "result", <<c>>, ph) /\ UNCHANGED <<owed,
                                                                                      served>>
  BY DEF TakeStopStarting, TakeStopIdle
<1>2. /\ UNCHANGED <<last, proc, events, step, pm, buffer, sending, grace, exited, since,
                     stale>>
      /\ inbox' = [inbox EXCEPT ![p] = inbox'[p]] /\ inbox'[p] \in Seq(MessageOf)
      /\ ToSet(inbox'[p]) \subseteq ToSet(inbox[p])
      /\ Asked(c, p) /\ c \in Stoppers /\ phase[p] \in phases
      /\ \A d \in ToSet(owed[p]) : Asked(d, p)
  BY <1>1, Taken
<1>3. /\ phase' = [phase EXCEPT ![p] = phase'[p]] /\ phase'[p] = ph
      /\ wire' = [wire EXCEPT ![p] = wire'[p]] /\ wire'[p] \in Seq(EventOf)
      /\ ToSet(wire[p]) \subseteq ToSet(wire'[p])
      /\ \A e \in ToSet(wire'[p]) \ ToSet(wire[p]) :
            e.event = "result" /\ e.pm = p /\ e.to \in {c} /\ Asked(e.to, p)
  <2>1. PICK cs \in Seq(Clients) : cs = <<c>> /\ ToSet(cs) = {c} BY OneAnswer
  <2>2. Answers(p, "result", cs, ph) /\ ph \in Phases BY <1>1, <2>1 DEF Phases
  <2>3. AllAsked(cs, p) BY <1>2, <2>1 DEF AllAsked
  <2>4. /\ phase' = [phase EXCEPT ![p] = phase'[p]] /\ phase'[p] = ph
        /\ wire' = [wire EXCEPT ![p] = wire'[p]] /\ wire'[p] \in Seq(EventOf)
        /\ ToSet(wire[p]) \subseteq ToSet(wire'[p])
        /\ \A e \in ToSet(wire'[p]) \ ToSet(wire[p]) :
             e.event = "result" /\ e.pm = p /\ e.to \in ToSet(cs) /\ Asked(e.to, p)
    BY <2>2, <2>3, Answered
  <2>. QED BY <2>1, <2>4
<1>4. ChildMoves(p)
  BY <1>1, <1>2, <1>3, ChildIsTyped, RolesAreDisjoint DEF ChildMoves, Phases
<1>. QED BY <1>4, ChildStep

\* A stop-server message to a child that serves.
LEMMA TakeStopServingStep ==
  ASSUME TypeOK, Works, NEW p \in Pm, NEW c \in Clients, TakeStopServing(p, c)
  PROVE  TypeOK' /\ Works'
<1>1. /\ Takes(p, c, "stop", {"serving", "stopping"}) /\ UNCHANGED <<served, wire>>
      /\ phase' = [phase EXCEPT ![p] = "stopping"]
      /\ owed' = [owed EXCEPT ![p] = Append(@, c)]
  BY DEF TakeStopServing
<1>2. /\ UNCHANGED <<last, proc, events, step, pm, buffer, sending, grace, exited, since,
                     stale>>
      /\ inbox' = [inbox EXCEPT ![p] = inbox'[p]] /\ inbox'[p] \in Seq(MessageOf)
      /\ ToSet(inbox'[p]) \subseteq ToSet(inbox[p])
      /\ Asked(c, p) /\ phase[p] \in {"serving", "stopping"}
  BY <1>1, Taken
<1>3. /\ owed' = [owed EXCEPT ![p] = owed'[p]] /\ owed'[p] \in Seq(Clients)
      /\ \A d \in ToSet(owed'[p]) : Asked(d, p)
  BY <1>1, <1>2, OwedToo
<1>4. p \in served BY <1>2 DEF Works, ServedInv
<1>5. ChildMoves(p) BY <1>1, <1>2, <1>3, <1>4, ChildIsTyped DEF ChildMoves, Phases
<1>. QED BY <1>5, ChildStep

\* An abort message.
LEMMA TakeAbortStep ==
  ASSUME TypeOK, Works, NEW p \in Pm, NEW c \in Clients, TakeAbort(p, c) PROVE TypeOK' /\ Works'
<1>1. /\ Takes(p, c, "abort", {"idle", "starting", "aborting", "serving", "stopping"})
      /\ phase' = [phase EXCEPT ![p] = IF @ = "starting" /\ Head(owed[p]) = c
                                       THEN "aborting" ELSE @]
      /\ UNCHANGED <<owed, served, wire>>
  BY DEF TakeAbort
<1>2. /\ UNCHANGED <<last, proc, events, step, pm, buffer, sending, grace, exited, since,
                     stale>>
      /\ inbox' = [inbox EXCEPT ![p] = inbox'[p]] /\ inbox'[p] \in Seq(MessageOf)
      /\ ToSet(inbox'[p]) \subseteq ToSet(inbox[p])
      /\ phase[p] # "booting" /\ \A d \in ToSet(owed[p]) : Asked(d, p)
  BY <1>1, Taken
<1>3. phase' = [phase EXCEPT ![p] = phase'[p]] /\ phase'[p] \in {"aborting", phase[p]}
  BY <1>1, ChildIsTyped
<1>4. phase[p] \in {"serving", "stopping"} => p \in served BY DEF Works, ServedInv
<1>5. ChildMoves(p) BY <1>1, <1>2, <1>3, <1>4, ChildIsTyped DEF ChildMoves, Phases
<1>. QED BY <1>5, ChildStep

\* The end of a startup or of a stop: with a result, the startup has succeeded.
LEMMA FinishStep ==
  ASSUME TypeOK, Works, NEW p \in Pm, Finish(p) PROVE TypeOK' /\ Works'
<1>1. /\ UNCHANGED <<last, proc, inbox, events, step, pm, buffer, sending, grace, exited,
                     since, stale>>
      /\ owed' = [owed EXCEPT ![p] = <<>>]
      /\ served' = IF phase'[p] = "serving" THEN served \cup {p} ELSE served
  BY DEF Finish, daemonVars, clientVars
<1>2. PICK ph \in {"serving", "disconnected", "leaving"}, kind \in {"result", "error"} :
        /\ Answers(p, kind, owed[p], ph) /\ phase[p] \in {"starting", "aborting", "stopping"}
        /\ ph = "disconnected" => phase[p] = "stopping"
        /\ ph = "leaving" => kind = "error"
  BY DEF Finish
<1>3. PICK cs \in Seq(Clients) : cs = owed[p] BY ChildIsTyped
<1>4. /\ phase' = [phase EXCEPT ![p] = phase'[p]] /\ phase'[p] = ph
      /\ wire' = [wire EXCEPT ![p] = wire'[p]] /\ wire'[p] \in Seq(EventOf)
      /\ ToSet(wire[p]) \subseteq ToSet(wire'[p])
      /\ \A e \in ToSet(wire'[p]) \ ToSet(wire[p]) :
            e.event = kind /\ e.pm = p /\ e.to \in ToSet(cs) /\ Asked(e.to, p)
  <2>1. Answers(p, kind, cs, ph) /\ ph \in Phases BY <1>2, <1>3 DEF Phases
  <2>2. AllAsked(cs, p) BY <1>3 DEF Asked, AllAsked
  <2>. QED BY <2>1, <2>2, Answered
<1>5. /\ owed'[p] = <<>> /\ owed'[p] \in Seq(Clients) /\ ToSet(owed'[p]) = {}
      /\ owed' = [owed EXCEPT ![p] = owed'[p]]
  BY <1>1, ChildIsTyped, EmptyHolds
<1>6. kind = "result" => p \in served' BY <1>1, <1>2, <1>4 DEF Works, ServedInv
<1>7. /\ served \subseteq served' /\ served' \subseteq served \cup {p}
      /\ (ph = "serving" => p \in served')
  BY <1>1, <1>4
<1>8. ChildMoves(p) BY <1>1, <1>2, <1>4, <1>5, <1>6, <1>7, ChildIsTyped DEF ChildMoves, Phases
<1>. QED BY <1>8, ChildStep
-----------------------------------------------------------------------------
(* The daemon. *)

\* What client c has on its bus after it was sent e: nothing when it is over.
Receives(c, e) ==
  /\ events'[c] \in Seq(EventOf)
  /\ ToSet(events'[c]) \subseteq ToSet(events[c]) \cup {e}
  /\ ~Over(c) => ToSet(events[c]) \subseteq ToSet(events'[c])

\* A broadcast reaches every client that is not over and has a listener for it.
LEMMA BroadcastGives ==
  ASSUME TypeOK, NEW e \in EventOf, Broadcast(e)
  PROVE  /\ events' \in [Clients -> Seq(EventOf)]
         /\ \A c \in Clients : Receives(c, e) /\ (~Over(c) /\ Concerns(e, c) => e \in ToSet(events'[c]))
<1>1. events \in [Clients -> Seq(EventOf)] BY TypeParts DEF ChannelTypes
<1>2. ASSUME NEW c \in Clients
      PROVE  Receives(c, e) /\ (~Over(c) /\ Concerns(e, c) => e \in ToSet(events'[c]))
  <2>1. events'[c] = IF Over(c) THEN <<>>
                     ELSE IF Concerns(e, c) THEN Append(events[c], e) ELSE events[c]
    BY DEF Broadcast
  <2>2. /\ Append(events[c], e) \in Seq(EventOf)
        /\ ToSet(Append(events[c], e)) = ToSet(events[c]) \cup {e}
    BY <1>1, Appended
  <2>3. CASE Over(c)
    <3>1. events'[c] = <<>> BY <2>1, <2>3
    <3>. QED BY <3>1, <2>3, EmptyHolds DEF Receives
  <2>4. CASE ~Over(c) /\ Concerns(e, c) BY <2>1, <2>2, <2>4 DEF Receives
  <2>5. CASE ~Over(c) /\ ~Concerns(e, c) BY <1>1, <2>1, <2>5 DEF Receives
  <2>. QED BY <2>3, <2>4, <2>5
<1>3. events' = [c \in Clients |-> events'[c]] BY DEF Broadcast
<1>. QED BY <1>2, <1>3 DEF Receives

\* The daemon broadcasts what a child said: a ready on the wire is one on the buses now.
LEMMA ReadWireStep ==
  ASSUME TypeOK, Works, NEW p \in Pm, ReadWire(p) PROVE TypeOK' /\ Works'
<1>. DEFINE e == Head(wire[p])
<1>1. /\ wire[p] # <<>> /\ wire' = [wire EXCEPT ![p] = Tail(@)] /\ Broadcast(e)
      /\ UNCHANGED <<last, proc, phase, owed, served, inbox, step, pm, buffer, sending, grace,
                     exited, since, stale>>
  BY DEF ReadWire, daemonVars, childVars, clientVars
<1>2. /\ e \in EventOf /\ Tail(wire[p]) \in Seq(EventOf)
      /\ ToSet(wire[p]) = {e} \cup ToSet(Tail(wire[p]))
  BY <1>1, ChildIsTyped, Tailed
<1>3. e.event # "exit" /\ e.pm = p /\ Success(e) /\ \A c \in Starters : e.to = c => step[c] \in Sent
  BY <1>2 DEF Works, GoneInv, ServedInv, AnswerInv
<1>. HIDE DEF e
<1>4. /\ events' \in [Clients -> Seq(EventOf)]
      /\ \A c \in Clients : Receives(c, e) /\ (~Over(c) /\ Concerns(e, c) => e \in ToSet(events'[c]))
  BY <1>1, <1>2, BroadcastGives
<1>5. /\ wire' \in [Pm -> Seq(EventOf)] /\ ToSet(wire[p]) = {e} \cup ToSet(wire'[p])
      /\ \A q \in Pm : q # p => wire'[q] = wire[q]
      /\ \A q \in Pm : ToSet(wire'[q]) \subseteq ToSet(wire[q])
  BY <1>1, <1>2, ChildIsTyped
<1>6. TypeOK' BY <1>1, <1>4, <1>5 DEF TypeOK
<1>7. OneListed' BY <1>1 DEF Works, OneListed, Listed
<1>8. MissInv'
  <2>. SUFFICES ASSUME NEW c \in Starters, step[c] \in Listening, NEW q \in Pm, Said(c, q)
                PROVE  Said(c, q)'
    BY <1>1 DEF Works, MissInv, MissOf, Heard
  <2>1. c \in Clients /\ ~Over(c) BY DEF Clients, Over, Listening, Final
  <2>2. PICK m \in ToSet(wire[q]) \cup ToSet(events[c]) : m.pm = q /\ m.event \in {"ready", "exit"}
    BY DEF Said
  <2>3. CASE m \in ToSet(events[c]) BY <2>1, <2>2, <2>3, <1>4 DEF Said, Receives
  <2>4. CASE m \in ToSet(wire'[q]) BY <2>2, <2>4 DEF Said
  <2>5. CASE m \notin ToSet(events[c]) /\ m \notin ToSet(wire'[q])
    <3>1. m = e BY <2>2, <2>5, <1>5
    <3>2. Concerns(e, c) BY <3>1, <2>2 DEF Concerns
    <3>. QED BY <3>1, <3>2, <2>1, <2>2, <1>4 DEF Said
  <2>. QED BY <2>3, <2>4, <2>5
<1>9. WaitInv' BY <1>1 DEF Works, WaitInv, WaitOf, Heard
<1>10. ServedInv'
  <2>1. \A c \in Clients : \A m \in ToSet(events'[c]) : Success(m)'
    BY <1>1, <1>3, <1>4 DEF Works, ServedInv, Success, Receives
  <2>2. \A q \in Pm : \A m \in ToSet(wire'[q]) : Success(m)'
    BY <1>1, <1>5 DEF Works, ServedInv, Success
  <2>. QED BY <2>1, <2>2, <1>1 DEF Works, ServedInv
<1>11. GoneInv'
  <2>1. \A c \in Clients : \A m \in ToSet(events'[c]) : m.event = "exit" => proc[m.pm] = "gone"
    BY <1>3, <1>4 DEF Works, GoneInv, Receives
  <2>. QED BY <2>1, <1>1, <1>5 DEF Works, GoneInv
<1>12. ExitInv'
  <2>1. \A c \in Clients : HasExit(c)' => HasExit(c) BY <1>1, <1>3, <1>4 DEF HasExit, Receives
  <2>. QED BY <2>1, <1>1 DEF Works, ExitInv, ExitOf
<1>13. AnswerInv'
  <2>1. \A c \in Starters, d \in Clients : (\E m \in ToSet(events'[d]) : m.to = c) => step[c] \in Sent
    BY <1>3, <1>4 DEF Works, AnswerInv, Receives
  <2>2. \A c \in Starters, q \in Pm :
          (\E m \in ToSet(wire'[q]) : m.to = c) => step[c] \in Sent /\ pm[c] = q
    BY <1>5 DEF Works, AnswerInv
  <2>. QED BY <2>1, <2>2, <1>1 DEF Works, AnswerInv
<1>. QED BY <1>6, <1>7, <1>8, <1>9, <1>10, <1>11, <1>12, <1>13 DEF Works

\* The daemon handles an exit. Who deals with another process than p deals with one that
\* is gone, as p was the only one listed: the exit it will hear tells it nothing false.
LEMMA HandleExitStep ==
  ASSUME TypeOK, Works, NEW p \in Pm, HandleExit(p) PROVE TypeOK' /\ Works'
<1>. DEFINE freed == {c \in Stoppers : step[c] = "killing" /\ pm[c] = p}
            e == Event("exit", p, "none")
<1>1. /\ UNCHANGED <<last, served, wire, pm, buffer, sending, grace, exited, since, stale>>
      /\ proc[p] = "dead" /\ proc' = [proc EXCEPT ![p] = "gone"]
      /\ step' = [c \in Clients |-> IF c \in freed THEN "stopped" ELSE step[c]]
      /\ events' = [c \in Clients |-> IF Over(c) \/ c \in freed THEN <<>> ELSE Append(events[c], e)]
      /\ inbox' = [inbox EXCEPT ![p] = <<>>] /\ owed' = [owed EXCEPT ![p] = <<>>]
      /\ phase' = [phase EXCEPT ![p] = "none"]
  BY DEF HandleExit
<1>2. e \in EventOf /\ e.event = "exit" /\ e.pm = p /\ e.to = "none" BY DEF Event, EventOf
<1>3. \A c \in freed : c \in Stoppers /\ step[c] = "killing" /\ pm[c] = p OBVIOUS
<1>. HIDE DEF freed, e
<1>4. ASSUME NEW c \in Clients
      PROVE  /\ events'[c] \in Seq(EventOf) /\ ToSet(events'[c]) \subseteq ToSet(events[c]) \cup {e}
             /\ ~Over(c) /\ c \notin freed => ToSet(events'[c]) = ToSet(events[c]) \cup {e}
  <2>1. events[c] \in Seq(EventOf) BY TypeParts DEF ChannelTypes
  <2>2. /\ Append(events[c], e) \in Seq(EventOf)
        /\ ToSet(Append(events[c], e)) = ToSet(events[c]) \cup {e}
    BY <1>2, <2>1, Appended
  <2>3. CASE Over(c) \/ c \in freed
    <3>1. events'[c] = <<>> BY <1>1, <2>3
    <3>. QED BY <3>1, <2>3, EmptyHolds
  <2>4. CASE ~(Over(c) \/ c \in freed)
    <3>1. events'[c] = Append(events[c], e) BY <1>1, <2>4
    <3>. QED BY <3>1, <2>2
  <2>. QED BY <2>3, <2>4
<1>5. /\ \A q \in Pm : proc'[q] = IF q = p THEN "gone" ELSE proc[q]
      /\ \A q \in Pm : phase'[q] = IF q = p THEN "none" ELSE phase[q]
      /\ \A q \in Pm : ToSet(inbox'[q]) \subseteq ToSet(inbox[q]) /\ ToSet(owed'[q]) \subseteq ToSet(owed[q])
      /\ inbox' \in [Pm -> Seq(MessageOf)] /\ owed' \in [Pm -> Seq(Clients)]
      /\ Listed' \subseteq Listed
  <2>1. /\ proc \in [Pm -> {"none", "online", "dead", "gone"}] /\ phase \in [Pm -> Phases]
        /\ inbox \in [Pm -> Seq(MessageOf)] /\ owed \in [Pm -> Seq(Clients)]
    BY TypeParts, ChildIsTyped DEF DaemonTypes
  <2>2. /\ \A q \in Pm : proc'[q] = IF q = p THEN "gone" ELSE proc[q]
        /\ \A q \in Pm : phase'[q] = IF q = p THEN "none" ELSE phase[q]
        /\ \A q \in Pm : inbox'[q] = IF q = p THEN <<>> ELSE inbox[q]
        /\ \A q \in Pm : owed'[q] = IF q = p THEN <<>> ELSE owed[q]
    BY <1>1, <2>1
  <2>3. inbox' \in [Pm -> Seq(MessageOf)] /\ owed' \in [Pm -> Seq(Clients)]
    BY <1>1, <2>1, EmptyHolds
  <2>4. \A q \in Pm : ToSet(inbox'[q]) \subseteq ToSet(inbox[q]) /\ ToSet(owed'[q]) \subseteq ToSet(owed[q])
    BY <2>2, EmptyHolds
  <2>5. Listed' \subseteq Listed BY <2>2 DEF Listed
  <2>. QED BY <2>2, <2>3, <2>4, <2>5
<1>6. /\ \A c \in Clients : step'[c] = IF c \in freed THEN "stopped" ELSE step[c]
      /\ \A c \in Starters : c \in Clients /\ c \notin freed /\ step'[c] = step[c]
  BY <1>1, <1>3, RolesAreDisjoint DEF Clients
<1>7. TypeOK'
  <2>1. DaemonTypes'
    <3>1. /\ proc' \in [Pm -> {"none", "online", "dead", "gone"}]
          /\ phase' \in [Pm -> {"none", "booting", "idle", "starting", "aborting", "serving",
                               "stopping", "disconnected", "leaving"}]
      BY <1>1, TypeParts DEF DaemonTypes
    <3>2. \A q \in Pm : proc'[q] = "none" <=> q > last BY <1>1, <1>5, TypeParts DEF DaemonTypes
    <3>. QED BY <3>1, <3>2, <1>1, TypeParts DEF DaemonTypes
  <2>2. ChannelTypes' BY <1>1, <1>4, <1>5, TypeParts DEF ChannelTypes
  <2>3. ClientTypes'
    <3>1. step' \in [Clients -> Steps] BY <1>1, TypeParts DEF ClientTypes, Steps, Final
    <3>2. \A c \in Clients : step'[c] \in {"told", "waiting", "ready", "talking", "killing"} => pm[c] # 0
      BY <1>6, TypeParts DEF ClientTypes
    <3>3. \A c \in grace : step'[c] = "talking" BY <1>3, <1>6, TypeParts DEF ClientTypes
    <3>. QED BY <3>1, <3>2, <3>3, <1>1, TypeParts DEF ClientTypes
  <2>. QED BY <2>1, <2>2, <2>3 DEF TypeOK, DaemonTypes, ChannelTypes, ClientTypes
<1>8. OneListed' BY <1>5 DEF Works, OneListed
<1>9. MissInv'
  <2>. SUFFICES ASSUME NEW c \in Starters, step[c] \in Listening, NEW q \in Pm, since[c] < q, q <= last
                PROVE  \/ proc'[q] = "online" /\ phase'[q] = "booting"
                       \/ proc'[q] = "dead" \/ Said(c, q)' \/ q \in Heard(c)
    BY <1>1, <1>6 DEF MissInv, MissOf, Heard
  <2>1. c \in Clients /\ ~Over(c) /\ c \notin freed BY <1>6 DEF Over, Listening, Final
  <2>2. ToSet(events'[c]) = ToSet(events[c]) \cup {e} BY <2>1, <1>4
  <2>3. CASE q = p BY <2>2, <2>3, <1>2 DEF Said
  <2>4. CASE q # p
    <3>1. \/ proc[q] = "online" /\ phase[q] = "booting"
          \/ proc[q] = "dead" \/ Said(c, q) \/ q \in Heard(c)
      BY DEF Works, MissInv, MissOf
    <3>2. Said(c, q) => Said(c, q)' BY <2>2, <1>1 DEF Said
    <3>. QED BY <3>1, <3>2, <2>4, <1>5
  <2>. QED BY <2>3, <2>4
<1>10. WaitInv' BY <1>1, <1>6 DEF Works, WaitInv, WaitOf, Heard
<1>11. ServedInv'
  <2>1. \A q \in Pm : phase'[q] \in {"serving", "stopping"} => q \in served
    BY <1>5 DEF Works, ServedInv
  <2>2. \A q \in Pm : \A m \in ToSet(inbox'[q]) : m.topic = "stop" => m.from \in Stoppers
    BY <1>5 DEF Works, ServedInv
  <2>3. \A c \in Clients : \A m \in ToSet(events'[c]) : Success(m)'
    BY <1>1, <1>2, <1>4 DEF Works, ServedInv, Success
  <2>4. \A c \in Clients : step'[c] = "started" => pm[c] \in served BY <1>6 DEF Works, ServedInv
  <2>5. \A q \in Pm : \A m \in ToSet(wire'[q]) : Success(m)'
    BY <1>1 DEF Works, ServedInv, Success
  <2>. QED BY <2>1, <2>2, <2>3, <2>4, <2>5, <1>1 DEF ServedInv
<1>12. GoneInv'
  <2>1. ASSUME NEW c \in Clients, NEW m \in ToSet(events'[c]), m.event = "exit"
        PROVE  proc'[m.pm] = "gone"
    <3>1. CASE m = e BY <3>1, <1>2, <1>5
    <3>2. CASE m # e
      <4>1. m \in ToSet(events[c]) /\ proc[m.pm] = "gone" BY <2>1, <3>2, <1>4 DEF Works, GoneInv
      <4>2. events[c] \in Seq(EventOf) BY TypeParts DEF ChannelTypes
      <4>3. m \in EventOf BY <4>1, <4>2, Holds
      <4>. QED BY <4>1, <4>3, <1>5 DEF EventOf
    <3>. QED BY <3>1, <3>2
  <2>2. ASSUME NEW c \in Clients, NEW q \in buffer[c].exit PROVE proc'[q] = "gone"
    <3>1. q \in Pm /\ proc[q] = "gone" BY ClientIsTyped, ClientKnows
    <3>. QED BY <3>1, <1>5
  <2>. QED BY <2>1, <2>2, <1>1 DEF Works, GoneInv
<1>13. ExitInv'
  <2>. SUFFICES ASSUME NEW c \in Clients PROVE ExitOf(c)' BY DEF ExitInv
  <2>1. ExitOf(c) BY DEF Works, ExitInv
  <2>3. CASE c \in freed
    <3>1. step'[c] = "stopped" /\ pm'[c] = p /\ proc'[p] = "gone"
      BY <2>3, <1>1, <1>3, <1>5, <1>6
    <3>. QED BY <3>1 DEF ExitOf, Dealing, Final
  <2>4. CASE c \notin freed
    <3>1. /\ step'[c] = step[c] /\ pm'[c] = pm[c] /\ (c \in exited' <=> c \in exited)
          /\ (c \in stale' <=> c \in stale)
      BY <2>4, <1>1, <1>6
    <3>2. step[c] \in Dealing => pm[c] # 0 BY <2>1, ClientIsTyped DEF ExitOf, Dealing
    <3>3. pm[c] # 0 /\ proc[pm[c]] = "gone" => proc'[pm[c]] = "gone" BY <1>5, ClientIsTyped
    <3>4. pm[c] # 0 /\ pm[c] # p => proc[pm[c]] = "gone"
      BY <1>1, NotListed DEF Works, OneListed, Listed
    <3>5. pm[c] # 0 => proc'[pm[c]] = "gone" BY <3>3, <3>4, <1>5
    <3>. QED BY <2>1, <3>1, <3>2, <3>5 DEF ExitOf
  <2>. QED BY <2>3, <2>4
<1>14. AnswerInv'
  <2>1. \A c \in Starters : c \in sending' => step'[c] \in Sent
    BY <1>1, <1>6 DEF Works, AnswerInv
  <2>2. \A c \in Starters, q \in Pm :
       (\/ \E m \in ToSet(inbox'[q]) : m.from = c
        \/ c \in ToSet(owed'[q])
        \/ \E m \in ToSet(wire'[q]) : m.to = c)
       => step'[c] \in Sent /\ pm'[c] = q
    BY <1>1, <1>5, <1>6 DEF Works, AnswerInv
  <2>3. \A c \in Starters : c # "none" BY NoneIsNoClient
  <2>4. \A c \in Starters, d \in Clients : (\E m \in ToSet(events'[d]) : m.to = c) => step'[c] \in Sent
    BY <2>3, <1>2, <1>4, <1>6 DEF Works, AnswerInv
  <2>. QED BY <2>1, <2>2, <2>4 DEF AnswerInv
<1>. QED BY <1>7, <1>8, <1>9, <1>10, <1>11, <1>12, <1>13, <1>14 DEF Works

\* A child ends: it is dead, and its exit is still to be handled.
LEMMA DeathStep ==
  ASSUME TypeOK, Works, NEW p \in Pm, Kill(p) \/ ChildEnds(p) PROVE TypeOK' /\ Works'
<1>1. /\ UNCHANGED <<last, phase, owed, served, inbox, wire, events, step, pm, buffer, sending,
                     grace, exited, since, stale>>
      /\ proc[p] = "online" /\ proc' = [proc EXCEPT ![p] = "dead"]
  BY DEF Kill, ChildEnds, childVars, chanVars, clientVars
<1>2. \A q \in Pm : proc'[q] = IF q = p THEN "dead" ELSE proc[q]
  BY <1>1, TypeParts DEF DaemonTypes
<1>3. TypeOK'
  <2>1. proc' \in [Pm -> {"none", "online", "dead", "gone"}] BY <1>1, TypeParts DEF DaemonTypes
  <2>2. \A q \in Pm : proc'[q] = "none" <=> q > last BY <1>1, <1>2, TypeParts DEF DaemonTypes
  <2>. QED BY <2>1, <2>2, <1>1 DEF TypeOK
<1>4. Listed' = Listed BY <1>1, <1>2 DEF Listed
<1>5. OneListed' BY <1>4 DEF Works, OneListed
<1>6. MissInv' BY <1>1, <1>2 DEF Works, MissInv, MissOf, Said, Heard
<1>7. WaitInv' BY <1>1 DEF Works, WaitInv, WaitOf, Heard
<1>8. ServedInv' BY <1>1 DEF Works, ServedInv, Success
<1>9. \A q \in Pm : proc[q] \in {"dead", "gone"} => proc'[q] = proc[q] BY <1>1, <1>2
<1>10. GoneInv'
  <2>1. ASSUME NEW c \in Clients, NEW m \in ToSet(events[c]), m.event = "exit"
        PROVE  proc'[m.pm] = "gone"
    <3>1. events[c] \in Seq(EventOf) BY TypeParts DEF ChannelTypes
    <3>2. m \in EventOf /\ proc[m.pm] = "gone" BY <2>1, <3>1, Holds, ClientKnows
    <3>. QED BY <3>2, <1>9 DEF EventOf
  <2>2. ASSUME NEW c \in Clients, NEW q \in buffer[c].exit PROVE proc'[q] = "gone"
    <3>1. q \in Pm /\ proc[q] = "gone" BY ClientIsTyped, ClientKnows
    <3>. QED BY <3>1, <1>9
  <2>. QED BY <2>1, <2>2, <1>1 DEF Works, GoneInv
<1>11. ExitInv'
  <2>. SUFFICES ASSUME NEW c \in Clients PROVE ExitOf(c)' BY DEF ExitInv
  <2>1. ExitOf(c) BY DEF Works, ExitInv
  <2>2. step[c] \in Dealing => pm[c] # 0 BY <2>1, ClientIsTyped DEF ExitOf, Dealing
  <2>3. pm[c] # 0 /\ proc[pm[c]] \in {"dead", "gone"} => proc'[pm[c]] = proc[pm[c]]
    BY <1>9, ClientIsTyped
  <2>4. HasExit(c)' <=> HasExit(c) BY <1>1 DEF HasExit
  <2>. QED BY <1>1, <2>1, <2>2, <2>3, <2>4 DEF ExitOf
<1>12. AnswerInv' BY <1>1 DEF Works, AnswerInv
<1>. QED BY <1>3, <1>5, <1>6, <1>7, <1>8, <1>10, <1>11, <1>12 DEF Works
-----------------------------------------------------------------------------
(* The invariant and what follows from it. *)

\* A step of a client.
ClientActs(c) ==
  \/ AlreadyRunning(c) \/ NotRunning(c) \/ Subscribe(c)
  \/ GetInstance(c) \/ NewInstance(c) \/ WaitFor(c)
  \/ LookForServer(c) \/ CloseStop(c) \/ CloseTimeout(c) \/ AskToKill(c)
  \/ SendMessage(c) \/ Forward(c)
  \/ Timeout(c) \/ GraceOver(c) \/ Abort(c)
  \/ Deliver(c)
\* A step of the daemon or of a child.
ProcessActs(p) ==
  \/ ReadWire(p) \/ HandleExit(p) \/ Kill(p)
  \/ ChildReady(p) \/ Finish(p) \/ ChildEnds(p)
  \/ \E c \in Clients :
       \/ TakeStart(p, c) \/ TakeStartAgain(p, c)
       \/ TakeStopStarting(p, c) \/ TakeStopIdle(p, c) \/ TakeStopServing(p, c)
       \/ TakeAbort(p, c)

\* Next, by who acts.
LEMMA NextParts == Next <=> (\E c \in Clients : ClientActs(c)) \/ (\E p \in Pm : ProcessActs(p))
BY DEF Next, ClientActs, ProcessActs

\* The invariant holds to begin with: at most one process serves, nobody is told anything.
LEMMA InitInv == Init => IInv
<1>. SUFFICES ASSUME Init PROVE IInv OBVIOUS
<1>0. last \in 0..MaxPm /\ last \in 0..1 /\ MaxPm \in Nat BY MaxPmIsNat DEF Init
<1>1. /\ \A p \in Pm : owed[p] = <<>> /\ inbox[p] = <<>> /\ wire[p] = <<>>
      /\ \A c \in Clients : events[c] = <<>> /\ step[c] = "begin" /\ pm[c] = 0 /\ since[c] = 0
      /\ \A c \in Clients : buffer[c].ready = {} /\ buffer[c].exit = {}
      /\ sending = {} /\ grace = {} /\ exited = {} /\ stale = {} /\ served = 1..last
  BY DEF Init
<1>2. \A p \in Pm : /\ proc[p] = IF p <= last THEN "online" ELSE "none"
                    /\ phase[p] = IF p <= last THEN "serving" ELSE "none"
                    /\ p \in Nat /\ 1 <= p
  BY DEF Init, Pm
<1>3. DaemonTypes
  <2>1. \A p \in Pm : proc[p] = "none" <=> p > last BY <1>0, <1>2
  <2>2. served \subseteq Pm BY <1>0, <1>1 DEF Pm
  <2>. QED BY <1>0, <2>1, <2>2 DEF Init, DaemonTypes
<1>4. ChannelTypes BY EmptyHolds DEF Init, ChannelTypes
<1>5. ClientTypes BY <1>0 DEF Init, ClientTypes, Steps
<1>6. TypeOK BY <1>3, <1>4, <1>5, TypeParts
<1>7. OneListed
  <2>1. \A p \in Listed : p = 1 BY <1>0, <1>2 DEF Listed
  <2>. QED BY <2>1 DEF OneListed
<1>8. MissInv /\ WaitInv BY <1>1 DEF MissInv, MissOf, WaitInv, WaitOf, Listening, Clients
<1>9. \A p \in Pm : ToSet(inbox[p]) = {} /\ ToSet(owed[p]) = {} /\ ToSet(wire[p]) = {}
  BY <1>1, EmptyHolds
<1>10. \A c \in Clients : ToSet(events[c]) = {} BY <1>1, EmptyHolds
<1>11. ServedInv
  <2>1. \A p \in Pm : phase[p] \in {"serving", "stopping"} => p \in served BY <1>0, <1>1, <1>2
  <2>. QED BY <2>1, <1>1, <1>9, <1>10 DEF ServedInv
<1>12. GoneInv BY <1>1, <1>9, <1>10 DEF GoneInv
<1>13. ExitInv BY <1>1 DEF ExitInv, ExitOf, Dealing
<1>14. AnswerInv BY <1>1, <1>9, <1>10 DEF AnswerInv
<1>. QED BY <1>6, <1>7, <1>8, <1>11, <1>12, <1>13, <1>14 DEF IInv, Works

\* Every step keeps it.
LEMMA NextInv == IInv /\ [Next]_vars => IInv'
<1>. SUFFICES ASSUME TypeOK, Works, [Next]_vars PROVE TypeOK' /\ Works' BY DEF IInv
<1>1. ASSUME NEW c \in Clients, ClientActs(c) PROVE TypeOK' /\ Works'
  BY <1>1, AlreadyRunningStep, NotRunningStep, SubscribeStep, GetInstanceStep, NewInstanceStep,
     WaitForStep, LookForServerStep, CloseStopStep, CloseTimeoutStep, AskToKillStep,
     SendMessageStep, ForwardStep, TimeoutStep, GraceOverStep, AbortStep, DeliverStep
  DEF ClientActs
<1>2. ASSUME NEW p \in Pm, ProcessActs(p) PROVE TypeOK' /\ Works'
  BY <1>2, ReadWireStep, HandleExitStep, DeathStep, ChildReadyStep, FinishStep, TakeStartStep,
     TakeStartAgainStep, TakeStopStartingStep, TakeStopServingStep, TakeAbortStep
  DEF ProcessActs
<1>3. CASE UNCHANGED vars
  <2>1. UNCHANGED <<last, proc, phase, owed, served, inbox, wire, events, step, pm, buffer,
                    sending, grace, exited, since, stale>>
    BY <1>3 DEF vars, daemonVars, childVars, chanVars, clientVars
  <2>2. TypeOK' BY <2>1 DEF TypeOK
  <2>3. OneListed' BY <2>1 DEF Works, OneListed, Listed
  <2>4. MissInv' BY <2>1 DEF Works, MissInv, MissOf, Said, Heard
  <2>5. WaitInv' BY <2>1 DEF Works, WaitInv, WaitOf, Heard
  <2>6. ServedInv' BY <2>1 DEF Works, ServedInv, Success
  <2>7. GoneInv' BY <2>1 DEF Works, GoneInv
  <2>8. ExitInv' BY <2>1 DEF Works, ExitInv, ExitOf, HasExit
  <2>9. AnswerInv' BY <2>1 DEF Works, AnswerInv
  <2>. QED BY <2>2, <2>3, <2>4, <2>5, <2>6, <2>7, <2>8, <2>9 DEF Works
<1>. QED BY <1>1, <1>2, <1>3, NextParts

\* It holds always.
LEMMA InvHolds == Spec => []IInv
<1>1. IInv /\ [Next]_vars => IInv' BY NextInv
<1>. QED BY InitInv, <1>1, PTL DEF Spec

\* TypeOK, for any number of starts, stops and processes: every client is at a step of its
\* command, deals with a process that was spawned once the daemon told it one, and an exit
\* timer runs only while sendMessage waits for the answer.
THEOREM TypeCorrect == Spec => []TypeOK
<1>1. IInv => TypeOK BY DEF IInv
<1>. QED BY <1>1, InvHolds, PTL

\* StartsAreRight, for any number of starts, stops and processes: a start whose process was
\* spawned after it subscribed has missed neither its ready nor its exit when it waits for
\* them (the buffer and replay of subscribeForReadyOrExit), and a start that reports success
\* returns a process whose startup succeeded (sendMessage), however starts, stops, aborts and
\* crashes overlap and answers and events are reordered.
THEOREM StartsAreRightHolds == Spec => []StartsAreRight
<1>1. IInv => StartsAreRight
  <2>. SUFFICES ASSUME TypeOK, Works PROVE StartsAreRight BY DEF IInv
  <2>1. SuccessIsServed BY DEF Works, ServedInv, SuccessIsServed, Clients
  <2>2. NothingMissed
    <3>. SUFFICES ASSUME NEW c \in Starters, step[c] = "waiting", pm[c] > since[c]
                  PROVE  \/ proc[pm[c]] = "online" /\ phase[pm[c]] = "booting"
                         \/ proc[pm[c]] = "dead"
                         \/ \E i \in DOMAIN wire[pm[c]] :
                              wire[pm[c]][i].pm = pm[c] /\ wire[pm[c]][i].event \in {"ready", "exit"}
                         \/ \E i \in DOMAIN events[c] :
                              events[c][i].pm = pm[c] /\ events[c][i].event \in {"ready", "exit"}
      BY DEF NothingMissed
    <3>1. c \in Clients BY DEF Clients
    <3>2. /\ pm[c] \in 0..last /\ since[c] \in 0..last /\ last \in Nat
          /\ (pm[c] # 0 => pm[c] \in Pm)
          /\ pm[c] # 0
      BY <3>1, ClientIsTyped
    <3>3. pm[c] \in Pm /\ since[c] < pm[c] /\ pm[c] <= last BY <3>2
    <3>4. pm[c] \notin Heard(c) /\ step[c] \in Listening /\ MissOf(c)
      BY <3>1, ClientKnows DEF WaitOf, Listening
    <3>5. \/ proc[pm[c]] = "online" /\ phase[pm[c]] = "booting"
          \/ proc[pm[c]] = "dead" \/ Said(c, pm[c])
      BY <3>3, <3>4 DEF MissOf
    <3>. QED BY <3>5 DEF Said, ToSet
  <2>. QED BY <2>1, <2>2 DEF StartsAreRight
<1>. QED BY <1>1, InvHolds, PTL

\* ExitsAreRight, for any number of starts, stops and processes: a start that blames an exit
\* is right about its process (waitFor and sendMessage), and a stop that returns leaves that
\* process dead or gone (stopWordPressServer), unless an exit of an older process of the name
\* was still under way when the daemon told them theirs.
THEOREM ExitsAreRightHolds == Spec => []ExitsAreRight
<1>1. IInv => ExitsAreRight
  BY DEF IInv, Works, ExitInv, ExitOf, ExitsAreRight, BlameIsRight, StopMeansStopped, Clients
<1>. QED BY <1>1, InvHolds, PTL

\* Three steps end a client with an exit.
LEMMA ExitComes ==
  ASSUME TypeOK, Next, NEW c \in Clients, step[c] # "exit", step'[c] = "exit"
  PROVE  WaitFor(c) \/ WaitEnds(c) \/ GraceOver(c)
<1>0. step \in [Clients -> Steps] BY TypeParts DEF ClientTypes
<1>1. ASSUME NEW d \in Clients, ClientActs(d) PROVE WaitFor(c) \/ WaitEnds(c) \/ GraceOver(c)
  <2>1. CASE AlreadyRunning(d) \/ NotRunning(d) \/ Subscribe(d) \/ CloseStop(d) \/ CloseTimeout(d)
             \/ SendMessage(d) \/ AskToKill(d)
    BY <1>0, <2>1
    DEF AlreadyRunning, NotRunning, Subscribe, CloseStop, CloseTimeout, SendMessage,
                     AskToKill, EndAs
  <2>2. CASE GetInstance(d) \/ NewInstance(d) \/ LookForServer(d)
    BY <1>0, <2>2 DEF GetInstance, NewInstance, LookForServer, Told, EndAs
  <2>3. CASE Forward(d) \/ Timeout(d) \/ Abort(d)
    BY <1>0, <2>3 DEF Forward, Timeout, Abort, Fail, EndAs
  <2>4. CASE BufferEvent(d) \/ HearAnswer(d) \/ HearExit(d) \/ HearExitClosing(d) \/ Ignore(d)
    BY <1>0, <2>4
    DEF BufferEvent, HearAnswer, HearExit, HearExitClosing, Ignore, OnExit, EndAs, clientVars
  <2>5. CASE WaitFor(d)
    <3>1. d = c BY <1>0, <2>5 DEF WaitFor, EndAs
    <3>. QED BY <2>5, <3>1
  <2>6. CASE WaitEnds(d)
    <3>1. d = c BY <1>0, <2>6 DEF WaitEnds, EndAs
    <3>. QED BY <2>6, <3>1
  <2>7. CASE GraceOver(d)
    <3>1. d = c BY <1>0, <2>7 DEF GraceOver, Fail, EndAs
    <3>. QED BY <2>7, <3>1
  <2>. QED BY <1>1, <2>1, <2>2, <2>3, <2>4, <2>5, <2>6, <2>7 DEF ClientActs, Deliver
<1>2. ASSUME NEW p \in Pm, ProcessActs(p) PROVE FALSE
  <2>1. CASE HandleExit(p) BY <2>1 DEF HandleExit
  <2>2. CASE UNCHANGED step BY <2>2
  <2>3. HandleExit(p) \/ UNCHANGED step
    BY <1>2
    DEF ProcessActs, ReadWire, Kill, ChildReady, Finish, ChildEnds, TakeStart, TakeStartAgain,
                TakeStopStarting, TakeStopIdle, TakeStopServing, TakeAbort, Takes, clientVars
  <2>. QED BY <2>1, <2>2, <2>3
<1>. QED BY <1>1, <1>2, NextParts

\* ErrorBeatsExit, for any number of starts, stops and processes: no step ends a start with
\* an exit while an answer to it is on its way, be it on the wire of its child or on its bus
\* (the exit timer of sendMessage).
THEOREM ErrorBeatsExitHolds == Spec => ErrorBeatsExit
<1>. DEFINE Right == \A c \in Starters : step[c] # "exit" /\ step'[c] = "exit" =>
                       \A p \in Pm : \A e \in ToSet(wire[p]) \cup ToSet(events[c]) : e.to # c
<1>1. IInv /\ [Next]_vars => [Right]_vars
  <2>. SUFFICES ASSUME TypeOK, Works, Next, NEW c \in Starters, step[c] # "exit", step'[c] = "exit",
                       NEW p \in Pm, NEW e \in ToSet(wire[p]) \cup ToSet(events[c]), e.to = c
                PROVE  FALSE
    BY DEF IInv
  <2>1. c \in Clients BY DEF Clients
  <2>2. WaitFor(c) \/ WaitEnds(c) \/ GraceOver(c) BY <2>1, ExitComes
  <2>3. step[c] \in Sent /\ (e \in ToSet(wire[p]) => pm[c] = p) BY <2>1 DEF Works, AnswerInv
  <2>4. CASE WaitFor(c) \/ WaitEnds(c) BY <2>3, <2>4 DEF WaitFor, WaitEnds, Sent, Final
  <2>5. CASE GraceOver(c)
    <3>1. wire[pm[c]] = <<>> /\ \A i \in DOMAIN events[c] : events[c][i].to # c
      BY <2>5 DEF GraceOver
    <3>2. e \notin ToSet(events[c]) BY <3>1 DEF ToSet
    <3>3. e \notin ToSet(wire[p]) BY <2>3, <3>1, EmptyHolds
    <3>. QED BY <3>2, <3>3
  <2>. QED BY <2>2, <2>4, <2>5
<1>. QED BY <1>1, InvHolds, PTL DEF Spec, ErrorBeatsExit
================================================================================
