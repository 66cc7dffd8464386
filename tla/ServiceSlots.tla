---------------------------- MODULE ServiceSlots ----------------------------
(***************************************************************************)
(* What the process manager daemon promises its clients, without processes *)
(* of the operating system, requests, signals or timers: each name is a    *)
(* slot for one instance; an instance gets an id that was never used       *)
(* before, enters an empty slot and leaves it for good; and the broadcast  *)
(* events tell exactly that story.  ProcessManager implements it.          *)
(***************************************************************************)
EXTENDS Naturals, Sequences

CONSTANTS Names,    \* the slots
          MaxStops  \* stop calls that may wait for one instance

VARIABLES slot,  \* slot[n]: the id of the instance in service, 0 for none
          last,  \* the last id handed out
          log    \* log[n]: the events broadcast for n

vars == <<slot, last, log>>

Event(ev, p) == [event |-> ev, pm |-> p]
Say(n, events) == log' = [log EXCEPT ![n] = @ \o events]

Init ==
  /\ slot = [n \in Names |-> 0]
  /\ last = 0
  /\ log = [n \in Names |-> <<>>]

Launch(n) ==
  /\ slot[n] = 0
  /\ last' = last + 1
  /\ slot' = [slot EXCEPT ![n] = last + 1]
  /\ Say(n, <<Event("online", last + 1)>>)

\* The instance could not be spawned: its id is spent all the same.
LaunchFails(n) ==
  /\ slot[n] = 0
  /\ last' = last + 1
  /\ Say(n, <<Event("online", last + 1), Event("exit", last + 1)>>)
  /\ UNCHANGED slot

\* The instance ends; each stop call that waited for it adds a "delete".
End(n, stops) ==
  /\ slot[n] # 0
  /\ slot' = [slot EXCEPT ![n] = 0]
  /\ Say(n, <<Event("exit", slot[n])>> \o [i \in 1..stops |-> Event("delete", slot[n])])
  /\ UNCHANGED last

Next == \E n \in Names :
  Launch(n) \/ LaunchFails(n) \/ \E stops \in 0..MaxStops : End(n, stops)

Spec == Init /\ [][Next]_vars
=============================================================================
