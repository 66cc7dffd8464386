--------------------------- MODULE MCDaemonConnect ---------------------------
(* Bounded instances of DaemonConnect for TLC. *)
EXTENDS DaemonConnect, TLC

\* Commands are interchangeable, and so are daemons.
Sym == Permutations(Commands) \cup Permutations(Daemons)
=============================================================================
