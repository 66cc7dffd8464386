--------------------------- MODULE MCSiteCommands ---------------------------
(* Bounded instances of SiteCommands for TLC. *)
EXTENDS SiteCommands, TLC

\* Commands are interchangeable, and so are sites and folders.
Sym == Permutations(Commands) \cup Permutations(Sites) \cup Permutations(Folders)

\* Nothing is claimed after a lock was removed from its holder: those states are
\* reached, and not explored further.
LockIsKept == ~broken
=============================================================================
