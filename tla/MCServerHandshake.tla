-------------------------- MODULE MCServerHandshake --------------------------
(* Bounded instances of ServerHandshake for TLC. *)
EXTENDS ServerHandshake, TLC

\* Starters are interchangeable, and so are stoppers; nothing else tells them
\* apart.
Sym == Permutations(Starters) \cup Permutations(Stoppers)
=============================================================================
