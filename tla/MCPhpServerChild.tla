--------------------------- MODULE MCPhpServerChild ---------------------------
(* Bounded instances of PhpServerChild for TLC. *)
EXTENDS PhpServerChild, TLC

\* Links are interchangeable, and so are requests.
Sym == Permutations(Links) \cup Permutations(Requests)
=============================================================================
