---------------------------- MODULE MCPullReprint ----------------------------
(* Instances of PullReprint for TLC. *)
EXTENDS PullReprint, TLC

\* Of disturbed sessions, those disturbed by the first fault or by none, whose
\* exporter stays on and which have the ports to themselves.  What follows is
\* disturbed too, and only OneEntry says anything about it.
FewFaultsOnceDisturbed == disturbed => faults <= 1 /\ exporterOn /\ others = {}
=============================================================================
