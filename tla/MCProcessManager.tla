-------------------------- MODULE MCProcessManager --------------------------
(* The instance of ProcessManager for TLC: two names, the processes of one   *)
(* of which report workers.                                                  *)
EXTENDS ProcessManager

CONSTANT Stoppers  \* clients that only stop the processes with workers

StoppersStop ==
  \A c \in Stoppers : call[c].op \in {"none", "stop-process"} /\ call[c].name \in Native \union {"none"}
=============================================================================
