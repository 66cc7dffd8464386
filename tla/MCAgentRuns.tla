----------------------------- MODULE MCAgentRuns -----------------------------
(* A bounded instance of AgentRuns for TLC. *)
EXTENDS AgentRuns

CONSTANTS MaxDisturbances, MaxDisturbancesOfAll

\* Stops, removals, refusals, losses, late messages, questions, reloads, tabs
\* left, sessions switched, failed spawns and crashes, all together; fewer when
\* all the prompts are sent.
FewDisturbances ==
  Cardinality(stopped) + Cardinality(settled) + Cardinality(forgotten) + Cardinality(late)
    + questions + reloads + switches + faults
  <= IF sent = MaxPrompts THEN MaxDisturbancesOfAll ELSE MaxDisturbances
=============================================================================
