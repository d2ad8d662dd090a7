--------------------------- MODULE MCDecisionLog ---------------------------
\* The Decision log on a small instance: two hooks, one reader, a limit one
\* event can pass, and room for two rotations.
EXTENDS DecisionLog
=============================================================================
