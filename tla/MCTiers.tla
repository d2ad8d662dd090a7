------------------------------ MODULE MCTiers ------------------------------
\* The load on one name: every combination of the three tiers' files, who supplies
\* the local one, trust and the directories that are named, and one change under it.
EXTENDS Tiers
=============================================================================
