----------------------------- MODULE MCRegistry -----------------------------
\* The state registry on a small instance: a root, one whose path is the first's written
\* twice, one that is the first, a newline and more, and two terminals; and one root alone.
EXTENDS Registry

CONSTANTS home, joined, odd

MCRoots == {home, joined, odd}
MCPieces == {"/h", Newline}
MCPath ==
  [r \in MCRoots |->
     CASE r = home -> <<"/h">>
       [] r = joined -> <<"/h", "/h">>
       [] r = odd -> <<"/h", Newline, "/h">>]

OneRoot == {home}
OnePath == [r \in OneRoot |-> <<"/h">>]
=============================================================================
