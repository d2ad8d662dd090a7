----------------------------- MODULE MCReading -----------------------------
\* The fields and rules of MCMatching, with the command lines and the calls beside them.
EXTENDS MCMatching, Reading, MCCalls

\* Each line is read once.
MCAllLines == MCLineSet \cup MCValues["command"] \cup ShellLines
MCReadAll == LET lines == MCAllLines IN [line \in lines |-> Read(line)]
MCInBash == LET lines == MCAllLines IN [line \in lines |-> MayDo(line, MCDialects)]
=============================================================================
