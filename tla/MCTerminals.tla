---------------------------- MODULE MCTerminals ----------------------------
\* A page that opens a terminal of one agent, and opens it again.
EXTENDS Terminals

CONSTANTS i1, v1

MCOpenerOf == [s \in Session |-> i1]
MCServerOf == [s \in Session |-> v1]
=============================================================================
