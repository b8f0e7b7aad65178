----------------------------- MODULE MCAgentHub -----------------------------
(* Model values for checking AgentHub: three connections, two of them of one server. *)
EXTENDS AgentHub, TLC

CONSTANTS s1, s2, c1, c2, c3, r1, r2

MCServerOf == c1 :> s1 @@ c2 :> s1 @@ c3 :> s2
MCTargetOf == r1 :> s1 @@ r2 :> s2

\* One server, all the connections and calls are its own.
OneServerOf == [c \in Conn |-> s1]
OneTargetOf == [r \in Request |-> s1]

\* Connections are interchangeable when they are all of the same server.
Symmetric == Permutations(Conn)
=============================================================================
