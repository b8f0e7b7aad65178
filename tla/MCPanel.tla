------------------------------ MODULE MCPanel ------------------------------
(* Model values for checking Panel. *)
EXTENDS Panel, TLC

CONSTANTS q1, q2, q3, q4, k1, k2, j1, j2, w1

\* q1, q2 and q3 are interchangeable, and so are j1 and j2, which other components than they use:
\* an odd permutation of the former exchanges the latter. All twelve pairs would only cost more.
Symmetric ==
    {p @@ IF Cardinality({q \in {q1, q2, q3} : p[q] = q}) = 1 THEN j1 :> j2 @@ j2 :> j1
                                                              ELSE j1 :> j1 @@ j2 :> j2 :
     p \in Permutations({q1, q2, q3})}

\* Blame, excuses and blemishes are never taken back. Where they cover every key, whatever may
\* become of the file, or all that is said of the domain, the properties say nothing any more, and
\* these behaviours are not followed. Where one key is to blame and the other is still promised
\* something, one request at a time is about the former alone; where only the failures of the
\* worker are still promised, bundles and certificates are three together.
StillBound ==
    /\ blame # Rule
    /\ Cardinality({c \in Change : Keys(fw[c]) # {} /\ Keys(fw[c]) \subseteq blame}) <= 1
    /\ excuse \cap {"met its like", "cut restore"} = {}
    /\ blemish # {"met", "cut"}
    /\ blemish # {} => issued + Len(certs) <= 3
=============================================================================
