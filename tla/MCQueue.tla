------------------------------ MODULE MCQueue ------------------------------
(***************************************************************************)
(* Instances of the work queue for TLC.                                    *)
(***************************************************************************)
EXTENDS QueueProperties, TLC

CONSTANTS s1, s2, t1, t2

\* Two agents with a token each; one agent that calls twice.
OwnTokens   == s1 :> t1 @@ s2 :> t2
SharedToken == s1 :> t1 @@ s2 :> t1
OneSession  == s1 :> t1

\* Calls, tokens and ticks may change names as long as each call keeps its token.
Symmetry == {p \in Permutations(Session \cup Token \cup Tick) :
               /\ \A s \in Session : p[s] \in Session /\ TokenOf[p[s]] = p[TokenOf[s]]
               /\ \A k \in Tick : p[k] \in Tick}
=============================================================================
