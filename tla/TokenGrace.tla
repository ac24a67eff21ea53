----------------------------- MODULE TokenGrace -----------------------------
(***************************************************************************)
(* What a sidecar that remembers verified tokens promises the admin who    *)
(* revokes one, whether or not the notice of it arrives: the token may be  *)
(* honoured from memory for its grace and never again, and nothing that    *)
(* was never issued is honoured.                                           *)
(***************************************************************************)
EXTENDS Naturals

CONSTANTS Token, TTL

VARIABLES standing, \* "none", "active" or "revoked"
          grace,    \* what is left of it, once revoked
          honoured  \* the tokens answered from memory

graceVars == <<standing, grace, honoured>>

Init == /\ standing = [t \in Token |-> "none"]
        /\ grace = [t \in Token |-> TTL]
        /\ honoured = {}

Issue(t) ==
  /\ standing[t] = "none" /\ standing' = [standing EXCEPT ![t] = "active"]
  /\ UNCHANGED <<grace, honoured>>

Revoke(t) ==
  /\ standing[t] = "active" /\ standing' = [standing EXCEPT ![t] = "revoked"]
  /\ UNCHANGED <<grace, honoured>>

\* A token is remembered, and others make room for it.
Honour(t, dropped) ==
  /\ \/ standing[t] = "active"
     \/ standing[t] = "revoked" /\ grace[t] > 0
  /\ honoured' = (honoured \ dropped) \cup {t}
  /\ UNCHANGED <<standing, grace>>

\* A notice, a restart, or an entry that makes room.
Drop(some) == honoured' = honoured \ some /\ UNCHANGED <<standing, grace>>

\* What expires is dropped, and with it whatever has no grace left.
Left(t) == IF standing[t] = "revoked" /\ grace[t] > 0 THEN grace[t] - 1 ELSE grace[t]
Overdue == {t \in Token : standing[t] = "revoked" /\ Left(t) = 0}
Tick(expired) ==
  /\ grace' = [t \in Token |-> Left(t)]
  /\ honoured' = honoured \ (expired \cup Overdue)
  /\ UNCHANGED standing

Next ==
  \/ \E some \in SUBSET Token : Drop(some) \/ Tick(some)
  \/ \E t \in Token : Issue(t) \/ Revoke(t) \/ \E some \in SUBSET Token : Honour(t, some)

Spec == Init /\ [][Next]_graceVars
=============================================================================
