---------------------------- MODULE RecoveryCodes ----------------------------
(***************************************************************************)
(* What founding and recovery come to, however their transactions overlap  *)
(* and wherever they fail: each of them happens at once or not at all. A   *)
(* live code is traded for a passkey and the next code of the same admin,  *)
(* or the admin has codes burned and a new one issued; a code is issued    *)
(* once and, when it was burned, stays so.                                 *)
(***************************************************************************)
CONSTANTS Code, NULL

VARIABLES admin,   \* the admins, named by their first code
          state,   \* "none", "live" or "burned"
          of,      \* the admin a code belongs to, or NULL
          passkey  \* the code that a recovery was let in with, by the code it issued

codeVars == <<admin, state, of, passkey>>

Init == /\ admin = {}
        /\ state = [c \in Code |-> "none"]
        /\ of = [c \in Code |-> NULL]
        /\ passkey = [c \in Code |-> NULL]

LiveOf(a) == {c \in Code : state[c] = "live" /\ of[c] = a}

\* A new code for a, in the place of others of a.
Trade(c, a, others) ==
  /\ of' = [of EXCEPT ![c] = a]
  /\ state' = [k \in Code |-> IF k = c THEN "live" ELSE IF k \in others THEN "burned" ELSE state[k]]

Found(c) == Trade(c, c, {}) /\ admin' = admin \cup {c} /\ UNCHANGED passkey

Recover(c, a) ==
  \E k \in LiveOf(a) :
    Trade(c, a, {k}) /\ passkey' = [passkey EXCEPT ![c] = k] /\ UNCHANGED admin

\* Of the live codes, those that the admin's statement has seen.
Regenerate(c, a) ==
  \E seen \in SUBSET LiveOf(a) : Trade(c, a, seen) /\ UNCHANGED <<admin, passkey>>

Next == \E c \in Code :
  /\ state[c] = "none"
  /\ Found(c) \/ \E a \in admin : Recover(c, a) \/ Regenerate(c, a)

Spec == Init /\ [][Next]_codeVars
=============================================================================
