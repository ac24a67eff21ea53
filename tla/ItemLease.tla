------------------------------ MODULE ItemLease ------------------------------
(***************************************************************************)
(* What the queue promises its agents, whatever happens inside a handler:  *)
(* an item is opened once, is held by at most one agent at a time, passes  *)
(* from one holder to another only through a moment when nobody holds it,  *)
(* and once done is never held or reopened.                                *)
(***************************************************************************)
CONSTANTS Item, Token, NULL

VARIABLES phase,   \* "absent", "open" or "done"
          holder   \* the token with an unexpired claim, or NULL

Init == /\ phase = [i \in Item |-> "absent"]
        /\ holder = [i \in Item |-> NULL]

\* A scheduler tick enqueues a row for each of several targets at once.
Enqueue(new) ==
  /\ \A i \in new : phase[i] = "absent"
  /\ phase' = [i \in Item |-> IF i \in new THEN "open" ELSE phase[i]]
  /\ UNCHANGED holder

Acquire(i, t) ==
  /\ phase[i] = "open" /\ holder[i] = NULL
  /\ holder' = [holder EXCEPT ![i] = t]
  /\ UNCHANGED phase

\* The claim expires, or its holder gives it up.
Lapse(i) ==
  /\ holder[i] # NULL
  /\ holder' = [holder EXCEPT ![i] = NULL]
  /\ UNCHANGED phase

Finish(i) ==
  /\ phase[i] = "open"
  /\ phase' = [phase EXCEPT ![i] = "done"]
  /\ holder' = [holder EXCEPT ![i] = NULL]

Next == \/ \E new \in SUBSET Item : Enqueue(new)
        \/ \E i \in Item : Lapse(i) \/ Finish(i) \/ \E t \in Token : Acquire(i, t)

Spec == Init /\ [][Next]_<<phase, holder>>
=============================================================================
