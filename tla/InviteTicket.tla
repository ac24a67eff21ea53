---------------------------- MODULE InviteTicket ----------------------------
(***************************************************************************)
(* What an invite promises, however redemptions, logins and the calls of   *)
(* admins overlap: it is a ticket that is used once, while it is open, for *)
(* a handle that nobody has; what was spent is never open again; and only  *)
(* whoever has a handle from a personal ticket is ever signed in with it.  *)
(***************************************************************************)
CONSTANTS Invite, Personal, Name, NULL

VARIABLES ticket,  \* "none", "open", "closed", "spent" or, unspent and deleted, "gone"
          owner,   \* the ticket a handle was taken with, or NULL
          signedIn \* the handles with a session

ticketVars == <<ticket, owner, signedIn>>

Init == /\ ticket = [i \in Invite |-> "none"]
        /\ owner = [n \in Name |-> NULL]
        /\ signedIn = {}

Turn(i, from, to) ==
  /\ ticket[i] = from /\ ticket' = [ticket EXCEPT ![i] = to]
  /\ UNCHANGED <<owner, signedIn>>

\* One statement deletes all that are closed, or one ticket by its id.
Discard(some) ==
  /\ \A i \in some : ticket[i] \in {"open", "closed"}
  /\ ticket' = [i \in Invite |-> IF i \in some THEN "gone" ELSE ticket[i]]
  /\ UNCHANGED <<owner, signedIn>>

\* A ticket of an agent of the dashboard makes no handle.
Spend(i, n) ==
  /\ ticket[i] = "open"
  /\ n \in Name => owner[n] = NULL
  /\ ticket' = [ticket EXCEPT ![i] = "spent"]
  /\ owner' = [m \in Name |-> IF m = n THEN i ELSE owner[m]]
  /\ UNCHANGED signedIn

SignIn(n) ==
  /\ owner[n] \in Personal /\ signedIn' = signedIn \cup {n}
  /\ UNCHANGED <<ticket, owner>>
SignOut(n) ==
  /\ signedIn' = signedIn \ {n}
  /\ UNCHANGED <<ticket, owner>>

Next ==
  \/ \E n \in Name : SignOut(n) \/ SignIn(n)
  \/ \E i \in Invite : \/ Turn(i, "none", "open") \/ Turn(i, "open", "closed")
                       \/ Turn(i, "closed", "open")
                       \/ \E n \in Name \cup {NULL} : Spend(i, n)
  \/ \E some \in SUBSET Invite : Discard(some)

Spec == Init /\ [][Next]_ticketVars
=============================================================================
