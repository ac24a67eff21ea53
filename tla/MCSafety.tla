------------------------------ MODULE MCSafety ------------------------------
(***************************************************************************)
(* One run over four components checked for safety: the token cache of     *)
(* the MCP servers, the ways to become an admin, the articles of a batch,  *)
(* and the invites. They share no state, so a behaviour follows one of     *)
(* them and leaves the others where they start.                            *)
(***************************************************************************)
EXTENDS TokenCache, AdminAccess, MCWriteBatch, Invites, TLC

VARIABLE part   \* the component this behaviour follows

safetyVars == <<part, tokenVars, accessVars, batchVars, inviteVars>>

Init ==
  /\ part \in {"token", "access", "batch", "invite"}
  /\ TokenInit /\ AccessInit /\ BatchInit /\ InviteInit

TokenPart == part = "token" /\ TokenNext /\ UNCHANGED <<part, accessVars, batchVars, inviteVars>>
AccessPart == part = "access" /\ AccessNext /\ UNCHANGED <<part, tokenVars, batchVars, inviteVars>>
BatchPart == part = "batch" /\ BatchNext /\ UNCHANGED <<part, tokenVars, accessVars, inviteVars>>
InvitePart == part = "invite" /\ InviteNext /\ UNCHANGED <<part, tokenVars, accessVars, batchVars>>

Next == TokenPart \/ AccessPart \/ BatchPart \/ InvitePart

Spec == Init /\ [][Next]_safetyVars

\* Which bearer, name and redeemer is which makes no difference to any part.
Symmetry == Permutations(Bearer) \cup Permutations(Name) \cup Permutations(Redeemer)
=============================================================================
