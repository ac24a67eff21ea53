----------------------------- MODULE TokenCache -----------------------------
(***************************************************************************)
(* Bearer tokens of a sidecar: the rows an admin issues and revokes in the *)
(* web app, the in-process cache of verified tokens, the requests that     *)
(* look a token up, and the NOTIFY that tells the sidecar of a revocation. *)
(* mcp-dashboard and mcp-forum have the same code but for the retries of   *)
(* the first LISTEN (MaxAttempts) and for what a second revoke does        *)
(* (Restamps).                                                             *)
(*                                                                         *)
(* Time is kept as ages and remaining lifetimes, in ticks, so it need not  *)
(* be bounded. A request is one authenticateBearer call with two awaits    *)
(* in it: the read of the rows and the argon2 verification.                *)
(***************************************************************************)
EXTENDS Integers, FiniteSets

CONSTANTS
  Token, Bearer, Admin,
  TTL,          \* TOKEN_CACHE_TTL_MS, in ticks
  MaxEntries,   \* MAX_CACHE_ENTRIES
  MaxAttempts,  \* LISTEN attempts at boot: 1 in mcp-dashboard, 6 in mcp-forum
  Restamps      \* whether a revoke of a revoked token updates the row again

ASSUME TokenConstantsOK ==
  /\ Token # {} /\ Restamps \in BOOLEAN
  /\ TTL \in Nat \ {0} /\ MaxEntries \in Nat \ {0} /\ MaxAttempts \in Nat \ {0}

VARIABLES
  tokenRow,   \* agent_tokens: no row, active or revoked
  since,      \* history: ticks since the first revocation, at most TTL
  stamp,      \* ticks since revoked_at, at most TTL
  adm,        \* revoke calls, each with the notification it sends
  listener,   \* the LISTEN subscription
  attempt,    \* failed LISTEN attempts since boot
  keys,       \* tokenCache: its keys
  before,     \* pairs of keys: the first was inserted before the second
  left,       \* lifetime left of each entry; 0 when it expired or there is none
  req,        \* authenticateBearer calls
  noticed     \* history: tokens whose revocation reached this process

tableVars == <<tokenRow, since, stamp>>
cacheVars == <<keys, before, left>>
listenVars == <<listener, attempt>>
tokenVars == <<tableVars, adm, listenVars, cacheVars, req, noticed>>

Life == 0..TTL
IdleAdm == [at |-> "idle", token |-> CHOOSE t \in Token : TRUE, wasActive |-> FALSE]
IdleReq == [at |-> "idle", token |-> CHOOSE t \in Token : TRUE, left |-> 0]
Adm == [at : {"idle", "update", "notify", "sent"}, token : Token, wasActive : BOOLEAN]
Req == [at : {"idle", "read", "verify"}, token : Token, left : Life]

TokenTypeOK ==
  /\ tokenRow \in [Token -> {"none", "active", "revoked"}]
  /\ since \in [Token -> Life] /\ stamp \in [Token -> Life]
  /\ adm \in [Admin -> Adm]
  /\ listener \in {"starting", "live", "dead"} /\ attempt \in 0..MaxAttempts
  /\ keys \in SUBSET Token /\ before \in SUBSET (keys \X keys) /\ left \in [Token -> Life]
  /\ req \in [Bearer -> Req]
  /\ noticed \in SUBSET Token

Empty == [t \in Token |-> 0]

TokenInit ==
  /\ tokenRow = [t \in Token |-> "none"] /\ since = Empty /\ stamp = Empty
  /\ adm = [a \in Admin |-> IdleAdm]
  /\ listener = "starting" /\ attempt = 0
  /\ keys = {} /\ before = {} /\ left = Empty
  /\ req = [r \in Bearer |-> IdleReq]
  /\ noticed = {}

Usable(t) == left[t] > 0

\* The order of the keys that stay.
OrderOf(kept) == {p \in before : p[1] \in kept /\ p[2] \in kept}

-----------------------------------------------------------------------------
(* The admin's side: issue, and revoke in up to three statements. *)

IssueToken(t) ==
  /\ tokenRow[t] = "none"
  /\ tokenRow' = [tokenRow EXCEPT ![t] = "active"]
  /\ UNCHANGED <<since, stamp, adm, listenVars, cacheVars, req, noticed>>

ReadToken(a, t) ==
  /\ adm[a].at = "idle"
  /\ tokenRow[t] # "none"
  /\ tokenRow[t] = "active" \/ Restamps
  /\ adm' = [adm EXCEPT ![a] = [at |-> "update", token |-> t, wasActive |-> tokenRow[t] = "active"]]
  /\ UNCHANGED <<tableVars, listenVars, cacheVars, req, noticed>>

MarkRevoked(a) ==
  LET t == adm[a].token IN
  /\ adm[a].at = "update"
  /\ tokenRow' = [tokenRow EXCEPT ![t] = "revoked"]
  /\ since' = IF tokenRow[t] = "revoked" THEN since ELSE [since EXCEPT ![t] = 0]
  /\ stamp' = [stamp EXCEPT ![t] = 0]
  /\ adm' = IF adm[a].wasActive THEN [adm EXCEPT ![a].at = "notify"] ELSE [adm EXCEPT ![a] = IdleAdm]
  /\ UNCHANGED <<listenVars, cacheVars, req, noticed>>

\* pg_notify reaches whoever listens; a failure is swallowed.
Notify(a) ==
  /\ adm[a].at = "notify"
  /\ \/ listener = "live" /\ adm' = [adm EXCEPT ![a].at = "sent"]
     \/ adm' = [adm EXCEPT ![a] = IdleAdm]
  /\ UNCHANGED <<tableVars, listenVars, cacheVars, req, noticed>>

-----------------------------------------------------------------------------
(* The sidecar's listener. *)

\* startTokenRevocationListener, awaited before the transport starts.
ListenOk ==
  /\ listener = "starting"
  /\ listener' = "live" /\ attempt' = 0
  /\ UNCHANGED <<tableVars, adm, cacheVars, req, noticed>>

ListenFails ==
  /\ listener = "starting"
  /\ attempt' = attempt + 1
  /\ listener' = IF attempt' = MaxAttempts THEN "dead" ELSE "starting"
  /\ UNCHANGED <<tableVars, adm, cacheVars, req, noticed>>

\* evictTokenCacheById.
Deliver(a) ==
  LET t == adm[a].token IN
  /\ adm[a].at = "sent"
  /\ adm' = [adm EXCEPT ![a] = IdleAdm]
  /\ keys' = keys \ {t} /\ before' = OrderOf(keys')
  /\ left' = [left EXCEPT ![t] = 0]
  /\ noticed' = noticed \cup {t}
  /\ UNCHANGED <<tableVars, listenVars, req>>

\* The socket drops before the notification arrives; it is not sent again.
LoseNotice(a) ==
  /\ adm[a].at = "sent"
  /\ adm' = [adm EXCEPT ![a] = IdleAdm]
  /\ UNCHANGED <<tableVars, listenVars, cacheVars, req, noticed>>

TokenRestart ==
  /\ listener # "starting"
  /\ listener' = "starting" /\ attempt' = 0
  /\ keys' = {} /\ before' = {} /\ left' = Empty
  /\ req' = [r \in Bearer |-> IdleReq]
  /\ adm' = [a \in Admin |-> IF adm[a].at = "sent" THEN IdleAdm ELSE adm[a]]
  /\ UNCHANGED <<tableVars, noticed>>

-----------------------------------------------------------------------------
(* authenticateBearer. *)

\* The lookup: a usable entry answers at once (Hit); otherwise expired entries
\* are dropped and the rows are read. `now` is taken here.
Hit(r, t) ==
  /\ listener # "starting" /\ req[r].at = "idle"
  /\ Usable(t)
  /\ UNCHANGED tokenVars

Miss(r, t) ==
  /\ listener # "starting" /\ req[r].at = "idle"
  /\ ~Usable(t)
  /\ req' = [req EXCEPT ![r] = [at |-> "read", token |-> t, left |-> TTL]]
  /\ keys' = {k \in keys : Usable(k)} /\ before' = OrderOf(keys')
  /\ UNCHANGED <<tableVars, adm, listenVars, left, noticed>>

\* Mutant: the revoked_at of the matching row is not looked at.
MatchesAny(t) == tokenRow[t] # "none"

\* The rows are read; a revoked or unknown token is refused once its hash has
\* (or has not) matched, without touching the cache.
Matches(t) == tokenRow[t] = "active"
ReadRows(r) ==
  /\ req[r].at = "read"
  /\ req' = IF Matches(req[r].token) THEN [req EXCEPT ![r].at = "verify"]
            ELSE [req EXCEPT ![r] = IdleReq]
  /\ UNCHANGED <<tableVars, adm, listenVars, cacheVars, noticed>>

Oldest == CHOOSE k \in keys : \A j \in keys : <<j, k>> \notin before

\* Mutant: room is made only above the cap.
RoomOver == IF Cardinality(keys) > MaxEntries THEN keys \ {Oldest} ELSE keys

\* At the cap the oldest key makes room, also for a key that is there.
Room == IF Cardinality(keys) >= MaxEntries THEN keys \ {Oldest} ELSE keys

\* The entry is set after room was made; a key that is still there keeps its place.
Store(r, life) ==
  LET t == req[r].token IN
  /\ req[r].at = "verify"
  /\ keys' = Room \cup {t}
  /\ before' = OrderOf(Room) \cup {<<k, t>> : k \in IF t \in Room THEN {} ELSE Room}
  /\ left' = [x \in Token |-> IF x = t THEN life ELSE IF x \in Room THEN left[x] ELSE 0]
  /\ req' = [req EXCEPT ![r] = IdleReq]
  /\ UNCHANGED <<tableVars, adm, listenVars, noticed>>

\* The hash matched: the request is served and the entry expires TTL after `now`.
Accept(r) == Store(r, req[r].left)

\* A read or a verification fails, or the caller goes away.
DropVerify(r) ==
  /\ req[r].at # "idle"
  /\ req' = [req EXCEPT ![r] = IdleReq]
  /\ UNCHANGED <<tableVars, adm, listenVars, cacheVars, noticed>>

-----------------------------------------------------------------------------
Older(n) == IF n < TTL THEN n + 1 ELSE TTL
Shorter(n) == IF n > 0 THEN n - 1 ELSE 0

TokenTick ==
  /\ since' = [t \in Token |-> IF tokenRow[t] = "revoked" THEN Older(since[t]) ELSE since[t]]
  /\ stamp' = [t \in Token |-> IF tokenRow[t] = "revoked" THEN Older(stamp[t]) ELSE stamp[t]]
  /\ left' = [t \in Token |-> Shorter(left[t])]
  /\ req' = [r \in Bearer |-> [req[r] EXCEPT !.left = Shorter(@)]]
  /\ UNCHANGED <<tokenRow, adm, listenVars, keys, before, noticed>>

TokenNext ==
  \/ \E t \in Token : IssueToken(t)
  \/ \E a \in Admin, t \in Token : ReadToken(a, t)
  \/ \E a \in Admin : MarkRevoked(a) \/ Notify(a) \/ Deliver(a) \/ LoseNotice(a)
  \/ ListenOk \/ ListenFails \/ TokenRestart
  \/ \E r \in Bearer, t \in Token : Hit(r, t) \/ Miss(r, t)
  \/ \E r \in Bearer : ReadRows(r) \/ Accept(r) \/ DropVerify(r)
  \/ TokenTick

TokenSpec == TokenInit /\ [][TokenNext]_tokenVars

-----------------------------------------------------------------------------
(* Properties. *)

\* auth.ts:22 and 89: a revoked token is usable for at most one TTL after its
\* revocation, however requests, verifications, notices and restarts interleave and
\* even when the notification is lost.
CacheWithinTTL == \A t \in Token : tokenRow[t] = "revoked" /\ Usable(t) => left[t] + since[t] <= TTL

\* A verification that read the row before the revocation will store an entry that
\* expires within that TTL too (the strengthening of CacheWithinTTL).
VerifyWithinTTL == \A r \in Bearer :
  req[r].at = "verify" /\ tokenRow[req[r].token] = "revoked" /\ req[r].left > 0
     => req[r].left + since[req[r].token] <= TTL

\* Nothing is served, or being verified, that was never issued.
OnlyIssued == /\ \A t \in Token : tokenRow[t] = "none" => left[t] = 0
              /\ \A r \in Bearer : req[r].at = "verify" => tokenRow[req[r].token] # "none"

\* The boot retries end.
RetriesLeft == listener = "starting" => attempt < MaxAttempts

CacheInv == TokenTypeOK /\ CacheWithinTTL /\ VerifyWithinTTL /\ OnlyIssued /\ RetriesLeft

\* The rows and the map as a promise to the admin: what is usable is honoured.
Grace == INSTANCE TokenGrace WITH
  standing <- tokenRow, honoured <- {t \in Token : Usable(t)},
  grace <- [t \in Token |-> IF tokenRow[t] = "revoked" THEN TTL - since[t] ELSE TTL]

\* Lookups, verifications, evictions, notices and restarts implement it.
ImplementsGrace == Grace!Spec

\* MAX_CACHE_ENTRIES: the map never outgrows its cap and holds every usable entry, and of
\* two keys it always knows which is the older.
CacheBounded ==
  /\ Cardinality(keys) <= MaxEntries
  /\ \A t \in Token : Usable(t) => t \in keys
  /\ \A s, t \in keys : s # t => (<<s, t>> \in before <=> <<t, s>> \notin before)

\* What the map owes, to the admin who revokes and to the memory of the process.
CacheKept == CacheInv /\ CacheBounded

\* The insertion order is one: there is an oldest key as long as there is any.
OrderStrict ==
  /\ IsFiniteSet(keys)
  /\ \A k \in keys : <<k, k>> \notin before
  /\ \A i, j, k \in keys : <<i, j>> \in before /\ <<j, k>> \in before => <<i, k>> \in before

\* agent-tokens-repo.ts:122-124: once the notification of its revocation has been
\* processed, a token is not served from the cache any more.
NoticedRefused == \A t \in noticed : ~Usable(t)

\* agent-tokens-repo.ts:134: a revoke of a revoked token is a no-op; revoked_at stays
\* the time of the first one.
RevokedOnce == \A t \in Token : stamp[t] = since[t]
=============================================================================
