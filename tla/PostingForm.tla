---------------------------- MODULE PostingForm ----------------------------
(***************************************************************************)
(* The posting limits of the forum: one row that readers make when it is   *)
(* missing, and the form of the settings that saves or resets it. The five *)
(* limits are read and written together: one value stands for all of them. *)
(* Text that is no whole number is not sent, a value out of its range is   *)
(* refused like any request that fails, and neither is told apart here.    *)
(***************************************************************************)
EXTENDS Naturals, FiniteSets, Sql

CONSTANTS
  PostTab,       \* tabs on the Posting page
  Limits,        \* values of the row within the ranges
  DefaultLimits, \* DEFAULT_POSTING_SETTINGS
  LimitRead,     \* calls of getPostingSettings, reused
  LimitSave      \* requests to save or reset, reused

\* Assumed of the constants.
PostingConstantsOK ==
  DefaultLimits \in Limits /\ NULL \notin Limits \cup PostTab

VARIABLES
  limitsRow, \* forum_settings, NULL as long as nothing has made the row
  reading,   \* the readers
  posting,   \* the form of a tab
  change,    \* the requests
  saved,     \* history: what the last save or reset wrote
  fresh      \* history: tabs that hold what the row held last, as far as they were told

postingVars == <<limitsRow, reading, posting, change, saved, fresh>>

NotReading == [at |-> "idle", for |-> NULL, got |-> NULL, last |-> FALSE, held |-> {}]
NoPosting == [open |-> FALSE, values |-> NULL, busy |-> FALSE]
NoChange == [by |-> NULL, op |-> "none", value |-> NULL, at |-> "sent", live |-> FALSE, last |-> FALSE]

PostingTypeOK ==
  /\ limitsRow \in Limits \cup {NULL} /\ saved \in Limits \cup {NULL} /\ fresh \subseteq PostTab
  /\ reading \in [LimitRead -> [at : {"idle", "select", "insert", "reread", "done"},
       for : PostTab \cup {NULL}, got : Limits \cup {NULL}, last : BOOLEAN, held : SUBSET Limits]]
  /\ posting \in [PostTab -> [open : BOOLEAN, values : Limits \cup {NULL}, busy : BOOLEAN]]
  /\ change \in [LimitSave -> [by : PostTab \cup {NULL}, op : {"none", "save", "reset"},
       value : Limits \cup {NULL}, at : {"sent", "ok", "failed"}, live : BOOLEAN,
       last : BOOLEAN]]

\* The row of the migration, which has limits of its own, or none where it was not made.
PostingInit ==
  /\ limitsRow \in Limits \cup {NULL} /\ saved = NULL /\ fresh = {}
  /\ reading = [r \in LimitRead |-> NotReading] /\ change = [c \in LimitSave |-> NoChange]
  /\ posting = [t \in PostTab |-> NoPosting]

\* What a write of the row does to those who have looked at it before.
Overtaken(v) ==
  /\ limitsRow' = v /\ fresh' = {}
Outdated(v) == [r \in LimitRead |-> IF reading[r].at = "idle" THEN reading[r]
  ELSE [reading[r] EXCEPT !.last = FALSE, !.held = @ \cup {v}]]

(***************************************************************************)
(* getPostingSettings: of a page of the settings, of a post, of a composer *)
(***************************************************************************)
BeginRead(r, t) ==
  /\ reading[r].at = "idle" /\ (t # NULL => ~posting[t].open)
  /\ reading' = [reading EXCEPT ![r] =
       [NotReading EXCEPT !.at = "select", !.for = t, !.held = {limitsRow} \ {NULL}]]
  /\ UNCHANGED <<limitsRow, posting, change, saved, fresh>>

Found(r) == [reading EXCEPT ![r].at = "done", ![r].got = limitsRow, ![r].last = TRUE]

SelectRow(r) ==
  /\ reading[r].at = "select"
  /\ reading' = IF limitsRow = NULL THEN [reading EXCEPT ![r].at = "insert"] ELSE Found(r)
  /\ UNCHANGED <<limitsRow, posting, change, saved, fresh>>

\* INSERT .. ON CONFLICT DO NOTHING: the row is made here, or by another one since.
SeedRow(r) ==
  /\ reading[r].at = "insert"
  /\ IF limitsRow = NULL
     THEN /\ Overtaken(DefaultLimits)
          /\ reading' = [Outdated(DefaultLimits) EXCEPT
               ![r].at = "done", ![r].got = DefaultLimits, ![r].last = TRUE]
     ELSE reading' = [reading EXCEPT ![r].at = "reread"] /\ UNCHANGED <<limitsRow, fresh>>
  /\ UNCHANGED <<posting, change, saved>>

\* The second SELECT, and the constants if that finds nothing either.
Reread(r) ==
  /\ reading[r].at = "reread"
  /\ reading' = IF limitsRow # NULL THEN Found(r)
                ELSE [reading EXCEPT ![r].at = "done", ![r].got = DefaultLimits]
  /\ UNCHANGED <<limitsRow, posting, change, saved, fresh>>

\* The panel mounts with what its page read; another reader goes on with its answer.
UseLimits(r) ==
  /\ reading[r].at = "done" /\ reading' = [reading EXCEPT ![r] = NotReading]
  /\ IF reading[r].for = NULL \/ posting[reading[r].for].open THEN UNCHANGED <<posting, fresh>>
     ELSE /\ posting' = [posting EXCEPT ![reading[r].for] =
                           [open |-> TRUE, values |-> reading[r].got, busy |-> FALSE]]
          /\ fresh' = IF reading[r].last THEN fresh \cup {reading[r].for} ELSE fresh
  /\ UNCHANGED <<limitsRow, change, saved>>

(***************************************************************************)
(* The form and its two routes                                             *)
(***************************************************************************)
TypeLimits(t, v) ==
  /\ posting[t].open /\ ~posting[t].busy /\ v # posting[t].values
  /\ posting' = [posting EXCEPT ![t].values = v] /\ fresh' = fresh \ {t}
  /\ UNCHANGED <<limitsRow, reading, change, saved>>

Sends(t, c, op, v) ==
  /\ posting[t].open /\ ~posting[t].busy /\ change[c].op = "none"
  /\ posting' = [posting EXCEPT ![t].busy = TRUE]
  /\ change' = [change EXCEPT ![c] = [NoChange EXCEPT !.by = t, !.op = op, !.value = v, !.live = TRUE]]
  /\ UNCHANGED <<limitsRow, reading, saved, fresh>>

SaveLimits(t, c) == Sends(t, c, "save", posting[t].values)
ResetLimits(t, c) == Sends(t, c, "reset", DefaultLimits)

\* updatePostingSettings: validateUpdate, then the upsert of the whole row.
WriteLimits(c) ==
  LET v == change[c].value IN
  /\ change[c].op # "none" /\ change[c].at = "sent"
  /\ Overtaken(v) /\ reading' = Outdated(v) /\ saved' = v
  /\ change' = [o \in LimitSave |-> IF o = c THEN [change[o] EXCEPT !.at = "ok", !.last = TRUE]
                                    ELSE [change[o] EXCEPT !.last = FALSE]]
  /\ UNCHANGED posting

\* No session, a value out of its range, an error of the database; the network, before
\* the request or after the write.
FailChange(c) ==
  /\ change[c].op # "none" /\ change[c].at # "failed"
  /\ change' = [change EXCEPT ![c].at = "failed"]
  /\ UNCHANGED <<limitsRow, reading, posting, saved, fresh>>

\* A reset shows the row it is answered with; a save leaves its own values in the form.
Answered(c) ==
  LET k == change[c] IN
  /\ k.op # "none" /\ k.at # "sent" /\ change' = [change EXCEPT ![c] = NoChange]
  /\ posting' = IF ~k.live THEN posting
                ELSE IF k.op = "reset" /\ k.at = "ok"
                THEN [posting EXCEPT ![k.by].busy = FALSE, ![k.by].values = k.value]
                ELSE [posting EXCEPT ![k.by].busy = FALSE]
  /\ fresh' = IF k.live /\ k.at = "ok" /\ k.last THEN fresh \cup {k.by} ELSE fresh
  /\ UNCHANGED <<limitsRow, reading, saved>>

\* Off the page: a request under way goes on and is forgotten.
LeavePosting(t) ==
  /\ posting[t].open /\ posting' = [posting EXCEPT ![t] = NoPosting] /\ fresh' = fresh \ {t}
  /\ change' = [c \in LimitSave |-> IF change[c].by = t THEN [change[c] EXCEPT !.live = FALSE]
                                    ELSE change[c]]
  /\ UNCHANGED <<limitsRow, reading, saved>>

PostingNext ==
  \/ \E r \in LimitRead : \/ \E t \in PostTab \cup {NULL} : BeginRead(r, t)
                          \/ SelectRow(r) \/ SeedRow(r) \/ Reread(r) \/ UseLimits(r)
  \/ \E t \in PostTab : \/ \E v \in Limits : TypeLimits(t, v)
                        \/ \E c \in LimitSave : SaveLimits(t, c) \/ ResetLimits(t, c)
                        \/ LeavePosting(t)
  \/ \E c \in LimitSave : WriteLimits(c) \/ FailChange(c) \/ Answered(c)

(***************************************************************************)
(* Properties                                                              *)
(***************************************************************************)
\* A reader that makes the row never undoes a save (getPostingSettings against
\* updatePostingSettings, posting-repo.ts).
SeedSparesSaves == saved # NULL => limitsRow = saved
\* Every answer of getPostingSettings was the row at some moment of the call, and the fallback
\* on the constants is never reached (posting-repo.ts).
ReadsHold == \A r \in LimitRead : reading[r].at = "done" => reading[r].got \in reading[r].held
\* A form that was mounted, saved or reset after the last write and not edited since shows the
\* row, though a refresh of the page gives it nothing (PostingPanel.tsx).
FormsFresh == \A t \in fresh : posting[t].values = limitsRow
PostingInv == PostingTypeOK /\ SeedSparesSaves /\ ReadsHold /\ FormsFresh
=============================================================================
