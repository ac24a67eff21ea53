---------------------------- MODULE SettingsForms ----------------------------
(***************************************************************************)
(* The forms of the settings over shared rows: targets, prompt templates,  *)
(* comparison sources. A page shows the rows it was rendered with; a       *)
(* dialog takes its values from the page when it opens and saves all of    *)
(* them; the answer may come when that dialog is closed and another one of *)
(* the same row is open.                                                   *)
(*                                                                         *)
(* A row is its name: label, slug, name. The other fields are saved with   *)
(* it and told apart by nothing; what a target's switch has to do with its *)
(* high-water mark is TargetHwm's subject.                                 *)
(***************************************************************************)
EXTENDS Naturals, FiniteSets, Sql

CONSTANTS
  FormTab,     \* tabs on one page of the settings
  SettingsRow, \* rows, each inserted at most once
  RowName,     \* names
  SaveCall     \* requests under way, reused

\* The dialog of the Add button, which is no row's.
NewRow == "new"

\* Assumed of the constants.
FormConstantsOK ==
  NULL \notin FormTab \cup SettingsRow \cup RowName \cup SaveCall \cup {NewRow} /\ NewRow \notin SettingsRow

VARIABLES
  page,      \* the kind of row the tabs show
  table,     \* the table
  shownRows, \* the rows a tab was last rendered with, and a refresh under way
  form,      \* the dialog of a tab
  saving     \* the requests

formVars == <<page, table, shownRows, form, saving>>

Closed == [of |-> NULL, name |-> NULL, busy |-> FALSE, made |-> {}, unsure |-> FALSE]
IdleSave == [op |-> "none", by |-> NULL, of |-> NULL, name |-> NULL, at |-> "check", live |-> FALSE]

FormTypeOK ==
  /\ page \in {"targets", "templates", "sources"}
  /\ table \in [SettingsRow -> RowName \cup {NULL}]
  /\ shownRows \in [FormTab -> [rows : [SettingsRow -> RowName \cup {NULL}], refresh : BOOLEAN]]
  /\ form \in [FormTab -> [of : SettingsRow \cup {NULL, NewRow}, name : RowName \cup {NULL},
       busy : BOOLEAN, made : SUBSET SettingsRow, unsure : BOOLEAN]]
  /\ saving \in [SaveCall -> [op : {"none", "create", "edit", "toggle"}, by : FormTab \cup {NULL},
       of : SettingsRow \cup {NULL}, name : RowName \cup {NULL},
       at : {"check", "write", "ok", "refused", "threw", "lost"}, live : BOOLEAN]]

FormInit ==
  /\ page \in {"targets", "templates", "sources"}
  /\ table = [r \in SettingsRow |-> NULL]
  /\ shownRows = [t \in FormTab |-> [rows |-> table, refresh |-> FALSE]]
  /\ form = [t \in FormTab |-> Closed] /\ saving = [c \in SaveCall |-> IdleSave]

(***************************************************************************)
(* The page and its dialogs                                                *)
(***************************************************************************)
\* A navigation, or the router.refresh() after a save.
Rendered(t) ==
  /\ shownRows' = [shownRows EXCEPT ![t] = [rows |-> table, refresh |-> FALSE]]
  /\ shownRows' # shownRows /\ UNCHANGED <<page, table, form, saving>>

Opened(t, r, name) ==
  /\ form[t].of = NULL /\ form' = [form EXCEPT ![t] = [Closed EXCEPT !.of = r, !.name = name]]
  /\ UNCHANGED <<page, table, shownRows, saving>>
OpenAdd(t) == Opened(t, NewRow, NULL)
OpenEdit(t) == \E r \in SettingsRow :
  shownRows[t].rows[r] # NULL /\ Opened(t, r, shownRows[t].rows[r])

\* Escape or a click beside the dialog, which nothing holds back during a save;
\* the Cancel button is the same and disabled then.
Forgotten(t) == [c \in SaveCall |->
  IF saving[c].by = t THEN [saving[c] EXCEPT !.live = FALSE] ELSE saving[c]]
CloseDialog(t) ==
  /\ form[t].of # NULL /\ form' = [form EXCEPT ![t] = Closed] /\ saving' = Forgotten(t)
  /\ UNCHANGED <<page, table, shownRows>>

\* onSubmit: every field as the form shows it, once at a time.
SubmitForm(t, c, name) ==
  LET d == form[t] IN
  /\ d.of # NULL /\ ~d.busy /\ saving[c].op = "none"
  /\ form' = [form EXCEPT ![t].busy = TRUE]
  /\ saving' = [saving EXCEPT ![c] =
       [op |-> IF d.of = NewRow THEN "create" ELSE "edit", by |-> t, name |-> name,
        of |-> IF d.of = NewRow THEN NULL ELSE d.of, at |-> "check", live |-> TRUE]]
  /\ UNCHANGED <<page, table, shownRows>>
SubmitTarget(t, c, name) == page = "targets" /\ SubmitForm(t, c, name)
SubmitSource(t, c, name) == page = "sources" /\ SubmitForm(t, c, name)
\* The slug of a template that exists is a disabled field.
SubmitTemplate(t, c, name) ==
  /\ page = "templates" /\ (form[t].of # NewRow => name = form[t].name)
  /\ SubmitForm(t, c, name)

\* A button of a row that saves without a dialog, disabled while it is pending.
RowButton(t, c, r) ==
  /\ form[t].of = NULL /\ shownRows[t].rows[r] # NULL /\ saving[c].op = "none"
  /\ ~\E o \in SaveCall : saving[o].op = "toggle" /\ saving[o].by = t /\ saving[o].of = r
  /\ saving' = [saving EXCEPT ![c] = [IdleSave EXCEPT !.op = "toggle", !.by = t, !.of = r]]
  /\ UNCHANGED <<page, table, shownRows, form>>
PauseResume(t, c, r) == page = "targets" /\ RowButton(t, c, r)
Deactivate(t, c, r) == page = "sources" /\ RowButton(t, c, r)

(***************************************************************************)
(* The routes                                                              *)
(***************************************************************************)
Holders(name) == {r \in SettingsRow : table[r] # NULL /\ table[r] = name}

\* slugTaken: by a row other than the one being edited.
SlugTaken(name, except) == Holders(name) \ {except} # {}

FormChecked(c, mayWrite) ==
  /\ saving[c].op # "none" /\ saving[c].at = "check"
  /\ \E at \in {IF mayWrite THEN "write" ELSE "refused", "refused"} :
       saving' = [saving EXCEPT ![c].at = at]
  /\ UNCHANGED <<page, table, shownRows, form>>

\* The session, the row of an edit, the fields: a refusal, or on to the write.
CheckTarget(c) == page = "targets" /\ FormChecked(c, TRUE)
CheckSource(c) == page = "sources" /\ FormChecked(c, TRUE)
\* validateTemplateInput reads the slugs as well.
CheckTemplate(c) == page = "templates" /\ FormChecked(c, ~SlugTaken(saving[c].name, saving[c].of))

\* The unique indexes: slug of a template, name of a source.
IndexRefuses(k) ==
  page # "targets" /\ k.op # "toggle" /\ Holders(k.name) \ {k.of} # {}

\* createTemplate and its like: the row of the INSERT.
InsertsRow(c, r) ==
  /\ saving[c].op = "create" /\ table[r] = NULL
  /\ table' = [table EXCEPT ![r] = saving[c].name]
  /\ form' = [t \in FormTab |-> IF t = saving[c].by /\ saving[c].live
       THEN [form[t] EXCEPT !.made = @ \cup {r}] ELSE form[t]]
\* updateTarget and its like write every field, setTargetActive and the soft
\* delete the switch only.
Updates(c) ==
  /\ saving[c].op \in {"edit", "toggle"}
  /\ table' = IF saving[c].op = "edit" THEN [table EXCEPT ![saving[c].of] = saving[c].name]
                                        ELSE table
  /\ UNCHANGED form

WriteSave(c) ==
  /\ saving[c].at = "write"
  /\ IF IndexRefuses(saving[c])
     THEN saving' = [saving EXCEPT ![c].at = "threw"] /\ UNCHANGED <<table, form>>
     ELSE /\ (\E r \in SettingsRow : InsertsRow(c, r)) \/ Updates(c)
          /\ saving' = [saving EXCEPT ![c].at = "ok"]
  /\ UNCHANGED <<page, shownRows>>

LoseSave(c) ==
  /\ saving[c].op # "none" /\ saving[c].at \in {"check", "ok"}
  /\ saving' = [saving EXCEPT ![c].at = "lost"] /\ UNCHANGED <<page, table, shownRows, form>>

(***************************************************************************)
(* The answers                                                             *)
(***************************************************************************)
SaveOver(c) == saving[c].op # "none" /\ saving[c].at \in {"ok", "refused", "threw", "lost"}
Freed(c) == [saving EXCEPT ![c] = IdleSave]

\* Success closes the row's dialog, whichever form is in it, and refreshes the page.
SaveSucceeds(c) ==
  LET t == saving[c].by
      same == form[t].of = IF saving[c].op = "create" THEN NewRow ELSE saving[c].of IN
  /\ SaveOver(c) /\ saving[c].at = "ok" /\ saving[c].op # "toggle"
  /\ form' = IF same THEN [form EXCEPT ![t] = Closed] ELSE form
  /\ shownRows' = [shownRows EXCEPT ![t].refresh = TRUE]
  /\ saving' = [c2 \in SaveCall |-> IF c2 = c THEN IdleSave
                                  ELSE IF same THEN Forgotten(t)[c2] ELSE saving[c2]]
  /\ UNCHANGED <<page, table>>

\* An error stays in the form that sent it, if it is still there.
SaveFails(c) ==
  LET t == saving[c].by IN
  /\ SaveOver(c) /\ saving[c].at # "ok" /\ saving[c].op # "toggle"
  /\ form' = IF ~saving[c].live THEN form
       ELSE [form EXCEPT ![t].busy = FALSE, ![t].unsure = @ \/ saving[c].at = "lost"]
  /\ saving' = Freed(c) /\ UNCHANGED <<page, table, shownRows>>

ToggleAnswered(c) ==
  /\ SaveOver(c) /\ saving[c].op = "toggle"
  /\ shownRows' = IF saving[c].at = "ok" THEN [shownRows EXCEPT ![saving[c].by].refresh = TRUE]
                                          ELSE shownRows
  /\ saving' = Freed(c) /\ UNCHANGED <<page, table, form>>

FormNext ==
  \/ \E t \in FormTab :
       \/ Rendered(t) \/ OpenAdd(t) \/ OpenEdit(t) \/ CloseDialog(t)
       \/ \E c \in SaveCall : \/ \E r \in SettingsRow : PauseResume(t, c, r) \/ Deactivate(t, c, r)
                              \/ \E name \in RowName : \/ SubmitTarget(t, c, name)
                                                       \/ SubmitTemplate(t, c, name)
                                                       \/ SubmitSource(t, c, name)
  \/ \E c \in SaveCall : \/ CheckTarget(c) \/ CheckTemplate(c) \/ CheckSource(c)
                         \/ WriteSave(c) \/ LoseSave(c)
                         \/ SaveSucceeds(c) \/ SaveFails(c) \/ ToggleAnswered(c)

(***************************************************************************)
(* Properties                                                              *)
(***************************************************************************)
\* A dialog stores one row however often its button is pressed; only an answer
\* that was lost can make the user store a second (TargetForm.tsx, onSubmit).
CreatedOnce == \A t \in FormTab : Cardinality(form[t].made) > 1 => form[t].unsure

\* "Slug is locked on edit so existing target references stay stable"
\* (TemplateForm.tsx:119): however old a page or a dialog is, the slug it shows
\* for a template is the one stored.
SlugsStay == page = "templates" => \A t \in FormTab, r \in SettingsRow :
  /\ shownRows[t].rows[r] # NULL => shownRows[t].rows[r] = table[r]
  /\ form[t].of = r => form[t].name = table[r]

FormsInv == FormTypeOK /\ CreatedOnce /\ SlugsStay

\* "Verifies slug uniqueness via a DB read so the unique-index constraint never
\* gets hit at insert time" (templates-repo.ts:126-128).
IndexNeverHit == page = "templates" => \A c \in SaveCall : saving[c].at # "threw"
=============================================================================
