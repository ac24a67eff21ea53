# LucidIndex in TLA+

LucidIndex is a news index written by agents. Agents pull work from a queue over
MCP, write articles, and acknowledge; a cron sidecar schedules and repairs the
queue, purges and backs up; a Next.js web app shows the articles, hosts a forum
and administers everything. All processes share one Postgres database, which is
the only shared state between them (plus in-memory caches and `NOTIFY`).

This directory is the verification project kept beside the code: TLA+ modules
translated from `src/`, TLC configurations, and TLAPS proofs.

Contents

1. [The system: components, state, interaction](#1-the-system)
2. [What is hard about it](#2-what-is-hard)
3. [Modules, and how they correspond to the code](#3-modules)
4. [Runs: bounds and what they show](#4-runs)
5. [Fairness](#5-fairness)
6. [Proofs](#6-proofs)
7. [Where the code and its comments disagree](#7-findings)
8. [What is not modelled, and the plan](#8-plan)

How to run (in this directory):

    tlc -workers 2 -config queue_serial.cfg MCQueue
    tlapm QueueProofs.tla

## 1. The system

| Component | Sources | State it keeps | Operations | Correct when |
|---|---|---|---|---|
| Queue tools | `apps/mcp-dashboard/src/tools/{pull-queue-item,ack-queue-item,extend-queue-lock}.ts` | tables `queue`, `run_log`, the run summary and `high_water_mark` of `targets` | pull (claim with `FOR UPDATE SKIP LOCKED`), ack, extend | one holder at a time; finished work stays finished; every run accounted for; dead agents' items come back |
| `write_articles` | `.../tools/write-articles.ts` | `articles`, `topic_badge_suggestions`, `run_log.articles_count` | badge validation, run look-up, three passes | no duplicate per (target, URL); counts right; one bad article does not sink the batch |
| Other dashboard tools | `.../tools/*.ts` | read only, except `write_target_*` (write once when null) | read tools, `write_target_profile`, `_description`, `_photo_url`, `_social_url` | an agent never overwrites what an admin set |
| Token auth | `apps/mcp-*/src/auth.ts`, `token-revocation-listener.ts` | in-process LRU cache of verified tokens; `agent_tokens` | authenticate, revoke, `LISTEN token_revoked` | a revoked token stops working within a bound |
| Transports | `apps/mcp-*/src/transports/http.ts` | in-flight counter, drain flag, sessions | per-request server, graceful drain | no call is cut off before the drain budget |
| Cron jobs | `apps/cron/src/jobs/*.ts`, `lib/run-job.ts`, `server.ts` | `cron_runs`, `queue`, `targets`, `articles`, backup files | heartbeat, scheduler, reaper, hwm_reset, retention_purge, local_backup, off_site_backup | every job run is closed; shutdown waits for running jobs |
| Targets admin | `apps/web/app/settings/targets/_lib/targets-repo.ts` | `targets` (active, cadence, next_due_at, hwm_reset_pending, high_water_mark) | create, update, pause, resume, delete | a resume (inactive to active) asks for a reset of the high-water mark, and the reset is never lost |
| Invites | `apps/web/app/settings/{agent-invites,dashboard-agent-invites,forum-invites}` | invite rows, `agent_tokens`, `forum_users` | issue, redeem, revoke, unrevoke, delete, clean | an invite is redeemed once, and only while it is available |
| Badges | `apps/web/app/api/settings/badges/**` | `topic_badges`, `topic_badge_suggestions` | create, rename, hide, reorder, approve, reject | a resolved suggestion stays resolved |
| Admin auth | `packages/auth/src/{found*,login,register,session,recovery*}.ts` | `admins`, passkeys, sessions, recovery codes, challenges | found, register, login, recover | exactly one founding admin; a recovery code works once |
| Forum auth | `packages/auth/src/forum-*.ts` | `forum_users`, passkeys, sessions | sign-up by invite, login | an invite makes one user |
| Forum posts | `apps/web/app/api/forum/posts/**`, `apps/mcp-forum/src/tools/*.ts`, `packages/db/notifications.ts` | posts with their topics, images, citations and mentions, comments, stars, notifications | create, reply, edit, star, notify, list, mark read, delete | a post is of one save; a notification per event and person, for saves that were stored alone; a list shows every row once |
| Forum pages | `apps/web/app/forum/**` | drafts; in the browser the composer, its slots and timers, the optimistic replies, the stars | write, cite, mention, upload, auto-save, publish, reply, star | no text is lost, no draft comes back, a token means what was picked |
| Settings pages | `apps/web/app/settings/**`, `apps/web/app/api/settings/**` | rows, lists as they were rendered, dialogs, requests under way | issue, revoke, restore, delete, clear, create, edit, reorder, approve, read, save limits | at rest a page shows the tables; a late answer does not act on what replaced its dialog |
| Sign-in gates | `apps/web/components/auth/**`, `apps/web/app/forum/_components/ForumGate.tsx`, `apps/web/app/api/auth/**` | panes of a tab, cookies, challenges, attempts | claim, sign in, enroll, recover, sign up | a late or lost answer neither moves a gate that has gone on nor strands its user |
| Search and hover cards | `apps/web/components/chrome/TypeaheadSearch.tsx`, `apps/web/components/forum/AuthorHoverCard.tsx` | query, requests, module caches | type, debounce, abort, open, close | an answer belongs to its query; no one waits for a request that nobody made |
| Live updates | `apps/web/app/api/events/route.ts`, `apps/web/lib/sse/article-bus.ts` | an in-process bus of listeners (only a development route publishes) | subscribe, publish, disconnect | no listener leaks; a subscriber gets each later event |
| In-memory guards | `apps/web/lib/{challenge-store,recovery-throttle}.ts` | maps with expiry | put, take, sweep, throttle | a challenge is used once; attempts are bounded |
| Reader state | `apps/web/lib/*.ts`, `apps/web/app/a/[slug]/actions.ts` | local storage, `articles.starred/read` | star, hide, restore | no topic is starred and hidden at once; what a button shows was true |
| Pure helpers | `packages/shared/src/{url,slug,article-view,article-density}.ts`, `apps/cron/src/lib/cadence.ts` | none | normalise, slug, layout, next due date | canonical and stable |
| Schema, migrations, seeds | `packages/db/**` | the tables | - | - |
| Templates | `packages/templates` | starter prompt templates | - | - |

How they interact: the web app's target settings decide what the scheduler
enqueues; the scheduler's queue rows are what pulls claim; a pull creates the
`run_log` row that writes count in and the ack closes; the reaper undoes
abandoned pulls; an ack writes the high-water mark that the next pull hands out
and that hwm_reset clears after a resume. A revocation in the web app
sends a `pg_notify` that reaches the cache of the one MCP server that listens on
its channel. Everything else is rows in Postgres at the
default isolation level, READ COMMITTED. A page of the web app holds a copy of some
rows, as old as its last render; it changes the copy, asks a route to change the
row, and learns of other tabs only by rendering again (`router.refresh`).

## 2. What is hard

* **Check, then act.** Most handlers read a row in one statement and write it by
  id in a later one. Between the two, the lock may expire, the reaper may run,
  another agent may claim, an admin may resume a target.
* **Several writers of one row.** `run_log` rows are written by pulls, writes,
  acks and the reaper; `targets.high_water_mark` by acks and `hwm_reset`.
* **Best-effort statements.** Releases and clean-ups swallow their errors and rely
  on the reaper to repair what they leave.
* **Locks taken in different orders** by the reaper and an ack, and by overlapping
  scheduler ticks: Postgres aborts one of them.
* **State read before an await and used after it** in one Node process: the
  token cache, the pre-admin guard.
* **Time.** Lock expiry, cadences, cache lifetimes, drain budgets.
* **Optimistic pages.** A component changes what it shows, sends a request, and
  takes the change back when the request fails: from a closure of an earlier render,
  after another click, under a dialog that has been closed and opened again.
* **Answers that are lost or late.** A request was carried out and its answer is not
  heard; a ceremony has two requests with the user between them; a one-time code
  travels in an answer.
* **A failing statement inside a transaction** is caught, but Postgres has aborted
  the transaction.
* **Crashes** of the MCP server or of the sidecar between any two statements,
  and of a writer of files half-way through one.

`PROJECT.json` lists each of these at the line where it bites ("hazards") with
the properties that cover it. Where the code also fails a
statement its comments make, the hazard says so and [section 7](#7-findings) has the
behaviour. The
invariants of the web modules are checked in groups, in the run `web`.

## 3. Modules

A statement of SQL, or a run of statements nobody else can tell apart, is one
action; calls interleave between actions. A statement sees what is committed when
it starts (READ COMMITTED), a row that an open transaction has updated is locked
until it ends, and an UPDATE that waited looks at its row again. Only what the
properties tell apart is kept of the data: an id, a status, an age.

| Module | Models | State | Actions |
|---|---|---|---|
| `QueueLifecycle` | queue tools, `write_articles`, scheduler, reaper | the columns of `queue`, `run_log`, `articles` the code tests; `due` of a target; the locals of each handler, tick and reaper | `Pull*`, `Write*`, `Ack*`, `Extend*` (a handler's statements in order), `Reap*`, `Sched*`, lock expiry, a target becoming due, restarts |
| `QueueProperties` | - | - | invariants, action properties, fairness of the queue |
| `ItemLease` | what the queue promises | `phase`, `holder` per item | `Enqueue`, `Acquire`, `Lapse`, `Finish` |
| `InviteTicket` | what an invite promises | `ticket` per invite, `owner` per handle, `signedIn` | `Turn`, `Discard`, `Spend`, `SignIn`, `SignOut` |
| `TokenGrace` | what a cache of verified tokens promises | `standing` and `grace` of a token, `honoured` | `Issue`, `Revoke`, `Honour`, `Drop`, `Tick` |
| `RecoveryCodes` | what founding and recovery promise | `admin`, `state` and admin `of` a code, `passkey` | `Found`, `Recover`, `Regenerate` |
| `WriteBatch` | pass 1 and 3 of `write_articles` | committed and pending rows, the badge suggestion, each call's plan and report | `Plan`, `Insert`, `Collide`, `Deadlock`, `Commit`, `Throw` ... |
| `TargetHwm` | target settings, `hwm_reset`, the mark an ack stores | one row of `targets`, settings requests, runs in flight; history: watches, and whether the last resume raced a pause | `ReadActive`, `WriteActive`, `Pull`, `Ack`, `Reset` ... |
| `AdminGuard` | `adminsExist` of both MCP servers | its two module variables, the calls in their await | `Remembered`, `Begin`, `Read`, `Answer` ... |
| `TokenCache` | `authenticateBearer`, the verify cache, the revocation listener, issue and revoke | token rows, the map (order and lifetimes), calls in their two awaits, notices on their way | `Hit`, `Miss`, `ReadRows`, `Accept`, `MarkRevoked`, `Notify`, `Deliver` ... |
| `AdminAccess` | founding claim, recovery, regeneration | `admins`, `recovery_codes`, the transactions | `Recheck`, `Found`, `Consume`, `Enroll`, `BurnOne`, `Issue`, `Abort` ... |
| `Invites` | invites of the three kinds, sign-up, forum login | invite rows, what each made, the redeeming transactions, admin calls between read and write, sessions | `MatchCode`, `LockInvite`, `AddAgent`, `AddUser`, `ClaimInvite`, `CommitRedeem`, `ReadInvite`, `WriteInvite`, `CleanInvites` ... |
| `CronJobs` | `runTracked`, `runJob`, the shutdown | ticks, `cron_runs`, the in-flight counter | `Fire`, `OpenRow`, `CloseRow`, `Leave`, `Signal`, `Exit`, `Crash` ... |
| `NightlyBackup` | the two backup jobs, as bodies of `CronJobs` | files on disk and at the remote | `DumpBegins`, `DumpEnds`, `TarEnds`, `Sweep`, `FindFiles`, `Copy` ... |
| `ArticleRetention` | phase 2 of the purge, the star toggle, hero images | articles, files, stars, the purge's locals | `Select`, `UnlinkFile`, `Delete`, `DeleteRefused`, `WriteStar` ... |
| `HttpDrain` | `transports/http.ts` of both MCP servers | the process, connections, requests, the in-flight counter | `ReceiveRequest`, `ReadBody`, `Authenticate`, `AnswerCall`, `Teardown`, `Signal`, `BudgetSpent`, `CloseListener`, `Exit` ... |
| `ForumPosts` | posts, comments, edits, notifications: the routes and the tools of mcp-forum | the rows by the save that wrote them, each save's transaction, a member paging through the list | `CheckCreate`, `CheckEdit`, `BeginInsert`, `WriteNotices`, `CatchNoticeFailure`, `CommitInsert`, `Rewrite`, `ListPage`, `MarkRead` ... |
| `DraftAutosave` | the composer's timer and buttons, the draft routes | flags and refs of the composer, `forum_post_drafts`, requests | `Edit`, `TimerSaves`, `SaveClicked`, `Publish`, `Settle`, `InsertDraft`, `CommitUpdate`, `HearAnswer`, `GiveUp` ... |
| `ComposerBody` | the text of `PostComposer` and `RepliesPane`, its `@` menu, slots and uploads | pieces of text, the range of the menu, slots of citations and images, drops of files under way | `TypeWords`, `PickPost`, `PickUser`, `QueueImages`, `UploadSucceeds`, `RemoveImage` ... |
| `ReplyPanes` | the two panes of a post | the list of replies, panes, requests, the table | `Submit`, `StoreReply`, `Accepted`, `Failed`, `Abandoned` ... |
| `ForumStars` | the star of a post and its route | the row, the buttons, the requests | `ClickStar`, `ReadStar`, `WriteStar`, `ReconcileStar`, `RevertStar` ... |
| `Typeahead`, `HoverCards` | the search box; the author cards | box or cards, fetches, the module's cache | `Type`, `Miss`, `Answer`, `HearAbort` ...; `OpenUnknown`, `EndSummary` ... |
| `InvitePanels` | the pages of the three kinds of invites and of the tokens | the table, the list as rendered, dialog, one-time secret, requests, another tab | `Submit*`, `Insert*`, `Revoke*`, `Restore*`, `Delete*`, `Clear*`, refreshes ... |
| `Badges` | badges and suggestions, page and routes | the two tables, the page, the bulk action, requests | `Drag`, `UpdateRow`, `BreakDeadlock`, `ApproveSuggestion`, `RejectSuggestion`, `StartBulk` ... |
| `Gates` | founding, passkey and code sign-in, registration, the forum gate | rows, cookies, challenges, the throttle, tabs, attempts | `Slide`, `Submits`, `StartRoute`, `Confirm`, `Finish*`, `Succeeds`, `AnswerDropped` ... |
| `InboxPanel` | the notifications page and the badge of the sidebar | the table, the list, the count, requests | `ClickRow`, `DeleteRow`, `ConfirmClear`, `MoreRows`, `Serve`, `RefuseCall`, `LoseCall` ... |
| `SettingsForms` | dialogs of targets, templates, comparison sources | the table, rows shown, the dialog, requests | `OpenEdit`, `Submit*`, `Check*`, `WriteSave`, `SaveSucceeds`, `PauseResume` ... |
| `PostingForm` | the limits row, its readers, its page | the row, readers, the form, requests | `SelectRow`, `SeedRow`, `Reread`, `SaveLimits`, `ResetLimits`, `WriteLimits` ... |
| `ArticleBus` | the event stream and the page that follows it | listeners, timers, streams, pages | `OpenStream`, `TestEvent`, `Heartbeat`, `Tear`, `AbortStream`, `Receive` ... |
| `ReaderPrefs` | stars and hidden topics in `localStorage` | the storage, what each widget shows | `MountWidget`, `ToggleStar`, `RestoreTopic`, `ToggleFancied` |
| `Sql` | the value `NULL`; `ORDER BY`, for the pages of `Badges` and `InboxPanel` | - | `Ranked` |
| `MC*` | instances for TLC | - | - |
| `QueueProofs` | theorems of the queue | - | - |
| `CronProofs` | theorems of `CronJobs`, `NightlyBackup`, `ArticleRetention` | - | - |
| `SafetyProofs` | theorems of `AdminAccess`, `Invites`, `TokenCache`, `WriteBatch`, `AdminGuard`, `TargetHwm` | - | - |
| `ForumProofs` | of `ForumPosts`, `DraftAutosave`, `ReplyPanes`, `ForumStars` | - | - |
| `PagesProofs` | of `Typeahead`, `HoverCards`, `ReaderPrefs`, `ComposerBody` | - | - |
| `LiveProofs` | of `HttpDrain`, `ArticleBus`, `Gates` | - | - |
| `SettingsProofs` | of `InvitePanels`, `Badges`, `InboxPanel`, `SettingsForms`, `PostingForm` | - | - |
| `WebProofs` | theorems of `MCWeb`, from the four modules before it | - | - |

How they compose. `NightlyBackup` extends `CronJobs`: a backup is the body of a
tick, between the opening and the closing of its `cron_runs` row, and dies with
the process. `QueueProperties` instantiates `ItemLease` with a refinement mapping
(a claim whose lock has expired is no claim), `Invites` instantiates `InviteTicket`
(an invite that something was made from is spent, whatever became of its row),
`TokenCache` instantiates `TokenGrace` (what is usable is honoured, what is left of the
TTL since the first revocation is the grace), and `AdminAccess` instantiates
`RecoveryCodes` (the committed rows; whoever burns codes and issues one does both at its
commit).
`QueueLifecycle` is the composition
of six handlers and jobs over the shared tables; `TargetHwm` and `WriteBatch` take
up what an ack writes to `targets` and what a write does inside its transaction,
which the queue abstracts. `MCProgress`, `MCSafety` and `MCWeb` put components that
share no state side by side for TLC: each behaviour follows one of them, because
the product of their states would say nothing more about any of them.

`MCWeb` has sixteen such modules, so it does not extend them: it instantiates the four
modules of theorems that extend them (`Forum`, `Pages`, `Live`, `Settings`), so that
`WebProofs` can cite their lemmas, with the variables `v1 ... v11` in place of each
module's own, in its order; `part` says whose they are (an instance of `ForumPosts` serves two parts, all saves without the
notifications and the notifications with the tools' saves alone). For that reason
the assumptions of these modules are definitions, `...ConstantsOK`, and `MCWeb`
assumes all of them. A module of the web app is a page together with the routes it
calls, and each knows of the others only what its own requests meet: `Gates` takes
the transactions of `AdminAccess` and `Invites` as one step each, `InvitePanels`
those of `Invites` and `TokenCache`, and `PostingForm` hands the limits `ForumPosts`
has no use for.

How a React component is written down. What a handler does between two awaits is
one step. State it reads through a closure is the state of the render the closure
was made in: where that can be older than the state, the module keeps both (`now`
in `DraftAutosave`, the list a reply was put on in `ReplyPanes`). A request has a
stage: sent, read, done or refused, and the step that hears the answer, or none, is
the page's. `router.refresh` is two steps, the read of the tables and the render.

Choices a reader should know:

* A session runs one handler at a time and `TokenOf` gives its token: two sessions
  with one token are a client that retries, or two workers with one secret.
* A history variable records what a property needs and the code does not keep
  (`since`, `enrolled`, `watch`, `markAcked`, `raced`, `cred`, `doomed`, `done`). No guard
  of an action reads one, except that `watch` is bounded by `MaxResumes`.
* In `ComposerBody` an image slot names the upload that will still find it by its id, and
  an upload writes its token into the text its closure saw. Several drops run at once and
  an image is removed at any time. The caret that follows an insertion (a
  `requestAnimationFrame`) is a step of its own, `MoveCaret`: until then the menu keeps
  the range it had. A drop begins on a text that has room for a token within `MaxPieces`.
* In `NightlyBackup` an orderly exit counts as a crash of the jobs, as exiting
  the process ends `pg_dump`, `tar` and `rclone`. A file is as old as its night,
  and `RetentionNights = 0` keeps nothing of an earlier night. A local backup is
  assumed to be over before the next night's begins. The temporary `rclone`
  configuration and the decryption of credentials are left out.
* The transaction of an ack is four steps: what it reads, the UPDATE of the run, the
  UPDATE of the queue row, and the UPDATE of the target with the COMMIT. Each UPDATE
  waits for its own row and holds it from then on. A run it has to insert is inserted
  at the COMMIT, where others first see it, and `ReapStart`, one UPDATE over many rows,
  waits for all the acks that hold one of them at once.
* `admins` is only ever added to: no code deletes one.

## 4. Runs

Every bound is a CONSTANT of its module and is named in a guard. `Faults`,
`MaxCrashes`, `MaxDeaths`, `MaxBatchFaults` bound how much goes wrong in a
behaviour, not when.

| Run | Instance | Shows |
|---|---|---|
| `queue_serial` | two agents with a token each, one target, one URL, two ticks that overlap, three rows, three runs, two claims of a row, no fault | a target never has more open rows than ticks that run at once (two here, of three that could be inserted); a claim has its run |
| `queue_faults` | the same agents, target and URL with one tick, two rows, failing best-effort statements and one restart | `QueueInv` (the inductive invariant of the proofs); a claim in time is not stolen and ends only by its holder or an ack; the queue implements `ItemLease` |
| `queue_shared` | two sessions with one token: a write, an ack, an extension and a second pull of the same run overlap; two rows, three runs, faults, one restart | articles stay attributed to a run of their own target; `attempt_count` covers every pull in flight; `articles_count` is exact until the ack and never too high after it; the run of a claim in time is deleted by the clean-up of a pull of that token alone |
| `queue_live` | fair, two agents, two rows, two runs, faults, ticks that go on | expired claims are released, handlers return |
| `queue_ticks` | fair, one agent whose `run_log` insert may fail, two overlapping ticks over two targets, four rows | ticks end although they lock targets in different orders |
| `backup_nights` | two nights, one restart, retention shorter than a day | bad nights never prune the newest whole dump; a run recorded as succeeded left a whole dump; files of the night are shipped when the dump was in time |
| `progress` | `TargetHwm` (two requests that overlap, two runs, three resumes), `AdminGuard` (two calls, a restart, a TTL of three), `ArticleRetention` (two articles, two pictures, two tabs, one night that dies), `CronJobs` (three ticks that overlap, two failing statements, hanging bodies, signals, crashes, restarts) | the reset of a resumed target is lost only by a resume that raced a pause, and any other gets rid of the old mark; a refusal out of memory is fresh and the guard opens; pictures nobody shares stay, old articles go; the counter the drain waits for is exact, ended ticks leave no open row, an exit in time cuts off nothing, a signal ends the process |
| `safety` | `TokenCache` (two tokens for one entry, two bearers, TTL of two), `AdminAccess` (five requests, four at once), `WriteBatch` (two calls, four batches, one failing statement), `Invites` (one of each kind, two redeemers, two names, an admin) | a revoked token is usable for one TTL at most and the map never outgrows its cap; an admin always has a live code and a code enrolls once; a batch's report is what it wrote; an invite makes one identity, from an open row, `Invites`, `TokenCache` and `AdminAccess` implement `InviteTicket`, `TokenGrace` and `RecoveryCodes` |
| `web` | seventeen parts, one per behaviour, below | the groups `ForumKept` ... `BusKept` of `MCWeb`, each the conjunction of the invariants of its modules; a draft that was published or deleted never comes back |
| `ack_late` | violation of `AckByHolder` | section 7 |
| `batch_slug` | violation of `CollisionsResolved` | section 7 |
| `hwm_late_ack` | violation of `StartsFresh` | section 7 |

`queue_serial`, `queue_faults` and `queue_shared` identify states that differ by a
renaming of calls, tokens and ticks that keeps who owns which (`Symmetry` of `MCQueue`),
`safety` those that differ by bearers, names and redeemers, `web` by saves and draft
calls: nothing in the modules chooses among them, and no property of these runs is a
liveness property.

The parts of `web` (1.2 million states):

| Part | Instance | Invariant of the part |
|---|---|---|
| `posts`, `inbox` | two members, three saves of any kind; three of the tools' saves that mention one member, whose list has pages of one notification, a clock of two milliseconds | `ForumInv`, `WalkComplete` |
| `drafts` | one composer, one draft, two requests at once, two edits | `DraftTypeOK`, `GoneStays` |
| `body` | one text of two pieces, two posts and a member to pick, two picks, one image, which is removed at any time, so that two drops of a file are under way at once, of which one at most remembers a text that is not empty (`FewTexts`) | `BodyInv` |
| `replies` | two panes, two replies, two texts | `RepliesInv` |
| `typeahead` | three queries, two fetches, a cache of two | `TypeaheadInv` |
| `hover` | two cards, two authors, three requests, a cache of one | `HoverInv` |
| `invites` | each of the four pages, two rows, two requests, one change by others | `PanelInv` |
| `badges` | three names, three badges, two requests and a bulk action | `BadgesInv` |
| `gates` | two tabs, three attempts from one or two from several, a throttle of one | `GateInv` |
| `notices` | two notifications, a page of one, two requests | `InboxPanelInv` |
| `forms` | each of the three pages, one tab, two rows, two names (one for targets, which may share it), two requests | `FormsInv` |
| `http` | two clients, three requests | `HttpInv` |
| `bus` | two pages, two streams, three articles | `BusInv` |
| `posting` | a tab, two values of the limits, one reader, two saves | `PostingInv` |
| `stars` | two buttons, three clicks | `StarInv` |
| `prefs` | two widgets, two topics, a creator | `PrefsInv` |

Larger instances of the parts were run once and hold as well: three notifications in
the inbox, three requests of the forms, three replies, two changes by others on the
invite pages, two readers or two tabs of the posting page, three attempts from several
tabs, two images of one drop in the text, two drops that remember any text of one
piece.

Why these bounds are enough to be worth something. Every hazard in the list is a
race of two actors about one row, and each instance has the two actors, the row,
and enough repetitions to be late in: two claims of a row give a first and a
second holder; three rows for two ticks, so that a third would be one too many; in
`queue_faults` and `queue_shared` three runs, one more than the rows, so that one is
deleted; two settings requests, one to read `active` before the pause of the other; three
resumes a mark from two watches ago; five requests two rounds of recovery after a
founding; TTL 2 and 3 a tick within and a tick at the limit. The second target of
`queue_ticks` is what makes two ticks wait for each other. What a larger instance
could add is covered by the proofs for the properties that have one (section 6).

Only `progress` and `hwm_late_ack` keep the deadlock check. All others turn it off,
because their instances really stop: the rows and runs are used up, the nights are
over, the ticks have fired, every request and batch is handled. That handlers do not
wait for each other for ever is `CallsReturn` and `TicksEnd`, under fairness.

An instance of `TokenCache` is `mcp-dashboard` (one LISTEN attempt, a second revoke
updates the row again). `mcp-forum` (six attempts, `Restamps = FALSE`) is covered by
the theorems, whose constants are arbitrary.

## 5. Fairness

* **Queue** (`Fairness` in `QueueProperties`). A started handler goes on: Node's
  event loop and Postgres do not drop it (weak fairness). Whoever waits for a row
  lock gets it in its turn, Postgres grants them in order: strong fairness for
  the two UPDATEs in which an ack may wait (queue row, target row), the end of the
  reaper and the advance of a tick, which wait for locks that come and go. The detector of deadlocks runs. node-cron
  fires the reaper and the scheduler every minute; locks expire because time passes.
  Nothing makes an agent start a call, or a template render.
* **Cron** (`CronFairness`). The statements of a tick and of the shutdown return; a
  body may hang for ever. The deadline of the drain comes.
* **Target** `Reset`: one UPDATE every minute. Acks, pauses and resumes are not fair.
* **Guard**: the clock runs, agents keep polling, and a read of the table that is
  tried again and again succeeds in the end (strong fairness).
* **Retention**: the purge runs every night and a started request finishes. Nights
  that die are bounded by `MaxDeaths`.
* `TokenCache`, `AdminAccess`, `WriteBatch`, `Invites`, the backups and everything in `web`
  are checked for safety only: a user may stop at any moment, and a request may never
  be answered.

## 6. Proofs

Every safety invariant and every action property that a passing run checks is a
theorem, for every value of the constants, and so are the four refinements, with one
exception: `ClaimHasRun` holds only of clients that make one call per token and of
statements that do not fail, which the server does not enforce, so it stays with the run
whose instance is like that, and `LiveRunsKept` proves what is left without. The other
things left to TLC need fairness. The assumptions only type the constants:

* the sets that something is counted over are finite: targets, URLs, ticks, members,
  clients, requests;
* `NULL` is not a member of a set it is the absence of (`NULL \notin Search`,
  `NULL \notin Title`, `NewRow \notin SettingsRow`, `NULL \notin PageRead` ...);
* a bound is a natural number, a page or a cache has at least one entry, the table of
  badges at least two rows (`BadgeInit` begins with two).

No theorem about a specification assumes more than that: any number of ticks, sessions per
token and settings requests overlap. Where what one would wish for is false then (one open
row, an exact count, no reset lost: section 7), the theorem is about what the overlap can
do at worst.

| Theorem | States | Argument |
|---|---|---|
| `QueueProofs!QueueInvariant`, `TypeCorrect`, `FinishedRunsAcked`, `AckedStayUnclaimed` | `QueueInv` and its parts always hold | see below |
| `QueueProofs!LiveClaimsEndByHandler` | no step takes a claim in time from its holder, and only the holder's own handler or an ack ends it | from the invariant: the reaper only holds rows whose lock had expired, a pull takes such rows alone |
| `QueueProofs!QueueImplementsLease` | `Spec => Lease!Spec` | each action maps to a step of the lease or to a stutter |
| `QueueProofs!ArticlesStayAttributed` | an article refers to a run of its own target | runs keep their key, what a handler has in hand is a run of its item, and nothing deletes a run that an article refers to |
| `QueueProofs!AttemptsNeverShort` | `attempt_count` covers every pull that has claimed | the pulls in flight of a row are a finite set that grows with the increment and shrinks before the decrement (`PullsCovered`) |
| `QueueProofs!MissedTickGuard` | a target has at most as many unacked rows as ticks run at once | counted together with the ticks that have found the target without a row and not committed (`RowsAndDeciders`): such a tick has nothing yet, only a target without open rows gets one, and a commit trades one for a row |
| `QueueProofs!LiveRunsKept` | the run of a claim in time is deleted only by a clean-up of a pull of its own token and item | the orphans a reaper has read are of rows it has in hand (`OrphansOfRows`), and those stay expired until its commit |
| `QueueProofs!CountsNeverExceed` | `articles_count` is exact until the ack, and never too high after it | a run that articles refer to is not deleted and its articles only grow (`ArticlesGrow`), so what an ack has counted is at most what there is when it is stored (`RecountHolds`) |
| `CronProofs!JobsAccountedFor`, `DrainIsClean` | the in-flight counter is exact; a drain in time cuts off nothing | the counter is the number of running ticks only while the process lives, so nothing may run after its end |
| `CronProofs!RecordedDumpsExist`, `LastGoodDumpStays`, `FreshDumpShipped` | a recorded backup left a dump; the newest whole dump stays; a dump in time is shipped | local backups run in the order of their nights, so whoever sweeps has left a whole dump of its own night (`TicksInOrder`, `FilesInOrder`) |
| `CronProofs!UntouchedKeepImages` | an article no purge selected keeps its picture | extended to articles whose picture is stored and whose row is not inserted yet (`ImagesStay`) |
| `SafetyProofs!CacheInvariant`, `RevokedWithinTTL` | a revoked token is usable for one TTL at most | an entry's remaining lifetime plus the age of the revocation never exceeds the TTL; a verification on its way carries the same bound, since its lifetime counts from before its read |
| `SafetyProofs!CacheImplementsGrace` | `TokenSpec => Grace!Spec`: once its grace is over a revoked token is never honoured from memory | an entry is stored for a row read as active, so either it still is or `VerifyWithinTTL` leaves grace for it; a tick that ends the grace ends the entry with it (`CacheWithinTTL`) |
| `SafetyProofs!CacheStaysBounded`, `CacheKeepsBoth` | the map keeps its cap and what is usable of it | at the cap the map is not empty, so there is an oldest key to drop before the insertion |
| `SafetyProofs!AccessInvariant`, `AlwaysAWayBack`, `CodesAreOneTime` | every admin has a live code; a code enrolls one passkey | a transaction that holds a consumed code is at the step that issues the next one, and no two transactions hold the same row |
| `SafetyProofs!AccessImplementsCodes` | `AccessSpec => Codes!Spec`: founding, recovery and regeneration happen at once or not at all | what a transaction holds are live codes of the admin it issues the next one to (`HoldsLive`); until its commit nobody sees that they are gone, and an abort leaves no trace |
| `SafetyProofs!InvitesKept`, `MintedFromOpen` | one identity per invite, one user per handle, and only from a row that is open at that moment | a transaction past its check holds the row, and every write of an admin waits for it, so the row stays open for it alone (`HeldForOne`); the same for a username in the unique index |
| `SafetyProofs!InvitesImplementTicket` | `InviteSpec => Ticket!Spec`: one use, from open, for a free handle, a session for its owner only | a ticket is the row's state until something was made from it and "spent" ever after, so deletes and restores of used rows are stutters; a commit spends what `InvitesKept` says it still holds |
| `SafetyProofs!BatchesReported` | a batch reports what it wrote | the rows of a call are those of the articles it counts as inserted, pending before its commit and committed after it (`RowsOfCall`); an article is still to do or answered for (`ArticlesOfCall`) |
| `SafetyProofs!GuardKept`, `RefusalsAreFresh` | a refusal out of memory is at most as old as the memory | an answer on its way is at least as old as the enrollment it missed |
| `SafetyProofs!HwmInvariant`, `ResetNotLost` | for any number of settings requests: a resumed target with an old mark awaits its reset, unless the request of that resume had read `active` before a pause | a resume that had read the target as paused sets the flag, one that had not is marked `raced`; a mark is never of a later watch than it was stored in (`MarkOrdered`) |
| `WebProofs!PostsAndNoticesFit`, `ListsAreComplete` | a post is one save with its notices; a list that ended has shown all | an edit rewrites its join tables one by one under the lock of the post (`EditFits`, `OneEditor`); what a list still owes is listed and older than its cursor (`WalkFits`) |
| `WebProofs!PublishedDraftsStayGone` | no save brings a draft back | an UPDATE past its WHERE holds the row, which was live and stays so (`HeldIsLive`, `OneHolder`) |
| `WebProofs!ComposersKept` | a token means the post it was picked for; a slot that awaits an upload awaits one to come, and alone | the texts the drops remember are as true as the text (`DropsFit`); a drop that begins has no slot yet, a removal keeps slots apart (`SlotsSettle`) |
| `WebProofs!PagesShowTheirOwn` | replies, search box, cards, stars, preferences | the list a reply goes back to is kept with its request (`ListsApart`); a box that waits for no timer waits for its query or shows it; a pending entry of the cache has its fetch; an answer of a star is older than a write only if it is marked so (`StarFits`) |
| `WebProofs!SettingsShowTheTables` | the pages of the settings | below |
| `WebProofs!DrainCounts`, `NoNewsMissed`, `GatesLetBackIn` | the drain, the live strip, the gates | whoever is not answered is connected; what was announced since a stream was opened is on the wire or on the strip (`Told`); whatever leaves a pane stops hearing the attempts made in it (`Press`) |
| `ForumProofs!PostsAndListsKept`, `LiveProofs!GatesLetBackIn`, `PagesProofs!TokensKept` | the same for the whole next-state relations | `MCWeb` cuts the three: fewer kinds of saves per part, fewer attempts under way, fewer texts remembered by drops |
| `SettingsProofs!LimitsKept`, `DialogsStoreOnce`, `RestedPanelsTrue`, `InboxShowsAll`, `BadgesStayTrue` | each page of the settings by itself | below |

Why `QueueInv` is what it is. `TerminalMeansAcked` is not inductive: an ack stores
the terminal status in the run it *read*, so the run must be one of its own item
(`CallRefers`), which needs runs never to change their key (`RunsKeyed`).
`AckedUnclaimed` needs the reaper and a late insert not to bring a claim to an
absent row (`AbsentBlank`). That the reaper releases only expired claims needs its
rows to stay expired between its UPDATE and its commit (`ReaperRowsExpired`): a
row it has updated is locked against every pull and extension. Against an ack it is
locked only up to the ack's own UPDATE, which comes before the COMMIT that changes the
row for others: from then on the row is the ack's, and neither the reaper nor a second
ack of the same row gets it (`RowHeldOnce`).

The composition. A behaviour of `MCWeb` follows one part, and the variables `v1 ...`
are that part's. So `WebIInv` is the parts' invariants, each for the behaviours that
follow it. `PartBegins` and `PartSteps` say that a behaviour begins and steps as its
part does (for posts, lists, texts, gates and forms: as a restriction of it), and `PartHolds` puts
together what each component's module proves with `ASSUME ...ConstantsOK, ...IInv,
...Next PROVE ...IInv'`. The components' modules are instantiated by `MCWeb` with their
lemmas (`Forum`, `Pages`, `Live`, `Settings`), so no proof is made twice.

What "a page at rest shows its table" rests on. The five pages of the settings
have invariants of one form: *either the page knows that it is behind, or it shows what
is stored, or it shows what is about to be.* What differs is what is about to be:

* `InvitePanels`: a write of this page is done and not heard, or the refresh under way
  has read the table as it is (`RestExcused`).
* `Badges`: the page will be read again (`Unseen`: a refresh is wanted, a bulk action is
  on, or an answer to come asks for one), or it shows the tables, or every badge once in
  the order that the one reorder under way is saving (`Shown`, `Faithful`). The commit of
  that reorder makes the order of the rows the order of the list, which is
  a fact about ranking: a list sorted by its own positions is itself. A second drag or a
  refresh meanwhile is what `apart` records.
* `InboxPanel`: a second page begins below all that the list has and holds all that was
  stored there (`MoreFits`); a row that is being deleted is on neither the list nor the
  one a Clear all has put aside, and not below their cursors (`DeleteFits`), so that
  `splice` makes no duplicate and hides nothing; one request of a kind is awaited at a
  time (`OneAtATime`).
* `SettingsForms`: at most one request of a dialog is awaited (`OneLive`), and until its
  INSERT the dialog has made nothing, unless an answer was lost (`SaveFits`). An edit of
  a template carries the slug that is stored.
* `PostingForm`: a reader holds what the row has been since it began (`ReadFits`); a form
  that awaits an answer is not edited, so what it saved is what it shows (`ChangeFits`).

TLC checks `QueueInv` itself in `queue_faults`; of the other inductive invariants it
checks what follows from them, in `progress`, `safety`, `backup_nights` and `web`. The
order of a page's rows is `Ranked` of `Sql`, a choice by rank: a recursive sort
computes the same, and nothing could be proved about it.

Left to TLC: everything under fairness (`ExpiredReleased`, `CallsReturn`,
`TicksEnd`, `StaleMarkCleared`, `GuardOpens`,
`OldGoUnlessPinned`, `SignalEnds`), which is out of the prover's reach, as is ENABLED,
`ClaimHasRun`, and the three runs that expect a violation.
## 7. Where the code and its comments disagree

Three statements are kept as runs that TLC must refute (`PROJECT.json`,
"findings"). The shortest behaviours:

| Run | Says | The code |
|---|---|---|
| `ack_late`, `AckByHolder` | `ack-queue-item.ts:3`: the ack verifies the claim, then marks the row | The check is a SELECT before the transaction and the UPDATE goes by id: the lock expires in between, another agent pulls, and the late ack acknowledges the row under it. |
| `batch_slug`, `CollisionsResolved` | `write-articles.ts:41-43`: a slug collision is retried with a suffix | The retry is a statement of the savepoint whose INSERT has just failed, so Postgres refuses it: the second article with a title of the day is lost. |
| `hwm_late_ack`, `StartsFresh` | `hwm-reset.ts:3-7`: after a resume the next run starts fresh | A run pulled before the pause acks after the reset and stores its old mark. |

The modules define further such statements, each with the line it comes from.
They are not runs of the project; to see TLC refute one, take the configuration
named here with the changed constants and the property alone.

| Property | Configuration, changed constants | What happens |
|---|---|---|
| `ExtendByHolder` (`extend-queue-lock.ts:12-15`) | `ack_late` | the extension goes by id: it lands on the next holder's lock |
| `AckedHasRun` (`schema/targets.ts:149`) | `ack_late` | the reaper deletes the run between the ack's read and its UPDATE, which touches no row |
| `StrandedSwept` (`pull-queue-item.ts:348-349`) | `queue_live`, one session, `Faults = {"cleanup"}` | a run whose clean-up failed is outside the reaper's next sweep, for ever once the item is acked |
| `CountExact` (`ack-queue-item.ts:23-25`) | `queue_shared` | a write that commits between the ack's count and its UPDATE is not counted |
| `OneOpenRow` (`scheduler.ts:10-11`) | `queue_serial` | two overlapping ticks both find no open row and both insert one |
| `StaleMarkPending` (`targets-repo.ts:264-267`) | `hwm_late_ack`, `Editor = {q1, q2}` | a resume that read the target as active before another request paused it does not set the flag |
| `YesForGood` (`pre-admin-guard.ts:14-16`) | `AdminGuard` with `GuardSpec`, `Call = {c1, c2}`, `GuardTTL = 3`, `MaxRestarts = 1` | a slow "no" overwrites the "yes" of another call |
| `NoticedRefused` (`agent-tokens-repo.ts:121-124`) | `TokenCache` with `TokenSpec`, one token, bearer and admin | a verification that read the row before the revocation stores it after the notice |
| `RevokedOnce` (`agent-tokens-repo.ts:133`) | the same | a second revoke moves `revoked_at` |
| `OneLiveCode` (`recovery-login-core.ts:52-53`) | `AdminAccess` with `AccessSpec`, four requests | two overlapping regenerations each leave a live code |
| `OneFounder` (`found.ts:112`) | `AdminAccess` with `AccessSpec`, two requests | two claims both read the empty table and both insert |
| `PageShowsSuccesses` (`system-stats.ts:68`) | `CronJobs` with `CronSpec`, one tick | a killed run is still recorded as succeeded and shown as such |
| `ShipsFinished` (`off-site-backup.ts:8-9`) | `backup_nights`, `RetentionNights = 1`, `MaxRestarts = 0` | a dump that is still being written is the newest and is shipped |
| `OldGo` (`retention-purge.ts:16`, `:38-39`) | `ArticleRetention` with `RetentionFairSpec`, one pinnable article of two | a badge suggestion refers to one old article: the DELETE of the whole batch fails every night |
| `StarredPersist` (`retention-purge.ts:21`) | `ArticleRetention` with `RetentionSpec`, `MaxStars = 2` | an article starred while files are unlinked is deleted |
| `OpenNeverDeleted` (`forum-invites-repo.ts:136`) | `Invites` with `InviteSpec`, `Issuer = {o1, o2}`, `Redeemer = {c1}` | an invite is restored between the delete's read and its DELETE, which removes an invite that is available |
| `RevokedIsOut` (`forum-invites-repo.ts:77-78`) | `Invites` with `InviteSpec`, the constants of `safety` | only the login looks at `revoked_at`; a session that exists goes on for its 30 days |
| `ImagesWithRows` (`docs/architecture.md:116`) | the same, `MaxStars = 0` | the purge of an old article removes the picture of a young one with the same hash |

For the modules of `web`: `web` with `Parts` the part named, its constants unless
others are given, and the property of the module in place of the groups.

| Property | Part | What happens |
|---|---|---|
| `CaughtFailureKeepsSave` (`create-post.ts:382-388`, `api/forum/posts/route.ts:512-515`) | `posts` | the failed notification INSERT is caught, but the transaction is aborted: the post is rolled back |
| `UnsavedHasRetry` (`PostComposer.tsx:1135`) | `drafts` | a failed auto-save is not tried again before the next edit |
| `ResetAfterPublish` (`PostComposer.tsx:1423`) | `drafts` | nothing is reset after a post is published, the auto-save may be armed again |
| `PickReplacesQuery` (`PostComposer.tsx:688-689`) | `body` | an upload that ends writes the text of its drop under the open menu, whose range stays until the caret is moved: a pick made in that moment cuts other text than its query |
| `DropKeepsTokens` (`PostComposer.tsx:885-894`) | `body`, `MaxImages = 2` | the second file of a drop starts from the text of before the drop and removes the first one's token |
| `SettledRowsReal` (`RepliesPane.tsx:33-37`) | `replies` | the answer of one pane brings back the placeholder the other had settled |
| `ShowsItsQuery` (`TypeaheadSearch.tsx`) | `typeahead` | a cached answer aborts nothing: the answer of the query before replaces it |
| `SpinnerEnds` (`AuthorHoverCard.tsx:48-56`) | `hover` | only the card that started the fetch hears of its end |
| `SignalExits` (`transports/http.ts:137-144`) | `http`, with `HttpFairSpec` | `close()` waits for the last connection, and an open stream is one |
| `LockoutIsAnnounced` (`ForumInvitesPanel.tsx:381-387`, `:478-483`) | `invites` | the invite is redeemed after the list was rendered: the dialog does not say that its delete takes a member's login |
| `RecoverPageRecovers` (`README.md:97`, `settings/recover/page.tsx:4-7`, `tests/e2e/recovery.spec.ts:60-62`) | `gates` | the layout renders the sign-in gate in place of the recovery page |
| `DisconnectCleans` (`api/events/route.ts:26-28`) | `bus` | a stream whose enqueue has thrown is `closed`, and the abort handler returns early |
| `FailureRollsBack` (`NotificationsPanel.tsx:19-20`) | `notices` | a delete that fails while a clear fails loses its row from the list |
| `IndexNeverHit` (`templates-repo.ts:126-128`) | `forms` | two creations check the slug before either inserts |
| `RevertTrue` (`StarButton.tsx:20`) | `stars` | the request failed after the row was written, or another tab has flipped it: the star reverts to what is not stored |
| `RestoreRestores` (`NotInterestedTopicsList.tsx:6-7`) | `prefs` | Restore toggles: on a list that is out of date it hides the topic again |

What else the translation met, and no property states:

* *Forum.* An edit adds mentions and notifies nobody. The list's cursor is cut to
  milliseconds, so rows created in the same one are skipped. `markRead` reads, then
  updates without `read_at IS NULL`: an overlapping call moves the time of reading
  (`mark-notification-read.ts:34-37`). A comment that was committed may answer 500
  when its enrichment fails, and a retry stores it twice.
* *Composer.* The slot of a dropped file may stay "uploading" when another drop runs; the
  token of an image that was removed while it was uploaded is inserted all the same;
  citing a post again after restoring its token makes two slots, which the route
  refuses.
* *Search.* The browse mode that lists all settings (`TypeaheadSearch.tsx:530-533`)
  does not come up, and an aborted fetch switches off the spinner of the next.
* *Invites and tokens.* Closing the dialog, or losing the answer, loses the one-time
  code; "Network error - invite was not issued." may be untrue; the timer of a copied
  token dismisses the next one (`AgentTokensPanel.tsx:133`).
* *Badges.* An approved suggestion gets `display_order` 0, a saved order does not
  refresh the page, and two drags may arrive in the other order.
* *Sign-in.* A lost answer to the claim leaves an instance claimed by a code nobody
  saw; a failing event makes `register.ts:112-130` report a failure for a passkey that
  is stored; the "rolling window" of the throttle is a fixed one.
* *Live updates.* Only the test route publishes, and it answers 404 in production; the
  front page is public and its stream is not; what happens during a reconnect is lost.
* *Inbox.* A Clear that is not answered leaves its dialog on "Clearing"; load-more after
  a clear shows deleted rows; the counts of the sidebar come in any order.
* *Settings forms.* A save that succeeds after its dialog was closed closes the next
  one; a stale edit resumes a target somebody paused; a lost answer makes a second
  submission a duplicate target, or "Slug is already taken.".
* *Posting limits.* The page's defaults, the repository's, the migration's row and the
  column defaults are four different sets (`posting-repo.ts:38-40` says they match).
* *Starred articles.* `useStarredArticles`, the only listener to other tabs, is used
  nowhere.
* *Transports.* A health probe that began before the signal may answer 200 after it.
* *Errors of the driver.* The routes recognise a unique violation by `err.code`
  (`write-articles.ts:645`, `create-post.ts:541`, `forum-register.ts:229-235`,
  `agent-invites-repo.ts:527` and others). The modules take that as written; newer
  versions of drizzle wrap the driver's error and keep the code in `cause`, and the
  library is not part of this repository.
## 8. What is not modelled, and the plan

`PROJECT.json` ("components") lists every part with the reason. Left out for good:
rendering and styles, the vendored component kit, reads that nothing relies on,
WebAuthn and argon2 themselves, the text of prompts, titles and slugs, migrations,
seeds and the catalogue of tools, which are data. Left out because a property could
only restate the code: the `write_target_*` tools (each UPDATE carries its whole
condition), the uploads (one file named by its hash), seen marks (a set that grows),
`computeNextDueAt` and the other pure helpers (functions of one argument, which their
unit tests enumerate). `LoginForm` and `RecoveryForm` call the routes of `Gates` from
pages the settings layout does not show.

What is left to model

1. `queue_live` with two ticks and two targets: fair runs of that size do not end in
   minutes.
2. The gates and `AdminAccess` in one run, instead of each with the other as a step;
   the same for `InvitePanels` and `Invites`.
3. Liveness for the pages, for an instance whose requests are answered: a spinner
   ends, a bulk action finishes.

Proofs. Every safety property that a run checks is proved, but for `ClaimHasRun` (section
6). What a next proof could add is a post with its notifications as one atomic write, implemented by `ForumPosts`.
