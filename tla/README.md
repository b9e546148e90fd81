# TLA+ specifications of competency-trainer

competency-trainer is a site about a competency matrix: articles, matrix
questions, a queue of suggested questions, and *agents* that take questions
from the queue over mutual TLS and write Draft items. The backend is Litestar +
Dishka + SQLAlchemy on PostgreSQL (READ COMMITTED), with Valkey for caches and
blocked tokens, an S3 store for files and TaskIQ for background work. The
frontend is an Angular application over the API.

This directory holds TLA+ modules of the parts of the backend whose correctness
depends on the order in which several actors act, or on an algorithm that two
pieces of code must do alike; TLC models of them; and theorems about them that
TLAPS checks. Paths below are relative to `src/`; `PROJECT.json` has the source
lines of every definition.

| module | models | checked | proved |
|---|---|---|---|
| `MatrixQueue` | queue rows, leases, completions; agents' and humans' requests, statement by statement | `queue_safety`, `queue_liveness`, `queue_reported_empty` | `MatrixQueue_proofs` |
| `QuestionLease` | what the queue promises: an atomic lease on a question | refined by `MatrixQueue` in `queue_safety` | `MatrixQueue_proofs` |
| `CertificateRotation` | one agent client's certificates on the server and the desktop, write by write | `rotation_safety`, `rotation_lost_commits`, `rotation_liveness`, `rotation_subsecond` | `CertificateRotation_proofs` |
| `AuthSessions` | login sessions and managed accounts | `auth_safety`, `auth_late_login` | `AuthSessions_proofs` |
| `FileLifecycle` | public files: rows, objects in S3, articles that use them, the cleanup | `files_safety` | `FileLifecycle_proofs` |
| `Articles`, `Matrix`, `ResponseCache`, composed by `Site` | the public content under concurrent requests, behind the response cache and its warming | `site` | `Site_proofs` |
| `Database`, `Revisions`, `Migrations` | the eighteen Alembic revisions, up and down, on databases that releases fill | `migrations` | – |

Seven modules have no behaviour: they are the pure algorithms of the code, as
operators. The properties of each are named assumptions over bounded inputs in
its `...Checks` module, which TLC evaluates at the start of a run; most of them are
also theorems, for every input.

| module | algorithm | evaluated in | proved |
|---|---|---|---|
| `MatrixImport` | the parsers of question files, the preview and the import | the `queue_*` runs | `AgentDraft_proofs`, in part |
| `AgentDraft` | the Draft an agent sends, and the five that read it | the `queue_*` runs | `AgentDraft_proofs` |
| `AgentAudit` | which event a request leaves, retention, cursor pages | the `rotation_*` runs | `Lists_proofs` |
| `NameSearch` | the two ranked searches by name | `files_safety` | `Lists_proofs` |
| `MatrixWorkspace` | the administrator's list of questions: filters, orders, counts, menus | `site` | `Lists_proofs` |
| `ArticleReading` | lists and trees of articles, counters of views, statistics | `site` | `VisitsCommute` in `Lists_proofs` |
| `RowOrder` | `ORDER BY`, `OFFSET` and `LIMIT` for the four before it | with them | with them |

The `MC*` modules extend these with a symmetry set or with what a `.cfg` file
cannot write down (the content at the start of `Site`, the bundles of rows a
release writes), and with the `...Checks` modules. All bounds are in the `.cfg`
files and there.

    tlc -workers 2 -config MatrixQueue.cfg MCMatrixQueue     # one run
    tlapm MatrixQueue_proofs.tla                             # all proofs of a module

Runs with the result "violation" end with a counterexample on purpose: they are
the three disagreements between the code and its documentation that section 1.3
describes.

## 1. The system

### 1.1 What every request shares

* **Transaction.** A request, or a task, has one database session
  (`infra/ioc/prodivers/database_provider.py:25-48`). It is committed when the
  request's container closes, which is *after* the response has been sent;
  an exception, or for agents a status of 400 and above
  (`agent_transaction.py`), rolls it back. Post-commit actions (cache
  invalidation, warm tasks) run after the commit, rollback actions after a
  rollback.
* **Isolation.** READ COMMITTED: each statement has a snapshot of its own;
  a statement that locks waits for the row and looks at its current version.
  What orders two requests is row locks (`FOR UPDATE`, the `FOR KEY SHARE` of a
  foreign key), unique indexes and nothing else.
* **Time** is taken once at the start of a request and used to its end.

### 1.2 Components

**Question queue and agent leases** – `core/agent_access/use_cases.py`,
`infra/postgresql/storages/agent_access.py`.
State: queue rows, at most one claim (lease) per question and per client, with
an expiry; completions that make a save repeatable. Operations: claim_next,
save, release; humans create an item from a question, reject it and free a
claim; suggestions and imports add questions; a client is revoked. Hard: the
oldest eligible question is chosen from a snapshot and locked with SKIP LOCKED;
save looks for a completion before and after its row lock; a request judges
expiry by a clock that is behind; locks on client, question and claim are taken
in different orders. Correct when: a question becomes one item, leases are
exclusive and end by right, a repeated save hears one answer, a revoked client
holds nothing, and requests end.

**Question queue, human side** – `core/competency_matrix/use_cases.py`. The same
rows; also matrix items, structure, publication, the suggestion quota in Valkey.
Hard: publication is checked and written in two statements; quota, duplicate
check and insert are three steps. Correct when: what is published passed the
check for what it is now; a suggestion that waits for the same sheet already is
refused, and the quota holds.

**Agent clients and certificate rotation (server)** – the same use cases, and
`infra/cryptography/agent_certificates.py`. State: client, certificates,
rotations. Operations: authenticate, start a rotation (issue or replay),
confirm, revoke. Hard: answers and requests are lost or late; a commit fails
after its answer. Correct when: a certificate is retired only after its
replacement is installed, there is one unconfirmed rotation per certificate, and
two certificates both do ordinary work only in the overlap of a rotation.

**Agent bridge and credential store (desktop)** – `agent_bridge.py`,
`infra/cryptography/agent_credentials.py`. State: versions (key, chain), the
`current` symlink, `pending.json`. A start of the bridge rotates if the
certificate is near its end and recovers what an earlier one began. Hard: a stop
between any two writes; two bridges on one directory, with no lock between them.
Correct when: `current` always names a complete pair, the predecessor is deleted
only when the server knows the replacement, and a prepared rotation ends.

**Agent audit log** – `middlewares/agent_audit.py`, `taskiq/agent_access`. A
success event commits with its operation, a failure event in a transaction of
its own; the owner reads pages by cursor; a task prunes. Hard: two transactions,
and pages read while events come and go. Correct when: whatever an agent changed
is in the log, once, and following the cursors misses nothing.

**Login sessions** – `core/auth/use_cases.py`, `infra/postgresql/storages/auth.py`.
State: session rows (idle and absolute expiry, revoked), blocked tokens in
Valkey. Operations: login (with rehash), refresh, logout, authenticate, prune.
Hard: login verifies a password in one statement and inserts the session in a
later one; refresh writes a row it read earlier. Correct when: sessions do not
outlive their absolute lifetime, their account, their revocation or the password
they were opened with.

**Managed accounts** – `core/account/use_cases.py`, `storages/users.py`.
Operations: create, change password, role, activate, deactivate, delete, revoke
one, all or the other sessions. Hard: roles are read without a lock and acted on
later, by several managers at once. Correct when: there is an active owner
whatever managers do, and a change of an account ends the sessions it says it
ends.

**Stored files** – `core/files/services.py`, `storages/files.py`: rows with the
time since which no article uses them, objects in S3. Operations: upload (which
reuses an equal content), delete, a cleanup task; creating, saving and deleting
an article attaches and detaches. Hard: upload and deletion touch S3 before the
row commits; the cleanup races attaching and repeated uploads; many file rows
are locked by one request. Correct when: an attached file has its object, an
unattached one is collected and nothing else is, and requests do not deadlock.

**Articles** – `core/articles/use_cases.py`, `storages/articles.py`: articles in
prioritised folders with tags and a status, reactions of anonymous readers,
daily counters of views. Hard: edits and status changes read a row and write it
later; two first reactions of one voter; lists, trees and searches are separate
statements that must agree. Correct when: what is published has its date, a
voter's last reaction stands, pages show every article once and totals are right.

**Competency matrix content** – `core/competency_matrix/`,
`storages/competency_matrix.py`: sheets of sections of subsections, items,
publication, suggestions under a daily quota kept in Valkey, imports from files,
the administrator's list. Hard: an item is checked for publication and published
in two statements; the quota is consumed before the suggestion is stored;
readiness is computed by the server and again in SQL; preview and import parse
the same file twice. Correct when: readers see what is ready, the quota holds,
an import adds what the preview showed, and every count is what the list shows.

**Response cache and warming** – `entrypoints/litestar/response_cache.py`,
`core/cache_tools/use_cases.py`, `taskiq/cache_warm/`: stored responses of two
domains, the record of a manual warm operation. Operations: fill on a miss,
invalidate after a commit, clear, warm by schedule, after a change or by hand.
Hard: a response computed before a change is stored after its invalidation;
workers and actions after a commit are lost. Correct when: every operation that
changes what is shown invalidates it, stale copies go away, and a warm operation
ends.

**Database migrations** – `infra/postgresql/alembic/versions/`: eighteen
revisions that also move data. Hard: a downgrade must leave what the upgrade
expects to find again, on data no test has. Correct when: a revision has one
schema whatever way led to it, no statement is refused, rows keep their meaning.

**Wiki links, contacts, i18n, SEO**: text transformation and single inserts.
**Angular frontend**: presentation over the API.

Interactions: every component shares the request transaction; queue, rotation
and audit share the agent client's row; accounts and sessions share the user's
row through a foreign key; articles lock the files they use; every mutation of
public content reaches the cache by a post-commit action; the bridge and the
server share only messages.

The things in this code that are hard to test are listed one by one, at their
lines, as "hazards" in `PROJECT.json`, with the properties that cover them.

### 1.3 Findings

1. **The queue is reported empty while it is not** (`queue_reported_empty`).
   `docs/agent-access.md:74` has claim_next return "the client's active claim or
   atomically claims the oldest eligible queue item". Its candidate query
   (`storages/agent_access.py:386`) is `FOR UPDATE SKIP LOCKED` without a
   `LIMIT`: it locks every eligible row until the commit. Another agent's
   claim_next that reads the same rows at that time skips them all and answers
   that the queue is empty. In the trace two requests read the same two
   questions; the first locks both to lease one, and the second, for which the
   other is left, is told that there is none. The property counts only
   questions that were eligible at the second request's own read and are
   withheld by another request's lock; a question queued after that read, or
   leased meanwhile, does not violate it.
2. **A correct replacement certificate is refused** (`rotation_subsecond`). The
   server's time has microseconds (`auth_provider.py:96`) and goes into the
   answer as it is; the certificate has whole seconds; the desktop requires the
   two to be equal (`agent_credentials.py:490-491`). Tests use whole seconds.
   With `Second = 1` (all other runs) the clock has no fractions, as in the tests.
3. **A late login survives a password change** (`auth_late_login`). A login that
   has verified the old password inserts its session, and with a stale hash the
   old password's new hash, after the change committed
   (`core/auth/use_cases.py:77-101`); nothing looks again.
   `docs/TODO.md:441` has session invalidation on password change as done.

The models show more, without a run of their own.

*Rotation.* An answer whose commit fails leaves the desktop on a certificate the
server does not know: the accepted pair is still on its disk
(`KeepsAcceptedPair`), but the bridge never goes back to it. With two
overlapping bridges not even that holds: the one whose commit was lost may write
its chain over the chain the other has installed and confirmed. They can also
leave a `pending.json` that every later run refuses, which is why the rotation's
liveness and lost commits are checked with one bridge.

*Cache.* The warm task builds the matrix responses with the administrator's
schemas and stores them at the public addresses
(`taskiq/cache_warm/targets.py:263-279`, `308-324`). The model abstracts the
format of a response, so no property sees it; it is listed as a hazard.

*Files.* `orphaned_at` is the start of the request that detaches or uploads again, written
unconditionally: a request that waited for the row can move it back, and with
it shorten the retention that `docs/production-deploy.md:171-172` describes, by
as long as it waited.

*Migrations.* 0002 makes its sequences `if_not_exists` and owned by no column: after
a second downgrade they are stale and inserts collide. In 0003 a folder key made
unique by a number can be another folder's key: the upgrade is refused and
rolled back as a whole. Downgrading 0003 loses empty folders and merges those of
one name.

*Matrix list.* The server takes a text for blank by Python's `strip`, the
database by `trim`, which removes spaces only
(`storages/competency_matrix.py:989-990`), and long texts are stored as sent. An
answer that is one line break is missing for publication, and not for the
filter, the counts and two of the orders (`ReadyIsAvailable` says exactly where
they differ).

*Drafts.* `urlsplit` raises on a malformed host before the `try` that guards the
port (`core/agent_access/schemas.py:262`): such a Draft is answered 500. So is one
with a question of 256 to 20000 characters: the schema of the request allows it
(`entrypoints/litestar/api/agent_access/schemas.py:96-103`), the column has 255
(`models/competency_matrix.py:269-276`), and only `IntegrityError` is caught at
the flush (`storages/competency_matrix.py:446-461`). And so is one with a NUL,
which JSON can write and PostgreSQL cannot keep. Nothing else is
(`ServerErrorsHaveACause`). An agent that corrects a url has nothing more to
fear from the resources before it, unless one of them is there twice: duplicates
are looked for last. An http url or an answer of spaces passes bridge and
schemas and is refused by the use case, and the schema of the request alone
lets through ids that are not hexadecimal (`ReadersAgree` holds one way only).

*Import.* A csv file holds texts only; a workbook tells numbers and dates from
texts. A cell `7` is a question from the one and refused as no text from the
other; in nothing else do the two differ (`CsvAndWorkbookAgree`).

*Lists.* The articles' order ends with the title and has no id: two articles
alike in status, dates and title have no place of their own, and a page break
between them may show one twice. `list_sheets` lists the sheets of published
items that are not ready, whose list is then empty. `%`, `_` and the backslash
in a text searched for are not escaped (`storages/articles.py:510`, `530`,
`storages/competency_matrix.py:1034`, `1051`), and a blank one matches
everything. A backslash takes the next character's meaning, so a short text like
`a\b` does not find the row of that very name; a longer one finds it by
similarity (`TheNameIsFound` says so in its hypothesis). A source is classified
by substrings, so `netflix.com` counts as `x.com`. The administrator's list, its
total and its counts are three statements of a READ COMMITTED transaction
(`storages/competency_matrix.py:270-280`), the menus five, an article list two:
a write committed in between makes one answer disagree with itself
(`AnswerMayDisagreeWithItself` has one that does).

*Stale forms.* An editor's form names its article by slug and is sent back whole:
if the slug was given to another article meanwhile, the form overwrites that
one. Two folders or nodes created together get the same priority, and the tie is
broken by id.

## 2. The models

Common to all of them: data is abstracted to what the properties tell apart
(questions, clients, digests, passwords are members of small sets), control is
not (each early return, refusal and error path is a disjunct). A transaction's
writes take effect together in its commit action, which is how others see them;
the locks it holds before that are state, or follow from its step. An operator
with a comment `Mutant:` before it is not part of any specification: it is a
plausible mistake in the operator after it, kept to show that a property notices.

### 2.1 MatrixQueue and QuestionLease

State. `queue`, `claims`, `completions` are the rows of the tables; `active` the
clients not revoked; `made[i]` counts the matrix items committed for question
`i`; `asked`, `issued` and `told` are history. Per request (`Worker`): `step`,
`req` (input and the time taken at its start), `target` (the question it works
on), `rows` (queue rows it locked), `seen` (its statement's snapshot).

| code | actions |
|---|---|
| claim_next (use case, storage 326-430) | `StartClaim`, `LockClient`/`DenyClaim`, `ReturnOwned`/`DropOwned`, `ReadCandidates`, `TakeOldest`/`ReportEmpty`, `CommitClaim`/`RejectClaim` |
| save | `RepeatSave`/`StartSave`, `FindClaim`, `LockClaim`, `ReplaySave`, `ConflictSave`, `ClaimNotFound`, `ReferToClient`, `CommitSave` |
| release | `StartRelease`, `LockReleased`, `ReleaseNotFound`, `ReferToClient`, `CommitRelease` |
| create, reject, free | `StartHuman`, `LockQuestion`/`RefuseHuman`, `CommitCreate`, `CommitReject`, `CommitFree` |
| suggest, import | `Suggest` |
| revoke | `RevokeClient` |
| rollback, crash, failed commit | `Abort` |
| PostgreSQL | row locks in the guards, unique constraints in `Unique`, `BreakDeadlock` |

Abstractions. The snapshot of the candidate statement (`seen`) is taken before
its locks, as in PostgreSQL: that a row seen as free may have been claimed by
someone who committed in between is why `RejectClaim` exists. Rows deleted
meanwhile are skipped. The client's lock is derived: claim_next holds it
`FOR UPDATE` from its first statement, save and release share it from the insert
that refers to it (`ReferToClient`). `RevokeClient` is one step, as its
transaction writes nothing another one reads before its commit except rows it
would wait for. The server processes have one clock. `told` has the saves
answered by requests that then commit; an answer whose commit fails afterwards
(`database_provider.py:46`) is modelled where the one who hears it acts on it,
in the rotation.

`QuestionLease` is what the queue promises to someone who knows nothing of
transactions: a lease is taken on a queued question with no live lease, a
question leaves the queue once, with or without an item, and a live lease ends
by its owner's doing, by a human freeing it or by its client's revocation.
`MatrixQueue` implements it with `leases` mapped from the claim rows
(`KeepsLeases`).

### 2.2 CertificateRotation

State. Server: `certs`, `revoked`, `rotations`, `active`, and `open`, the
transactions that have answered and not committed yet (they have the client's
row). Network: `requests`. Desktop disk: `current`, `keys`, `chain`, `pending`.
Runs of the bridge: `at`, `began`, `mem`, which a `Stop` wipes.

| code | actions |
|---|---|
| start of a bridge, load of pending.json, due check | `Begin`, `NotDue`, `Due`, `Resume`, `Refused` |
| prepare: key, pending.json | `PrepareKey`, `RecordPending` |
| activate: request, validate, chain, pending.json | `SendStart`, `RejectReplacement`, `PersistChain`, `RecordIssued` |
| install, confirm, complete | `Install`, `SendConfirm`, `Complete`, `DropKey`, `DropChain`, `Forget` |
| authentication | `Authenticate`, `RejectUnknown` |
| start_rotation | `Replay`, `Issue`, `RejectStart` |
| confirm_rotation | `Confirm`, `RejectConfirm` |
| end of the request's transaction | `CommitIssue`, `CommitConfirm`, `LoseCommit` |
| revocation | `RevokeClient` |
| process stops, connection breaks | `Stop`, `Reject` |

Abstractions. A version stands for its key, its CSR and its rotation
identifier, which are made together and never separated; a certificate is its
serial.
Server and desktop have one clock and the same rotation window (14 days of a
90-day lifetime, overlap 15 minutes). Authentication and serving are separate
steps, so a certificate may be retired between them. A request may be served
after its run stopped (`to = Gone`). Registration is the initial state. Each
write to the disk is an action: files are replaced atomically in the code.

### 2.3 AuthSessions

State. `accounts` by username (role, password, active), `sessions` (idle and
absolute expiry, revoked), `calls` in progress with the step they are at and
what they have read.

| code | actions |
|---|---|
| login | `StartLogin` (read, verify), `Rehash`, `InsertSession`, `CommitLogin` |
| refresh | `StartRefresh`, `CommitRefresh` |
| logout | `StartLogout`, `CommitLogout` |
| the managers' operations | `StartManaging` (authenticate, route guard, role checks: reads only), `WriteAccount`, `RevokeSessions`, `CommitChange`, `CommitDelete`, `CommitCreate` |
| task | `PruneExpired` |
| refusal, error, failed commit | `Abandon` |

Abstractions. Access tokens are not modelled: a call may come with a token of
any active session, which allows more than the token's expiry and block list do.
Whether a hash is stale is a free choice. A rehash and the insert
after it are one step: the row lock the rehash takes is what others notice.
`UPDATE`s name columns: refresh writes `expires_at` only, whatever happened to
the session. The foreign
key of a session waits for a deletion of its account and the other way round.
Roles that can be given are admin and moderator, and the unique index
`users_single_owner_uniq` admits one owner. Deadlocks on session rows (which end
in `Abandon`) are left out.

### 2.4 FileLifecycle

State. `files`, `content`, `orphaned` are the rows, `uses[a]` the files article
`a` uses, `objects` what is in S3, `issued` the identifiers ever given. Per
request (`Worker`): `at`, `op`, `since` (the time taken at its start), what it is
about, what its statement found (`rows`), the rows it has locked, the objects it
has removed (`gone`).

| code | actions |
|---|---|
| upload_file | `StartUpload`, `LockDuplicate`, `CommitDuplicate`, or `CreateRow`, `ContentRejected`, `PutObject`, `CommitUpload` |
| create, update, delete article | `StartCreate`, `StartUpdate`, `StartDeleteArticle`, `OpenArticle`/`ArticleNotFound`, `CheckFiles`/`FilesNotFound`, `LockNext`, `SaveRefused`, `CommitArticle` |
| delete_file | `StartDelete`, `LockDelete`/`DeleteRefused`, `RemoveObject`, `CommitDelete` |
| prune_file_orphans | `StartPrune`, `LockOrphans`, `Collect`/`KeepOrphan`, `CommitPrune` |
| failed statement, S3 call or commit, crash | `Break` |

Abstractions. S3 changes at once, rows at the commit. An article locks the rows
of its files one by one, in the order of their ids, which is a step of its own
(`LockNext`): `NoLockCycle` is about nothing else. Purposes and hashes are one
`Content`; type and size rules and image conversion are "refused or not".

### 2.5 Articles, Matrix, ResponseCache, Site

`Articles` and `Matrix` have the rows of their domain and the requests in
progress; `ResponseCache` one cached address, the responses being computed
(`hand`) and the record of a manual warm; `Site` joins them: the cache's `view`
is what the handler of the address answers now, and a committed request waits in
state "committed" until its action after the commit is done or lost.

| code | actions |
|---|---|
| articles: create, update, delete, status | `CreateArticle`, `OpenEditor`, `UpdateArticle`, `DeleteArticle`, `LoadForStatus`, `SaveStatus` |
| tags | `CreateTag`, `LoadTag`, `SaveTag`, `DeleteTag` |
| folders | `CheckFolder`, `InsertFolder`, `CheckFolderOrder`, `SaveFolderOrder` |
| reactions | `FindPublished`, `LockVote`, `CommitVote` |
| items | `CreateItem`, `CreateItemFromQueue`, `OpenEditor`, `LoadForUpdate`, `SaveItem`, `DeleteItem`, `CheckReady`, `LoadForStatus`, `LoadForDraft` |
| structure | `CheckNode`, `InsertNode`, `CheckOrder`, `SaveOrder` |
| suggestions, import, queue | `CheckSuggestion`, `ConsumeQuota`, `InsertSuggestion`, `LastSecond`, `ImportQuestions`, `DeleteQueued` |
| response_cache | `Read`, `StoreRead`, `Invalidate`, `Miss`, `Clear`, `Expire` |
| cache_warm | `StartWarm`, `ReadDetails`, `WriteTarget`, `FailWarm`, `StopWorker` |
| manual warm | `EnqueueManualWarm`, `FailToEnqueue`, `EndEnqueue`, `RunManualWarm`, `OperationNotFound`, `ExpireOperation` |
| rollback | `Abort` of either domain |

Abstractions. A form is filled from an earlier answer and sent back whole, as the
frontend does. An ORM update writes the columns that differ from the row it
loaded: the row is loaded in one action and written in a later one (`Merge`).
The slug stands for all text of an article, `text` and `ready` for an item's. A
request's number is its time. One address per behaviour is looked at, chosen by
the first response: addresses share only the deletion of their domain, so a
behaviour of the whole cache is one of each address. `late` marks a stored or
computed response whose domain was invalidated, or should have been, since.
Reactions and new nodes do not invalidate, and need not: nothing cached shows
them. `ending` is the last second of the day, in which the quota's counter has no
time to live.

### 2.6 Database, Revisions, Migrations

`Database` is the part of PostgreSQL that the revisions rely on: tables with
columns, foreign keys, unique rules, indexes, enum types, sequences, and the
statements that change them, each of which succeeds or leaves a reason for its
refusal. `Revisions` is the eighteen files, each as the sequences of statements
of its `upgrade` and `downgrade`, the data moves written in Python among them.
`Migrations` steps through them and, at four revisions, lets a release insert and
delete rows.

| code | here |
|---|---|
| `upgrade()`, `downgrade()` of revision `n` | `Upgrades[n]`, `Downgrades[n]`, run whole by `Attempt` (`Upgrade`, `Downgrade`) |
| `op.create_table`, `op.add_column`, `op.alter_column`, ... | a record that `Migrate` runs |
| data moves written in Python (`_article_folder_rows`, ...) | operators named after them (`ArticleFolderRows`, ...) |
| the release at a revision | `Write`, `Delete` |

Abstractions. Column types are told apart only where a revision changes them. A
foreign key on (id, author) is one on the id. Partial unique indexes and checks
are there or not; their conditions are not modelled. A generated id is the row's
own number, integer ids are dense in the order of the old ones, and a folder's
id is its name's index. Indexes dropped together with their table are part of
its drop. `upgrade head` in one transaction ends where the single steps end, or
where it started.

### 2.7 The algorithms

`MatrixImport`, `AgentDraft`, `AgentAudit`, `NameSearch`, `MatrixWorkspace` and
`ArticleReading` translate code that reads and returns an answer; where an
answer takes several statements (`Workspace`, `FilterOptions`, `ListArticles`)
each reads a table of its own, as under READ COMMITTED. A
text is what the code looks at in it: its stripped form, its fingerprint, its
relation to the text searched for, its rank in the collation. Lists are in SQL
in the code and sets of rows here, ordered by the keys of its `ORDER BY`
(`RowOrder`).

In `MatrixWorkspace` a sheet's key stands for its id, and names that are blank
are left out. In `NameSearch` a text is four answers of the database: whether it
equals the text searched for, whether its two patterns match, and whether it is
similar; `Relation` says how these depend on each other, and that equal texts
need not match when there is a backslash. In `MatrixImport` the csv reader is
`Spelled`, which makes a text of every cell, where the workbook's keeps numbers
and dates. `AgentDraft.Save` is the whole of the save: the schema, the rules,
the completion, the claim, the rows referred to, and the flush with what the
columns take; it gives the set of possible answers, since the order of the
flush's inserts is not fixed. In
`ArticleReading` the readers' tree comes in the order of its inner select, which
the database keeps without being told to. `TrackPublicView` counts views that
the browser posts itself, so those of cached pages count. In `AgentAudit` a
repeated confirmation and a replayed rotation leave a success event and only a
repeated save leaves none; a success whose commit fails after it was told leaves
no event at all.

## 3. What the runs check

### Queue

`queue_safety` (827 thousand states): two clients, two questions, two digests,
two requests at a time, a lease of one tick over two ticks, two claims.

* `KeepsLeases` – `MatrixQueue` implements `QuestionLease`: whatever is
  interleaved, each commit is a step of the atomic lease or none.

* `OneItemPerQuestion` – an agent that leases a question, one that did before,
  and a human may all be at work on it; one item comes out.
* `LeasesAreExclusive` – also between the read of candidates and the insert.
* `ClientConstraintNeverFires` – the client lock does its work: a client's
  parallel claim_next never fail on the unique index.
* `RevokedHoldsNothing` – a request under way when its client is revoked leaves
  it no claim.
* `CompletionIsFinal`, `ToldWhatIsStored` – saves repeated in parallel, with
  another input, after expiry: one Draft per claim, and nobody is told of another.
* `LeaseEndsByRight` – a lease that has not run out (by the clock now, not by the
  clock of the request that ends it) ends only by its owner, a freeing human or
  a revocation.

`queue_liveness` (52 thousand states): `EveryRequestEnds`. Fairness: strong for
the steps of a request, because PostgreSQL grants a row lock in the order it was
asked for, so one that is available again and again is granted; weak for
`BreakDeadlock`, the database's deadlock detector. A deadlock of one client's
claim_next and save is in the model: without `BreakDeadlock` the property fails.
Nothing is assumed of clients, humans or the clock.

Bounds. Two workers are enough for every pair of requests to interleave at every
statement. Two ticks
let a lease be live, expire exactly at a request's time, and be long gone. Two
claims let a question be leased, lost to expiry and leased by another. More
workers, questions and clients are the theorems' business (section 4).

### Rotation

`rotation_safety` (1.0 million states): two overlapping runs on one desktop, three
versions (two rotations in a row), two requests in flight, a lifetime of 3, window
of 2 and overlap of 1 tick, so that the rotation is due at tick 1 and the overlap
can end within it. `ActivePairComplete`, `InstalledBeforeRevoked`,
`OneBusinessCertificate`, `ConstraintsNeverFire`.

`rotation_lost_commits` (1.2 million states): two commits may fail after their
answer; `KeepsAcceptedPair`.

`rotation_liveness` (42 thousand states): `RotationEnds`. Fairness: from some
time on runs do not stop and connections do not break (`<>[][Works]_vars`), and a
bridge is started again and takes its steps, the server serves and commits. This
is "once failures cease": any number of them before that is explored. A rotation
that cannot end because the certificate's time is up, or its client is revoked,
is excluded in the property.

### Sessions

`auth_safety` (779 thousand states): two calls at a time of twelve kinds, on the
owner and one more account that starts in any state or absent, sessions of idle
life 2 and absolute life 3 over three instants, two sessions. One password: no
property of this run looks at its value (`auth_late_login` has two).

* `OwnerStands` – no sequence of calls by managers who read roles that are stale
  by the time they write leaves the site without its active owner.
* `SessionsHaveAccounts` – a login under way while its account is deleted leaves
  nothing a later account of that name would own.
* `NeverPastAbsoluteLifetime`, `RevocationIsFinal` – refreshes that read the
  session before it expired, was revoked or was pruned.
* `EndedByAccountChange` – the sessions there were when the account row was
  written are revoked at the commit, those that had expired included (a refresh
  in progress may extend them).

### Files

`files_safety` (1.85 million states): two requests or cleanups at a time, two
articles, one content, two files ever, a retention of one tick over two, a batch
of one, one failure. Two files of one content exist when two uploads both miss
the other's row, and both can be used by both articles; two articles are what it
takes to lock two files in two orders.

* `ObjectsBehindRows` – the row of a file stands for an object that can be
  served, with exactly the exceptions of `docs/security-threat-model.md:224`.
* `MarkedIffUnused` – the marker that exposes a file to the cleanup is on the
  unused files and no others, whatever uploads, saves and deletions overlap.
* `UploadAnswersStoredFile` – an upload that answers with an earlier file is not
  overtaken by its deletion or its collection.
* `NoLockCycle` – requests never wait for each other in a ring.
* `OnlyStaleOrphansCollected` – what the cleanup removes is unused and old at
  that instant, not only when it looked for candidates.

### Site

`site` (656 thousand states): two requests that change content or enqueue a
warm, in either domain, one response or warm task at work, one lost action or
worker; two articles in two folders, two items in a structure whose sheets and
sections have siblings, rows to spare for what can be created, seven kinds of
public address (the list of articles shows nothing the tree does not). Deadlock
is not checked here: once the two requests are over nothing may be left to do.

* `StaleHasReason` – a stored response that is not what the handler would answer
  was computed before an invalidation, or the invalidation is still to come: no
  operation forgets a domain it changes.
* `EventuallyFresh`, `WarmOperationEnds` – under `Fairness`, which is only that
  Valkey's times to live run out (`Expire`, `ExpireOperation`): nothing is
  assumed of workers, requests or the broker.
* `PublishedHasDate` – a status change and an edit that overlap leave no
  published row without its date.
* `PublicShowsReady` – neither a publication overtaken by an edit, nor the list
  of a sheet, shows readers an item that is not ready.
* `LastVoteStands` – the stored reaction is the one the reader last set with
  success, two first ones included.
* `SuggestionsWithinLimit` – parallel suggestions do not exceed the day's limit,
  except in the day's last second, in which the code does not enforce it.

### Migrations

`migrations` (18.5 thousand states): eighteen revisions up and down in any order, two writes or
deletions at four revisions, two bundles of rows: three folders of which two have
one key and one the key the second would be given; and rows for every other
table, with and without what is optional.

* `SchemaOfRevision` – the schema is a function of the revision, whatever way led
  to it.
* `RefusalsHaveReason` – no statement is refused but for the two reasons of
  section 1.3.
* `MeaningKept` – every row, link and value says after a revision what it said
  before, except what the revision is about to drop: which tables and columns
  those are is written out in `TablesOf` and `ColumnsOf`. They include what cannot
  come back: sessions (0007), attribution (0009), cover addresses (0004), agents'
  tables (0012), dates (0015) and the private knowledge (0014, 0018).

### The algorithms

Each `...Checks` module quantifies over all inputs built from a few that differ in
each respect the algorithm looks at.

* `MatrixImport` – `NothingReadInRefused`, `NumbersNameLines` (all that links the
  import to the preview is the number of a line), `RepeatsNameTheFirst`,
  `DefaultSelectionAddsEachOnce`, `BadSelectionAddsNothing`,
  `CsvAndWorkbookAgree`: every file of up to three lines. Nothing checks again at
  the import what was queued since the preview.
* `AgentDraft` – `ReadersAgree` (what the tool accepts no schema after it refuses,
  what is saved the tool accepts), `SavedDraftIsReady` (the missing fields of
  `MatrixWorkspace` are none, for the server and for the database),
  `RetryTellsTheSameDraft`, `ServerErrorsHaveACause`.
* `AgentAudit` – `LogTellsWhatHappened`, `PagesMissNothing` (three pages read from
  three tables, with events coming and pruned in between), `CleanupShowsNowhere`.
* `NameSearch` – `SearchesAgree` (one condition and a union of indexed selects
  find the same), `LanguageOnlyOrders`, `LimitKeepsTheBest`, `TheNameIsFound`,
  and `BackslashHidesTheName`, a search that misses the row of that very name.
* `MatrixWorkspace` – `PagesPartitionTheList`, `OrdersAreTotal`,
  `DatesOrderTheList`, `DatesAreWholeDays`, `CountsAreLists`, `ReadyIsAvailable`,
  `MenusOfferWhatThereIs`, all for reads with no write in between, and
  `AnswerMayDisagreeWithItself` for one with.
* `ArticleReading` – `ArticlePagesPartition`, `DraftsComeLast`, `TreesAgree`,
  `FoldersOnce`, `VisitsCommute`, `ViewsCountedOnce`.

Deadlock checking is on in every run but `site`: the other specifications never
stop, since a new request, a clock tick, a migration or the end of a request in
progress is always possible.

## 4. What is proved

Every safety invariant and action property of the runs of the queue, the
rotation, the sessions, the files and the site, and the refinement of
`QuestionLease`, are theorems. They hold for every number of clients, questions,
accounts, files, articles, bridges, addresses, requests, failures and ticks of
the clock, from named assumptions on the constants only. Most of what the
`...Checks` modules assert of the algorithms on a few inputs is proved of every
input: tables of any size, Drafts of any number of resources, files of any
length. The hypotheses of those theorems are written out in them; they are
described with their modules below.

The constants of the specifications:

| assumption | says |
|---|---|
| `QueueAssumption` | identifiers are positive numbers, `None` is no client and no digest, a lease is at least a tick |
| `AuthAssumption` | `None` is no password, the owner is a user, lifetimes are positive |
| `FileAssumption` | `None` is none of the data, retention and batch are positive |
| `RotationAssumption` | the overlap is shorter than the window and that shorter than the lifetime, which is whole seconds; a first version can be made |
| `SiteAssumption` | identifiers are numbers, the rows there can be are finitely many, the three levels of the structure and `None` are told apart, an address is one of the eight kinds |
| `KeptArticlesAssumption`, `KeptMatrixAssumption` | the tables at the start are as operations leave them: references are to stored rows, what is published has its date, priorities are at most the number of rows, a folder and a subsection exist |

TLC evaluates each of them at the start of the runs of its module. The last two
are assumptions and not part of `Init` because a run is given one set of tables
to start with; that the operations keep what they say is proved.

None of the properties of a specification is inductive by itself. Its module
defines an inductive invariant `IInv` of named parts, a lemma for each action,
and the theorems at its end. `Numbers_proofs` has the least and the greatest of
a set of numbers, which the files, the site, the lists and the Drafts need.

**MatrixQueue_proofs.** `TypeCorrect`; then `OneItem`, `ExclusiveLeases`,
`ConstraintUnreachable`, `RevocationIsFinal`, `FinalCompletion`, `HonestAnswers`.
What protects a row is a lock that another request holds. `IInv` adds to them:
`Locks` (a locked row is still queued, locks are disjoint, a request past its
checks has its question's row), `Clients` (a claim_next that has its client's row
is alone with it, the client is active, and its only claim is the one it waits
for or found expired), `Saving` (a save past its checks still has its claim),
`Ids` (claim identifiers are given out once) and `History` (nothing is made of
an unasked question). The proof goes by those parts, `Locks` first: each part
has a lemma over all actions of `Next`, and uses only parts before it. `Clients`
gives the unreachable constraint and the empty hands of a revoked client,
`Saving` with `Locks` that two saves of a claim cannot both commit, `Ids` that a
completion's claim never comes back.

The second part of the module has `LeasesEndByRight` and the refinement
`ImplementsLeases` of `QuestionLease`. The request's clock is behind, so `LeaseInv` adds to the
queue's invariant that it was once the time (`TimesPast`) and that a human who
decides on a question has its row, with no lease on it that was live at his
request's time (`DecidesUnleased`). `Effects` says which steps the abstract
specification does not see at all. The others are lemmas of their own: the
initial states (`LeaseInit`), a claim's commit is `Take`n at once although its
question was chosen several statements before (`LeaseTaken`), leases given up
and resolved (`LeaseGivenUp`, `LeasesResolved`), and `LeaseStep` puts them
together. The state is mapped by the claim rows alone.

**CertificateRotation_proofs.** `TypeInvariant`, `ActivePairInvariant`,
`RetiredAfterInstall`, `OneAtATime`, `IndexesNeverViolated` for any number of
overlapping bridges and lost commits. `IInv` adds `SerialsUnique` (a serial is one
certificate, whether the server, the desktop or a message has it), `OpenOK` (one
transaction has the client's row), `ChainOfRotations` (every certificate but the
last was replaced, by one rotation, and a confirmed one has retired its
predecessor), `RevokedByRotation`, `DesktopOK` (what a run knows where it is, and
that `current` has its pair), `RequestsOK`, `OldInUse`, and
`ConfirmedAfterInstall`: a confirmation on its way, being served or committed is
about a replacement that the desktop has installed.

`AcceptedPairKept` is proved with one bridge at a time (`Bridge = {b}`), which is
all that is true: with two bridges and a lost commit TLC finds the desktop without
a pair the server accepts (section 1.3). Its invariant `OneRun` is that a
run's memory agrees with `pending.json` at each of its places (`Position`), that
an installed certificate the server does not know has its predecessor's pair
still on the disk (`PredecessorKept`), and that what is or may become confirmed
is in use (`ConfirmedInUse`, `ConfirmsInUse`).

**AuthSessions_proofs.** `TypeCorrect`, `OwnerNeverLockedOut`,
`NoOrphanSessions`, and from the same invariant the action properties
`LifetimeIsAbsolute`, `RevokedForGood`, `ChangesEndSessions`. The invariant adds
`CallsOK` (what `Manages` has checked stays true of a call although the roles it
read do not: above all a call about the owner is the owner's own, and not one of
those that could lock the owner out), `Locks` (a call that wrote or refers to an
account's row keeps it there), `SessionsOK`, `OwnerOK` and `KnownOK` (of the
sessions known when the account was written, those left are found by the
revoking `UPDATE`). `OwnerOK` and `CallsOK` need each other: the owner's row is
safe because of the checks, the checks because there is no other owner.

**FileLifecycle_proofs.** `TypeInvariant`, `MarkersFollowUse`, `AnswersHold`,
`RowsHaveObjects`, `CleanupTakesStale`, `NoDeadlock`. `IInv` adds to
`MarkedIffUnused` what a request `Knows` at each of its places (for instance that
an article about to be saved has locked every stored file it had or wants),
`RowsHeld` (a row is held by one request and does not go away), `ArticlesHeld`
(an article is changed by one request, which knows what it uses), `UploadsFresh`
(a file being uploaded is nobody else's) and `RowsBacked` (a row without its
object is held by the request that is removing it). `CommitArticleInv` is where
the marker is right: the rows whose use changes are locked by the request that
changes it, so no upload or cleanup has looked at them in between. `NoDeadlock`
needs no more than `Knows`: a request that is waited for and waits itself is
locking rows in the order of their ids, so it waits for a greater row than those
it holds (`WaitsUpwards`), and in a ring the greatest row waited for would have a
greater. The run has two requests, the theorem a ring of any length.

**Site_proofs.** `TypeInvariant`, `DatesHold`, `VotesStand`,
`LimitHolds`, `StaleForReason`, `ReadyOnly`. `AInv` and `MInv` are what the tables
of the two domains say, and what each request under way still knows of the rows
it has read although they may have changed: a row seen with a date still has one
(`StatusFits`, `UpdateFits`), which is why an ORM update that leaves the date out
takes none away; a reaction read under its lock is unchanged (`ReactFits`) and one
request's (`VotesHeld`); a priority to be given out is at most one above the
number of rows (`FolderFits`, `NodeFits`). `QuotaOK` bounds what is accepted by
the counter and the limit until the day's last second.

`CInv` is about the cache: a copy, stored or in the hand of whoever computes it,
says what its address shows, or is `late`, or an invalidation is still to come
(`Pending`), and shows ready questions only (`CopyOK`). `ArticlesQuiet` and
`MatrixQuiet` say that a step of a request either is a commit after which its
domain is invalidated or leaves every answer as it is. The hard case is a new
row of the structure, which invalidates nothing: `SameStructure` and
`SameMatrix` show that no answer changes, because no question is filed under a
row that was just made. `LateOK` is the other half: an invalidation marks the
copies in hand before it forgets that it was pending.

**Lists_proofs.** The administrator's list (`OrdersAreTotal`,
`PagesPartitionTheList`, `CountsAreLists`, `ReadyIsAvailable`,
`DatesAreWholeDays`, `MenusOfferWhatThereIs`), the searches by name
(`SearchesAgree`, `LimitKeepsTheBest`, `LanguageOnlyOrders`, `TheNameIsFound`),
the agents' log (`PagesMissNothing`, `CleanupShowsNowhere`,
`LogTellsWhatHappened`) and the counters of views (`VisitsCommute`).

All the lists rest on one argument. Keys of numbers of one length are compared
strictly and totally (`BeforeAsymmetric`, `BeforeTransitive`, `BeforeTotal`); in
a finite set with such an order the numbers of the rows that come before a row
are exactly 0 to the size less one (`Ranks`); so `InOrder`, which chooses the
row with each rank, lists every row once and in order (`SortedByRank`), and a
page of it is that part of it (`PageHasItsRows`, `PagesAreCounted`). What is left
for each list is that its key ends with the id (`OrdersEndWithTheId`): two rows
with one key are one row. `PagesMissNothing` needs besides that the events after
a cursor are those before it in the order, at every page's own table and time
(`ReadingByPages`).

The hypotheses say what a table of the database is. `ItemTable`, `NameTable`,
`EventTable`: finitely many rows, ids that name one row, numbers in the columns
that are ordered by. `ItemTree`, for the menus: an id of a sheet, section or
subsection names one node, and a section is in one sheet. `Asks`: the page size
is at least one and the order one of the eight. `Reading`: each page was asked
for with the cursor of the one before, at a time not before it; the tables may
be any. `ReadTogether` and `MenusReadTogether`: the statements of one answer, and
of all pages, read one table, which the code does not ensure beside a write;
`CountsAreLists` needs it only where it relates the counts to the list. The
menus and the counts take for granted which grades, frequencies and
statuses there are. That `NoValue` is none of the values is stated where it is
used.

**AgentDraft_proofs.** Of the Drafts `ReadersAgree`, `ServerErrorsHaveACause`,
`RetryTellsTheSameDraft`, `SavedDraftIsReady`; of the files of questions
`CsvAndWorkbookAgree`, `PreviewNamesLines`. A Draft is any record of fields with
a sequence of resources (`IsDraft`), whether any reader would take it or not.
`ValidDraft` says what the chain of checks in the use case amounts to: it looks
at the resources in their order, so what breaks or refuses is the first that is
not valid, and duplicates come last. `WhatIsSaved` and `WhatBreaks` say what a
save has passed and where it can break, `MalformedHostBreaks` what correcting a
url changes. The retry is the hard one, because
the digest tells how often each resource is in the Draft and not where:
`DigestTellsTheDraft` shows that equal digests give a matching of the resources,
one to one, and `SameDraftSameItem` that the two Drafts make the same item along
every such matching, up to the ids that new resources are given. For a file the
hypotheses are that stripping a text twice strips it once (`StripsTexts`), that
a file of text spells a text as itself and an empty cell as the empty text
(`SpellsCells`), and that a line of a text file has a cell (`IsFile`).

### Only model-checked

* The four liveness properties (`EveryRequestEnds`, `RotationEnds`,
  `EventuallyFresh`, `WarmOperationEnds`): liveness under fairness and `ENABLED`
  are out of TLAPS's reach.
* `Migrations` (`SchemaOfRevision`, `RefusalsHaveReason`, `MeaningKept`): eighteen
  fixed sequences of statements over concrete tables. There is no parameter to
  generalise over except the rows; `Migrate` and `DeleteRows` are recursive, and
  what they compute over a sequence of statements or a chain of foreign keys is
  induction over data, which the provers here cannot do.
* The rest of `MatrixImport` (`RepeatsNameTheFirst`, `DefaultSelectionAddsEachOnce`,
  `BadSelectionAddsNothing`, `NothingReadInRefused`, and what `NumbersNameLines`
  says of the import): the warnings are a fold over the rows and the chosen
  questions a `SelectSeq`, so what they give is induction over the file. The two
  about refusals hold by the guards.
* `ArticleReading` except `VisitsCommute`. The articles' order has no id, so a
  table with ties has no single answer to prove anything of
  (`ArticlePagesPartition`, `DraftsComeLast` are checked on tables without ties);
  the trees are concatenations and the statistics sums, both folds (`TreesAgree`,
  `FoldersOnce`, `ViewsCountedOnce`).
* `DatesOrderTheList`: a `NULL` is a number beyond the bounded dates, which no
  number is of all dates. `OrdersAreTotal` does not depend on it.
* The three runs with the result "violation".

## 5. Plan

Order of work: what is shared by people and agents and cannot be repaired after
the fact first, then the parts whose errors cost data or freshness, then what
only reads.

| # | module | state |
|---|---|---|
| 1 | `QuestionLease`, `MatrixQueue`, `MatrixQueue_proofs` | done |
| 2 | `CertificateRotation`, `CertificateRotation_proofs` | done |
| 3 | `AuthSessions`, `AuthSessions_proofs` | done |
| 4 | `FileLifecycle`, `FileLifecycle_proofs` | done |
| 5 | `Articles`, `Matrix`, `ResponseCache`, `Site`, `Site_proofs` | done |
| 6 | `Database`, `Revisions`, `Migrations` | modelled and checked |
| 7 | `MatrixImport`, `AgentDraft`, `AgentAudit`, `NameSearch`, `MatrixWorkspace`, `ArticleReading` | modelled and checked |
| 8 | their checks for every input: `Lists_proofs`, `AgentDraft_proofs` | done, but for the folds |
| 9 | what the cache promises as a specification of its own (a response is never older than the last invalidation its writer saw), refined by `Site` | planned |
| 10 | logout's token block in Valkey, composed with `AuthSessions` | planned |

## 6. Not modelled

* The text catalogue of the interface (`api/i18n/catalog.py`), the performance
  scenarios and their seeds (`backend/performance`), OpenAPI examples, settings:
  data and tooling with no behaviour of the system.
* Request and response schemas beyond the checks they make, query parameters,
  dependency wiring, abstract storage interfaces: formats and declarations.
* Cryptography, TLS, issuing certificates, the HTTP transport and the MCP
  protocol: used as given.
* Registration of agent clients beyond its result, and the names and scopes it
  checks; the bridge's external credential mode, which keeps no state.
* Image conversion, renaming files, the bucket's set-up.
* Access tokens: their expiry and the block list that logout writes in Valkey.
* Resources an administrator attaches to items; the knowledge graph's tables
  outside the migrations, which 0018 drops.
* Wiki links, contacts, SEO pages, localisation, the Angular frontend: pure text
  and presentation; the server decides every transition modelled here.
* PostgreSQL is modelled from how the code uses it: row locks, unique indexes,
  foreign keys, one snapshot per statement, a deadlock detector. Lock timeouts
  and connection loss are `Abort`, `Abandon` and `Break`.
* SQLAlchemy's identity map, where a row is read again under a lock: it is taken
  to have its current values, which holds while nothing else keeps the object
  alive.
