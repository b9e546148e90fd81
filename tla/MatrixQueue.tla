---------------------------- MODULE MatrixQueue ----------------------------
(***************************************************************************)
(* The question queue of the competency matrix and the leases agents take  *)
(* on its questions.  Agents (claim, save a Draft, release) and humans     *)
(* (create an item from the question, reject it, free an agent's claim)    *)
(* work on the same rows, each request in one READ COMMITTED transaction   *)
(* of its own.                                                             *)
(*                                                                         *)
(* A worker is a request being served.  Its writes are private until its   *)
(* transaction commits, so every effect is in the commit action; what the  *)
(* other transactions do see meanwhile is its row locks: rows[w] are the   *)
(* queue rows it locked FOR UPDATE, and the locks it has on the agent      *)
(* client's row and on claim rows follow from its step.  A transaction     *)
(* that stops half way (error, lost connection, crash, failed commit) is   *)
(* Abort(w): the database drops its locks and its writes.                  *)
(***************************************************************************)
EXTENDS Naturals, FiniteSets

CONSTANTS
    Client,     \* registered agent clients
    None,       \* the agent client of a human's request, the digest of one without
    Item,       \* question identifiers, in (created_at, id) order
    Digest,     \* canonical digests of the Draft inputs agents send
    Worker,     \* requests that can be in flight at the same time
    TTL,        \* claim_ttl_seconds, in clock ticks
    MaxTime,    \* bound on the clock
    MaxClaims   \* bound on the claims ever issued or being requested

ASSUME QueueAssumption ==
    /\ None \notin Client \cup Digest
    /\ Item \subseteq Nat \ {0}
    /\ TTL \in Nat \ {0}
    /\ MaxTime \in Nat
    /\ MaxClaims \in Nat

VARIABLES
    now,          \* the clock of the application servers
    active,       \* clients that are not revoked
    asked,        \* questions ever suggested
    queue,        \* rows of the queue table
    claims,       \* rows of the claim table
    issued,       \* claims ever committed: their identifiers are 1..issued
    made,         \* made[i]: matrix items committed for question i
    completions,  \* rows of the Draft completion table
    told,         \* [claim, digest] of the saves answered by requests that commit
    step,         \* where each request is
    req,          \* its input, and the time taken when it started
    target,       \* the question it works on, 0 while it has none
    rows,         \* queue rows it locked FOR UPDATE
    seen          \* claim_next: eligible questions in the statement's snapshot

data == <<active, asked, queue, claims, issued, made, completions, told>>
vars == <<now, active, asked, queue, claims, issued, made, completions, told,
          step, req, target, rows, seen>>

AgentOp == {"claim", "save", "release"}
HumanOp == {"create", "reject", "free"}

Claim      == [id : Nat, client : Client, item : Item, expires : Nat]
Save       == [claim : Nat, digest : Digest]
Completion == [claim : Nat, client : Client, item : Item, digest : Digest]
Request    == [op : AgentOp \cup HumanOp \cup {"none"},
               client : Client \cup {None},
               claim : Nat, digest : Digest \cup {None}, at : Nat]

Step == {"idle", "client", "pick", "take", "find", "wait", "reference", "commit"}

NoRequest == [op |-> "none", client |-> None, claim |-> 0, digest |-> None, at |-> 0]

-----------------------------------------------------------------------------
(* Rows and row locks.                                                      *)

Live(k, t)     == k.expires > t
ClaimsOn(i)    == {k \in claims : k.item = i}
ClaimsOf(c)    == {k \in claims : k.client = c}
RowFree(w, i)  == \A v \in Worker \ {w} : i \notin rows[v]

\* A claim of client c found by its identifier, as the storage looks it up.
ClaimNamed(n, c) == {k \in claims : k.id = n /\ k.client = c}

CompletionOf(n, c) == {d \in completions : d.claim = n /\ d.client = c}

\* claim_next holds the client's row FOR UPDATE from its first statement on.
HoldsClient(w, c) ==
    /\ req[w].op = "claim" /\ req[w].client = c
    /\ step[w] \in {"wait", "pick", "take", "commit"}

\* The foreign keys of the completion and audit rows take FOR KEY SHARE on it.
SharesClient(w, c) ==
    /\ req[w].op \in {"save", "release"} /\ req[w].client = c
    /\ step[w] = "commit"

\* Whether claim_next gets the client's row.
ClientFreeForWriters(w, c) == \A v \in Worker \ {w} : ~SharesClient(v, c)
ClientFree(w, c) ==
    \A v \in Worker \ {w} : ~HoldsClient(v, c) /\ ~SharesClient(v, c)

\* A transaction past its checks has locked or deleted the claims on its target.
ClaimRowLocked(k) ==
    \E w \in Worker : step[w] \in {"reference", "commit"} /\ target[w] = k.item

\* The request, and its transaction, is over.
End(w) ==
    /\ step'   = [step EXCEPT ![w] = "idle"]
    /\ req'    = [req EXCEPT ![w] = NoRequest]
    /\ target' = [target EXCEPT ![w] = 0]
    /\ rows'   = [rows EXCEPT ![w] = {}]
    /\ seen'   = [seen EXCEPT ![w] = {}]

\* The request goes on to step s.
Goto(w, s) == step' = [step EXCEPT ![w] = s]

\* An answer that changes nothing: a replay, a conflict, a "not found".
Answer(w) == End(w) /\ UNCHANGED <<now, data>>

Begin(w, r, i, s) ==
    /\ step[w] = "idle"
    /\ req'    = [req EXCEPT ![w] = r]
    /\ target' = [target EXCEPT ![w] = i]
    /\ Goto(w, s)
    /\ UNCHANGED <<now, data, rows, seen>>

Lock(w, S) == rows' = [rows EXCEPT ![w] = @ \cup S]

Init ==
    /\ now = 0 /\ active = Client
    /\ asked = {} /\ queue = {} /\ claims = {} /\ issued = 0
    /\ made = [i \in Item |-> 0] /\ completions = {} /\ told = {}
    /\ step = [w \in Worker |-> "idle"]
    /\ req = [w \in Worker |-> NoRequest]
    /\ target = [w \in Worker |-> 0]
    /\ rows = [w \in Worker |-> {}]
    /\ seen = [w \in Worker |-> {}]

-----------------------------------------------------------------------------
(* claim_next_matrix_question                                               *)

\* The request is authenticated, which is when its time is taken.
StartClaim(w, c) ==
    /\ c \in active
    /\ issued + Cardinality({v \in Worker : req[v].op = "claim"}) < MaxClaims
    /\ Begin(w, [NoRequest EXCEPT !.op = "claim", !.client = c, !.at = now], 0, "client")

\* The join finds the queue row of the client's claim, if any, and waits for it.
FindOwned(w) ==
    \/ /\ ClaimsOf(req[w].client) = {}
       /\ Goto(w, "pick") /\ UNCHANGED target
    \/ \E k \in ClaimsOf(req[w].client) :
          /\ target' = [target EXCEPT ![w] = k.item]
          /\ Goto(w, "wait")

\* SELECT client FOR UPDATE, then the status check, then the join.
LockClientUnchecked(w) ==
    /\ req[w].op = "claim" /\ step[w] = "client"
    /\ ClientFree(w, req[w].client)
    /\ FindOwned(w)
    /\ UNCHANGED <<now, data, req, rows, seen>>

LockClient(w) ==
    /\ req[w].op = "claim" /\ step[w] = "client"
    /\ ClientFree(w, req[w].client)
    /\ req[w].client \in active
    /\ FindOwned(w)
    /\ UNCHANGED <<now, data, req, rows, seen>>

DenyClaim(w) ==
    /\ req[w].op = "claim" /\ step[w] = "client"
    /\ ClientFree(w, req[w].client)
    /\ req[w].client \notin active
    /\ Answer(w)

\* The claim is read again under the row lock: a live one is returned as it is ...
ReturnOwned(w) ==
    /\ req[w].op = "claim" /\ step[w] = "wait"
    /\ RowFree(w, target[w])
    /\ \E k \in ClaimsOf(req[w].client) :
          k.item = target[w] /\ Live(k, req[w].at)
    /\ Answer(w)

\* ... one that expired is deleted (CommitClaim does it), and one that is gone, or
\* whose question is gone, is not missed.
DropOwnedLate(w) ==
    /\ req[w].op = "claim" /\ step[w] = "wait"
    /\ RowFree(w, target[w])
    /\ \A k \in ClaimsOf(req[w].client) :
          k.item = target[w] => ~Live(k, req[w].at)
    /\ target' = [target EXCEPT ![w] = 0]
    /\ Lock(w, {target'[w]})
    /\ Goto(w, "pick")
    /\ UNCHANGED <<now, data, req, seen>>

DropOwned(w) ==
    /\ req[w].op = "claim" /\ step[w] = "wait"
    /\ RowFree(w, target[w])
    /\ \A k \in ClaimsOf(req[w].client) :
          k.item = target[w] => ~Live(k, req[w].at)
    /\ Lock(w, {target[w]} \cap queue)
    /\ target' = [target EXCEPT ![w] = 0]
    /\ Goto(w, "pick")
    /\ UNCHANGED <<now, data, req, seen>>

\* The candidates are those of the statement's snapshot ...
ReadCandidates(w) ==
    /\ req[w].op = "claim" /\ step[w] = "pick"
    /\ seen' = [seen EXCEPT ![w] =
                  {i \in queue : ~\E k \in ClaimsOn(i) : Live(k, req[w].at)}]
    /\ Goto(w, "take")
    /\ UNCHANGED <<now, data, req, target, rows>>

\* ... and FOR UPDATE SKIP LOCKED then locks all of them that are still there and
\* that nobody else has: the statement has no LIMIT.
Lockable(w) == {i \in seen[w] \cap queue : RowFree(w, i)}

TakeOldest(w) ==
    /\ req[w].op = "claim" /\ step[w] = "take"
    /\ Lock(w, Lockable(w))
    /\ \E oldest \in Lockable(w) :
          /\ \A i \in Lockable(w) : oldest <= i
          /\ target' = [target EXCEPT ![w] = oldest]
    /\ Goto(w, "commit")
    /\ UNCHANGED <<now, data, req, seen>>

ReportEmpty(w) ==
    /\ req[w].op = "claim" /\ step[w] = "take"
    /\ Lockable(w) = {}
    /\ Answer(w)

\* Claims the transaction deletes: the client's own expired one and the expired one
\* on the question.
ExpiredOrNot(w) == {k \in claims : k.client = req[w].client \/ k.item = target[w]}

Expired(w) ==
    {k \in claims : /\ k.client = req[w].client \/ k.item = target[w]
                    /\ ~Live(k, req[w].at)}

\* The unique constraints on the claim's client and on its question.
UniqueClient(w) == \A k \in claims \ Expired(w) : k.client # req[w].client

Unique(w) ==
    \A k \in claims \ Expired(w) :
       k.client # req[w].client /\ k.item # target[w]

CommitClaim(w) ==
    /\ req[w].op = "claim" /\ step[w] = "commit"
    /\ Unique(w)
    /\ issued' = issued + 1
    /\ claims' = (claims \ Expired(w)) \cup
                   {[id |-> issued + 1, client |-> req[w].client,
                     item |-> target[w], expires |-> req[w].at + TTL]}
    /\ End(w)
    /\ UNCHANGED <<now, active, asked, queue, made, completions, told>>

\* The insert violates a unique constraint: the snapshot was stale.
RejectClaim(w) ==
    /\ req[w].op = "claim" /\ step[w] = "commit"
    /\ ~Unique(w)
    /\ Answer(w)

-----------------------------------------------------------------------------
(* save_matrix_question_draft                                               *)

\* A request whose claim has a completion is told so if it sent the same input, and
\* refused if not.
SaysSavedAnyway(n, c, d) ==
    /\ CompletionOf(n, c) # {}
    /\ told' = told \cup {[claim |-> n, digest |-> d]}

SaysSaved(n, c, d) ==
    /\ \E e \in CompletionOf(n, c) : e.digest = d
    /\ told' = told \cup {[claim |-> n, digest |-> d]}

\* The first look at the completions answers a repeated request ...
RepeatSave(c, n, d) ==
    /\ c \in active
    /\ SaysSaved(n, c, d)
    /\ UNCHANGED <<now, active, asked, queue, claims, issued, made, completions,
                   step, req, target, rows, seen>>

\* ... one that finds none goes on.
StartSave(w, c, n, d) ==
    /\ c \in active
    /\ CompletionOf(n, c) = {}
    /\ Begin(w, [op |-> "save", client |-> c, claim |-> n, digest |-> d, at |-> now],
             0, "find")

\* The claim's question is read without a lock, then its row is waited for.
FindClaim(w) ==
    /\ req[w].op = "save" /\ step[w] = "find"
    /\ \E k \in ClaimNamed(req[w].claim, req[w].client) :
          target' = [target EXCEPT ![w] = k.item]
    /\ Goto(w, "wait")
    /\ UNCHANGED <<now, data, req, rows, seen>>

\* The claim as the transaction finds it once it has the question's row.
Held(w) == {k \in ClaimNamed(req[w].claim, req[w].client) : k.item = target[w]}

Completable(w) == \E k \in Held(w) : Live(k, req[w].at)

\* Lock the row, read the claim again, look again for a completion, check the lease.
ReadClaim(w) ==
    /\ req[w].op = "save" /\ step[w] = "wait"
    /\ CompletionOf(req[w].claim, req[w].client) = {}
    /\ Completable(w)
    /\ Goto(w, "reference")
    /\ UNCHANGED <<now, data, req, target, rows, seen>>

LockClaim(w) ==
    /\ req[w].op = "save" /\ step[w] = "wait"
    /\ RowFree(w, target[w])
    /\ CompletionOf(req[w].claim, req[w].client) = {}
    /\ Completable(w)
    /\ Lock(w, {target[w]})
    /\ Goto(w, "reference")
    /\ UNCHANGED <<now, data, req, target, seen>>

\* The claim is looked for: before its row, or with its row locked.
Looked(w) ==
    /\ req[w].op = "save"
    /\ \/ step[w] = "find" /\ ClaimNamed(req[w].claim, req[w].client) = {}
       \/ step[w] = "wait" /\ RowFree(w, target[w])

\* The second look finds the completion of a request that was faster.
ReplaySave(w) ==
    /\ Looked(w)
    /\ SaysSaved(req[w].claim, req[w].client, req[w].digest)
    /\ End(w)
    /\ UNCHANGED <<now, active, asked, queue, claims, issued, made, completions>>

ConflictSave(w) ==
    /\ Looked(w)
    /\ \E e \in CompletionOf(req[w].claim, req[w].client) : e.digest # req[w].digest
    /\ Answer(w)

ClaimNotFound(w) ==
    /\ Looked(w)
    /\ CompletionOf(req[w].claim, req[w].client) = {}
    /\ ~Completable(w)
    /\ Answer(w)

\* The Draft item, the completion and the audit event are inserted, the claim and the
\* question are deleted.
CommitSaveKeepingQuestion(w) ==
    /\ req[w].op = "save" /\ step[w] = "commit"
    /\ made' = [made EXCEPT ![target[w]] = @ + 1]
    /\ completions' = completions \cup
          {[claim |-> req[w].claim, client |-> req[w].client,
            item |-> target[w], digest |-> req[w].digest]}
    /\ told' = told \cup {[claim |-> req[w].claim, digest |-> req[w].digest]}
    /\ claims' = claims \ ClaimsOn(target[w])
    /\ End(w)
    /\ UNCHANGED <<now, active, asked, queue, issued>>

CommitSave(w) ==
    /\ req[w].op = "save" /\ step[w] = "commit"
    /\ made' = [made EXCEPT ![target[w]] = @ + 1]
    /\ completions' = completions \cup
          {[claim |-> req[w].claim, client |-> req[w].client,
            item |-> target[w], digest |-> req[w].digest]}
    /\ told' = told \cup {[claim |-> req[w].claim, digest |-> req[w].digest]}
    /\ claims' = claims \ ClaimsOn(target[w])
    /\ queue' = queue \ {target[w]}
    /\ End(w)
    /\ UNCHANGED <<now, active, asked, issued>>

-----------------------------------------------------------------------------
(* release_matrix_question_claim                                            *)

StartRelease(w, c, n) ==
    /\ c \in active
    /\ \E k \in ClaimNamed(n, c) :
          /\ Live(k, now)
          /\ Begin(w, [NoRequest EXCEPT !.op = "release", !.client = c,
                                        !.claim = n, !.at = now], k.item, "wait")

LockReleased(w) ==
    /\ req[w].op = "release" /\ step[w] = "wait"
    /\ RowFree(w, target[w])
    /\ Completable(w)
    /\ Lock(w, {target[w]})
    /\ Goto(w, "reference")
    /\ UNCHANGED <<now, data, req, target, seen>>

ReleaseNotFound(w) ==
    /\ req[w].op = "release" /\ step[w] = "wait"
    /\ RowFree(w, target[w])
    /\ ~Completable(w)
    /\ Answer(w)

CommitRelease(w) ==
    /\ req[w].op = "release" /\ step[w] = "commit"
    /\ claims' = claims \ Held(w)
    /\ End(w)
    /\ UNCHANGED <<now, active, asked, queue, issued, made, completions, told>>

\* Save and release refer to the client's row, which its claim_next may hold.
ReferToClient(w) ==
    /\ step[w] = "reference"
    /\ \A v \in Worker \ {w} : ~HoldsClient(v, req[w].client)
    /\ Goto(w, "commit")
    /\ UNCHANGED <<now, data, req, target, rows, seen>>

-----------------------------------------------------------------------------
(* Humans: create an item from a question, reject it, free an agent's claim. *)

StartHuman(w, op, i) ==
    /\ i \in asked
    /\ Begin(w, [NoRequest EXCEPT !.op = op, !.at = now], i, "wait")

\* The question's row is locked, then its claim is read.
ClaimedLonger(w) == \E k \in ClaimsOn(target[w]) : Live(k, req[w].at + 1)
Claimed(w) == \E k \in ClaimsOn(target[w]) : Live(k, req[w].at)

LockQuestion(w) ==
    /\ req[w].op \in HumanOp /\ step[w] = "wait"
    /\ RowFree(w, target[w])
    /\ target[w] \in queue
    /\ req[w].op = "free" \/ ~Claimed(w)
    /\ Lock(w, {target[w]})
    /\ Goto(w, "commit")
    /\ UNCHANGED <<now, data, req, target, seen>>

RefuseHuman(w) ==
    /\ req[w].op \in HumanOp /\ step[w] = "wait"
    /\ RowFree(w, target[w])
    /\ target[w] \notin queue \/ (req[w].op # "free" /\ Claimed(w))
    /\ Answer(w)

\* Deleting the question takes its expired claim with it (ON DELETE CASCADE).
CommitCreate(w) ==
    /\ req[w].op = "create" /\ step[w] = "commit"
    /\ made' = [made EXCEPT ![target[w]] = @ + 1]
    /\ queue' = queue \ {target[w]}
    /\ claims' = claims \ ClaimsOn(target[w])
    /\ End(w)
    /\ UNCHANGED <<now, active, asked, issued, completions, told>>

CommitReject(w) ==
    /\ req[w].op = "reject" /\ step[w] = "commit"
    /\ queue' = queue \ {target[w]}
    /\ claims' = claims \ ClaimsOn(target[w])
    /\ End(w)
    /\ UNCHANGED <<now, active, asked, issued, made, completions, told>>

CommitFree(w) ==
    /\ req[w].op = "free" /\ step[w] = "commit"
    /\ claims' = claims \ ClaimsOn(target[w])
    /\ End(w)
    /\ UNCHANGED <<now, active, asked, queue, issued, made, completions, told>>

-----------------------------------------------------------------------------
(* The rest of the world.                                                   *)

\* One suggestion, or an import of several.
Suggest(batch) ==
    /\ batch # {}
    /\ \A i \in batch : \A j \in asked : j < i
    /\ asked' = asked \cup batch
    /\ queue' = queue \cup batch
    /\ UNCHANGED <<now, active, claims, issued, made, completions, told,
                   step, req, target, rows, seen>>

\* The owner revokes a client: its row, its certificates, its claims.
RevokeClient(c) ==
    /\ c \in active
    /\ \A w \in Worker : ~HoldsClient(w, c)
    /\ \A k \in ClaimsOf(c) : ~ClaimRowLocked(k)
    /\ active' = active \ {c}
    /\ claims' = claims \ ClaimsOf(c)
    /\ UNCHANGED <<now, asked, queue, issued, made, completions, told,
                   step, req, target, rows, seen>>

Tick ==
    /\ now < MaxTime
    /\ now' = now + 1
    /\ UNCHANGED <<data, step, req, target, rows, seen>>

\* The transaction is rolled back: an error, a lost connection, a failed commit.
Abort(w) == step[w] # "idle" /\ Answer(w)

\* claim_next has the client and waits for the question; save or release has the
\* question and waits for the client.
NoDeadlock(v, w) == FALSE

Deadlocked(v, w) ==
    /\ req[v].op = "claim" /\ step[v] = "wait"
    /\ step[w] = "reference" /\ req[v].client = req[w].client
    /\ target[v] \in rows[w]

\* The database notices and rolls back one of the two.
BreakDeadlock(w) ==
    /\ \E v \in Worker : Deadlocked(v, w) \/ Deadlocked(w, v)
    /\ Answer(w)

-----------------------------------------------------------------------------
ClaimStep(w) ==
    LockClient(w) \/ DenyClaim(w) \/ ReturnOwned(w) \/ DropOwned(w)
    \/ ReadCandidates(w) \/ TakeOldest(w) \/ ReportEmpty(w)
    \/ CommitClaim(w) \/ RejectClaim(w)

SaveStep(w) ==
    FindClaim(w) \/ LockClaim(w) \/ ReplaySave(w) \/ ConflictSave(w)
    \/ ClaimNotFound(w) \/ CommitSave(w)

ReleaseStep(w) == LockReleased(w) \/ ReleaseNotFound(w) \/ CommitRelease(w)

HumanStep(w) ==
    LockQuestion(w) \/ RefuseHuman(w)
    \/ CommitCreate(w) \/ CommitReject(w) \/ CommitFree(w)

Progress(w) ==
    ClaimStep(w) \/ SaveStep(w) \/ ReleaseStep(w) \/ HumanStep(w) \/ ReferToClient(w)

Start(w) ==
    \/ \E c \in Client : StartClaim(w, c)
    \/ \E c \in Client, n \in 1..issued :
          StartRelease(w, c, n) \/ \E d \in Digest : StartSave(w, c, n, d)
    \/ \E op \in HumanOp, i \in Item : StartHuman(w, op, i)

Next ==
    \/ \E w \in Worker : Start(w) \/ Progress(w) \/ BreakDeadlock(w) \/ Abort(w)
    \/ \E batch \in SUBSET Item : Suggest(batch)
    \/ \E c \in Client : RevokeClient(c)
    \/ \E c \in Client, n \in 1..issued, d \in Digest : RepeatSave(c, n, d)
    \/ Tick

Spec == Init /\ [][Next]_vars

\* A request runs on: the database grants its row locks in the order they were asked
\* for, so one that waits gets its lock when it is free again and again, and it
\* breaks deadlocks.  Nothing promises that anything is suggested, started, revoked
\* or aborted.
FairSpec ==
    Spec /\ \A w \in Worker : SF_vars(Progress(w)) /\ WF_vars(BreakDeadlock(w))

-----------------------------------------------------------------------------
(* Properties.                                                              *)

\* Every variable has its type: the rows of the database, and the requests.
DataOK ==
    /\ now \in Nat
    /\ active \subseteq Client
    /\ asked \subseteq Item
    /\ queue \subseteq Item
    /\ claims \subseteq Claim
    /\ issued \in Nat
    /\ made \in [Item -> Nat]
    /\ completions \subseteq Completion
    /\ told \subseteq Save

WorkOK ==
    /\ step \in [Worker -> Step]
    /\ req \in [Worker -> Request]
    /\ target \in [Worker -> Item \cup {0}]
    /\ rows \in [Worker -> SUBSET Item]
    /\ seen \in [Worker -> SUBSET Item]

TypeOK == DataOK /\ WorkOK

\* A question becomes at most one matrix item, whoever works on it - the agent that
\* leases it, an agent that leased it before, a human - and while it is queued it has
\* become none (create_item_from_queue and save_matrix_question_draft, which insert
\* the item and delete the question).
OneItemPerQuestion ==
    \A i \in Item : made[i] <= 1 /\ (i \in queue => made[i] = 0)

\* A lease is always on a question that is still queued, and no question and no
\* client has two.
LeasesAreExclusive ==
    /\ \A k \in claims : k.item \in queue
    /\ \A k, l \in claims : (k.item = l.item \/ k.client = l.client) => k = l

\* The lock claim_next takes on the client makes the constraint "one claim per
\* client" unreachable: no request of a client fails on it, however many run at once.
ClientConstraintNeverFires ==
    \A w \in Worker :
       req[w].op = "claim" /\ step[w] = "commit" =>
          \A k \in ClaimsOf(req[w].client) : k \in Expired(w)

\* "Revocation is permanent, invalidates the client's certificates, and releases its
\* active claims": a request under way when its client is revoked leaves it no claim.
RevokedHoldsNothing == \A k \in claims : k.client \in active

\* A completion stands for the Draft it recorded: its question is done and its claim
\* is gone, and no other completion names the claim or the question.
CompletionIsFinal ==
    \A d \in completions :
       /\ made[d.item] = 1 /\ d.item \notin queue
       /\ \A k \in claims : k.id # d.claim
       /\ \A e \in completions : (e.claim = d.claim \/ e.item = d.item) => e = d

\* An agent may repeat a save, also while the first is still running, and may change
\* its input: the requests that end without an error tell of one Draft per claim, the
\* one that was stored.  (An answer whose commit fails after it is not in told.)
ToldWhatIsStored ==
    \A t \in told :
       /\ \E d \in completions : d.claim = t.claim /\ d.digest = t.digest
       /\ \A u \in told : u.claim = t.claim => u = t

\* The queue keeps the promises of QuestionLease, a claim row being a lease.
QL == INSTANCE QuestionLease WITH
        leases <- {[client |-> k.client, item |-> k.item, expires |-> k.expires]
                     : k \in claims}

KeepsLeases == QL!Spec

\* A lease that has not run out ends in one of three ways: its client's own save or
\* release commits, a human frees it, or its client is revoked.  In particular no other
\* agent takes the question over and no human creates an item from it or rejects it,
\* however long before the commit they read the clock and the claim.
LeaseEndsByRight ==
    [][\A k \in claims \ claims' :
          Live(k, now) =>
             \/ \E w \in Worker :
                   /\ req[w].op \in {"save", "release"}
                   /\ req[w].client = k.client /\ req[w].claim = k.id
                   /\ step[w] = "commit" /\ step'[w] = "idle"
             \/ \E w \in Worker :
                   req[w].op = "free" /\ step[w] = "commit" /\ step'[w] = "idle"
             \/ k.client \notin active']_vars

\* Every request ends: no order of row locks makes two transactions wait for each
\* other for ever.
EveryRequestEnds ==
    \A w \in Worker : step[w] # "idle" ~> step[w] = "idle"

\* Questions that w found eligible when it read, that still are, and that another
\* claim_next has locked; and the requests that lock them, each of which takes one.
Withheld(w) ==
    {i \in seen[w] \cap queue :
        /\ ~\E k \in ClaimsOn(i) : Live(k, now)
        /\ \E v \in Worker \ {w} : req[v].op = "claim" /\ i \in rows[v]}

Takers(w) == {v \in Worker \ {w} : req[v].op = "claim" /\ Withheld(w) \cap rows[v] # {}}

\* docs/agent-access.md:74: claim_next "atomically claims the oldest eligible queue
\* item".  So of the questions a request read as eligible it may leave to other
\* claim_next requests no more than they take: it reports an empty queue only if each
\* of those still eligible goes to one of them.
EmptyOnlyWhenTaken ==
    [][\A w \in Worker : ReportEmpty(w) => Cardinality(Withheld(w)) <= Cardinality(Takers(w))]_vars
=============================================================================
