------------------------- MODULE MatrixQueue_proofs -------------------------
(***************************************************************************)
(* Proofs about MatrixQueue, for any number of clients, questions, Draft   *)
(* inputs and requests in flight, and for any lease duration and clock;    *)
(* and that it implements QuestionLease.                                   *)
(***************************************************************************)
EXTENDS MatrixQueue, TLAPS

-----------------------------------------------------------------------------
(* Type correctness.                                                        *)

\* What the type of a request does not say: the fields an operation uses are there.
RequestOK ==
    \A w \in Worker :
       /\ req[w].op \in AgentOp => req[w].client \in Client
       /\ req[w].op = "save" => req[w].digest \in Digest
       /\ step[w] \in {"wait", "reference", "commit"} => target[w] \in Item

TypeInv == DataOK /\ WorkOK /\ RequestOK

\* A request that ends leaves the requests well typed.
LEMMA EndType ==
    ASSUME WorkOK, RequestOK, NEW w \in Worker, End(w)
    PROVE  (WorkOK /\ RequestOK)'
<1>1. NoRequest \in Request
  BY DEF NoRequest, Request
<1>2. WorkOK'
  BY <1>1 DEF WorkOK, End, Step
<1>3. RequestOK'
  BY DEF WorkOK, RequestOK, End, NoRequest, AgentOp
<1> QED BY <1>2, <1>3

\* So does a request that begins, if its fields are there.
LEMMA BeginType ==
    ASSUME WorkOK, RequestOK, NEW w \in Worker,
           NEW r \in Request, NEW i \in Item \cup {0}, NEW s \in Step,
           r.op \in AgentOp => r.client \in Client,
           r.op = "save" => r.digest \in Digest,
           s \in {"wait", "reference", "commit"} => i \in Item,
           Begin(w, r, i, s)
    PROVE  (WorkOK /\ RequestOK)'
<1>1. WorkOK'
  BY DEF WorkOK, Begin, Goto
<1>2. RequestOK'
  BY DEF WorkOK, RequestOK, Begin, Goto
<1> QED BY <1>1, <1>2

\* So does one that goes on, with its target set if the next step needs one.
LEMMA GotoType ==
    ASSUME WorkOK, RequestOK, NEW w \in Worker, NEW s \in Step, Goto(w, s),
           req' = req, seen' \in [Worker -> SUBSET Item],
           rows' \in [Worker -> SUBSET Item],
           NEW i \in Item \cup {0}, target' = [target EXCEPT ![w] = i],
           s \in {"wait", "reference", "commit"} => i \in Item
    PROVE  (WorkOK /\ RequestOK)'
<1>1. WorkOK'
  BY DEF WorkOK, Goto
<1>2. RequestOK'
  BY DEF WorkOK, RequestOK, Goto
<1> QED BY <1>1, <1>2

\* The types hold initially.
LEMMA InitType == Init => TypeInv
BY QueueAssumption DEF Init, TypeInv, DataOK, WorkOK, RequestOK, Step, NoRequest,
   Request, AgentOp

\* Every step preserves the types; the case of a request's step is a lemma of its own.
LEMMA ClaimType ==
    ASSUME TypeInv, NEW w \in Worker, ClaimStep(w)
    PROVE  TypeInv'
<1> USE DEF TypeInv
<1>1. CASE LockClient(w)
  <2>1. DataOK' /\ req' = req /\ seen' \in [Worker -> SUBSET Item]
        /\ rows' \in [Worker -> SUBSET Item]
    BY <1>1 DEF LockClient, DataOK, WorkOK, data
  <2>2. CASE Goto(w, "pick") /\ UNCHANGED target
    <3>1. target' = [target EXCEPT ![w] = target[w]] /\ target[w] \in Item \cup {0}
      BY <2>2 DEF WorkOK
    <3> QED BY <2>1, <2>2, <3>1, GotoType DEF Step
  <2>3. CASE \E k \in ClaimsOf(req[w].client) :
                target' = [target EXCEPT ![w] = k.item] /\ Goto(w, "wait")
    <3>1. PICK k \in claims : target' = [target EXCEPT ![w] = k.item] /\ Goto(w, "wait")
      BY <2>3 DEF ClaimsOf
    <3>2. k.item \in Item
      BY DEF DataOK, Claim
    <3> QED BY <2>1, <3>1, <3>2, GotoType DEF Step
  <2> QED BY <1>1, <2>2, <2>3 DEF LockClient, FindOwned
<1>2. CASE DropOwned(w)
  <2>1. DataOK' /\ req' = req /\ seen' \in [Worker -> SUBSET Item]
        /\ rows' \in [Worker -> SUBSET Item]
        /\ target' = [target EXCEPT ![w] = 0] /\ Goto(w, "pick")
    BY <1>2 DEF DropOwned, DataOK, WorkOK, data, Lock
  <2> QED BY <2>1, GotoType DEF Step
<1>3. CASE ReadCandidates(w)
  <2>1. DataOK' /\ req' = req /\ rows' \in [Worker -> SUBSET Item] /\ Goto(w, "take")
        /\ target' = [target EXCEPT ![w] = target[w]] /\ target[w] \in Item \cup {0}
    BY <1>3 DEF ReadCandidates, DataOK, WorkOK, data
  <2>2. seen' \in [Worker -> SUBSET Item]
    <3>1. {i \in queue : ~\E k \in ClaimsOn(i) : Live(k, req[w].at)} \in SUBSET Item
      BY DEF DataOK
    <3> QED BY <1>3, <3>1 DEF ReadCandidates, WorkOK
  <2> QED BY <2>1, <2>2, GotoType DEF Step
<1>4. CASE TakeOldest(w)
  <2>1. PICK i \in Lockable(w) : target' = [target EXCEPT ![w] = i]
    BY <1>4 DEF TakeOldest
  <2>2. Lockable(w) \subseteq Item
    BY DEF Lockable, DataOK
  <2>3. DataOK' /\ req' = req /\ seen' \in [Worker -> SUBSET Item]
        /\ rows' \in [Worker -> SUBSET Item] /\ Goto(w, "commit")
    BY <1>4, <2>2 DEF TakeOldest, DataOK, WorkOK, data, Lock
  <2> QED BY <2>1, <2>2, <2>3, GotoType DEF Step
<1>5. CASE CommitClaim(w)
  <2>1. (WorkOK /\ RequestOK)'
    BY <1>5, EndType DEF CommitClaim
  <2>2. [id |-> issued + 1, client |-> req[w].client, item |-> target[w],
         expires |-> req[w].at + TTL] \in Claim
    BY <1>5, QueueAssumption
       DEF CommitClaim, Claim, DataOK, WorkOK, RequestOK, Request, AgentOp
  <2>3. DataOK'
    BY <1>5, <2>2 DEF CommitClaim, DataOK
  <2> QED BY <2>1, <2>3
<1>6. CASE DenyClaim(w) \/ ReturnOwned(w) \/ ReportEmpty(w) \/ RejectClaim(w)
  <2>1. End(w) /\ UNCHANGED <<now, data>>
    BY <1>6 DEF DenyClaim, ReturnOwned, ReportEmpty, RejectClaim, Answer
  <2>2. DataOK'
    BY <2>1 DEF DataOK, data
  <2> QED BY <2>1, <2>2, EndType
<1> QED BY <1>1, <1>2, <1>3, <1>4, <1>5, <1>6 DEF ClaimStep

\* The steps of a save: a new completion refers to its client, question and item.
LEMMA SaveType ==
    ASSUME TypeInv, NEW w \in Worker, SaveStep(w)
    PROVE  TypeInv'
<1> USE DEF TypeInv
<1>1. CASE FindClaim(w)
  <2>1. PICK k \in claims : target' = [target EXCEPT ![w] = k.item]
    BY <1>1 DEF FindClaim, ClaimNamed
  <2>2. k.item \in Item
    BY DEF DataOK, Claim
  <2>3. DataOK' /\ req' = req /\ seen' \in [Worker -> SUBSET Item]
        /\ rows' \in [Worker -> SUBSET Item] /\ Goto(w, "wait")
    BY <1>1 DEF FindClaim, DataOK, WorkOK, data
  <2> QED BY <2>1, <2>2, <2>3, GotoType DEF Step
<1>2. CASE LockClaim(w)
  <2>1. target[w] \in Item
    BY <1>2 DEF LockClaim, RequestOK
  <2>2. DataOK' /\ req' = req /\ seen' \in [Worker -> SUBSET Item]
        /\ rows' \in [Worker -> SUBSET Item] /\ Goto(w, "reference")
        /\ target' = [target EXCEPT ![w] = target[w]]
    BY <1>2, <2>1 DEF LockClaim, DataOK, WorkOK, data, Lock
  <2> QED BY <2>1, <2>2, GotoType DEF Step
<1>3. CASE ConflictSave(w) \/ ClaimNotFound(w)
  <2>1. End(w) /\ UNCHANGED <<now, data>>
    BY <1>3 DEF ConflictSave, ClaimNotFound, Answer
  <2>2. DataOK'
    BY <2>1 DEF DataOK, data
  <2> QED BY <2>1, <2>2, EndType
<1>4. CASE ReplaySave(w)
  <2>1. [claim |-> req[w].claim, digest |-> req[w].digest] \in Save
    BY <1>4 DEF ReplaySave, Looked, Save, WorkOK, RequestOK, Request
  <2>2. DataOK'
    BY <1>4, <2>1 DEF ReplaySave, SaysSaved, DataOK
  <2> QED BY <1>4, <2>2, EndType DEF ReplaySave
<1>5. CASE CommitSave(w)
  <2>1. [claim |-> req[w].claim, digest |-> req[w].digest] \in Save
    BY <1>5 DEF CommitSave, Save, WorkOK, RequestOK, Request
  <2>2. [claim |-> req[w].claim, client |-> req[w].client,
         item |-> target[w], digest |-> req[w].digest] \in Completion
    BY <1>5 DEF CommitSave, Completion, WorkOK, RequestOK, Request, AgentOp
  <2>3. made' \in [Item -> Nat]
    BY <1>5 DEF CommitSave, DataOK, RequestOK
  <2>4. DataOK'
    BY <1>5, <2>1, <2>2, <2>3 DEF CommitSave, DataOK
  <2> QED BY <1>5, <2>4, EndType DEF CommitSave
<1> QED BY <1>1, <1>2, <1>3, <1>4, <1>5 DEF SaveStep

\* A request that locks the row of the target it has.
LEMMA LockType ==
    ASSUME TypeInv, NEW w \in Worker, step[w] = "wait", NEW s \in Step,
           Goto(w, s), Lock(w, {target[w]}), UNCHANGED <<now, data, req, target, seen>>
    PROVE  TypeInv'
<1>1. target[w] \in Item
  BY DEF TypeInv, RequestOK
<1>2. DataOK' /\ req' = req /\ seen' \in [Worker -> SUBSET Item]
      /\ rows' \in [Worker -> SUBSET Item]
      /\ target' = [target EXCEPT ![w] = target[w]]
  BY <1>1 DEF TypeInv, DataOK, WorkOK, data, Lock
<1> QED BY <1>1, <1>2, GotoType DEF TypeInv

\* A request that ends with an answer and changes no data.
LEMMA AnswerType ==
    ASSUME TypeInv, NEW w \in Worker, Answer(w)
    PROVE  TypeInv'
<1>1. DataOK'
  BY DEF TypeInv, Answer, DataOK, data
<1> QED BY <1>1, EndType DEF TypeInv, Answer

\* The steps of a release.
LEMMA ReleaseType ==
    ASSUME TypeInv, NEW w \in Worker, ReleaseStep(w)
    PROVE  TypeInv'
<1>1. CASE LockReleased(w)
  BY <1>1, LockType DEF LockReleased, Step
<1>2. CASE ReleaseNotFound(w)
  BY <1>2, AnswerType DEF ReleaseNotFound
<1>3. CASE CommitRelease(w)
  <2>1. DataOK'
    BY <1>3 DEF TypeInv, CommitRelease, DataOK
  <2> QED BY <1>3, <2>1, EndType DEF TypeInv, CommitRelease
<1> QED BY <1>1, <1>2, <1>3 DEF ReleaseStep

\* The steps of a human's decision on a queued question.
LEMMA HumanType ==
    ASSUME TypeInv, NEW w \in Worker, HumanStep(w)
    PROVE  TypeInv'
<1>1. CASE LockQuestion(w)
  BY <1>1, LockType DEF LockQuestion, Step
<1>2. CASE RefuseHuman(w)
  BY <1>2, AnswerType DEF RefuseHuman
<1>3. CASE CommitCreate(w)
  <2>1. DataOK'
    BY <1>3 DEF TypeInv, CommitCreate, DataOK, RequestOK
  <2> QED BY <1>3, <2>1, EndType DEF TypeInv, CommitCreate
<1>4. CASE CommitReject(w)
  <2>1. DataOK'
    BY <1>4 DEF TypeInv, CommitReject, DataOK
  <2> QED BY <1>4, <2>1, EndType DEF TypeInv, CommitReject
<1>5. CASE CommitFree(w)
  <2>1. DataOK'
    BY <1>5 DEF TypeInv, CommitFree, DataOK
  <2> QED BY <1>5, <2>1, EndType DEF TypeInv, CommitFree
<1> QED BY <1>1, <1>2, <1>3, <1>4, <1>5 DEF HumanStep

\* How a request begins: no row is locked, and its input fits its operation.
Fits(r, i, s) ==
    /\ r.op \in AgentOp => r.client \in Client
    /\ r.op = "save" => r.digest \in Digest
    /\ r.op = "claim" => s = "client"
    /\ s = "wait" => i \in Item

\* What a request that starts is, operation by operation.
LEMMA StartShape ==
    ASSUME TypeInv, NEW w \in Worker, Start(w)
    PROVE  \E r \in Request, i \in Item \cup {0}, s \in {"client", "find", "wait"} :
              Fits(r, i, s) /\ Begin(w, r, i, s)
<1>1. ASSUME NEW c \in Client, StartClaim(w, c)
      PROVE  \E r \in Request : Fits(r, 0, "client") /\ Begin(w, r, 0, "client")
  <2>1. [NoRequest EXCEPT !.op = "claim", !.client = c, !.at = now] \in Request
    BY DEF TypeInv, DataOK, NoRequest, Request, AgentOp
  <2>2. Fits([NoRequest EXCEPT !.op = "claim", !.client = c, !.at = now], 0, "client")
    BY DEF Fits, NoRequest
  <2> QED BY <1>1, <2>1, <2>2 DEF StartClaim
<1>2. ASSUME NEW c \in Client, NEW n \in 1..issued, StartRelease(w, c, n)
      PROVE  \E r \in Request, i \in Item : Fits(r, i, "wait") /\ Begin(w, r, i, "wait")
  <2>1. n \in Nat /\ now \in Nat
    BY DEF TypeInv, DataOK
  <2>2. [NoRequest EXCEPT !.op = "release", !.client = c, !.claim = n, !.at = now]
           \in Request
    BY <2>1 DEF NoRequest, Request, AgentOp
  <2>3. PICK k \in claims :
           Begin(w, [NoRequest EXCEPT !.op = "release", !.client = c,
                                      !.claim = n, !.at = now], k.item, "wait")
    BY <1>2 DEF StartRelease, ClaimNamed
  <2>4. k.item \in Item
    BY DEF TypeInv, DataOK, Claim
  <2>5. Fits([NoRequest EXCEPT !.op = "release", !.client = c, !.claim = n, !.at = now],
             k.item, "wait")
    BY <2>4 DEF Fits, NoRequest
  <2> QED BY <2>2, <2>3, <2>4, <2>5
<1>3. ASSUME NEW c \in Client, NEW n \in 1..issued, NEW d \in Digest,
             StartSave(w, c, n, d)
      PROVE  \E r \in Request : Fits(r, 0, "find") /\ Begin(w, r, 0, "find")
  <2>1. [op |-> "save", client |-> c, claim |-> n, digest |-> d, at |-> now] \in Request
    BY DEF TypeInv, DataOK, Request, AgentOp
  <2>2. Fits([op |-> "save", client |-> c, claim |-> n, digest |-> d, at |-> now],
             0, "find")
    BY DEF Fits
  <2> QED BY <1>3, <2>1, <2>2 DEF StartSave
<1>4. ASSUME NEW op \in HumanOp, NEW i \in Item, StartHuman(w, op, i)
      PROVE  \E r \in Request : Fits(r, i, "wait") /\ Begin(w, r, i, "wait")
  <2>1. [NoRequest EXCEPT !.op = op, !.at = now] \in Request
    BY DEF TypeInv, DataOK, NoRequest, Request
  <2>2. Fits([NoRequest EXCEPT !.op = op, !.at = now], i, "wait")
    BY DEF Fits, NoRequest, HumanOp, AgentOp
  <2> QED BY <1>4, <2>1, <2>2 DEF StartHuman
<1> QED BY <1>1, <1>2, <1>3, <1>4 DEF Start

\* So every start leaves the requests well typed.
LEMMA StartType ==
    ASSUME TypeInv, NEW w \in Worker, Start(w)
    PROVE  TypeInv'
<1>1. PICK r \in Request, i \in Item \cup {0}, s \in {"client", "find", "wait"} :
              Fits(r, i, s) /\ Begin(w, r, i, s)
  BY StartShape
<1>2. DataOK'
  BY <1>1 DEF TypeInv, DataOK, Begin, data
<1> QED BY <1>1, <1>2, BeginType DEF TypeInv, Fits, Step

\* Every step preserves the types.
LEMMA NextType == TypeInv /\ [Next]_vars => TypeInv'
<1> SUFFICES ASSUME TypeInv, [Next]_vars PROVE TypeInv'
  OBVIOUS
<1>1. ASSUME NEW w \in Worker, Progress(w) PROVE TypeInv'
  <2>1. CASE ReferToClient(w)
    <3>1. target[w] \in Item
      BY <2>1 DEF TypeInv, RequestOK, ReferToClient
    <3>2. DataOK' /\ req' = req /\ seen' \in [Worker -> SUBSET Item]
          /\ rows' \in [Worker -> SUBSET Item] /\ Goto(w, "commit")
          /\ target' = [target EXCEPT ![w] = target[w]]
      BY <2>1, <3>1 DEF TypeInv, ReferToClient, DataOK, WorkOK, data
    <3> QED BY <3>1, <3>2, GotoType DEF TypeInv, Step
  <2> QED BY <1>1, <2>1, ClaimType, SaveType, ReleaseType, HumanType DEF Progress
<1>2. ASSUME NEW w \in Worker, BreakDeadlock(w) \/ Abort(w) PROVE TypeInv'
  BY <1>2, AnswerType DEF BreakDeadlock, Abort
<1>3. ASSUME NEW batch \in SUBSET Item, Suggest(batch) PROVE TypeInv'
  BY <1>3 DEF TypeInv, Suggest, DataOK, WorkOK, RequestOK
<1>4. ASSUME NEW c \in Client, RevokeClient(c) PROVE TypeInv'
  BY <1>4 DEF TypeInv, RevokeClient, DataOK, WorkOK, RequestOK
<1>5. ASSUME NEW c \in Client, NEW n \in 1..issued, NEW d \in Digest,
             RepeatSave(c, n, d)
      PROVE  TypeInv'
  BY <1>5 DEF TypeInv, RepeatSave, SaysSaved, DataOK, WorkOK, RequestOK, Save
<1>6. CASE Tick
  BY <1>6 DEF TypeInv, Tick, data, DataOK, WorkOK, RequestOK
<1>7. CASE UNCHANGED vars
  BY <1>7 DEF TypeInv, vars, DataOK, WorkOK, RequestOK
<1> QED BY <1>1, <1>2, <1>3, <1>4, <1>5, <1>6, <1>7, StartType DEF Next

\* So they hold always.
LEMMA TypeInvariant == Spec => []TypeInv
BY InitType, NextType, PTL DEF Spec

\* Every variable keeps its type: in particular no claim, completion or request ever
\* stands without the client and the question its row refers to.
THEOREM TypeCorrect == Spec => []TypeOK
<1>1. TypeInv => TypeOK
  BY DEF TypeInv, TypeOK
<1> QED BY <1>1, TypeInvariant, PTL

-----------------------------------------------------------------------------
(* The inductive invariant: what the row locks of the requests guarantee.   *)

\* A locked row cannot be deleted or locked twice; a request past its checks has the
\* row of its question.
Locks ==
    \A w \in Worker :
       /\ rows[w] \subseteq queue
       /\ \A v \in Worker : v # w => rows[v] \cap rows[w] = {}
       /\ step[w] \in {"reference", "commit"} => target[w] \in rows[w]
       /\ step[w] = "reference" => req[w].op \in {"save", "release"}

\* A claim_next that has its client's row is alone with it: the client stays active,
\* and the only claim of the client is the one it waits for or has found expired.
Clients ==
    \A w \in Worker :
       HoldsClient(w, req[w].client) =>
          /\ req[w].client \in active
          /\ \A v \in Worker \ {w} : ~HoldsClient(v, req[w].client)
          /\ \A k \in claims :
                k.client = req[w].client =>
                   IF step[w] = "wait"
                     THEN k.item = target[w]
                     ELSE k.item \in rows[w] /\ ~Live(k, req[w].at)

\* A save past its checks still has its claim.
Saving ==
    \A w \in Worker :
       req[w].op = "save" /\ step[w] \in {"reference", "commit"} =>
          \E k \in claims : /\ k.id = req[w].claim /\ k.client = req[w].client
                            /\ k.item = target[w]

\* Claim identifiers are given out once.
Ids ==
    /\ \A k \in claims : k.id <= issued
    /\ \A k, l \in claims : k.id = l.id => k = l
    /\ \A d \in completions : d.claim <= issued

\* Nothing was made of a question nobody asked.
History ==
    /\ queue \subseteq asked
    /\ \A i \in Item \ asked : made[i] = 0

IInv ==
    /\ Locks /\ Clients /\ Saving /\ Ids /\ History
    /\ OneItemPerQuestion /\ LeasesAreExclusive /\ RevokedHoldsNothing
    /\ CompletionIsFinal /\ ToldWhatIsStored

-----------------------------------------------------------------------------
(* Locks.                                                                   *)

\* A request that ends gives up its locks.
LEMMA LocksEnd ==
    ASSUME TypeInv, Locks, NEW w \in Worker, End(w), queue \ rows[w] \subseteq queue'
    PROVE  Locks'
BY DEF TypeInv, WorkOK, Locks, End

\* A request that goes on and locks the free rows S.
LEMMA LocksGoto ==
    ASSUME TypeInv, Locks, NEW w \in Worker, NEW s \in Step, Goto(w, s), req' = req,
           queue' = queue,
           NEW S \in SUBSET queue, \A i \in S : RowFree(w, i), Lock(w, S),
           NEW i \in Item \cup {0}, target' = [target EXCEPT ![w] = i],
           s \in {"reference", "commit"} => i \in rows[w] \cup S,
           s = "reference" => req[w].op \in {"save", "release"}
    PROVE  Locks'
<1>1. \A v \in Worker : v # w => rows[v] \cap S = {}
  BY DEF RowFree
<1>2. \A v \in Worker : rows'[v] = IF v = w THEN rows[w] \cup S ELSE rows[v]
  BY DEF TypeInv, WorkOK, Lock
<1>3. \A v \in Worker : /\ step'[v] = IF v = w THEN s ELSE step[v]
                        /\ target'[v] = IF v = w THEN i ELSE target[v]
  BY DEF TypeInv, WorkOK, Goto
<1> QED BY <1>1, <1>2, <1>3 DEF Locks

\* No two requests ever hold the lock of one queue row.
LEMMA LocksStep == TypeInv /\ Locks /\ LeasesAreExclusive /\ [Next]_vars => Locks'
<1> SUFFICES ASSUME TypeInv, Locks, LeasesAreExclusive, [Next]_vars PROVE Locks'
  OBVIOUS
<1>1. ASSUME NEW w \in Worker, Answer(w) PROVE Locks'
  BY <1>1, LocksEnd DEF Answer, data
<1>2. ASSUME NEW w \in Worker, Start(w) PROVE Locks'
  <2>1. PICK r \in Request, i \in Item \cup {0}, s \in {"client", "find", "wait"} :
           Begin(w, r, i, s)
    BY <1>2, StartShape
  <2> QED BY <2>1 DEF TypeInv, WorkOK, Locks, Begin, Goto, data
<1>3. ASSUME NEW w \in Worker, ClaimStep(w) PROVE Locks'
  <2>1. CASE LockClient(w)
    BY <1>3, <2>1 DEF TypeInv, WorkOK, Locks, LockClient, FindOwned, Goto, data
  <2>2. CASE DropOwned(w)
    <3>1. \A i \in {target[w]} \cap queue : RowFree(w, i)
      BY <2>2 DEF DropOwned
    <3>2. /\ {target[w]} \cap queue \in SUBSET queue
          /\ Goto(w, "pick") /\ Lock(w, {target[w]} \cap queue)
          /\ target' = [target EXCEPT ![w] = 0]
          /\ UNCHANGED <<req, queue>>
      BY <2>2 DEF DropOwned, data
    <3> QED BY <3>1, <3>2, LocksGoto DEF Step
  <2>3. CASE ReadCandidates(w)
    BY <2>3 DEF TypeInv, WorkOK, Locks, ReadCandidates, Goto, data
  <2>4. CASE TakeOldest(w)
    <3>1. \A i \in Lockable(w) : RowFree(w, i) /\ i \in queue
      BY DEF Lockable
    <3>2. PICK i \in Lockable(w) : target' = [target EXCEPT ![w] = i]
      BY <2>4 DEF TakeOldest
    <3>3. i \in Item \cup {0}
      BY <3>1 DEF TypeInv, DataOK
    <3>4. Goto(w, "commit") /\ Lock(w, Lockable(w)) /\ UNCHANGED <<req, queue>>
      BY <2>4 DEF TakeOldest, data
    <3> QED BY <3>1, <3>2, <3>3, <3>4, LocksGoto DEF Step
  <2>5. CASE CommitClaim(w)
    BY <2>5, LocksEnd DEF CommitClaim
  <2> QED BY <1>1, <1>3, <2>1, <2>2, <2>3, <2>4, <2>5
          DEF ClaimStep, DenyClaim, ReturnOwned, ReportEmpty, RejectClaim
\* A request that locks the row of its target.
<1>4. ASSUME NEW w \in Worker, NEW s \in {"reference", "commit"},
             RowFree(w, target[w]), target[w] \in queue, Goto(w, s),
             Lock(w, {target[w]}), UNCHANGED <<queue, req, target>>,
             s = "reference" => req[w].op \in {"save", "release"}
      PROVE  Locks'
  <2>1. target' = [target EXCEPT ![w] = target[w]] /\ target[w] \in Item \cup {0}
    BY <1>4 DEF TypeInv, WorkOK
  <2>2. /\ {target[w]} \in SUBSET queue
        /\ \A i \in {target[w]} : RowFree(w, i)
        /\ target[w] \in rows[w] \cup {target[w]}
    BY <1>4
  <2>3. s \in Step /\ queue' = queue /\ req' = req
    BY <1>4 DEF Step
  <2> QED BY <1>4, <2>1, <2>2, <2>3, LocksGoto
<1>5. ASSUME NEW w \in Worker, SaveStep(w) PROVE Locks'
  <2>1. CASE FindClaim(w)
    BY <2>1 DEF TypeInv, WorkOK, Locks, FindClaim, Goto, data
  <2>2. CASE LockClaim(w)
    <3>1. target[w] \in queue
      BY <2>2 DEF LockClaim, Completable, Held, ClaimNamed, LeasesAreExclusive
    <3> QED BY <2>2, <3>1, <1>4 DEF LockClaim, data
  <2>3. CASE ReplaySave(w)
    BY <2>3, LocksEnd DEF ReplaySave
  <2>4. CASE CommitSave(w)
    BY <2>4, LocksEnd DEF CommitSave, Locks
  <2> QED BY <1>1, <1>5, <2>1, <2>2, <2>3, <2>4
          DEF SaveStep, ConflictSave, ClaimNotFound
<1>6. ASSUME NEW w \in Worker, ReleaseStep(w) PROVE Locks'
  <2>1. CASE LockReleased(w)
    <3>1. target[w] \in queue
      BY <2>1 DEF LockReleased, Completable, Held, ClaimNamed, LeasesAreExclusive
    <3> QED BY <2>1, <3>1, <1>4 DEF LockReleased, data
  <2>2. CASE CommitRelease(w)
    BY <2>2, LocksEnd DEF CommitRelease
  <2> QED BY <1>1, <1>6, <2>1, <2>2 DEF ReleaseStep, ReleaseNotFound
<1>7. ASSUME NEW w \in Worker, HumanStep(w) PROVE Locks'
  <2>1. CASE LockQuestion(w)
    BY <2>1, <1>4 DEF LockQuestion, data
  <2>2. CASE CommitCreate(w)
    BY <2>2, LocksEnd DEF CommitCreate, Locks
  <2>3. CASE CommitReject(w)
    BY <2>3, LocksEnd DEF CommitReject, Locks
  <2>4. CASE CommitFree(w)
    BY <2>4, LocksEnd DEF CommitFree
  <2> QED BY <1>1, <1>7, <2>1, <2>2, <2>3, <2>4 DEF HumanStep, RefuseHuman
<1>8. ASSUME NEW w \in Worker, ReferToClient(w) PROVE Locks'
  BY <1>8 DEF TypeInv, WorkOK, Locks, ReferToClient, Goto, data
<1>9. ASSUME NEW batch \in SUBSET Item, Suggest(batch) PROVE Locks'
  BY <1>9 DEF Locks, Suggest
<1>10. ASSUME UNCHANGED <<queue, step, req, target, rows>> PROVE Locks'
  BY <1>10 DEF Locks
<1>11. ASSUME NEW c \in Client, RevokeClient(c) PROVE Locks'
  BY <1>10, <1>11 DEF RevokeClient
<1>12. ASSUME NEW c \in Client, NEW n \in 1..issued, NEW d \in Digest,
              RepeatSave(c, n, d)
       PROVE  Locks'
  BY <1>10, <1>12 DEF RepeatSave
<1>13. CASE Tick
  BY <1>10, <1>13 DEF Tick, data
<1>14. CASE UNCHANGED vars
  BY <1>10, <1>14 DEF vars
<1> QED BY <1>1, <1>2, <1>3, <1>5, <1>6, <1>7, <1>8, <1>9, <1>11, <1>12, <1>13, <1>14
        DEF Next, Progress, BreakDeadlock, Abort

-----------------------------------------------------------------------------
(* Clients.                                                                 *)

\* A request that ends; new claims are for the client whose row it holds.
LEMMA ClientsEnd ==
    ASSUME TypeInv, Clients, NEW w \in Worker, End(w), active' = active,
           \A k \in claims' \ claims : HoldsClient(w, k.client)
    PROVE  Clients'
<1>1. \A v \in Worker : v # w => /\ step'[v] = step[v] /\ req'[v] = req[v]
                                 /\ target'[v] = target[v] /\ rows'[v] = rows[v]
  BY DEF TypeInv, WorkOK, End
<1>2. \A c : ~HoldsClient(w, c)'
  BY DEF TypeInv, WorkOK, End, HoldsClient, NoRequest
<1>3. \A v \in Worker : \A c : v # w => (HoldsClient(v, c)' <=> HoldsClient(v, c))
  BY <1>1 DEF HoldsClient
<1>4. SUFFICES ASSUME NEW v \in Worker, HoldsClient(v, req[v].client), v # w
               PROVE  /\ req[v].client \in active
                      /\ \A u \in Worker \ {v} : ~HoldsClient(u, req[v].client)'
                      /\ \A k \in claims' :
                            k.client = req[v].client =>
                               IF step[v] = "wait"
                                 THEN k.item = target[v]
                                 ELSE k.item \in rows[v] /\ ~Live(k, req[v].at)
  BY <1>1, <1>2, <1>3 DEF Clients, Live
<1>5. \A u \in Worker \ {v} : ~HoldsClient(u, req[v].client)
  BY <1>4 DEF Clients
<1>6. \A k \in claims' : k.client = req[v].client => k \in claims
  BY <1>4, <1>5
<1> QED BY <1>1, <1>2, <1>3, <1>4, <1>5, <1>6 DEF Clients

\* A request that goes on and is no claim_next.
LEMMA ClientsGoto ==
    ASSUME TypeInv, Clients, NEW w \in Worker, NEW s \in Step, Goto(w, s),
           req[w].op # "claim", UNCHANGED <<req, claims, active>>,
           \A v \in Worker \ {w} : rows'[v] = rows[v] /\ target'[v] = target[v]
    PROVE  Clients'
<1>1. \A v \in Worker : v # w => step'[v] = step[v]
  BY DEF TypeInv, WorkOK, Goto
<1>2. \A v \in Worker : \A c : HoldsClient(v, c)' <=> HoldsClient(v, c)
  BY <1>1 DEF HoldsClient
<1> QED BY <1>1, <1>2 DEF Clients, HoldsClient, Live

\* A claim_next holds its client's row from its first read to its commit.
LEMMA ClientsClaim ==
    ASSUME TypeInv, Clients, LeasesAreExclusive, NEW w \in Worker, ClaimStep(w)
    PROVE  Clients'
<1>1. CASE LockClient(w)
  <2>1. /\ \A v \in Worker : rows'[v] = rows[v] /\ req'[v] = req[v]
        /\ \A v \in Worker : v # w => step'[v] = step[v] /\ target'[v] = target[v]
        /\ UNCHANGED <<claims, active>>
    BY <1>1 DEF TypeInv, WorkOK, LockClient, FindOwned, Goto, data
  <2>2. /\ req[w].client \in active
        /\ \A v \in Worker \ {w} : ~HoldsClient(v, req[w].client)
    BY <1>1 DEF LockClient, ClientFree
  <2>3. \A v \in Worker : \A c : v # w => (HoldsClient(v, c)' <=> HoldsClient(v, c))
    BY <2>1 DEF HoldsClient
  <2>4. \A c : HoldsClient(w, c)' => c = req[w].client
    BY <2>1 DEF HoldsClient
  <2>5. \A k \in claims : k.client = req[w].client =>
           step'[w] = "wait" /\ k.item = target'[w]
    <3>1. CASE ClaimsOf(req[w].client) = {}
      BY <3>1 DEF ClaimsOf
    <3>2. CASE \E k \in ClaimsOf(req[w].client) :
                  target' = [target EXCEPT ![w] = k.item] /\ Goto(w, "wait")
      BY <3>2 DEF ClaimsOf, LeasesAreExclusive, TypeInv, WorkOK, Goto
    <3> QED BY <1>1, <3>1, <3>2 DEF LockClient, FindOwned
  <2>6. ASSUME NEW v \in Worker, v # w, HoldsClient(v, req[v].client)
        PROVE  \A u \in Worker \ {v} : ~HoldsClient(u, req[v].client)'
    <3>1. req[v].client # req[w].client
      BY <2>2, <2>6
    <3> QED BY <2>1, <2>3, <2>4, <2>6, <3>1 DEF Clients
  <2>7. \A v \in Worker : v # w /\ HoldsClient(v, req[v].client)' =>
           /\ req'[v].client \in active'
           /\ \A u \in Worker \ {v} : ~HoldsClient(u, req[v].client)'
           /\ \A k \in claims' :
                 k.client = req'[v].client =>
                    IF step'[v] = "wait"
                      THEN k.item = target'[v]
                      ELSE k.item \in rows'[v] /\ ~Live(k, req[v].at)
    BY <2>1, <2>3, <2>6 DEF Clients
  <2> QED BY <2>1, <2>2, <2>3, <2>5, <2>7 DEF Clients, Live
\* A claim_next that holds its client and goes on.
<1>2. ASSUME NEW s \in Step, Goto(w, s), HoldsClient(w, req[w].client), s # "wait",
             UNCHANGED <<req, claims, active>>,
             \A v \in Worker \ {w} : rows'[v] = rows[v] /\ target'[v] = target[v],
             \A k \in claims : k.client = req[w].client =>
                                  k.item \in rows'[w] /\ ~Live(k, req[w].at)
      PROVE  Clients'
  <2>1. /\ \A v \in Worker : v # w => step'[v] = step[v]
        /\ step'[w] # "wait"
    BY <1>2 DEF TypeInv, WorkOK, Goto
  <2>2. \A v \in Worker : \A c : HoldsClient(v, c)' => HoldsClient(v, c)
    BY <1>2, <2>1 DEF HoldsClient
  <2> QED BY <1>2, <2>1, <2>2 DEF Clients, Live
<1>3. CASE DropOwned(w)
  <2>1. HoldsClient(w, req[w].client)
    BY <1>3 DEF DropOwned, HoldsClient
  <2>2. \A k \in claims : k.client = req[w].client =>
           k.item = target[w] /\ ~Live(k, req[w].at) /\ k.item \in queue
    BY <1>3, <2>1 DEF Clients, DropOwned, ClaimsOf, LeasesAreExclusive
  <2>3. /\ \A v \in Worker \ {w} : rows'[v] = rows[v] /\ target'[v] = target[v]
        /\ rows'[w] = rows[w] \cup ({target[w]} \cap queue)
        /\ Goto(w, "pick") /\ UNCHANGED <<req, claims, active>>
    BY <1>3 DEF DropOwned, Lock, TypeInv, WorkOK, data
  <2>4. \A k \in claims : k.client = req[w].client =>
                             k.item \in rows'[w] /\ ~Live(k, req[w].at)
    BY <2>2, <2>3
  <2> QED BY <1>2, <2>1, <2>3, <2>4 DEF Step
<1>4. CASE ReadCandidates(w) \/ TakeOldest(w)
  <2>1. HoldsClient(w, req[w].client) /\ step[w] # "wait"
    BY <1>4 DEF ReadCandidates, TakeOldest, HoldsClient
  <2>2. /\ \A v \in Worker \ {w} : rows'[v] = rows[v] /\ target'[v] = target[v]
        /\ rows[w] \subseteq rows'[w]
        /\ UNCHANGED <<req, claims, active>>
    BY <1>4 DEF ReadCandidates, TakeOldest, Lock, TypeInv, WorkOK, data
  <2>3. \E s \in {"take", "commit"} : Goto(w, s)
    BY <1>4 DEF ReadCandidates, TakeOldest
  <2>4. \A k \in claims : k.client = req[w].client =>
                             k.item \in rows'[w] /\ ~Live(k, req[w].at)
    BY <2>1, <2>2 DEF Clients
  <2> QED BY <1>2, <2>1, <2>2, <2>3, <2>4 DEF Step
<1>5. CASE CommitClaim(w)
  <2>1. HoldsClient(w, req[w].client)
    BY <1>5 DEF CommitClaim, HoldsClient
  <2> QED BY <1>5, <2>1, ClientsEnd DEF CommitClaim
<1>6. CASE Answer(w)
  BY <1>6, ClientsEnd DEF Answer, data
<1> QED BY <1>1, <1>3, <1>4, <1>5, <1>6
        DEF ClaimStep, DenyClaim, ReturnOwned, ReportEmpty, RejectClaim

\* Every other step leaves what a claim_next has read of its client true.
LEMMA ClientsStep ==
    TypeInv /\ Locks /\ Clients /\ LeasesAreExclusive /\ [Next]_vars => Clients'
<1> SUFFICES ASSUME TypeInv, Locks, Clients, LeasesAreExclusive, [Next]_vars
             PROVE  Clients'
  OBVIOUS
<1>1. ASSUME NEW w \in Worker, End(w), active' = active, claims' \subseteq claims
      PROVE  Clients'
  BY <1>1, ClientsEnd
<1>2. ASSUME NEW w \in Worker, Start(w) PROVE Clients'
  <2>1. PICK r \in Request, i \in Item \cup {0}, s \in {"client", "find", "wait"} :
           Fits(r, i, s) /\ Begin(w, r, i, s)
    BY <1>2, StartShape
  <2>2. /\ \A v \in Worker : /\ rows'[v] = rows[v]
                             /\ v # w => /\ step'[v] = step[v] /\ req'[v] = req[v]
                                         /\ target'[v] = target[v]
        /\ req'[w] = r /\ step'[w] = s
        /\ UNCHANGED <<claims, active>>
    BY <2>1 DEF TypeInv, WorkOK, Begin, Goto, data
  <2>3. \A c : ~HoldsClient(w, c)'
    BY <2>1, <2>2 DEF HoldsClient, Fits
  <2>4. \A v \in Worker : \A c : v # w => (HoldsClient(v, c)' <=> HoldsClient(v, c))
    BY <2>2 DEF HoldsClient
  <2> QED BY <2>2, <2>3, <2>4 DEF Clients, Live
<1>3. ASSUME NEW w \in Worker, SaveStep(w) PROVE Clients'
  <2>1. CASE FindClaim(w)
    BY <2>1, ClientsGoto DEF FindClaim, TypeInv, WorkOK, Step, data
  <2>2. CASE LockClaim(w)
    BY <2>2, ClientsGoto DEF LockClaim, Lock, TypeInv, WorkOK, Step, data
  <2>3. CASE ReplaySave(w) \/ ConflictSave(w) \/ ClaimNotFound(w) \/ CommitSave(w)
    BY <1>1, <2>3 DEF ReplaySave, ConflictSave, ClaimNotFound, CommitSave, Answer, data
  <2> QED BY <1>3, <2>1, <2>2, <2>3 DEF SaveStep
<1>4. ASSUME NEW w \in Worker, ReleaseStep(w) PROVE Clients'
  <2>1. CASE LockReleased(w)
    BY <2>1, ClientsGoto DEF LockReleased, Lock, TypeInv, WorkOK, Step, data
  <2>2. CASE ReleaseNotFound(w) \/ CommitRelease(w)
    BY <1>1, <2>2 DEF ReleaseNotFound, CommitRelease, Answer, data
  <2> QED BY <1>4, <2>1, <2>2 DEF ReleaseStep
<1>5. ASSUME NEW w \in Worker, HumanStep(w) PROVE Clients'
  <2>1. CASE LockQuestion(w)
    BY <2>1, ClientsGoto DEF LockQuestion, HumanOp, Lock, TypeInv, WorkOK, Step, data
  <2>2. CASE RefuseHuman(w) \/ CommitCreate(w) \/ CommitReject(w) \/ CommitFree(w)
    BY <1>1, <2>2 DEF RefuseHuman, CommitCreate, CommitReject, CommitFree, Answer, data
  <2> QED BY <1>5, <2>1, <2>2 DEF HumanStep
<1>6. ASSUME NEW w \in Worker, ReferToClient(w) PROVE Clients'
  BY <1>6, ClientsGoto DEF ReferToClient, Locks, Step, data
<1>7. ASSUME NEW w \in Worker, BreakDeadlock(w) \/ Abort(w) PROVE Clients'
  BY <1>1, <1>7 DEF BreakDeadlock, Abort, Answer, data
<1>8. ASSUME NEW c \in Client, RevokeClient(c) PROVE Clients'
  <2>1. \A v \in Worker : \A e : HoldsClient(v, e)' <=> HoldsClient(v, e)
    BY <1>8 DEF RevokeClient, HoldsClient
  <2> QED BY <1>8, <2>1 DEF Clients, RevokeClient, Live
<1>9. ASSUME UNCHANGED <<active, claims, step, req, target, rows>> PROVE Clients'
  <2>1. \A v \in Worker : \A e : HoldsClient(v, e)' <=> HoldsClient(v, e)
    BY <1>9 DEF HoldsClient
  <2> QED BY <1>9, <2>1 DEF Clients, Live
<1>10. ASSUME NEW batch \in SUBSET Item, Suggest(batch) PROVE Clients'
  BY <1>9, <1>10 DEF Suggest
<1>11. ASSUME NEW c \in Client, NEW n \in 1..issued, NEW d \in Digest,
              RepeatSave(c, n, d)
       PROVE  Clients'
  BY <1>9, <1>11 DEF RepeatSave
<1>12. CASE Tick
  BY <1>9, <1>12 DEF Tick, data
<1>13. CASE UNCHANGED vars
  BY <1>9, <1>13 DEF vars
<1> QED BY <1>2, <1>3, <1>4, <1>5, <1>6, <1>7, <1>8, <1>10, <1>11, <1>12, <1>13,
           ClientsClaim
        DEF Next, Progress

-----------------------------------------------------------------------------
(* Saving.                                                                  *)

\* A request that ends and deletes claims only on questions whose rows it locked.
LEMMA SavingEnd ==
    ASSUME TypeInv, Locks, Saving, NEW w \in Worker, End(w),
           \A k \in claims \ claims' : k.item \in rows[w]
    PROVE  Saving'
<1>1. \A v \in Worker : v # w => /\ step'[v] = step[v] /\ req'[v] = req[v]
                                 /\ target'[v] = target[v]
  BY DEF TypeInv, WorkOK, End
<1>2. req'[w].op = "none"
  BY DEF TypeInv, WorkOK, End, NoRequest
<1>3. ASSUME NEW v \in Worker, v # w, req[v].op = "save",
             step[v] \in {"reference", "commit"}
      PROVE  \E k \in claims' : /\ k.id = req[v].claim /\ k.client = req[v].client
                                /\ k.item = target[v]
  <2>1. PICK k \in claims : /\ k.id = req[v].claim /\ k.client = req[v].client
                            /\ k.item = target[v]
    BY <1>3 DEF Saving
  <2>2. k.item \notin rows[w]
    BY <1>3, <2>1 DEF Locks
  <2> QED BY <2>1, <2>2
<1> QED BY <1>1, <1>2, <1>3 DEF Saving

\* A request that goes on, with its claim if it is a save past its checks.
LEMMA SavingGoto ==
    ASSUME TypeInv, Saving, NEW w \in Worker, NEW s \in Step, Goto(w, s),
           UNCHANGED <<req, claims>>,
           \A v \in Worker \ {w} : target'[v] = target[v],
           req[w].op = "save" /\ s \in {"reference", "commit"} =>
              \E k \in claims : /\ k.id = req[w].claim /\ k.client = req[w].client
                                /\ k.item = target'[w]
    PROVE  Saving'
<1>1. \A v \in Worker : step'[v] = IF v = w THEN s ELSE step[v]
  BY DEF TypeInv, WorkOK, Goto
<1> QED BY <1>1 DEF Saving

\* A save past its checks keeps its claim until it ends.
LEMMA SavingStep == TypeInv /\ Locks /\ Clients /\ Saving /\ [Next]_vars => Saving'
<1> SUFFICES ASSUME TypeInv, Locks, Clients, Saving, [Next]_vars PROVE Saving'
  OBVIOUS
<1>1. ASSUME NEW w \in Worker, Answer(w) PROVE Saving'
  BY <1>1, SavingEnd DEF Answer, data
<1>2. ASSUME NEW w \in Worker, Start(w) PROVE Saving'
  <2>1. PICK r \in Request, i \in Item \cup {0}, s \in {"client", "find", "wait"} :
           Begin(w, r, i, s)
    BY <1>2, StartShape
  <2> QED BY <2>1 DEF TypeInv, WorkOK, Saving, Begin, Goto, data
<1>3. ASSUME NEW w \in Worker, ClaimStep(w) PROVE Saving'
  <2>1. CASE LockClient(w)
    BY <2>1 DEF TypeInv, WorkOK, Saving, LockClient, FindOwned, Goto, data
  <2>2. CASE DropOwned(w) \/ ReadCandidates(w) \/ TakeOldest(w)
    BY <2>2 DEF TypeInv, WorkOK, Saving, DropOwned, ReadCandidates, TakeOldest, Goto, data
  <2>3. CASE CommitClaim(w)
    <3>1. \A k \in claims : k.client = req[w].client => k.item \in rows[w]
      BY <2>3 DEF Clients, HoldsClient, CommitClaim
    <3>2. target[w] \in rows[w]
      BY <2>3 DEF Locks, CommitClaim
    <3>3. \A k \in claims \ claims' : k.item \in rows[w]
      BY <2>3, <3>1, <3>2 DEF CommitClaim, Expired
    <3> QED BY <2>3, <3>3, SavingEnd DEF CommitClaim
  <2> QED BY <1>1, <1>3, <2>1, <2>2, <2>3
          DEF ClaimStep, DenyClaim, ReturnOwned, ReportEmpty, RejectClaim
<1>4. ASSUME NEW w \in Worker, SaveStep(w) PROVE Saving'
  <2>1. CASE FindClaim(w)
    BY <2>1, SavingGoto DEF FindClaim, TypeInv, WorkOK, Step, data
  <2>2. CASE LockClaim(w)
    BY <2>2, SavingGoto DEF LockClaim, Completable, Held, ClaimNamed, Step, data
  <2>3. CASE ReplaySave(w)
    BY <2>3, SavingEnd DEF ReplaySave
  <2>4. CASE CommitSave(w)
    BY <2>4, SavingEnd DEF CommitSave, Locks, ClaimsOn
  <2> QED BY <1>1, <1>4, <2>1, <2>2, <2>3, <2>4
          DEF SaveStep, ConflictSave, ClaimNotFound
<1>5. ASSUME NEW w \in Worker, ReleaseStep(w) PROVE Saving'
  <2>1. CASE LockReleased(w)
    BY <2>1, SavingGoto DEF LockReleased, Step, data
  <2>2. CASE CommitRelease(w)
    BY <2>2, SavingEnd DEF CommitRelease, Locks, Held
  <2> QED BY <1>1, <1>5, <2>1, <2>2 DEF ReleaseStep, ReleaseNotFound
<1>6. ASSUME NEW w \in Worker, HumanStep(w) PROVE Saving'
  <2>1. CASE LockQuestion(w)
    BY <2>1, SavingGoto DEF LockQuestion, HumanOp, Step, data
  <2>2. CASE CommitCreate(w) \/ CommitReject(w) \/ CommitFree(w)
    BY <2>2, SavingEnd DEF CommitCreate, CommitReject, CommitFree, Locks, ClaimsOn
  <2> QED BY <1>1, <1>6, <2>1, <2>2 DEF HumanStep, RefuseHuman
<1>7. ASSUME NEW w \in Worker, ReferToClient(w) PROVE Saving'
  BY <1>7, SavingGoto DEF ReferToClient, Saving, Step, data
<1>8. ASSUME NEW c \in Client, RevokeClient(c) PROVE Saving'
  <2>1. \A v \in Worker : step[v] \in {"reference", "commit"} =>
           \A k \in claims : k.item = target[v] => k \in claims'
    BY <1>8 DEF RevokeClient, ClaimRowLocked, ClaimsOf
  <2> QED BY <1>8, <2>1 DEF Saving, RevokeClient
<1>9. ASSUME UNCHANGED <<claims, step, req, target>> PROVE Saving'
  BY <1>9 DEF Saving
<1>10. ASSUME NEW batch \in SUBSET Item, Suggest(batch) PROVE Saving'
  BY <1>9, <1>10 DEF Suggest
<1>11. ASSUME NEW c \in Client, NEW n \in 1..issued, NEW d \in Digest,
              RepeatSave(c, n, d)
       PROVE  Saving'
  BY <1>9, <1>11 DEF RepeatSave
<1>12. CASE Tick
  BY <1>9, <1>12 DEF Tick, data
<1>13. CASE UNCHANGED vars
  BY <1>9, <1>13 DEF vars
<1> QED BY <1>1, <1>2, <1>3, <1>4, <1>5, <1>6, <1>7, <1>8, <1>10, <1>11, <1>12, <1>13
        DEF Next, Progress, BreakDeadlock, Abort

-----------------------------------------------------------------------------
(* The rows of the database.                                                *)

Rows ==
    /\ Ids /\ History
    /\ OneItemPerQuestion /\ LeasesAreExclusive /\ RevokedHoldsNothing
    /\ CompletionIsFinal /\ ToldWhatIsStored

\* Deleting claims disturbs none of it.
LEMMA RowsFewerClaims ==
    ASSUME TypeInv, Rows, claims' \subseteq claims, active' = active,
           UNCHANGED <<asked, queue, issued, made, completions, told>>
    PROVE  Rows'
BY DEF Rows, Ids, History, OneItemPerQuestion, LeasesAreExclusive,
       RevokedHoldsNothing, CompletionIsFinal, ToldWhatIsStored

\* A claim_next adds one lease, on a queued question, for a client without one.
LEMMA RowsClaim ==
    ASSUME TypeInv, Rows, Locks, Clients, NEW w \in Worker, CommitClaim(w)
    PROVE  Rows'
<1> DEFINE new == [id |-> issued + 1, client |-> req[w].client,
                   item |-> target[w], expires |-> req[w].at + TTL]
<1>1. /\ claims' = (claims \ Expired(w)) \cup {new}
      /\ issued' = issued + 1
      /\ UNCHANGED <<active, asked, queue, made, completions, told>>
  BY DEF CommitClaim
<1>2. /\ new.id = issued + 1 /\ new.client = req[w].client /\ new.item = target[w]
  OBVIOUS
<1>3. target[w] \in queue /\ req[w].client \in active
  BY DEF Locks, Clients, CommitClaim, HoldsClient
<1>4. \A k \in claims \ Expired(w) : k.client # new.client /\ k.item # new.item
  BY <1>2 DEF CommitClaim, Unique
<1> HIDE DEF new
<1>5. Ids'
  <2>1. issued \in Nat /\ \A k \in claims : k.id \in Nat
    BY DEF TypeInv, DataOK, Claim
  <2>2. \A d \in completions : d.claim \in Nat
    BY DEF TypeInv, DataOK, Completion
  <2> QED BY <1>1, <1>2, <2>1, <2>2 DEF Rows, Ids
<1>6. LeasesAreExclusive'
  BY <1>1, <1>2, <1>3, <1>4 DEF Rows, LeasesAreExclusive
<1>7. CompletionIsFinal'
  <2>1. \A d \in completions : new.id # d.claim
    BY <1>2 DEF Rows, Ids, TypeInv, DataOK, Completion
  <2> QED BY <1>1, <2>1 DEF Rows, CompletionIsFinal
<1> QED BY <1>1, <1>2, <1>3, <1>5, <1>6, <1>7
        DEF Rows, History, OneItemPerQuestion, RevokedHoldsNothing, ToldWhatIsStored

\* A question leaves the queue with its claims; n items are made of it.
LEMMA RowsResolve ==
    ASSUME TypeInv, Rows, NEW i \in queue, NEW n \in {0, 1},
           made' = [made EXCEPT ![i] = @ + n], queue' = queue \ {i},
           claims' = claims \ ClaimsOn(i),
           UNCHANGED <<active, asked, issued, completions, told>>
    PROVE  Rows'
<1>1. i \in Item /\ made[i] = 0 /\ i \in asked
  BY DEF TypeInv, DataOK, Rows, OneItemPerQuestion, History
<1>2. \A j \in Item : made'[j] = IF j = i THEN n ELSE made[j]
  BY <1>1 DEF TypeInv, DataOK
<1>3. OneItemPerQuestion' /\ History'
  BY <1>1, <1>2 DEF Rows, OneItemPerQuestion, History
<1>4. CompletionIsFinal'
  <2>1. \A d \in completions : d.item # i /\ d.item \in Item
    BY DEF Rows, CompletionIsFinal, TypeInv, DataOK, Completion
  <2> QED BY <1>2, <2>1 DEF Rows, CompletionIsFinal
<1> QED BY <1>3, <1>4 DEF Rows, Ids, LeasesAreExclusive, RevokedHoldsNothing,
                          ToldWhatIsStored, ClaimsOn

\* A save makes one item and one completion, and takes the question from the queue.
LEMMA RowsSave ==
    ASSUME TypeInv, Rows, Locks, Saving, NEW w \in Worker, CommitSave(w)
    PROVE  Rows'
<1> DEFINE done == [claim |-> req[w].claim, client |-> req[w].client,
                    item |-> target[w], digest |-> req[w].digest]
           said == [claim |-> req[w].claim, digest |-> req[w].digest]
<1>1. /\ made' = [made EXCEPT ![target[w]] = @ + 1]
      /\ completions' = completions \cup {done}
      /\ told' = told \cup {said}
      /\ claims' = claims \ ClaimsOn(target[w])
      /\ queue' = queue \ {target[w]}
      /\ UNCHANGED <<active, asked, issued>>
  BY DEF CommitSave
<1>2. target[w] \in queue /\ target[w] \in Item
  BY DEF CommitSave, Locks, TypeInv, DataOK
<1>3. PICK k \in claims : k.id = req[w].claim /\ k.item = target[w]
  BY DEF CommitSave, Saving
<1>4. /\ done.claim = k.id /\ done.item = target[w]
      /\ said.claim = done.claim /\ said.digest = done.digest
  BY <1>3
<1> HIDE DEF done, said
<1>5. made[target[w]] = 0 /\ target[w] \in asked
  BY <1>2 DEF Rows, OneItemPerQuestion, History
<1>6. \A j \in Item : made'[j] = IF j = target[w] THEN 1 ELSE made[j]
  BY <1>1, <1>2, <1>5 DEF TypeInv, DataOK
<1>7. \A d \in completions : d.claim # done.claim /\ d.item # target[w] /\ d.item \in Item
  BY <1>2, <1>3, <1>4 DEF Rows, CompletionIsFinal, TypeInv, DataOK, Completion
<1>8. Ids'
  BY <1>1, <1>4 DEF Rows, Ids
<1>9. OneItemPerQuestion' /\ History' /\ LeasesAreExclusive' /\ RevokedHoldsNothing'
  BY <1>1, <1>2, <1>5, <1>6
     DEF Rows, OneItemPerQuestion, History, LeasesAreExclusive, RevokedHoldsNothing,
         ClaimsOn
<1>10. \A l \in claims' : l.id # done.claim
  BY <1>1, <1>3, <1>4 DEF Rows, Ids, ClaimsOn
<1>11. CompletionIsFinal'
  BY <1>1, <1>2, <1>4, <1>6, <1>7, <1>10 DEF Rows, CompletionIsFinal
<1>12. ToldWhatIsStored'
  <2>1. \A t \in told : t.claim # said.claim
    BY <1>4, <1>7 DEF Rows, ToldWhatIsStored
  <2> QED BY <1>1, <1>4, <2>1 DEF Rows, ToldWhatIsStored
<1> QED BY <1>8, <1>9, <1>11, <1>12 DEF Rows

\* What an agent is told is what is stored.
LEMMA RowsSaid ==
    ASSUME TypeInv, Rows, NEW n, NEW c, NEW d, SaysSaved(n, c, d),
           UNCHANGED <<active, asked, queue, claims, issued, made, completions>>
    PROVE  Rows'
<1> DEFINE said == [claim |-> n, digest |-> d]
<1>1. told' = told \cup {said} /\ said.claim = n /\ said.digest = d
  BY DEF SaysSaved
<1>2. PICK e \in completions : e.claim = n /\ e.digest = d
  BY DEF SaysSaved, CompletionOf
<1>3. \A t \in told : t.claim = n => t = said
  <2>1. ASSUME NEW t \in told, t.claim = n PROVE t.digest = d
    BY <1>2, <2>1 DEF Rows, ToldWhatIsStored, CompletionIsFinal
  <2>2. \A t \in told : t = [claim |-> t.claim, digest |-> t.digest]
    BY DEF TypeInv, DataOK, Save
  <2> QED BY <2>1, <2>2
<1> HIDE DEF said
<1>4. ToldWhatIsStored'
  BY <1>1, <1>2, <1>3 DEF Rows, ToldWhatIsStored
<1> QED BY <1>4 DEF Rows, Ids, History, OneItemPerQuestion, LeasesAreExclusive,
                    RevokedHoldsNothing, CompletionIsFinal

\* Every step keeps what the rows say.
LEMMA RowsStep == TypeInv /\ Locks /\ Clients /\ Saving /\ Rows /\ [Next]_vars => Rows'
<1> SUFFICES ASSUME TypeInv, Locks, Clients, Saving, Rows, [Next]_vars PROVE Rows'
  OBVIOUS
<1>1. ASSUME UNCHANGED data PROVE Rows'
  BY <1>1, RowsFewerClaims DEF data
<1>2. ASSUME NEW w \in Worker, Start(w) PROVE Rows'
  BY <1>1, <1>2, StartShape DEF Begin
<1>3. ASSUME NEW w \in Worker, ClaimStep(w) PROVE Rows'
  BY <1>1, <1>3, RowsClaim
     DEF ClaimStep, LockClient, DenyClaim, ReturnOwned, DropOwned, ReadCandidates,
         TakeOldest, ReportEmpty, RejectClaim, Answer
<1>4. ASSUME NEW w \in Worker, SaveStep(w) PROVE Rows'
  BY <1>1, <1>4, RowsSave, RowsSaid
     DEF SaveStep, FindClaim, LockClaim, ReplaySave, ConflictSave, ClaimNotFound, Answer
<1>5. ASSUME NEW w \in Worker, ReleaseStep(w) PROVE Rows'
  BY <1>1, <1>5, RowsFewerClaims
     DEF ReleaseStep, LockReleased, ReleaseNotFound, CommitRelease, Answer
<1>6. ASSUME NEW w \in Worker, HumanStep(w) PROVE Rows'
  <2>1. CASE CommitCreate(w)
    <3>1. target[w] \in queue
      BY <2>1 DEF CommitCreate, Locks
    <3> QED BY <2>1, <3>1, RowsResolve DEF CommitCreate
  <2>2. CASE CommitReject(w)
    <3>1. target[w] \in queue
      BY <2>2 DEF CommitReject, Locks
    <3>2. made' = [made EXCEPT ![target[w]] = @ + 0]
      BY <2>2 DEF CommitReject, TypeInv, DataOK
    <3> QED BY <2>2, <3>1, <3>2, RowsResolve DEF CommitReject
  <2>3. CASE CommitFree(w)
    BY <2>3, RowsFewerClaims DEF CommitFree
  <2> QED BY <1>1, <1>6, <2>1, <2>2, <2>3
          DEF HumanStep, LockQuestion, RefuseHuman, Answer
<1>7. ASSUME NEW w \in Worker, ReferToClient(w) \/ BreakDeadlock(w) \/ Abort(w)
      PROVE  Rows'
  BY <1>1, <1>7 DEF ReferToClient, BreakDeadlock, Abort, Answer
<1>8. ASSUME NEW batch \in SUBSET Item, Suggest(batch) PROVE Rows'
  <2>1. batch \cap asked = {} /\ asked \subseteq Item /\ Item \subseteq Nat
    BY <1>8, QueueAssumption DEF Suggest, TypeInv, DataOK
  <2>2. \A i \in batch : made[i] = 0 /\ \A d \in completions : d.item # i
    BY <2>1 DEF Rows, History, CompletionIsFinal
  <2> QED BY <1>8, <2>2
          DEF Suggest, Rows, Ids, History, OneItemPerQuestion, LeasesAreExclusive,
              RevokedHoldsNothing, CompletionIsFinal, ToldWhatIsStored
<1>9. ASSUME NEW c \in Client, RevokeClient(c) PROVE Rows'
  BY <1>9 DEF RevokeClient, ClaimsOf, Rows, Ids, History, OneItemPerQuestion,
              LeasesAreExclusive, RevokedHoldsNothing, CompletionIsFinal,
              ToldWhatIsStored
<1>10. ASSUME NEW c \in Client, NEW n \in 1..issued, NEW d \in Digest,
              RepeatSave(c, n, d)
       PROVE  Rows'
  BY <1>10, RowsSaid DEF RepeatSave
<1>11. CASE Tick
  BY <1>1, <1>11 DEF Tick
<1>12. CASE UNCHANGED vars
  BY <1>1, <1>12 DEF vars, data
<1> QED BY <1>2, <1>3, <1>4, <1>5, <1>6, <1>7, <1>8, <1>9, <1>10, <1>11, <1>12
        DEF Next, Progress

-----------------------------------------------------------------------------
(* The theorems.                                                            *)

\* The invariant holds initially.
LEMMA InitIInv == Init => IInv
<1> SUFFICES ASSUME Init PROVE IInv
  OBVIOUS
<1>1. Locks /\ Clients /\ Saving
  BY DEF Init, Locks, Clients, Saving, HoldsClient, NoRequest
<1>2. Rows
  BY DEF Init, Rows, Ids, History, OneItemPerQuestion, LeasesAreExclusive,
         RevokedHoldsNothing, CompletionIsFinal, ToldWhatIsStored
<1> QED BY <1>1, <1>2 DEF IInv, Rows

\* Types and invariant hold always: the theorems that follow read it.
LEMMA Invariant == Spec => [](TypeInv /\ IInv)
<1>1. TypeInv /\ IInv /\ [Next]_vars => (TypeInv /\ IInv)'
  <2>1. IInv <=> Locks /\ Clients /\ Saving /\ Rows
    BY DEF IInv, Rows
  <2>2. (IInv <=> Locks /\ Clients /\ Saving /\ Rows)'
    BY DEF IInv, Rows
  <2>3. Rows => LeasesAreExclusive
    BY DEF Rows
  <2> QED BY <2>1, <2>2, <2>3, NextType, LocksStep, ClientsStep, SavingStep, RowsStep
<1> QED BY <1>1, InitType, InitIInv, PTL DEF Spec

\* A question becomes at most one matrix item, and none while it is queued.
THEOREM OneItem == Spec => []OneItemPerQuestion
<1>1. IInv => OneItemPerQuestion
  BY DEF IInv
<1> QED BY <1>1, Invariant, PTL

\* Leases are on queued questions, one per question and one per client.
THEOREM ExclusiveLeases == Spec => []LeasesAreExclusive
<1>1. IInv => LeasesAreExclusive
  BY DEF IInv
<1> QED BY <1>1, Invariant, PTL

\* The lock on the client's row makes the constraint "one claim per client"
\* unreachable: claim_next finds nothing but expired claims of its client when it
\* inserts one.
THEOREM ConstraintUnreachable == Spec => []ClientConstraintNeverFires
<1>1. IInv => ClientConstraintNeverFires
  BY DEF IInv, Clients, ClientConstraintNeverFires, HoldsClient, ClaimsOf, Expired
<1> QED BY <1>1, Invariant, PTL

\* A revoked client holds no lease, however its last requests interleave with the
\* revocation.
THEOREM RevocationIsFinal == Spec => []RevokedHoldsNothing
<1>1. IInv => RevokedHoldsNothing
  BY DEF IInv
<1> QED BY <1>1, Invariant, PTL

\* A completion is final: its question is done, its claim is gone, and it is the only
\* one of either.
THEOREM FinalCompletion == Spec => []CompletionIsFinal
<1>1. IInv => CompletionIsFinal
  BY DEF IInv
<1> QED BY <1>1, Invariant, PTL

\* Agents hear of one Draft per claim, the stored one, however often and with whatever
\* input they repeat the save.
THEOREM HonestAnswers == Spec => []ToldWhatIsStored
<1>1. IInv => ToldWhatIsStored
  BY DEF IInv
<1> QED BY <1>1, Invariant, PTL

-----------------------------------------------------------------------------
(* What a request knows of time and of the leases on its question.          *)

\* The clock a request works with is one that was.
TimesPast == \A w \in Worker : req[w].at <= now

\* A human who decides on a question has its row, and no lease on it was live when his
\* request began.
DecidesUnleased ==
    \A w \in Worker :
       req[w].op \in {"create", "reject"} /\ step[w] = "commit" =>
          \A k \in ClaimsOn(target[w]) : ~Live(k, req[w].at)

LeaseInv == TypeInv /\ IInv /\ TimesPast /\ DecidesUnleased

\* The steps that change what QuestionLease sees.
Visible ==
    \/ \E w \in Worker : \/ CommitClaim(w) \/ CommitSave(w) \/ CommitRelease(w)
                         \/ CommitCreate(w) \/ CommitReject(w) \/ CommitFree(w)
    \/ \E batch \in SUBSET Item : Suggest(batch)
    \/ \E c \in Client : RevokeClient(c)
    \/ Tick

\* Every other step leaves it alone.
LEMMA Effects ==
    ASSUME TypeInv, [Next]_vars, ~Visible
    PROVE  UNCHANGED <<now, asked, queue, made, claims>>
<1> USE DEF data
<1>1. ASSUME NEW w \in Worker, Start(w)
      PROVE  UNCHANGED <<now, asked, queue, made, claims>>
  BY <1>1, StartShape DEF Begin
<1>2. ASSUME NEW w \in Worker, ClaimStep(w), ~CommitClaim(w)
      PROVE  UNCHANGED <<now, asked, queue, made, claims>>
  BY <1>2 DEF ClaimStep, LockClient, DenyClaim, ReturnOwned, DropOwned, ReadCandidates,
              TakeOldest, ReportEmpty, RejectClaim, Answer
<1>3. ASSUME NEW w \in Worker, SaveStep(w), ~CommitSave(w)
      PROVE  UNCHANGED <<now, asked, queue, made, claims>>
  BY <1>3 DEF SaveStep, FindClaim, LockClaim, ReplaySave, ConflictSave, ClaimNotFound, Answer
<1>4. ASSUME NEW w \in Worker, ReleaseStep(w), ~CommitRelease(w)
      PROVE  UNCHANGED <<now, asked, queue, made, claims>>
  BY <1>4 DEF ReleaseStep, LockReleased, ReleaseNotFound, Answer
<1>5. ASSUME NEW w \in Worker, HumanStep(w),
             ~CommitCreate(w), ~CommitReject(w), ~CommitFree(w)
      PROVE  UNCHANGED <<now, asked, queue, made, claims>>
  BY <1>5 DEF HumanStep, LockQuestion, RefuseHuman, Answer
<1>6. ASSUME NEW w \in Worker, ReferToClient(w) \/ BreakDeadlock(w) \/ Abort(w)
      PROVE  UNCHANGED <<now, asked, queue, made, claims>>
  BY <1>6 DEF ReferToClient, BreakDeadlock, Abort, Answer
<1>7. ASSUME NEW c, NEW n, NEW d, RepeatSave(c, n, d)
      PROVE  UNCHANGED <<now, asked, queue, made, claims>>
  BY <1>7 DEF RepeatSave
<1> QED
  BY <1>1, <1>2, <1>3, <1>4, <1>5, <1>6, <1>7 DEF Next, Progress, Visible, vars

\* How one request changes: it begins with the clock of that moment, ends, or goes on.
LEMMA RequestChanges ==
    ASSUME TypeInv, IInv, [Next]_vars, NEW w \in Worker
    PROVE  \/ req'[w] = req[w] /\ target'[w] = target[w] /\ step'[w] = step[w]
           \/ req'[w].at = now /\ step'[w] # "commit"
           \/ req'[w].at = 0 /\ req'[w].op = "none"
           \/ req'[w] = req[w] /\ (step'[w] = "commit" => \/ req[w].op \notin HumanOp
                                                          \/ LockQuestion(w))
<1>1. ASSUME NEW v \in Worker, NEW r, NEW i, NEW s, Begin(v, r, i, s), r.at = now,
             s # "commit"
      PROVE  \/ req'[w] = req[w] /\ target'[w] = target[w] /\ step'[w] = step[w]
             \/ req'[w].at = now /\ step'[w] # "commit"
  BY <1>1 DEF Begin, Goto, TypeInv, WorkOK
<1>2. ASSUME NEW v \in Worker, End(v)
      PROVE  \/ req'[w] = req[w] /\ target'[w] = target[w] /\ step'[w] = step[w]
             \/ req'[w].at = 0 /\ req'[w].op = "none"
  BY <1>2 DEF End, NoRequest, TypeInv, WorkOK
<1>3. ASSUME NEW v \in Worker, Start(v)
      PROVE  \E r, i, s : Begin(v, r, i, s) /\ r.at = now /\ s # "commit"
  <2>1. \A op, c, n : /\ [NoRequest EXCEPT !.op = op, !.client = c, !.at = now].at = now
                      /\ [NoRequest EXCEPT !.op = op, !.client = c, !.claim = n,
                                           !.at = now].at = now
                      /\ [NoRequest EXCEPT !.op = op, !.at = now].at = now
    BY DEF NoRequest
  <2>2. \A c, n, d : [op |-> "save", client |-> c, claim |-> n, digest |-> d,
                      at |-> now].at = now
    OBVIOUS
  <2>3. ASSUME NEW c \in Client, StartClaim(v, c)
        PROVE  \E r, i, s : Begin(v, r, i, s) /\ r.at = now /\ s # "commit"
    BY <2>1, <2>3 DEF StartClaim
  <2>4. ASSUME NEW c \in Client, NEW n \in 1..issued, StartRelease(v, c, n)
        PROVE  \E r, i, s : Begin(v, r, i, s) /\ r.at = now /\ s # "commit"
    BY <2>1, <2>4 DEF StartRelease
  <2>5. ASSUME NEW c \in Client, NEW n \in 1..issued, NEW d \in Digest, StartSave(v, c, n, d)
        PROVE  \E r, i, s : Begin(v, r, i, s) /\ r.at = now /\ s # "commit"
    BY <2>2, <2>5 DEF StartSave
  <2>6. ASSUME NEW op \in HumanOp, NEW i \in Item, StartHuman(v, op, i)
        PROVE  \E r, j, s : Begin(v, r, j, s) /\ r.at = now /\ s # "commit"
    BY <2>1, <2>6 DEF StartHuman
  <2> QED
    BY <1>3, <2>3, <2>4, <2>5, <2>6 DEF Start
<1>4. ASSUME NEW v \in Worker, NEW s, Goto(v, s), req' = req,
             \A u \in Worker \ {v} : target'[u] = target[u],
             req[v].op \notin HumanOp \/ LockQuestion(v)
      PROVE  \/ req'[w] = req[w] /\ target'[w] = target[w] /\ step'[w] = step[w]
             \/ req'[w] = req[w] /\ (req[w].op \notin HumanOp \/ LockQuestion(w))
  BY <1>4 DEF Goto, TypeInv, WorkOK
<1>5. ASSUME NEW v \in Worker, Start(v) \/ Answer(v) PROVE
             \/ req'[w] = req[w] /\ target'[w] = target[w] /\ step'[w] = step[w]
             \/ req'[w].at = now /\ step'[w] # "commit"
             \/ req'[w].at = 0 /\ req'[w].op = "none"
  BY <1>1, <1>2, <1>3, <1>5 DEF Answer
<1>6. ASSUME NEW v \in Worker, Progress(v)
      PROVE  \/ Answer(v) \/ End(v)
             \/ \E s : /\ Goto(v, s) /\ req' = req
                       /\ \A u \in Worker \ {v} : target'[u] = target[u]
                       /\ req[v].op \notin HumanOp \/ LockQuestion(v)
  BY <1>6
  DEF Progress, ClaimStep, LockClient, DenyClaim, ReturnOwned, DropOwned, ReadCandidates,
      TakeOldest, ReportEmpty, CommitClaim, RejectClaim, FindOwned,
      SaveStep, FindClaim, LockClaim, ReplaySave, ConflictSave, ClaimNotFound, CommitSave,
      ReleaseStep, LockReleased, ReleaseNotFound, CommitRelease,
      HumanStep, LockQuestion, RefuseHuman, CommitCreate, CommitReject, CommitFree,
      ReferToClient, HumanOp, TypeInv, WorkOK, IInv, Locks
<1>7. CASE \E v \in Worker : Start(v) \/ BreakDeadlock(v) \/ Abort(v)
  BY <1>5, <1>7 DEF BreakDeadlock, Abort
<1>8. CASE \E v \in Worker : Progress(v)
  BY <1>2, <1>4, <1>5, <1>6, <1>8
<1>9. CASE UNCHANGED <<req, target, step>>
  BY <1>9
<1> QED
  BY <1>7, <1>8, <1>9 DEF Next, Suggest, RevokeClient, RepeatSave, Tick, vars

\* Only claim_next adds a lease, on the question whose row it has.
LEMMA NewLeases ==
    ASSUME TypeInv, [Next]_vars, NEW k \in claims' \ claims
    PROVE  \E w \in Worker : CommitClaim(w) /\ k.item = target[w]
<1>1. claims' # claims
  OBVIOUS
<1>2. Visible
  BY <1>1, Effects
<1> QED
  BY <1>2 DEF Visible, CommitClaim, CommitSave, CommitRelease, CommitCreate, CommitReject,
              CommitFree, Suggest, RevokeClient, Tick, data

\* Clocks go forward only, and a lease on a locked question is not added by others.
LEMMA LeaseInvStep ==
    ASSUME LeaseInv, [Next]_vars
    PROVE  TimesPast' /\ DecidesUnleased'
<1> USE DEF LeaseInv
<1>1. now \in Nat /\ now' \in Nat /\ now <= now'
  BY Effects DEF TypeInv, DataOK, Visible, CommitClaim, CommitSave, CommitRelease,
                 CommitCreate, CommitReject, CommitFree, Suggest, RevokeClient, Tick
<1>2. \A w \in Worker : req[w].at \in Nat
  BY DEF TypeInv, WorkOK, Request
<1>3. TimesPast'
  <2>1. ASSUME NEW w \in Worker PROVE req'[w].at <= now'
    BY <1>1, <1>2, RequestChanges DEF TimesPast
  <2> QED
    BY <2>1 DEF TimesPast
<1>4. DecidesUnleased'
  <2> SUFFICES ASSUME NEW w \in Worker, req'[w].op \in {"create", "reject"},
                      step'[w] = "commit", NEW k \in claims', k.item = target'[w]
               PROVE  ~Live(k, req'[w].at)
    BY DEF DecidesUnleased, ClaimsOn, Live
  <2>1. CASE req'[w] = req[w] /\ target'[w] = target[w] /\ step'[w] = step[w]
    <3>1. k \in claims
      <4>1. ASSUME NEW v \in Worker, CommitClaim(v), k.item = target[v] PROVE FALSE
        <5>1. target[v] \in rows[v] /\ target[w] \in rows[w] /\ v # w
          BY <2>1, <4>1 DEF CommitClaim, IInv, Locks
        <5> QED
          BY <2>1, <4>1, <5>1 DEF IInv, Locks
      <4> QED
        BY <4>1, NewLeases
    <3> QED
      BY <2>1, <3>1 DEF DecidesUnleased, ClaimsOn
  <2>2. CASE req'[w] = req[w] /\ LockQuestion(w)
    BY <2>2 DEF LockQuestion, Claimed, ClaimsOn, data
  <2> QED
    BY <2>1, <2>2, RequestChanges DEF HumanOp
<1> QED
  BY <1>3, <1>4

\* So both hold always.
LEMMA LeaseInvariant == Spec => []LeaseInv
<1>1. Init => TimesPast /\ DecidesUnleased
  BY DEF Init, TimesPast, DecidesUnleased, NoRequest
<1>2. LeaseInv /\ [Next]_vars => (TimesPast /\ DecidesUnleased)'
  BY LeaseInvStep
<1> QED
  BY <1>1, <1>2, Invariant, PTL DEF Spec, LeaseInv

-----------------------------------------------------------------------------
(* How a lease ends.                                                        *)

\* A lease that a step ends before its time is ended by its own client's save or
\* release, by a human who frees it, or by the revocation of its client.
LEMMA EndsByRight ==
    ASSUME LeaseInv, [Next]_vars, NEW k \in claims \ claims', Live(k, now)
    PROVE  \/ \E w \in Worker :
                 /\ req[w].op \in {"save", "release"}
                 /\ req[w].client = k.client /\ req[w].claim = k.id
                 /\ step[w] = "commit" /\ step'[w] = "idle"
           \/ \E w \in Worker :
                 req[w].op = "free" /\ step[w] = "commit" /\ step'[w] = "idle"
           \/ k.client \notin active'
<1> USE DEF LeaseInv
<1>1. Visible
  BY Effects
<1>2. ASSUME NEW w \in Worker PROVE Live(k, req[w].at)
  BY <1>2 DEF Live, TimesPast, TypeInv, DataOK, WorkOK, Claim, Request
<1>3. \A w \in Worker : End(w) => step'[w] = "idle"
  BY DEF End, TypeInv, WorkOK
<1>4. ASSUME NEW w \in Worker, CommitClaim(w) PROVE FALSE
  BY <1>2, <1>4 DEF CommitClaim, Expired
<1>5. ASSUME NEW w \in Worker, CommitCreate(w) \/ CommitReject(w) PROVE FALSE
  BY <1>2, <1>5 DEF CommitCreate, CommitReject, DecidesUnleased, ClaimsOn
<1>6. ASSUME NEW w \in Worker, CommitSave(w)
      PROVE  req[w].client = k.client /\ req[w].claim = k.id
  <2>1. k.item = target[w]
    BY <1>6 DEF CommitSave, ClaimsOn
  <2>2. PICK l \in claims : /\ l.id = req[w].claim /\ l.client = req[w].client
                            /\ l.item = target[w]
    BY <1>6 DEF CommitSave, IInv, Saving
  <2> QED
    BY <2>1, <2>2 DEF IInv, LeasesAreExclusive
<1>7. ASSUME NEW w \in Worker, CommitRelease(w)
      PROVE  req[w].client = k.client /\ req[w].claim = k.id
  BY <1>7 DEF CommitRelease, Held, ClaimNamed
<1>8. ASSUME NEW c \in Client, RevokeClient(c) PROVE k.client \notin active'
  BY <1>8 DEF RevokeClient, ClaimsOf
<1> QED
  BY <1>1, <1>3, <1>4, <1>5, <1>6, <1>7, <1>8
  DEF Visible, CommitSave, CommitRelease, CommitFree, Suggest, Tick, data

\* No lease that has not run out is taken from its agent, whatever clock and claims
\* another agent or a human has read before.
THEOREM LeasesEndByRight == Spec => LeaseEndsByRight
<1>1. LeaseInv /\ [Next]_vars =>
         [\A k \in claims \ claims' :
             Live(k, now) =>
                \/ \E w \in Worker :
                      /\ req[w].op \in {"save", "release"}
                      /\ req[w].client = k.client /\ req[w].claim = k.id
                      /\ step[w] = "commit" /\ step'[w] = "idle"
                \/ \E w \in Worker :
                      req[w].op = "free" /\ step[w] = "commit" /\ step'[w] = "idle"
                \/ k.client \notin active']_vars
  BY EndsByRight
<1> QED
  BY <1>1, LeaseInvariant, PTL DEF Spec, LeaseEndsByRight

-----------------------------------------------------------------------------
(* The queue implements QuestionLease.                                      *)

\* The lease a claim row is.
LeaseOf(k) == [client |-> k.client, item |-> k.item, expires |-> k.expires]

Leases == {LeaseOf(k) : k \in claims}

\* A lease says what its claim says.
LEMMA LeaseFields ==
    ASSUME NEW k
    PROVE  /\ LeaseOf(k).client = k.client /\ LeaseOf(k).item = k.item
           /\ LeaseOf(k).expires = k.expires
  BY DEF LeaseOf

\* The leases on a question, after its claims are gone.
LEMMA LeasesResolved ==
    ASSUME NEW i, claims' = claims \ ClaimsOn(i)
    PROVE  Leases' = Leases \ {l \in Leases : l.item = i}
  BY LeaseFields DEF Leases, ClaimsOn

\* Deleting the claims of one question, client or identifier gives one lease up or none.
LEMMA LeaseGivenUp ==
    ASSUME IInv, NEW S \in SUBSET claims, \A k, l \in S : k = l, claims' = claims \ S
    PROVE  Leases' = Leases \/ \E l \in Leases : Leases' = Leases \ {l}
<1>1. CASE S = {}
  BY <1>1 DEF Leases
<1>2. ASSUME NEW k \in S PROVE \E l \in Leases : Leases' = Leases \ {l}
  <2>1. S = {k}
    BY <1>2
  <2>2. \A l \in claims : LeaseOf(l) = LeaseOf(k) => l = k
    BY <1>2, LeaseFields DEF IInv, LeasesAreExclusive
  <2>3. LeaseOf(k) \in Leases /\ Leases' = Leases \ {LeaseOf(k)}
    BY <2>1, <2>2 DEF Leases
  <2> QED
    BY <2>3
<1> QED
  BY <1>1, <1>2

\* The queue starts as QuestionLease starts.
LEMMA LeaseInit == Init => QL!Init
  BY DEF Init, QL!Init

\* claim_next takes a lease: those on its question and of its client had run out.
LEMMA LeaseTaken ==
    ASSUME LeaseInv, NEW w \in Worker, CommitClaim(w)
    PROVE  /\ target[w] \in queue
           /\ \A l \in Leases : l.client = req[w].client \/ l.item = target[w]
                                   => l.expires <= now
           /\ Leases' = {l \in Leases : l.client # req[w].client /\ l.item # target[w]}
                           \cup {[client |-> req[w].client, item |-> target[w],
                                  expires |-> req[w].at + TTL]}
<1> USE DEF LeaseInv
<1> DEFINE new == [id |-> issued + 1, client |-> req[w].client,
                   item |-> target[w], expires |-> req[w].at + TTL]
<1>1. target[w] \in queue
  BY DEF CommitClaim, IInv, Locks
<1>2. ASSUME NEW k \in claims, k.client = req[w].client \/ k.item = target[w]
      PROVE  k \in Expired(w) /\ k.expires <= now
  <2>1. k \in Expired(w)
    BY <1>2 DEF CommitClaim, Unique
  <2>2. req[w].at <= now /\ req[w].at \in Nat /\ now \in Nat /\ k.expires \in Nat
    BY DEF TimesPast, TypeInv, DataOK, WorkOK, Request, Claim
  <2> QED
    BY <2>1, <2>2 DEF Expired, Live
<1>3. claims \ Expired(w) = {k \in claims : k.client # req[w].client /\ k.item # target[w]}
  BY <1>2 DEF Expired
<1>4. LeaseOf(new) = [client |-> req[w].client, item |-> target[w],
                      expires |-> req[w].at + TTL]
  BY DEF LeaseOf
<1>5. claims' = (claims \ Expired(w)) \cup {new}
  BY DEF CommitClaim
<1> HIDE DEF new
<1>6. Leases' = {LeaseOf(k) : k \in claims \ Expired(w)} \cup {LeaseOf(new)}
  BY <1>5 DEF Leases
<1>7. {LeaseOf(k) : k \in claims \ Expired(w)}
         = {l \in Leases : l.client # req[w].client /\ l.item # target[w]}
  BY <1>3, LeaseFields DEF Leases
<1> QED
  BY <1>1, <1>2, <1>4, <1>6, <1>7, LeaseFields DEF Leases

\* A step of the queue is a step of QuestionLease, or none.
LEMMA LeaseStep ==
    ASSUME LeaseInv, [Next]_vars
    PROVE  [QL!Next]_(QL!vars)
<1> USE DEF LeaseInv
<1>1. CASE UNCHANGED <<now, asked, queue, made, claims>>
  BY <1>1 DEF QL!vars
<1>2. ASSUME NEW w \in Worker, CommitClaim(w) PROVE QL!Next
  <2>1. req[w].client \in Client /\ target[w] \in Item
    BY <1>2 DEF CommitClaim, TypeInv, RequestOK, AgentOp
  <2>2. req[w].at + TTL \in 0..(now + TTL) /\ req[w].at + TTL <= now + TTL
    BY QueueAssumption DEF TimesPast, TypeInv, DataOK, WorkOK, Request
  <2>3. QL!Take(req[w].client, target[w], req[w].at + TTL)
    BY <1>2, <2>2, LeaseTaken DEF QL!Take, Leases, LeaseOf, CommitClaim
  <2>4. \E c \in Client, i \in Item, t \in 0..(now + TTL) : QL!Take(c, i, t)
    BY <2>1, <2>2, <2>3, Zenon DEF QL!Take
  <2> QED
    BY <2>4 DEF QL!Next
<1>3. ASSUME NEW w \in Worker, CommitSave(w) PROVE QL!Next
  <2>1. target[w] \in Item
    BY <1>3 DEF CommitSave, TypeInv, RequestOK
  <2>2. PICK k \in claims : k.item = target[w]
    BY <1>3 DEF CommitSave, IInv, Saving
  <2>3. LeaseOf(k) \in Leases /\ LeaseOf(k).item = target[w]
    BY <2>2, LeaseFields DEF Leases
  <2>4. Leases' = Leases \ {l \in Leases : l.item = target[w]}
    BY <1>3, LeasesResolved DEF CommitSave
  <2>5. QL!Finish(target[w])
    BY <1>3, <2>3, <2>4 DEF QL!Finish, QL!LeasesOn, Leases, LeaseOf, CommitSave
  <2>6. \E i \in Item : QL!Finish(i)
    BY <2>1, <2>5, Zenon DEF QL!Finish
  <2> QED
    BY <2>6 DEF QL!Next
<1>4. ASSUME NEW w \in Worker, CommitCreate(w) \/ CommitReject(w) PROVE QL!Next
  <2>1. target[w] \in Item /\ target[w] \in queue
    BY <1>4 DEF CommitCreate, CommitReject, TypeInv, RequestOK, IInv, Locks
  <2>2. ASSUME NEW k \in claims, k.item = target[w] PROVE k.expires <= now
    <3>1. ~Live(k, req[w].at)
      BY <1>4, <2>2 DEF CommitCreate, CommitReject, DecidesUnleased, ClaimsOn
    <3>2. req[w].at <= now /\ req[w].at \in Nat /\ now \in Nat /\ k.expires \in Nat
      BY DEF TimesPast, TypeInv, DataOK, WorkOK, Request, Claim
    <3> QED
      BY <3>1, <3>2 DEF Live
  <2>3. \A l \in Leases : l.item = target[w] => l.expires <= now
    BY <2>2, LeaseFields DEF Leases
  <2>4. Leases' = Leases \ {l \in Leases : l.item = target[w]}
    BY <1>4, LeasesResolved DEF CommitCreate, CommitReject
  <2>5. \E n \in {0, 1} : made' = [made EXCEPT ![target[w]] = @ + n]
    <3>1. CASE CommitCreate(w)
      BY <3>1 DEF CommitCreate
    <3>2. CASE CommitReject(w)
      <4>1. made' = [made EXCEPT ![target[w]] = @ + 0]
        BY <3>2 DEF CommitReject, TypeInv, DataOK
      <4> QED
        BY <4>1
    <3> QED
      BY <1>4, <3>1, <3>2
  <2>6. \E n \in {0, 1} : QL!Decide(target[w], n)
    BY <1>4, <2>1, <2>3, <2>4, <2>5
       DEF QL!Decide, QL!LeasesOn, Leases, LeaseOf, CommitCreate, CommitReject
  <2> QED
    BY <2>1, <2>6 DEF QL!Next
<1>5. ASSUME NEW S \in SUBSET claims, \A k, l \in S : k = l, claims' = claims \ S,
             UNCHANGED <<now, asked, queue, made>>
      PROVE  QL!Next \/ UNCHANGED QL!vars
  <2>1. CASE Leases' = Leases
    BY <1>5, <2>1 DEF QL!vars, Leases, LeaseOf
  <2>2. ASSUME NEW l \in Leases, Leases' = Leases \ {l} PROVE QL!Next
    <3>1. QL!GiveUp(l)
      BY <1>5, <2>2 DEF QL!GiveUp, Leases, LeaseOf
    <3> QED
      BY <3>1 DEF QL!Next, Leases, LeaseOf
  <2> QED
    BY <1>5, <2>1, <2>2, LeaseGivenUp
<1>6. ASSUME NEW w \in Worker, CommitRelease(w) \/ CommitFree(w)
      PROVE  QL!Next \/ UNCHANGED QL!vars
  <2>1. /\ \A k, l \in Held(w) : k = l
        /\ \A k, l \in ClaimsOn(target[w]) : k = l
    BY DEF Held, ClaimNamed, ClaimsOn, IInv, LeasesAreExclusive
  <2>2. Held(w) \subseteq claims /\ ClaimsOn(target[w]) \subseteq claims
    BY DEF Held, ClaimNamed, ClaimsOn
  <2> QED
    BY <1>5, <1>6, <2>1, <2>2 DEF CommitRelease, CommitFree
<1>7. ASSUME NEW c \in Client, RevokeClient(c) PROVE QL!Next \/ UNCHANGED QL!vars
  <2>1. ClaimsOf(c) \subseteq claims /\ \A k, l \in ClaimsOf(c) : k = l
    BY DEF ClaimsOf, IInv, LeasesAreExclusive
  <2> QED
    BY <1>5, <1>7, <2>1 DEF RevokeClient
<1>8. ASSUME NEW batch \in SUBSET Item, Suggest(batch) PROVE QL!Next
  <2>1. batch \cap asked = {}
    BY <1>8, QueueAssumption DEF Suggest, TypeInv, DataOK
  <2>2. QL!Ask(batch)
    BY <1>8, <2>1 DEF QL!Ask, Suggest
  <2> QED
    BY <2>2 DEF QL!Next
<1>9. CASE Tick
  BY <1>9 DEF Tick, data, QL!Next, QL!Tick
<1> QED
  BY <1>1, <1>2, <1>3, <1>4, <1>6, <1>7, <1>8, <1>9, Effects DEF Visible

\* The row locks, the second look at the claim and the order of the statements give
\* what the queue promises: a question is asked once, leased to one agent at a time,
\* and leaves the queue in one step, through the agent that leases it or through a
\* human while no lease on it is live.
THEOREM ImplementsLeases == Spec => KeepsLeases
  BY LeaseInit, LeaseStep, LeaseInvariant, PTL DEF Spec, KeepsLeases, QL!Spec
=============================================================================
