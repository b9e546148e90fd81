---------------------------- MODULE ResponseCache ----------------------------
(***************************************************************************)
(* The responses cached in Valkey: one address of one domain.  An address  *)
(* is a path with its query; addresses share nothing but the deletion of   *)
(* their whole domain, which deletes this one too.                          *)
(*                                                                         *)
(* A request that finds nothing stores what it has computed, some time      *)
(* after it computed it; so does the task that warms the cache, whether or  *)
(* not there is an entry.  Both may be overtaken by a change of the         *)
(* database and by the deletion that follows it.                            *)
(***************************************************************************)
EXTENDS Naturals

CONSTANTS
    Filler,    \* requests and warm tasks that can compute a response at a time
    None,      \* no entry, no response, no operation record
    MaxFaults  \* bound on the actions after a commit and the warm tasks that are lost

VARIABLES
    address,  \* [domain, kind, arg]
    view,     \* what the handler of the address answers now, None if it answers 404
    pending,  \* a change is committed and its invalidation is still to come
    entry,    \* the stored response, None if there is none or it has expired
    hand,     \* the responses computed and not yet stored
    op,       \* the status in the record of the manual warm operation
    task,     \* the manual operation's task is in the broker's stream
    asking,   \* the request that enqueued it: its message is "sent" or "lost", None once it has ended
    faults

cacheVars == <<entry, hand, op, task, asking, faults>>

\* A copy is late if its domain was invalidated after it was computed, or should have
\* been: the invalidation was lost.
Copy(answer) == [answer |-> answer, late |-> FALSE]
Late(c)      == IF c = None THEN None ELSE [c EXCEPT !.late = TRUE]

\* "read": a request; "warm": a task of the domain or the schedule; "manual": a task of
\* the operation.
Job    == {"read", "warm", "manual"}
Idle   == [job |-> None, at |-> "idle", copy |-> None]
Status == {"queued", "running", "succeeded", "failed"}

\* The warm task writes the lists without a filter and the details of what is listed.
IsDetail == address.kind \in {"article", "item"}
IsWarmed == address.kind # "tagged"

-----------------------------------------------------------------------------
(* Requests.                                                                *)

\* The handler runs.  An answer 404 is not stored.
Read(f) ==
    /\ hand[f] = Idle /\ entry = None /\ view # None
    /\ hand' = [hand EXCEPT ![f] = [job |-> "read", at |-> "store", copy |-> Copy(view)]]
    /\ UNCHANGED <<entry, op, task, asking, faults>>

\* Litestar stores the response with the default time to live.
StoreRead(f) ==
    /\ hand[f].job = "read"
    /\ entry' = hand[f].copy
    /\ hand' = [hand EXCEPT ![f] = Idle]
    /\ UNCHANGED <<op, task, asking, faults>>

\* Mutant: the response is stored without a time to live.
NeverExpire == FALSE /\ UNCHANGED <<entry, hand, op, task, asking, faults>>

\* constants.response_cache.default_ttl_seconds after it was stored
Expire ==
    /\ entry # None
    /\ entry' = None
    /\ UNCHANGED <<hand, op, task, asking, faults>>

-----------------------------------------------------------------------------
(* The two actions after the commit of a change; the second one, to enqueue  *)
(* a warm task, has no effect of its own: a warm task may run at any time.   *)

Invalidate ==
    /\ entry' = None
    /\ hand' = [f \in Filler |-> [hand[f] EXCEPT !.copy = Late(@)]]
    /\ UNCHANGED <<op, task, asking, faults>>

\* The server stops after the commit, or Valkey does not answer.
Miss ==
    /\ faults < MaxFaults
    /\ faults' = faults + 1
    /\ entry' = Late(entry)
    /\ hand' = [f \in Filler |-> [hand[f] EXCEPT !.copy = Late(@)]]
    /\ UNCHANGED <<op, task, asking>>

\* CacheToolsUseCase.clear
Clear ==
    /\ entry # None
    /\ entry' = None
    /\ UNCHANGED <<hand, op, task, asking, faults>>

-----------------------------------------------------------------------------
(* Warm tasks, each delivered at least once.                                *)

\* Where a task begins: the lists are read, and then the details of what they show.
Collecting == IF IsDetail THEN "details" ELSE "write"

\* Every quarter of an hour or so, and after each change.  A task that does not find the
\* address in its lists leaves it alone.
StartWarm(f) ==
    /\ IsWarmed /\ hand[f] = Idle /\ view # None
    /\ hand' = [hand EXCEPT ![f] = [job |-> "warm", at |-> Collecting, copy |-> Copy(view)]]
    /\ UNCHANGED <<entry, op, task, asking, faults>>

\* One that is no longer public ends the task.
ReadDetails(f) ==
    /\ hand[f].at = "details"
    /\ hand[f].copy # None => view # None
    /\ hand' = [hand EXCEPT ![f].at = "write",
                            ![f].copy = IF @ # None THEN Copy(view) ELSE @]
    /\ UNCHANGED <<entry, op, task, asking, faults>>

\* Everything collected is written.
WriteTarget(f) ==
    /\ hand[f].at = "write"
    /\ entry' = IF hand[f].copy = None THEN entry ELSE hand[f].copy
    /\ hand' = [hand EXCEPT ![f] = Idle]
    /\ op' = IF hand[f].job = "manual" THEN "succeeded" ELSE op
    /\ UNCHANGED <<task, asking, faults>>

\* A detail is not found, or the database or Valkey does not answer.
FailWarm(f) ==
    /\ hand[f].job \in {"warm", "manual"}
    /\ hand' = [hand EXCEPT ![f] = Idle]
    /\ op' = IF hand[f].job = "manual" THEN "failed" ELSE op
    /\ UNCHANGED <<entry, task, asking, faults>>

\* The worker stops.  Its task may be delivered again.
StopWorker(f) ==
    /\ hand[f].job = "manual"
    /\ faults < MaxFaults
    /\ faults' = faults + 1
    /\ hand' = [hand EXCEPT ![f] = Idle]
    /\ task' \in BOOLEAN
    /\ UNCHANGED <<entry, op, asking>>

-----------------------------------------------------------------------------
(* The manual warm operation.                                               *)

\* The record is created and the task is sent to the broker.
EnqueueManualWarm ==
    /\ op = None /\ asking = None /\ ~ task
    /\ op' = "queued" /\ asking' \in {"sent", "lost"} /\ task' = (asking' = "sent")
    /\ UNCHANGED <<entry, hand, faults>>

\* The broker does not answer.  It may have the task, which may have run.
FailToEnqueue ==
    /\ asking # None
    /\ op' = "failed" /\ asking' = None
    /\ UNCHANGED <<entry, hand, task, faults>>

\* The broker has answered, or the server stops.
EndEnqueue ==
    /\ asking # None
    /\ asking' = None
    /\ UNCHANGED <<entry, hand, op, task, faults>>

\* The record is read and marked before the domains are warmed.
RunManualWarm(f) ==
    /\ task /\ hand[f] = Idle /\ op # None
    /\ op' = "running" /\ task' = FALSE
    /\ hand' = [hand EXCEPT ![f] = [job |-> "manual", at |-> Collecting,
                                    copy |-> IF IsWarmed /\ view # None THEN Copy(view) ELSE None]]
    /\ UNCHANGED <<entry, asking, faults>>

\* The record has expired before the task runs.
OperationNotFound(f) ==
    /\ task /\ hand[f] = Idle /\ op = None
    /\ task' = FALSE
    /\ UNCHANGED <<entry, hand, op, asking, faults>>

\* Mutant: the record is kept.
KeepOperation == FALSE /\ UNCHANGED <<entry, hand, op, task, asking, faults>>

\* Records and the pointer to the latest one live for TASKIQ_RESULT_EXPIRE_SECONDS.
ExpireOperation ==
    /\ op # None
    /\ op' = None
    /\ UNCHANGED <<entry, hand, task, asking, faults>>

-----------------------------------------------------------------------------
Init ==
    /\ entry = None
    /\ hand = [f \in Filler |-> Idle]
    /\ op = None /\ task = FALSE /\ asking = None /\ faults = 0

Continue(f) == StoreRead(f) \/ ReadDetails(f) \/ WriteTarget(f) \/ FailWarm(f)

TypeOK ==
    /\ \A f \in Filler : /\ hand[f].job \in Job \cup {None}
                         /\ hand[f].at \in {"idle", "store", "details", "write"}
    /\ op \in Status \cup {None} /\ task \in BOOLEAN /\ asking \in {"sent", "lost", None}
    /\ faults \in 0..MaxFaults

\* A stored response that is not what the handler would answer has one of two reasons: it
\* is late, or the change is so recent that its invalidation is still to come.  So every
\* operation that changes what a public address shows invalidates it, after its commit.
StaleHasReason == entry # None /\ entry.answer # view => entry.late \/ pending

\* The response at the address is in the end what the handler answers, whatever was
\* computed too early, stored too late or not invalidated.
EventuallyFresh == <>[](entry = None \/ entry.answer = view)

\* A manual warm operation does not stay queued or running for ever, even if its worker
\* stops: docs/production-deploy.md:196-198.
WarmOperationEnds == []<>(op \notin {"queued", "running"})
=============================================================================
