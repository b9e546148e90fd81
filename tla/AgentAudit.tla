----------------------------- MODULE AgentAudit -----------------------------
(***************************************************************************)
(* The log of what agents asked for: the event a request leaves, the       *)
(* cleanup, and the pages in which the owner reads it.                     *)
(*                                                                         *)
(* A handler writes the event of a success in its own transaction, so the  *)
(* two are committed together or not at all.  An answer of 400 or more     *)
(* rolls that transaction back, and the outermost middleware then writes   *)
(* an event in a transaction of its own.                                   *)
(***************************************************************************)
EXTENDS RowOrder

CONSTANTS
    Retention,      \* retention_seconds of the audit policy
    MaxPageSize     \* page_size_max

AgentAuditEvent(request, action, result) ==
    [id |-> request.id, client |-> request.client, action |-> action, result |-> result,
     created |-> request.at]

-----------------------------------------------------------------------------
(* The event of a request.  A request is [id, client, at, action,          *)
(* certificate, ending, commits, auditCommits]: the id its event would     *)
(* have, when it began, the handler it reached, what its certificate is to *)
(* the server, how the handler ends, and whether the two transactions      *)
(* commit.                                                                 *)

AgentAction == {"claim", "context", "resources", "save", "release", "rotate", "confirm"}

\* No certificate of a client; one that may not be used now; one that may.
Certificate == {"unknown", "rejected", "accepted"}

\* Done; done before, and the same answer given again; refused, for its scope or by a rule; broken.
Ending == {"done", "replayed", "refused", "broken"}

\* What the agent is told, before any commit.
Status(request) ==
    IF request.certificate # "accepted" THEN 401
    ELSE CASE request.ending = "broken"  -> 500
           [] request.ending = "refused" -> 409
           [] OTHER                      -> 200

\* A repeated save is the one answer of success that leaves no event.
SuccessEvents(request) ==
    IF Status(request) >= 400 \/ (request.ending = "replayed" /\ request.action = "save") THEN {}
    ELSE {AgentAuditEvent(request, request.action, "success")}

\* What the request's transaction leaves, its event among it.
RollbackRequired(request) == Status(request) >= 400
Committed(request) == request.commits /\ ~RollbackRequired(request)

\* The middleware's event.  Nobody to name, no event.
FailureEvents(request) ==
    IF Status(request) < 400 \/ request.certificate = "unknown" THEN {}
    ELSE {AgentAuditEvent(request, request.action, IF Status(request) < 500 THEN "rejected" ELSE "failed")}

\* The log after a request.  Failing to write the middleware's event is only reported.
Logged(events, request) ==
    events \cup (IF Committed(request) THEN SuccessEvents(request) ELSE {})
           \cup (IF request.auditCommits THEN FailureEvents(request) ELSE {})

-----------------------------------------------------------------------------
(* Retention. *)

RetainedFrom(now) == now - Retention

PruneAuditEvents(events, now) == {e \in events : e.created >= RetainedFrom(now)}

-----------------------------------------------------------------------------
(* The pages, newest first.  A cursor is the place of the last event shown. *)

Cursor(event) == <<event.created, event.id>>

ListAuditEvents(events, client, cursor, from, limit) ==
    LET shown == {e \in events : /\ e.client = client
                                 /\ e.created >= from
                                 /\ cursor # NoValue => Before(Cursor(e), cursor)}
    IN  PageOf(InOrder(shown, LAMBDA a, b : Before(Cursor(b), Cursor(a))), 1, limit)

PageAllowed(size) == size \in 1..MaxPageSize

\* One row more than the page tells whether there is a next one.
AuditEventPage(events, client, cursor, size, now) ==
    LET rows == ListAuditEvents(events, client, cursor, RetainedFrom(now), size + 1)
        page == PageOf(rows, 1, size)
    IN  IF cursor # NoValue /\ cursor[1] < RetainedFrom(now)
        THEN [events |-> <<>>, next |-> NoValue]
        ELSE [events |-> page,
              next   |-> IF Len(rows) > size THEN Cursor(page[Len(page)]) ELSE NoValue]
=============================================================================
