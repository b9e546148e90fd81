-------------------------- MODULE AgentAuditChecks --------------------------
(* AgentAudit on every way a request can end, and on every three tables the *)
(* owner's three requests for pages can meet.                               *)
EXTENDS Integers, Sequences, FiniteSets

Log == INSTANCE AgentAudit WITH Retention <- 2, MaxPageSize <- 2, NoValue <- <<>>

AgentRequest == [id : {9}, client : {"a"}, at : {3}, action : Log!AgentAction, certificate : Log!Certificate,
                 ending : Log!Ending, commits : BOOLEAN, auditCommits : BOOLEAN]

\* Events of one moment are told apart by their ids; one is of another client.
Entry(id, created, client) ==
    [id |-> id, client |-> client, action |-> "claim", result |-> "success", created |-> created]
Entries == {Entry(4, 1, "a"), Entry(1, 2, "a"), Entry(2, 2, "a"), Entry(3, 3, "a")}
Foreign == Entry(5, 2, "b")

\* A request leaves one event at most.  A success is in the log only with what it changed, and
\* whatever an agent changed is in the log under it; and a refusal is in it under a result of
\* its own, unless the certificate names no client or writing the event failed.
ASSUME LogTellsWhatHappened ==
    \A request \in AgentRequest :
        LET left    == Log!Logged({}, request)
            results == {e.result : e \in left}
            changed == Log!Committed(request) /\ request.ending = "done"
        IN  /\ Cardinality(left) <= 1
            /\ changed => results = {"success"}
            /\ "success" \in results => Log!Committed(request)
            /\ request.certificate = "rejected" /\ request.auditCommits => results = {"rejected"}
            /\ request.certificate = "unknown" => left = {}

\* The owner follows the cursors while agents work and the cleanup runs: the three tables are
\* anything, the clock does not go back.  No event is shown twice, none of another client; they
\* come newest first; a next cursor is given only when there is more; and when there is none,
\* whatever was in the table all along and is not past the retention has been shown.
ASSUME PagesMissNothing ==
    \A t1, t2, t3 \in SUBSET Entries, size \in {n \in 0..3 : Log!PageAllowed(n)}, times \in {<<3, 3, 3>>, <<3, 4, 5>>, <<4, 4, 5>>} :
        LET Page(table, cursor, now) == Log!AuditEventPage(table \cup {Foreign}, "a", cursor, size, now)
            Empty  == [events |-> <<>>, next |-> <<>>]
            first  == Page(t1, <<>>, times[1])
            second == IF first.next = <<>> THEN Empty ELSE Page(t2, first.next, times[2])
            third  == IF second.next = <<>> THEN Empty ELSE Page(t3, second.next, times[3])
            shown  == first.events \o second.events \o third.events
            read   == IF first.next = <<>> THEN 1 ELSE IF second.next = <<>> THEN 2 ELSE 3
            stayed == CASE read = 1 -> t1 [] read = 2 -> t1 \cap t2 [] read = 3 -> t1 \cap t2 \cap t3
        IN  /\ \A i, j \in DOMAIN shown :
                  i < j => Log!Before(Log!Cursor(shown[j]), Log!Cursor(shown[i]))
            /\ \A i \in DOMAIN shown : shown[i].client = "a"
            /\ first.next # <<>> => Cardinality(Log!PruneAuditEvents(t1, times[1])) > size
            /\ third.next = <<>> =>
                  Log!PruneAuditEvents(stayed, times[read]) \subseteq {shown[i] : i \in DOMAIN shown}

\* A page never shows what the cleanup of the same moment would delete: the owner sees the same
\* log whether the cleanup has run or not.
ASSUME CleanupShowsNowhere ==
    \A table \in SUBSET Entries, size \in 1..2, now \in 3..5,
       cursor \in {<<>>} \cup {Log!Cursor(e) : e \in Entries} :
        Log!AuditEventPage(table, "a", cursor, size, now)
            = Log!AuditEventPage(Log!PruneAuditEvents(table, now), "a", cursor, size, now)
=============================================================================
