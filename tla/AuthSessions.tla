--------------------------- MODULE AuthSessions ---------------------------
(***************************************************************************)
(* Login sessions and managed accounts.  A login leaves a session row, a   *)
(* cookie with its secret; a refresh extends the session up to its         *)
(* absolute lifetime; a logout, a password change, a deactivation and a    *)
(* deletion end sessions.                                                  *)
(*                                                                         *)
(* A call is a transaction at READ COMMITTED: each of its statements sees  *)
(* what is committed at that moment, its writes wait for the account rows  *)
(* others have written, and they take effect together at its commit, which *)
(* may fail.  The row of a session is written column by column: an UPDATE  *)
(* leaves the columns alone it does not name.                              *)
(*                                                                         *)
(* A call may come with an access token of any session, for as long as the *)
(* session is active: that a token also expires, or is blocked at logout,  *)
(* only makes more calls fail.                                             *)
(***************************************************************************)
EXTENDS Naturals, FiniteSets

CONSTANTS
    User,          \* usernames
    Owner,         \* the username of the owner
    Password,      \* passwords
    None,          \* the password of a username without an account
    Caller,        \* calls that can be in progress at a time
    IdleLife,      \* session_expires_in_seconds, in ticks
    AbsoluteLife,  \* session_absolute_expires_in_seconds, in ticks
    MaxTime,       \* bound on the clock
    MaxSessions    \* bound on the sessions ever opened

ASSUME AuthAssumption ==
    /\ Owner \in User /\ None \notin Password
    /\ {IdleLife, AbsoluteLife} \subseteq Nat \ {0}
    /\ MaxTime \in Nat /\ MaxSessions \in Nat \ {0}

VARIABLES
    now,       \* the clock
    accounts,  \* user rows by username
    sessions,  \* session rows
    opened,    \* sessions ever opened are 1..opened
    calls      \* calls in progress

vars == <<now, accounts, sessions, opened, calls>>

SessionId == Nat \ {0}
Role      == {"owner", "admin", "moderator"}
Account   == [role : Role, password : Password, active : BOOLEAN]
NoAccount == [role |-> "none", password |-> None, active |-> FALSE]

Session == [id : SessionId, user : User, expires : Nat, absolute : Nat, revoked : BOOLEAN]

\* Operations that end an account's sessions, all those that write its row, and those
\* that only end sessions.
Ending   == {"password", "deactivate"}
Changing == Ending \cup {"activate", "role", "delete"}
Revoking == {"session", "sessions", "others"}
Managing == Changing \cup Revoking \cup {"create"}

\* by is who calls, user the account the call is about, session the caller's session or
\* the one it names, value a password or a role, ids the sessions its UPDATE found, known
\* those there were when it wrote the account.
Idle == [op |-> "idle", step |-> "", at |-> 0, by |-> Owner, user |-> Owner,
         session |-> 0, value |-> None, hashed |-> FALSE, ids |-> {}, known |-> {}]

Call == [op : {"idle", "login", "refresh", "logout"} \cup Managing,
         step : {"", "rehash", "insert", "write", "revoke", "commit"},
         at : Nat, by : User, user : User, session : Nat,
         value : Password \cup Role \cup {None},
         hashed : BOOLEAN, ids : SUBSET SessionId, known : SUBSET SessionId]

-----------------------------------------------------------------------------
Earlier(s, t) == IF s <= t THEN s ELSE t

Exists(u) == accounts[u] # NoAccount

IsActiveAt(s, t) == ~s.revoked /\ s.expires > t /\ s.absolute > t

SessionsOf(u) == {s \in sessions : s.user = u}

Ids(S) == {s.id : s \in S}

\* Another call than c has written the row of u, or inserted a session that refers to it.
Written(u, c) ==
    \E d \in Caller \ {c} :
       /\ calls[d].user = u
       /\ calls[d].hashed \/ (calls[d].op \in Changing /\ calls[d].step \in {"revoke", "commit"})

Deleted(u) ==
    \E d \in Caller : calls[d].user = u /\ calls[d].op = "delete" /\ calls[d].step = "commit"

Referred(u) ==
    \E d \in Caller : calls[d].user = u /\ calls[d].op = "login" /\ calls[d].step = "commit"

\* Mutant: without SELF_FORBIDDEN_MANAGED_ACCOUNT_ACTIONS.
ManagesItself(by, u, op, role) ==
    LET mine == accounts[by].role
        its  == IF op = "create" THEN role ELSE accounts[u].role IN
    /\ by # u => mine = "owner" \/ (mine = "admin" /\ its = "moderator")
    /\ op = "role" => mine = "owner"
    /\ op = "others" => by = u

\* ensure_can_manage_account, ensure_can_create_account_with_role and
\* ensure_can_update_account_role.
Manages(by, u, op, role) ==
    LET mine == accounts[by].role
        its  == IF op = "create" THEN role ELSE accounts[u].role IN
    /\ by = u => op \in {"password"} \cup Revoking
    /\ by # u => mine = "owner" \/ (mine = "admin" /\ its = "moderator")
    /\ op = "role" => mine = "owner"
    /\ op = "others" => by = u

-----------------------------------------------------------------------------
Step(c, s) == calls' = [calls EXCEPT ![c].step = s]
Done(c)    == calls' = [calls EXCEPT ![c] = Idle]

\* An error, refused or failed: everything the call wrote is rolled back.
Abandon(c) ==
    /\ calls[c].op # "idle"
    /\ Done(c)
    /\ UNCHANGED <<now, accounts, sessions, opened>>

(* login *)

\* The account is read and the password verified; its hash is stale when the hasher's
\* parameters have changed since it was made.
StartLogin(c, u, p, s) ==
    /\ calls[c] = Idle /\ s \in {"rehash", "insert"}
    /\ opened + Cardinality({d \in Caller : calls[d].op = "login"}) < MaxSessions
    /\ Exists(u) /\ accounts[u].active /\ accounts[u].password = p
    /\ calls' = [calls EXCEPT ![c] =
          [Idle EXCEPT !.op = "login", !.at = now, !.by = u, !.user = u, !.value = p,
                       !.step = s]]
    /\ UNCHANGED <<now, accounts, sessions, opened>>

\* A stale hash is replaced: the row of the account is written.
Rehash(c) ==
    /\ calls[c].op = "login" /\ calls[c].step = "rehash"
    /\ Exists(calls[c].user) /\ ~Written(calls[c].user, c)
    /\ calls' = [calls EXCEPT ![c].hashed = TRUE, ![c].step = "commit"]
    /\ UNCHANGED <<now, accounts, sessions, opened>>

\* Mutant: a session without a foreign key.
InsertSessionOfAnyone(c) ==
    /\ calls[c].op = "login" /\ calls[c].step = "insert"
    /\ Step(c, "commit")
    /\ UNCHANGED <<now, accounts, sessions, opened>>

\* The foreign key of the session waits for a deletion of the account.
InsertSession(c) ==
    /\ calls[c].op = "login" /\ calls[c].step = "insert"
    /\ Exists(calls[c].user) /\ ~Deleted(calls[c].user)
    /\ Step(c, "commit")
    /\ UNCHANGED <<now, accounts, sessions, opened>>

CommitLogin(c) ==
    LET r == calls[c]
        last == r.at + AbsoluteLife IN
    /\ r.op = "login" /\ r.step = "commit"
    /\ opened' = opened + 1
    /\ sessions' = sessions \cup
          {[id |-> opened', user |-> r.user, absolute |-> last,
            expires |-> Earlier(r.at + IdleLife, last), revoked |-> FALSE]}
    /\ accounts' = IF r.hashed
                     THEN [accounts EXCEPT ![r.user].password = r.value]
                     ELSE accounts
    /\ Done(c)
    /\ UNCHANGED now

(* refresh_access_token *)

\* The session and its account are read.
StartRefresh(c, s) ==
    /\ calls[c] = Idle /\ IsActiveAt(s, now)
    /\ Exists(s.user) /\ accounts[s.user].active
    /\ calls' = [calls EXCEPT ![c] =
          [Idle EXCEPT !.op = "refresh", !.at = now, !.by = s.user, !.user = s.user,
                       !.session = s.id, !.step = "commit"]]
    /\ UNCHANGED <<now, accounts, sessions, opened>>

\* Mutant: the idle lifetime alone decides.
CommitRefreshUncapped(c) ==
    LET r == calls[c] IN
    /\ r.op = "refresh" /\ r.step = "commit"
    /\ \E s \in sessions :
          /\ s.id = r.session
          /\ sessions' = (sessions \ {s}) \cup {[s EXCEPT !.expires = r.at + IdleLife]}
    /\ Done(c)
    /\ UNCHANGED <<now, accounts, opened>>

\* Mutant: the session is saved as it was read, all columns of it.
CommitRefreshAsRead(c) ==
    LET r == calls[c] IN
    /\ r.op = "refresh" /\ r.step = "commit"
    /\ \E s \in sessions :
          /\ s.id = r.session
          /\ sessions' = (sessions \ {s}) \cup
                {[s EXCEPT !.expires = Earlier(r.at + IdleLife, s.absolute), !.revoked = FALSE]}
    /\ Done(c)
    /\ UNCHANGED <<now, accounts, opened>>

\* expires_at is written whatever has become of the session, if it is still there.
CommitRefresh(c) ==
    LET r == calls[c] IN
    /\ r.op = "refresh" /\ r.step = "commit"
    /\ \E s \in sessions :
          /\ s.id = r.session
          /\ sessions' = (sessions \ {s}) \cup
                {[s EXCEPT !.expires = Earlier(r.at + IdleLife, s.absolute)]}
    /\ Done(c)
    /\ UNCHANGED <<now, accounts, opened>>

(* logout, with the session's cookie *)

StartLogout(c, id) ==
    /\ calls[c] = Idle
    /\ calls' = [calls EXCEPT ![c] =
          [Idle EXCEPT !.op = "logout", !.session = id, !.step = "commit"]]
    /\ UNCHANGED <<now, accounts, sessions, opened>>

RevokeIds(I) == sessions' = {[s EXCEPT !.revoked = s.revoked \/ s.id \in I] : s \in sessions}

CommitLogout(c) ==
    /\ calls[c].op = "logout" /\ calls[c].step = "commit"
    /\ RevokeIds({calls[c].session})
    /\ Done(c)
    /\ UNCHANGED <<now, accounts, opened>>

(* calls of team managers *)

\* authenticate, the guard of the routes, and the checks of the use case: they read the
\* session, the caller's and the target's account, all without a lock, before any write.
StartManaging(c, s, op, u, v, id) ==
    /\ calls[c] = Idle /\ op \in Managing
    /\ IsActiveAt(s, now)
    /\ Exists(s.user) /\ accounts[s.user].active
    /\ accounts[s.user].role \in {"owner", "admin"}
    /\ op = "create" <=> ~Exists(u)
    /\ Manages(s.user, u, op, v)
    /\ calls' = [calls EXCEPT ![c] =
          [Idle EXCEPT !.op = op, !.by = s.user, !.user = u, !.session = id, !.value = v,
                       !.step = CASE op \in Changing -> "write"
                                  [] op \in Revoking -> "revoke"
                                  [] OTHER           -> "commit"]]
    /\ UNCHANGED <<now, accounts, sessions, opened>>

WriteAccount(c) ==
    LET r == calls[c] IN
    /\ r.step = "write"
    /\ Exists(r.user) /\ ~Written(r.user, c) /\ (r.op = "delete" => ~Referred(r.user))
    /\ calls' = [calls EXCEPT ![c].step = IF r.op \in Ending THEN "revoke" ELSE "commit",
                              ![c].known = IF r.op \in Ending THEN Ids(SessionsOf(r.user)) ELSE {}]
    /\ UNCHANGED <<now, accounts, sessions, opened>>

\* Mutant: only the sessions that are active are revoked.
RevokeActiveSessions(c) ==
    LET r == calls[c] IN
    /\ r.step = "revoke"
    /\ r.op = "session" => r.session \in Ids(SessionsOf(r.user))
    /\ calls' = [calls EXCEPT ![c].step = "commit",
          ![c].ids = {i \in Ids({s \in SessionsOf(r.user) : IsActiveAt(s, now)}) :
                         /\ r.op = "session" => i = r.session
                         /\ r.op = "others"  => i # r.session}]
    /\ UNCHANGED <<now, accounts, sessions, opened>>

\* The UPDATE finds the sessions that are committed now.
RevokeSessions(c) ==
    LET r == calls[c] IN
    /\ r.step = "revoke"
    /\ r.op = "session" => r.session \in Ids(SessionsOf(r.user))
    /\ calls' = [calls EXCEPT ![c].step = "commit",
          ![c].ids = {i \in Ids(SessionsOf(r.user)) : /\ r.op = "session" => i = r.session
                                                      /\ r.op = "others"  => i # r.session}]
    /\ UNCHANGED <<now, accounts, sessions, opened>>

\* Mutant: a password change that names the wrong column.
ChangedRole(a, op, v) ==
    CASE op = "password"   -> [a EXCEPT !.role = v]
      [] op = "activate"   -> [a EXCEPT !.active = TRUE]
      [] op = "deactivate" -> [a EXCEPT !.active = FALSE]
      [] op = "role"       -> [a EXCEPT !.role = v]

\* The account row after the operation.
Changed(a, op, v) ==
    CASE op = "password"   -> [a EXCEPT !.password = v]
      [] op = "activate"   -> [a EXCEPT !.active = TRUE]
      [] op = "deactivate" -> [a EXCEPT !.active = FALSE]
      [] op = "role"       -> [a EXCEPT !.role = v]

CommitChange(c) ==
    LET r == calls[c] IN
    /\ r.op \in (Changing \cup Revoking) \ {"delete"} /\ r.step = "commit"
    /\ accounts' = IF r.op \in Changing
                     THEN [accounts EXCEPT ![r.user] = Changed(@, r.op, r.value)]
                     ELSE accounts
    /\ RevokeIds(r.ids)
    /\ Done(c)
    /\ UNCHANGED <<now, opened>>

\* The sessions go with the account; the UPDATE that would revoke them finds none.
CommitDelete(c) ==
    /\ calls[c].op = "delete" /\ calls[c].step = "commit"
    /\ accounts' = [accounts EXCEPT ![calls[c].user] = NoAccount]
    /\ sessions' = sessions \ SessionsOf(calls[c].user)
    /\ Done(c)
    /\ UNCHANGED <<now, opened>>

\* A username that was taken meanwhile is refused by the unique index.
CommitCreate(c, p, active) ==
    LET r == calls[c] IN
    /\ r.op = "create" /\ r.step = "commit" /\ ~Exists(r.user)
    /\ accounts' = [accounts EXCEPT ![r.user] =
          [role |-> r.value, password |-> p, active |-> active]]
    /\ Done(c)
    /\ UNCHANGED <<now, sessions, opened>>

PruneExpired ==
    /\ sessions' = {s \in sessions : s.expires > now /\ s.absolute > now}
    /\ UNCHANGED <<now, accounts, opened, calls>>

Tick ==
    /\ now < MaxTime
    /\ now' = now + 1
    /\ UNCHANGED <<accounts, sessions, opened, calls>>

-----------------------------------------------------------------------------
\* The owner the migration created, and accounts managers created since;
\* the owner has logged in.
Init ==
    /\ now = 0 /\ opened = 1
    /\ sessions = {[id |-> 1, user |-> Owner, absolute |-> AbsoluteLife,
                    expires |-> Earlier(IdleLife, AbsoluteLife), revoked |-> FALSE]}
    /\ accounts \in {a \in [User -> Account \cup {NoAccount}] :
          /\ a[Owner].active
          /\ \A u \in User : a[u].role = "owner" <=> u = Owner}
    /\ calls = [c \in Caller |-> Idle]

\* What a call may name besides the account.
Values(op) ==
    CASE op = "password"           -> Password
      [] op \in {"role", "create"} -> {"admin", "moderator"}
      [] OTHER                     -> {None}

\* The session it names, or the caller's own.
Named(s, op) == IF op = "session" THEN 1..opened ELSE {s.id}

Next ==
    \/ \E c \in Caller :
          \/ Abandon(c)
          \/ \E u \in User, p \in Password, s \in {"rehash", "insert"} : StartLogin(c, u, p, s)
          \/ Rehash(c) \/ InsertSession(c) \/ CommitLogin(c)
          \/ \E s \in sessions : StartRefresh(c, s)
          \/ CommitRefresh(c)
          \/ \E id \in Ids(sessions) : StartLogout(c, id)
          \/ CommitLogout(c)
          \/ \E s \in sessions, op \in Managing, u \in User :
                \E v \in Values(op), id \in Named(s, op) : StartManaging(c, s, op, u, v, id)
          \/ WriteAccount(c) \/ RevokeSessions(c)
          \/ CommitChange(c) \/ CommitDelete(c)
          \/ \E p \in Password, a \in BOOLEAN : CommitCreate(c, p, a)
    \/ PruneExpired
    \/ Tick

Spec == Init /\ [][Next]_vars

-----------------------------------------------------------------------------
TypeOK ==
    /\ now \in Nat
    /\ accounts \in [User -> Account \cup {NoAccount}]
    /\ sessions \subseteq Session /\ opened \in Nat
    /\ \A s \in sessions : s.id <= opened
    /\ calls \in [Caller -> Call]

\* There is always one owner, who is active, and only the owner's own calls change the
\* owner's account or sessions: no sequence of role changes, deletions and creations,
\* by however many managers at once, locks the owner out.
OwnerStands ==
    /\ \A u \in User : accounts[u].role = "owner" <=> u = Owner
    /\ accounts[Owner].active
    /\ \A c \in Caller : calls[c].op \in Managing /\ calls[c].user = Owner => calls[c].by = Owner

\* A session belongs to an account: a login that is under way while its account is
\* deleted leaves no session behind that a later account of the same name would own.
SessionsHaveAccounts == \A s \in sessions : Exists(s.user)

\* Refreshes, however many and however late, do not carry a session past the absolute
\* lifetime it was opened with.
NeverPastAbsoluteLifetime ==
    [][\A s \in sessions, t \in sessions' :
          s.id = t.id => t.absolute = s.absolute /\ t.expires <= s.absolute]_vars

\* A revoked session stays revoked, whatever calls were under way when it was revoked.
RevocationIsFinal ==
    [][\A s \in sessions, t \in sessions' : s.id = t.id /\ s.revoked => t.revoked]_vars

\* A password change and a deactivation end every session there was when the account
\* was changed, the expired ones included, which a late refresh may still extend.
EndedByAccountChange ==
    [][\A c \in Caller : CommitChange(c) /\ calls[c].op \in Ending =>
          \A s \in sessions' : s.id \in calls[c].known => s.revoked]_vars

\* A session is opened only with the password the account has then, while the account
\* is active.  Stated of the program in src/docs/TODO.md:441; it does not hold.
OpenedWithTheirPassword ==
    [][\A c \in Caller : CommitLogin(c) =>
          /\ accounts[calls[c].user].active
          /\ accounts[calls[c].user].password = calls[c].value]_vars

=============================================================================
