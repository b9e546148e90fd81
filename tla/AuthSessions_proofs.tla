------------------------ MODULE AuthSessions_proofs ------------------------
(***************************************************************************)
(* Proofs about AuthSessions, for any number of accounts, passwords and    *)
(* calls in progress, and for any lifetimes and clock.                     *)
(***************************************************************************)
EXTENDS AuthSessions, TLAPS

-----------------------------------------------------------------------------
(* The inductive invariant.                                                 *)

\* What a call has been checked to be: above all, a manager's call about the owner is
\* the owner's own, and none that could lock the owner out.
CallOK(r) ==
    /\ r.op = "login" => r.value \in Password
    /\ r.hashed => r.op = "login" /\ r.step = "commit"
    /\ r.op = "password" => r.value \in Password
    /\ r.op \in {"role", "create"} => r.value \in {"admin", "moderator"}
    /\ r.step = "write" => r.op \in Changing
    /\ r.step = "revoke" => r.op \in Ending \cup Revoking
    /\ r.op \in Managing /\ r.user = Owner => /\ r.by = Owner
                                              /\ r.op \in {"password"} \cup Revoking

CallsOK == \A c \in Caller : CallOK(calls[c])

\* Calls that have written an account's row, that have deleted it, and that refer to it.
Writes(r)  == r.hashed \/ (r.op \in Changing /\ r.step \in {"revoke", "commit"})
Deletes(r) == r.op = "delete" /\ r.step = "commit"
Refers(r)  == r.op = "login" /\ r.step = "commit"

\* The locks on a row keep its account for those who hold them, and nobody else holds
\* one while it is being deleted.
Locks ==
    \A c \in Caller :
       /\ Writes(calls[c]) \/ Refers(calls[c]) => Exists(calls[c].user)
       /\ Deletes(calls[c]) =>
             \A d \in Caller \ {c} : calls[d].user = calls[c].user =>
                ~Writes(calls[d]) /\ ~Refers(calls[d])

SessionsOK ==
    /\ \A s, t \in sessions : s.id = t.id => s = t
    /\ \A s \in sessions : s.expires <= s.absolute

OwnerOK ==
    /\ \A u \in User : accounts[u].role = "owner" <=> u = Owner
    /\ accounts[Owner].active

\* Of the sessions there were when a call wrote the account, those that are left belong
\* to the account, and the call has found them when it is about to commit.
KnownOK ==
    \A c \in Caller : calls[c].op \in Ending =>
       /\ \A i \in calls[c].known : i <= opened
       /\ \A s \in sessions : s.id \in calls[c].known =>
             /\ s.user = calls[c].user
             /\ calls[c].step = "commit" => s.id \in calls[c].ids

IInv == /\ TypeOK /\ CallsOK /\ Locks /\ SessionsOK
        /\ OwnerOK /\ SessionsHaveAccounts /\ KnownOK

\* An account that exists is one of an account's type.
LEMMA Accounts ==
    ASSUME TypeOK, NEW u \in User
    PROVE  Exists(u) <=> accounts[u] \in Account
BY DEF TypeOK, Exists, Account, NoAccount, Role

-----------------------------------------------------------------------------
(* Initially.                                                               *)

\* No call is in progress and the owner has one session.
LEMMA InitIInv == ASSUME Init PROVE IInv
<1> USE AuthAssumption
<1>1. Idle \in Call /\ Idle.op = "idle" /\ Idle.step = "" /\ ~Idle.hashed
  BY DEF Idle, Call
<1>2. TypeOK
  <2>1. Earlier(IdleLife, AbsoluteLife) \in Nat
    BY DEF Earlier
  <2>2. sessions \subseteq Session /\ \A s \in sessions : s.id <= opened
    BY <2>1 DEF Init, Session, SessionId
  <2> QED BY <1>1, <2>2 DEF Init, TypeOK
<1>3. OwnerOK
  BY DEF Init, OwnerOK
<1>4. SessionsOK
  BY DEF Init, SessionsOK, Earlier
<1>5. SessionsHaveAccounts
  BY DEF Init, SessionsHaveAccounts, Exists, NoAccount
<1>6. CallsOK /\ Locks /\ KnownOK
  BY <1>1 DEF Init, CallsOK, CallOK, Locks, KnownOK, Writes, Deletes, Refers, Changing,
     Managing, Revoking, Ending
<1> QED BY <1>2, <1>3, <1>4, <1>5, <1>6 DEF IInv

-----------------------------------------------------------------------------
(* What the calls do.                                                       *)

\* A step of a call that changes no data: where it goes on from.
LEMMA CallSteps ==
    ASSUME IInv, NEW c \in Caller,
           NEW r \in Call, calls' = [calls EXCEPT ![c] = r], CallOK(r),
           UNCHANGED <<now, accounts, sessions, opened>>,
           Writes(r) \/ Refers(r) => Exists(r.user),
           Deletes(r) => \A d \in Caller \ {c} : calls[d].user = r.user =>
                             ~Writes(calls[d]) /\ ~Refers(calls[d]),
           (Writes(r) \/ Refers(r)) => \A d \in Caller \ {c} :
                             calls[d].user = r.user => ~Deletes(calls[d]),
           r.op \in Ending =>
              /\ \A i \in r.known : i <= opened
              /\ \A s \in sessions : s.id \in r.known =>
                    s.user = r.user /\ (r.step = "commit" => s.id \in r.ids)
    PROVE  IInv'
<1>1. calls' \in [Caller -> Call] /\ calls'[c] = r
      /\ \A d \in Caller \ {c} : calls'[d] = calls[d]
  BY DEF IInv, TypeOK
<1>2. TypeOK'
  BY <1>1 DEF IInv, TypeOK
<1>3. CallsOK'
  BY <1>1 DEF IInv, CallsOK, CallOK
<1>4. Locks'
  BY <1>1 DEF IInv, Locks, Exists
<1>5. SessionsOK' /\ OwnerOK' /\ SessionsHaveAccounts'
  BY DEF IInv, SessionsOK, OwnerOK, SessionsHaveAccounts, Exists
<1>6. KnownOK'
  BY <1>1 DEF IInv, KnownOK
<1> QED BY <1>2, <1>3, <1>4, <1>5, <1>6 DEF IInv

\* An idle call has checked nothing and holds nothing.
LEMMA IdleOK ==
    /\ Idle \in Call /\ CallOK(Idle) /\ Idle.op = "idle"
    /\ ~Writes(Idle) /\ ~Refers(Idle) /\ ~Deletes(Idle)
    /\ Idle.op \notin Ending /\ Idle.op \notin Managing
BY AuthAssumption DEF Idle, Call, CallOK, Writes, Refers, Deletes, Changing, Managing,
   Revoking, Ending

\* A call that ends gives up what it held; the accounts others hold must be there still.
LEMMA CallEnds ==
    ASSUME IInv, NEW c \in Caller, Done(c),
           \A d \in Caller \ {c} : Writes(calls[d]) \/ Refers(calls[d])
                                     => accounts'[calls[d].user] # NoAccount
    PROVE  /\ calls' \in [Caller -> Call] /\ CallsOK' /\ Locks'
           /\ calls'[c] = Idle /\ \A d \in Caller \ {c} : calls'[d] = calls[d]
<1>1. /\ calls' \in [Caller -> Call] /\ calls'[c] = Idle
      /\ \A d \in Caller \ {c} : calls'[d] = calls[d]
  BY IdleOK DEF IInv, TypeOK, Done
<1>2. CallsOK'
  BY <1>1, IdleOK DEF IInv, CallsOK
<1>3. Locks'
  BY <1>1, IdleOK DEF IInv, Locks, Exists
<1> QED BY <1>1, <1>2, <1>3

\* A call given up.
LEMMA AbandonStep == ASSUME IInv, NEW c \in Caller, Abandon(c) PROVE IInv'
BY IdleOK, CallSteps DEF Abandon, Done

\* The steps of a login: nothing it reads is locked, and what it writes is.
LEMMA LoginSteps ==
    ASSUME IInv, NEW c \in Caller,
           \/ \E u \in User, p \in Password, s \in {"rehash", "insert"} : StartLogin(c, u, p, s)
           \/ Rehash(c) \/ InsertSession(c)
    PROVE  IInv'
<1> USE DEF Changing, Managing, Revoking, Ending
<1>1. ASSUME NEW u \in User, NEW p \in Password, NEW s \in {"rehash", "insert"},
             StartLogin(c, u, p, s)
      PROVE  IInv'
  <2> DEFINE r == [Idle EXCEPT !.op = "login", !.at = now, !.by = u, !.user = u, !.value = p,
                               !.step = s]
  <2>1. r \in Call /\ CallOK(r) /\ ~Writes(r) /\ ~Refers(r) /\ ~Deletes(r) /\ r.op = "login"
    BY AuthAssumption DEF IInv, TypeOK, Idle, Call, CallOK, Writes, Refers, Deletes
  <2>2. calls' = [calls EXCEPT ![c] = r]
    BY <1>1 DEF StartLogin
  <2> QED BY <1>1, <2>1, <2>2, CallSteps DEF StartLogin
<1>2. CASE Rehash(c)
  <2> DEFINE r == [calls[c] EXCEPT !.hashed = TRUE, !.step = "commit"]
  <2>1. calls[c] \in Call /\ CallOK(calls[c])
    BY DEF IInv, TypeOK, CallsOK
  <2>2. /\ r \in Call /\ CallOK(r) /\ ~Deletes(r) /\ r.op = "login"
        /\ r.user = calls[c].user
    BY <1>2, <2>1 DEF Rehash, Call, CallOK, Deletes
  <2>3. calls' = [calls EXCEPT ![c] = r]
    BY <1>2, <2>1 DEF Rehash, IInv, TypeOK
  <2>4. Exists(r.user) /\ \A d \in Caller \ {c} : calls[d].user = r.user => ~Deletes(calls[d])
    BY <1>2, <2>2 DEF Rehash, Written, Deletes
  <2> HIDE DEF r
  <2> QED BY <1>2, <2>2, <2>3, <2>4, CallSteps DEF Rehash
<1>3. CASE InsertSession(c)
  <2> DEFINE r == [calls[c] EXCEPT !.step = "commit"]
  <2>1. calls[c] \in Call /\ CallOK(calls[c])
    BY DEF IInv, TypeOK, CallsOK
  <2>2. /\ r \in Call /\ CallOK(r) /\ ~Deletes(r) /\ r.op = "login"
        /\ r.user = calls[c].user
    BY <1>3, <2>1 DEF InsertSession, Call, CallOK, Deletes
  <2>3. calls' = [calls EXCEPT ![c] = r]
    BY <1>3, <2>1 DEF InsertSession, Step, IInv, TypeOK
  <2>4. Exists(r.user) /\ \A d \in Caller \ {c} : calls[d].user = r.user => ~Deletes(calls[d])
    BY <1>3, <2>2 DEF InsertSession, Deleted, Deletes
  <2> HIDE DEF r
  <2> QED BY <1>3, <2>2, <2>3, <2>4, CallSteps DEF InsertSession
<1> QED BY <1>1, <1>2, <1>3

\* A refresh and a logout that begin.
LEMMA SessionCalls ==
    ASSUME IInv, NEW c \in Caller,
           \/ \E s \in sessions : StartRefresh(c, s)
           \/ \E id \in Ids(sessions) : StartLogout(c, id)
    PROVE  IInv'
<1> USE DEF Changing, Managing, Revoking, Ending
<1>1. ASSUME NEW s \in sessions, StartRefresh(c, s) PROVE IInv'
  <2> DEFINE r == [Idle EXCEPT !.op = "refresh", !.at = now, !.by = s.user, !.user = s.user,
                               !.session = s.id, !.step = "commit"]
  <2>1. s \in Session /\ now \in Nat
    BY DEF IInv, TypeOK
  <2>2. r \in Call /\ CallOK(r) /\ ~Writes(r) /\ ~Refers(r) /\ ~Deletes(r) /\ r.op = "refresh"
    BY <2>1, AuthAssumption DEF Session, SessionId, Idle, Call, CallOK, Writes, Refers, Deletes
  <2>3. calls' = [calls EXCEPT ![c] = r]
    BY <1>1 DEF StartRefresh
  <2> QED BY <1>1, <2>2, <2>3, CallSteps DEF StartRefresh
<1>2. ASSUME NEW id \in Ids(sessions), StartLogout(c, id) PROVE IInv'
  <2> DEFINE r == [Idle EXCEPT !.op = "logout", !.session = id, !.step = "commit"]
  <2>1. id \in Nat
    BY DEF IInv, TypeOK, Ids, Session, SessionId
  <2>2. r \in Call /\ CallOK(r) /\ ~Writes(r) /\ ~Refers(r) /\ ~Deletes(r) /\ r.op = "logout"
    BY <2>1, AuthAssumption DEF Idle, Call, CallOK, Writes, Refers, Deletes
  <2>3. calls' = [calls EXCEPT ![c] = r]
    BY <1>2 DEF StartLogout
  <2> QED BY <1>2, <2>2, <2>3, CallSteps DEF StartLogout
<1> QED BY <1>1, <1>2

\* A manager's call that begins: who is allowed what decides here.
LEMMA ManagingStart ==
    ASSUME IInv, NEW c \in Caller, NEW s \in sessions, NEW op \in Managing, NEW u \in User,
           NEW v \in Values(op), NEW id \in Named(s, op), StartManaging(c, s, op, u, v, id)
    PROVE  IInv'
<1> DEFINE r == [Idle EXCEPT !.op = op, !.by = s.user, !.user = u, !.session = id, !.value = v,
                             !.step = CASE op \in Changing -> "write"
                                        [] op \in Revoking -> "revoke"
                                        [] OTHER           -> "commit"]
<1>1. s \in Session /\ opened \in Nat
  BY DEF IInv, TypeOK
<1>2. id \in Nat
  BY <1>1 DEF Named, Session, SessionId
<1>3. /\ v \in Password \cup Role \cup {None}
      /\ op = "password" => v \in Password
      /\ op \in {"role", "create"} => v \in {"admin", "moderator"}
  BY DEF Values, Role
<1>4. r.step \in {"write", "revoke", "commit"} /\ (op \in Changing => r.step = "write")
  BY DEF Changing, Revoking, Ending, Idle
<1>5. r \in Call
  BY <1>1, <1>2, <1>3, <1>4, AuthAssumption DEF Session, Idle, Call
<1>6. u = Owner => s.user = Owner /\ op \in {"password"} \cup Revoking
  <2>1. Exists(Owner) /\ accounts[Owner].role = "owner"
    BY AuthAssumption DEF IInv, OwnerOK, Exists, NoAccount
  <2>2. s.user # Owner => accounts[s.user].role # "owner"
    BY <1>1 DEF IInv, OwnerOK, Session
  <2> QED BY <2>1, <2>2 DEF StartManaging, Manages
<1>7. r.op = op /\ r.by = s.user /\ r.user = u /\ r.value = v /\ ~r.hashed /\ r.known = {}
  BY DEF Idle
<1>8. CallOK(r)
  BY <1>3, <1>6, <1>7 DEF CallOK, Managing, Changing, Revoking, Ending
<1>9. ~Writes(r) /\ ~Refers(r) /\ ~Deletes(r)
  BY <1>4, <1>7 DEF Writes, Refers, Deletes, Managing, Changing, Revoking, Ending
<1>10. calls' = [calls EXCEPT ![c] = r]
  BY DEF StartManaging
<1> HIDE DEF r
<1> QED BY <1>5, <1>7, <1>8, <1>9, <1>10, CallSteps DEF StartManaging

\* The account's row is written under its lock, and its sessions are the ones known.
LEMMA WriteStep == ASSUME IInv, NEW c \in Caller, WriteAccount(c) PROVE IInv'
<1> DEFINE r == [calls[c] EXCEPT
                    !.step = IF calls[c].op \in Ending THEN "revoke" ELSE "commit",
                    !.known = IF calls[c].op \in Ending THEN Ids(SessionsOf(calls[c].user)) ELSE {}]
<1>1. calls[c] \in Call /\ CallOK(calls[c]) /\ calls[c].step = "write"
  BY DEF IInv, TypeOK, CallsOK, WriteAccount
<1>2. Ids(SessionsOf(calls[c].user)) \in SUBSET SessionId
  BY DEF IInv, TypeOK, Ids, SessionsOf, Session
<1>3. r \in Call
  BY <1>1, <1>2 DEF Call
<1>4. /\ r.op = calls[c].op /\ r.user = calls[c].user /\ r.hashed = calls[c].hashed
      /\ r.value = calls[c].value /\ r.by = calls[c].by
      /\ r.op \in Ending => r.step = "revoke" /\ r.known = Ids(SessionsOf(r.user))
  BY <1>1 DEF Call
<1>5. CallOK(r) /\ ~r.hashed
  BY <1>1, <1>4 DEF CallOK
<1>6. calls' = [calls EXCEPT ![c] = r]
  BY <1>1 DEF WriteAccount, IInv, TypeOK
<1>7. Exists(r.user) /\ \A d \in Caller \ {c} : calls[d].user = r.user =>
         ~Writes(calls[d]) /\ ~Deletes(calls[d]) /\ (Deletes(r) => ~Refers(calls[d]))
  BY <1>4 DEF WriteAccount, Written, Referred, Writes, Deletes, Refers, Changing
<1>8. r.op \in Ending =>
         /\ \A i \in r.known : i <= opened
         /\ \A s \in sessions : s.id \in r.known => s.user = r.user
  BY <1>4 DEF IInv, TypeOK, SessionsOK, Ids, SessionsOf
<1>9. r.op \in Ending => r.step # "commit"
  BY <1>4
<1> HIDE DEF r
<1> QED BY <1>3, <1>5, <1>6, <1>7, <1>8, <1>9, CallSteps DEF WriteAccount

\* Its sessions are found, the known ones that are left among them.
LEMMA RevokeStep == ASSUME IInv, NEW c \in Caller, RevokeSessions(c) PROVE IInv'
<1> DEFINE found == {i \in Ids(SessionsOf(calls[c].user)) :
                        /\ calls[c].op = "session" => i = calls[c].session
                        /\ calls[c].op = "others"  => i # calls[c].session}
<1> DEFINE r == [calls[c] EXCEPT !.step = "commit", !.ids = found]
<1>1. calls[c] \in Call /\ CallOK(calls[c]) /\ calls[c].step = "revoke"
  BY DEF IInv, TypeOK, CallsOK, RevokeSessions
<1>2. found \in SUBSET SessionId
  BY DEF IInv, TypeOK, Ids, SessionsOf, Session
<1>3. r \in Call
  BY <1>1, <1>2 DEF Call
<1>4. /\ r.op = calls[c].op /\ r.user = calls[c].user /\ r.hashed = calls[c].hashed
      /\ r.value = calls[c].value /\ r.by = calls[c].by /\ r.step = "commit"
      /\ r.known = calls[c].known /\ r.ids = found
  BY <1>1 DEF Call
<1>5. CallOK(r) /\ ~r.hashed
  BY <1>1, <1>4 DEF CallOK
<1>6. calls' = [calls EXCEPT ![c] = r]
  BY <1>1 DEF RevokeSessions, IInv, TypeOK
<1>7. ~Refers(r) /\ ~Deletes(r) /\ (Writes(r) => Writes(calls[c]))
  <2>1. calls[c].op # "delete" /\ calls[c].op # "login"
    BY <1>1 DEF CallOK, Ending, Revoking
  <2> QED BY <1>1, <1>4, <1>5, <2>1 DEF Refers, Deletes, Writes
<1>8. Writes(calls[c]) => /\ Exists(calls[c].user)
                          /\ \A d \in Caller \ {c} :
                                calls[d].user = calls[c].user => ~Deletes(calls[d])
  BY DEF IInv, Locks
<1>9. r.op \in Ending =>
         /\ \A i \in r.known : i <= opened
         /\ \A s \in sessions : s.id \in r.known => s.user = r.user /\ s.id \in r.ids
  BY <1>4 DEF IInv, KnownOK, Ids, SessionsOf, Ending
<1> HIDE DEF r, found
<1> QED BY <1>3, <1>4, <1>5, <1>6, <1>7, <1>8, <1>9, CallSteps DEF RevokeSessions

-----------------------------------------------------------------------------
(* What the commits do.                                                     *)

\* A login leaves a session under an id of its own.
LEMMA CommitLoginStep == ASSUME IInv, NEW c \in Caller, CommitLogin(c) PROVE IInv'
<1> DEFINE last == calls[c].at + AbsoluteLife
           new  == [id |-> opened + 1, user |-> calls[c].user, absolute |-> last,
                    expires |-> Earlier(calls[c].at + IdleLife, last), revoked |-> FALSE]
<1>1. /\ calls[c] \in Call /\ CallOK(calls[c]) /\ calls[c].op = "login"
      /\ calls[c].step = "commit" /\ Exists(calls[c].user) /\ opened \in Nat
  BY DEF IInv, TypeOK, CallsOK, Locks, Refers, CommitLogin
<1>2. new \in Session /\ new.expires <= new.absolute
  <2>1. calls[c].at \in Nat /\ calls[c].user \in User
    BY <1>1 DEF Call
  <2>2. last \in Nat /\ calls[c].at + IdleLife \in Nat
    BY <2>1, AuthAssumption
  <2> DEFINE e == Earlier(calls[c].at + IdleLife, last)
  <2>3. e \in Nat /\ e <= last
    BY <2>2 DEF Earlier
  <2>4. new = [id |-> opened + 1, user |-> calls[c].user, absolute |-> last, expires |-> e,
               revoked |-> FALSE]
    OBVIOUS
  <2> HIDE DEF last, e
  <2> QED BY <1>1, <2>1, <2>2, <2>3, <2>4 DEF Session, SessionId
<1>3. sessions' = sessions \cup {new} /\ opened' = opened + 1
  BY DEF CommitLogin
<1>4. /\ accounts' \in [User -> Account \cup {NoAccount}]
      /\ \A u \in User : /\ Exists(u) => Exists(u)'
                         /\ accounts'[u].role = accounts[u].role
                         /\ accounts'[u].active = accounts[u].active
  <2>1. calls[c].user \in User /\ calls[c].value \in Password
    BY <1>1 DEF Call, CallOK
  <2>2. accounts[calls[c].user] \in Account
    BY <1>1, <2>1, Accounts DEF IInv
  <2> QED BY <2>1, <2>2 DEF CommitLogin, IInv, TypeOK, Exists, Account, NoAccount, Role
<1>5. Done(c)
  BY DEF CommitLogin
<1>6. /\ calls' \in [Caller -> Call] /\ CallsOK' /\ Locks'
      /\ calls'[c] = Idle /\ \A d \in Caller \ {c} : calls'[d] = calls[d]
  <2>1. \A d \in Caller : calls[d].user \in User
    BY DEF IInv, TypeOK, Call
  <2>2. \A d \in Caller : Writes(calls[d]) \/ Refers(calls[d])
                           => accounts'[calls[d].user] # NoAccount
    BY <1>4, <2>1 DEF IInv, Locks, Exists
  <2> QED BY <1>5, <2>2, CallEnds
<1>7. TypeOK'
  <2>1. sessions' \subseteq Session
    BY <1>2, <1>3 DEF IInv, TypeOK
  <2> HIDE DEF last
  <2>3. \A s \in sessions' : s.id <= opened'
    <3>1. \A s \in sessions : s.id \in Nat /\ s.id <= opened
      BY DEF IInv, TypeOK, Session, SessionId
    <3>2. new.id = opened + 1
      OBVIOUS
    <3> HIDE DEF new
    <3> QED BY <1>1, <1>3, <3>1, <3>2
  <2>2. now' = now /\ opened' \in Nat
    BY <1>1, <1>3 DEF CommitLogin
  <2> QED BY <1>4, <1>6, <2>1, <2>2, <2>3 DEF IInv, TypeOK
<1>8. SessionsOK'
  <2>1. \A s \in sessions : s.id # new.id
    BY <1>1 DEF IInv, TypeOK, Session, SessionId
  <2> QED BY <1>2, <1>3, <2>1 DEF IInv, SessionsOK
<1>9. OwnerOK'
  BY <1>4, AuthAssumption DEF IInv, OwnerOK
<1>10. SessionsHaveAccounts'
  <2>1. new.user = calls[c].user /\ calls[c].user \in User
    BY <1>1 DEF Call
  <2>2. \A s \in sessions : s.user \in User /\ Exists(s.user)
    BY DEF IInv, TypeOK, Session, SessionsHaveAccounts
  <2> HIDE DEF new
  <2> QED BY <1>1, <1>3, <1>4, <2>1, <2>2 DEF SessionsHaveAccounts, Exists
<1>11. KnownOK'
  <2>1. \A d \in Caller \ {c} : calls[d].op \in Ending => new.id \notin calls[d].known
    BY <1>1 DEF IInv, KnownOK
  <2>2. \A d \in Caller \ {c} : calls[d].op \in Ending => \A i \in calls[d].known : i <= opened + 1
    <3> SUFFICES ASSUME NEW d \in Caller \ {c}, calls[d].op \in Ending, NEW i \in calls[d].known
                 PROVE  i <= opened + 1
      OBVIOUS
    <3>1. i <= opened
      BY DEF IInv, KnownOK
    <3>2. i \in Nat
      BY DEF IInv, TypeOK, Call, SessionId
    <3> QED BY <1>1, <3>1, <3>2
  <2> QED BY <1>3, <1>6, <2>1, <2>2, IdleOK DEF IInv, KnownOK
<1> QED BY <1>6, <1>7, <1>8, <1>9, <1>10, <1>11 DEF IInv

\* Sessions that are what is left of earlier ones keep their ids.
LEMMA SessionsLeft ==
    ASSUME IInv, sessions' \subseteq Session, opened' = opened,
           \A t \in sessions' : \E s \in sessions : s.id = t.id /\ s.user = t.user
    PROVE  /\ \A s \in sessions' : s.id <= opened'
           /\ \A d \in Caller : calls[d].op \in Ending =>
                 /\ \A i \in calls[d].known : i <= opened'
                 /\ \A s \in sessions' : s.id \in calls[d].known =>
                       /\ s.user = calls[d].user
                       /\ calls[d].step = "commit" => s.id \in calls[d].ids
BY DEF IInv, TypeOK, KnownOK

\* Any other commit leaves sessions there were, possibly fewer, and the accounts others
\* have locked.
LEMMA Commits ==
    ASSUME IInv, NEW c \in Caller, Done(c), UNCHANGED <<now, opened>>,
           accounts' \in [User -> Account \cup {NoAccount}], OwnerOK',
           sessions' \subseteq Session, SessionsOK',
           \A t \in sessions' : \E s \in sessions : s.id = t.id /\ s.user = t.user,
           \A t \in sessions' : accounts'[t.user] # NoAccount,
           \A d \in Caller \ {c} : Writes(calls[d]) \/ Refers(calls[d])
                                     => accounts'[calls[d].user] # NoAccount
    PROVE  IInv'
<1>1. /\ calls' \in [Caller -> Call] /\ CallsOK' /\ Locks'
      /\ calls'[c] = Idle /\ \A d \in Caller \ {c} : calls'[d] = calls[d]
  BY CallEnds
<1>2. TypeOK'
  BY <1>1, SessionsLeft DEF IInv, TypeOK
<1>3. SessionsHaveAccounts'
  BY DEF SessionsHaveAccounts, Exists
<1>4. KnownOK'
  BY <1>1, IdleOK, SessionsLeft DEF KnownOK
<1> QED BY <1>1, <1>2, <1>3, <1>4 DEF IInv

\* Accounts that do not change are there for the sessions and for the locks.
LEMMA AccountsStay ==
    ASSUME IInv
    PROVE  /\ \A s \in sessions : accounts[s.user] # NoAccount
           /\ \A d \in Caller : Writes(calls[d]) \/ Refers(calls[d])
                                 => accounts[calls[d].user] # NoAccount
BY DEF IInv, SessionsHaveAccounts, Locks, Exists

\* A refresh moves one session's end, within its absolute lifetime.
LEMMA CommitRefreshStep == ASSUME IInv, NEW c \in Caller, CommitRefresh(c) PROVE IInv'
<1>1. PICK s \in sessions :
         sessions' = (sessions \ {s}) \cup
            {[s EXCEPT !.expires = Earlier(calls[c].at + IdleLife, s.absolute)]}
  BY DEF CommitRefresh
<1> DEFINE e == Earlier(calls[c].at + IdleLife, s.absolute)
           t == [s EXCEPT !.expires = e]
<1>2. s \in Session /\ calls[c].at \in Nat
  BY DEF IInv, TypeOK, Call
<1>3. e \in Nat /\ e <= s.absolute
  <2>1. calls[c].at + IdleLife \in Nat /\ s.absolute \in Nat
    BY <1>2, AuthAssumption DEF Session
  <2> QED BY <2>1 DEF Earlier
<1>4. sessions' = (sessions \ {s}) \cup {t}
  BY <1>1
<1> HIDE DEF e
<1>5. /\ t \in Session /\ t.id = s.id /\ t.user = s.user /\ t.absolute = s.absolute
      /\ t.expires = e
  BY <1>2, <1>3 DEF Session
<1> HIDE DEF t
<1>6. sessions' \subseteq Session
  BY <1>4, <1>5 DEF IInv, TypeOK
<1>7. SessionsOK'
  BY <1>3, <1>4, <1>5 DEF IInv, SessionsOK
<1>8. UNCHANGED <<now, accounts, opened>> /\ Done(c)
  BY DEF CommitRefresh
<1>9. \A x \in sessions' : \E y \in sessions : y.id = x.id /\ y.user = x.user
  BY <1>4, <1>5
<1>10. accounts' \in [User -> Account \cup {NoAccount}] /\ OwnerOK'
  BY <1>8 DEF IInv, TypeOK, OwnerOK
<1>11. \A x \in sessions' : accounts'[x.user] # NoAccount
  BY <1>4, <1>5, <1>8, AccountsStay
<1>12. \A d \in Caller \ {c} : Writes(calls[d]) \/ Refers(calls[d])
                                  => accounts'[calls[d].user] # NoAccount
  BY <1>8, AccountsStay
<1> QED BY <1>6, <1>7, <1>8, <1>9, <1>10, <1>11, <1>12, Commits

\* Revoking changes nothing else of a session.
LEMMA Revoked ==
    ASSUME IInv, NEW I, RevokeIds(I)
    PROVE  /\ sessions' \subseteq Session /\ SessionsOK'
           /\ \A t \in sessions' : \E s \in sessions :
                 /\ s.id = t.id /\ s.user = t.user /\ s.absolute = t.absolute
                 /\ s.expires = t.expires /\ t.revoked = (s.revoked \/ s.id \in I)
<1>1. \A t \in sessions' : \E s \in sessions :
         t = [s EXCEPT !.revoked = s.revoked \/ s.id \in I]
  BY DEF RevokeIds
<1>2. \A s \in sessions : s \in Session
  BY DEF IInv, TypeOK
<1>3. \A t \in sessions' : t \in Session /\ \E s \in sessions :
         /\ t = [s EXCEPT !.revoked = s.revoked \/ s.id \in I]
         /\ s.id = t.id /\ s.user = t.user /\ s.absolute = t.absolute
         /\ s.expires = t.expires /\ t.revoked = (s.revoked \/ s.id \in I)
  BY <1>1, <1>2, Zenon DEF Session
<1>4. SessionsOK'
  BY <1>3 DEF IInv, SessionsOK
<1> QED BY <1>3, <1>4

\* A logout.
LEMMA CommitLogoutStep == ASSUME IInv, NEW c \in Caller, CommitLogout(c) PROVE IInv'
<1>1. UNCHANGED <<now, accounts, opened>> /\ Done(c) /\ RevokeIds({calls[c].session})
  BY DEF CommitLogout
<1>2. accounts' \in [User -> Account \cup {NoAccount}] /\ OwnerOK'
  BY <1>1 DEF IInv, TypeOK, OwnerOK
<1>3. /\ sessions' \subseteq Session /\ SessionsOK'
      /\ \A t \in sessions' : \E s \in sessions : s.id = t.id /\ s.user = t.user
  BY <1>1, Revoked
<1>4. \A t \in sessions' : accounts'[t.user] # NoAccount
  BY <1>1, <1>3, AccountsStay
<1>5. \A d \in Caller \ {c} : Writes(calls[d]) \/ Refers(calls[d])
                                 => accounts'[calls[d].user] # NoAccount
  BY <1>1, AccountsStay
<1> QED BY <1>1, <1>2, <1>3, <1>4, <1>5, Commits

\* A change of an account keeps it, and an owner's change of his own keeps him the owner.
LEMMA CommitChangeStep == ASSUME IInv, NEW c \in Caller, CommitChange(c) PROVE IInv'
<1> DEFINE r == calls[c]
<1>1. /\ UNCHANGED <<now, opened>> /\ Done(c) /\ RevokeIds(r.ids)
      /\ r \in Call /\ CallOK(r) /\ r.user \in User
  BY DEF CommitChange, IInv, TypeOK, CallsOK, Call
<1>2. /\ accounts' \in [User -> Account \cup {NoAccount}] /\ OwnerOK'
      /\ \A u \in User : accounts[u] # NoAccount => accounts'[u] # NoAccount
  <2>1. CASE r.op \notin Changing
    BY <2>1 DEF CommitChange, IInv, TypeOK, OwnerOK
  <2>2. CASE r.op \in Changing
    <3> DEFINE a == Changed(accounts[r.user], r.op, r.value)
    <3>1. accounts' = [accounts EXCEPT ![r.user] = a]
      BY <2>2 DEF CommitChange
    <3>2. r.op \in {"password", "deactivate", "activate", "role"}
      BY <2>2 DEF CommitChange, Changing, Ending
    <3>3. accounts[r.user] \in Account
      BY <1>1, <2>2, Accounts DEF CommitChange, IInv, Locks, Writes
    <3>4. r.user = Owner => r.op = "password"
      BY <1>1, <3>2 DEF CallOK, Managing, Changing, Ending, Revoking
    <3>5. /\ r.op = "password" => r.value \in Password
          /\ r.op = "role" => r.value \in {"admin", "moderator"}
      BY <1>1 DEF CallOK
    <3>6. /\ a \in Account /\ (r.op # "role" => a.role = accounts[r.user].role)
          /\ r.op = "role" => a.role # "owner"
          /\ r.op = "password" => a.active = accounts[r.user].active
      BY <3>2, <3>3, <3>5 DEF Changed, Account, Role
    <3> HIDE DEF a
    <3>7. a # NoAccount
      BY <3>6 DEF Account, NoAccount, Role
    <3>8. accounts' \in [User -> Account \cup {NoAccount}]
          /\ \A u \in User : accounts'[u] = IF u = r.user THEN a ELSE accounts[u]
      BY <1>1, <3>1, <3>6 DEF IInv, TypeOK
    <3>9. OwnerOK'
      BY <1>1, <3>4, <3>6, <3>8, AuthAssumption DEF IInv, OwnerOK
    <3> QED BY <3>7, <3>8, <3>9
  <2> QED BY <2>1, <2>2
<1>3. /\ sessions' \subseteq Session /\ SessionsOK'
      /\ \A t \in sessions' : \E s \in sessions : s.id = t.id /\ s.user = t.user
  BY <1>1, Revoked
<1>4. \A t \in sessions' : accounts'[t.user] # NoAccount
  BY <1>2, <1>3, AccountsStay DEF Session
<1>5. \A d \in Caller \ {c} : Writes(calls[d]) \/ Refers(calls[d])
                                 => accounts'[calls[d].user] # NoAccount
  BY <1>2, AccountsStay DEF IInv, TypeOK, Call
<1> HIDE DEF r
<1> QED BY <1>1, <1>2, <1>3, <1>4, <1>5, Commits

\* A deletion takes the account's sessions along, and nobody else holds the account.
LEMMA CommitDeleteStep == ASSUME IInv, NEW c \in Caller, CommitDelete(c) PROVE IInv'
<1> DEFINE u == calls[c].user
<1>1. /\ UNCHANGED <<now, opened>> /\ Done(c) /\ u \in User /\ u # Owner
      /\ accounts' = [accounts EXCEPT ![u] = NoAccount]
      /\ sessions' = sessions \ SessionsOf(u)
  BY DEF CommitDelete, IInv, TypeOK, CallsOK, CallOK, Call, Managing, Changing, Ending, Revoking
<1>2. accounts' \in [User -> Account \cup {NoAccount}]
      /\ \A v \in User : accounts'[v] = IF v = u THEN NoAccount ELSE accounts[v]
  BY <1>1 DEF IInv, TypeOK
<1>3. OwnerOK'
  BY <1>1, <1>2, AuthAssumption DEF IInv, OwnerOK, NoAccount
<1>4. /\ sessions' \subseteq Session /\ SessionsOK'
      /\ \A t \in sessions' : \E s \in sessions : s.id = t.id /\ s.user = t.user
  BY <1>1 DEF IInv, TypeOK, SessionsOK
<1>5. \A t \in sessions' : accounts'[t.user] # NoAccount
  BY <1>1, <1>2, AccountsStay DEF IInv, TypeOK, Session, SessionsOf
<1>6. \A d \in Caller \ {c} : Writes(calls[d]) \/ Refers(calls[d])
                                 => accounts'[calls[d].user] # NoAccount
  <2>1. \A d \in Caller \ {c} : Writes(calls[d]) \/ Refers(calls[d]) => calls[d].user # u
    BY DEF CommitDelete, IInv, Locks, Deletes
  <2>2. \A d \in Caller : calls[d].user \in User
    BY DEF IInv, TypeOK, Call
  <2> QED BY <1>2, <2>1, <2>2, AccountsStay
<1> HIDE DEF u
<1> QED BY <1>1, <1>2, <1>3, <1>4, <1>5, <1>6, Commits

\* A creation takes a name that is free.
LEMMA CommitCreateStep ==
    ASSUME IInv, NEW c \in Caller, NEW p \in Password, NEW active \in BOOLEAN,
           CommitCreate(c, p, active)
    PROVE  IInv'
<1> DEFINE u == calls[c].user
           a == [role |-> calls[c].value, password |-> p, active |-> active]
<1>1. /\ UNCHANGED <<now, sessions, opened>> /\ Done(c) /\ u \in User
      /\ accounts' = [accounts EXCEPT ![u] = a] /\ accounts[u] = NoAccount
  BY DEF CommitCreate, IInv, TypeOK, Call, Exists
<1>2. a \in Account /\ a.role # "owner" /\ u # Owner
  BY DEF CommitCreate, IInv, CallsOK, CallOK, Managing, Changing, Ending, Revoking, Account, Role
<1> HIDE DEF a
<1>3. a # NoAccount
  BY <1>2 DEF Account, NoAccount, Role
<1>4. accounts' \in [User -> Account \cup {NoAccount}]
      /\ \A v \in User : accounts'[v] = IF v = u THEN a ELSE accounts[v]
  BY <1>1, <1>2 DEF IInv, TypeOK
<1>5. OwnerOK'
  BY <1>2, <1>4, AuthAssumption DEF IInv, OwnerOK
<1>6. /\ sessions' \subseteq Session /\ SessionsOK'
      /\ \A t \in sessions' : \E s \in sessions : s.id = t.id /\ s.user = t.user
  BY <1>1 DEF IInv, TypeOK, SessionsOK
<1>7. \A t \in sessions' : accounts'[t.user] # NoAccount
  BY <1>1, <1>3, <1>4, AccountsStay DEF IInv, TypeOK, Session
<1>8. \A d \in Caller \ {c} : Writes(calls[d]) \/ Refers(calls[d])
                                 => accounts'[calls[d].user] # NoAccount
  BY <1>3, <1>4, AccountsStay DEF IInv, TypeOK, Call
<1> HIDE DEF u
<1> QED BY <1>1, <1>4, <1>5, <1>6, <1>7, <1>8, Commits

\* The clean-up and the clock.
LEMMA OtherSteps == ASSUME IInv, PruneExpired \/ Tick PROVE IInv'
<1>1. UNCHANGED <<accounts, opened, calls>> /\ sessions' \subseteq sessions /\ now' \in Nat
  BY DEF PruneExpired, Tick, IInv, TypeOK
<1>2. TypeOK' /\ CallsOK' /\ Locks' /\ OwnerOK'
  BY <1>1 DEF IInv, TypeOK, CallsOK, Locks, OwnerOK, Exists
<1>3. SessionsOK' /\ SessionsHaveAccounts' /\ KnownOK'
  BY <1>1 DEF IInv, SessionsOK, SessionsHaveAccounts, KnownOK, Exists
<1> QED BY <1>2, <1>3 DEF IInv

-----------------------------------------------------------------------------
(* The theorems.                                                            *)

\* Every step keeps the invariant.
LEMMA Inductive == IInv /\ [Next]_vars => IInv'
<1> SUFFICES ASSUME IInv, [Next]_vars PROVE IInv'
  OBVIOUS
<1>1. CASE UNCHANGED vars
  BY <1>1 DEF vars, IInv, TypeOK, CallsOK, Locks, SessionsOK, OwnerOK, SessionsHaveAccounts,
     KnownOK, Exists
<1>2. ASSUME NEW c \in Caller, Abandon(c) PROVE IInv'
  BY <1>2, AbandonStep
<1>3. ASSUME NEW c \in Caller,
             \/ \E u \in User, p \in Password, s \in {"rehash", "insert"} : StartLogin(c, u, p, s)
             \/ Rehash(c) \/ InsertSession(c)
      PROVE  IInv'
  BY <1>3, LoginSteps
<1>4. ASSUME NEW c \in Caller, CommitLogin(c) PROVE IInv'
  BY <1>4, CommitLoginStep
<1>5. ASSUME NEW c \in Caller,
             \/ \E s \in sessions : StartRefresh(c, s)
             \/ \E id \in Ids(sessions) : StartLogout(c, id)
      PROVE  IInv'
  BY <1>5, SessionCalls
<1>6. ASSUME NEW c \in Caller, CommitRefresh(c) \/ CommitLogout(c) PROVE IInv'
  BY <1>6, CommitRefreshStep, CommitLogoutStep
<1>7. ASSUME NEW c \in Caller, NEW s \in sessions, NEW op \in Managing, NEW u \in User,
             NEW v \in Values(op), NEW id \in Named(s, op), StartManaging(c, s, op, u, v, id)
      PROVE  IInv'
  BY <1>7, ManagingStart
<1>8. ASSUME NEW c \in Caller,
             WriteAccount(c) \/ RevokeSessions(c) \/ CommitChange(c) \/ CommitDelete(c)
      PROVE  IInv'
  BY <1>8, WriteStep, RevokeStep, CommitChangeStep, CommitDeleteStep
<1>9. ASSUME NEW c \in Caller, NEW p \in Password, NEW a \in BOOLEAN, CommitCreate(c, p, a)
      PROVE  IInv'
  BY <1>9, CommitCreateStep
<1> QED BY <1>1, <1>2, <1>3, <1>4, <1>5, <1>6, <1>7, <1>8, <1>9, OtherSteps DEF Next

\* The invariant holds always.
THEOREM Invariant == Spec => []IInv
<1>1. Init => IInv
  BY InitIInv
<1> QED BY <1>1, Inductive, PTL DEF Spec

\* Every variable keeps its type, whatever calls do at the same time.
THEOREM TypeCorrect == Spec => []TypeOK
BY Invariant, PTL DEF IInv

\* The owner is never locked out, and nobody else touches the owner's account.
THEOREM OwnerNeverLockedOut == Spec => []OwnerStands
<1>1. IInv => OwnerStands
  BY DEF IInv, OwnerOK, CallsOK, CallOK, OwnerStands
<1> QED BY <1>1, Invariant, PTL

\* No session outlives its account, not even one a login is just opening.
THEOREM NoOrphanSessions == Spec => []SessionsHaveAccounts
BY Invariant, PTL DEF IInv

\* What may become of a session.
SessionKept(s, t) ==
    /\ t.absolute = s.absolute /\ t.expires <= s.absolute
    /\ s.revoked => t.revoked

\* Sessions that stay as they are do.
LEMMA Unchanged ==
    ASSUME IInv, NEW T, T \subseteq sessions, NEW s \in sessions, NEW t \in T, s.id = t.id
    PROVE  SessionKept(s, t)
BY DEF IInv, SessionsOK, SessionKept

\* A step leaves a session its absolute lifetime and, once revoked, revoked.
LEMMA SessionStep ==
    ASSUME IInv, [Next]_vars, NEW s \in sessions, NEW t \in sessions', s.id = t.id
    PROVE  SessionKept(s, t)
<1>1. CASE sessions' \subseteq sessions
  BY <1>1, Unchanged
<1>2. ASSUME NEW c \in Caller, CommitLogin(c) PROVE SessionKept(s, t)
  <2>1. t \notin sessions => t.id = opened + 1
    BY <1>2 DEF CommitLogin
  <2>2. s.id \in Nat /\ opened \in Nat /\ s.id <= opened
    BY DEF IInv, TypeOK, Session, SessionId
  <2>3. t \in sessions
    BY <2>1, <2>2
  <2> QED BY <2>3, Unchanged
<1>3. ASSUME NEW c \in Caller, CommitRefresh(c) PROVE SessionKept(s, t)
  <2>1. PICK x \in sessions :
           sessions' = (sessions \ {x}) \cup
              {[x EXCEPT !.expires = Earlier(calls[c].at + IdleLife, x.absolute)]}
    BY <1>3 DEF CommitRefresh
  <2>2. x \in Session /\ calls[c].at + IdleLife \in Nat /\ x.absolute \in Nat
    <3>1. x \in Session /\ calls[c] \in Call
      BY DEF IInv, TypeOK
    <3>2. calls[c].at \in Nat /\ x.absolute \in Nat
      BY <3>1 DEF Call, Session
    <3> QED BY <3>1, <3>2, AuthAssumption
  <2> DEFINE e == Earlier(calls[c].at + IdleLife, x.absolute)
             y == [x EXCEPT !.expires = e]
  <2>3. e <= x.absolute
    BY <2>2 DEF Earlier
  <2>4. t \in sessions \/ t = y
    BY <2>1
  <2> HIDE DEF e
  <2>5. /\ y.id = x.id /\ y.absolute = x.absolute /\ y.expires = e /\ y.revoked = x.revoked
    BY <2>2 DEF Session
  <2> HIDE DEF y
  <2>6. CASE t = y
    <3>1. s = x
      BY <2>5, <2>6 DEF IInv, SessionsOK
    <3> QED BY <2>3, <2>5, <2>6, <3>1 DEF SessionKept
  <2> QED BY <2>4, <2>6, Unchanged
<1>4. ASSUME NEW I, RevokeIds(I) PROVE SessionKept(s, t)
  <2>1. PICK x \in sessions :
           /\ x.id = t.id /\ x.absolute = t.absolute /\ x.expires = t.expires
           /\ t.revoked = (x.revoked \/ x.id \in I)
    BY <1>4, Revoked
  <2>2. s = x
    BY <2>1 DEF IInv, SessionsOK
  <2> QED BY <2>1, <2>2 DEF IInv, SessionsOK, SessionKept
<1>5. ASSUME NEW c \in Caller, CommitLogout(c) \/ CommitChange(c) PROVE SessionKept(s, t)
  BY <1>4, <1>5 DEF CommitLogout, CommitChange
<1>6. \/ sessions' \subseteq sessions
      \/ \E c \in Caller : \/ CommitLogin(c) \/ CommitRefresh(c)
                           \/ CommitLogout(c) \/ CommitChange(c)
  <2>1. CASE UNCHANGED vars \/ PruneExpired \/ Tick
    BY <2>1 DEF vars, PruneExpired, Tick
  <2>2. ASSUME NEW c \in Caller,
               \/ Abandon(c) \/ Rehash(c) \/ InsertSession(c) \/ WriteAccount(c)
               \/ RevokeSessions(c) \/ CommitDelete(c)
               \/ \E u \in User, p \in Password, x \in {"rehash", "insert"} : StartLogin(c, u, p, x)
               \/ \E x \in sessions : StartRefresh(c, x)
               \/ \E id \in Ids(sessions) : StartLogout(c, id)
               \/ \E p \in Password, a \in BOOLEAN : CommitCreate(c, p, a)
        PROVE  sessions' \subseteq sessions
    BY <2>2 DEF Abandon, Rehash, InsertSession, WriteAccount, RevokeSessions, CommitDelete,
       StartLogin, StartRefresh, StartLogout, CommitCreate
  <2>3. ASSUME NEW c \in Caller, NEW x \in sessions, NEW op \in Managing, NEW u \in User,
               NEW v \in Values(op), NEW id \in Named(x, op), StartManaging(c, x, op, u, v, id)
        PROVE  sessions' \subseteq sessions
    BY <2>3 DEF StartManaging
  <2> QED BY <2>1, <2>2, <2>3 DEF Next
<1> QED BY <1>1, <1>2, <1>3, <1>5, <1>6

\* No refresh, however late, carries a session past its absolute lifetime.
THEOREM LifetimeIsAbsolute == Spec => NeverPastAbsoluteLifetime
<1>1. IInv /\ [Next]_vars =>
         [\A s \in sessions, t \in sessions' :
            s.id = t.id => t.absolute = s.absolute /\ t.expires <= s.absolute]_vars
  BY SessionStep DEF SessionKept
<1> QED BY <1>1, Invariant, PTL DEF Spec, NeverPastAbsoluteLifetime

\* A revoked session stays revoked.
THEOREM RevokedForGood == Spec => RevocationIsFinal
<1>1. IInv /\ [Next]_vars =>
         [\A s \in sessions, t \in sessions' : s.id = t.id /\ s.revoked => t.revoked]_vars
  BY SessionStep DEF SessionKept
<1> QED BY <1>1, Invariant, PTL DEF Spec, RevocationIsFinal

\* A password change and a deactivation end the sessions there were.
THEOREM ChangesEndSessions == Spec => EndedByAccountChange
<1>1. ASSUME IInv, NEW c \in Caller, CommitChange(c), calls[c].op \in Ending,
             NEW t \in sessions', t.id \in calls[c].known
      PROVE  t.revoked
  <2>1. RevokeIds(calls[c].ids) /\ calls[c].step = "commit"
    BY <1>1 DEF CommitChange
  <2>2. PICK s \in sessions : s.id = t.id /\ t.revoked = (s.revoked \/ s.id \in calls[c].ids)
    BY <2>1, <1>1, Revoked
  <2>3. s.id \in calls[c].ids
    BY <1>1, <2>1, <2>2 DEF IInv, KnownOK
  <2> QED BY <2>2, <2>3
<1>2. IInv /\ [Next]_vars =>
         [\A c \in Caller : CommitChange(c) /\ calls[c].op \in Ending =>
             \A s \in sessions' : s.id \in calls[c].known => s.revoked]_vars
  BY <1>1
<1> QED BY <1>2, Invariant, PTL DEF Spec, EndedByAccountChange
=============================================================================
