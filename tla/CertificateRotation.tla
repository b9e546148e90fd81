------------------------ MODULE CertificateRotation ------------------------
(***************************************************************************)
(* The certificates of one agent client and their recoverable rotation:    *)
(* the server that issues, replays, confirms and revokes them, and the     *)
(* desktop bridge that prepares a key, asks for the certificate, installs  *)
(* it, confirms it and only then removes the predecessor.                  *)
(*                                                                         *)
(* A version is a key of the desktop: its directory, its CSR and the       *)
(* identifier of the rotation that asks for its certificate.  A run of the *)
(* bridge may stop after every write to the disk and at every call; the    *)
(* next run has the disk and nothing else.  Requests may be lost, may be   *)
(* served after their run gave up, and their answers may be lost.  The     *)
(* server answers first and commits afterwards, and the commit may fail.   *)
(***************************************************************************)
EXTENDS Naturals, FiniteSets

CONSTANTS
    Bridge,       \* runs of the bridge that can overlap on one desktop
    Gone,         \* the receiver of a request whose run has stopped
    Second,       \* ticks in a second: certificates state their validity in seconds
    Overlap,      \* certificate_rotation_normal_access_overlap_seconds, in ticks
    Window,       \* certificate_rotation_window_seconds, in ticks
    Lifetime,     \* certificate_lifetime_seconds, in ticks
    MaxTime,      \* bound on the clock
    MaxVersion,   \* bound on the versions ever prepared
    MaxRequests,  \* bound on the requests in flight
    MaxLost       \* bound on the commits that fail after their answer

ASSUME RotationAssumption ==
    /\ Gone \notin Bridge
    /\ {Second, Overlap, Window, Lifetime} \subseteq Nat \ {0}
    /\ Overlap < Window /\ Window < Lifetime
    /\ Lifetime % Second = 0
    /\ {MaxTime, MaxRequests, MaxLost} \subseteq Nat /\ MaxVersion \in Nat \ {0}

VARIABLES
    now,         \* the clock, of the server and of the desktop
    active,      \* the client is not revoked
    certs,       \* certificate rows
    revoked,     \* serials of the rows with revoked_at
    rotations,   \* rotation rows
    signed,      \* certificates ever signed: their serials are 1..signed
    open,        \* transactions that have answered and not committed yet
    lost,        \* commits that failed after their answer
    requests,    \* requests in flight or being served
    current,     \* desktop: the version the symlink names
    keys,        \* desktop: versions with a private key
    chain,       \* desktop: the certificate in each version's directory
    pending,     \* desktop: pending.json
    prepared,    \* versions ever prepared are 1..prepared
    at,          \* where each run of the bridge is
    began,       \* its current_datetime
    mem          \* the rotation it works on

server  == <<active, certs, revoked, rotations, signed, open, lost>>
desktop == <<current, keys, chain, pending, prepared>>
runs    == <<at, began, mem>>
vars    == <<now, server, requests, desktop, runs>>

Version == 1..MaxVersion
Cert    == [version : Version, serial : Nat, from : Nat]
NoCert  == [version |-> 0, serial |-> 0, from |-> 0]
First   == [version |-> 1, serial |-> 1, from |-> 0]

Rotation == [id : Version, old : Nat, new : Cert, confirmed : BOOLEAN]

Pending   == [phase : {"none", "prepared", "issued"}, id : Version \cup {0},
              old : Version \cup {0}, cert : Cert \cup {NoCert}]
NoPending == [phase |-> "none", id |-> 0, old |-> 0, cert |-> NoCert]

Request == [to : Bridge \cup {Gone}, op : {"start", "confirm"}, id : Version,
            cert : Cert, since : Nat, known : BOOLEAN]

Transaction == [op : {"issue", "confirm"}, rotation : Rotation]

At == {"idle", "load", "prepare", "record", "start", "starting", "persist", "issue",
       "install", "confirm", "confirming", "complete", "dropkey", "dropchain", "forget"}

-----------------------------------------------------------------------------
(* Certificates.                                                            *)

Until(c) == c.from + Lifetime

\* X.509 times have no fraction of a second.
Truncated(t) == t - (t % Second)

Valid(c, t) == active /\ c \in certs /\ c.serial \notin revoked /\ t < Until(c)

\* The rotation that replaces a certificate and is not confirmed yet.
Replacing(c) == {r \in rotations : r.old = c.serial /\ ~r.confirmed}

\* The certificate authenticates ordinary calls at time t.
DoesBusiness(c, t) ==
    Valid(c, t) /\ \A r \in Replacing(c) : t < r.new.from + Overlap

HasPair(v) == v \in keys /\ chain[v].version = v

-----------------------------------------------------------------------------
(* Runs of the bridge.                                                      *)

Goto(b, s) == at' = [at EXCEPT ![b] = s]

\* The run ends, with or without an error.  Its request, if any, is on its own.
Exit(b) ==
    /\ at'    = [at EXCEPT ![b] = "idle"]
    /\ began' = [began EXCEPT ![b] = 0]
    /\ mem'   = [mem EXCEPT ![b] = NoPending]

Fail(b) == Exit(b) /\ UNCHANGED <<now, server, requests, desktop>>

Stop(b) ==
    /\ at[b] # "idle"
    /\ Exit(b)
    /\ requests' = {IF r.to = b THEN [r EXCEPT !.to = Gone] ELSE r : r \in requests}
    /\ UNCHANGED <<now, server, desktop>>

Begin(b) ==
    /\ at[b] = "idle"
    /\ began' = [began EXCEPT ![b] = now]
    /\ Goto(b, "load")
    /\ UNCHANGED <<now, server, requests, desktop, mem>>

\* What load_pending_rotation accepts.
Recoverable(p) ==
    /\ current \in {p.old, p.id}
    /\ p.id \in keys
    /\ p.phase = "issued" => chain[p.id] = p.cert

\* Nothing is pending, and the active certificate is far from its expiry, or near.
NotDue(b) ==
    /\ at[b] = "load" /\ pending.phase = "none"
    /\ HasPair(current) /\ Truncated(Until(chain[current])) > began[b] + Window
    /\ Fail(b)

Due(b) ==
    /\ at[b] = "load" /\ pending.phase = "none"
    /\ HasPair(current) /\ Truncated(Until(chain[current])) <= began[b] + Window
    /\ Goto(b, "prepare")
    /\ UNCHANGED <<now, server, requests, desktop, began, mem>>

\* Mutant: the pending phase is not looked at.
ResumeInstalling(b) ==
    /\ at[b] = "load" /\ pending.phase # "none" /\ Recoverable(pending)
    /\ mem' = [mem EXCEPT ![b] = pending]
    /\ Goto(b, "install")
    /\ UNCHANGED <<now, server, requests, desktop, began>>

Resume(b) ==
    /\ at[b] = "load" /\ pending.phase # "none"
    /\ Recoverable(pending)
    /\ mem' = [mem EXCEPT ![b] = pending]
    /\ Goto(b, IF pending.phase = "prepared" THEN "start" ELSE "install")
    /\ UNCHANGED <<now, server, requests, desktop, began>>

\* A new key, then pending.json: both before the first request.
PrepareKey(b) ==
    /\ at[b] = "prepare" /\ pending.phase = "none" /\ prepared < MaxVersion
    /\ prepared' = prepared + 1
    /\ keys' = keys \cup {prepared'}
    /\ mem' = [mem EXCEPT ![b] = [NoPending EXCEPT !.phase = "prepared",
                                                   !.id = prepared', !.old = current]]
    /\ Goto(b, "record")
    /\ UNCHANGED <<now, server, requests, current, chain, pending, began>>

RecordPending(b) ==
    /\ at[b] = "record"
    /\ pending' = mem[b]
    /\ Goto(b, "start")
    /\ UNCHANGED <<now, server, requests, current, keys, chain, prepared, began, mem>>

\* A request over mTLS with the pair that is active now.
Send(b, op, s) ==
    /\ HasPair(current)
    /\ Cardinality(requests) < MaxRequests
    /\ requests' = requests \cup
          {[to |-> b, op |-> op, id |-> mem[b].id, cert |-> chain[current],
            since |-> 0, known |-> FALSE]}
    /\ Goto(b, s)
    /\ UNCHANGED <<now, server, desktop, began, mem>>

SendStart(b)   == at[b] = "start" /\ Send(b, "start", "starting")
SendConfirm(b) == at[b] = "confirm" /\ Send(b, "confirm", "confirming")

\* The certificate is for the prepared key, says what the answer says of it, and is
\* valid at the time the run began.
Acceptable(b) ==
    LET c == mem[b].cert IN
    /\ c.version = mem[b].id /\ mem[b].id \in keys
    /\ Truncated(c.from) = c.from
    /\ Truncated(c.from) <= began[b] /\ began[b] < Truncated(Until(c))

RejectReplacement(b) == at[b] = "persist" /\ ~Acceptable(b) /\ Fail(b)

PersistChain(b) ==
    /\ at[b] = "persist" /\ Acceptable(b)
    /\ chain' = [chain EXCEPT ![mem[b].id] = mem[b].cert]
    /\ mem' = [mem EXCEPT ![b].phase = "issued"]
    /\ Goto(b, "issue")
    /\ UNCHANGED <<now, server, requests, current, keys, pending, prepared, began>>

RecordIssued(b) ==
    /\ at[b] = "issue"
    /\ pending' = mem[b]
    /\ IF chain[mem[b].id] = mem[b].cert /\ HasPair(mem[b].id)
         THEN Goto(b, "install") /\ UNCHANGED <<began, mem>>
         ELSE Exit(b)
    /\ UNCHANGED <<now, server, requests, current, keys, chain, prepared>>

\* Mutant: the rotation is completed without asking the server to confirm it.
InstallUnconfirmed(b) ==
    /\ at[b] = "install" /\ pending = mem[b] /\ Recoverable(pending)
    /\ current' = mem[b].id
    /\ Goto(b, "complete")
    /\ UNCHANGED <<now, server, requests, keys, chain, pending, prepared, began, mem>>

\* The symlink moves, unless it has moved already.
Install(b) ==
    /\ at[b] = "install"
    /\ current = mem[b].id \/ (pending = mem[b] /\ Recoverable(pending))
    /\ current' = mem[b].id
    /\ Goto(b, "confirm")
    /\ UNCHANGED <<now, server, requests, keys, chain, pending, prepared, began, mem>>

\* Only what is still pending and installed is completed: the predecessor's key and
\* certificate go, then pending.json.
Complete(b) ==
    /\ at[b] = "complete"
    /\ pending = mem[b] /\ Recoverable(pending) /\ current = mem[b].id
    /\ Goto(b, "dropkey")
    /\ UNCHANGED <<now, server, requests, desktop, began, mem>>

DropKey(b) ==
    /\ at[b] = "dropkey"
    /\ keys' = keys \ {mem[b].old}
    /\ Goto(b, "dropchain")
    /\ UNCHANGED <<now, server, requests, current, chain, pending, prepared, began, mem>>

\* Mutant: the directory is gone, and with it the version.
DropDirectory(b) ==
    /\ at[b] = "dropchain"
    /\ chain' = [v \in Version \ {mem[b].old} |-> chain[v]]
    /\ Goto(b, "forget")
    /\ UNCHANGED <<now, server, requests, current, keys, pending, prepared, began, mem>>

DropChain(b) ==
    /\ at[b] = "dropchain"
    /\ chain' = [chain EXCEPT ![mem[b].old] = NoCert]
    /\ Goto(b, "forget")
    /\ UNCHANGED <<now, server, requests, current, keys, pending, prepared, began, mem>>

Forget(b) ==
    /\ at[b] = "forget"
    /\ pending' = NoPending
    /\ Exit(b)
    /\ UNCHANGED <<now, server, requests, current, keys, chain, prepared>>

\* What the store finds on the disk is not what the run works on.
Refused(b) ==
    /\ \/ at[b] = "load" /\ pending.phase = "none" /\ ~HasPair(current)
       \/ at[b] = "load" /\ pending.phase # "none" /\ ~Recoverable(pending)
       \/ at[b] = "prepare" /\ pending.phase # "none"
       \/ at[b] \in {"start", "confirm"} /\ ~HasPair(current)
       \/ /\ at[b] = "install" /\ current # mem[b].id
          /\ ~(pending = mem[b] /\ Recoverable(pending))
       \/ /\ at[b] = "complete"
          /\ ~(pending = mem[b] /\ Recoverable(pending) /\ current = mem[b].id)
    /\ Fail(b)

-----------------------------------------------------------------------------
(* The server.                                                              *)

\* The answer reaches the run that waits for it.
Answer(r, s, c) ==
    /\ requests' = requests \ {r}
    /\ IF r.to = Gone
         THEN UNCHANGED <<at, mem>>
         ELSE Goto(r.to, s) /\ mem' = [mem EXCEPT ![r.to].cert = c]
    /\ UNCHANGED <<now, desktop, began>>

\* An error answer, a connection that broke: the run ends with it.
Reject(r) ==
    /\ requests' = requests \ {r}
    /\ IF r.to = Gone THEN UNCHANGED runs ELSE Exit(r.to)
    /\ UNCHANGED <<now, server, desktop>>

\* The request arrives, its time is taken, its certificate is looked up.
Authenticate(r) ==
    /\ ~r.known /\ Valid(r.cert, now)
    /\ requests' = (requests \ {r}) \cup {[r EXCEPT !.known = TRUE, !.since = now]}
    /\ UNCHANGED <<now, server, desktop, runs>>

RejectUnknown(r) == ~r.known /\ ~Valid(r.cert, now) /\ Reject(r)

\* Mutant: the client's row is not locked.
ServesUnlocked(r, op) == r.known /\ r.op = op

\* The request's transaction has the client's row.
Serves(r, op) == r.known /\ r.op = op /\ open = {}

InDatabase(r)   == active /\ r.cert \in certs /\ r.cert.serial \notin revoked
RotationOf(r)   == {x \in rotations : x.id = r.id}
MayRotate(r)    == r.since < Until(r.cert) /\ Until(r.cert) <= r.since + Window

Replay(r) ==
    /\ Serves(r, "start") /\ InDatabase(r)
    /\ \E x \in RotationOf(r) : x.old = r.cert.serial /\ Answer(r, "persist", x.new)
    /\ UNCHANGED server

\* Mutant: a certificate may have two rotations that are not confirmed.
IssueAgain(r) ==
    /\ Serves(r, "start") /\ InDatabase(r) /\ RotationOf(r) = {} /\ MayRotate(r)
    /\ signed' = signed + 1
    /\ LET new == [version |-> r.id, serial |-> signed', from |-> r.since] IN
       /\ open' = open \cup
             {[op |-> "issue", rotation |-> [id |-> r.id, old |-> r.cert.serial,
                                             new |-> new, confirmed |-> FALSE]]}
       /\ Answer(r, "persist", new)
    /\ UNCHANGED <<active, certs, revoked, rotations, lost>>

Issue(r) ==
    /\ Serves(r, "start") /\ InDatabase(r)
    /\ RotationOf(r) = {} /\ MayRotate(r) /\ Replacing(r.cert) = {}
    /\ signed' = signed + 1
    /\ LET new == [version |-> r.id, serial |-> signed', from |-> r.since] IN
       /\ open' = open \cup
             {[op |-> "issue", rotation |-> [id |-> r.id, old |-> r.cert.serial,
                                             new |-> new, confirmed |-> FALSE]]}
       /\ Answer(r, "persist", new)
    /\ UNCHANGED <<active, certs, revoked, rotations, lost>>

RejectStart(r) ==
    /\ Serves(r, "start")
    /\ \/ ~InDatabase(r)
       \/ \E x \in RotationOf(r) : x.old # r.cert.serial
       \/ RotationOf(r) = {} /\ (~MayRotate(r) \/ Replacing(r.cert) # {})
    /\ Reject(r)

\* Whether the replacement itself confirms its rotation.
ConfirmedBy(r, x) == x.new.serial = r.cert.serial

\* Mutant: a confirmation that is repeated is refused.
ConfirmOnce(r) ==
    /\ Serves(r, "confirm") /\ active
    /\ \E x \in RotationOf(r) :
          /\ ConfirmedBy(r, x) /\ ~x.confirmed /\ x.old \notin revoked
          /\ open' = open \cup {[op |-> "confirm", rotation |-> x]}
    /\ Answer(r, "complete", mem[r.to].cert)
    /\ UNCHANGED <<active, certs, revoked, rotations, signed, lost>>

Confirm(r) ==
    /\ Serves(r, "confirm") /\ active
    /\ \E x \in RotationOf(r) :
          /\ ConfirmedBy(r, x)
          /\ IF x.confirmed
               THEN UNCHANGED open
               ELSE /\ x.old \notin revoked
                    /\ open' = open \cup {[op |-> "confirm", rotation |-> x]}
    /\ Answer(r, "complete", mem[r.to].cert)
    /\ UNCHANGED <<active, certs, revoked, rotations, signed, lost>>

RejectConfirm(r) ==
    /\ Serves(r, "confirm")
    /\ \/ ~active
       \/ \A x \in RotationOf(r) :
             ~ConfirmedBy(r, x) \/ (~x.confirmed /\ x.old \in revoked)
    /\ Reject(r)

\* Mutant: the predecessor is retired when its replacement is issued.
CommitIssueRetiring(t) ==
    /\ t.op = "issue"
    /\ certs' = certs \cup {t.rotation.new}
    /\ rotations' = rotations \cup {t.rotation}
    /\ revoked' = revoked \cup {t.rotation.old}
    /\ open' = open \ {t}
    /\ UNCHANGED <<now, active, signed, lost, requests, desktop, runs>>

\* The answered transaction commits ...
CommitIssue(t) ==
    /\ t.op = "issue"
    /\ certs' = certs \cup {t.rotation.new}
    /\ rotations' = rotations \cup {t.rotation}
    /\ open' = open \ {t}
    /\ UNCHANGED <<now, active, revoked, signed, lost, requests, desktop, runs>>

CommitConfirm(t) ==
    /\ t.op = "confirm"
    /\ revoked' = revoked \cup {t.rotation.old}
    /\ rotations' = (rotations \ {t.rotation})
                      \cup {[t.rotation EXCEPT !.confirmed = TRUE]}
    /\ open' = open \ {t}
    /\ UNCHANGED <<now, active, certs, signed, lost, requests, desktop, runs>>

\* ... or fails, and nobody is told.
LoseCommit(t) ==
    /\ lost < MaxLost
    /\ lost' = lost + 1
    /\ open' = open \ {t}
    /\ UNCHANGED <<now, active, certs, revoked, rotations, signed, requests, desktop, runs>>

RevokeClient ==
    /\ active /\ open = {}
    /\ active' = FALSE
    /\ revoked' = revoked \cup {c.serial : c \in certs}
    /\ UNCHANGED <<now, certs, rotations, signed, open, lost, requests, desktop, runs>>

Tick ==
    /\ now < MaxTime
    /\ now' = now + 1
    /\ UNCHANGED <<server, requests, desktop, runs>>

-----------------------------------------------------------------------------
Init ==
    /\ now = 0 /\ active = TRUE
    /\ certs = {First} /\ revoked = {} /\ rotations = {} /\ signed = 1
    /\ open = {} /\ lost = 0 /\ requests = {}
    /\ current = 1 /\ keys = {1}
    /\ chain = [v \in Version |-> IF v = 1 THEN First ELSE NoCert]
    /\ pending = NoPending /\ prepared = 1
    /\ at = [b \in Bridge |-> "idle"]
    /\ began = [b \in Bridge |-> 0]
    /\ mem = [b \in Bridge |-> NoPending]

Loading(b)   == NotDue(b) \/ Due(b) \/ Resume(b)
Preparing(b) == PrepareKey(b) \/ RecordPending(b)
Asking(b)    == SendStart(b) \/ RejectReplacement(b) \/ PersistChain(b) \/ RecordIssued(b)
Switching(b) == Install(b) \/ SendConfirm(b)
Dropping(b)  == Complete(b) \/ DropKey(b) \/ DropChain(b) \/ Forget(b)

Moves(b) ==
    Refused(b) \/ Loading(b) \/ Preparing(b) \/ Asking(b) \/ Switching(b) \/ Dropping(b)

Serve(r) ==
    Authenticate(r) \/ RejectUnknown(r) \/ Replay(r) \/ Issue(r) \/ RejectStart(r)
    \/ Confirm(r) \/ RejectConfirm(r)

Commit == \E t \in open : CommitIssue(t) \/ CommitConfirm(t)

Next ==
    \/ \E b \in Bridge : Begin(b) \/ Moves(b) \/ Stop(b)
    \/ \E r \in requests : Serve(r) \/ Reject(r)
    \/ Commit \/ (\E t \in open : LoseCommit(t)) \/ RevokeClient \/ Tick

Spec == Init /\ [][Next]_vars

\* The bridge is started again and again and takes its next step, the server works off
\* what it was sent and what it answered, and runs stop and connections break only
\* finitely often.
Works ==
    \/ \E b \in Bridge : Begin(b) \/ Moves(b)
    \/ (\E r \in requests : Serve(r)) \/ Commit \/ RevokeClient \/ Tick

FairSpec ==
    /\ Spec
    /\ <>[][Works]_vars
    /\ WF_vars(Commit)
    /\ WF_vars(\E r \in requests : Serve(r))
    /\ \A b \in Bridge : WF_vars(Begin(b)) /\ WF_vars(Moves(b))

-----------------------------------------------------------------------------
(* Properties.                                                              *)

\* Every variable has its type.
TypeOK ==
    /\ now \in Nat /\ active \in BOOLEAN
    /\ certs \subseteq Cert /\ revoked \subseteq Nat /\ rotations \subseteq Rotation
    /\ signed \in Nat /\ lost \in Nat
    /\ open \subseteq Transaction
    /\ requests \subseteq Request
    /\ current \in Version /\ keys \subseteq Version
    /\ chain \in [Version -> Cert \cup {NoCert}]
    /\ pending \in Pending /\ prepared \in Nat
    /\ at \in [Bridge -> At] /\ began \in [Bridge -> Nat] /\ mem \in [Bridge -> Pending]

\* At every instant, a crash at which the next run has to recover from, the symlink
\* names a version with its private key and its certificate.
ActivePairComplete == HasPair(current)

\* The server retires a certificate only when the desktop has the replacement
\* installed: while the client is not revoked, the certificate in use never is.
InstalledBeforeRevoked == active => chain[current].serial \notin revoked

\* Whatever is lost, and whenever: as long as the client is not revoked the desktop has
\* a pair the server accepts (until it expires), so the predecessor's key goes only
\* after the server knows the replacement.
KeepsAcceptedPair ==
    active => \E v \in Version :
                 HasPair(v) /\ chain[v] \in certs /\ chain[v].serial \notin revoked

\* At most one certificate of the client does ordinary calls, except while a rotation
\* is in its overlap.
OneBusinessCertificate ==
    \A c, d \in certs :
       c # d /\ DoesBusiness(c, now) /\ DoesBusiness(d, now) =>
          \E r \in Replacing(c) \cup Replacing(d) : now < r.new.from + Overlap

\* The unique indexes (one rotation per identifier, one unconfirmed rotation per
\* certificate) are never what stops a rotation.
ConstraintsNeverFire ==
    LET issued == rotations \cup {t.rotation : t \in {o \in open : o.op = "issue"}} IN
    \A x, y \in issued :
       (x.id = y.id \/ (x.old = y.old /\ ~x.confirmed /\ ~y.confirmed)) => x = y

\* A rotation that was prepared ends, however often runs of the bridge stop and answers
\* are lost on the way, unless the client is revoked or its time runs out first.
RotationEnds ==
    pending.phase # "none" ~>
       \/ pending.phase = "none"
       \/ ~active \/ now >= Until(chain[current])

\* docs/agent-access.md:228: the bridge "validates and persists the combined replacement
\* certificate/chain".  A run that begins while the replacement is valid takes it.
ReplacementAccepted ==
    [][\A b \in Bridge : RejectReplacement(b) =>
          began[b] < mem[b].cert.from \/ began[b] >= Until(mem[b].cert)]_vars
=============================================================================
