--------------------- MODULE CertificateRotation_proofs ---------------------
(***************************************************************************)
(* Proofs about CertificateRotation, for any number of runs of the bridge, *)
(* versions, requests in flight and commits that fail, and for any times.  *)
(***************************************************************************)
EXTENDS CertificateRotation, TLAPS

-----------------------------------------------------------------------------
(* The inductive invariant.                                                 *)

\* Rotations that are in the table or may get there.
Issued == rotations \cup {t.rotation : t \in {o \in open : o.op = "issue"}}

\* The certificates the server, the desktop and the requests have, and the absent one.
Known ==
    certs \cup {t.rotation.new : t \in open} \cup {r.cert : r \in requests}
          \cup {chain[v] : v \in Version} \cup {mem[b].cert : b \in Bridge}
          \cup {pending.cert, NoCert}

\* A serial stands for one certificate, whoever has it.
SerialsUnique ==
    /\ \A c \in Known : c.serial \in 0..signed
    /\ \A c, d \in Known : c.serial = d.serial => c = d

\* What holds of a rotation from its issue on.
RotationOK(x) ==
    /\ x.new.version = x.id /\ x.id >= 2
    /\ \E c \in certs : c.serial = x.old

\* The transaction that has the client's row is the only one.
OpenOK ==
    /\ \A t, u \in open : t = u
    /\ \A t \in open : /\ ~t.rotation.confirmed
                       /\ t.op = "issue" => t.rotation.new \notin certs
                       /\ t.op = "confirm" => t.rotation \in rotations

\* A client's certificates are the first one and those of its rotations; every one but the
\* last has been replaced, by one rotation; and what has been confirmed has been revoked.
ChainOfRotations ==
    /\ \A x \in Issued : RotationOK(x)
    /\ \A x \in rotations : x.new \in certs /\ (x.confirmed => x.old \in revoked)
    /\ \A c \in certs : c = First \/ \E x \in rotations : x.new = c
    /\ \A x, y \in Issued : x.id = y.id \/ x.old = y.old => x = y
    /\ \A c, d \in certs : \/ c = d
                           \/ \E x \in rotations : x.old \in {c.serial, d.serial}

\* While the client is not revoked only confirmed rotations revoke certificates.
RevokedByRotation ==
    active => \A s \in revoked : \E x \in rotations : x.confirmed /\ x.old = s

PendingOK(p) ==
    /\ p.phase # "none" => 1 <= p.old /\ p.old < p.id /\ p.id <= prepared
    /\ p.phase = "issued" => p.cert.version = p.id

\* What a run knows at its place.
RunOK(b) ==
    /\ PendingOK(mem[b])
    /\ at[b] \in {"record", "start", "starting", "persist"} => mem[b].phase = "prepared"
    /\ at[b] \in {"issue", "install", "confirm", "confirming", "complete", "dropkey",
                  "dropchain", "forget"} => mem[b].phase = "issued"
    /\ at[b] \in {"dropkey", "dropchain", "forget"} => mem[b].id <= current

DesktopOK ==
    /\ current <= prepared /\ prepared <= MaxVersion
    /\ PendingOK(pending)
    /\ HasPair(current)
    /\ \A b \in Bridge : RunOK(b)

Awaits(op) == IF op = "start" THEN "starting" ELSE "confirming"

\* A request is for a certificate the desktop has had, and a run waits for at most one.
RequestsOK ==
    /\ \A r \in requests : r.id >= 2 /\ r.cert.version <= current
    /\ \A r \in requests : r.to \in Bridge => at[r.to] = Awaits(r.op)
    /\ \A r, q \in requests : r.to \in Bridge /\ r.to = q.to => r = q

\* The certificate a rotation replaces has been in use, and is of another version.
OldInUse ==
    \A x \in Issued, c \in certs :
       c.serial = x.old => c.version <= current /\ c.version # x.id

\* The replacement is confirmed, or somebody is about to confirm it.
Confirming(x) ==
    \/ x.confirmed
    \/ \E t \in open : t.op = "confirm" /\ t.rotation = x
    \/ \E r \in requests : r.op = "confirm" /\ r.cert = x.new

\* That takes a replacement that is installed: the desktop has left the predecessor.
ConfirmedAfterInstall ==
    \A x \in Issued : Confirming(x) =>
       /\ x.id <= current
       /\ \A c \in certs : c.serial = x.old => c.version < x.id

IInv ==
    /\ TypeOK /\ SerialsUnique /\ OpenOK /\ ChainOfRotations /\ RevokedByRotation
    /\ DesktopOK /\ RequestsOK /\ OldInUse /\ ConfirmedAfterInstall

-----------------------------------------------------------------------------
(* Who knows which certificates.                                            *)

\* Whoever has a certificate, it is known.
LEMMA HoldersKnow ==
    /\ certs \subseteq Known
    /\ \A t \in open : t.rotation.new \in Known
    /\ \A r \in requests : r.cert \in Known
    /\ \A v \in Version : chain[v] \in Known
    /\ \A b \in Bridge : mem[b].cert \in Known
    /\ pending.cert \in Known /\ NoCert \in Known
  BY DEF Known

\* A step after which every holder has a certificate that was known adds none.
LEMMA NothingNew ==
    ASSUME certs' \subseteq Known,
           \A t \in open' : t.rotation.new \in Known,
           \A r \in requests' : r.cert \in Known,
           \A v \in Version : chain'[v] \in Known,
           \A b \in Bridge : mem'[b].cert \in Known,
           pending'.cert \in Known
    PROVE  Known' \subseteq Known
  BY HoldersKnow DEF Known

\* The client starts with one certificate, installed and in the table.
LEMMA InitInv == Init => IInv
<1> SUFFICES ASSUME Init PROVE IInv
  OBVIOUS
<1> USE RotationAssumption
<1>1. 1 \in Version /\ First \in Cert
  BY DEF Version, First, Cert
<1>2. TypeOK
  BY <1>1 DEF Init, TypeOK, Pending, NoPending, At
<1>3. Issued = {}
  BY DEF Init, Issued
<1>4. \A c \in Known : c \in {First, NoCert}
  BY DEF Init, Known, NoPending
<1>5. SerialsUnique
  BY <1>4 DEF SerialsUnique, Init, First, NoCert
<1>6. ChainOfRotations /\ OldInUse /\ ConfirmedAfterInstall
  BY <1>3 DEF Init, ChainOfRotations, OldInUse, ConfirmedAfterInstall
<1>7. DesktopOK
  BY <1>1 DEF Init, DesktopOK, PendingOK, NoPending, RunOK, HasPair, First
<1>8. OpenOK /\ RevokedByRotation /\ RequestsOK
  BY DEF Init, OpenOK, RevokedByRotation, RequestsOK
<1> QED
  BY <1>2, <1>5, <1>6, <1>7, <1>8 DEF IInv

-----------------------------------------------------------------------------
(* Steps that leave the server's tables and transactions alone.             *)

\* Such a step keeps the invariant if it keeps what it says of the desktop and of the
\* requests, brings in no certificate, never goes back to an earlier version, and asks
\* for a confirmation only with the certificate of the version in use.
LEMMA ServerKept ==
    ASSUME IInv, UNCHANGED server, current <= current',
           TypeOK', DesktopOK', RequestsOK', Known' \subseteq Known,
           \A r \in requests' : r.op = "confirm" =>
              \/ r.cert.version = current
              \/ \E q \in requests : q.op = "confirm" /\ q.cert = r.cert
    PROVE  IInv'
<1> USE DEF server
<1>1. Issued' = Issued /\ Issued \subseteq Rotation
  BY DEF Issued, IInv, TypeOK, Transaction
<1>2. SerialsUnique'
  BY DEF IInv, SerialsUnique
<1>3. OpenOK' /\ RevokedByRotation'
  BY DEF IInv, OpenOK, RevokedByRotation
<1>4. ChainOfRotations'
  BY <1>1 DEF IInv, ChainOfRotations, RotationOK
<1>5. /\ current \in Nat /\ current' \in Nat
      /\ \A c \in certs : c.version \in Nat
      /\ \A x \in Issued : x.id \in Nat
  BY <1>1 DEF IInv, TypeOK, Version, Cert, Rotation
<1>6. OldInUse'
  BY <1>1, <1>5 DEF IInv, OldInUse
<1>7. ConfirmedAfterInstall'
  <2> SUFFICES ASSUME NEW x \in Issued, Confirming(x)'
               PROVE  /\ x.id <= current'
                      /\ \A c \in certs : c.serial = x.old => c.version < x.id
    BY <1>1 DEF ConfirmedAfterInstall
  <2>1. CASE Confirming(x)
    BY <1>5, <2>1 DEF IInv, ConfirmedAfterInstall
  <2>2. CASE ~Confirming(x)
    <3>1. x.new.version = current
      BY <2>2 DEF Confirming
    <3>2. x.id = current
      BY <3>1 DEF IInv, ChainOfRotations, RotationOK
    <3> QED
      BY <1>5, <3>2 DEF IInv, OldInUse
  <2> QED
    BY <2>1, <2>2
<1> QED
  BY <1>2, <1>3, <1>4, <1>6, <1>7 DEF IInv

\* A step of one run, between its requests.
LEMMA RunStep ==
    ASSUME IInv, NEW b \in Bridge, at[b] \notin {"starting", "confirming"},
           UNCHANGED <<server, requests>>, TypeOK',
           \A v \in Bridge \ {b} : at'[v] = at[v] /\ mem'[v] = mem[v],
           current <= current', current' <= prepared',
           prepared <= prepared', prepared' <= MaxVersion,
           HasPair(current)', PendingOK(pending)', RunOK(b)',
           \A v \in Version : chain'[v] \in Known,
           pending'.cert \in Known, mem'[b].cert \in Known
    PROVE  IInv'
<1> USE DEF server
<1>1. /\ current \in Nat /\ current' \in Nat /\ prepared \in Nat /\ prepared' \in Nat
      /\ \A v \in Bridge : mem[v].id \in Nat
      /\ \A r \in requests : r.cert.version \in Nat
  BY DEF IInv, TypeOK, Version, Pending, Request, Cert, NoCert
<1>2. DesktopOK'
  <2>1. ASSUME NEW v \in Bridge \ {b} PROVE RunOK(v)'
    BY <1>1, <2>1 DEF IInv, DesktopOK, RunOK, PendingOK
  <2> QED
    BY <2>1 DEF DesktopOK
<1>3. RequestsOK'
  BY <1>1 DEF IInv, RequestsOK, Awaits
<1>4. Known' \subseteq Known
  BY HoldersKnow, NothingNew
<1> QED
  BY <1>2, <1>3, <1>4, ServerKept

\* What is recorded of a rotation has its type.
LEMMA RecordTypes ==
    ASSUME IInv, NEW b \in Bridge
    PROVE  /\ mem[b] \in Pending /\ pending \in Pending
           /\ mem[b].id \in 0..MaxVersion /\ mem[b].old \in 0..MaxVersion
           /\ current \in 1..MaxVersion /\ prepared \in 1..MaxVersion
           /\ mem[b].phase # "none" => mem[b].id \in Version /\ mem[b].old \in Version
  BY RotationAssumption DEF IInv, TypeOK, Pending, Version, DesktopOK, RunOK, PendingOK

\* A run may end wherever it does not wait, with its record written or the last one removed.
LEMMA RunEnds ==
    ASSUME IInv, NEW b \in Bridge, at[b] \notin {"starting", "confirming"}, Exit(b),
           pending' \in {pending, mem[b], NoPending},
           UNCHANGED <<now, server, requests, current, keys, chain, prepared>>
    PROVE  IInv'
<1> USE RecordTypes
<1>1. /\ \A v \in Bridge \ {b} : at'[v] = at[v] /\ mem'[v] = mem[v]
      /\ at'[b] = "idle" /\ mem'[b] = NoPending
  BY DEF Exit, IInv, TypeOK
<1>2. NoPending \in Pending
  BY DEF Pending, NoPending
<1>3. TypeOK'
  BY <1>2 DEF IInv, TypeOK, Exit, At, server
<1>4. PendingOK(pending)' /\ RunOK(b)'
  BY <1>1 DEF IInv, DesktopOK, RunOK, PendingOK, NoPending
<1>5. pending'.cert \in Known /\ mem'[b].cert \in Known
  BY <1>1, HoldersKnow DEF NoPending
<1> QED
  BY <1>1, <1>3, <1>4, <1>5, RunStep, HoldersKnow DEF IInv, DesktopOK, HasPair

\* The steps of a run that end it.
LEMMA EndingInv ==
    ASSUME IInv, NEW b \in Bridge,
           NotDue(b) \/ RejectReplacement(b) \/ Forget(b) \/ Refused(b)
    PROVE  IInv'
  BY RunEnds DEF NotDue, RejectReplacement, Forget, Refused, Fail, desktop

\* The steps that look at the disk and leave it as it is.
LEMMA LookingInv ==
    ASSUME IInv, NEW b \in Bridge, Begin(b) \/ Due(b) \/ Resume(b) \/ Complete(b)
    PROVE  IInv'
<1> USE RecordTypes DEF desktop
<1>1. /\ \A v \in Bridge \ {b} : at'[v] = at[v] /\ mem'[v] = mem[v]
      /\ mem'[b] \in {mem[b], pending}
      /\ at[b] \in {"idle", "load", "complete"}
      /\ at'[b] \in {"load", "prepare", "start", "install", "dropkey"}
  BY DEF Begin, Due, Resume, Complete, Goto, IInv, TypeOK
<1>2. UNCHANGED <<server, requests, desktop>>
  BY DEF Begin, Due, Resume, Complete
<1>3. TypeOK'
  BY <1>2 DEF IInv, TypeOK, server, Begin, Due, Resume, Complete, Goto, At
<1>4. RunOK(b)'
  <2>1. PendingOK(mem[b])' 
    BY <1>1, <1>2 DEF IInv, DesktopOK, RunOK, PendingOK
  <2>2. CASE Resume(b)
    BY <2>1, <2>2, <1>1, <1>2 DEF Resume, Goto, RunOK, IInv, TypeOK, Pending
  <2>3. CASE Complete(b)
    BY <2>1, <2>3, <1>1, <1>2 DEF Complete, Goto, RunOK, IInv, TypeOK, DesktopOK
  <2>4. CASE Begin(b) \/ Due(b)
    BY <2>1, <2>4, <1>1, <1>2 DEF Begin, Due, Goto, RunOK, IInv, TypeOK, DesktopOK
  <2> QED
    BY <2>2, <2>3, <2>4
<1>5. mem'[b].cert \in Known
  BY <1>1, HoldersKnow
<1> QED
  BY <1>1, <1>2, <1>3, <1>4, <1>5, RunStep, HoldersKnow
     DEF IInv, DesktopOK, HasPair, PendingOK

\* A new key is of a version nobody had.
LEMMA PrepareKeyInv ==
    ASSUME IInv, NEW b \in Bridge, PrepareKey(b)
    PROVE  IInv'
<1> USE RecordTypes DEF PrepareKey
<1> PICK p : p = [NoPending EXCEPT !.phase = "prepared", !.id = prepared', !.old = current]
  OBVIOUS
<1>1. /\ p.phase = "prepared" /\ p.id = prepared + 1 /\ p.old = current /\ p.cert = NoCert
      /\ prepared' = prepared + 1 /\ prepared' \in Version
  BY RotationAssumption DEF NoPending, Version
<1>2. p \in Pending
  BY <1>1, RotationAssumption DEF Pending, NoPending, IInv, TypeOK
<1>3. /\ \A v \in Bridge \ {b} : at'[v] = at[v] /\ mem'[v] = mem[v]
      /\ at'[b] = "record" /\ mem'[b] = p
  BY DEF Goto, IInv, TypeOK
<1>4. TypeOK'
  BY <1>1, <1>2 DEF IInv, TypeOK, Goto, At, server
<1>5. RunOK(b)' /\ PendingOK(pending)'
  BY <1>1, <1>3 DEF IInv, DesktopOK, RunOK, PendingOK, TypeOK, Pending, Version
<1>6. mem'[b].cert \in Known
  BY <1>1, <1>3, HoldersKnow
<1>7. /\ HasPair(current)' /\ prepared <= prepared' /\ prepared' <= MaxVersion
      /\ current <= current' /\ current' <= prepared'
  BY <1>1, RotationAssumption DEF IInv, DesktopOK, HasPair, Version
<1>8. \A v \in Version : chain'[v] \in Known
  BY HoldersKnow
<1> QED
  BY <1>1, <1>3, <1>4, <1>5, <1>6, <1>7, <1>8, RunStep, HoldersKnow

\* Writing pending.json.
LEMMA RecordInv ==
    ASSUME IInv, NEW b \in Bridge, RecordPending(b) \/ RecordIssued(b)
    PROVE  IInv'
<1> USE RecordTypes
<1>1. CASE RecordIssued(b) /\ Exit(b)
  BY <1>1, RunEnds DEF RecordIssued
<1>2. CASE RecordPending(b) \/ (RecordIssued(b) /\ Goto(b, "install") /\ UNCHANGED <<began, mem>>)
  <2>1. /\ \A v \in Bridge \ {b} : at'[v] = at[v]
        /\ mem' = mem /\ pending' = mem[b]
        /\ \/ at[b] = "record" /\ at'[b] = "start"
           \/ at[b] = "issue" /\ at'[b] = "install"
    BY <1>2 DEF RecordPending, RecordIssued, Goto, IInv, TypeOK
  <2>2. TypeOK'
    BY <1>2 DEF IInv, TypeOK, RecordPending, RecordIssued, Goto, At, server
  <2>3. UNCHANGED <<now, server, requests, current, keys, chain, prepared>>
    BY <1>2 DEF RecordPending, RecordIssued
  <2>4. RunOK(b)' /\ PendingOK(pending)'
    BY <2>1, <2>3 DEF IInv, DesktopOK, RunOK, PendingOK
  <2> QED
    BY <2>1, <2>2, <2>3, <2>4, RunStep, HoldersKnow DEF IInv, DesktopOK, HasPair
<1> QED
  BY <1>1, <1>2 DEF RecordIssued

\* The replacement is written into the directory of its own version.
LEMMA PersistChainInv ==
    ASSUME IInv, NEW b \in Bridge, PersistChain(b)
    PROVE  IInv'
<1> USE RecordTypes
<1> PICK p : p = [mem[b] EXCEPT !.phase = "issued"]
  OBVIOUS
<1>1. /\ p.phase = "issued" /\ p.id = mem[b].id /\ p.old = mem[b].old
      /\ p.cert = mem[b].cert /\ p \in Pending
      /\ mem[b].phase = "prepared" /\ mem[b].cert.version = mem[b].id
  BY DEF PersistChain, Pending, IInv, DesktopOK, RunOK, Acceptable
<1>2. /\ \A v \in Bridge \ {b} : at'[v] = at[v] /\ mem'[v] = mem[v]
      /\ at'[b] = "issue" /\ mem'[b] = p /\ at[b] = "persist"
      /\ UNCHANGED <<server, requests, current, keys, pending, prepared>>
  BY DEF PersistChain, Goto, IInv, TypeOK
<1>3. /\ \A v \in Version : chain'[v] = IF v = mem[b].id THEN mem[b].cert ELSE chain[v]
      /\ mem[b].cert \in Cert \cup {NoCert}
  BY DEF PersistChain, IInv, TypeOK, Pending
<1>4. TypeOK'
  BY <1>1, <1>3 DEF PersistChain, IInv, TypeOK, Goto, At, server
<1>5. RunOK(b)' /\ PendingOK(pending)'
  <2>1. PendingOK(mem[b]) /\ PendingOK(pending)
    BY DEF IInv, DesktopOK, RunOK
  <2> QED
    BY <1>1, <1>2, <2>1 DEF RunOK, PendingOK
<1>6. HasPair(current)'
  BY <1>1, <1>2, <1>3 DEF IInv, DesktopOK, HasPair, TypeOK
<1>7. /\ \A v \in Version : chain'[v] \in Known
      /\ pending'.cert \in Known /\ mem'[b].cert \in Known
  BY <1>1, <1>2, <1>3, HoldersKnow
<1>8. /\ current <= current' /\ current' <= prepared'
      /\ prepared <= prepared' /\ prepared' <= MaxVersion
  BY <1>2 DEF IInv, DesktopOK
<1> QED
  BY <1>2, <1>4, <1>5, <1>6, <1>7, <1>8, RunStep

\* The symlink moves to a later version that has its pair.
LEMMA InstallInv ==
    ASSUME IInv, NEW b \in Bridge, Install(b)
    PROVE  IInv'
<1> USE RecordTypes DEF Install
<1>1. /\ \A v \in Bridge \ {b} : at'[v] = at[v] /\ mem' = mem
      /\ at'[b] = "confirm" /\ current' = mem[b].id
  BY DEF Goto, IInv, TypeOK
<1>2. /\ mem[b].phase = "issued" /\ PendingOK(mem[b]) /\ mem[b].id \in Version
      /\ mem[b].old < mem[b].id /\ mem[b].id <= prepared
  BY DEF IInv, DesktopOK, RunOK, PendingOK
<1>3. TypeOK'
  BY <1>1, <1>2 DEF IInv, TypeOK, Goto, At, server
<1>4. current <= current' /\ HasPair(current)'
  BY <1>1, <1>2 DEF Recoverable, HasPair, PendingOK, IInv, DesktopOK
<1>5. RunOK(b)' /\ PendingOK(pending)'
  BY <1>1, <1>2 DEF IInv, DesktopOK, RunOK, PendingOK
<1> QED
  BY <1>1, <1>2, <1>3, <1>4, <1>5, RunStep, HoldersKnow DEF IInv, DesktopOK

\* What is dropped belongs to an earlier version than the one in use.
LEMMA DropInv ==
    ASSUME IInv, NEW b \in Bridge, DropKey(b) \/ DropChain(b)
    PROVE  IInv'
<1> USE RecordTypes DEF DropKey, DropChain
<1>1. /\ \A v \in Bridge \ {b} : at'[v] = at[v] /\ mem' = mem
      /\ at[b] \in {"dropkey", "dropchain"} /\ at'[b] \in {"dropchain", "forget"}
  BY DEF Goto, IInv, TypeOK
<1>2. /\ mem[b].phase = "issued" /\ mem[b].old \in Version
      /\ mem[b].old < mem[b].id /\ mem[b].id <= current
  BY <1>1 DEF IInv, DesktopOK, RunOK, PendingOK
<1>3. \A v \in Version : \/ chain'[v] = chain[v]
                         \/ chain'[v] = NoCert /\ v = mem[b].old
  BY DEF IInv, TypeOK
<1>4. TypeOK'
  BY DEF IInv, TypeOK, Goto, At, server
<1>5. HasPair(current)'
  BY <1>2, <1>3 DEF IInv, DesktopOK, HasPair, TypeOK
<1>6. RunOK(b)' /\ PendingOK(pending)'
  BY <1>1, <1>2 DEF IInv, DesktopOK, RunOK, PendingOK
<1> QED
  BY <1>1, <1>3, <1>4, <1>5, <1>6, RunStep, HoldersKnow DEF IInv, DesktopOK

-----------------------------------------------------------------------------
(* Requests.                                                                *)

\* What a request has its type.
LEMMA RequestTypes ==
    ASSUME IInv, NEW r \in requests
    PROVE  /\ r \in Request /\ r.cert \in Cert /\ r.cert \in Known /\ r.id \in Version
           /\ r.to # Gone => r.to \in Bridge /\ at[r.to] = Awaits(r.op)
           /\ r.op \in {"start", "confirm"} /\ r.cert.version \in Nat
  BY HoldersKnow DEF IInv, TypeOK, Request, RequestsOK, Cert, Version

\* A run asks with the pair that is active, for the rotation it works on.
LEMMA SendInv ==
    ASSUME IInv, NEW b \in Bridge, SendStart(b) \/ SendConfirm(b)
    PROVE  IInv'
<1> USE RecordTypes
<1> PICK op \in {"start", "confirm"} : /\ at[b] = op
                                       /\ Send(b, op, Awaits(op))
  BY DEF SendStart, SendConfirm, Awaits
<1>0. PICK r : r = [to |-> b, op |-> op, id |-> mem[b].id, cert |-> chain[current],
                  since |-> 0, known |-> FALSE]
  OBVIOUS
<1>1. /\ requests' = requests \cup {r} /\ mem' = mem
      /\ \A v \in Bridge \ {b} : at'[v] = at[v]
      /\ at'[b] = Awaits(op) /\ at[b] \in {"start", "confirm"}
      /\ UNCHANGED <<now, server, desktop, began, mem>>
  BY <1>0 DEF Send, Goto, IInv, TypeOK
<1>2. /\ mem[b].phase \in {"prepared", "issued"} /\ mem[b].id \in Version /\ mem[b].id >= 2
      /\ chain[current] \in Cert /\ chain[current].version = current
  <2>1. mem[b].phase \in {"prepared", "issued"} /\ PendingOK(mem[b])
    BY <1>1 DEF IInv, DesktopOK, RunOK
  <2>2. mem[b].id \in Version /\ mem[b].id >= 2
    BY <2>1, RotationAssumption DEF PendingOK, Version
  <2>3. chain[current].version = current /\ chain[current] \in Cert \cup {NoCert}
    BY DEF IInv, TypeOK, DesktopOK, HasPair
  <2>4. chain[current] # NoCert
    BY <2>3, RotationAssumption DEF NoCert
  <2> QED
    BY <2>1, <2>2, <2>3, <2>4
<1>3. r \in Request /\ r.to = b /\ r.op = op /\ r.id >= 2 /\ r.cert = chain[current]
  BY <1>0, <1>2 DEF Request
<1>4. TypeOK'
  BY <1>1, <1>3 DEF IInv, TypeOK, Send, Goto, At, Awaits, server, desktop
<1>5. DesktopOK'
  <2>1. ASSUME NEW v \in Bridge PROVE RunOK(v)'
    BY <1>1, <2>1 DEF IInv, DesktopOK, RunOK, PendingOK, Awaits, desktop
  <2> QED
    BY <1>1, <2>1 DEF IInv, DesktopOK, PendingOK, HasPair, desktop
<1>6. \A q \in requests : q.to # b
  BY <1>1 DEF IInv, RequestsOK, Awaits
<1>7. RequestsOK'
  <2>1. \A p \in requests' : p.id >= 2 /\ p.cert.version <= current'
    BY <1>1, <1>2, <1>3, <1>6 DEF IInv, RequestsOK, desktop
  <2>2. \A p \in requests' : p.to \in Bridge => at'[p.to] = Awaits(p.op)
    BY <1>1, <1>2, <1>3, <1>6 DEF IInv, RequestsOK, desktop
  <2>3. \A p, u \in requests' : p.to \in Bridge /\ p.to = u.to => p = u
    BY <1>1, <1>2, <1>3, <1>6 DEF IInv, RequestsOK, desktop
  <2> QED
    BY <2>1, <2>2, <2>3 DEF RequestsOK, Awaits
<1>8. Known' \subseteq Known
  <2>1. \A q \in requests' : q.cert \in Known
    BY <1>1, <1>3, HoldersKnow DEF IInv, TypeOK
  <2> QED
    BY <1>1, <2>1, HoldersKnow, NothingNew DEF server, desktop
<1> QED
  BY <1>1, <1>2, <1>3, <1>4, <1>5, <1>7, <1>8, ServerKept DEF desktop

\* Requests get another receiver or another time, or are gone.
LEMMA RequestsKept ==
    ASSUME IInv, UNCHANGED <<server, desktop>>, TypeOK', RequestsOK',
           \A b \in Bridge : \/ at'[b] = at[b] /\ mem'[b] = mem[b]
                             \/ at'[b] = "idle" /\ mem'[b] = NoPending,
           \A r \in requests' : \E q \in requests : q.op = r.op /\ q.cert = r.cert
    PROVE  IInv'
<1> USE DEF server, desktop
<1>1. DesktopOK'
  <2>1. ASSUME NEW v \in Bridge PROVE RunOK(v)'
    BY <2>1 DEF IInv, DesktopOK, RunOK, PendingOK, NoPending
  <2> QED
    BY <2>1 DEF IInv, DesktopOK, PendingOK, HasPair
<1>2. Known' \subseteq Known
  BY HoldersKnow, NothingNew DEF NoPending
<1>3. current \in Nat
  BY DEF IInv, TypeOK, Version
<1> QED
  BY <1>1, <1>2, <1>3, ServerKept

\* The request of a run that stops is on its own.
LEMMA StopInv ==
    ASSUME IInv, NEW b \in Bridge, Stop(b)
    PROVE  IInv'
<1> USE DEF Stop
<1>1. /\ \A v \in Bridge \ {b} : at'[v] = at[v] /\ mem'[v] = mem[v]
      /\ at'[b] = "idle" /\ mem'[b] = NoPending
  BY DEF Exit, IInv, TypeOK
<1>2. ASSUME NEW r \in requests'
      PROVE  \E q \in requests :
                /\ r \in Request /\ r.op = q.op /\ r.id = q.id /\ r.cert = q.cert
                /\ r.to # b
                /\ (r = q /\ q.to # b) \/ (r.to = Gone /\ q.to = b)
  <2>0. PICK q \in requests : r = IF q.to = b THEN [q EXCEPT !.to = Gone] ELSE q
    BY <1>2
  <2>1. q \in Request
    BY DEF IInv, TypeOK
  <2>2. CASE q.to = b
    <3> PICK p : p = [q EXCEPT !.to = Gone]
      OBVIOUS
    <3>1. /\ p.to = Gone /\ p.op = q.op /\ p.id = q.id /\ p.cert = q.cert
          /\ p \in Request
      BY <2>1 DEF Request
    <3> QED
      BY <2>0, <2>2, <3>1, RotationAssumption
  <2>3. CASE q.to # b
    <3>1. r = q
      BY <2>0, <2>3
    <3> QED
      BY <2>1, <2>3, <3>1
  <2> QED
    BY <2>2, <2>3
<1>3. RequestsOK'
  <2>1. \A r \in requests' : r.id >= 2 /\ r.cert.version <= current'
    BY <1>2 DEF IInv, RequestsOK, desktop
  <2>2. \A r \in requests' : r.to \in Bridge => at'[r.to] = Awaits(r.op)
    BY <1>1, <1>2, RotationAssumption DEF IInv, RequestsOK
  <2>3. \A r, q \in requests' : r.to \in Bridge /\ r.to = q.to => r = q
    BY <1>2, RotationAssumption DEF IInv, RequestsOK
  <2> QED
    BY <2>1, <2>2, <2>3 DEF RequestsOK, Awaits
<1>4. TypeOK'
  <2>1. requests' \subseteq Request
    BY <1>2
  <2> QED
    BY <2>1 DEF IInv, TypeOK, Exit, At, Pending, NoPending, server, desktop
<1> QED
  BY <1>1, <1>2, <1>3, <1>4, RequestsKept

\* A refused request is gone, and its run ends.
LEMMA RejectInv ==
    ASSUME IInv, NEW r \in requests, Reject(r)
    PROVE  IInv'
<1> USE DEF Reject
<1>1. \A b \in Bridge : \/ at'[b] = at[b] /\ mem'[b] = mem[b]
                        \/ at'[b] = "idle" /\ mem'[b] = NoPending /\ b = r.to
  BY DEF Exit, IInv, TypeOK, runs
<1>2. TypeOK'
  <2>1. NoPending \in Pending
    BY DEF Pending, NoPending
  <2> QED
    BY <2>1, RequestTypes DEF IInv, TypeOK, Exit, At, server, desktop, runs
<1>3. RequestsOK'
  <2>1. \A p \in requests' : p.id >= 2 /\ p.cert.version <= current'
    BY <1>1 DEF IInv, RequestsOK, desktop
  <2>2. \A p \in requests' : p.to \in Bridge => at'[p.to] = Awaits(p.op)
    BY <1>1 DEF IInv, RequestsOK, desktop
  <2>3. \A p, u \in requests' : p.to \in Bridge /\ p.to = u.to => p = u
    BY <1>1 DEF IInv, RequestsOK, desktop
  <2> QED
    BY <2>1, <2>2, <2>3 DEF RequestsOK, Awaits
<1> QED
  BY <1>1, <1>2, <1>3, RequestsKept

\* The request is authenticated and keeps its certificate.
LEMMA AuthenticateInv ==
    ASSUME IInv, NEW r \in requests, Authenticate(r)
    PROVE  IInv'
<1>0. PICK q : q = [r EXCEPT !.known = TRUE, !.since = now]
  OBVIOUS
<1>1. /\ q.to = r.to /\ q.op = r.op /\ q.id = r.id /\ q.cert = r.cert /\ q \in Request
  BY <1>0, RequestTypes DEF Request, IInv, TypeOK
<1>2. /\ requests' = (requests \ {r}) \cup {q}
      /\ UNCHANGED <<now, server, desktop, runs>>
  BY <1>0 DEF Authenticate
<1>3. TypeOK'
  BY <1>1, <1>2 DEF IInv, TypeOK, server, desktop, runs
<1>4. RequestsOK'
  <2>1. \A p \in requests' : p.id >= 2 /\ p.cert.version <= current'
    BY <1>1, <1>2 DEF IInv, RequestsOK, desktop, runs
  <2>2. \A p \in requests' : p.to \in Bridge => at'[p.to] = Awaits(p.op)
    BY <1>1, <1>2 DEF IInv, RequestsOK, desktop, runs
  <2>3. \A p, u \in requests' : p.to \in Bridge /\ p.to = u.to => p = u
    BY <1>1, <1>2 DEF IInv, RequestsOK, desktop, runs
  <2> QED
    BY <2>1, <2>2, <2>3 DEF RequestsOK, Awaits
<1> QED
  BY <1>1, <1>2, <1>3, <1>4, RequestsKept DEF runs

\* The clock goes on.
LEMMA TickInv ==
    ASSUME IInv, Tick
    PROVE  IInv'
<1>1. UNCHANGED <<server, requests, desktop, runs>> /\ now' = now + 1
  BY DEF Tick
<1>2. TypeOK'
  BY <1>1 DEF IInv, TypeOK, server, desktop, runs
<1>3. RequestsOK'
  BY <1>1 DEF IInv, RequestsOK, Awaits, desktop, runs
<1> QED
  BY <1>1, <1>2, <1>3, RequestsKept DEF runs

-----------------------------------------------------------------------------
(* Answers.                                                                 *)

\* The run that waits for the answer goes on with it; nothing else happens to the desktop
\* and the requests.
LEMMA AnswerKeeps ==
    ASSUME IInv, NEW r \in requests, NEW s, NEW c, Answer(r, s, c),
           \/ r.op = "start" /\ s = "persist"
           \/ r.op = "confirm" /\ s = "complete" /\ (r.to \in Bridge => c = mem[r.to].cert),
           r.to \in Bridge => c \in Cert \cup {NoCert}
    PROVE  /\ DesktopOK' /\ RequestsOK' /\ requests' = requests \ {r}
           /\ UNCHANGED <<now, desktop, began>>
           /\ at' \in [Bridge -> At] /\ mem' \in [Bridge -> Pending]
           /\ \A b \in Bridge : mem'[b].cert \in {mem[b].cert, c}
<1>1. /\ requests' = requests \ {r}
      /\ UNCHANGED <<now, desktop, began>>
  BY DEF Answer
<1>2. CASE r.to = Gone
  <2>1. at' = at /\ mem' = mem
    BY <1>2 DEF Answer
  <2>2. DesktopOK'
    <3>1. ASSUME NEW v \in Bridge PROVE RunOK(v)'
      BY <1>1, <2>1, <3>1 DEF IInv, DesktopOK, RunOK, PendingOK, desktop
    <3> QED
      BY <1>1, <3>1 DEF IInv, DesktopOK, PendingOK, HasPair, desktop
  <2>3. RequestsOK'
    BY <1>1, <2>1 DEF IInv, RequestsOK, Awaits, desktop
  <2> QED
    BY <1>1, <2>1, <2>2, <2>3 DEF IInv, TypeOK
<1>3. CASE r.to # Gone
  <2>1. r.to \in Bridge /\ at[r.to] = Awaits(r.op)
    BY <1>3, RequestTypes
  <2>2. PICK b \in Bridge : b = r.to
    BY <2>1
  <2>3. PICK p : p = [mem[b] EXCEPT !.cert = c]
    OBVIOUS
  <2>4. /\ p \in Pending /\ p.phase = mem[b].phase /\ p.id = mem[b].id
        /\ p.old = mem[b].old /\ p.cert = c
    BY <2>1, <2>2, <2>3, RecordTypes DEF Pending
  <2>5. at' = [at EXCEPT ![b] = s] /\ mem' = [mem EXCEPT ![b] = p]
    BY <1>3, <2>2, <2>3 DEF Answer, Goto
  <2>6. /\ \A v \in Bridge \ {b} : at'[v] = at[v] /\ mem'[v] = mem[v]
        /\ at'[b] = s /\ mem'[b] = p
    BY <2>5 DEF IInv, TypeOK
  <2>7. RunOK(b)'
    <3>1. PendingOK(mem[b]) /\ RunOK(b)
      BY DEF IInv, DesktopOK, RunOK
    <3>2. CASE r.op = "start"
      BY <1>1, <2>1, <2>2, <2>4, <2>6, <3>1, <3>2
         DEF RunOK, PendingOK, Awaits, desktop
    <3>3. CASE r.op = "confirm"
      BY <1>1, <2>1, <2>2, <2>4, <2>6, <3>1, <3>3
         DEF RunOK, PendingOK, Awaits, desktop
    <3> QED
      BY <3>2, <3>3
  <2>8. DesktopOK'
    <3>1. ASSUME NEW v \in Bridge \ {b} PROVE RunOK(v)'
      BY <1>1, <2>6, <3>1 DEF IInv, DesktopOK, RunOK, PendingOK, desktop
    <3> QED
      BY <1>1, <2>7, <3>1 DEF IInv, DesktopOK, PendingOK, HasPair, desktop
  <2>9. RequestsOK'
    <3>1. \A q \in requests' : q.to # b
      BY <1>1, <2>2 DEF IInv, RequestsOK
    <3>2. \A q \in requests' : q.id >= 2 /\ q.cert.version <= current'
      BY <1>1 DEF IInv, RequestsOK, desktop
    <3>3. \A q \in requests' : q.to \in Bridge => at'[q.to] = Awaits(q.op)
      BY <1>1, <2>6, <3>1 DEF IInv, RequestsOK
    <3>4. \A q, u \in requests' : q.to \in Bridge /\ q.to = u.to => q = u
      BY <1>1 DEF IInv, RequestsOK
    <3> QED
      BY <3>2, <3>3, <3>4 DEF RequestsOK, Awaits
  <2>10. at' \in [Bridge -> At] /\ mem' \in [Bridge -> Pending]
    BY <2>4, <2>5 DEF IInv, TypeOK, At
  <2> QED
    BY <1>1, <2>4, <2>6, <2>8, <2>9, <2>10
<1> QED
  BY <1>2, <1>3

\* Answers that leave the tables alone: a replay, and a confirmation that is repeated.
LEMMA AnsweredInv ==
    ASSUME IInv, NEW r \in requests, NEW s, NEW c, Answer(r, s, c), UNCHANGED server,
           \/ r.op = "start" /\ s = "persist"
           \/ r.op = "confirm" /\ s = "complete" /\ (r.to \in Bridge => c = mem[r.to].cert),
           r.to \in Bridge => c \in Known /\ c \in Cert \cup {NoCert}
    PROVE  IInv'
<1>1. /\ DesktopOK' /\ RequestsOK' /\ requests' = requests \ {r}
      /\ UNCHANGED <<now, desktop, began>>
      /\ at' \in [Bridge -> At] /\ mem' \in [Bridge -> Pending]
      /\ \A b \in Bridge : mem'[b].cert \in {mem[b].cert, c}
  BY AnswerKeeps
<1>2. TypeOK'
  BY <1>1 DEF IInv, TypeOK, server, desktop
<1>3. \A b \in Bridge : mem'[b].cert \in Known
  <2>1. CASE r.to \in Bridge
    BY <1>1, <2>1, HoldersKnow
  <2>2. CASE r.to \notin Bridge
    <3>1. mem' = mem
      BY <2>2, RequestTypes DEF Answer
    <3> QED
      BY <3>1, HoldersKnow
  <2> QED
    BY <2>1, <2>2
<1>4. Known' \subseteq Known
  BY <1>1, <1>3, HoldersKnow, NothingNew DEF server, desktop
<1>5. current \in Nat
  BY DEF IInv, TypeOK, Version
<1> QED
  BY <1>1, <1>2, <1>4, <1>5, ServerKept DEF desktop

\* A rotation is answered again.
LEMMA ReplayInv ==
    ASSUME IInv, NEW r \in requests, Replay(r)
    PROVE  IInv'
<1>1. PICK x \in rotations : Answer(r, "persist", x.new)
  BY DEF Replay, RotationOf
<1>2. x.new \in certs /\ x.new \in Cert /\ r.op = "start"
  BY DEF Replay, Serves, IInv, ChainOfRotations, TypeOK, Rotation
<1> QED
  BY <1>1, <1>2, AnsweredInv, HoldersKnow DEF Replay

\* The certificate to replace has been in use, is of another version than its replacement
\* and has not been replaced.
LEMMA Replaceable ==
    ASSUME IInv, NEW r \in requests, InDatabase(r), RotationOf(r) = {},
           Replacing(r.cert) = {}, open = {}
    PROVE  /\ \A y \in rotations : y.id # r.id /\ y.old # r.cert.serial
           /\ r.cert.version <= current /\ r.cert.version # r.id /\ r.id >= 2
           /\ \A c \in certs : c.serial = r.cert.serial => c = r.cert
<1>1. \A y \in rotations : y.id # r.id
  BY DEF RotationOf
<1>2. \A y \in rotations : y.old # r.cert.serial
  BY DEF Replacing, InDatabase, IInv, ChainOfRotations
<1>3. r.cert.version <= current /\ r.id >= 2
  BY DEF IInv, RequestsOK
<1>4. r.cert.version # r.id
  <2>1. CASE r.cert = First
    BY <1>3, <2>1 DEF First
  <2>2. ASSUME NEW y \in rotations, y.new = r.cert PROVE r.cert.version = y.id
    BY <2>2 DEF IInv, ChainOfRotations, RotationOK, Issued
  <2> QED
    BY <1>1, <2>1, <2>2 DEF IInv, ChainOfRotations, InDatabase
<1>5. \A c \in certs : c.serial = r.cert.serial => c = r.cert
  BY HoldersKnow DEF IInv, SerialsUnique
<1> QED
  BY <1>1, <1>2, <1>3, <1>4, <1>5

\* A new rotation: its certificate has a serial nobody knows yet.
LEMMA IssueInv ==
    ASSUME IInv, NEW r \in requests, Issue(r)
    PROVE  IInv'
<1>1. /\ r.op = "start" /\ open = {} /\ r.cert \in certs /\ InDatabase(r)
      /\ signed' = signed + 1
      /\ UNCHANGED <<active, certs, revoked, rotations, lost>>
  BY DEF Issue, Serves, InDatabase
<1>2. PICK new : new = [version |-> r.id, serial |-> signed', from |-> r.since]
  OBVIOUS
<1>3. PICK x : x = [id |-> r.id, old |-> r.cert.serial, new |-> new, confirmed |-> FALSE]
  OBVIOUS
<1>4. PICK t : t = [op |-> "issue", rotation |-> x]
  OBVIOUS
<1>5. open' = {t} /\ Answer(r, "persist", new)
  BY <1>1, <1>2, <1>3, <1>4 DEF Issue
<1>6. /\ new.version = r.id /\ new.serial = signed + 1 /\ new \in Cert
      /\ x.id = r.id /\ x.old = r.cert.serial /\ x.new = new /\ ~x.confirmed /\ x \in Rotation
      /\ t.op = "issue" /\ t.rotation = x /\ t \in Transaction
  BY <1>1, <1>2, <1>3, <1>4, RequestTypes
     DEF Cert, Rotation, Transaction, Request, IInv, TypeOK
<1>7. /\ DesktopOK' /\ RequestsOK' /\ requests' = requests \ {r}
      /\ UNCHANGED <<now, desktop, began>>
      /\ at' \in [Bridge -> At] /\ mem' \in [Bridge -> Pending]
      /\ \A b \in Bridge : mem'[b].cert \in {mem[b].cert, new}
  BY <1>1, <1>5, <1>6, AnswerKeeps
<1>8. TypeOK'
  BY <1>1, <1>5, <1>6, <1>7 DEF IInv, TypeOK, desktop
<1>9. \A c \in Known : c.serial \in 0..signed /\ c.serial # new.serial
  BY <1>6 DEF IInv, SerialsUnique, TypeOK
<1>10. SerialsUnique'
  <2>1. Known' \subseteq Known \cup {new}
    BY <1>1, <1>5, <1>6, <1>7, HoldersKnow DEF Known, desktop
  <2>2. signed \in Nat
    BY DEF IInv, TypeOK
  <2> QED
    BY <1>1, <1>6, <1>9, <2>1, <2>2 DEF IInv, SerialsUnique
<1>11. /\ new \notin certs
       /\ \A q \in requests : q.cert # new
  BY <1>9, HoldersKnow
<1>12. OpenOK'
  BY <1>1, <1>5, <1>6, <1>11 DEF OpenOK
<1>13. Issued = rotations /\ Issued' = rotations \cup {x}
  BY <1>1, <1>5, <1>6 DEF Issued
<1>14. /\ \A y \in rotations : y.id # r.id /\ y.old # r.cert.serial
       /\ r.cert.version <= current /\ r.cert.version # r.id /\ r.id >= 2
       /\ \A c \in certs : c.serial = r.cert.serial => c = r.cert
  BY <1>1, Replaceable DEF Issue
<1>15. ChainOfRotations'
  <2>1. \A y \in Issued' : RotationOK(y)'
    BY <1>1, <1>6, <1>13, <1>14 DEF IInv, ChainOfRotations, RotationOK
  <2>2. \A y, z \in Issued' : y.id = z.id \/ y.old = z.old => y = z
    BY <1>6, <1>13, <1>14 DEF IInv, ChainOfRotations
  <2> QED
    BY <1>1, <2>1, <2>2 DEF IInv, ChainOfRotations, First
<1>16. RevokedByRotation'
  BY <1>1 DEF IInv, RevokedByRotation
<1>17. OldInUse'
  BY <1>1, <1>6, <1>7, <1>13, <1>14 DEF IInv, OldInUse, desktop
<1>18. ConfirmedAfterInstall'
  <2>1. ~Confirming(x)'
    BY <1>5, <1>6, <1>7, <1>11 DEF Confirming
  <2>2. \A y \in rotations : Confirming(y)' => Confirming(y)
    BY <1>5, <1>6, <1>7 DEF Confirming
  <2> QED
    BY <1>1, <1>7, <1>13, <2>1, <2>2 DEF IInv, ConfirmedAfterInstall, desktop
<1> QED
  BY <1>7, <1>8, <1>10, <1>12, <1>15, <1>16, <1>17, <1>18 DEF IInv

\* A confirmation: it comes with the replacement, so with an installed one.
LEMMA ConfirmInv ==
    ASSUME IInv, NEW r \in requests, Confirm(r)
    PROVE  IInv'
<1>1. /\ r.op = "confirm" /\ open = {} /\ Answer(r, "complete", mem[r.to].cert)
      /\ UNCHANGED <<active, certs, revoked, rotations, signed, lost>>
  BY DEF Confirm, Serves
<1>2. PICK x \in rotations :
         /\ x.new.serial = r.cert.serial
         /\ IF x.confirmed
              THEN UNCHANGED open
              ELSE open' = open \cup {[op |-> "confirm", rotation |-> x]}
  BY DEF Confirm, RotationOf, ConfirmedBy
<1>3. \A b \in Bridge : mem[b].cert \in Known /\ mem[b].cert \in Cert \cup {NoCert}
  BY HoldersKnow DEF IInv, TypeOK, Pending
<1>4. CASE x.confirmed
  BY <1>1, <1>2, <1>3, <1>4, AnsweredInv DEF server
<1>5. CASE ~x.confirmed
  <2>1. PICK t : t = [op |-> "confirm", rotation |-> x]
    OBVIOUS
  <2>2. open' = {t} /\ t.op = "confirm" /\ t.rotation = x /\ t \in Transaction
    BY <1>1, <1>2, <1>5, <2>1 DEF Transaction, IInv, TypeOK
  <2>3. /\ DesktopOK' /\ RequestsOK' /\ requests' = requests \ {r}
        /\ UNCHANGED <<now, desktop, began>>
        /\ at' \in [Bridge -> At] /\ mem' \in [Bridge -> Pending]
        /\ \A b \in Bridge : mem'[b].cert \in {mem[b].cert, mem[r.to].cert}
    BY <1>1, <1>3, AnswerKeeps
  <2>4. \A b \in Bridge : mem'[b].cert \in Known
    <3>1. CASE r.to \in Bridge
      BY <1>3, <2>3, <3>1
    <3>2. CASE r.to \notin Bridge
      BY <1>1, <1>3, <3>2, RequestTypes DEF Answer
    <3> QED
      BY <3>1, <3>2
  <2>5. TypeOK'
    BY <1>1, <2>2, <2>3 DEF IInv, TypeOK, desktop
  <2>6. x.new \in certs /\ x.new = r.cert
    BY <1>2, HoldersKnow DEF IInv, ChainOfRotations, SerialsUnique
  <2>7. Known' \subseteq Known
    BY <1>1, <2>2, <2>3, <2>4, <2>6, HoldersKnow, NothingNew DEF desktop
  <2>8. SerialsUnique'
    BY <1>1, <2>7 DEF IInv, SerialsUnique
  <2>9. OpenOK'
    BY <1>1, <1>5, <2>2 DEF OpenOK
  <2>10. Issued' = Issued /\ Issued = rotations
    BY <1>1, <2>2 DEF Issued
  <2>11. ChainOfRotations' /\ RevokedByRotation' /\ OldInUse'
    BY <1>1, <2>3, <2>10
       DEF IInv, ChainOfRotations, RotationOK, RevokedByRotation, OldInUse, desktop
  <2>12. ConfirmedAfterInstall'
    <3>1. Confirming(x)
      BY <1>1, <2>6 DEF Confirming
    <3>2. ASSUME NEW y \in rotations, Confirming(y)' PROVE Confirming(y)
      BY <2>2, <2>3, <3>1, <3>2 DEF Confirming
    <3> QED
      BY <1>1, <2>3, <2>10, <3>2 DEF IInv, ConfirmedAfterInstall, desktop
  <2> QED
    BY <2>3, <2>5, <2>8, <2>9, <2>11, <2>12 DEF IInv
<1> QED
  BY <1>4, <1>5

-----------------------------------------------------------------------------
(* The ends of transactions, and the administrator.                         *)

\* They leave the desktop and the requests alone, and bring in no certificate.
LEMMA TransactionEnds ==
    ASSUME IInv, UNCHANGED <<signed, requests, desktop, runs>>,
           certs' \subseteq Known, open' \subseteq open
    PROVE  DesktopOK' /\ RequestsOK' /\ SerialsUnique'
<1> USE DEF desktop, runs
<1>1. DesktopOK'
  BY DEF IInv, DesktopOK, RunOK, PendingOK, HasPair
<1>2. RequestsOK'
  BY DEF IInv, RequestsOK, Awaits
<1>3. Known' \subseteq Known
  BY HoldersKnow, NothingNew
<1>4. SerialsUnique'
  BY <1>3 DEF IInv, SerialsUnique
<1> QED
  BY <1>1, <1>2, <1>4

\* The replacement becomes a certificate of the client.
LEMMA CommitIssueInv ==
    ASSUME IInv, NEW t \in open, CommitIssue(t)
    PROVE  IInv'
<1> DEFINE x == t.rotation
<1>1. /\ certs' = certs \cup {x.new} /\ rotations' = rotations \cup {x} /\ t.op = "issue"
      /\ UNCHANGED <<now, active, revoked, signed, lost, requests, desktop, runs>>
  BY DEF CommitIssue
<1>2. open' = {} /\ x.new \notin certs /\ ~x.confirmed /\ open = {t}
  BY <1>1 DEF CommitIssue, IInv, OpenOK
<1>3. x \in Issued /\ x \in Rotation /\ x.new \in Cert /\ x.new \in Known
  BY <1>1, HoldersKnow DEF Issued, IInv, TypeOK, Transaction, Rotation
<1> HIDE DEF x
<1>4. Issued = rotations \cup {x}
  BY <1>1, <1>2 DEF Issued, x
<1>5. Issued' = Issued
  BY <1>1, <1>2, <1>4 DEF Issued
<1>6. TypeOK'
  BY <1>1, <1>2, <1>3 DEF IInv, TypeOK, desktop, runs
<1>7. DesktopOK' /\ RequestsOK' /\ SerialsUnique'
  BY <1>1, <1>2, <1>3, HoldersKnow, TransactionEnds
<1>8. OpenOK' /\ RevokedByRotation'
  BY <1>1, <1>2 DEF IInv, OpenOK, RevokedByRotation
<1>9. \A c \in certs : c.serial # x.new.serial
  BY <1>2, <1>3, HoldersKnow DEF IInv, SerialsUnique
<1>10. \A y \in Issued : /\ RotationOK(y) /\ y.old # x.new.serial
                         /\ y.old = x.old => y = x
  BY <1>3, <1>9 DEF IInv, ChainOfRotations, RotationOK
<1>11. x \notin rotations
  BY <1>2 DEF IInv, ChainOfRotations
<1>12. ChainOfRotations'
  <2>1. \A y \in Issued' : RotationOK(y)'
    BY <1>1, <1>5, <1>10 DEF RotationOK
  <2>2. /\ \A y \in rotations' : y.new \in certs' /\ (y.confirmed => y.old \in revoked')
        /\ \A c \in certs' : c = First \/ \E y \in rotations' : y.new = c
        /\ \A y, z \in Issued' : y.id = z.id \/ y.old = z.old => y = z
    BY <1>1, <1>2, <1>5 DEF IInv, ChainOfRotations
  <2>3. ASSUME NEW c \in certs
        PROVE  \E y \in rotations' : y.old = c.serial
    <3>1. CASE c.serial = x.old
      BY <1>1, <3>1
    <3>2. CASE c.serial # x.old
      <4>1. PICK d \in certs : d.serial = x.old
        BY <1>3, <1>10 DEF RotationOK
      <4>2. PICK y \in rotations : y.old \in {c.serial, d.serial}
        BY <3>2, <4>1 DEF IInv, ChainOfRotations
      <4>3. y.old # x.old
        BY <1>4, <1>10, <1>11
      <4> QED
        BY <1>1, <4>1, <4>2, <4>3
    <3> QED
      BY <3>1, <3>2
  <2>4. \A c, d \in certs' : \/ c = d
                             \/ \E y \in rotations' : y.old \in {c.serial, d.serial}
    BY <1>1, <2>3
  <2> QED
    BY <2>1, <2>2, <2>4 DEF ChainOfRotations, First
<1>13. OldInUse'
  BY <1>1, <1>5, <1>10 DEF IInv, OldInUse, desktop
<1>14. ConfirmedAfterInstall'
  <2>1. \A y \in Issued : Confirming(y)' => Confirming(y)
    BY <1>1, <1>2 DEF Confirming
  <2> QED
    BY <1>1, <1>5, <1>10, <2>1 DEF IInv, ConfirmedAfterInstall, desktop
<1> QED
  BY <1>6, <1>7, <1>8, <1>12, <1>13, <1>14 DEF IInv

\* The rotation is confirmed and the predecessor revoked.
LEMMA CommitConfirmInv ==
    ASSUME IInv, NEW t \in open, CommitConfirm(t)
    PROVE  IInv'
<1>1. PICK x : x = t.rotation
  OBVIOUS
<1>2. PICK z : z = [x EXCEPT !.confirmed = TRUE]
  OBVIOUS
<1>3. /\ rotations' = (rotations \ {x}) \cup {z} /\ revoked' = revoked \cup {x.old}
      /\ t.op = "confirm"
      /\ UNCHANGED <<now, active, certs, signed, lost, requests, desktop, runs>>
  BY <1>1, <1>2 DEF CommitConfirm
<1>4. open' = {} /\ open = {t} /\ x \in rotations /\ ~x.confirmed
  BY <1>1, <1>3 DEF CommitConfirm, IInv, OpenOK
<1>5. /\ z.id = x.id /\ z.old = x.old /\ z.new = x.new /\ z.confirmed
      /\ z \in Rotation /\ x.old \in Nat
  BY <1>2, <1>4 DEF IInv, TypeOK, Rotation
<1>6. Issued = rotations /\ Issued' = rotations'
  BY <1>3, <1>4 DEF Issued
<1>7. TypeOK'
  BY <1>3, <1>4, <1>5 DEF IInv, TypeOK, desktop, runs
<1>8. DesktopOK' /\ RequestsOK' /\ SerialsUnique'
  BY <1>3, <1>4, HoldersKnow, TransactionEnds
<1>9. OpenOK'
  BY <1>4 DEF OpenOK
<1>10. \A y \in rotations' : \E u \in rotations :
          u.id = y.id /\ u.old = y.old /\ u.new = y.new
  BY <1>3, <1>4, <1>5
<1>11. \A u \in rotations : \E y \in rotations' :
          y.old = u.old /\ y.new = u.new /\ (u.confirmed => y.confirmed)
  BY <1>3, <1>4, <1>5
<1>12. ChainOfRotations'
  <2>1. \A y \in Issued' : RotationOK(y)'
    BY <1>3, <1>6, <1>10 DEF IInv, ChainOfRotations, RotationOK
  <2>2. \A y \in rotations' : y.new \in certs' /\ (y.confirmed => y.old \in revoked')
    BY <1>3, <1>4, <1>5 DEF IInv, ChainOfRotations
  <2>3. \A y, u \in Issued' : y.id = u.id \/ y.old = u.old => y = u
    BY <1>3, <1>4, <1>5, <1>6 DEF IInv, ChainOfRotations
  <2>4. /\ \A c \in certs' : c = First \/ \E y \in rotations' : y.new = c
        /\ \A c, d \in certs' : \/ c = d
                                \/ \E y \in rotations' : y.old \in {c.serial, d.serial}
    BY <1>3, <1>11 DEF IInv, ChainOfRotations
  <2> QED
    BY <2>1, <2>2, <2>3, <2>4 DEF ChainOfRotations, First
<1>13. RevokedByRotation'
  BY <1>3, <1>5, <1>11 DEF IInv, RevokedByRotation
<1>14. OldInUse'
  BY <1>3, <1>6, <1>10 DEF IInv, OldInUse, desktop
<1>15. ConfirmedAfterInstall'
  <2>1. Confirming(x)
    BY <1>1, <1>3 DEF Confirming
  <2>2. ASSUME NEW y \in rotations', Confirming(y)'
        PROVE  \E u \in rotations :
                  Confirming(u) /\ u.id = y.id /\ u.old = y.old
    <3>1. CASE y = z
      BY <1>4, <1>5, <2>1, <3>1
    <3>2. CASE y # z
      BY <1>3, <1>4, <2>2, <3>2 DEF Confirming
    <3> QED
      BY <3>1, <3>2
  <2> QED
    BY <1>3, <1>6, <2>2 DEF IInv, ConfirmedAfterInstall, desktop
<1> QED
  BY <1>7, <1>8, <1>9, <1>12, <1>13, <1>14, <1>15 DEF IInv

\* A transaction that fails leaves nothing behind in the tables.
LEMMA LoseCommitInv ==
    ASSUME IInv, NEW t \in open, LoseCommit(t)
    PROVE  IInv'
<1>1. /\ UNCHANGED <<now, active, certs, revoked, rotations, signed, requests, desktop, runs>>
      /\ open' = {} /\ lost' = lost + 1
  BY DEF LoseCommit, IInv, OpenOK
<1>2. Issued' \subseteq Issued
  BY <1>1 DEF Issued
<1>3. TypeOK'
  BY <1>1 DEF IInv, TypeOK, desktop, runs
<1>4. DesktopOK' /\ RequestsOK' /\ SerialsUnique'
  BY <1>1, HoldersKnow, TransactionEnds
<1>5. OpenOK' /\ RevokedByRotation'
  BY <1>1 DEF IInv, OpenOK, RevokedByRotation
<1>6. ChainOfRotations' /\ OldInUse'
  BY <1>1, <1>2 DEF IInv, ChainOfRotations, RotationOK, OldInUse, desktop
<1>7. ConfirmedAfterInstall'
  <2>1. \A y \in Issued : Confirming(y)' => Confirming(y)
    BY <1>1 DEF Confirming
  <2> QED
    BY <1>1, <1>2, <2>1 DEF IInv, ConfirmedAfterInstall, desktop
<1> QED
  BY <1>3, <1>4, <1>5, <1>6, <1>7 DEF IInv

\* The administrator revokes the client with all its certificates.
LEMMA RevokeClientInv ==
    ASSUME IInv, RevokeClient
    PROVE  IInv'
<1>1. /\ UNCHANGED <<now, certs, rotations, signed, open, lost, requests, desktop, runs>>
      /\ active' = FALSE /\ revoked' = revoked \cup {c.serial : c \in certs}
  BY DEF RevokeClient
<1>2. Issued' = Issued
  BY <1>1 DEF Issued
<1>3. TypeOK'
  BY <1>1 DEF IInv, TypeOK, Cert, desktop, runs
<1>4. DesktopOK' /\ RequestsOK' /\ SerialsUnique'
  BY <1>1, HoldersKnow, TransactionEnds
<1>5. OpenOK' /\ RevokedByRotation'
  BY <1>1 DEF IInv, OpenOK, RevokedByRotation
<1>6. ChainOfRotations' /\ OldInUse'
  BY <1>1, <1>2 DEF IInv, ChainOfRotations, RotationOK, OldInUse, desktop
<1>7. ConfirmedAfterInstall'
  BY <1>1, <1>2 DEF IInv, ConfirmedAfterInstall, Confirming, desktop
<1> QED
  BY <1>3, <1>4, <1>5, <1>6, <1>7 DEF IInv

-----------------------------------------------------------------------------
(* The results.                                                             *)

\* Every step keeps the invariant.
LEMMA NextInv == IInv /\ [Next]_vars => IInv'
<1> SUFFICES ASSUME IInv, [Next]_vars PROVE IInv'
  OBVIOUS
<1>1. ASSUME NEW b \in Bridge, Begin(b) \/ Moves(b) \/ Stop(b) PROVE IInv'
  <2>1. CASE NotDue(b) \/ RejectReplacement(b) \/ Forget(b) \/ Refused(b)
    BY <2>1, EndingInv
  <2>2. CASE Begin(b) \/ Due(b) \/ Resume(b) \/ Complete(b)
    BY <2>2, LookingInv
  <2>3. CASE PrepareKey(b) \/ RecordPending(b) \/ RecordIssued(b)
    BY <2>3, PrepareKeyInv, RecordInv
  <2>4. CASE PersistChain(b) \/ Install(b) \/ DropKey(b) \/ DropChain(b)
    BY <2>4, PersistChainInv, InstallInv, DropInv
  <2>5. CASE SendStart(b) \/ SendConfirm(b) \/ Stop(b)
    BY <2>5, SendInv, StopInv
  <2> QED
    BY <1>1, <2>1, <2>2, <2>3, <2>4, <2>5
       DEF Moves, Loading, Preparing, Asking, Switching, Dropping
<1>2. ASSUME NEW r \in requests, Serve(r) \/ Reject(r) PROVE IInv'
  BY <1>2, AuthenticateInv, RejectInv, ReplayInv, IssueInv, ConfirmInv
     DEF Serve, RejectUnknown, RejectStart, RejectConfirm
<1>3. CASE Commit \/ \E t \in open : LoseCommit(t)
  BY <1>3, CommitIssueInv, CommitConfirmInv, LoseCommitInv DEF Commit
<1>4. CASE RevokeClient \/ Tick
  BY <1>4, RevokeClientInv, TickInv
<1>5. CASE UNCHANGED vars
  <2>1. UNCHANGED <<now, server, requests, desktop, runs>>
    BY <1>5 DEF vars
  <2>2. TypeOK' /\ RequestsOK'
    BY <2>1 DEF IInv, TypeOK, RequestsOK, Awaits, server, desktop, runs
  <2> QED
    BY <2>1, <2>2, RequestsKept DEF runs
<1> QED
  BY <1>1, <1>2, <1>3, <1>4, <1>5 DEF Next

\* The invariant: which certificates and rotations there are, what the desktop has on disk,
\* and that a rotation is confirmed only after its replacement is installed.
THEOREM RotationInvariant == Spec => []IInv
  BY InitInv, NextInv, PTL DEF Spec

\* Every variable has its type.
THEOREM TypeInvariant == Spec => []TypeOK
<1>1. IInv => TypeOK
  BY DEF IInv
<1> QED
  BY <1>1, RotationInvariant, PTL

\* Wherever a run stops, the symlink names a version with its key and its certificate.
THEOREM ActivePairInvariant == Spec => []ActivePairComplete
<1>1. IInv => ActivePairComplete
  BY DEF IInv, DesktopOK, ActivePairComplete
<1> QED
  BY <1>1, RotationInvariant, PTL

\* The certificate in use is never retired: the rotation that revoked it would have been
\* confirmed with a later version than the one in use.
THEOREM RetiredAfterInstall == Spec => []InstalledBeforeRevoked
<1>1. ASSUME IInv, active, chain[current].serial \in revoked PROVE FALSE
  <2>1. PICK x \in rotations : x.confirmed /\ x.old = chain[current].serial
    BY <1>1 DEF IInv, RevokedByRotation
  <2>2. x \in Issued /\ Confirming(x)
    BY <2>1 DEF Issued, Confirming
  <2>3. PICK c \in certs : c.serial = x.old
    BY <1>1, <2>2 DEF IInv, ChainOfRotations, RotationOK
  <2>4. c = chain[current]
    BY <1>1, <2>1, <2>3, HoldersKnow DEF IInv, TypeOK, SerialsUnique
  <2>5. c.version = current /\ x.id <= current /\ c.version < x.id
    BY <1>1, <2>2, <2>3, <2>4 DEF IInv, DesktopOK, HasPair, ConfirmedAfterInstall
  <2>6. current \in Nat /\ x.id \in Nat
    BY <1>1 DEF IInv, TypeOK, Version, Rotation
  <2> QED
    BY <2>5, <2>6
<1>2. IInv => InstalledBeforeRevoked
  BY <1>1 DEF InstalledBeforeRevoked
<1> QED
  BY <1>2, RotationInvariant, PTL

\* Of two certificates one has been replaced: it is revoked, or in its overlap.
THEOREM OneAtATime == Spec => []OneBusinessCertificate
<1>1. ASSUME IInv, NEW c \in certs, NEW d \in certs, c # d,
             DoesBusiness(c, now), DoesBusiness(d, now)
      PROVE  \E r \in Replacing(c) \cup Replacing(d) : now < r.new.from + Overlap
  <2>1. PICK x \in rotations : x.old \in {c.serial, d.serial}
    BY <1>1 DEF IInv, ChainOfRotations
  <2>2. ~x.confirmed
    BY <1>1, <2>1 DEF IInv, ChainOfRotations, DoesBusiness, Valid
  <2>3. x \in Replacing(c) \cup Replacing(d)
    BY <2>1, <2>2 DEF Replacing
  <2> QED
    BY <1>1, <2>3 DEF DoesBusiness
<1>2. IInv => OneBusinessCertificate
  BY <1>1 DEF OneBusinessCertificate
<1> QED
  BY <1>2, RotationInvariant, PTL

\* Two requests with one identifier, or for one certificate, never both start a rotation.
THEOREM IndexesNeverViolated == Spec => []ConstraintsNeverFire
<1>1. IInv => ConstraintsNeverFire
  BY DEF IInv, ChainOfRotations, Issued, ConstraintsNeverFire
<1> QED
  BY <1>1, RotationInvariant, PTL

-----------------------------------------------------------------------------
(* One run at a time: the desktop always has a pair that is accepted.       *)

\* With no other run beside it, what a run works on is what pending.json says.
Position(b) ==
    /\ at[b] \in {"prepare", "record"} => pending.phase = "none"
    /\ at[b] = "record" => mem[b].old = current
    /\ at[b] \in {"start", "starting", "persist", "issue"} =>
          pending.phase = "prepared" /\ pending.id = mem[b].id /\ pending.old = mem[b].old
    /\ at[b] \in {"install", "confirm", "confirming", "complete", "dropkey", "dropchain",
                  "forget"} => pending = mem[b]
    /\ at[b] \in {"confirm", "confirming", "complete", "dropkey", "dropchain", "forget"} =>
          current = mem[b].id
    /\ pending.phase = "prepared" => current = pending.old
    /\ pending.phase = "issued" => current \in {pending.old, pending.id}

\* While the server does not know the certificate in use, its predecessor is complete.
PredecessorKept ==
    \/ chain[current] \in certs
    \/ /\ pending.phase = "issued" /\ pending.id = current
       /\ HasPair(pending.old) /\ chain[pending.old] \in certs

\* Versions are confirmed one after the other, each with the certificate in use.
ConfirmedInUse ==
    \A x \in Issued : Confirming(x) =>
       /\ x.id = current => x.new = chain[current]
       /\ pending.phase = "issued" /\ pending.id = current =>
             x.id = current \/ x.id <= pending.old

\* A run waits for the confirmation of the certificate in use, and goes on only when the
\* server knows it.
ConfirmsInUse(b) ==
    /\ \A r \in requests : r.to = b /\ r.op = "confirm" => r.cert = chain[current]
    /\ at[b] \in {"complete", "dropkey", "dropchain", "forget"} => chain[current] \in certs

OneRun(b) == Position(b) /\ PredecessorKept /\ ConfirmedInUse /\ ConfirmsInUse(b)

\* What has been said so far, of the run and of its place.
LEMMA OneRunTypes ==
    ASSUME IInv, NEW b \in Bridge
    PROVE  /\ PendingOK(pending) /\ PendingOK(mem[b]) /\ HasPair(current)
           /\ current \in Version /\ pending \in Pending /\ mem[b] \in Pending
           /\ current \in Nat /\ pending.id \in Nat /\ pending.old \in Nat
           /\ mem[b].id \in Nat /\ mem[b].old \in Nat
           /\ at[b] \in At
           /\ \A x \in Issued : /\ x.id \in Nat
                                /\ Confirming(x) => x.id <= current
<1>1. /\ current \in 1..MaxVersion /\ pending \in Pending /\ mem[b] \in Pending /\ at[b] \in At
  BY DEF IInv, TypeOK, Version
<1>2. Issued \subseteq Rotation
  BY DEF Issued, IInv, TypeOK, Transaction
<1> QED
  BY <1>1, <1>2, RotationAssumption
     DEF IInv, DesktopOK, RunOK, Pending, Version, Rotation, ConfirmedAfterInstall

\* While nothing is being installed, the server knows the certificate in use.
LEMMA InUseKnown ==
    ASSUME IInv, NEW b \in Bridge, OneRun(b), pending.phase = "none" \/ current = pending.old
    PROVE  chain[current] \in certs
<1>1. pending.phase = "issued" => pending.old < pending.id
  BY OneRunTypes DEF PendingOK
<1> QED
  BY <1>1, OneRunTypes DEF OneRun, PredecessorKept

\* The end of the run, with the disk as it is.
LEMMA OneRunEnds ==
    ASSUME IInv, NEW b \in Bridge, OneRun(b), Exit(b), UNCHANGED <<server, desktop>>,
           \A r \in requests' : r.to # b,
           \A r \in requests' : \E q \in requests : q.op = r.op /\ q.cert = r.cert
    PROVE  OneRun(b)'
<1> USE DEF server, desktop
<1>1. at'[b] = "idle"
  BY DEF Exit, IInv, TypeOK
<1>2. Position(b)' /\ PredecessorKept' /\ ConfirmsInUse(b)'
  BY <1>1 DEF OneRun, Position, PredecessorKept, HasPair, ConfirmsInUse
<1>3. ConfirmedInUse'
  <2>1. Issued' = Issued /\ \A x \in Issued : Confirming(x)' => Confirming(x)
    BY DEF Issued, Confirming
  <2> QED
    BY <2>1 DEF OneRun, ConfirmedInUse
<1> QED
  BY <1>2, <1>3 DEF OneRun

\* Steps of the run that leave the server, the requests and the pair in use alone.
LEMMA OneRunGoes ==
    ASSUME IInv, NEW b \in Bridge, OneRun(b),
           UNCHANGED <<server, requests, current>>, chain'[current] = chain[current],
           Position(b)',
           at[b] \in {"complete", "dropkey", "dropchain", "forget"}
              \/ at'[b] \notin {"complete", "dropkey", "dropchain", "forget"},
           \/ chain[current] \in certs
           \/ pending' = pending /\ keys \subseteq keys' /\ chain' = chain,
           pending' = pending \/ pending'.phase # "issued" \/ pending'.id # current
    PROVE  OneRun(b)'
<1> USE DEF server
<1>1. PredecessorKept' /\ ConfirmsInUse(b)'
  BY DEF OneRun, PredecessorKept, HasPair, ConfirmsInUse
<1>2. ConfirmedInUse'
  <2>1. Issued' = Issued /\ \A x \in Issued : Confirming(x)' => Confirming(x)
    BY DEF Issued, Confirming
  <2> QED
    BY <2>1 DEF OneRun, ConfirmedInUse
<1> QED
  BY <1>1, <1>2 DEF OneRun

\* The steps that look at the disk, and that prepare a key.
LEMMA OneRunLooks ==
    ASSUME IInv, NEW b \in Bridge, OneRun(b),
           Begin(b) \/ Due(b) \/ Resume(b) \/ Complete(b) \/ PrepareKey(b)
    PROVE  OneRun(b)'
<1> USE OneRunTypes
<1>1. CASE Begin(b) \/ Due(b) \/ Complete(b)
  <2>1. /\ UNCHANGED <<server, requests, desktop, mem>>
        /\ \/ at'[b] = "load"
           \/ at'[b] = "prepare" /\ pending.phase = "none"
           \/ at[b] = "complete" /\ at'[b] = "dropkey"
    BY <1>1 DEF Begin, Due, Complete, Goto, IInv, TypeOK
  <2>2. Position(b)'
    BY <2>1 DEF OneRun, Position, desktop
  <2> QED
    BY <2>1, <2>2, OneRunGoes DEF desktop
<1>2. CASE Resume(b)
  <2>1. /\ UNCHANGED <<server, requests, desktop>> /\ mem'[b] = pending
        /\ pending.phase \in {"prepared", "issued"}
        /\ at'[b] = IF pending.phase = "prepared" THEN "start" ELSE "install"
    BY <1>2 DEF Resume, Goto, IInv, TypeOK, Pending
  <2>2. Position(b)'
    BY <2>1 DEF OneRun, Position, desktop
  <2> QED
    BY <2>1, <2>2, OneRunGoes DEF desktop
<1>3. CASE PrepareKey(b)
  <2>1. PICK p : p = [NoPending EXCEPT !.phase = "prepared", !.id = prepared', !.old = current]
    OBVIOUS
  <2>2. p.old = current
    BY <2>1 DEF NoPending
  <2>3. /\ UNCHANGED <<server, requests, current, chain, pending>> /\ mem'[b] = p
        /\ keys \subseteq keys' /\ at'[b] = "record" /\ pending.phase = "none"
    BY <1>3, <2>1 DEF PrepareKey, Goto, IInv, TypeOK
  <2>4. Position(b)'
    BY <2>2, <2>3 DEF OneRun, Position
  <2> QED
    BY <2>3, <2>4, OneRunGoes
<1> QED
  BY <1>1, <1>2, <1>3

\* The steps that write what the run works on, before anything is installed.
LEMMA OneRunRecords ==
    ASSUME IInv, NEW b \in Bridge, OneRun(b),
           RecordPending(b) \/ PersistChain(b) \/ RecordIssued(b)
    PROVE  OneRun(b)'
<1> USE OneRunTypes
<1>1. CASE RecordPending(b)
  <2>1. /\ UNCHANGED <<server, requests, current, chain, keys, mem>> /\ pending' = mem[b]
        /\ at[b] = "record" /\ at'[b] = "start" /\ mem[b].phase = "prepared"
    BY <1>1 DEF RecordPending, Goto, IInv, TypeOK, DesktopOK, RunOK
  <2>2. Position(b)' /\ pending.phase = "none"
    BY <2>1 DEF OneRun, Position
  <2>3. chain[current] \in certs
    BY <2>2, InUseKnown
  <2> QED
    BY <2>1, <2>2, <2>3, OneRunGoes
<1>2. CASE PersistChain(b)
  <2>1. PICK p : p = [mem[b] EXCEPT !.phase = "issued"]
    OBVIOUS
  <2>2. p.id = mem[b].id /\ p.old = mem[b].old
    BY <2>1 DEF Pending
  <2>3. /\ UNCHANGED <<server, requests, current, keys, pending>> /\ mem'[b] = p
        /\ chain' = [chain EXCEPT ![mem[b].id] = mem[b].cert]
        /\ at[b] = "persist" /\ at'[b] = "issue"
    BY <1>2, <2>1 DEF PersistChain, Goto, IInv, TypeOK
  <2>4. /\ current = pending.old /\ pending.id = mem[b].id /\ pending.phase = "prepared"
        /\ pending.old < pending.id /\ Position(b)'
    BY <2>2, <2>3 DEF OneRun, Position, PendingOK
  <2>5. chain[current] \in certs
    BY <2>4, InUseKnown
  <2>6. chain'[current] = chain[current]
    BY <2>3, <2>4 DEF IInv, TypeOK
  <2> QED
    BY <2>3, <2>4, <2>5, <2>6, OneRunGoes
<1>3. CASE RecordIssued(b)
  <2>1. /\ UNCHANGED <<server, requests, current, keys, chain>> /\ pending' = mem[b]
        /\ at[b] = "issue" /\ mem[b].phase = "issued"
        /\ at'[b] = "idle" \/ (at'[b] = "install" /\ mem' = mem)
    BY <1>3 DEF RecordIssued, Goto, Exit, IInv, TypeOK, DesktopOK, RunOK
  <2>2. /\ current = mem[b].old /\ mem[b].old < mem[b].id /\ current = pending.old
        /\ Position(b)'
    BY <2>1 DEF OneRun, Position, PendingOK
  <2>3. chain[current] \in certs
    BY <2>2, InUseKnown
  <2> QED
    BY <2>1, <2>2, <2>3, OneRunGoes
<1> QED
  BY <1>1, <1>2, <1>3

\* What is dropped after the confirmation is not in use, and the pair in use is accepted.
LEMMA OneRunDrops ==
    ASSUME IInv, NEW b \in Bridge, OneRun(b), DropKey(b) \/ DropChain(b) \/ Forget(b)
    PROVE  OneRun(b)'
<1> USE OneRunTypes
<1>1. /\ at[b] \in {"dropkey", "dropchain", "forget"}
      /\ mem[b].phase = "issued" /\ mem[b].old < mem[b].id /\ current = mem[b].id
      /\ chain[current] \in certs
  BY DEF DropKey, DropChain, Forget, OneRun, Position, ConfirmsInUse, PendingOK,
         IInv, DesktopOK, RunOK
<1>2. CASE DropKey(b) \/ DropChain(b)
  <2>1. /\ UNCHANGED <<server, requests, current, pending, mem>>
        /\ at'[b] \in {"dropchain", "forget"}
        /\ chain'[current] = chain[current]
    BY <1>1, <1>2 DEF DropKey, DropChain, Goto, IInv, TypeOK
  <2>2. Position(b)'
    BY <1>1, <2>1 DEF OneRun, Position
  <2> QED
    BY <1>1, <2>1, <2>2, OneRunGoes
<1>3. CASE Forget(b)
  <2>1. /\ UNCHANGED <<server, requests, current, chain>> /\ pending' = NoPending
        /\ at'[b] = "idle"
    BY <1>3 DEF Forget, Exit, IInv, TypeOK
  <2>2. Position(b)'
    BY <2>1 DEF OneRun, Position, NoPending
  <2> QED
    BY <1>1, <2>1, <2>2, OneRunGoes DEF NoPending
<1> QED
  BY <1>2, <1>3

\* The predecessor is in use until the symlink moves, so it is accepted and complete.
LEMMA OneRunInstalls ==
    ASSUME IInv, NEW b \in Bridge, OneRun(b), Install(b)
    PROVE  OneRun(b)'
<1> USE OneRunTypes
<1>1. /\ UNCHANGED <<server, requests, keys, chain, pending, mem>> /\ current' = mem[b].id
      /\ at[b] = "install" /\ at'[b] = "confirm" /\ mem[b].phase = "issued"
  BY DEF Install, Goto, IInv, TypeOK, DesktopOK, RunOK
<1>2. /\ pending = mem[b] /\ pending.old < pending.id
      /\ current = pending.old \/ current = pending.id
  BY <1>1 DEF OneRun, Position, PendingOK
<1>3. Position(b)'
  BY <1>1, <1>2 DEF OneRun, Position
<1>4. CASE current = pending.id
  <2>1. current' = current
    BY <1>1, <1>2, <1>4
  <2> QED
    BY <1>1, <1>3, <2>1, OneRunGoes
<1>5. CASE current = pending.old
  <2>1. chain[current] \in certs
    BY <1>5, InUseKnown
  <2>2. PredecessorKept'
    BY <1>1, <1>2, <1>5, <2>1 DEF PredecessorKept, HasPair, server
  <2>3. ConfirmedInUse'
    <3>1. Issued' = Issued /\ \A x \in Issued : Confirming(x)' => Confirming(x)
      BY <1>1 DEF Issued, Confirming, server
    <3> QED
      BY <1>1, <1>2, <1>5, <3>1 DEF ConfirmedInUse
  <2>4. ConfirmsInUse(b)'
    <3>1. \A r \in requests : r.to # b
      BY <1>1 DEF IInv, RequestsOK, Awaits
    <3> QED
      BY <1>1, <3>1 DEF ConfirmsInUse
  <2> QED
    BY <1>3, <2>2, <2>3, <2>4 DEF OneRun
<1> QED
  BY <1>2, <1>4, <1>5

\* The run asks with the pair in use; a confirmation therefore is one of the version in use.
LEMMA OneRunSends ==
    ASSUME IInv, NEW b \in Bridge, OneRun(b), SendStart(b) \/ SendConfirm(b)
    PROVE  OneRun(b)'
<1> USE OneRunTypes
<1>1. PICK op \in {"start", "confirm"} : at[b] = op /\ Send(b, op, Awaits(op))
  BY DEF SendStart, SendConfirm, Awaits
<1>2. PICK r : r = [to |-> b, op |-> op, id |-> mem[b].id, cert |-> chain[current],
                    since |-> 0, known |-> FALSE]
  OBVIOUS
<1>3. /\ UNCHANGED <<server, desktop, mem>> /\ requests' = requests \cup {r}
      /\ at'[b] = Awaits(op) /\ r.cert = chain[current] /\ r.op = op
  BY <1>1, <1>2 DEF Send, Goto, IInv, TypeOK
<1>4. Position(b)' /\ PredecessorKept'
  BY <1>1, <1>3 DEF OneRun, Position, PredecessorKept, HasPair, Awaits, server, desktop
<1>5. ConfirmsInUse(b)'
  BY <1>1, <1>3 DEF OneRun, ConfirmsInUse, Awaits, server, desktop
<1>6. ConfirmedInUse'
  <2>1. Issued' = Issued
    BY <1>3 DEF Issued, server
  <2>2. ASSUME NEW x \in Issued, Confirming(x)', ~Confirming(x)
        PROVE  x.new = chain[current] /\ x.id = current
    <3>1. x.new = chain[current]
      BY <1>3, <2>2 DEF Confirming, server
    <3> QED
      BY <3>1 DEF HasPair, IInv, ChainOfRotations, RotationOK
  <2> QED
    BY <1>3, <2>1, <2>2 DEF OneRun, ConfirmedInUse, desktop
<1> QED
  BY <1>4, <1>5, <1>6 DEF OneRun

\* Wherever a run stops.
LEMMA OneRunStops ==
    ASSUME IInv, NEW b \in Bridge, OneRun(b),
           \/ Stop(b) \/ NotDue(b) \/ RejectReplacement(b) \/ Refused(b)
           \/ \E r \in requests : r.to = b /\ Reject(r)
    PROVE  OneRun(b)'
<1>1. CASE Stop(b)
  <2>1. \A r \in requests' : \E q \in requests :
           r = IF q.to = b THEN [q EXCEPT !.to = Gone] ELSE q
    BY <1>1 DEF Stop
  <2>2. ASSUME NEW q \in requests, NEW p, p = [q EXCEPT !.to = Gone]
        PROVE  p.to = Gone /\ p.op = q.op /\ p.cert = q.cert
    BY <2>2, RequestTypes DEF Request
  <2>3. Gone # b
    BY RotationAssumption
  <2> QED
    BY <1>1, <2>1, <2>2, <2>3, OneRunEnds DEF Stop
<1>2. CASE NotDue(b) \/ RejectReplacement(b) \/ Refused(b)
  <2>1. Exit(b) /\ UNCHANGED <<server, requests, desktop>>
    BY <1>2 DEF NotDue, RejectReplacement, Refused, Fail
  <2>2. at[b] \notin {"starting", "confirming"}
    BY <1>2 DEF NotDue, RejectReplacement, Refused
  <2>3. \A r \in requests : r.to # b
    BY <2>2 DEF IInv, RequestsOK, Awaits
  <2> QED
    BY <2>1, <2>3, OneRunEnds
<1>3. ASSUME NEW r \in requests, r.to = b, Reject(r) PROVE OneRun(b)'
  <2>1. requests' = requests \ {r} /\ Exit(b) /\ UNCHANGED <<server, desktop>>
    BY <1>3, RotationAssumption DEF Reject
  <2>2. \A q \in requests' : q.to # b
    BY <1>3, <2>1 DEF IInv, RequestsOK
  <2> QED
    BY <2>1, <2>2, OneRunEnds
<1> QED
  BY <1>1, <1>2, <1>3

\* Steps elsewhere: no rotation is being confirmed that was not before, and no certificate
\* is lost.
LEMMA OneRunWaits ==
    ASSUME IInv, NEW b \in Bridge, OneRun(b), UNCHANGED desktop, certs \subseteq certs',
           at'[b] = at[b] /\ mem'[b] = mem[b],
           \A r \in requests' : \E q \in requests :
              r.to = q.to /\ r.op = q.op /\ r.cert = q.cert,
           \A y \in Issued' : Confirming(y)' =>
              \E x \in Issued : Confirming(x) /\ x.id = y.id /\ x.new = y.new
    PROVE  OneRun(b)'
<1> USE DEF desktop
<1>1. Position(b)' /\ PredecessorKept'
  BY DEF OneRun, Position, PredecessorKept, HasPair
<1>2. ConfirmsInUse(b)' /\ ConfirmedInUse'
  BY DEF OneRun, ConfirmsInUse, ConfirmedInUse
<1> QED
  BY <1>1, <1>2 DEF OneRun

\* An answer: with the certificate of the version that is pending, or with the server's
\* word that it knows the certificate in use.
LEMMA OneRunAnswered ==
    ASSUME IInv, NEW b \in Bridge, OneRun(b), NEW r \in requests, r.to = b,
           NEW s, NEW c, Answer(r, s, c), certs' = certs,
           \/ r.op = "start" /\ s = "persist"
           \/ r.op = "confirm" /\ s = "complete" /\ c = mem[b].cert /\ r.cert \in certs,
           \A y \in Issued' : Confirming(y)' =>
              \E x \in Issued : Confirming(x) /\ x.id = y.id /\ x.new = y.new
    PROVE  OneRun(b)'
<1> USE OneRunTypes
<1>1. PICK p : p = [mem[b] EXCEPT !.cert = c]
  OBVIOUS
<1>2. /\ p.id = mem[b].id /\ p.old = mem[b].old
      /\ c = mem[b].cert => p = mem[b]
  BY <1>1 DEF Pending
<1>3. /\ requests' = requests \ {r} /\ UNCHANGED desktop
      /\ at'[b] = s /\ mem'[b] = p /\ at[b] = Awaits(r.op)
  BY <1>1, RotationAssumption, RequestTypes DEF Answer, Goto, IInv, TypeOK
<1>4. Position(b)' /\ PredecessorKept'
  BY <1>2, <1>3 DEF OneRun, Position, PredecessorKept, HasPair, Awaits, desktop
<1>5. ConfirmsInUse(b)' /\ ConfirmedInUse'
  BY <1>3 DEF OneRun, ConfirmsInUse, ConfirmedInUse, desktop
<1> QED
  BY <1>4, <1>5 DEF OneRun

\* The server's steps for a request.
LEMMA OneRunServed ==
    ASSUME IInv, IInv', NEW b \in Bridge, Bridge = {b}, OneRun(b),
           NEW r \in requests, Serve(r) \/ Reject(r)
    PROVE  OneRun(b)'
<1>1. CASE Reject(r) /\ r.to = b
  BY <1>1, OneRunStops
<1>2. CASE Reject(r) /\ r.to # b
  <2>1. /\ requests' = requests \ {r} /\ UNCHANGED <<server, desktop, runs>>
    BY <1>2, RequestTypes DEF Reject
  <2>2. \A y \in Issued' : y \in Issued /\ (Confirming(y)' => Confirming(y))
    BY <2>1 DEF Issued, Confirming, server
  <2> QED
    BY <2>1, <2>2, OneRunWaits DEF server, runs
<1>3. CASE Authenticate(r)
  <2>1. PICK q : q = [r EXCEPT !.known = TRUE, !.since = now]
    OBVIOUS
  <2>2. q.to = r.to /\ q.op = r.op /\ q.cert = r.cert
    BY <2>1, RequestTypes DEF Request
  <2>3. requests' = (requests \ {r}) \cup {q} /\ UNCHANGED <<server, desktop, runs>>
    BY <1>3, <2>1 DEF Authenticate
  <2>4. \A y \in Issued' : y \in Issued /\ (Confirming(y)' => Confirming(y))
    BY <2>2, <2>3 DEF Issued, Confirming, server
  <2> QED
    BY <2>2, <2>3, <2>4, OneRunWaits DEF server, runs
<1>4. ASSUME NEW s, NEW c, Answer(r, s, c), certs' = certs,
             \/ r.op = "start" /\ s = "persist"
             \/ /\ r.op = "confirm" /\ s = "complete" /\ r.cert \in certs
                /\ r.to = b => c = mem[b].cert,
             \A y \in Issued' : Confirming(y)' =>
                \E x \in Issued : Confirming(x) /\ x.id = y.id /\ x.new = y.new
      PROVE  OneRun(b)'
  <2>1. CASE r.to = b
    BY <1>4, <2>1, OneRunAnswered
  <2>2. CASE r.to # b
    <3>1. requests' = requests \ {r} /\ UNCHANGED <<desktop, at, mem>>
      BY <1>4, <2>2, RequestTypes DEF Answer
    <3> QED
      BY <1>4, <3>1, OneRunWaits
  <2> QED
    BY <2>1, <2>2
<1>5. CASE Replay(r)
  <2>1. PICK x \in rotations : Answer(r, "persist", x.new)
    BY <1>5 DEF Replay, RotationOf
  <2>2. r.op = "start" /\ UNCHANGED server /\ requests' \subseteq requests
    BY <1>5, <2>1 DEF Replay, Serves, Answer
  <2>3. \A y \in Issued' : y \in Issued /\ (Confirming(y)' => Confirming(y))
    BY <2>2 DEF Issued, Confirming, server
  <2> QED
    BY <1>4, <2>1, <2>2, <2>3 DEF server
<1>6. CASE Issue(r)
  <2>1. PICK t, c : /\ open' = {t} /\ Answer(r, "persist", c)
                    /\ t.op = "issue" /\ t.rotation.new.serial = signed + 1
                    /\ ~t.rotation.confirmed /\ t.rotation.new = c
    BY <1>6 DEF Issue, Serves
  <2>2. /\ r.op = "start" /\ open = {} /\ UNCHANGED <<certs, rotations>>
        /\ requests' \subseteq requests
    BY <1>6, <2>1 DEF Issue, Serves, Answer
  <2>3. \A q \in requests : q.cert # t.rotation.new
    BY <2>1, HoldersKnow DEF IInv, TypeOK, SerialsUnique
  <2>4. \A y \in Issued' : Confirming(y)' => y \in Issued /\ Confirming(y)
    BY <2>1, <2>2, <2>3 DEF Issued, Confirming
  <2> QED
    BY <1>4, <2>1, <2>2, <2>4
<1>7. CASE Confirm(r)
  <2>1. PICK x \in rotations :
           /\ x.new.serial = r.cert.serial
           /\ open' = open \/ open' = open \cup {[op |-> "confirm", rotation |-> x]}
    BY <1>7 DEF Confirm, RotationOf, ConfirmedBy
  <2>2. /\ r.op = "confirm" /\ open = {} /\ UNCHANGED <<certs, rotations>>
        /\ Answer(r, "complete", mem[r.to].cert) /\ requests' \subseteq requests
    BY <1>7 DEF Confirm, Serves, Answer
  <2>3. r.cert \in certs /\ r.cert = x.new
    BY <2>1, HoldersKnow DEF IInv, ChainOfRotations, SerialsUnique
  <2>4. Issued' = rotations /\ Issued = rotations
    BY <2>1, <2>2 DEF Issued
  <2>5. Confirming(x)
    BY <2>2, <2>3 DEF Confirming
  <2>6. \A y \in rotations : Confirming(y)' => Confirming(y)
    BY <2>1, <2>2, <2>5 DEF Confirming
  <2> QED
    BY <1>4, <2>2, <2>3, <2>4, <2>6
<1> QED
  BY <1>1, <1>2, <1>3, <1>5, <1>6, <1>7 DEF Serve, RejectUnknown, RejectStart, RejectConfirm

\* The ends of transactions, the administrator and the clock.
LEMMA OneRunCommits ==
    ASSUME IInv, NEW b \in Bridge, OneRun(b),
           \/ \E t \in open : CommitIssue(t) \/ CommitConfirm(t) \/ LoseCommit(t)
           \/ RevokeClient \/ Tick \/ UNCHANGED vars
    PROVE  OneRun(b)'
<1>1. UNCHANGED <<requests, desktop, runs>> /\ certs \subseteq certs'
  BY DEF CommitIssue, CommitConfirm, LoseCommit, RevokeClient, Tick, vars, server
<1>2. ASSUME NEW t \in open, CommitIssue(t) \/ LoseCommit(t), NEW y \in Issued', Confirming(y)'
      PROVE  y \in Issued /\ Confirming(y)
  <2>1. open' = {} /\ open = {t}
    BY <1>2 DEF CommitIssue, LoseCommit, IInv, OpenOK
  <2> QED
    BY <1>1, <1>2, <2>1 DEF CommitIssue, LoseCommit, Issued, Confirming
<1>3. ASSUME NEW t \in open, CommitConfirm(t), NEW y \in Issued', Confirming(y)'
      PROVE  \E x \in Issued : Confirming(x) /\ x.id = y.id /\ x.new = y.new
  <2>1. PICK x : x = t.rotation
    OBVIOUS
  <2>2. PICK z : z = [x EXCEPT !.confirmed = TRUE]
    OBVIOUS
  <2>3. open' = {} /\ open = {t} /\ x \in rotations /\ t.op = "confirm" /\ Confirming(x)
    BY <1>3, <2>1 DEF CommitConfirm, IInv, OpenOK, Confirming
  <2>4. z.id = x.id /\ z.new = x.new
    BY <2>2, <2>3 DEF IInv, TypeOK, Rotation
  <2>5. Issued = rotations /\ Issued' = (rotations \ {x}) \cup {z}
    BY <1>3, <2>1, <2>2, <2>3 DEF CommitConfirm, Issued
  <2>6. CASE y = z
    BY <2>3, <2>4, <2>5, <2>6
  <2>7. CASE y # z
    <3>1. y \in rotations /\ Confirming(y)
      BY <1>1, <1>3, <2>3, <2>5, <2>7 DEF Confirming
    <3> QED
      BY <2>5, <3>1
  <2> QED
    BY <2>6, <2>7
<1>4. ASSUME RevokeClient \/ Tick \/ UNCHANGED vars, NEW y \in Issued', Confirming(y)'
      PROVE  y \in Issued /\ Confirming(y)
  BY <1>4 DEF RevokeClient, Tick, vars, server, Issued, Confirming
<1>5. \A y \in Issued' : Confirming(y)' =>
         \E x \in Issued : Confirming(x) /\ x.id = y.id /\ x.new = y.new
  BY <1>2, <1>3, <1>4
<1> QED
  BY <1>1, <1>5, OneRunWaits DEF runs

\* With one run at a time, whatever requests, answers and commits are lost: unless the
\* client is revoked, the desktop has a complete pair that the server accepts.
THEOREM AcceptedPairKept ==
    ASSUME NEW b, Bridge = {b}
    PROVE  Spec => []KeepsAcceptedPair
<1>1. b \in Bridge
  OBVIOUS
<1>2. Init => OneRun(b)
  <2> SUFFICES ASSUME Init PROVE OneRun(b)
    OBVIOUS
  <2>1. chain[current] \in certs
    BY RotationAssumption DEF Init, Version
  <2>2. Issued = {}
    BY DEF Init, Issued
  <2>3. at[b] = "idle" /\ pending.phase = "none" /\ requests = {}
    BY <1>1 DEF Init, NoPending
  <2> QED
    BY <2>1, <2>2, <2>3
       DEF OneRun, Position, PredecessorKept, ConfirmedInUse, ConfirmsInUse
<1>3. IInv /\ IInv' /\ OneRun(b) /\ [Next]_vars => OneRun(b)'
  <2> SUFFICES ASSUME IInv, IInv', OneRun(b), [Next]_vars PROVE OneRun(b)'
    OBVIOUS
  <2>1. CASE Begin(b) \/ Moves(b) \/ Stop(b)
    BY <1>1, <2>1, OneRunLooks, OneRunRecords, OneRunDrops, OneRunInstalls, OneRunSends,
       OneRunStops DEF Moves, Loading, Preparing, Asking, Switching, Dropping
  <2>2. CASE \E r \in requests : Serve(r) \/ Reject(r)
    BY <1>1, <2>2, OneRunServed
  <2>3. CASE \/ Commit \/ (\E t \in open : LoseCommit(t))
             \/ RevokeClient \/ Tick \/ UNCHANGED vars
    BY <1>1, <2>3, OneRunCommits DEF Commit
  <2> QED
    BY <2>1, <2>2, <2>3 DEF Next
<1>4. IInv /\ OneRun(b) => KeepsAcceptedPair
  <2> SUFFICES ASSUME IInv, OneRun(b), active
               PROVE  \E v \in Version :
                         HasPair(v) /\ chain[v] \in certs /\ chain[v].serial \notin revoked
    BY DEF KeepsAcceptedPair
  <2> USE <1>1, OneRunTypes
  <2>1. ASSUME NEW v \in Version, HasPair(v), chain[v] \in certs, chain[v].serial \in revoked
        PROVE  \E x \in rotations : /\ Confirming(x) /\ x \in Issued /\ v < x.id
                                    /\ x.id <= current /\ x.new \in certs
    <3>1. PICK x \in rotations : x.confirmed /\ x.old = chain[v].serial
      BY <2>1 DEF IInv, RevokedByRotation
    <3>2. Confirming(x) /\ x \in Issued /\ x.new \in certs
      BY <3>1 DEF Confirming, Issued, IInv, ChainOfRotations
    <3>3. v < x.id /\ x.id <= current
      BY <2>1, <3>1, <3>2 DEF HasPair, IInv, ConfirmedAfterInstall
    <3> QED
      BY <3>2, <3>3
  <2>2. CASE chain[current] \in certs
    <3>1. chain[current].serial \notin revoked
      BY <2>1, <2>2
    <3> QED
      BY <2>2, <3>1
  <2>3. CASE chain[current] \notin certs
    <3>1. /\ pending.phase = "issued" /\ pending.id = current
          /\ HasPair(pending.old) /\ chain[pending.old] \in certs
          /\ pending.old \in Version
      BY <2>3 DEF OneRun, PredecessorKept, PendingOK, Pending
    <3>2. chain[pending.old].serial \notin revoked
      BY <2>1, <2>3, <3>1 DEF OneRun, ConfirmedInUse
    <3> QED
      BY <3>1, <3>2
  <2> QED
    BY <2>2, <2>3
<1> QED
  BY <1>2, <1>3, <1>4, RotationInvariant, PTL DEF Spec
=============================================================================
