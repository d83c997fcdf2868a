---------------------------- MODULE BrokerProofs ----------------------------
(***************************************************************************)
(* What holds of the broker for every number of drops, callers and limits. *)
(*                                                                         *)
(* Every step of the broker either replaces one record and moves the byte  *)
(* counter by exactly what that record's reservation changed, or destroys  *)
(* a set of drops at once.  The proofs say that once (RecordStep) and draw *)
(* the invariants from it: Sound is what makes each record's own           *)
(* invariant inductive, CInv what ties the records to their callers.       *)
(***************************************************************************)
EXTENDS Broker, FiniteSetTheorems, TLAPS

Early == {"unminted", "minting", "pending"}
Spent == {"claimed", "destroyed"}

\* A failure counter stays in its range only because no attempt runs on a drop
\* that spent it.
FailuresLeft(r) ==
  /\ r.state # "destroyed" => /\ r.aeadFailures < MaxAeadFailures
                              /\ r.containerFailures < MaxAeadFailures
  /\ r.inFlight # None => /\ r.aeadFailures < MaxAeadFailures
                          /\ r.containerFailures < MaxAeadFailures
                          /\ r.state \in {"pending", "destroyed"}

LeaseInStep(r) ==
  /\ r.transfer # None <=> r.state = "transferring"
  /\ r.plaintext # None <=> r.state \in {"submitted", "transferring"}
  /\ r.state = "transferring" => r.payloadKind = "files"
  /\ r.plaintext # None => r.plaintext = r.envelopeKey

\* A file payload owns its reservation: no upload's release can take it away.
PayloadPaid(r) ==
  r.plaintext # None /\ r.payloadKind = "files" =>
    r.reservedBytes = FileReservationBytes /\ r.submitLease = None

\* Nothing is held before the mint, nor after the delivery or the end.
EndsHoldNothing(r) ==
  /\ r.state \in {"unminted"} \cup Spent => r.reservedBytes = 0
  /\ r.state \in Early => r.transferAttempts = 0
  /\ r.state \in {"unminted", "minting"} => r.envelopeKey = None

Sound(r) ==
  FailuresLeft(r) /\ LeaseInStep(r) /\ PayloadPaid(r) /\ EndsHoldNothing(r)

SoundRecord == {r \in Record : Sound(r)}

\* What a step may make of a record.
Follows(r, q) ==
  /\ q \in SoundRecord
  /\ r.state \notin Early => q.state \notin Early /\ q.payloadKind = r.payloadKind
  /\ r.state \in Spent => q.state \in Spent

\* One record is replaced, and the counter moves by what it holds; a reservation
\* is only ever added under the limit.
Replaces(d, q) ==
  /\ rec' = [rec EXCEPT ![d] = q]
  /\ Follows(rec[d], q)
  /\ reservedFileBytes' = reservedFileBytes + (q.reservedBytes - rec[d].reservedBytes)
  /\ q.reservedBytes > rec[d].reservedBytes => reservedFileBytes' <= MaxLiveFileBytes

RecordStep ==
  \/ \E d \in Drops, q \in SoundRecord : Replaces(d, q)
  \/ \E S \in SUBSET Drops : Destroy(S)
  \/ UNCHANGED <<rec, reservedFileBytes>>

OthersTyped ==
  /\ reservedFileBytes \in Int
  /\ slot \in [Requests -> Slot \cup {None}]
  /\ call \in [Requests -> SubmitCall]
  /\ beginning \in [Claimants -> Drops \cup {None}]
  /\ wait \in [Waits -> WaitCall]
  /\ delivered \in [Drops -> Nat]
  /\ acked \subseteq Drops \X Nat \X Claimants \X Nat

\* A container is only ever decoded for a file payload, whatever has become of it.
BegunOnFiles ==
  \A c \in Claimants : beginning[c] # None =>
    /\ rec[beginning[c]].state \notin Early
    /\ rec[beginning[c]].payloadKind = "files"

Handed ==
  \A d \in Drops : \/ delivered[d] = 0
                   \/ delivered[d] = 1 /\ rec[d].state \in Spent

IInv ==
  /\ rec \in [Drops -> SoundRecord]
  /\ OthersTyped
  /\ BegunOnFiles
  /\ Handed

-----------------------------------------------------------------------------
(* What each handler makes of one record *)

\* Any field may be given any value of its type.
LEMMA FieldUpdate ==
  ASSUME NEW r \in Record
  PROVE  /\ \A v \in States : [r EXCEPT !.state = v] \in Record
         /\ \A v \in Kinds : [r EXCEPT !.mintedKind = v] \in Record
         /\ \A v \in Kinds : [r EXCEPT !.payloadKind = v] \in Record
         /\ \A v \in {"fresh", "closing", "expired"} : [r EXCEPT !.age = v] \in Record
         /\ \A v \in {0, FileReservationBytes} : [r EXCEPT !.reservedBytes = v] \in Record
         /\ \A v \in Requests \cup {None} : [r EXCEPT !.submitLease = v] \in Record
         /\ \A v \in BOOLEAN : [r EXCEPT !.bodySlotBusy = v] \in Record
         /\ \A v \in Attempt \cup {None} : [r EXCEPT !.inFlight = v] \in Record
         /\ \A v \in 0..MaxAeadFailures : [r EXCEPT !.aeadFailures = v] \in Record
         /\ \A v \in 0..MaxAeadFailures : [r EXCEPT !.containerFailures = v] \in Record
         /\ \A v \in Envelopes \cup {None} : [r EXCEPT !.envelopeKey = v] \in Record
         /\ \A v \in Envelopes \cup {None} : [r EXCEPT !.plaintext = v] \in Record
         /\ \A v \in TransferLease \cup {None} : [r EXCEPT !.transfer = v] \in Record
         /\ \A v \in Nat : [r EXCEPT !.transferAttempts = v] \in Record
  BY SMT DEF Record

LEMMA BlankSound == Blank \in SoundRecord
  <1>1. Blank \in Record
    BY LimitAssumption, SMT DEF Blank, Record, States, Kinds, Lanes
  <1>2. Sound(Blank)
    BY LimitAssumption, SMT
       DEF Blank, Sound, FailuresLeft, LeaseInStep, PayloadPaid, EndsHoldNothing, Early
  <1> QED BY <1>1, <1>2 DEF SoundRecord

\* create: the minted record, paid for when it is a file drop.
LEMMA MintedSound ==
  ASSUME NEW kind \in Kinds, NEW held \in {0, FileReservationBytes}, NEW r,
         r = [Blank EXCEPT !.state = "minting", !.mintedKind = kind,
                           !.payloadKind = kind, !.reservedBytes = held]
  PROVE  r \in SoundRecord /\ r.reservedBytes = held
  <1>1. Blank \in Record
    BY BlankSound DEF SoundRecord
  <1>2. r \in Record
    BY <1>1, "minting" \in States, FieldUpdate, Zenon DEF States
  <1>3. Sound(r) /\ r.reservedBytes = held
    BY LimitAssumption, SMT
       DEF Blank, Sound, FailuresLeft, LeaseInStep, PayloadPaid, EndsHoldNothing,
           Early, Spent
  <1> QED BY <1>2, <1>3 DEF SoundRecord

\* clearLease, where a lease is live and where there is none.
LEMMA ClearLeaseTyped ==
  ASSUME NEW r \in Record
  PROVE  ClearLease(r) \in Record
  <1> DEFINE s == IF r.transfer # None /\ r.state = "transferring"
                  THEN "submitted" ELSE r.state
  <1>1. s \in States
    BY DEF Record, States
  <1>2. ClearLease(r) = [r EXCEPT !.transfer = None, !.state = s]
    BY DEF ClearLease
  <1>3. [r EXCEPT !.transfer = None, !.state = s] \in Record
    <2> HIDE DEF s
    <2> QED BY <1>1, FieldUpdate, Zenon
  <1> QED BY <1>2, <1>3

LEMMA ClearLeaseFollows ==
  ASSUME NEW r \in SoundRecord
  PROVE  /\ Follows(r, ClearLease(r))
         /\ ClearLease(r).reservedBytes = r.reservedBytes
  <1>1. r \in Record /\ Sound(r)
    BY DEF SoundRecord
  <1>2. /\ Sound(ClearLease(r))
        /\ ClearLease(r).payloadKind = r.payloadKind
        /\ ClearLease(r).reservedBytes = r.reservedBytes
        /\ ClearLease(r).state = IF r.state = "transferring" THEN "submitted" ELSE r.state
    BY <1>1, SMT
       DEF ClearLease, Record, Sound, FailuresLeft, LeaseInStep, PayloadPaid,
           EndsHoldNothing, Early, Spent
  <1> QED BY <1>1, <1>2, ClearLeaseTyped DEF Follows, SoundRecord, Early, Spent

\* destroy, of a record whose counters are within their range but may be spent.
LEMMA DestroyedSound ==
  ASSUME NEW r \in Record, r.inFlight # None => FailuresLeft(r)
  PROVE  /\ Destroyed(r) \in SoundRecord
         /\ Destroyed(r).reservedBytes = 0
         /\ Destroyed(r).state = "destroyed"
         /\ Destroyed(r).payloadKind = r.payloadKind
  <1>1. ClearLease(r) \in Record
    BY ClearLeaseTyped
  <1>2. Destroyed(r) \in Record
    BY <1>1, "destroyed" \in States, FieldUpdate, Zenon DEF Destroyed, States
  <1>3. /\ Destroyed(r).state = "destroyed"
        /\ Destroyed(r).transfer = None
        /\ Destroyed(r).plaintext = None
        /\ Destroyed(r).reservedBytes = 0
        /\ Destroyed(r).payloadKind = r.payloadKind
        /\ Destroyed(r).inFlight = r.inFlight
        /\ Destroyed(r).aeadFailures = r.aeadFailures
        /\ Destroyed(r).containerFailures = r.containerFailures
    BY SMT DEF Destroyed, ClearLease, Record
  <1>4. Sound(Destroyed(r))
    BY <1>3, SMT
       DEF Sound, FailuresLeft, LeaseInStep, PayloadPaid, EndsHoldNothing, Early
  <1> QED BY <1>2, <1>3, <1>4 DEF SoundRecord

LEMMA DestroyedFollows ==
  ASSUME NEW r \in SoundRecord
  PROVE  Follows(r, Destroyed(r)) /\ Destroyed(r).reservedBytes = 0
  BY DestroyedSound, SMT DEF SoundRecord, Sound, Follows, FailuresLeft, Early, Spent

\* The retirement of a payload: the state ends at "claimed", the bytes at zero.
LEMMA RetiredFollows ==
  ASSUME NEW r \in SoundRecord, r.state \in {"submitted", "transferring"}
  PROVE  /\ Follows(r, Retired(ClearLease(r)))
         /\ Retired(ClearLease(r)).reservedBytes = 0
         /\ Retired(ClearLease(r)).state = "claimed"
  <1> DEFINE p == ClearLease(ClearLease(r))
  <1>1. p \in Record /\ Sound(r)
    BY ClearLeaseFollows, SMT DEF Follows, SoundRecord
  <1>2. Retired(ClearLease(r)) = [p EXCEPT !.state = "claimed", !.plaintext = None,
                                           !.reservedBytes = 0]
    BY DEF Retired
  <1>3. Retired(ClearLease(r)) \in Record
    <2>1. [p EXCEPT !.state = "claimed", !.plaintext = None, !.reservedBytes = 0] \in Record
      <3> HIDE DEF p
      <3> QED BY <1>1, "claimed" \in States, FieldUpdate, Zenon DEF States
    <2> QED BY <1>2, <2>1
  <1>4. /\ p.transfer = None
        /\ p.payloadKind = r.payloadKind
        /\ p.inFlight = r.inFlight
        /\ p.aeadFailures = r.aeadFailures
        /\ p.containerFailures = r.containerFailures
    BY SMT DEF ClearLease, Record, SoundRecord
  <1> DEFINE q == Retired(ClearLease(r))
  <1>5. /\ q.state = "claimed" /\ q.transfer = None /\ q.plaintext = None
        /\ q.reservedBytes = 0 /\ q.payloadKind = r.payloadKind
        /\ q.inFlight = r.inFlight
        /\ q.aeadFailures = r.aeadFailures
        /\ q.containerFailures = r.containerFailures
    <2> HIDE DEF p
    <2> QED BY <1>1, <1>2, <1>4, SMT DEF Record
  <1>6. Sound(q)
    <2> HIDE DEF q
    <2> QED BY <1>1, <1>5, SMT
       DEF Sound, FailuresLeft, LeaseInStep, PayloadPaid, EndsHoldNothing, Early, Spent
  <1> QED BY <1>3, <1>5, <1>6 DEF Follows, SoundRecord, Early, Spent
\* The mint's end, and the TTL coming closer.
LEMMA PendingFollows ==
  ASSUME NEW r \in SoundRecord, r.state = "minting", NEW q,
         q = [r EXCEPT !.state = "pending"]
  PROVE  Follows(r, q) /\ q.reservedBytes = r.reservedBytes
  <1>1. q \in Record
    BY "pending" \in States, FieldUpdate, Zenon DEF States, SoundRecord
  <1>2. /\ Sound(q) /\ q.state = "pending"
        /\ q.reservedBytes = r.reservedBytes
    BY SMT DEF Record, SoundRecord, Sound, FailuresLeft, LeaseInStep, PayloadPaid,
               EndsHoldNothing, Early, Spent
  <1> QED BY <1>1, <1>2 DEF Follows, SoundRecord, Early, Spent

LEMMA AgedFollows ==
  ASSUME NEW r \in SoundRecord, NEW age \in {"fresh", "closing", "expired"}, NEW q,
         q = [r EXCEPT !.age = age]
  PROVE  Follows(r, q) /\ q.reservedBytes = r.reservedBytes
  <1>1. q \in Record
    BY FieldUpdate, Zenon DEF SoundRecord
  <1>2. /\ Sound(q) /\ q.state = r.state /\ q.payloadKind = r.payloadKind
        /\ q.reservedBytes = r.reservedBytes
    BY SMT DEF Record, SoundRecord, Sound, FailuresLeft, LeaseInStep, PayloadPaid,
               EndsHoldNothing, Early, Spent
  <1> QED BY <1>1, <1>2 DEF Follows, SoundRecord

\* acquireSubmitSlot: the slot, and the reservation borrowed with it.
LEMMA SlotFollows ==
  ASSUME NEW r \in SoundRecord, r.state \in {"pending", "submitted"},
         NEW lease \in Requests \cup {None}, NEW bytes \in {0, FileReservationBytes},
         \/ r.state = "pending"
         \/ lease = r.submitLease /\ bytes = r.reservedBytes,
         NEW q, q = [r EXCEPT !.bodySlotBusy = TRUE, !.submitLease = lease,
                              !.reservedBytes = bytes]
  PROVE  Follows(r, q) /\ q.reservedBytes = bytes
  <1>1. q \in Record
    BY FieldUpdate, Zenon DEF SoundRecord
  <1>2. /\ Sound(q) /\ q.state = r.state /\ q.payloadKind = r.payloadKind
        /\ q.reservedBytes = bytes
    BY SMT DEF Record, SoundRecord, Sound, FailuresLeft, LeaseInStep, PayloadPaid,
               EndsHoldNothing, Early, Spent
  <1> QED BY <1>1, <1>2 DEF Follows, SoundRecord

\* release: the reservation goes only while the request still owns the lease, so
\* never from under a file payload.
LEMMA ReleasedFollows ==
  ASSUME NEW r \in SoundRecord, NEW req \in Requests
  PROVE  /\ Follows(r, ReleasedSlot(req, r))
         /\ ReleasedSlot(req, r).reservedBytes \in {0, r.reservedBytes}
  <1> DEFINE q == ReleasedSlot(req, r)
  <1>1. q \in Record
    <2>1. [r EXCEPT !.bodySlotBusy = FALSE] \in Record
      BY FieldUpdate, Zenon DEF SoundRecord
    <2>2. [r EXCEPT !.bodySlotBusy = FALSE, !.submitLease = None,
                    !.reservedBytes = 0] \in Record
      BY FieldUpdate, Zenon DEF SoundRecord
    <2> QED BY <2>1, <2>2 DEF ReleasedSlot
  <1>2. /\ Sound(q) /\ q.state = r.state /\ q.payloadKind = r.payloadKind
        /\ q.reservedBytes \in {0, r.reservedBytes}
    BY NoneAssumption, SMT
       DEF ReleasedSlot, Record, SoundRecord, Sound, FailuresLeft, LeaseInStep,
           PayloadPaid, EndsHoldNothing, Early, Spent
  <1> QED BY <1>1, <1>2 DEF Follows, SoundRecord

\* An attempt begins, moves on to its decode, or ends: only on a drop that has
\* failures left.
LEMMA AttemptFollows ==
  ASSUME NEW r \in SoundRecord, NEW attempt \in Attempt \cup {None},
         \/ attempt = None \/ r.inFlight # None \/ r.state = "pending",
         NEW q, q = [r EXCEPT !.inFlight = attempt]
  PROVE  Follows(r, q) /\ q.reservedBytes = r.reservedBytes
  <1>1. q \in Record
    BY FieldUpdate, Zenon DEF SoundRecord
  <1>2. /\ Sound(q) /\ q.state = r.state /\ q.payloadKind = r.payloadKind
        /\ q.reservedBytes = r.reservedBytes
    BY SMT DEF Record, SoundRecord, Sound, FailuresLeft, LeaseInStep, PayloadPaid,
               EndsHoldNothing, Early, Spent
  <1> QED BY <1>1, <1>2 DEF Follows, SoundRecord

\* The single-use gate: the winner's payload is paid for when it is a container.
LEMMA SubmittedFollows ==
  ASSUME NEW r \in SoundRecord, r.state = "pending", r.inFlight # None,
         NEW e \in Envelopes, NEW bytes \in {0, FileReservationBytes},
         NEW lease \in Requests \cup {None},
         Lane[e] = "files" => bytes = FileReservationBytes /\ lease = None
  PROVE  Follows(r, Submitted(r, e, bytes, lease))
         /\ Submitted(r, e, bytes, lease).reservedBytes = bytes
  <1> DEFINE q == Submitted(r, e, bytes, lease)
  <1>1. Lane[e] \in Kinds /\ e # None
    BY EnvelopeAssumption, NoneAssumption DEF Kinds
  <1>2. q \in Record
    BY <1>1, "submitted" \in States, FieldUpdate, Zenon DEF Submitted, States, SoundRecord
  <1>3. /\ q.state = "submitted" /\ q.payloadKind = Lane[e] /\ q.plaintext = e
        /\ q.envelopeKey = e /\ q.inFlight = None /\ q.reservedBytes = bytes
        /\ q.submitLease = lease /\ q.transfer = r.transfer
        /\ q.aeadFailures = r.aeadFailures
        /\ q.containerFailures = r.containerFailures
    BY SMT DEF Submitted, Record, SoundRecord
  <1>4. Sound(q)
    <2> HIDE DEF q
    <2> QED BY <1>1, <1>3, SMT
         DEF SoundRecord, Sound, FailuresLeft, LeaseInStep, PayloadPaid,
             EndsHoldNothing, Early, Spent
  <1> QED BY <1>2, <1>3, <1>4 DEF Follows, SoundRecord, Early, Spent

\* The lease of a transfer: granted, and acknowledged one frame further.
LEMMA LentFollows ==
  ASSUME NEW r \in SoundRecord, r.state = "submitted", r.payloadKind = "files",
         NEW c \in Claimants
  PROVE  Follows(r, Lent(r, c)) /\ Lent(r, c).reservedBytes = r.reservedBytes
  <1> DEFINE id == r.transferAttempts + 1
             lease == [id |-> id, owner |-> c, nextFrame |-> 0]
             q == Lent(r, c)
  <1>1. id \in Nat
    BY DEF SoundRecord, Record
  <1>2. lease \in TransferLease
    BY <1>1 DEF TransferLease
  <1>3. lease # None
    BY <1>2, NoneAssumption DEF TransferLease
  <1>4. q = [r EXCEPT !.state = "transferring", !.transferAttempts = id,
                      !.transfer = lease]
    BY DEF Lent
  <1>5. q \in Record
    <2>1. [r EXCEPT !.state = "transferring", !.transferAttempts = id,
                    !.transfer = lease] \in Record
      <3> HIDE DEF id, lease
      <3> QED BY <1>1, <1>2, "transferring" \in States, FieldUpdate, Zenon
              DEF States, SoundRecord
    <2> HIDE DEF q
    <2> QED BY <1>4, <2>1
  <1>6. /\ Sound(q) /\ q.state = "transferring" /\ q.payloadKind = r.payloadKind
        /\ q.reservedBytes = r.reservedBytes
    <2> HIDE DEF id, lease, q
    <2> QED BY <1>3, <1>4, SMT
            DEF Record, SoundRecord, Sound, FailuresLeft, LeaseInStep, PayloadPaid,
                EndsHoldNothing, Early, Spent
  <1> QED BY <1>5, <1>6 DEF Follows, SoundRecord, Early, Spent

LEMMA AckedFollows ==
  ASSUME NEW r \in SoundRecord, r.transfer # None, NEW lease \in TransferLease, NEW q,
         q = [r EXCEPT !.transfer = lease]
  PROVE  Follows(r, q) /\ q.reservedBytes = r.reservedBytes
  <1>1. lease # None
    BY NoneAssumption DEF TransferLease
  <1>2. q \in Record
    BY FieldUpdate, Zenon DEF SoundRecord
  <1>3. /\ Sound(q) /\ q.state = r.state /\ q.payloadKind = r.payloadKind
        /\ q.reservedBytes = r.reservedBytes
    BY <1>1, SMT DEF Record, SoundRecord, Sound, FailuresLeft, LeaseInStep,
               PayloadPaid, EndsHoldNothing, Early, Spent
  <1> QED BY <1>2, <1>3 DEF Follows, SoundRecord

\* A failed attempt is counted, and the last one destroys the drop.
LEMMA FailedFollows ==
  ASSUME NEW r \in SoundRecord, r.inFlight # None, NEW q,
         \/ q = [r EXCEPT !.aeadFailures = r.aeadFailures + 1, !.inFlight = None]
         \/ q = [r EXCEPT !.containerFailures = r.containerFailures + 1,
                          !.inFlight = None]
  PROVE  /\ q \in Record /\ q.reservedBytes = r.reservedBytes
         /\ q.state = r.state /\ q.envelopeKey = r.envelopeKey
         /\ q.aeadFailures < MaxAeadFailures /\ q.containerFailures < MaxAeadFailures
              => Follows(r, q)
         /\ Follows(r, Destroyed(q))
         /\ Destroyed(q).reservedBytes = 0
  <1>1. /\ r \in Record /\ Sound(r)
        /\ r.aeadFailures + 1 \in 0..MaxAeadFailures
        /\ r.containerFailures + 1 \in 0..MaxAeadFailures
    BY LimitAssumption, SMT DEF SoundRecord, Sound, FailuresLeft, Record
  <1>2. q \in Record
    <2>1. CASE q = [r EXCEPT !.aeadFailures = r.aeadFailures + 1, !.inFlight = None]
      <3>1. [r EXCEPT !.aeadFailures = r.aeadFailures + 1, !.inFlight = None] \in Record
        BY <1>1, FieldUpdate, Zenon
      <3> QED BY <2>1, <3>1
    <2>2. CASE q = [r EXCEPT !.containerFailures = r.containerFailures + 1,
                             !.inFlight = None]
      <3>1. [r EXCEPT !.containerFailures = r.containerFailures + 1,
                      !.inFlight = None] \in Record
        BY <1>1, FieldUpdate, Zenon
      <3> QED BY <2>2, <3>1
    <2> QED BY <2>1, <2>2
  <1>3. /\ q.inFlight = None /\ q.state = r.state /\ q.payloadKind = r.payloadKind
        /\ q.reservedBytes = r.reservedBytes /\ q.submitLease = r.submitLease
        /\ q.transfer = r.transfer /\ q.plaintext = r.plaintext
        /\ q.envelopeKey = r.envelopeKey /\ q.transferAttempts = r.transferAttempts
    <2>1. CASE q = [r EXCEPT !.aeadFailures = r.aeadFailures + 1, !.inFlight = None]
      BY <1>1, <2>1, SMT DEF Record
    <2>2. CASE q = [r EXCEPT !.containerFailures = r.containerFailures + 1,
                             !.inFlight = None]
      BY <1>1, <2>2, SMT DEF Record
    <2> QED BY <2>1, <2>2
  <1>4. q.aeadFailures < MaxAeadFailures /\ q.containerFailures < MaxAeadFailures
          => Sound(q)
    BY <1>1, <1>3, SMT DEF Sound, FailuresLeft, LeaseInStep, PayloadPaid, EndsHoldNothing
  <1>5. Follows(r, Destroyed(q)) /\ Destroyed(q).reservedBytes = 0
    BY <1>2, <1>3, DestroyedSound, SMT DEF Follows, Early, Spent
  <1> QED BY <1>2, <1>3, <1>4, <1>5 DEF Follows, SoundRecord

-----------------------------------------------------------------------------
(* Every action is a step of the records *)

LEMMA Replacing ==
  ASSUME NEW d \in Drops, NEW q, Replaces(d, q)
  PROVE  RecordStep
  <1>1. q \in SoundRecord
    BY DEF Replaces, Follows
  <1> QED BY <1>1 DEF RecordStep

\* A replacement that keeps the reservation, or gives it back.
LEMMA ReplacingKeeps ==
  ASSUME rec \in [Drops -> SoundRecord], reservedFileBytes \in Int,
         NEW d \in Drops, NEW q, Follows(rec[d], q),
         rec' = [rec EXCEPT ![d] = q],
         q.reservedBytes \in {0, rec[d].reservedBytes},
         reservedFileBytes' =
           reservedFileBytes - (rec[d].reservedBytes - q.reservedBytes)
  PROVE  RecordStep
  <1>1. rec[d].reservedBytes \in Nat
    BY LimitAssumption, SMT DEF SoundRecord, Record
  <1>2. Replaces(d, q)
    BY <1>1, SMT DEF Replaces
  <1> QED BY <1>2, Replacing

LEMMA ReplacingReleases ==
  ASSUME rec \in [Drops -> SoundRecord], reservedFileBytes \in Int,
         NEW d \in Drops, NEW q, Follows(rec[d], q), q.reservedBytes = 0,
         rec' = [rec EXCEPT ![d] = q],
         reservedFileBytes' = reservedFileBytes - rec[d].reservedBytes
  PROVE  RecordStep
  <1>1. rec[d].reservedBytes \in Nat
    BY LimitAssumption, SMT DEF SoundRecord, Record
  <1>2. reservedFileBytes' =
          reservedFileBytes - (rec[d].reservedBytes - q.reservedBytes)
    BY <1>1
  <1> QED BY <1>2, ReplacingKeeps

LEMMA ReplacingSame ==
  ASSUME rec \in [Drops -> SoundRecord], reservedFileBytes \in Int,
         NEW d \in Drops, NEW q, Follows(rec[d], q),
         rec' = [rec EXCEPT ![d] = q],
         q.reservedBytes = rec[d].reservedBytes,
         reservedFileBytes' = reservedFileBytes
  PROVE  RecordStep
  <1>1. rec[d].reservedBytes \in Nat
    BY LimitAssumption, SMT DEF SoundRecord, Record
  <1>2. reservedFileBytes' =
          reservedFileBytes - (rec[d].reservedBytes - q.reservedBytes)
    BY <1>1
  <1> QED BY <1>2, ReplacingKeeps

LEMMA MintingStep ==
  ASSUME rec \in [Drops -> SoundRecord], reservedFileBytes \in Int,
         NEW d \in Drops, Minting(d)
  PROVE  RecordStep
  <1>1. ASSUME NEW kind \in Kinds, Create(d, kind) PROVE RecordStep
    <2> DEFINE held == IF kind = "files" THEN FileReservationBytes ELSE 0
               q == [Blank EXCEPT !.state = "minting", !.mintedKind = kind,
                                  !.payloadKind = kind, !.reservedBytes = held]
    <2>1. held \in {0, FileReservationBytes}
      OBVIOUS
    <2>2. /\ rec' = [rec EXCEPT ![d] = q]
          /\ reservedFileBytes' = reservedFileBytes + held
          /\ rec[d].state = "unminted"
          /\ held > 0 => reservedFileBytes + held <= MaxLiveFileBytes
      BY <1>1, LimitAssumption DEF Create, ReserveFileBytes
    <2>3. q \in SoundRecord /\ q.reservedBytes = held
      <3> HIDE DEF held
      <3> QED BY <2>1, MintedSound
    <2>4. rec[d].reservedBytes = 0
      BY <2>2 DEF SoundRecord, Sound, EndsHoldNothing
    <2> HIDE DEF q, held
    <2>5. Replaces(d, q)
      BY <2>1, <2>2, <2>3, <2>4, LimitAssumption, SMT DEF Replaces, Follows, Early, Spent
    <2> QED BY <2>5, Replacing
  <1>2. CASE CreateFinish(d)
    <2> DEFINE q == [rec[d] EXCEPT !.state = "pending"]
    <2>1. /\ rec' = [rec EXCEPT ![d] = q] /\ rec[d].state = "minting"
          /\ reservedFileBytes' = reservedFileBytes
      BY <1>2 DEF CreateFinish
    <2>2. Follows(rec[d], q) /\ q.reservedBytes = rec[d].reservedBytes
      BY <2>1, PendingFollows
    <2> HIDE DEF q
    <2> QED BY <2>1, <2>2, ReplacingSame
  <1>3. CASE CreateFail(d)
    <2>1. /\ rec' = [rec EXCEPT ![d] = Blank] /\ rec[d].state = "minting"
          /\ reservedFileBytes' = reservedFileBytes - rec[d].reservedBytes
      BY <1>3 DEF CreateFail
    <2>2. Follows(rec[d], Blank)
      BY <2>1, BlankSound DEF Follows, Early, Spent
    <2>3. Blank.reservedBytes = 0
      BY DEF Blank
    <2> QED BY <2>1, <2>2, <2>3, ReplacingReleases
  <1> QED BY <1>1, <1>2, <1>3 DEF Minting

LEMMA SubmittingStep ==
  ASSUME rec \in [Drops -> SoundRecord], OthersTyped, NEW r \in Requests, Submitting(r)
  PROVE  RecordStep
  <1>0. reservedFileBytes \in Int /\ slot \in [Requests -> Slot \cup {None}]
    BY DEF OthersTyped
  <1>1. ASSUME NEW d \in Drops, NEW decl \in Declarations, AcquireSubmitSlot(r, d, decl)
        PROVE  RecordStep
    <2>1. CASE Destroy({d})
      BY <2>1 DEF RecordStep
    <2>2. CASE SlotVerdict(d, decl) = "granted" /\ GrantSlot(r, d)
      <3> DEFINE held == FileSubmitLease(d) = "taken"
                 lease == IF held THEN r ELSE rec[d].submitLease
                 bytes == IF held THEN FileReservationBytes ELSE rec[d].reservedBytes
                 q == [rec[d] EXCEPT !.bodySlotBusy = TRUE, !.submitLease = lease,
                                     !.reservedBytes = bytes]
      <3>1. /\ rec[d].state \in {"pending", "submitted"}
            /\ held => /\ rec[d].state = "pending" /\ rec[d].reservedBytes = 0
                       /\ reservedFileBytes + FileReservationBytes <= MaxLiveFileBytes
        <4>1. rec[d].reservedBytes \in {0, FileReservationBytes}
          BY DEF SoundRecord, Record
        <4>2. FileSubmitRecord(d, decl)
          BY <2>2 DEF SlotVerdict
        <4> QED BY <4>1, <4>2, LimitAssumption
                DEF FileSubmitRecord, FileSubmitLease, ReserveFileBytes
      <3>2. /\ rec' = [rec EXCEPT ![d] = q]
            /\ reservedFileBytes' =
                 reservedFileBytes + (IF held THEN FileReservationBytes ELSE 0)
        BY <2>2 DEF GrantSlot
      <3>3. /\ lease \in Requests \cup {None}
            /\ bytes \in {0, FileReservationBytes}
            /\ rec[d].reservedBytes \in {0, FileReservationBytes}
        BY SMT DEF SoundRecord, Record
      <3>4. Follows(rec[d], q) /\ q.reservedBytes = bytes
        <4>1. \/ rec[d].state = "pending"
              \/ lease = rec[d].submitLease /\ bytes = rec[d].reservedBytes
          BY <3>1
        <4>2. rec[d] \in SoundRecord
          OBVIOUS
        <4> HIDE DEF lease, bytes, held
        <4> QED BY <3>1, <3>3, <4>1, <4>2, SlotFollows, Zenon
      <3>5. Replaces(d, q)
        <4> HIDE DEF q
        <4>1. CASE held
          BY <1>0, <3>1, <3>2, <3>3, <3>4, <4>1, LimitAssumption DEF Replaces
        <4>2. CASE ~held
          BY <1>0, <3>2, <3>3, <3>4, <4>2, LimitAssumption DEF Replaces
        <4> QED BY <4>1, <4>2
      <3> HIDE DEF q
      <3> QED BY <3>5, Replacing
    <2>3. CASE UNCHANGED <<rec, reservedFileBytes>>
      BY <2>3 DEF RecordStep
    <2> QED BY <1>1, <2>1, <2>2, <2>3 DEF AcquireSubmitSlot
  <1>2. ASSUME NEW d \in Drops, NEW decl \in Declarations, NEW e \in Envelopes \cup {None},
               Submit(r, d, decl, e)
        PROVE  RecordStep
    <2>1. CASE Destroy({d})
      BY <2>1 DEF RecordStep
    <2>2. CASE /\ SubmitVerdict(d, decl, e) = "accept"
               /\ rec' = [rec EXCEPT ![d].inFlight = [env |-> e, step |-> "opening"]]
               /\ UNCHANGED reservedFileBytes
      <3> DEFINE attempt == [env |-> e, step |-> "opening"]
                 q == [rec[d] EXCEPT !.inFlight = attempt]
      <3>1. rec[d].state = "pending" /\ e # None
        BY <2>2 DEF SubmitVerdict, EnvelopeIdentity
      <3>2. attempt \in Attempt \cup {None}
        BY <3>1 DEF Attempt
      <3>3. Follows(rec[d], q) /\ q.reservedBytes = rec[d].reservedBytes
        BY <3>1, <3>2, AttemptFollows
      <3>4. rec' = [rec EXCEPT ![d] = q]
        BY <2>2
      <3> HIDE DEF q
      <3> QED BY <1>0, <2>2, <3>3, <3>4, ReplacingSame
    <2>3. CASE UNCHANGED <<rec, reservedFileBytes>>
      BY <2>3 DEF RecordStep
    <2> QED BY <1>2, <2>1, <2>2, <2>3 DEF Submit
  <1>3. CASE ReleaseSlot(r)
    <2> DEFINE d == slot[r].drop
               q == ReleasedSlot(r, rec[d])
    <2>1. d \in Drops
      BY <1>0, <1>3 DEF ReleaseSlot, Slot
    <2>2. /\ rec' = [rec EXCEPT ![d] = q]
          /\ reservedFileBytes' =
               reservedFileBytes - (rec[d].reservedBytes - q.reservedBytes)
      BY <1>3 DEF ReleaseSlot
    <2>3. Follows(rec[d], q) /\ q.reservedBytes \in {0, rec[d].reservedBytes}
      BY <2>1, ReleasedFollows
    <2> HIDE DEF d, q
    <2> QED BY <1>0, <2>1, <2>2, <2>3, ReplacingKeeps
  <1> QED BY <1>1, <1>2, <1>3 DEF Submitting

LEMMA CountFailureStep ==
  ASSUME rec \in [Drops -> SoundRecord], reservedFileBytes \in Int, NEW d \in Drops,
         rec[d].inFlight # None, NEW count, NEW failed, CountFailure(d, count, failed),
         \/ /\ count = rec[d].aeadFailures + 1
            /\ failed = [rec[d] EXCEPT !.aeadFailures = count, !.inFlight = None]
         \/ /\ count = rec[d].containerFailures + 1
            /\ failed = [rec[d] EXCEPT !.containerFailures = count, !.inFlight = None]
  PROVE  RecordStep
  <1>1. /\ failed.reservedBytes = rec[d].reservedBytes
        /\ failed.aeadFailures < MaxAeadFailures /\ failed.containerFailures < MaxAeadFailures
             => Follows(rec[d], failed)
        /\ Follows(rec[d], Destroyed(failed))
        /\ Destroyed(failed).reservedBytes = 0
    <2>1. \/ failed = [rec[d] EXCEPT !.aeadFailures = rec[d].aeadFailures + 1,
                                    !.inFlight = None]
          \/ failed = [rec[d] EXCEPT !.containerFailures = rec[d].containerFailures + 1,
                                    !.inFlight = None]
      BY Zenon
    <2> QED BY <2>1, FailedFollows
  <1>2. CASE count >= MaxAeadFailures
    <2>1. /\ rec' = [rec EXCEPT ![d] = Destroyed(failed)]
          /\ reservedFileBytes' = reservedFileBytes - rec[d].reservedBytes
      BY <1>2 DEF CountFailure
    <2> QED BY <1>1, <2>1, ReplacingReleases
  <1>3. CASE ~(count >= MaxAeadFailures)
    <2>1. rec' = [rec EXCEPT ![d] = failed] /\ reservedFileBytes' = reservedFileBytes
      BY <1>3 DEF CountFailure
    <2>2. rec[d] \in Record /\ FailuresLeft(rec[d])
      BY DEF SoundRecord, Sound
    <2>3. failed.aeadFailures < MaxAeadFailures /\ failed.containerFailures < MaxAeadFailures
      <3>1. CASE /\ count = rec[d].aeadFailures + 1
                 /\ failed = [rec[d] EXCEPT !.aeadFailures = count, !.inFlight = None]
        BY <1>3, <2>2, <3>1, LimitAssumption DEF FailuresLeft, Record
      <3>2. CASE /\ count = rec[d].containerFailures + 1
                 /\ failed = [rec[d] EXCEPT !.containerFailures = count, !.inFlight = None]
        BY <1>3, <2>2, <3>2, LimitAssumption DEF FailuresLeft, Record
      <3> QED BY <3>1, <3>2
    <2> QED BY <1>1, <2>1, <2>3, ReplacingSame
  <1> QED BY <1>2, <1>3

LEMMA FinishAttemptStep ==
  ASSUME rec \in [Drops -> SoundRecord], reservedFileBytes \in Int, NEW d \in Drops,
         rec[d].inFlight # None, FinishAttempt(d)
  PROVE  RecordStep
  <1> DEFINE r == rec[d]
             e == r.inFlight.env
             late == Lane[e] = "files" /\ r.reservedBytes = 0
  <1>1. /\ r \in Record /\ e \in Envelopes
        /\ r.reservedBytes \in {0, FileReservationBytes}
        /\ r.submitLease \in Requests \cup {None}
    BY DEF SoundRecord, Record, Attempt
  <1>2. CASE r.state # "pending" \/ (late /\ ~ReserveFileBytes)
    <2> DEFINE q == [rec[d] EXCEPT !.inFlight = None]
    <2>1. rec' = [rec EXCEPT ![d] = q] /\ reservedFileBytes' = reservedFileBytes
      BY <1>2 DEF FinishAttempt
    <2>2. Follows(rec[d], q) /\ q.reservedBytes = rec[d].reservedBytes
      BY AttemptFollows
    <2> HIDE DEF q
    <2> QED BY <2>1, <2>2, ReplacingSame
  <1>3. CASE r.state = "pending" /\ (late => ReserveFileBytes)
    <2> DEFINE bytes == IF Lane[e] = "files" THEN FileReservationBytes ELSE r.reservedBytes
               lease == IF Lane[e] = "files" THEN None ELSE r.submitLease
               q == Submitted(r, e, bytes, lease)
    <2>1. /\ rec' = [rec EXCEPT ![d] = q]
          /\ reservedFileBytes' =
               reservedFileBytes + (IF late THEN FileReservationBytes ELSE 0)
      <3>1. CASE Lane[e] = "files"
        BY <1>3, <3>1 DEF FinishAttempt
      <3>2. CASE Lane[e] # "files"
        BY <1>3, <3>2 DEF FinishAttempt
      <3> QED BY <3>1, <3>2
    <2>2. /\ bytes \in {0, FileReservationBytes} /\ lease \in Requests \cup {None}
          /\ Lane[e] = "files" => bytes = FileReservationBytes /\ lease = None
      BY <1>1
    <2>3. Follows(rec[d], q) /\ q.reservedBytes = bytes
      <3> HIDE DEF bytes, lease, e
      <3> QED BY <1>1, <1>3, <2>2, SubmittedFollows
    <2>4. /\ late => reservedFileBytes + FileReservationBytes <= MaxLiveFileBytes
          /\ bytes = r.reservedBytes + (IF late THEN FileReservationBytes ELSE 0)
      BY <1>1, <1>3, LimitAssumption DEF ReserveFileBytes
    <2>5. Replaces(d, q)
      <3> HIDE DEF q, bytes, lease, late
      <3>1. CASE late
        BY <1>1, <2>1, <2>3, <2>4, <3>1, LimitAssumption DEF Replaces
      <3>2. CASE ~late
        BY <1>1, <2>1, <2>3, <2>4, <3>2, LimitAssumption DEF Replaces
      <3> QED BY <3>1, <3>2
    <2> HIDE DEF q
    <2> QED BY <2>5, Replacing
  <1> QED BY <1>2, <1>3

LEMMA AcceptingStep ==
  ASSUME rec \in [Drops -> SoundRecord], reservedFileBytes \in Int,
         NEW d \in Drops, Accepting(d)
  PROVE  RecordStep
  <1>1. rec[d].inFlight # None
    BY DEF Accepting, OpenEnvelope, DecodeContainer
  <1> DEFINE opened == rec[d].aeadFailures + 1
             decoded == rec[d].containerFailures + 1
  <1>2. CASE rec' = [rec EXCEPT ![d].inFlight = None] /\ UNCHANGED reservedFileBytes
    <2> DEFINE q == [rec[d] EXCEPT !.inFlight = None]
    <2>1. Follows(rec[d], q) /\ q.reservedBytes = rec[d].reservedBytes
      BY AttemptFollows
    <2>2. rec' = [rec EXCEPT ![d] = q]
      BY <1>2
    <2> HIDE DEF q
    <2> QED BY <1>2, <2>1, <2>2, ReplacingSame
  <1>3. CASE rec' = [rec EXCEPT ![d].inFlight.step = "decoding"] /\ UNCHANGED reservedFileBytes
    <2> DEFINE attempt == [rec[d].inFlight EXCEPT !.step = "decoding"]
               q == [rec[d] EXCEPT !.inFlight = attempt]
    <2>1. rec[d].inFlight \in Attempt
      BY <1>1 DEF SoundRecord, Record
    <2>2. attempt \in Attempt \cup {None}
      BY <2>1 DEF Attempt
    <2>3. Follows(rec[d], q) /\ q.reservedBytes = rec[d].reservedBytes
      BY <1>1, <2>2, AttemptFollows
    <2>4. rec' = [rec EXCEPT ![d] = q]
      BY <1>3
    <2> HIDE DEF q
    <2> QED BY <1>3, <2>3, <2>4, ReplacingSame
  <1>4. CASE CountFailure(d, opened, [rec[d] EXCEPT !.aeadFailures = opened,
                                                    !.inFlight = None])
    BY <1>1, <1>4, CountFailureStep, Zenon
  <1>5. CASE CountFailure(d, decoded, [rec[d] EXCEPT !.containerFailures = decoded,
                                                     !.inFlight = None])
    BY <1>1, <1>5, CountFailureStep, Zenon
  <1>6. CASE FinishAttempt(d)
    BY <1>1, <1>6, FinishAttemptStep
  <1> QED BY <1>2, <1>3, <1>4, <1>5, <1>6, Zenon
          DEF Accepting, OpenEnvelope, DecodeContainer

LEMMA WaitingStep ==
  ASSUME rec \in [Drops -> SoundRecord], reservedFileBytes \in Int,
         NEW w \in Waits, Waiting(w)
  PROVE  RecordStep
  <1>1. ASSUME NEW d \in Drops, rec' = [rec EXCEPT ![d] = Destroyed(@)],
               reservedFileBytes' = reservedFileBytes - rec[d].reservedBytes
        PROVE  RecordStep
    <2>1. /\ Follows(rec[d], Destroyed(rec[d]))
          /\ Destroyed(rec[d]).reservedBytes = 0
      BY DestroyedFollows
    <2>2. rec' = [rec EXCEPT ![d] = Destroyed(rec[d])]
      BY <1>1
    <2> QED BY <1>1, <2>1, <2>2, ReplacingReleases
  <1>2. CASE UNCHANGED <<rec, reservedFileBytes>>
    BY <1>2 DEF RecordStep
  <1> QED BY <1>1, <1>2 DEF Waiting, Wait, WaitTimeout

LEMMA RetireStep ==
  ASSUME rec \in [Drops -> SoundRecord], reservedFileBytes \in Int,
         NEW d \in Drops, rec[d].state \in {"submitted", "transferring"}, Retire(d)
  PROVE  RecordStep
  <1> DEFINE q == Retired(ClearLease(rec[d]))
  <1>1. Follows(rec[d], q) /\ q.reservedBytes = 0
    BY RetiredFollows
  <1>2. /\ rec' = [rec EXCEPT ![d] = q]
        /\ reservedFileBytes' = reservedFileBytes - rec[d].reservedBytes
    BY DEF Retire
  <1> HIDE DEF q
  <1> QED BY <1>1, <1>2, ReplacingReleases

LEMMA GiveBackStep ==
  ASSUME rec \in [Drops -> SoundRecord], reservedFileBytes \in Int,
         NEW d \in Drops, GiveBack(d)
  PROVE  RecordStep
  <1> DEFINE q == ClearLease(rec[d])
  <1>1. Follows(rec[d], q) /\ q.reservedBytes = rec[d].reservedBytes
    BY ClearLeaseFollows
  <1>2. rec' = [rec EXCEPT ![d] = q] /\ reservedFileBytes' = reservedFileBytes
    BY DEF GiveBack
  <1> HIDE DEF q
  <1> QED BY <1>1, <1>2, ReplacingSame

\* The drop is looked at again after the decode: still submitted means still the
\* file payload it was decoded for.
LEMMA GrantStep ==
  ASSUME rec \in [Drops -> SoundRecord], OthersTyped, BegunOnFiles,
         NEW c \in Claimants, GrantFileClaim(c)
  PROVE  RecordStep
  <1>1. PICK d \in Drops : d = beginning[c]
    BY DEF GrantFileClaim, OthersTyped
  <1>2. /\ rec[d].payloadKind = "files" /\ rec[d] \in SoundRecord
        /\ reservedFileBytes \in Int /\ reservedFileBytes' = reservedFileBytes
    BY <1>1 DEF GrantFileClaim, OthersTyped, BegunOnFiles
  <1>3. CASE StillLendable(d) /\ rec' = [rec EXCEPT ![d] = Lent(@, c)]
    <2> DEFINE q == Lent(rec[d], c)
    <2>1. Follows(rec[d], q) /\ q.reservedBytes = rec[d].reservedBytes
      BY <1>2, <1>3, LentFollows DEF StillLendable
    <2>2. rec' = [rec EXCEPT ![d] = q]
      BY <1>3
    <2> HIDE DEF q
    <2> QED BY <1>2, <2>1, <2>2, ReplacingSame
  <1>4. CASE rec' = rec
    BY <1>2, <1>4 DEF RecordStep
  <1> QED BY <1>1, <1>3, <1>4 DEF GrantFileClaim

LEMMA TransferringStep ==
  ASSUME rec \in [Drops -> SoundRecord], reservedFileBytes \in Int,
         NEW c \in Claimants, NEW d \in Drops, Transferring(c, d)
  PROVE  RecordStep
  <1>1. CASE BeginFileClaim(c, d)
    BY <1>1 DEF BeginFileClaim, RecordStep
  <1>2. ASSUME NEW id, NEW index, NEW matches, AckFileClaimFrame(c, d, id, index, matches)
        PROVE  RecordStep
    <2>1. CASE GiveBack(d)
      BY <2>1, GiveBackStep
    <2>2. CASE /\ rec' = [rec EXCEPT ![d].transfer.nextFrame = @ + 1]
               /\ UNCHANGED reservedFileBytes
      <3> DEFINE lease == [rec[d].transfer EXCEPT !.nextFrame = @ + 1]
                 q == [rec[d] EXCEPT !.transfer = lease]
      <3>1. rec[d].transfer # None
        BY <1>2 DEF AckFileClaimFrame, HoldsLease
      <3>2. rec[d].transfer \in TransferLease
        BY <3>1 DEF SoundRecord, Record
      <3>3. lease \in TransferLease
        BY <3>2 DEF TransferLease
      <3>4. Follows(rec[d], q) /\ q.reservedBytes = rec[d].reservedBytes
        <4> HIDE DEF lease
        <4> QED BY <3>1, <3>3, AckedFollows
      <3>5. rec' = [rec EXCEPT ![d] = q]
        BY <2>2
      <3> HIDE DEF q
      <3> QED BY <2>2, <3>4, <3>5, ReplacingSame
    <2> QED BY <1>2, <2>1, <2>2 DEF AckFileClaimFrame
  <1>3. ASSUME NEW id, NEW matches, CommitFileClaim(c, d, id, matches)
        PROVE  RecordStep
    <2>1. CASE GiveBack(d)
      BY <2>1, GiveBackStep
    <2>2. CASE Retire(d)
      <3>1. rec[d].state \in {"submitted", "transferring"}
        BY <1>3 DEF CommitFileClaim, HoldsLease
      <3> QED BY <2>2, <3>1, RetireStep
    <2> QED BY <1>3, <2>1, <2>2 DEF CommitFileClaim
  <1> QED BY <1>1, <1>2, <1>3 DEF Transferring

LEMMA EndingStep ==
  ASSUME rec \in [Drops -> SoundRecord], reservedFileBytes \in Int,
         NEW d \in Drops, Ending(d)
  PROVE  RecordStep
  <1>1. CASE GiveBack(d)
    BY <1>1, GiveBackStep
  <1>2. CASE Age(d)
    <2> DEFINE age == IF rec[d].age = "fresh" THEN "closing" ELSE "expired"
               q == [rec[d] EXCEPT !.age = age]
    <2>1. age \in {"fresh", "closing", "expired"}
      OBVIOUS
    <2>2. Follows(rec[d], q) /\ q.reservedBytes = rec[d].reservedBytes
      <3> HIDE DEF age
      <3> QED BY <2>1, AgedFollows
    <2>3. rec' = [rec EXCEPT ![d] = q] /\ reservedFileBytes' = reservedFileBytes
      BY <1>2 DEF Age
    <2> HIDE DEF q
    <2> QED BY <2>2, <2>3, ReplacingSame
  <1>3. CASE LookupExpired(d)
    BY <1>3 DEF LookupExpired, RecordStep
  <1> QED BY <1>1, <1>2, <1>3 DEF Ending, AbandonFileClaim, LeaseTimeout

LEMMA NextRecordStep ==
  ASSUME rec \in [Drops -> SoundRecord], OthersTyped, BegunOnFiles, [Next]_vars
  PROVE  RecordStep
  <1>0. reservedFileBytes \in Int
    BY DEF OthersTyped
  <1>1. ASSUME NEW d \in Drops, Claim(d) PROVE RecordStep
    <2>1. rec[d].state \in {"submitted", "transferring"} /\ Retire(d)
      BY <1>1 DEF Claim
    <2> QED BY <1>0, <2>1, RetireStep
  <1>2. CASE Sweep \/ DestroyAll
    <2>1. \E S \in SUBSET Drops : Destroy(S)
      BY <1>2 DEF Sweep, DestroyAll
    <2> QED BY <2>1 DEF RecordStep
  <1>3. CASE UNCHANGED vars
    BY <1>3 DEF vars, RecordStep
  <1> QED BY <1>0, <1>1, <1>2, <1>3, MintingStep, SubmittingStep, AcceptingStep,
             WaitingStep, GrantStep, TransferringStep, EndingStep DEF Next

-----------------------------------------------------------------------------
(* The invariant *)

LEMMA RecordsFollow ==
  ASSUME rec \in [Drops -> SoundRecord], RecordStep
  PROVE  /\ rec' \in [Drops -> SoundRecord]
         /\ \A d \in Drops : Follows(rec[d], rec'[d])
  <1>1. ASSUME NEW d \in Drops PROVE Follows(rec[d], rec[d])
    BY DEF Follows
  <1>2. ASSUME NEW d \in Drops, NEW q \in SoundRecord, Replaces(d, q)
        PROVE  /\ rec' \in [Drops -> SoundRecord]
               /\ \A c \in Drops : Follows(rec[c], rec'[c])
    BY <1>1, <1>2 DEF Replaces
  <1>3. ASSUME NEW S \in SUBSET Drops, Destroy(S)
        PROVE  /\ rec' \in [Drops -> SoundRecord]
               /\ \A c \in Drops : Follows(rec[c], rec'[c])
    <2>1. rec' = [d \in Drops |-> IF d \in S THEN Destroyed(rec[d]) ELSE rec[d]]
      BY <1>3 DEF Destroy
    <2>2. \A d \in Drops : Follows(rec[d], rec'[d])
      BY <1>1, <2>1, DestroyedFollows
    <2>3. \A d \in Drops : rec'[d] \in SoundRecord
      BY <2>2 DEF Follows
    <2> QED BY <2>1, <2>2, <2>3
  <1>4. CASE UNCHANGED <<rec, reservedFileBytes>>
    BY <1>1, <1>4
  <1> QED BY <1>2, <1>3, <1>4 DEF RecordStep

LEMMA InitInvariant == Init => IInv
  <1> SUFFICES ASSUME Init PROVE IInv
    OBVIOUS
  <1>1. rec \in [Drops -> SoundRecord]
    BY BlankSound DEF Init
  <1>2. OthersTyped
    BY DEF Init, OthersTyped, SubmitCall, WaitCall
  <1>3. BegunOnFiles /\ Handed
    BY DEF Init, BegunOnFiles, Handed
  <1> QED BY <1>1, <1>2, <1>3 DEF IInv

\* A drop a container was decoded for stays a file drop.
LEMMA BegunStep ==
  ASSUME IInv, [Next]_vars, \A d \in Drops : Follows(rec[d], rec'[d])
  PROVE  BegunOnFiles'
  <1>1. beginning \in [Claimants -> Drops \cup {None}]
    BY DEF IInv, OthersTyped
  <1>2. ASSUME NEW c \in Claimants, beginning'[c] # None,
               beginning'[c] = beginning[c]
        PROVE  /\ rec'[beginning'[c]].state \notin Early
               /\ rec'[beginning'[c]].payloadKind = "files"
    BY <1>1, <1>2 DEF IInv, BegunOnFiles, Follows
  <1>3. CASE UNCHANGED beginning
    BY <1>2, <1>3 DEF BegunOnFiles
  <1>4. ASSUME NEW c \in Claimants, NEW d \in Drops, BeginFileClaim(c, d)
        PROVE  BegunOnFiles'
    <2>1. /\ rec[d].state = "submitted" /\ rec[d].payloadKind = "files"
          /\ rec' = rec /\ beginning' = [beginning EXCEPT ![c] = d]
      BY <1>4 DEF BeginFileClaim
    <2> QED BY <1>1, <1>2, <2>1 DEF BegunOnFiles, Early
  <1>5. ASSUME NEW c \in Claimants, GrantFileClaim(c)
        PROVE  BegunOnFiles'
    <2>1. beginning' = [beginning EXCEPT ![c] = None]
      BY <1>5 DEF GrantFileClaim
    <2> QED BY <1>1, <1>2, <2>1 DEF BegunOnFiles
  <1>6. ASSUME NEW d \in Drops, Minting(d) \/ Accepting(d) \/ Claim(d) \/ Ending(d)
        PROVE  UNCHANGED beginning
    <2>1. CASE Minting(d) \/ Accepting(d)
      BY <2>1 DEF Minting, Create, CreateFinish, CreateFail, Accepting, OpenEnvelope,
                  DecodeContainer
    <2>2. CASE Claim(d) \/ Ending(d)
      BY <2>2 DEF Claim, Ending, AbandonFileClaim, LeaseTimeout, GiveBack, Age, LookupExpired
    <2> QED BY <1>6, <2>1, <2>2
  <1>7. ASSUME NEW r \in Requests, Submitting(r) PROVE UNCHANGED beginning
    BY <1>7 DEF Submitting, AcquireSubmitSlot, Submit, ReleaseSlot
  <1>8. ASSUME NEW w \in Waits, Waiting(w) PROVE UNCHANGED beginning
    BY <1>8 DEF Waiting, Wait, WaitTimeout
  <1>9. ASSUME NEW c \in Claimants, NEW d \in Drops, Transferring(c, d)
        PROVE  BeginFileClaim(c, d) \/ UNCHANGED beginning
    BY <1>9 DEF Transferring, AckFileClaimFrame, CommitFileClaim, GiveBack
  <1>10. Sweep \/ DestroyAll \/ UNCHANGED vars => UNCHANGED beginning
    BY DEF Sweep, DestroyAll, vars
  <1> QED BY <1>3, <1>4, <1>5, <1>6, <1>7, <1>8, <1>9, <1>10 DEF Next

\* A payload is handed out by the step that ends its drop at "claimed", so never
\* from a drop that handed one out before.
LEMMA HandedStep ==
  ASSUME IInv, [Next]_vars, \A d \in Drops : Follows(rec[d], rec'[d])
  PROVE  Handed'
  <1>1. delivered \in [Drops -> Nat] /\ rec \in [Drops -> SoundRecord]
    BY DEF IInv, OthersTyped
  <1>2. ASSUME NEW d \in Drops, delivered'[d] = delivered[d]
        PROVE  \/ delivered'[d] = 0
               \/ delivered'[d] = 1 /\ rec'[d].state \in Spent
    BY <1>2 DEF IInv, Handed, Follows
  <1>3. CASE UNCHANGED delivered
    BY <1>2, <1>3 DEF Handed
  <1>4. ASSUME NEW d \in Drops, rec[d].state \in {"submitted", "transferring"},
               Retire(d), delivered' = [delivered EXCEPT ![d] = @ + 1]
        PROVE  Handed'
    <2>1. delivered[d] = 0
      BY <1>4 DEF IInv, Handed, Spent
    <2>2. rec'[d].state = "claimed"
      BY <1>1, <1>4, RetiredFollows DEF Retire
    <2> QED BY <1>1, <1>2, <1>4, <2>1, <2>2 DEF Handed, Spent
  <1>5. ASSUME NEW d \in Drops, Claim(d) PROVE Handed'
    BY <1>4, <1>5 DEF Claim
  <1>6. ASSUME NEW c, NEW d \in Drops, NEW id, NEW matches, CommitFileClaim(c, d, id, matches)
        PROVE  Handed'
    BY <1>3, <1>4, <1>6 DEF CommitFileClaim, HoldsLease, GiveBack
  <1>7. ASSUME NEW c, NEW d \in Drops, NEW id, NEW index, NEW matches,
               AckFileClaimFrame(c, d, id, index, matches)
        PROVE  UNCHANGED delivered
    BY <1>7 DEF AckFileClaimFrame, GiveBack
  <1>8. ASSUME NEW d \in Drops, Minting(d) \/ Accepting(d) \/ Ending(d)
        PROVE  UNCHANGED delivered
    <2>1. CASE Minting(d) \/ Accepting(d)
      BY <2>1 DEF Minting, Create, CreateFinish, CreateFail, Accepting, OpenEnvelope,
                  DecodeContainer
    <2>2. CASE Ending(d)
      BY <2>2 DEF Ending, AbandonFileClaim, LeaseTimeout, GiveBack, Age, LookupExpired
    <2> QED BY <1>8, <2>1, <2>2
  <1>9. ASSUME NEW r \in Requests, Submitting(r) PROVE UNCHANGED delivered
    BY <1>9 DEF Submitting, AcquireSubmitSlot, Submit, ReleaseSlot
  <1>10. ASSUME NEW w \in Waits, Waiting(w) PROVE UNCHANGED delivered
    BY <1>10 DEF Waiting, Wait, WaitTimeout
  <1>11. ASSUME NEW c \in Claimants, NEW d \in Drops, Transferring(c, d)
         PROVE  Handed'
    <2>1. CASE BeginFileClaim(c, d)
      BY <1>3, <2>1 DEF BeginFileClaim
    <2> QED BY <1>3, <1>6, <1>7, <1>11, <2>1 DEF Transferring
  <1>12. ASSUME NEW c \in Claimants, GrantFileClaim(c) PROVE UNCHANGED delivered
    BY <1>12 DEF GrantFileClaim
  <1>13. Sweep \/ DestroyAll \/ UNCHANGED vars => UNCHANGED delivered
    BY DEF Sweep, DestroyAll, vars
  <1> QED BY <1>3, <1>5, <1>8, <1>9, <1>10, <1>11, <1>12, <1>13 DEF Next

LEMMA HoldingCount ==
  ASSUME NEW S \in SUBSET Drops
  PROVE  IsFiniteSet(Holding(S)) /\ Cardinality(Holding(S)) \in Nat /\ BytesHeld(S) \in Nat
  <1>1. Holding(S) \in SUBSET Drops
    BY DEF Holding
  <1>2. IsFiniteSet(Holding(S))
    BY <1>1, FiniteDropsAssumption, FS_Subset
  <1>3. Cardinality(Holding(S)) \in Nat
    BY <1>2, FS_CardinalityType
  <1> QED BY <1>2, <1>3, LimitAssumption DEF BytesHeld

LEMMA CounterTyped ==
  ASSUME rec \in [Drops -> SoundRecord], reservedFileBytes \in Int, RecordStep
  PROVE  reservedFileBytes' \in Int
  <1>1. ASSUME NEW d \in Drops, NEW q \in SoundRecord, Replaces(d, q)
        PROVE  reservedFileBytes' \in Int
    <2>1. rec[d].reservedBytes \in Nat /\ q.reservedBytes \in Nat
      BY LimitAssumption, SMT DEF SoundRecord, Record
    <2> QED BY <1>1, <2>1 DEF Replaces
  <1>2. ASSUME NEW S \in SUBSET Drops, Destroy(S)
        PROVE  reservedFileBytes' \in Int
    BY <1>2, HoldingCount DEF Destroy
  <1>3. CASE UNCHANGED <<rec, reservedFileBytes>>
    BY <1>3
  <1> QED BY <1>1, <1>2, <1>3 DEF RecordStep

\* Answers and notifications only ever change the status of a call that is awaited.
LEMMA SettleTyped ==
  ASSUME call \in [Requests -> SubmitCall], NEW d,
         NEW result \in {"received", "unavailable"}, Settle(d, result)
  PROVE  call' \in [Requests -> SubmitCall]
  BY DEF Settle, SubmitCall

LEMMA NotifyTyped ==
  ASSUME wait \in [Waits -> WaitCall], NEW S,
         NEW outcome \in {"submitted", "unavailable"}, Notify(S, outcome)
  PROVE  wait' \in [Waits -> WaitCall]
  BY DEF Notify, WaitCall

LEMMA CallStep ==
  ASSUME OthersTyped, [Next]_vars
  PROVE  call' \in [Requests -> SubmitCall]
  <1>1. call \in [Requests -> SubmitCall]
    BY DEF OthersTyped
  <1>2. ASSUME NEW d, Settle(d, "unavailable") \/ Settle(d, "received")
        PROVE  call' \in [Requests -> SubmitCall]
    BY <1>1, <1>2, SettleTyped
  <1>3. CASE UNCHANGED call
    BY <1>1, <1>3
  <1>4. ASSUME NEW r \in Requests, NEW d \in Drops, NEW decl \in Declarations,
               NEW e \in Envelopes \cup {None}, Submit(r, d, decl, e)
        PROVE  call' \in [Requests -> SubmitCall]
    <2> DEFINE verdict == SubmitVerdict(d, decl, e)
               status == IF verdict \in {"accept", "join"} THEN "awaiting" ELSE verdict
    <2>1. status \in {"awaiting", "received", "unavailable"}
      BY DEF SubmitVerdict
    <2>2. call' = [call EXCEPT ![r] = [status |-> status, drop |-> d, env |-> e]]
      BY <1>4 DEF Submit
    <2> HIDE DEF status
    <2> QED BY <1>1, <2>1, <2>2 DEF SubmitCall
  <1>5. ASSUME NEW d \in Drops, Accepting(d)
        PROVE  call' \in [Requests -> SubmitCall]
    BY <1>2, <1>3, <1>5 DEF Accepting, OpenEnvelope, DecodeContainer, FinishAttempt
  <1>6. ASSUME NEW r \in Requests, Submitting(r)
        PROVE  call' \in [Requests -> SubmitCall]
    BY <1>3, <1>4, <1>6 DEF Submitting, AcquireSubmitSlot, ReleaseSlot
  <1>7. ASSUME NEW c \in Claimants, NEW d \in Drops, Transferring(c, d)
        PROVE  UNCHANGED call
    BY <1>7 DEF Transferring, BeginFileClaim, AckFileClaimFrame, CommitFileClaim, GiveBack
  <1> QED BY <1>3, <1>5, <1>6, <1>7 DEF Next, vars, Minting, Create, CreateFinish,
        CreateFail, Waiting, Wait, WaitTimeout, Claim, GrantFileClaim, Ending,
        AbandonFileClaim, LeaseTimeout, GiveBack, Age, LookupExpired, Sweep, DestroyAll

LEMMA WaitStep ==
  ASSUME OthersTyped, [Next]_vars
  PROVE  wait' \in [Waits -> WaitCall]
  <1>1. wait \in [Waits -> WaitCall]
    BY DEF OthersTyped
  <1>2. ASSUME NEW S, Notify(S, "unavailable") \/ Notify(S, "submitted")
        PROVE  wait' \in [Waits -> WaitCall]
    BY <1>1, <1>2, NotifyTyped
  <1>3. CASE UNCHANGED wait
    BY <1>1, <1>3
  <1>4. ASSUME NEW w \in Waits, Waiting(w)
        PROVE  wait' \in [Waits -> WaitCall]
    <2>1. ASSUME NEW d \in Drops, Wait(w, d)
          PROVE  wait' \in [Waits -> WaitCall]
      BY <1>1, <2>1 DEF Wait, WaitCall
    <2>2. CASE WaitTimeout(w)
      BY <1>1, <2>2 DEF WaitTimeout, WaitCall
    <2> QED BY <1>4, <2>1, <2>2 DEF Waiting
  <1>5. ASSUME NEW d \in Drops, Accepting(d)
        PROVE  wait' \in [Waits -> WaitCall]
    BY <1>2, <1>3, <1>5
       DEF Accepting, OpenEnvelope, DecodeContainer, FinishAttempt, CountFailure
  <1>6. ASSUME NEW r \in Requests, Submitting(r)
        PROVE  wait' \in [Waits -> WaitCall]
    BY <1>2, <1>3, <1>6 DEF Submitting, AcquireSubmitSlot, Submit, ReleaseSlot, Destroy
  <1>7. ASSUME NEW c \in Claimants, NEW d \in Drops, Transferring(c, d)
        PROVE  wait' \in [Waits -> WaitCall]
    BY <1>2, <1>3, <1>7 DEF Transferring, BeginFileClaim, AckFileClaimFrame,
                            CommitFileClaim, GiveBack, Retire
  <1> QED BY <1>2, <1>3, <1>4, <1>5, <1>6, <1>7 DEF Next, vars, Minting, Create,
        CreateFinish, CreateFail, Claim, Retire, GrantFileClaim, Ending, AbandonFileClaim,
        LeaseTimeout, GiveBack, Age, LookupExpired, Sweep, DestroyAll, Destroy

LEMMA SlotStep ==
  ASSUME OthersTyped, [Next]_vars
  PROVE  slot' \in [Requests -> Slot \cup {None}]
  <1>1. slot \in [Requests -> Slot \cup {None}]
    BY DEF OthersTyped
  <1>2. ASSUME NEW r \in Requests, NEW d \in Drops, GrantSlot(r, d)
        PROVE  slot' \in [Requests -> Slot \cup {None}]
    BY <1>1, <1>2 DEF GrantSlot, Slot
  <1>3. CASE UNCHANGED slot
    BY <1>1, <1>3
  <1>4. ASSUME NEW r \in Requests, Submitting(r)
        PROVE  slot' \in [Requests -> Slot \cup {None}]
    BY <1>1, <1>2, <1>3, <1>4 DEF Submitting, AcquireSubmitSlot, Submit, ReleaseSlot
  <1>5. ASSUME NEW c \in Claimants, NEW d \in Drops, Transferring(c, d)
        PROVE  UNCHANGED slot
    BY <1>5 DEF Transferring, BeginFileClaim, AckFileClaimFrame, CommitFileClaim, GiveBack
  <1> QED BY <1>3, <1>4, <1>5 DEF Next, vars, Minting, Create, CreateFinish, CreateFail,
        Accepting, OpenEnvelope, DecodeContainer, Waiting, Wait, WaitTimeout, Claim,
        GrantFileClaim, Ending, AbandonFileClaim, LeaseTimeout, GiveBack, Age,
        LookupExpired, Sweep, DestroyAll

LEMMA TransferStep ==
  ASSUME rec \in [Drops -> SoundRecord], OthersTyped, [Next]_vars
  PROVE  /\ beginning' \in [Claimants -> Drops \cup {None}]
         /\ delivered' \in [Drops -> Nat]
         /\ acked' \subseteq Drops \X Nat \X Claimants \X Nat
  <1> DEFINE typed == /\ beginning' \in [Claimants -> Drops \cup {None}]
                      /\ delivered' \in [Drops -> Nat]
                      /\ acked' \subseteq Drops \X Nat \X Claimants \X Nat
  <1>1. /\ beginning \in [Claimants -> Drops \cup {None}]
        /\ delivered \in [Drops -> Nat]
        /\ acked \subseteq Drops \X Nat \X Claimants \X Nat
    BY DEF OthersTyped
  <1>2. ASSUME UNCHANGED <<beginning, delivered, acked>>
        PROVE  typed
    BY <1>1, <1>2
  <1>3. ASSUME NEW d \in Drops, delivered' = [delivered EXCEPT ![d] = @ + 1],
               UNCHANGED <<beginning, acked>>
        PROVE  typed
    BY <1>1, <1>3
  <1>4. ASSUME NEW c \in Claimants, NEW d \in Drops \cup {None},
               beginning' = [beginning EXCEPT ![c] = d], UNCHANGED <<delivered, acked>>
        PROVE  typed
    BY <1>1, <1>4
  <1>5. ASSUME NEW c \in Claimants, NEW d \in Drops,
               NEW id \in 1..rec[d].transferAttempts,
               NEW index \in 0..Frames[rec[d].plaintext], NEW matches \in BOOLEAN,
               rec[d].plaintext # None, AckFileClaimFrame(c, d, id, index, matches)
        PROVE  typed
    <2>1. id \in Nat
      BY DEF SoundRecord, Record
    <2>2. index \in Nat
      BY <1>5, EnvelopeAssumption DEF SoundRecord, Record
    <2>3. CASE acked' = acked \cup {<<d, id, c, index>>} /\ UNCHANGED <<beginning, delivered>>
      BY <1>1, <2>1, <2>2, <2>3
    <2>4. CASE GiveBack(d)
      BY <1>2, <2>4 DEF GiveBack
    <2> QED BY <1>5, <2>3, <2>4 DEF AckFileClaimFrame
  <1>6. ASSUME NEW c \in Claimants, NEW d \in Drops, Transferring(c, d)
        PROVE  typed
    <2>1. CASE BeginFileClaim(c, d)
      BY <1>4, <2>1 DEF BeginFileClaim
    <2>2. ASSUME NEW id, NEW matches, CommitFileClaim(c, d, id, matches)
          PROVE  typed
      BY <1>2, <1>3, <2>2 DEF CommitFileClaim, GiveBack
    <2> HIDE DEF typed
    <2> QED BY <1>5, <1>6, <2>1, <2>2 DEF Transferring
  <1>7. ASSUME NEW c \in Claimants, GrantFileClaim(c)
        PROVE  typed
    BY <1>4, <1>7 DEF GrantFileClaim
  <1>8. ASSUME NEW d \in Drops, Claim(d)
        PROVE  typed
    BY <1>3, <1>8 DEF Claim
  <1>9. ASSUME NEW d \in Drops, Minting(d) \/ Accepting(d) \/ Ending(d)
        PROVE  UNCHANGED <<beginning, delivered, acked>>
    BY <1>9 DEF Minting, Create, CreateFinish, CreateFail, Accepting, OpenEnvelope,
                DecodeContainer, Ending, AbandonFileClaim, LeaseTimeout, GiveBack, Age,
                LookupExpired
  <1>10. ASSUME NEW r \in Requests, Submitting(r)
         PROVE  UNCHANGED <<beginning, delivered, acked>>
    BY <1>10 DEF Submitting, AcquireSubmitSlot, Submit, ReleaseSlot
  <1>11. ASSUME NEW w \in Waits, Waiting(w)
         PROVE  UNCHANGED <<beginning, delivered, acked>>
    BY <1>11 DEF Waiting, Wait, WaitTimeout
  <1>12. typed
    <2> HIDE DEF typed
    <2>1. CASE Sweep \/ DestroyAll \/ UNCHANGED vars
      BY <1>2, <2>1 DEF Sweep, DestroyAll, vars
    <2>2. CASE \E d \in Drops : Minting(d) \/ Accepting(d) \/ Claim(d) \/ Ending(d)
      BY <1>2, <1>8, <1>9, <2>2
    <2>3. CASE \E r \in Requests : Submitting(r)
      BY <1>2, <1>10, <2>3
    <2>4. CASE \E w \in Waits : Waiting(w)
      BY <1>2, <1>11, <2>4
    <2>5. CASE \E c \in Claimants : GrantFileClaim(c) \/ \E d \in Drops : Transferring(c, d)
      BY <1>6, <1>7, <2>5
    <2> QED BY <2>1, <2>2, <2>3, <2>4, <2>5 DEF Next
  <1> QED BY <1>12

LEMMA NextInvariant == IInv /\ [Next]_vars => IInv'
  <1> SUFFICES ASSUME IInv, [Next]_vars PROVE IInv'
    OBVIOUS
  <1>1. rec \in [Drops -> SoundRecord] /\ OthersTyped /\ BegunOnFiles
    BY DEF IInv
  <1>2. RecordStep
    BY <1>1, NextRecordStep
  <1>3. /\ rec' \in [Drops -> SoundRecord]
        /\ \A d \in Drops : Follows(rec[d], rec'[d])
    BY <1>1, <1>2, RecordsFollow
  <1>4. BegunOnFiles' /\ Handed'
    BY <1>3, BegunStep, HandedStep
  <1>5. reservedFileBytes' \in Int
    BY <1>1, <1>2, CounterTyped DEF OthersTyped
  <1>6. OthersTyped'
    BY <1>1, <1>5, CallStep, WaitStep, SlotStep, TransferStep DEF OthersTyped
  <1> QED BY <1>3, <1>4, <1>6 DEF IInv

THEOREM Invariant == Spec => []IInv
  BY InitInvariant, NextInvariant, PTL DEF Spec

-----------------------------------------------------------------------------
(* What follows *)

\* The broker's state stays in its types, whatever its callers do: in particular
\* no failure counter passes MAX_AEAD_FAILURES.
THEOREM TypeCorrect == Spec => []TypeOK
  <1>1. IInv => TypeOK
    BY DEF IInv, OthersTyped, TypeOK, SoundRecord
  <1> QED BY <1>1, Invariant, PTL

\* A drop that spent its failure budget is destroyed, and no attempt ever runs on
\* a collected drop.
THEOREM FailuresSpend == Spec => []FailuresSpendDrop
  <1>1. IInv => FailuresSpendDrop
    BY LimitAssumption, SMT
       DEF IInv, FailuresSpendDrop, SoundRecord, Sound, FailuresLeft, Record
  <1> QED BY <1>1, Invariant, PTL

\* A payload exists exactly while it can be collected or is lent, and a lease
\* exactly while it is lent.
THEOREM LeaseMatches == Spec => []LeaseMatchesState
  <1>1. IInv => LeaseMatchesState
    BY DEF IInv, LeaseMatchesState, SoundRecord, Sound, LeaseInStep
  <1> QED BY <1>1, Invariant, PTL

\* No interleaving of uploads, releases and transfers takes the reservation from
\* under a file payload.
THEOREM PayloadsPaid == Spec => []PayloadReserved
  <1>1. IInv => PayloadReserved
    BY DEF IInv, PayloadReserved, SoundRecord, Sound, PayloadPaid
  <1> QED BY <1>1, Invariant, PTL

\* A payload is handed out at most once, by either way of collecting it, and
\* leaves no reservation behind.
THEOREM HandedOnce == Spec => []DeliveredOnce
  <1>1. IInv => DeliveredOnce
    BY DEF IInv, DeliveredOnce, Handed, SoundRecord, Sound, EndsHoldNothing, Spent
  <1> QED BY <1>1, Invariant, PTL

-----------------------------------------------------------------------------
(* The budget *)

LEMMA Product ==
  ASSUME NEW a \in Int, NEW m \in Int, NEW n \in Int
  PROVE  a * (m + n) = a * m + a * n /\ a * (m - n) = a * m - a * n
  BY SMT

\* One record's reservation is added to the sum, dropped from it, or kept.
LEMMA ReplacedHolding ==
  ASSUME rec \in [Drops -> SoundRecord], NEW d \in Drops, NEW q \in SoundRecord,
         rec' = [rec EXCEPT ![d] = q]
  PROVE  BytesHeld(Drops)' = BytesHeld(Drops) + (q.reservedBytes - rec[d].reservedBytes)
  <1> DEFINE H == Holding(Drops)
             n == Cardinality(H)
             F == FileReservationBytes
  <1>1. IsFiniteSet(H) /\ n \in Nat /\ F \in Nat \ {0}
    BY HoldingCount, LimitAssumption
  <1>2. q.reservedBytes \in {0, F} /\ rec[d].reservedBytes \in {0, F}
    BY DEF SoundRecord, Record
  <1>3. /\ BytesHeld(Drops) = F * n
        /\ BytesHeld(Drops)' = F * Cardinality(H')
        /\ H' = {c \in Drops : rec'[c].reservedBytes > 0}
        /\ H = {c \in Drops : rec[c].reservedBytes > 0}
    BY DEF BytesHeld, Holding
  <1>4. CASE q.reservedBytes = rec[d].reservedBytes
    <2>1. H' = H
      BY <1>3, <1>4
    <2>2. BytesHeld(Drops)' = BytesHeld(Drops)
      BY <1>3, <2>1
    <2>3. BytesHeld(Drops) \in Nat
      BY HoldingCount
    <2> QED BY <1>1, <1>2, <1>4, <2>2, <2>3
  <1>5. CASE q.reservedBytes = F /\ rec[d].reservedBytes = 0
    <2>1. H' = H \cup {d} /\ d \notin H
      BY <1>1, <1>3, <1>5
    <2>2. Cardinality(H') = n + 1
      <3> HIDE DEF H
      <3> QED BY <1>1, <2>1, FS_AddElement
    <2>3. F * (n + 1) = F * n + F * 1
      BY <1>1, Product
    <2> HIDE DEF H, n
    <2> QED BY <1>1, <1>3, <1>5, <2>2, <2>3
  <1>6. CASE q.reservedBytes = 0 /\ rec[d].reservedBytes = F
    <2>1. H' = H \ {d} /\ d \in H
      BY <1>1, <1>3, <1>6
    <2>2. Cardinality(H') = n - 1
      <3> HIDE DEF H
      <3> QED BY <1>1, <2>1, FS_RemoveElement
    <2>3. F * (n - 1) = F * n - F * 1
      BY <1>1, Product
    <2> HIDE DEF H, n
    <2> QED BY <1>1, <1>3, <1>6, <2>2, <2>3
  <1> QED BY <1>2, <1>4, <1>5, <1>6

\* Destroying several drops drops exactly their reservations from the sum.
LEMMA DestroyedHolding ==
  ASSUME rec \in [Drops -> SoundRecord], NEW S \in SUBSET Drops, Destroy(S)
  PROVE  BytesHeld(Drops)' = BytesHeld(Drops) - BytesHeld(S)
  <1> DEFINE H == Holding(Drops)
             G == Holding(S)
             F == FileReservationBytes
  <1>1. /\ IsFiniteSet(H) /\ IsFiniteSet(G) /\ G \subseteq H
        /\ Cardinality(H) \in Nat /\ Cardinality(G) \in Nat /\ F \in Nat
    <2>1. G \subseteq H
      BY DEF Holding
    <2> QED BY <2>1, HoldingCount, LimitAssumption
  <1>2. \A d \in Drops : rec'[d] = IF d \in S THEN Destroyed(rec[d]) ELSE rec[d]
    BY DEF Destroy
  <1>3. \A d \in S : rec'[d].reservedBytes = 0
    BY <1>2, DestroyedFollows
  <1>4. H' = H \ G
    BY <1>2, <1>3 DEF Holding
  <1>5. Cardinality(H') = Cardinality(H) - Cardinality(G)
    <2> HIDE DEF H, G
    <2>1. Cardinality(H \ G) = Cardinality(H) - Cardinality(H \cap G)
      BY <1>1, FS_Difference
    <2>2. H \cap G = G
      BY <1>1
    <2> QED BY <1>4, <2>1, <2>2
  <1>6. F * (Cardinality(H) - Cardinality(G)) = F * Cardinality(H) - F * Cardinality(G)
    BY <1>1, Product
  <1> QED BY <1>5, <1>6 DEF BytesHeld

Budget == BudgetExact /\ BudgetWithinLimit

LEMMA BudgetStep ==
  ASSUME IInv, Budget, [Next]_vars
  PROVE  Budget'
  <1>1. rec \in [Drops -> SoundRecord] /\ reservedFileBytes \in Int /\ RecordStep
    BY NextRecordStep DEF IInv, OthersTyped
  <1>2. BytesHeld(Drops) \in Nat /\ MaxLiveFileBytes \in Nat
    BY HoldingCount, LimitAssumption
  <1>3. ASSUME NEW d \in Drops, NEW q \in SoundRecord, Replaces(d, q)
        PROVE  Budget'
    <2>1. /\ reservedFileBytes' =
               reservedFileBytes + (q.reservedBytes - rec[d].reservedBytes)
          /\ q.reservedBytes > rec[d].reservedBytes => reservedFileBytes' <= MaxLiveFileBytes
          /\ rec' = [rec EXCEPT ![d] = q]
      BY <1>3 DEF Replaces
    <2>2. BytesHeld(Drops)' = BytesHeld(Drops) + (q.reservedBytes - rec[d].reservedBytes)
      BY <1>1, <2>1, ReplacedHolding
    <2>3. q.reservedBytes \in Nat /\ rec[d].reservedBytes \in Nat
      BY <1>1, LimitAssumption, SMT DEF SoundRecord, Record
    <2> QED BY <1>1, <1>2, <2>1, <2>2, <2>3 DEF Budget, BudgetExact, BudgetWithinLimit
  <1>4. ASSUME NEW S \in SUBSET Drops, Destroy(S)
        PROVE  Budget'
    <2>1. BytesHeld(S) \in Nat
      BY HoldingCount
    <2>2. reservedFileBytes' = reservedFileBytes - BytesHeld(S)
      BY <1>4 DEF Destroy
    <2>3. BytesHeld(Drops)' = BytesHeld(Drops) - BytesHeld(S)
      BY <1>1, <1>4, DestroyedHolding
    <2> QED BY <1>1, <1>2, <2>1, <2>2, <2>3 DEF Budget, BudgetExact, BudgetWithinLimit
  <1>5. CASE UNCHANGED <<rec, reservedFileBytes>>
    BY <1>5 DEF Budget, BudgetExact, BudgetWithinLimit, BytesHeld, Holding
  <1> QED BY <1>1, <1>3, <1>4, <1>5 DEF RecordStep

LEMMA InitBudget == Init => Budget
  <1> SUFFICES ASSUME Init PROVE Budget
    OBVIOUS
  <1>1. Holding(Drops) = {}
    BY DEF Init, Blank, Holding
  <1> QED BY <1>1, FS_EmptySet, LimitAssumption
          DEF Init, Budget, BudgetExact, BudgetWithinLimit, BytesHeld

LEMMA BudgetInvariant == Spec => []Budget
  BY Invariant, InitBudget, BudgetStep, PTL DEF Spec

\* The byte counter that seven handlers adjust is always the sum of what the
\* records hold: none of their interleavings releases a reservation twice or
\* forgets one.
THEOREM BudgetIsExact == Spec => []BudgetExact
  BY BudgetInvariant, PTL DEF Budget

\* Admitted bodies and live file payloads together never pass the process limit.
THEOREM BudgetIsBounded == Spec => []BudgetWithinLimit
  BY BudgetInvariant, PTL DEF Budget

-----------------------------------------------------------------------------
(* Who gives a reservation back, what an ack proves, who still waits *)

\* A drop minted for one lane only ever takes that lane's envelopes, its payload
\* is of the winner's lane, and the live lease is the last one granted.
Laned(r) ==
  /\ r.state \in Early => r.payloadKind = r.mintedKind
  /\ r.inFlight # None /\ r.mintedKind # "universal" =>
       Lane[r.inFlight.env] = r.mintedKind
  /\ r.plaintext # None => r.payloadKind = Lane[r.plaintext]
  /\ r.transfer # None => r.transfer.id = r.transferAttempts /\ r.transferAttempts > 0

\* The live lease only moved past frames its owner acked within it.
Proved(d) ==
  rec[d].transfer # None =>
    \A index \in 0..(rec[d].transfer.nextFrame - 1) :
      <<d, rec[d].transfer.id, rec[d].transfer.owner, index>> \in acked

\* One drop's share of ReservationOwned.
Owned(d) ==
  rec[d].reservedBytes > 0 =>
    \/ rec[d].mintedKind = "files" /\ rec[d].state \in {"minting", "pending"}
    \/ rec[d].payloadKind = "files" /\ rec[d].state \in {"submitted", "transferring"}
    \/ \E r \in Requests : /\ rec[d].submitLease = r
                           /\ slot[r] = [drop |-> d, held |-> TRUE]

\* One drop's share of DeliveredWhole.
Whole(d) ==
  delivered[d] = 1 /\ Lane[rec[d].envelopeKey] = "files" =>
    \E id \in 1..rec[d].transferAttempts, c \in Claimants :
      \A index \in 0..(Frames[rec[d].envelopeKey] - 1) : <<d, id, c, index>> \in acked

AwaitsPending(w) ==
  wait[w].status = "parked" =>
    wait[w].drop \in Drops /\ rec[wait[w].drop].state = "pending"

Accounted(d) == Laned(rec[d]) /\ Owned(d) /\ Proved(d) /\ Whole(d)

CInv ==
  /\ \A d \in Drops : Accounted(d)
  /\ \A w \in Waits : AwaitsPending(w)

\* The steps that bring a record nothing new: no lane, no payload, no lease and no
\* reservation it did not have.
Tame(r, q) ==
  /\ q.mintedKind = r.mintedKind
  /\ q.payloadKind = r.payloadKind
  /\ q.envelopeKey = r.envelopeKey
  /\ q.transferAttempts = r.transferAttempts
  /\ q.inFlight # None => r.inFlight # None /\ q.inFlight.env = r.inFlight.env
  /\ q.plaintext \in {r.plaintext, None}
  /\ q.transfer \in {r.transfer, None}
  /\ q.state \in Early => r.state \in Early
  /\ q.reservedBytes > 0 =>
       /\ r.reservedBytes > 0
       /\ q.submitLease = r.submitLease
       /\ \/ q.state = r.state
          \/ r.state = "minting" /\ q.state = "pending"
          \/ r.state = "transferring" /\ q.state = "submitted"

LEMMA TameSame ==
  ASSUME NEW r
  PROVE  Tame(r, r)
  BY DEF Tame

LEMMA TameLaned ==
  ASSUME NEW r, NEW q, Tame(r, q), Laned(r)
  PROVE  Laned(q)
  BY SMT DEF Tame, Laned

LEMMA ClearLeaseTame ==
  ASSUME NEW r \in SoundRecord
  PROVE  Tame(r, ClearLease(r)) /\ ClearLease(r).plaintext = r.plaintext
  BY LimitAssumption, SMT DEF Tame, ClearLease, SoundRecord, Record, Early

LEMMA DestroyedTame ==
  ASSUME NEW r \in Record
  PROVE  Tame(r, Destroyed(r)) /\ Destroyed(r).state = "destroyed"
  BY LimitAssumption, SMT DEF Tame, Destroyed, ClearLease, Record, Early

LEMMA RetiredTame ==
  ASSUME NEW r \in SoundRecord
  PROVE  Tame(r, Retired(ClearLease(r)))
  BY LimitAssumption, SMT DEF Tame, Retired, ClearLease, SoundRecord, Record, Early

LEMMA ReleasedTame ==
  ASSUME NEW r \in SoundRecord, NEW req \in Requests
  PROVE  /\ Tame(r, ReleasedSlot(req, r))
         /\ ReleasedSlot(req, r).plaintext = r.plaintext
         /\ slot[req].held /\ r.submitLease = req => ReleasedSlot(req, r).reservedBytes = 0
  BY LimitAssumption, SMT DEF Tame, ReleasedSlot, SoundRecord, Record, Early

LEMMA AttemptTame ==
  ASSUME NEW r \in SoundRecord, NEW attempt,
         attempt # None => r.inFlight # None /\ attempt.env = r.inFlight.env,
         NEW q, q = [r EXCEPT !.inFlight = attempt]
  PROVE  Tame(r, q) /\ q.plaintext = r.plaintext
  BY LimitAssumption, SMT DEF Tame, SoundRecord, Record, Early

LEMMA FailedTame ==
  ASSUME NEW r \in SoundRecord, NEW n, NEW q,
         \/ q = [r EXCEPT !.aeadFailures = n, !.inFlight = None]
         \/ q = [r EXCEPT !.containerFailures = n, !.inFlight = None]
  PROVE  Tame(r, q) /\ q.plaintext = r.plaintext
  <1>1. CASE q = [r EXCEPT !.aeadFailures = n, !.inFlight = None]
    BY <1>1, LimitAssumption, SMT DEF Tame, SoundRecord, Record, Early
  <1>2. CASE q = [r EXCEPT !.containerFailures = n, !.inFlight = None]
    BY <1>2, LimitAssumption, SMT DEF Tame, SoundRecord, Record, Early
  <1> QED BY <1>1, <1>2

LEMMA AgedTame ==
  ASSUME NEW r \in SoundRecord, NEW age, NEW q, q = [r EXCEPT !.age = age]
  PROVE  Tame(r, q) /\ q.plaintext = r.plaintext /\ q.state = r.state
  BY LimitAssumption, SMT DEF Tame, SoundRecord, Record, Early

LEMMA PendingTame ==
  ASSUME NEW r \in SoundRecord, r.state = "minting", NEW q,
         q = [r EXCEPT !.state = "pending"]
  PROVE  Tame(r, q) /\ q.plaintext = r.plaintext
  BY LimitAssumption, SMT DEF Tame, SoundRecord, Record, Early

\* A drop that a step leaves alone, or only takes from, stays accounted for.
SlotsKept(d) ==
  \A r \in Requests :
    rec'[d].reservedBytes > 0 /\ rec[d].submitLease = r
      /\ slot[r] = [drop |-> d, held |-> TRUE]
    => slot'[r] = slot[r]

LEMMA TameAccounted ==
  ASSUME NEW d \in Drops, Accounted(d), Tame(rec[d], rec'[d]), SlotsKept(d),
         delivered'[d] = delivered[d], acked \subseteq acked'
  PROVE  Accounted(d)'
  <1>1. Laned(rec'[d])
    BY TameLaned DEF Accounted
  <1>2. Owned(d)'
    <2> SUFFICES ASSUME rec'[d].reservedBytes > 0 PROVE Owned(d)'
      BY DEF Owned
    <2>1. /\ rec[d].reservedBytes > 0
          /\ rec'[d].submitLease = rec[d].submitLease
          /\ rec'[d].mintedKind = rec[d].mintedKind
          /\ rec'[d].payloadKind = rec[d].payloadKind
          /\ \/ rec'[d].state = rec[d].state
             \/ rec[d].state = "minting" /\ rec'[d].state = "pending"
             \/ rec[d].state = "transferring" /\ rec'[d].state = "submitted"
      BY DEF Tame
    <2>2. CASE rec[d].mintedKind = "files" /\ rec[d].state \in {"minting", "pending"}
      BY <2>1, <2>2 DEF Owned
    <2>3. CASE rec[d].payloadKind = "files" /\ rec[d].state \in {"submitted", "transferring"}
      BY <2>1, <2>3 DEF Owned
    <2>4. CASE \E r \in Requests : /\ rec[d].submitLease = r
                                   /\ slot[r] = [drop |-> d, held |-> TRUE]
      <3>1. PICK r \in Requests : /\ rec[d].submitLease = r
                                  /\ slot[r] = [drop |-> d, held |-> TRUE]
        BY <2>4
      <3>2. slot'[r] = slot[r]
        BY <3>1 DEF SlotsKept
      <3> QED BY <2>1, <3>1, <3>2, Zenon DEF Owned
    <2> QED BY <2>1, <2>2, <2>3, <2>4 DEF Accounted, Owned
  <1>3. Proved(d)'
    BY DEF Accounted, Proved, Tame
  <1>4. Whole(d)'
    BY DEF Accounted, Whole, Tame
  <1> QED BY <1>1, <1>2, <1>3, <1>4 DEF Accounted

\* One record is replaced: the others are as they were.
LEMMA OthersAccounted ==
  ASSUME rec \in [Drops -> SoundRecord], \A c \in Drops : Accounted(c),
         NEW d \in Drops, NEW q, rec' = [rec EXCEPT ![d] = q],
         \A c \in Drops : c # d => SlotsKept(c) /\ delivered'[c] = delivered[c],
         acked \subseteq acked', Accounted(d)'
  PROVE  \A c \in Drops : Accounted(c)'
  <1> TAKE c \in Drops
  <1>1. CASE c = d
    BY <1>1
  <1>2. CASE c # d
    <2>1. rec'[c] = rec[c]
      BY <1>2
    <2>2. Tame(rec[c], rec'[c])
      BY <2>1, TameSame
    <2> QED BY <1>2, <2>2, TameAccounted
  <1> QED BY <1>1, <1>2

LEMMA TameReplaced ==
  ASSUME rec \in [Drops -> SoundRecord], \A c \in Drops : Accounted(c),
         NEW d \in Drops, NEW q, rec' = [rec EXCEPT ![d] = q], Tame(rec[d], q),
         UNCHANGED <<slot, delivered, acked>>
  PROVE  \A c \in Drops : Accounted(c)'
  <1>1. \A c \in Drops : SlotsKept(c)
    BY DEF SlotsKept
  <1>2. Tame(rec[d], rec'[d]) /\ delivered'[d] = delivered[d] /\ acked \subseteq acked'
    BY DEF Tame
  <1>3. Accounted(d)'
    BY <1>1, <1>2, TameAccounted
  <1> QED BY <1>1, <1>2, <1>3, OthersAccounted

LEMMA DestroyAccounted ==
  ASSUME rec \in [Drops -> SoundRecord], \A c \in Drops : Accounted(c),
         NEW S, Destroy(S), UNCHANGED <<slot, delivered, acked>>
  PROVE  \A c \in Drops : Accounted(c)'
  <1> TAKE c \in Drops
  <1>1. rec'[c] = IF c \in S THEN Destroyed(rec[c]) ELSE rec[c]
    BY DEF Destroy
  <1>2. Tame(rec[c], rec'[c])
    BY <1>1, TameSame, DestroyedTame DEF SoundRecord
  <1>3. SlotsKept(c) /\ delivered'[c] = delivered[c] /\ acked \subseteq acked'
    BY DEF SlotsKept
  <1> QED BY <1>2, <1>3, TameAccounted

LEMMA StillAccounted ==
  ASSUME \A c \in Drops : Accounted(c), UNCHANGED <<rec, slot, delivered, acked>>
  PROVE  \A c \in Drops : Accounted(c)'
  <1> TAKE c \in Drops
  <1>1. SlotsKept(c) /\ Tame(rec[c], rec'[c])
    BY TameSame DEF SlotsKept
  <1> QED BY <1>1, TameAccounted

LEMMA MintingAccounted ==
  ASSUME IInv, \A c \in Drops : Accounted(c), NEW d \in Drops, Minting(d)
  PROVE  \A c \in Drops : Accounted(c)'
  <1>0. rec \in [Drops -> SoundRecord] /\ UNCHANGED <<slot, delivered, acked>>
    BY DEF IInv, Minting, Create, CreateFinish, CreateFail
  <1>1. \A c \in Drops : SlotsKept(c) /\ delivered'[c] = delivered[c]
    BY <1>0 DEF SlotsKept
  <1>2. delivered[d] = 0
    <2>1. rec[d].state \in Early
      BY DEF Minting, Create, CreateFinish, CreateFail, Early
    <2> QED BY <2>1 DEF IInv, Handed, Early, Spent
  <1>3. ASSUME NEW kind \in Kinds, Create(d, kind)
        PROVE  Accounted(d)'
    <2> DEFINE held == IF kind = "files" THEN FileReservationBytes ELSE 0
    <2>1. rec'[d] = [Blank EXCEPT !.state = "minting", !.mintedKind = kind,
                                  !.payloadKind = kind, !.reservedBytes = held]
      BY <1>0, <1>3 DEF Create
    <2>2. /\ rec'[d].state = "minting" /\ rec'[d].mintedKind = kind
          /\ rec'[d].payloadKind = kind /\ rec'[d].reservedBytes = held
          /\ rec'[d].inFlight = None /\ rec'[d].plaintext = None
          /\ rec'[d].transfer = None
      BY <2>1, SMT DEF Blank
    <2>3. held > 0 => kind = "files"
      OBVIOUS
    <2> HIDE DEF held
    <2>4. Laned(rec'[d])
      BY <2>2 DEF Laned
    <2>5. Owned(d)' /\ Proved(d)'
      BY <2>2, <2>3 DEF Owned, Proved
    <2>6. Whole(d)'
      BY <1>1, <1>2 DEF Whole
    <2> QED BY <2>4, <2>5, <2>6 DEF Accounted
  <1>4. ASSUME NEW kind \in Kinds, Create(d, kind)
        PROVE  \A c \in Drops : Accounted(c)'
    <2>1. PICK q : rec' = [rec EXCEPT ![d] = q]
      BY <1>4 DEF Create
    <2> QED BY <1>0, <1>1, <1>3, <1>4, <2>1, OthersAccounted
  <1>5. CASE CreateFinish(d)
    <2>1. PICK q : rec' = [rec EXCEPT ![d] = q] /\ q = [rec[d] EXCEPT !.state = "pending"]
      BY <1>5 DEF CreateFinish
    <2>2. Tame(rec[d], q)
      BY <1>0, <1>5, <2>1, PendingTame DEF CreateFinish
    <2> QED BY <1>0, <2>1, <2>2, TameReplaced
  <1>6. CASE CreateFail(d)
    <2>1. rec' = [rec EXCEPT ![d] = Blank]
      BY <1>6 DEF CreateFail
    <2>2. Laned(Blank) /\ Blank.reservedBytes = 0 /\ Blank.transfer = None
      BY DEF Laned, Blank
    <2>3. rec'[d] = Blank
      BY <1>0, <2>1
    <2>4. Owned(d)' /\ Proved(d)' /\ Whole(d)'
      BY <1>1, <1>2, <2>2, <2>3 DEF Owned, Proved, Whole
    <2>5. Accounted(d)'
      BY <2>2, <2>3, <2>4 DEF Accounted
    <2> QED BY <1>0, <1>1, <2>1, <2>5, OthersAccounted
  <1> QED BY <1>4, <1>5, <1>6 DEF Minting

\* A fresh slot is the requester's first: nobody else's borrowed reservation is
\* forgotten with it.
LEMMA GrantSlotAccounted ==
  ASSUME IInv, \A c \in Drops : Accounted(c), NEW r \in Requests, NEW d \in Drops,
         slot[r] = None, GrantSlot(r, d), UNCHANGED <<delivered, acked>>
  PROVE  \A c \in Drops : Accounted(c)'
  <1> DEFINE held == FileSubmitLease(d) = "taken"
             q == [rec[d] EXCEPT !.bodySlotBusy = TRUE,
                                 !.submitLease = IF held THEN r ELSE @,
                                 !.reservedBytes = IF held THEN FileReservationBytes ELSE @]
  <1>1. /\ rec \in [Drops -> SoundRecord] /\ slot \in [Requests -> Slot \cup {None}]
        /\ rec' = [rec EXCEPT ![d] = q]
        /\ slot' = [slot EXCEPT ![r] = [drop |-> d, held |-> held]]
    BY DEF IInv, OthersTyped, GrantSlot
  <1>2. \A c \in Drops : [drop |-> c, held |-> TRUE] # None
    <2>1. \A c \in Drops : [drop |-> c, held |-> TRUE] \in [drop : Drops, held : BOOLEAN]
      OBVIOUS
    <2> QED BY <2>1, NoneAssumption
  <1>3. \A c \in Drops : SlotsKept(c) /\ delivered'[c] = delivered[c]
    BY <1>1, <1>2 DEF SlotsKept
  <1>4. /\ rec'[d] = q
        /\ q.mintedKind = rec[d].mintedKind /\ q.payloadKind = rec[d].payloadKind
        /\ q.envelopeKey = rec[d].envelopeKey /\ q.inFlight = rec[d].inFlight
        /\ q.transferAttempts = rec[d].transferAttempts
        /\ q.transfer = rec[d].transfer /\ q.plaintext = rec[d].plaintext
        /\ q.state = rec[d].state
        /\ held => q.submitLease = r
        /\ ~held => /\ q.submitLease = rec[d].submitLease
                    /\ q.reservedBytes = rec[d].reservedBytes
    <2>1. rec[d] \in Record /\ rec'[d] = q
      BY <1>1 DEF SoundRecord
    <2> QED BY <2>1, SMT DEF Record
  <1> HIDE DEF q
  <1>5. CASE held
    <2>1. Owned(d)'
      <3>1. rec'[d].submitLease = r /\ slot'[r] = [drop |-> d, held |-> TRUE]
        BY <1>1, <1>4, <1>5
      <3> QED BY <3>1, Zenon DEF Owned
    <2>2. Laned(rec'[d]) /\ Proved(d)' /\ Whole(d)'
      BY <1>3, <1>4 DEF Accounted, Laned, Proved, Whole
    <2>3. Accounted(d)'
      BY <2>1, <2>2 DEF Accounted
    <2> QED BY <1>1, <1>3, <2>3, OthersAccounted
  <1>6. CASE ~held
    <2>1. Tame(rec[d], rec'[d])
      BY <1>4, <1>6 DEF Tame
    <2>2. Accounted(d)'
      BY <1>3, <2>1, TameAccounted
    <2> QED BY <1>1, <1>3, <2>2, OthersAccounted
  <1> QED BY <1>5, <1>6

LEMMA SubmitAccounted ==
  ASSUME IInv, \A c \in Drops : Accounted(c), NEW r \in Requests, NEW d \in Drops,
         NEW decl \in Declarations, NEW e \in Envelopes \cup {None}, Submit(r, d, decl, e)
  PROVE  \A c \in Drops : Accounted(c)'
  <1>0. rec \in [Drops -> SoundRecord] /\ UNCHANGED <<slot, delivered, acked>>
    BY DEF IInv, Submit
  <1>1. CASE Destroy({d})
    BY <1>0, <1>1, DestroyAccounted
  <1>2. CASE /\ SubmitVerdict(d, decl, e) = "accept"
             /\ rec' = [rec EXCEPT ![d].inFlight = [env |-> e, step |-> "opening"]]
    <2>1. PICK q : /\ rec' = [rec EXCEPT ![d] = q]
                   /\ q = [rec[d] EXCEPT !.inFlight = [env |-> e, step |-> "opening"]]
      BY <1>2
    <2>2. /\ rec[d].state = "pending"
          /\ rec[d].mintedKind # "universal" => Lane[e] = rec[d].payloadKind
      BY <1>2 DEF SubmitVerdict, EnvelopeIdentity, SubmitKind
    <2>3. Lane[e] = rec[d].mintedKind \/ rec[d].mintedKind = "universal"
      BY <2>2 DEF Accounted, Laned, Early
    <2>4. /\ q.inFlight.env = e
          /\ q.mintedKind = rec[d].mintedKind /\ q.payloadKind = rec[d].payloadKind
          /\ q.envelopeKey = rec[d].envelopeKey /\ q.state = rec[d].state
          /\ q.transferAttempts = rec[d].transferAttempts
          /\ q.transfer = rec[d].transfer /\ q.plaintext = rec[d].plaintext
          /\ q.submitLease = rec[d].submitLease
          /\ q.reservedBytes = rec[d].reservedBytes
      <3>1. rec[d] \in Record
        BY <1>0 DEF SoundRecord
      <3> QED BY <2>1, <3>1, SMT DEF Record
    <2>5. rec'[d] = q
      BY <1>0, <2>1
    <2>6. Laned(rec'[d])
      BY <2>3, <2>4, <2>5 DEF Accounted, Laned
    <2>7. Owned(d)'
      BY <1>0, <2>4, <2>5 DEF Accounted, Owned
    <2>8. Proved(d)' /\ Whole(d)'
      BY <1>0, <2>4, <2>5 DEF Accounted, Proved, Whole
    <2>9. Accounted(d)'
      BY <2>6, <2>7, <2>8 DEF Accounted
    <2>10. \A c \in Drops : SlotsKept(c) /\ delivered'[c] = delivered[c]
      BY <1>0 DEF SlotsKept
    <2> QED BY <1>0, <2>1, <2>9, <2>10, OthersAccounted
  <1>3. CASE rec' = rec
    BY <1>0, <1>3, StillAccounted
  <1> QED BY <1>1, <1>2, <1>3 DEF Submit

\* The slot that goes takes its own reservation along, and only that.
LEMMA ReleaseAccounted ==
  ASSUME IInv, \A c \in Drops : Accounted(c), NEW r \in Requests, ReleaseSlot(r)
  PROVE  \A c \in Drops : Accounted(c)'
  <1>0. /\ rec \in [Drops -> SoundRecord] /\ slot \in [Requests -> Slot \cup {None}]
        /\ UNCHANGED <<delivered, acked>> /\ slot' = [slot EXCEPT ![r] = None]
    BY DEF IInv, OthersTyped, ReleaseSlot
  <1>1. PICK d \in Drops : d = slot[r].drop
    BY <1>0 DEF ReleaseSlot, Slot
  <1>2. PICK q : q = ReleasedSlot(r, rec[d]) /\ rec' = [rec EXCEPT ![d] = q]
    BY <1>1 DEF ReleaseSlot
  <1>3. Tame(rec[d], q) /\ (slot[r].held /\ rec[d].submitLease = r => q.reservedBytes = 0)
    BY <1>0, <1>2, ReleasedTame
  <1>4. ASSUME NEW c \in Drops PROVE SlotsKept(c)
    <2> SUFFICES ASSUME NEW s \in Requests, rec'[c].reservedBytes > 0,
                        rec[c].submitLease = s, slot[s] = [drop |-> c, held |-> TRUE]
                 PROVE  slot'[s] = slot[s]
      BY DEF SlotsKept
    <2>1. CASE s # r
      BY <1>0, <2>1
    <2>2. CASE s = r
      <3>1. c = d /\ slot[r].held
        BY <1>1, <2>2
      <3>2. rec'[c].reservedBytes = 0
        BY <1>0, <1>2, <1>3, <2>2, <3>1
      <3> QED BY <3>2
    <2> QED BY <2>1, <2>2
  <1>5. Accounted(d)'
    <2>1. rec'[d] = q
      BY <1>0, <1>2
    <2> QED BY <1>0, <1>3, <1>4, <2>1, TameAccounted
  <1> QED BY <1>0, <1>2, <1>4, <1>5, OthersAccounted

LEMMA SubmittingAccounted ==
  ASSUME IInv, \A c \in Drops : Accounted(c), NEW r \in Requests, Submitting(r)
  PROVE  \A c \in Drops : Accounted(c)'
  <1>1. ASSUME NEW d \in Drops, NEW decl \in Declarations, AcquireSubmitSlot(r, d, decl)
        PROVE  \A c \in Drops : Accounted(c)'
    <2>0. rec \in [Drops -> SoundRecord] /\ UNCHANGED <<delivered, acked>> /\ slot[r] = None
      BY <1>1 DEF IInv, AcquireSubmitSlot
    <2>1. CASE Destroy({d}) /\ UNCHANGED slot
      BY <2>0, <2>1, DestroyAccounted
    <2>2. CASE GrantSlot(r, d)
      BY <2>0, <2>2, GrantSlotAccounted
    <2>3. CASE UNCHANGED <<rec, slot>>
      BY <2>0, <2>3, StillAccounted
    <2> QED BY <1>1, <2>1, <2>2, <2>3 DEF AcquireSubmitSlot
  <1> QED BY <1>1, SubmitAccounted, ReleaseAccounted DEF Submitting

\* The winner: a file payload owns the reservation itself; a text payload leaves it
\* to the upload that borrowed it, never to a drop minted for files.
LEMMA SubmittedAccounted ==
  ASSUME IInv, \A c \in Drops : Accounted(c), NEW d \in Drops, NEW e \in Envelopes,
         rec[d].inFlight # None, e = rec[d].inFlight.env, rec[d].state = "pending",
         NEW bytes, NEW lease,
         Lane[e] # "files" => bytes = rec[d].reservedBytes /\ lease = rec[d].submitLease,
         rec' = [rec EXCEPT ![d] = Submitted(rec[d], e, bytes, lease)],
         UNCHANGED <<slot, delivered, acked>>
  PROVE  \A c \in Drops : Accounted(c)'
  <1>0. rec \in [Drops -> SoundRecord] /\ delivered[d] = 0
    BY DEF IInv, Handed, Spent
  <1>1. PICK q : q = Submitted(rec[d], e, bytes, lease) /\ rec'[d] = q
                 /\ rec' = [rec EXCEPT ![d] = q]
    BY <1>0
  <1>2. /\ q.state = "submitted" /\ q.payloadKind = Lane[e] /\ q.plaintext = e
        /\ q.inFlight = None /\ q.transfer = rec[d].transfer
        /\ q.submitLease = lease /\ q.reservedBytes = bytes
        /\ q.mintedKind = rec[d].mintedKind
        /\ q.transferAttempts = rec[d].transferAttempts
    <2>1. rec[d] \in Record
      BY <1>0 DEF SoundRecord
    <2> QED BY <1>1, <2>1, SMT DEF Submitted, Record
  <1>3. rec[d].transfer = None
    BY <1>0 DEF SoundRecord, Sound, LeaseInStep
  <1>4. Laned(q) /\ Proved(d)' /\ Whole(d)'
    BY <1>0, <1>1, <1>2, <1>3 DEF Laned, Proved, Whole, Early
  <1>5. Owned(d)'
    <2>1. CASE Lane[e] = "files"
      BY <1>1, <1>2, <2>1 DEF Owned
    <2>2. CASE Lane[e] # "files" /\ rec[d].reservedBytes > 0
      <3>1. rec[d].mintedKind # "files"
        BY <2>2 DEF Accounted, Laned
      <3>2. PICK r \in Requests : /\ rec[d].submitLease = r
                                  /\ slot[r] = [drop |-> d, held |-> TRUE]
        BY <2>2, <3>1 DEF Accounted, Owned
      <3>3. rec'[d].submitLease = r /\ slot'[r] = [drop |-> d, held |-> TRUE]
        BY <1>1, <1>2, <2>2, <3>2
      <3> QED BY <3>3, Zenon DEF Owned
    <2>3. CASE Lane[e] # "files" /\ ~(rec[d].reservedBytes > 0)
      BY <1>1, <1>2, <2>3 DEF Owned
    <2> QED BY <2>1, <2>2, <2>3
  <1>6. Accounted(d)'
    BY <1>1, <1>4, <1>5 DEF Accounted
  <1>7. \A c \in Drops : SlotsKept(c) /\ delivered'[c] = delivered[c] /\ acked \subseteq acked'
    BY DEF SlotsKept
  <1> QED BY <1>0, <1>1, <1>6, <1>7, OthersAccounted

LEMMA FailureAccounted ==
  ASSUME IInv, \A c \in Drops : Accounted(c), NEW d \in Drops, rec[d].inFlight # None,
         NEW n, NEW failed, CountFailure(d, n, failed),
         \/ /\ n = rec[d].aeadFailures + 1
            /\ failed = [rec[d] EXCEPT !.aeadFailures = n, !.inFlight = None]
         \/ /\ n = rec[d].containerFailures + 1
            /\ failed = [rec[d] EXCEPT !.containerFailures = n, !.inFlight = None],
         UNCHANGED <<slot, delivered, acked>>
  PROVE  \A c \in Drops : Accounted(c)'
  <1>0. rec \in [Drops -> SoundRecord]
    BY DEF IInv
  <1>1. Tame(rec[d], failed)
    BY <1>0, FailedTame
  <1>2. failed \in Record
    <2>1. \/ failed = [rec[d] EXCEPT !.aeadFailures = rec[d].aeadFailures + 1,
                                    !.inFlight = None]
          \/ failed = [rec[d] EXCEPT !.containerFailures = rec[d].containerFailures + 1,
                                    !.inFlight = None]
      BY Zenon
    <2> QED BY <1>0, <2>1, FailedFollows
  <1>3. Tame(rec[d], Destroyed(failed))
    <2>1. Tame(failed, Destroyed(failed)) /\ Destroyed(failed).reservedBytes = 0
      <3>1. Destroyed(failed).reservedBytes = 0
        BY <1>2, SMT DEF Destroyed, ClearLease, Record
      <3> QED BY <1>2, <3>1, DestroyedTame
    <2> QED BY <1>1, <2>1, SMT DEF Tame
  <1>4. CASE rec' = [rec EXCEPT ![d] = Destroyed(failed)]
    BY <1>0, <1>3, <1>4, TameReplaced
  <1>5. CASE rec' = [rec EXCEPT ![d] = failed]
    BY <1>0, <1>1, <1>5, TameReplaced
  <1> QED BY <1>4, <1>5 DEF CountFailure

LEMMA FinishAccounted ==
  ASSUME IInv, \A c \in Drops : Accounted(c), NEW d \in Drops, rec[d].inFlight # None,
         FinishAttempt(d), UNCHANGED <<slot, delivered, acked>>
  PROVE  \A c \in Drops : Accounted(c)'
  <1> DEFINE r == rec[d]
             e == r.inFlight.env
  <1>0. rec \in [Drops -> SoundRecord] /\ e \in Envelopes
    BY DEF IInv, SoundRecord, Record, Attempt
  <1>1. CASE rec' = [rec EXCEPT ![d].inFlight = None]
    <2>1. PICK q : q = [rec[d] EXCEPT !.inFlight = None] /\ rec' = [rec EXCEPT ![d] = q]
      BY <1>1
    <2>2. Tame(rec[d], q)
      BY <1>0, <2>1, AttemptTame
    <2> QED BY <1>0, <2>1, <2>2, TameReplaced
  <1>2. CASE /\ r.state = "pending" /\ Lane[e] = "files"
             /\ rec' = [rec EXCEPT ![d] = Submitted(r, e, FileReservationBytes, None)]
    BY <1>0, <1>2, SubmittedAccounted
  <1>3. CASE /\ r.state = "pending" /\ Lane[e] # "files"
             /\ rec' = [rec EXCEPT ![d] = Submitted(r, e, r.reservedBytes, r.submitLease)]
    BY <1>0, <1>3, SubmittedAccounted
  <1>4. \/ rec' = [rec EXCEPT ![d].inFlight = None]
        \/ /\ r.state = "pending"
           /\ rec' = [rec EXCEPT ![d] =
                IF Lane[e] = "files"
                THEN Submitted(r, e, FileReservationBytes, None)
                ELSE Submitted(r, e, r.reservedBytes, r.submitLease)]
    BY DEF FinishAttempt
  <1> QED BY <1>1, <1>2, <1>3, <1>4

LEMMA AcceptingAccounted ==
  ASSUME IInv, \A c \in Drops : Accounted(c), NEW d \in Drops, Accepting(d)
  PROVE  \A c \in Drops : Accounted(c)'
  <1> DEFINE opened == rec[d].aeadFailures + 1
             decoded == rec[d].containerFailures + 1
  <1>0. /\ rec \in [Drops -> SoundRecord] /\ rec[d].inFlight # None
        /\ UNCHANGED <<slot, delivered, acked>>
    BY DEF IInv, Accepting, OpenEnvelope, DecodeContainer
  <1>1. CASE rec' = [rec EXCEPT ![d].inFlight = None]
    <2>1. PICK q : q = [rec[d] EXCEPT !.inFlight = None] /\ rec' = [rec EXCEPT ![d] = q]
      BY <1>1
    <2>2. Tame(rec[d], q)
      BY <1>0, <2>1, AttemptTame
    <2> QED BY <1>0, <2>1, <2>2, TameReplaced
  <1>2. CASE rec' = [rec EXCEPT ![d].inFlight.step = "decoding"]
    <2> DEFINE attempt == [rec[d].inFlight EXCEPT !.step = "decoding"]
    <2>1. attempt.env = rec[d].inFlight.env
      BY <1>0 DEF SoundRecord, Record, Attempt
    <2>2. PICK q : q = [rec[d] EXCEPT !.inFlight = attempt] /\ rec' = [rec EXCEPT ![d] = q]
      BY <1>2
    <2>3. Tame(rec[d], q)
      <3> HIDE DEF attempt
      <3> QED BY <1>0, <2>1, <2>2, AttemptTame
    <2> QED BY <1>0, <2>2, <2>3, TameReplaced
  <1>3. CASE CountFailure(d, opened, [rec[d] EXCEPT !.aeadFailures = opened,
                                                    !.inFlight = None])
    BY <1>0, <1>3, FailureAccounted, Zenon
  <1>4. CASE CountFailure(d, decoded, [rec[d] EXCEPT !.containerFailures = decoded,
                                                     !.inFlight = None])
    BY <1>0, <1>4, FailureAccounted, Zenon
  <1>5. CASE FinishAttempt(d)
    BY <1>0, <1>5, FinishAccounted
  <1> QED BY <1>1, <1>2, <1>3, <1>4, <1>5, Zenon
          DEF Accepting, OpenEnvelope, DecodeContainer

LEMMA GiveBackAccounted ==
  ASSUME IInv, \A c \in Drops : Accounted(c), NEW d \in Drops, GiveBack(d)
  PROVE  \A c \in Drops : Accounted(c)'
  <1>1. PICK q : q = ClearLease(rec[d]) /\ rec' = [rec EXCEPT ![d] = q]
    BY DEF GiveBack
  <1>2. rec \in [Drops -> SoundRecord] /\ Tame(rec[d], q)
    BY <1>1, ClearLeaseTame DEF IInv
  <1> QED BY <1>1, <1>2, TameReplaced DEF GiveBack

\* The drop is handed out: as text, or with every frame proved within its lease.
LEMMA RetireAccounted ==
  ASSUME IInv, \A c \in Drops : Accounted(c), NEW d \in Drops, Retire(d),
         rec[d].plaintext # None,
         delivered' = [delivered EXCEPT ![d] = @ + 1], UNCHANGED <<slot, acked>>,
         \/ rec[d].payloadKind # "files"
         \/ rec[d].transfer # None /\ rec[d].transfer.nextFrame = Frames[rec[d].plaintext]
  PROVE  \A c \in Drops : Accounted(c)'
  <1>0. rec \in [Drops -> SoundRecord] /\ delivered \in [Drops -> Nat]
    BY DEF IInv, OthersTyped
  <1>1. PICK q : q = Retired(ClearLease(rec[d])) /\ rec' = [rec EXCEPT ![d] = q]
    BY DEF Retire
  <1>2. rec'[d] = q /\ Tame(rec[d], q) /\ q.reservedBytes = 0
    <2>1. rec[d].state \in {"submitted", "transferring"}
      BY <1>0 DEF SoundRecord, Sound, LeaseInStep
    <2> QED BY <1>0, <1>1, <2>1, RetiredTame, RetiredFollows
  <1>3. Laned(rec'[d])
    BY <1>2, TameLaned DEF Accounted
  <1>4. Owned(d)'
    BY <1>2, LimitAssumption DEF Owned
  <1>5. Proved(d)'
    BY <1>2 DEF Accounted, Proved, Tame
  <1>6. Whole(d)'
    <2>1. /\ q.envelopeKey = rec[d].plaintext /\ rec[d].payloadKind = Lane[rec[d].plaintext]
          /\ q.transferAttempts = rec[d].transferAttempts
      BY <1>0, <1>2 DEF Tame, SoundRecord, Sound, LeaseInStep, Accounted, Laned
    <2>2. CASE rec[d].payloadKind # "files"
      BY <1>2, <2>1, <2>2 DEF Whole
    <2>3. CASE rec[d].transfer # None /\ rec[d].transfer.nextFrame = Frames[rec[d].plaintext]
      <3> DEFINE id == rec[d].transfer.id
                 owner == rec[d].transfer.owner
      <3>1. owner \in Claimants /\ id \in 1..rec[d].transferAttempts
        BY <1>0, <2>3 DEF SoundRecord, Record, TransferLease, Accounted, Laned
      <3>2. \A index \in 0..(Frames[rec[d].plaintext] - 1) : <<d, id, owner, index>> \in acked
        BY <2>3 DEF Accounted, Proved
      <3> HIDE DEF id, owner
      <3> QED BY <1>2, <2>1, <3>1, <3>2 DEF Whole
    <2> QED BY <2>2, <2>3
  <1>7. Accounted(d)'
    BY <1>3, <1>4, <1>5, <1>6 DEF Accounted
  <1>8. \A c \in Drops : SlotsKept(c) /\ (c # d => delivered'[c] = delivered[c])
    BY <1>0 DEF SlotsKept
  <1> QED BY <1>0, <1>1, <1>7, <1>8, OthersAccounted

LEMMA AckAccounted ==
  ASSUME IInv, \A c \in Drops : Accounted(c), NEW c \in Claimants, NEW d \in Drops,
         NEW id, NEW index, NEW matches, AckFileClaimFrame(c, d, id, index, matches)
  PROVE  \A b \in Drops : Accounted(b)'
  <1>0. /\ rec \in [Drops -> SoundRecord] /\ HoldsLease(c, d, id)
        /\ rec[d].transfer \in TransferLease
    BY DEF IInv, AckFileClaimFrame, HoldsLease, SoundRecord, Record
  <1>1. CASE GiveBack(d)
    BY <1>1, GiveBackAccounted
  <1>2. CASE /\ index = rec[d].transfer.nextFrame
             /\ rec' = [rec EXCEPT ![d].transfer.nextFrame = @ + 1]
             /\ acked' = acked \cup {<<d, id, c, index>>}
             /\ UNCHANGED <<slot, delivered>>
    <2> DEFINE lease == [rec[d].transfer EXCEPT !.nextFrame = @ + 1]
    <2>1. PICK q : q = [rec[d] EXCEPT !.transfer = lease] /\ rec' = [rec EXCEPT ![d] = q]
      BY <1>2
    <2>2. /\ lease \in TransferLease /\ lease.id = rec[d].transfer.id
          /\ lease.owner = rec[d].transfer.owner
          /\ lease.nextFrame = rec[d].transfer.nextFrame + 1
      BY <1>0 DEF TransferLease
    <2> HIDE DEF lease
    <2>3. /\ rec'[d] = q /\ q.transfer = lease
          /\ q.mintedKind = rec[d].mintedKind /\ q.payloadKind = rec[d].payloadKind
          /\ q.envelopeKey = rec[d].envelopeKey /\ q.inFlight = rec[d].inFlight
          /\ q.transferAttempts = rec[d].transferAttempts
          /\ q.plaintext = rec[d].plaintext /\ q.state = rec[d].state
          /\ q.submitLease = rec[d].submitLease
          /\ q.reservedBytes = rec[d].reservedBytes
      <3>1. rec[d] \in Record /\ rec'[d] = q
        BY <1>0, <2>1 DEF SoundRecord
      <3> QED BY <2>1, <3>1, SMT DEF Record
    <2>4. Laned(rec'[d])
      BY <1>0, <2>2, <2>3 DEF Accounted, Laned, HoldsLease
    <2>5. Owned(d)'
      BY <1>2, <2>3 DEF Accounted, Owned
    <2>6. Whole(d)'
      BY <1>2, <2>3 DEF Accounted, Whole
    <2>7. Proved(d)'
      <3>1. /\ rec[d].transfer # None /\ rec[d].transfer.id = id
            /\ rec[d].transfer.owner = c /\ rec[d].transfer.nextFrame \in Nat
        BY <1>0 DEF HoldsLease, TransferLease
      <3>2. \A i \in 0..(rec[d].transfer.nextFrame - 1) : <<d, id, c, i>> \in acked
        BY <3>1 DEF Accounted, Proved
      <3>3. \A i \in 0..rec[d].transfer.nextFrame : <<d, id, c, i>> \in acked'
        BY <1>2, <3>1, <3>2
      <3> QED BY <2>2, <2>3, <3>1, <3>3 DEF Proved
    <2>8. Accounted(d)'
      BY <2>4, <2>5, <2>6, <2>7 DEF Accounted
    <2>9. \A b \in Drops : SlotsKept(b) /\ delivered'[b] = delivered[b]
      BY <1>2 DEF SlotsKept
    <2>10. acked \subseteq acked'
      BY <1>2
    <2> QED BY <1>0, <2>1, <2>8, <2>9, <2>10, OthersAccounted
  <1> QED BY <1>1, <1>2 DEF AckFileClaimFrame

LEMMA LentAccounted ==
  ASSUME IInv, \A b \in Drops : Accounted(b), NEW c \in Claimants, GrantFileClaim(c)
  PROVE  \A b \in Drops : Accounted(b)'
  <1>0. rec \in [Drops -> SoundRecord] /\ UNCHANGED <<slot, delivered, acked>>
    BY DEF IInv, GrantFileClaim
  <1>1. PICK d \in Drops : d = beginning[c]
    BY DEF IInv, OthersTyped, GrantFileClaim
  <1>2. CASE StillLendable(d) /\ rec' = [rec EXCEPT ![d] = Lent(@, c)]
    <2>1. PICK q : q = Lent(rec[d], c) /\ rec' = [rec EXCEPT ![d] = q]
      BY <1>2
    <2>2. /\ rec'[d] = q /\ q.transfer.id = q.transferAttempts /\ q.transferAttempts > 0
          /\ q.transfer.nextFrame = 0
          /\ q.payloadKind = rec[d].payloadKind /\ q.mintedKind = rec[d].mintedKind
          /\ q.plaintext = rec[d].plaintext /\ q.inFlight = rec[d].inFlight
          /\ q.state = "transferring" /\ rec[d].state = "submitted"
          /\ q.payloadKind = "files"
      <3>1. rec[d] \in Record /\ rec'[d] = q
        BY <1>0, <2>1 DEF SoundRecord
      <3>2. rec[d].payloadKind = "files" /\ rec[d].state = "submitted"
        BY <1>1, <1>2 DEF IInv, BegunOnFiles, GrantFileClaim, StillLendable
      <3> QED BY <2>1, <3>1, <3>2, SMT DEF Lent, Record
    <2>3. delivered[d] = 0
      BY <2>2 DEF IInv, Handed, Spent
    <2>4. Laned(rec'[d])
      BY <2>2 DEF Accounted, Laned, Early
    <2>5. Owned(d)' /\ Proved(d)' /\ Whole(d)'
      BY <1>0, <2>2, <2>3 DEF Owned, Proved, Whole
    <2>6. Accounted(d)'
      BY <2>4, <2>5 DEF Accounted
    <2>7. \A b \in Drops : SlotsKept(b) /\ delivered'[b] = delivered[b] /\ acked \subseteq acked'
      BY <1>0 DEF SlotsKept
    <2> QED BY <1>0, <2>1, <2>6, <2>7, OthersAccounted
  <1>3. CASE rec' = rec
    BY <1>0, <1>3, StillAccounted
  <1> QED BY <1>1, <1>2, <1>3 DEF GrantFileClaim

LEMMA NextAccounted ==
  ASSUME IInv, \A d \in Drops : Accounted(d), [Next]_vars
  PROVE  \A d \in Drops : Accounted(d)'
  <1>0. rec \in [Drops -> SoundRecord]
    BY DEF IInv
  <1>1. ASSUME NEW d \in Drops, Claim(d) PROVE \A c \in Drops : Accounted(c)'
    BY <1>1, RetireAccounted DEF Claim
  <1>2. ASSUME NEW d \in Drops, Ending(d) PROVE \A c \in Drops : Accounted(c)'
    <2>1. CASE GiveBack(d)
      BY <2>1, GiveBackAccounted
    <2>2. CASE Age(d)
      <3>1. PICK q, age : q = [rec[d] EXCEPT !.age = age] /\ rec' = [rec EXCEPT ![d] = q]
        BY <2>2 DEF Age
      <3>2. Tame(rec[d], q)
        BY <1>0, <3>1, AgedTame
      <3> QED BY <1>0, <2>2, <3>1, <3>2, TameReplaced DEF Age
    <2>3. CASE LookupExpired(d)
      BY <1>0, <2>3, DestroyAccounted DEF LookupExpired
    <2> QED BY <1>2, <2>1, <2>2, <2>3 DEF Ending, AbandonFileClaim, LeaseTimeout
  <1>3. ASSUME NEW w \in Waits, Waiting(w) PROVE \A c \in Drops : Accounted(c)'
    <2>1. ASSUME NEW d \in Drops, rec' = [rec EXCEPT ![d] = Destroyed(@)],
                 UNCHANGED <<slot, delivered, acked>>
          PROVE  \A c \in Drops : Accounted(c)'
      <3>1. PICK q : q = Destroyed(rec[d]) /\ rec' = [rec EXCEPT ![d] = q]
        BY <2>1
      <3>2. Tame(rec[d], q)
        BY <1>0, <3>1, DestroyedTame DEF SoundRecord
      <3> QED BY <1>0, <2>1, <3>1, <3>2, TameReplaced
    <2>2. CASE UNCHANGED <<rec, slot, delivered, acked>>
      BY <2>2, StillAccounted
    <2> QED BY <1>3, <2>1, <2>2 DEF Waiting, Wait, WaitTimeout
  <1>4. ASSUME NEW c \in Claimants, NEW d \in Drops, Transferring(c, d)
        PROVE  \A b \in Drops : Accounted(b)'
    <2>1. CASE BeginFileClaim(c, d)
      BY <2>1, StillAccounted DEF BeginFileClaim
    <2>2. ASSUME NEW id, NEW matches, CommitFileClaim(c, d, id, matches)
          PROVE  \A b \in Drops : Accounted(b)'
      BY <2>2, RetireAccounted, GiveBackAccounted DEF CommitFileClaim, HoldsLease
    <2> QED BY <1>4, <2>1, <2>2, AckAccounted DEF Transferring
  <1>5. CASE Sweep \/ DestroyAll
    BY <1>0, <1>5, DestroyAccounted DEF Sweep, DestroyAll
  <1>6. CASE UNCHANGED vars
    BY <1>6, StillAccounted DEF vars
  <1> QED BY <1>1, <1>2, <1>3, <1>4, <1>5, <1>6, MintingAccounted, SubmittingAccounted,
             AcceptingAccounted, LentAccounted DEF Next

-----------------------------------------------------------------------------
(* Nobody sleeps on a drop that moved on *)

\* A drop outside S that waits for its submission still does.
StillPending(S) ==
  \A d \in Drops \ S : rec[d].state = "pending" => rec'[d].state = "pending"

LEMMA UnnotifiedAwait ==
  ASSUME \A w \in Waits : AwaitsPending(w), UNCHANGED wait, StillPending({})
  PROVE  \A w \in Waits : AwaitsPending(w)'
  BY DEF AwaitsPending, StillPending

LEMMA NotifiedAwait ==
  ASSUME wait \in [Waits -> WaitCall], \A w \in Waits : AwaitsPending(w),
         NEW S, NEW outcome \in {"submitted", "unavailable"}, Notify(S, outcome),
         StillPending(S)
  PROVE  \A w \in Waits : AwaitsPending(w)'
  <1> TAKE w \in Waits
  <1> SUFFICES ASSUME wait'[w].status = "parked"
               PROVE  wait'[w].drop \in Drops /\ rec'[wait'[w].drop].state = "pending"
    BY DEF AwaitsPending
  <1>1. wait'[w] = wait[w] /\ wait[w].drop \notin S
    BY DEF Notify, WaitCall
  <1> QED BY <1>1 DEF AwaitsPending, StillPending

LEMMA ReplacedPending ==
  ASSUME rec \in [Drops -> SoundRecord], NEW d, NEW q, NEW S,
         rec' = [rec EXCEPT ![d] = q],
         d \in S \/ rec[d].state # "pending" \/ q.state = "pending"
  PROVE  StillPending(S)
  BY DEF StillPending

LEMMA DestroyAwait ==
  ASSUME IInv, \A w \in Waits : AwaitsPending(w), NEW S, Destroy(S)
  PROVE  \A w \in Waits : AwaitsPending(w)'
  <1>1. wait \in [Waits -> WaitCall] /\ Notify(S, "unavailable")
    BY DEF IInv, OthersTyped, Destroy
  <1>2. StillPending(S)
    BY DEF Destroy, StillPending
  <1> QED BY <1>1, <1>2, NotifiedAwait

LEMMA SubmittingAwait ==
  ASSUME IInv, \A w \in Waits : AwaitsPending(w), NEW r \in Requests, Submitting(r)
  PROVE  \A w \in Waits : AwaitsPending(w)'
  <1>0. rec \in [Drops -> SoundRecord]
    BY DEF IInv
  <1>1. ASSUME NEW d, NEW q, rec' = [rec EXCEPT ![d] = q], q.state = rec[d].state,
               UNCHANGED wait
        PROVE  \A w \in Waits : AwaitsPending(w)'
    BY <1>0, <1>1, ReplacedPending, UnnotifiedAwait
  <1>2. ASSUME UNCHANGED <<rec, wait>>
        PROVE  \A w \in Waits : AwaitsPending(w)'
    BY <1>2 DEF AwaitsPending
  <1>3. ASSUME NEW d \in Drops, NEW decl \in Declarations, AcquireSubmitSlot(r, d, decl)
        PROVE  \A w \in Waits : AwaitsPending(w)'
    <2>1. CASE Destroy({d})
      BY <2>1, DestroyAwait
    <2>2. CASE GrantSlot(r, d) /\ UNCHANGED wait
      <3> DEFINE held == FileSubmitLease(d) = "taken"
                 q == [rec[d] EXCEPT !.bodySlotBusy = TRUE,
                                     !.submitLease = IF held THEN r ELSE @,
                                     !.reservedBytes = IF held THEN FileReservationBytes ELSE @]
      <3>1. rec' = [rec EXCEPT ![d] = q]
        BY <2>2 DEF GrantSlot
      <3>2. q.state = rec[d].state
        <4> HIDE DEF held
        <4> QED BY <1>0, SMT DEF SoundRecord, Record
      <3> HIDE DEF q
      <3> QED BY <1>1, <2>2, <3>1, <3>2
    <2> QED BY <1>2, <1>3, <2>1, <2>2 DEF AcquireSubmitSlot
  <1>4. ASSUME NEW d \in Drops, NEW decl \in Declarations, NEW e \in Envelopes \cup {None},
               Submit(r, d, decl, e)
        PROVE  \A w \in Waits : AwaitsPending(w)'
    <2>1. CASE Destroy({d})
      BY <2>1, DestroyAwait
    <2>2. CASE /\ rec' = [rec EXCEPT ![d].inFlight = [env |-> e, step |-> "opening"]]
               /\ UNCHANGED wait
      <3>1. PICK q : /\ rec' = [rec EXCEPT ![d] = q]
                     /\ q = [rec[d] EXCEPT !.inFlight = [env |-> e, step |-> "opening"]]
        BY <2>2
      <3>2. q.state = rec[d].state
        BY <1>0, <3>1, SMT DEF SoundRecord, Record
      <3> QED BY <1>1, <2>2, <3>1, <3>2
    <2> QED BY <1>2, <1>4, <2>1, <2>2 DEF Submit
  <1>5. CASE ReleaseSlot(r)
    <2>1. PICK d \in Drops : d = slot[r].drop
      BY <1>5 DEF IInv, OthersTyped, ReleaseSlot, Slot
    <2>2. PICK q : q = ReleasedSlot(r, rec[d]) /\ rec' = [rec EXCEPT ![d] = q]
      BY <1>5, <2>1 DEF ReleaseSlot
    <2>3. q.state = rec[d].state
      BY <1>0, <2>2, SMT DEF ReleasedSlot, SoundRecord, Record
    <2> QED BY <1>1, <1>5, <2>2, <2>3 DEF ReleaseSlot
  <1> QED BY <1>3, <1>4, <1>5 DEF Submitting

LEMMA AcceptingAwait ==
  ASSUME IInv, \A w \in Waits : AwaitsPending(w), NEW d \in Drops, Accepting(d)
  PROVE  \A w \in Waits : AwaitsPending(w)'
  <1> DEFINE opened == rec[d].aeadFailures + 1
             decoded == rec[d].containerFailures + 1
             one == [rec[d] EXCEPT !.aeadFailures = opened, !.inFlight = None]
             other == [rec[d] EXCEPT !.containerFailures = decoded, !.inFlight = None]
  <1>0. rec \in [Drops -> SoundRecord] /\ wait \in [Waits -> WaitCall]
    BY DEF IInv, OthersTyped
  <1>1. ASSUME NEW q, rec' = [rec EXCEPT ![d] = q], q.state = rec[d].state,
               UNCHANGED wait
        PROVE  \A w \in Waits : AwaitsPending(w)'
    BY <1>0, <1>1, ReplacedPending, UnnotifiedAwait
  <1>2. ASSUME NEW q, rec' = [rec EXCEPT ![d] = q],
               Notify({d}, "unavailable") \/ Notify({d}, "submitted")
        PROVE  \A w \in Waits : AwaitsPending(w)'
    BY <1>0, <1>2, ReplacedPending, NotifiedAwait
  <1>3. CASE rec' = [rec EXCEPT ![d].inFlight = None] /\ UNCHANGED wait
    <2>1. PICK q : q = [rec[d] EXCEPT !.inFlight = None] /\ rec' = [rec EXCEPT ![d] = q]
      BY <1>3
    <2>2. q.state = rec[d].state
      BY <1>0, <2>1, SMT DEF SoundRecord, Record
    <2> QED BY <1>1, <1>3, <2>1, <2>2
  <1>4. CASE rec' = [rec EXCEPT ![d].inFlight.step = "decoding"] /\ UNCHANGED wait
    <2>1. PICK q, attempt : /\ q = [rec[d] EXCEPT !.inFlight = attempt]
                            /\ rec' = [rec EXCEPT ![d] = q]
      BY <1>4
    <2>2. q.state = rec[d].state
      BY <1>0, <2>1, SMT DEF SoundRecord, Record
    <2> QED BY <1>1, <1>4, <2>1, <2>2
  <1>5. ASSUME NEW n, NEW failed, CountFailure(d, n, failed), failed.state = rec[d].state
        PROVE  \A w \in Waits : AwaitsPending(w)'
    BY <1>1, <1>2, <1>5 DEF CountFailure
  <1>6. one.state = rec[d].state /\ other.state = rec[d].state
    <2> HIDE DEF opened, decoded
    <2> QED BY <1>0, SMT DEF SoundRecord, Record
  <1>7. CASE FinishAttempt(d)
    BY <1>2, <1>3, <1>7 DEF FinishAttempt
  <1>8. CASE CountFailure(d, opened, one) \/ CountFailure(d, decoded, other)
    <2> HIDE DEF opened, decoded, one, other
    <2> QED BY <1>5, <1>6, <1>8
  <1> QED BY <1>3, <1>4, <1>7, <1>8, Zenon DEF Accepting, OpenEnvelope, DecodeContainer

LEMMA WaitingAwait ==
  ASSUME IInv, \A w \in Waits : AwaitsPending(w), NEW v \in Waits, Waiting(v)
  PROVE  \A w \in Waits : AwaitsPending(w)'
  <1>0. rec \in [Drops -> SoundRecord] /\ wait \in [Waits -> WaitCall]
    BY DEF IInv, OthersTyped
  <1>1. ASSUME NEW d \in Drops, Wait(v, d), Expired(d)
        PROVE  \A w \in Waits : AwaitsPending(w)'
    <2>1. /\ rec' = [rec EXCEPT ![d] = Destroyed(@)]
          /\ wait' = [w \in Waits |->
               IF w = v THEN [status |-> "unavailable", drop |-> d]
               ELSE IF wait[w].status = "parked" /\ wait[w].drop = d
               THEN [wait[w] EXCEPT !.status = "unavailable"] ELSE wait[w]]
      BY <1>1 DEF Wait
    <2> TAKE w \in Waits
    <2> SUFFICES ASSUME wait'[w].status = "parked"
                 PROVE  wait'[w].drop \in Drops /\ rec'[wait'[w].drop].state = "pending"
      BY DEF AwaitsPending
    <2>2. wait'[w] = wait[w] /\ wait[w].drop # d
      BY <1>0, <2>1 DEF WaitCall
    <2> QED BY <1>0, <2>1, <2>2 DEF AwaitsPending
  <1>2. ASSUME NEW d \in Drops, Wait(v, d), ~Expired(d)
        PROVE  \A w \in Waits : AwaitsPending(w)'
    <2>1. rec' = rec
      BY <1>2 DEF Wait
    <2>2. \A w \in Waits \ {v} : wait'[w] = wait[w]
      BY <1>0, <1>2 DEF Wait
    <2>3. wait'[v].drop = d /\ (wait'[v].status = "parked" => rec[d].state = "pending")
      BY <1>0, <1>2 DEF Wait
    <2> QED BY <2>1, <2>2, <2>3 DEF AwaitsPending
  <1>3. CASE WaitTimeout(v)
    BY <1>0, <1>3 DEF WaitTimeout, AwaitsPending, WaitCall
  <1> QED BY <1>1, <1>2, <1>3 DEF Waiting

LEMMA NextAwait ==
  ASSUME IInv, \A w \in Waits : AwaitsPending(w), [Next]_vars
  PROVE  \A w \in Waits : AwaitsPending(w)'
  <1>0. rec \in [Drops -> SoundRecord] /\ wait \in [Waits -> WaitCall]
    BY DEF IInv, OthersTyped
  <1>1. ASSUME NEW d \in Drops, NEW q, rec' = [rec EXCEPT ![d] = q], UNCHANGED wait,
               rec[d].state # "pending" \/ q.state = "pending"
        PROVE  \A w \in Waits : AwaitsPending(w)'
    BY <1>0, <1>1, ReplacedPending, UnnotifiedAwait
  <1>2. ASSUME UNCHANGED <<rec, wait>>
        PROVE  \A w \in Waits : AwaitsPending(w)'
    BY <1>2 DEF AwaitsPending
  <1>3. ASSUME NEW d \in Drops, Minting(d)
        PROVE  \A w \in Waits : AwaitsPending(w)'
    <2>1. CASE CreateFinish(d) \/ CreateFail(d)
      BY <1>1, <2>1 DEF CreateFinish, CreateFail
    <2>2. ASSUME NEW kind \in Kinds, Create(d, kind)
          PROVE  \A w \in Waits : AwaitsPending(w)'
      BY <1>1, <2>2 DEF Create
    <2> QED BY <1>3, <2>1, <2>2 DEF Minting
  <1>4. ASSUME NEW d \in Drops, Retire(d)
        PROVE  \A w \in Waits : AwaitsPending(w)'
    BY <1>0, <1>4, ReplacedPending, NotifiedAwait DEF Retire
  <1>5. ASSUME NEW d \in Drops, GiveBack(d)
        PROVE  \A w \in Waits : AwaitsPending(w)'
    <2>1. PICK q : q = ClearLease(rec[d]) /\ rec' = [rec EXCEPT ![d] = q]
      BY <1>5 DEF GiveBack
    <2>2. rec[d].state = "pending" => q.state = "pending"
      BY <1>0, <2>1, SMT DEF ClearLease, SoundRecord, Record
    <2> QED BY <1>1, <1>5, <2>1, <2>2 DEF GiveBack
  <1>6. ASSUME NEW d \in Drops, Ending(d)
        PROVE  \A w \in Waits : AwaitsPending(w)'
    <2>1. CASE Age(d)
      <3>1. PICK q, age : q = [rec[d] EXCEPT !.age = age] /\ rec' = [rec EXCEPT ![d] = q]
        BY <2>1 DEF Age
      <3>2. q.state = rec[d].state
        BY <1>0, <3>1, AgedTame
      <3> QED BY <1>1, <2>1, <3>1, <3>2 DEF Age
    <2>2. CASE LookupExpired(d)
      BY <2>2, DestroyAwait DEF LookupExpired
    <2> QED BY <1>5, <1>6, <2>1, <2>2 DEF Ending, AbandonFileClaim, LeaseTimeout
  <1>7. ASSUME NEW c \in Claimants, GrantFileClaim(c)
        PROVE  \A w \in Waits : AwaitsPending(w)'
    <2>1. PICK d \in Drops : d = beginning[c]
      BY <1>7 DEF IInv, OthersTyped, GrantFileClaim
    <2>2. CASE StillLendable(d) /\ rec' = [rec EXCEPT ![d] = Lent(@, c)]
      BY <1>1, <1>7, <2>2 DEF StillLendable, GrantFileClaim
    <2> QED BY <1>2, <1>7, <2>1, <2>2 DEF GrantFileClaim
  <1>8. ASSUME NEW c \in Claimants, NEW d \in Drops, Transferring(c, d)
        PROVE  \A w \in Waits : AwaitsPending(w)'
    <2>1. CASE BeginFileClaim(c, d)
      BY <1>2, <2>1 DEF BeginFileClaim
    <2>2. ASSUME NEW id, NEW index, NEW matches, AckFileClaimFrame(c, d, id, index, matches)
          PROVE  \A w \in Waits : AwaitsPending(w)'
      BY <1>1, <1>5, <2>2 DEF AckFileClaimFrame, HoldsLease
    <2>3. ASSUME NEW id, NEW matches, CommitFileClaim(c, d, id, matches)
          PROVE  \A w \in Waits : AwaitsPending(w)'
      BY <1>4, <1>5, <2>3 DEF CommitFileClaim
    <2> QED BY <1>8, <2>1, <2>2, <2>3 DEF Transferring
  <1>9. CASE Sweep \/ DestroyAll
    BY <1>9, DestroyAwait DEF Sweep, DestroyAll
  <1>10. CASE UNCHANGED vars
    BY <1>2, <1>10 DEF vars
  <1>11. ASSUME NEW d \in Drops, Claim(d) PROVE \A w \in Waits : AwaitsPending(w)'
    BY <1>4, <1>11 DEF Claim
  <1> QED BY <1>3, <1>6, <1>7, <1>8, <1>9, <1>10, <1>11, SubmittingAwait, AcceptingAwait,
             WaitingAwait DEF Next

-----------------------------------------------------------------------------

LEMMA CInvInit == Init => CInv
  <1> SUFFICES ASSUME Init PROVE CInv
    OBVIOUS
  <1>1. ASSUME NEW d \in Drops PROVE Accounted(d)
    <2>1. rec[d] = Blank /\ delivered[d] = 0
      BY DEF Init
    <2>2. Laned(Blank) /\ Blank.reservedBytes = 0 /\ Blank.transfer = None
      BY DEF Laned, Blank
    <2> QED BY <2>1, <2>2 DEF Accounted, Owned, Proved, Whole
  <1>2. \A w \in Waits : AwaitsPending(w)
    BY DEF Init, AwaitsPending
  <1> QED BY <1>1, <1>2 DEF CInv

LEMMA CInvStep == IInv /\ CInv /\ [Next]_vars => CInv'
  <1> SUFFICES ASSUME IInv, CInv, [Next]_vars PROVE CInv'
    OBVIOUS
  <1>1. \A d \in Drops : Accounted(d)'
    BY NextAccounted DEF CInv
  <1>2. \A w \in Waits : AwaitsPending(w)'
    BY NextAwait DEF CInv
  <1> QED BY <1>1, <1>2 DEF CInv

\* What records and callers know of each other, through every order of uploads,
\* attempts, leases and waits: what a record holds has its owner among the callers, and
\* a caller that sleeps or proves frames still has the record it sleeps on or proves.
THEOREM CallersInvariant == Spec => []CInv
  BY Invariant, CInvInit, CInvStep, PTL DEF Spec

\* Every reservation has somebody left who will give it back.
THEOREM ReservationsOwned == Spec => []ReservationOwned
  <1>1. CInv => ReservationOwned
    BY DEF CInv, Accounted, Owned, ReservationOwned
  <1> QED BY <1>1, CallersInvariant, PTL

\* A file drop is retired only once one claimant proved every frame in one lease.
THEOREM DeliveriesWhole == Spec => []DeliveredWhole
  <1>1. CInv => DeliveredWhole
    BY DEF CInv, Accounted, Whole, DeliveredWhole
  <1> QED BY <1>1, CallersInvariant, PTL

\* No waiter is left parked on a drop that was submitted, collected or destroyed.
THEOREM WaitersWoken == Spec => []NoForgottenWait
  <1>1. CInv => NoForgottenWait
    BY DEF CInv, AwaitsPending, NoForgottenWait
  <1> QED BY <1>1, CallersInvariant, PTL

-----------------------------------------------------------------------------
(* A payload stays until it is delivered or its drop ends *)

KeepsPayload(d) ==
  rec[d].plaintext # None =>
    \/ rec'[d].plaintext = rec[d].plaintext
    \/ delivered'[d] = delivered[d] + 1
    \/ rec'[d].state = "destroyed"

LEMMA ReplacedKeeps ==
  ASSUME rec \in [Drops -> SoundRecord], NEW d, NEW q, rec' = [rec EXCEPT ![d] = q],
         \/ rec[d].state \notin {"submitted", "transferring"}
         \/ q.plaintext = rec[d].plaintext
         \/ q.state = "destroyed"
         \/ delivered'[d] = delivered[d] + 1
  PROVE  \A c \in Drops : KeepsPayload(c)
  <1> TAKE c \in Drops
  <1>1. CASE c # d
    BY <1>1 DEF KeepsPayload
  <1>2. CASE c = d
    <2>1. rec[d].plaintext # None => rec[d].state \in {"submitted", "transferring"}
      BY <1>2 DEF SoundRecord, Sound, LeaseInStep
    <2>2. rec'[d] = q
      BY <1>2
    <2> QED BY <1>2, <2>1, <2>2 DEF KeepsPayload
  <1> QED BY <1>1, <1>2

LEMMA DestroyKeeps ==
  ASSUME rec \in [Drops -> SoundRecord], NEW S, Destroy(S)
  PROVE  \A c \in Drops : KeepsPayload(c)
  <1> TAKE c \in Drops
  <1>1. rec'[c] = IF c \in S THEN Destroyed(rec[c]) ELSE rec[c]
    BY DEF Destroy
  <1>2. Destroyed(rec[c]).state = "destroyed"
    BY DestroyedTame DEF SoundRecord
  <1> QED BY <1>1, <1>2 DEF KeepsPayload

LEMMA UnchangedKeeps ==
  ASSUME UNCHANGED rec
  PROVE  \A c \in Drops : KeepsPayload(c)
  BY DEF KeepsPayload

LEMMA SubmittingKeeps ==
  ASSUME IInv, NEW r \in Requests, Submitting(r)
  PROVE  \A c \in Drops : KeepsPayload(c)
  <1>0. rec \in [Drops -> SoundRecord]
    BY DEF IInv
  <1>1. ASSUME NEW d \in Drops, NEW decl \in Declarations, AcquireSubmitSlot(r, d, decl)
        PROVE  \A c \in Drops : KeepsPayload(c)
    <2>1. CASE Destroy({d})
      BY <1>0, <2>1, DestroyKeeps
    <2>2. CASE GrantSlot(r, d)
      <3> DEFINE held == FileSubmitLease(d) = "taken"
                 q == [rec[d] EXCEPT !.bodySlotBusy = TRUE,
                                     !.submitLease = IF held THEN r ELSE @,
                                     !.reservedBytes = IF held THEN FileReservationBytes ELSE @]
      <3>1. rec' = [rec EXCEPT ![d] = q]
        BY <2>2 DEF GrantSlot
      <3>2. q.plaintext = rec[d].plaintext
        <4> HIDE DEF held
        <4> QED BY <1>0, SMT DEF SoundRecord, Record
      <3> HIDE DEF q
      <3> QED BY <1>0, <3>1, <3>2, ReplacedKeeps
    <2> QED BY <1>1, <2>1, <2>2, UnchangedKeeps DEF AcquireSubmitSlot
  <1>2. ASSUME NEW d \in Drops, NEW decl \in Declarations, NEW e \in Envelopes \cup {None},
               Submit(r, d, decl, e)
        PROVE  \A c \in Drops : KeepsPayload(c)
    <2>1. CASE Destroy({d})
      BY <1>0, <2>1, DestroyKeeps
    <2>2. CASE rec' = [rec EXCEPT ![d].inFlight = [env |-> e, step |-> "opening"]]
      <3>1. PICK q : /\ rec' = [rec EXCEPT ![d] = q]
                     /\ q = [rec[d] EXCEPT !.inFlight = [env |-> e, step |-> "opening"]]
        BY <2>2
      <3>2. q.plaintext = rec[d].plaintext
        BY <1>0, <3>1, SMT DEF SoundRecord, Record
      <3> QED BY <1>0, <3>1, <3>2, ReplacedKeeps
    <2> QED BY <1>2, <2>1, <2>2, UnchangedKeeps DEF Submit
  <1>3. CASE ReleaseSlot(r)
    <2>1. PICK d \in Drops : d = slot[r].drop
      BY <1>3 DEF IInv, OthersTyped, ReleaseSlot, Slot
    <2>2. PICK q : q = ReleasedSlot(r, rec[d]) /\ rec' = [rec EXCEPT ![d] = q]
      BY <1>3, <2>1 DEF ReleaseSlot
    <2>3. q.plaintext = rec[d].plaintext
      BY <1>0, <2>2, ReleasedTame
    <2> QED BY <1>0, <2>2, <2>3, ReplacedKeeps
  <1> QED BY <1>1, <1>2, <1>3 DEF Submitting

LEMMA AcceptingKeeps ==
  ASSUME IInv, NEW d \in Drops, Accepting(d)
  PROVE  \A c \in Drops : KeepsPayload(c)
  <1> DEFINE opened == rec[d].aeadFailures + 1
             decoded == rec[d].containerFailures + 1
             one == [rec[d] EXCEPT !.aeadFailures = opened, !.inFlight = None]
             other == [rec[d] EXCEPT !.containerFailures = decoded, !.inFlight = None]
  <1>0. rec \in [Drops -> SoundRecord] /\ rec[d].inFlight # None
    BY DEF IInv, Accepting, OpenEnvelope, DecodeContainer
  <1>1. rec[d].state \notin {"submitted", "transferring"}
    BY <1>0 DEF SoundRecord, Sound, FailuresLeft
  <1>2. \E q : rec' = [rec EXCEPT ![d] = q]
    <2>1. ASSUME NEW n, NEW failed, CountFailure(d, n, failed)
          PROVE  \E q : rec' = [rec EXCEPT ![d] = q]
      BY <2>1, Zenon DEF CountFailure
    <2>2. CASE FinishAttempt(d)
      BY <2>2, Zenon DEF FinishAttempt
    <2>3. CASE \/ rec' = [rec EXCEPT ![d].inFlight = None]
               \/ rec' = [rec EXCEPT ![d].inFlight.step = "decoding"]
      BY <2>3, Zenon
    <2>4. CASE CountFailure(d, opened, one) \/ CountFailure(d, decoded, other)
      <3> HIDE DEF opened, decoded, one, other
      <3> QED BY <2>1, <2>4
    <2> QED BY <2>2, <2>3, <2>4, Zenon DEF Accepting, OpenEnvelope, DecodeContainer
  <1> QED BY <1>0, <1>1, <1>2, ReplacedKeeps

LEMMA NextKeeps ==
  ASSUME IInv, [Next]_vars
  PROVE  \A c \in Drops : KeepsPayload(c)
  <1>0. rec \in [Drops -> SoundRecord] /\ delivered \in [Drops -> Nat]
    BY DEF IInv, OthersTyped
  <1>1. ASSUME NEW d \in Drops, Minting(d)
        PROVE  \A c \in Drops : KeepsPayload(c)
    BY <1>0, <1>1, ReplacedKeeps DEF Minting, Create, CreateFinish, CreateFail
  <1>2. ASSUME NEW d \in Drops, Retire(d), delivered' = [delivered EXCEPT ![d] = @ + 1]
        PROVE  \A c \in Drops : KeepsPayload(c)
    BY <1>0, <1>2, ReplacedKeeps DEF Retire
  <1>3. ASSUME NEW d \in Drops, GiveBack(d)
        PROVE  \A c \in Drops : KeepsPayload(c)
    <2>1. PICK q : q = ClearLease(rec[d]) /\ rec' = [rec EXCEPT ![d] = q]
      BY <1>3 DEF GiveBack
    <2> QED BY <1>0, <2>1, ClearLeaseTame, ReplacedKeeps
  <1>4. ASSUME NEW d \in Drops, Ending(d)
        PROVE  \A c \in Drops : KeepsPayload(c)
    <2>1. CASE Age(d)
      <3>1. PICK q, age : q = [rec[d] EXCEPT !.age = age] /\ rec' = [rec EXCEPT ![d] = q]
        BY <2>1 DEF Age
      <3> QED BY <1>0, <3>1, AgedTame, ReplacedKeeps
    <2>2. CASE LookupExpired(d)
      BY <1>0, <2>2, DestroyKeeps DEF LookupExpired
    <2> QED BY <1>3, <1>4, <2>1, <2>2 DEF Ending, AbandonFileClaim, LeaseTimeout
  <1>5. ASSUME NEW w \in Waits, Waiting(w)
        PROVE  \A c \in Drops : KeepsPayload(c)
    <2>1. ASSUME NEW d \in Drops, rec' = [rec EXCEPT ![d] = Destroyed(@)]
          PROVE  \A c \in Drops : KeepsPayload(c)
      <3>1. PICK q : q = Destroyed(rec[d]) /\ rec' = [rec EXCEPT ![d] = q]
        BY <2>1
      <3>2. q.state = "destroyed"
        BY <1>0, <3>1, DestroyedTame DEF SoundRecord
      <3> QED BY <1>0, <3>1, <3>2, ReplacedKeeps
    <2> QED BY <1>5, <2>1, UnchangedKeeps DEF Waiting, Wait, WaitTimeout
  <1>6. ASSUME NEW c \in Claimants, GrantFileClaim(c)
        PROVE  \A b \in Drops : KeepsPayload(b)
    <2>1. PICK d \in Drops : d = beginning[c]
      BY <1>6 DEF IInv, OthersTyped, GrantFileClaim
    <2>2. CASE rec' = [rec EXCEPT ![d] = Lent(@, c)]
      <3>1. PICK q : q = Lent(rec[d], c) /\ rec' = [rec EXCEPT ![d] = q]
        BY <2>2
      <3>2. q.plaintext = rec[d].plaintext
        BY <1>0, <3>1, SMT DEF Lent, SoundRecord, Record
      <3> QED BY <1>0, <3>1, <3>2, ReplacedKeeps
    <2> QED BY <1>6, <2>1, <2>2, UnchangedKeeps DEF GrantFileClaim
  <1>7. ASSUME NEW c \in Claimants, NEW d \in Drops, Transferring(c, d)
        PROVE  \A b \in Drops : KeepsPayload(b)
    <2>1. CASE BeginFileClaim(c, d)
      BY <2>1, UnchangedKeeps DEF BeginFileClaim
    <2>2. ASSUME NEW id, NEW index, NEW matches, AckFileClaimFrame(c, d, id, index, matches)
          PROVE  \A b \in Drops : KeepsPayload(b)
      <3>1. CASE rec' = [rec EXCEPT ![d].transfer.nextFrame = @ + 1]
        <4>1. PICK q, lease : /\ q = [rec[d] EXCEPT !.transfer = lease]
                              /\ rec' = [rec EXCEPT ![d] = q]
          BY <3>1
        <4>2. q.plaintext = rec[d].plaintext
          BY <1>0, <4>1, SMT DEF SoundRecord, Record
        <4> QED BY <1>0, <4>1, <4>2, ReplacedKeeps
      <3> QED BY <1>3, <2>2, <3>1 DEF AckFileClaimFrame
    <2>3. ASSUME NEW id, NEW matches, CommitFileClaim(c, d, id, matches)
          PROVE  \A b \in Drops : KeepsPayload(b)
      BY <1>2, <1>3, <2>3 DEF CommitFileClaim
    <2> QED BY <1>7, <2>1, <2>2, <2>3 DEF Transferring
  <1>8. ASSUME NEW d \in Drops, Claim(d) PROVE \A c \in Drops : KeepsPayload(c)
    BY <1>2, <1>8 DEF Claim
  <1>9. CASE Sweep \/ DestroyAll
    BY <1>0, <1>9, DestroyKeeps DEF Sweep, DestroyAll
  <1>10. CASE UNCHANGED vars
    BY <1>10, UnchangedKeeps DEF vars
  <1> QED BY <1>1, <1>4, <1>5, <1>6, <1>7, <1>8, <1>9, <1>10, SubmittingKeeps,
             AcceptingKeeps DEF Next

\* A failed, timed out, abandoned or refused transfer, and every upload that comes
\* late, leave a payload whole and its reservation with it.
THEOREM PayloadsKept == Spec => PayloadKept
  <1> DEFINE kept == \A d \in Drops : rec[d].plaintext # None =>
               \/ /\ rec'[d].plaintext = rec[d].plaintext
                  /\ rec[d].payloadKind = "files" =>
                       rec'[d].reservedBytes = rec[d].reservedBytes
               \/ delivered'[d] = delivered[d] + 1
               \/ rec'[d].state = "destroyed"
  <1>1. IInv /\ [Next]_vars => [kept]_vars
    <2> SUFFICES ASSUME IInv, [Next]_vars, NEW d \in Drops, rec[d].plaintext # None,
                        rec'[d].plaintext = rec[d].plaintext,
                        rec[d].payloadKind = "files"
                 PROVE  rec'[d].reservedBytes = rec[d].reservedBytes
      BY NextKeeps DEF KeepsPayload
    <2>1. rec[d] \in SoundRecord /\ Follows(rec[d], rec'[d])
      BY NextRecordStep, RecordsFollow DEF IInv
    <2>2. rec[d].state \notin Early
      BY <2>1 DEF SoundRecord, Sound, LeaseInStep, Early
    <2>3. rec'[d] \in SoundRecord /\ rec'[d].payloadKind = "files"
      BY <2>1, <2>2 DEF Follows
    <2> QED BY <2>1, <2>3 DEF SoundRecord, Sound, PayloadPaid
  <1>2. Spec => [][kept]_vars
    <2> HIDE DEF kept
    <2> QED BY <1>1, Invariant, PTL DEF Spec
  <1> QED BY <1>2 DEF PayloadKept
=============================================================================
