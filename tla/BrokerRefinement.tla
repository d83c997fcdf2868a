-------------------------- MODULE BrokerRefinement --------------------------
(***************************************************************************)
(* The broker implements the one-shot drop, for every value of its         *)
(* constants: its initial state is one, and each of its steps is a step of *)
(* OneShot under the mapping of Broker, or changes nothing OneShot sees.   *)
(***************************************************************************)
EXTENDS BrokerProofs

stageOf == [d \in Drops |-> Stage(rec[d].state)]
contentOf == [d \in Drops |-> rec[d].envelopeKey]

\* A step of the mapped variables.
PromiseStep == Promise!Next \/ UNCHANGED <<stageOf, contentOf, delivered>>

\* Nothing OneShot sees of the record changes.
Stays(r, q) == Stage(q.state) = Stage(r.state) /\ q.envelopeKey = r.envelopeKey

-----------------------------------------------------------------------------
(* How a replaced record looks to OneShot *)

LEMMA ReplacedDrop ==
  ASSUME rec \in [Drops -> SoundRecord], NEW d \in Drops, NEW q,
         rec' = [rec EXCEPT ![d] = q]
  PROVE  /\ stageOf' = [stageOf EXCEPT ![d] = Stage(q.state)]
         /\ contentOf' = [contentOf EXCEPT ![d] = q.envelopeKey]
  <1>1. \A c \in Drops : rec'[c] = IF c = d THEN q ELSE rec[c]
    OBVIOUS
  <1> QED BY <1>1 DEF stageOf, contentOf

LEMMA StaysStep ==
  ASSUME rec \in [Drops -> SoundRecord], NEW d \in Drops, NEW q,
         rec' = [rec EXCEPT ![d] = q], Stays(rec[d], q), UNCHANGED delivered
  PROVE  PromiseStep
  <1>1. /\ stageOf' = [stageOf EXCEPT ![d] = stageOf[d]]
        /\ contentOf' = [contentOf EXCEPT ![d] = contentOf[d]]
    BY ReplacedDrop DEF Stays, stageOf, contentOf
  <1>2. stageOf' = stageOf /\ contentOf' = contentOf
    BY <1>1 DEF stageOf, contentOf
  <1> QED BY <1>2 DEF PromiseStep

LEMMA OpenStep ==
  ASSUME rec \in [Drops -> SoundRecord], NEW d \in Drops, NEW q,
         rec' = [rec EXCEPT ![d] = q], q.envelopeKey = rec[d].envelopeKey,
         Stage(rec[d].state) = "none", Stage(q.state) = "open", UNCHANGED delivered
  PROVE  PromiseStep
  <1>1. /\ stageOf' = [stageOf EXCEPT ![d] = "open"] /\ stageOf[d] = "none"
        /\ contentOf' = contentOf
    BY ReplacedDrop DEF stageOf, contentOf
  <1>2. Promise!Open(d)
    BY <1>1 DEF Promise!Open, stageOf, contentOf
  <1> QED BY <1>2 DEF PromiseStep, Promise!Next

LEMMA LendStep ==
  ASSUME rec \in [Drops -> SoundRecord], NEW d \in Drops, NEW q,
         rec' = [rec EXCEPT ![d] = q], q.envelopeKey = rec[d].envelopeKey,
         Stage(rec[d].state) = "held", Stage(q.state) = "lent", UNCHANGED delivered
  PROVE  PromiseStep
  <1>1. /\ stageOf' = [stageOf EXCEPT ![d] = "lent"] /\ stageOf[d] = "held"
        /\ contentOf' = contentOf
    BY ReplacedDrop DEF stageOf, contentOf
  <1>2. Promise!Lend(d)
    BY <1>1 DEF Promise!Lend, stageOf, contentOf
  <1> QED BY <1>2 DEF PromiseStep, Promise!Next

LEMMA ReturnStep ==
  ASSUME rec \in [Drops -> SoundRecord], NEW d \in Drops, NEW q,
         rec' = [rec EXCEPT ![d] = q], q.envelopeKey = rec[d].envelopeKey,
         Stage(rec[d].state) = "lent", Stage(q.state) = "held", UNCHANGED delivered
  PROVE  PromiseStep
  <1>1. /\ stageOf' = [stageOf EXCEPT ![d] = "held"] /\ stageOf[d] = "lent"
        /\ contentOf' = contentOf
    BY ReplacedDrop DEF stageOf, contentOf
  <1>2. Promise!GiveBack(d)
    BY <1>1 DEF Promise!GiveBack, stageOf, contentOf
  <1> QED BY <1>2 DEF PromiseStep, Promise!Next

LEMMA DepositStep ==
  ASSUME rec \in [Drops -> SoundRecord], NEW d \in Drops, NEW q, NEW e \in Envelopes,
         rec' = [rec EXCEPT ![d] = q], q.envelopeKey = e,
         Stage(rec[d].state) = "open", Stage(q.state) = "held", UNCHANGED delivered
  PROVE  PromiseStep
  <1>1. /\ stageOf' = [stageOf EXCEPT ![d] = "held"] /\ stageOf[d] = "open"
        /\ contentOf' = [contentOf EXCEPT ![d] = e]
    BY ReplacedDrop DEF stageOf, contentOf
  <1>2. Promise!Deposit(d, e)
    BY <1>1 DEF Promise!Deposit, stageOf, contentOf
  <1> QED BY <1>2 DEF PromiseStep, Promise!Next

LEMMA HandOverStep ==
  ASSUME rec \in [Drops -> SoundRecord], NEW d \in Drops, NEW q,
         rec' = [rec EXCEPT ![d] = q], q.envelopeKey = rec[d].envelopeKey,
         Stage(rec[d].state) \in {"held", "lent"}, Stage(q.state) = "spent",
         delivered' = [delivered EXCEPT ![d] = @ + 1]
  PROVE  PromiseStep
  <1>1. /\ stageOf' = [stageOf EXCEPT ![d] = "spent"] /\ stageOf[d] \in {"held", "lent"}
        /\ contentOf' = contentOf
    BY ReplacedDrop DEF stageOf, contentOf
  <1>2. Promise!HandOver(d)
    BY <1>1 DEF Promise!HandOver, stageOf, contentOf
  <1> QED BY <1>2 DEF PromiseStep, Promise!Next

\* Destroying minted drops ends them, all at once.
LEMMA EndStep ==
  ASSUME rec \in [Drops -> SoundRecord], NEW S \in SUBSET Drops,
         \A d \in S : Stage(rec[d].state) \notin {"none", "over"},
         NEW q, \A d \in S : q[d].state = "destroyed" /\ q[d].envelopeKey = rec[d].envelopeKey,
         rec' = [d \in Drops |-> IF d \in S THEN q[d] ELSE rec[d]], UNCHANGED delivered
  PROVE  PromiseStep
  <1>1. /\ stageOf' = [d \in Drops |-> IF d \in S THEN "over" ELSE stageOf[d]]
        /\ contentOf' = contentOf
        /\ \A d \in S : stageOf[d] \notin {"none", "over"}
    <2>1. \A d \in Drops : rec'[d] = IF d \in S THEN q[d] ELSE rec[d]
      OBVIOUS
    <2>2. \A d \in Drops : /\ Stage(rec'[d].state) = IF d \in S THEN "over"
                                                     ELSE Stage(rec[d].state)
                           /\ rec'[d].envelopeKey = rec[d].envelopeKey
      <3>1. Stage("destroyed") = "over"
        BY DEF Stage
      <3> QED BY <2>1, <3>1, Zenon
    <2> QED BY <2>2 DEF stageOf, contentOf
  <1>2. Promise!End(S)
    BY <1>1 DEF Promise!End, stageOf, contentOf
  <1> QED BY <1>2 DEF PromiseStep, Promise!Next

LEMMA DestroyedKeeps ==
  ASSUME NEW r \in Record
  PROVE  Destroyed(r).state = "destroyed" /\ Destroyed(r).envelopeKey = r.envelopeKey
  BY SMT DEF Destroyed, ClearLease, Record

LEMMA DestroyEnds ==
  ASSUME rec \in [Drops -> SoundRecord], NEW S \in SUBSET Drops,
         \A d \in S : Known(d), Destroy(S), UNCHANGED delivered
  PROVE  PromiseStep
  <1> DEFINE q == [d \in Drops |-> Destroyed(rec[d])]
  <1>1. \A d \in S : q[d].state = "destroyed" /\ q[d].envelopeKey = rec[d].envelopeKey
    BY DestroyedKeeps DEF SoundRecord
  <1>2. rec' = [d \in Drops |-> IF d \in S THEN q[d] ELSE rec[d]]
    BY DEF Destroy
  <1>3. \A d \in S : Stage(rec[d].state) \notin {"none", "over"}
    BY DEF Known, Stage
  <1> HIDE DEF q
  <1> QED BY <1>1, <1>2, <1>3, EndStep

LEMMA DestroyedEnds ==
  ASSUME rec \in [Drops -> SoundRecord], NEW d \in Drops, NEW q,
         q.state = "destroyed", q.envelopeKey = rec[d].envelopeKey,
         rec[d].state \notin {"unminted", "minting"},
         rec' = [rec EXCEPT ![d] = q], UNCHANGED delivered
  PROVE  PromiseStep
  <1>1. CASE rec[d].state = "destroyed"
    BY <1>1, StaysStep DEF Stays
  <1>2. CASE rec[d].state # "destroyed"
    <2> DEFINE p == [c \in Drops |-> q]
    <2>1. rec' = [c \in Drops |-> IF c \in {d} THEN p[c] ELSE rec[c]]
      OBVIOUS
    <2>2. Stage(rec[d].state) \notin {"none", "over"}
      BY <1>2 DEF Stage, SoundRecord, Record, States
    <2>3. \A c \in {d} : p[c].state = "destroyed" /\ p[c].envelopeKey = rec[c].envelopeKey
      OBVIOUS
    <2> HIDE DEF p
    <2> QED BY <2>1, <2>2, <2>3, EndStep
  <1> QED BY <1>1, <1>2

-----------------------------------------------------------------------------
(* The actions *)

LEMMA MintingRefines ==
  ASSUME rec \in [Drops -> SoundRecord], NEW d \in Drops, Minting(d)
  PROVE  PromiseStep
  <1>0. rec[d].state \in {"unminted", "minting"} => rec[d].envelopeKey = None
    BY DEF SoundRecord, Sound, EndsHoldNothing
  <1>1. UNCHANGED delivered
    BY DEF Minting, Create, CreateFinish, CreateFail
  <1>2. ASSUME NEW kind \in Kinds, Create(d, kind) PROVE PromiseStep
    <2> DEFINE held == IF kind = "files" THEN FileReservationBytes ELSE 0
               q == [Blank EXCEPT !.state = "minting", !.mintedKind = kind,
                                  !.payloadKind = kind, !.reservedBytes = held]
    <2>1. rec' = [rec EXCEPT ![d] = q] /\ rec[d].state = "unminted"
      BY <1>2 DEF Create
    <2>2. q.state = "minting" /\ q.envelopeKey = None
      BY DEF Blank
    <2> HIDE DEF q
    <2> QED BY <1>0, <1>1, <2>1, <2>2, StaysStep DEF Stays, Stage
  <1>3. CASE CreateFinish(d)
    <2> DEFINE q == [rec[d] EXCEPT !.state = "pending"]
    <2>1. rec' = [rec EXCEPT ![d] = q] /\ rec[d].state = "minting"
      BY <1>3 DEF CreateFinish
    <2>2. q.state = "pending" /\ q.envelopeKey = rec[d].envelopeKey
      BY DEF SoundRecord, Record
    <2>3. Stage(rec[d].state) = "none" /\ Stage(q.state) = "open"
      BY <2>1, <2>2 DEF Stage
    <2> HIDE DEF q
    <2> QED BY <1>1, <2>1, <2>2, <2>3, OpenStep
  <1>4. CASE CreateFail(d)
    <2>1. rec' = [rec EXCEPT ![d] = Blank] /\ rec[d].state = "minting"
      BY <1>4 DEF CreateFail
    <2>2. Blank.state = "unminted" /\ Blank.envelopeKey = None
      BY DEF Blank
    <2> QED BY <1>0, <1>1, <2>1, <2>2, StaysStep DEF Stays, Stage
  <1> QED BY <1>2, <1>3, <1>4 DEF Minting

LEMMA SubmittingRefines ==
  ASSUME rec \in [Drops -> SoundRecord], OthersTyped, NEW r \in Requests, Submitting(r)
  PROVE  PromiseStep
  <1>1. UNCHANGED delivered
    BY DEF Submitting, AcquireSubmitSlot, Submit, ReleaseSlot
  <1>2. ASSUME NEW d \in Drops, Expired(d), Destroy({d}) PROVE PromiseStep
    BY <1>1, <1>2, DestroyEnds DEF Expired
  <1>3. ASSUME rec' = rec PROVE PromiseStep
    BY <1>1, <1>3 DEF PromiseStep, stageOf, contentOf
  <1>4. ASSUME NEW d \in Drops, GrantSlot(r, d) PROVE PromiseStep
    <2> DEFINE held == FileSubmitLease(d) = "taken"
               q == [rec[d] EXCEPT !.bodySlotBusy = TRUE,
                       !.submitLease = IF held THEN r ELSE @,
                       !.reservedBytes = IF held THEN FileReservationBytes ELSE @]
    <2>1. rec' = [rec EXCEPT ![d] = q]
      BY <1>4 DEF GrantSlot
    <2>2. Stays(rec[d], q)
      BY DEF Stays, SoundRecord, Record
    <2> HIDE DEF q
    <2> QED BY <1>1, <2>1, <2>2, StaysStep
  <1>5. ASSUME NEW d \in Drops, NEW decl \in Declarations, AcquireSubmitSlot(r, d, decl)
        PROVE  PromiseStep
    BY <1>2, <1>3, <1>4, <1>5 DEF AcquireSubmitSlot
  <1>6. ASSUME NEW d \in Drops, NEW decl \in Declarations, NEW e \in Envelopes \cup {None},
               Submit(r, d, decl, e)
        PROVE  PromiseStep
    <2>1. CASE Expired(d) /\ Destroy({d})
      BY <1>2, <2>1
    <2>2. CASE rec' = [rec EXCEPT ![d].inFlight = [env |-> e, step |-> "opening"]]
      <3> DEFINE q == [rec[d] EXCEPT !.inFlight = [env |-> e, step |-> "opening"]]
      <3>1. rec' = [rec EXCEPT ![d] = q]
        BY <2>2
      <3>2. Stays(rec[d], q)
        BY DEF Stays, SoundRecord, Record
      <3> HIDE DEF q
      <3> QED BY <1>1, <3>1, <3>2, StaysStep
    <2> QED BY <1>3, <1>6, <2>1, <2>2 DEF Submit
  <1>7. CASE ReleaseSlot(r)
    <2> DEFINE d == slot[r].drop
               q == ReleasedSlot(r, rec[d])
    <2>1. d \in Drops
      BY <1>7 DEF ReleaseSlot, OthersTyped, Slot
    <2>2. rec' = [rec EXCEPT ![d] = q]
      BY <1>7 DEF ReleaseSlot
    <2>3. Stays(rec[d], q)
      BY <2>1 DEF Stays, SoundRecord, Record, ReleasedSlot
    <2> HIDE DEF d, q
    <2> QED BY <1>1, <2>1, <2>2, <2>3, StaysStep
  <1> QED BY <1>5, <1>6, <1>7 DEF Submitting

LEMMA AcceptingRefines ==
  ASSUME rec \in [Drops -> SoundRecord], NEW d \in Drops, Accepting(d)
  PROVE  PromiseStep
  <1>1. /\ UNCHANGED delivered /\ rec[d].inFlight # None
        /\ rec[d].state \in {"pending", "destroyed"}
    BY DEF Accepting, OpenEnvelope, DecodeContainer, SoundRecord, Sound, FailuresLeft
  <1>2. ASSUME NEW v, rec' = [rec EXCEPT ![d] = [rec[d] EXCEPT !.inFlight = v]]
        PROVE  PromiseStep
    <2> DEFINE q == [rec[d] EXCEPT !.inFlight = v]
    <2>1. rec' = [rec EXCEPT ![d] = q]
      BY <1>2
    <2>2. Stays(rec[d], q)
      BY DEF Stays, SoundRecord, Record
    <2> HIDE DEF q
    <2> QED BY <1>1, <2>1, <2>2, StaysStep
  <1> DEFINE opened == [rec[d] EXCEPT !.aeadFailures = rec[d].aeadFailures + 1,
                                      !.inFlight = None]
             decoded == [rec[d] EXCEPT !.containerFailures = rec[d].containerFailures + 1,
                                       !.inFlight = None]
  <1>3. ASSUME NEW failed, failed = opened \/ failed = decoded
        PROVE  failed \in Record /\ Stays(rec[d], failed)
    BY <1>1, <1>3, FailedFollows, Zenon DEF Stays
  <1>4. ASSUME NEW count, NEW failed, CountFailure(d, count, failed),
               failed = opened \/ failed = decoded
        PROVE  PromiseStep
    <2>1. failed \in Record /\ Stays(rec[d], failed)
      BY <1>3, <1>4
    <2> HIDE DEF opened, decoded
    <2>2. CASE rec' = [rec EXCEPT ![d] = failed]
      BY <1>1, <2>1, <2>2, StaysStep
    <2>3. CASE rec' = [rec EXCEPT ![d] = Destroyed(failed)]
      <3>1. /\ Destroyed(failed).state = "destroyed"
            /\ Destroyed(failed).envelopeKey = rec[d].envelopeKey
        BY <2>1, DestroyedKeeps DEF Stays
      <3> QED BY <1>1, <2>3, <3>1, DestroyedEnds
    <2> QED BY <1>4, <2>2, <2>3 DEF CountFailure
  <1>5. ASSUME FinishAttempt(d) PROVE PromiseStep
    <2> DEFINE e == rec[d].inFlight.env
    <2>1. CASE rec' = [rec EXCEPT ![d].inFlight = None]
      BY <1>2, <2>1
    <2>2. ASSUME NEW bytes, NEW lease, rec[d].state = "pending",
                 rec' = [rec EXCEPT ![d] = Submitted(rec[d], e, bytes, lease)]
          PROVE  PromiseStep
      <3> DEFINE q == Submitted(rec[d], e, bytes, lease)
      <3>1. e \in Envelopes
        BY <1>1 DEF SoundRecord, Record, Attempt
      <3>2. q.state = "submitted" /\ q.envelopeKey = e
        BY DEF Submitted, SoundRecord, Record
      <3>3. Stage(rec[d].state) = "open" /\ Stage(q.state) = "held"
        BY <2>2, <3>2 DEF Stage
      <3> HIDE DEF q, e
      <3> QED BY <1>1, <2>2, <3>1, <3>2, <3>3, DepositStep DEF q
    <2> HIDE DEF e
    <2>3. QED
      <3>1. CASE Lane[e] = "files"
        BY <1>5, <2>1, <2>2, <3>1 DEF FinishAttempt, e
      <3>2. CASE Lane[e] # "files"
        BY <1>5, <2>1, <2>2, <3>2 DEF FinishAttempt, e
      <3> QED BY <3>1, <3>2
  <1>6. CASE OpenEnvelope(d)
    <2>1. CASE rec' = [rec EXCEPT ![d].inFlight = None]
      BY <1>2, <2>1
    <2>2. CASE rec' = [rec EXCEPT ![d].inFlight.step = "decoding"]
      BY <1>2, <2>2
    <2>3. CASE CountFailure(d, rec[d].aeadFailures + 1, opened)
      BY <1>4, <2>3
    <2> QED BY <1>5, <1>6, <2>1, <2>2, <2>3, Zenon DEF OpenEnvelope
  <1>7. CASE DecodeContainer(d)
    <2>1. CASE CountFailure(d, rec[d].containerFailures + 1, decoded)
      BY <1>4, <2>1
    <2> QED BY <1>5, <1>7, <2>1, Zenon DEF DecodeContainer
  <1> QED BY <1>6, <1>7 DEF Accepting

LEMMA WaitingRefines ==
  ASSUME rec \in [Drops -> SoundRecord], NEW w \in Waits, Waiting(w)
  PROVE  PromiseStep
  <1>1. UNCHANGED delivered
    BY DEF Waiting, Wait, WaitTimeout
  <1>2. ASSUME NEW d \in Drops, Expired(d), rec' = [rec EXCEPT ![d] = Destroyed(@)]
        PROVE  PromiseStep
    <2> DEFINE q == Destroyed(rec[d])
    <2>1. rec' = [rec EXCEPT ![d] = q]
      BY <1>2
    <2>2. q.state = "destroyed" /\ q.envelopeKey = rec[d].envelopeKey
      BY DestroyedKeeps DEF SoundRecord
    <2>3. rec[d].state \notin {"unminted", "minting"}
      BY <1>2 DEF Expired, Known
    <2> HIDE DEF q
    <2> QED BY <1>1, <2>1, <2>2, <2>3, DestroyedEnds
  <1>3. CASE rec' = rec
    BY <1>1, <1>3 DEF PromiseStep, stageOf, contentOf
  <1> QED BY <1>2, <1>3 DEF Waiting, Wait, WaitTimeout

\* Retiring a payload, by either way of collecting it, hands it over.
LEMMA RetireRefines ==
  ASSUME rec \in [Drops -> SoundRecord], NEW d \in Drops,
         rec[d].state \in {"submitted", "transferring"}, Retire(d),
         delivered' = [delivered EXCEPT ![d] = @ + 1]
  PROVE  PromiseStep
  <1> DEFINE q == Retired(ClearLease(rec[d]))
  <1>1. rec' = [rec EXCEPT ![d] = q]
    BY DEF Retire
  <1>2. q.state = "claimed" /\ q.envelopeKey = rec[d].envelopeKey
    BY DEF Retired, ClearLease, SoundRecord, Record
  <1>3. Stage(rec[d].state) \in {"held", "lent"} /\ Stage(q.state) = "spent"
    BY <1>2 DEF Stage
  <1> HIDE DEF q
  <1> QED BY <1>1, <1>2, <1>3, HandOverStep

LEMMA GiveBackRefines ==
  ASSUME rec \in [Drops -> SoundRecord], NEW d \in Drops, rec[d].transfer # None,
         GiveBack(d)
  PROVE  PromiseStep
  <1> DEFINE q == ClearLease(rec[d])
  <1>1. rec' = [rec EXCEPT ![d] = q] /\ UNCHANGED delivered
    BY DEF GiveBack
  <1>2. rec[d].state = "transferring"
    BY DEF SoundRecord, Sound, LeaseInStep
  <1>3. q.state = "submitted" /\ q.envelopeKey = rec[d].envelopeKey
    BY <1>2 DEF ClearLease, SoundRecord, Record
  <1>4. Stage(rec[d].state) = "lent" /\ Stage(q.state) = "held"
    BY <1>2, <1>3 DEF Stage
  <1> HIDE DEF q
  <1> QED BY <1>1, <1>3, <1>4, ReturnStep

LEMMA GrantRefines ==
  ASSUME rec \in [Drops -> SoundRecord], OthersTyped, NEW c \in Claimants, GrantFileClaim(c)
  PROVE  PromiseStep
  <1>1. PICK d \in Drops : d = beginning[c]
    BY DEF GrantFileClaim, OthersTyped
  <1>2. UNCHANGED delivered
    BY DEF GrantFileClaim
  <1>3. CASE StillLendable(d) /\ rec' = [rec EXCEPT ![d] = Lent(@, c)]
    <2> DEFINE q == Lent(rec[d], c)
    <2>1. rec' = [rec EXCEPT ![d] = q] /\ rec[d].state = "submitted"
      BY <1>3 DEF StillLendable
    <2>2. q.state = "transferring" /\ q.envelopeKey = rec[d].envelopeKey
      BY DEF Lent, SoundRecord, Record
    <2>3. Stage(rec[d].state) = "held" /\ Stage(q.state) = "lent"
      BY <2>1, <2>2 DEF Stage
    <2> HIDE DEF q
    <2> QED BY <1>2, <2>1, <2>2, <2>3, LendStep
  <1>4. CASE rec' = rec
    BY <1>2, <1>4 DEF PromiseStep, stageOf, contentOf
  <1> QED BY <1>1, <1>3, <1>4 DEF GrantFileClaim

LEMMA TransferringRefines ==
  ASSUME rec \in [Drops -> SoundRecord], NEW c \in Claimants, NEW d \in Drops,
         Transferring(c, d)
  PROVE  PromiseStep
  <1>1. CASE BeginFileClaim(c, d)
    BY <1>1 DEF BeginFileClaim, PromiseStep, stageOf, contentOf
  <1>2. ASSUME NEW id, NEW index, NEW matches, AckFileClaimFrame(c, d, id, index, matches)
        PROVE  PromiseStep
    <2>1. CASE GiveBack(d)
      BY <1>2, <2>1, GiveBackRefines DEF AckFileClaimFrame, HoldsLease
    <2>2. CASE rec' = [rec EXCEPT ![d].transfer.nextFrame = @ + 1] /\ UNCHANGED delivered
      <3> DEFINE lease == [rec[d].transfer EXCEPT !.nextFrame = @ + 1]
                 q == [rec[d] EXCEPT !.transfer = lease]
      <3>1. rec' = [rec EXCEPT ![d] = q]
        BY <2>2
      <3>2. Stays(rec[d], q)
        BY DEF Stays, SoundRecord, Record
      <3> HIDE DEF q
      <3> QED BY <2>2, <3>1, <3>2, StaysStep
    <2> QED BY <1>2, <2>1, <2>2 DEF AckFileClaimFrame
  <1>3. ASSUME NEW id, NEW matches, CommitFileClaim(c, d, id, matches)
        PROVE  PromiseStep
    BY <1>3, GiveBackRefines, RetireRefines DEF CommitFileClaim, HoldsLease
  <1> QED BY <1>1, <1>2, <1>3 DEF Transferring

LEMMA EndingRefines ==
  ASSUME rec \in [Drops -> SoundRecord], NEW d \in Drops, Ending(d)
  PROVE  PromiseStep
  <1>1. CASE rec[d].transfer # None /\ GiveBack(d)
    BY <1>1, GiveBackRefines
  <1>2. CASE Age(d)
    <2> DEFINE age == IF rec[d].age = "fresh" THEN "closing" ELSE "expired"
               q == [rec[d] EXCEPT !.age = age]
    <2>1. rec' = [rec EXCEPT ![d] = q] /\ UNCHANGED delivered
      BY <1>2 DEF Age
    <2>2. Stays(rec[d], q)
      BY DEF Stays, SoundRecord, Record
    <2> HIDE DEF q
    <2> QED BY <2>1, <2>2, StaysStep
  <1>3. CASE LookupExpired(d)
    BY <1>3, DestroyEnds DEF LookupExpired, Expired
  <1> QED BY <1>1, <1>2, <1>3 DEF Ending, AbandonFileClaim, LeaseTimeout

LEMMA NextRefines ==
  ASSUME IInv, [Next]_vars
  PROVE  PromiseStep
  <1>1. rec \in [Drops -> SoundRecord] /\ OthersTyped
    BY DEF IInv
  <1>2. ASSUME NEW d \in Drops, Claim(d) PROVE PromiseStep
    BY <1>1, <1>2, RetireRefines DEF Claim
  <1>3. ASSUME NEW S \in SUBSET Drops, \A d \in S : Known(d), Destroy(S), UNCHANGED delivered
        PROVE  PromiseStep
    BY <1>1, <1>3, DestroyEnds
  <1>4. CASE Sweep
    BY <1>3, <1>4 DEF Sweep, Expired
  <1>5. CASE DestroyAll
    BY <1>3, <1>5 DEF DestroyAll
  <1>6. CASE UNCHANGED vars
    BY <1>6 DEF vars, PromiseStep, stageOf, contentOf
  <1> QED BY <1>1, <1>2, <1>4, <1>5, <1>6, MintingRefines, SubmittingRefines,
             AcceptingRefines, WaitingRefines, GrantRefines, TransferringRefines,
             EndingRefines DEF Next

-----------------------------------------------------------------------------
\* Every behaviour of the broker is one of a one-shot drop: each drop takes in one
\* winner at most, hands it over once at most, takes a lent payload back only from
\* a lease, and its end is final.
THEOREM Refinement == Spec => ImplementsOneShot
  <1>1. Init => Promise!Init
    <2> SUFFICES ASSUME Init PROVE Promise!Init
      OBVIOUS
    <2>1. \A d \in Drops : rec[d].state = "unminted" /\ rec[d].envelopeKey = None
      BY DEF Init, Blank
    <2> QED BY <2>1 DEF Init, Promise!Init, Stage
  <1>2. IInv /\ [Next]_vars => [Promise!Next]_(Promise!vars)
    BY NextRefines DEF PromiseStep, Promise!vars, stageOf, contentOf
  <1> QED BY <1>1, <1>2, Invariant, PTL DEF Spec, ImplementsOneShot, Promise!Spec
=============================================================================
