---------------------------- MODULE ServerProofs ----------------------------
(***************************************************************************)
(* What holds of POST /api/submit for every number of requests and drops.  *)
(*                                                                         *)
(* Every step of the server is a step of the broker or leaves it alone, so *)
(* the broker's theorems come with it.  What is left is that the answers   *)
(* and the slots of the handlers follow the records: an awaiting call is   *)
(* joined to the attempt in flight (Promised), and a handler that is over  *)
(* has nothing of the broker's left (InHandler, BusyHeld).                 *)
(***************************************************************************)
EXTENDS PublicServer, BrokerRefinement

\* The drop took this envelope, and will never take another.
Receipt(d, e) ==
  /\ d \in Drops /\ e \in Envelopes
  /\ rec[d].state \notin Early
  /\ rec[d].envelopeKey = e

Promised(r) ==
  /\ call[r].status = "awaiting" =>
       /\ call[r].drop \in Drops
       /\ rec[call[r].drop].inFlight # None
       /\ rec[call[r].drop].inFlight.env = call[r].env
  /\ call[r].status = "received" => Receipt(call[r].drop, call[r].env)

InHandler(r) ==
  /\ pc[r] # "idle" => req[r] \in HttpRequest
  /\ pc[r] = "idle" => answer[r] = None
  /\ slot[r] # None => pc[r] \in {"reading", "submitting"} /\ slot[r].drop = req[r].drop
  /\ pc[r] = "submitting" => /\ call[r].drop = req[r].drop
                             /\ call[r].env \in {req[r].env, None}
  /\ answer[r] = "received" => Receipt(req[r].drop, req[r].env)

BusyHeld(d) ==
  rec[d].bodySlotBusy => \E r \in Requests : slot[r] # None /\ slot[r].drop = d

ServerTyped ==
  /\ pc \in [Requests -> {"idle", "reading", "submitting", "done"}]
  /\ req \in [Requests -> HttpRequest \cup {None}]
  /\ answer \in [Requests -> {"received", "unavailable", None}]

ServerInv ==
  /\ ServerTyped
  /\ \A r \in Requests : Promised(r) /\ InHandler(r)
  /\ \A d \in Drops : BusyHeld(d)

-----------------------------------------------------------------------------
(* The server's steps are the broker's *)

LEMMA StepIsBroker ==
  ASSUME \A r \in Requests : InHandler(r), [ServerNext]_allVars
  PROVE  [Next]_vars
  <1>1. ASSUME NEW r \in Requests, NEW h \in HttpRequest, Arrive(r, h)
        PROVE  Next
    <2>1. h.drop \in Drops /\ h.decl \in Declarations
      BY DEF HttpRequest
    <2>2. Submitting(r)
      BY <1>1, <2>1 DEF Arrive, Submitting
    <2> QED BY <2>2 DEF Next
  <1>2. ASSUME NEW r \in Requests, BodyRead(r) \/ BodyLost(r)
        PROVE  Next
    <2>1. req[r].drop \in Drops /\ req[r].decl \in Declarations /\ req[r].env \in Envelopes
      BY <1>2 DEF BodyRead, BodyLost, InHandler, HttpRequest
    <2>2. Submitting(r)
      BY <1>2, <2>1 DEF BodyRead, BodyLost, Submitting
    <2> QED BY <2>2 DEF Next
  <1>3. ASSUME NEW r \in Requests, Respond(r)
        PROVE  [Next]_vars
    BY <1>3 DEF Respond, Submitting, Next
  <1>4. ASSUME NEW r \in Requests, Deadline(r)
        PROVE  [Next]_vars
    BY <1>4 DEF Deadline
  <1>5. CASE Elsewhere
    BY <1>5 DEF Elsewhere, Next
  <1>6. CASE UNCHANGED allVars
    BY <1>6 DEF allVars
  <1> QED BY <1>1, <1>2, <1>3, <1>4, <1>5, <1>6 DEF ServerNext

\* A drop that took its envelope keeps it: what OneShot says of every step.
LEMMA KeyKept ==
  ASSUME IInv, [Next]_vars, NEW d \in Drops, rec[d].state \notin Early
  PROVE  rec'[d].state \notin Early /\ rec'[d].envelopeKey = rec[d].envelopeKey
  <1>1. rec \in [Drops -> SoundRecord]
    BY DEF IInv
  <1>2. rec' \in [Drops -> SoundRecord] /\ Follows(rec[d], rec'[d])
    BY <1>1, NextRecordStep, RecordsFollow DEF IInv
  <1>3. contentOf'[d] = contentOf[d]
    <2>1. stageOf[d] \notin {"none", "open"}
      <3>1. rec[d].state \in {"submitted", "transferring", "claimed", "destroyed"}
        BY <1>1 DEF SoundRecord, Record, States, Early
      <3> QED BY <3>1 DEF stageOf, Stage
    <2>2. CASE UNCHANGED <<stageOf, contentOf, delivered>>
      BY <2>2
    <2>3. ASSUME NEW c \in Drops, NEW p, Promise!Deposit(c, p)
          PROVE  contentOf'[d] = contentOf[d]
      <3>1. stageOf[c] = "open" /\ contentOf' = [contentOf EXCEPT ![c] = p]
        BY <2>3 DEF Promise!Deposit, stageOf, contentOf
      <3> QED BY <2>1, <3>1 DEF contentOf
    <2>4. ASSUME NEW c \in Drops,
                 Promise!Open(c) \/ Promise!Lend(c) \/ Promise!GiveBack(c) \/ Promise!HandOver(c)
          PROVE  contentOf'[d] = contentOf[d]
      BY <2>4 DEF Promise!Open, Promise!Lend, Promise!GiveBack, Promise!HandOver, contentOf
    <2>5. ASSUME NEW S \in SUBSET Drops, Promise!End(S)
          PROVE  contentOf'[d] = contentOf[d]
      BY <2>5 DEF Promise!End, contentOf
    <2> QED BY NextRefines, <2>2, <2>3, <2>4, <2>5 DEF PromiseStep, Promise!Next
  <1> QED BY <1>2, <1>3 DEF contentOf, Follows

LEMMA ReceiptStays ==
  ASSUME IInv, [Next]_vars, NEW d, NEW e, Receipt(d, e)
  PROVE  Receipt(d, e)'
  BY KeyKept DEF Receipt

-----------------------------------------------------------------------------
(* What the broker's other steps leave to an upload *)

\* The attempt in flight goes on, and the body slot is at most freed.
Spares(r, q) ==
  /\ r.inFlight # None => q.inFlight = r.inFlight
  /\ q.bodySlotBusy => r.bodySlotBusy

LEMMA DestroyedSpares ==
  ASSUME NEW r \in Record
  PROVE  Spares(r, Destroyed(r))
  BY SMT DEF Spares, Destroyed, ClearLease, Record

LEMMA ClearLeaseSpares ==
  ASSUME NEW r \in Record
  PROVE  Spares(r, ClearLease(r))
  BY SMT DEF Spares, ClearLease, Record

LEMMA RetiredSpares ==
  ASSUME NEW r \in Record
  PROVE  Spares(r, Retired(ClearLease(r)))
  BY SMT DEF Spares, Retired, ClearLease, Record

LEMMA ReleasedSpares ==
  ASSUME NEW r \in Record, NEW req1
  PROVE  Spares(r, ReleasedSlot(req1, r)) /\ ~ReleasedSlot(req1, r).bodySlotBusy
  BY SMT DEF Spares, ReleasedSlot, Record

LEMMA LentSpares ==
  ASSUME NEW r \in Record, NEW c
  PROVE  Spares(r, Lent(r, c))
  BY SMT DEF Spares, Lent, Record

LEMMA FieldSpares ==
  ASSUME NEW r \in Record, NEW v, NEW q,
         \/ q = [r EXCEPT !.state = v]
         \/ q = [r EXCEPT !.age = v]
         \/ q = [r EXCEPT !.transfer = v]
  PROVE  Spares(r, q)
  <1>1. CASE q = [r EXCEPT !.state = v]
    BY <1>1, SMT DEF Spares, Record
  <1>2. CASE q = [r EXCEPT !.age = v]
    BY <1>2, SMT DEF Spares, Record
  <1>3. CASE q = [r EXCEPT !.transfer = v]
    BY <1>3, SMT DEF Spares, Record
  <1> QED BY <1>1, <1>2, <1>3

\* An attempt ends or goes on: the slot is not its business.
LEMMA AttemptBusy ==
  ASSUME NEW r \in Record, NEW v, NEW q, q = [r EXCEPT !.inFlight = v]
  PROVE  /\ q.bodySlotBusy => r.bodySlotBusy
         /\ q.inFlight = v
  BY SMT DEF Record

LEMMA FailedBusy ==
  ASSUME NEW r \in Record, NEW n, NEW q,
         \/ q = [r EXCEPT !.aeadFailures = n, !.inFlight = None]
         \/ q = [r EXCEPT !.containerFailures = n, !.inFlight = None]
  PROVE  /\ q.bodySlotBusy => r.bodySlotBusy
         /\ Destroyed(q).bodySlotBusy => r.bodySlotBusy
  <1>1. CASE q = [r EXCEPT !.aeadFailures = n, !.inFlight = None]
    BY <1>1, SMT DEF Destroyed, ClearLease, Record
  <1>2. CASE q = [r EXCEPT !.containerFailures = n, !.inFlight = None]
    BY <1>2, SMT DEF Destroyed, ClearLease, Record
  <1> QED BY <1>1, <1>2

LEMMA SubmittedBusy ==
  ASSUME NEW r \in Record, NEW e, NEW bytes, NEW lease, NEW q,
         q = Submitted(r, e, bytes, lease)
  PROVE  /\ q.bodySlotBusy => r.bodySlotBusy
         /\ q.state = "submitted" /\ q.envelopeKey = e
  BY SMT DEF Submitted, Record

SparesAll == \A d \in Drops : Spares(rec[d], rec'[d])

LEMMA SparesReplaced ==
  ASSUME rec \in [Drops -> SoundRecord], NEW d \in Drops, NEW q,
         rec' = [rec EXCEPT ![d] = q], Spares(rec[d], q)
  PROVE  SparesAll
  <1> SUFFICES ASSUME NEW c \in Drops PROVE Spares(rec[c], rec'[c])
    BY DEF SparesAll
  <1>1. CASE c = d
    BY <1>1
  <1>2. CASE c # d
    BY <1>2 DEF Spares
  <1> QED BY <1>1, <1>2

LEMMA SparesSame ==
  ASSUME UNCHANGED rec
  PROVE  SparesAll
  BY DEF SparesAll, Spares

LEMMA SparesDestroy ==
  ASSUME rec \in [Drops -> SoundRecord], NEW S, Destroy(S)
  PROVE  SparesAll
  <1> SUFFICES ASSUME NEW c \in Drops PROVE Spares(rec[c], rec'[c])
    BY DEF SparesAll
  <1>1. rec'[c] = IF c \in S THEN Destroyed(rec[c]) ELSE rec[c]
    BY DEF Destroy
  <1>2. Spares(rec[c], rec[c])
    BY DEF Spares
  <1>3. Spares(rec[c], Destroyed(rec[c]))
    BY DestroyedSpares DEF SoundRecord
  <1> QED BY <1>1, <1>2, <1>3

LEMMA MintingSpares ==
  ASSUME rec \in [Drops -> SoundRecord], NEW d \in Drops, Minting(d)
  PROVE  SparesAll
  <1>0. rec[d] \in Record
    BY DEF SoundRecord
  <1>1. ASSUME rec[d].state \in {"unminted", "minting"}
        PROVE  rec[d].inFlight = None
    BY <1>1 DEF SoundRecord, Sound, FailuresLeft
  <1>2. ASSUME NEW kind \in Kinds, Create(d, kind) PROVE SparesAll
    <2> DEFINE held == IF kind = "files" THEN FileReservationBytes ELSE 0
    <2>1. PICK q : /\ rec' = [rec EXCEPT ![d] = q]
                   /\ q = [Blank EXCEPT !.state = "minting", !.mintedKind = kind,
                                        !.payloadKind = kind, !.reservedBytes = held]
      BY <1>2 DEF Create
    <2>2. ~q.bodySlotBusy
      <3> HIDE DEF held
      <3> QED BY <2>1, SMT DEF Blank
    <2> QED BY <1>1, <1>2, <2>1, <2>2, SparesReplaced DEF Spares, Create
  <1>3. CASE CreateFinish(d)
    <2>1. PICK q : rec' = [rec EXCEPT ![d] = q] /\ q = [rec[d] EXCEPT !.state = "pending"]
      BY <1>3 DEF CreateFinish
    <2> QED BY <1>0, <2>1, FieldSpares, SparesReplaced
  <1>4. CASE CreateFail(d)
    <2>1. ~Blank.bodySlotBusy /\ rec' = [rec EXCEPT ![d] = Blank]
      BY <1>4 DEF CreateFail, Blank
    <2> QED BY <1>1, <1>4, <2>1, SparesReplaced DEF Spares, CreateFail
  <1> QED BY <1>2, <1>3, <1>4 DEF Minting

LEMMA CollectingSpares ==
  ASSUME IInv,
         \/ \E d \in Drops : Claim(d) \/ Ending(d)
         \/ \E w \in Waits : Waiting(w)
         \/ \E c \in Claimants : GrantFileClaim(c) \/ \E d \in Drops : Transferring(c, d)
         \/ Sweep \/ DestroyAll
  PROVE  SparesAll /\ UNCHANGED <<call, slot>>
  <1>0. rec \in [Drops -> SoundRecord] /\ \A d \in Drops : rec[d] \in Record
    BY DEF IInv, SoundRecord
  <1>1. ASSUME NEW d \in Drops, Retire(d) PROVE SparesAll
    BY <1>0, <1>1, RetiredSpares, SparesReplaced DEF Retire
  <1>2. ASSUME NEW d \in Drops, GiveBack(d) PROVE SparesAll /\ UNCHANGED <<call, slot>>
    <2>1. PICK q : q = ClearLease(rec[d]) /\ rec' = [rec EXCEPT ![d] = q]
      BY <1>2 DEF GiveBack
    <2> QED BY <1>0, <1>2, <2>1, ClearLeaseSpares, SparesReplaced DEF GiveBack
  <1>3. ASSUME NEW d \in Drops, Claim(d) PROVE SparesAll /\ UNCHANGED <<call, slot>>
    BY <1>1, <1>3 DEF Claim
  <1>4. ASSUME NEW d \in Drops, Ending(d) PROVE SparesAll /\ UNCHANGED <<call, slot>>
    <2>1. CASE Age(d)
      <3>1. PICK q, age : q = [rec[d] EXCEPT !.age = age] /\ rec' = [rec EXCEPT ![d] = q]
        BY <2>1 DEF Age
      <3> QED BY <1>0, <2>1, <3>1, FieldSpares, SparesReplaced DEF Age
    <2>2. CASE LookupExpired(d)
      BY <1>0, <2>2, SparesDestroy DEF LookupExpired
    <2> QED BY <1>2, <1>4, <2>1, <2>2 DEF Ending, AbandonFileClaim, LeaseTimeout
  <1>5. ASSUME NEW w \in Waits, Waiting(w) PROVE SparesAll /\ UNCHANGED <<call, slot>>
    <2>1. ASSUME NEW d \in Drops, rec' = [rec EXCEPT ![d] = Destroyed(@)]
          PROVE  SparesAll
      <3>1. PICK q : q = Destroyed(rec[d]) /\ rec' = [rec EXCEPT ![d] = q]
        BY <2>1
      <3> QED BY <1>0, <3>1, DestroyedSpares, SparesReplaced
    <2> QED BY <1>5, <2>1, SparesSame DEF Waiting, Wait, WaitTimeout
  <1>6. ASSUME NEW c \in Claimants, GrantFileClaim(c)
        PROVE  SparesAll /\ UNCHANGED <<call, slot>>
    <2>1. PICK d \in Drops : d = beginning[c]
      BY <1>6 DEF IInv, OthersTyped, GrantFileClaim
    <2>2. CASE rec' = [rec EXCEPT ![d] = Lent(@, c)]
      <3>1. PICK q : q = Lent(rec[d], c) /\ rec' = [rec EXCEPT ![d] = q]
        BY <2>2
      <3> QED BY <1>0, <1>6, <3>1, LentSpares, SparesReplaced DEF GrantFileClaim
    <2> QED BY <1>6, <2>1, <2>2, SparesSame DEF GrantFileClaim
  <1>7. ASSUME NEW c \in Claimants, NEW d \in Drops, Transferring(c, d)
        PROVE  SparesAll /\ UNCHANGED <<call, slot>>
    <2>1. CASE BeginFileClaim(c, d)
      BY <2>1, SparesSame DEF BeginFileClaim
    <2>2. ASSUME NEW id, NEW index, NEW matches, AckFileClaimFrame(c, d, id, index, matches)
          PROVE  SparesAll /\ UNCHANGED <<call, slot>>
      <3>1. CASE /\ rec' = [rec EXCEPT ![d].transfer.nextFrame = @ + 1]
                 /\ UNCHANGED <<call, slot>>
        <4>1. PICK q, lease : /\ q = [rec[d] EXCEPT !.transfer = lease]
                              /\ rec' = [rec EXCEPT ![d] = q]
          BY <3>1
        <4> QED BY <1>0, <3>1, <4>1, FieldSpares, SparesReplaced
      <3> QED BY <1>2, <2>2, <3>1 DEF AckFileClaimFrame
    <2>3. ASSUME NEW id, NEW matches, CommitFileClaim(c, d, id, matches)
          PROVE  SparesAll /\ UNCHANGED <<call, slot>>
      BY <1>1, <1>2, <2>3 DEF CommitFileClaim
    <2> QED BY <1>7, <2>1, <2>2, <2>3 DEF Transferring
  <1>8. CASE Sweep \/ DestroyAll
    BY <1>0, <1>8, SparesDestroy DEF Sweep, DestroyAll
  <1> QED BY <1>3, <1>4, <1>5, <1>6, <1>7, <1>8

-----------------------------------------------------------------------------
(* The calls and their attempts *)

LEMMA PromisedKept ==
  ASSUME IInv, [Next]_vars, SparesAll, NEW r \in Requests, Promised(r),
         call'[r] = call[r]
  PROVE  Promised(r)'
  <1>1. CASE call[r].status = "awaiting"
    <2>1. call[r].drop \in Drops
      BY <1>1 DEF Promised
    <2> QED BY <1>1, <2>1 DEF Promised, SparesAll, Spares
  <1>2. CASE call[r].status = "received"
    BY <1>2, ReceiptStays DEF Promised
  <1> QED BY <1>1, <1>2 DEF Promised

\* Everyone awaiting the attempt is told the same, and "received" only by its winner.
LEMMA SettledPromised ==
  ASSUME IInv, [Next]_vars, \A r \in Requests : Promised(r),
         NEW d \in Drops, NEW q, rec' = [rec EXCEPT ![d] = q],
         NEW result \in {"received", "unavailable"}, Settle(d, result),
         rec[d].inFlight # None,
         result = "received" =>
           /\ q.state \notin Early
           /\ q.envelopeKey = rec[d].inFlight.env
  PROVE  \A r \in Requests : Promised(r)'
  <1>0. rec \in [Drops -> SoundRecord] /\ call \in [Requests -> SubmitCall]
    BY DEF IInv, OthersTyped
  <1> TAKE r \in Requests
  <1>1. CASE call[r].status = "awaiting" /\ call[r].drop = d
    <2>1. /\ call'[r].status = result /\ call'[r].drop = d
          /\ call'[r].env = rec[d].inFlight.env
      BY <1>0, <1>1 DEF Settle, SubmitCall, Promised
    <2>2. rec[d].inFlight.env \in Envelopes
      BY <1>0 DEF SoundRecord, Record, Attempt
    <2>3. rec'[d] = q
      BY <1>0
    <2> QED BY <2>1, <2>2, <2>3 DEF Promised, Receipt
  <1>2. CASE call[r].status = "awaiting" /\ call[r].drop # d
    <2>1. call'[r] = call[r] /\ rec'[call[r].drop] = rec[call[r].drop]
      BY <1>0, <1>2 DEF Settle
    <2> QED BY <1>2, <2>1 DEF Promised
  <1>3. CASE call[r].status # "awaiting"
    <2>1. call'[r] = call[r]
      BY <1>3 DEF Settle
    <2> QED BY <1>3, <2>1, ReceiptStays DEF Promised
  <1> QED BY <1>1, <1>2, <1>3

LEMMA AcceptingPromised ==
  ASSUME IInv, \A r \in Requests : Promised(r), NEW d \in Drops, Accepting(d)
  PROVE  \A r \in Requests : Promised(r)'
  <1> DEFINE opened == rec[d].aeadFailures + 1
             decoded == rec[d].containerFailures + 1
             one == [rec[d] EXCEPT !.aeadFailures = opened, !.inFlight = None]
             other == [rec[d] EXCEPT !.containerFailures = decoded, !.inFlight = None]
             e == rec[d].inFlight.env
  <1>0. /\ rec \in [Drops -> SoundRecord] /\ rec[d] \in Record /\ [Next]_vars
        /\ rec[d].inFlight # None /\ UNCHANGED slot
    BY DEF IInv, SoundRecord, Next, Accepting, OpenEnvelope, DecodeContainer
  <1>1. ASSUME NEW q, rec' = [rec EXCEPT ![d] = q], Settle(d, "unavailable")
        PROVE  \A r \in Requests : Promised(r)'
    BY <1>0, <1>1, SettledPromised
  <1>2. ASSUME NEW n, NEW failed, CountFailure(d, n, failed), Settle(d, "unavailable")
        PROVE  \A r \in Requests : Promised(r)'
    BY <1>1, <1>2 DEF CountFailure
  <1>3. ASSUME NEW bytes, NEW lease, Settle(d, "received"),
               rec' = [rec EXCEPT ![d] = Submitted(rec[d], e, bytes, lease)]
        PROVE  \A r \in Requests : Promised(r)'
    <2>1. PICK q : q = Submitted(rec[d], e, bytes, lease) /\ rec' = [rec EXCEPT ![d] = q]
      BY <1>3
    <2>2. q.state = "submitted" /\ q.envelopeKey = e
      BY <1>0, <2>1, SubmittedBusy
    <2> QED BY <1>0, <1>3, <2>1, <2>2, SettledPromised DEF Early
  <1>4. CASE FinishAttempt(d)
    <2>1. CASE rec' = [rec EXCEPT ![d].inFlight = None] /\ Settle(d, "unavailable")
      BY <1>1, <2>1
    <2>2. CASE /\ Settle(d, "received")
               /\ rec' = [rec EXCEPT ![d] =
                    IF Lane[e] = "files"
                    THEN Submitted(rec[d], e, FileReservationBytes, None)
                    ELSE Submitted(rec[d], e, rec[d].reservedBytes, rec[d].submitLease)]
      BY <1>3, <2>2
    <2> QED BY <1>4, <2>1, <2>2 DEF FinishAttempt
  <1>5. CASE rec' = [rec EXCEPT ![d].inFlight.step = "decoding"] /\ UNCHANGED call
    <2> DEFINE attempt == [rec[d].inFlight EXCEPT !.step = "decoding"]
    <2>1. PICK q : q = [rec[d] EXCEPT !.inFlight = attempt] /\ rec' = [rec EXCEPT ![d] = q]
      BY <1>5
    <2>2. q.inFlight # None /\ q.inFlight.env = e
      <3>1. attempt \in Attempt /\ attempt.env = e
        BY <1>0 DEF SoundRecord, Record, Attempt
      <3>2. q.inFlight = attempt
        <4> HIDE DEF attempt
        <4> QED BY <1>0, <2>1, AttemptBusy
      <3> QED BY <3>1, <3>2, NoneAssumption DEF Attempt
    <2> TAKE r \in Requests
    <2>3. CASE call[r].status = "awaiting"
      BY <1>0, <1>5, <2>1, <2>2, <2>3 DEF Promised
    <2>4. CASE call[r].status # "awaiting"
      BY <1>0, <1>5, <2>4, ReceiptStays DEF Promised
    <2> QED BY <2>3, <2>4
  <1>6. CASE CountFailure(d, opened, one) /\ Settle(d, "unavailable")
    BY <1>2, <1>6
  <1>7. CASE CountFailure(d, decoded, other) /\ Settle(d, "unavailable")
    BY <1>2, <1>7
  <1>8. CASE rec' = [rec EXCEPT ![d].inFlight = None] /\ Settle(d, "unavailable")
    BY <1>1, <1>8
  <1> QED BY <1>4, <1>5, <1>6, <1>7, <1>8, Zenon DEF Accepting, OpenEnvelope, DecodeContainer

LEMMA AcceptingBusy ==
  ASSUME rec \in [Drops -> SoundRecord], NEW d \in Drops, Accepting(d), NEW c \in Drops
  PROVE  rec'[c].bodySlotBusy => rec[c].bodySlotBusy
  <1> DEFINE opened == rec[d].aeadFailures + 1
             decoded == rec[d].containerFailures + 1
             one == [rec[d] EXCEPT !.aeadFailures = opened, !.inFlight = None]
             other == [rec[d] EXCEPT !.containerFailures = decoded, !.inFlight = None]
             e == rec[d].inFlight.env
             spared == rec'[c].bodySlotBusy => rec[c].bodySlotBusy
  <1>0. rec[d] \in Record
    BY DEF SoundRecord
  <1>1. ASSUME NEW q, rec' = [rec EXCEPT ![d] = q], q.bodySlotBusy => rec[d].bodySlotBusy
        PROVE  spared
    <2>1. CASE c = d
      BY <1>1, <2>1
    <2>2. CASE c # d
      BY <1>1, <2>2
    <2> QED BY <2>1, <2>2
  <1>2. CASE rec' = [rec EXCEPT ![d].inFlight = None]
    <2>1. PICK q : q = [rec[d] EXCEPT !.inFlight = None] /\ rec' = [rec EXCEPT ![d] = q]
      BY <1>2
    <2> QED BY <1>0, <1>1, <2>1, AttemptBusy
  <1>3. CASE rec' = [rec EXCEPT ![d].inFlight.step = "decoding"]
    <2>1. PICK q, v : q = [rec[d] EXCEPT !.inFlight = v] /\ rec' = [rec EXCEPT ![d] = q]
      BY <1>3
    <2> QED BY <1>0, <1>1, <2>1, AttemptBusy
  <1>4. ASSUME NEW n, NEW m, NEW failed, CountFailure(d, n, failed),
               \/ failed = [rec[d] EXCEPT !.aeadFailures = m, !.inFlight = None]
               \/ failed = [rec[d] EXCEPT !.containerFailures = m, !.inFlight = None]
        PROVE  spared
    <2>1. CASE rec' = [rec EXCEPT ![d] = Destroyed(failed)]
      BY <1>0, <1>1, <1>4, <2>1, FailedBusy
    <2>2. CASE rec' = [rec EXCEPT ![d] = failed]
      BY <1>0, <1>1, <1>4, <2>2, FailedBusy
    <2> QED BY <1>4, <2>1, <2>2 DEF CountFailure
  <1>5. CASE CountFailure(d, opened, one)
    <2>1. one = [rec[d] EXCEPT !.aeadFailures = opened, !.inFlight = None]
      OBVIOUS
    <2> HIDE DEF opened, one
    <2> QED BY <1>4, <1>5, <2>1, Zenon
  <1>6. CASE CountFailure(d, decoded, other)
    <2>1. other = [rec[d] EXCEPT !.containerFailures = decoded, !.inFlight = None]
      OBVIOUS
    <2> HIDE DEF decoded, other
    <2> QED BY <1>4, <1>6, <2>1, Zenon
  <1>7. ASSUME NEW bytes, NEW lease,
               rec' = [rec EXCEPT ![d] = Submitted(rec[d], e, bytes, lease)]
        PROVE  spared
    <2>1. PICK q : q = Submitted(rec[d], e, bytes, lease) /\ rec' = [rec EXCEPT ![d] = q]
      BY <1>7
    <2> QED BY <1>0, <1>1, <2>1, SubmittedBusy
  <1>8. CASE FinishAttempt(d)
    <2>1. CASE rec' = [rec EXCEPT ![d] =
                    IF Lane[e] = "files"
                    THEN Submitted(rec[d], e, FileReservationBytes, None)
                    ELSE Submitted(rec[d], e, rec[d].reservedBytes, rec[d].submitLease)]
      BY <1>7, <2>1
    <2> QED BY <1>2, <1>8, <2>1 DEF FinishAttempt
  <1> QED BY <1>2, <1>3, <1>5, <1>6, <1>8, Zenon DEF Accepting, OpenEnvelope, DecodeContainer

\* submit answers "received" only for the envelope the drop took, and joins only
\* the attempt of the same envelope.
LEMMA SubmitPromised ==
  ASSUME IInv, \A r \in Requests : Promised(r), NEW r \in Requests, NEW d \in Drops,
         NEW decl \in Declarations, NEW e \in Envelopes \cup {None}, Submit(r, d, decl, e)
  PROVE  /\ \A s \in Requests : Promised(s)'
         /\ \A c \in Drops : rec'[c].bodySlotBusy => rec[c].bodySlotBusy
         /\ call'[r].drop = d /\ call'[r].env = e
         /\ \A s \in Requests \ {r} : call'[s] = call[s]
  <1> DEFINE verdict == SubmitVerdict(d, decl, e)
             status == IF verdict \in {"accept", "join"} THEN "awaiting" ELSE verdict
  <1>0. /\ rec \in [Drops -> SoundRecord] /\ rec[d] \in Record
        /\ call \in [Requests -> SubmitCall]
    BY DEF IInv, OthersTyped, SoundRecord
  <1>1. [Next]_vars
    BY DEF Next, Submitting
  <1>2. /\ call' = [call EXCEPT ![r] = [status |-> status, drop |-> d, env |-> e]]
        /\ UNCHANGED slot
    BY DEF Submit
  <1>3. /\ call'[r].status = status /\ call'[r].drop = d /\ call'[r].env = e
        /\ \A s \in Requests \ {r} : call'[s] = call[s]
    BY <1>0, <1>2
  <1>4. SparesAll /\ (verdict = "accept" => rec'[d].inFlight # None /\ rec'[d].inFlight.env = e)
    <2>1. CASE Expired(d) /\ Destroy({d})
      BY <1>0, <2>1, SparesDestroy DEF SubmitVerdict, Expired, Live
    <2>2. CASE /\ verdict = "accept"
               /\ rec' = [rec EXCEPT ![d].inFlight = [env |-> e, step |-> "opening"]]
      <3> DEFINE attempt == [env |-> e, step |-> "opening"]
      <3>1. PICK q : q = [rec[d] EXCEPT !.inFlight = attempt] /\ rec' = [rec EXCEPT ![d] = q]
        BY <2>2
      <3>2. rec[d].inFlight = None /\ e \in Envelopes
        BY <2>2 DEF SubmitVerdict, EnvelopeIdentity
      <3>3. (q.bodySlotBusy => rec[d].bodySlotBusy) /\ q.inFlight = attempt
        <4> HIDE DEF attempt
        <4> QED BY <1>0, <3>1, AttemptBusy
      <3>4. attempt # None
        <4>1. attempt \in [env : Envelopes, step : {"opening", "decoding"}]
          BY <3>2
        <4> QED BY <4>1, NoneAssumption
      <3>5. SparesAll
        BY <1>0, <3>1, <3>2, <3>3, SparesReplaced DEF Spares
      <3> QED BY <1>0, <3>1, <3>3, <3>4, <3>5
    <2>3. CASE verdict # "accept" /\ rec' = rec
      BY <2>3, SparesSame
    <2> QED BY <2>1, <2>2, <2>3 DEF Submit
  <1>5. \A s \in Requests \ {r} : Promised(s)'
    BY <1>1, <1>3, <1>4, PromisedKept
  <1>6. Promised(r)'
    <2>1. CASE verdict = "accept"
      BY <1>3, <1>4, <2>1 DEF Promised
    <2>2. CASE verdict = "join"
      <3>1. rec[d].inFlight # None /\ rec[d].inFlight.env = e
        BY <2>2 DEF SubmitVerdict, EnvelopeIdentity
      <3> QED BY <1>3, <1>4, <2>2, <3>1 DEF Promised, SparesAll, Spares
    <2>3. CASE verdict = "received"
      <3>1. Receipt(d, e)
        BY <1>0, <2>3 DEF SubmitVerdict, EnvelopeIdentity, Live, Known, Receipt, Early
      <3> QED BY <1>1, <1>3, <2>3, <3>1, ReceiptStays DEF Promised
    <2>4. CASE verdict = "unavailable"
      BY <1>3, <2>4 DEF Promised
    <2>5. verdict \in {"accept", "join", "received", "unavailable"}
      BY DEF SubmitVerdict
    <2> QED BY <2>1, <2>2, <2>3, <2>4, <2>5
  <1>7. \A c \in Drops : rec'[c].bodySlotBusy => rec[c].bodySlotBusy
    BY <1>4 DEF SparesAll, Spares
  <1> QED BY <1>3, <1>5, <1>6, <1>7

-----------------------------------------------------------------------------
(* The handlers *)

\* What a handler that takes no step keeps.
LEMMA HandlerKept ==
  ASSUME IInv, [Next]_vars, NEW r \in Requests, InHandler(r),
         pc'[r] = pc[r], req'[r] = req[r], answer'[r] = answer[r], slot'[r] = slot[r],
         call'[r].drop = call[r].drop, call'[r].env = call[r].env
  PROVE  InHandler(r)'
  BY ReceiptStays DEF InHandler

LEMMA BusyKept ==
  ASSUME NEW d \in Drops, BusyHeld(d), rec'[d].bodySlotBusy => rec[d].bodySlotBusy,
         UNCHANGED slot
  PROVE  BusyHeld(d)'
  BY DEF BusyHeld

LEMMA ElsewhereStep ==
  ASSUME IInv, ServerInv, Elsewhere
  PROVE  ServerInv'
  <1>0. /\ ServerTyped' /\ rec \in [Drops -> SoundRecord] /\ call \in [Requests -> SubmitCall]
        /\ [Next]_vars /\ UNCHANGED serverVars
    BY DEF ServerInv, ServerTyped, Elsewhere, serverVars, Next, IInv, OthersTyped
  <1>1. ASSUME UNCHANGED slot, \A r \in Requests : Promised(r)',
               \A r \in Requests : call'[r].drop = call[r].drop /\ call'[r].env = call[r].env,
               \A d \in Drops : rec'[d].bodySlotBusy => rec[d].bodySlotBusy
        PROVE  ServerInv'
    <2>1. \A r \in Requests : InHandler(r)'
      BY <1>0, <1>1, HandlerKept DEF ServerInv, serverVars
    <2>2. \A d \in Drops : BusyHeld(d)'
      BY <1>1, BusyKept DEF ServerInv
    <2> QED BY <1>0, <1>1, <2>1, <2>2 DEF ServerInv
  <1>2. ASSUME SparesAll, UNCHANGED <<call, slot>>
        PROVE  ServerInv'
    <2>1. \A r \in Requests : Promised(r)'
      BY <1>0, <1>2, PromisedKept DEF ServerInv
    <2>2. \A d \in Drops : rec'[d].bodySlotBusy => rec[d].bodySlotBusy
      BY <1>2 DEF SparesAll, Spares
    <2> QED BY <1>1, <1>2, <2>1, <2>2
  <1>3. ASSUME NEW d \in Drops, Accepting(d)
        PROVE  ServerInv'
    <2>1. \A r \in Requests : call'[r].drop = call[r].drop /\ call'[r].env = call[r].env
      <3>1. CASE UNCHANGED call
        BY <3>1
      <3>2. ASSUME NEW result, Settle(d, result)
            PROVE  \A r \in Requests : call'[r].drop = call[r].drop /\ call'[r].env = call[r].env
        BY <1>0, <3>2 DEF Settle, SubmitCall
      <3> QED BY <1>3, <3>1, <3>2 DEF Accepting, OpenEnvelope, DecodeContainer, FinishAttempt
    <2>2. UNCHANGED slot
      BY <1>3 DEF Accepting, OpenEnvelope, DecodeContainer
    <2> QED BY <1>0, <1>1, <1>3, <2>1, <2>2, AcceptingPromised, AcceptingBusy DEF ServerInv
  <1>4. ASSUME NEW d \in Drops, Minting(d)
        PROVE  ServerInv'
    <2>1. UNCHANGED <<call, slot>>
      BY <1>4 DEF Minting, Create, CreateFinish, CreateFail
    <2> QED BY <1>0, <1>2, <1>4, <2>1, MintingSpares
  <1> QED BY <1>2, <1>3, <1>4, CollectingSpares DEF Elsewhere

LEMMA ArriveStep ==
  ASSUME IInv, ServerInv, NEW r \in Requests, NEW h \in HttpRequest, Arrive(r, h)
  PROVE  ServerInv'
  <1> DEFINE d == h.drop
             decl == h.decl
  <1>0. /\ rec \in [Drops -> SoundRecord] /\ slot \in [Requests -> Slot \cup {None}]
        /\ d \in Drops /\ decl \in Declarations /\ ServerTyped /\ [Next]_vars
    BY StepIsBroker DEF IInv, OthersTyped, HttpRequest, ServerInv, ServerNext
  <1>1. /\ AcquireSubmitSlot(r, d, decl) /\ slot[r] = None /\ UNCHANGED call
        /\ pc[r] = "idle" /\ answer[r] = None
        /\ req' = [req EXCEPT ![r] = h]
        /\ answer' = answer \/ answer' = [answer EXCEPT ![r] = "unavailable"]
        /\ \/ pc' = [pc EXCEPT ![r] = "reading"]
           \/ pc' = [pc EXCEPT ![r] = "done"] /\ SlotVerdict(d, decl) = "refused"
    BY <1>0 DEF Arrive, AcquireSubmitSlot, Told, ServerInv, InHandler, ServerTyped
  <1>2. ServerTyped'
    BY <1>0, <1>1 DEF ServerTyped
  <1>3. /\ UNCHANGED slot \/ (GrantSlot(r, d) /\ SlotVerdict(d, decl) = "granted")
        /\ UNCHANGED slot => SparesAll
        /\ GrantSlot(r, d) =>
             \A c \in Drops : c # d => (rec'[c].bodySlotBusy => rec[c].bodySlotBusy)
    <2>1. CASE Destroy({d}) /\ UNCHANGED slot
      BY <1>0, <2>1, SparesDestroy DEF GrantSlot
    <2>2. CASE UNCHANGED <<rec, slot>>
      BY <1>0, <2>2, SparesSame
    <2>3. CASE SlotVerdict(d, decl) = "granted" /\ GrantSlot(r, d)
      <3>1. slot'[r] # None
        <4> DEFINE held == FileSubmitLease(d) = "taken"
        <4>1. slot'[r] = [drop |-> d, held |-> held]
          BY <1>0, <2>3 DEF GrantSlot
        <4>2. [drop |-> d, held |-> held] \in [drop : Drops, held : BOOLEAN]
          BY <1>0
        <4> QED BY <4>1, <4>2, NoneAssumption
      <3>2. slot' # slot
        BY <1>1, <3>1
      <3> QED BY <1>0, <2>3, <3>2 DEF GrantSlot
    <2> QED BY <1>1, <2>1, <2>2, <2>3 DEF AcquireSubmitSlot
  <1>4. /\ SparesAll \/ GrantSlot(r, d)
        /\ GrantSlot(r, d) => /\ slot'[r].drop = d /\ slot'[r] # None
                              /\ \A s \in Requests : s # r => slot'[s] = slot[s]
                              /\ \A c \in Drops : rec[c].inFlight # None =>
                                   rec'[c].inFlight = rec[c].inFlight
    <2>1. ASSUME GrantSlot(r, d)
          PROVE  /\ slot'[r].drop = d /\ slot'[r] # None
                 /\ \A s \in Requests : s # r => slot'[s] = slot[s]
                 /\ \A c \in Drops : rec'[c].inFlight = rec[c].inFlight
      <3> DEFINE held == FileSubmitLease(d) = "taken"
                 lease == IF held THEN r ELSE rec[d].submitLease
                 bytes == IF held THEN FileReservationBytes ELSE rec[d].reservedBytes
      <3>1. slot' = [slot EXCEPT ![r] = [drop |-> d, held |-> held]]
        BY <2>1 DEF GrantSlot
      <3>2. PICK q : /\ rec' = [rec EXCEPT ![d] = q]
                     /\ q = [rec[d] EXCEPT !.bodySlotBusy = TRUE, !.submitLease = lease,
                                           !.reservedBytes = bytes]
        BY <2>1 DEF GrantSlot
      <3>3. q.inFlight = rec[d].inFlight
        <4> HIDE DEF lease, bytes
        <4> QED BY <1>0, <3>2, SMT DEF SoundRecord, Record
      <3>4. [drop |-> d, held |-> held] \in [drop : Drops, held : BOOLEAN]
        BY <1>0
      <3>5. slot'[r] = [drop |-> d, held |-> held]
        BY <1>0, <3>1
      <3>6. slot'[r].drop = d /\ slot'[r] # None
        <4> HIDE DEF held, d
        <4>1. [drop |-> d, held |-> held] # None
          BY <3>4, NoneAssumption
        <4> QED BY <3>5, <4>1
      <3>7. \A s \in Requests : s # r => slot'[s] = slot[s]
        BY <1>0, <3>1
      <3>8. \A c \in Drops : rec'[c].inFlight = rec[c].inFlight
        BY <1>0, <3>2, <3>3
      <3> QED BY <3>6, <3>7, <3>8
    <2> QED BY <1>3, <2>1
  <1>5. \A s \in Requests : Promised(s)'
    <2>1. CASE SparesAll
      BY <1>0, <1>1, <2>1, PromisedKept DEF ServerInv
    <2>2. CASE GrantSlot(r, d)
      <3> TAKE s \in Requests
      <3>1. CASE call[s].status = "awaiting"
        BY <1>1, <1>4, <2>2, <3>1 DEF ServerInv, Promised
      <3>2. CASE call[s].status # "awaiting"
        BY <1>0, <1>1, <3>2, ReceiptStays DEF ServerInv, Promised
      <3> QED BY <3>1, <3>2
    <2> QED BY <1>4, <2>1, <2>2
  <1>6. ASSUME NEW s \in Requests PROVE InHandler(s)'
    <2>1. CASE s # r
      <3>1. pc'[s] = pc[s] /\ req'[s] = req[s] /\ answer'[s] = answer[s] /\ call'[s] = call[s]
        BY <1>0, <1>1, <2>1 DEF ServerTyped
      <3>2. slot'[s] = slot[s]
        BY <1>3, <1>4, <2>1
      <3> QED BY <1>0, <3>1, <3>2, HandlerKept DEF ServerInv
    <2>2. CASE s = r
      <3>1. req'[r] = h /\ answer'[r] \in {None, "unavailable"} /\ pc'[r] \in {"reading", "done"}
        BY <1>0, <1>1 DEF ServerTyped
      <3>2. slot'[r] # None => pc'[r] = "reading" /\ slot'[r].drop = d
        <4>1. CASE UNCHANGED slot
          BY <1>1, <4>1
        <4>2. CASE GrantSlot(r, d) /\ SlotVerdict(d, decl) = "granted"
          BY <1>0, <1>1, <1>4, <4>2 DEF ServerTyped
        <4> QED BY <1>3, <4>1, <4>2
      <3> QED BY <2>2, <3>1, <3>2, AnswerAssumption DEF InHandler
    <2> QED BY <2>1, <2>2
  <1>7. ASSUME NEW c \in Drops PROVE BusyHeld(c)'
    <2>1. CASE UNCHANGED slot
      <3>1. SparesAll
        BY <1>3, <2>1
      <3> QED BY <2>1, <3>1, BusyKept DEF SparesAll, Spares, ServerInv
    <2>2. CASE GrantSlot(r, d) /\ c = d
      BY <1>4, <2>2 DEF BusyHeld
    <2>3. CASE GrantSlot(r, d) /\ c # d /\ rec'[c].bodySlotBusy
      <3>1. PICK s \in Requests : slot[s] # None /\ slot[s].drop = c
        BY <1>3, <2>3 DEF ServerInv, BusyHeld
      <3>2. s # r
        BY <1>1, <3>1
      <3> QED BY <1>4, <2>3, <3>1, <3>2 DEF BusyHeld
    <2> QED BY <1>3, <2>1, <2>2, <2>3 DEF BusyHeld
  <1> QED BY <1>2, <1>5, <1>6, <1>7 DEF ServerInv

LEMMA BodyStep ==
  ASSUME IInv, ServerInv, NEW r \in Requests, BodyRead(r) \/ BodyLost(r)
  PROVE  ServerInv'
  <1> DEFINE d == req[r].drop
             decl == req[r].decl
  <1>0. ServerTyped /\ [Next]_vars /\ InHandler(r) /\ \A s \in Requests : Promised(s)
    BY StepIsBroker DEF ServerInv, ServerNext
  <1>1. /\ d \in Drops /\ decl \in Declarations /\ req[r].env \in Envelopes
        /\ req[r] \in HttpRequest
    BY <1>0 DEF BodyRead, BodyLost, InHandler, HttpRequest
  <1>2. PICK e \in {req[r].env, None} : Submit(r, d, decl, e)
    BY DEF BodyRead, BodyLost
  <1>3. /\ \A s \in Requests : Promised(s)'
        /\ \A c \in Drops : rec'[c].bodySlotBusy => rec[c].bodySlotBusy
        /\ call'[r].drop = d /\ call'[r].env = e
        /\ \A s \in Requests \ {r} : call'[s] = call[s]
    <2> HIDE DEF d, decl
    <2> QED BY <1>0, <1>1, <1>2, SubmitPromised
  <1>4. /\ pc' = [pc EXCEPT ![r] = "submitting"] /\ UNCHANGED <<req, answer, slot>>
        /\ pc[r] = "reading"
    BY <1>2 DEF BodyRead, BodyLost, Submit
  <1>5. ServerTyped'
    BY <1>0, <1>4 DEF ServerTyped
  <1>6. ASSUME NEW s \in Requests PROVE InHandler(s)'
    <2>1. CASE s # r
      BY <1>0, <1>3, <1>4, <2>1, HandlerKept DEF ServerInv, ServerTyped
    <2>2. CASE s = r
      <3>1. pc'[r] = "submitting"
        BY <1>0, <1>4 DEF ServerTyped
      <3> QED BY <1>0, <1>1, <1>2, <1>3, <1>4, <2>2, <3>1, ReceiptStays DEF InHandler
    <2> QED BY <2>1, <2>2
  <1>7. \A c \in Drops : BusyHeld(c)'
    BY <1>3, <1>4, BusyKept DEF ServerInv
  <1> QED BY <1>3, <1>5, <1>6, <1>7 DEF ServerInv

LEMMA RespondStep ==
  ASSUME IInv, ServerInv, NEW r \in Requests, Respond(r)
  PROVE  ServerInv'
  <1>0. /\ ServerTyped /\ [Next]_vars /\ InHandler(r) /\ Promised(r)
        /\ rec \in [Drops -> SoundRecord] /\ slot \in [Requests -> Slot \cup {None}]
    BY StepIsBroker DEF ServerInv, ServerNext, IInv, OthersTyped
  <1>1. /\ pc[r] = "submitting" /\ pc' = [pc EXCEPT ![r] = "done"]
        /\ call[r].status \in {"received", "unavailable"}
        /\ answer' = [answer EXCEPT ![r] = IF @ = None THEN call[r].status ELSE @]
        /\ UNCHANGED <<req, call>>
    BY DEF Respond, Told, ReleaseSlot, vars
  <1>2. ServerTyped'
    BY <1>0, <1>1 DEF ServerTyped
  <1>3. /\ SparesAll
        /\ \A s \in Requests \ {r} : slot'[s] = slot[s]
        /\ slot'[r] = None
        /\ slot[r] # None => ~rec'[slot[r].drop].bodySlotBusy
    <2>1. CASE ReleaseSlot(r)
      <3>1. PICK d \in Drops : d = slot[r].drop
        BY <1>0, <2>1 DEF ReleaseSlot, Slot
      <3>2. PICK q : q = ReleasedSlot(r, rec[d]) /\ rec' = [rec EXCEPT ![d] = q]
        BY <2>1, <3>1 DEF ReleaseSlot
      <3>3. Spares(rec[d], q) /\ ~q.bodySlotBusy
        BY <1>0, <3>2, ReleasedSpares DEF SoundRecord
      <3>4. SparesAll
        BY <1>0, <3>2, <3>3, SparesReplaced
      <3> QED BY <1>0, <2>1, <3>1, <3>2, <3>3, <3>4 DEF ReleaseSlot
    <2>2. CASE slot[r] = None /\ UNCHANGED vars
      BY <2>2, SparesSame DEF vars
    <2> QED BY <2>1, <2>2 DEF Respond
  <1>4. \A s \in Requests : Promised(s)'
    BY <1>0, <1>1, <1>3, PromisedKept DEF ServerInv
  <1>5. ASSUME NEW s \in Requests PROVE InHandler(s)'
    <2>1. CASE s # r
      BY <1>0, <1>1, <1>3, <2>1, HandlerKept DEF ServerInv, ServerTyped
    <2>2. CASE s = r
      <3>1. pc'[r] = "done" /\ answer'[r] = IF answer[r] = None THEN call[r].status ELSE answer[r]
        BY <1>0, <1>1 DEF ServerTyped
      <3>2. req[r] \in HttpRequest /\ None \notin Envelopes
        BY <1>0, <1>1, NoneAssumption DEF InHandler
      <3>3. answer'[r] = "received" => Receipt(req[r].drop, req[r].env)
        BY <1>0, <1>1, <3>1, <3>2 DEF InHandler, Promised, Receipt
      <3> QED BY <1>0, <1>1, <1>3, <2>2, <3>1, <3>2, <3>3, ReceiptStays DEF InHandler
    <2> QED BY <2>1, <2>2
  <1>6. ASSUME NEW c \in Drops PROVE BusyHeld(c)'
    <2> SUFFICES ASSUME rec'[c].bodySlotBusy PROVE BusyHeld(c)'
      BY DEF BusyHeld
    <2>1. PICK s \in Requests : slot[s] # None /\ slot[s].drop = c
      BY <1>3 DEF SparesAll, Spares, ServerInv, BusyHeld
    <2>2. s # r
      BY <1>3, <2>1
    <2> QED BY <1>3, <2>1, <2>2 DEF BusyHeld
  <1> QED BY <1>2, <1>4, <1>5, <1>6 DEF ServerInv

LEMMA DeadlineStep ==
  ASSUME IInv, ServerInv, NEW r \in Requests, Deadline(r)
  PROVE  ServerInv'
  <1>0. ServerTyped /\ [Next]_vars /\ UNCHANGED <<rec, slot, call, pc, req>>
    BY DEF ServerInv, Deadline, vars
  <1>1. answer' = [answer EXCEPT ![r] = "unavailable"] /\ pc[r] # "idle"
    BY DEF Deadline, Told
  <1>2. ServerTyped'
    BY <1>0, <1>1 DEF ServerTyped
  <1>3. ASSUME NEW s \in Requests PROVE Promised(s)'
    BY <1>0, SparesSame, PromisedKept DEF ServerInv
  <1>4. ASSUME NEW s \in Requests PROVE InHandler(s)'
    <2>1. CASE s # r
      BY <1>0, <1>1, <2>1, HandlerKept DEF ServerInv, ServerTyped
    <2>2. CASE s = r
      <3>1. answer'[r] = "unavailable"
        BY <1>0, <1>1 DEF ServerTyped
      <3> QED BY <1>0, <1>1, <2>2, <3>1 DEF ServerInv, InHandler
    <2> QED BY <2>1, <2>2
  <1>5. \A c \in Drops : BusyHeld(c)'
    BY <1>0, BusyKept DEF ServerInv
  <1> QED BY <1>2, <1>3, <1>4, <1>5 DEF ServerInv

LEMMA ServerInvInit == ServerInit => ServerInv
  <1> SUFFICES ASSUME ServerInit PROVE ServerInv
    OBVIOUS
  <1>1. ServerTyped
    BY DEF ServerInit, ServerTyped
  <1>2. ASSUME NEW d \in Drops PROVE BusyHeld(d)
    <2>1. rec[d] = Blank /\ ~Blank.bodySlotBusy
      BY DEF ServerInit, Init, Blank
    <2> QED BY <2>1 DEF BusyHeld
  <1>3. ASSUME NEW r \in Requests PROVE Promised(r) /\ InHandler(r)
    <2>1. /\ pc[r] = "idle" /\ answer[r] = None /\ slot[r] = None
          /\ call[r].status = "idle"
      BY DEF ServerInit, Init
    <2>2. answer[r] # "received"
      BY <2>1, AnswerAssumption
    <2> QED BY <2>1, <2>2 DEF Promised, InHandler
  <1> QED BY <1>1, <1>2, <1>3 DEF ServerInv

LEMMA ServerInvStep == IInv /\ ServerInv /\ [ServerNext]_allVars => IInv' /\ ServerInv'
  <1> SUFFICES ASSUME IInv, ServerInv, [ServerNext]_allVars PROVE IInv' /\ ServerInv'
    OBVIOUS
  <1>1. IInv'
    BY StepIsBroker, NextInvariant DEF ServerInv
  <1>2. CASE UNCHANGED allVars
    <2>1. UNCHANGED <<rec, slot, call, pc, req, answer>> /\ [Next]_vars
      BY <1>2 DEF allVars, vars, serverVars
    <2>2. \A r \in Requests : Promised(r)'
      BY <2>1, SparesSame, PromisedKept DEF ServerInv
    <2>3. \A r \in Requests : InHandler(r)'
      BY <2>1, HandlerKept DEF ServerInv
    <2>4. \A d \in Drops : BusyHeld(d)'
      BY <2>1, BusyKept DEF ServerInv
    <2> QED BY <1>1, <2>1, <2>2, <2>3, <2>4 DEF ServerInv, ServerTyped
  <1>3. ServerInv'
    BY <1>2, ArriveStep, BodyStep, RespondStep, DeadlineStep, ElsewhereStep DEF ServerNext
  <1> QED BY <1>1, <1>3

\* A handler and what the broker keeps for it agree at every step: its call awaits
\* the attempt in flight that has its envelope, and its slot is what makes a drop busy.
THEOREM ServerInvariant == ServerSpec => [](IInv /\ ServerInv)
  <1>1. ServerInit => IInv /\ ServerInv
    BY InitInvariant, ServerInvInit DEF ServerInit
  <1> QED BY <1>1, ServerInvStep, PTL DEF ServerSpec

-----------------------------------------------------------------------------
(* The theorems *)

\* POST /api/submit does to the broker only what the broker's own interface allows:
\* every theorem about Broker's Spec holds of the server.
THEOREM ServerIsBroker == ServerSpec => Spec
  <1>1. ServerInit => Init
    BY DEF ServerInit
  <1>2. ServerInv /\ [ServerNext]_allVars => [Next]_vars
    BY StepIsBroker DEF ServerInv
  <1> QED BY <1>1, <1>2, ServerInvariant, PTL DEF ServerSpec, Spec

\* SlotsOfRequests: a request that is over has given its slot back, and a drop is
\* never left busy by a request that has gone (the finally of handleSubmit).
THEOREM SlotsReturned == ServerSpec => []SlotsOfRequests
  <1>1. ServerInv => SlotsOfRequests
    BY DEF ServerInv, SlotsOfRequests, InHandler, BusyHeld
  <1> QED BY <1>1, ServerInvariant, PTL

\* AnswerIsReceipt: a client told "received" sent the envelope the drop accepted,
\* which nothing replaces afterwards, whichever of the three ways it was told.
THEOREM AnswersTrue == ServerSpec => []AnswerIsReceipt
  <1>1. IInv /\ ServerInv => AnswerIsReceipt
    <2> SUFFICES ASSUME IInv, ServerInv, NEW r \in Requests, answer[r] = "received"
                 PROVE  /\ rec[req[r].drop].envelopeKey = req[r].env
                        /\ rec[req[r].drop].state \in
                             {"submitted", "transferring", "claimed", "destroyed"}
      BY DEF AnswerIsReceipt
    <2>1. Receipt(req[r].drop, req[r].env)
      BY DEF ServerInv, InHandler
    <2>2. rec[req[r].drop] \in Record
      BY <2>1 DEF Receipt, IInv, SoundRecord
    <2>3. rec[req[r].drop].state \in States
      BY <2>2 DEF Record
    <2> QED BY <2>1, <2>3 DEF Receipt, States, Early
  <1> QED BY <1>1, ServerInvariant, PTL
=============================================================================
