------------------------------- MODULE Broker -------------------------------
(***************************************************************************)
(* The inbound half of the handoff broker (src/src/broker.js).             *)
(*                                                                         *)
(* A drop is one record: minted with a link, submitted to once by a        *)
(* browser, collected once by the operator's side, destroyed at its TTL.   *)
(* The broker is a single-threaded event loop, so one action is one        *)
(* handler from its entry (or from the await it resumes at) to its next    *)
(* await or its return.  The callers are left as free as the interface     *)
(* lets them be: PublicServer restricts them to what HTTP requests do.     *)
(*                                                                         *)
(* A key pair exists exactly while a record is "minting" (from the await   *)
(* on) or "pending": it is not a variable.  One reservation is always the  *)
(* process-wide fileContainerCeiling, since narrowFileLimits only narrows  *)
(* the number of files and the ceiling does not depend on it.              *)
(***************************************************************************)
EXTENDS Integers, FiniteSets

CONSTANTS
  Drops,                 \* the handoffs that may be minted
  Requests,              \* callers of acquireSubmitSlot and submit
  Claimants,             \* owners of file claims (control connections)
  Waits,                 \* calls of waitForSubmission
  Envelopes,             \* the HPKE envelopes senders may post
  None,                  \* null
  Hid,                   \* the drop an envelope names (and is sealed to)
  Lane,                  \* the lane an envelope's version belongs to
  Grade,                 \* what opening and decoding an envelope will find
  Frames,                \* frames (files, private text) of its container
  FileReservationBytes, MaxLiveFileBytes, MaxAeadFailures, MaxTransferAttempts

Lanes == {"text", "files"}
Kinds == Lanes \cup {"universal"}
Declarations == Lanes \cup {None}

\* "sealed" opens and decodes; "forged" fails the AEAD; "misfit" opens to bytes
\* that are no container; "rejected" is refused without being counted (sizes,
\* base64, fingerprint).
Grades == {"sealed", "forged", "misfit", "rejected"}

ASSUME EnvelopeAssumption ==
  /\ Hid \in [Envelopes -> Drops]
  /\ Lane \in [Envelopes -> Lanes]
  /\ Grade \in [Envelopes -> Grades]
  /\ Frames \in [Envelopes -> Nat \ {0}]
  /\ \A e \in Envelopes : Grade[e] = "misfit" => Lane[e] = "files"

ASSUME LimitAssumption ==
  /\ FileReservationBytes \in Nat \ {0}
  /\ MaxLiveFileBytes \in Nat
  /\ FileReservationBytes <= MaxLiveFileBytes
  /\ MaxAeadFailures \in Nat \ {0}
  /\ MaxTransferAttempts \in Nat \ {0, 1}

ASSUME FiniteDropsAssumption == IsFiniteSet(Drops)

ASSUME NoneAssumption ==
  /\ None \notin Requests \cup Claimants \cup Envelopes \cup Drops \cup Lanes
  /\ None \notin [env : Envelopes, step : {"opening", "decoding"}]
  /\ None \notin [id : Nat, owner : Claimants, nextFrame : Nat]
  /\ None \notin [drop : Drops, held : BOOLEAN]

VARIABLES
  rec,                \* the record of each drop
  reservedFileBytes,  \* the process-wide counter
  slot,               \* per request: the slot object it has not released
  call,               \* per request: its call of submit
  beginning,          \* per claimant: the drop whose container it is decoding
  wait,               \* per waiter: its subscription
  delivered,          \* history: payloads handed out, per drop
  acked               \* history: the frames acked correctly, and by whom

vars == <<rec, reservedFileBytes, slot, call, beginning, wait, delivered, acked>>

-----------------------------------------------------------------------------
(* Types *)

States == {"unminted", "minting", "pending", "submitted", "transferring",
           "claimed", "destroyed"}

Attempt == [env : Envelopes, step : {"opening", "decoding"}]
TransferLease == [id : Nat, owner : Claimants, nextFrame : Nat]
Slot == [drop : Drops, held : BOOLEAN]

Record ==
  [state : States,
   mintedKind : Kinds, payloadKind : Kinds,
   age : {"fresh", "closing", "expired"},
   reservedBytes : {0, FileReservationBytes},
   submitLease : Requests \cup {None}, bodySlotBusy : BOOLEAN,
   inFlight : Attempt \cup {None},
   aeadFailures : 0..MaxAeadFailures, containerFailures : 0..MaxAeadFailures,
   envelopeKey : Envelopes \cup {None}, plaintext : Envelopes \cup {None},
   transfer : TransferLease \cup {None}, transferAttempts : Nat]

SubmitCall == [status : {"idle", "awaiting", "received", "unavailable"},
               drop : Drops \cup {None}, env : Envelopes \cup {None}]
WaitCall == [status : {"idle", "parked", "submitted", "unavailable"},
             drop : Drops \cup {None}]

Blank ==
  [state |-> "unminted", mintedKind |-> "text", payloadKind |-> "text",
   age |-> "fresh", reservedBytes |-> 0, submitLease |-> None,
   bodySlotBusy |-> FALSE, inFlight |-> None, aeadFailures |-> 0,
   containerFailures |-> 0, envelopeKey |-> None, plaintext |-> None,
   transfer |-> None, transferAttempts |-> 0]

Init ==
  /\ rec = [d \in Drops |-> Blank]
  /\ reservedFileBytes = 0
  /\ slot = [r \in Requests |-> None]
  /\ call = [r \in Requests |-> [status |-> "idle", drop |-> None, env |-> None]]
  /\ beginning = [c \in Claimants |-> None]
  /\ wait = [w \in Waits |-> [status |-> "idle", drop |-> None]]
  /\ delivered = [d \in Drops |-> 0]
  /\ acked = {}

-----------------------------------------------------------------------------
(* Helpers of the broker, as functions of one record *)

\* In the two indexes: minted and not destroyed.
Known(d) == rec[d].state \in {"pending", "submitted", "transferring", "claimed"}
Expired(d) == Known(d) /\ rec[d].age = "expired"
Live(d) == Known(d) /\ rec[d].age # "expired"

\* Variant of ReserveFileBytes: refuses only once the limit is passed.
ReserveFileBytes_OffByOne == reservedFileBytes <= MaxLiveFileBytes

\* Whether the process-wide budget has room for one more reservation.
ReserveFileBytes == reservedFileBytes + FileReservationBytes <= MaxLiveFileBytes

\* clearLease: the lease is gone, a lent payload can be collected again.
ClearLease(r) ==
  [r EXCEPT !.transfer = None,
            !.state = IF r.transfer # None /\ @ = "transferring"
                      THEN "submitted" ELSE @]

\* retire: what is left of a collected drop is its receipt.
Retired(r) ==
  [ClearLease(r) EXCEPT !.state = "claimed", !.plaintext = None,
                        !.reservedBytes = 0]

\* A new lease of the record's payload, to claimant c.
Lent(r, c) ==
  LET id == r.transferAttempts + 1
  IN  [r EXCEPT !.state = "transferring", !.transferAttempts = id,
                !.transfer = [id |-> id, owner |-> c, nextFrame |-> 0]]

Destroyed(r) ==
  [ClearLease(r) EXCEPT !.state = "destroyed", !.plaintext = None,
                        !.reservedBytes = 0, !.submitLease = None]

\* Variant of Notify: only a submission wakes the waiters.
Notify_SubmittedOnly(S, outcome) ==
  wait' = [w \in Waits |-> IF /\ outcome = "submitted"
                             /\ wait[w].status = "parked" /\ wait[w].drop \in S
                           THEN [wait[w] EXCEPT !.status = outcome]
                           ELSE wait[w]]

\* The waiters of the drops in S all resolve, once.
Notify(S, outcome) ==
  wait' = [w \in Waits |-> IF wait[w].status = "parked" /\ wait[w].drop \in S
                           THEN [wait[w] EXCEPT !.status = outcome]
                           ELSE wait[w]]

\* What the records in S hold of the budget.
Holding(S) == {d \in S : rec[d].reservedBytes > 0}
BytesHeld(S) == FileReservationBytes * Cardinality(Holding(S))

Destroy(S) ==
  /\ rec' = [d \in Drops |-> IF d \in S THEN Destroyed(rec[d]) ELSE rec[d]]
  /\ reservedFileBytes' = reservedFileBytes - BytesHeld(S)
  /\ Notify(S, "unavailable")

\* Variant of Retire: the record forgets its reservation, the counter does not.
Retire_KeepsCounter(d) ==
  /\ rec' = [rec EXCEPT ![d] = Retired(ClearLease(@))]
  /\ UNCHANGED reservedFileBytes
  /\ Notify({d}, "unavailable")

Retire(d) ==
  /\ rec' = [rec EXCEPT ![d] = Retired(ClearLease(@))]
  /\ reservedFileBytes' = reservedFileBytes - rec[d].reservedBytes
  /\ Notify({d}, "unavailable")

-----------------------------------------------------------------------------
(* Minting *)

\* create, to the await of generateKey.  A refusal mints nothing.
Create(d, kind) ==
  /\ rec[d].state = "unminted"
  /\ kind = "files" => ReserveFileBytes
  /\ LET held == IF kind = "files" THEN FileReservationBytes ELSE 0
     IN  /\ rec' = [rec EXCEPT ![d] = [Blank EXCEPT
                      !.state = "minting", !.mintedKind = kind,
                      !.payloadKind = kind, !.reservedBytes = held]]
         /\ reservedFileBytes' = reservedFileBytes + held
  /\ UNCHANGED <<slot, call, beginning, wait, delivered, acked>>

\* create, from the await on: the record enters the indexes.
CreateFinish(d) ==
  /\ rec[d].state = "minting"
  /\ rec' = [rec EXCEPT ![d].state = "pending"]
  /\ UNCHANGED <<reservedFileBytes, slot, call, beginning, wait, delivered, acked>>

\* create, when key generation throws: the reservation is handed back.
CreateFail(d) ==
  /\ rec[d].state = "minting"
  /\ rec' = [rec EXCEPT ![d] = Blank]
  /\ reservedFileBytes' = reservedFileBytes - rec[d].reservedBytes
  /\ UNCHANGED <<slot, call, beginning, wait, delivered, acked>>

-----------------------------------------------------------------------------
(* Submitting *)

\* The lane of one submission: the record's own kind, chosen by the declaration
\* on a universal drop only; None is a refusal.
SubmitKind(d, decl) ==
  IF rec[d].mintedKind = "universal" THEN IF decl = None THEN "text" ELSE decl
  ELSE IF decl # None /\ decl # rec[d].payloadKind THEN None
  ELSE rec[d].payloadKind

\* The drop a file body could be for: pending, or the exact-retry case.
FileSubmitRecord(d, decl) ==
  /\ Live(d)
  /\ \/ rec[d].state = "pending"
     \/ /\ rec[d].state = "submitted"
        /\ rec[d].payloadKind = "files"
        /\ decl = "files"

\* takeFileSubmitLease: "none" borrows nothing, "taken" borrows a reservation.
FileSubmitLease(d) ==
  IF rec[d].state = "submitted" THEN "none"
  ELSE IF rec[d].submitLease # None THEN "refused"
  ELSE IF rec[d].reservedBytes > 0 THEN "none"
  ELSE IF ReserveFileBytes THEN "taken" ELSE "refused"

\* acquireSubmitSlot's answer: "open" admits without a slot (text is not gated).
SlotVerdict(d, decl) ==
  IF ~FileSubmitRecord(d, decl) THEN "open"
  ELSE IF SubmitKind(d, decl) = None THEN "refused"
  ELSE IF SubmitKind(d, decl) = "text" THEN "open"
  ELSE IF rec[d].bodySlotBusy \/ FileSubmitLease(d) = "refused" THEN "refused"
  ELSE "granted"

GrantSlot(r, d) ==
  LET held == FileSubmitLease(d) = "taken"
  IN  /\ slot' = [slot EXCEPT ![r] = [drop |-> d, held |-> held]]
      /\ rec' = [rec EXCEPT ![d] =
                   [rec[d] EXCEPT !.bodySlotBusy = TRUE,
                                  !.submitLease = IF held THEN r ELSE @,
                                  !.reservedBytes =
                                    IF held THEN FileReservationBytes ELSE @]]
      /\ reservedFileBytes' =
           reservedFileBytes + (IF held THEN FileReservationBytes ELSE 0)

AcquireSubmitSlot(r, d, decl) ==
  /\ slot[r] = None
  /\ call[r].status = "idle"
  /\ \/ /\ Expired(d)
        /\ Destroy({d})
        /\ UNCHANGED slot
     \/ /\ SlotVerdict(d, decl) = "granted"
        /\ GrantSlot(r, d)
        /\ UNCHANGED wait
     \/ /\ ~Expired(d)
        /\ SlotVerdict(d, decl) # "granted"
        /\ UNCHANGED <<rec, reservedFileBytes, slot, wait>>
  /\ UNCHANGED <<call, beginning, delivered, acked>>

\* Variant of ReleasedSlot: the lease is not looked at.
ReleasedSlot_Unchecked(r, rd) ==
  IF slot[r].held
  THEN [rd EXCEPT !.bodySlotBusy = FALSE, !.submitLease = None,
                  !.reservedBytes = @ - FileReservationBytes]
  ELSE [rd EXCEPT !.bodySlotBusy = FALSE]

\* release: a slot that still owns the lease gives its reservation back.
ReleasedSlot(r, rd) ==
  IF slot[r].held /\ rd.submitLease = r
  THEN [rd EXCEPT !.bodySlotBusy = FALSE, !.submitLease = None, !.reservedBytes = 0]
  ELSE [rd EXCEPT !.bodySlotBusy = FALSE]

ReleaseSlot(r) ==
  /\ slot[r] # None
  /\ LET d == slot[r].drop
         after == ReleasedSlot(r, rec[d])
     IN  /\ rec' = [rec EXCEPT ![d] = after]
         /\ reservedFileBytes' =
              reservedFileBytes - (rec[d].reservedBytes - after.reservedBytes)
  /\ slot' = [slot EXCEPT ![r] = None]
  /\ UNCHANGED <<call, beginning, wait, delivered, acked>>

\* The envelope's identity, None when its shape or version is not the lane's.
EnvelopeIdentity(e, kind) ==
  IF e # None /\ kind # None THEN IF Lane[e] = kind THEN e ELSE None ELSE None

\* Variant of SubmitVerdict: any envelope joins the one in flight.
SubmitVerdict_JoinsAny(d, decl, e) ==
  LET key == EnvelopeIdentity(e, SubmitKind(d, decl))
  IN  IF ~Live(d) \/ key = None THEN "unavailable"
      ELSE IF rec[d].state # "pending"
        THEN IF rec[d].envelopeKey = key THEN "received" ELSE "unavailable"
      ELSE IF rec[d].inFlight = None THEN "accept" ELSE "join"

\* How submit answers at once, or "accept" (a new attempt) or "join" (in flight).
SubmitVerdict(d, decl, e) ==
  LET key == EnvelopeIdentity(e, SubmitKind(d, decl))
  IN  IF ~Live(d) \/ key = None THEN "unavailable"
      ELSE IF rec[d].state # "pending"
        THEN IF rec[d].envelopeKey = key THEN "received" ELSE "unavailable"
      ELSE IF rec[d].inFlight = None THEN "accept"
      ELSE IF rec[d].inFlight.env = key THEN "join" ELSE "unavailable"

\* submit, to its first await.
Submit(r, d, decl, e) ==
  /\ call[r].status = "idle"
  /\ LET verdict == SubmitVerdict(d, decl, e)
         status == IF verdict \in {"accept", "join"} THEN "awaiting" ELSE verdict
     IN  /\ call' = [call EXCEPT ![r] = [status |-> status, drop |-> d, env |-> e]]
         /\ \/ /\ Expired(d)
               /\ Destroy({d})
            \/ /\ ~Expired(d)
               /\ rec' = IF verdict = "accept"
                         THEN [rec EXCEPT ![d].inFlight =
                                 [env |-> e, step |-> "opening"]]
                         ELSE rec
               /\ UNCHANGED <<reservedFileBytes, wait>>
  /\ UNCHANGED <<slot, beginning, delivered, acked>>

\* The attempt's promise settles: everyone awaiting it gets the same answer.
Settle(d, result) ==
  call' = [r \in Requests |->
             IF call[r].status = "awaiting" /\ call[r].drop = d
             THEN [call[r] EXCEPT !.status = result] ELSE call[r]]

\* Variant of CountFailure: the last failure never comes.
CountFailure_Never(d, count, failed) ==
  /\ rec' = [rec EXCEPT ![d] = failed]
  /\ UNCHANGED <<reservedFileBytes, wait>>

\* One more failure of the given counter; the last one destroys the drop.
CountFailure(d, count, failed) ==
  IF count >= MaxAeadFailures
  THEN /\ rec' = [rec EXCEPT ![d] = Destroyed(failed)]
       /\ reservedFileBytes' = reservedFileBytes - rec[d].reservedBytes
       /\ Notify({d}, "unavailable")
  ELSE /\ rec' = [rec EXCEPT ![d] = failed]
       /\ UNCHANGED <<reservedFileBytes, wait>>

\* Variant of Submitted: the winner of either lane takes the lease over.
Submitted_AlwaysConverts(r, e, reserved, lease) ==
  [r EXCEPT !.state = "submitted", !.payloadKind = Lane[e], !.plaintext = e,
            !.envelopeKey = e, !.inFlight = None,
            !.reservedBytes = reserved, !.submitLease = None]

Submitted(r, e, reserved, lease) ==
  [r EXCEPT !.state = "submitted", !.payloadKind = Lane[e], !.plaintext = e,
            !.envelopeKey = e, !.inFlight = None,
            !.reservedBytes = reserved, !.submitLease = lease]

\* The single-use gate, to the end of acceptEnvelope.  A file winner converts the
\* lease (or reserves late); a text winner leaves it to the refused upload.
FinishAttempt(d) ==
  LET r == rec[d]
      e == r.inFlight.env
      late == Lane[e] = "files" /\ r.reservedBytes = 0
  IN  IF r.state # "pending" \/ (late /\ ~ReserveFileBytes)
      THEN /\ rec' = [rec EXCEPT ![d].inFlight = None]
           /\ Settle(d, "unavailable")
           /\ UNCHANGED <<reservedFileBytes, wait>>
      ELSE /\ rec' = [rec EXCEPT ![d] =
                IF Lane[e] = "files"
                THEN Submitted(r, e, FileReservationBytes, None)
                ELSE Submitted(r, e, r.reservedBytes, r.submitLease)]
           /\ reservedFileBytes' =
                reservedFileBytes + (IF late THEN FileReservationBytes ELSE 0)
           /\ Settle(d, "received")
           /\ Notify({d}, "submitted")

\* acceptEnvelope, from the awaits of the fingerprint and of suite.open.
OpenEnvelope(d) ==
  /\ rec[d].inFlight # None
  /\ rec[d].inFlight.step = "opening"
  /\ LET e == rec[d].inFlight.env
         rejected == Hid[e] # d \/ Grade[e] = "rejected"
         count == rec[d].aeadFailures + 1
     IN  \/ /\ rejected
            /\ rec' = [rec EXCEPT ![d].inFlight = None]
            /\ Settle(d, "unavailable")
            /\ UNCHANGED <<reservedFileBytes, wait>>
         \/ \* A destroyed record has no private key left to open with.
            /\ ~rejected
            /\ Grade[e] = "forged" \/ rec[d].state = "destroyed"
            /\ CountFailure(d, count, [rec[d] EXCEPT !.aeadFailures = count,
                                                     !.inFlight = None])
            /\ Settle(d, "unavailable")
         \/ /\ ~rejected
            /\ Grade[e] # "forged"
            /\ Lane[e] = "files"
            /\ rec' = [rec EXCEPT ![d].inFlight.step = "decoding"]
            /\ UNCHANGED <<call, reservedFileBytes, wait>>
         \/ /\ ~rejected
            /\ Grade[e] # "forged"
            /\ Lane[e] = "text"
            /\ FinishAttempt(d)
  /\ UNCHANGED <<slot, beginning, delivered, acked>>

\* acceptEnvelope, from the await of decodeFileContainer.
DecodeContainer(d) ==
  /\ rec[d].inFlight # None
  /\ rec[d].inFlight.step = "decoding"
  /\ LET count == rec[d].containerFailures + 1
     IN  IF Grade[rec[d].inFlight.env] = "misfit"
         THEN /\ CountFailure(d, count, [rec[d] EXCEPT !.containerFailures = count,
                                                       !.inFlight = None])
              /\ Settle(d, "unavailable")
         ELSE FinishAttempt(d)
  /\ UNCHANGED <<slot, beginning, delivered, acked>>

-----------------------------------------------------------------------------
(* Waiting and collecting text *)

\* waitForSubmission, to its answer or its subscription.
Wait(w, d) ==
  /\ wait[w].status = "idle"
  /\ \/ /\ Expired(d)
        /\ rec' = [rec EXCEPT ![d] = Destroyed(@)]
        /\ reservedFileBytes' = reservedFileBytes - rec[d].reservedBytes
        /\ wait' = [v \in Waits |->
             IF v = w THEN [status |-> "unavailable", drop |-> d]
             ELSE IF wait[v].status = "parked" /\ wait[v].drop = d
             THEN [wait[v] EXCEPT !.status = "unavailable"] ELSE wait[v]]
     \/ /\ ~Expired(d)
        /\ wait' = [wait EXCEPT ![w] =
             [drop |-> d,
              status |-> CASE rec[d].state = "pending" -> "parked"
                           [] rec[d].state \in {"submitted", "transferring"}
                                -> "submitted"
                           [] OTHER -> "unavailable"]]
        /\ UNCHANGED <<rec, reservedFileBytes>>
  /\ UNCHANGED <<slot, call, beginning, delivered, acked>>

WaitTimeout(w) ==
  /\ wait[w].status = "parked"
  /\ wait' = [wait EXCEPT ![w].status = "unavailable"]
  /\ UNCHANGED <<rec, reservedFileBytes, slot, call, beginning, delivered, acked>>

\* claim: the one synchronous delivery of a text payload.  Its refusals, the one
\* for size included, change nothing.
Claim(d) ==
  /\ Live(d)
  /\ rec[d].state = "submitted"
  /\ rec[d].plaintext # None
  /\ rec[d].payloadKind # "files"
  /\ Retire(d)
  /\ delivered' = [delivered EXCEPT ![d] = @ + 1]
  /\ UNCHANGED <<slot, call, beginning, acked>>

-----------------------------------------------------------------------------
(* The file transfer *)

\* beginFileClaim, to the await of the decode.
BeginFileClaim(c, d) ==
  /\ beginning[c] = None
  /\ Live(d)
  /\ rec[d].plaintext # None
  /\ rec[d].payloadKind = "files"
  /\ rec[d].transfer = None
  /\ rec[d].state = "submitted"
  /\ rec[d].transferAttempts < MaxTransferAttempts
  /\ rec[d].age = "fresh"
  /\ beginning' = [beginning EXCEPT ![c] = d]
  /\ UNCHANGED <<rec, reservedFileBytes, slot, call, wait, delivered, acked>>

\* Variant of StillLendable: only another lease is looked for.
StillLendable_LeaseOnly(d) == rec[d].transfer = None

\* What is looked at again once the decode is back.
StillLendable(d) ==
  /\ rec[d].plaintext # None
  /\ rec[d].transfer = None
  /\ rec[d].state = "submitted"

\* beginFileClaim, from the await on: the lease is granted, or refused.
GrantFileClaim(c) ==
  /\ beginning[c] # None
  /\ LET d == beginning[c]
     IN  rec' = IF StillLendable(d) THEN [rec EXCEPT ![d] = Lent(@, c)] ELSE rec
  /\ beginning' = [beginning EXCEPT ![c] = None]
  /\ UNCHANGED <<reservedFileBytes, slot, call, wait, delivered, acked>>

\* Variant of HoldsLease: the owner is not compared.
HoldsLease_AnyOwner(c, d, id) ==
  /\ Live(d)
  /\ rec[d].plaintext # None
  /\ rec[d].state = "transferring"
  /\ rec[d].transfer # None
  /\ rec[d].transfer.id = id

\* The checks ack and commit share: a lease, its id and its owner.
HoldsLease(c, d, id) ==
  /\ Live(d)
  /\ rec[d].plaintext # None
  /\ rec[d].state = "transferring"
  /\ rec[d].transfer # None
  /\ rec[d].transfer.id = id
  /\ rec[d].transfer.owner = c

\* Variant of GiveBack: a failed transfer also returns the drop's reservation.
GiveBack_Releases(d) ==
  /\ rec' = [rec EXCEPT ![d] = [ClearLease(@) EXCEPT !.reservedBytes = 0]]
  /\ reservedFileBytes' = reservedFileBytes - rec[d].reservedBytes
  /\ UNCHANGED <<slot, call, beginning, wait, delivered, acked>>

\* clearLease and nothing else: the drop can be collected again.
GiveBack(d) ==
  /\ rec' = [rec EXCEPT ![d] = ClearLease(@)]
  /\ UNCHANGED <<reservedFileBytes, slot, call, beginning, wait, delivered, acked>>

\* ackFileClaimFrame: out of order or with the wrong size or digest it ends the lease.
AckFileClaimFrame(c, d, id, index, matches) ==
  /\ HoldsLease(c, d, id)
  /\ LET lease == rec[d].transfer
     IN  /\ lease.nextFrame < Frames[rec[d].plaintext]
         /\ IF index = lease.nextFrame /\ matches
            THEN /\ rec' = [rec EXCEPT ![d].transfer.nextFrame = @ + 1]
                 /\ acked' = acked \cup {<<d, id, c, index>>}
                 /\ UNCHANGED <<reservedFileBytes, slot, call, beginning, wait, delivered>>
            ELSE GiveBack(d)

\* commitFileClaim: the only place a file payload is retired.
CommitFileClaim(c, d, id, matches) ==
  /\ HoldsLease(c, d, id)
  /\ IF rec[d].transfer.nextFrame = Frames[rec[d].plaintext] /\ matches
     THEN /\ Retire(d)
          /\ delivered' = [delivered EXCEPT ![d] = @ + 1]
          /\ UNCHANGED <<slot, call, beginning, acked>>
     ELSE GiveBack(d)

\* abandonFileClaim: by transfer id alone, and on a record of any age.
AbandonFileClaim(d, id) ==
  /\ rec[d].transfer # None
  /\ rec[d].transfer.id = id
  /\ GiveBack(d)

\* The lease's own timer.
LeaseTimeout(d) ==
  /\ rec[d].transfer # None
  /\ GiveBack(d)

-----------------------------------------------------------------------------
(* Time and the end *)

\* The TTL comes closer: "closing" is under MIN_TRANSFER_LEASE_MS away.
Age(d) ==
  /\ Known(d)
  /\ rec[d].age # "expired"
  /\ rec' = [rec EXCEPT ![d].age = IF @ = "fresh" THEN "closing" ELSE "expired"]
  /\ UNCHANGED <<reservedFileBytes, slot, call, beginning, wait, delivered, acked>>

\* live, in any other call that looks an expired record up.
LookupExpired(d) ==
  /\ Expired(d)
  /\ Destroy({d})
  /\ UNCHANGED <<slot, call, beginning, delivered, acked>>

\* Variants of Sweep: drops that were collected, or submitted, are not visited.
Sweep_SkipsClaimed ==
  /\ \E d \in Drops : Expired(d) /\ rec[d].state # "claimed"
  /\ Destroy({d \in Drops : Expired(d) /\ rec[d].state # "claimed"})
  /\ UNCHANGED <<slot, call, beginning, delivered, acked>>

Sweep ==
  /\ \E d \in Drops : Expired(d)
  /\ Destroy({d \in Drops : Expired(d)})
  /\ UNCHANGED <<slot, call, beginning, delivered, acked>>

DestroyAll ==
  /\ \E d \in Drops : Known(d)
  /\ Destroy({d \in Drops : Known(d)})
  /\ UNCHANGED <<slot, call, beginning, delivered, acked>>

-----------------------------------------------------------------------------
Minting(d) == (\E kind \in Kinds : Create(d, kind)) \/ CreateFinish(d) \/ CreateFail(d)

Submitting(r) ==
  \/ \E d \in Drops, decl \in Declarations : AcquireSubmitSlot(r, d, decl)
  \/ \E d \in Drops, decl \in Declarations, e \in Envelopes \cup {None} :
       Submit(r, d, decl, e)
  \/ ReleaseSlot(r)

Accepting(d) == OpenEnvelope(d) \/ DecodeContainer(d)

Waiting(w) == (\E d \in Drops : Wait(w, d)) \/ WaitTimeout(w)

Transferring(c, d) ==
  \/ BeginFileClaim(c, d)
  \/ \E id \in 1..rec[d].transferAttempts :
       \/ /\ rec[d].plaintext # None
          /\ \E index \in 0..Frames[rec[d].plaintext], matches \in BOOLEAN :
               AckFileClaimFrame(c, d, id, index, matches)
       \/ \E matches \in BOOLEAN : CommitFileClaim(c, d, id, matches)

Ending(d) ==
  \/ \E id \in 1..rec[d].transferAttempts : AbandonFileClaim(d, id)
  \/ LeaseTimeout(d)
  \/ Age(d)
  \/ LookupExpired(d)

Next ==
  \/ \E d \in Drops : Minting(d) \/ Accepting(d) \/ Claim(d) \/ Ending(d)
  \/ \E r \in Requests : Submitting(r)
  \/ \E w \in Waits : Waiting(w)
  \/ \E c \in Claimants : GrantFileClaim(c) \/ \E d \in Drops : Transferring(c, d)
  \/ Sweep
  \/ DestroyAll

Spec == Init /\ [][Next]_vars

-----------------------------------------------------------------------------
(* Safety *)

TypeOK ==
  /\ rec \in [Drops -> Record]
  /\ reservedFileBytes \in Int
  /\ slot \in [Requests -> Slot \cup {None}]
  /\ call \in [Requests -> SubmitCall]
  /\ beginning \in [Claimants -> Drops \cup {None}]
  /\ wait \in [Waits -> WaitCall]
  /\ delivered \in [Drops -> Nat]
  /\ acked \subseteq Drops \X Nat \X Claimants \X Nat

\* The counter that create, the slot, the winner, the release, the retirement and
\* the destruction all adjust is always what the records hold: no reservation is
\* released twice, none is forgotten (fileBudget reports both sums to compare).
BudgetExact == reservedFileBytes = BytesHeld(Drops)

\* Live file payloads and admitted file bodies never exceed HANDOFF_MAX_LIVE_FILE_BYTES.
BudgetWithinLimit == reservedFileBytes <= MaxLiveFileBytes

\* Every reservation has somebody who will give it back: a drop minted for files,
\* a file payload, or the one unreleased slot that borrowed it.
ReservationOwned ==
  \A d \in Drops : rec[d].reservedBytes > 0 =>
    \/ rec[d].mintedKind = "files" /\ rec[d].state \in {"minting", "pending"}
    \/ rec[d].payloadKind = "files" /\ rec[d].state \in {"submitted", "transferring"}
    \/ \E r \in Requests : /\ rec[d].submitLease = r
                           /\ slot[r] = [drop |-> d, held |-> TRUE]

\* A file payload the broker holds is always paid for, whichever upload's release
\* comes late.
PayloadReserved ==
  \A d \in Drops : rec[d].plaintext # None /\ rec[d].payloadKind = "files" =>
                   rec[d].reservedBytes = FileReservationBytes

\* A payload exists exactly while it is collectable or lent, and is lent exactly
\* while one lease is live; only file payloads are ever lent.
LeaseMatchesState ==
  \A d \in Drops :
    /\ rec[d].transfer # None <=> rec[d].state = "transferring"
    /\ rec[d].plaintext # None <=> rec[d].state \in {"submitted", "transferring"}
    /\ rec[d].state = "transferring" => rec[d].payloadKind = "files"
    /\ rec[d].plaintext # None => rec[d].plaintext = rec[d].envelopeKey

\* A payload is handed out at most once, and nothing is left of it afterwards.
DeliveredOnce ==
  \A d \in Drops : /\ delivered[d] <= 1
                   /\ delivered[d] = 1 => /\ rec[d].state \in {"claimed", "destroyed"}
                                          /\ rec[d].reservedBytes = 0

\* A file drop is retired only after one claimant, within one lease, proved every
\* frame: acks of an earlier lease or of another connection never add up.
DeliveredWhole ==
  \A d \in Drops : delivered[d] = 1 /\ Lane[rec[d].envelopeKey] = "files" =>
    \E id \in 1..rec[d].transferAttempts, c \in Claimants :
      \A index \in 0..(Frames[rec[d].envelopeKey] - 1) : <<d, id, c, index>> \in acked

\* No subscription outlives the state it waits on: nobody sleeps on a drop that
\* was submitted, claimed or destroyed.
NoForgottenWait ==
  \A w \in Waits : wait[w].status = "parked" => rec[wait[w].drop].state = "pending"

\* A drop whose failure budget is spent is gone, and an attempt is only ever
\* running on one whose budget is not.
FailuresSpendDrop ==
  \A d \in Drops :
    /\ MaxAeadFailures \in {rec[d].aeadFailures, rec[d].containerFailures} =>
         rec[d].state = "destroyed"
    /\ rec[d].inFlight # None => rec[d].state \in {"pending", "destroyed"}

\* One handoff grants at most HANDOFF_MAX_TRANSFER_ATTEMPTS leases (SECURITY.md).
TransferAttemptsBounded ==
  \A d \in Drops : rec[d].transferAttempts <= MaxTransferAttempts

(* What no step may do *)

\* A payload is lost only to a delivery or to the end of its drop: a failed, timed
\* out, abandoned or refused transfer leaves it whole and still paid for.
PayloadKept ==
  [][\A d \in Drops : rec[d].plaintext # None =>
       \/ /\ rec'[d].plaintext = rec[d].plaintext
          /\ rec[d].payloadKind = "files" => rec'[d].reservedBytes = rec[d].reservedBytes
       \/ delivered'[d] = delivered[d] + 1
       \/ rec'[d].state = "destroyed"]_vars

(* The abstract promise, and the broker's states as its stages *)

Stage(state) ==
  CASE state \in {"unminted", "minting"} -> "none"
    [] state = "pending" -> "open"
    [] state = "submitted" -> "held"
    [] state = "transferring" -> "lent"
    [] state = "claimed" -> "spent"
    [] state = "destroyed" -> "over"

Promise == INSTANCE OneShot WITH
  Payloads <- Envelopes,
  stage <- [d \in Drops |-> Stage(rec[d].state)],
  content <- [d \in Drops |-> rec[d].envelopeKey],
  handed <- delivered

\* Every behaviour of the broker is one of a one-shot drop: one winner, at most one
\* delivery, a lent payload comes back or is handed over, and the end is final.
ImplementsOneShot == Promise!Spec
=============================================================================
