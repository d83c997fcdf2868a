---------------------------- MODULE ControlProofs ----------------------------
(***************************************************************************)
(* What holds of the control server's conversations for every number of    *)
(* connections, drops and frames.                                          *)
(*                                                                         *)
(* Every step of the composition is a step of the broker or leaves it      *)
(* alone, so the broker's invariant comes with it; what is left is that    *)
(* the sessions and the broker's leases move together (Match).             *)
(***************************************************************************)
EXTENDS ControlServer, BrokerProofs

\* What one session may look like, whatever the broker does.
InTurn(k) ==
  /\ k.awaits = "decode" \/ k.phase = "idle" => k.lease = None /\ k.next = 0
  /\ k.awaits = "decode" => k.phase \in {"beginning", "closed"}
  /\ k.awaits = "nothing" => k.phase \notin {"beginning", "streaming"}
  /\ k.phase = "idle" => k.awaits = "nothing"
  /\ k.phase = "closed" => k.socket # "open"
  /\ k.sent \in {k.next, k.next + 1}
  /\ k.phase = "awaiting_frame_ack" /\ k.awaits = "nothing" => k.sent = k.next + 1

\* Who holds a lease, and until when.
Backed(k) ==
  /\ k.socket = "open" /\ k.phase \notin {"idle", "closed"} =>
       k.awaits = "decode" \/ k.lease # None
  /\ k.lease # None => \/ k.socket # "closed" /\ k.phase # "closed"
                       \/ k.awaits \in Writes
                       \/ k.flooded
  /\ k.awaits = "decode" /\ k.phase = "closed" => k.flooded

\* Broker and sessions name the same leases, and count the same frames.
Match ==
  /\ \A d \in Drops : rec[d].transfer # None =>
       conv[rec[d].transfer.owner].lease = [drop |-> d, id |-> rec[d].transfer.id]
  /\ \A c \in Claimants : conv[c].lease # None =>
       rec[conv[c].lease.drop].transfer =
         [id |-> conv[c].lease.id, owner |-> c, nextFrame |-> conv[c].next]

\* A lease's number was issued by its record's attempt counter.
Issued ==
  \A d \in Drops : rec[d].transfer # None =>
    rec[d].transfer.id \in 1..rec[d].transferAttempts

ConvInv ==
  /\ conv \in [Claimants -> Conversation]
  /\ \A c \in Claimants : InTurn(conv[c]) /\ Backed(conv[c])
  /\ Match
  /\ Issued

Good(k) == k \in Conversation /\ InTurn(k) /\ Backed(k)

\* What a step may do to the lease of a record it does not lend.
Quiet(r, q) == \/ q.transfer = None
               \/ q.transfer = r.transfer /\ q.transferAttempts = r.transferAttempts

Owns(c, d) == conv[c].lease # None /\ conv[c].lease.drop = d

\* The lease c holds, if any, is gone, and nothing else of any lease has changed.
Freed(c) ==
  \A d \in Drops :
    /\ rec'[d].transfer = IF Owns(c, d) THEN None ELSE rec[d].transfer
    /\ rec'[d].transferAttempts = rec[d].transferAttempts

-----------------------------------------------------------------------------
(* One session *)

\* Any field may be given any value of its type.
LEMMA SessionUpdate ==
  ASSUME NEW k \in Conversation
  PROVE  /\ \A v \in {"idle", "beginning", "streaming", "awaiting_frame_ack",
                      "awaiting_commit", "closed"} : [k EXCEPT !.phase = v] \in Conversation
         /\ \A v \in Writes \cup {"nothing", "decode"} : [k EXCEPT !.awaits = v] \in Conversation
         /\ \A v \in [drop : Drops, id : Nat] \cup {None} : [k EXCEPT !.lease = v] \in Conversation
         /\ \A v \in Nat : [k EXCEPT !.next = v] \in Conversation
         /\ \A v \in Nat : [k EXCEPT !.sent = v] \in Conversation
         /\ \A v \in {"open", "down", "closed"} : [k EXCEPT !.socket = v] \in Conversation
         /\ \A v \in BOOLEAN : [k EXCEPT !.flooded = v] \in Conversation
  BY SMT DEF Conversation

LEMMA ShutTyped ==
  ASSUME NEW k \in Conversation
  PROVE  Shut(k) \in Conversation /\ Shut(k).socket # "open"
  <1>1. CASE k.socket = "open"
    <2>1. Shut(k) = [k EXCEPT !.socket = "down"]
      BY <1>1 DEF Shut
    <2> QED BY <2>1, SessionUpdate, SMT DEF Conversation
  <1>2. CASE k.socket # "open"
    <2>1. Shut(k) = [k EXCEPT !.socket = k.socket]
      BY <1>2 DEF Shut
    <2>2. k.socket \in {"open", "down", "closed"}
      BY DEF Conversation
    <2> QED BY <1>2, <2>1, <2>2, SessionUpdate, SMT DEF Conversation
  <1> QED BY <1>1, <1>2

LEMMA EndedGood ==
  ASSUME NEW k, Good(k)
  PROVE  Good(Ended(k)) /\ Ended(k).lease = None
  <1>1. k \in Conversation /\ Shut(k) \in Conversation
    BY ShutTyped DEF Good
  <1>2. Ended(k) \in Conversation
    BY <1>1, SessionUpdate, Zenon DEF Ended
  <1>3. /\ Ended(k).lease = None /\ Ended(k).phase = "closed"
        /\ Ended(k).awaits = "nothing" /\ Ended(k).socket # "open"
        /\ Ended(k).sent = k.sent /\ Ended(k).next = k.next
    BY <1>1, SMT DEF Ended, Shut, Conversation
  <1>4. InTurn(Ended(k)) /\ Backed(Ended(k))
    BY <1>3, SMT DEF Good, InTurn, Backed
  <1> QED BY <1>2, <1>3, <1>4 DEF Good

LEMMA ShutGood ==
  ASSUME NEW k, Good(k)
  PROVE  /\ Good(Shut(k))
         /\ Shut(k).lease = k.lease /\ Shut(k).next = k.next
  <1>1. k \in Conversation /\ Shut(k) \in Conversation /\ Shut(k).socket # "open"
    BY ShutTyped DEF Good
  <1>2. /\ Shut(k).lease = k.lease /\ Shut(k).phase = k.phase
        /\ Shut(k).awaits = k.awaits /\ Shut(k).flooded = k.flooded
        /\ Shut(k).sent = k.sent /\ Shut(k).next = k.next
        /\ Shut(k).socket = "closed" => k.socket = "closed"
    BY <1>1, SMT DEF Shut, Conversation
  <1>3. InTurn(Shut(k)) /\ Backed(Shut(k))
    BY <1>1, <1>2, SMT DEF Good, InTurn, Backed
  <1> QED BY <1>1, <1>2, <1>3 DEF Good

LEMMA LostGood ==
  ASSUME NEW k, Good(k), k.awaits # "decode"
  PROVE  Good(LeaseLost(k)) /\ LeaseLost(k).lease = None
  <1>1. k \in Conversation /\ Shut(k) \in Conversation
    BY ShutTyped DEF Good
  <1>2. LeaseLost(k) \in Conversation
    BY <1>1, SessionUpdate, Zenon DEF LeaseLost
  <1>3. /\ LeaseLost(k).lease = None /\ LeaseLost(k).phase = "closed"
        /\ LeaseLost(k).awaits = k.awaits /\ LeaseLost(k).socket # "open"
        /\ LeaseLost(k).sent = k.sent /\ LeaseLost(k).next = k.next
    BY <1>1, SMT DEF LeaseLost, Shut, Conversation
  <1>4. InTurn(LeaseLost(k)) /\ Backed(LeaseLost(k))
    BY <1>3, SMT DEF Good, InTurn, Backed
  <1> QED BY <1>2, <1>3, <1>4 DEF Good

LEMMA FloodedGood ==
  ASSUME NEW k, Good(k), k.phase \in {"beginning", "streaming"}, NEW b,
         b = [Ended(k) EXCEPT !.awaits = k.awaits, !.flooded = k.awaits = "decode"]
  PROVE  Good(b) /\ b.lease = None
  <1>1. k \in Conversation /\ Ended(k) \in Conversation
    BY EndedGood DEF Good
  <1>2. k.awaits \in Writes \cup {"nothing", "decode"}
    BY <1>1, SMT DEF Conversation
  <1>3. b \in Conversation
    <2>1. (k.awaits = "decode") \in BOOLEAN
      OBVIOUS
    <2> QED BY <1>1, <1>2, <2>1, SessionUpdate, Zenon
  <1>4. /\ b.lease = None /\ b.phase = "closed" /\ b.awaits = k.awaits
        /\ b.socket # "open" /\ b.sent = k.sent /\ b.next = k.next
    BY <1>1, SMT DEF Ended, Shut, Conversation
  <1>5. b.awaits = "decode" => b.flooded
    BY <1>1, <1>4, Zenon DEF Ended, Shut, Conversation
  <1>6. InTurn(b) /\ Backed(b)
    BY <1>4, <1>5, SMT DEF Good, InTurn, Backed
  <1> QED BY <1>3, <1>4, <1>6 DEF Good

LEMMA ClosedGood ==
  ASSUME NEW k, Good(k), k.socket = "down", NEW b,
         b = [k EXCEPT !.socket = "closed", !.lease = None]
  PROVE  Good(b) /\ b.lease = None
  <1>1. k \in Conversation
    BY DEF Good
  <1>2. b \in Conversation
    BY <1>1, SessionUpdate, Zenon
  <1>3. /\ b.lease = None /\ b.phase = k.phase /\ b.awaits = k.awaits
        /\ b.socket = "closed" /\ b.sent = k.sent /\ b.next = k.next
        /\ b.flooded = k.flooded
    BY <1>1, SMT DEF Conversation
  <1>4. InTurn(b) /\ Backed(b)
    BY <1>3, SMT DEF Good, InTurn, Backed
  <1> QED BY <1>2, <1>3, <1>4 DEF Good

-----------------------------------------------------------------------------
(* What the broker's steps do to leases *)

\* clearLease, retire and destroy leave no lease.
LEMMA Cleared ==
  ASSUME NEW r \in Record
  PROVE  /\ ClearLease(r).transfer = None
         /\ ClearLease(r).transferAttempts = r.transferAttempts
         /\ Retired(ClearLease(r)).transfer = None
         /\ Retired(ClearLease(r)).transferAttempts = r.transferAttempts
         /\ Destroyed(r).transfer = None
  <1>1. ClearLease(r) \in Record
    BY ClearLeaseTyped
  <1>2. \A q \in Record : /\ ClearLease(q).transfer = None
                          /\ ClearLease(q).transferAttempts = q.transferAttempts
    BY SMT DEF ClearLease, Record
  <1>3. \A q \in Record : Destroyed(q).transfer = None
    BY SMT DEF Destroyed, ClearLease, Record
  <1>4. \A q \in Record : /\ Retired(q).transfer = None
                          /\ Retired(q).transferAttempts = q.transferAttempts
    BY SMT DEF Retired, ClearLease, Record
  <1> QED BY <1>1, <1>2, <1>3, <1>4

LEMMA QuietHere ==
  ASSUME rec \in [Drops -> Record], NEW d \in Drops, NEW q,
         rec' = [rec EXCEPT ![d] = q], Quiet(rec[d], q)
  PROVE  \A e \in Drops : Quiet(rec[e], rec'[e])
  BY DEF Quiet

LEMMA DestroyQuiet ==
  ASSUME rec \in [Drops -> Record], NEW S, Destroy(S)
  PROVE  \A d \in Drops : Quiet(rec[d], rec'[d])
  BY Cleared DEF Destroy, Quiet

LEMMA SubmittingQuiet ==
  ASSUME rec \in [Drops -> Record], slot \in [Requests -> Slot \cup {None}],
         NEW r \in Requests, Submitting(r)
  PROVE  \A d \in Drops : Quiet(rec[d], rec'[d])
  <1>1. ASSUME rec' = rec PROVE \A d \in Drops : Quiet(rec[d], rec'[d])
    BY <1>1 DEF Quiet
  <1>2. ASSUME NEW d \in Drops, GrantSlot(r, d)
        PROVE  \A e \in Drops : Quiet(rec[e], rec'[e])
    <2>1. PICK q : /\ rec' = [rec EXCEPT ![d] = q]
                   /\ q = [rec[d] EXCEPT !.bodySlotBusy = TRUE,
                             !.submitLease = IF FileSubmitLease(d) = "taken" THEN r ELSE @,
                             !.reservedBytes = IF FileSubmitLease(d) = "taken"
                                               THEN FileReservationBytes ELSE @]
      BY <1>2 DEF GrantSlot
    <2>2. Quiet(rec[d], q)
      BY <2>1, SMT DEF Quiet, Record
    <2> QED BY <2>1, <2>2, QuietHere
  <1>3. ASSUME ReleaseSlot(r) PROVE \A d \in Drops : Quiet(rec[d], rec'[d])
    <2>1. PICK d \in Drops : /\ d = slot[r].drop
                             /\ rec' = [rec EXCEPT ![d] = ReleasedSlot(r, rec[d])]
      BY <1>3 DEF ReleaseSlot, Slot
    <2>2. Quiet(rec[d], ReleasedSlot(r, rec[d]))
      BY SMT DEF Quiet, Record, ReleasedSlot
    <2> QED BY <2>1, <2>2, QuietHere
  <1>4. ASSUME NEW d \in Drops, NEW decl, NEW e, Submit(r, d, decl, e)
        PROVE  \A b \in Drops : Quiet(rec[b], rec'[b])
    <2>1. CASE rec' = [rec EXCEPT ![d].inFlight = [env |-> e, step |-> "opening"]]
      <3>1. PICK q : /\ rec' = [rec EXCEPT ![d] = q]
                     /\ q = [rec[d] EXCEPT !.inFlight = [env |-> e, step |-> "opening"]]
        BY <2>1
      <3>2. Quiet(rec[d], q)
        BY <3>1, SMT DEF Quiet, Record
      <3> QED BY <3>1, <3>2, QuietHere
    <2>2. \/ Destroy({d}) \/ rec' = rec
          \/ rec' = [rec EXCEPT ![d].inFlight = [env |-> e, step |-> "opening"]]
      BY <1>4 DEF Submit
    <2> QED BY <1>1, <2>1, <2>2, DestroyQuiet
  <1>5. ASSUME NEW d \in Drops, NEW decl, AcquireSubmitSlot(r, d, decl)
        PROVE  \A b \in Drops : Quiet(rec[b], rec'[b])
    BY <1>1, <1>2, <1>5, DestroyQuiet DEF AcquireSubmitSlot
  <1> QED BY <1>3, <1>4, <1>5 DEF Submitting

LEMMA MintingQuiet ==
  ASSUME rec \in [Drops -> Record], NEW d \in Drops, Minting(d)
  PROVE  \A e \in Drops : Quiet(rec[e], rec'[e])
  <1>1. Blank \in Record /\ Blank.transfer = None
    BY BlankSound DEF SoundRecord, Blank
  <1>2. ASSUME NEW kind \in Kinds, Create(d, kind)
        PROVE  \A e \in Drops : Quiet(rec[e], rec'[e])
    <2>1. PICK q : /\ rec' = [rec EXCEPT ![d] = q]
                   /\ q = [Blank EXCEPT !.state = "minting", !.mintedKind = kind,
                             !.payloadKind = kind,
                             !.reservedBytes = IF kind = "files"
                                               THEN FileReservationBytes ELSE 0]
      BY <1>2 DEF Create
    <2>2. q.transfer = None
      BY <2>1, SMT DEF Blank
    <2> QED BY <2>1, <2>2, QuietHere DEF Quiet
  <1>3. ASSUME CreateFinish(d) PROVE \A e \in Drops : Quiet(rec[e], rec'[e])
    <2>1. PICK q : rec' = [rec EXCEPT ![d] = q] /\ q = [rec[d] EXCEPT !.state = "pending"]
      BY <1>3 DEF CreateFinish
    <2>2. Quiet(rec[d], q)
      BY <2>1, SMT DEF Quiet, Record
    <2> QED BY <2>1, <2>2, QuietHere
  <1>4. ASSUME CreateFail(d) PROVE \A e \in Drops : Quiet(rec[e], rec'[e])
    <2>1. rec' = [rec EXCEPT ![d] = Blank] /\ Quiet(rec[d], Blank)
      BY <1>1, <1>4 DEF CreateFail, Quiet
    <2> QED BY <2>1, QuietHere
  <1> QED BY <1>2, <1>3, <1>4 DEF Minting

LEMMA FailureQuiet ==
  ASSUME rec \in [Drops -> Record], NEW d \in Drops, NEW count, NEW q \in Record,
         q.transfer = rec[d].transfer, q.transferAttempts = rec[d].transferAttempts,
         CountFailure(d, count, q)
  PROVE  \A e \in Drops : Quiet(rec[e], rec'[e])
  <1>1. \/ rec' = [rec EXCEPT ![d] = Destroyed(q)]
        \/ rec' = [rec EXCEPT ![d] = q]
    BY DEF CountFailure
  <1>2. Quiet(rec[d], Destroyed(q)) /\ Quiet(rec[d], q)
    BY Cleared DEF Quiet
  <1> QED BY <1>1, <1>2, QuietHere

LEMMA AcceptingQuiet ==
  ASSUME rec \in [Drops -> SoundRecord], NEW d \in Drops, Accepting(d)
  PROVE  \A e \in Drops : Quiet(rec[e], rec'[e])
  <1> DEFINE opened == rec[d].aeadFailures + 1
             decoded == rec[d].containerFailures + 1
             qo == [rec[d] EXCEPT !.aeadFailures = opened, !.inFlight = None]
             qd == [rec[d] EXCEPT !.containerFailures = decoded, !.inFlight = None]
  <1>1. /\ rec \in [Drops -> Record] /\ rec[d] \in Record /\ Sound(rec[d])
        /\ rec[d].inFlight # None
    BY DEF SoundRecord, Accepting, OpenEnvelope, DecodeContainer
  <1>2. ASSUME NEW v, rec' = [rec EXCEPT ![d].inFlight = v]
        PROVE  \A e \in Drops : Quiet(rec[e], rec'[e])
    <2>1. PICK q : rec' = [rec EXCEPT ![d] = q] /\ q = [rec[d] EXCEPT !.inFlight = v]
      BY <1>2
    <2>2. Quiet(rec[d], q)
      BY <1>1, <2>1, SMT DEF Quiet, Record
    <2> QED BY <1>1, <2>1, <2>2, QuietHere
  <1>3. opened \in 0..MaxAeadFailures /\ decoded \in 0..MaxAeadFailures
    BY <1>1, LimitAssumption, SMT DEF Sound, FailuresLeft, Record
  <1>4. qo \in Record /\ qd \in Record
    <2> HIDE DEF opened, decoded
    <2> QED BY <1>1, <1>3, FieldUpdate, Zenon
  <1>5. /\ qo.transfer = rec[d].transfer /\ qo.transferAttempts = rec[d].transferAttempts
        /\ qd.transfer = rec[d].transfer /\ qd.transferAttempts = rec[d].transferAttempts
    BY <1>1, SMT DEF Record
  <1>6. CASE CountFailure(d, opened, qo) \/ CountFailure(d, decoded, qd)
    <2> HIDE DEF qo, qd, opened, decoded
    <2> QED BY <1>1, <1>4, <1>5, <1>6, FailureQuiet
  <1>7. CASE FinishAttempt(d)
    <2>1. CASE rec' = [rec EXCEPT ![d].inFlight = None]
      BY <1>2, <2>1
    <2>2. ASSUME NEW e, NEW bytes, NEW lease,
                 rec' = [rec EXCEPT ![d] = Submitted(rec[d], e, bytes, lease)]
          PROVE  \A b \in Drops : Quiet(rec[b], rec'[b])
      <3>1. Quiet(rec[d], Submitted(rec[d], e, bytes, lease))
        BY <1>1, SMT DEF Quiet, Submitted, Record
      <3> QED BY <1>1, <2>2, <3>1, QuietHere
    <2> QED BY <1>7, <2>1, <2>2 DEF FinishAttempt
  <1>8. CASE rec' = [rec EXCEPT ![d].inFlight.step = "decoding"]
    BY <1>2, <1>8
  <1> QED BY <1>2, <1>6, <1>7, <1>8, Zenon DEF Accepting, OpenEnvelope, DecodeContainer

LEMMA WaitingQuiet ==
  ASSUME rec \in [Drops -> Record], NEW w \in Waits, Waiting(w)
  PROVE  \A d \in Drops : Quiet(rec[d], rec'[d])
  <1>1. ASSUME NEW d \in Drops, rec' = [rec EXCEPT ![d] = Destroyed(@)]
        PROVE  \A e \in Drops : Quiet(rec[e], rec'[e])
    <2>1. Quiet(rec[d], Destroyed(rec[d]))
      BY Cleared DEF Quiet
    <2> QED BY <1>1, <2>1, QuietHere
  <1>2. CASE rec' = rec
    BY <1>2 DEF Quiet
  <1> QED BY <1>1, <1>2 DEF Waiting, Wait, WaitTimeout

LEMMA GiveBackFrees ==
  ASSUME rec \in [Drops -> Record], NEW d \in Drops, GiveBack(d)
  PROVE  \A e \in Drops :
           /\ rec'[e].transfer = IF e = d THEN None ELSE rec[e].transfer
           /\ rec'[e].transferAttempts = rec[e].transferAttempts
  <1>1. rec' = [rec EXCEPT ![d] = ClearLease(rec[d])]
    BY DEF GiveBack
  <1> QED BY <1>1, Cleared

LEMMA RetireFrees ==
  ASSUME rec \in [Drops -> Record], NEW d \in Drops, Retire(d)
  PROVE  \A e \in Drops :
           /\ rec'[e].transfer = IF e = d THEN None ELSE rec[e].transfer
           /\ rec'[e].transferAttempts = rec[e].transferAttempts
  <1>1. rec' = [rec EXCEPT ![d] = Retired(ClearLease(rec[d]))]
    BY DEF Retire
  <1> QED BY <1>1, Cleared

LEMMA ElsewhereQuiet ==
  ASSUME IInv, Elsewhere
  PROVE  \A d \in Drops : Quiet(rec[d], rec'[d])
  <1>1. /\ rec \in [Drops -> SoundRecord] /\ rec \in [Drops -> Record]
        /\ slot \in [Requests -> Slot \cup {None}]
    BY DEF IInv, OthersTyped, SoundRecord
  <1>2. ASSUME NEW d \in Drops, Retire(d) \/ LeaseTimeout(d)
        PROVE  \A e \in Drops : Quiet(rec[e], rec'[e])
    BY <1>1, <1>2, RetireFrees, GiveBackFrees DEF LeaseTimeout, Quiet
  <1>3. ASSUME NEW d \in Drops, Age(d) PROVE \A e \in Drops : Quiet(rec[e], rec'[e])
    <2>1. PICK q, v : rec' = [rec EXCEPT ![d] = q] /\ q = [rec[d] EXCEPT !.age = v]
      BY <1>3 DEF Age
    <2>2. Quiet(rec[d], q)
      BY <1>1, <2>1, SMT DEF Quiet, Record
    <2> QED BY <1>1, <2>1, <2>2, QuietHere
  <1>4. ASSUME NEW S, Destroy(S) PROVE \A d \in Drops : Quiet(rec[d], rec'[d])
    BY <1>1, <1>4, DestroyQuiet
  <1>5. ASSUME NEW d \in Drops, Claim(d) \/ LookupExpired(d)
        PROVE  \A e \in Drops : Quiet(rec[e], rec'[e])
    BY <1>2, <1>4, <1>5 DEF Claim, LookupExpired
  <1>6. Sweep \/ DestroyAll => \A d \in Drops : Quiet(rec[d], rec'[d])
    BY <1>4 DEF Sweep, DestroyAll
  <1> QED BY <1>1, <1>2, <1>3, <1>5, <1>6, MintingQuiet, AcceptingQuiet,
             SubmittingQuiet, WaitingQuiet DEF Elsewhere

-----------------------------------------------------------------------------
(* Broker and sessions move together *)

\* A connection gave its lease back, or lost it to its own commit.
LEMMA FreedMatches ==
  ASSUME ConvInv, rec \in [Drops -> Record], NEW c \in Claimants, NEW k,
         k.lease = None, conv' = [conv EXCEPT ![c] = k], Freed(c)
  PROVE  Match' /\ Issued'
  <1>1. /\ conv \in [Claimants -> Conversation] /\ Match /\ Issued
        /\ \A b \in Claimants : b # c => conv'[b] = conv[b]
        /\ conv'[c].lease = None
    BY DEF ConvInv
  <1>2. ASSUME NEW d \in Drops, rec'[d].transfer # None
        PROVE  /\ ~Owns(c, d) /\ rec'[d].transfer = rec[d].transfer
               /\ rec[d].transfer # None /\ rec[d].transfer.owner \in Claimants
               /\ rec[d].transfer.id \in Nat
               /\ rec'[d].transferAttempts = rec[d].transferAttempts
    BY <1>2 DEF Freed, Record, TransferLease
  <1>3. ASSUME NEW d \in Drops, rec'[d].transfer # None
        PROVE  conv'[rec'[d].transfer.owner].lease = [drop |-> d, id |-> rec'[d].transfer.id]
    <2>1. conv[rec[d].transfer.owner].lease = [drop |-> d, id |-> rec[d].transfer.id]
      BY <1>1, <1>2, <1>3 DEF Match
    <2>2. rec[d].transfer.owner # c
      <3> SUFFICES ASSUME rec[d].transfer.owner = c PROVE Owns(c, d)
        BY <1>2, <1>3
      <3>1. conv[c].lease = [drop |-> d, id |-> rec[d].transfer.id]
        BY <2>1
      <3> QED BY <1>2, <1>3, <3>1, LeaseAssumption DEF Owns
    <2> QED BY <1>1, <1>2, <1>3, <2>1, <2>2
  <1>4. ASSUME NEW b \in Claimants, conv'[b].lease # None
        PROVE  rec'[conv'[b].lease.drop].transfer =
                 [id |-> conv'[b].lease.id, owner |-> b, nextFrame |-> conv'[b].next]
    <2>1. b # c /\ conv'[b] = conv[b] /\ conv[b].lease \in [drop : Drops, id : Nat]
      BY <1>1, <1>4 DEF Conversation
    <2>2. rec[conv[b].lease.drop].transfer =
            [id |-> conv[b].lease.id, owner |-> b, nextFrame |-> conv[b].next]
      BY <1>1, <1>4, <2>1 DEF Match
    <2>3. ~Owns(c, conv[b].lease.drop)
      <3> SUFFICES ASSUME Owns(c, conv[b].lease.drop) PROVE FALSE
        OBVIOUS
      <3>1. rec[conv[b].lease.drop].transfer.owner = c
        <4>1. conv[c].lease # None /\ conv[c].lease.drop = conv[b].lease.drop
          BY DEF Owns
        <4>2. rec[conv[c].lease.drop].transfer =
                [id |-> conv[c].lease.id, owner |-> c, nextFrame |-> conv[c].next]
          BY <1>1, <4>1 DEF Match
        <4> QED BY <4>1, <4>2
      <3> QED BY <2>1, <2>2, <3>1
    <2> QED BY <2>1, <2>2, <2>3 DEF Freed
  <1>5. Issued'
    BY <1>1, <1>2 DEF Issued
  <1> QED BY <1>3, <1>4, <1>5 DEF Match

\* No lease changed, and a session went on.
LEMMA KeptMatches ==
  ASSUME ConvInv, rec \in [Drops -> Record], NEW c \in Claimants, NEW k,
         k.lease = conv[c].lease, k.lease # None => k.next = conv[c].next,
         conv' = [conv EXCEPT ![c] = k], rec' = rec
  PROVE  Match' /\ Issued'
  <1>1. /\ conv \in [Claimants -> Conversation] /\ Match /\ Issued
        /\ \A b \in Claimants : /\ conv'[b].lease = conv[b].lease
                                /\ conv[b].lease # None => conv'[b].next = conv[b].next
    BY DEF ConvInv
  <1>2. \A d \in Drops : rec[d].transfer # None => rec[d].transfer.owner \in Claimants
    BY DEF Record, TransferLease
  <1> QED BY <1>1, <1>2 DEF Match, Issued

\* The broker took leases away and told their holders.
LEMMA NoticeMatches ==
  ASSUME ConvInv, rec \in [Drops -> Record], Notice,
         \A d \in Drops : Quiet(rec[d], rec'[d])
  PROVE  /\ Match' /\ Issued'
         /\ \A c \in Claimants : Good(conv'[c])
  <1> DEFINE Taken(c) == \E d \in Drops : /\ rec[d].transfer # None
                                          /\ rec[d].transfer.owner = c
                                          /\ rec'[d].transfer = None
  <1>1. /\ conv \in [Claimants -> Conversation] /\ Match /\ Issued
        /\ \A c \in Claimants : Good(conv[c])
        /\ \A c \in Claimants :
             conv'[c] = IF Taken(c) THEN LeaseLost(conv[c]) ELSE conv[c]
    BY DEF ConvInv, Notice, Good
  <1>2. ASSUME NEW d \in Drops, rec[d].transfer # None
        PROVE  /\ rec[d].transfer.owner \in Claimants /\ rec[d].transfer.id \in Nat
               /\ conv[rec[d].transfer.owner].lease = [drop |-> d, id |-> rec[d].transfer.id]
               /\ conv[rec[d].transfer.owner].lease # None
               /\ conv[rec[d].transfer.owner].lease.drop = d
    <2>1. rec[d].transfer.owner \in Claimants /\ rec[d].transfer.id \in Nat
      BY <1>2 DEF Record, TransferLease
    <2> QED BY <1>1, <1>2, <2>1, LeaseAssumption DEF Match
  <1>3. ASSUME NEW c \in Claimants, Taken(c)
        PROVE  Good(conv'[c]) /\ conv'[c].lease = None
    <2>1. conv[c].lease # None
      BY <1>2, <1>3
    <2>2. conv[c].awaits # "decode"
      BY <1>1, <2>1 DEF Good, InTurn
    <2> HIDE DEF Taken
    <2> QED BY <1>1, <1>3, <2>2, LostGood
  <1>4. \A c \in Claimants : Good(conv'[c])
    <2> HIDE DEF Taken
    <2> QED BY <1>1, <1>3
  <1>5. ASSUME NEW d \in Drops, rec'[d].transfer # None
        PROVE  /\ conv'[rec'[d].transfer.owner].lease = [drop |-> d, id |-> rec'[d].transfer.id]
               /\ rec'[d].transfer.id \in 1..rec'[d].transferAttempts
    <2>1. /\ rec'[d].transfer = rec[d].transfer
          /\ rec'[d].transferAttempts = rec[d].transferAttempts
      BY <1>5 DEF Quiet
    <2>2. ~Taken(rec[d].transfer.owner)
      BY <1>2, <1>5, <2>1
    <2> HIDE DEF Taken
    <2> QED BY <1>1, <1>2, <1>5, <2>1, <2>2 DEF Issued
  <1>6. ASSUME NEW c \in Claimants, conv'[c].lease # None
        PROVE  rec'[conv'[c].lease.drop].transfer =
                 [id |-> conv'[c].lease.id, owner |-> c, nextFrame |-> conv'[c].next]
    <2>1. ~Taken(c)
      BY <1>3, <1>6
    <2>2. conv'[c] = conv[c]
      <3> HIDE DEF Taken
      <3> QED BY <1>1, <2>1
    <2>3. conv[c].lease \in [drop : Drops, id : Nat]
      BY <1>1, <1>6, <2>2 DEF Conversation
    <2>4. rec[conv[c].lease.drop].transfer =
            [id |-> conv[c].lease.id, owner |-> c, nextFrame |-> conv[c].next]
      BY <1>1, <1>6, <2>2 DEF Match
    <2>5. conv[c].next \in Nat
      BY <1>1 DEF Conversation
    <2>6. rec[conv[c].lease.drop].transfer # None
      BY <2>3, <2>4, <2>5, NoneAssumption
    <2>7. rec'[conv[c].lease.drop].transfer = rec[conv[c].lease.drop].transfer
      BY <2>1, <2>3, <2>4, <2>6 DEF Quiet
    <2> QED BY <2>2, <2>4, <2>7
  <1> QED BY <1>4, <1>5, <1>6 DEF Match, Issued

\* releaseLease, and the commit, end what the session holds.
LEMMA ReleaseFrees ==
  ASSUME IInv, ConvInv, NEW c \in Claimants, ReleaseLease(c)
  PROVE  Freed(c) /\ [Next]_vars
  <1>1. rec \in [Drops -> Record] /\ Match /\ Issued /\ conv \in [Claimants -> Conversation]
    BY DEF IInv, ConvInv, SoundRecord
  <1> DEFINE lease == conv[c].lease
  <1>2. CASE lease = None
    <2>1. ~Lends(c)
      BY <1>2 DEF Lends
    <2>2. UNCHANGED vars
      BY <2>1 DEF ReleaseLease
    <2> QED BY <1>2, <2>2 DEF vars, Freed, Owns
  <1>3. CASE lease # None
    <2>1. /\ lease.drop \in Drops /\ lease.id \in Nat /\ conv[c].next \in Nat
      BY <1>1, <1>3 DEF Conversation
    <2>2. rec[lease.drop].transfer =
            [id |-> lease.id, owner |-> c, nextFrame |-> conv[c].next]
      BY <1>1, <1>3 DEF Match
    <2>3. rec[lease.drop].transfer # None /\ rec[lease.drop].transfer.id = lease.id
      BY <2>1, <2>2, NoneAssumption
    <2>4. AbandonFileClaim(lease.drop, lease.id)
      BY <1>3, <2>3 DEF ReleaseLease, Lends
    <2>5. Freed(c)
      <3> HIDE DEF lease
      <3>1. \A d \in Drops : Owns(c, d) <=> d = lease.drop
        BY <1>3 DEF Owns, lease
      <3>2. GiveBack(lease.drop)
        BY <2>4 DEF AbandonFileClaim
      <3> QED BY <1>1, <2>1, <3>1, <3>2, GiveBackFrees DEF Freed
    <2>6. lease.id \in 1..rec[lease.drop].transferAttempts
      BY <1>1, <2>1, <2>3 DEF Issued
    <2>7. Next
      <3> HIDE DEF lease
      <3> QED BY <2>1, <2>4, <2>6 DEF Next, Ending
    <2> QED BY <2>5, <2>7
  <1> QED BY <1>2, <1>3

\* A line of the conversation that names the lease it holds.
LEMMA HeldLease ==
  ASSUME IInv, ConvInv, NEW c \in Claimants, conv[c].lease # None
  PROVE  /\ conv[c].lease.drop \in Drops /\ conv[c].lease.id \in Nat /\ conv[c].next \in Nat
         /\ rec[conv[c].lease.drop].transfer =
              [id |-> conv[c].lease.id, owner |-> c, nextFrame |-> conv[c].next]
         /\ rec[conv[c].lease.drop].transfer # None
         /\ conv[c].lease.id \in 1..rec[conv[c].lease.drop].transferAttempts
         /\ \A d \in Drops : Owns(c, d) <=> d = conv[c].lease.drop
  <1>1. /\ conv[c].lease.drop \in Drops /\ conv[c].lease.id \in Nat /\ conv[c].next \in Nat
    BY DEF ConvInv, Conversation
  <1>2. rec[conv[c].lease.drop].transfer =
          [id |-> conv[c].lease.id, owner |-> c, nextFrame |-> conv[c].next]
    BY DEF ConvInv, Match
  <1>3. /\ rec[conv[c].lease.drop].transfer # None
        /\ rec[conv[c].lease.drop].transfer.id = conv[c].lease.id
    BY <1>1, <1>2, NoneAssumption
  <1>4. conv[c].lease.id \in 1..rec[conv[c].lease.drop].transferAttempts
    BY <1>1, <1>3 DEF ConvInv, Issued
  <1> QED BY <1>1, <1>2, <1>3, <1>4 DEF Owns

LEMMA CommitFrees ==
  ASSUME IInv, ConvInv, NEW c \in Claimants, NEW matches \in BOOLEAN, Commit(c, matches)
  PROVE  Freed(c) /\ [Next]_vars
  <1> DEFINE d == conv[c].lease.drop
             id == conv[c].lease.id
  <1>1. /\ rec \in [Drops -> Record] /\ conv[c].lease # None
        /\ CommitFileClaim(c, d, id, matches)
    BY DEF IInv, SoundRecord, Commit
  <1>2. /\ d \in Drops /\ id \in 1..rec[d].transferAttempts
        /\ \A e \in Drops : Owns(c, e) <=> e = d
    BY <1>1, HeldLease
  <1> HIDE DEF d, id
  <1>3. Retire(d) \/ GiveBack(d)
    BY <1>1 DEF CommitFileClaim
  <1>4. Freed(c)
    BY <1>1, <1>2, <1>3, RetireFrees, GiveBackFrees DEF Freed
  <1>5. Next
    BY <1>1, <1>2 DEF Next, Transferring
  <1> QED BY <1>4, <1>5

LEMMA AckIsBroker ==
  ASSUME IInv, ConvInv, NEW c \in Claimants, conv[c].lease # None,
         NEW index \in 0..Frames[rec[conv[c].lease.drop].envelopeKey],
         NEW matches \in BOOLEAN, AckFrame(c, index, matches)
  PROVE  [Next]_vars
  <1> DEFINE d == conv[c].lease.drop
             id == conv[c].lease.id
  <1>1. /\ d \in Drops /\ id \in 1..rec[d].transferAttempts
    BY HeldLease
  <1>2. AckFileClaimFrame(c, d, id, index, matches)
    BY DEF AckFrame
  <1>3. rec[d].plaintext # None /\ rec[d].plaintext = rec[d].envelopeKey
    BY <1>1, <1>2 DEF AckFileClaimFrame, HoldsLease, IInv, SoundRecord, Sound, LeaseInStep
  <1>4. index \in 0..Frames[rec[d].plaintext]
    BY <1>3
  <1> HIDE DEF d, id
  <1> QED BY <1>1, <1>2, <1>3, <1>4 DEF Next, Transferring

-----------------------------------------------------------------------------
(* The steps of one conversation *)

LEMMA Carried ==
  ASSUME ConvInv, NEW c \in Claimants, NEW k, Good(k),
         conv' = [conv EXCEPT ![c] = k], Match' /\ Issued'
  PROVE  ConvInv'
  BY DEF ConvInv, Good

\* A step that gives the lease back and leaves a session without one.
LEMMA EndingCarried ==
  ASSUME IInv, ConvInv, NEW c \in Claimants, NEW k, Good(k), k.lease = None,
         conv' = [conv EXCEPT ![c] = k], Freed(c)
  PROVE  ConvInv'
  <1>1. rec \in [Drops -> Record]
    BY DEF IInv, SoundRecord
  <1> QED BY <1>1, FreedMatches, Carried

\* begin_file_claim: nothing is held yet.
LEMMA BeginStep ==
  ASSUME IInv, ConvInv, NEW c \in Claimants, NEW d \in Drops, Begin(c, d)
  PROVE  ConvInv' /\ [Next]_vars
  <1> DEFINE k == [conv[c] EXCEPT !.phase = "beginning", !.awaits = "decode"]
  <1>1. /\ rec \in [Drops -> Record] /\ conv[c] \in Conversation /\ Good(conv[c])
        /\ conv[c].phase = "idle" /\ conv[c].socket = "open"
        /\ BeginFileClaim(c, d) /\ rec' = rec /\ conv' = [conv EXCEPT ![c] = k]
    BY DEF IInv, ConvInv, SoundRecord, Good, Begin, Attends, BeginFileClaim, Converse
  <1>2. k \in Conversation
    BY <1>1, SessionUpdate, Zenon
  <1>3. /\ k.lease = conv[c].lease /\ k.next = conv[c].next /\ k.sent = conv[c].sent
        /\ k.phase = "beginning" /\ k.awaits = "decode" /\ k.socket = conv[c].socket
    BY <1>1, SMT DEF Conversation
  <1>4. InTurn(k) /\ Backed(k)
    BY <1>1, <1>3, SMT DEF Good, InTurn, Backed
  <1>5. Next
    BY <1>1 DEF Next, Transferring
  <1> HIDE DEF k
  <1>6. Match' /\ Issued'
    BY <1>1, <1>3, KeptMatches
  <1> QED BY <1>1, <1>2, <1>4, <1>5, <1>6, Carried DEF Good

\* The lease the broker grants is the one the session records: it had none before.
LEMMA GrantedMatches ==
  ASSUME IInv, ConvInv, NEW c \in Claimants, NEW d \in Drops, NEW k,
         conv[c].lease = None, rec[d].transfer = None,
         rec' = [rec EXCEPT ![d] = Lent(rec[d], c)],
         k.lease = [drop |-> d, id |-> rec[d].transferAttempts + 1], k.next = 0,
         conv' = [conv EXCEPT ![c] = k]
  PROVE  Match' /\ Issued'
  <1> DEFINE id == rec[d].transferAttempts + 1
             lease == [id |-> id, owner |-> c, nextFrame |-> 0]
  <1>1. /\ rec \in [Drops -> Record] /\ rec[d] \in Record /\ rec[d].transferAttempts \in Nat
        /\ conv \in [Claimants -> Conversation] /\ Match /\ Issued
    BY DEF IInv, SoundRecord, ConvInv, Record
  <1>2. /\ rec'[d].transfer = lease /\ rec'[d].transferAttempts = id
        /\ \A e \in Drops : e # d => rec'[e] = rec[e]
    BY <1>1, SMT DEF Lent, Record
  <1>3. /\ conv'[c] = k /\ \A b \in Claimants : b # c => conv'[b] = conv[b]
    BY <1>1
  <1>4. id \in Nat /\ id \in 1..id /\ [drop |-> d, id |-> id] # None
    BY <1>1, LeaseAssumption
  <1>5. ASSUME NEW e \in Drops, e # d, rec[e].transfer # None
        PROVE  rec[e].transfer.owner \in Claimants /\ rec[e].transfer.owner # c
    <2>1. rec[e].transfer.owner \in Claimants /\ rec[e].transfer.id \in Nat
      BY <1>1, <1>5 DEF Record, TransferLease
    <2>2. conv[rec[e].transfer.owner].lease = [drop |-> e, id |-> rec[e].transfer.id]
      BY <1>1, <1>5 DEF Match
    <2> QED BY <2>1, <2>2, LeaseAssumption
  <1>6. ASSUME NEW e \in Drops, rec'[e].transfer # None
        PROVE  /\ conv'[rec'[e].transfer.owner].lease = [drop |-> e, id |-> rec'[e].transfer.id]
               /\ rec'[e].transfer.id \in 1..rec'[e].transferAttempts
    <2>1. CASE e = d
      BY <1>2, <1>3, <1>4, <2>1
    <2>2. CASE e # d
      <3>1. rec'[e] = rec[e] /\ rec[e].transfer # None
        BY <1>2, <1>6, <2>2
      <3>2. conv'[rec[e].transfer.owner] = conv[rec[e].transfer.owner]
        BY <1>3, <1>5, <2>2, <3>1
      <3> QED BY <1>1, <3>1, <3>2 DEF Match, Issued
    <2> QED BY <2>1, <2>2
  <1>7. ASSUME NEW b \in Claimants, conv'[b].lease # None
        PROVE  rec'[conv'[b].lease.drop].transfer =
                 [id |-> conv'[b].lease.id, owner |-> b, nextFrame |-> conv'[b].next]
    <2>1. CASE b = c
      BY <1>2, <1>3, <2>1
    <2>2. CASE b # c
      <3>1. conv'[b] = conv[b] /\ conv[b].lease # None
        BY <1>3, <1>7, <2>2
      <3>2. /\ conv[b].lease.drop \in Drops
            /\ rec[conv[b].lease.drop].transfer =
                 [id |-> conv[b].lease.id, owner |-> b, nextFrame |-> conv[b].next]
            /\ rec[conv[b].lease.drop].transfer # None
        BY <3>1, HeldLease
      <3> QED BY <1>2, <3>1, <3>2
    <2> QED BY <2>1, <2>2
  <1> QED BY <1>6, <1>7 DEF Match, Issued

LEMMA DecodedStep ==
  ASSUME IInv, ConvInv, NEW c \in Claimants, Begun(c)
  PROVE  ConvInv' /\ [Next]_vars
  <1> DEFINE d == beginning[c]
             id == rec[d].transferAttempts + 1
             awaits == IF conv[c].phase = "closed" THEN "nothing" ELSE "metadata"
             k == [conv[c] EXCEPT !.lease = [drop |-> d, id |-> id], !.awaits = awaits]
  <1>1. /\ rec \in [Drops -> Record] /\ conv[c] \in Conversation /\ Good(conv[c])
        /\ conv[c].awaits = "decode" /\ conv[c].lease = None /\ conv[c].next = 0
        /\ conv[c].phase \in {"beginning", "closed"}
        /\ GrantFileClaim(c)
    BY DEF IInv, ConvInv, SoundRecord, Good, InTurn, Begun
  <1>2. d \in Drops /\ rec[d].transferAttempts \in Nat
    BY <1>1 DEF GrantFileClaim, IInv, OthersTyped, Record
  <1>3. Next
    BY <1>1 DEF Next
  <1>4. CASE StillLendable(d)
    <2>1. /\ rec[d].transfer = None
          /\ rec' = [rec EXCEPT ![d] = Lent(rec[d], c)]
          /\ conv' = [conv EXCEPT ![c] = k]
      BY <1>1, <1>4 DEF StillLendable, GrantFileClaim, Begun, Converse
    <2>2. [drop |-> d, id |-> id] \in [drop : Drops, id : Nat]
      BY <1>2
    <2>3. k \in Conversation
      <3>1. awaits \in Writes \cup {"nothing", "decode"}
        BY DEF Writes
      <3> HIDE DEF awaits, d, id
      <3> QED BY <1>1, <2>2, <3>1, SessionUpdate, Zenon
    <2>4. /\ k.lease = [drop |-> d, id |-> id] /\ k.awaits = awaits
          /\ k.next = 0 /\ k.sent = conv[c].sent /\ k.phase = conv[c].phase
          /\ k.socket = conv[c].socket
      BY <1>1, SMT DEF Conversation
    <2>5. k.phase = "closed" => k.flooded
      <3>1. conv[c].phase = "closed" => conv[c].flooded
        BY <1>1, Zenon DEF Good, Backed
      <3>2. k.flooded = conv[c].flooded
        BY <1>1, Zenon DEF Conversation
      <3> QED BY <2>4, <3>1, <3>2
    <2>6. k.lease # None
      BY <2>2, <2>4, LeaseAssumption
    <2>7. InTurn(k)
      BY <1>1, <2>4, SMT DEF Good, InTurn
    <2>8. Backed(k)
      <3> HIDE DEF k
      <3> QED BY <1>1, <2>4, <2>5, <2>6 DEF Backed, Writes
    <2> HIDE DEF k, awaits, d
    <2>9. Match' /\ Issued'
      BY <1>1, <1>2, <2>1, <2>4, GrantedMatches
    <2> QED BY <1>3, <2>1, <2>3, <2>7, <2>8, <2>9, Carried DEF Good
  <1>5. CASE ~StillLendable(d)
    <2>1. rec' = rec /\ conv' = [conv EXCEPT ![c] = Ended(conv[c])]
      BY <1>1, <1>5 DEF GrantFileClaim, Begun, Converse, Refused
    <2>2. Good(Ended(conv[c])) /\ Ended(conv[c]).lease = None
      BY <1>1, EndedGood
    <2>3. Match' /\ Issued'
      BY <1>1, <2>1, <2>2, KeptMatches
    <2> QED BY <1>3, <2>1, <2>2, <2>3, Carried
  <1> QED BY <1>4, <1>5

\* A flushed write leaves the connection with its lease and its place.
LEMMA WrittenGood ==
  ASSUME NEW k, Good(k), k.socket = "open", k.awaits \in Writes, NEW b,
         \/ b = WriteFrame(k)
         \/ b = [k EXCEPT !.phase = "awaiting_commit", !.awaits = "nothing"]
         \/ b = [k EXCEPT !.awaits = "body"]
         \/ b = Flushed(k)
  PROVE  Good(b) /\ b.lease = k.lease /\ b.next = k.next
  <1>1. k \in Conversation /\ k.next \in Nat /\ k.next + 1 \in Nat
    BY DEF Good, Conversation
  <1>2. k.phase \notin {"idle", "closed"} /\ k.lease # None
    BY DEF Good, InTurn, Backed, Writes
  <1>3. b \in Conversation
    <2>1. {"header", "body"} \subseteq Writes
      BY DEF Writes
    <2>2. /\ WriteFrame(k) \in Conversation /\ Flushed(k) \in Conversation
          /\ [k EXCEPT !.phase = "awaiting_commit", !.awaits = "nothing"] \in Conversation
          /\ [k EXCEPT !.awaits = "body"] \in Conversation
      BY <1>1, <2>1, SessionUpdate, Zenon DEF WriteFrame, Flushed
    <2> QED BY <2>2
  <1>4. /\ b.lease = k.lease /\ b.next = k.next /\ b.socket = "open"
        /\ \/ /\ b.awaits \in {"header", "body"}
              /\ b.sent = k.sent /\ b.phase \in {"streaming", k.phase}
           \/ b.awaits = "nothing" /\ b.sent = k.sent /\ b.phase = "awaiting_commit"
           \/ b.awaits = "nothing" /\ b.sent = k.next + 1 /\ b.phase = "awaiting_frame_ack"
    <2>1. CASE b = WriteFrame(k)
      BY <1>1, <2>1, SMT DEF Conversation, WriteFrame
    <2>2. CASE b = [k EXCEPT !.phase = "awaiting_commit", !.awaits = "nothing"]
      BY <1>1, <2>2, SMT DEF Conversation
    <2>3. CASE b = [k EXCEPT !.awaits = "body"]
      BY <1>1, <2>3, SMT DEF Conversation
    <2>4. CASE b = Flushed(k)
      BY <1>1, <2>4, SMT DEF Conversation, Flushed
    <2> QED BY <2>1, <2>2, <2>3, <2>4
  <1>5. InTurn(b) /\ Backed(b)
    BY <1>1, <1>2, <1>4, SMT DEF Good, InTurn, Backed
  <1> QED BY <1>3, <1>4, <1>5 DEF Good

LEMMA WrittenStep ==
  ASSUME IInv, ConvInv, NEW c \in Claimants, StepWritten(c)
  PROVE  ConvInv' /\ [Next]_vars
  <1> DEFINE k == conv[c]
  <1>1. /\ rec \in [Drops -> Record] /\ Good(k) /\ k.socket = "open"
        /\ UNCHANGED vars /\ rec' = rec
    BY DEF IInv, ConvInv, SoundRecord, Good, StepWritten, vars
  <1>2. PICK b : /\ conv' = [conv EXCEPT ![c] = b] /\ k.awaits \in Writes
                 /\ \/ b = WriteFrame(k)
                    \/ b = [k EXCEPT !.phase = "awaiting_commit", !.awaits = "nothing"]
                    \/ b = [k EXCEPT !.awaits = "body"]
                    \/ b = Flushed(k)
    <2> HIDE DEF k
    <2> USE DEF Converse, Writes
    <2>1. \/ k.awaits = "metadata" /\ Converse(c, WriteFrame(k))
          \/ k.awaits = "reply" /\ Converse(c, WriteFrame(k))
          \/ /\ k.awaits = "reply"
             /\ Converse(c, [k EXCEPT !.phase = "awaiting_commit", !.awaits = "nothing"])
          \/ k.awaits = "header" /\ Converse(c, [k EXCEPT !.awaits = "body"])
          \/ k.awaits \in {"header", "body"} /\ Converse(c, Flushed(k))
      BY Zenon DEF StepWritten, k
    <2> QED BY <2>1
  <1> HIDE DEF k
  <1>3. Good(b) /\ b.lease = k.lease /\ b.next = k.next
    BY <1>1, <1>2, WrittenGood
  <1>4. Match' /\ Issued'
    BY <1>1, <1>2, <1>3, KeptMatches DEF k
  <1> QED BY <1>1, <1>2, <1>3, <1>4, Carried

\* Every end that gives the lease back.
LEMMA EndStep ==
  ASSUME IInv, ConvInv, NEW c \in Claimants,
         StepFails(c) \/ LastLine(c) \/ HalfClose(c) \/ Flood(c) \/ SocketClosed(c)
  PROVE  ConvInv' /\ [Next]_vars
  <1> DEFINE flooded == [Ended(conv[c]) EXCEPT !.awaits = conv[c].awaits,
                                               !.flooded = conv[c].awaits = "decode"]
             closed == [conv[c] EXCEPT !.socket = "closed", !.lease = None]
  <1>1. Good(conv[c])
    BY DEF ConvInv, Good
  <1>2. ReleaseLease(c)
    BY DEF StepFails, LastLine, HalfClose, Flood, SocketClosed
  <1>3. Freed(c) /\ [Next]_vars
    BY <1>2, ReleaseFrees
  <1>4. CASE StepFails(c) \/ LastLine(c) \/ HalfClose(c)
    <2>1. conv' = [conv EXCEPT ![c] = Ended(conv[c])]
      BY <1>4 DEF StepFails, LastLine, HalfClose, Converse
    <2>2. Good(Ended(conv[c])) /\ Ended(conv[c]).lease = None
      BY <1>1, EndedGood
    <2> QED BY <1>3, <2>1, <2>2, EndingCarried
  <1>5. CASE Flood(c)
    <2>1. conv' = [conv EXCEPT ![c] = flooded] /\ conv[c].phase \in {"beginning", "streaming"}
      BY <1>5 DEF Flood, Converse
    <2>2. Good(flooded) /\ flooded.lease = None
      BY <1>1, <2>1, FloodedGood
    <2> HIDE DEF flooded
    <2> QED BY <1>3, <2>1, <2>2, EndingCarried
  <1>6. CASE SocketClosed(c)
    <2>1. conv' = [conv EXCEPT ![c] = closed] /\ conv[c].socket = "down"
      BY <1>6 DEF SocketClosed, Converse
    <2>2. Good(closed) /\ closed.lease = None
      BY <1>1, <2>1, ClosedGood
    <2> HIDE DEF closed
    <2> QED BY <1>3, <2>1, <2>2, EndingCarried
  <1> QED BY <1>4, <1>5, <1>6

LEMMA CommitStep ==
  ASSUME IInv, ConvInv, NEW c \in Claimants, NEW matches \in BOOLEAN, Commit(c, matches)
  PROVE  ConvInv' /\ [Next]_vars
  <1>1. Good(conv[c]) /\ conv' = [conv EXCEPT ![c] = Ended(conv[c])]
    BY DEF ConvInv, Good, Commit, Converse
  <1>2. Good(Ended(conv[c])) /\ Ended(conv[c]).lease = None
    BY <1>1, EndedGood
  <1> QED BY <1>1, <1>2, CommitFrees, EndingCarried

LEMMA HangUpStep ==
  ASSUME IInv, ConvInv, NEW c \in Claimants, HangUp(c)
  PROVE  ConvInv' /\ [Next]_vars
  <1>1. /\ rec \in [Drops -> Record] /\ Good(conv[c]) /\ rec' = rec /\ UNCHANGED vars
        /\ conv' = [conv EXCEPT ![c] = Shut(conv[c])]
    BY DEF IInv, ConvInv, SoundRecord, Good, HangUp, Converse, vars
  <1>2. Match' /\ Issued'
    BY <1>1, ShutGood, KeptMatches
  <1> QED BY <1>1, <1>2, ShutGood, Carried

\* The frame acknowledged is the one flushed last, and the next one follows it.
LEMMA AckMatches ==
  ASSUME IInv, ConvInv, NEW c \in Claimants, NEW d \in Drops, NEW k,
         conv[c].lease # None, conv[c].lease.drop = d,
         rec' = [rec EXCEPT ![d].transfer.nextFrame = @ + 1],
         k.lease = conv[c].lease, k.next = conv[c].next + 1,
         conv' = [conv EXCEPT ![c] = k]
  PROVE  Match' /\ Issued'
  <1> DEFINE id == conv[c].lease.id
             next == conv[c].next
  <1>1. /\ rec \in [Drops -> Record] /\ conv \in [Claimants -> Conversation]
        /\ Match /\ Issued
    BY DEF IInv, SoundRecord, ConvInv
  <1>2. /\ rec[d].transfer = [id |-> id, owner |-> c, nextFrame |-> next]
        /\ rec[d].transfer # None /\ next \in Nat /\ id \in 1..rec[d].transferAttempts
    BY HeldLease
  <1>3. /\ rec'[d].transfer = [id |-> id, owner |-> c, nextFrame |-> next + 1]
        /\ rec'[d].transferAttempts = rec[d].transferAttempts
        /\ \A e \in Drops : e # d => rec'[e] = rec[e]
    <2>1. PICK t : t = [rec[d].transfer EXCEPT !.nextFrame = @ + 1]
      OBVIOUS
    <2>2. rec' = [rec EXCEPT ![d].transfer = t]
      BY <2>1
    <2>3. t = [id |-> id, owner |-> c, nextFrame |-> next + 1]
      BY <1>2, <2>1
    <2>4. PICK q : q = [rec[d] EXCEPT !.transfer = t] /\ rec' = [rec EXCEPT ![d] = q]
      BY <2>2
    <2>5. q.transfer = t /\ q.transferAttempts = rec[d].transferAttempts
      BY <1>1, <2>4, SMT DEF Record
    <2> QED BY <1>1, <2>3, <2>4, <2>5
  <1>4. /\ conv'[c] = k /\ \A b \in Claimants : b # c => conv'[b] = conv[b]
    BY <1>1
  <1>5. conv[c].lease = [drop |-> d, id |-> id]
    BY <1>1, <1>2 DEF Match
  <1> HIDE DEF id, next
  <1>6. ASSUME NEW e \in Drops, rec'[e].transfer # None
        PROVE  /\ conv'[rec'[e].transfer.owner].lease = [drop |-> e, id |-> rec'[e].transfer.id]
               /\ rec'[e].transfer.id \in 1..rec'[e].transferAttempts
    <2>1. CASE e = d
      BY <1>2, <1>3, <1>4, <1>5, <2>1
    <2>2. CASE e # d
      <3>1. rec'[e] = rec[e] /\ rec[e].transfer # None
        BY <1>3, <1>6, <2>2
      <3>2. /\ rec[e].transfer.owner \in Claimants /\ rec[e].transfer.id \in Nat
            /\ conv[rec[e].transfer.owner].lease = [drop |-> e, id |-> rec[e].transfer.id]
        BY <1>1, <3>1 DEF Match, Record, TransferLease
      <3>3. rec[e].transfer.owner # c
        BY <1>5, <2>2, <3>2
      <3> QED BY <1>1, <1>4, <3>1, <3>2, <3>3 DEF Issued
    <2> QED BY <2>1, <2>2
  <1>7. ASSUME NEW b \in Claimants, conv'[b].lease # None
        PROVE  rec'[conv'[b].lease.drop].transfer =
                 [id |-> conv'[b].lease.id, owner |-> b, nextFrame |-> conv'[b].next]
    <2>1. CASE b = c
      BY <1>3, <1>4, <1>5, <2>1 DEF next
    <2>2. CASE b # c
      <3>1. conv'[b] = conv[b] /\ conv[b].lease # None
        BY <1>4, <1>7, <2>2
      <3>2. /\ conv[b].lease.drop \in Drops
            /\ rec[conv[b].lease.drop].transfer =
                 [id |-> conv[b].lease.id, owner |-> b, nextFrame |-> conv[b].next]
        BY <3>1, HeldLease
      <3>3. conv[b].lease.drop # d
        BY <1>2, <2>2, <3>2
      <3> QED BY <1>3, <3>1, <3>2, <3>3
    <2> QED BY <2>1, <2>2
  <1> QED BY <1>6, <1>7 DEF Match, Issued

LEMMA AckStep ==
  ASSUME IInv, ConvInv, NEW c \in Claimants, conv[c].lease # None,
         NEW index \in 0..Frames[rec[conv[c].lease.drop].envelopeKey],
         NEW matches \in BOOLEAN, AckFrame(c, index, matches)
  PROVE  ConvInv' /\ [Next]_vars
  <1> DEFINE d == conv[c].lease.drop
             id == conv[c].lease.id
             k == [conv[c] EXCEPT !.awaits = "reply", !.next = index + 1]
  <1>1. /\ rec \in [Drops -> Record] /\ conv[c] \in Conversation /\ Good(conv[c])
        /\ conv[c].phase = "awaiting_frame_ack" /\ conv[c].awaits = "nothing"
        /\ conv[c].socket = "open"
        /\ AckFileClaimFrame(c, d, id, index, matches)
        /\ conv' = [conv EXCEPT ![c] = IF rec'[d].transfer # None THEN k
                                       ELSE Ended(conv[c])]
    BY DEF IInv, ConvInv, SoundRecord, Good, AckFrame, Attends, Converse, Refused
  <1>2. /\ d \in Drops /\ id \in Nat /\ conv[c].next \in Nat
        /\ rec[d].transfer = [id |-> id, owner |-> c, nextFrame |-> conv[c].next]
        /\ \A e \in Drops : Owns(c, e) <=> e = d
    BY HeldLease
  <1>3. [Next]_vars
    BY AckIsBroker
  <1>4. CASE GiveBack(d)
    <2>1. /\ rec'[d].transfer = None /\ Freed(c)
      <3> HIDE DEF d
      <3> QED BY <1>1, <1>2, <1>4, GiveBackFrees DEF Freed
    <2>2. conv' = [conv EXCEPT ![c] = Ended(conv[c])]
      <3> HIDE DEF k
      <3> QED BY <1>1, <2>1
    <2>3. Good(Ended(conv[c])) /\ Ended(conv[c]).lease = None
      BY <1>1, EndedGood
    <2> QED BY <1>3, <2>1, <2>2, <2>3, EndingCarried
  <1>5. CASE ~GiveBack(d)
    <2>1. /\ index = conv[c].next
          /\ rec' = [rec EXCEPT ![d].transfer.nextFrame = @ + 1]
      <3> HIDE DEF d, id, k
      <3>1. /\ index = rec[d].transfer.nextFrame
            /\ rec' = [rec EXCEPT ![d].transfer.nextFrame = @ + 1]
        BY <1>1, <1>5, Zenon DEF AckFileClaimFrame
      <3> QED BY <1>2, <3>1
    <2>2. rec'[d].transfer # None
      <3>1. PICK t : t = [rec[d].transfer EXCEPT !.nextFrame = @ + 1]
        OBVIOUS
      <3>2. t = [id |-> id, owner |-> c, nextFrame |-> conv[c].next + 1]
        BY <1>2, <3>1
      <3>3. t # None
        BY <1>2, <3>2, NoneAssumption
      <3>4. PICK q : q = [rec[d] EXCEPT !.transfer = t] /\ rec' = [rec EXCEPT ![d] = q]
        BY <2>1, <3>1
      <3>5. q.transfer = t /\ rec'[d] = q
        <4> HIDE DEF d
        <4> QED BY <1>1, <1>2, <3>4, SMT DEF Record
      <3> QED BY <3>3, <3>5
    <2>3. conv' = [conv EXCEPT ![c] = k]
      <3> HIDE DEF k
      <3> QED BY <1>1, <2>2
    <2>4. k \in Conversation
      <3>1. "reply" \in Writes /\ index + 1 \in Nat
        BY <1>2, <2>1 DEF Writes
      <3> QED BY <1>1, <3>1, SessionUpdate, Zenon
    <2>5. /\ k.lease = conv[c].lease /\ k.next = conv[c].next + 1 /\ k.awaits = "reply"
          /\ k.sent = conv[c].sent /\ k.phase = "awaiting_frame_ack" /\ k.socket = "open"
      BY <1>1, <2>1, SMT DEF Conversation
    <2>6. InTurn(k) /\ Backed(k)
      <3>1. conv[c].sent = conv[c].next + 1
        BY <1>1 DEF Good, InTurn
      <3> QED BY <1>2, <2>5, <3>1, SMT DEF InTurn, Backed
    <2> HIDE DEF k
    <2>7. Match' /\ Issued'
      BY <1>2, <2>1, <2>3, <2>5, AckMatches
    <2> QED BY <1>3, <2>3, <2>4, <2>6, <2>7, Carried DEF Good
  <1> QED BY <1>4, <1>5

\* What the broker does elsewhere, and tells the connections of.
LEMMA ElsewhereStep ==
  ASSUME IInv, ConvInv, Elsewhere
  PROVE  ConvInv' /\ [Next]_vars
  <1>1. rec \in [Drops -> Record] /\ Notice
    BY DEF IInv, SoundRecord, Elsewhere
  <1>2. /\ Match' /\ Issued'
        /\ \A c \in Claimants : Good(conv'[c])
    BY <1>1, ElsewhereQuiet, NoticeMatches
  <1>3. conv' \in [Claimants -> Conversation]
    BY <1>1, <1>2, Zenon DEF Notice, Good
  <1>4. Next
    BY Zenon DEF Elsewhere, Next, Ending
  <1> QED BY <1>2, <1>3, <1>4 DEF ConvInv, Good

-----------------------------------------------------------------------------
(* The composition *)

LEMMA ConvInit == ControlInit => IInv /\ ConvInv
  <1> SUFFICES ASSUME ControlInit PROVE IInv /\ ConvInv
    OBVIOUS
  <1>1. IInv
    BY InitInvariant DEF ControlInit
  <1>2. \A d \in Drops : rec[d].transfer = None
    BY SMT DEF ControlInit, Init, Blank
  <1>3. /\ conv \in [Claimants -> Conversation]
        /\ \A c \in Claimants : InTurn(conv[c]) /\ Backed(conv[c]) /\ conv[c].lease = None
    BY SMT DEF ControlInit, Conversation, InTurn, Backed
  <1> QED BY <1>1, <1>2, <1>3 DEF ConvInv, Match, Issued

LEMMA ControlStep ==
  ASSUME IInv, ConvInv, [ControlNext]_controlVars
  PROVE  IInv' /\ ConvInv' /\ [Next]_vars
  <1>1. ASSUME NEW c \in Claimants, Conversing(c)
        PROVE  ConvInv' /\ [Next]_vars
    BY <1>1, BeginStep, DecodedStep, WrittenStep, EndStep, CommitStep, HangUpStep, AckStep,
       Zenon DEF Conversing
  <1>2. ASSUME UNCHANGED controlVars
        PROVE  ConvInv' /\ [Next]_vars
    <2>1. conv' = conv /\ rec' = rec /\ UNCHANGED vars
      BY <1>2 DEF controlVars, vars
    <2> QED BY <2>1 DEF ConvInv, Match, Issued
  <1>3. ConvInv' /\ [Next]_vars
    BY <1>1, <1>2, ElsewhereStep DEF ControlNext
  <1> QED BY <1>3, NextInvariant

THEOREM ControlInvariant == ControlSpec => [](IInv /\ ConvInv)
  <1>1. ControlInit => IInv /\ ConvInv
    BY ConvInit
  <1>2. IInv /\ ConvInv /\ [ControlNext]_controlVars => (IInv /\ ConvInv)'
    BY ControlStep
  <1> QED BY <1>1, <1>2, PTL DEF ControlSpec

\* Behind the socket the broker is the broker: whatever connections begin, stall,
\* flood or hang up, it only ever takes steps of its own, so every theorem about it
\* holds of the pair.
THEOREM ControlIsBroker == ControlSpec => Spec
  <1>1. IInv /\ ConvInv /\ [ControlNext]_controlVars => [Next]_vars
    BY ControlStep
  <1>2. ControlInit => Init
    BY DEF ControlInit
  <1> QED BY <1>1, <1>2, ControlInvariant, PTL DEF ControlSpec, Spec

\* No frame is counted as proven before the connection flushed it, however early
\* and with whatever digest its acknowledgement was sent.
THEOREM WrittenFirst == ControlSpec => []WrittenBeforeProved
  <1>1. IInv /\ ConvInv => WrittenBeforeProved
    <2> SUFFICES ASSUME IInv, ConvInv, NEW d \in Drops, rec[d].transfer # None
                 PROVE  rec[d].transfer.nextFrame <= conv[rec[d].transfer.owner].sent
      BY DEF WrittenBeforeProved
    <2> DEFINE c == rec[d].transfer.owner
    <2>1. c \in Claimants /\ rec[d].transfer.id \in Nat
      BY DEF IInv, SoundRecord, Record, TransferLease
    <2>2. conv[c].lease = [drop |-> d, id |-> rec[d].transfer.id]
      BY DEF ConvInv, Match
    <2>3. conv[c].lease # None /\ conv[c].lease.drop = d
      BY <2>1, <2>2, LeaseAssumption
    <2>4. rec[d].transfer.nextFrame = conv[c].next /\ conv[c].next \in Nat
      <3>1. /\ conv[c].next \in Nat
            /\ rec[d].transfer = [id |-> conv[c].lease.id, owner |-> c,
                                  nextFrame |-> conv[c].next]
        <4> HIDE DEF c
        <4> QED BY <2>1, <2>3, HeldLease
      <3> HIDE DEF c
      <3> QED BY <3>1
    <2>5. conv[c].sent \in {conv[c].next, conv[c].next + 1}
      BY <2>1 DEF ConvInv, InTurn
    <2> QED BY <2>4, <2>5
  <1> QED BY <1>1, ControlInvariant, PTL

\* Broker and connections agree on every lease, and one is only kept by a
\* connection that is there, is about to notice that it is not, or was dropped for
\* flooding under its decode.
THEOREM LeaseFollows == ControlSpec => []LeaseFollowsConnection
  <1>1. ASSUME IInv, ConvInv, NEW d \in Drops, rec[d].transfer # None
        PROVE  LET k == conv[rec[d].transfer.owner]
               IN  /\ k.lease = [drop |-> d, id |-> rec[d].transfer.id]
                   /\ \/ k.socket # "closed" /\ k.phase # "closed"
                      \/ k.awaits \in Writes
                      \/ k.flooded
    <2>1. rec[d].transfer.owner \in Claimants /\ rec[d].transfer.id \in Nat
      BY <1>1 DEF IInv, SoundRecord, Record, TransferLease
    <2>2. conv[rec[d].transfer.owner].lease = [drop |-> d, id |-> rec[d].transfer.id]
      BY <1>1 DEF ConvInv, Match
    <2>3. conv[rec[d].transfer.owner].lease # None
      BY <2>1, <2>2, LeaseAssumption
    <2> QED BY <1>1, <2>1, <2>2, <2>3 DEF ConvInv, Backed
  <1>2. ASSUME IInv, ConvInv, NEW c \in Claimants, conv[c].lease # None
        PROVE  LET held == rec[conv[c].lease.drop].transfer
               IN  held # None /\ held.owner = c /\ held.id = conv[c].lease.id
    <2>1. /\ rec[conv[c].lease.drop].transfer # None
          /\ rec[conv[c].lease.drop].transfer =
               [id |-> conv[c].lease.id, owner |-> c, nextFrame |-> conv[c].next]
      BY <1>2, HeldLease
    <2> DEFINE held == rec[conv[c].lease.drop].transfer
    <2>2. held.owner = c /\ held.id = conv[c].lease.id
      BY <2>1
    <2> QED BY <2>1, <2>2
  <1>3. ASSUME IInv, ConvInv, NEW c \in Claimants,
               conv[c].awaits \in Writes, conv[c].socket = "open"
        PROVE  conv[c].lease # None
    BY <1>3 DEF ConvInv, InTurn, Backed, Writes
  <1>4. IInv /\ ConvInv => LeaseFollowsConnection
    BY <1>1, <1>2, <1>3 DEF LeaseFollowsConnection
  <1> QED BY <1>4, ControlInvariant, PTL

\* No receiver holds a connection open past its begin without a deadline running.
THEOREM StalledBounded == ControlSpec => []StalledHasDeadline
  <1>1. IInv /\ ConvInv => StalledHasDeadline
    BY DEF ConvInv, Backed, StalledHasDeadline
  <1> QED BY <1>1, ControlInvariant, PTL
=============================================================================
