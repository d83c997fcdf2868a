--------------------------- MODULE OutboundProofs ---------------------------
(***************************************************************************)
(* Theorems about Outbound, for any sets of drops and pages and any number *)
(* of attempts and faults: one browser is served and keeps being served,   *)
(* what is destroyed by an acknowledgement was read, and the store         *)
(* implements the one-shot drop.                                           *)
(***************************************************************************)
EXTENDS Outbound, FiniteSetTheorems, TLAPS

States == {"none", "minting", "refused", "available", "reserved", "destroyed"}
Record == [state : States, left : 0..MaxCodeAttempts, claimId : Pages \cup {None}]
Senders == {"idle", "minting", "posting", "delivered", "refused"}
Tabs == {"closed", "gate", "claiming", "acking", "shown", "over", "left"}

Types ==
  /\ drop \in [Drops -> Record]
  /\ late \in SUBSET Drops
  /\ served \in [Drops -> SUBSET Pages]
  /\ acked \in [Drops -> SUBSET Pages]
  /\ sender \in [Drops -> Senders]
  /\ chat \in SUBSET Drops
  /\ tab \in [Pages -> Tabs]
  /\ link \in [Pages -> Drops \cup {None}]
  /\ typed \in [Pages -> Codes]
  /\ answer \in [Pages -> Answers \cup {None}]
  /\ stray \in SUBSET Request
  /\ read \in SUBSET Pages
  /\ faults \in Nat

MintedStates == {"available", "reserved", "destroyed"}

\* What a drop has been through agrees with its record.
SoundDrop(r, to, by) ==
  /\ to \subseteq {r.claimId}
  /\ r.state \notin {"reserved", "destroyed"} => to = {}
  /\ r.state # "destroyed" => by = {}

Sound == \A d \in Drops : SoundDrop(drop[d], served[d], acked[d])

\* A link leads to a drop that was minted.
Posted == \A d \in Drops :
  /\ sender[d] = "minting" => drop[d].state # "none"
  /\ sender[d] = "posting" \/ d \in chat => drop[d].state \in MintedStates

Linked == /\ \A p \in Pages : tab[p] # "closed" => link[p] \in chat
          /\ \A m \in stray : tab[m.page] # "closed"

\* Only a page that read the payload acknowledges it.
Asked == /\ \A p \in Pages : tab[p] = "acking" => p \in read
         /\ \A m \in stray : m.op = "ack" => m.page \in read

\* The drop is over, for this page.
OverFor(r, p) == r.state = "destroyed" \/ (r.state = "reserved" /\ r.claimId # p)

Told == \A p \in Pages :
  tab[p] = "claiming" /\ answer[p] = "unavailable" /\ typed[p] = "right" => OverFor(drop[link[p]], p)

IInv == Types /\ Sound /\ Posted /\ Linked /\ Asked /\ Told /\ AckedWasRead

-----------------------------------------------------------------------------
(* What becomes of a record *)

\* A minted record never returns, a reserved one keeps its claim id, and the end is final.
Follows(r, q) ==
  /\ q.state = "none" => r.state = "none"
  /\ r.state \in MintedStates => q.state \in MintedStates
  /\ r.state = "reserved" => q.state \in {"reserved", "destroyed"} /\ q.claimId = r.claimId
  /\ r.state = "destroyed" => q = r

\* What one handler may make of a record that it found with these histories.
Evolves(r, q, to, by) ==
  /\ q \in Record
  /\ Follows(r, q)
  /\ SoundDrop(r, to, by) => SoundDrop(q, to, by)

LEMMA DestroyedEvolves ==
  ASSUME NEW r \in Record, r.state \in {"available", "reserved"}, NEW to, NEW by
  PROVE  Evolves(r, Destroyed(r), to, by)
  BY DEF Evolves, Destroyed, Record, States, Follows, SoundDrop, MintedStates

LEMMA SameEvolves ==
  ASSUME NEW r \in Record, NEW to, NEW by
  PROVE  Evolves(r, r, to, by)
  BY DEF Evolves, Follows

LEMMA ResolvedEvolves ==
  ASSUME Types, NEW d \in Drops, NEW to, NEW by
  PROVE  /\ Evolves(drop[d], Resolved(d), to, by)
         /\ Resolved(d).state # "destroyed" => Resolved(d) = drop[d]
  <1>1. drop[d] \in Record
    BY DEF Types
  <1>2. CASE Overdue(d)
    BY <1>1, <1>2, DestroyedEvolves DEF Overdue, Resident, Resolved, Destroyed, Record
  <1>3. CASE ~Overdue(d)
    BY <1>1, <1>3, SameEvolves DEF Resolved
  <1> QED BY <1>2, <1>3

\* Any field may be given any value of its type.
LEMMA FieldUpdate ==
  ASSUME NEW r \in Record
  PROVE  /\ \A v \in States : [r EXCEPT !.state = v] \in Record
         /\ \A v \in 0..MaxCodeAttempts : [r EXCEPT !.left = v] \in Record
         /\ \A v \in Pages \cup {None} : [r EXCEPT !.claimId = v] \in Record
  BY SMT DEF Record

LEMMA ReservedRecord ==
  ASSUME NEW r \in Record, NEW p \in Pages
  PROVE  LET q == ReservedFor(r, p) IN
         q \in Record /\ q.state = "reserved" /\ q.claimId = p
  <1>1. ReservedFor(r, p) \in Record
    BY "reserved" \in States, FieldUpdate, Zenon DEF States, ReservedFor
  <1>2. ReservedFor(r, p).state = "reserved" /\ ReservedFor(r, p).claimId = p
    BY SMT DEF Record, ReservedFor
  <1> QED BY <1>1, <1>2

LEMMA SpentRecord ==
  ASSUME NEW r \in Record, NEW q, q = Destroyed([r EXCEPT !.left = 0])
  PROVE  q \in Record /\ q.state = "destroyed" /\ q.claimId = r.claimId
  <1>1. 0 \in 0..MaxCodeAttempts
    BY OutboundAssumption
  <1>2. [r EXCEPT !.left = 0] \in Record
    BY <1>1, FieldUpdate
  <1>3. q \in Record
    BY <1>2, "destroyed" \in States, FieldUpdate, Zenon DEF States, Destroyed
  <1>4. q.state = "destroyed" /\ q.claimId = r.claimId
    BY SMT DEF Destroyed, Record
  <1> QED BY <1>3, <1>4

\* A claim: who is given the payload holds the reservation, and who is refused with the
\* right code finds the drop over.
LEMMA ClaimedEvolves ==
  ASSUME NEW r \in Record, NEW p \in Pages, NEW code \in Codes, NEW to, NEW by
  PROVE  LET v == Claimed(r, p, code) IN
         /\ Evolves(r, v.record, to, by)
         /\ v.answer \in Answers \ {"acknowledged"}
         /\ v.answer = "revealed" => v.record.state = "reserved" /\ v.record.claimId = p
         /\ v.answer = "unavailable" /\ code = "right" /\ r.state \in MintedStates
              => OverFor(v.record, p)
  <1> DEFINE v == Claimed(r, p, code)
  <1>1. CASE r.state = "reserved"
    <2>1. v = Reserved(r, p, code)
      BY <1>1 DEF Claimed
    <2> QED BY <1>1, <2>1, SameEvolves DEF Reserved, OverFor, Answers
  <1>2. CASE r.state = "available"
    <2>1. v = Guessed(r, p, code)
      BY <1>2 DEF Claimed
    <2>2. CASE code = "right"
      <3>1. v = [record |-> ReservedFor(r, p), answer |-> "revealed"]
        BY <2>1, <2>2 DEF Guessed
      <3>2. v.record \in Record /\ v.record.state = "reserved" /\ v.record.claimId = p
        <4> HIDE DEF v
        <4>1. v.record = ReservedFor(r, p)
          BY <3>1
        <4> QED BY <4>1, ReservedRecord
      <3>3. Follows(r, v.record)
        BY <1>2, <3>2 DEF Follows, MintedStates
      <3>4. SoundDrop(r, to, by) => SoundDrop(v.record, to, by)
        BY <1>2, <3>2 DEF SoundDrop
      <3> QED BY <3>1, <3>2, <3>3, <3>4 DEF Evolves, Answers
    <2>3. CASE code # "right" /\ r.left > 1
      <3>1. v = [record |-> [r EXCEPT !.left = @ - 1], answer |-> "code_incorrect"]
        BY <2>1, <2>3 DEF Guessed
      <3>2. /\ v.record \in Record
            /\ v.record.state = r.state /\ v.record.claimId = r.claimId
        BY <3>1, <2>3, OutboundAssumption DEF Record
      <3>3. Follows(r, v.record)
        BY <1>2, <3>2 DEF Follows, MintedStates
      <3>4. SoundDrop(r, to, by) => SoundDrop(v.record, to, by)
        BY <1>2, <3>2 DEF SoundDrop
      <3> QED BY <3>1, <3>2, <3>3, <3>4 DEF Evolves, Answers
    <2>4. CASE code # "right" /\ ~(r.left > 1)
      <3>1. v = [record |-> Destroyed([r EXCEPT !.left = 0]), answer |-> "unavailable"]
        BY <2>1, <2>4 DEF Guessed
      <3>2. /\ v.record \in Record
            /\ v.record.state = "destroyed" /\ v.record.claimId = r.claimId
        <4> HIDE DEF v
        <4>1. v.record = Destroyed([r EXCEPT !.left = 0])
          BY <3>1
        <4> QED BY <4>1, SpentRecord
      <3>3. Follows(r, v.record)
        BY <1>2, <3>2 DEF Follows, MintedStates
      <3>4. SoundDrop(r, to, by) => SoundDrop(v.record, to, by)
        BY <1>2, <3>2 DEF SoundDrop
      <3> QED BY <2>4, <3>1, <3>2, <3>3, <3>4 DEF Evolves, Answers
    <2> QED BY <2>2, <2>3, <2>4
  <1>3. CASE r.state \notin {"reserved", "available"}
    <2>1. v = [record |-> r, answer |-> "unavailable"]
      BY <1>3 DEF Claimed
    <2> QED BY <1>3, <2>1, SameEvolves DEF Answers, MintedStates, OverFor
  <1> QED BY <1>1, <1>2, <1>3

\* An acknowledgement: only the holder of the reservation destroys by it.
LEMMA AcknowledgedEvolves ==
  ASSUME NEW r \in Record, NEW p \in Pages, NEW to, NEW by
  PROVE  LET v == Acknowledged(r, p) IN
         /\ Evolves(r, v.record, to, by)
         /\ v.answer \in {"acknowledged", "unavailable"}
         /\ v.answer = "acknowledged" => v.record.state = "destroyed" /\ v.record.claimId = p
  <1>1. CASE r.state = "reserved" /\ r.claimId = p
    <2>1. Acknowledged(r, p) = [record |-> Destroyed(r), answer |-> "acknowledged"]
      BY <1>1 DEF Acknowledged
    <2>2. Destroyed(r).state = "destroyed" /\ Destroyed(r).claimId = p
      BY <1>1 DEF Destroyed, Record
    <2> QED BY <1>1, <2>1, <2>2, DestroyedEvolves
  <1>2. CASE ~(r.state = "reserved" /\ r.claimId = p)
    <2>1. Acknowledged(r, p) = [record |-> r, answer |-> "unavailable"]
      BY <1>2 DEF Acknowledged
    <2> QED BY <2>1, SameEvolves
  <1> QED BY <1>1, <1>2

LEMMA EvolvesTwice ==
  ASSUME NEW r, NEW q, NEW s, NEW to, NEW by,
         Evolves(r, q, to, by), Evolves(q, s, to, by)
  PROVE  Evolves(r, s, to, by)
  BY DEF Evolves, Follows, MintedStates

-----------------------------------------------------------------------------
(* What becomes of the store *)

StoreStep ==
  /\ drop' \in [Drops -> Record]
  /\ served' \in [Drops -> SUBSET Pages]
  /\ acked' \in [Drops -> SUBSET Pages]
  /\ Sound'
  /\ \A d \in Drops : Follows(drop[d], drop'[d])

LEMMA AloneStep ==
  ASSUME Types, Sound, UNCHANGED <<served, acked>>, drop' \in [Drops -> Record],
         \A d \in Drops : Evolves(drop[d], drop'[d], served[d], acked[d])
  PROVE  StoreStep
  BY DEF StoreStep, Types, Sound, Evolves

LEMMA IdleStep ==
  ASSUME Types, Sound, UNCHANGED <<drop, served, acked>>
  PROVE  StoreStep
  <1>1. \A d \in Drops : Evolves(drop[d], drop[d], served[d], acked[d])
    BY SameEvolves DEF Types
  <1> QED BY <1>1, AloneStep DEF Types

LEMMA OneStep ==
  ASSUME Types, Sound, UNCHANGED <<served, acked>>, NEW d \in Drops, NEW q,
         drop' = [drop EXCEPT ![d] = q], Evolves(drop[d], q, served[d], acked[d])
  PROVE  StoreStep
  <1>1. \A c \in Drops : drop'[c] = IF c = d THEN q ELSE drop[c]
    BY DEF Types
  <1>2. drop' \in [Drops -> Record]
    BY DEF Types, Evolves
  <1>3. \A c \in Drops : Evolves(drop[c], drop[c], served[c], acked[c])
    BY SameEvolves DEF Types
  <1>4. \A c \in Drops : Evolves(drop[c], drop'[c], served[c], acked[c])
    BY <1>1, <1>3
  <1> QED BY <1>2, <1>4, AloneStep

\* The request of a page that was given a link, and that acknowledges only what it read.
Answerable(m) == /\ m \in Request
                 /\ link[m.page] \in chat
                 /\ m.op = "ack" => m.page \in read

LEMMA VerdictEvolves ==
  ASSUME IInv, NEW m, Answerable(m)
  PROVE  LET v == Verdict(m)
             d == link[m.page] IN
         /\ d \in Drops
         /\ Evolves(drop[d], v.record, served[d], acked[d])
         /\ v.answer \in Answers
         /\ v.answer = "revealed" => v.record.state = "reserved" /\ v.record.claimId = m.page
         /\ v.answer = "acknowledged" => /\ v.record.state = "destroyed"
                                          /\ v.record.claimId = m.page
                                          /\ m.op = "ack"
         /\ m.op = "claim" /\ v.answer = "unavailable" /\ m.code = "right"
              => OverFor(v.record, m.page)
  <1> DEFINE d == link[m.page]
  <1>1. d \in Drops /\ m.page \in Pages /\ m.code \in Codes /\ m.op \in {"claim", "ack"}
    BY DEF IInv, Types, Answerable, Request
  <1>2. drop[d].state \in MintedStates
    BY <1>1 DEF IInv, Posted, Answerable
  <1>3. Evolves(drop[d], Resolved(d), served[d], acked[d])
    BY <1>1, ResolvedEvolves DEF IInv
  <1>4. Resolved(d) \in Record /\ Resolved(d).state \in MintedStates
    BY <1>2, <1>3 DEF Evolves, Follows
  <1>5. CASE m.op = "claim"
    <2>1. Verdict(m) = Claimed(Resolved(d), m.page, m.code)
      BY <1>5 DEF Verdict
    <2>2. Evolves(Resolved(d), Verdict(m).record, served[d], acked[d])
      <3>1. Evolves(Resolved(d), Claimed(Resolved(d), m.page, m.code).record, served[d], acked[d])
        BY <1>1, <1>4, ClaimedEvolves
      <3> QED BY <2>1, <3>1
    <2>3. /\ Verdict(m).answer \in Answers \ {"acknowledged"}
          /\ Verdict(m).answer = "revealed"
               => Verdict(m).record.state = "reserved" /\ Verdict(m).record.claimId = m.page
          /\ Verdict(m).answer = "unavailable" /\ m.code = "right" => OverFor(Verdict(m).record, m.page)
      BY <1>1, <1>4, <2>1, ClaimedEvolves
    <2> QED BY <1>1, <1>3, <2>2, <2>3, EvolvesTwice
  <1>6. CASE m.op = "ack"
    <2>1. Verdict(m) = Acknowledged(Resolved(d), m.page)
      BY <1>6 DEF Verdict
    <2>2. Evolves(Resolved(d), Verdict(m).record, served[d], acked[d])
      <3>1. Evolves(Resolved(d), Acknowledged(Resolved(d), m.page).record, served[d], acked[d])
        BY <1>1, <1>4, AcknowledgedEvolves
      <3> QED BY <2>1, <3>1
    <2>3. /\ Verdict(m).answer \in {"acknowledged", "unavailable"}
          /\ Verdict(m).answer = "acknowledged"
               => Verdict(m).record.state = "destroyed" /\ Verdict(m).record.claimId = m.page
      BY <1>1, <1>4, <2>1, AcknowledgedEvolves
    <2> QED BY <1>1, <1>3, <1>6, <2>2, <2>3, EvolvesTwice DEF Answers
  <1> QED BY <1>1, <1>5, <1>6

\* A request is handled: whatever it was and however late.
LEMMA HandlesStep ==
  ASSUME IInv, NEW m, Answerable(m), Handles(m)
  PROVE  /\ StoreStep
         /\ \A d \in Drops : acked'[d] \subseteq read
         /\ Verdict(m).answer \in Answers
         /\ m.op = "claim" /\ Verdict(m).answer = "unavailable" /\ m.code = "right"
              => OverFor(drop'[link[m.page]], m.page)
  <1> DEFINE v == Verdict(m)
             d == link[m.page]
  <1> HIDE DEF v
  <1>1. /\ d \in Drops
        /\ Evolves(drop[d], v.record, served[d], acked[d])
        /\ v.answer \in Answers
        /\ v.answer = "revealed" => v.record.state = "reserved" /\ v.record.claimId = m.page
        /\ v.answer = "acknowledged" => /\ v.record.state = "destroyed"
                                         /\ v.record.claimId = m.page
                                         /\ m.op = "ack"
        /\ m.op = "claim" /\ v.answer = "unavailable" /\ m.code = "right"
             => OverFor(v.record, m.page)
    BY VerdictEvolves DEF v
  <1>2. /\ drop' = [drop EXCEPT ![d] = v.record]
        /\ served' = IF v.answer = "revealed" THEN [served EXCEPT ![d] = @ \cup {m.page}] ELSE served
        /\ acked' = IF v.answer = "acknowledged" THEN [acked EXCEPT ![d] = @ \cup {m.page}] ELSE acked
    BY DEF Handles, v
  <1>3. m.page \in Pages /\ Types /\ Sound /\ AckedWasRead
    BY DEF Answerable, Request, IInv
  <1>4. drop' \in [Drops -> Record]
    BY <1>1, <1>2, <1>3 DEF Types, Evolves
  <1>5. served' \in [Drops -> SUBSET Pages] /\ acked' \in [Drops -> SUBSET Pages]
    BY <1>1, <1>2, <1>3 DEF Types
  <1>6. \A c \in Drops : c # d => drop'[c] = drop[c] /\ served'[c] = served[c] /\ acked'[c] = acked[c]
    BY <1>1, <1>2, <1>3 DEF Types
  <1>7. /\ drop'[d] = v.record
        /\ served'[d] = IF v.answer = "revealed" THEN served[d] \cup {m.page} ELSE served[d]
        /\ acked'[d] = IF v.answer = "acknowledged" THEN acked[d] \cup {m.page} ELSE acked[d]
    BY <1>1, <1>2, <1>3 DEF Types
  <1>8. SoundDrop(v.record, served[d], acked[d])
    BY <1>1, <1>3 DEF Evolves, Sound
  <1>9. SoundDrop(drop'[d], served'[d], acked'[d])
    BY <1>1, <1>7, <1>8 DEF SoundDrop
  <1>10. Sound'
    BY <1>3, <1>6, <1>9 DEF Sound
  <1>11. \A c \in Drops : Follows(drop[c], drop'[c])
    BY <1>1, <1>6, <1>7 DEF Evolves, Follows
  <1>12. \A c \in Drops : acked'[c] \subseteq read
    BY <1>1, <1>3, <1>6, <1>7 DEF AckedWasRead, Answerable
  <1> QED BY <1>1, <1>4, <1>5, <1>7, <1>10, <1>11, <1>12 DEF StoreStep, v

-----------------------------------------------------------------------------
(* The invariant: what a step of the store leaves of the other parts *)

LEMMA OverKept ==
  ASSUME StoreStep, NEW d \in Drops, NEW p, OverFor(drop[d], p)
  PROVE  OverFor(drop'[d], p)
  BY DEF StoreStep, Follows, OverFor

LEMMA PostedKept ==
  ASSUME Posted, StoreStep, UNCHANGED gateway
  PROVE  Posted'
  BY DEF Posted, StoreStep, Follows, gateway

\* A page that still waits for the same answer, or has the same one.
LEMMA ToldKept ==
  ASSUME IInv, StoreStep, NEW p \in Pages,
         tab'[p] = tab[p], answer'[p] = answer[p], typed'[p] = typed[p], link'[p] = link[p],
         tab[p] = "claiming" /\ answer[p] = "unavailable" /\ typed[p] = "right"
  PROVE  OverFor(drop'[link'[p]], p)
  <1>1. link[p] \in Drops
    BY DEF IInv, Linked, Types
  <1>2. OverFor(drop[link[p]], p)
    BY DEF IInv, Told
  <1> QED BY <1>1, <1>2, OverKept

LEMMA StoreOnly ==
  ASSUME IInv, StoreStep, UNCHANGED <<acked, gateway, browser, faults>>, late' \in SUBSET Drops
  PROVE  IInv'
  <1>1. Types'
    BY DEF IInv, Types, StoreStep, gateway, browser
  <1>2. Posted'
    BY PostedKept DEF IInv
  <1>3. Linked' /\ Asked' /\ AckedWasRead'
    BY DEF IInv, Linked, Asked, AckedWasRead, gateway, browser
  <1>4. Told'
    BY ToldKept DEF Told, browser
  <1> QED BY <1>1, <1>2, <1>3, <1>4 DEF IInv, StoreStep

LEMMA CreateFinishInv == ASSUME IInv, NEW d \in Drops, CreateFinish(d) PROVE IInv'
  <1>1. PICK state \in {"available", "refused"} : drop' = [drop EXCEPT ![d].state = state]
    BY DEF CreateFinish
  <1>2. drop[d] \in Record /\ drop[d].state = "minting" /\ Types /\ Sound
    BY DEF CreateFinish, IInv, Types
  <1> DEFINE q == [drop[d] EXCEPT !.state = state]
  <1>3. q \in Record /\ q.state = state /\ q.claimId = drop[d].claimId
    BY <1>2 DEF Record, States
  <1>4. Evolves(drop[d], q, served[d], acked[d])
    BY <1>2, <1>3 DEF Evolves, Follows, SoundDrop, MintedStates
  <1>5. StoreStep
    BY <1>1, <1>2, <1>4, OneStep DEF CreateFinish
  <1> QED BY <1>5, StoreOnly DEF CreateFinish, IInv, Types

LEMMA LapseInv == ASSUME IInv, NEW d \in Drops, Lapse(d) PROVE IInv'
  <1>1. StoreStep
    BY IdleStep DEF Lapse, IInv
  <1> QED BY <1>1, StoreOnly DEF Lapse, IInv, Types

LEMMA AckTimeoutInv == ASSUME IInv, NEW d \in Drops, AckTimeout(d) PROVE IInv'
  <1>1. drop' = [drop EXCEPT ![d] = Destroyed(drop[d])]
    BY DEF AckTimeout
  <1>2. Evolves(drop[d], Destroyed(drop[d]), served[d], acked[d])
    BY DestroyedEvolves DEF AckTimeout, IInv, Types
  <1>3. StoreStep
    BY <1>1, <1>2, OneStep DEF AckTimeout, IInv
  <1> QED BY <1>3, StoreOnly DEF AckTimeout, IInv, Types

LEMMA SweepInv == ASSUME IInv, Sweep PROVE IInv'
  <1>1. \A d \in Drops : Evolves(drop[d], Resolved(d), served[d], acked[d])
    BY ResolvedEvolves DEF IInv
  <1>2. \A d \in Drops : drop'[d] = Resolved(d)
    BY DEF Sweep
  <1>3. drop' \in [Drops -> Record]
    BY <1>1 DEF Sweep, Evolves
  <1>4. StoreStep
    BY <1>1, <1>2, <1>3, AloneStep DEF Sweep, IInv
  <1> QED BY <1>4, StoreOnly DEF Sweep, IInv, Types

LEMMA DestroyAllInv == ASSUME IInv, DestroyAll PROVE IInv'
  <1> DEFINE q(d) == IF Resident(d) THEN Destroyed(drop[d]) ELSE drop[d]
  <1>1. \A d \in Drops : drop[d] \in Record
    BY DEF IInv, Types
  <1>2. \A d \in Drops : Evolves(drop[d], q(d), served[d], acked[d])
    BY <1>1, DestroyedEvolves, SameEvolves DEF Resident
  <1>3. \A d \in Drops : drop'[d] = q(d)
    BY DEF DestroyAll
  <1>4. drop' \in [Drops -> Record]
    <2>1. drop' = [d \in Drops |-> q(d)]
      BY DEF DestroyAll
    <2>2. \A d \in Drops : q(d) \in Record
      BY <1>2 DEF Evolves
    <2> HIDE DEF q
    <2> QED BY <2>1, <2>2
  <1>5. \A d \in Drops : Evolves(drop[d], drop'[d], served[d], acked[d])
    BY <1>2, <1>3
  <1>6. StoreStep
    BY <1>4, <1>5, AloneStep DEF DestroyAll, IInv
  <1> QED BY <1>6, StoreOnly DEF DestroyAll, IInv, Types

-----------------------------------------------------------------------------
(* The invariant: the gateway *)

\* Sending leaves the pages alone, and posts what was minted.
LEMMA SendingOnly ==
  ASSUME IInv, StoreStep, UNCHANGED <<late, acked, browser>>, faults' \in Nat,
         sender' \in [Drops -> Senders], chat \subseteq chat', chat' \subseteq Drops, Posted'
  PROVE  IInv'
  <1>1. Types'
    BY DEF IInv, Types, StoreStep, browser
  <1>2. Linked' /\ Asked' /\ AckedWasRead'
    BY DEF IInv, Linked, Asked, AckedWasRead, browser
  <1>3. Told'
    BY ToldKept DEF Told, browser
  <1> QED BY <1>1, <1>2, <1>3 DEF IInv, StoreStep

LEMMA FaultTyped == ASSUME faults \in Nat, Fault PROVE faults' \in Nat
  BY DEF Fault

LEMMA SendOutboundInv == ASSUME IInv, NEW d \in Drops, SendOutbound(d) PROVE IInv'
  <1> DEFINE q == [drop[d] EXCEPT !.state = "minting"]
  <1>1. drop[d] \in Record /\ drop[d].state = "none" /\ Types /\ Sound
    BY DEF SendOutbound, IInv, Types
  <1>2. q \in Record /\ q.state = "minting" /\ q.claimId = drop[d].claimId
    BY <1>1 DEF Record, States
  <1>3. Evolves(drop[d], q, served[d], acked[d])
    BY <1>1, <1>2 DEF Evolves, Follows, SoundDrop, MintedStates
  <1>4. StoreStep
    BY <1>1, <1>3, OneStep DEF SendOutbound
  <1>5. drop'[d].state = "minting"
    BY <1>1, <1>2 DEF SendOutbound, Types
  <1>6. \A c \in Drops : c # d => sender'[c] = sender[c]
    BY <1>1 DEF SendOutbound, Sends, Types
  <1>7. sender'[d] = "minting" /\ d \notin chat /\ chat' = chat
    BY <1>1 DEF SendOutbound, Sends, Types, IInv, Posted, MintedStates
  <1>8. Posted'
    BY <1>4, <1>5, <1>6, <1>7 DEF IInv, Posted, StoreStep, Follows
  <1>9. sender' \in [Drops -> Senders]
    BY <1>1 DEF SendOutbound, Sends, Types, Senders
  <1> QED BY <1>1, <1>4, <1>7, <1>8, <1>9, SendingOnly DEF SendOutbound, Types

LEMMA MintAnsweredInv == ASSUME IInv, NEW d \in Drops, MintAnswered(d) PROVE IInv'
  <1>1. Types /\ Sound /\ Posted
    BY DEF IInv
  <1>2. PICK place \in {"refused", "posting"} :
          /\ sender' = [sender EXCEPT ![d] = place]
          /\ place = "posting" => drop[d].state # "refused"
    BY DEF MintAnswered, Sends
  <1>3. /\ sender[d] = "minting" /\ drop[d].state # "minting"
        /\ UNCHANGED <<drop, late, served, acked, chat, browser, faults>>
    BY DEF MintAnswered, store
  <1>4. StoreStep
    BY <1>1, <1>3, IdleStep
  <1>5. place = "posting" => drop[d].state \in MintedStates
    BY <1>1, <1>2, <1>3 DEF Posted, Types, Record, States, MintedStates
  <1>6. sender'[d] = place /\ \A c \in Drops : c # d => sender'[c] = sender[c]
    BY <1>1, <1>2 DEF Types
  <1>7. Posted'
    BY <1>1, <1>3, <1>5, <1>6 DEF Posted
  <1>8. sender' \in [Drops -> Senders]
    BY <1>1, <1>2 DEF Types, Senders
  <1> QED BY <1>1, <1>3, <1>4, <1>7, <1>8, SendingOnly DEF Types

LEMMA PostLandsInv == ASSUME IInv, NEW d \in Drops, PostLands(d) PROVE IInv'
  <1>1. StoreStep
    BY IdleStep DEF PostLands, store, IInv
  <1>2. Posted'
    BY DEF PostLands, store, IInv, Posted
  <1> QED BY <1>1, <1>2, SendingOnly DEF PostLands, store, IInv, Types

\* A send that ends, one way or the other.
LEMMA SentInv ==
  ASSUME IInv, NEW d \in Drops, NEW place \in {"delivered", "refused"}, Sends(d, place),
         UNCHANGED <<store, chat, browser>>, faults' \in Nat
  PROVE  IInv'
  <1>1. StoreStep
    BY IdleStep DEF store, IInv
  <1>2. sender'[d] = place /\ \A c \in Drops : c # d => sender'[c] = sender[c]
    BY DEF Sends, IInv, Types
  <1>3. Posted'
    BY <1>2 DEF IInv, Posted, store
  <1>4. sender' \in [Drops -> Senders]
    BY DEF Sends, IInv, Types, Senders
  <1> QED BY <1>1, <1>3, <1>4, SendingOnly DEF store, IInv, Types

LEMMA PostAnsweredInv == ASSUME IInv, NEW d \in Drops, PostAnswered(d) PROVE IInv'
  <1>1. faults' \in Nat
    BY FaultTyped DEF PostAnswered, IInv, Types
  <1>2. CASE Sends(d, "delivered")
    BY <1>1, <1>2, SentInv DEF PostAnswered
  <1>3. CASE Sends(d, "refused")
    BY <1>1, <1>3, SentInv DEF PostAnswered
  <1> QED BY <1>2, <1>3 DEF PostAnswered

LEMMA SendGivenUpInv == ASSUME IInv, NEW d \in Drops, SendGivenUp(d) PROVE IInv'
  <1>1. faults' \in Nat
    BY FaultTyped DEF SendGivenUp, IInv, Types
  <1> QED BY <1>1, SentInv DEF SendGivenUp

-----------------------------------------------------------------------------
(* The invariant: the pages *)

BrowserTypes ==
  /\ tab \in [Pages -> Tabs]
  /\ link \in [Pages -> Drops \cup {None}]
  /\ typed \in [Pages -> Codes]
  /\ answer \in [Pages -> Answers \cup {None}]
  /\ read \in SUBSET Pages
  /\ faults \in Nat

SamePage(q) == tab'[q] = tab[q] /\ link'[q] = link[q] /\ typed'[q] = typed[q] /\ answer'[q] = answer[q]

\* What a step of page p owes the invariant.
PageOwes(p) ==
  /\ tab'[p] # "closed" /\ link'[p] \in chat
  /\ tab'[p] = "acking" => p \in read'
  /\ \/ SamePage(p)
     \/ tab'[p] = "claiming" /\ answer'[p] = "unavailable" /\ typed'[p] = "right"
          => OverFor(drop'[link'[p]], p)
  /\ \A m \in stray' \ stray : m \in Request /\ m.page = p /\ (m.op = "ack" => p \in read)

LEMMA PageStep ==
  ASSUME IInv, StoreStep, NEW p \in Pages, PageOwes(p), BrowserTypes',
         \A q \in Pages \ {p} : SamePage(q), read \subseteq read',
         UNCHANGED <<late, gateway>>, \A d \in Drops : acked'[d] \subseteq read'
  PROVE  IInv'
  <1>1. Types /\ Posted /\ Linked /\ Asked
    BY DEF IInv
  <1>2. stray' \in SUBSET Request
    BY <1>1 DEF Types, PageOwes
  <1>3. Types'
    BY <1>1, <1>2 DEF Types, StoreStep, BrowserTypes, gateway
  <1>4. Posted'
    BY <1>1, PostedKept
  <1>5. Linked'
    <2>1. \A q \in Pages : tab'[q] # "closed" => link'[q] \in chat'
      BY <1>1 DEF Linked, PageOwes, SamePage, gateway
    <2>2. \A m \in stray' : tab'[m.page] # "closed"
      <3> SUFFICES ASSUME NEW m \in stray' PROVE tab'[m.page] # "closed"
        OBVIOUS
      <3>1. m.page \in Pages
        BY <1>2 DEF Request
      <3>2. CASE m.page = p
        BY <3>2 DEF PageOwes
      <3>3. CASE m.page # p
        BY <1>1, <3>1, <3>3 DEF Linked, PageOwes, SamePage
      <3> QED BY <3>2, <3>3
    <2> QED BY <2>1, <2>2 DEF Linked
  <1>6. Asked'
    <2>1. \A q \in Pages : tab'[q] = "acking" => q \in read'
      BY <1>1 DEF Asked, PageOwes, SamePage
    <2>2. \A m \in stray' : m.op = "ack" => m.page \in read'
      BY <1>1 DEF Asked, PageOwes
    <2> QED BY <2>1, <2>2 DEF Asked
  <1>7. Told'
    <2> SUFFICES ASSUME NEW q \in Pages,
                        tab'[q] = "claiming", answer'[q] = "unavailable", typed'[q] = "right"
                 PROVE  OverFor(drop'[link'[q]], q)
      BY DEF Told
    <2>1. CASE SamePage(q)
      BY <2>1, ToldKept DEF SamePage
    <2>2. CASE ~SamePage(q)
      BY <2>2 DEF PageOwes
    <2> QED BY <2>1, <2>2
  <1> QED BY <1>3, <1>4, <1>5, <1>6, <1>7 DEF IInv, StoreStep, AckedWasRead

LEMMA LoadInv == ASSUME IInv, NEW p \in Pages, NEW d \in Drops, Load(p, d) PROVE IInv'
  <1>1. Types /\ Sound
    BY DEF IInv
  <1>2. StoreStep
    BY <1>1, ResolvedEvolves, OneStep DEF Load
  <1> DEFINE place == IF Resolved(d).state = "available" THEN "gate" ELSE "over"
  <1>3. place \in {"gate", "over"}
    OBVIOUS
  <1>4. tab' = [tab EXCEPT ![p] = place] /\ link' = [link EXCEPT ![p] = d]
    BY DEF Load, Goes
  <1> HIDE DEF place
  <1>5. BrowserTypes'
    BY <1>1, <1>3, <1>4 DEF Load, Types, BrowserTypes, Tabs
  <1>6. PageOwes(p)
    BY <1>1, <1>3, <1>4 DEF Load, Types, PageOwes
  <1>7. \A q \in Pages \ {p} : SamePage(q)
    BY <1>1, <1>4 DEF Load, Types, SamePage
  <1> QED BY <1>2, <1>5, <1>6, <1>7, PageStep DEF Load, IInv, AckedWasRead

LEMMA PressInv == ASSUME IInv, NEW p \in Pages, NEW code \in Codes, Press(p, code) PROVE IInv'
  <1>1. Types /\ Linked /\ StoreStep
    BY IdleStep DEF IInv, Press, store
  <1>2. BrowserTypes'
    BY <1>1 DEF Press, Goes, Types, BrowserTypes, Tabs
  <1>3. PageOwes(p)
    BY <1>1, OutboundAssumption DEF Press, Goes, Types, PageOwes, Linked, Answers
  <1>4. \A q \in Pages \ {p} : SamePage(q)
    BY <1>1 DEF Press, Goes, Types, SamePage
  <1> QED BY <1>1, <1>2, <1>3, <1>4, PageStep DEF Press, IInv, AckedWasRead, store

LEMMA AsksAnswerable ==
  ASSUME IInv, NEW p \in Pages, Waits(p)
  PROVE  /\ Answerable(Asks(p))
         /\ Asks(p).page = p /\ Asks(p).code = typed[p]
         /\ Asks(p).op = "ack" <=> tab[p] = "acking"
         /\ Asks(p).op = "claim" <=> tab[p] = "claiming"
  BY DEF IInv, Types, Linked, Asked, Waits, Asks, Answerable, Request

LEMMA RequestArrivesInv == ASSUME IInv, NEW p \in Pages, RequestArrives(p) PROVE IInv'
  <1> DEFINE m == Asks(p)
             a == Verdict(m).answer
  <1>1. /\ Waits(p) /\ Handles(m) /\ answer' = [answer EXCEPT ![p] = a]
        /\ UNCHANGED <<tab, link, typed, stray, read, faults>>
    BY DEF RequestArrives
  <1>2. /\ Answerable(m) /\ m.page = p /\ m.code = typed[p]
        /\ m.op = "claim" <=> tab[p] = "claiming"
    BY <1>1, AsksAnswerable
  <1> HIDE DEF m
  <1>3. /\ StoreStep
        /\ \A d \in Drops : acked'[d] \subseteq read
        /\ a \in Answers
        /\ m.op = "claim" /\ a = "unavailable" /\ m.code = "right"
             => OverFor(drop'[link[m.page]], m.page)
    BY <1>1, <1>2, HandlesStep
  <1> HIDE DEF a
  <1>4. Types /\ Linked /\ Asked
    BY DEF IInv
  <1>5. BrowserTypes'
    BY <1>1, <1>3, <1>4 DEF Types, BrowserTypes
  <1>6. answer'[p] = a
    BY <1>1, <1>4 DEF Types
  <1>7. PageOwes(p)
    BY <1>1, <1>2, <1>3, <1>4, <1>6 DEF PageOwes, Linked, Asked, Waits
  <1>8. \A q \in Pages \ {p} : SamePage(q)
    BY <1>1, <1>4 DEF Types, SamePage
  <1> QED BY <1>1, <1>3, <1>5, <1>7, <1>8, PageStep DEF Handles

LEMMA StrayArrivesInv == ASSUME IInv, NEW m \in stray, StrayArrives(m) PROVE IInv'
  <1>1. Types /\ Linked /\ Asked
    BY DEF IInv
  <1>2. m.page \in Pages /\ Answerable(m)
    BY <1>1 DEF Types, Linked, Asked, Answerable, Request
  <1>3. StoreStep /\ \A d \in Drops : acked'[d] \subseteq read
    BY <1>2, HandlesStep DEF StrayArrives
  <1>4. BrowserTypes'
    BY <1>1 DEF StrayArrives, Types, BrowserTypes
  <1>5. PageOwes(m.page) /\ \A q \in Pages : SamePage(q)
    BY <1>1, <1>2 DEF StrayArrives, PageOwes, SamePage, Linked, Asked
  <1> QED BY <1>2, <1>3, <1>4, <1>5, PageStep DEF StrayArrives, Handles

\* Steps of a page that the store does not see.
LEMMA AwayStep ==
  ASSUME IInv, NEW p \in Pages, UNCHANGED <<store, gateway, link, typed>>,
         NEW place \in Tabs \ {"closed"}, Goes(p, place), tab[p] # "closed",
         place = "acking" => p \in read', place # "claiming",
         answer' = answer \/ answer' = [answer EXCEPT ![p] = None],
         read \subseteq read', read' \in SUBSET Pages, faults' \in Nat,
         \A m \in stray' \ stray : m = Asks(p) /\ Waits(p)
  PROVE  IInv'
  <1>1. Types /\ Linked /\ StoreStep
    BY IdleStep DEF IInv, store
  <1>2. BrowserTypes'
    BY <1>1 DEF Goes, Types, BrowserTypes
  <1>3. tab'[p] = place /\ link'[p] \in chat
    BY <1>1 DEF Goes, Types, Linked
  <1>4. \A m \in stray' \ stray : m \in Request /\ m.page = p /\ (m.op = "ack" => p \in read)
    BY AsksAnswerable DEF Answerable
  <1>5. PageOwes(p)
    BY <1>3, <1>4 DEF PageOwes
  <1>6. \A q \in Pages \ {p} : SamePage(q)
    BY <1>1 DEF Goes, Types, SamePage
  <1> QED BY <1>1, <1>2, <1>5, <1>6, PageStep DEF IInv, AckedWasRead, store

LEMMA ClaimRefusedInv == ASSUME IInv, NEW p \in Pages, ClaimRefused(p) PROVE IInv'
  <1> DEFINE place == IF answer[p] = "code_incorrect" THEN "gate" ELSE "over"
  <1>1. place \in {"gate", "over"} /\ Goes(p, place)
    BY DEF ClaimRefused
  <1> HIDE DEF place
  <1> QED BY <1>1, AwayStep DEF ClaimRefused, IInv, Types, Tabs

LEMMA OpensInv == ASSUME IInv, NEW p \in Pages, Opens(p) PROVE IInv'
  <1>1. read \in SUBSET Pages /\ faults' \in Nat /\ tab[p] = "claiming" /\ stray' = stray
    BY DEF Opens, IInv, Types
  <1>2. CASE p \in Damaged
    BY <1>1, <1>2, AwayStep DEF Opens, Tabs
  <1>3. CASE p \notin Damaged
    BY <1>1, <1>3, AwayStep DEF Opens, Tabs
  <1> QED BY <1>2, <1>3

LEMMA ShowsInv == ASSUME IInv, NEW p \in Pages, Shows(p) PROVE IInv'
  BY AwayStep DEF Shows, IInv, Types, Tabs

LEMMA FailsInv ==
  ASSUME IInv, NEW p \in Pages, NEW place \in {"gate", "over"}, Fails(p, place) PROVE IInv'
  <1>1. faults' \in Nat
    BY FaultTyped DEF Fails, IInv, Types
  <1>2. \A m \in stray' \ stray : m = Asks(p)
    BY DEF Fails
  <1> QED BY <1>1, <1>2, AwayStep DEF Fails, Waits, IInv, Types, Tabs

LEMMA CloseInv == ASSUME IInv, NEW p \in Pages, Close(p) PROVE IInv'
  <1>1. faults' \in Nat
    BY FaultTyped DEF Close, IInv, Types
  <1>2. \A m \in stray' \ stray : m = Asks(p) /\ Waits(p)
    BY DEF Close
  <1> QED BY <1>1, <1>2, AwayStep DEF Close, IInv, Types, Tabs

LEMMA BrowsingInv == ASSUME IInv, NEW p \in Pages, Browsing(p) PROVE IInv'
  BY LoadInv, PressInv, RequestArrivesInv, ClaimRefusedInv, OpensInv, ShowsInv, FailsInv, CloseInv
  DEF Browsing, FetchRejects, BodyLost

LEMMA SendingInv == ASSUME IInv, NEW d \in Drops, Sending(d) PROVE IInv'
  BY SendOutboundInv, MintAnsweredInv, PostLandsInv, PostAnsweredInv, SendGivenUpInv DEF Sending

LEMMA InvInit == Init => IInv
  <1> SUFFICES ASSUME Init PROVE IInv
    OBVIOUS
  <1>1. Types
    <2>1. [state |-> "none", left |-> MaxCodeAttempts, claimId |-> None] \in Record
      BY OutboundAssumption DEF Record, States
    <2> QED BY <2>1, OutboundAssumption DEF Init, Types, Senders, Tabs, Codes
  <1>2. Sound /\ Posted /\ Linked /\ Asked /\ Told /\ AckedWasRead
    BY DEF Init, Sound, SoundDrop, Posted, Linked, Asked, Told, AckedWasRead
  <1> QED BY <1>1, <1>2 DEF IInv

LEMMA InvNext == IInv /\ [Next]_vars => IInv'
  <1> SUFFICES ASSUME IInv, [Next]_vars PROVE IInv'
    OBVIOUS
  <1>1. ASSUME NEW d \in Drops, CreateFinish(d) \/ Lapse(d) \/ AckTimeout(d) \/ Sending(d)
        PROVE  IInv'
    BY <1>1, CreateFinishInv, LapseInv, AckTimeoutInv, SendingInv
  <1>2. CASE Sweep \/ DestroyAll
    BY <1>2, SweepInv, DestroyAllInv
  <1>3. ASSUME NEW p \in Pages, Browsing(p) PROVE IInv'
    BY <1>3, BrowsingInv
  <1>4. ASSUME NEW m \in stray, StrayArrives(m) PROVE IInv'
    BY <1>4, StrayArrivesInv
  <1>5. CASE UNCHANGED vars
    <2>1. StoreStep
      BY <1>5, IdleStep DEF IInv, vars, store
    <2> QED BY <1>5, <2>1, StoreOnly DEF IInv, Types, vars, store
  <1> QED BY <1>1, <1>2, <1>3, <1>4, <1>5 DEF Next

-----------------------------------------------------------------------------
(* The theorems *)

\* In every reachable state every part is of its type, a drop agrees with its history, a
\* page opens only what was posted and a request acknowledges only what its page read:
\* the strengthening the theorems below rest on.
THEOREM Invariant == Spec => []IInv
  BY InvInit, InvNext, PTL DEF Spec

LEMMA OneClaimId == IInv => OneBrowser
  <1> SUFFICES ASSUME IInv, NEW d \in Drops PROVE Cardinality(served[d]) <= 1
    BY DEF OneBrowser
  <1>1. served[d] \subseteq {drop[d].claimId}
    BY DEF IInv, Sound, SoundDrop
  <1>2. IsFiniteSet({drop[d].claimId}) /\ Cardinality({drop[d].claimId}) = 1
    BY FS_Singleton
  <1> QED BY <1>1, <1>2, FS_Subset

\* The ciphertext of a drop is given to one claim id, however many pages know the code and
\* however late their requests arrive (outbound-drop.js, claim).
THEOREM OneBrowserServed == Spec => []OneBrowser
  BY Invariant, OneClaimId, PTL

LEMMA HolderNotTold == IInv => HolderServed
  BY DEF IInv, Told, OverFor, HolderServed

\* The page that holds the reservation and presents the code is never refused, whatever
\* other pages and its own earlier requests did (the bounded retry of claim).
THEOREM HolderIsServed == Spec => []HolderServed
  BY Invariant, HolderNotTold, PTL

\* A drop destroyed by an acknowledgement was decrypted by the page that acknowledged it,
\* even when the acknowledgement arrives after its page stopped waiting (revealSecret).
THEOREM AcknowledgedRead == Spec => []AckedWasRead
  <1>1. IInv => AckedWasRead
    BY DEF IInv
  <1> QED BY <1>1, Invariant, PTL

-----------------------------------------------------------------------------
(* The outbound store implements the one-shot drop: a reservation lends the *)
(* payload, the acknowledgement hands it over, every other destruction ends *)
(* it, and the gateway and the pages do nothing that OneShot sees.          *)


stageOf == [d \in Drops |-> Stage(d)]
contentOf == [d \in Drops |-> IF Resident(d) \/ drop[d].state = "destroyed" THEN "secret" ELSE None]
handedOf == [d \in Drops |-> Cardinality(acked[d])]

\* A step of the mapped variables.
PromiseStep == Promise!Next \/ UNCHANGED <<stageOf, contentOf, handedOf>>

\* All but one drop stay what they are.
Elsewhere(d) == \A c \in Drops \ {d} : drop'[c] = drop[c] /\ acked'[c] = acked[c]

-----------------------------------------------------------------------------
(* How a replaced record looks to OneShot *)

\* OneShot sees the state and the acknowledgement only.
LEMMA SameLook ==
  ASSUME Types, NEW d \in Drops, drop'[d].state = drop[d].state, acked'[d] = acked[d]
  PROVE  stageOf'[d] = stageOf[d] /\ contentOf'[d] = contentOf[d] /\ handedOf'[d] = handedOf[d]
  <1>1. drop[d].state \in States
    BY DEF Types, Record
  <1>2. Stage(d)' = Stage(d)
    BY <1>1 DEF Stage, States
  <1> QED BY <1>2 DEF stageOf, contentOf, handedOf, Resident

LEMMA MovesOne ==
  ASSUME Types, NEW d \in Drops, Elsewhere(d)
  PROVE  /\ stageOf' = [stageOf EXCEPT ![d] = stageOf'[d]]
         /\ contentOf' = [contentOf EXCEPT ![d] = contentOf'[d]]
         /\ handedOf' = [handedOf EXCEPT ![d] = handedOf'[d]]
  <1>1. \A c \in Drops \ {d} : /\ stageOf'[c] = stageOf[c]
                               /\ contentOf'[c] = contentOf[c]
                               /\ handedOf'[c] = handedOf[c]
    BY SameLook DEF Elsewhere
  <1> QED BY <1>1, Zenon DEF stageOf, contentOf, handedOf

LEMMA StaysStep ==
  ASSUME Types, NEW d \in Drops, Elsewhere(d), drop'[d].state = drop[d].state, acked'[d] = acked[d]
  PROVE  PromiseStep
  <1>1. \A c \in Drops : /\ stageOf'[c] = stageOf[c]
                         /\ contentOf'[c] = contentOf[c]
                         /\ handedOf'[c] = handedOf[c]
    BY SameLook DEF Elsewhere
  <1>2. stageOf' = stageOf /\ contentOf' = contentOf /\ handedOf' = handedOf
    BY <1>1 DEF stageOf, contentOf, handedOf
  <1> QED BY <1>2 DEF PromiseStep

LEMMA OpenStep ==
  ASSUME Types, NEW d \in Drops, Elsewhere(d), acked'[d] = acked[d],
         drop[d].state = "none", drop'[d].state = "minting"
  PROVE  PromiseStep
  <1>1. /\ stageOf[d] = "none" /\ stageOf'[d] = "open"
        /\ contentOf'[d] = contentOf[d] /\ handedOf'[d] = handedOf[d]
    BY DEF stageOf, contentOf, handedOf, Stage, Resident
  <1>2. /\ stageOf' = [stageOf EXCEPT ![d] = "open"]
        /\ contentOf' = contentOf /\ handedOf' = handedOf
    BY <1>1, MovesOne DEF contentOf, handedOf
  <1>3. Promise!Open(d)
    BY <1>1, <1>2 DEF Promise!Open, stageOf, contentOf, handedOf
  <1> QED BY <1>3 DEF PromiseStep, Promise!Next

LEMMA DepositStep ==
  ASSUME Types, NEW d \in Drops, Elsewhere(d), acked'[d] = acked[d],
         drop[d].state = "minting", drop'[d].state = "available"
  PROVE  PromiseStep
  <1>1. /\ stageOf[d] = "open" /\ stageOf'[d] = "held"
        /\ contentOf'[d] = "secret" /\ handedOf'[d] = handedOf[d]
    BY DEF stageOf, contentOf, handedOf, Stage, Resident
  <1>2. /\ stageOf' = [stageOf EXCEPT ![d] = "held"]
        /\ contentOf' = [contentOf EXCEPT ![d] = "secret"] /\ handedOf' = handedOf
    BY <1>1, MovesOne DEF handedOf
  <1>3. Promise!Deposit(d, "secret")
    BY <1>1, <1>2 DEF Promise!Deposit, stageOf, contentOf, handedOf
  <1> QED BY <1>3 DEF PromiseStep, Promise!Next

LEMMA LendStep ==
  ASSUME Types, NEW d \in Drops, Elsewhere(d), acked'[d] = acked[d],
         drop[d].state = "available", drop'[d].state = "reserved"
  PROVE  PromiseStep
  <1>1. /\ stageOf[d] = "held" /\ stageOf'[d] = "lent"
        /\ contentOf'[d] = contentOf[d] /\ handedOf'[d] = handedOf[d]
    BY DEF stageOf, contentOf, handedOf, Stage, Resident
  <1>2. /\ stageOf' = [stageOf EXCEPT ![d] = "lent"]
        /\ contentOf' = contentOf /\ handedOf' = handedOf
    BY <1>1, MovesOne DEF contentOf, handedOf
  <1>3. Promise!Lend(d)
    BY <1>1, <1>2 DEF Promise!Lend, stageOf, contentOf, handedOf
  <1> QED BY <1>3 DEF PromiseStep, Promise!Next

LEMMA HandOverStep ==
  ASSUME Types, NEW d \in Drops, NEW p \in Pages, Elsewhere(d), acked[d] = {}, acked'[d] = {p},
         drop[d].state = "reserved", drop'[d].state = "destroyed"
  PROVE  PromiseStep
  <1>1. Cardinality(acked[d]) = 0 /\ Cardinality(acked'[d]) = 1
    BY FS_EmptySet, FS_Singleton
  <1>2. /\ stageOf[d] = "lent" /\ stageOf'[d] = "spent" /\ contentOf'[d] = contentOf[d]
    BY DEF stageOf, contentOf, Stage, Resident
  <1>3. handedOf'[d] = handedOf[d] + 1
    BY <1>1 DEF handedOf
  <1>4. /\ stageOf' = [stageOf EXCEPT ![d] = "spent"]
        /\ contentOf' = contentOf /\ handedOf' = [handedOf EXCEPT ![d] = @ + 1]
    BY <1>2, <1>3, MovesOne DEF contentOf, handedOf
  <1>5. Promise!HandOver(d)
    BY <1>2, <1>4 DEF Promise!HandOver, stageOf, contentOf, handedOf
  <1> QED BY <1>5 DEF PromiseStep, Promise!Next

\* Drops in the store, or being made, end together.
Ends(d) == \/ Resident(d) /\ drop'[d].state = "destroyed"
           \/ drop[d].state = "minting" /\ drop'[d].state = "refused"

LEMMA EndStep ==
  ASSUME Types, Sound, NEW S \in SUBSET Drops, \A d \in S : Ends(d), UNCHANGED acked,
         \A d \in Drops \ S : drop'[d] = drop[d]
  PROVE  PromiseStep
  <1>1. \A d \in S : acked[d] = {}
    BY DEF Sound, SoundDrop, Ends, Resident
  <1>2. \A d \in S : stageOf[d] \notin {"none", "over"} /\ stageOf'[d] = "over"
    BY <1>1 DEF stageOf, Stage, Ends, Resident
  <1>3. \A d \in S : contentOf'[d] = contentOf[d]
    BY DEF contentOf, Ends, Resident
  <1>4. \A d \in Drops \ S : stageOf'[d] = stageOf[d] /\ contentOf'[d] = contentOf[d]
    BY SameLook
  <1>5. /\ stageOf' = [d \in Drops |-> IF d \in S THEN "over" ELSE stageOf[d]]
        /\ contentOf' = contentOf /\ handedOf' = handedOf
    BY <1>2, <1>3, <1>4 DEF stageOf, contentOf, handedOf
  <1>6. Promise!End(S)
    BY <1>2, <1>5 DEF Promise!End, stageOf, contentOf, handedOf
  <1> QED BY <1>6 DEF PromiseStep, Promise!Next

-----------------------------------------------------------------------------
(* The store *)

\* A single drop of the store that ends.
LEMMA EndOne ==
  ASSUME Types, Sound, NEW d \in Drops, Elsewhere(d), UNCHANGED acked, Ends(d)
  PROVE  PromiseStep
  <1> DEFINE S == {d}
  <1>1. /\ S \in SUBSET Drops
        /\ \A c \in S : Ends(c)
        /\ \A c \in Drops \ S : drop'[c] = drop[c]
    BY DEF Elsewhere
  <1> HIDE DEF S
  <1> QED BY <1>1, EndStep

LEMMA DestroyedState == ASSUME NEW r \in Record PROVE Destroyed(r).state = "destroyed"
  BY DEF Destroyed, Record

\* A claim leaves the state, reserves, or spends the last attempt.
LEMMA ClaimedMoves ==
  ASSUME NEW r \in Record, NEW p \in Pages, NEW code \in Codes
  PROVE  LET v == Claimed(r, p, code) IN
         /\ v.answer # "acknowledged"
         /\ r.state = "destroyed" => v.record = r
         /\ \/ v.record.state = r.state
            \/ r.state = "available" /\ v.record.state \in {"reserved", "destroyed"}
  <1> DEFINE v == Claimed(r, p, code)
  <1>1. CASE r.state = "reserved"
    BY <1>1 DEF Claimed, Reserved
  <1>2. CASE r.state = "available"
    <2>1. v = Guessed(r, p, code)
      BY <1>2 DEF Claimed
    <2>2. CASE code = "right"
      <3>1. v = [record |-> ReservedFor(r, p), answer |-> "revealed"]
        BY <2>1, <2>2 DEF Guessed
      <3>2. v.record.state = "reserved" /\ v.answer = "revealed"
        <4> HIDE DEF v
        <4> QED BY <3>1, ReservedRecord
      <3> QED BY <1>2, <3>2
    <2>3. CASE code # "right" /\ r.left > 1
      <3>1. v = [record |-> [r EXCEPT !.left = @ - 1], answer |-> "code_incorrect"]
        BY <2>1, <2>3 DEF Guessed
      <3> QED BY <1>2, <3>1 DEF Record
    <2>4. CASE code # "right" /\ ~(r.left > 1)
      <3>1. v = [record |-> Destroyed([r EXCEPT !.left = 0]), answer |-> "unavailable"]
        BY <2>1, <2>4 DEF Guessed
      <3>2. v.record.state = "destroyed" /\ v.answer = "unavailable"
        <4> HIDE DEF v
        <4> QED BY <3>1, SpentRecord
      <3> QED BY <1>2, <3>2
    <2> QED BY <2>2, <2>3, <2>4
  <1>3. CASE r.state \notin {"reserved", "available"}
    BY <1>3 DEF Claimed
  <1> QED BY <1>1, <1>2, <1>3

\* An acknowledgement destroys what it found reserved, or nothing.
LEMMA AcknowledgedMoves ==
  ASSUME NEW r \in Record, NEW p \in Pages
  PROVE  LET v == Acknowledged(r, p) IN
         \/ v.answer # "acknowledged" /\ v.record = r
         \/ r.state = "reserved" /\ v.answer = "acknowledged" /\ v.record.state = "destroyed"
  <1>1. CASE r.state = "reserved" /\ r.claimId = p
    BY <1>1, DestroyedState DEF Acknowledged
  <1>2. CASE ~(r.state = "reserved" /\ r.claimId = p)
    BY <1>2 DEF Acknowledged
  <1> QED BY <1>1, <1>2

LEMMA HandlesRefines ==
  ASSUME IInv, NEW m, Answerable(m), Handles(m)
  PROVE  PromiseStep
  <1> DEFINE d == link[m.page]
             v == Verdict(m)
  <1>1. Types /\ Sound
    BY DEF IInv
  <1>2. d \in Drops /\ m.page \in Pages /\ m.code \in Codes /\ m.op \in {"claim", "ack"}
    BY <1>1 DEF IInv, Types, Answerable, Request
  <1>3. drop[d] \in Record
    BY <1>1, <1>2 DEF Types
  <1>4. /\ m.op = "claim" => v = Claimed(Resolved(d), m.page, m.code)
        /\ m.op = "ack" => v = Acknowledged(Resolved(d), m.page)
    BY <1>2 DEF Verdict
  <1>5. /\ drop' = [drop EXCEPT ![d] = v.record]
        /\ acked' = IF v.answer = "acknowledged" THEN [acked EXCEPT ![d] = @ \cup {m.page}] ELSE acked
    BY DEF Handles
  <1> HIDE DEF v
  <1>6. drop'[d] = v.record /\ Elsewhere(d)
    BY <1>1, <1>2, <1>5 DEF Types, Elsewhere
  <1>7. CASE Overdue(d)
    <2>1. Resolved(d) = Destroyed(drop[d]) /\ Resolved(d) \in Record
      BY <1>3, <1>7, "destroyed" \in States, FieldUpdate, Zenon DEF Resolved, Destroyed, States
    <2>2. Resolved(d).state = "destroyed"
      BY <1>3, <2>1, DestroyedState
    <2>3. v.record = Resolved(d) /\ v.answer # "acknowledged"
      BY <1>2, <1>4, <2>1, <2>2, ClaimedMoves, AcknowledgedMoves
    <2>4. Ends(d) /\ UNCHANGED acked
      BY <1>5, <1>6, <1>7, <2>2, <2>3 DEF Ends, Overdue
    <2> QED BY <1>1, <1>2, <1>6, <2>4, EndOne
  <1>8. CASE ~Overdue(d)
    <2>1. Resolved(d) = drop[d]
      BY <1>8 DEF Resolved
    <2>2. CASE m.op = "claim"
      <3>1. /\ v.answer # "acknowledged"
            /\ \/ v.record.state = drop[d].state
               \/ drop[d].state = "available" /\ v.record.state \in {"reserved", "destroyed"}
        BY <1>2, <1>3, <1>4, <2>1, <2>2, ClaimedMoves
      <3>2. UNCHANGED acked
        BY <1>5, <3>1
      <3> QED BY <1>1, <1>2, <1>6, <3>1, <3>2, StaysStep, LendStep, EndOne DEF Ends, Resident
    <2>3. CASE m.op = "ack"
      <3>1. \/ v.answer # "acknowledged" /\ v.record = drop[d]
            \/ drop[d].state = "reserved" /\ v.answer = "acknowledged" /\ v.record.state = "destroyed"
        BY <1>2, <1>3, <1>4, <2>1, <2>3, AcknowledgedMoves
      <3>2. CASE v.answer # "acknowledged" /\ v.record = drop[d]
        BY <1>1, <1>2, <1>5, <1>6, <3>2, StaysStep
      <3>3. CASE drop[d].state = "reserved" /\ v.answer = "acknowledged" /\ v.record.state = "destroyed"
        <4>1. acked[d] = {}
          BY <1>1, <1>2, <3>3 DEF Sound, SoundDrop
        <4>2. acked'[d] = {m.page}
          BY <1>1, <1>2, <1>5, <3>3, <4>1 DEF Types
        <4>3. drop'[d].state = "destroyed"
          BY <1>6, <3>3
        <4>4. \A c \in Drops \ {d} : drop'[c] = drop[c] /\ acked'[c] = acked[c]
          BY <1>1, <1>2, <1>5 DEF Types
        <4> QED BY <1>1, <1>2, <3>3, <4>1, <4>2, <4>3, <4>4, HandOverStep DEF Elsewhere
      <3> QED BY <3>1, <3>2, <3>3
    <2> QED BY <1>2, <2>2, <2>3
  <1> QED BY <1>7, <1>8

\* Nothing that OneShot sees changes.
LEMMA Unseen == ASSUME UNCHANGED <<drop, acked>> PROVE PromiseStep
  BY DEF PromiseStep, stageOf, contentOf, handedOf, Stage, Resident

\* A lookup of one record, and its destruction by a timer.
LEMMA LookedUp ==
  ASSUME IInv, NEW d \in Drops, UNCHANGED acked,
         \/ drop' = [drop EXCEPT ![d] = Resolved(d)]
         \/ Resident(d) /\ drop' = [drop EXCEPT ![d] = Destroyed(drop[d])]
  PROVE  PromiseStep
  <1>1. Types /\ Sound /\ drop[d] \in Record
    BY DEF IInv, Types
  <1>2. Elsewhere(d)
    BY <1>1 DEF Types, Elsewhere
  <1>3. CASE Resident(d) /\ drop' = [drop EXCEPT ![d] = Destroyed(drop[d])]
    <2>1. drop'[d] = Destroyed(drop[d])
      BY <1>1, <1>3 DEF Types
    <2> QED BY <1>1, <1>2, <1>3, <2>1, DestroyedState, EndOne DEF Ends
  <1>4. CASE ~Overdue(d) /\ drop' = [drop EXCEPT ![d] = Resolved(d)]
    <2>1. drop'[d] = drop[d]
      BY <1>1, <1>4 DEF Types, Resolved
    <2> QED BY <1>1, <1>2, <2>1, StaysStep
  <1> QED BY <1>3, <1>4 DEF Overdue, Resolved

LEMMA CreateRefines == ASSUME IInv, NEW d \in Drops, CreateFinish(d) PROVE PromiseStep
  <1>1. Types /\ Sound /\ drop[d] \in Record
    BY DEF IInv, Types
  <1>2. PICK state \in {"available", "refused"} : drop' = [drop EXCEPT ![d].state = state]
    BY DEF CreateFinish
  <1>3. /\ drop[d].state = "minting" /\ drop'[d].state = state
        /\ Elsewhere(d) /\ UNCHANGED acked
    BY <1>1, <1>2 DEF CreateFinish, Types, Record, Elsewhere
  <1>4. CASE state = "available"
    BY <1>1, <1>3, <1>4, DepositStep
  <1>5. CASE state = "refused"
    BY <1>1, <1>3, <1>5, EndOne DEF Ends
  <1> QED BY <1>4, <1>5

LEMMA SweepRefines == ASSUME IInv, Sweep \/ DestroyAll PROVE PromiseStep
  <1>1. Types /\ Sound /\ UNCHANGED acked /\ \A d \in Drops : drop[d] \in Record
    BY DEF IInv, Types, Sweep, DestroyAll
  <1>2. CASE Sweep
    <2> DEFINE S == {d \in Drops : Overdue(d)}
    <2>1. \A d \in S : Resident(d) /\ drop'[d] = Destroyed(drop[d])
      BY <1>2 DEF Sweep, Resolved, Overdue
    <2>2. \A d \in Drops \ S : drop'[d] = drop[d]
      BY <1>2 DEF Sweep, Resolved
    <2>3. \A d \in S : Ends(d)
      BY <1>1, <2>1, DestroyedState DEF Ends
    <2> HIDE DEF S
    <2>4. S \in SUBSET Drops
      BY DEF S
    <2> QED BY <1>1, <2>2, <2>3, <2>4, EndStep
  <1>3. CASE DestroyAll
    <2> DEFINE S == {d \in Drops : Resident(d)}
    <2>1. \A d \in S : Resident(d) /\ drop'[d] = Destroyed(drop[d])
      BY <1>3 DEF DestroyAll
    <2>2. \A d \in Drops \ S : drop'[d] = drop[d]
      BY <1>3 DEF DestroyAll
    <2>3. \A d \in S : Ends(d)
      BY <1>1, <2>1, DestroyedState DEF Ends
    <2> HIDE DEF S
    <2>4. S \in SUBSET Drops
      BY DEF S
    <2> QED BY <1>1, <2>2, <2>3, <2>4, EndStep
  <1> QED BY <1>2, <1>3

-----------------------------------------------------------------------------
(* Every step *)

LEMMA SendingRefines == ASSUME IInv, NEW d \in Drops, Sending(d) PROVE PromiseStep
  <1>1. CASE SendOutbound(d)
    <2>1. Types /\ drop[d] \in Record
      BY DEF IInv, Types
    <2>2. /\ drop[d].state = "none" /\ drop'[d].state = "minting"
          /\ Elsewhere(d) /\ UNCHANGED acked
      BY <1>1, <2>1 DEF SendOutbound, Types, Record, Elsewhere
    <2> QED BY <2>1, <2>2, OpenStep
  <1>2. CASE MintAnswered(d) \/ PostLands(d) \/ PostAnswered(d) \/ SendGivenUp(d)
    BY <1>2, Unseen DEF MintAnswered, PostLands, PostAnswered, SendGivenUp, store
  <1> QED BY <1>1, <1>2 DEF Sending

LEMMA BrowsingRefines == ASSUME IInv, NEW p \in Pages, Browsing(p) PROVE PromiseStep
  <1>1. ASSUME NEW d \in Drops, Load(p, d) PROVE PromiseStep
    BY <1>1, LookedUp DEF Load
  <1>2. CASE RequestArrives(p)
    BY <1>2, AsksAnswerable, HandlesRefines DEF RequestArrives
  <1>3. CASE \/ \E code \in Codes : Press(p, code)
             \/ ClaimRefused(p) \/ Opens(p) \/ Shows(p)
    BY <1>3, Unseen DEF Press, ClaimRefused, Opens, Shows, store
  <1>4. CASE FetchRejects(p) \/ BodyLost(p) \/ Close(p)
    BY <1>4, Unseen DEF FetchRejects, BodyLost, Fails, Close, store
  <1> QED BY <1>1, <1>2, <1>3, <1>4 DEF Browsing

LEMMA NextRefines == ASSUME IInv, [Next]_vars PROVE PromiseStep
  <1>1. ASSUME NEW d \in Drops, CreateFinish(d) \/ Lapse(d) \/ AckTimeout(d) \/ Sending(d)
        PROVE  PromiseStep
    <2>1. CASE AckTimeout(d)
      BY <2>1, LookedUp DEF AckTimeout, Resident
    <2>2. CASE Lapse(d)
      BY <2>2, Unseen DEF Lapse
    <2> QED BY <1>1, <2>1, <2>2, CreateRefines, SendingRefines
  <1>2. ASSUME NEW m \in stray, StrayArrives(m) PROVE PromiseStep
    <2>1. Answerable(m)
      BY DEF IInv, Types, Linked, Asked, Answerable, Request
    <2> QED BY <1>2, <2>1, HandlesRefines DEF StrayArrives
  <1>3. CASE UNCHANGED vars
    BY <1>3, Unseen DEF vars, store
  <1> QED BY <1>1, <1>2, <1>3, SweepRefines, BrowsingRefines DEF Next

-----------------------------------------------------------------------------
\* Every behaviour of the outbound store is one of a one-shot drop: its payload is lent to
\* the page that opened the code gate, handed over by one acknowledgement at most, and
\* never lent, handed over or held again once it ended (outbound-drop.js).
THEOREM OutboundRefines == Spec => ImplementsOneShot
  <1>1. Init => Promise!Init
    <2> SUFFICES ASSUME Init PROVE Promise!Init
      OBVIOUS
    <2>1. \A d \in Drops : drop[d].state = "none" /\ acked[d] = {}
      BY DEF Init
    <2>2. Cardinality({}) = 0
      BY FS_EmptySet
    <2> QED BY <2>1, <2>2 DEF Promise!Init, Stage, Resident
  <1>2. IInv /\ [Next]_vars => [Promise!Next]_(Promise!vars)
    BY NextRefines DEF PromiseStep, Promise!vars, stageOf, contentOf, handedOf
  <1> QED BY <1>1, <1>2, Invariant, PTL DEF Spec, ImplementsOneShot, Promise!Spec
=============================================================================
