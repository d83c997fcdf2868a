------------------------------ MODULE Outbound ------------------------------
(***************************************************************************)
(* The other direction: a secret the gateway holds, handed to one browser. *)
(* DropService.send_outbound mints a drop and posts its link; the store    *)
(* (outbound-drop.js) keeps the ciphertext behind a code, reserves it for  *)
(* one claim id and destroys it on the acknowledgement, on too many wrong  *)
(* codes or at a deadline; the page (reveal-client.js, app.js) claims,     *)
(* decrypts and acknowledges, over requests that may be lost, or answered  *)
(* when the page has stopped waiting.                                      *)
(*                                                                         *)
(* A page is one claim id: a reloaded page is another one.                 *)
(***************************************************************************)
EXTENDS Naturals, FiniteSets

CONSTANTS Drops,
          Pages,            \* loads of the landing page
          Damaged,          \* those whose link lost a part of its key
          MaxCodeAttempts,  \* OUTBOUND_MAX_CODE_ATTEMPTS
          MaxFaults,        \* lost answers, timeouts, cancellations, closed pages, together
          None

\* What the store answers to a claim or an acknowledgement.
Answers == {"revealed", "code_incorrect", "acknowledged", "unavailable"}

ASSUME OutboundAssumption == /\ MaxCodeAttempts \in Nat \ {0}
                             /\ MaxFaults \in Nat
                             /\ Damaged \subseteq Pages
                             /\ None \notin Pages \cup Drops \cup Answers

VARIABLES
  drop,      \* the records of the store
  late,      \* drops past their TTL or, once reserved, their window
  sender,    \* where send_outbound is, for each drop
  chat,      \* drops whose link and code were posted
  tab,       \* where each page is
  link,      \* the drop a page opens
  typed,     \* the code it presented last
  answer,    \* what the store answered to its request, None before it did
  stray,     \* requests under way whose page no longer waits for them
  faults,    \* what is left of MaxFaults
  served, read, acked   \* history: who was given the ciphertext, decrypted it, acknowledged it

store   == <<drop, late, served, acked>>
gateway == <<sender, chat>>
browser == <<tab, link, typed, answer, stray, read>>
vars    == <<store, gateway, browser, faults>>

Codes == {"right", "wrong"}
Request == [page : Pages, op : {"claim", "ack"}, code : Codes]

Init ==
  /\ drop = [d \in Drops |-> [state |-> "none", left |-> MaxCodeAttempts, claimId |-> None]]
  /\ late = {}
  /\ served = [d \in Drops |-> {}]
  /\ acked = [d \in Drops |-> {}]
  /\ sender = [d \in Drops |-> "idle"]
  /\ chat = {}
  /\ tab = [p \in Pages |-> "closed"]
  /\ link = [p \in Pages |-> None]
  /\ typed = [p \in Pages |-> "right"]
  /\ answer = [p \in Pages |-> None]
  /\ stray = {} /\ read = {}
  /\ faults = MaxFaults

Fault == faults > 0 /\ faults' = faults - 1

-----------------------------------------------------------------------------
(* The store *)

Resident(d) == drop[d].state \in {"available", "reserved"}

\* destroy: the record leaves both maps.
Destroyed(r) == [r EXCEPT !.state = "destroyed"]

\* A variant that looks at the window only.
Overdue_WindowOnly(d) == drop[d].state = "reserved" /\ d \in late

\* live: past the TTL, or reserved and past the window.
Overdue(d) == Resident(d) /\ d \in late

\* resolve: what a lookup leaves of the record.
Resolved(d) == IF Overdue(d) THEN Destroyed(drop[d]) ELSE drop[d]

\* A variant that refuses its claimant a second answer.
Reserved_Once(r, p, code) == [record |-> r, answer |-> "unavailable"]

\* A variant that gives the ciphertext to whoever knows the code.
Reserved_Anyone(r, p, code) ==
  [record |-> r, answer |-> IF code = "right" THEN "revealed" ELSE "unavailable"]

\* A reserved drop answers its claim id alone, and costs no attempt.
Reserved(r, p, code) ==
  [record |-> r,
   answer |-> IF r.claimId = p /\ code = "right" THEN "revealed" ELSE "unavailable"]

\* The reservation, taken in the step that verified the code.
ReservedFor(r, p) == [r EXCEPT !.state = "reserved", !.claimId = p]

\* The code gate of an available one: a wrong code costs an attempt, the last one the drop.
Guessed(r, p, code) ==
  IF code = "right" THEN [record |-> ReservedFor(r, p), answer |-> "revealed"]
  ELSE IF r.left > 1 THEN [record |-> [r EXCEPT !.left = @ - 1], answer |-> "code_incorrect"]
  ELSE [record |-> Destroyed([r EXCEPT !.left = 0]), answer |-> "unavailable"]

\* claim and acknowledge: the record they leave and their answer, in one synchronous step.
Claimed(r, p, code) ==
  CASE r.state = "reserved"  -> Reserved(r, p, code)
    [] r.state = "available" -> Guessed(r, p, code)
    [] OTHER                 -> [record |-> r, answer |-> "unavailable"]

\* A variant that acknowledges without destroying.
Acknowledged_Keeps(r, p) ==
  IF r.state = "reserved" /\ r.claimId = p
    THEN [record |-> r, answer |-> "acknowledged"]
    ELSE [record |-> r, answer |-> "unavailable"]

Acknowledged(r, p) ==
  IF r.state = "reserved" /\ r.claimId = p
    THEN [record |-> Destroyed(r), answer |-> "acknowledged"]
    ELSE [record |-> r, answer |-> "unavailable"]

Verdict(m) == LET r == Resolved(link[m.page]) IN
              IF m.op = "claim" THEN Claimed(r, m.page, m.code) ELSE Acknowledged(r, m.page)

\* The store handles a request.
Handles(m) ==
  LET d == link[m.page] IN
  /\ drop' = [drop EXCEPT ![d] = Verdict(m).record]
  /\ served' = IF Verdict(m).answer = "revealed" THEN [served EXCEPT ![d] = @ \cup {m.page}]
                                                 ELSE served
  /\ acked' = IF Verdict(m).answer = "acknowledged" THEN [acked EXCEPT ![d] = @ \cup {m.page}]
                                                    ELSE acked
  /\ UNCHANGED <<late, gateway>>

\* create: the record is made after the encryption is awaited, whatever closed meanwhile.
CreateFinish(d) == /\ drop[d].state = "minting"
                   /\ \E state \in {"available", "refused"} :
                        drop' = [drop EXCEPT ![d].state = state]
                   /\ UNCHANGED <<late, served, acked, gateway, browser, faults>>

\* The clock passes the deadline the record has now.
Lapse(d) == /\ Resident(d) /\ d \notin late
            /\ late' = late \cup {d}
            /\ UNCHANGED <<drop, served, acked, gateway, browser, faults>>

\* claimTimer, and the sweeper for what has no timer.
AckTimeout(d) == /\ drop[d].state = "reserved" /\ d \in late
                 /\ drop' = [drop EXCEPT ![d] = Destroyed(@)]
                 /\ UNCHANGED <<late, served, acked, gateway, browser, faults>>

Sweep == /\ \E d \in Drops : Overdue(d)
         /\ drop' = [d \in Drops |-> Resolved(d)]
         /\ UNCHANGED <<late, served, acked, gateway, browser, faults>>

DestroyAll == /\ \E d \in Drops : Resident(d)
              /\ drop' = [d \in Drops |-> IF Resident(d) THEN Destroyed(drop[d]) ELSE drop[d]]
              /\ UNCHANGED <<late, served, acked, gateway, browser, faults>>

-----------------------------------------------------------------------------
(* The gateway: build, mint, post *)

Sends(d, place) == sender' = [sender EXCEPT ![d] = place]

SendOutbound(d) == /\ sender[d] = "idle" /\ drop[d].state = "none"
                   /\ Sends(d, "minting")
                   /\ drop' = [drop EXCEPT ![d].state = "minting"]
                   /\ UNCHANGED <<late, served, acked, chat, browser, faults>>

\* The broker's answer is a refusal, lacks the notice or the revision, or carries the
\* notice to post: of a record that may be gone already.
MintAnswered(d) == /\ sender[d] = "minting" /\ drop[d].state # "minting"
                   /\ \/ Sends(d, "refused")
                      \/ drop[d].state # "refused" /\ Sends(d, "posting")
                   /\ UNCHANGED <<store, chat, browser, faults>>

PostLands(d) == /\ sender[d] = "posting" /\ d \notin chat
                /\ chat' = chat \cup {d}
                /\ UNCHANGED <<store, sender, browser, faults>>

PostAnswered(d) == /\ sender[d] = "posting"
                   /\ \/ d \in chat /\ Sends(d, "delivered") /\ UNCHANGED faults
                      \/ Fault /\ Sends(d, "refused")
                   /\ UNCHANGED <<store, chat, browser>>

\* The request's timeout, or the bridge's cancellation: nobody can destroy what
\* was minted, it lapses.
SendGivenUp(d) == /\ sender[d] \in {"minting", "posting"} /\ Fault
                  /\ Sends(d, "refused")
                  /\ UNCHANGED <<store, chat, browser>>

Sending(d) == SendOutbound(d) \/ MintAnswered(d) \/ PostLands(d) \/ PostAnswered(d) \/ SendGivenUp(d)

-----------------------------------------------------------------------------
(* The page *)

Goes(p, place) == tab' = [tab EXCEPT ![p] = place]

\* startReveal: the metadata of an available drop opens the gate.
Load(p, d) == /\ tab[p] = "closed" /\ d \in chat
              /\ link' = [link EXCEPT ![p] = d]
              /\ drop' = [drop EXCEPT ![d] = Resolved(d)]
              /\ Goes(p, IF Resolved(d).state = "available" THEN "gate" ELSE "over")
              /\ UNCHANGED <<late, served, acked, gateway, typed, answer, stray, read, faults>>

\* open: the button is pressed with a code of the right length.
Press(p, code) == /\ tab[p] = "gate"
                  /\ Goes(p, "claiming")
                  /\ typed' = [typed EXCEPT ![p] = code]
                  /\ answer' = [answer EXCEPT ![p] = None]
                  /\ UNCHANGED <<store, gateway, link, stray, read, faults>>

Asks(p) == [page |-> p, op |-> IF tab[p] = "claiming" THEN "claim" ELSE "ack", code |-> typed[p]]

Waits(p) == tab[p] \in {"claiming", "acking"}

RequestArrives(p) == /\ Waits(p) /\ answer[p] = None
                     /\ Handles(Asks(p))
                     /\ answer' = [answer EXCEPT ![p] = Verdict(Asks(p)).answer]
                     /\ UNCHANGED <<tab, link, typed, stray, read, faults>>

StrayArrives(m) == /\ m \in stray
                   /\ Handles(m)
                   /\ stray' = stray \ {m}
                   /\ UNCHANGED <<tab, link, typed, answer, read, faults>>

\* claimOutboundDrop refused: the gate again for a wrong code, the end otherwise.
ClaimRefused(p) == /\ tab[p] = "claiming" /\ answer[p] \in {"code_incorrect", "unavailable"}
                   /\ Goes(p, IF answer[p] = "code_incorrect" THEN "gate" ELSE "over")
                   /\ UNCHANGED <<store, gateway, link, typed, answer, stray, read, faults>>

\* A variant that acknowledges whatever it was given.
Opens_Anyway(p) == /\ tab[p] = "claiming" /\ answer[p] = "revealed"
                   /\ Goes(p, "acking")
                   /\ answer' = [answer EXCEPT ![p] = None]
                   /\ read' = IF p \in Damaged THEN read ELSE read \cup {p}
                   /\ UNCHANGED <<store, gateway, link, typed, stray, faults>>

\* revealSecret: what can be decrypted is acknowledged, the rest may be tried again.
Opens(p) == /\ tab[p] = "claiming" /\ answer[p] = "revealed"
            /\ IF p \in Damaged
                 THEN Goes(p, "gate") /\ UNCHANGED <<answer, read>>
                 ELSE /\ Goes(p, "acking")
                      /\ answer' = [answer EXCEPT ![p] = None]
                      /\ read' = read \cup {p}
            /\ UNCHANGED <<store, gateway, link, typed, stray, faults>>

\* renderRevealed, whatever the answer to the acknowledgement was.
Shows(p) == /\ tab[p] = "acking" /\ answer[p] # None
            /\ Goes(p, "shown")
            /\ UNCHANGED <<store, gateway, link, typed, answer, stray, read, faults>>

\* The answer never comes, or not whole: its request was lost, is still under way, or
\* was handled.
Fails(p, place) == /\ Waits(p) /\ Fault
                   /\ Goes(p, place)
                   /\ \/ UNCHANGED stray
                      \/ answer[p] = None /\ stray' = stray \cup {Asks(p)}
                   /\ UNCHANGED <<store, gateway, link, typed, answer, read>>

\* fetch rejects, for a claim and for an acknowledgement alike: back to the gate.
FetchRejects(p) == Fails(p, "gate")

\* claimOutboundDrop takes an answer whose body it cannot read for the end.
BodyLost(p) == tab[p] = "claiming" /\ Fails(p, "over")

\* The page is closed or reloaded.
Close(p) == /\ tab[p] \in {"gate", "claiming", "acking"} /\ Fault
            /\ Goes(p, "left")
            /\ stray' = IF Waits(p) /\ answer[p] = None THEN stray \cup {Asks(p)} ELSE stray
            /\ UNCHANGED <<store, gateway, link, typed, answer, read>>

Browsing(p) == \/ \E d \in Drops : Load(p, d)
               \/ \E code \in Codes : Press(p, code)
               \/ RequestArrives(p) \/ ClaimRefused(p) \/ Opens(p) \/ Shows(p)
               \/ FetchRejects(p) \/ BodyLost(p) \/ Close(p)

-----------------------------------------------------------------------------

Next == \/ \E d \in Drops : CreateFinish(d) \/ Lapse(d) \/ AckTimeout(d) \/ Sending(d)
        \/ Sweep \/ DestroyAll
        \/ \E p \in Pages : Browsing(p)
        \/ \E m \in stray : StrayArrives(m)

Spec == Init /\ [][Next]_vars

\* The clock, the broker's timers and its sweeper; nobody is bound to open a link.
FairSpec == /\ Spec
            /\ \A d \in Drops : WF_vars(Lapse(d)) /\ WF_vars(CreateFinish(d))
            /\ WF_vars(Sweep)

-----------------------------------------------------------------------------
(* Properties *)

\* One browser: however many pages know the code, and whichever requests arrive late,
\* the ciphertext is given to one claim id (outbound-drop.js, the reservation gate).
OneBrowser == \A d \in Drops : Cardinality(served[d]) <= 1

\* The bounded retry: while the reservation of a page stands it is answered with the
\* payload whenever it presents the code, whatever answers it lost and whatever other
\* pages, and its own late requests, present.
HolderServed ==
  \A p \in Pages : LET d == link[p] IN
    d # None /\ drop[d].state = "reserved" /\ drop[d].claimId = p /\ typed[p] = "right"
    => ~(tab[p] = "claiming" /\ answer[p] = "unavailable")

\* An acknowledgement destroys nothing its page could not read, early or late.
AckedWasRead == \A d \in Drops : acked[d] \subseteq read

\* What an acknowledgement destroyed is on the screen of the page, or will be: a failed
\* acknowledgement never costs the reveal (revealSecret).
AckKeepsSecret ==
  \A d \in Drops : \A p \in acked[d] : tab[p] \in {"acking", "shown", "left"}

\* No payload outlives its deadlines, in whatever state the last page left it.
PayloadsEnd == \A d \in Drops : Resident(d) ~> drop[d].state = "destroyed"

Stage(d) == CASE drop[d].state = "none" -> "none"
              [] drop[d].state = "minting" -> "open"
              [] drop[d].state = "available" -> "held"
              [] drop[d].state = "reserved" -> "lent"
              [] drop[d].state = "refused" -> "over"
              [] drop[d].state = "destroyed" -> IF acked[d] = {} THEN "over" ELSE "spent"

Promise == INSTANCE OneShot WITH
  Payloads <- {"secret"},
  stage <- [d \in Drops |-> Stage(d)],
  content <- [d \in Drops |-> IF Resident(d) \/ drop[d].state = "destroyed" THEN "secret" ELSE None],
  handed <- [d \in Drops |-> Cardinality(acked[d])]

\* The outbound drop is a one-shot drop as well: reserving lends the payload, the
\* acknowledgement hands it over once, everything else ends it.
ImplementsOneShot == Promise!Spec
=============================================================================
