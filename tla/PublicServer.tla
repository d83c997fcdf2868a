---------------------------- MODULE PublicServer ----------------------------
(***************************************************************************)
(* The browser's door to the broker: POST /api/submit as the handler of    *)
(* src/src/public-server.js runs it.  A request is admitted before its     *)
(* body is read, its body arrives or does not, the broker answers, and the *)
(* slot is released in a finally.  Each request also has a deadline that   *)
(* answers in its place without stopping the work behind it.               *)
(* Everything else the broker does goes on in between.                     *)
(***************************************************************************)
EXTENDS Broker

VARIABLES
  pc,      \* where the handler of each request is
  req,     \* what the client sends: the drop's link, the declaration, the envelope
  answer   \* what the client is told first; later answers are not written

serverVars == <<pc, req, answer>>
allVars == <<vars, serverVars>>

\* No answer yet is not one of the two answers.
ASSUME AnswerAssumption == None \notin {"received", "unavailable"}

HttpRequest == [drop : Drops, decl : Declarations, env : Envelopes]

ServerInit ==
  /\ Init
  /\ pc = [r \in Requests |-> "idle"]
  /\ req = [r \in Requests |-> None]
  /\ answer = [r \in Requests |-> None]

Told(r, status) == [answer EXCEPT ![r] = IF @ = None THEN status ELSE @]

-----------------------------------------------------------------------------
\* The headers: a capability and a declaration are asked a slot for.  A link only
\* exists once create has returned it.
Arrive(r, h) ==
  /\ pc[r] = "idle"
  /\ rec[h.drop].state \notin {"unminted", "minting"}
  /\ req' = [req EXCEPT ![r] = h]
  /\ AcquireSubmitSlot(r, h.drop, h.decl)
  /\ IF SlotVerdict(h.drop, h.decl) = "refused"
     THEN /\ pc' = [pc EXCEPT ![r] = "done"]
          /\ answer' = Told(r, "unavailable")
     ELSE /\ pc' = [pc EXCEPT ![r] = "reading"]
          /\ UNCHANGED answer

\* readBody resolves with the whole body, which is parsed and submitted.
BodyRead(r) ==
  /\ pc[r] = "reading"
  /\ answer[r] = None
  /\ Submit(r, req[r].drop, req[r].decl, req[r].env)
  /\ pc' = [pc EXCEPT ![r] = "submitting"]
  /\ UNCHANGED <<req, answer>>

\* readBody resolves with null (past its ceiling, aborted, cut by the deadline) or
\* the body is not JSON: submitted all the same, as no envelope.
BodyLost(r) ==
  /\ pc[r] = "reading"
  /\ Submit(r, req[r].drop, req[r].decl, None)
  /\ pc' = [pc EXCEPT ![r] = "submitting"]
  /\ UNCHANGED <<req, answer>>

\* Variant of Respond: the slot is not released.
Respond_KeepsSlot(r) ==
  /\ pc[r] = "submitting"
  /\ call[r].status \in {"received", "unavailable"}
  /\ answer' = Told(r, call[r].status)
  /\ pc' = [pc EXCEPT ![r] = "done"]
  /\ UNCHANGED <<req, vars>>

\* submit settled: the answer, unless the deadline gave one, and the release.
Respond(r) ==
  /\ pc[r] = "submitting"
  /\ call[r].status \in {"received", "unavailable"}
  /\ answer' = Told(r, call[r].status)
  /\ pc' = [pc EXCEPT ![r] = "done"]
  /\ UNCHANGED req
  /\ \/ ReleaseSlot(r)
     \/ slot[r] = None /\ UNCHANGED vars

\* Variant of Deadline: armed only once the body is in.
Deadline_AfterBody(r) ==
  /\ pc[r] = "submitting"
  /\ answer[r] = None
  /\ answer' = Told(r, "unavailable")
  /\ UNCHANGED <<vars, pc, req>>

\* armDeadline expires: the client is answered and the upload cut, the broker's
\* own work is not.
Deadline(r) ==
  /\ pc[r] \in {"reading", "submitting"}
  /\ answer[r] = None
  /\ answer' = Told(r, "unavailable")
  /\ UNCHANGED <<vars, pc, req>>

\* What the broker does on its own and for its other callers.
Elsewhere ==
  /\ \/ \E d \in Drops : Minting(d) \/ Accepting(d) \/ Claim(d) \/ Ending(d)
     \/ \E w \in Waits : Waiting(w)
     \/ \E c \in Claimants : GrantFileClaim(c) \/ \E d \in Drops : Transferring(c, d)
     \/ Sweep
     \/ DestroyAll
  /\ UNCHANGED serverVars

ServerNext ==
  \/ \E r \in Requests :
       \/ \E h \in HttpRequest : Arrive(r, h)
       \/ BodyRead(r) \/ BodyLost(r) \/ Respond(r) \/ Deadline(r)
  \/ Elsewhere

ServerSpec == ServerInit /\ [][ServerNext]_allVars

\* The event loop runs every continuation and fires every timer; nobody is bound
\* to send a body, to collect a drop or to finish a transfer.
Fairness ==
  /\ \A r \in Requests : /\ WF_allVars(Deadline(r))
                         /\ WF_allVars(answer[r] # None /\ BodyLost(r))
                         /\ WF_allVars(Respond(r))
  /\ \A d \in Drops : /\ WF_allVars(Accepting(d) /\ UNCHANGED serverVars)
                      /\ WF_allVars((CreateFinish(d) \/ CreateFail(d)) /\ UNCHANGED serverVars)
                      /\ WF_allVars(LeaseTimeout(d) /\ UNCHANGED serverVars)
                      /\ WF_allVars(Age(d) /\ UNCHANGED serverVars)
  /\ \A c \in Claimants : WF_allVars(GrantFileClaim(c) /\ UNCHANGED serverVars)
  /\ WF_allVars(Sweep /\ UNCHANGED serverVars)

FairServerSpec == ServerSpec /\ Fairness

-----------------------------------------------------------------------------
(* Safety *)

\* However a request ends, its slot is back, and a drop is busy only for a request
\* still in its handler: no upload locks a drop out of its own submission.
SlotsOfRequests ==
  /\ \A r \in Requests : slot[r] # None =>
       pc[r] \in {"reading", "submitting"} /\ slot[r].drop = req[r].drop
  /\ \A d \in Drops : rec[d].bodySlotBusy =>
       \E r \in Requests : slot[r] # None /\ slot[r].drop = d

\* What a client is told is true: "received" is the envelope that won, whether it
\* was accepted, joined in flight, or retried before or after the collection.
AnswerIsReceipt ==
  \A r \in Requests : answer[r] = "received" =>
    /\ rec[req[r].drop].envelopeKey = req[r].env
    /\ rec[req[r].drop].state \in {"submitted", "transferring", "claimed", "destroyed"}

(* Liveness *)

\* Every request that was admitted is answered and leaves the broker, whatever the
\* client does.
RequestsEnd == \A r \in Requests : pc[r] = "reading" ~> pc[r] = "done"

\* Nothing outlives its TTL: a minted drop is destroyed in the end, whatever its
\* state and whether or not its requests were finished.
DropsEnd == \A d \in Drops : rec[d].state = "pending" ~> rec[d].state = "destroyed"
=============================================================================
