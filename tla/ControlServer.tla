---------------------------- MODULE ControlServer ----------------------------
(***************************************************************************)
(* The operator's door to the broker: the framed file claim as             *)
(* serveConnection of src/src/control-server.js runs it.  A connection is  *)
(* one claimant and its lease: it begins, is written the metadata and one  *)
(* frame at a time, acknowledges each, commits, and gives its lease back   *)
(* however it ends.                                                        *)
(*                                                                         *)
(* Lines are handled one after the other on a promise chain; what does not *)
(* wait for the chain is the flood guard, the close of the socket and the  *)
(* broker's notice that it took the lease away.                            *)
(***************************************************************************)
EXTENDS Broker

VARIABLE conv     \* per connection: its session, its socket and what its chain awaits

controlVars == <<vars, conv>>

Writes == {"metadata", "reply", "header", "body"}

Conversation ==
  [phase : {"idle", "beginning", "streaming", "awaiting_frame_ack",
            "awaiting_commit", "closed"},
   awaits : Writes \cup {"nothing", "decode"},
   lease : [drop : Drops, id : Nat] \cup {None},
   next : Nat,           \* the frame being written, or written last
   sent : Nat,           \* history: the frames flushed whole
   socket : {"open", "down", "closed"},  \* down: destroyed or ended
   flooded : BOOLEAN]    \* history: dropped for flooding under its decode

ASSUME LeaseAssumption == None \notin [drop : Drops, id : Nat]

ControlInit ==
  /\ Init
  /\ conv = [c \in Claimants |->
       [phase |-> "idle", awaits |-> "nothing", lease |-> None, next |-> 0,
        sent |-> 0, socket |-> "open", flooded |-> FALSE]]

-----------------------------------------------------------------------------
(* Helpers, as functions of one session *)

Shut(k) == [k EXCEPT !.socket = IF @ = "open" THEN "down" ELSE @]

\* answerAndClose, the failed write, the flood: the session ends without a lease.
Ended(k) == [Shut(k) EXCEPT !.phase = "closed", !.lease = None, !.awaits = "nothing"]

\* Variant of Refused: the refusal is written, the line awaited next.
Refused_Open(k) == [k EXCEPT !.lease = None, !.awaits = "nothing"]

\* The broker's refusal is the answer, and the last line written.
Refused(k) == Ended(k)

\* Variant of LeaseLost: the lease is forgotten, the connection goes on.
LeaseLost_KeepsSocket(k) == [k EXCEPT !.lease = None]

\* onLeaseLost: dropped without an answer, a write under way is left to fail.
LeaseLost(k) == [Shut(k) EXCEPT !.phase = "closed", !.lease = None]

\* Variant of Attends: a line is handled as soon as it arrives.
Attends_AtOnce(c) == conv[c].socket = "open" /\ conv[c].phase # "closed"

\* The chain has come to the next line of a connection that still reads lines.
Attends(c) ==
  /\ conv[c].socket = "open"
  /\ conv[c].phase # "closed"
  /\ conv[c].awaits = "nothing"

Converse(c, k) == conv' = [conv EXCEPT ![c] = k]

\* The broker still knows the lease this session holds.
Lends(c) ==
  LET lease == conv[c].lease
  IN  IF lease = None \/ rec[lease.drop].transfer = None THEN FALSE
      ELSE rec[lease.drop].transfer.id = lease.id

\* releaseLease: what the session holds, if the broker still knows it, goes back.
ReleaseLease(c) ==
  \/ Lends(c) /\ AbandonFileClaim(conv[c].lease.drop, conv[c].lease.id)
  \/ ~Lends(c) /\ UNCHANGED vars

-----------------------------------------------------------------------------
(* The conversation *)

\* begin_file_claim, to the await of the broker's decode.
Begin(c, d) ==
  /\ Attends(c)
  /\ conv[c].phase = "idle"
  /\ BeginFileClaim(c, d)
  /\ Converse(c, [conv[c] EXCEPT !.phase = "beginning", !.awaits = "decode"])

\* The decode is back.  A lease granted to a connection closed meanwhile is kept,
\* for writeStep then returns before it would write, and fail.
Begun(c) ==
  /\ conv[c].awaits = "decode"
  /\ GrantFileClaim(c)
  /\ LET d == beginning[c]
         k == conv[c]
     IN  Converse(c,
           IF StillLendable(d)
           THEN [k EXCEPT !.lease = [drop |-> d, id |-> rec[d].transferAttempts + 1],
                          !.awaits = IF k.phase = "closed" THEN "nothing" ELSE "metadata"]
           ELSE Refused(k))

\* One frame is through: its acknowledgement is what the connection reads next.
Flushed(k) == [k EXCEPT !.phase = "awaiting_frame_ack", !.awaits = "nothing",
                        !.sent = k.next + 1]

\* writeFrame, to the await of its header.
WriteFrame(k) == [k EXCEPT !.phase = "streaming", !.awaits = "header"]

\* A write of the conversation is flushed: on to the next one or to the next line.
\* An empty frame has no body to write.
StepWritten(c) ==
  /\ conv[c].socket = "open"
  /\ LET k == conv[c]
     IN  \/ k.awaits = "metadata" /\ Converse(c, WriteFrame(k))
         \/ /\ k.awaits = "reply"
            /\ k.next < Frames[rec[k.lease.drop].envelopeKey]
            /\ Converse(c, WriteFrame(k))
         \/ /\ k.awaits = "reply"
            /\ k.next = Frames[rec[k.lease.drop].envelopeKey]
            /\ Converse(c, [k EXCEPT !.phase = "awaiting_commit", !.awaits = "nothing"])
         \/ k.awaits = "header" /\ Converse(c, [k EXCEPT !.awaits = "body"])
         \/ k.awaits \in {"header", "body"} /\ Converse(c, Flushed(k))
  /\ UNCHANGED vars

\* A write on a socket that is gone fails: the lease goes back.
StepFails(c) ==
  /\ conv[c].awaits \in Writes
  /\ conv[c].socket # "open"
  /\ ReleaseLease(c)
  /\ Converse(c, Ended(conv[c]))

\* ack_frame: the broker's verdict is written, or ends the conversation.
AckFrame(c, index, matches) ==
  /\ Attends(c)
  /\ conv[c].phase = "awaiting_frame_ack"
  /\ conv[c].lease # None
  /\ LET k == conv[c]
         d == k.lease.drop
     IN  /\ AckFileClaimFrame(c, d, k.lease.id, index, matches)
         /\ Converse(c, IF rec'[d].transfer # None
                        THEN [k EXCEPT !.awaits = "reply", !.next = index + 1]
                        ELSE Refused(k))

\* commit_file_claim: whatever the broker's verdict, it is the last line.
Commit(c, matches) ==
  /\ Attends(c)
  /\ conv[c].phase = "awaiting_commit"
  /\ conv[c].lease # None
  /\ CommitFileClaim(c, conv[c].lease.drop, conv[c].lease.id, matches)
  /\ Converse(c, Ended(conv[c]))

\* Any other line: malformed, out of its phase, with the wrong ids, one the broker
\* refuses unchanged, or a one-line operation.  It is answered and ends everything.
LastLine(c) ==
  /\ Attends(c)
  /\ ReleaseLease(c)
  /\ Converse(c, Ended(conv[c]))

-----------------------------------------------------------------------------
(* The ends that do not wait for their turn, and the one that does *)

\* Too many bytes while the broker decodes or writes a frame.
Flood(c) ==
  /\ conv[c].socket = "open"
  /\ conv[c].phase \in {"beginning", "streaming"}
  /\ ReleaseLease(c)
  /\ Converse(c, [Ended(conv[c]) EXCEPT !.awaits = conv[c].awaits,
                                        !.flooded = conv[c].awaits = "decode"])

\* The receiver ends its half: it can never commit, so the lease goes back.
HalfClose(c) ==
  /\ conv[c].socket = "open"
  /\ conv[c].awaits = "nothing"
  /\ conv[c].lease # None
  /\ ReleaseLease(c)
  /\ Converse(c, Ended(conv[c]))

\* The receiver dies or hangs up.
HangUp(c) ==
  /\ conv[c].socket = "open"
  /\ Converse(c, Shut(conv[c]))
  /\ UNCHANGED vars

\* Variant of SocketClosed: nobody listens to the close of a connection.
SocketClosed_Unheard(c) ==
  /\ conv[c].socket = "down"
  /\ Converse(c, [conv[c] EXCEPT !.socket = "closed"])
  /\ UNCHANGED vars

\* The close event of a socket that was destroyed or ended.
SocketClosed(c) ==
  /\ conv[c].socket = "down"
  /\ ReleaseLease(c)
  /\ Converse(c, [conv[c] EXCEPT !.socket = "closed", !.lease = None])

\* The broker takes leases away, and tells their holders.
Notice ==
  conv' = [c \in Claimants |->
    IF \E d \in Drops : /\ rec[d].transfer # None
                        /\ rec[d].transfer.owner = c
                        /\ rec'[d].transfer = None
    THEN LeaseLost(conv[c]) ELSE conv[c]]

\* What the broker does on its own and for its other callers.
Elsewhere ==
  /\ \/ \E d \in Drops : Minting(d) \/ Accepting(d) \/ Claim(d)
                         \/ LeaseTimeout(d) \/ Age(d) \/ LookupExpired(d)
     \/ \E r \in Requests : Submitting(r)
     \/ \E w \in Waits : Waiting(w)
     \/ Sweep
     \/ DestroyAll
  /\ Notice

Conversing(c) ==
  \/ \E d \in Drops : Begin(c, d)
  \/ Begun(c) \/ StepWritten(c) \/ StepFails(c)
  \/ /\ conv[c].lease # None
     /\ \E index \in 0..Frames[rec[conv[c].lease.drop].envelopeKey], matches \in BOOLEAN :
          AckFrame(c, index, matches)
  \/ \E matches \in BOOLEAN : Commit(c, matches)
  \/ LastLine(c) \/ Flood(c) \/ HalfClose(c) \/ HangUp(c) \/ SocketClosed(c)

ControlNext ==
  \/ \E c \in Claimants : Conversing(c)
  \/ Elsewhere

ControlSpec == ControlInit /\ [][ControlNext]_controlVars

-----------------------------------------------------------------------------
(* Safety *)

\* The broker never counts a frame as proven before this connection flushed it: an
\* acknowledgement sent ahead of its frame, with whatever digest, waits its turn.
WrittenBeforeProved ==
  \A d \in Drops : rec[d].transfer # None =>
    rec[d].transfer.nextFrame <= conv[rec[d].transfer.owner].sent

\* Broker and connections agree on every lease.  A lease is its connection's, and
\* that connection is there, or its next write hands the lease back, or it was
\* dropped for flooding under its decode; and a connection that is being written to
\* still has its lease, so no frame is cut from a payload already wiped.
LeaseFollowsConnection ==
  /\ \A d \in Drops : rec[d].transfer # None =>
       LET k == conv[rec[d].transfer.owner]
       IN  /\ k.lease = [drop |-> d, id |-> rec[d].transfer.id]
           /\ \/ k.socket # "closed" /\ k.phase # "closed"
              \/ k.awaits \in Writes
              \/ k.flooded
  /\ \A c \in Claimants :
       /\ conv[c].lease # None =>
            LET held == rec[conv[c].lease.drop].transfer
            IN  held # None /\ held.owner = c /\ held.id = conv[c].lease.id
       /\ conv[c].awaits \in Writes /\ conv[c].socket = "open" => conv[c].lease # None

\* A receiver that stalls is on a deadline: past its begin, an open connection is
\* being decoded for or holds a lease, whose timer runs.
StalledHasDeadline ==
  \A c \in Claimants :
    conv[c].phase \notin {"idle", "closed"} /\ conv[c].socket = "open" =>
      conv[c].awaits = "decode" \/ conv[c].lease # None
=============================================================================
