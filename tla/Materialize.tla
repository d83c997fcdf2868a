---------------------------- MODULE Materialize ----------------------------
(***************************************************************************)
(* A file claim inside the gateway (drop/materialize.py, with the receiver *)
(* drop/file_claim.py and DropService.claim_files): authorization, the     *)
(* startup purge, the staging directory, the transfer, the commit, and     *)
(* what becomes of the bytes and of the verdict whichever of these fails,  *)
(* times out or is cancelled.  A task is at one of its awaits; between two *)
(* awaits it runs alone.  The broker's side of a transfer is as in Broker: *)
(* one lease at a time, and a commit that retires the payload.             *)
(***************************************************************************)
EXTENDS Spool

CONSTANTS Drops, DropOf     \* the drop each call claims

ASSUME DropAssumption == DropOf \in [Claims -> Drops]

VARIABLES verdict,    \* the code a call is about to answer, then has answered
          committed,  \* progress["commit_written"]
          wire,       \* the connection of a call, on the broker's side
          held, lease, retiredBy,   \* the broker: the payload, its lease, the winning claim
          recorded,   \* drops the journal marks claimed
          former,     \* history: calls a restart ended or found ended
          cutAt       \* history: the await at which a call was cancelled

task == <<verdict, committed>>
peer == <<wire, held, lease, retiredBy>>
vars == <<spoolVars, task, peer, recorded, former, cutAt>>

Verdicts == {"ok", "refused", "cancelled", "died", "spool_unavailable", "spool_busy",
             "spool_write_failed", "spool_publish_failed", "transfer_failed",
             "transfer_indeterminate", "unavailable", "broker_unavailable"}

ASSUME NamesAssumption == /\ Arm \notin Claims
                          /\ None \notin Verdicts \cup Jobs \cup {"busy", "unsafe", "failed"}

\* A variant that reads an unanswered commit as spent.
MarkSpent_Indeterminate == {"spool_publish_failed", "unavailable", "transfer_indeterminate"}

\* _POLICY: what a caller may try again, and what marks the drop spent.
RetrySafe == {"spool_unavailable", "spool_busy", "spool_write_failed", "transfer_failed",
              "broker_unavailable"}
MarkSpent == {"spool_publish_failed", "unavailable"}

Init == /\ SpoolInit
        /\ verdict = [c \in Claims |-> None]
        /\ committed = {}
        /\ wire = [c \in Claims |-> "none"]
        /\ held = [d \in Drops |-> "held"]
        /\ lease = [d \in Drops |-> None]
        /\ retiredBy = [d \in Drops |-> None]
        /\ recorded = {}
        /\ former = {}
        /\ cutAt = [c \in Claims |-> None]

-----------------------------------------------------------------------------
(* The broker, and the connection *)

brokerLeaves == <<spoolVars, task, recorded, former, cutAt>>

\* beginFileClaim: the payload is gone, lent, or lent to this connection.
BrokerBegins(c) ==
  LET d == DropOf[c] IN
  /\ wire[c] = "begin"
  /\ CASE held[d] # "held" -> wire' = [wire EXCEPT ![c] = "unavailable"] /\ UNCHANGED lease
       [] held[d] = "held" /\ lease[d] # None ->
            wire' = [wire EXCEPT ![c] = "failed"] /\ UNCHANGED lease
       [] OTHER -> wire' = [wire EXCEPT ![c] = "leased"] /\ lease' = [lease EXCEPT ![d] = c]
  /\ UNCHANGED <<held, retiredBy, brokerLeaves>>

\* commitFileClaim: by the holder of the lease, once; the line may be read late.
BrokerCommits(c) ==
  LET d == DropOf[c] IN
  /\ wire[c] = "commit"
  /\ IF lease[d] = c
       THEN /\ held' = [held EXCEPT ![d] = "retired"]
            /\ retiredBy' = [retiredBy EXCEPT ![d] = c]
            /\ lease' = [lease EXCEPT ![d] = None]
            /\ wire' = [wire EXCEPT ![c] = "ok"]
       ELSE /\ wire' = [wire EXCEPT ![c] = IF held[d] = "held" THEN "failed" ELSE "unavailable"]
            /\ UNCHANGED <<held, retiredBy, lease>>
  /\ UNCHANGED brokerLeaves

\* The lease's timer; the acknowledgements that follow are refused.
LeaseEnds(c) == /\ lease[DropOf[c]] = c
                /\ lease' = [lease EXCEPT ![DropOf[c]] = None]
                /\ UNCHANGED <<wire, held, retiredBy, brokerLeaves>>

\* The drop's TTL, or a restart of the broker.
Lapse(d) == /\ held[d] = "held"
            /\ held' = [held EXCEPT ![d] = "gone"]
            /\ lease' = [lease EXCEPT ![d] = None]
            /\ UNCHANGED <<wire, retiredBy, brokerLeaves>>

\* The broker sees a connection end and takes back its lease.
Hangup(c) == /\ at[c] \notin {"receive", "accept"} /\ wire[c] \notin {"none", "closed"}
             /\ wire' = [wire EXCEPT ![c] = "closed"]
             /\ lease' = [d \in Drops |-> IF lease[d] = c THEN None ELSE lease[d]]
             /\ UNCHANGED <<held, retiredBy, brokerLeaves>>

-----------------------------------------------------------------------------
(* The task: materialize_file_claim *)

\* The task goes to the await j, and hands its worker to a thread.
Awaits(c, j) == /\ at' = [at EXCEPT ![c] = j]
                /\ jobs' = [jobs EXCEPT ![c] = @ \cup {j}]
                /\ out' = [out EXCEPT ![c] = None]

\* The call is answered with a code; claim_files records what is spent.
Answers(c, code) ==
  /\ at' = [at EXCEPT ![c] = "over"]
  /\ out' = [out EXCEPT ![c] = None]
  /\ verdict' = [verdict EXCEPT ![c] = code]
  /\ \/ /\ recorded' = IF code \in MarkSpent \cup {"ok"} THEN recorded \cup {DropOf[c]} ELSE recorded
        /\ UNCHANGED faults
     \/ code \in MarkSpent \cup {"ok"} /\ Fault /\ UNCHANGED recorded

\* Leaving the block of the StagingClaim: __aexit__ discards what is neither
\* published nor quarantined, and the call answers afterwards.
Leaves(c, code) ==
  IF dir[c] \in {"published", "quarantined"}
    THEN Answers(c, code) /\ UNCHANGED jobs
    ELSE /\ Awaits(c, "discard")
         /\ verdict' = [verdict EXCEPT ![c] = code]
         /\ UNCHANGED <<recorded, faults>>

\* _hold, for a call that will answer the code.
HoldsFor(c, code) == /\ Awaits(c, "hold")
                     /\ verdict' = [verdict EXCEPT ![c] = code]
                     /\ UNCHANGED <<recorded, faults>>

taskLeaves == <<store, claimed, started, purging, sweep, holdFailed, held, lease, retiredBy,
                former, cutAt>>

\* _authorize reads the journal, and ensure_started goes to a thread.
Call(c) ==
  /\ at[c] = "idle" /\ c \in Claims
  /\ IF DropOf[c] \in recorded
       THEN /\ at' = [at EXCEPT ![c] = "over"]
            /\ verdict' = [verdict EXCEPT ![c] = "refused"]
            /\ UNCHANGED <<jobs, out>>
       ELSE Awaits(c, "start") /\ UNCHANGED verdict
  /\ UNCHANGED <<recorded, faults, janitor, committed, wire, taskLeaves>>

Started(c) == /\ at[c] = "start" /\ out[c] # None /\ c \in Claims
              /\ janitor' = TRUE
              /\ Awaits(c, "create")
              /\ UNCHANGED <<verdict, recorded, faults, committed, wire, taskLeaves>>

\* __aenter__ returns or raises SpoolBusy or SpoolUnsafe.
Created(c) ==
  /\ at[c] = "create" /\ out[c] # None
  /\ IF out[c] = "ok"
       THEN /\ at' = [at EXCEPT ![c] = "receive"]
            /\ out' = [out EXCEPT ![c] = None]
            /\ wire' = [wire EXCEPT ![c] = "begin"]
            /\ UNCHANGED <<verdict, recorded, faults>>
       ELSE /\ Answers(c, IF out[c] = "busy" THEN "spool_busy" ELSE "spool_unavailable")
            /\ UNCHANGED wire
  /\ UNCHANGED <<jobs, janitor, committed, taskLeaves>>

\* A chunk arrives and goes to the sink.
ChunkArrives(c) == /\ at[c] = "receive" /\ wire[c] = "leased"
                   /\ Awaits(c, "accept")
                   /\ UNCHANGED <<verdict, recorded, faults, janitor, committed, wire, taskLeaves>>

\* on_chunk returns and the frame is acknowledged, or StagingFailed leaves the block.
ChunkAccepted(c) ==
  /\ at[c] = "accept" /\ out[c] # None
  /\ IF out[c] = "ok"
       THEN /\ at' = [at EXCEPT ![c] = "receive"]
            /\ out' = [out EXCEPT ![c] = None]
            /\ wire' = [wire EXCEPT ![c] = IF lease[DropOf[c]] = c THEN "acked"
                                           ELSE IF held[DropOf[c]] = "held" THEN "failed"
                                           ELSE "unavailable"]
            /\ UNCHANGED <<jobs, verdict, recorded, faults>>
       ELSE Leaves(c, "spool_write_failed") /\ UNCHANGED wire
  /\ UNCHANGED <<janitor, committed, taskLeaves>>

\* A variant that sets the flag when the answer is read.
CommitWritten_FlagLate(c) ==
                    /\ at[c] = "receive" /\ wire[c] = "acked"
                    /\ wire' = [wire EXCEPT ![c] = "commit"]
                    /\ UNCHANGED <<committed, at, jobs, out, verdict, recorded, faults, janitor, taskLeaves>>

\* The flag first, then the line.
CommitWritten(c) == /\ at[c] = "receive" /\ wire[c] = "acked"
                    /\ committed' = committed \cup {c}
                    /\ wire' = [wire EXCEPT ![c] = "commit"]
                    /\ UNCHANGED <<at, jobs, out, verdict, recorded, faults, janitor, taskLeaves>>

\* The broker's answers: the refusals end the call, the commit's ok publishes.
Refused(c) == /\ at[c] = "receive" /\ wire[c] \in {"failed", "unavailable"}
              /\ Leaves(c, IF wire[c] = "failed" THEN "transfer_failed" ELSE "unavailable")
              /\ UNCHANGED <<janitor, committed, wire, taskLeaves>>

\* A variant that publishes as soon as the commit was sent.
CommitAnswered_Early(c) == /\ at[c] = "receive" /\ wire[c] \in {"commit", "ok"}
                     /\ Awaits(c, "publish")
                     /\ UNCHANGED <<verdict, recorded, faults, janitor, committed, wire, taskLeaves>>

CommitAnswered(c) == /\ at[c] = "receive" /\ wire[c] = "ok"
                     /\ Awaits(c, "publish")
                     /\ UNCHANGED <<verdict, recorded, faults, janitor, committed, wire, taskLeaves>>

\* A variant that treats a broken transfer alike before and after the commit.
Broken_Alike(c, code) == Leaves(c, code)

\* The timeout, or the end of the connection: after the commit was written
\* nobody knows what the broker did.
Broken(c, code) == IF c \in committed THEN HoldsFor(c, "transfer_indeterminate") ELSE Leaves(c, code)

TimedOut(c) == /\ at[c] \in {"receive", "accept"}
               /\ Broken(c, "transfer_failed")
               /\ UNCHANGED <<janitor, committed, wire, taskLeaves>>

\* An answer line over its limit ends the call too; the broker writes none, so it
\* is not told from a lost connection.
ConnectionLost(c) == /\ at[c] = "receive"
                     /\ Broken(c, "broker_unavailable")
                     /\ UNCHANGED <<janitor, committed, wire, taskLeaves>>

\* Any other exception: no verdict is known, whatever was written.
ReceiverRaises(c) == /\ at[c] = "receive"
                     /\ HoldsFor(c, "transfer_indeterminate")
                     /\ UNCHANGED <<janitor, committed, wire, taskLeaves>>

\* _publish after the rename, or holding what could not be published.
PublishAnswered(c) ==
  /\ at[c] = "publish" /\ out[c] # None
  /\ IF out[c] = "ok" THEN Leaves(c, "ok") ELSE HoldsFor(c, "spool_publish_failed")
  /\ UNCHANGED <<janitor, committed, wire, taskLeaves>>

\* _hold goes on: what could not be renamed is discarded first.
HoldAnswered(c) ==
  /\ at[c] \in {"hold", "giveup"} /\ out[c] # None
  /\ IF out[c] = "failed" THEN Awaits(c, "giveup") /\ UNCHANGED <<verdict, recorded, faults>>
                          ELSE Leaves(c, verdict[c])
  /\ UNCHANGED <<janitor, committed, wire, taskLeaves>>

\* __aexit__ has discarded.
DiscardAnswered(c) == /\ at[c] = "discard" /\ out[c] # None
                      /\ Answers(c, verdict[c])
                      /\ UNCHANGED <<jobs, janitor, committed, wire, taskLeaves>>

-----------------------------------------------------------------------------
(* Cancellation and restart *)

\* A variant that discards whatever was written.
HoldsNow_Discards(c) == Discarded(c) /\ faults' = faults - 1 /\ UNCHANGED holdFailed

\* quarantine_now, inline; when it fails __aexit__ discards inline.
\* (A cancellation is a fault of its own.)
HoldsNow(c) == \/ /\ Renames(c) /\ Quarantined(c)
                  /\ faults' = faults - 1 /\ UNCHANGED holdFailed
               \/ /\ dir[c] # "open"
                  /\ faults' = faults - 1 /\ UNCHANGED <<disk, claimed, holdFailed>>
               \/ /\ dir[c] = "open" /\ Discarded(c)
                  /\ IF Renames(c) THEN /\ faults > 1 /\ faults' = faults - 2
                                        /\ holdFailed' = holdFailed \cup {c}
                                   ELSE faults' = faults - 1 /\ UNCHANGED holdFailed

DiscardsNow(c) == Discarded(c) /\ faults' = faults - 1 /\ UNCHANGED holdFailed

\* What the handlers do with the bytes, by the await the cancellation meets.
Unwinds(c) ==
  CASE at[c] \in {"start", "create", "discard"} ->
         faults' = faults - 1 /\ UNCHANGED <<disk, claimed, holdFailed>>
    [] at[c] \in {"receive", "accept"} -> IF c \in committed THEN HoldsNow(c) ELSE DiscardsNow(c)
    [] at[c] = "publish" \/ (at[c] \in {"hold", "giveup"} /\ verdict[c] = "spool_publish_failed") -> HoldsNow(c)
    [] OTHER -> DiscardsNow(c)

\* CancelledError at any await.  The worker it awaits is dropped if no thread
\* has taken it, and runs on otherwise.
Cancel(c) ==
  /\ c \in Claims /\ at[c] \notin {"idle", "over"} /\ faults > 0
  /\ Unwinds(c)
  /\ cutAt' = [cutAt EXCEPT ![c] = at[c]]
  /\ at' = [at EXCEPT ![c] = "over"]
  /\ out' = [out EXCEPT ![c] = None]
  /\ verdict' = [verdict EXCEPT ![c] = "cancelled"]
  /\ \/ UNCHANGED jobs
     \/ /\ at[c] \in jobs[c] /\ purging # c
        /\ jobs' = [jobs EXCEPT ![c] = @ \ {at[c]}]
  /\ UNCHANGED <<aged, root, started, purging, sweep, janitor, committed, peer, recorded, former>>

GatewayDies ==
  /\ Fault
  /\ LET ended == {c \in Claims : at[c] # "idle"} IN
       /\ former' = former \cup ended
       /\ at' = [c \in Callers |-> IF c \in ended THEN "over" ELSE "idle"]
       /\ verdict' = [c \in Claims |-> IF c \in ended /\ at[c] # "over" THEN "died" ELSE verdict[c]]
  /\ dir' = [c \in Claims |-> "none"]
  /\ reserved' = {} /\ registered' = {}
  /\ started' = FALSE /\ purging' = None /\ janitor' = FALSE
  /\ sweep' = [s \in Sweeps |-> None]
  /\ jobs' = [c \in Callers |-> {}]
  /\ out' = [c \in Callers |-> None]
  /\ UNCHANGED <<store, holdFailed, committed, peer, recorded, cutAt>>

-----------------------------------------------------------------------------

Receiving(c) == \/ ChunkArrives(c) \/ ChunkAccepted(c) \/ CommitWritten(c) \/ Refused(c)
                \/ CommitAnswered(c) \/ TimedOut(c) \/ ConnectionLost(c) \/ ReceiverRaises(c)

Task(c) == \/ Started(c) \/ Created(c) \/ Receiving(c)
           \/ PublishAnswered(c) \/ HoldAnswered(c) \/ DiscardAnswered(c)

Peer(c) == BrokerBegins(c) \/ BrokerCommits(c) \/ Hangup(c)

Spooling == /\ \/ Sweeping \/ ArmSpool \/ ArmEnds
               \/ \E c \in Claims : Worker(c) \/ Ages(c)
            /\ UNCHANGED <<task, peer, recorded, former, cutAt>>

Next == \/ \E c \in Claims : Call(c) \/ Task(c) \/ Peer(c) \/ LeaseEnds(c) \/ Cancel(c)
        \/ \E d \in Drops : Lapse(d)
        \/ Spooling
        \/ GatewayDies

Spec == Init /\ [][Next]_vars

\* Threads run what they were given, the loop resumes its tasks (a timeout bounds
\* a transfer), the janitor's sleep ends and entries grow old.
FairSpec == /\ Spec
            /\ WF_vars(Spooling /\ Sweeping)
            /\ WF_vars(Spooling /\ (ArmSpool \/ ArmEnds))
            /\ \A c \in Claims : /\ WF_vars(Task(c))
                                 /\ WF_vars(Spooling /\ Worker(c))
                                 /\ WF_vars(Spooling /\ Ages(c))

-----------------------------------------------------------------------------
(* Properties *)

\* A directory a caller can be pointed at holds files whose commit the broker
\* took from this very claim (materialize._publish, StagingClaim.publish).
PublishedIsCommitted ==
  \A c \in Claims : disk[c] = "published" => retiredBy[DropOf[c]] = c

\* An answer that invites a retry is never given by the claim that consumed the
\* drop, and the journal marks no drop claimed whose payload the broker still
\* holds (materialize._POLICY, DropService.claim_files).
VerdictHonest ==
  /\ \A c \in Claims : at[c] = "over" /\ verdict[c] \in RetrySafe => retiredBy[DropOf[c]] # c
  /\ \A d \in recorded : held[d] # "held"

\* The bytes of a consumed drop stay on disk until their TTL, a failed rename or
\* a restart of the gateway.
Safe(c) == \/ disk[c] \in {"published", "quarantine"}
           \/ disk[c] = "staging" /\ dir[c] = "open"
           \/ c \in aged \cup former \cup holdFailed

\* What materialize_file_claim promises: a cancellation propagates after the
\* received bytes are safe.
BytesSafe == \A c \in Claims : retiredBy[DropOf[c]] = c => Safe(c)

\* The same, but for a cancellation that meets the await of the quarantine itself.
BytesSafeUnlessCutHolding ==
  \A c \in Claims : retiredBy[DropOf[c]] = c /\ cutAt[c] # "hold" => Safe(c)

\* The slot and the registration of a claim end with it, but for the two awaits
\* at which a cancellation leaves nobody to release them.
SlotsReturn ==
  \A c \in reserved : at[c] = "over" => cutAt[c] \in {"create", "discard"}

\* The paths an answered caller was given stay readable until their TTL or a
\* restart: no purge takes them for a previous process's (ensure_started).
PathsStay ==
  \A c \in Claims : at[c] = "over" /\ verdict[c] = "ok" =>
                      disk[c] = "published" \/ c \in aged \cup former

\* No sweep takes the directory a claim is writing into, however slow the
\* transfer and whenever the root appeared (_ACTIVE_STAGING).
StagingSpared == \A c \in Claims : dir[c] = "open" => disk[c] = "staging"

\* Every call ends, whoever holds the startup lock.
CallsEnd == \A c \in Claims : at[c] \notin {"idle", "over"} ~> at[c] = "over"

\* A claim cancelled at the await of its creation or of its discard stays
\* registered, and every sweep of its process spares its directory.
LeftRegistered(c) == c \in registered /\ cutAt[c] \in {"create", "discard"}

\* What a claim leaves on disk is removed in the end, by the TTL, the grace or the
\* next process's purge; while the process lives, but for the directories that the
\* two awaits, of the creation and of the discard, leave registered (spool.py:416).
EntriesEnd == \A c \in Claims :
  (at[c] = "over" /\ disk[c] # "none") ~> (disk[c] = "none" \/ LeftRegistered(c))
=============================================================================
