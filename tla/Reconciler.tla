----------------------------- MODULE Reconciler -----------------------------
(***************************************************************************)
(* The life of a drop inside the chat gateway: DropService.create posts    *)
(* the link and journals it, a waiter task parks on the broker, a          *)
(* reconcile pass drives from the journal whatever no waiter drives,       *)
(* announce_pending wakes the agent and a claim takes the payload.  Every  *)
(* await of these coroutines is a place where the others run; what lies    *)
(* between two awaits is one action.  The journal, the chat message and    *)
(* the broker survive a gateway restart, everything else is lost in it.    *)
(***************************************************************************)
EXTENDS Journal, FiniteSets

CONSTANTS Kind,              \* what the browser submits: [Drops -> {"text", "files"}]
          MaxEditRetries, MaxFailedPasses, MaxDeferredPasses,
          GatewayRestarts, BrokerRestarts, WriteFaults, Cancels, LaneLapses, \* granted faults
          MaxFaults,         \* of all kinds together
          UnknownProbes      \* failed passes after which probes are answered

VARIABLES broker,     \* what the broker holds of a drop
          lapsed,     \* drops whose expires_at_ms has passed
          chat,       \* what the status message shows
          journal,    \* the durable entries
          creating,   \* where DropService.create stands
          claiming,   \* where DropService.claim stands
          run,        \* the waiter of each drop, and the pass: finalize_terminal and its awaits
          sweep,      \* the reconcile pass around its finalizations
          latch, resolvable, editRetries,      \* module globals, registry
          faults,     \* what is left of the granted faults
          submitted                            \* history: submissions

INSTANCE Latch

env  == <<broker, lapsed, submitted>>
mem  == <<latch, resolvable, editRetries>>
vars == <<env, chat, journal, creating, claiming, run, sweep, mem, faults>>

Pass == "pass"
Actors == Drops \cup {Pass}

ASSUME KindAssumption == Kind \in [Drops -> {"text", "files"}]
ASSUME RetriesAssumption == MaxEditRetries \in Nat
ASSUME PassesAssumption == BudgetAssumption
ASSUME FaultAssumption ==
  {GatewayRestarts, BrokerRestarts, WriteFaults, Cancels, LaneLapses, MaxFaults} \subseteq Nat
ASSUME NamesAssumption == None \notin Entry /\ Pass \notin Drops

\* No journal read, no wake in the making.
Nothing == [d \in {} |-> None]

Idle == [at |-> "idle", drop |-> None, state |-> "waiting", pending |-> Nothing]
NoSweep == [phase |-> "idle", todo |-> {}, lapsed |-> {}, seen |-> Nothing, skip |-> {},
            announced |-> {}, failed |-> FALSE, undecided |-> FALSE, lanes |-> {},
            progress |-> FALSE]

Granted == [gateway |-> GatewayRestarts, broker |-> BrokerRestarts, write |-> WriteFaults,
            cancel |-> Cancels, lane |-> LaneLapses, all |-> MaxFaults]

Init == /\ broker = [d \in Drops |-> "none"]
        /\ lapsed = {}
        /\ chat = [d \in Drops |-> "none"]
        /\ journal = [d \in Drops |-> None]
        /\ creating = [d \in Drops |-> "none"]
        /\ claiming = [d \in Drops |-> "idle"]
        /\ run = [a \in Actors |-> Idle]
        /\ sweep = NoSweep
        /\ latch = FreshLatch
        /\ resolvable = {}
        /\ editRetries = [d \in Drops |-> 0]
        /\ faults = Granted
        /\ submitted = {}

Has(d, states) == journal[d] # None /\ journal[d].state \in states

Spend(kind) == /\ faults[kind] > 0 /\ faults.all > 0
               /\ faults' = [faults EXCEPT ![kind] = @ - 1, !.all = @ - 1]

-----------------------------------------------------------------------------
(* The world around: the browser, the clock, the broker, the platform.     *)

Submit(d) == /\ broker[d] = "pending"
             /\ broker' = [broker EXCEPT ![d] = "submitted"]
             /\ submitted' = submitted \cup {d}
             /\ UNCHANGED <<lapsed, chat, journal, creating, claiming, run, sweep, mem, faults>>

\* The TTL passes: the broker destroys what it has.
Lapse(d) == /\ broker[d] # "none" /\ d \notin lapsed
            /\ lapsed' = lapsed \cup {d}
            /\ broker' = [broker EXCEPT ![d] = "gone"]
            /\ UNCHANGED <<submitted, chat, journal, creating, claiming, run, sweep, mem, faults>>

BrokerCrashes == /\ Spend("broker")
                 /\ broker' = [d \in Drops |-> IF broker[d] = "none" THEN "none" ELSE "gone"]
                 /\ UNCHANGED <<lapsed, submitted, chat, journal, creating, claiming, run, sweep, mem>>

\* RECLAIM_GRACE_SECONDS after an announcement.
GracePasses(d) == /\ journal[d] # None /\ journal[d].announced = "recent"
                  /\ journal' = [journal EXCEPT ![d].announced = "old"]
                  /\ UNCHANGED <<env, chat, creating, claiming, run, sweep, mem, faults>>

\* A registry entry lapses (sources.py); the adapters stay connected.
LaneGoes(lane) == /\ lane \in resolvable
                  /\ Spend("lane")
                  /\ resolvable' = resolvable \ {lane}
                  /\ UNCHANGED <<env, chat, journal, creating, claiming, run, sweep,
                                 latch, editRetries>>

\* The hook of a dispatched message: its lane is captured, then the trigger of
\* LatchTriggers starts a pass if the latch lets it.
Message(lane) ==
  /\ resolvable' = resolvable \cup {lane}
  /\ IF CanMakeProgress(latch, resolvable') /\ ~latch.started
       THEN latch' = ClaimTrigger(latch) /\ sweep' = [NoSweep EXCEPT !.phase = "scheduled"]
       ELSE UNCHANGED <<latch, sweep>>
  /\ UNCHANGED <<env, chat, journal, creating, claiming, run, editRetries, faults>>

\* The gateway dies between any two awaits and comes back with its files.
GatewayRestart ==
  /\ Spend("gateway")
  /\ creating' = [d \in Drops |-> IF creating[d] = "none" THEN "none" ELSE "over"]
  /\ claiming' = [d \in Drops |-> "idle"]
  /\ run' = [a \in Actors |-> Idle]
  /\ sweep' = NoSweep
  /\ latch' = FreshLatch
  /\ resolvable' = {}
  /\ editRetries' = [d \in Drops |-> 0]
  /\ UNCHANGED <<env, chat, journal>>

-----------------------------------------------------------------------------
(* DropService.create                                                      *)

Creating(d, from, to) == creating[d] = from /\ creating' = [creating EXCEPT ![d] = to]

\* The broker mints the handoff; _guard_claimability may refuse it unposted.
CreateMints(d, accepted) ==
  /\ Creating(d, "none", IF accepted THEN "posting" ELSE "over")
  /\ LaneOf[d] \in resolvable
  /\ broker' = [broker EXCEPT ![d] = "pending"]
  /\ UNCHANGED <<lapsed, submitted, chat, journal, claiming, run, sweep, mem, faults>>

\* The platform shows the message, before it says so.
PostLands(d) == /\ Creating(d, "posting", "posted")
                /\ chat' = [chat EXCEPT ![d] = "waiting"]
                /\ UNCHANGED <<env, journal, claiming, run, sweep, mem, faults>>

\* The platform reports an error, or a success without a message id.
PostFails(d) == /\ \/ Creating(d, "posting", "over")
                   \/ Creating(d, "posted", "over")
                /\ UNCHANGED <<env, chat, journal, claiming, run, sweep, mem, faults>>

\* A variant that leaves the waiting to the pass.
PostAnswered_Unarmed(d) ==
  /\ Creating(d, "posted", "over")
  /\ journal' = [journal EXCEPT ![d] = CreateEntry]
  /\ UNCHANGED <<env, chat, claiming, run, sweep, mem, faults>>

\* create_entry and _arm, with no await between them
PostAnswered(d) ==
  /\ Creating(d, "posted", "over")
  /\ journal' = [journal EXCEPT ![d] = CreateEntry]
  /\ run' = [run EXCEPT ![d].at = "armed"]
  /\ UNCHANGED <<env, chat, claiming, sweep, mem, faults>>

\* The entry cannot be written: the link is retracted by an edit nobody checks.
JournalRefuses(d) == /\ Creating(d, "posted", "retracting")
                     /\ Spend("write")
                     /\ UNCHANGED <<env, chat, journal, claiming, run, sweep, mem>>

Retract(d, lands) ==
  /\ Creating(d, "retracting", "over")
  /\ chat' = IF lands THEN [chat EXCEPT ![d] = "expired"] ELSE chat
  /\ UNCHANGED <<env, journal, claiming, run, sweep, mem, faults>>

\* SyncBridge.run: CREATE_TIMEOUT_SECONDS are over, the coroutine is cancelled.
BridgeCancelsCreate(d) ==
  /\ creating[d] \in {"posting", "posted", "retracting"}
  /\ creating' = [creating EXCEPT ![d] = "over"]
  /\ Spend("cancel")
  /\ UNCHANGED <<env, chat, journal, claiming, run, sweep, mem>>

Create(d) == \/ \E accepted \in BOOLEAN : CreateMints(d, accepted)
             \/ PostLands(d) \/ PostFails(d) \/ PostAnswered(d) \/ JournalRefuses(d)
             \/ \E lands \in BOOLEAN : Retract(d, lands)
             \/ BridgeCancelsCreate(d)

-----------------------------------------------------------------------------
(* finalize_terminal and announce_pending, by a waiter or by the pass      *)

Shown(state) == IF state = "received" THEN "received" ELSE "expired"

\* The part before the first await: the journal guards against a second
\* resolution.
Finalize(r, j, d, state) ==
  IF j[d] = None \/ j[d].state \in TerminalStates
    THEN Idle
    ELSE [at |-> "editing", drop |-> d, state |-> state, pending |-> Nothing]

\* An edit takes effect on the platform before it is answered, or never.
EditLands(a) ==
  /\ run[a].at \in {"editing", "reediting"}
  /\ chat' = [chat EXCEPT ![run[a].drop] = Shown(run[a].state)]
  /\ run' = [run EXCEPT ![a].at = IF @ = "editing" THEN "edited" ELSE "reedited"]
  /\ UNCHANGED <<env, journal, creating, claiming, sweep, mem, faults>>

Snapshot(j, lane) == [d \in TerminalUnannounced(j, {lane}) |-> j[d].attempts]

\* announce_pending up to its await
Announce(j, lane) ==
  IF DOMAIN Snapshot(j, lane) = {}
    THEN Idle
    ELSE [at |-> "waking", drop |-> None, state |-> "waiting", pending |-> Snapshot(j, lane)]

\* _note_finalize_edit
RetryLanes(a, ok) ==
  LET d == run[a].drop
  IN IF ~ok /\ editRetries[d] < MaxEditRetries THEN {LaneOf[d]} ELSE {}

\* A variant that journals the state and not the edit's outcome.
EditAnswered_IgnoresError(a, ok) ==
  LET d == run[a].drop
      j == Update(journal, d, [journal[d] EXCEPT !.state = run[a].state])
  IN /\ run[a].at \in {"editing", "edited"}
     /\ ok => run[a].at = "edited"
     /\ journal' = j
     /\ run' = [run EXCEPT ![a] = Announce(j, LaneOf[d])]
     /\ UNCHANGED <<env, chat, creating, claiming, sweep, mem, faults>>

\* The edit is answered; the state is journalled; the lane is announced.
EditAnswered(a, ok) ==
  LET d == run[a].drop
      entry == [journal[d] EXCEPT !.state = run[a].state, !.editFailed = ~ok]
      j == Update(journal, d, entry)
  IN /\ run[a].at \in {"editing", "edited"}
     /\ ok => run[a].at = "edited"
     /\ journal' = j
     /\ run' = [run EXCEPT ![a] = Announce(j, LaneOf[d])]
     /\ sweep' = IF a = Pass
                   THEN [sweep EXCEPT !.lanes = @ \cup RetryLanes(a, ok)]
                   ELSE sweep
     /\ UNCHANGED <<env, chat, creating, claiming, mem, faults>>

\* A journal write raises: a waiter dies with it, a pass records a failure and goes
\* on with the next entry.
Unrecorded(a) ==
  /\ \/ run[a].at \in {"editing", "edited", "reediting", "reedited", "waking"}
     \/ run[a].at = "parked" /\ broker[a] = "submitted"
  /\ Spend("write")
  /\ run' = [run EXCEPT ![a] = Idle]
  /\ sweep' = IF a = Pass THEN [sweep EXCEPT !.failed = TRUE, !.skip = @ \ {run[a].drop}] ELSE sweep
  /\ UNCHANGED <<env, chat, journal, creating, claiming, mem>>

\* The wake is delivered or fails; attempts are counted from the snapshot.
WakeAnswered(a, ok) ==
  LET told == DOMAIN run[a].pending
      counted(d) == [journal[d] EXCEPT !.attempts = run[a].pending[d] + 1,
                                       !.announced = IF ok THEN "recent" ELSE @]
  IN /\ run[a].at = "waking"
     /\ journal' = [d \in Drops |-> IF d \in told THEN counted(d) ELSE journal[d]]
     /\ run' = [run EXCEPT ![a] = Idle]
     /\ sweep' = IF a = Pass /\ ok
                   THEN [sweep EXCEPT !.announced = @ \cup told, !.progress = TRUE]
                   ELSE sweep
     /\ UNCHANGED <<env, chat, creating, claiming, mem, faults>>

FinalizeStep(a) == \/ EditLands(a)
                   \/ \E ok \in BOOLEAN : EditAnswered(a, ok) \/ WakeAnswered(a, ok)
                   \/ Unrecorded(a)

-----------------------------------------------------------------------------
(* DropWaiter                                                              *)

\* _run up to the await; the waiter puts its lane back into the registry
WaiterStarts(d) ==
  /\ run[d].at = "armed"
  /\ run' = [run EXCEPT ![d] =
       IF journal[d] = None \/ journal[d].state \in TerminalStates THEN Idle
       ELSE IF d \in lapsed THEN Finalize(run[d], journal, d, "expired")
       ELSE [Idle EXCEPT !.at = "parked"]]
  /\ resolvable' = resolvable \cup {LaneOf[d]}
  /\ UNCHANGED <<env, chat, journal, creating, claiming, sweep, latch, editRetries, faults>>

\* _park returns and finalize_terminal starts.  An answer is the broker's word; a
\* lost connection, which a broker crash always is, is none.
WaiterAnswered(d, state) ==
  LET kindSeen == IF state = "received" /\ journal[d] # None
                    THEN [journal EXCEPT ![d].kind = Kind[d]] ELSE journal
  IN /\ run[d].at = "parked"
     /\ CASE state = "received" -> broker[d] = "submitted"
          [] state = "expired" -> broker[d] = "gone"
          [] OTHER -> faults.broker < BrokerRestarts
     /\ journal' = kindSeen
     /\ run' = [run EXCEPT ![d] = Finalize(run[d], kindSeen, d, state)]
     /\ UNCHANGED <<env, chat, creating, claiming, sweep, mem, faults>>

WaiterStep(d) == \/ WaiterStarts(d)
                 \/ \E state \in TerminalStates : WaiterAnswered(d, state)

-----------------------------------------------------------------------------
(* reconcile                                                               *)

\* entries() and the clock are read once, before the first await.
PassStarts ==
  /\ sweep.phase = "scheduled"
  /\ sweep' = [sweep EXCEPT !.phase = "driving", !.todo = Waiting(journal), !.lapsed = lapsed]
  /\ UNCHANGED <<env, chat, journal, creating, claiming, run, mem, faults>>

Next1(d) == sweep' = [sweep EXCEPT !.todo = @ \ {d}]

PassAt(phase, d) == run[Pass].at = "idle" /\ sweep.phase = phase /\ d \in sweep.todo

\* The lane of an entry does not resolve: it is retained for a later pass.
PassDefers(phase, d) ==
  /\ PassAt(phase, d)
  /\ LaneOf[d] \notin resolvable
  /\ sweep' = [sweep EXCEPT !.todo = @ \ {d}, !.lanes = @ \cup {LaneOf[d]}]
  /\ UNCHANGED <<env, chat, journal, creating, claiming, run, mem, faults>>

\* Past its deadline: expired without asking.
PassExpires(d) ==
  /\ PassAt("driving", d)
  /\ LaneOf[d] \in resolvable
  /\ d \in sweep.lapsed
  /\ run' = [run EXCEPT ![Pass] = Finalize(run[Pass], journal, d, "expired")]
  /\ sweep' = [sweep EXCEPT !.todo = @ \ {d}, !.skip = @ \cup {d}, !.progress = TRUE]
  /\ UNCHANGED <<env, chat, journal, creating, claiming, mem, faults>>

PassProbes(d) ==
  /\ PassAt("driving", d)
  /\ LaneOf[d] \in resolvable
  /\ d \notin sweep.lapsed
  /\ run' = [run EXCEPT ![Pass] = [Idle EXCEPT !.at = "probing", !.drop = d]]
  /\ Next1(d)
  /\ UNCHANGED <<env, chat, journal, creating, claiming, mem, faults>>

\* A variant that takes a slow answer for the end of the drop and a quick one for life.
Verdicts_Swapped(d) ==
  {v \in {"submitted", "gone", "live", "unknown"} :
     CASE v = "submitted" -> broker[d] = "submitted"
       [] v = "gone" -> broker[d] \in {"pending", "gone"}
       [] v = "live" -> broker[d] = "gone"
       [] OTHER -> latch.failedPasses < UnknownProbes}

\* probe_liveness and what the verdict leads to.  A late answer about a drop that
\* is gone reads as live; a probe the broker does not answer decides nothing.
Verdicts(d) ==
  {v \in {"submitted", "gone", "live", "unknown"} :
     CASE v = "submitted" -> broker[d] = "submitted"
       [] v = "gone" -> broker[d] = "gone"
       [] v = "live" -> broker[d] \in {"pending", "gone"}
       [] OTHER -> latch.failedPasses < UnknownProbes}

Probed(d) == run[Pass].at = "probing" /\ run[Pass].drop = d

\* A variant that resolves whatever is not live as received.
ProbeResolves_Received(d, verdict) ==
  /\ Probed(d)
  /\ verdict \in Verdicts(d) \cap {"submitted", "gone"}
  /\ run' = [run EXCEPT ![Pass] = Finalize(run[Pass], journal, d, "received")]
  /\ sweep' = [sweep EXCEPT !.skip = @ \cup {d}, !.progress = TRUE]
  /\ UNCHANGED <<env, chat, journal, creating, claiming, mem, faults>>

ProbeResolves(d, verdict) ==
  /\ Probed(d)
  /\ verdict \in Verdicts(d) \cap {"submitted", "gone"}
  /\ run' = [run EXCEPT ![Pass] =
       Finalize(run[Pass], journal, d, IF verdict = "submitted" THEN "received" ELSE "expired")]
  /\ sweep' = [sweep EXCEPT !.skip = @ \cup {d}, !.progress = TRUE]
  /\ UNCHANGED <<env, chat, journal, creating, claiming, mem, faults>>

\* Still live: a waiter is armed unless one already is.
ProbeRearms(d) ==
  /\ Probed(d)
  /\ "live" \in Verdicts(d)
  /\ run' = [run EXCEPT ![Pass] = Idle,
                        ![d] = IF @.at = "idle" THEN [Idle EXCEPT !.at = "armed"] ELSE @]
  /\ sweep' = [sweep EXCEPT !.progress = TRUE]
  /\ UNCHANGED <<env, chat, journal, creating, claiming, mem, faults>>

\* A variant whose pass does not report what the broker left undecided.
ProbeUndecided_Unreported(d) ==
  /\ Probed(d)
  /\ "unknown" \in Verdicts(d)
  /\ run' = [run EXCEPT ![Pass] = Idle]
  /\ UNCHANGED <<env, chat, journal, creating, claiming, sweep, mem, faults>>

ProbeUndecided(d) ==
  /\ Probed(d)
  /\ "unknown" \in Verdicts(d)
  /\ run' = [run EXCEPT ![Pass] = Idle]
  /\ sweep' = [sweep EXCEPT !.undecided = TRUE]
  /\ UNCHANGED <<env, chat, journal, creating, claiming, mem, faults>>

\* A variant that repeats edits without end.
Driven_NoLimit ==
  /\ sweep.phase = "driving" /\ sweep.todo = {} /\ run[Pass].at = "idle"
  /\ sweep' = [sweep EXCEPT
       !.phase = "reediting",
       !.seen = journal,
       !.todo = {d \in Drops \ sweep.skip : Has(d, TerminalStates) /\ journal[d].editFailed}]
  /\ UNCHANGED <<env, chat, journal, creating, claiming, run, mem, faults>>

\* A fresh read of the journal, for the edits to repeat and the reclaim sweep
\* after them.
Driven ==
  /\ sweep.phase = "driving" /\ sweep.todo = {} /\ run[Pass].at = "idle"
  /\ sweep' = [sweep EXCEPT
       !.phase = "reediting",
       !.seen = journal,
       !.todo = {d \in Drops \ sweep.skip : /\ Has(d, TerminalStates)
                                            /\ journal[d].editFailed
                                            /\ editRetries[d] < MaxEditRetries}]
  /\ UNCHANGED <<env, chat, journal, creating, claiming, run, mem, faults>>

\* retry_failed_edits
Reedit(d) ==
  /\ PassAt("reediting", d)
  /\ LaneOf[d] \in resolvable
  /\ run' = [run EXCEPT ![Pass] = [at |-> "reediting", drop |-> d, pending |-> Nothing,
                                   state |-> sweep.seen[d].state]]
  /\ Next1(d)
  /\ UNCHANGED <<env, chat, journal, creating, claiming, mem, faults>>

ReeditAnswered(ok) ==
  LET d == run[Pass].drop
      attempts == editRetries[d] + 1
  IN /\ run[Pass].at \in {"reediting", "reedited"}
     /\ ok => run[Pass].at = "reedited"
     /\ journal' = IF ok THEN [journal EXCEPT ![d].editFailed = FALSE] ELSE journal
     /\ editRetries' = [editRetries EXCEPT ![d] = IF ok THEN 0 ELSE attempts]
     /\ sweep' = IF ~ok /\ attempts < MaxEditRetries
                   THEN [sweep EXCEPT !.lanes = @ \cup {LaneOf[d]}] ELSE sweep
     /\ run' = [run EXCEPT ![Pass] = Idle]
     /\ UNCHANGED <<env, chat, creating, claiming, latch, resolvable, faults>>

\* The reclaim sweep decides on what was read before the edits, then the
\* unannounced entries are listed.
Reclaimed(d) == /\ sweep.seen[d] # None
                /\ sweep.seen[d].state = "received"
                /\ ~sweep.seen[d].claimed
                /\ sweep.seen[d].announced = "old"
                /\ sweep.seen[d].attempts < MaxAnnounceAttempts

\* A variant that lists only what it reopened.
ReclaimSweep_OnlyReopened ==
  /\ sweep.phase = "reediting" /\ sweep.todo = {} /\ run[Pass].at = "idle"
  /\ journal' = [d \in Drops |-> IF Reclaimed(d) THEN [journal[d] EXCEPT !.announced = "never"]
                                                 ELSE journal[d]]
  /\ sweep' = [sweep EXCEPT !.phase = "announcing", !.seen = Nothing,
                            !.todo = {d \in TerminalUnannounced(journal', Lanes) : Reclaimed(d)}]
  /\ UNCHANGED <<env, chat, creating, claiming, run, mem, faults>>

ReclaimSweep ==
  /\ sweep.phase = "reediting" /\ sweep.todo = {} /\ run[Pass].at = "idle"
  /\ journal' = [d \in Drops |-> IF Reclaimed(d) THEN [journal[d] EXCEPT !.announced = "never"]
                                                 ELSE journal[d]]
  /\ sweep' = [sweep EXCEPT !.phase = "announcing", !.seen = Nothing,
                            !.todo = TerminalUnannounced(journal', Lanes)]
  /\ UNCHANGED <<env, chat, creating, claiming, run, mem, faults>>

\* One wake per lane: what this pass announced already is passed over.
PassAnnounces(d) ==
  /\ PassAt("announcing", d)
  /\ d \in sweep.announced \/ LaneOf[d] \in resolvable
  /\ run' = IF d \in sweep.announced THEN run
            ELSE [run EXCEPT ![Pass] = Announce(journal, LaneOf[d])]
  /\ Next1(d)
  /\ UNCHANGED <<env, chat, journal, creating, claiming, mem, faults>>

\* _run_pass accounts for it.
Report == [failed |-> sweep.failed, undecided |-> sweep.undecided,
           lanes |-> sweep.lanes, progress |-> sweep.progress]
CleanReport == ~Report.failed /\ ~Report.undecided /\ Report.lanes = {}

PassEnds ==
  /\ sweep.phase = "announcing" /\ sweep.todo = {} /\ run[Pass].at = "idle"
  /\ latch' = AccountForPass(latch, Report)
  /\ editRetries' = IF CleanReport THEN [d \in Drops |-> 0] ELSE editRetries
  /\ sweep' = NoSweep
  /\ UNCHANGED <<env, chat, journal, creating, claiming, run, resolvable, faults>>

PassStep == \/ PassStarts \/ Driven \/ ReclaimSweep \/ PassEnds
            \/ \E d \in Drops : \/ PassExpires(d) \/ PassProbes(d)
                                \/ \E v \in {"submitted", "gone"} : ProbeResolves(d, v)
                                \/ ProbeRearms(d) \/ ProbeUndecided(d)
                                \/ Reedit(d) \/ PassAnnounces(d)
                                \/ PassDefers("driving", d) \/ PassDefers("reediting", d)
                                \/ d \notin sweep.announced /\ PassDefers("announcing", d)
            \/ \E ok \in BOOLEAN : ReeditAnswered(ok)

-----------------------------------------------------------------------------
(* DropService.claim                                                       *)

Claiming(d, from, to) == claiming[d] \in from /\ claiming' = [claiming EXCEPT ![d] = to]
Record(d) == journal' = Update(journal, d, [journal[d] EXCEPT !.claimed = TRUE])

\* authorize_claim, and the entry's payload_kind picks the transport
ClaimBegins(d) ==
  /\ AuthorizeClaim(journal[d], TRUE) = "ok"
  /\ Claiming(d, {"idle"}, IF journal[d].kind = "files" THEN "files" ELSE "text")
  /\ UNCHANGED <<env, chat, journal, creating, run, sweep, mem, faults>>

\* The broker retires the payload as it answers.
ClaimTakes(d) ==
  /\ broker[d] = "submitted"
  /\ claiming[d] = Kind[d]
  /\ Claiming(d, {Kind[d]}, "taken")
  /\ broker' = [broker EXCEPT ![d] = "gone"]
  /\ UNCHANGED <<lapsed, submitted, chat, journal, creating, run, sweep, mem, faults>>

ClaimAnswered(d) == /\ Claiming(d, {"taken"}, "idle")
                    /\ Record(d)
                    /\ UNCHANGED <<env, chat, creating, run, sweep, mem, faults>>

\* A variant that records every refusal as the end of the drop.
ClaimRefused_AlwaysRecords(d) ==
  /\ broker[d] # "submitted" \/ claiming[d] # Kind[d]
  /\ Claiming(d, {"text", "files"}, "idle")
  /\ Record(d)
  /\ UNCHANGED <<env, chat, creating, run, sweep, mem, faults>>

\* Refused by the broker: the file path records the drop as spent, the text path
\* records nothing.
ClaimRefused(d) ==
  /\ broker[d] # "submitted" \/ claiming[d] # Kind[d]
  /\ Claiming(d, {"text", "files"}, "idle")
  /\ IF claiming[d] = "files" THEN Record(d) ELSE UNCHANGED journal
  /\ UNCHANGED <<env, chat, creating, run, sweep, mem, faults>>

\* The answer is lost, the write fails after delivery or the bridge cancels.
ClaimLost(d) == /\ Claiming(d, {"text", "files", "taken"}, "idle")
                /\ Spend("cancel") \/ Spend("write")
                /\ UNCHANGED <<env, chat, journal, creating, run, sweep, mem>>

ClaimStep(d) == ClaimBegins(d) \/ ClaimTakes(d) \/ ClaimAnswered(d) \/ ClaimRefused(d) \/ ClaimLost(d)

-----------------------------------------------------------------------------
Next == \/ \E d \in Drops : Submit(d) \/ Lapse(d) \/ GracePasses(d) \/ Create(d)
                            \/ WaiterStep(d) \/ ClaimStep(d)
        \/ \E lane \in Lanes : Message(lane) \/ LaneGoes(lane)
        \/ \E a \in Actors : FinalizeStep(a)
        \/ PassStep \/ BrokerCrashes \/ GatewayRestart

Spec == Init /\ [][Next]_vars

\* The loop runs its tasks, awaits end, the clock passes, and each conversation
\* is heard from again.
FairSpec == /\ Spec
            /\ \A d \in Drops : WF_vars(WaiterStep(d)) /\ WF_vars(Lapse(d)) /\ WF_vars(GracePasses(d))
            /\ \A a \in Actors : WF_vars(FinalizeStep(a))
            /\ WF_vars(PassStep)
            /\ \A lane \in Lanes : WF_vars(Message(lane))

-----------------------------------------------------------------------------
Places == {"idle", "armed", "parked", "probing", "editing", "edited", "reediting", "reedited", "waking"}

RunOK(r) == /\ DOMAIN r = {"at", "drop", "state", "pending"}
            /\ r.at \in Places /\ r.drop \in Drops \cup {None} /\ r.state \in States
            /\ DOMAIN r.pending \subseteq Drops
            /\ \A d \in DOMAIN r.pending : r.pending[d] \in Nat

TypeOK ==
  /\ broker \in [Drops -> {"none", "pending", "submitted", "gone"}]
  /\ lapsed \subseteq Drops /\ submitted \subseteq Drops
  /\ chat \in [Drops -> {"none", "waiting", "received", "expired"}]
  /\ \A d \in Drops : journal[d] = None \/ journal[d] \in Entry
  /\ creating \in [Drops -> {"none", "posting", "posted", "retracting", "over"}]
  /\ claiming \in [Drops -> {"idle", "text", "files", "taken"}]
  /\ DOMAIN run = Actors /\ \A a \in Actors : RunOK(run[a])
  /\ sweep.phase \in {"idle", "scheduled", "driving", "reediting", "announcing"}
  /\ sweep.todo \cup sweep.lapsed \cup sweep.skip \cup sweep.announced \subseteq Drops
  /\ Report \in Summary
  /\ latch \in LatchRecord
  /\ resolvable \subseteq Lanes
  /\ editRetries \in [Drops -> 0..MaxEditRetries]

GoneUnattended(d) == run[d].at = "idle" /\ sweep.phase = "idle"

\* The verdict on a drop is true, whoever resolved it: nobody is told, in the journal
\* or in the chat, that something was received which the browser never submitted, and
\* a drop journalled as expired is out of the broker's hands.
VerdictTrue ==
  \A d \in Drops :
    /\ Has(d, {"received"}) \/ chat[d] = "received" => d \in submitted
    /\ Has(d, {"expired"}) => broker[d] = "gone"

\* A message that still advertises the link of a resolved drop is known to need
\* another edit.
DeadLinkFlagged ==
  \A d \in Drops : Has(d, TerminalStates) /\ chat[d] = "waiting" => journal[d].editFailed

\* A drop recorded as claimed is out of the broker's hands: no bookkeeping throws a
\* payload away that could still be delivered.
ClaimedMeansSpent ==
  \A d \in Drops : journal[d] # None /\ journal[d].claimed => broker[d] = "gone"

\* No waiting entry is forgotten: while the latch is shut and no pass runs, each has
\* its waiter, unless the retry budget is used up or a journal write failed.  A pass
\* is cancelled with its process only, and the hook has a loop: LatchTriggers has
\* the exits that keep the latch otherwise.
WaitingIsWatched ==
  faults.write = WriteFaults => \A d \in Drops :
    Has(d, {"waiting"}) /\ GoneUnattended(d) => ~latch.started \/ GaveUp(latch)

\* A pass that reports clean has passed nothing over: what it leaves terminal was
\* announced, or an announcement was tried, or a waiter is about to.
CleanPassLeavesNothing ==
  [][sweep.phase = "announcing" /\ sweep'.phase = "idle" /\ faults' = faults /\ CleanReport
       /\ faults.write = WriteFaults =>
       \A d \in Drops : Has(d, TerminalStates) =>
         journal[d].announced # "never" \/ journal[d].attempts > 0 \/ run[d].at # "idle"]_vars

\* What the waiter does for a drop, the pass does as well (waiter.py:3): the entry of
\* received files says so, for the claim to take the file path.
FilesRecorded ==
  \A d \in Drops : Has(d, {"received"}) /\ Kind[d] = "files" => journal[d].kind = "files"

\* A waiting drop is resolved in the end, through restarts of both processes, unless
\* the retry budgets run out or a journal write failed.
WaitingResolved ==
  \A d \in Drops : Has(d, {"waiting"}) ~>
    Has(d, TerminalStates) \/ GaveUp(latch) \/ faults.write < WriteFaults
=============================================================================
