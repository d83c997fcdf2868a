--------------------------- MODULE LatchTriggers ---------------------------
(***************************************************************************)
(* The two triggers of a reconcile pass, behind one latch: the startup     *)
(* poller's thread, and the hook of every dispatched message on the        *)
(* gateway loop.  Each asks the gate, claims the latch and schedules a     *)
(* pass, and the two threads interleave between those steps.  A pass ends  *)
(* with any report; which lanes resolve is the conversations' business.    *)
(***************************************************************************)
EXTENDS Latch, FiniteSets

CONSTANT FailureBound   \* failed passes the model counts to

VARIABLES latch,      \* the module globals under _LATCH
          trigger,    \* where each trigger stands
          passes,     \* passes scheduled and not accounted for
          resolvable, \* lanes origin_for_entry would resolve
          idlePasses, \* passes since one was clean or made progress
          lostTo      \* history: the exit that kept the latch and started nothing

vars == <<latch, trigger, passes, resolvable, idlePasses, lostTo>>

Triggers == {"poller", "hook"}

Init == /\ latch = FreshLatch
        /\ trigger = [t \in Triggers |-> "idle"]
        /\ passes = 0
        /\ resolvable = {}
        /\ idlePasses = 0
        /\ lostTo = "none"

\* A conversation speaks (its lane is captured before the hook's gate is asked),
\* or an adapter goes away.
LaneComes(lane) == /\ resolvable' = resolvable \cup {lane}
                   /\ UNCHANGED <<latch, trigger, passes, idlePasses, lostTo>>
LaneGoes(lane) == /\ resolvable' = resolvable \ {lane}
                  /\ UNCHANGED <<latch, trigger, passes, idlePasses, lostTo>>

Goes(t, place) == trigger' = [trigger EXCEPT ![t] = place]

\* The poller runs once per process, the hook once per message.
Returns(t) == Goes(t, IF t = "poller" THEN "over" ELSE "idle")

\* The gate, read under the lock and then left.
AskGate(t) ==
  /\ trigger[t] = "idle"
  /\ IF CanMakeProgress(latch, resolvable) THEN Goes(t, "asked") ELSE Returns(t)
  /\ UNCHANGED <<latch, passes, resolvable, idlePasses, lostTo>>

\* A variant that sets without testing.
Claim_NoTest(t) == /\ trigger[t] = "asked"
                   /\ Goes(t, "claimed")
                   /\ latch' = ClaimTrigger(latch)
                   /\ UNCHANGED <<passes, resolvable, idlePasses, lostTo>>

\* Test and set.
Claim(t) ==
  /\ trigger[t] = "asked"
  /\ IF latch.started THEN Returns(t) /\ UNCHANGED latch
                      ELSE Goes(t, "claimed") /\ latch' = ClaimTrigger(latch)
  /\ UNCHANGED <<passes, resolvable, idlePasses, lostTo>>

\* A pass is scheduled on the loop.
Schedule(t) == /\ trigger[t] = "claimed"
               /\ Returns(t)
               /\ passes' = passes + 1
               /\ UNCHANGED <<latch, resolvable, idlePasses, lostTo>>

\* A variant that does not put the latch back.
LoopWentAway_KeepsLatch(t) == /\ trigger[t] = "claimed"
                              /\ Returns(t)
                              /\ idlePasses' = idlePasses + 1
                              /\ UNCHANGED <<latch, passes, resolvable, lostTo>>

\* The loop closed before the pass was scheduled: counted as a failed pass.
LoopWentAway(t) == /\ trigger[t] = "claimed"
                   /\ latch.failedPasses < FailureBound
                   /\ Returns(t)
                   /\ latch' = NoteFailedPass(latch, {})
                   /\ idlePasses' = idlePasses + 1
                   /\ UNCHANGED <<passes, resolvable, lostTo>>

\* The hook holds the latch, runs outside a loop and the gateway names none: it
\* returns with the latch as it is.
FindsNoLoop == /\ trigger["hook"] = "claimed"
               /\ Returns("hook")
               /\ lostTo' = "no_loop"
               /\ idlePasses' = idlePasses + 1
               /\ UNCHANGED <<latch, passes, resolvable>>

\* A pass ends; one that raised reports a failure and no lanes.
PassEnds(s) ==
  /\ passes > 0
  /\ s.failed \/ s.undecided => latch.failedPasses < FailureBound
  /\ passes' = passes - 1
  /\ latch' = AccountForPass(latch, s)
  /\ idlePasses' = IF s.failed \/ s.undecided THEN idlePasses + 1
                    ELSE IF s.lanes = {} THEN 0
                    ELSE IF s.progress THEN 1 ELSE idlePasses + 1
  /\ UNCHANGED <<trigger, resolvable, lostTo>>

\* CancelledError is no Exception: a cancelled pass is never accounted for.
PassCancelled == /\ passes > 0
                 /\ passes' = passes - 1
                 /\ lostTo' = "cancelled"
                 /\ idlePasses' = idlePasses + 1
                 /\ UNCHANGED <<latch, trigger, resolvable>>

TriggerStep(t) == AskGate(t) \/ Claim(t) \/ Schedule(t)

Next == \/ \E lane \in Lanes : LaneComes(lane) \/ LaneGoes(lane)
        \/ \E t \in Triggers : TriggerStep(t) \/ LoopWentAway(t)
        \/ \E s \in Summary : PassEnds(s)
        \/ FindsNoLoop \/ PassCancelled

Spec == Init /\ [][Next]_vars

\* Messages keep arriving and the loop runs what was scheduled on it.
FairSpec == /\ Spec
            /\ \A t \in Triggers : WF_vars(TriggerStep(t))
            /\ WF_vars(\E s \in Summary : PassEnds(s))

-----------------------------------------------------------------------------
Claimers == {t \in Triggers : trigger[t] = "claimed"}

\* Whatever the two threads read before they claim, one pass runs at a time: the
\* journal is never driven by two sweeps at once.
OnePassAtATime == passes + Cardinality(Claimers) <= 1

\* A stuck condition costs a bounded number of passes, not one per message: passes
\* that neither finish clean nor make progress run out with the two budgets.
IdlePassesBounded == idlePasses <= MaxFailedPasses + MaxDeferredPasses - 1

\* The latch stays shut with no pass behind it only after a clean pass, when a
\* budget ran out, or for good after one of two exits: the hook that finds no loop
\* (reconciler.py:713), against the comment at reconciler.py:664, and a cancelled
\* pass.  Every other exit that starts no pass puts it back.
ShutLatchExplained ==
  latch.started /\ passes = 0 /\ Claimers = {} =>
    idlePasses = 0 \/ GaveUp(latch) \/ lostTo \in {"no_loop", "cancelled"}

\* A conversation that comes back is retried: a lane the latch waits for, once it
\* resolves again, gets a pass, unless it goes away first, the budget is gone or
\* one of those two exits keeps the latch.
RevivedLaneRetried ==
  \A lane \in Lanes :
    lane \in latch.deferredLanes \cap resolvable ~>
      \/ passes > 0
      \/ lane \notin resolvable \/ GaveUp(latch)
      \/ lostTo \in {"no_loop", "cancelled"}
=============================================================================
