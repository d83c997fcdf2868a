------------------------------- MODULE Latch -------------------------------
(***************************************************************************)
(* The one-shot latch of the reconciler (drop/reconciler.py): a record of  *)
(* the module's globals and what each function that takes _LATCH makes of  *)
(* it.  A pass reports whether it failed, whether the broker left an entry *)
(* undecided, the lanes it could not resolve, and whether it progressed.   *)
(***************************************************************************)
EXTENDS Naturals

CONSTANTS Lanes, MaxFailedPasses, MaxDeferredPasses

ASSUME BudgetAssumption == /\ MaxFailedPasses \in Nat \ {0}
                           /\ MaxDeferredPasses \in Nat \ {0}

LatchRecord == [started: BOOLEAN, failedPasses: Nat, deferredPasses: Nat,
                deferredLanes: SUBSET Lanes, gated: BOOLEAN, spent: BOOLEAN]

Summary == [failed: BOOLEAN, undecided: BOOLEAN, lanes: SUBSET Lanes, progress: BOOLEAN]

FreshLatch == [started |-> FALSE, failedPasses |-> 0, deferredPasses |-> 0,
               deferredLanes |-> {}, gated |-> FALSE, spent |-> FALSE]

\* A variant that waits for all of its lanes.
CanMakeProgress_AllLanes(l, resolvable) == ~l.spent /\ (~l.gated \/ l.deferredLanes \subseteq resolvable)

\* _deferred_pass_can_make_progress: is one of the lanes it waits for back?
CanMakeProgress(l, resolvable) ==
  /\ ~l.spent
  /\ \/ ~l.gated
     \/ l.deferredLanes = {}
     \/ l.deferredLanes \cap resolvable # {}

\* _claim_trigger
ClaimTrigger(l) == [l EXCEPT !.started = TRUE]

\* A variant that starts its budget anew each time.
NoteDeferredPass_NewBudget(l, lanes, madeProgress) ==
  [l EXCEPT !.deferredPasses = 1, !.deferredLanes = lanes, !.gated = TRUE, !.started = FALSE]

\* _note_deferred_pass
NoteDeferredPass(l, lanes, madeProgress) ==
  LET attempts == (IF madeProgress THEN 0 ELSE l.deferredPasses) + 1
      counted == [l EXCEPT !.deferredPasses = attempts, !.deferredLanes = lanes]
  IN IF attempts >= MaxDeferredPasses
       THEN [counted EXCEPT !.spent = TRUE]
       ELSE [counted EXCEPT !.gated = TRUE, !.started = FALSE]

\* _note_failed_pass: lanes recorded earlier survive a failure
NoteFailedPass(l, lanes) ==
  LET carried == l.deferredLanes \cup lanes
      counted == [l EXCEPT !.failedPasses = @ + 1, !.deferredLanes = carried]
  IN CASE counted.failedPasses < MaxFailedPasses ->
            [counted EXCEPT !.gated = FALSE, !.started = FALSE]
       [] counted.failedPasses >= MaxFailedPasses /\ carried # {} ->
            NoteDeferredPass(counted, carried, FALSE)
       [] OTHER -> counted

\* _note_clean_pass: the latch stays consumed, the budgets are new
NoteCleanPass(l) == [FreshLatch EXCEPT !.started = l.started]

\* _account_for_pass
AccountForPass(l, s) ==
  CASE s.failed \/ s.undecided -> NoteFailedPass(l, s.lanes)
    [] ~(s.failed \/ s.undecided) /\ s.lanes # {} -> NoteDeferredPass(l, s.lanes, s.progress)
    [] OTHER -> NoteCleanPass(l)

\* The latch is shut for good.
GaveUp(l) == l.spent \/ (l.failedPasses >= MaxFailedPasses /\ l.deferredLanes = {})
=============================================================================
