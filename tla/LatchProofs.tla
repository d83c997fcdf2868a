----------------------------- MODULE LatchProofs -----------------------------
(***************************************************************************)
(* What holds of the one-shot latch for every number of lanes and every    *)
(* budget, whatever the two triggers read before they claim it.            *)
(*                                                                         *)
(* An open latch has nobody behind it and a shut one at most one pass or   *)
(* one claimer (Exclusive); a latch that gave up has nobody behind it, so  *)
(* a spent budget is never counted again, and the passes that came to      *)
(* nothing are paid for by the two counters (Paid).  The two exits that    *)
(* keep the latch are taken once at most: nobody is behind it afterwards,  *)
(* and what they add to the vain passes is within the two budgets still.   *)
(***************************************************************************)
EXTENDS LatchTriggers, FiniteSetTheorems, TLAPS

Typed ==
  /\ latch \in LatchRecord
  /\ trigger \in [Triggers -> {"idle", "asked", "claimed", "over"}]
  /\ passes \in Nat
  /\ idlePasses \in Nat
  /\ lostTo \in {"none", "no_loop", "cancelled"}

\* One of the two exits has kept the latch.
Lost == lostTo # "none"

Exclusive ==
  /\ passes <= 1
  /\ \A t, u \in Claimers : t = u
  /\ passes = 1 => Claimers = {}
  /\ ~latch.started \/ GaveUp(latch) \/ Lost => passes = 0 /\ Claimers = {}
  /\ Lost => latch.started

\* Of the failed passes, all but the one that closes the latch leave it open.
FailuresPaid == IF latch.failedPasses < MaxFailedPasses THEN latch.failedPasses
                                                        ELSE MaxFailedPasses - 1

Paid ==
  /\ latch.failedPasses >= MaxFailedPasses /\ latch.deferredLanes = {} => latch.started
  /\ latch.spent => latch.started
  /\ ~GaveUp(latch) => latch.deferredPasses < MaxDeferredPasses
  /\ ~(GaveUp(latch) \/ Lost) => idlePasses <= FailuresPaid + latch.deferredPasses
  /\ GaveUp(latch) \/ Lost => idlePasses <= MaxFailedPasses + MaxDeferredPasses - 1

LatchInv == Typed /\ Exclusive /\ Paid /\ ShutLatchExplained

-----------------------------------------------------------------------------
(* What each account makes of the latch *)

\* The latch pays for idle passes as it stands.
Pays(l, idle) ==
  /\ l.failedPasses >= MaxFailedPasses /\ l.deferredLanes = {} => l.started
  /\ l.spent => l.started
  /\ ~GaveUp(l) => /\ idle <= (IF l.failedPasses < MaxFailedPasses THEN l.failedPasses
                               ELSE MaxFailedPasses - 1) + l.deferredPasses
                   /\ l.deferredPasses < MaxDeferredPasses
  /\ GaveUp(l) => idle <= MaxFailedPasses + MaxDeferredPasses - 1
  /\ l.started => idle = 0 \/ GaveUp(l)

LEMMA DeferredPays ==
  ASSUME NEW l \in LatchRecord, l.started, ~l.spent,
         NEW lanes \in SUBSET Lanes, lanes # {}, NEW progress \in BOOLEAN, NEW idle \in Nat,
         l.deferredPasses < MaxDeferredPasses,
         IF progress THEN idle = 1
         ELSE idle <= (IF l.failedPasses < MaxFailedPasses THEN l.failedPasses
                       ELSE MaxFailedPasses - 1) + l.deferredPasses + 1
  PROVE  /\ NoteDeferredPass(l, lanes, progress) \in LatchRecord
         /\ Pays(NoteDeferredPass(l, lanes, progress), idle)
  <1> DEFINE attempts == (IF progress THEN 0 ELSE l.deferredPasses) + 1
  <1>1. PICK n \in Nat : n = attempts
    BY DEF LatchRecord
  <1>2. n <= MaxDeferredPasses /\ n >= 1
    BY <1>1, BudgetAssumption DEF LatchRecord
  <1>3. idle <= (IF l.failedPasses < MaxFailedPasses THEN l.failedPasses
                 ELSE MaxFailedPasses - 1) + n
    BY <1>1, BudgetAssumption DEF LatchRecord
  <1>4. CASE n >= MaxDeferredPasses
    <2>1. PICK q : /\ q = [l EXCEPT !.deferredPasses = n, !.deferredLanes = lanes, !.spent = TRUE]
                   /\ q = NoteDeferredPass(l, lanes, progress)
      BY <1>1, <1>4 DEF NoteDeferredPass
    <2>2. q \in LatchRecord
      BY <2>1, Zenon DEF LatchRecord
    <2>5. q.spent /\ q.started
      BY <2>1, SMT DEF LatchRecord
    <2>3. GaveUp(q)
      BY <2>5 DEF GaveUp
    <2>4. idle <= MaxFailedPasses + MaxDeferredPasses - 1
      BY <1>2, <1>3, BudgetAssumption DEF LatchRecord
    <2> QED BY <2>1, <2>2, <2>3, <2>4, <2>5 DEF Pays
  <1>5. CASE ~(n >= MaxDeferredPasses)
    <2>1. PICK q : /\ q = [l EXCEPT !.deferredPasses = n, !.deferredLanes = lanes,
                                    !.gated = TRUE, !.started = FALSE]
                   /\ q = NoteDeferredPass(l, lanes, progress)
      BY <1>1, <1>5 DEF NoteDeferredPass
    <2>2. q \in LatchRecord
      BY <2>1, Zenon DEF LatchRecord
    <2>3. /\ ~q.spent /\ ~q.started /\ q.failedPasses = l.failedPasses
          /\ q.deferredLanes = lanes /\ q.deferredPasses = n
      BY <2>1, SMT DEF LatchRecord
    <2>4. ~GaveUp(q)
      BY <2>3 DEF GaveUp
    <2>5. n < MaxDeferredPasses
      BY <1>5, BudgetAssumption
    <2>6. Pays(q, idle)
      BY <1>3, <2>3, <2>4, <2>5, Zenon DEF Pays
    <2> QED BY <2>1, <2>2, <2>6
  <1> QED BY <1>4, <1>5

LEMMA FailedPays ==
  ASSUME NEW l \in LatchRecord, l.started, ~GaveUp(l), NEW lanes \in SUBSET Lanes,
         NEW idle \in Nat, l.deferredPasses < MaxDeferredPasses,
         idle <= (IF l.failedPasses < MaxFailedPasses THEN l.failedPasses
                  ELSE MaxFailedPasses - 1) + l.deferredPasses
  PROVE  /\ NoteFailedPass(l, lanes) \in LatchRecord
         /\ Pays(NoteFailedPass(l, lanes), idle + 1)
  <1>1. PICK carried \in SUBSET Lanes : carried = l.deferredLanes \cup lanes
    BY DEF LatchRecord
  <1>0. PICK n \in Nat : n = l.failedPasses + 1
    BY DEF LatchRecord
  <1>2. PICK counted : /\ counted = [l EXCEPT !.failedPasses = n, !.deferredLanes = carried]
                       /\ counted = [l EXCEPT !.failedPasses = @ + 1, !.deferredLanes = carried]
    BY <1>0
  <1>9. counted \in LatchRecord
    BY <1>2, Zenon DEF LatchRecord
  <1>3. /\ counted \in LatchRecord /\ counted.started /\ ~counted.spent
        /\ counted.failedPasses = l.failedPasses + 1 /\ counted.deferredLanes = carried
        /\ counted.deferredPasses = l.deferredPasses
    BY <1>0, <1>2, <1>9, SMT DEF LatchRecord, GaveUp
  <1>4. NoteFailedPass(l, lanes) =
          CASE counted.failedPasses < MaxFailedPasses ->
                 [counted EXCEPT !.gated = FALSE, !.started = FALSE]
            [] counted.failedPasses >= MaxFailedPasses /\ carried # {} ->
                 NoteDeferredPass(counted, carried, FALSE)
            [] OTHER -> counted
    BY <1>1, <1>2 DEF NoteFailedPass
  <1>5. l.failedPasses \in Nat /\ l.deferredPasses \in Nat
    BY DEF LatchRecord
  <1>6. CASE counted.failedPasses < MaxFailedPasses
    <2>1. PICK q : /\ q = [counted EXCEPT !.gated = FALSE, !.started = FALSE]
                   /\ q = NoteFailedPass(l, lanes)
      <3>1. ~(counted.failedPasses >= MaxFailedPasses)
        BY <1>3, <1>5, <1>6, BudgetAssumption
      <3> QED BY <1>4, <1>6, <3>1, Zenon
    <2>2. q \in LatchRecord
      BY <1>3, <2>1, Zenon DEF LatchRecord
    <2>3. /\ ~q.spent /\ ~q.started
          /\ q.failedPasses = counted.failedPasses /\ q.deferredPasses = counted.deferredPasses
      BY <1>3, <2>1, SMT DEF LatchRecord
    <2>4. ~(q.failedPasses >= MaxFailedPasses)
      BY <1>3, <1>5, <1>6, <2>3, BudgetAssumption
    <2>5. idle + 1 <= q.failedPasses + q.deferredPasses
      BY <1>3, <1>5, <1>6, <2>3, BudgetAssumption
    <2>6. ~GaveUp(q)
      BY <2>3, <2>4, Zenon DEF GaveUp
    <2>7. q.deferredPasses < MaxDeferredPasses /\ q.failedPasses < MaxFailedPasses
      BY <1>3, <1>6, <2>3
    <2>8. Pays(q, idle + 1)
      BY <2>3, <2>4, <2>5, <2>6, <2>7, Zenon DEF Pays
    <2> QED BY <2>1, <2>2, <2>8
  <1>7. CASE counted.failedPasses >= MaxFailedPasses /\ carried # {}
    <2>1. NoteFailedPass(l, lanes) = NoteDeferredPass(counted, carried, FALSE)
      <3>1. ~(counted.failedPasses < MaxFailedPasses)
        BY <1>3, <1>5, <1>7, BudgetAssumption
      <3> QED BY <1>4, <1>7, <3>1, Zenon
    <2>2. idle + 1 <= (IF counted.failedPasses < MaxFailedPasses THEN counted.failedPasses
                       ELSE MaxFailedPasses - 1) + counted.deferredPasses + 1
      BY <1>3, <1>5, <1>7, BudgetAssumption
    <2>3. idle + 1 \in Nat /\ carried \in SUBSET Lanes /\ FALSE \in BOOLEAN
      OBVIOUS
    <2> QED BY <1>3, <1>7, <2>1, <2>2, <2>3, DeferredPays
  <1>8. CASE counted.failedPasses >= MaxFailedPasses /\ carried = {}
    <2>1. NoteFailedPass(l, lanes) = counted
      <3>1. ~(counted.failedPasses < MaxFailedPasses)
        BY <1>3, <1>5, <1>8, BudgetAssumption
      <3> QED BY <1>4, <1>8, <3>1, Zenon
    <2>2. l.deferredLanes = {} /\ l.failedPasses < MaxFailedPasses
      BY <1>1, <1>5, <1>8, BudgetAssumption DEF GaveUp
    <2>3. idle + 1 <= MaxFailedPasses + MaxDeferredPasses - 1
      BY <1>5, <2>2, BudgetAssumption
    <2>4. GaveUp(counted)
      BY <1>3, <1>8 DEF GaveUp
    <2> QED BY <1>3, <2>1, <2>3, <2>4 DEF Pays
  <1> QED BY <1>3, <1>5, <1>6, <1>7, <1>8, BudgetAssumption

LEMMA CleanPays ==
  ASSUME NEW l \in LatchRecord
  PROVE  NoteCleanPass(l) \in LatchRecord /\ Pays(NoteCleanPass(l), 0)
  <1>1. PICK q : q = NoteCleanPass(l)
    OBVIOUS
  <1>2. q.failedPasses = 0 /\ q.deferredPasses = 0 /\ ~q.spent
    BY <1>1, SMT DEF NoteCleanPass, FreshLatch, LatchRecord
  <1>4. q \in LatchRecord
    BY <1>1, Zenon DEF NoteCleanPass, FreshLatch, LatchRecord
  <1>3. ~GaveUp(q)
    BY <1>2, BudgetAssumption DEF GaveUp
  <1> QED BY <1>1, <1>2, <1>3, <1>4, BudgetAssumption DEF Pays

-----------------------------------------------------------------------------
(* The steps *)

\* A pass that is accounted for leaves nobody behind the latch.
LEMMA Accounted ==
  ASSUME LatchInv, latch' \in LatchRecord, Pays(latch', idlePasses'), idlePasses' \in Nat,
         passes' = 0, lostTo' = "none", trigger' \in [Triggers -> {"idle", "asked", "claimed", "over"}],
         Claimers' = {}
  PROVE  LatchInv'
  BY DEF LatchInv, Typed, Lost, Exclusive, Paid, FailuresPaid, ShutLatchExplained, Pays

LEMMA Behind ==
  ASSUME LatchInv, passes > 0 \/ Claimers # {}
  PROVE  /\ latch.started /\ ~GaveUp(latch) /\ ~latch.spent /\ lostTo = "none"
         /\ latch.deferredPasses < MaxDeferredPasses
         /\ idlePasses <= (IF latch.failedPasses < MaxFailedPasses THEN latch.failedPasses
                           ELSE MaxFailedPasses - 1) + latch.deferredPasses
  BY DEF LatchInv, Typed, Lost, Exclusive, Paid, FailuresPaid, GaveUp, LatchRecord

LEMMA PassEndsStep ==
  ASSUME LatchInv, NEW s \in Summary, PassEnds(s)
  PROVE  LatchInv'
  <1>1. /\ latch \in LatchRecord /\ idlePasses \in Nat /\ passes = 1 /\ passes' = 0
        /\ trigger' = trigger /\ Claimers' = {} /\ lostTo' = "none"
    BY Behind DEF LatchInv, Typed, Exclusive, PassEnds, Claimers
  <1>2. /\ latch.started /\ ~GaveUp(latch) /\ ~latch.spent
        /\ latch.deferredPasses < MaxDeferredPasses
        /\ idlePasses <= (IF latch.failedPasses < MaxFailedPasses THEN latch.failedPasses
                          ELSE MaxFailedPasses - 1) + latch.deferredPasses
    BY Behind DEF PassEnds
  <1>3. /\ s.failed \in BOOLEAN /\ s.undecided \in BOOLEAN /\ s.progress \in BOOLEAN
        /\ s.lanes \in SUBSET Lanes
    BY DEF Summary
  <1>4. CASE s.failed \/ s.undecided
    <2>1. latch' = NoteFailedPass(latch, s.lanes) /\ idlePasses' = idlePasses + 1
      <3>1. AccountForPass(latch, s) = NoteFailedPass(latch, s.lanes)
        BY <1>4, Zenon DEF AccountForPass
      <3>2. idlePasses' = idlePasses + 1
        BY <1>3, <1>4 DEF PassEnds
      <3> QED BY <3>1, <3>2 DEF PassEnds
    <2> QED BY <1>1, <1>2, <1>3, <2>1, FailedPays, Accounted DEF LatchInv, Typed
  <1>5. CASE ~(s.failed \/ s.undecided) /\ s.lanes # {}
    <2>1. /\ latch' = NoteDeferredPass(latch, s.lanes, s.progress)
          /\ idlePasses' = IF s.progress THEN 1 ELSE idlePasses + 1
      BY <1>5 DEF PassEnds, AccountForPass
    <2>2. PICK idle \in Nat : idle = idlePasses'
      BY <1>1, <2>1
    <2>3. IF s.progress THEN idle = 1
          ELSE idle <= (IF latch.failedPasses < MaxFailedPasses THEN latch.failedPasses
                        ELSE MaxFailedPasses - 1) + latch.deferredPasses + 1
      BY <1>1, <1>2, <2>1, <2>2, BudgetAssumption DEF LatchRecord
    <2>4. latch' \in LatchRecord /\ Pays(latch', idle)
      BY <1>1, <1>2, <1>3, <1>5, <2>1, <2>3, DeferredPays
    <2> QED BY <1>1, <2>2, <2>4, Accounted DEF LatchInv, Typed
  <1>6. CASE ~(s.failed \/ s.undecided) /\ s.lanes = {}
    <2>1. latch' = NoteCleanPass(latch) /\ idlePasses' = 0
      <3>1. AccountForPass(latch, s) = NoteCleanPass(latch)
        BY <1>6, Zenon DEF AccountForPass
      <3>2. idlePasses' = 0
        BY <1>3, <1>6 DEF PassEnds
      <3> QED BY <3>1, <3>2 DEF PassEnds
    <2> QED BY <1>1, <2>1, CleanPays, Accounted DEF LatchInv, Typed
  <1> QED BY <1>4, <1>5, <1>6

\* Returning from a trigger's last step puts it back where it starts.
LEMMA ReturnsStep ==
  ASSUME Typed, NEW t \in Triggers, Returns(t)
  PROVE  /\ trigger' \in [Triggers -> {"idle", "asked", "claimed", "over"}]
         /\ Claimers' = Claimers \ {t}
  BY DEF Typed, Returns, Goes, Claimers, Triggers

LEMMA LoopWentAwayStep ==
  ASSUME LatchInv, NEW t \in Triggers, LoopWentAway(t)
  PROVE  LatchInv'
  <1>1. /\ t \in Claimers /\ passes = 0 /\ passes' = 0 /\ Typed
        /\ latch \in LatchRecord /\ idlePasses \in Nat
        /\ latch' = NoteFailedPass(latch, {}) /\ idlePasses' = idlePasses + 1
        /\ lostTo' = "none"
    BY Behind DEF LatchInv, Typed, Exclusive, LoopWentAway, Claimers
  <1>2. /\ trigger' \in [Triggers -> {"idle", "asked", "claimed", "over"}] /\ Claimers' = {}
    BY <1>1, ReturnsStep DEF LatchInv, Exclusive, LoopWentAway
  <1> QED BY <1>1, <1>2, Behind, FailedPays, Accounted

LEMMA AskGateStep ==
  ASSUME LatchInv, NEW t \in Triggers, AskGate(t)
  PROVE  LatchInv'
  <1>1. /\ trigger' \in [Triggers -> {"idle", "asked", "claimed", "over"}]
        /\ Claimers' = Claimers
    BY DEF LatchInv, Typed, AskGate, Returns, Goes, Claimers, Triggers
  <1> QED BY <1>1 DEF AskGate, LatchInv, Typed, Lost, Exclusive, Paid, FailuresPaid, ShutLatchExplained

LEMMA ClaimStep ==
  ASSUME LatchInv, NEW t \in Triggers, Claim(t)
  PROVE  LatchInv'
  <1>0. Typed /\ trigger[t] = "asked" /\ UNCHANGED <<passes, idlePasses, lostTo>>
    BY DEF LatchInv, Claim
  <1>1. CASE latch.started
    <2>1. /\ trigger' \in [Triggers -> {"idle", "asked", "claimed", "over"}]
          /\ Claimers' = Claimers /\ UNCHANGED latch
      BY <1>0, <1>1 DEF Claim, Typed, Returns, Goes, Claimers, Triggers
    <2> QED BY <1>0, <2>1 DEF LatchInv, Typed, Lost, Exclusive, Paid, FailuresPaid, ShutLatchExplained
  <1>2. CASE ~latch.started
    <2>1. passes = 0 /\ Claimers = {}
      BY <1>2 DEF LatchInv, Exclusive
    <2>2. /\ trigger' \in [Triggers -> {"idle", "asked", "claimed", "over"}]
          /\ Claimers' = {t}
      BY <1>0, <1>2, <2>1 DEF Claim, Typed, Goes, Claimers
    <2>3. PICK q : q = [latch EXCEPT !.started = TRUE] /\ latch' = q
      BY <1>2 DEF Claim, ClaimTrigger
    <2>7. q \in LatchRecord
      BY <1>0, <2>3, Zenon DEF Typed, LatchRecord
    <2>4. /\ q \in LatchRecord /\ q.started /\ q.spent = latch.spent
          /\ q.failedPasses = latch.failedPasses /\ q.deferredPasses = latch.deferredPasses
          /\ q.deferredLanes = latch.deferredLanes
      BY <1>0, <2>3, <2>7, SMT DEF Typed, LatchRecord
    <2>5. ~GaveUp(latch)
      BY <1>2 DEF LatchInv, Paid, GaveUp
    <2>6. ~GaveUp(q)
      BY <2>4, <2>5 DEF GaveUp
    <2>8. ~Lost
      BY <1>2 DEF LatchInv, Exclusive
    <2>9. Typed' /\ Exclusive' /\ ShutLatchExplained'
      BY <1>0, <2>1, <2>2, <2>3, <2>4, <2>6, <2>8
         DEF LatchInv, Typed, Lost, Exclusive, ShutLatchExplained
    <2>10. Paid'
      BY <1>0, <2>3, <2>4, <2>5, <2>6, <2>8 DEF LatchInv, Lost, Paid, FailuresPaid
    <2> QED BY <2>9, <2>10 DEF LatchInv
  <1> QED BY <1>1, <1>2

LEMMA ScheduleStep ==
  ASSUME LatchInv, NEW t \in Triggers, Schedule(t)
  PROVE  LatchInv'
  <1>1. /\ t \in Claimers /\ passes = 0 /\ passes' = 1 /\ Typed
        /\ latch.started /\ ~GaveUp(latch) /\ lostTo = "none"
    BY Behind DEF LatchInv, Typed, Exclusive, Schedule, Claimers
  <1>2. /\ trigger' \in [Triggers -> {"idle", "asked", "claimed", "over"}] /\ Claimers' = {}
    BY <1>1, ReturnsStep DEF LatchInv, Exclusive, Schedule
  <1> QED BY <1>1, <1>2
          DEF Schedule, LatchInv, Typed, Lost, Exclusive, Paid, FailuresPaid, ShutLatchExplained

\* Both exits leave a shut latch with nobody behind it, one vain pass later.
LEMMA Keeps ==
  ASSUME LatchInv, passes > 0 \/ Claimers # {}, UNCHANGED latch, idlePasses' = idlePasses + 1,
         lostTo' \in {"no_loop", "cancelled"}, passes' = 0, Claimers' = {},
         trigger' \in [Triggers -> {"idle", "asked", "claimed", "over"}]
  PROVE  LatchInv'
  <1>1. /\ latch.started /\ ~GaveUp(latch) /\ ~latch.spent
        /\ latch.deferredPasses < MaxDeferredPasses
        /\ idlePasses <= (IF latch.failedPasses < MaxFailedPasses THEN latch.failedPasses
                          ELSE MaxFailedPasses - 1) + latch.deferredPasses
    BY Behind
  <1>2. idlePasses + 1 <= MaxFailedPasses + MaxDeferredPasses - 1
    BY <1>1, BudgetAssumption DEF LatchInv, Typed, LatchRecord
  <1>3. ~GaveUp(latch)' /\ Lost' /\ latch' = latch
    BY <1>1 DEF GaveUp, Lost
  <1> QED BY <1>1, <1>2, <1>3
          DEF LatchInv, Typed, Exclusive, Paid, ShutLatchExplained

LEMMA FindsNoLoopStep ==
  ASSUME LatchInv, FindsNoLoop
  PROVE  LatchInv'
  <1>1. /\ "hook" \in Triggers /\ "hook" \in Claimers /\ passes' = 0 /\ Typed
    BY DEF LatchInv, Typed, Exclusive, FindsNoLoop, Claimers, Triggers
  <1>2. /\ trigger' \in [Triggers -> {"idle", "asked", "claimed", "over"}] /\ Claimers' = {}
    BY <1>1, ReturnsStep DEF LatchInv, Exclusive, FindsNoLoop
  <1> QED BY <1>1, <1>2, Keeps DEF FindsNoLoop

LEMMA PassCancelledStep ==
  ASSUME LatchInv, PassCancelled
  PROVE  LatchInv'
  <1>1. /\ passes' = 0 /\ Claimers' = {}
        /\ trigger' \in [Triggers -> {"idle", "asked", "claimed", "over"}]
    BY DEF LatchInv, Typed, Exclusive, PassCancelled, Claimers
  <1> QED BY <1>1, Keeps DEF PassCancelled

LEMMA SameStep ==
  ASSUME LatchInv, UNCHANGED <<latch, trigger, passes, idlePasses, lostTo>>
  PROVE  LatchInv'
  BY DEF LatchInv, Typed, Lost, Exclusive, Paid, FailuresPaid, ShutLatchExplained, Claimers

-----------------------------------------------------------------------------
(* The theorems *)

\* The latch, the triggers and the passes agree at every step, and every pass that
\* came to nothing has been counted against a budget.
THEOREM LatchInvariant == Spec => []LatchInv
  <1>1. Init => LatchInv
    <2> SUFFICES ASSUME Init PROVE LatchInv
      OBVIOUS
    <2>1. /\ latch \in LatchRecord /\ latch.failedPasses = 0 /\ latch.deferredPasses = 0
          /\ ~latch.spent /\ ~latch.started
      BY SMT DEF Init, FreshLatch, LatchRecord
    <2>2. ~GaveUp(latch)
      BY <2>1, BudgetAssumption DEF GaveUp
    <2>3. trigger \in [Triggers -> {"idle", "asked", "claimed", "over"}] /\ Claimers = {}
      BY DEF Init, Claimers
    <2> QED BY <2>1, <2>2, <2>3, BudgetAssumption
            DEF Init, LatchInv, Typed, Lost, Exclusive, Paid, FailuresPaid, ShutLatchExplained
  <1>2. LatchInv /\ [Next]_vars => LatchInv'
    <2> SUFFICES ASSUME LatchInv, [Next]_vars PROVE LatchInv'
      OBVIOUS
    <2>1. CASE UNCHANGED vars
      BY <2>1, SameStep DEF vars
    <2>2. ASSUME NEW lane \in Lanes, LaneComes(lane) \/ LaneGoes(lane) PROVE LatchInv'
      BY <2>2, SameStep DEF LaneComes, LaneGoes
    <2> QED BY <2>1, <2>2, AskGateStep, ClaimStep, ScheduleStep, LoopWentAwayStep,
               PassEndsStep, FindsNoLoopStep, PassCancelledStep DEF Next, TriggerStep
  <1> QED BY <1>1, <1>2, PTL DEF Spec

\* OnePassAtATime: the poller's thread and the message hook never have two passes
\* between them, however their tests and their claims interleave (_claim_trigger).
THEOREM OnePass == Spec => []OnePassAtATime
  <1>1. LatchInv => OnePassAtATime
    <2> SUFFICES ASSUME LatchInv PROVE OnePassAtATime
      OBVIOUS
    <2>1. CASE Claimers = {}
      BY <2>1, FS_EmptySet DEF LatchInv, Typed, Exclusive, OnePassAtATime
    <2>2. ASSUME NEW t \in Claimers PROVE OnePassAtATime
      <3>1. Claimers = {t}
        BY <2>2 DEF LatchInv, Exclusive
      <3>2. Cardinality(Claimers) = 1
        BY <3>1, FS_Singleton, Zenon
      <3>3. passes = 0
        BY <2>2 DEF LatchInv, Typed, Exclusive
      <3> QED BY <3>2, <3>3 DEF OnePassAtATime
    <2> QED BY <2>1, <2>2
  <1> QED BY <1>1, LatchInvariant, PTL

\* IdlePassesBounded: whatever the passes report, those that neither end clean nor
\* make progress are no more than the two budgets pay for (_account_for_pass).
THEOREM IdlePassesPaid == Spec => []IdlePassesBounded
  <1>1. LatchInv => IdlePassesBounded
    BY BudgetAssumption
       DEF LatchInv, Typed, Paid, FailuresPaid, LatchRecord, IdlePassesBounded
  <1> QED BY <1>1, LatchInvariant, PTL

\* ShutLatchExplained: a latch left shut with no pass behind it was left by a clean
\* pass, by a spent budget, by the hook that found no loop or by a cancelled pass
\* (trigger_from_event, _run_pass); no other exit of a trigger keeps it.
THEOREM ShutExplained == Spec => []ShutLatchExplained
  <1>1. LatchInv => ShutLatchExplained
    BY DEF LatchInv
  <1> QED BY <1>1, LatchInvariant, PTL
=============================================================================
