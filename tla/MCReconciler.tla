---------------------------- MODULE MCReconciler ----------------------------
(* Reconciler for TLC: what the browser submits and where the drops live.    *)
EXTENDS Reconciler

\* MaxFailedPasses and MaxDeferredPasses are 5 and 20 in the code, MaxEditRetries
\* 3, MaxAnnounceAttempts 5: two of each show every branch of their counters.
AllFiles == [d \in Drops |-> "files"]
OneLane == [d \in Drops |-> CHOOSE lane \in Lanes : TRUE]
=============================================================================
