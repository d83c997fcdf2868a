------------------------------ MODULE Journal ------------------------------
(***************************************************************************)
(* The entry the plugin keeps for a drop (drop/journal.py), and the three  *)
(* questions asked of it: what still has to be announced, who may claim,   *)
(* what an update leaves of an entry that is not there.  Text fields are   *)
(* left out; announced_at is its age against the reclaim grace, and the    *)
(* five routing fields are the lane of the drop and the Boolean "mine".    *)
(***************************************************************************)
EXTENDS Naturals

CONSTANTS Drops, Lanes, LaneOf, None, MaxAnnounceAttempts

ASSUME LaneAssumption == LaneOf \in [Drops -> Lanes]
ASSUME AttemptsAssumption == MaxAnnounceAttempts \in Nat \ {0}

TerminalStates == {"received", "expired", "transport_failed"}
States == {"waiting"} \cup TerminalStates

Entry == [state: States, announced: {"never", "recent", "old"}, attempts: Nat,
          claimed: BOOLEAN, editFailed: BOOLEAN, kind: {"", "text", "files"}]

\* create_entry
CreateEntry == [state |-> "waiting", announced |-> "never", attempts |-> 0,
                claimed |-> FALSE, editFailed |-> FALSE, kind |-> ""]

\* update: a missing entry is left missing, never brought back.
Update(j, d, entry) == IF j[d] = None THEN j ELSE [j EXCEPT ![d] = entry]

Waiting(j) == {d \in Drops : j[d] # None /\ j[d].state = "waiting"}

\* terminal_unannounced
TerminalUnannounced(j, lanes) ==
  {d \in Drops : /\ j[d] # None
                 /\ j[d].state \in TerminalStates
                 /\ j[d].announced = "never"
                 /\ j[d].attempts < MaxAnnounceAttempts
                 /\ LaneOf[d] \in lanes}

\* authorize_claim: "ok", or the refusal
AuthorizeClaim(entry, mine) ==
  CASE entry = None -> "unavailable"
    [] entry # None /\ ~mine -> "not_authorized"
    [] entry # None /\ mine /\ entry.claimed -> "unavailable"
    [] entry # None /\ mine /\ ~entry.claimed ->
         CASE entry.state = "received" -> "ok"
           [] entry.state = "waiting" -> "not_ready"
           [] OTHER -> "unavailable"
=============================================================================
