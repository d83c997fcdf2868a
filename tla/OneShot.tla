------------------------------- MODULE OneShot -------------------------------
(***************************************************************************)
(* What a drop promises, whatever carries it: it is opened, takes in one   *)
(* payload at most, may lend that payload and get it back, hands it over   *)
(* once at most, and ends.  No state is ever entered twice except by a     *)
(* lent payload coming back.                                               *)
(***************************************************************************)
EXTENDS Naturals

CONSTANTS Drops, Payloads, None

VARIABLES
  stage,    \* where each drop is in its life
  content,  \* the payload it took in, kept as history once it is handed over
  handed    \* how many times it handed the payload over

vars == <<stage, content, handed>>

Init ==
  /\ stage = [d \in Drops |-> "none"]
  /\ content = [d \in Drops |-> None]
  /\ handed = [d \in Drops |-> 0]

Open(d) ==
  /\ stage[d] = "none"
  /\ stage' = [stage EXCEPT ![d] = "open"]
  /\ UNCHANGED <<content, handed>>

Deposit(d, p) ==
  /\ stage[d] = "open"
  /\ stage' = [stage EXCEPT ![d] = "held"]
  /\ content' = [content EXCEPT ![d] = p]
  /\ UNCHANGED handed

Lend(d) ==
  /\ stage[d] = "held"
  /\ stage' = [stage EXCEPT ![d] = "lent"]
  /\ UNCHANGED <<content, handed>>

GiveBack(d) ==
  /\ stage[d] = "lent"
  /\ stage' = [stage EXCEPT ![d] = "held"]
  /\ UNCHANGED <<content, handed>>

HandOver(d) ==
  /\ stage[d] \in {"held", "lent"}
  /\ stage' = [stage EXCEPT ![d] = "spent"]
  /\ handed' = [handed EXCEPT ![d] = @ + 1]
  /\ UNCHANGED content

\* One sweep may end several drops.
End(S) ==
  /\ \A d \in S : stage[d] \notin {"none", "over"}
  /\ stage' = [d \in Drops |-> IF d \in S THEN "over" ELSE stage[d]]
  /\ UNCHANGED <<content, handed>>

Next ==
  \/ \E d \in Drops : \/ Open(d) \/ Lend(d) \/ GiveBack(d) \/ HandOver(d)
                      \/ \E p \in Payloads : Deposit(d, p)
  \/ \E S \in SUBSET Drops : End(S)

Spec == Init /\ [][Next]_vars
=============================================================================
