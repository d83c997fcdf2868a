------------------------------ MODULE MCServer ------------------------------
(* Instances of PublicServer: the cfg picks drops, callers, envelopes among  *)
(*   f1, f2  a sealed file container for d1, for d2                          *)
(*   t1      a sealed text for d1                                            *)
(*   x1      a text envelope for d1 that fails the AEAD                      *)
(*   m1      a file envelope for d1 that opens to no container               *)
EXTENDS PublicServer, TLC

CONSTANTS
  d1, d2, f1, f2, t1, x1, m1, r1, r2, r3, c1, c2, w1,
  FramesPerFile

MCHid == [e \in Envelopes |-> IF e = f2 THEN d2 ELSE d1]
MCLane == [e \in Envelopes |-> IF e \in {t1, x1} THEN "text" ELSE "files"]
MCGrade == [e \in Envelopes |-> IF e = x1 THEN "forged"
                                ELSE IF e = m1 THEN "misfit" ELSE "sealed"]
MCFrames == [e \in Envelopes |-> FramesPerFile]

\* Requests are interchangeable, and so are claimants.
Callers == Permutations(Requests) \cup Permutations(Claimants)
=============================================================================
