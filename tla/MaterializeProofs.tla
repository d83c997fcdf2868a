------------------------- MODULE MaterializeProofs -------------------------
(***************************************************************************)
(* What a file claim leaves behind, for any number of calls and drops, any *)
(* slot limit and any number of faults: the inductive invariants MInv and  *)
(* KInv, and the safety properties of Materialize they imply.              *)
(*                                                                         *)
(* MInv holds whatever the spool finds on disk.  KInv needs the root       *)
(* directory to be there when the process starts, as it is from the first  *)
(* claim on: a purge that found no root gives the startup lock back with   *)
(* the latch unspent, and a later one may list this process's own entries. *)
(***************************************************************************)
EXTENDS Materialize, TLAPS

Commits(c) == retiredBy[DropOf[c]] = c

\* Before the outcome of the transfer is known, and after.
Early == {"idle", "start", "create", "receive", "accept"}
Late  == {"hold", "giveup", "discard", "over"}

Outcomes == {"ok", "busy", "unsafe", "failed"}
Wires == {"none", "begin", "leased", "acked", "commit", "ok", "failed", "unavailable", "closed"}
Dirs  == {"none", "open", "published", "quarantined", "discarded"}
Awaited == {"idle", "start", "create", "receive", "accept", "publish",
            "hold", "giveup", "discard", "over"}

MTyped ==
  /\ at \in [Callers -> Awaited] /\ jobs \in [Callers -> SUBSET Jobs]
  /\ out \in [Callers -> Outcomes \cup {None}]
  /\ dir \in [Claims -> Dirs] /\ disk \in [Claims -> Kinds \cup {"none"}]
  /\ verdict \in [Claims -> Verdicts \cup {None}]
  /\ cutAt \in [Claims -> Awaited \cup {None}]
  /\ wire \in [Claims -> Wires]
  /\ held \in [Drops -> {"held", "retired", "gone"}]
  /\ lease \in [Drops -> Claims \cup {None}]
  /\ retiredBy \in [Drops -> Claims \cup {None}]
  /\ recorded \subseteq Drops /\ reserved \subseteq Claims

\* The broker's book: a lease is on a payload it holds, and a commit retires one
\* that nobody has retired.
Booked == \A d \in Drops : /\ lease[d] # None => held[d] = "held"
                           /\ held[d] = "held" => retiredBy[d] = None

\* What the connection has come to tells how far the call went, and whether the
\* broker took its commit.
Wired(c) ==
  /\ at[c] \in {"idle", "start", "create"} => wire[c] = "none"
  /\ at[c] = "accept" => wire[c] = "leased"
  /\ wire[c] = "ok" => Commits(c)
  /\ Commits(c) => wire[c] \in {"ok", "closed"}
  /\ wire[c] = "commit" \/ Commits(c) => c \in committed
  /\ wire[c] = "unavailable" => held[DropOf[c]] # "held"

\* A verdict is reached only when the outcome is known: one that invites a retry
\* when no commit can come any more, one that marks the drop spent when it is.
Judged(c) ==
  /\ verdict[c] # None => at[c] \in Late
  /\ verdict[c] \in RetrySafe => ~Commits(c) /\ wire[c] # "commit"
  /\ verdict[c] \in MarkSpent \cup {"ok"} => held[DropOf[c]] # "held"
  /\ at[c] = "publish" \/ "publish" \in jobs[c] \/ disk[c] = "published" => Commits(c)

\* A directory is open from the end of its making to its outcome, and holds its
\* slot and its registration for as long.
Placed(c) ==
  /\ dir[c] = "open" => disk[c] = "staging" /\ c \in registered
  /\ c \in reserved => "making" \in jobs[c] \/ dir[c] = "open"
  /\ dir[c] # "none" => at[c] \notin {"idle", "start"}
  /\ at[c] \in {"receive", "accept"} => dir[c] = "open"
  /\ at[c] = "over" /\ dir[c] = "open" => cutAt[c] \in {"create", "discard"}

\* A task whose answer is not there yet awaits a worker that is still to give it.
AwaitsSomebody(c) ==
  at[c] \in Jobs /\ out[c] = None =>
    at[c] \in jobs[c] \/ (at[c] = "create" /\ "making" \in jobs[c])

\* The workers of a call belong to the await it is at, or to one it was cut at.
Manned(c) ==
  /\ "create" \in jobs[c] \/ "making" \in jobs[c] =>
       /\ dir[c] = "none" /\ wire[c] = "none"
       /\ \/ at[c] = "create" /\ out[c] = None
          \/ at[c] = "over" /\ cutAt[c] = "create"
  /\ ~({"create", "making"} \subseteq jobs[c])
  /\ at[c] \in Early => jobs[c] \cap {"publish", "hold", "giveup", "discard"} = {}
  /\ at[c] = "create" => /\ out[c] = "ok" => dir[c] = "open"
                         /\ out[c] # "ok" => dir[c] # "open"
  /\ at[c] = "discard" /\ out[c] # None => dir[c] # "open"
  /\ at[c] = "publish" /\ out[c] = "ok" => dir[c] = "published"
  /\ AwaitsSomebody(c)

MInv == /\ MTyped /\ Booked
        /\ \A c \in Claims : Wired(c) /\ Judged(c) /\ Placed(c) /\ Manned(c)
        /\ \A d \in recorded : held[d] # "held"

\* The call has passed its start, or left something of it.
Begun(c) == \/ at[c] \in Awaited \ {"idle", "start", "over"}
            \/ at[c] = "start" /\ out[c] # None
            \/ dir[c] # "none"
            \/ "create" \in jobs[c] \/ "making" \in jobs[c]

\* While a purge runs nothing of this process lies in the spool.
Latched == /\ root
           /\ purging # None => ~started
           /\ DOMAIN sweep = Sweeps
           /\ sweep["purge"] # None => purging # None
           /\ \A c \in Claims : Begun(c) => started

\* What was put out of reach stays there until it is old.
Kept(c) == /\ dir[c] = "published" => disk[c] = "published" \/ c \in aged
           /\ dir[c] = "quarantined" => disk[c] = "quarantine" \/ c \in aged
           /\ verdict[c] = "ok" => dir[c] = "published" \/ c \in former

\* The broker took the commit of this call, or may still take it.
AtStake(c) == wire[c] = "commit" \/ Commits(c)

\* Nobody discards the bytes that are at stake, but after a rename that failed.
Guarded(c) ==
  /\ AtStake(c) => \/ dir[c] \in {"open", "published", "quarantined"}
                   \/ cutAt[c] = "hold" \/ c \in former \cup holdFailed
  /\ "discard" \in jobs[c] \/ at[c] = "discard" => ~AtStake(c) \/ c \in holdFailed \/ dir[c] # "open"
  /\ "giveup" \in jobs[c] \/ at[c] = "giveup" => c \in holdFailed
  /\ at[c] = "hold" /\ out[c] = "failed" => c \in holdFailed
  /\ at[c] = "hold" /\ out[c] \notin {None, "failed"} => dir[c] # "open"
  /\ cutAt[c] = "hold" => at[c] = "over"

Keeping == Latched /\ \A c \in Claims : Kept(c) /\ Guarded(c)

KInv == MInv /\ Keeping


-----------------------------------------------------------------------------
(* A step that concerns one call *)

\* Everything a predicate of another call reads is what it was, or a history that grew.
Same(e) ==
  /\ at'[e] = at[e] /\ jobs'[e] = jobs[e] /\ out'[e] = out[e]
  /\ dir'[e] = dir[e] /\ disk'[e] = disk[e]
  /\ verdict'[e] = verdict[e] /\ cutAt'[e] = cutAt[e] /\ wire'[e] = wire[e]
  /\ e \in committed => e \in committed'
  /\ e \in registered => e \in registered'
  /\ e \in reserved' => e \in reserved
  /\ e \in aged => e \in aged'
  /\ e \in former => e \in former'
  /\ e \in holdFailed => e \in holdFailed'

Sound(c) == Wired(c) /\ Judged(c) /\ Placed(c) /\ Manned(c)

SpentIsGone == \A d \in recorded : held[d] # "held"

\* The broker's side, from the other calls' point of view.
BrokerKeeps(c) ==
  /\ Booked'
  /\ \A d \in Drops : held[d] # "held" => held'[d] # "held"
  /\ \A e \in Claims \ {c} : Commits(e)' <=> Commits(e)

LEMMA BrokerRests ==
  ASSUME MInv, NEW c \in Claims, UNCHANGED <<held, lease, retiredBy>>
  PROVE  BrokerKeeps(c)
  BY DEF MInv, Booked, BrokerKeeps, Commits

LEMMA SameSound ==
  ASSUME NEW e \in Claims, Sound(e), Same(e), Commits(e)' <=> Commits(e), DropOf[e] \in Drops,
         \A d \in Drops : held[d] # "held" => held'[d] # "held"
  PROVE  Sound(e)'
  <1>1. Wired(e)'
    BY DEF Sound, Wired, Same
  <1>2. Judged(e)'
    BY DEF Sound, Judged, Same
  <1>3. Placed(e)'
    BY DEF Sound, Placed, Same
  <1>4. Manned(e)'
    BY NamesAssumption DEF Sound, Manned, AwaitsSomebody, Same, Jobs, Verdicts
  <1> QED BY <1>1, <1>2, <1>3, <1>4 DEF Sound

\* The invariant survives a step that concerns c when its part about c does.
LEMMA OneCall ==
  ASSUME MInv, NEW c \in Claims, MTyped', BrokerKeeps(c), SpentIsGone',
         \A e \in Claims \ {c} : Same(e), Sound(c)'
  PROVE  MInv'
  <1>1. \A e \in Claims : Sound(e)
    BY DEF MInv, Sound
  <1>2. ASSUME NEW e \in Claims \ {c} PROVE Sound(e)'
    <2>1. DropOf[e] \in Drops
      BY DropAssumption
    <2> QED BY <1>1, <2>1, SameSound DEF BrokerKeeps
  <1> QED BY <1>2 DEF MInv, Sound, BrokerKeeps, SpentIsGone

LEMMA OneCallKeeps ==
  ASSUME MInv, Keeping, NEW c \in Claims, BrokerKeeps(c), Latched',
         \A e \in Claims \ {c} : Same(e), Kept(c)', Guarded(c)'
  PROVE  Keeping'
  <1>1. ASSUME NEW e \in Claims \ {c} PROVE Kept(e)'
    BY DEF Keeping, Kept, Same
  <1>2. ASSUME NEW e \in Claims \ {c} PROVE Guarded(e)'
    <2>1. AtStake(e)' <=> AtStake(e)
      BY DEF AtStake, Same, BrokerKeeps
    <2> QED BY <2>1 DEF Keeping, Guarded, Same
  <1> QED BY <1>1, <1>2 DEF Keeping

\* A step of a task leaves the latch alone.
LEMMA LatchRests ==
  ASSUME Latched, NEW c \in Claims, UNCHANGED <<purging, sweep>>, root => root', started <=> started',
         \A e \in Claims \ {c} : Same(e), Begun(c)' => started
  PROVE  Latched'
  BY DEF Latched, Begun, Same

-----------------------------------------------------------------------------
(* The task's steps *)

LEMMA CallStep ==
  ASSUME MInv, NEW c \in Claims, Call(c)
  PROVE  MInv' /\ (Keeping => Keeping')
  <1>1. MTyped'
    BY NamesAssumption DEF MInv, MTyped, Call, Awaits, task, peer, taskLeaves, store, claimed,
       Callers, Awaited, Jobs, Verdicts
  <1>2. \A e \in Claims \ {c} : Same(e)
    BY DEF MInv, MTyped, Call, Awaits, Same, taskLeaves, store, claimed, Callers
  <1>3. BrokerKeeps(c) /\ SpentIsGone'
    BY BrokerRests DEF MInv, Call, taskLeaves, SpentIsGone
  <1>4. Sound(c)'
    <2>1. MTyped /\ Sound(c)
      BY DEF MInv, Sound
    <2> QED BY <2>1, NamesAssumption DEF MTyped, Call, Awaits, taskLeaves, store, claimed,
               Callers, Sound, Wired, Judged, Placed, Manned, AwaitsSomebody, Commits, Early,
               Late, RetrySafe, MarkSpent, Verdicts, Jobs
  <1>5. MInv'
    BY <1>1, <1>2, <1>3, <1>4, OneCall
  <1>6. ASSUME Keeping PROVE Keeping'
    <2>1. Begun(c)' => started
      BY <1>6 DEF Keeping, Latched, Begun, MInv, MTyped, Manned, Early, Call, Awaits, taskLeaves,
         store, claimed, Callers, Awaited
    <2>2. Latched'
      BY <1>2, <1>6, <2>1, LatchRests DEF Keeping, Call, taskLeaves, store
    <2>3. Kept(c)' /\ Guarded(c)'
      BY <1>6 DEF Keeping, Kept, Guarded, AtStake, Commits, MInv, Wired, Manned, MTyped, Call,
         Awaits, taskLeaves, store, claimed, Callers, Awaited, Early
    <2> QED BY <1>2, <1>3, <1>6, <2>2, <2>3, OneCallKeeps
  <1> QED BY <1>5, <1>6

LEMMA StartedStep ==
  ASSUME MInv, NEW c \in Claims, Started(c)
  PROVE  MInv' /\ (Keeping => Keeping')
  <1>1. MTyped'
    BY DropAssumption, NamesAssumption DEF MInv, MTyped, Started, Awaits, taskLeaves, store,
       claimed, Callers, Awaited, Jobs, Verdicts, Wires, MarkSpent
  <1>2. \A e \in Claims \ {c} : Same(e)
    BY DEF MInv, MTyped, Started, Awaits, Same, taskLeaves, store, claimed, Callers
  <1>3. BrokerKeeps(c) /\ MTyped /\ Sound(c)
    BY BrokerRests DEF MInv, Started, taskLeaves, Sound
  <1>4. Wired(c)'
    BY <1>3, NamesAssumption DEF MTyped, Started, Awaits, taskLeaves, store, claimed, Callers,
       Sound, Wired, Judged, Placed, Manned, Commits, Early
  <1>5. Judged(c)'
    BY <1>3, NamesAssumption DEF MTyped, Started, Awaits, taskLeaves, store, claimed, Callers,
       Sound, Wired, Judged, Manned, Commits, Early, Late, RetrySafe, MarkSpent, Verdicts, Jobs
  <1>6. Placed(c)'
    BY <1>3, NamesAssumption DEF MTyped, Started, Awaits, taskLeaves, store, claimed, Callers,
       Sound, Placed, Manned, Early
  <1>7. Manned(c)'
    <2>1. /\ at'[c] = "create"
          /\ jobs'[c] = jobs[c] \cup {"create"} /\ out'[c] = None /\ dir' = dir
          /\ cutAt' = cutAt /\ wire' = wire
      BY <1>3 DEF MTyped, Started, Awaits, taskLeaves, claimed, Callers
    <2>2. at[c] = "start"
      BY DEF Started
    <2> QED BY <1>3, <2>1, <2>2, NamesAssumption DEF Sound, Wired, Placed, Manned, AwaitsSomebody,
               Early, Verdicts, Jobs
  <1>8. SpentIsGone'
    BY <1>3, DropAssumption, NamesAssumption DEF MInv, MTyped, Started, Awaits, taskLeaves,
       SpentIsGone, Sound, Wired, Judged, Manned, Commits, Booked, Early, RetrySafe, MarkSpent,
       Verdicts
  <1>9. MInv'
    BY <1>1, <1>2, <1>3, <1>4, <1>5, <1>6, <1>7, <1>8, OneCall DEF Sound
  <1>10. ASSUME Keeping PROVE Keeping'
    <2>1. Begun(c)' => started
      BY <1>3, <1>10 DEF Keeping, Latched, Begun, Sound, Manned, MTyped, Started, Awaits,
         taskLeaves, store, claimed, Callers, Awaited
    <2>2. Latched'
      BY <1>2, <1>10, <2>1, LatchRests DEF Keeping, Started, Awaits, taskLeaves, store
    <2>3. Kept(c)'
      BY <1>3, <1>10, NamesAssumption DEF Keeping, Kept, Sound, Manned, MTyped, Started, Awaits,
         taskLeaves, store, claimed, Callers, Verdicts
    <2>4. Guarded(c)'
      BY <1>3, <1>10, NamesAssumption DEF Keeping, Guarded, AtStake, Commits, Sound, Wired,
         Judged, Placed, Manned, MTyped, Started, Awaits, taskLeaves, store, claimed, Callers,
         Early
    <2> QED BY <1>2, <1>3, <1>10, <2>2, <2>3, <2>4, OneCallKeeps
  <1> QED BY <1>9, <1>10

LEMMA CreatedStep ==
  ASSUME MInv, NEW c \in Claims, Created(c)
  PROVE  MInv' /\ (Keeping => Keeping')
  <1>1. MTyped'
    BY DropAssumption, NamesAssumption DEF MInv, MTyped, Created, Answers, taskLeaves, store,
       claimed, Callers, Awaited, Jobs, Verdicts, Wires, MarkSpent
  <1>2. \A e \in Claims \ {c} : Same(e)
    BY DEF MInv, MTyped, Created, Answers, Same, taskLeaves, store, claimed, Callers
  <1>3. BrokerKeeps(c) /\ MTyped /\ Sound(c)
    BY BrokerRests DEF MInv, Created, taskLeaves, Sound
  <1>4. Wired(c)'
    BY <1>3, NamesAssumption DEF MTyped, Created, Answers, taskLeaves, store, claimed, Callers,
       Sound, Wired, Judged, Placed, Manned, Commits, Early
  <1>5. Judged(c)'
    BY <1>3, NamesAssumption DEF MTyped, Created, Answers, taskLeaves, store, claimed, Callers,
       Sound, Wired, Judged, Manned, Commits, Early, Late, RetrySafe, MarkSpent, Verdicts, Jobs
  <1>6. Placed(c)'
    BY <1>3, NamesAssumption DEF MTyped, Created, Answers, taskLeaves, store, claimed, Callers,
       Sound, Placed, Manned, Early
  <1>7. Manned(c)'
    BY <1>3, NamesAssumption DEF MTyped, Created, Answers, taskLeaves, store, claimed, Callers,
       Sound, Placed, Manned, AwaitsSomebody, Early, Jobs, Verdicts
  <1>8. SpentIsGone'
    BY <1>3, DropAssumption, NamesAssumption DEF MInv, MTyped, Created, Answers, taskLeaves,
       SpentIsGone, Sound, Wired, Judged, Manned, Commits, Booked, Early, RetrySafe, MarkSpent,
       Verdicts
  <1>9. MInv'
    BY <1>1, <1>2, <1>3, <1>4, <1>5, <1>6, <1>7, <1>8, OneCall DEF Sound
  <1>10. ASSUME Keeping PROVE Keeping'
    <2>1. Begun(c)' => started
      BY <1>3, <1>10 DEF Keeping, Latched, Begun, Sound, Manned, MTyped, Created, Answers,
         taskLeaves, store, claimed, Callers, Awaited
    <2>2. Latched'
      BY <1>2, <1>10, <2>1, LatchRests DEF Keeping, Created, Answers, taskLeaves, store
    <2>3. Kept(c)'
      BY <1>3, <1>10, NamesAssumption DEF Keeping, Kept, Sound, Manned, MTyped, Created, Answers,
         taskLeaves, store, claimed, Callers, Verdicts
    <2>4. Guarded(c)'
      BY <1>3, <1>10, NamesAssumption DEF Keeping, Guarded, AtStake, Commits, Sound, Wired,
         Judged, Placed, Manned, MTyped, Created, Answers, taskLeaves, store, claimed, Callers,
         Early
    <2> QED BY <1>2, <1>3, <1>10, <2>2, <2>3, <2>4, OneCallKeeps
  <1> QED BY <1>9, <1>10

LEMMA ChunkArrivesStep ==
  ASSUME MInv, NEW c \in Claims, ChunkArrives(c)
  PROVE  MInv' /\ (Keeping => Keeping')
  <1>1. MTyped'
    BY DropAssumption, NamesAssumption DEF MInv, MTyped, ChunkArrives, Awaits, taskLeaves, store,
       claimed, Callers, Awaited, Jobs, Verdicts, Wires, MarkSpent
  <1>2. \A e \in Claims \ {c} : Same(e)
    BY DEF MInv, MTyped, ChunkArrives, Awaits, Same, taskLeaves, store, claimed, Callers
  <1>3. BrokerKeeps(c) /\ MTyped /\ Sound(c)
    BY BrokerRests DEF MInv, ChunkArrives, taskLeaves, Sound
  <1>4. Wired(c)'
    BY <1>3, NamesAssumption DEF MTyped, ChunkArrives, Awaits, taskLeaves, store, claimed,
       Callers, Sound, Wired, Judged, Placed, Manned, Commits, Early
  <1>5. Judged(c)'
    BY <1>3, NamesAssumption DEF MTyped, ChunkArrives, Awaits, taskLeaves, store, claimed,
       Callers, Sound, Wired, Judged, Manned, Commits, Early, Late, RetrySafe, MarkSpent,
       Verdicts, Jobs
  <1>6. Placed(c)'
    BY <1>3, NamesAssumption DEF MTyped, ChunkArrives, Awaits, taskLeaves, store, claimed,
       Callers, Sound, Placed, Manned, Early
  <1>7. Manned(c)'
    BY <1>3, NamesAssumption DEF MTyped, ChunkArrives, Awaits, taskLeaves, store, claimed,
       Callers, Sound, Placed, Manned, AwaitsSomebody, Early, Jobs, Verdicts
  <1>8. SpentIsGone'
    BY <1>3, DropAssumption, NamesAssumption DEF MInv, MTyped, ChunkArrives, Awaits, taskLeaves,
       SpentIsGone, Sound, Wired, Judged, Manned, Commits, Booked, Early, RetrySafe, MarkSpent,
       Verdicts
  <1>9. MInv'
    BY <1>1, <1>2, <1>3, <1>4, <1>5, <1>6, <1>7, <1>8, OneCall DEF Sound
  <1>10. ASSUME Keeping PROVE Keeping'
    <2>1. Begun(c)' => started
      BY <1>3, <1>10 DEF Keeping, Latched, Begun, Sound, Manned, MTyped, ChunkArrives, Awaits,
         taskLeaves, store, claimed, Callers, Awaited
    <2>2. Latched'
      BY <1>2, <1>10, <2>1, LatchRests DEF Keeping, ChunkArrives, Awaits, taskLeaves, store
    <2>3. Kept(c)'
      BY <1>3, <1>10, NamesAssumption DEF Keeping, Kept, Sound, Manned, MTyped, ChunkArrives,
         Awaits, taskLeaves, store, claimed, Callers, Verdicts
    <2>4. Guarded(c)'
      BY <1>3, <1>10, NamesAssumption DEF Keeping, Guarded, AtStake, Commits, Sound, Wired,
         Judged, Placed, Manned, MTyped, ChunkArrives, Awaits, taskLeaves, store, claimed,
         Callers, Early
    <2> QED BY <1>2, <1>3, <1>10, <2>2, <2>3, <2>4, OneCallKeeps
  <1> QED BY <1>9, <1>10

LEMMA ChunkAcceptedStep ==
  ASSUME MInv, NEW c \in Claims, ChunkAccepted(c)
  PROVE  MInv' /\ (Keeping => Keeping')
  <1>1. MTyped'
    BY DropAssumption, NamesAssumption DEF MInv, MTyped, ChunkAccepted, Awaits, Answers, Leaves,
       taskLeaves, store, claimed, Callers, Awaited, Jobs, Verdicts, Wires, MarkSpent
  <1>2. \A e \in Claims \ {c} : Same(e)
    BY DEF MInv, MTyped, ChunkAccepted, Awaits, Answers, Leaves, Same, taskLeaves, store, claimed,
       Callers
  <1>3. BrokerKeeps(c) /\ MTyped /\ Sound(c)
    BY BrokerRests DEF MInv, ChunkAccepted, taskLeaves, Sound
  <1>4. Wired(c)'
    BY <1>3, NamesAssumption DEF MTyped, ChunkAccepted, Awaits, Answers, Leaves, taskLeaves,
       store, claimed, Callers, Sound, Wired, Judged, Placed, Manned, Commits, Early
  <1>5. Judged(c)'
    BY <1>3, NamesAssumption DEF MTyped, ChunkAccepted, Awaits, Answers, Leaves, taskLeaves,
       store, claimed, Callers, Sound, Wired, Judged, Manned, Commits, Early, Late, RetrySafe,
       MarkSpent, Verdicts, Jobs
  <1>6. Placed(c)'
    BY <1>3, NamesAssumption DEF MTyped, ChunkAccepted, Awaits, Answers, Leaves, taskLeaves,
       store, claimed, Callers, Sound, Placed, Manned, Early
  <1>7. Manned(c)'
    BY <1>3, NamesAssumption DEF MTyped, ChunkAccepted, Awaits, Answers, Leaves, taskLeaves,
       store, claimed, Callers, Sound, Placed, Manned, AwaitsSomebody, Early, Jobs, Verdicts
  <1>8. SpentIsGone'
    BY <1>3, DropAssumption, NamesAssumption DEF MInv, MTyped, ChunkAccepted, Awaits, Answers,
       Leaves, taskLeaves, SpentIsGone, Sound, Wired, Judged, Manned, Commits, Booked, Early,
       RetrySafe, MarkSpent, Verdicts
  <1>9. MInv'
    BY <1>1, <1>2, <1>3, <1>4, <1>5, <1>6, <1>7, <1>8, OneCall DEF Sound
  <1>10. ASSUME Keeping PROVE Keeping'
    <2>1. Begun(c)' => started
      BY <1>3, <1>10 DEF Keeping, Latched, Begun, Sound, Manned, MTyped, ChunkAccepted, Awaits,
         Answers, Leaves, taskLeaves, store, claimed, Callers, Awaited
    <2>2. Latched'
      BY <1>2, <1>10, <2>1, LatchRests DEF Keeping, ChunkAccepted, Awaits, Answers, Leaves,
         taskLeaves, store
    <2>3. Kept(c)'
      BY <1>3, <1>10, NamesAssumption DEF Keeping, Kept, Sound, Manned, MTyped, ChunkAccepted,
         Awaits, Answers, Leaves, taskLeaves, store, claimed, Callers, Verdicts
    <2>4. Guarded(c)'
      BY <1>3, <1>10, NamesAssumption DEF Keeping, Guarded, AtStake, Commits, Sound, Wired,
         Judged, Placed, Manned, MTyped, ChunkAccepted, Awaits, Answers, Leaves, taskLeaves,
         store, claimed, Callers, Early
    <2> QED BY <1>2, <1>3, <1>10, <2>2, <2>3, <2>4, OneCallKeeps
  <1> QED BY <1>9, <1>10

LEMMA CommitWrittenStep ==
  ASSUME MInv, NEW c \in Claims, CommitWritten(c)
  PROVE  MInv' /\ (Keeping => Keeping')
  <1>1. MTyped'
    BY DropAssumption, NamesAssumption DEF MInv, MTyped, CommitWritten, taskLeaves, store,
       claimed, Callers, Awaited, Jobs, Verdicts, Wires, MarkSpent
  <1>2. \A e \in Claims \ {c} : Same(e)
    BY DEF MInv, MTyped, CommitWritten, Same, taskLeaves, store, claimed, Callers
  <1>3. BrokerKeeps(c) /\ MTyped /\ Sound(c)
    BY BrokerRests DEF MInv, CommitWritten, taskLeaves, Sound
  <1>4. Wired(c)'
    BY <1>3, NamesAssumption DEF MTyped, CommitWritten, taskLeaves, store, claimed, Callers,
       Sound, Wired, Judged, Placed, Manned, Commits, Early
  <1>5. Judged(c)'
    BY <1>3, NamesAssumption DEF MTyped, CommitWritten, taskLeaves, store, claimed, Callers,
       Sound, Wired, Judged, Manned, Commits, Early, Late, RetrySafe, MarkSpent, Verdicts, Jobs
  <1>6. Placed(c)'
    BY <1>3, NamesAssumption DEF MTyped, CommitWritten, taskLeaves, store, claimed, Callers,
       Sound, Placed, Manned, Early
  <1>7. Manned(c)'
    BY <1>3, NamesAssumption DEF MTyped, CommitWritten, taskLeaves, store, claimed, Callers,
       Sound, Placed, Manned, AwaitsSomebody, Early, Jobs, Verdicts
  <1>8. SpentIsGone'
    BY <1>3, DropAssumption, NamesAssumption DEF MInv, MTyped, CommitWritten, taskLeaves,
       SpentIsGone, Sound, Wired, Judged, Manned, Commits, Booked, Early, RetrySafe, MarkSpent,
       Verdicts
  <1>9. MInv'
    BY <1>1, <1>2, <1>3, <1>4, <1>5, <1>6, <1>7, <1>8, OneCall DEF Sound
  <1>10. ASSUME Keeping PROVE Keeping'
    <2>1. Begun(c)' => started
      BY <1>3, <1>10 DEF Keeping, Latched, Begun, Sound, Manned, MTyped, CommitWritten,
         taskLeaves, store, claimed, Callers, Awaited
    <2>2. Latched'
      BY <1>2, <1>10, <2>1, LatchRests DEF Keeping, CommitWritten, taskLeaves, store
    <2>3. Kept(c)'
      BY <1>3, <1>10, NamesAssumption DEF Keeping, Kept, Sound, Manned, MTyped, CommitWritten,
         taskLeaves, store, claimed, Callers, Verdicts
    <2>4. Guarded(c)'
      BY <1>3, <1>10, NamesAssumption DEF Keeping, Guarded, AtStake, Commits, Sound, Wired,
         Judged, Placed, Manned, MTyped, CommitWritten, taskLeaves, store, claimed, Callers, Early
    <2> QED BY <1>2, <1>3, <1>10, <2>2, <2>3, <2>4, OneCallKeeps
  <1> QED BY <1>9, <1>10

LEMMA RefusedStep ==
  ASSUME MInv, NEW c \in Claims, Refused(c)
  PROVE  MInv' /\ (Keeping => Keeping')
  <1>1. MTyped'
    BY DropAssumption, NamesAssumption DEF MInv, MTyped, Refused, Awaits, Answers, Leaves,
       taskLeaves, store, claimed, Callers, Awaited, Jobs, Verdicts, Wires, MarkSpent
  <1>2. \A e \in Claims \ {c} : Same(e)
    BY DEF MInv, MTyped, Refused, Awaits, Answers, Leaves, Same, taskLeaves, store, claimed, Callers
  <1>3. BrokerKeeps(c) /\ MTyped /\ Sound(c)
    BY BrokerRests DEF MInv, Refused, taskLeaves, Sound
  <1>4. Wired(c)'
    BY <1>3, NamesAssumption DEF MTyped, Refused, Awaits, Answers, Leaves, taskLeaves, store,
       claimed, Callers, Sound, Wired, Judged, Placed, Manned, Commits, Early
  <1>5. Judged(c)'
    BY <1>3, NamesAssumption DEF MTyped, Refused, Awaits, Answers, Leaves, taskLeaves, store,
       claimed, Callers, Sound, Wired, Judged, Manned, Commits, Early, Late, RetrySafe, MarkSpent,
       Verdicts, Jobs
  <1>6. Placed(c)'
    BY <1>3, NamesAssumption DEF MTyped, Refused, Awaits, Answers, Leaves, taskLeaves, store,
       claimed, Callers, Sound, Placed, Manned, Early
  <1>7. Manned(c)'
    BY <1>3, NamesAssumption DEF MTyped, Refused, Awaits, Answers, Leaves, taskLeaves, store,
       claimed, Callers, Sound, Placed, Manned, AwaitsSomebody, Early, Jobs, Verdicts
  <1>8. SpentIsGone'
    BY <1>3, DropAssumption, NamesAssumption DEF MInv, MTyped, Refused, Awaits, Answers, Leaves,
       taskLeaves, SpentIsGone, Sound, Wired, Judged, Manned, Commits, Booked, Early, RetrySafe,
       MarkSpent, Verdicts
  <1>9. MInv'
    BY <1>1, <1>2, <1>3, <1>4, <1>5, <1>6, <1>7, <1>8, OneCall DEF Sound
  <1>10. ASSUME Keeping PROVE Keeping'
    <2>1. Begun(c)' => started
      BY <1>3, <1>10 DEF Keeping, Latched, Begun, Sound, Manned, MTyped, Refused, Awaits, Answers,
         Leaves, taskLeaves, store, claimed, Callers, Awaited
    <2>2. Latched'
      BY <1>2, <1>10, <2>1, LatchRests DEF Keeping, Refused, Awaits, Answers, Leaves, taskLeaves,
         store
    <2>3. Kept(c)'
      BY <1>3, <1>10, NamesAssumption DEF Keeping, Kept, Sound, Manned, MTyped, Refused, Awaits,
         Answers, Leaves, taskLeaves, store, claimed, Callers, Verdicts
    <2>4. Guarded(c)'
      BY <1>3, <1>10, NamesAssumption DEF Keeping, Guarded, AtStake, Commits, Sound, Wired,
         Judged, Placed, Manned, MTyped, Refused, Awaits, Answers, Leaves, taskLeaves, store,
         claimed, Callers, Early
    <2> QED BY <1>2, <1>3, <1>10, <2>2, <2>3, <2>4, OneCallKeeps
  <1> QED BY <1>9, <1>10

LEMMA CommitAnsweredStep ==
  ASSUME MInv, NEW c \in Claims, CommitAnswered(c)
  PROVE  MInv' /\ (Keeping => Keeping')
  <1>1. MTyped'
    BY DropAssumption, NamesAssumption DEF MInv, MTyped, CommitAnswered, Awaits, taskLeaves,
       store, claimed, Callers, Awaited, Jobs, Verdicts, Wires, MarkSpent
  <1>2. \A e \in Claims \ {c} : Same(e)
    BY DEF MInv, MTyped, CommitAnswered, Awaits, Same, taskLeaves, store, claimed, Callers
  <1>3. BrokerKeeps(c) /\ MTyped /\ Sound(c)
    BY BrokerRests DEF MInv, CommitAnswered, taskLeaves, Sound
  <1>4. Wired(c)'
    BY <1>3, NamesAssumption DEF MTyped, CommitAnswered, Awaits, taskLeaves, store, claimed,
       Callers, Sound, Wired, Judged, Placed, Manned, Commits, Early
  <1>5. Judged(c)'
    BY <1>3, NamesAssumption DEF MTyped, CommitAnswered, Awaits, taskLeaves, store, claimed,
       Callers, Sound, Wired, Judged, Manned, Commits, Early, Late, RetrySafe, MarkSpent,
       Verdicts, Jobs
  <1>6. Placed(c)'
    BY <1>3, NamesAssumption DEF MTyped, CommitAnswered, Awaits, taskLeaves, store, claimed,
       Callers, Sound, Placed, Manned, Early
  <1>7. Manned(c)'
    <2>1. /\ at'[c] = "publish"
          /\ jobs'[c] = jobs[c] \cup {"publish"} /\ out'[c] = None /\ dir' = dir /\ cutAt' = cutAt
      BY <1>3 DEF MTyped, CommitAnswered, Awaits, taskLeaves, claimed, Callers
    <2>2. at[c] = "receive"
      BY DEF CommitAnswered
    <2> QED BY <1>3, <2>1, <2>2, NamesAssumption DEF Sound, Placed, Manned, AwaitsSomebody, Early,
               Verdicts, Jobs
  <1>8. SpentIsGone'
    BY <1>3, DropAssumption, NamesAssumption DEF MInv, MTyped, CommitAnswered, Awaits, taskLeaves,
       SpentIsGone, Sound, Wired, Judged, Manned, Commits, Booked, Early, RetrySafe, MarkSpent,
       Verdicts
  <1>9. MInv'
    BY <1>1, <1>2, <1>3, <1>4, <1>5, <1>6, <1>7, <1>8, OneCall DEF Sound
  <1>10. ASSUME Keeping PROVE Keeping'
    <2>1. Begun(c)' => started
      BY <1>3, <1>10 DEF Keeping, Latched, Begun, Sound, Manned, MTyped, CommitAnswered, Awaits,
         taskLeaves, store, claimed, Callers, Awaited
    <2>2. Latched'
      BY <1>2, <1>10, <2>1, LatchRests DEF Keeping, CommitAnswered, Awaits, taskLeaves, store
    <2>3. Kept(c)'
      BY <1>3, <1>10, NamesAssumption DEF Keeping, Kept, Sound, Manned, MTyped, CommitAnswered,
         Awaits, taskLeaves, store, claimed, Callers, Verdicts
    <2>4. Guarded(c)'
      BY <1>3, <1>10, NamesAssumption DEF Keeping, Guarded, AtStake, Commits, Sound, Wired,
         Judged, Placed, Manned, MTyped, CommitAnswered, Awaits, taskLeaves, store, claimed,
         Callers, Early
    <2> QED BY <1>2, <1>3, <1>10, <2>2, <2>3, <2>4, OneCallKeeps
  <1> QED BY <1>9, <1>10

LEMMA TimedOutStep ==
  ASSUME MInv, NEW c \in Claims, TimedOut(c)
  PROVE  MInv' /\ (Keeping => Keeping')
  <1>1. MTyped'
    BY DropAssumption, NamesAssumption DEF MInv, MTyped, TimedOut, Broken, HoldsFor, Awaits,
       Answers, Leaves, taskLeaves, store, claimed, Callers, Awaited, Jobs, Verdicts, Wires,
       MarkSpent
  <1>2. \A e \in Claims \ {c} : Same(e)
    BY DEF MInv, MTyped, TimedOut, Broken, HoldsFor, Awaits, Answers, Leaves, Same, taskLeaves,
       store, claimed, Callers
  <1>3. BrokerKeeps(c) /\ MTyped /\ Sound(c)
    BY BrokerRests DEF MInv, TimedOut, taskLeaves, Sound
  <1>4. Wired(c)'
    BY <1>3, NamesAssumption DEF MTyped, TimedOut, Broken, HoldsFor, Awaits, Answers, Leaves,
       taskLeaves, store, claimed, Callers, Sound, Wired, Judged, Placed, Manned, Commits, Early
  <1>5. Judged(c)'
    BY <1>3, NamesAssumption DEF MTyped, TimedOut, Broken, HoldsFor, Awaits, Answers, Leaves,
       taskLeaves, store, claimed, Callers, Sound, Wired, Judged, Manned, Commits, Early, Late,
       RetrySafe, MarkSpent, Verdicts, Jobs
  <1>6. Placed(c)'
    BY <1>3, NamesAssumption DEF MTyped, TimedOut, Broken, HoldsFor, Awaits, Answers, Leaves,
       taskLeaves, store, claimed, Callers, Sound, Placed, Manned, Early
  <1>7. Manned(c)'
    BY <1>3, NamesAssumption DEF MTyped, TimedOut, Broken, HoldsFor, Awaits, Answers, Leaves,
       taskLeaves, store, claimed, Callers, Sound, Placed, Manned, AwaitsSomebody, Early, Jobs,
       Verdicts
  <1>8. SpentIsGone'
    BY <1>3, DropAssumption, NamesAssumption DEF MInv, MTyped, TimedOut, Broken, HoldsFor, Awaits,
       Answers, Leaves, taskLeaves, SpentIsGone, Sound, Wired, Judged, Manned, Commits, Booked,
       Early, RetrySafe, MarkSpent, Verdicts
  <1>9. MInv'
    BY <1>1, <1>2, <1>3, <1>4, <1>5, <1>6, <1>7, <1>8, OneCall DEF Sound
  <1>10. ASSUME Keeping PROVE Keeping'
    <2>1. Begun(c)' => started
      BY <1>3, <1>10 DEF Keeping, Latched, Begun, Sound, Manned, MTyped, TimedOut, Broken,
         HoldsFor, Awaits, Answers, Leaves, taskLeaves, store, claimed, Callers, Awaited
    <2>2. Latched'
      BY <1>2, <1>10, <2>1, LatchRests DEF Keeping, TimedOut, Broken, HoldsFor, Awaits, Answers,
         Leaves, taskLeaves, store
    <2>3. Kept(c)'
      BY <1>3, <1>10, NamesAssumption DEF Keeping, Kept, Sound, Manned, MTyped, TimedOut, Broken,
         HoldsFor, Awaits, Answers, Leaves, taskLeaves, store, claimed, Callers, Verdicts
    <2>4. Guarded(c)'
      BY <1>3, <1>10, NamesAssumption DEF Keeping, Guarded, AtStake, Commits, Sound, Wired,
         Judged, Placed, Manned, MTyped, TimedOut, Broken, HoldsFor, Awaits, Answers, Leaves,
         taskLeaves, store, claimed, Callers, Early
    <2> QED BY <1>2, <1>3, <1>10, <2>2, <2>3, <2>4, OneCallKeeps
  <1> QED BY <1>9, <1>10

LEMMA ConnectionLostStep ==
  ASSUME MInv, NEW c \in Claims, ConnectionLost(c)
  PROVE  MInv' /\ (Keeping => Keeping')
  <1>1. MTyped'
    BY DropAssumption, NamesAssumption DEF MInv, MTyped, ConnectionLost, Broken, HoldsFor, Awaits,
       Answers, Leaves, taskLeaves, store, claimed, Callers, Awaited, Jobs, Verdicts, Wires,
       MarkSpent
  <1>2. \A e \in Claims \ {c} : Same(e)
    BY DEF MInv, MTyped, ConnectionLost, Broken, HoldsFor, Awaits, Answers, Leaves, Same,
       taskLeaves, store, claimed, Callers
  <1>3. BrokerKeeps(c) /\ MTyped /\ Sound(c)
    BY BrokerRests DEF MInv, ConnectionLost, taskLeaves, Sound
  <1>4. Wired(c)'
    BY <1>3, NamesAssumption DEF MTyped, ConnectionLost, Broken, HoldsFor, Awaits, Answers,
       Leaves, taskLeaves, store, claimed, Callers, Sound, Wired, Judged, Placed, Manned, Commits,
       Early
  <1>5. Judged(c)'
    BY <1>3, NamesAssumption DEF MTyped, ConnectionLost, Broken, HoldsFor, Awaits, Answers,
       Leaves, taskLeaves, store, claimed, Callers, Sound, Wired, Judged, Manned, Commits, Early,
       Late, RetrySafe, MarkSpent, Verdicts, Jobs
  <1>6. Placed(c)'
    BY <1>3, NamesAssumption DEF MTyped, ConnectionLost, Broken, HoldsFor, Awaits, Answers,
       Leaves, taskLeaves, store, claimed, Callers, Sound, Placed, Manned, Early
  <1>7. Manned(c)'
    BY <1>3, NamesAssumption DEF MTyped, ConnectionLost, Broken, HoldsFor, Awaits, Answers,
       Leaves, taskLeaves, store, claimed, Callers, Sound, Placed, Manned, AwaitsSomebody, Early,
       Jobs, Verdicts
  <1>8. SpentIsGone'
    BY <1>3, DropAssumption, NamesAssumption DEF MInv, MTyped, ConnectionLost, Broken, HoldsFor,
       Awaits, Answers, Leaves, taskLeaves, SpentIsGone, Sound, Wired, Judged, Manned, Commits,
       Booked, Early, RetrySafe, MarkSpent, Verdicts
  <1>9. MInv'
    BY <1>1, <1>2, <1>3, <1>4, <1>5, <1>6, <1>7, <1>8, OneCall DEF Sound
  <1>10. ASSUME Keeping PROVE Keeping'
    <2>1. Begun(c)' => started
      BY <1>3, <1>10 DEF Keeping, Latched, Begun, Sound, Manned, MTyped, ConnectionLost, Broken,
         HoldsFor, Awaits, Answers, Leaves, taskLeaves, store, claimed, Callers, Awaited
    <2>2. Latched'
      BY <1>2, <1>10, <2>1, LatchRests DEF Keeping, ConnectionLost, Broken, HoldsFor, Awaits,
         Answers, Leaves, taskLeaves, store
    <2>3. Kept(c)'
      BY <1>3, <1>10, NamesAssumption DEF Keeping, Kept, Sound, Manned, MTyped, ConnectionLost,
         Broken, HoldsFor, Awaits, Answers, Leaves, taskLeaves, store, claimed, Callers, Verdicts
    <2>4. Guarded(c)'
      BY <1>3, <1>10, NamesAssumption DEF Keeping, Guarded, AtStake, Commits, Sound, Wired,
         Judged, Placed, Manned, MTyped, ConnectionLost, Broken, HoldsFor, Awaits, Answers,
         Leaves, taskLeaves, store, claimed, Callers, Early
    <2> QED BY <1>2, <1>3, <1>10, <2>2, <2>3, <2>4, OneCallKeeps
  <1> QED BY <1>9, <1>10

LEMMA ReceiverRaisesStep ==
  ASSUME MInv, NEW c \in Claims, ReceiverRaises(c)
  PROVE  MInv' /\ (Keeping => Keeping')
  <1>1. MTyped'
    BY DropAssumption, NamesAssumption DEF MInv, MTyped, ReceiverRaises, HoldsFor, Awaits,
       taskLeaves, store, claimed, Callers, Awaited, Jobs, Verdicts, Wires, MarkSpent
  <1>2. \A e \in Claims \ {c} : Same(e)
    BY DEF MInv, MTyped, ReceiverRaises, HoldsFor, Awaits, Same, taskLeaves, store, claimed, Callers
  <1>3. BrokerKeeps(c) /\ MTyped /\ Sound(c)
    BY BrokerRests DEF MInv, ReceiverRaises, taskLeaves, Sound
  <1>4. Wired(c)'
    BY <1>3, NamesAssumption DEF MTyped, ReceiverRaises, HoldsFor, Awaits, taskLeaves, store,
       claimed, Callers, Sound, Wired, Judged, Placed, Manned, Commits, Early
  <1>5. Judged(c)'
    BY <1>3, NamesAssumption DEF MTyped, ReceiverRaises, HoldsFor, Awaits, taskLeaves, store,
       claimed, Callers, Sound, Wired, Judged, Manned, Commits, Early, Late, RetrySafe, MarkSpent,
       Verdicts, Jobs
  <1>6. Placed(c)'
    BY <1>3, NamesAssumption DEF MTyped, ReceiverRaises, HoldsFor, Awaits, taskLeaves, store,
       claimed, Callers, Sound, Placed, Manned, Early
  <1>7. Manned(c)'
    BY <1>3, NamesAssumption DEF MTyped, ReceiverRaises, HoldsFor, Awaits, taskLeaves, store,
       claimed, Callers, Sound, Placed, Manned, AwaitsSomebody, Early, Jobs, Verdicts
  <1>8. SpentIsGone'
    BY <1>3, DropAssumption, NamesAssumption DEF MInv, MTyped, ReceiverRaises, HoldsFor, Awaits,
       taskLeaves, SpentIsGone, Sound, Wired, Judged, Manned, Commits, Booked, Early, RetrySafe,
       MarkSpent, Verdicts
  <1>9. MInv'
    BY <1>1, <1>2, <1>3, <1>4, <1>5, <1>6, <1>7, <1>8, OneCall DEF Sound
  <1>10. ASSUME Keeping PROVE Keeping'
    <2>1. Begun(c)' => started
      BY <1>3, <1>10 DEF Keeping, Latched, Begun, Sound, Manned, MTyped, ReceiverRaises, HoldsFor,
         Awaits, taskLeaves, store, claimed, Callers, Awaited
    <2>2. Latched'
      BY <1>2, <1>10, <2>1, LatchRests DEF Keeping, ReceiverRaises, HoldsFor, Awaits, taskLeaves,
         store
    <2>3. Kept(c)'
      BY <1>3, <1>10, NamesAssumption DEF Keeping, Kept, Sound, Manned, MTyped, ReceiverRaises,
         HoldsFor, Awaits, taskLeaves, store, claimed, Callers, Verdicts
    <2>4. Guarded(c)'
      BY <1>3, <1>10, NamesAssumption DEF Keeping, Guarded, AtStake, Commits, Sound, Wired,
         Judged, Placed, Manned, MTyped, ReceiverRaises, HoldsFor, Awaits, taskLeaves, store,
         claimed, Callers, Early
    <2> QED BY <1>2, <1>3, <1>10, <2>2, <2>3, <2>4, OneCallKeeps
  <1> QED BY <1>9, <1>10

LEMMA PublishAnsweredStep ==
  ASSUME MInv, NEW c \in Claims, PublishAnswered(c)
  PROVE  MInv' /\ (Keeping => Keeping')
  <1>1. MTyped'
    BY DropAssumption, NamesAssumption DEF MInv, MTyped, PublishAnswered, HoldsFor, Awaits,
       Answers, Leaves, taskLeaves, store, claimed, Callers, Awaited, Jobs, Verdicts, Wires,
       MarkSpent
  <1>2. \A e \in Claims \ {c} : Same(e)
    BY DEF MInv, MTyped, PublishAnswered, HoldsFor, Awaits, Answers, Leaves, Same, taskLeaves,
       store, claimed, Callers
  <1>3. BrokerKeeps(c) /\ MTyped /\ Sound(c)
    BY BrokerRests DEF MInv, PublishAnswered, taskLeaves, Sound
  <1>4. Commits(c) => held[DropOf[c]] # "held"
    BY DropAssumption, SlotAssumption DEF MInv, Booked, Commits
  <1>5. Wired(c)'
    BY <1>3, NamesAssumption DEF MTyped, PublishAnswered, HoldsFor, Awaits, Answers, Leaves,
       taskLeaves, store, claimed, Callers, Sound, Wired, Judged, Placed, Manned, Commits, Early
  <1>6. Judged(c)'
    BY <1>3, <1>4, NamesAssumption DEF MTyped, PublishAnswered, HoldsFor, Awaits, Answers, Leaves,
       taskLeaves, store, claimed, Callers, Sound, Wired, Judged, Manned, Commits, Early, Late,
       RetrySafe, MarkSpent, Verdicts, Jobs
  <1>7. Placed(c)'
    BY <1>3, NamesAssumption DEF MTyped, PublishAnswered, HoldsFor, Awaits, Answers, Leaves,
       taskLeaves, store, claimed, Callers, Sound, Placed, Manned, Early
  <1>8. Manned(c)'
    BY <1>3, NamesAssumption DEF MTyped, PublishAnswered, HoldsFor, Awaits, Answers, Leaves,
       taskLeaves, store, claimed, Callers, Sound, Placed, Manned, AwaitsSomebody, Early, Jobs,
       Verdicts
  <1>9. SpentIsGone'
    BY <1>3, <1>4, DropAssumption, NamesAssumption DEF MInv, MTyped, PublishAnswered, HoldsFor,
       Awaits, Answers, Leaves, taskLeaves, SpentIsGone, Sound, Wired, Judged, Manned, Commits,
       Booked, Early, RetrySafe, MarkSpent, Verdicts
  <1>10. MInv'
    BY <1>1, <1>2, <1>3, <1>5, <1>6, <1>7, <1>8, <1>9, OneCall DEF Sound
  <1>11. ASSUME Keeping PROVE Keeping'
    <2>1. Begun(c)' => started
      BY <1>3, <1>11 DEF Keeping, Latched, Begun, Sound, Manned, MTyped, PublishAnswered,
         HoldsFor, Awaits, Answers, Leaves, taskLeaves, store, claimed, Callers, Awaited
    <2>2. Latched'
      BY <1>2, <1>11, <2>1, LatchRests DEF Keeping, PublishAnswered, HoldsFor, Awaits, Answers,
         Leaves, taskLeaves, store
    <2>3. Kept(c)'
      BY <1>3, <1>11, NamesAssumption DEF Keeping, Kept, Sound, Manned, MTyped, PublishAnswered,
         HoldsFor, Awaits, Answers, Leaves, taskLeaves, store, claimed, Callers, Verdicts
    <2>4. Guarded(c)'
      BY <1>3, <1>11, NamesAssumption DEF Keeping, Guarded, AtStake, Commits, Sound, Wired,
         Judged, Placed, Manned, MTyped, PublishAnswered, HoldsFor, Awaits, Answers, Leaves,
         taskLeaves, store, claimed, Callers, Early
    <2> QED BY <1>2, <1>3, <1>11, <2>2, <2>3, <2>4, OneCallKeeps
  <1> QED BY <1>10, <1>11

LEMMA HoldAnsweredStep ==
  ASSUME MInv, NEW c \in Claims, HoldAnswered(c)
  PROVE  MInv' /\ (Keeping => Keeping')
  <1>1. MTyped'
    BY DropAssumption, NamesAssumption DEF MInv, MTyped, HoldAnswered, Awaits, Answers, Leaves,
       taskLeaves, store, claimed, Callers, Awaited, Jobs, Verdicts, Wires, MarkSpent
  <1>2. \A e \in Claims \ {c} : Same(e)
    BY DEF MInv, MTyped, HoldAnswered, Awaits, Answers, Leaves, Same, taskLeaves, store, claimed,
       Callers
  <1>3. BrokerKeeps(c) /\ MTyped /\ Sound(c)
    BY BrokerRests DEF MInv, HoldAnswered, taskLeaves, Sound
  <1>4. Wired(c)'
    BY <1>3, NamesAssumption DEF MTyped, HoldAnswered, Awaits, Answers, Leaves, taskLeaves, store,
       claimed, Callers, Sound, Wired, Judged, Placed, Manned, Commits, Early
  <1>5. Judged(c)'
    BY <1>3, NamesAssumption DEF MTyped, HoldAnswered, Awaits, Answers, Leaves, taskLeaves, store,
       claimed, Callers, Sound, Wired, Judged, Manned, Commits, Early, Late, RetrySafe, MarkSpent,
       Verdicts, Jobs
  <1>6. Placed(c)'
    BY <1>3, NamesAssumption DEF MTyped, HoldAnswered, Awaits, Answers, Leaves, taskLeaves, store,
       claimed, Callers, Sound, Placed, Manned, Early
  <1>7. Manned(c)'
    BY <1>3, NamesAssumption DEF MTyped, HoldAnswered, Awaits, Answers, Leaves, taskLeaves, store,
       claimed, Callers, Sound, Placed, Manned, AwaitsSomebody, Early, Jobs, Verdicts
  <1>8. SpentIsGone'
    BY <1>3, DropAssumption, NamesAssumption DEF MInv, MTyped, HoldAnswered, Awaits, Answers,
       Leaves, taskLeaves, SpentIsGone, Sound, Wired, Judged, Manned, Commits, Booked, Early,
       RetrySafe, MarkSpent, Verdicts
  <1>9. MInv'
    BY <1>1, <1>2, <1>3, <1>4, <1>5, <1>6, <1>7, <1>8, OneCall DEF Sound
  <1>10. ASSUME Keeping PROVE Keeping'
    <2>1. Begun(c)' => started
      BY <1>3, <1>10 DEF Keeping, Latched, Begun, Sound, Manned, MTyped, HoldAnswered, Awaits,
         Answers, Leaves, taskLeaves, store, claimed, Callers, Awaited
    <2>2. Latched'
      BY <1>2, <1>10, <2>1, LatchRests DEF Keeping, HoldAnswered, Awaits, Answers, Leaves,
         taskLeaves, store
    <2>3. Kept(c)'
      BY <1>3, <1>10, NamesAssumption DEF Keeping, Kept, Sound, Manned, MTyped, HoldAnswered,
         Awaits, Answers, Leaves, taskLeaves, store, claimed, Callers, Verdicts
    <2>4. Guarded(c)'
      BY <1>3, <1>10, NamesAssumption DEF Keeping, Guarded, AtStake, Commits, Sound, Wired,
         Judged, Placed, Manned, MTyped, HoldAnswered, Awaits, Answers, Leaves, taskLeaves, store,
         claimed, Callers, Early
    <2> QED BY <1>2, <1>3, <1>10, <2>2, <2>3, <2>4, OneCallKeeps
  <1> QED BY <1>9, <1>10

LEMMA DiscardAnsweredStep ==
  ASSUME MInv, NEW c \in Claims, DiscardAnswered(c)
  PROVE  MInv' /\ (Keeping => Keeping')
  <1>1. MTyped'
    BY DropAssumption, NamesAssumption DEF MInv, MTyped, DiscardAnswered, Answers, taskLeaves,
       store, claimed, Callers, Awaited, Jobs, Verdicts, Wires, MarkSpent
  <1>2. \A e \in Claims \ {c} : Same(e)
    BY DEF MInv, MTyped, DiscardAnswered, Answers, Same, taskLeaves, store, claimed, Callers
  <1>3. BrokerKeeps(c) /\ MTyped /\ Sound(c)
    BY BrokerRests DEF MInv, DiscardAnswered, taskLeaves, Sound
  <1>4. Wired(c)'
    BY <1>3, NamesAssumption DEF MTyped, DiscardAnswered, Answers, taskLeaves, store, claimed,
       Callers, Sound, Wired, Judged, Placed, Manned, Commits, Early
  <1>5. Judged(c)'
    BY <1>3, NamesAssumption DEF MTyped, DiscardAnswered, Answers, taskLeaves, store, claimed,
       Callers, Sound, Wired, Judged, Manned, Commits, Early, Late, RetrySafe, MarkSpent,
       Verdicts, Jobs
  <1>6. Placed(c)'
    BY <1>3, NamesAssumption DEF MTyped, DiscardAnswered, Answers, taskLeaves, store, claimed,
       Callers, Sound, Placed, Manned, Early
  <1>7. Manned(c)'
    BY <1>3, NamesAssumption DEF MTyped, DiscardAnswered, Answers, taskLeaves, store, claimed,
       Callers, Sound, Placed, Manned, AwaitsSomebody, Early, Jobs, Verdicts
  <1>8. SpentIsGone'
    BY <1>3, DropAssumption, NamesAssumption DEF MInv, MTyped, DiscardAnswered, Answers,
       taskLeaves, SpentIsGone, Sound, Wired, Judged, Manned, Commits, Booked, Early, RetrySafe,
       MarkSpent, Verdicts
  <1>9. MInv'
    BY <1>1, <1>2, <1>3, <1>4, <1>5, <1>6, <1>7, <1>8, OneCall DEF Sound
  <1>10. ASSUME Keeping PROVE Keeping'
    <2>1. Begun(c)' => started
      BY <1>3, <1>10 DEF Keeping, Latched, Begun, Sound, Manned, MTyped, DiscardAnswered, Answers,
         taskLeaves, store, claimed, Callers, Awaited
    <2>2. Latched'
      BY <1>2, <1>10, <2>1, LatchRests DEF Keeping, DiscardAnswered, Answers, taskLeaves, store
    <2>3. Kept(c)'
      BY <1>3, <1>10, NamesAssumption DEF Keeping, Kept, Sound, Manned, MTyped, DiscardAnswered,
         Answers, taskLeaves, store, claimed, Callers, Verdicts
    <2>4. Guarded(c)'
      BY <1>3, <1>10, NamesAssumption DEF Keeping, Guarded, AtStake, Commits, Sound, Wired,
         Judged, Placed, Manned, MTyped, DiscardAnswered, Answers, taskLeaves, store, claimed,
         Callers, Early
    <2> QED BY <1>2, <1>3, <1>10, <2>2, <2>3, <2>4, OneCallKeeps
  <1> QED BY <1>9, <1>10

-----------------------------------------------------------------------------
(* The broker's steps *)

\* Nothing of the gateway changes with them.
LEMMA GatewayRests ==
  ASSUME Keeping, brokerLeaves' = brokerLeaves,
         \A e \in Claims : AtStake(e)' => AtStake(e)
  PROVE  Keeping'
  <1>1. Latched'
    BY DEF Keeping, Latched, Begun, brokerLeaves, spoolVars, store, proc
  <1>2. ASSUME NEW e \in Claims PROVE Kept(e)' /\ Guarded(e)'
    BY DEF Keeping, Kept, Guarded, brokerLeaves, spoolVars, store, proc, task
  <1> QED BY <1>1, <1>2 DEF Keeping

LEMMA BrokerBeginsStep ==
  ASSUME MInv, NEW c \in Claims, BrokerBegins(c)
  PROVE  MInv' /\ (Keeping => Keeping')
  <1>1. DropOf[c] \in Drops /\ MTyped /\ Sound(c)
    BY DropAssumption DEF MInv, Sound
  <1>2. MTyped'
    BY <1>1 DEF MTyped, BrokerBegins, brokerLeaves, spoolVars, store, proc, task, Wires
  <1>3. BrokerKeeps(c) /\ SpentIsGone'
    BY <1>1 DEF MInv, MTyped, Booked, BrokerKeeps, Commits, BrokerBegins, brokerLeaves, SpentIsGone
  <1>4. \A e \in Claims \ {c} : Same(e)
    BY <1>1 DEF MTyped, BrokerBegins, brokerLeaves, spoolVars, store, proc, task, Same
  <1>5. Sound(c)'
    BY NamesAssumption, <1>1 DEF MTyped, BrokerBegins, brokerLeaves, spoolVars, store, proc, task,
       Sound, Wired, Judged, Placed, Manned, AwaitsSomebody, Commits, Jobs, Verdicts
  <1>6. MInv'
    BY <1>3, <1>2, <1>4, <1>5, OneCall
  <1>7. \A e \in Claims : AtStake(e)' => AtStake(e)
    BY <1>1 DEF MTyped, BrokerBegins, AtStake, Commits
  <1> QED BY <1>6, <1>7, GatewayRests DEF BrokerBegins

LEMMA BrokerCommitsStep ==
  ASSUME MInv, NEW c \in Claims, BrokerCommits(c)
  PROVE  MInv' /\ (Keeping => Keeping')
  <1>1. DropOf[c] \in Drops /\ MTyped /\ Booked /\ Sound(c)
    BY DropAssumption DEF MInv, Sound
  <1>2. MTyped'
    BY <1>1 DEF MTyped, BrokerCommits, brokerLeaves, spoolVars, store, proc, task, Wires
  <1>3. lease[DropOf[c]] = c => held[DropOf[c]] = "held" /\ retiredBy[DropOf[c]] = None
    BY <1>1, SlotAssumption DEF Booked
  <1>4. BrokerKeeps(c)
    <2>1. Booked'
      BY <1>1, <1>3 DEF MTyped, Booked, BrokerCommits
    <2>2. \A d \in Drops : held[d] # "held" => held'[d] # "held"
      BY <1>1 DEF MTyped, BrokerCommits
    <2>3. ASSUME NEW e \in Claims \ {c} PROVE Commits(e)' <=> Commits(e)
      <3>1. CASE lease[DropOf[c]] # c
        BY <3>1 DEF Commits, BrokerCommits
      <3>2. CASE lease[DropOf[c]] = c
        <4>1. retiredBy' = [retiredBy EXCEPT ![DropOf[c]] = c] /\ e # None /\ e # c
          BY <3>2, SlotAssumption DEF BrokerCommits
        <4>2. CASE DropOf[e] = DropOf[c]
          BY <1>1, <1>3, <3>2, <4>1, <4>2 DEF MTyped, Commits
        <4>3. CASE DropOf[e] # DropOf[c]
          BY <1>1, <4>1, <4>3 DEF MTyped, Commits
        <4> QED BY <4>2, <4>3
      <3> QED BY <3>1, <3>2
    <2> QED BY <2>1, <2>2, <2>3 DEF BrokerKeeps
  <1>5. SpentIsGone'
    BY <1>1 DEF MInv, MTyped, BrokerCommits, brokerLeaves, SpentIsGone
  <1>6. \A e \in Claims \ {c} : Same(e)
    BY <1>1 DEF MTyped, BrokerCommits, brokerLeaves, spoolVars, store, proc, task, Same
  <1>7. Sound(c)'
    BY NamesAssumption, <1>1 DEF MTyped, BrokerCommits, brokerLeaves, spoolVars, store, proc,
       task, Sound, Wired, Judged, Placed, Manned, AwaitsSomebody, Commits, Jobs, Verdicts
  <1>8. MInv'
    BY <1>2, <1>4, <1>5, <1>6, <1>7, OneCall
  <1>9. \A e \in Claims : AtStake(e)' => AtStake(e)
    BY <1>1, <1>4, <1>6 DEF MTyped, BrokerCommits, BrokerKeeps, Same, AtStake
  <1> QED BY <1>8, <1>9, GatewayRests DEF BrokerCommits

LEMMA LeaseEndsStep ==
  ASSUME MInv, NEW c \in Claims, LeaseEnds(c)
  PROVE  MInv' /\ (Keeping => Keeping')
  <1>1. DropOf[c] \in Drops /\ MTyped /\ Sound(c)
    BY DropAssumption DEF MInv, Sound
  <1>2. MTyped'
    BY <1>1 DEF MTyped, LeaseEnds, brokerLeaves, spoolVars, store, proc, task
  <1>3. BrokerKeeps(c) /\ SpentIsGone'
    BY <1>1 DEF MInv, MTyped, Booked, BrokerKeeps, Commits, LeaseEnds, brokerLeaves, SpentIsGone
  <1>4. \A e \in Claims \ {c} : Same(e)
    BY DEF LeaseEnds, brokerLeaves, spoolVars, store, proc, task, Same
  <1>5. Sound(c)'
    BY NamesAssumption, <1>1 DEF LeaseEnds, brokerLeaves, spoolVars, store, proc, task, Sound,
       Wired, Judged, Placed, Manned, AwaitsSomebody, Commits, Jobs, Verdicts
  <1>6. MInv'
    BY <1>3, <1>2, <1>4, <1>5, OneCall
  <1>7. \A e \in Claims : AtStake(e)' => AtStake(e)
    BY DEF LeaseEnds, AtStake, Commits
  <1> QED BY <1>6, <1>7, GatewayRests DEF LeaseEnds

LEMMA HangupStep ==
  ASSUME MInv, NEW c \in Claims, Hangup(c)
  PROVE  MInv' /\ (Keeping => Keeping')
  <1>1. DropOf[c] \in Drops /\ MTyped /\ Sound(c)
    BY DropAssumption DEF MInv, Sound
  <1>2. MTyped'
    BY <1>1 DEF MTyped, Hangup, brokerLeaves, spoolVars, store, proc, task, Wires
  <1>3. BrokerKeeps(c) /\ SpentIsGone'
    BY <1>1 DEF MInv, MTyped, Booked, BrokerKeeps, Commits, Hangup, brokerLeaves, SpentIsGone
  <1>4. \A e \in Claims \ {c} : Same(e)
    BY <1>1 DEF MTyped, Hangup, brokerLeaves, spoolVars, store, proc, task, Same
  <1>5. Sound(c)'
    BY NamesAssumption, <1>1 DEF MTyped, Hangup, brokerLeaves, spoolVars, store, proc, task,
       Sound, Wired, Judged, Placed, Manned, AwaitsSomebody, Commits, Jobs, Verdicts
  <1>6. MInv'
    BY <1>3, <1>2, <1>4, <1>5, OneCall
  <1>7. \A e \in Claims : AtStake(e)' => AtStake(e)
    BY <1>1 DEF MTyped, Hangup, AtStake, Commits
  <1> QED BY <1>6, <1>7, GatewayRests DEF Hangup

LEMMA LapseStep ==
  ASSUME MInv, NEW d \in Drops, Lapse(d)
  PROVE  MInv' /\ (Keeping => Keeping')
  <1>1. MTyped /\ \A e \in Claims : DropOf[e] \in Drops /\ Sound(e)
    BY DropAssumption DEF MInv, Sound
  <1>2. MTyped'
    BY <1>1 DEF MTyped, Lapse, brokerLeaves, spoolVars, store, proc, task
  <1>3. Booked' /\ SpentIsGone' /\ \A x \in Drops : held[x] # "held" => held'[x] # "held"
    BY <1>1 DEF MInv, MTyped, Booked, Lapse, brokerLeaves, SpentIsGone
  <1>4. \A e \in Claims : Same(e) /\ (Commits(e)' <=> Commits(e))
    BY <1>1 DEF Lapse, brokerLeaves, spoolVars, store, proc, task, Same, Commits
  <1>5. \A e \in Claims : Sound(e)'
    BY <1>1, <1>3, <1>4, SameSound
  <1>6. MInv'
    BY <1>2, <1>3, <1>5 DEF MInv, Sound, SpentIsGone
  <1>7. \A e \in Claims : AtStake(e)' => AtStake(e)
    BY <1>4 DEF AtStake, Same
  <1> QED BY <1>6, <1>7, GatewayRests DEF Lapse

-----------------------------------------------------------------------------
(* The workers' steps *)

\* What the spool's threads leave alone.
Besides == UNCHANGED <<task, peer, recorded, former, cutAt>>

LEMMA ReservesStep ==
  ASSUME MInv, NEW c \in Claims, Reserves(c), Besides
  PROVE  MInv' /\ (Keeping => Keeping')
  <1>1. MTyped /\ Sound(c)
    BY DEF MInv, Sound
  <1>2. MTyped'
    BY <1>1 DEF MTyped, Reserves, Ends, Besides, task, peer, store, claimed, Callers, Jobs, Kinds,
       Dirs, Outcomes
  <1>3. \A e \in Claims \ {c} : Same(e)
    BY <1>1 DEF MTyped, Reserves, Ends, Same, Besides, task, peer, store, claimed, Callers
  <1>4. BrokerKeeps(c) /\ SpentIsGone'
    BY BrokerRests DEF MInv, Besides, peer, SpentIsGone
  <1>5. Wired(c)'
    BY <1>1 DEF Reserves, Ends, Besides, task, peer, store, claimed, Callers, Sound, Wired, Commits
  <1>6. Judged(c)'
    BY <1>1 DEF MTyped, Reserves, Ends, Besides, task, peer, store, claimed, Callers, Sound,
       Judged, Commits
  <1>7. Placed(c)'
    BY <1>1 DEF MTyped, Reserves, Ends, Besides, task, peer, store, claimed, Callers, Sound,
       Placed, Manned, Early
  <1>8. Manned(c)'
    BY NamesAssumption, <1>1 DEF MTyped, Reserves, Ends, Besides, task, peer, store, claimed,
       Callers, Sound, Placed, Manned, AwaitsSomebody, Early, Jobs, Verdicts
  <1>9. MInv'
    BY <1>2, <1>3, <1>4, <1>5, <1>6, <1>7, <1>8, OneCall DEF Sound
  <1>10. ASSUME Keeping PROVE Keeping'
    <2>1. (Begun(c)' => started) /\ UNCHANGED <<purging, sweep>> /\ (root => root') /\ (started <=> started')
      BY <1>1, <1>10 DEF Keeping, Latched, Begun, Sound, Manned, MTyped, Reserves, Ends, Besides,
         task, peer, store, claimed, Callers, Awaited
    <2>2. Latched'
      BY <1>3, <1>10, <2>1, LatchRests DEF Keeping
    <2>3. Kept(c)'
      BY <1>1, <1>10 DEF Keeping, Kept, Sound, Placed, Manned, MTyped, Reserves, Ends, Besides,
         task, peer, store, claimed, Callers
    <2>4. Guarded(c)'
      BY <1>1, <1>10 DEF Keeping, Guarded, AtStake, Commits, Sound, Wired, Judged, Placed, Manned,
         MTyped, Reserves, Ends, Besides, task, peer, store, claimed, Callers, Early
    <2> QED BY <1>3, <1>4, <1>10, <2>2, <2>3, <2>4, OneCallKeeps
  <1> QED BY <1>9, <1>10

LEMMA MakesStep ==
  ASSUME MInv, NEW c \in Claims, Makes(c), Besides
  PROVE  MInv' /\ (Keeping => Keeping')
  <1>1. MTyped /\ Sound(c)
    BY DEF MInv, Sound
  <1>2. MTyped'
    BY <1>1 DEF MTyped, Makes, MakingEnds, OpensRoot, SpendsLatch, Besides, task, peer, store,
       claimed, Callers, Jobs, Kinds, Dirs, Outcomes
  <1>3. \A e \in Claims \ {c} : Same(e)
    BY <1>1 DEF MTyped, Makes, MakingEnds, OpensRoot, SpendsLatch, Same, Besides, task, peer,
       store, claimed, Callers
  <1>4. BrokerKeeps(c) /\ SpentIsGone'
    BY BrokerRests DEF MInv, Besides, peer, SpentIsGone
  <1>5. Wired(c)'
    BY <1>1 DEF Makes, MakingEnds, OpensRoot, SpendsLatch, Besides, task, peer, store, claimed,
       Callers, Sound, Wired, Commits
  <1>6. Judged(c)'
    BY <1>1 DEF MTyped, Makes, MakingEnds, OpensRoot, SpendsLatch, Besides, task, peer, store,
       claimed, Callers, Sound, Judged, Commits
  <1>7. Placed(c)'
    BY <1>1 DEF MTyped, Makes, MakingEnds, OpensRoot, SpendsLatch, Besides, task, peer, store,
       claimed, Callers, Sound, Placed, Manned, Early
  <1>8. Manned(c)'
    BY NamesAssumption, <1>1 DEF MTyped, Makes, MakingEnds, OpensRoot, SpendsLatch, Besides, task,
       peer, store, claimed, Callers, Sound, Placed, Manned, AwaitsSomebody, Early, Jobs, Verdicts
  <1>9. MInv'
    BY <1>2, <1>3, <1>4, <1>5, <1>6, <1>7, <1>8, OneCall DEF Sound
  <1>10. ASSUME Keeping PROVE Keeping'
    <2>1. (Begun(c)' => started) /\ UNCHANGED <<purging, sweep>> /\ (root => root') /\ (started <=> started')
      BY <1>1, <1>10 DEF Keeping, Latched, Begun, Sound, Manned, MTyped, Makes, MakingEnds,
         OpensRoot, SpendsLatch, Besides, task, peer, store, claimed, Callers, Awaited
    <2>2. Latched'
      BY <1>3, <1>10, <2>1, LatchRests DEF Keeping
    <2>3. Kept(c)'
      BY <1>1, <1>10 DEF Keeping, Kept, Sound, Placed, Manned, MTyped, Makes, MakingEnds,
         OpensRoot, SpendsLatch, Besides, task, peer, store, claimed, Callers
    <2>4. Guarded(c)'
      BY <1>1, <1>10 DEF Keeping, Guarded, AtStake, Commits, Sound, Wired, Judged, Placed, Manned,
         MTyped, Makes, MakingEnds, OpensRoot, SpendsLatch, Besides, task, peer, store, claimed,
         Callers, Early
    <2> QED BY <1>3, <1>4, <1>10, <2>2, <2>3, <2>4, OneCallKeeps
  <1> QED BY <1>9, <1>10

LEMMA RefusesRootStep ==
  ASSUME MInv, NEW c \in Claims, RefusesRoot(c), Besides
  PROVE  MInv' /\ (Keeping => Keeping')
  <1>1. MTyped /\ Sound(c)
    BY DEF MInv, Sound
  <1>2. MTyped'
    BY <1>1 DEF MTyped, RefusesRoot, MakingEnds, Besides, task, peer, store, claimed, Callers,
       Jobs, Kinds, Dirs, Outcomes
  <1>3. \A e \in Claims \ {c} : Same(e)
    BY <1>1 DEF MTyped, RefusesRoot, MakingEnds, Same, Besides, task, peer, store, claimed, Callers
  <1>4. BrokerKeeps(c) /\ SpentIsGone'
    BY BrokerRests DEF MInv, Besides, peer, SpentIsGone
  <1>5. Wired(c)'
    BY <1>1 DEF RefusesRoot, MakingEnds, Besides, task, peer, store, claimed, Callers, Sound,
       Wired, Commits
  <1>6. Judged(c)'
    BY <1>1 DEF MTyped, RefusesRoot, MakingEnds, Besides, task, peer, store, claimed, Callers,
       Sound, Judged, Commits
  <1>7. Placed(c)'
    BY <1>1 DEF MTyped, RefusesRoot, MakingEnds, Besides, task, peer, store, claimed, Callers,
       Sound, Placed, Manned, Early
  <1>8. Manned(c)'
    BY NamesAssumption, <1>1 DEF MTyped, RefusesRoot, MakingEnds, Besides, task, peer, store,
       claimed, Callers, Sound, Placed, Manned, AwaitsSomebody, Early, Jobs, Verdicts
  <1>9. MInv'
    BY <1>2, <1>3, <1>4, <1>5, <1>6, <1>7, <1>8, OneCall DEF Sound
  <1>10. ASSUME Keeping PROVE Keeping'
    <2>1. (Begun(c)' => started) /\ UNCHANGED <<purging, sweep>> /\ (root => root') /\ (started <=> started')
      BY <1>1, <1>10 DEF Keeping, Latched, Begun, Sound, Manned, MTyped, RefusesRoot, MakingEnds,
         Besides, task, peer, store, claimed, Callers, Awaited
    <2>2. Latched'
      BY <1>3, <1>10, <2>1, LatchRests DEF Keeping
    <2>3. Kept(c)'
      BY <1>1, <1>10 DEF Keeping, Kept, Sound, Placed, Manned, MTyped, RefusesRoot, MakingEnds,
         Besides, task, peer, store, claimed, Callers
    <2>4. Guarded(c)'
      BY <1>1, <1>10 DEF Keeping, Guarded, AtStake, Commits, Sound, Wired, Judged, Placed, Manned,
         MTyped, RefusesRoot, MakingEnds, Besides, task, peer, store, claimed, Callers, Early
    <2> QED BY <1>3, <1>4, <1>10, <2>2, <2>3, <2>4, OneCallKeeps
  <1> QED BY <1>9, <1>10

LEMMA RefusesStagingStep ==
  ASSUME MInv, NEW c \in Claims, RefusesStaging(c), Besides
  PROVE  MInv' /\ (Keeping => Keeping')
  <1>1. MTyped /\ Sound(c)
    BY DEF MInv, Sound
  <1>2. MTyped'
    BY <1>1 DEF MTyped, RefusesStaging, MakingEnds, OpensRoot, SpendsLatch, Besides, task, peer,
       store, claimed, Callers, Jobs, Kinds, Dirs, Outcomes
  <1>3. \A e \in Claims \ {c} : Same(e)
    BY <1>1 DEF MTyped, RefusesStaging, MakingEnds, OpensRoot, SpendsLatch, Same, Besides, task,
       peer, store, claimed, Callers
  <1>4. BrokerKeeps(c) /\ SpentIsGone'
    BY BrokerRests DEF MInv, Besides, peer, SpentIsGone
  <1>5. Wired(c)'
    BY <1>1 DEF RefusesStaging, MakingEnds, OpensRoot, SpendsLatch, Besides, task, peer, store,
       claimed, Callers, Sound, Wired, Commits
  <1>6. Judged(c)'
    BY <1>1 DEF MTyped, RefusesStaging, MakingEnds, OpensRoot, SpendsLatch, Besides, task, peer,
       store, claimed, Callers, Sound, Judged, Commits
  <1>7. Placed(c)'
    BY <1>1 DEF MTyped, RefusesStaging, MakingEnds, OpensRoot, SpendsLatch, Besides, task, peer,
       store, claimed, Callers, Sound, Placed, Manned, Early
  <1>8. Manned(c)'
    BY NamesAssumption, <1>1 DEF MTyped, RefusesStaging, MakingEnds, OpensRoot, SpendsLatch,
       Besides, task, peer, store, claimed, Callers, Sound, Placed, Manned, AwaitsSomebody, Early,
       Jobs, Verdicts
  <1>9. MInv'
    BY <1>2, <1>3, <1>4, <1>5, <1>6, <1>7, <1>8, OneCall DEF Sound
  <1>10. ASSUME Keeping PROVE Keeping'
    <2>1. (Begun(c)' => started) /\ UNCHANGED <<purging, sweep>> /\ (root => root') /\ (started <=> started')
      BY <1>1, <1>10 DEF Keeping, Latched, Begun, Sound, Manned, MTyped, RefusesStaging,
         MakingEnds, OpensRoot, SpendsLatch, Besides, task, peer, store, claimed, Callers, Awaited
    <2>2. Latched'
      BY <1>3, <1>10, <2>1, LatchRests DEF Keeping
    <2>3. Kept(c)'
      BY <1>1, <1>10 DEF Keeping, Kept, Sound, Placed, Manned, MTyped, RefusesStaging, MakingEnds,
         OpensRoot, SpendsLatch, Besides, task, peer, store, claimed, Callers
    <2>4. Guarded(c)'
      BY <1>1, <1>10 DEF Keeping, Guarded, AtStake, Commits, Sound, Wired, Judged, Placed, Manned,
         MTyped, RefusesStaging, MakingEnds, OpensRoot, SpendsLatch, Besides, task, peer, store,
         claimed, Callers, Early
    <2> QED BY <1>3, <1>4, <1>10, <2>2, <2>3, <2>4, OneCallKeeps
  <1> QED BY <1>9, <1>10

LEMMA AcceptsStep ==
  ASSUME MInv, NEW c \in Claims, Accepts(c), Besides
  PROVE  MInv' /\ (Keeping => Keeping')
  <1>1. MTyped /\ Sound(c)
    BY DEF MInv, Sound
  <1>2. MTyped'
    BY <1>1 DEF MTyped, Accepts, Ends, Besides, task, peer, store, claimed, Callers, Jobs, Kinds,
       Dirs, Outcomes
  <1>3. \A e \in Claims \ {c} : Same(e)
    BY <1>1 DEF MTyped, Accepts, Ends, Same, Besides, task, peer, store, claimed, Callers
  <1>4. BrokerKeeps(c) /\ SpentIsGone'
    BY BrokerRests DEF MInv, Besides, peer, SpentIsGone
  <1>5. Wired(c)'
    BY <1>1 DEF Accepts, Ends, Besides, task, peer, store, claimed, Callers, Sound, Wired, Commits
  <1>6. Judged(c)'
    BY <1>1 DEF MTyped, Accepts, Ends, Besides, task, peer, store, claimed, Callers, Sound,
       Judged, Commits
  <1>7. Placed(c)'
    BY <1>1 DEF MTyped, Accepts, Ends, Besides, task, peer, store, claimed, Callers, Sound,
       Placed, Manned, Early
  <1>8. Manned(c)'
    BY NamesAssumption, <1>1 DEF MTyped, Accepts, Ends, Besides, task, peer, store, claimed,
       Callers, Sound, Placed, Manned, AwaitsSomebody, Early, Jobs, Verdicts
  <1>9. MInv'
    BY <1>2, <1>3, <1>4, <1>5, <1>6, <1>7, <1>8, OneCall DEF Sound
  <1>10. ASSUME Keeping PROVE Keeping'
    <2>1. (Begun(c)' => started) /\ UNCHANGED <<purging, sweep>> /\ (root => root') /\ (started <=> started')
      BY <1>1, <1>10 DEF Keeping, Latched, Begun, Sound, Manned, MTyped, Accepts, Ends, Besides,
         task, peer, store, claimed, Callers, Awaited
    <2>2. Latched'
      BY <1>3, <1>10, <2>1, LatchRests DEF Keeping
    <2>3. Kept(c)'
      BY <1>1, <1>10 DEF Keeping, Kept, Sound, Placed, Manned, MTyped, Accepts, Ends, Besides,
         task, peer, store, claimed, Callers
    <2>4. Guarded(c)'
      BY <1>1, <1>10 DEF Keeping, Guarded, AtStake, Commits, Sound, Wired, Judged, Placed, Manned,
         MTyped, Accepts, Ends, Besides, task, peer, store, claimed, Callers, Early
    <2> QED BY <1>3, <1>4, <1>10, <2>2, <2>3, <2>4, OneCallKeeps
  <1> QED BY <1>9, <1>10

LEMMA PublishesStep ==
  ASSUME MInv, NEW c \in Claims, Publishes(c), Besides
  PROVE  MInv' /\ (Keeping => Keeping')
  <1>1. MTyped /\ Sound(c)
    BY DEF MInv, Sound
  <1>2. MTyped'
    BY <1>1 DEF MTyped, Publishes, Renames, Released, Ends, Besides, task, peer, store, claimed,
       Callers, Jobs, Kinds, Dirs, Outcomes
  <1>3. \A e \in Claims \ {c} : Same(e)
    BY <1>1 DEF MTyped, Publishes, Renames, Released, Ends, Same, Besides, task, peer, store,
       claimed, Callers
  <1>4. BrokerKeeps(c) /\ SpentIsGone'
    BY BrokerRests DEF MInv, Besides, peer, SpentIsGone
  <1>5. Wired(c)'
    BY <1>1 DEF Publishes, Renames, Released, Ends, Besides, task, peer, store, claimed, Callers,
       Sound, Wired, Commits
  <1>6. Judged(c)'
    BY <1>1 DEF MTyped, Publishes, Renames, Released, Ends, Besides, task, peer, store, claimed,
       Callers, Sound, Judged, Commits
  <1>7. Placed(c)'
    BY <1>1 DEF MTyped, Publishes, Renames, Released, Ends, Besides, task, peer, store, claimed,
       Callers, Sound, Placed, Manned, Early
  <1>8. Manned(c)'
    BY NamesAssumption, <1>1 DEF MTyped, Publishes, Renames, Released, Ends, Besides, task, peer,
       store, claimed, Callers, Sound, Placed, Manned, AwaitsSomebody, Early, Jobs, Verdicts
  <1>9. MInv'
    BY <1>2, <1>3, <1>4, <1>5, <1>6, <1>7, <1>8, OneCall DEF Sound
  <1>10. ASSUME Keeping PROVE Keeping'
    <2>1. (Begun(c)' => started) /\ UNCHANGED <<purging, sweep>> /\ (root => root') /\ (started <=> started')
      BY <1>1, <1>10 DEF Keeping, Latched, Begun, Sound, Manned, MTyped, Publishes, Renames,
         Released, Ends, Besides, task, peer, store, claimed, Callers, Awaited
    <2>2. Latched'
      BY <1>3, <1>10, <2>1, LatchRests DEF Keeping
    <2>3. Kept(c)'
      BY <1>1, <1>10 DEF Keeping, Kept, Sound, Placed, Manned, MTyped, Publishes, Renames,
         Released, Ends, Besides, task, peer, store, claimed, Callers
    <2>4. Guarded(c)'
      BY <1>1, <1>10 DEF Keeping, Guarded, AtStake, Commits, Sound, Wired, Judged, Placed, Manned,
         MTyped, Publishes, Renames, Released, Ends, Besides, task, peer, store, claimed, Callers,
         Early
    <2> QED BY <1>3, <1>4, <1>10, <2>2, <2>3, <2>4, OneCallKeeps
  <1> QED BY <1>9, <1>10

LEMMA HoldsStep ==
  ASSUME MInv, NEW c \in Claims, Holds(c), Besides
  PROVE  MInv' /\ (Keeping => Keeping')
  <1>1. MTyped /\ Sound(c)
    BY DEF MInv, Sound
  <1>2. MTyped'
    BY <1>1 DEF MTyped, Holds, Renames, Quarantined, Released, Ends, Besides, task, peer, store,
       claimed, Callers, Jobs, Kinds, Dirs, Outcomes
  <1>3. \A e \in Claims \ {c} : Same(e)
    BY <1>1 DEF MTyped, Holds, Renames, Quarantined, Released, Ends, Same, Besides, task, peer,
       store, claimed, Callers
  <1>4. BrokerKeeps(c) /\ SpentIsGone'
    BY BrokerRests DEF MInv, Besides, peer, SpentIsGone
  <1>5. Wired(c)'
    BY <1>1 DEF Holds, Renames, Quarantined, Released, Ends, Besides, task, peer, store, claimed,
       Callers, Sound, Wired, Commits
  <1>6. Judged(c)'
    BY <1>1 DEF MTyped, Holds, Renames, Quarantined, Released, Ends, Besides, task, peer, store,
       claimed, Callers, Sound, Judged, Commits
  <1>7. Placed(c)'
    BY <1>1 DEF MTyped, Holds, Renames, Quarantined, Released, Ends, Besides, task, peer, store,
       claimed, Callers, Sound, Placed, Manned, Early
  <1>8. Manned(c)'
    BY NamesAssumption, <1>1 DEF MTyped, Holds, Renames, Quarantined, Released, Ends, Besides,
       task, peer, store, claimed, Callers, Sound, Placed, Manned, AwaitsSomebody, Early, Jobs,
       Verdicts
  <1>9. MInv'
    BY <1>2, <1>3, <1>4, <1>5, <1>6, <1>7, <1>8, OneCall DEF Sound
  <1>10. ASSUME Keeping PROVE Keeping'
    <2>1. (Begun(c)' => started) /\ UNCHANGED <<purging, sweep>> /\ (root => root') /\ (started <=> started')
      BY <1>1, <1>10 DEF Keeping, Latched, Begun, Sound, Manned, MTyped, Holds, Renames,
         Quarantined, Released, Ends, Besides, task, peer, store, claimed, Callers, Awaited
    <2>2. Latched'
      BY <1>3, <1>10, <2>1, LatchRests DEF Keeping
    <2>3. Kept(c)'
      BY <1>1, <1>10 DEF Keeping, Kept, Sound, Placed, Manned, MTyped, Holds, Renames,
         Quarantined, Released, Ends, Besides, task, peer, store, claimed, Callers
    <2>4. Guarded(c)'
      BY <1>1, <1>10 DEF Keeping, Guarded, AtStake, Commits, Sound, Wired, Judged, Placed, Manned,
         MTyped, Holds, Renames, Quarantined, Released, Ends, Besides, task, peer, store, claimed,
         Callers, Early
    <2> QED BY <1>3, <1>4, <1>10, <2>2, <2>3, <2>4, OneCallKeeps
  <1> QED BY <1>9, <1>10

LEMMA DiscardsStep ==
  ASSUME MInv, NEW c \in Claims, Discards(c), Besides
  PROVE  MInv' /\ (Keeping => Keeping')
  <1>1. MTyped /\ Sound(c)
    BY DEF MInv, Sound
  <1>2. MTyped'
    BY <1>1 DEF MTyped, Discards, Discarded, Removed, Released, Ends, Besides, task, peer, store,
       claimed, Callers, Jobs, Kinds, Dirs, Outcomes
  <1>3. \A e \in Claims \ {c} : Same(e)
    BY <1>1 DEF MTyped, Discards, Discarded, Removed, Released, Ends, Same, Besides, task, peer,
       store, claimed, Callers
  <1>4. BrokerKeeps(c) /\ SpentIsGone'
    BY BrokerRests DEF MInv, Besides, peer, SpentIsGone
  <1>5. Wired(c)'
    BY <1>1 DEF Discards, Discarded, Removed, Released, Ends, Besides, task, peer, store, claimed,
       Callers, Sound, Wired, Commits
  <1>6. Judged(c)'
    BY <1>1 DEF MTyped, Discards, Discarded, Removed, Released, Ends, Besides, task, peer, store,
       claimed, Callers, Sound, Judged, Commits
  <1>7. Placed(c)'
    BY <1>1 DEF MTyped, Discards, Discarded, Removed, Released, Ends, Besides, task, peer, store,
       claimed, Callers, Sound, Placed, Manned, Early
  <1>8. Manned(c)'
    BY NamesAssumption, <1>1 DEF MTyped, Discards, Discarded, Removed, Released, Ends, Besides,
       task, peer, store, claimed, Callers, Sound, Placed, Manned, AwaitsSomebody, Early, Jobs,
       Verdicts
  <1>9. MInv'
    BY <1>2, <1>3, <1>4, <1>5, <1>6, <1>7, <1>8, OneCall DEF Sound
  <1>10. ASSUME Keeping PROVE Keeping'
    <2>1. (Begun(c)' => started) /\ UNCHANGED <<purging, sweep>> /\ (root => root') /\ (started <=> started')
      BY <1>1, <1>10 DEF Keeping, Latched, Begun, Sound, Manned, MTyped, Discards, Discarded,
         Removed, Released, Ends, Besides, task, peer, store, claimed, Callers, Awaited
    <2>2. Latched'
      BY <1>3, <1>10, <2>1, LatchRests DEF Keeping
    <2>3. Kept(c)'
      BY <1>1, <1>10 DEF Keeping, Kept, Sound, Placed, Manned, MTyped, Discards, Discarded,
         Removed, Released, Ends, Besides, task, peer, store, claimed, Callers
    <2>4. Guarded(c)'
      BY <1>1, <1>10 DEF Keeping, Guarded, AtStake, Commits, Sound, Wired, Judged, Placed, Manned,
         MTyped, Discards, Discarded, Removed, Released, Ends, Besides, task, peer, store,
         claimed, Callers, Early
    <2> QED BY <1>3, <1>4, <1>10, <2>2, <2>3, <2>4, OneCallKeeps
  <1> QED BY <1>9, <1>10

LEMMA AgesStep ==
  ASSUME MInv, NEW c \in Claims, Ages(c), Besides
  PROVE  MInv' /\ (Keeping => Keeping')
  <1>1. MTyped /\ Sound(c)
    BY DEF MInv, Sound
  <1>2. MTyped'
    BY <1>1 DEF MTyped, Ages, proc, Besides, task, peer, store, claimed, Callers, Jobs, Kinds,
       Dirs, Outcomes
  <1>3. \A e \in Claims \ {c} : Same(e)
    BY <1>1 DEF MTyped, Ages, proc, Same, Besides, task, peer, store, claimed, Callers
  <1>4. BrokerKeeps(c) /\ SpentIsGone'
    BY BrokerRests DEF MInv, Besides, peer, SpentIsGone
  <1>5. Wired(c)'
    BY <1>1 DEF Ages, proc, Besides, task, peer, store, claimed, Callers, Sound, Wired, Commits
  <1>6. Judged(c)'
    BY <1>1 DEF MTyped, Ages, proc, Besides, task, peer, store, claimed, Callers, Sound, Judged,
       Commits
  <1>7. Placed(c)'
    BY <1>1 DEF MTyped, Ages, proc, Besides, task, peer, store, claimed, Callers, Sound, Placed,
       Manned, Early
  <1>8. Manned(c)'
    BY NamesAssumption, <1>1 DEF MTyped, Ages, proc, Besides, task, peer, store, claimed, Callers,
       Sound, Placed, Manned, AwaitsSomebody, Early, Jobs, Verdicts
  <1>9. MInv'
    BY <1>2, <1>3, <1>4, <1>5, <1>6, <1>7, <1>8, OneCall DEF Sound
  <1>10. ASSUME Keeping PROVE Keeping'
    <2>1. (Begun(c)' => started) /\ UNCHANGED <<purging, sweep>> /\ (root => root') /\ (started <=> started')
      BY <1>1, <1>10 DEF Keeping, Latched, Begun, Sound, Manned, MTyped, Ages, proc, Besides,
         task, peer, store, claimed, Callers, Awaited
    <2>2. Latched'
      BY <1>3, <1>10, <2>1, LatchRests DEF Keeping
    <2>3. Kept(c)'
      BY <1>1, <1>10 DEF Keeping, Kept, Sound, Placed, Manned, MTyped, Ages, proc, Besides, task,
         peer, store, claimed, Callers
    <2>4. Guarded(c)'
      BY <1>1, <1>10 DEF Keeping, Guarded, AtStake, Commits, Sound, Wired, Judged, Placed, Manned,
         MTyped, Ages, proc, Besides, task, peer, store, claimed, Callers, Early
    <2> QED BY <1>3, <1>4, <1>10, <2>2, <2>3, <2>4, OneCallKeeps
  <1> QED BY <1>9, <1>10

-----------------------------------------------------------------------------
(* The startup lock's holders, the purge and the janitor *)

\* Nothing of a call changes but its wait for the startup.
StartOnly(e) ==
  /\ at'[e] = at[e] /\ dir'[e] = dir[e] /\ disk'[e] = disk[e]
  /\ \/ jobs'[e] = jobs[e] /\ out'[e] = out[e]
     \/ jobs'[e] = jobs[e] \ {"start"} /\ at[e] # "start" /\ out'[e] = out[e]
     \/ jobs'[e] = jobs[e] \ {"start"} /\ at[e] = "start" /\ out'[e] = "ok"

LEMMA StartSound ==
  ASSUME NEW e \in Claims, Sound(e), StartOnly(e), UNCHANGED <<reserved, registered>>, Besides
  PROVE  Sound(e)'
  <1>1. Wired(e)'
    BY DEF Sound, Wired, StartOnly, Besides, task, peer, Commits
  <1>2. Judged(e)'
    BY DEF Sound, Judged, StartOnly, Besides, task, peer, Commits
  <1>3. Placed(e)'
    BY DEF Sound, Placed, StartOnly, Besides
  <1>4. Manned(e)'
    BY NamesAssumption DEF Sound, Manned, AwaitsSomebody, StartOnly, Besides, Early, peer, Jobs,
       Verdicts
  <1> QED BY <1>1, <1>2, <1>3, <1>4 DEF Sound

\* What a step of the startup and of the sweeps owes: the disk aside, the claims
\* are as they were.
StartStep == /\ \A e \in Claims : StartOnly(e)
             /\ UNCHANGED <<reserved, registered, aged, holdFailed>> /\ Besides

LEMMA StartKeeps ==
  ASSUME MInv, StartStep, MTyped'
  PROVE  MInv' /\ (Keeping /\ Latched' => Keeping')
  <1>1. \A e \in Claims : Sound(e)'
    BY StartSound DEF MInv, Sound, StartStep
  <1>2. Booked' /\ SpentIsGone'
    BY DEF MInv, Booked, SpentIsGone, StartStep, Besides, peer
  <1>3. ASSUME Keeping, NEW e \in Claims PROVE Kept(e)' /\ Guarded(e)'
    BY <1>3 DEF Keeping, Kept, Guarded, AtStake, Commits, StartStep, StartOnly, Besides, task, peer
  <1> QED BY <1>1, <1>2, <1>3 DEF MInv, Sound, SpentIsGone, Keeping

LEMMA StartTestsStep ==
  ASSUME MInv, NEW x \in Callers, StartTests(x), Besides
  PROVE  MInv' /\ (Keeping => Keeping')
  <1>1. MTyped
    BY DEF MInv
  <1>2. MTyped'
    BY <1>1 DEF MTyped, StartTests, Ends, Besides, task, peer, store, claimed, Outcomes
  <1>3. StartStep
    BY <1>1 DEF MTyped, StartTests, Ends, StartStep, StartOnly, store, claimed, Callers
  <1>4. ASSUME Keeping PROVE Latched'
    <2>1. root' /\ (started <=> started') /\ sweep' = sweep
      BY <1>4 DEF Keeping, Latched, StartTests, store
    <2>2. CASE started
      BY <1>4, <2>1, <2>2 DEF Keeping, Latched, StartTests
    <2>3. CASE ~started
      <3>1. UNCHANGED <<jobs, out>> /\ purging' = x /\ purging = None
        BY <2>3 DEF StartTests
      <3>2. \A e \in Claims : Begun(e)' <=> Begun(e)
        BY <3>1 DEF Begun, StartTests, claimed
      <3> QED BY <1>4, <2>1, <2>3, <3>1, <3>2 DEF Keeping, Latched
    <2> QED BY <2>2, <2>3
  <1> QED BY <1>2, <1>3, <1>4, StartKeeps

LEMMA PurgeOpensStep ==
  ASSUME MInv, PurgeOpens, Besides
  PROVE  MInv' /\ (Keeping => Keeping')
  <1>1. MTyped
    BY DEF MInv
  <1>2. MTyped'
    BY <1>1 DEF MTyped, PurgeOpens, Ends, Besides, task, peer, store, claimed, Outcomes
  <1>3. StartStep
    BY <1>1 DEF MTyped, PurgeOpens, Ends, StartStep, StartOnly, store, claimed, Callers
  <1>4. ASSUME Keeping PROVE Latched'
    <2>1. /\ root /\ root' = root /\ started' = started /\ UNCHANGED <<purging, jobs, out, at, dir>> /\ purging # None
          /\ DOMAIN sweep' = Sweeps
      BY <1>4 DEF Keeping, Latched, PurgeOpens, store, claimed
    <2>2. \A e \in Claims : Begun(e)' <=> Begun(e)
      BY <2>1 DEF Begun
    <2> QED BY <1>4, <2>1, <2>2 DEF Keeping, Latched
  <1> QED BY <1>2, <1>3, <1>4, StartKeeps

LEMMA PurgeEndsStep ==
  ASSUME MInv, PurgeEnds, Besides
  PROVE  MInv' /\ (Keeping => Keeping')
  <1>1. MTyped
    BY DEF MInv
  <1>2. MTyped'
    BY <1>1 DEF MTyped, PurgeEnds, Ends, Besides, task, peer, store, claimed, Outcomes
  <1>3. StartStep
    BY <1>1 DEF MTyped, PurgeEnds, Ends, StartStep, StartOnly, store, claimed, Callers
  <1>4. ASSUME Keeping PROVE Latched'
    BY <1>4 DEF Sweeps, Keeping, Latched, PurgeEnds, store
  <1> QED BY <1>2, <1>3, <1>4, StartKeeps

LEMMA JanitorStep ==
  ASSUME MInv, JanitorOpens \/ JanitorEnds, Besides
  PROVE  MInv' /\ (Keeping => Keeping')
  <1>1. UNCHANGED <<store, claimed, started, purging, at, jobs, out, holdFailed>>
    BY DEF JanitorOpens, JanitorEnds
  <1>2. MTyped'
    BY <1>1 DEF MInv, MTyped, Besides, task, peer, store, claimed
  <1>3. StartStep
    BY <1>1 DEF StartStep, StartOnly, store, claimed
  <1>4. ASSUME Keeping PROVE Latched'
    <2>1. sweep'["purge"] = sweep["purge"] /\ DOMAIN sweep' = Sweeps
      BY <1>4 DEF Keeping, Latched, Sweeps, JanitorOpens, JanitorEnds
    <2> QED BY <1>1, <1>4, <2>1 DEF Keeping, Latched, Begun, store, claimed
  <1> QED BY <1>2, <1>3, <1>4, StartKeeps

LEMMA ArmStep ==
  ASSUME MInv, ArmSpool \/ ArmEnds, Besides
  PROVE  MInv' /\ (Keeping => Keeping')
  <1>1. MTyped
    BY DEF MInv
  <1>2. MTyped'
    BY <1>1 DEF MTyped, ArmSpool, ArmEnds, Besides, task, peer, store, claimed, Callers, Awaited,
       Jobs
  <1>3. /\ \A e \in Claims : at'[e] = at[e] /\ jobs'[e] = jobs[e] /\ out'[e] = out[e]
        /\ UNCHANGED <<store, claimed, started, purging, sweep, holdFailed>>
    BY <1>1, NamesAssumption DEF MTyped, ArmSpool, ArmEnds, Callers
  <1>4. StartStep
    BY <1>3 DEF StartStep, StartOnly, store, claimed
  <1>5. ASSUME Keeping PROVE Latched'
    BY <1>3, <1>5 DEF Keeping, Latched, Begun, store, claimed
  <1> QED BY <1>2, <1>4, <1>5, StartKeeps

\* A sweep takes the directory of no claim that is writing, and what was put out
\* of reach only when it is old: while the purge runs there is nothing of this process.
LEMMA ExamineStep ==
  ASSUME MInv, NEW s \in Sweeps, NEW c \in Claims, NEW kind \in Kinds, Examine(s, c, kind), Besides
  PROVE  MInv' /\ (Keeping => Keeping')
  <1>1. MTyped /\ Sound(c)
    BY DEF MInv, Sound
  <1>2. MTyped'
    BY <1>1 DEF MTyped, Examine, Removed, Besides, task, peer, store, claimed
  <1>3. \A e \in Claims \ {c} : Same(e)
    BY <1>1 DEF MTyped, Examine, Removed, Same, Besides, task, peer, claimed
  <1>4. BrokerKeeps(c) /\ SpentIsGone'
    BY BrokerRests DEF MInv, Besides, peer, SpentIsGone
  <1>5. UNCHANGED <<at, jobs, out, dir, reserved, registered, started, purging, root, aged, holdFailed>>
    BY DEF Examine, claimed
  <1>6. Wired(c)'
    BY <1>1, <1>5 DEF Besides, task, peer, Sound, Wired, Commits
  <1>7. Judged(c)'
    BY <1>1, <1>5 DEF MTyped, Examine, Removed, Besides, task, peer, Sound, Judged, Commits
  <1>8. Placed(c)'
    BY <1>1, <1>5 DEF MTyped, Examine, Removed, Expired, Besides, Sound, Placed
  <1>9. Manned(c)'
    BY NamesAssumption, <1>1, <1>5 DEF Besides, peer, Sound, Manned, AwaitsSomebody, Jobs,
       Verdicts
  <1>10. MInv'
    BY <1>2, <1>3, <1>4, <1>6, <1>7, <1>8, <1>9, OneCall DEF Sound
  <1>11. ASSUME Keeping PROVE Keeping'
    <2>1. (sweep'["purge"] # None => sweep["purge"] # None) /\ DOMAIN sweep' = Sweeps
      BY <1>11 DEF Keeping, Latched, Sweeps, Examine
    <2>2. Latched'
      BY <1>5, <1>11, <2>1 DEF Keeping, Latched, Begun
    <2>3. s = "purge" => dir[c] = "none"
      BY <1>11 DEF Keeping, Latched, Begun, Examine
    <2>4. Kept(c)'
      BY <1>1, <1>5, <1>11, <2>3 DEF Keeping, Kept, MTyped, Examine, Expired, Removed, Besides, task
    <2>5. Guarded(c)'
      BY <1>5, <1>11 DEF Keeping, Guarded, AtStake, Commits, Besides, peer
    <2> QED BY <1>3, <1>4, <1>11, <2>2, <2>4, <2>5, OneCallKeeps
  <1> QED BY <1>10, <1>11

-----------------------------------------------------------------------------
(* A cancellation *)

\* The directory of c, once its task is gone: let go of, by a rename or a removal.
LetGo(c) == /\ dir[c] = "open" /\ dir'[c] \in {"quarantined", "discarded"}
            /\ disk'[c] \in {disk[c], "quarantine", "none"}
            /\ dir'[c] = "quarantined" => disk'[c] = "quarantine"
            /\ c \notin reserved'

AsItWas(c) == dir'[c] = dir[c] /\ disk'[c] = disk[c] /\ (c \in reserved' <=> c \in reserved)
                 /\ (c \in registered' <=> c \in registered)

Elsewhere(c) ==
  /\ dir' \in [Claims -> Dirs] /\ disk' \in [Claims -> Kinds \cup {"none"}]
  /\ holdFailed \subseteq holdFailed' /\ reserved' \subseteq Claims
  /\ \A e \in Claims \ {c} : /\ dir'[e] = dir[e] /\ disk'[e] = disk[e]
                             /\ e \in registered => e \in registered'
                             /\ e \in reserved' => e \in reserved

LEMMA DiscardsNowDoes ==
  ASSUME MTyped, NEW c \in Claims, DiscardsNow(c)
  PROVE  Elsewhere(c) /\ (LetGo(c) \/ (dir[c] # "open" /\ AsItWas(c)))
  <1>1. CASE dir[c] # "open"
    BY <1>1 DEF MTyped, DiscardsNow, Discarded, Elsewhere, AsItWas, claimed
  <1>2. CASE dir[c] = "open"
    BY <1>2 DEF MTyped, DiscardsNow, Discarded, Removed, Released, Elsewhere, LetGo, Kinds, Dirs
  <1> QED BY <1>1, <1>2

\* Out of reach, unless the rename fails.
LEMMA HoldsNowDoes ==
  ASSUME MTyped, NEW c \in Claims, HoldsNow(c), dir[c] = "open" => disk[c] = "staging"
  PROVE  /\ Elsewhere(c) /\ (LetGo(c) \/ (dir[c] # "open" /\ AsItWas(c)))
         /\ dir[c] = "open" => dir'[c] = "quarantined" \/ c \in holdFailed'
  <1>1. CASE Renames(c) /\ Quarantined(c) /\ UNCHANGED holdFailed
    BY <1>1 DEF MTyped, Renames, Quarantined, Released, Elsewhere, LetGo, Kinds, Dirs
  <1>2. CASE dir[c] # "open" /\ UNCHANGED <<disk, claimed, holdFailed>>
    BY <1>2 DEF MTyped, Elsewhere, AsItWas, claimed
  <1>3. CASE dir[c] = "open" /\ Discarded(c) /\ holdFailed' = holdFailed \cup {c}
    BY <1>3 DEF MTyped, Discarded, Removed, Released, Elsewhere, LetGo, Kinds, Dirs
  <1> QED BY <1>1, <1>2, <1>3 DEF HoldsNow, Renames

Idling(c) == at[c] \in {"start", "create", "discard"}

LEMMA UnwindsDoes ==
  ASSUME MTyped, NEW c \in Claims, Unwinds(c), at[c] \notin {"idle", "over"},
         dir[c] = "open" => disk[c] = "staging"
  PROVE  /\ Elsewhere(c)
         /\ Idling(c) => AsItWas(c)
         /\ ~Idling(c) => LetGo(c) \/ (dir[c] # "open" /\ AsItWas(c))
         /\ (at[c] = "publish" \/ (at[c] \in {"receive", "accept"} /\ c \in committed)) /\ dir[c] = "open" =>
              dir'[c] = "quarantined" \/ c \in holdFailed'
  <1>1. at[c] \in Awaited
    BY DEF MTyped, Callers
  <1>2. CASE Idling(c)
    <2>1. UNCHANGED <<disk, claimed, holdFailed>>
      BY <1>2 DEF Unwinds, Idling
    <2> QED BY <1>2, <2>1 DEF MTyped, Elsewhere, AsItWas, claimed, Idling
  <1>3. CASE at[c] \in {"receive", "accept"}
    <2>1. IF c \in committed THEN HoldsNow(c) ELSE DiscardsNow(c)
      BY <1>3 DEF Unwinds
    <2>2. CASE c \in committed
      BY <1>3, <2>1, <2>2, HoldsNowDoes DEF Idling
    <2>3. CASE c \notin committed
      BY <1>3, <2>1, <2>3, DiscardsNowDoes DEF Idling
    <2> QED BY <2>2, <2>3
  <1>4. CASE at[c] = "publish" \/ (at[c] \in {"hold", "giveup"} /\ verdict[c] = "spool_publish_failed")
    <2>1. HoldsNow(c)
      BY <1>4 DEF Unwinds
    <2> QED BY <1>4, <2>1, HoldsNowDoes DEF Idling
  <1>5. CASE at[c] \in {"hold", "giveup"} /\ verdict[c] # "spool_publish_failed"
    <2>1. DiscardsNow(c)
      BY <1>5 DEF Unwinds
    <2> QED BY <1>5, <2>1, DiscardsNowDoes DEF Idling
  <1> QED BY <1>1, <1>2, <1>3, <1>4, <1>5 DEF Awaited, Idling

LEMMA CancelStep ==
  ASSUME MInv, NEW c \in Claims, Cancel(c)
  PROVE  MInv' /\ (Keeping => Keeping')
  <1>1. MTyped /\ Sound(c)
    BY DEF MInv, Sound
  <1>2. /\ at[c] \in Awaited \ {"idle", "over"} /\ jobs[c] \subseteq Jobs
        /\ dir[c] = "open" => disk[c] = "staging"
    BY <1>1 DEF MTyped, Callers, Cancel, Sound, Placed
  <1>3. /\ Elsewhere(c)
        /\ Idling(c) => AsItWas(c)
        /\ ~Idling(c) => LetGo(c) \/ (dir[c] # "open" /\ AsItWas(c))
        /\ (at[c] = "publish" \/ (at[c] \in {"receive", "accept"} /\ c \in committed)) /\ dir[c] = "open" =>
             dir'[c] = "quarantined" \/ c \in holdFailed'
    BY <1>1, <1>2, UnwindsDoes DEF Cancel
  <1>4. /\ at' = [at EXCEPT ![c] = "over"] /\ out' = [out EXCEPT ![c] = None]
        /\ verdict' = [verdict EXCEPT ![c] = "cancelled"] /\ cutAt' = [cutAt EXCEPT ![c] = at[c]]
        /\ jobs' = jobs \/ jobs' = [jobs EXCEPT ![c] = @ \ {at[c]}]
        /\ UNCHANGED <<aged, root, started, purging, sweep, committed, wire, held, lease, retiredBy, recorded, former>>
    BY DEF Cancel, peer
  <1>5. MTyped'
    BY <1>1, <1>2, <1>3, <1>4 DEF MTyped, Elsewhere, Verdicts, Awaited, Callers
  <1>6. \A e \in Claims \ {c} : Same(e)
    BY <1>1, <1>3, <1>4 DEF MTyped, Elsewhere, Same, Callers
  <1>7. BrokerKeeps(c) /\ SpentIsGone'
    BY <1>4, BrokerRests DEF MInv, SpentIsGone
  <1>8. /\ at'[c] = "over" /\ out'[c] = None /\ verdict'[c] = "cancelled" /\ cutAt'[c] = at[c]
        /\ jobs'[c] \subseteq jobs[c]
        /\ "making" \in jobs[c] => "making" \in jobs'[c]
    BY <1>1, <1>2, <1>4 DEF MTyped, Callers, Awaited
  <1>9. Wired(c)'
    BY <1>1, <1>4, <1>8 DEF Sound, Wired, Commits
  <1>10. Judged(c)'
    BY <1>1, <1>3, <1>4, <1>8 DEF Sound, Judged, Commits, Late, RetrySafe, MarkSpent, LetGo,
       AsItWas, Idling
  <1>11. Placed(c)'
    BY <1>1, <1>2, <1>3, <1>4, <1>8 DEF Sound, Placed, Manned, LetGo, AsItWas, Idling, Awaited
  <1>12. Manned(c)'
    BY <1>1, <1>2, <1>3, <1>4, <1>8, NamesAssumption DEF Sound, Manned, AwaitsSomebody, LetGo,
       AsItWas, Idling, Early, Jobs, Verdicts
  <1>13. MInv'
    BY <1>5, <1>6, <1>7, <1>9, <1>10, <1>11, <1>12, OneCall DEF Sound
  <1>14. ASSUME Keeping PROVE Keeping'
    <2>1. Begun(c)' => started
      BY <1>2, <1>3, <1>8, <1>14 DEF Keeping, Latched, Begun, AsItWas, LetGo, Awaited
    <2>2. Latched'
      BY <1>4, <1>6, <1>14, <2>1, LatchRests DEF Keeping
    <2>3. Kept(c)'
      BY <1>3, <1>4, <1>8, <1>14 DEF Keeping, Kept, AsItWas, LetGo
    <2>4. Guarded(c)'
      <3>1. (AtStake(c)' <=> AtStake(c)) /\ (AtStake(c) => c \in committed)
        BY <1>1, <1>4 DEF AtStake, Commits, Sound, Wired
      <3>2. Guarded(c) /\ c \in Claims
        BY <1>14 DEF Keeping
      <3>3. holdFailed \subseteq holdFailed' /\ former' = former
        BY <1>3, <1>4 DEF Elsewhere
      <3>4. (dir'[c] = dir[c] \/ LetGo(c)) /\ (dir'[c] = "open" => dir[c] = "open")
        BY <1>3 DEF AsItWas, LetGo
      <3>5. AtStake(c) => \/ dir'[c] \in {"open", "published", "quarantined"}
                          \/ at[c] = "hold" \/ c \in former \cup holdFailed'
        <4>1. CASE AsItWas(c)
          BY <1>2, <3>2, <3>3, <4>1 DEF Guarded, AsItWas, Awaited
        <4>2. CASE LetGo(c)
          <5>1. ~Idling(c)
            BY <1>3, <4>2 DEF AsItWas, LetGo
          <5>2. CASE at[c] \in {"receive", "accept", "publish"}
            BY <1>3, <3>1, <4>2, <5>2 DEF LetGo
          <5>3. CASE at[c] = "giveup"
            BY <3>2, <3>3, <5>3 DEF Guarded
          <5> QED BY <1>2, <5>1, <5>2, <5>3 DEF Idling, Awaited
        <4> QED BY <1>3, <4>1, <4>2
      <3> QED BY <1>8, <3>1, <3>2, <3>3, <3>4, <3>5 DEF Guarded
    <2> QED BY <1>6, <1>7, <1>14, <2>2, <2>3, <2>4, OneCallKeeps
  <1> QED BY <1>13, <1>14

-----------------------------------------------------------------------------
(* A restart of the gateway, and the invariants *)

\* Every call that was made is over, and a history; nothing of the process is left.
LEMMA DeathStep ==
  ASSUME MInv, GatewayDies
  PROVE  MInv' /\ (Keeping => Keeping')
  <1>1. /\ MTyped /\ (\A c \in Claims : Sound(c))
        /\ UNCHANGED <<disk, aged, root, holdFailed, committed, wire, held, lease, retiredBy, recorded, cutAt>>
    BY DEF MInv, Sound, GatewayDies, store, peer
  <1>2. MTyped'
    BY <1>1 DEF MTyped, GatewayDies, Callers, Awaited, Verdicts, Dirs
  <1>3. Booked' /\ SpentIsGone'
    BY <1>1 DEF MInv, Booked, SpentIsGone
  <1>4. ASSUME NEW c \in Claims
        PROVE  /\ dir'[c] = "none" /\ jobs'[c] = {} /\ out'[c] = None /\ c \notin reserved'
               /\ at[c] = "idle" => at'[c] = "idle" /\ verdict'[c] = verdict[c]
               /\ at[c] # "idle" => at'[c] = "over" /\ c \in former' /\ verdict'[c] \in {"died", verdict[c]}
               /\ c \in former => c \in former'
    BY <1>1 DEF GatewayDies, Callers
  <1>5. ASSUME NEW c \in Claims PROVE Sound(c)'
    <2>1. Sound(c)
      BY <1>1
    <2>2. Wired(c)'
      BY <1>1, <1>4, <2>1 DEF Sound, Wired, Commits
    <2>3. Judged(c)'
      BY <1>1, <1>4, <2>1, NamesAssumption DEF Sound, Judged, Commits, Late, RetrySafe, MarkSpent,
         Verdicts
    <2>4. Placed(c)'
      BY <1>4 DEF Placed
    <2>5. Manned(c)'
      BY <1>4, NamesAssumption DEF Manned, AwaitsSomebody, Verdicts, Jobs
    <2> QED BY <2>2, <2>3, <2>4, <2>5 DEF Sound
  <1>6. MInv'
    BY <1>2, <1>3, <1>5 DEF MInv, Sound, SpentIsGone
  <1>7. ASSUME Keeping PROVE Keeping'
    <2>1. Latched'
      <3>1. \A c \in Claims : ~Begun(c)'
        BY <1>4 DEF Begun
      <3> QED BY <1>1, <1>7, <3>1 DEF Keeping, Latched, GatewayDies, Sweeps
    <2>2. ASSUME NEW c \in Claims PROVE Kept(c)' /\ Guarded(c)'
      <3>1. Sound(c) /\ Kept(c) /\ Guarded(c)
        BY <1>1, <1>7 DEF Keeping
      <3>2. Kept(c)'
        BY <1>1, <1>4, <3>1, NamesAssumption DEF Kept, Sound, Judged, Late, Verdicts
      <3>3. Guarded(c)'
        BY <1>1, <1>4, <3>1 DEF Guarded, AtStake, Commits, Sound, Wired
      <3> QED BY <3>2, <3>3
    <2> QED BY <2>1, <2>2 DEF Keeping
  <1> QED BY <1>6, <1>7

LEMMA MInitially == Init => MInv
  <1> SUFFICES ASSUME Init PROVE MInv
    OBVIOUS
  <1> USE NamesAssumption, SlotAssumption DEF Init, SpoolInit, FreshProcess
  <1>1. MTyped
    BY DEF MTyped, Callers, Awaited, Dirs, Kinds, Verdicts, Wires, Outcomes
  <1>2. Booked
    BY DEF Booked
  <1>3. ASSUME NEW c \in Claims PROVE Wired(c) /\ Judged(c) /\ Placed(c) /\ Manned(c)
    BY NamesAssumption, DropAssumption DEF Wired, Judged, Placed, Manned, AwaitsSomebody, Commits,
       Callers, Early, RetrySafe, MarkSpent, Verdicts, Jobs
  <1> QED BY <1>1, <1>2, <1>3 DEF MInv

LEMMA KInitially == ASSUME RootExists PROVE Init => Keeping
  <1> SUFFICES ASSUME Init PROVE Keeping
    OBVIOUS
  <1> USE NamesAssumption, SlotAssumption DEF Init, SpoolInit, FreshProcess
  <1>1. Latched
    BY DEF Latched, Begun, Callers, Sweeps, Awaited
  <1>2. ASSUME NEW c \in Claims PROVE Kept(c) /\ Guarded(c)
    BY DropAssumption DEF Kept, Guarded, AtStake, Commits, Callers, Verdicts, Jobs
  <1> QED BY <1>1, <1>2 DEF Keeping

LEMMA SpoolingStep ==
  ASSUME MInv, Spooling
  PROVE  MInv' /\ (Keeping => Keeping')
  <1>1. Besides
    BY DEF Spooling, Besides
  <1>2. CASE Sweeping
    <2>1. ASSUME NEW x \in Callers, StartTests(x) PROVE MInv' /\ (Keeping => Keeping')
      BY <1>1, <2>1, StartTestsStep
    <2>2. ASSUME NEW s \in Sweeps, NEW c \in Claims, NEW kind \in Kinds, Examine(s, c, kind)
          PROVE  MInv' /\ (Keeping => Keeping')
      BY <1>1, <2>2, ExamineStep
    <2>3. CASE JanitorOpens \/ JanitorEnds
      BY <1>1, <2>3, JanitorStep
    <2> QED BY <1>1, <1>2, <2>1, <2>2, <2>3, PurgeOpensStep, PurgeEndsStep DEF Sweeping
  <1>3. CASE ArmSpool \/ ArmEnds
    BY <1>1, <1>3, ArmStep
  <1>4. ASSUME NEW c \in Claims, Worker(c) \/ Ages(c) PROVE MInv' /\ (Keeping => Keeping')
    BY <1>1, <1>4, ReservesStep, MakesStep, RefusesRootStep, RefusesStagingStep, AcceptsStep,
       PublishesStep, HoldsStep, DiscardsStep, AgesStep DEF Worker
  <1> QED BY <1>2, <1>3, <1>4 DEF Spooling

LEMMA MNext ==
  ASSUME MInv, [Next]_vars
  PROVE  MInv' /\ (Keeping => Keeping')
  <1>1. ASSUME NEW c \in Claims, Task(c) PROVE MInv' /\ (Keeping => Keeping')
    BY <1>1, StartedStep, CreatedStep, ChunkArrivesStep, ChunkAcceptedStep, CommitWrittenStep,
       RefusedStep, CommitAnsweredStep, TimedOutStep, ConnectionLostStep, ReceiverRaisesStep,
       PublishAnsweredStep, HoldAnsweredStep, DiscardAnsweredStep DEF Task, Receiving
  <1>2. ASSUME NEW c \in Claims, Peer(c) PROVE MInv' /\ (Keeping => Keeping')
    BY <1>2, BrokerBeginsStep, BrokerCommitsStep, HangupStep DEF Peer
  <1>3. ASSUME NEW c \in Claims, Call(c) PROVE MInv' /\ (Keeping => Keeping')
    BY <1>3, CallStep
  <1>4. ASSUME NEW c \in Claims, LeaseEnds(c) PROVE MInv' /\ (Keeping => Keeping')
    BY <1>4, LeaseEndsStep
  <1>5. ASSUME NEW c \in Claims, Cancel(c) PROVE MInv' /\ (Keeping => Keeping')
    BY <1>5, CancelStep
  <1>6. ASSUME NEW d \in Drops, Lapse(d) PROVE MInv' /\ (Keeping => Keeping')
    BY <1>6, LapseStep
  <1>7. CASE UNCHANGED vars
    <2>1. Booked' /\ SpentIsGone' /\ MTyped' /\ \A c \in Claims : Sound(c)'
      BY NamesAssumption, <1>7 DEF vars, spoolVars, store, proc, task, peer, MInv, Booked,
         SpentIsGone, MTyped, Sound, Wired, Judged, Placed, Manned, AwaitsSomebody, Commits, Jobs,
         Verdicts
    <2>2. Keeping => Keeping'
      BY <1>7 DEF vars, spoolVars, store, proc, task, peer, Keeping, Latched, Begun, Kept,
         Guarded, AtStake, Commits
    <2> QED BY <2>1, <2>2 DEF MInv, SpentIsGone, Sound
  <1> QED BY <1>1, <1>2, <1>3, <1>4, <1>5, <1>6, <1>7, SpoolingStep, DeathStep DEF Next

-----------------------------------------------------------------------------
(* The theorems *)

\* What the spool, the task and the broker agree on, whichever of them fails.
THEOREM SpoolInvariant == Spec => []MInv
  <1>1. MInv /\ [Next]_vars => MInv'
    BY MNext
  <1> QED BY MInitially, <1>1, PTL DEF Spec

\* With the root in place, the purge runs before anything of this process is there.
THEOREM SpoolKeeps == ASSUME RootExists PROVE Spec => []KInv
  <1>1. Init => KInv
    BY MInitially, KInitially DEF KInv
  <1>2. KInv /\ [Next]_vars => KInv'
    BY MNext DEF KInv
  <1> QED BY <1>1, <1>2, PTL DEF Spec

\* A directory a caller can be pointed at holds files whose commit the broker took
\* from this very claim, however the calls for one drop race for its lease.
THEOREM PublishedFilesCommitted == Spec => []PublishedIsCommitted
  <1>1. MInv => PublishedIsCommitted
    BY DEF MInv, Judged, Commits, PublishedIsCommitted
  <1> QED BY <1>1, SpoolInvariant, PTL

\* No claim that consumed a drop invites a retry, and no drop is recorded as spent
\* while the broker holds its payload: for a timeout, a lost connection, a refusal
\* or a cancellation at any await.
THEOREM VerdictsHonest == Spec => []VerdictHonest
  <1>1. MInv => VerdictHonest
    BY DEF MInv, Judged, Commits, VerdictHonest
  <1> QED BY <1>1, SpoolInvariant, PTL

\* The slot of a claim is released by whichever of its workers ends it.
THEOREM SlotsReleased == Spec => []SlotsReturn
  <1>1. MInv => SlotsReturn
    BY DEF MInv, MTyped, Placed, Manned, SlotsReturn
  <1> QED BY <1>1, SpoolInvariant, PTL

\* No sweep takes a directory that is being written, whenever its root appeared.
THEOREM WritersSpared == Spec => []StagingSpared
  <1>1. MInv => StagingSpared
    BY DEF MInv, Placed, StagingSpared
  <1> QED BY <1>1, SpoolInvariant, PTL

\* No task waits for a worker that has gone: whatever refuses, fails or is late, the
\* await of a call is answered or has its thread still to run.
THEOREM AwaitsAnswered == Spec => [](\A c \in Claims : AwaitsSomebody(c))
  <1>1. MInv => \A c \in Claims : AwaitsSomebody(c)
    BY DEF MInv, Manned
  <1> QED BY <1>1, SpoolInvariant, PTL

\* The bytes of a consumed drop stay on disk, but for a cancellation at the await
\* of the quarantine itself.
THEOREM BytesKept == ASSUME RootExists PROVE Spec => []BytesSafeUnlessCutHolding
  <1>1. KInv => BytesSafeUnlessCutHolding
    <2> SUFFICES ASSUME KInv, NEW c \in Claims, retiredBy[DropOf[c]] = c, cutAt[c] # "hold"
                 PROVE  Safe(c)
      BY DEF BytesSafeUnlessCutHolding
    <2>1. \/ dir[c] \in {"open", "published", "quarantined"}
          \/ c \in former \cup holdFailed
      BY DEF KInv, Keeping, Guarded, AtStake, Commits
    <2> QED BY <2>1 DEF KInv, Keeping, Kept, MInv, Placed, Safe
  <1> QED BY <1>1, SpoolKeeps, PTL

\* The paths an answered caller was given stay there until their TTL or a restart.
THEOREM PathsKept == ASSUME RootExists PROVE Spec => []PathsStay
  <1>1. KInv => PathsStay
    BY DEF KInv, Keeping, Kept, PathsStay
  <1> QED BY <1>1, SpoolKeeps, PTL
=============================================================================
