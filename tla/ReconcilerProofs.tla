--------------------------- MODULE ReconcilerProofs ---------------------------
(***************************************************************************)
(* What holds of the plugin's drops for every number of drops, lanes,      *)
(* faults and retries, whatever the awaits of the waiters, of the pass and *)
(* of the claims let in between.                                           *)
(*                                                                         *)
(* What a coroutine decided before its await stays true until it acts on   *)
(* it, because everything it was decided on only grows: a drop that is     *)
(* gone stays gone, an entry stays, a resolved entry stays resolved        *)
(* (Grows).  So an actor or a row that takes no step keeps its invariant,  *)
(* and each step answers only for what it changes.                         *)
(***************************************************************************)
EXTENDS Reconciler, TLAPS

Wakes == UNION {[S -> Nat] : S \in SUBSET Drops}

Task == [at : Places, drop : Drops \cup {None}, state : States, pending : Wakes]

Pass1 == [phase : {"idle", "scheduled", "driving", "reediting", "announcing"},
          todo : SUBSET Drops, lapsed : SUBSET Drops,
          seen : [Drops -> Entry \cup {None}] \cup {Nothing},
          skip : SUBSET Drops, announced : SUBSET Drops, failed : BOOLEAN,
          undecided : BOOLEAN, lanes : SUBSET Lanes, progress : BOOLEAN]

Faults == [gateway : Nat, broker : Nat, write : Nat, cancel : Nat, lane : Nat, all : Nat]

Typed ==
  /\ broker \in [Drops -> {"none", "pending", "submitted", "gone"}]
  /\ lapsed \in SUBSET Drops
  /\ submitted \in SUBSET Drops
  /\ chat \in [Drops -> {"none", "waiting", "received", "expired"}]
  /\ journal \in [Drops -> Entry \cup {None}]
  /\ creating \in [Drops -> {"none", "posting", "posted", "retracting", "over"}]
  /\ claiming \in [Drops -> {"idle", "text", "files", "taken"}]
  /\ run \in [Actors -> Task]
  /\ sweep \in Pass1
  /\ latch \in LatchRecord
  /\ resolvable \in SUBSET Lanes
  /\ editRetries \in [Drops -> 0..MaxEditRetries]
  /\ faults \in Faults /\ faults.write <= WriteFaults

\* The broker's side of a drop, from its minting on.
World(d) ==
  /\ creating[d] = "none" => broker[d] = "none"
  /\ journal[d] # None => creating[d] = "over"
  /\ broker[d] = "submitted" => d \in submitted
  /\ d \in submitted => broker[d] \in {"submitted", "gone"}
  /\ d \in lapsed => broker[d] = "gone"

\* An entry, the chat and a claim, against what the broker has seen of the drop.
Row(d) ==
  /\ Has(d, {"received"}) \/ chat[d] = "received" => d \in submitted
  /\ Has(d, {"expired"}) => broker[d] = "gone"
  /\ Has(d, TerminalStates) /\ chat[d] = "waiting" => journal[d].editFailed
  /\ journal[d] # None => /\ journal[d].claimed => broker[d] = "gone"
                          /\ journal[d].kind \in {"", Kind[d]}
                          /\ journal[d].announced # "never" => journal[d].attempts > 0
  /\ claiming[d] # "idle" => d \in submitted
  /\ claiming[d] = "files" => Kind[d] = "files"
  /\ claiming[d] = "taken" => broker[d] = "gone"

\* What a coroutine carries over its await.
Finalizing == {"editing", "edited"}
Reediting == {"reediting", "reedited"}

Carries(a) ==
  /\ run[a].at \in {"probing"} \cup Finalizing \cup Reediting =>
       run[a].drop \in Drops /\ journal[run[a].drop] # None
  /\ run[a].at \in Finalizing \cup Reediting =>
       /\ run[a].state \in TerminalStates
       /\ run[a].state = "received" => run[a].drop \in submitted
  /\ run[a].at \in Finalizing /\ run[a].state = "expired" => broker[run[a].drop] = "gone"
  /\ run[a].at \in {"edited", "reedited"} => chat[run[a].drop] # "waiting"
  /\ run[a].at = "waking" => \A d \in DOMAIN run[a].pending : journal[d] # None

WaiterAt(d) ==
  /\ run[d].at \in {"idle", "armed", "parked", "waking"} \cup Finalizing
  /\ run[d].at \in Finalizing => run[d].drop = d
  /\ run[d].at = "waking" => Has(d, TerminalStates)

PassPlaces ==
  /\ ~latch.started => sweep.phase = "idle"
  /\ run[Pass].at \in {"idle", "probing", "waking"} \cup Finalizing \cup Reediting
  /\ sweep.phase \in {"idle", "scheduled"} => run[Pass].at = "idle"
  /\ run[Pass].at \in {"probing"} \cup Finalizing => sweep.phase = "driving"
  /\ run[Pass].at \in Reediting =>
       /\ sweep.phase = "reediting"
       /\ run[Pass].drop \notin sweep.todo
       /\ editRetries[run[Pass].drop] < MaxEditRetries

\* What a pass read before an await and acts on after it.
Old(d) ==
  /\ d \in sweep.lapsed => d \in lapsed
  /\ d \in sweep.announced => journal[d] # None /\ journal[d].attempts > 0
  /\ d \in sweep.todo => journal[d] # None
  /\ sweep.phase = "reediting" =>
       /\ sweep.seen \in [Drops -> Entry \cup {None}]
       /\ d \in sweep.todo => /\ sweep.seen[d] # None
                              /\ sweep.seen[d].state \in TerminalStates
                              /\ editRetries[d] < MaxEditRetries
       /\ sweep.seen[d] # None =>
            /\ journal[d] # None
            /\ sweep.seen[d].state = "received" => d \in submitted
            /\ sweep.seen[d].announced = "old" => journal[d].attempts > 0

\* A resolved drop was announced, or its announcement is on the way.
Tells(a, d) == run[a].at = "waking" /\ d \in DOMAIN run[a].pending

Told(d) == \/ ~Has(d, TerminalStates)
           \/ journal[d].attempts > 0
           \/ Tells(d, d) \/ Tells(Pass, d)

Announced(d) ==
  /\ run[d].at # "idle" => Told(d)
  /\ sweep.phase = "driving" /\ d \in sweep.todo => Told(d)
  /\ run[Pass].at = "probing" /\ run[Pass].drop = d => Told(d)
  /\ sweep.phase = "announcing" => Told(d) \/ d \in sweep.todo \/ sweep.lanes # {}

\* A waiting drop has its waiter, or somebody will come by.
Watched(d) ==
  Has(d, {"waiting"}) /\ run[d].at = "idle" =>
    \/ sweep.phase = "idle" /\ (~latch.started \/ GaveUp(latch))
    \/ sweep.phase = "scheduled"
    \/ sweep.phase = "driving" /\ d \in sweep.todo
    \/ run[Pass].at \in {"probing"} \cup Finalizing /\ run[Pass].drop = d
    \/ sweep.phase # "idle" /\ (sweep.undecided \/ sweep.lanes # {})

Faultless == faults.write = WriteFaults

RInv ==
  /\ Typed
  /\ \A d \in Drops : World(d) /\ Row(d) /\ WaiterAt(d) /\ Old(d)
  /\ \A a \in Actors : Carries(a)
  /\ PassPlaces
  /\ Faultless => \A d \in Drops : Announced(d) /\ Watched(d)

-----------------------------------------------------------------------------
(* The records and what is read off them *)

LEMMA NothingTyped == Nothing \in Wakes /\ Idle \in Task
  <1>1. Nothing \in [{} -> Nat] /\ {} \in SUBSET Drops
    BY DEF Nothing
  <1>2. Nothing \in Wakes
    BY <1>1 DEF Wakes
  <1> QED BY <1>2 DEF Idle, Task, Places, States

LEMMA NoSweepTyped == NoSweep \in Pass1
  BY Zenon DEF NoSweep, Pass1

LEMMA WakesRead ==
  ASSUME NEW p \in Wakes
  PROVE  DOMAIN p \subseteq Drops /\ \A d \in DOMAIN p : p[d] \in Nat
  BY DEF Wakes

LEMMA TaskRead ==
  ASSUME NEW r \in Task
  PROVE  /\ r.at \in Places /\ r.drop \in Drops \cup {None} /\ r.state \in States
         /\ r.pending \in Wakes
  BY DEF Task

LEMMA TaskUpdate ==
  ASSUME NEW r \in Task
  PROVE  /\ \A v \in Places : [r EXCEPT !.at = v] \in Task
         /\ \A v \in Drops \cup {None} : [r EXCEPT !.drop = v] \in Task
  BY Zenon DEF Task

LEMMA SnapshotTyped ==
  ASSUME NEW j \in [Drops -> Entry \cup {None}], NEW lane
  PROVE  /\ Snapshot(j, lane) \in Wakes
         /\ Announce(j, lane) \in Task
         /\ DOMAIN Snapshot(j, lane) = TerminalUnannounced(j, {lane})
  <1>1. /\ TerminalUnannounced(j, {lane}) \in SUBSET Drops
        /\ \A d \in TerminalUnannounced(j, {lane}) : j[d].attempts \in Nat
    BY DEF TerminalUnannounced, Entry
  <1>2. Snapshot(j, lane) \in [TerminalUnannounced(j, {lane}) -> Nat]
    BY <1>1 DEF Snapshot
  <1>3. Snapshot(j, lane) \in Wakes
    BY <1>1, <1>2 DEF Wakes
  <1>4. Announce(j, lane) \in Task
    BY <1>3, NothingTyped DEF Announce, Task, Places, States
  <1> QED BY <1>2, <1>3, <1>4

LEMMA FinalizeTyped ==
  ASSUME NEW j, NEW r, NEW d \in Drops, NEW state \in TerminalStates
  PROVE  Finalize(r, j, d, state) \in Task
  BY NothingTyped DEF Finalize, Task, Places, States

LEMMA EntryUpdate ==
  ASSUME NEW e \in Entry
  PROVE  /\ \A v \in States : [e EXCEPT !.state = v] \in Entry
         /\ \A v \in {"never", "recent", "old"} : [e EXCEPT !.announced = v] \in Entry
         /\ \A v \in Nat : [e EXCEPT !.attempts = v] \in Entry
         /\ \A v \in BOOLEAN : [e EXCEPT !.claimed = v] \in Entry
         /\ \A v \in BOOLEAN : [e EXCEPT !.editFailed = v] \in Entry
         /\ \A v \in {"", "text", "files"} : [e EXCEPT !.kind = v] \in Entry
  BY Zenon DEF Entry

LEMMA EntryTyped == CreateEntry \in Entry /\ \A e \in Entry : e # None
  BY NamesAssumption DEF CreateEntry, Entry, States

-----------------------------------------------------------------------------
(* What a step makes of an entry *)

\* Only what finalization, the wake, an edit, the waiter and a claim write.
Writes(e, f) ==
  /\ e = None => f \in {None, CreateEntry}
  /\ e # None =>
       /\ f \in Entry
       /\ f.state = e.state \/ f.state \in TerminalStates
       /\ e.state \in TerminalStates => f.state \in TerminalStates
       /\ e.attempts > 0 => f.attempts > 0

LEMMA WritesSame ==
  ASSUME NEW e \in Entry \cup {None}
  PROVE  Writes(e, e)
  BY DEF Writes

LEMMA WritesRow ==
  ASSUME journal \in [Drops -> Entry \cup {None}], NEW d \in Drops, NEW f,
         Writes(journal[d], f), journal' = [journal EXCEPT ![d] = f]
  PROVE  /\ journal' \in [Drops -> Entry \cup {None}]
         /\ journal'[d] = f /\ \A c \in Drops \ {d} : journal'[c] = journal[c]
         /\ \A c \in Drops : Writes(journal[c], journal'[c])
  <1>1. f \in Entry \cup {None}
    BY EntryTyped DEF Writes
  <1>2. /\ journal' \in [Drops -> Entry \cup {None}]
        /\ journal'[d] = f /\ \A c \in Drops \ {d} : journal'[c] = journal[c]
    BY <1>1
  <1> QED BY <1>2, WritesSame

LEMMA GraceWrites ==
  ASSUME RInv, NEW d \in Drops, GracePasses(d)
  PROVE  /\ journal' \in [Drops -> Entry \cup {None}]
         /\ \A c \in Drops : Writes(journal[c], journal'[c])
         /\ \A c \in Drops \ {d} : journal'[c] = journal[c]
         /\ journal[d] # None
         /\ journal'[d] = [journal[d] EXCEPT !.announced = "old"]
         /\ journal[d].announced = "recent"
  <1>1. PICK f : /\ f = [journal[d] EXCEPT !.announced = "old"]
                 /\ journal' = [journal EXCEPT ![d] = f]
    BY DEF GracePasses
  <1>2. journal[d] \in Entry /\ journal \in [Drops -> Entry \cup {None}]
    BY DEF RInv, Typed, GracePasses
  <1>3. f \in Entry
    BY <1>1, <1>2, EntryUpdate
  <1>4. f.state = journal[d].state /\ f.attempts = journal[d].attempts
    BY <1>1, <1>2, Zenon DEF Entry
  <1>5. Writes(journal[d], f)
    BY <1>2, <1>3, <1>4 DEF Writes, GracePasses
  <1> QED BY <1>1, <1>2, <1>5, WritesRow DEF GracePasses

LEMMA PostWrites ==
  ASSUME RInv, NEW d \in Drops, PostAnswered(d)
  PROVE  /\ journal' \in [Drops -> Entry \cup {None}]
         /\ \A c \in Drops : Writes(journal[c], journal'[c])
         /\ \A c \in Drops \ {d} : journal'[c] = journal[c]
         /\ journal'[d] = CreateEntry /\ journal[d] = None
  <1>1. journal[d] = None /\ journal \in [Drops -> Entry \cup {None}]
    BY DEF RInv, Typed, World, PostAnswered, Creating
  <1>2. PICK f : f = CreateEntry /\ journal' = [journal EXCEPT ![d] = f]
    BY DEF PostAnswered
  <1>3. Writes(journal[d], f)
    BY <1>1, <1>2 DEF Writes
  <1> QED BY <1>1, <1>2, <1>3, WritesRow

LEMMA EditWrites ==
  ASSUME RInv, NEW a \in Actors, NEW ok \in BOOLEAN, EditAnswered(a, ok)
  PROVE  LET d == run[a].drop
         IN /\ d \in Drops /\ journal[d] # None
            /\ journal' \in [Drops -> Entry \cup {None}]
            /\ \A c \in Drops : Writes(journal[c], journal'[c])
            /\ \A c \in Drops \ {d} : journal'[c] = journal[c]
            /\ journal'[d].state = run[a].state /\ run[a].state \in TerminalStates
            /\ journal'[d].editFailed = ~ok
            /\ journal'[d].attempts = journal[d].attempts
            /\ journal'[d].announced = journal[d].announced
            /\ journal'[d].kind = journal[d].kind
            /\ journal'[d].claimed = journal[d].claimed
            /\ run[a].at \in Finalizing /\ (ok => run[a].at = "edited")
  <1> DEFINE d == run[a].drop
  <1>1. /\ run[a].at \in Finalizing /\ (ok => run[a].at = "edited")
        /\ d \in Drops /\ journal[d] # None /\ run[a].state \in TerminalStates
        /\ journal \in [Drops -> Entry \cup {None}]
    BY DEF RInv, Typed, Carries, EditAnswered, Finalizing
  <1>2. PICK f : /\ f = [journal[d] EXCEPT !.state = run[a].state, !.editFailed = ~ok]
                 /\ journal' = Update(journal, d, f)
    BY DEF EditAnswered
  <1>3. journal[d] \in Entry /\ run[a].state \in States
    BY <1>1 DEF States
  <1>4. f \in Entry
    <2>1. PICK one \in Entry : one = [journal[d] EXCEPT !.state = run[a].state]
      BY <1>3, EntryUpdate
    <2>2. f = [one EXCEPT !.editFailed = ~ok]
      BY <1>2, <2>1
    <2> QED BY <2>2, EntryUpdate
  <1>5. /\ f.state = run[a].state /\ f.editFailed = ~ok /\ f.attempts = journal[d].attempts
        /\ f.announced = journal[d].announced /\ f.kind = journal[d].kind
        /\ f.claimed = journal[d].claimed
    BY <1>2, <1>3, Zenon DEF Entry
  <1>6. Writes(journal[d], f)
    BY <1>1, <1>4, <1>5 DEF Writes
  <1>7. journal' = [journal EXCEPT ![d] = f]
    BY <1>1, <1>2 DEF Update
  <1> HIDE DEF d
  <1> QED BY <1>1, <1>5, <1>6, <1>7, WritesRow DEF d

LEMMA WaiterWrites ==
  ASSUME RInv, NEW d \in Drops, NEW state \in TerminalStates, WaiterAnswered(d, state)
  PROVE  /\ journal' \in [Drops -> Entry \cup {None}]
         /\ \A c \in Drops : Writes(journal[c], journal'[c])
         /\ \A c \in Drops \ {d} : journal'[c] = journal[c]
         /\ journal[d] = None => journal'[d] = None
         /\ journal[d] # None =>
              /\ journal'[d] # None
              /\ journal'[d].state = journal[d].state
              /\ journal'[d].editFailed = journal[d].editFailed
              /\ journal'[d].attempts = journal[d].attempts
              /\ journal'[d].announced = journal[d].announced
              /\ journal'[d].claimed = journal[d].claimed
              /\ journal'[d].kind \in {journal[d].kind, Kind[d]}
         /\ run' = [run EXCEPT ![d] = Finalize(run[d], journal', d, state)]
  <1>1. /\ journal \in [Drops -> Entry \cup {None}]
        /\ run' = [run EXCEPT ![d] = Finalize(run[d], journal', d, state)]
    BY DEF RInv, Typed, WaiterAnswered
  <1>2. CASE journal' = journal
    BY <1>1, <1>2, WritesSame, EntryTyped
  <1>3. CASE journal' # journal
    <2>1. PICK f : /\ f = [journal[d] EXCEPT !.kind = Kind[d]] /\ journal[d] # None
                   /\ journal' = [journal EXCEPT ![d] = f]
      BY <1>3 DEF WaiterAnswered
    <2>2. journal[d] \in Entry /\ Kind[d] \in {"", "text", "files"}
      BY <1>1, <2>1, KindAssumption
    <2>3. f \in Entry
      BY <2>1, <2>2, EntryUpdate
    <2>4. /\ f.state = journal[d].state /\ f.editFailed = journal[d].editFailed
          /\ f.attempts = journal[d].attempts /\ f.announced = journal[d].announced
          /\ f.claimed = journal[d].claimed /\ f.kind = Kind[d]
      BY <2>1, <2>2, Zenon DEF Entry
    <2>5. Writes(journal[d], f)
      BY <2>1, <2>3, <2>4 DEF Writes
    <2> QED BY <1>1, <2>1, <2>3, <2>4, <2>5, WritesRow, EntryTyped
  <1> QED BY <1>2, <1>3

LEMMA ClaimWrites ==
  ASSUME RInv, NEW d \in Drops, Record(d)
  PROVE  /\ journal' \in [Drops -> Entry \cup {None}]
         /\ \A c \in Drops : Writes(journal[c], journal'[c])
         /\ \A c \in Drops \ {d} : journal'[c] = journal[c]
         /\ journal[d] = None => journal'[d] = None
         /\ journal[d] # None =>
              /\ journal'[d] # None
              /\ journal'[d].state = journal[d].state
              /\ journal'[d].editFailed = journal[d].editFailed
              /\ journal'[d].attempts = journal[d].attempts
              /\ journal'[d].announced = journal[d].announced
              /\ journal'[d].kind = journal[d].kind
  <1>1. journal \in [Drops -> Entry \cup {None}]
    BY DEF RInv, Typed
  <1>2. CASE journal[d] = None
    <2>1. journal' = journal
      BY <1>2 DEF Record, Update
    <2> QED BY <1>1, <1>2, <2>1, WritesSame
  <1>3. CASE journal[d] # None
    <2>1. PICK f : /\ f = [journal[d] EXCEPT !.claimed = TRUE]
                   /\ journal' = [journal EXCEPT ![d] = f]
      BY <1>3 DEF Record, Update
    <2>2. journal[d] \in Entry
      BY <1>1, <1>3
    <2>3. f \in Entry
      BY <2>1, <2>2, EntryUpdate
    <2>4. /\ f.state = journal[d].state /\ f.editFailed = journal[d].editFailed
          /\ f.attempts = journal[d].attempts /\ f.announced = journal[d].announced
          /\ f.kind = journal[d].kind
      BY <2>1, <2>2, Zenon DEF Entry
    <2>5. Writes(journal[d], f)
      BY <1>3, <2>3, <2>4 DEF Writes
    <2> QED BY <1>1, <1>3, <2>1, <2>3, <2>4, <2>5, WritesRow, EntryTyped
  <1> QED BY <1>2, <1>3

\* What a pointwise rewriting of the journal leaves alone.
LEMMA WritesAll ==
  ASSUME journal \in [Drops -> Entry \cup {None}],
         journal' = [d \in Drops |-> journal'[d]],
         \A d \in Drops : Writes(journal[d], journal'[d])
  PROVE  journal' \in [Drops -> Entry \cup {None}]
  BY EntryTyped DEF Writes

LEMMA WakeWrites ==
  ASSUME RInv, NEW a \in Actors, NEW ok \in BOOLEAN, WakeAnswered(a, ok)
  PROVE  /\ journal' \in [Drops -> Entry \cup {None}]
         /\ \A d \in Drops : Writes(journal[d], journal'[d])
         /\ \A d \in Drops \ DOMAIN run[a].pending : journal'[d] = journal[d]
         /\ DOMAIN run[a].pending \subseteq Drops /\ run[a].at = "waking"
         /\ \A d \in DOMAIN run[a].pending :
              /\ journal[d] # None /\ journal'[d] # None
              /\ journal'[d].state = journal[d].state
              /\ journal'[d].editFailed = journal[d].editFailed
              /\ journal'[d].attempts > 0
              /\ journal'[d].kind = journal[d].kind
              /\ journal'[d].claimed = journal[d].claimed
  <1>1. /\ journal \in [Drops -> Entry \cup {None}] /\ run[a].pending \in Wakes
        /\ run[a].at = "waking" /\ \A d \in DOMAIN run[a].pending : journal[d] # None
    BY TaskRead DEF RInv, Typed, Carries, WakeAnswered
  <1>2. /\ DOMAIN run[a].pending \subseteq Drops
        /\ \A d \in DOMAIN run[a].pending : run[a].pending[d] \in Nat
    BY <1>1, WakesRead
  <1>3. ASSUME NEW d \in DOMAIN run[a].pending
        PROVE  /\ Writes(journal[d], journal'[d])
               /\ journal[d] # None /\ journal'[d] # None
               /\ journal'[d].state = journal[d].state
               /\ journal'[d].editFailed = journal[d].editFailed
               /\ journal'[d].attempts > 0
               /\ journal'[d].kind = journal[d].kind
               /\ journal'[d].claimed = journal[d].claimed
    <2>1. d \in Drops /\ journal[d] \in Entry /\ journal[d] # None
      BY <1>1, <1>2
    <2>2. PICK n \in Nat : n = run[a].pending[d] + 1 /\ n > 0
      BY <1>2
    <2>3. journal'[d] = [journal[d] EXCEPT !.attempts = run[a].pending[d] + 1,
                                           !.announced = IF ok THEN "recent" ELSE @]
      BY <2>1 DEF WakeAnswered
    <2>4. PICK f : /\ f = [journal[d] EXCEPT !.attempts = n,
                                             !.announced = IF ok THEN "recent" ELSE @]
                   /\ journal'[d] = f
      BY <2>2, <2>3
    <2>5. f \in Entry
      <3>1. PICK one \in Entry : one = [journal[d] EXCEPT !.attempts = n]
        BY <2>1, EntryUpdate
      <3>2. PICK v \in {"never", "recent", "old"} :
              v = IF ok THEN "recent" ELSE journal[d].announced
        BY <2>1 DEF Entry
      <3>3. f = [one EXCEPT !.announced = v]
        BY <2>1, <2>4, <3>1, <3>2, Zenon DEF Entry
      <3> QED BY <3>3, EntryUpdate
    <2>6. /\ f.state = journal[d].state /\ f.editFailed = journal[d].editFailed
          /\ f.attempts = n /\ f.kind = journal[d].kind /\ f.claimed = journal[d].claimed
      BY <2>1, <2>4, Zenon DEF Entry
    <2>7. Writes(journal[d], f)
      BY <2>1, <2>2, <2>5, <2>6 DEF Writes
    <2> QED BY <2>1, <2>2, <2>4, <2>5, <2>6, <2>7, EntryTyped
  <1>4. \A d \in Drops \ DOMAIN run[a].pending : journal'[d] = journal[d]
    BY DEF WakeAnswered
  <1>5. \A d \in Drops : Writes(journal[d], journal'[d])
    BY <1>1, <1>3, <1>4, WritesSame
  <1>6. journal' = [d \in Drops |-> journal'[d]]
    BY DEF WakeAnswered
  <1> QED BY <1>1, <1>2, <1>3, <1>4, <1>5, <1>6, WritesAll

LEMMA ReeditWrites ==
  ASSUME RInv, NEW ok \in BOOLEAN, ReeditAnswered(ok)
  PROVE  LET d == run[Pass].drop
         IN /\ d \in Drops /\ journal[d] # None /\ journal'[d] # None
            /\ journal' \in [Drops -> Entry \cup {None}]
            /\ \A c \in Drops : Writes(journal[c], journal'[c])
            /\ \A c \in Drops \ {d} : journal'[c] = journal[c]
            /\ journal'[d].state = journal[d].state
            /\ journal'[d].editFailed = journal[d].editFailed \/ ok
            /\ journal'[d].attempts = journal[d].attempts
            /\ journal'[d].announced = journal[d].announced
            /\ journal'[d].kind = journal[d].kind
            /\ journal'[d].claimed = journal[d].claimed
            /\ run[Pass].at \in Reediting /\ (ok => run[Pass].at = "reedited")
  <1> DEFINE d == run[Pass].drop
  <1>1. /\ run[Pass].at \in Reediting /\ (ok => run[Pass].at = "reedited")
        /\ d \in Drops /\ journal[d] # None /\ journal \in [Drops -> Entry \cup {None}]
    BY DEF RInv, Typed, Carries, ReeditAnswered, Reediting, Actors
  <1>2. CASE ok
    <2>1. PICK f : /\ f = [journal[d] EXCEPT !.editFailed = FALSE]
                   /\ journal' = [journal EXCEPT ![d] = f]
      BY <1>2 DEF ReeditAnswered
    <2>2. journal[d] \in Entry
      BY <1>1
    <2>3. f \in Entry
      BY <2>1, <2>2, EntryUpdate
    <2>4. /\ f.state = journal[d].state /\ f.attempts = journal[d].attempts
          /\ f.announced = journal[d].announced /\ f.kind = journal[d].kind
          /\ f.claimed = journal[d].claimed
      BY <2>1, <2>2, Zenon DEF Entry
    <2>5. Writes(journal[d], f)
      BY <1>1, <2>3, <2>4 DEF Writes
    <2> HIDE DEF d
    <2> QED BY <1>1, <1>2, <2>1, <2>3, <2>4, <2>5, WritesRow, EntryTyped DEF d
  <1>3. CASE ~ok
    <2>1. journal' = journal
      BY <1>3 DEF ReeditAnswered
    <2> QED BY <1>1, <2>1, WritesSame
  <1> QED BY <1>2, <1>3

LEMMA ReclaimWrites ==
  ASSUME RInv, ReclaimSweep
  PROVE  /\ journal' \in [Drops -> Entry \cup {None}]
         /\ \A d \in Drops : Writes(journal[d], journal'[d])
         /\ \A d \in Drops : journal[d] = None => journal'[d] = None
         /\ \A d \in Drops : journal[d] # None =>
              /\ journal'[d] # None
              /\ journal'[d].state = journal[d].state
              /\ journal'[d].editFailed = journal[d].editFailed
              /\ journal'[d].attempts = journal[d].attempts
              /\ journal'[d].announced \in {journal[d].announced, "never"}
              /\ journal'[d].kind = journal[d].kind
              /\ journal'[d].claimed = journal[d].claimed
  <1>1. journal \in [Drops -> Entry \cup {None}]
    BY DEF RInv, Typed
  <1>2. ASSUME NEW d \in Drops
        PROVE  /\ Writes(journal[d], journal'[d])
               /\ journal[d] = None => journal'[d] = None
               /\ journal[d] # None =>
                    /\ journal'[d] # None
                    /\ journal'[d].state = journal[d].state
                    /\ journal'[d].editFailed = journal[d].editFailed
                    /\ journal'[d].attempts = journal[d].attempts
                    /\ journal'[d].announced \in {journal[d].announced, "never"}
                    /\ journal'[d].kind = journal[d].kind
                    /\ journal'[d].claimed = journal[d].claimed
    <2>1. CASE journal'[d] = journal[d]
      BY <1>1, <2>1, WritesSame
    <2>2. CASE journal'[d] # journal[d]
      <3>1. Reclaimed(d) /\ journal'[d] = [journal[d] EXCEPT !.announced = "never"]
        BY <2>2 DEF ReclaimSweep
      <3>2. journal[d] \in Entry /\ journal[d] # None
        BY <1>1, <3>1 DEF ReclaimSweep, Reclaimed, RInv, Old
      <3>3. PICK f : f = [journal[d] EXCEPT !.announced = "never"] /\ journal'[d] = f
        BY <3>1
      <3>4. f \in Entry
        BY <3>2, <3>3, EntryUpdate
      <3>5. /\ f.state = journal[d].state /\ f.editFailed = journal[d].editFailed
            /\ f.attempts = journal[d].attempts /\ f.announced = "never"
            /\ f.kind = journal[d].kind /\ f.claimed = journal[d].claimed
        BY <3>2, <3>3, Zenon DEF Entry
      <3>6. Writes(journal[d], f)
        BY <3>2, <3>4, <3>5 DEF Writes
      <3> QED BY <3>2, <3>3, <3>4, <3>5, <3>6, EntryTyped
    <2> QED BY <2>1, <2>2
  <1>3. journal' = [d \in Drops |-> journal'[d]]
    BY DEF ReclaimSweep
  <1> QED BY <1>1, <1>2, <1>3, WritesAll

-----------------------------------------------------------------------------
(* What only grows, and what it keeps *)

Grows ==
  \A d \in Drops :
    /\ d \in submitted => d \in submitted'
    /\ d \in lapsed => d \in lapsed'
    /\ broker[d] = "gone" => broker'[d] = "gone"
    /\ Writes(journal[d], journal'[d])
    /\ journal[d] # None /\ chat[d] # "waiting" => chat'[d] # "waiting"

LEMMA RowsSame ==
  ASSUME Typed, UNCHANGED journal
  PROVE  \A d \in Drops : Writes(journal[d], journal'[d])
  BY WritesSame DEF Typed

LEMMA EntryStays ==
  ASSUME Typed, NEW d \in Drops, Writes(journal[d], journal'[d]), journal[d] # None
  PROVE  /\ journal'[d] # None /\ journal[d] \in Entry /\ journal'[d] \in Entry
         /\ journal[d].state \in TerminalStates => journal'[d].state \in TerminalStates
         /\ journal[d].attempts > 0 => journal'[d].attempts > 0
  BY EntryTyped DEF Typed, Writes

LEMMA CarriesKept ==
  ASSUME RInv, Grows, NEW a \in Actors, run'[a] = run[a]
  PROVE  Carries(a)'
  <1>1. Carries(a) /\ Typed /\ run[a] \in Task
    BY DEF RInv, Typed
  <1>2. CASE run[a].at = "waking"
    <2>1. DOMAIN run[a].pending \subseteq Drops
      BY <1>1, TaskRead, WakesRead
    <2>2. \A d \in DOMAIN run[a].pending : journal'[d] # None
      BY <1>1, <1>2, <2>1, EntryStays DEF Carries, Grows
    <2> QED BY <1>2, <2>2 DEF Carries, Finalizing, Reediting
  <1>3. CASE run[a].at \in {"probing"} \cup Finalizing \cup Reediting
    <2>1. run[a].drop \in Drops /\ journal[run[a].drop] # None
      BY <1>1, <1>3 DEF Carries
    <2>2. journal'[run[a].drop] # None
      BY <1>1, <2>1, EntryStays DEF Grows
    <2> QED BY <1>1, <1>3, <2>1, <2>2 DEF Carries, Grows, Finalizing, Reediting
  <1>4. CASE run[a].at \notin {"probing", "waking"} \cup Finalizing \cup Reediting
    BY <1>4 DEF Carries, Finalizing, Reediting
  <1> QED BY <1>2, <1>3, <1>4

LEMMA WaiterAtKept ==
  ASSUME RInv, Grows, NEW d \in Drops, run'[d] = run[d]
  PROVE  WaiterAt(d)'
  <1>1. WaiterAt(d) /\ Typed
    BY DEF RInv
  <1>2. Has(d, TerminalStates) => Has(d, TerminalStates)'
    BY <1>1, EntryStays DEF Has, Grows
  <1> QED BY <1>1, <1>2 DEF WaiterAt

LEMMA PassPlacesKept ==
  ASSUME RInv, run'[Pass] = run[Pass], UNCHANGED editRetries,
         latch'.started = latch.started, sweep'.phase = sweep.phase,
         sweep'.todo \subseteq sweep.todo
  PROVE  PassPlaces'
  BY DEF RInv, PassPlaces

\* What the pass has read is still true of the drop.
LEMMA OldKept ==
  ASSUME RInv, Grows, NEW d \in Drops, editRetries'[d] = editRetries[d],
         sweep'.phase = sweep.phase, sweep'.seen = sweep.seen,
         d \in sweep'.todo => d \in sweep.todo,
         d \in sweep'.lapsed => d \in sweep.lapsed,
         d \in sweep'.announced => d \in sweep.announced
  PROVE  Old(d)'
  <1>1. Old(d) /\ Typed
    BY DEF RInv
  <1>2. journal[d] # None => /\ journal'[d] # None
                             /\ journal[d].attempts > 0 => journal'[d].attempts > 0
    BY <1>1, EntryStays DEF Grows
  <1> QED BY <1>1, <1>2 DEF Old, Grows

LEMMA ToldKept ==
  ASSUME RInv, Grows, NEW d \in Drops, Told(d),
         Has(d, TerminalStates)' => Has(d, TerminalStates),
         Tells(d, d) => Tells(d, d)' \/ journal'[d].attempts > 0,
         Tells(Pass, d) => Tells(Pass, d)' \/ journal'[d].attempts > 0
  PROVE  Told(d)'
  <1>1. Typed
    BY DEF RInv
  <1>2. CASE ~Has(d, TerminalStates)
    BY <1>2 DEF Told
  <1>3. CASE Has(d, TerminalStates)
    <2>1. journal[d].attempts > 0 => journal'[d].attempts > 0
      BY <1>1, <1>3, EntryStays DEF Has, Grows
    <2> QED BY <1>3, <2>1 DEF Told
  <1> QED BY <1>2, <1>3

LEMMA AnnouncedKept ==
  ASSUME RInv, Grows, NEW d \in Drops, Announced(d), Told(d) => Told(d)',
         run'[d].at # "idle" => run[d].at # "idle",
         run'[Pass].at = run[Pass].at, run'[Pass].drop = run[Pass].drop,
         sweep'.phase = sweep.phase, sweep'.todo = sweep.todo,
         sweep.lanes # {} => sweep'.lanes # {}
  PROVE  Announced(d)'
  BY DEF Announced

LEMMA WatchedKept ==
  ASSUME RInv, NEW d \in Drops, Watched(d), UNCHANGED latch,
         Has(d, {"waiting"})' => Has(d, {"waiting"}), run'[d].at = "idle" => run[d].at = "idle",
         run'[Pass].at = run[Pass].at, run'[Pass].drop = run[Pass].drop,
         sweep'.phase = sweep.phase, sweep'.todo = sweep.todo,
         sweep.undecided => sweep'.undecided, sweep.lanes # {} => sweep'.lanes # {}
  PROVE  Watched(d)'
  BY DEF Watched

LEMMA StillFaultless ==
  ASSUME RInv, faults'.write <= faults.write, Faultless'
  PROVE  Faultless
  BY FaultAssumption DEF Faultless, RInv, Typed, Faults

\* A step that changes no coroutine, nothing of the pass and no state of an entry
\* answers for the drop it touches only.
LEMMA QuietStep ==
  ASSUME RInv, Grows, Typed', UNCHANGED <<run, sweep, latch, editRetries>>,
         faults'.write <= faults.write,
         \A d \in Drops : World(d)' /\ Row(d)',
         \A d \in Drops : /\ Has(d, TerminalStates)' => Has(d, TerminalStates)
                          /\ Has(d, {"waiting"})' => Has(d, {"waiting"})
  PROVE  RInv'
  <1>1. \A d \in Drops : WaiterAt(d)' /\ Old(d)'
    BY WaiterAtKept, OldKept
  <1>2. \A a \in Actors : Carries(a)'
    BY CarriesKept
  <1>3. PassPlaces'
    BY PassPlacesKept
  <1>4. ASSUME Faultless', NEW d \in Drops
        PROVE  Announced(d)' /\ Watched(d)'
    <2>1. Announced(d) /\ Watched(d)
      BY <1>4, StillFaultless DEF RInv
    <2>2. Told(d) => Told(d)'
      BY ToldKept DEF Tells
    <2>3. Announced(d)'
      BY <2>1, <2>2, AnnouncedKept
    <2>4. Watched(d)'
      BY <2>1, WatchedKept
    <2> QED BY <2>3, <2>4
  <1> QED BY <1>1, <1>2, <1>3, <1>4 DEF RInv

LEMMA CalmStep ==
  ASSUME RInv, Grows, Typed', UNCHANGED <<run, journal, sweep, latch, editRetries>>,
         faults'.write <= faults.write,
         \A d \in Drops : World(d)' /\ Row(d)'
  PROVE  RInv'
  <1>1. \A d \in Drops : /\ Has(d, TerminalStates)' => Has(d, TerminalStates)
                         /\ Has(d, {"waiting"})' => Has(d, {"waiting"})
    BY DEF Has
  <1> QED BY <1>1, QuietStep

LEMMA WorldKept ==
  ASSUME RInv, NEW d \in Drops, UNCHANGED <<env, creating>>,
         journal[d] = None => journal'[d] = None
  PROVE  World(d)'
  BY DEF RInv, World, env

LEMMA RowKept ==
  ASSUME RInv, NEW d \in Drops, UNCHANGED <<env>>, chat'[d] = chat[d],
         claiming'[d] = claiming[d], journal'[d] = journal[d]
  PROVE  Row(d)'
  BY DEF RInv, Row, Has, env

\* An entry whose state and edit outcome stay.
LEMMA RowRewritten ==
  ASSUME RInv, NEW d \in Drops, UNCHANGED <<env>>, chat'[d] = chat[d],
         claiming'[d] \in {claiming[d], "idle"},
         journal[d] # None, journal'[d] # None, journal'[d].state = journal[d].state,
         journal'[d].editFailed = journal[d].editFailed,
         journal'[d].kind \in {journal[d].kind, Kind[d]},
         journal'[d].claimed => broker[d] = "gone",
         journal'[d].announced # "never" => journal'[d].attempts > 0
  PROVE  Row(d)'
  BY DEF RInv, Row, Has, env

LEMMA RunSet ==
  ASSUME Typed, NEW a \in Actors, NEW q \in Task, run' = [run EXCEPT ![a] = q]
  PROVE  /\ run' \in [Actors -> Task]
         /\ run'[a] = q /\ \A b \in Actors \ {a} : run'[b] = run[b]
  BY DEF Typed

LEMMA DropsAct == \A d \in Drops : d \in Actors /\ d # Pass
  BY NamesAssumption DEF Actors

\* A step of the waiter of d answers for d.
LEMMA WaiterMoves ==
  ASSUME RInv, Grows, Typed', NEW d \in Drops,
         \A b \in Actors \ {d} : run'[b] = run[b],
         UNCHANGED <<sweep, latch, editRetries>>, faults'.write <= faults.write,
         \A c \in Drops : World(c)' /\ Row(c)',
         \A c \in Drops \ {d} : /\ Has(c, TerminalStates)' => Has(c, TerminalStates)
                                /\ Has(c, {"waiting"})' => Has(c, {"waiting"}),
         Carries(d)', WaiterAt(d)',
         Faultless' => Told(d)',
         Faultless' /\ run'[d].at = "idle" => ~Has(d, {"waiting"})'
  PROVE  RInv'
  <1>1. \A c \in Drops : WaiterAt(c)' /\ Old(c)'
    BY WaiterAtKept, OldKept, DropsAct
  <1>2. \A a \in Actors : Carries(a)'
    BY CarriesKept
  <1>3. run'[Pass] = run[Pass] /\ PassPlaces'
    BY PassPlacesKept, DropsAct DEF Actors
  <1>4. ASSUME Faultless', NEW c \in Drops
        PROVE  Announced(c)' /\ Watched(c)'
    <2>1. Announced(c) /\ Watched(c)
      BY <1>4, StillFaultless DEF RInv
    <2>2. CASE c = d
      BY <1>3, <1>4, <2>1, <2>2 DEF Announced, Watched
    <2>3. CASE c # d
      <3>1. run'[c] = run[c]
        BY <2>3, DropsAct
      <3>2. Told(c) => Told(c)'
        BY <1>3, <2>3, <3>1, ToldKept DEF Tells
      <3>3. Announced(c)'
        BY <1>3, <2>1, <3>1, <3>2, AnnouncedKept
      <3>4. Watched(c)'
        BY <1>3, <2>1, <2>3, <3>1, WatchedKept
      <3> QED BY <3>3, <3>4
    <2> QED BY <2>2, <2>3
  <1> QED BY <1>1, <1>2, <1>3, <1>4 DEF RInv

\* A step of the pass leaves the waiters alone.
LEMMA PassMoves ==
  ASSUME RInv, Grows, Typed', \A c \in Drops : run'[c] = run[c],
         faults'.write <= faults.write,
         \A c \in Drops : World(c)' /\ Row(c)' /\ Old(c)',
         Carries(Pass)', PassPlaces',
         Faultless' => \A c \in Drops : Announced(c) /\ Watched(c) => Announced(c)' /\ Watched(c)'
  PROVE  RInv'
  <1>1. \A c \in Drops : WaiterAt(c)'
    BY WaiterAtKept
  <1>2. \A a \in Actors : Carries(a)'
    BY CarriesKept DEF Actors
  <1>3. Faultless' => \A c \in Drops : Announced(c)' /\ Watched(c)'
    BY StillFaultless DEF RInv
  <1> QED BY <1>1, <1>2, <1>3 DEF RInv

LEMMA SpendTyped ==
  ASSUME RInv, NEW kind \in {"gateway", "broker", "write", "cancel", "lane"}, Spend(kind)
  PROVE  /\ faults' \in Faults /\ faults'.write <= faults.write /\ faults'.write <= WriteFaults
         /\ kind = "write" => faults'.write < faults.write
         /\ kind # "write" => faults'.write = faults.write
  <1>1. faults \in Faults /\ faults.write <= WriteFaults
    BY DEF RInv, Typed
  <1>2. PICK n \in Nat, m \in Nat : n = faults[kind] - 1 /\ m = faults.all - 1
    <2>1. faults[kind] \in Nat /\ faults.all \in Nat
      BY <1>1 DEF Faults
    <2>2. faults[kind] > 0 /\ faults.all > 0
      BY DEF Spend
    <2> QED BY <2>1, <2>2
  <1>3. faults' = [faults EXCEPT ![kind] = n, !.all = m]
    BY <1>2 DEF Spend
  <1>4. faults' \in Faults
    BY <1>1, <1>2, <1>3, Zenon DEF Faults
  <1>5. faults'.write = IF kind = "write" THEN n ELSE faults.write
    BY <1>1, <1>3, Zenon DEF Faults
  <1>6. faults.write \in Nat
    BY <1>1 DEF Faults
  <1> QED BY <1>1, <1>2, <1>4, <1>5, <1>6, FaultAssumption

-----------------------------------------------------------------------------
(* The world around *)

LEMMA SubmitStep ==
  ASSUME RInv, NEW d \in Drops, Submit(d)
  PROVE  RInv'
  <1>1. /\ Typed /\ broker[d] = "pending"
        /\ broker' = [broker EXCEPT ![d] = "submitted"] /\ submitted' = submitted \cup {d}
        /\ UNCHANGED <<lapsed, chat, journal, creating, claiming, run, sweep, mem, faults>>
    BY DEF RInv, Submit
  <1>2. Typed'
    BY <1>1 DEF Typed, mem
  <1>3. Grows
    BY <1>1, RowsSame DEF Typed, Grows
  <1>4. \A c \in Drops : World(c)' /\ Row(c)'
    BY <1>1 DEF RInv, Typed, World, Row, Has
  <1> QED BY <1>1, <1>2, <1>3, <1>4, CalmStep, FaultAssumption DEF mem, Typed, Faults

LEMMA LapseStep ==
  ASSUME RInv, NEW d \in Drops, Lapse(d)
  PROVE  RInv'
  <1>1. /\ Typed /\ broker[d] # "none"
        /\ broker' = [broker EXCEPT ![d] = "gone"] /\ lapsed' = lapsed \cup {d}
        /\ UNCHANGED <<submitted, chat, journal, creating, claiming, run, sweep, mem, faults>>
    BY DEF RInv, Lapse
  <1>2. Typed'
    BY <1>1 DEF Typed, mem
  <1>3. Grows
    BY <1>1, RowsSame DEF Typed, Grows
  <1>4. \A c \in Drops : World(c)' /\ Row(c)'
    BY <1>1 DEF RInv, Typed, World, Row, Has
  <1> QED BY <1>1, <1>2, <1>3, <1>4, CalmStep DEF mem, Typed, Faults

LEMMA BrokerCrashStep ==
  ASSUME RInv, BrokerCrashes
  PROVE  RInv'
  <1>1. /\ Typed
        /\ broker' = [d \in Drops |-> IF broker[d] = "none" THEN "none" ELSE "gone"]
        /\ UNCHANGED <<lapsed, submitted, chat, journal, creating, claiming, run, sweep, mem>>
        /\ faults' \in Faults /\ faults'.write <= faults.write /\ faults'.write <= WriteFaults
    BY SpendTyped DEF RInv, BrokerCrashes
  <1>2. Typed'
    BY <1>1 DEF Typed, mem
  <1>3. Grows
    BY <1>1, RowsSame DEF Typed, Grows
  <1>4. \A c \in Drops : World(c)' /\ Row(c)'
    BY <1>1 DEF RInv, Typed, World, Row, Has
  <1> QED BY <1>1, <1>2, <1>3, <1>4, CalmStep DEF mem

LEMMA LaneGoesStep ==
  ASSUME RInv, NEW lane \in Lanes, LaneGoes(lane)
  PROVE  RInv'
  <1>1. /\ Typed /\ resolvable' = resolvable \ {lane}
        /\ UNCHANGED <<env, chat, journal, creating, claiming, run, sweep, latch, editRetries>>
        /\ faults' \in Faults /\ faults'.write <= faults.write /\ faults'.write <= WriteFaults
    BY SpendTyped DEF RInv, LaneGoes
  <1>2. Typed'
    BY <1>1 DEF Typed, env
  <1>3. Grows
    BY <1>1, RowsSame DEF Typed, Grows, env
  <1>4. \A c \in Drops : World(c)' /\ Row(c)'
    BY <1>1 DEF RInv, World, Row, Has, env
  <1> QED BY <1>1, <1>2, <1>3, <1>4, CalmStep

-----------------------------------------------------------------------------
(* DropService.create, but for the entry it writes *)

LEMMA CreateMintsStep ==
  ASSUME RInv, NEW d \in Drops, NEW accepted \in BOOLEAN, CreateMints(d, accepted)
  PROVE  RInv'
  <1>1. /\ Typed /\ creating[d] = "none"
        /\ broker' = [broker EXCEPT ![d] = "pending"]
        /\ \E to \in {"posting", "over"} : creating' = [creating EXCEPT ![d] = to]
        /\ UNCHANGED <<lapsed, submitted, chat, journal, claiming, run, sweep, mem, faults>>
    BY DEF RInv, CreateMints, Creating
  <1>2. Typed'
    BY <1>1 DEF Typed, mem
  <1>3. Grows
    BY <1>1, RowsSame DEF RInv, Typed, World, Grows
  <1>4. ASSUME NEW c \in Drops PROVE World(c)' /\ Row(c)'
    <2>1. World(c) /\ Row(c)
      BY DEF RInv
    <2>2. CASE c = d
      <3>1. creating'[d] # "none" /\ broker[d] = "none" /\ broker'[d] = "pending"
        BY <1>1, <2>1, <2>2 DEF Typed, World
      <3>2. d \notin submitted /\ d \notin lapsed /\ journal[d] = None
        BY <1>1, <2>1, <2>2, <3>1 DEF World
      <3> QED BY <1>1, <2>1, <2>2, <3>1, <3>2 DEF World, Row, Has
    <2>3. CASE c # d
      BY <1>1, <2>1, <2>3 DEF Typed, World, Row, Has
    <2> QED BY <2>2, <2>3
  <1> QED BY <1>1, <1>2, <1>3, <1>4, CalmStep DEF mem, Typed, Faults

\* The post, its failure, the retraction and the cancellation: no entry is written,
\* and none is there.
LEMMA UnjournalledStep ==
  ASSUME RInv, NEW d \in Drops, NEW to \in {"posted", "retracting", "over"},
         creating[d] \in {"posting", "posted", "retracting"},
         creating' = [creating EXCEPT ![d] = to],
         chat' = chat \/ \E shown \in {"waiting", "expired"} : chat' = [chat EXCEPT ![d] = shown],
         UNCHANGED <<env, journal, claiming, run, sweep, mem>>,
         faults' \in Faults, faults'.write <= faults.write, faults'.write <= WriteFaults
  PROVE  RInv'
  <1>1. Typed /\ journal[d] = None
    BY DEF RInv, World
  <1>2. Typed'
    BY <1>1 DEF Typed, mem, env
  <1>3. Grows
    BY <1>1, RowsSame DEF Typed, Grows, env
  <1>4. ASSUME NEW c \in Drops PROVE World(c)' /\ Row(c)'
    <2>1. World(c) /\ Row(c)
      BY DEF RInv
    <2>2. creating'[c] = "none" => creating[c] = "none"
      BY <1>1 DEF Typed
    <2>3. World(c)'
      BY <1>1, <2>1, <2>2 DEF World, env, Typed
    <2>4. c # d => chat'[c] = chat[c]
      BY <1>1 DEF Typed
    <2>5. chat'[c] = chat[c] \/ chat'[c] # "received"
      BY <1>1 DEF Typed
    <2> QED BY <1>1, <2>1, <2>3, <2>4, <2>5 DEF Row, Has, env
  <1> QED BY <1>1, <1>2, <1>3, <1>4, CalmStep DEF mem

LEMMA CreateStep ==
  ASSUME RInv, NEW d \in Drops, Create(d), ~PostAnswered(d)
  PROVE  RInv'
  <1>0. faults \in Faults /\ faults.write <= faults.write /\ faults.write <= WriteFaults
    BY DEF RInv, Typed, Faults
  <1>1. CASE PostLands(d)
    BY <1>0, <1>1, UnjournalledStep DEF PostLands, Creating
  <1>2. CASE PostFails(d)
    BY <1>0, <1>2, UnjournalledStep DEF PostFails, Creating
  <1>3. CASE JournalRefuses(d)
    <2>1. faults' \in Faults /\ faults'.write <= faults.write /\ faults'.write <= WriteFaults
      BY <1>3, SpendTyped DEF JournalRefuses
    <2> QED BY <1>3, <2>1, UnjournalledStep DEF JournalRefuses, Creating
  <1>4. ASSUME NEW lands \in BOOLEAN, Retract(d, lands)
        PROVE  RInv'
    BY <1>0, <1>4, UnjournalledStep DEF Retract, Creating
  <1>5. CASE BridgeCancelsCreate(d)
    <2>1. faults' \in Faults /\ faults'.write <= faults.write /\ faults'.write <= WriteFaults
      BY <1>5, SpendTyped DEF BridgeCancelsCreate
    <2> QED BY <1>5, <2>1, UnjournalledStep DEF BridgeCancelsCreate
  <1> QED BY <1>1, <1>2, <1>3, <1>4, <1>5, CreateMintsStep DEF Create

-----------------------------------------------------------------------------
(* DropService.claim *)

LEMMA ClaimBeginsStep ==
  ASSUME RInv, NEW d \in Drops, ClaimBegins(d)
  PROVE  RInv'
  <1>1. /\ Typed /\ journal[d] # None /\ journal[d].state = "received"
        /\ \E to \in {"text", "files"} : /\ claiming' = [claiming EXCEPT ![d] = to]
                                         /\ to = "files" => journal[d].kind = "files"
        /\ UNCHANGED <<env, chat, journal, creating, run, sweep, mem, faults>>
    BY DEF RInv, ClaimBegins, Claiming, AuthorizeClaim
  <1>2. d \in submitted /\ (journal[d].kind = "files" => Kind[d] = "files")
    BY <1>1 DEF RInv, Row, Has
  <1>3. Typed'
    BY <1>1 DEF Typed, mem, env
  <1>4. Grows
    BY <1>1, RowsSame DEF Typed, Grows, env
  <1>5. ASSUME NEW c \in Drops PROVE World(c)' /\ Row(c)'
    <2>1. World(c) /\ Row(c)
      BY DEF RInv
    <2>2. PICK to \in {"text", "files"} : /\ claiming' = [claiming EXCEPT ![d] = to]
                                          /\ to = "files" => journal[d].kind = "files"
      BY <1>1
    <2>3. claiming'[c] = IF c = d THEN to ELSE claiming[c]
      BY <1>1, <2>2 DEF Typed
    <2> QED BY <1>1, <1>2, <2>1, <2>2, <2>3 DEF World, Row, Has, env
  <1> QED BY <1>1, <1>3, <1>4, <1>5, CalmStep DEF mem, Typed, Faults

LEMMA ClaimTakesStep ==
  ASSUME RInv, NEW d \in Drops, ClaimTakes(d)
  PROVE  RInv'
  <1>1. /\ Typed /\ broker[d] = "submitted"
        /\ claiming' = [claiming EXCEPT ![d] = "taken"]
        /\ broker' = [broker EXCEPT ![d] = "gone"]
        /\ UNCHANGED <<lapsed, submitted, chat, journal, creating, run, sweep, mem, faults>>
    BY DEF RInv, ClaimTakes, Claiming
  <1>2. Typed'
    BY <1>1 DEF Typed, mem
  <1>3. Grows
    BY <1>1, RowsSame DEF Typed, Grows
  <1>4. \A c \in Drops : World(c)' /\ Row(c)'
    BY <1>1 DEF RInv, Typed, World, Row, Has
  <1> QED BY <1>1, <1>2, <1>3, <1>4, CalmStep DEF mem, Typed, Faults

\* An entry recorded as claimed is one the broker has let go of.
LEMMA ClaimRecorded ==
  ASSUME RInv, NEW d \in Drops, broker[d] = "gone", Record(d),
         claiming' = [claiming EXCEPT ![d] = "idle"],
         UNCHANGED <<env, chat, creating, run, sweep, mem, faults>>
  PROVE  RInv'
  <1>1. /\ Typed
        /\ journal' \in [Drops -> Entry \cup {None}]
        /\ \A c \in Drops : Writes(journal[c], journal'[c])
        /\ \A c \in Drops \ {d} : journal'[c] = journal[c]
        /\ journal[d] = None => journal'[d] = None
        /\ journal[d] # None =>
              /\ journal'[d] # None
              /\ journal'[d].state = journal[d].state
              /\ journal'[d].editFailed = journal[d].editFailed
              /\ journal'[d].attempts = journal[d].attempts
              /\ journal'[d].announced = journal[d].announced
              /\ journal'[d].kind = journal[d].kind
    BY ClaimWrites DEF RInv
  <1>2. Typed'
    BY <1>1 DEF Typed, mem, env
  <1>3. Grows
    BY <1>1 DEF Grows, env
  <1>4. ASSUME NEW c \in Drops PROVE World(c)' /\ Row(c)'
    <2>1. World(c)'
      BY <1>1, WorldKept
    <2>2. claiming'[c] \in {claiming[c], "idle"}
      BY <1>1 DEF Typed
    <2>3. CASE c = d /\ journal[d] # None
      <3>1. journal'[c].announced # "never" => journal'[c].attempts > 0
        BY <1>1, <2>3 DEF RInv, Row
      <3> QED BY <1>1, <2>1, <2>2, <2>3, <3>1, RowRewritten
    <2>4. CASE c = d /\ journal[d] = None
      BY <1>1, <2>1, <2>2, <2>4 DEF RInv, Row, Has, env
    <2>5. CASE c # d
      <3>1. claiming'[c] = claiming[c]
        BY <1>1, <2>5 DEF Typed
      <3> QED BY <1>1, <2>1, <2>5, <3>1, RowKept
    <2> QED BY <2>3, <2>4, <2>5
  <1>5. \A c \in Drops : /\ Has(c, TerminalStates)' => Has(c, TerminalStates)
                         /\ Has(c, {"waiting"})' => Has(c, {"waiting"})
    BY <1>1 DEF Has
  <1> QED BY <1>1, <1>2, <1>3, <1>4, <1>5, QuietStep DEF mem, Typed, Faults

LEMMA ClaimAnsweredStep ==
  ASSUME RInv, NEW d \in Drops, ClaimAnswered(d)
  PROVE  RInv'
  <1>1. broker[d] = "gone"
    BY DEF RInv, Row, ClaimAnswered, Claiming
  <1> QED BY <1>1, ClaimRecorded DEF ClaimAnswered, Claiming

\* Nothing is recorded for a refusal on the text path.
LEMMA ClaimDropped ==
  ASSUME RInv, NEW d \in Drops, claiming' = [claiming EXCEPT ![d] = "idle"],
         UNCHANGED <<env, chat, journal, creating, run, sweep, mem>>,
         faults' \in Faults, faults'.write <= faults.write, faults'.write <= WriteFaults
  PROVE  RInv'
  <1>1. Typed
    BY DEF RInv
  <1>2. Typed'
    BY <1>1 DEF Typed, mem, env
  <1>3. Grows
    BY <1>1, RowsSame DEF Typed, Grows, env
  <1>4. \A c \in Drops : World(c)' /\ Row(c)'
    BY <1>1 DEF RInv, Typed, World, Row, Has, env
  <1> QED BY <1>1, <1>2, <1>3, <1>4, CalmStep DEF mem

LEMMA ClaimLostStep ==
  ASSUME RInv, NEW d \in Drops, ClaimLost(d)
  PROVE  RInv'
  <1>1. faults' \in Faults /\ faults'.write <= faults.write /\ faults'.write <= WriteFaults
    BY SpendTyped DEF ClaimLost
  <1> QED BY <1>1, ClaimDropped DEF ClaimLost, Claiming

LEMMA ClaimRefusedStep ==
  ASSUME RInv, NEW d \in Drops, ClaimRefused(d)
  PROVE  RInv'
  <1>1. Row(d) /\ World(d) /\ Typed
    BY DEF RInv
  <1>2. CASE claiming[d] = "files"
    <2>1. broker[d] = "gone"
      BY <1>1, <1>2 DEF Row, World, ClaimRefused
    <2> QED BY <1>2, <2>1, ClaimRecorded DEF ClaimRefused, Claiming
  <1>3. CASE claiming[d] # "files"
    <2>1. faults' \in Faults /\ faults'.write <= faults.write /\ faults'.write <= WriteFaults
      BY <1>1 DEF Typed, Faults, ClaimRefused
    <2> QED BY <1>3, <2>1, ClaimDropped DEF ClaimRefused, Claiming
  <1> QED BY <1>2, <1>3

LEMMA ClaimStepInv ==
  ASSUME RInv, NEW d \in Drops, ClaimStep(d)
  PROVE  RInv'
  BY ClaimBeginsStep, ClaimTakesStep, ClaimAnsweredStep, ClaimRefusedStep, ClaimLostStep
     DEF ClaimStep

LEMMA GraceStep ==
  ASSUME RInv, NEW d \in Drops, GracePasses(d)
  PROVE  RInv'
  <1>1. /\ Typed
        /\ journal' \in [Drops -> Entry \cup {None}]
        /\ \A c \in Drops : Writes(journal[c], journal'[c])
        /\ \A c \in Drops \ {d} : journal'[c] = journal[c]
        /\ journal[d] # None
        /\ journal'[d] = [journal[d] EXCEPT !.announced = "old"]
        /\ journal[d].announced = "recent"
        /\ UNCHANGED <<env, chat, creating, claiming, run, sweep, mem, faults>>
    BY GraceWrites DEF RInv, GracePasses
  <1>2. /\ journal'[d] # None
        /\ journal'[d].state = journal[d].state
        /\ journal'[d].editFailed = journal[d].editFailed
        /\ journal'[d].attempts = journal[d].attempts
        /\ journal'[d].kind = journal[d].kind
        /\ journal'[d].claimed = journal[d].claimed
    <2>1. journal[d] \in Entry
      BY <1>1 DEF Typed
    <2>2. PICK f : f = [journal[d] EXCEPT !.announced = "old"] /\ journal'[d] = f
      BY <1>1
    <2>3. f \in Entry
      BY <2>1, <2>2, EntryUpdate
    <2>4. /\ f.state = journal[d].state /\ f.editFailed = journal[d].editFailed
          /\ f.attempts = journal[d].attempts /\ f.kind = journal[d].kind
          /\ f.claimed = journal[d].claimed
      BY <2>1, <2>2, Zenon DEF Entry
    <2> QED BY <2>2, <2>3, <2>4, EntryTyped
  <1>3. Typed'
    BY <1>1 DEF Typed, mem, env
  <1>4. Grows
    BY <1>1 DEF Grows, env
  <1>5. ASSUME NEW c \in Drops PROVE World(c)' /\ Row(c)'
    <2>1. World(c)'
      BY <1>1, <1>2, WorldKept
    <2>2. CASE c = d
      <3>1. /\ journal'[c].claimed => broker[d] = "gone"
            /\ journal'[c].attempts > 0
        BY <1>1, <1>2, <2>2 DEF RInv, Row
      <3> QED BY <1>1, <1>2, <2>1, <2>2, <3>1, RowRewritten
    <2>3. CASE c # d
      BY <1>1, <2>1, <2>3, RowKept
    <2> QED BY <2>2, <2>3
  <1>6. \A c \in Drops : /\ Has(c, TerminalStates)' => Has(c, TerminalStates)
                         /\ Has(c, {"waiting"})' => Has(c, {"waiting"})
    BY <1>1, <1>2 DEF Has
  <1> QED BY <1>1, <1>3, <1>4, <1>5, <1>6, QuietStep DEF mem, Typed, Faults

-----------------------------------------------------------------------------
(* The waiter *)

LEMMA PostAnsweredStep ==
  ASSUME RInv, NEW d \in Drops, PostAnswered(d)
  PROVE  RInv'
  <1>1. /\ Typed /\ creating' = [creating EXCEPT ![d] = "over"]
        /\ creating[d] = "posted"
        /\ journal' \in [Drops -> Entry \cup {None}]
        /\ \A c \in Drops : Writes(journal[c], journal'[c])
        /\ \A c \in Drops \ {d} : journal'[c] = journal[c]
        /\ journal'[d] = CreateEntry /\ journal[d] = None
        /\ UNCHANGED <<env, chat, claiming, sweep, mem, faults>>
    BY PostWrites DEF RInv, PostAnswered, Creating
  <1>2. /\ journal'[d] # None /\ journal'[d].state = "waiting"
        /\ ~journal'[d].claimed /\ journal'[d].kind = "" /\ journal'[d].announced = "never"
    <2>1. /\ CreateEntry.state = "waiting" /\ ~CreateEntry.claimed
          /\ CreateEntry.kind = "" /\ CreateEntry.announced = "never"
      BY Zenon DEF CreateEntry
    <2> QED BY <1>1, <2>1, EntryTyped
  <1>3. run[d] \in Task /\ d \in Actors
    BY <1>1, DropsAct DEF Typed
  <1>4. PICK q \in Task : q = [run[d] EXCEPT !.at = "armed"] /\ run' = [run EXCEPT ![d] = q]
    BY <1>3, TaskUpdate DEF PostAnswered, Places
  <1>5. q.at = "armed"
    BY <1>3, <1>4, Zenon DEF Task
  <1>6. run' \in [Actors -> Task] /\ run'[d] = q /\ \A b \in Actors \ {d} : run'[b] = run[b]
    BY <1>1, <1>3, <1>4, RunSet
  <1>7. Typed'
    BY <1>1, <1>6 DEF Typed, mem, env
  <1>8. Grows
    BY <1>1 DEF Grows, env
  <1>9. ASSUME NEW c \in Drops PROVE World(c)' /\ Row(c)'
    <2>1. World(c)'
      BY <1>1 DEF RInv, Typed, World, env
    <2>2. CASE c = d
      BY <1>1, <1>2, <2>1, <2>2 DEF RInv, Row, Has, env, TerminalStates
    <2>3. CASE c # d
      BY <1>1, <2>1, <2>3, RowKept
    <2> QED BY <2>2, <2>3
  <1>10. \A c \in Drops \ {d} : /\ Has(c, TerminalStates)' => Has(c, TerminalStates)
                                /\ Has(c, {"waiting"})' => Has(c, {"waiting"})
    BY <1>1 DEF Has
  <1>11. Carries(d)' /\ WaiterAt(d)'
    BY <1>5, <1>6 DEF Carries, WaiterAt, Finalizing, Reediting
  <1>12. Told(d)'
    BY <1>2 DEF Told, Has, TerminalStates
  <1>13. run'[d].at # "idle"
    BY <1>5, <1>6
  <1> QED BY <1>1, <1>6, <1>7, <1>8, <1>9, <1>10, <1>11, <1>12, <1>13, WaiterMoves
          DEF mem, Typed, Faults

LEMMA WaiterStartsStep ==
  ASSUME RInv, NEW d \in Drops, WaiterStarts(d)
  PROVE  RInv'
  <1>1. /\ Typed /\ run[d].at = "armed"
        /\ resolvable' = resolvable \cup {LaneOf[d]}
        /\ UNCHANGED <<env, chat, journal, creating, claiming, sweep, latch, editRetries, faults>>
    BY DEF RInv, WaiterStarts
  <1>2. d \in Actors /\ d # Pass
    BY DropsAct
  <1>3. PICK q \in Task :
          /\ q = (IF journal[d] = None \/ journal[d].state \in TerminalStates THEN Idle
                  ELSE IF d \in lapsed THEN Finalize(run[d], journal, d, "expired")
                  ELSE [Idle EXCEPT !.at = "parked"])
          /\ run' = [run EXCEPT ![d] = q]
    <2>1. [Idle EXCEPT !.at = "parked"] \in Task
      BY NothingTyped, TaskUpdate DEF Places
    <2>2. Finalize(run[d], journal, d, "expired") \in Task
      BY FinalizeTyped DEF TerminalStates
    <2> QED BY <2>1, <2>2, NothingTyped DEF WaiterStarts
  <1>4. \/ q.at = "idle" /\ ~Has(d, {"waiting"})
        \/ q.at = "parked"
        \/ /\ q.at = "editing" /\ q.drop = d /\ q.state = "expired"
           /\ journal[d] # None /\ d \in lapsed
    <2>1. CASE journal[d] = None \/ journal[d].state \in TerminalStates
      BY <1>3, <2>1 DEF Idle, Has, TerminalStates
    <2>2. CASE ~(journal[d] = None \/ journal[d].state \in TerminalStates) /\ d \in lapsed
      BY <1>3, <2>2 DEF Finalize
    <2>3. CASE ~(journal[d] = None \/ journal[d].state \in TerminalStates) /\ d \notin lapsed
      BY <1>3, <2>3 DEF Idle
    <2> QED BY <2>1, <2>2, <2>3
  <1>5. run' \in [Actors -> Task] /\ run'[d] = q /\ \A b \in Actors \ {d} : run'[b] = run[b]
    BY <1>1, <1>2, <1>3, RunSet
  <1>6. Typed'
    BY <1>1, <1>5, LaneAssumption DEF Typed, env
  <1>7. Grows
    BY <1>1, RowsSame DEF Typed, Grows, env
  <1>8. \A c \in Drops : World(c)' /\ Row(c)'
    BY <1>1, WorldKept, RowKept
  <1>9. Carries(d)' /\ WaiterAt(d)'
    BY <1>1, <1>4, <1>5
       DEF RInv, World, Carries, WaiterAt, Finalizing, Reediting, env, TerminalStates
  <1>10. Faultless' => Told(d)'
    <2>1. Faultless' => Told(d)
      BY <1>1, StillFaultless DEF RInv, Announced, Typed, Faults
    <2>2. run'[Pass] = run[Pass]
      BY <1>2, <1>5 DEF Actors
    <2> QED BY <1>1, <1>7, <2>1, <2>2, ToldKept DEF Tells, Has
  <1> QED BY <1>1, <1>4, <1>5, <1>6, <1>7, <1>8, <1>9, <1>10, WaiterMoves
          DEF Has, Typed, Faults

LEMMA WaiterAnsweredStep ==
  ASSUME RInv, NEW d \in Drops, NEW state \in TerminalStates, WaiterAnswered(d, state)
  PROVE  RInv'
  <1>1. /\ Typed /\ run[d].at = "parked"
        /\ UNCHANGED <<env, chat, creating, claiming, sweep, mem, faults>>
    BY DEF RInv, WaiterAnswered
  <1>2. /\ state = "received" => d \in submitted
        /\ state = "expired" => broker[d] = "gone"
    <2>1. state = "received" => broker[d] = "submitted"
      BY DEF WaiterAnswered
    <2>2. state = "expired" => broker[d] = "gone"
      BY DEF WaiterAnswered
    <2> QED BY <2>1, <2>2 DEF RInv, World
  <1>3. d \in Actors /\ d # Pass
    BY DropsAct
  <1>4. /\ journal' \in [Drops -> Entry \cup {None}]
        /\ \A c \in Drops : Writes(journal[c], journal'[c])
        /\ \A c \in Drops \ {d} : journal'[c] = journal[c]
        /\ journal[d] = None => journal'[d] = None
        /\ journal[d] # None =>
             /\ journal'[d] # None
             /\ journal'[d].state = journal[d].state
             /\ journal'[d].editFailed = journal[d].editFailed
             /\ journal'[d].attempts = journal[d].attempts
             /\ journal'[d].announced = journal[d].announced
             /\ journal'[d].claimed = journal[d].claimed
             /\ journal'[d].kind \in {journal[d].kind, Kind[d]}
        /\ run' = [run EXCEPT ![d] = Finalize(run[d], journal', d, state)]
    BY WaiterWrites
  <1>5. PICK q \in Task : q = Finalize(run[d], journal', d, state) /\ run' = [run EXCEPT ![d] = q]
    BY <1>4, FinalizeTyped
  <1>6. \/ q.at = "idle" /\ ~Has(d, {"waiting"})'
        \/ /\ q.at = "editing" /\ q.drop = d /\ q.state = state
           /\ journal'[d] # None
    BY <1>5 DEF Finalize, Idle, Has, TerminalStates
  <1>7. run' \in [Actors -> Task] /\ run'[d] = q /\ \A b \in Actors \ {d} : run'[b] = run[b]
    BY <1>1, <1>3, <1>5, RunSet
  <1>8. Typed'
    BY <1>1, <1>4, <1>7 DEF Typed, env, mem
  <1>9. Grows
    BY <1>1, <1>4 DEF Grows, env
  <1>10. ASSUME NEW c \in Drops PROVE World(c)' /\ Row(c)'
    <2>1. World(c)'
      BY <1>1, <1>4, WorldKept
    <2>2. CASE c = d /\ journal[d] # None
      <3>1. /\ journal'[d].claimed => broker[d] = "gone"
            /\ journal'[d].announced # "never" => journal'[d].attempts > 0
        BY <1>1, <1>4, <2>2 DEF RInv, Row
      <3> QED BY <1>1, <1>4, <2>1, <2>2, <3>1, RowRewritten
    <2>3. CASE c = d /\ journal[d] = None
      <3>1. journal'[c] = journal[c]
        BY <1>4, <2>3
      <3> QED BY <1>1, <2>1, <3>1, RowKept
    <2>4. CASE c # d
      BY <1>1, <1>4, <2>1, <2>4, RowKept
    <2> QED BY <2>2, <2>3, <2>4
  <1>11. \A c \in Drops : /\ Has(c, TerminalStates)' => Has(c, TerminalStates)
                          /\ Has(c, {"waiting"})' => Has(c, {"waiting"})
    BY <1>4 DEF Has
  <1>12. Carries(d)' /\ WaiterAt(d)'
    BY <1>1, <1>2, <1>6, <1>7 DEF Carries, WaiterAt, Finalizing, Reediting, env
  <1>13. Faultless' => Told(d)'
    <2>1. Faultless' => Told(d)
      BY <1>1, StillFaultless DEF RInv, Announced, Typed, Faults
    <2>2. run'[Pass] = run[Pass]
      BY <1>3, <1>7 DEF Actors
    <2> QED BY <1>1, <1>9, <1>11, <2>1, <2>2, ToldKept DEF Tells
  <1> QED BY <1>1, <1>6, <1>7, <1>8, <1>9, <1>10, <1>11, <1>12, <1>13, WaiterMoves
          DEF mem, Typed, Faults

-----------------------------------------------------------------------------
(* finalize_terminal and announce_pending, by any actor *)

\* What is the same for the waiter and for the pass.
Moved(a) ==
  /\ Typed' /\ Grows
  /\ \A b \in Actors \ {a} : run'[b] = run[b]
  /\ \A d \in Drops : World(d)' /\ Row(d)'
  /\ Carries(a)'
  /\ faults'.write <= faults.write

LEMMA EditLandsMoves ==
  ASSUME RInv, NEW a \in Actors, EditLands(a)
  PROVE  /\ Moved(a)
         /\ run[a].at = "editing" => run'[a].at = "edited"
         /\ run[a].at = "reediting" => run'[a].at = "reedited"
         /\ run[a].at \in {"editing", "reediting"}
         /\ run'[a].drop = run[a].drop
  <1> DEFINE d == run[a].drop
  <1>1. /\ Typed /\ Carries(a)
        /\ run[a].at \in {"editing", "reediting"}
        /\ chat' = [chat EXCEPT ![d] = Shown(run[a].state)]
        /\ UNCHANGED <<env, journal, creating, claiming, sweep, mem, faults>>
    BY DEF RInv, EditLands
  <1>2. /\ d \in Drops /\ journal[d] # None /\ run[a].state \in TerminalStates
        /\ run[a].state = "received" => d \in submitted
        /\ run[a].at = "editing" /\ run[a].state = "expired" => broker[d] = "gone"
    BY <1>1 DEF Carries, Finalizing, Reediting
  <1>3. PICK v \in {"edited", "reedited"} :
          /\ v = (IF run[a].at = "editing" THEN "edited" ELSE "reedited")
          /\ run' = [run EXCEPT ![a].at = v]
    BY DEF EditLands
  <1>4. run[a] \in Task
    BY <1>1 DEF Typed
  <1>5. PICK q \in Task : q = [run[a] EXCEPT !.at = v] /\ run' = [run EXCEPT ![a] = q]
    BY <1>3, <1>4, TaskUpdate DEF Places
  <1>6. q.at = v /\ q.drop = run[a].drop /\ q.state = run[a].state
    BY <1>4, <1>5, Zenon DEF Task
  <1>7. run' \in [Actors -> Task] /\ run'[a] = q /\ \A b \in Actors \ {a} : run'[b] = run[b]
    BY <1>1, <1>5, RunSet
  <1>8. PICK shown \in {"received", "expired"} :
          /\ chat' = [chat EXCEPT ![d] = shown]
          /\ shown = "received" => d \in submitted
    BY <1>1, <1>2 DEF Shown
  <1> HIDE DEF d
  <1>9. /\ chat' \in [Drops -> {"none", "waiting", "received", "expired"}]
        /\ chat'[d] = shown /\ \A c \in Drops \ {d} : chat'[c] = chat[c]
    BY <1>1, <1>2, <1>8 DEF Typed
  <1>10. Typed'
    BY <1>1, <1>7, <1>9 DEF Typed, env, mem
  <1>11. Grows
    BY <1>1, <1>9, RowsSame DEF Grows, env
  <1>12. ASSUME NEW c \in Drops PROVE World(c)' /\ Row(c)'
    <2>1. World(c)'
      BY <1>1, WorldKept
    <2>2. CASE c = d
      BY <1>1, <1>8, <1>9, <2>1, <2>2 DEF RInv, Row, Has, env
    <2>3. CASE c # d
      BY <1>1, <1>9, <2>1, <2>3, RowKept
    <2> QED BY <2>2, <2>3
  <1>13. Carries(a)'
    <2>1. run'[a].drop = d /\ run'[a].state = run[a].state /\ run'[a].at = v
      BY <1>6, <1>7 DEF d
    <2>2. v = "edited" => run[a].at = "editing"
      BY <1>3
    <2> QED BY <1>1, <1>2, <1>9, <2>1, <2>2 DEF Carries, Finalizing, Reediting, env
  <1>14. faults'.write <= faults.write
    BY <1>1 DEF Typed, Faults
  <1> QED BY <1>1, <1>3, <1>6, <1>7, <1>10, <1>11, <1>12, <1>13, <1>14 DEF Moved

\* The drop a coroutine has just resolved is announced by that coroutine, unless an
\* announcement was tried before.
LEMMA AnnounceTells ==
  ASSUME NEW j \in [Drops -> Entry \cup {None}], NEW d \in Drops, j[d] # None,
         j[d].state \in TerminalStates,
         j[d].announced # "never" => j[d].attempts > 0
  PROVE  \/ j[d].attempts > 0
         \/ /\ Announce(j, LaneOf[d]).at = "waking"
            /\ d \in DOMAIN Announce(j, LaneOf[d]).pending
  <1>1. LaneOf[d] \in Lanes /\ j[d].attempts \in Nat
    BY LaneAssumption DEF Entry
  <1>2. CASE j[d].attempts = 0
    <2>1. j[d].announced = "never" /\ j[d].attempts < MaxAnnounceAttempts
      BY <1>1, <1>2, AttemptsAssumption
    <2>2. d \in TerminalUnannounced(j, {LaneOf[d]})
      BY <2>1 DEF TerminalUnannounced
    <2>3. d \in DOMAIN Snapshot(j, LaneOf[d])
      BY <1>1, <2>2, SnapshotTyped
    <2> QED BY <2>3 DEF Announce
  <1> QED BY <1>1, <1>2

\* What announce_pending carries is there.
LEMMA AnnounceCarries ==
  ASSUME Typed', NEW a \in Actors, NEW lane,
         run'[a] = Announce(journal', lane)
  PROVE  Carries(a)' /\ run'[a].at \in {"idle", "waking"}
  <1>1. \A d \in DOMAIN Snapshot(journal', lane) : journal'[d] # None
    <2>1. DOMAIN Snapshot(journal', lane) = TerminalUnannounced(journal', {lane})
      BY SnapshotTyped DEF Typed
    <2> QED BY <2>1 DEF TerminalUnannounced
  <1>2. CASE DOMAIN Snapshot(journal', lane) = {}
    BY <1>2 DEF Announce, Idle, Carries, Finalizing, Reediting
  <1>3. CASE DOMAIN Snapshot(journal', lane) # {}
    BY <1>1, <1>3 DEF Announce, Carries, Finalizing, Reediting
  <1> QED BY <1>2, <1>3

LEMMA SweepUpdate ==
  ASSUME NEW s \in Pass1
  PROVE  /\ \A v \in SUBSET Lanes : [s EXCEPT !.lanes = v] \in Pass1
         /\ \A v \in SUBSET Drops : [s EXCEPT !.todo = v] \in Pass1
         /\ \A v \in SUBSET Drops : [s EXCEPT !.skip = v] \in Pass1
         /\ \A v \in SUBSET Drops : [s EXCEPT !.announced = v] \in Pass1
         /\ \A v \in SUBSET Drops : [s EXCEPT !.lapsed = v] \in Pass1
         /\ \A v \in BOOLEAN : [s EXCEPT !.failed = v] \in Pass1
         /\ \A v \in BOOLEAN : [s EXCEPT !.undecided = v] \in Pass1
         /\ \A v \in BOOLEAN : [s EXCEPT !.progress = v] \in Pass1
  BY Zenon DEF Pass1

LEMMA SweepRead ==
  ASSUME NEW s \in Pass1
  PROVE  /\ s.todo \in SUBSET Drops /\ s.lapsed \in SUBSET Drops
         /\ s.skip \in SUBSET Drops /\ s.announced \in SUBSET Drops
         /\ s.lanes \in SUBSET Lanes
         /\ s.failed \in BOOLEAN /\ s.undecided \in BOOLEAN /\ s.progress \in BOOLEAN
         /\ s.phase \in {"idle", "scheduled", "driving", "reediting", "announcing"}
  BY Zenon DEF Pass1

\* Lanes join the lanes of a pass, and nothing else of it changes.
LEMMA LanesJoin ==
  ASSUME Typed, NEW more \in SUBSET Lanes,
         sweep' = [sweep EXCEPT !.lanes = @ \cup more]
  PROVE  /\ sweep' \in Pass1 /\ sweep'.lanes = sweep.lanes \cup more
         /\ sweep'.phase = sweep.phase /\ sweep'.todo = sweep.todo
         /\ sweep'.lapsed = sweep.lapsed /\ sweep'.seen = sweep.seen
         /\ sweep'.announced = sweep.announced /\ sweep'.undecided = sweep.undecided
  <1>1. sweep \in Pass1 /\ sweep.lanes \cup more \in SUBSET Lanes
    BY SweepRead DEF Typed
  <1>2. PICK l \in SUBSET Lanes : l = sweep.lanes \cup more /\ sweep' = [sweep EXCEPT !.lanes = l]
    BY <1>1
  <1>3. sweep' \in Pass1
    BY <1>1, <1>2, SweepUpdate
  <1> QED BY <1>1, <1>2, <1>3, Zenon DEF Pass1

LEMMA EditLandsStep ==
  ASSUME RInv, NEW a \in Actors, EditLands(a)
  PROVE  RInv'
  <1>1. /\ Moved(a)
        /\ run[a].at = "editing" => run'[a].at = "edited"
        /\ run[a].at = "reediting" => run'[a].at = "reedited"
        /\ run[a].at \in {"editing", "reediting"}
        /\ run'[a].drop = run[a].drop
        /\ UNCHANGED <<journal, sweep, mem, faults>>
    BY EditLandsMoves DEF EditLands
  <1>2. \A c \in Drops : /\ Has(c, TerminalStates)' <=> Has(c, TerminalStates)
                         /\ Has(c, {"waiting"})' <=> Has(c, {"waiting"})
    BY <1>1 DEF Has
  <1>3. ASSUME NEW c \in Drops, Told(c) PROVE Told(c)'
    <2>1. \A b \in Actors \ {a} : run'[b] = run[b]
      BY <1>1 DEF Moved
    <2>2. Tells(c, c) => Tells(c, c)'
      BY <1>1, <2>1, DropsAct DEF Tells
    <2>3. Tells(Pass, c) => Tells(Pass, c)'
      BY <1>1, <2>1 DEF Tells, Actors
    <2> QED BY <1>1, <1>2, <1>3, <2>2, <2>3, ToldKept DEF Moved
  <1>4. CASE a = Pass
    <2>1. \A c \in Drops : run'[c] = run[c]
      BY <1>1, <1>4, DropsAct DEF Moved
    <2>2. \A c \in Drops : Old(c)'
      BY <1>1, OldKept DEF Moved, mem
    <2>3. PassPlaces'
      BY <1>1, <1>4 DEF RInv, PassPlaces, Finalizing, Reediting, mem
    <2>4. Faultless' => \A c \in Drops : Announced(c) /\ Watched(c) => Announced(c)' /\ Watched(c)'
      BY <1>1, <1>2, <1>3, <1>4, <2>1 DEF Announced, Watched, mem, Finalizing
    <2> QED BY <1>1, <1>4, <2>1, <2>2, <2>3, <2>4, PassMoves DEF Moved
  <1>5. CASE a # Pass
    <2>1. PICK d \in Drops : a = d
      BY <1>5 DEF Actors
    <2>2. WaiterAt(d)' /\ run'[d].at # "idle"
      BY <1>1, <1>2, <2>1 DEF RInv, WaiterAt, Finalizing
    <2>3. Faultless' => Told(d)'
      BY <1>1, <1>3, <2>1, StillFaultless DEF RInv, Announced, Moved
    <2> QED BY <1>1, <1>2, <2>1, <2>2, <2>3, WaiterMoves DEF Moved, mem
  <1> QED BY <1>4, <1>5

LEMMA EditAnsweredMoves ==
  ASSUME RInv, NEW a \in Actors, NEW ok \in BOOLEAN, EditAnswered(a, ok),
         NEW d, d = run[a].drop
  PROVE  /\ Moved(a) /\ d \in Drops /\ run[a].at \in Finalizing
         /\ \A c \in Drops \ {d} : journal'[c] = journal[c]
         /\ journal'[d] # None /\ journal'[d].state \in TerminalStates
         /\ run'[a].at \in {"idle", "waking"}
         /\ journal'[d].attempts > 0 \/ Tells(a, d)'
         /\ \E more \in SUBSET Lanes :
              sweep' = IF a = Pass THEN [sweep EXCEPT !.lanes = @ \cup more] ELSE sweep
  <1>1. /\ Typed /\ Carries(a)
        /\ d \in Drops /\ journal[d] # None
        /\ journal' \in [Drops -> Entry \cup {None}]
        /\ \A c \in Drops : Writes(journal[c], journal'[c])
        /\ \A c \in Drops \ {d} : journal'[c] = journal[c]
        /\ journal'[d].state = run[a].state /\ run[a].state \in TerminalStates
        /\ journal'[d].editFailed = ~ok
        /\ journal'[d].attempts = journal[d].attempts
        /\ journal'[d].announced = journal[d].announced
        /\ journal'[d].kind = journal[d].kind
        /\ journal'[d].claimed = journal[d].claimed
        /\ run[a].at \in Finalizing /\ (ok => run[a].at = "edited")
    BY EditWrites DEF RInv
  <1>2. /\ UNCHANGED <<env, chat, creating, claiming, mem, faults>>
        /\ run' = [run EXCEPT ![a] = Announce(journal', LaneOf[d])]
    BY DEF EditAnswered
  <1>3. PICK q \in Task : q = Announce(journal', LaneOf[d]) /\ run' = [run EXCEPT ![a] = q]
    BY <1>1, <1>2, SnapshotTyped
  <1>4. run' \in [Actors -> Task] /\ run'[a] = q /\ \A b \in Actors \ {a} : run'[b] = run[b]
    BY <1>1, <1>3, RunSet
  <1>5. PICK more \in SUBSET Lanes :
          sweep' = IF a = Pass THEN [sweep EXCEPT !.lanes = @ \cup more] ELSE sweep
    <2>1. RetryLanes(a, ok) \in SUBSET Lanes
      BY <1>1, LaneAssumption DEF RetryLanes
    <2> QED BY <2>1 DEF EditAnswered
  <1>6. sweep' \in Pass1
    BY <1>1, <1>5, LanesJoin DEF Typed
  <1>7. Typed'
    BY <1>1, <1>2, <1>4, <1>6 DEF Typed, env, mem
  <1>8. Grows
    BY <1>1, <1>2 DEF Grows, env
  <1>9. journal'[d] # None
    BY <1>1, EntryStays
  <1>10. ASSUME NEW c \in Drops PROVE World(c)' /\ Row(c)'
    <2>1. World(c)'
      BY <1>1, <1>2, WorldKept
    <2>2. CASE c = d
      <3>1. run[a].state = "received" => d \in submitted
        BY <1>1 DEF Carries
      <3>2. run[a].state = "expired" => broker[d] = "gone"
        BY <1>1 DEF Carries
      <3>3. ok => chat[d] # "waiting"
        BY <1>1 DEF Carries
      <3> QED BY <1>1, <1>2, <1>9, <2>1, <2>2, <3>1, <3>2, <3>3 DEF RInv, Row, Has, env
    <2>3. CASE c # d
      BY <1>1, <1>2, <2>1, <2>3, RowKept
    <2> QED BY <2>2, <2>3
  <1>11. run'[a] = Announce(journal', LaneOf[d])
    BY <1>3, <1>4
  <1>12. Carries(a)' /\ run'[a].at \in {"idle", "waking"}
    BY <1>7, <1>11, AnnounceCarries
  <1>13. journal'[d].attempts > 0 \/ Tells(a, d)'
    <2>1. journal'[d].announced # "never" => journal'[d].attempts > 0
      BY <1>1 DEF RInv, Row
    <2> QED BY <1>1, <1>9, <1>11, <2>1, AnnounceTells DEF Tells
  <1>14. faults'.write <= faults.write
    BY <1>1, <1>2 DEF Typed, Faults
  <1> QED BY <1>1, <1>4, <1>5, <1>7, <1>8, <1>9, <1>10, <1>12, <1>13, <1>14 DEF Moved

LEMMA EditAnsweredStep ==
  ASSUME RInv, NEW a \in Actors, NEW ok \in BOOLEAN, EditAnswered(a, ok)
  PROVE  RInv'
  <1>1. PICK d : d = run[a].drop
    OBVIOUS
  <1>2. /\ Moved(a) /\ d \in Drops /\ run[a].at \in Finalizing
        /\ \A c \in Drops \ {d} : journal'[c] = journal[c]
        /\ journal'[d] # None /\ journal'[d].state \in TerminalStates
        /\ run'[a].at \in {"idle", "waking"}
        /\ journal'[d].attempts > 0 \/ Tells(a, d)'
        /\ \E more \in SUBSET Lanes :
             sweep' = IF a = Pass THEN [sweep EXCEPT !.lanes = @ \cup more] ELSE sweep
        /\ UNCHANGED <<mem, faults>> /\ Typed
    BY <1>1, EditAnsweredMoves DEF EditAnswered, RInv
  <1>3. /\ \A c \in Drops \ {d} : /\ Has(c, TerminalStates)' <=> Has(c, TerminalStates)
                                  /\ Has(c, {"waiting"})' <=> Has(c, {"waiting"})
        /\ Has(d, TerminalStates)' /\ ~Has(d, {"waiting"})'
    BY <1>2 DEF Has, TerminalStates
  <1>4. \A b \in Actors \ {a} : run'[b] = run[b]
    BY <1>2 DEF Moved
  <1>5. CASE a = Pass
    <2>1. \A c \in Drops : run'[c] = run[c]
      BY <1>4, <1>5, DropsAct
    <2>2. PICK more \in SUBSET Lanes : sweep' = [sweep EXCEPT !.lanes = @ \cup more]
      BY <1>2, <1>5
    <2>3. /\ sweep'.lanes = sweep.lanes \cup more
          /\ sweep'.phase = sweep.phase /\ sweep'.todo = sweep.todo
          /\ sweep'.lapsed = sweep.lapsed /\ sweep'.seen = sweep.seen
          /\ sweep'.announced = sweep.announced /\ sweep'.undecided = sweep.undecided
      BY <1>2, <2>2, LanesJoin
    <2>4. \A c \in Drops : Old(c)'
      BY <1>2, <2>3, OldKept DEF Moved, mem
    <2>5. PassPlaces'
      BY <1>2, <1>5, <2>3 DEF RInv, PassPlaces, Finalizing, Reediting, mem
    <2>6. \A c \in Drops : Told(c) => Told(c)'
      <3>1. Told(d)'
        BY <1>2, <1>5 DEF Told
      <3>2. ASSUME NEW c \in Drops \ {d}, Told(c) PROVE Told(c)'
        <4>1. ~Tells(Pass, c)
          BY <1>2, <1>5 DEF Tells, Finalizing
        <4>2. Tells(c, c) => Tells(c, c)'
          BY <2>1 DEF Tells
        <4> QED BY <1>2, <1>3, <3>2, <4>1, <4>2, ToldKept DEF Moved
      <3> QED BY <3>1, <3>2
    <2>7. Faultless' => \A c \in Drops : Announced(c) /\ Watched(c) => Announced(c)' /\ Watched(c)'
      <3>1. ASSUME NEW c \in Drops, Announced(c) PROVE Announced(c)'
        BY <1>2, <1>5, <2>1, <2>3, <2>6, <3>1 DEF Announced
      <3>2. ASSUME NEW c \in Drops, Watched(c) PROVE Watched(c)'
        BY <1>1, <1>2, <1>3, <1>5, <2>1, <2>3, <3>2 DEF Watched, mem
      <3> QED BY <3>1, <3>2
    <2> QED BY <1>2, <1>5, <2>1, <2>4, <2>5, <2>7, PassMoves DEF Moved
  <1>6. CASE a # Pass
    <2>1. a \in Drops /\ a = d
      BY <1>1, <1>2, <1>6 DEF Actors, RInv, WaiterAt
    <2>2. WaiterAt(d)'
      BY <1>2, <1>3, <2>1 DEF WaiterAt, Finalizing
    <2>3. Told(d)'
      BY <1>2, <2>1 DEF Told
    <2> QED BY <1>2, <1>3, <1>4, <1>6, <2>1, <2>2, <2>3, WaiterMoves DEF Moved, mem
  <1> QED BY <1>5, <1>6

LEMMA WakeAnsweredMoves ==
  ASSUME RInv, NEW a \in Actors, NEW ok \in BOOLEAN, WakeAnswered(a, ok)
  PROVE  /\ Moved(a) /\ run[a].at = "waking" /\ run'[a] = Idle
         /\ \A c \in Drops : /\ Has(c, TerminalStates)' <=> Has(c, TerminalStates)
                             /\ Has(c, {"waiting"})' <=> Has(c, {"waiting"})
         /\ DOMAIN run[a].pending \subseteq Drops
         /\ \A c \in DOMAIN run[a].pending : journal'[c] # None /\ journal'[c].attempts > 0
  <1>1. /\ Typed
        /\ journal' \in [Drops -> Entry \cup {None}]
        /\ \A d \in Drops : Writes(journal[d], journal'[d])
        /\ \A d \in Drops \ DOMAIN run[a].pending : journal'[d] = journal[d]
        /\ DOMAIN run[a].pending \subseteq Drops /\ run[a].at = "waking"
        /\ \A d \in DOMAIN run[a].pending :
             /\ journal[d] # None /\ journal'[d] # None
             /\ journal'[d].state = journal[d].state
             /\ journal'[d].editFailed = journal[d].editFailed
             /\ journal'[d].attempts > 0
             /\ journal'[d].kind = journal[d].kind
             /\ journal'[d].claimed = journal[d].claimed
        /\ UNCHANGED <<env, chat, creating, claiming, mem, faults>>
        /\ run' = [run EXCEPT ![a] = Idle]
    BY WakeWrites DEF RInv, WakeAnswered
  <1>2. run' \in [Actors -> Task] /\ run'[a] = Idle /\ \A b \in Actors \ {a} : run'[b] = run[b]
    BY <1>1, RunSet, NothingTyped
  <1>3. sweep' \in Pass1
    <2>1. CASE a = Pass /\ ok
      <3>1. sweep \in Pass1 /\ sweep.announced \cup DOMAIN run[a].pending \in SUBSET Drops
        BY <1>1, SweepRead DEF Typed
      <3>2. PICK one \in Pass1 :
              one = [sweep EXCEPT !.announced = sweep.announced \cup DOMAIN run[a].pending]
        BY <3>1, SweepUpdate
      <3>3. sweep' = [one EXCEPT !.progress = TRUE]
        <4>1. sweep' = [sweep EXCEPT !.announced = @ \cup DOMAIN run[a].pending, !.progress = TRUE]
          BY <2>1 DEF WakeAnswered
        <4> QED BY <3>1, <3>2, <4>1
      <3> QED BY <3>2, <3>3, SweepUpdate
    <2>2. CASE ~(a = Pass /\ ok)
      BY <1>1, <2>2 DEF WakeAnswered, Typed
    <2> QED BY <2>1, <2>2
  <1>4. Typed'
    BY <1>1, <1>2, <1>3 DEF Typed, env, mem
  <1>5. Grows
    BY <1>1 DEF Grows, env
  <1>6. ASSUME NEW c \in Drops PROVE World(c)' /\ Row(c)'
    <2>1. World(c)'
      BY <1>1, WorldKept
    <2>2. CASE c \in DOMAIN run[a].pending
      <3>1. journal'[c].claimed => broker[c] = "gone"
        BY <1>1, <2>2 DEF RInv, Row
      <3> QED BY <1>1, <2>1, <2>2, <3>1, RowRewritten
    <2>3. CASE c \notin DOMAIN run[a].pending
      BY <1>1, <2>1, <2>3, RowKept
    <2> QED BY <2>2, <2>3
  <1>7. \A c \in Drops : /\ Has(c, TerminalStates)' <=> Has(c, TerminalStates)
                         /\ Has(c, {"waiting"})' <=> Has(c, {"waiting"})
    BY <1>1 DEF Has
  <1>8. Carries(a)'
    BY <1>2 DEF Carries, Idle, Finalizing, Reediting
  <1>9. faults'.write <= faults.write
    BY <1>1 DEF Typed, Faults
  <1> QED BY <1>1, <1>2, <1>4, <1>5, <1>6, <1>7, <1>8, <1>9 DEF Moved

LEMMA WakeAnsweredStep ==
  ASSUME RInv, NEW a \in Actors, NEW ok \in BOOLEAN, WakeAnswered(a, ok)
  PROVE  RInv'
  <1>1. /\ Moved(a) /\ run[a].at = "waking" /\ run'[a] = Idle
        /\ \A c \in Drops : /\ Has(c, TerminalStates)' <=> Has(c, TerminalStates)
                            /\ Has(c, {"waiting"})' <=> Has(c, {"waiting"})
        /\ DOMAIN run[a].pending \subseteq Drops
        /\ \A c \in DOMAIN run[a].pending : journal'[c] # None /\ journal'[c].attempts > 0
        /\ UNCHANGED <<mem, faults>> /\ Typed
    BY WakeAnsweredMoves DEF WakeAnswered, RInv
  <1>2. \A b \in Actors \ {a} : run'[b] = run[b]
    BY <1>1 DEF Moved
  <1>3. ASSUME NEW c \in Drops, Told(c) PROVE Told(c)'
    <2>1. Tells(c, c) => Tells(c, c)' \/ journal'[c].attempts > 0
      BY <1>1, <1>2, DropsAct DEF Tells
    <2>2. Tells(Pass, c) => Tells(Pass, c)' \/ journal'[c].attempts > 0
      BY <1>1, <1>2 DEF Tells, Actors
    <2> QED BY <1>1, <1>3, <2>1, <2>2, ToldKept DEF Moved
  <1>4. CASE a = Pass
    <2>1. \A c \in Drops : run'[c] = run[c]
      BY <1>2, <1>4, DropsAct
    <2>2. /\ sweep'.lanes = sweep.lanes
          /\ sweep'.phase = sweep.phase /\ sweep'.todo = sweep.todo
          /\ sweep'.lapsed = sweep.lapsed /\ sweep'.seen = sweep.seen
          /\ sweep'.undecided = sweep.undecided
          /\ \A c \in sweep'.announced : c \in sweep.announced \/ c \in DOMAIN run[a].pending
      <3>1. CASE ok
        <4>1. PICK more : /\ more = sweep.announced \cup DOMAIN run[a].pending
                          /\ sweep' = [sweep EXCEPT !.announced = more, !.progress = TRUE]
          BY <1>4, <3>1 DEF WakeAnswered
        <4>2. sweep \in Pass1
          BY <1>1 DEF Typed
        <4> QED BY <4>1, <4>2, Zenon DEF Pass1
      <3>2. CASE ~ok
        BY <3>2 DEF WakeAnswered
      <3> QED BY <3>1, <3>2
    <2>3. ASSUME NEW c \in Drops PROVE Old(c)'
      <3>1. journal[c] # None => /\ journal'[c] # None
                                 /\ journal[c].attempts > 0 => journal'[c].attempts > 0
        BY <1>1, EntryStays DEF Moved, Grows
      <3> QED BY <1>1, <2>2, <3>1 DEF RInv, Old, Moved, Grows, mem
    <2>4. PassPlaces'
      BY <1>1, <1>4, <2>2 DEF RInv, PassPlaces, Finalizing, Reediting, Idle, mem
    <2>5. Faultless' => \A c \in Drops : Announced(c) /\ Watched(c) => Announced(c)' /\ Watched(c)'
      <3>1. run'[Pass].at = "idle"
        BY <1>1, <1>4 DEF Idle
      <3>2. ASSUME NEW c \in Drops, Announced(c) PROVE Announced(c)'
        BY <1>3, <2>1, <2>2, <3>1, <3>2 DEF Announced
      <3>3. ASSUME NEW c \in Drops, Watched(c) PROVE Watched(c)'
        BY <1>1, <1>4, <2>1, <2>2, <3>1, <3>3 DEF Watched, Finalizing, mem
      <3> QED BY <3>2, <3>3
    <2> QED BY <1>1, <1>4, <2>1, <2>3, <2>4, <2>5, PassMoves DEF Moved
  <1>5. CASE a # Pass
    <2>1. PICK d \in Drops : a = d
      BY <1>5 DEF Actors
    <2>2. Has(d, TerminalStates)
      BY <1>1, <2>1 DEF RInv, WaiterAt
    <2>3. WaiterAt(d)' /\ ~Has(d, {"waiting"})
      BY <1>1, <2>1, <2>2 DEF WaiterAt, Idle, Finalizing, Has, TerminalStates
    <2>4. Faultless' => Told(d)'
      <3>1. Faultless' => Told(d)
        BY <1>1, <2>1, StillFaultless DEF RInv, Announced, Moved
      <3> QED BY <1>3, <3>1
    <2>5. sweep' = sweep
      BY <1>5 DEF WakeAnswered
    <2> QED BY <1>1, <1>2, <2>1, <2>3, <2>4, <2>5, WaiterMoves DEF Moved, mem
  <1> QED BY <1>4, <1>5

LEMMA UnrecordedStep ==
  ASSUME RInv, NEW a \in Actors, Unrecorded(a)
  PROVE  RInv'
  <1>1. /\ Typed /\ run' = [run EXCEPT ![a] = Idle]
        /\ UNCHANGED <<env, chat, journal, creating, claiming, mem>>
        /\ faults' \in Faults /\ faults'.write < faults.write /\ faults'.write <= WriteFaults
        /\ faults'.write <= faults.write /\ faults.write <= WriteFaults
    BY SpendTyped DEF RInv, Typed, Unrecorded
  <1>2. ~Faultless'
    BY <1>1, FaultAssumption DEF Faultless, Typed, Faults
  <1>3. run' \in [Actors -> Task] /\ run'[a] = Idle /\ \A b \in Actors \ {a} : run'[b] = run[b]
    BY <1>1, RunSet, NothingTyped
  <1>4. /\ sweep' \in Pass1
        /\ sweep'.phase = sweep.phase /\ sweep'.todo = sweep.todo
        /\ sweep'.lapsed = sweep.lapsed /\ sweep'.seen = sweep.seen
        /\ sweep'.announced = sweep.announced
        /\ a # Pass => sweep' = sweep
    <2>1. sweep \in Pass1
      BY <1>1 DEF Typed
    <2>2. CASE a = Pass
      <3>1. PICK left \in SUBSET Drops : left = sweep.skip \ {run[a].drop}
        BY <2>1, SweepRead
      <3>2. PICK one \in Pass1 : one = [sweep EXCEPT !.skip = left]
        BY <2>1, SweepUpdate
      <3>3. sweep' = [one EXCEPT !.failed = TRUE]
        <4>1. sweep' = [sweep EXCEPT !.failed = TRUE, !.skip = left]
          BY <2>2, <3>1 DEF Unrecorded
        <4> QED BY <2>1, <3>2, <4>1, Zenon DEF Pass1
      <3>4. sweep' \in Pass1
        BY <3>2, <3>3, SweepUpdate
      <3>5. /\ sweep'.phase = one.phase /\ sweep'.todo = one.todo
            /\ sweep'.lapsed = one.lapsed /\ sweep'.seen = one.seen
            /\ sweep'.announced = one.announced
        BY <3>2, <3>3, Zenon DEF Pass1
      <3>6. /\ one.phase = sweep.phase /\ one.todo = sweep.todo
            /\ one.lapsed = sweep.lapsed /\ one.seen = sweep.seen
            /\ one.announced = sweep.announced
        BY <2>1, <3>2, Zenon DEF Pass1
      <3> QED BY <2>2, <3>4, <3>5, <3>6
    <2>3. CASE a # Pass
      BY <2>1, <2>3 DEF Unrecorded
    <2> QED BY <2>2, <2>3
  <1>5. Typed'
    BY <1>1, <1>3, <1>4 DEF Typed, env, mem
  <1>6. Grows
    BY <1>1, RowsSame DEF Grows, env
  <1>7. ASSUME NEW c \in Drops
        PROVE  World(c)' /\ Row(c)' /\ Old(c)' /\ WaiterAt(c)'
    <2>1. WaiterAt(c)'
      <3>1. CASE a = c
        BY <1>3, <3>1 DEF WaiterAt, Idle, Finalizing
      <3>2. CASE a # c
        BY <1>3, <1>6, <3>2, WaiterAtKept, DropsAct
      <3> QED BY <3>1, <3>2
    <2> QED BY <1>1, <1>4, <1>6, <2>1, WorldKept, RowKept, OldKept DEF mem
  <1>8. \A b \in Actors : Carries(b)'
    <2>1. Carries(a)'
      BY <1>3 DEF Carries, Idle, Finalizing, Reediting
    <2> QED BY <1>3, <1>6, <2>1, CarriesKept
  <1>9. PassPlaces'
    <2>1. run'[Pass] \in {run[Pass], Idle}
      BY <1>3 DEF Actors
    <2> QED BY <1>1, <1>4, <2>1 DEF RInv, PassPlaces, Idle, Finalizing, Reediting, mem
  <1> QED BY <1>2, <1>5, <1>7, <1>8, <1>9 DEF RInv

LEMMA FinalizeStepInv ==
  ASSUME RInv, NEW a \in Actors, FinalizeStep(a)
  PROVE  RInv'
  BY EditLandsStep, EditAnsweredStep, WakeAnsweredStep, UnrecordedStep DEF FinalizeStep

-----------------------------------------------------------------------------
(* The pass *)

LEMMA PassStartsStep ==
  ASSUME RInv, PassStarts
  PROVE  RInv'
  <1>1. /\ Typed /\ sweep.phase = "scheduled"
        /\ sweep' = [sweep EXCEPT !.phase = "driving", !.todo = Waiting(journal), !.lapsed = lapsed]
        /\ UNCHANGED <<env, chat, journal, creating, claiming, run, mem, faults>>
    BY DEF RInv, PassStarts
  <1>2. sweep \in Pass1 /\ Waiting(journal) \in SUBSET Drops /\ lapsed \in SUBSET Drops
    BY <1>1 DEF Typed, Waiting
  <1>3. PICK w \in SUBSET Drops, l \in SUBSET Drops : w = Waiting(journal) /\ l = lapsed
    BY <1>2
  <1>4. sweep' = [sweep EXCEPT !.phase = "driving", !.todo = w, !.lapsed = l]
    BY <1>1, <1>3
  <1>5. /\ sweep' \in Pass1
        /\ sweep'.phase = "driving" /\ sweep'.todo = w /\ sweep'.lapsed = l
        /\ sweep'.announced = sweep.announced
    BY <1>2, <1>3, <1>4, Zenon DEF Pass1
  <1>6. Typed'
    BY <1>1, <1>5 DEF Typed, env, mem
  <1>7. Grows
    BY <1>1, RowsSame DEF Grows, env
  <1>8. ASSUME NEW c \in Drops PROVE World(c)' /\ Row(c)' /\ Old(c)'
    <2>1. Old(c)'
      BY <1>1, <1>3, <1>5 DEF RInv, Old, env, Waiting
    <2> QED BY <1>1, <2>1, WorldKept, RowKept
  <1>9. PassPlaces' /\ Carries(Pass)'
    BY <1>1, <1>5, <1>7, CarriesKept DEF RInv, PassPlaces, Finalizing, Reediting, mem, Actors
  <1>10. Faultless' => \A c \in Drops : Announced(c) /\ Watched(c) => Announced(c)' /\ Watched(c)'
    <2>1. run[Pass].at = "idle"
      BY <1>1 DEF RInv, PassPlaces
    <2>2. ASSUME NEW c \in Drops, Announced(c) PROVE Announced(c)' /\ Watched(c)'
      <3>1. Told(c)' <=> Told(c)
        BY <1>1 DEF Told, Tells, Has
      <3>2. c \in w <=> Has(c, {"waiting"})
        BY <1>3 DEF Waiting, Has
      <3>3. c \in w => Told(c)
        BY <3>2 DEF Told, Has, TerminalStates
      <3>4. Announced(c)'
        BY <1>1, <1>5, <2>1, <2>2, <3>1, <3>3 DEF Announced
      <3>5. Watched(c)'
        BY <1>1, <1>5, <3>2 DEF Watched, Has
      <3> QED BY <3>4, <3>5
    <2> QED BY <2>2
  <1> QED BY <1>1, <1>6, <1>7, <1>8, <1>9, <1>10, PassMoves DEF Typed, Faults

\* A step of the pass that writes nothing outside it.
LEMMA PassOnly ==
  ASSUME RInv, UNCHANGED <<env, chat, journal, creating, claiming, mem, faults>>,
         run' \in [Actors -> Task], \A c \in Drops : run'[c] = run[c], sweep' \in Pass1,
         \A c \in Drops : Old(c)',
         Carries(Pass)', PassPlaces',
         Faultless' => \A c \in Drops : Announced(c) /\ Watched(c) => Announced(c)' /\ Watched(c)'
  PROVE  RInv'
  <1>1. Typed /\ Typed'
    BY DEF RInv, Typed, env, mem
  <1>2. Grows
    BY <1>1, RowsSame DEF Grows, env
  <1>3. \A c \in Drops : World(c)' /\ Row(c)'
    BY WorldKept, RowKept
  <1>4. faults'.write <= faults.write
    BY <1>1 DEF Typed, Faults
  <1> QED BY <1>1, <1>2, <1>3, <1>4, PassMoves

\* Nobody's announcement is lost by a step that answers no wake.
LEMMA ToldThrough ==
  ASSUME UNCHANGED journal, NEW c \in Drops, run'[c] = run[c], run[Pass].at # "waking"
  PROVE  /\ Told(c) => Told(c)'
         /\ Has(c, {"waiting"})' <=> Has(c, {"waiting"})
         /\ Has(c, TerminalStates)' <=> Has(c, TerminalStates)
  BY DEF Told, Tells, Has

LEMMA PassDefersStep ==
  ASSUME RInv, NEW d \in Drops, NEW phase \in {"driving", "reediting", "announcing"},
         PassDefers(phase, d)
  PROVE  RInv'
  <1>1. /\ Typed /\ sweep.phase = phase /\ run[Pass].at = "idle"
        /\ sweep' = [sweep EXCEPT !.todo = @ \ {d}, !.lanes = @ \cup {LaneOf[d]}]
        /\ UNCHANGED <<env, chat, journal, creating, claiming, run, mem, faults>>
    BY DEF RInv, PassDefers, PassAt
  <1>2. PICK w \in SUBSET Drops, l \in SUBSET Lanes :
          w = sweep.todo \ {d} /\ l = sweep.lanes \cup {LaneOf[d]}
    BY <1>1, SweepRead, LaneAssumption DEF Typed
  <1>3. sweep' = [sweep EXCEPT !.todo = w, !.lanes = l] /\ sweep \in Pass1
    BY <1>1, <1>2 DEF Typed
  <1>4. /\ sweep' \in Pass1
        /\ sweep'.phase = sweep.phase /\ sweep'.todo = w /\ sweep'.lapsed = sweep.lapsed
        /\ sweep'.announced = sweep.announced /\ sweep'.seen = sweep.seen /\ sweep'.lanes = l
        /\ sweep'.undecided = sweep.undecided
    BY <1>3, Zenon DEF Pass1
  <1>5. Grows
    BY <1>1, RowsSame DEF Grows, env, RInv
  <1>6. \A c \in Drops : Old(c)'
    BY <1>1, <1>2, <1>4, <1>5, OldKept DEF mem
  <1>7. PassPlaces' /\ Carries(Pass)'
    BY <1>1, <1>2, <1>4, <1>5, PassPlacesKept, CarriesKept DEF mem, Actors
  <1>8. ASSUME NEW c \in Drops, Announced(c) PROVE Announced(c)' /\ Watched(c)'
    <2>1. /\ Told(c) => Told(c)'
          /\ Has(c, {"waiting"})' <=> Has(c, {"waiting"})
      BY <1>1, ToldThrough
    <2>2. Announced(c)'
      BY <1>1, <1>2, <1>4, <1>8, <2>1 DEF Announced
    <2>3. Watched(c)'
      BY <1>1, <1>2, <1>4 DEF Watched
    <2> QED BY <2>2, <2>3
  <1> QED BY <1>1, <1>4, <1>6, <1>7, <1>8, PassOnly DEF Typed

LEMMA PassExpiresStep ==
  ASSUME RInv, NEW d \in Drops, PassExpires(d)
  PROVE  RInv'
  <1>1. /\ Typed /\ sweep.phase = "driving" /\ run[Pass].at = "idle"
        /\ d \in sweep.todo /\ d \in sweep.lapsed
        /\ sweep' = [sweep EXCEPT !.todo = @ \ {d}, !.skip = @ \cup {d}, !.progress = TRUE]
        /\ UNCHANGED <<env, chat, journal, creating, claiming, mem, faults>>
    BY DEF RInv, PassExpires, PassAt
  <1>2. PICK w \in SUBSET Drops, l \in SUBSET Drops :
          w = sweep.todo \ {d} /\ l = sweep.skip \cup {d}
    BY <1>1, SweepRead DEF Typed
  <1>3. sweep' = [sweep EXCEPT !.todo = w, !.skip = l, !.progress = TRUE] /\ sweep \in Pass1
    BY <1>1, <1>2 DEF Typed
  <1>4. /\ sweep' \in Pass1
        /\ sweep'.phase = sweep.phase /\ sweep'.todo = w /\ sweep'.lapsed = sweep.lapsed
        /\ sweep'.announced = sweep.announced /\ sweep'.seen = sweep.seen
        /\ sweep'.lanes = sweep.lanes /\ sweep'.undecided = sweep.undecided
    BY <1>3, Zenon DEF Pass1
  <1>5. PICK q \in Task : /\ q = Finalize(run[Pass], journal, d, "expired")
                          /\ run' = [run EXCEPT ![Pass] = q]
    <2>1. Finalize(run[Pass], journal, d, "expired") \in Task
      BY FinalizeTyped DEF TerminalStates
    <2> QED BY <2>1 DEF PassExpires
  <1>6. /\ run' \in [Actors -> Task] /\ run'[Pass] = q
        /\ \A c \in Drops : run'[c] = run[c]
    BY <1>1, <1>5, RunSet, DropsAct DEF Actors
  <1>7. \/ q.at = "idle" /\ ~Has(d, {"waiting"})
        \/ /\ q.at = "editing" /\ q.drop = d /\ q.state = "expired"
           /\ journal[d] # None
    BY <1>5 DEF Finalize, Idle, Has, TerminalStates
  <1>8. broker[d] = "gone"
    BY <1>1 DEF RInv, Old, World
  <1>9. Grows
    BY <1>1, RowsSame DEF Grows, env, RInv
  <1>10. \A c \in Drops : Old(c)'
    BY <1>1, <1>2, <1>4, <1>9, OldKept DEF mem
  <1>11. Carries(Pass)'
    BY <1>1, <1>6, <1>7, <1>8 DEF Carries, Finalizing, Reediting, TerminalStates, env
  <1>12. PassPlaces'
    BY <1>1, <1>4, <1>6, <1>7 DEF RInv, PassPlaces, Finalizing, Reediting, mem
  <1>13. ASSUME NEW c \in Drops, Announced(c), Watched(c) PROVE Announced(c)' /\ Watched(c)'
    <2>1. /\ Told(c) => Told(c)'
          /\ Has(c, {"waiting"})' <=> Has(c, {"waiting"})
      BY <1>1, <1>6, ToldThrough
    <2>2. Announced(c)'
      BY <1>1, <1>2, <1>4, <1>6, <1>7, <1>13, <2>1 DEF Announced
    <2>3. Watched(c)'
      BY <1>1, <1>2, <1>4, <1>6, <1>7, <1>13, <2>1 DEF Watched, Finalizing
    <2> QED BY <2>2, <2>3
  <1> QED BY <1>1, <1>4, <1>6, <1>10, <1>11, <1>12, <1>13, PassOnly

LEMMA PassProbesStep ==
  ASSUME RInv, NEW d \in Drops, PassProbes(d)
  PROVE  RInv'
  <1>1. /\ Typed /\ sweep.phase = "driving" /\ run[Pass].at = "idle"
        /\ d \in sweep.todo
        /\ sweep' = [sweep EXCEPT !.todo = @ \ {d}]
        /\ UNCHANGED <<env, chat, journal, creating, claiming, mem, faults>>
    BY DEF RInv, PassProbes, PassAt, Next1
  <1>2. PICK w \in SUBSET Drops : w = sweep.todo \ {d}
    BY <1>1, SweepRead DEF Typed
  <1>3. sweep' = [sweep EXCEPT !.todo = w] /\ sweep \in Pass1
    BY <1>1, <1>2 DEF Typed
  <1>4. /\ sweep' \in Pass1
        /\ sweep'.phase = sweep.phase /\ sweep'.todo = w /\ sweep'.lapsed = sweep.lapsed
        /\ sweep'.announced = sweep.announced /\ sweep'.seen = sweep.seen
        /\ sweep'.lanes = sweep.lanes /\ sweep'.undecided = sweep.undecided
    BY <1>3, Zenon DEF Pass1
  <1>5. PICK q \in Task : /\ q.at = "probing" /\ q.drop = d
                          /\ run' = [run EXCEPT ![Pass] = q]
    <2>1. PICK one \in Task : one = [Idle EXCEPT !.at = "probing"]
      BY NothingTyped, TaskUpdate DEF Places
    <2>2. PICK q \in Task : q = [one EXCEPT !.drop = d]
      BY <2>1, TaskUpdate
    <2>3. one.at = "probing"
      BY <2>1 DEF Idle
    <2>4. q.at = "probing" /\ q.drop = d
      BY <2>2, <2>3, Zenon DEF Task
    <2>5. run' = [run EXCEPT ![Pass] = [Idle EXCEPT !.at = "probing", !.drop = d]]
      BY DEF PassProbes
    <2>6. [Idle EXCEPT !.at = "probing", !.drop = d] = q
      BY <2>1, <2>2 DEF Idle
    <2> QED BY <2>4, <2>5, <2>6
  <1>6. /\ run' \in [Actors -> Task] /\ run'[Pass] = q
        /\ \A c \in Drops : run'[c] = run[c]
    BY <1>1, <1>5, RunSet, DropsAct DEF Actors
  <1>7. journal[d] # None
    BY <1>1 DEF RInv, Old
  <1>8. Grows
    BY <1>1, RowsSame DEF Grows, env, RInv
  <1>9. \A c \in Drops : Old(c)'
    BY <1>1, <1>2, <1>4, <1>8, OldKept DEF mem
  <1>10. Carries(Pass)'
    BY <1>1, <1>5, <1>6, <1>7 DEF Carries, Finalizing, Reediting
  <1>11. PassPlaces'
    BY <1>1, <1>4, <1>5, <1>6 DEF RInv, PassPlaces, Finalizing, Reediting, mem
  <1>12. ASSUME NEW c \in Drops, Announced(c), Watched(c) PROVE Announced(c)' /\ Watched(c)'
    <2>1. /\ Told(c) => Told(c)'
          /\ Has(c, {"waiting"})' <=> Has(c, {"waiting"})
      BY <1>1, <1>6, ToldThrough
    <2>2. Announced(c)'
      BY <1>1, <1>2, <1>4, <1>5, <1>6, <1>12, <2>1 DEF Announced
    <2>3. Watched(c)'
      BY <1>1, <1>2, <1>4, <1>5, <1>6, <1>12, <2>1 DEF Watched, Finalizing
    <2> QED BY <2>2, <2>3
  <1> QED BY <1>1, <1>4, <1>6, <1>9, <1>10, <1>11, <1>12, PassOnly

LEMMA ProbeResolvesStep ==
  ASSUME RInv, NEW d \in Drops, NEW verdict \in {"submitted", "gone"}, ProbeResolves(d, verdict)
  PROVE  RInv'
  <1>1. /\ Typed /\ run[Pass].at = "probing" /\ run[Pass].drop = d
        /\ sweep' = [sweep EXCEPT !.skip = @ \cup {d}, !.progress = TRUE]
        /\ UNCHANGED <<env, chat, journal, creating, claiming, mem, faults>>
    BY DEF RInv, ProbeResolves, Probed
  <1>2. PICK l \in SUBSET Drops : l = sweep.skip \cup {d}
    BY <1>1, SweepRead DEF Typed
  <1>3. sweep' = [sweep EXCEPT !.skip = l, !.progress = TRUE] /\ sweep \in Pass1
    BY <1>1, <1>2 DEF Typed
  <1>4. /\ sweep' \in Pass1
        /\ sweep'.phase = sweep.phase /\ sweep'.todo = sweep.todo /\ sweep'.lapsed = sweep.lapsed
        /\ sweep'.announced = sweep.announced /\ sweep'.seen = sweep.seen
        /\ sweep'.lanes = sweep.lanes /\ sweep'.undecided = sweep.undecided
    BY <1>3, Zenon DEF Pass1
  <1>5. PICK state \in {"received", "expired"} :
          /\ state = (IF verdict = "submitted" THEN "received" ELSE "expired")
          /\ run' = [run EXCEPT ![Pass] = Finalize(run[Pass], journal, d, state)]
    BY DEF ProbeResolves
  <1>6. PICK q \in Task : /\ q = Finalize(run[Pass], journal, d, state)
                          /\ run' = [run EXCEPT ![Pass] = q]
    BY <1>5, FinalizeTyped DEF TerminalStates
  <1>7. /\ run' \in [Actors -> Task] /\ run'[Pass] = q
        /\ \A c \in Drops : run'[c] = run[c]
    BY <1>1, <1>6, RunSet, DropsAct DEF Actors
  <1>8. \/ q.at = "idle" /\ ~Has(d, {"waiting"})
        \/ /\ q.at = "editing" /\ q.drop = d /\ q.state = state
           /\ journal[d] # None
    BY <1>6 DEF Finalize, Idle, Has, TerminalStates
  <1>9. /\ state = "received" => d \in submitted
        /\ state = "expired" => broker[d] = "gone"
    <2>1. verdict = "submitted" => broker[d] = "submitted"
      BY DEF ProbeResolves, Verdicts
    <2>2. verdict = "gone" => broker[d] = "gone"
      BY DEF ProbeResolves, Verdicts
    <2> QED BY <1>5, <2>1, <2>2 DEF RInv, World
  <1>10. Grows
    BY <1>1, RowsSame DEF Grows, env, RInv
  <1>11. \A c \in Drops : Old(c)'
    BY <1>1, <1>4, <1>10, OldKept DEF mem
  <1>12. Carries(Pass)'
    BY <1>1, <1>5, <1>7, <1>8, <1>9 DEF Carries, Finalizing, Reediting, TerminalStates, env
  <1>13. PassPlaces'
    BY <1>1, <1>4, <1>7, <1>8 DEF RInv, PassPlaces, Finalizing, Reediting, mem
  <1>14. ASSUME NEW c \in Drops, Announced(c), Watched(c) PROVE Announced(c)' /\ Watched(c)'
    <2>1. /\ Told(c) => Told(c)'
          /\ Has(c, {"waiting"})' <=> Has(c, {"waiting"})
      BY <1>1, <1>7, ToldThrough
    <2>2. Announced(c)'
      BY <1>1, <1>4, <1>7, <1>8, <1>14, <2>1 DEF Announced
    <2>3. Watched(c)'
      BY <1>1, <1>4, <1>7, <1>8, <1>14, <2>1 DEF Watched, Finalizing, mem
    <2> QED BY <2>2, <2>3
  <1> QED BY <1>1, <1>4, <1>7, <1>11, <1>12, <1>13, <1>14, PassOnly

LEMMA ProbeRearmsStep ==
  ASSUME RInv, NEW d \in Drops, ProbeRearms(d)
  PROVE  RInv'
  <1>1. /\ Typed /\ run[Pass].at = "probing" /\ run[Pass].drop = d
        /\ sweep' = [sweep EXCEPT !.progress = TRUE]
        /\ run' = [run EXCEPT ![Pass] = Idle,
                              ![d] = IF @.at = "idle" THEN [Idle EXCEPT !.at = "armed"] ELSE @]
        /\ UNCHANGED <<env, chat, journal, creating, claiming, mem, faults>>
    BY DEF RInv, ProbeRearms, Probed
  <1>2. sweep \in Pass1
    BY <1>1 DEF Typed
  <1>3. /\ sweep' \in Pass1
        /\ sweep'.phase = sweep.phase /\ sweep'.todo = sweep.todo /\ sweep'.lapsed = sweep.lapsed
        /\ sweep'.announced = sweep.announced /\ sweep'.seen = sweep.seen
        /\ sweep'.lanes = sweep.lanes /\ sweep'.undecided = sweep.undecided
    BY <1>1, <1>2, Zenon DEF Pass1
  <1>4. PICK q \in Task : q = [Idle EXCEPT !.at = "armed"] /\ q.at = "armed"
    <2>1. [Idle EXCEPT !.at = "armed"] \in Task
      BY NothingTyped, TaskUpdate DEF Places
    <2>2. [Idle EXCEPT !.at = "armed"].at = "armed"
      BY DEF Idle
    <2> QED BY <2>1, <2>2
  <1>5. d \in Actors /\ d # Pass /\ Pass \in Actors /\ run \in [Actors -> Task]
    BY <1>1, DropsAct DEF Actors, Typed
  <1>6. PICK r \in Task : /\ r = IF run[d].at = "idle" THEN q ELSE run[d]
                          /\ r.at # "idle"
    BY <1>4, <1>5
  <1>7. run' = [run EXCEPT ![Pass] = Idle, ![d] = r]
    BY <1>1, <1>4, <1>5, <1>6
  <1>8. /\ run' \in [Actors -> Task] /\ run'[Pass] = Idle /\ run'[d] = r
        /\ \A c \in Actors \ {Pass, d} : run'[c] = run[c]
    BY <1>5, <1>7, NothingTyped
  <1>9. Typed'
    BY <1>1, <1>3, <1>8 DEF Typed, env, mem
  <1>10. Grows
    BY <1>1, RowsSame DEF Grows, env
  <1>11. ASSUME NEW c \in Drops
         PROVE  World(c)' /\ Row(c)' /\ Old(c)'
    BY <1>1, <1>3, <1>10, WorldKept, RowKept, OldKept DEF mem
  <1>12. Carries(Pass)'
    BY <1>8 DEF Carries, Idle, Finalizing, Reediting
  <1>13. Carries(d)' /\ WaiterAt(d)'
    <2>1. CASE run[d].at = "idle"
      BY <1>4, <1>6, <1>8, <2>1 DEF Carries, WaiterAt, Finalizing, Reediting
    <2>2. CASE run[d].at # "idle"
      BY <1>5, <1>6, <1>8, <1>10, <2>2, CarriesKept, WaiterAtKept
    <2> QED BY <2>1, <2>2
  <1>14. /\ \A a \in Actors : Carries(a)'
         /\ \A c \in Drops : WaiterAt(c)'
    <2>1. ASSUME NEW a \in Actors PROVE Carries(a)'
      BY <1>8, <1>10, <1>12, <1>13, CarriesKept
    <2>2. ASSUME NEW c \in Drops PROVE WaiterAt(c)'
      <3>1. CASE c = d
        BY <1>13, <3>1
      <3>2. CASE c # d
        <4>1. run'[c] = run[c]
          BY <1>8, <3>2, DropsAct
        <4> QED BY <1>10, <4>1, WaiterAtKept
      <3> QED BY <3>1, <3>2
    <2> QED BY <2>1, <2>2
  <1>15. PassPlaces'
    <2>1. run'[Pass].at = "idle"
      BY <1>8 DEF Idle
    <2> QED BY <1>1, <1>3, <2>1 DEF RInv, PassPlaces, Finalizing, Reediting, mem
  <1>16. ASSUME Faultless', NEW c \in Drops
         PROVE  Announced(c)' /\ Watched(c)'
    <2>1. Announced(c) /\ Watched(c)
      BY <1>1, <1>16, StillFaultless DEF RInv, Typed, Faults
    <2>2. Told(c) => Told(c)'
      <3>1. CASE c = d
        BY <1>1, <1>5, <1>6, <1>8, <3>1 DEF Told, Tells, Has
      <3>2. CASE c # d
        BY <1>1, <1>8, <3>2, ToldThrough, DropsAct
      <3> QED BY <3>1, <3>2
    <2>3. run'[Pass].at = "idle"
      BY <1>8 DEF Idle
    <2>4. Announced(c)'
      BY <1>1, <1>3, <1>8, <2>1, <2>2, <2>3, DropsAct DEF Announced
    <2>5. Watched(c)'
      <3>1. CASE c = d
        BY <1>6, <1>8, <3>1 DEF Watched
      <3>2. CASE c # d
        BY <1>1, <1>3, <1>8, <2>1, <2>3, <3>2, DropsAct DEF Watched, Has, Finalizing, mem
      <3> QED BY <3>1, <3>2
    <2> QED BY <2>4, <2>5
  <1> QED BY <1>9, <1>11, <1>14, <1>15, <1>16 DEF RInv

LEMMA ProbeUndecidedStep ==
  ASSUME RInv, NEW d \in Drops, ProbeUndecided(d)
  PROVE  RInv'
  <1>1. /\ Typed /\ run[Pass].at = "probing" /\ run[Pass].drop = d
        /\ sweep' = [sweep EXCEPT !.undecided = TRUE]
        /\ run' = [run EXCEPT ![Pass] = Idle]
        /\ UNCHANGED <<env, chat, journal, creating, claiming, mem, faults>>
    BY DEF RInv, ProbeUndecided, Probed
  <1>2. sweep \in Pass1
    BY <1>1 DEF Typed
  <1>3. /\ sweep' \in Pass1
        /\ sweep'.phase = sweep.phase /\ sweep'.todo = sweep.todo /\ sweep'.lapsed = sweep.lapsed
        /\ sweep'.announced = sweep.announced /\ sweep'.seen = sweep.seen
        /\ sweep'.lanes = sweep.lanes /\ sweep'.undecided
    BY <1>1, <1>2, Zenon DEF Pass1
  <1>4. /\ run' \in [Actors -> Task] /\ run'[Pass] = Idle
        /\ \A c \in Drops : run'[c] = run[c]
    BY <1>1, RunSet, NothingTyped, DropsAct DEF Actors
  <1>5. Grows
    BY <1>1, RowsSame DEF Grows, env, RInv
  <1>6. \A c \in Drops : Old(c)'
    BY <1>1, <1>3, <1>5, OldKept DEF mem
  <1>7. Carries(Pass)' /\ PassPlaces'
    BY <1>1, <1>3, <1>4 DEF RInv, Carries, PassPlaces, Idle, Finalizing, Reediting, mem
  <1>8. ASSUME NEW c \in Drops, Announced(c) PROVE Announced(c)' /\ Watched(c)'
    <2>1. Told(c) => Told(c)'
      BY <1>1, <1>4, ToldThrough
    <2>2. Announced(c)'
      BY <1>1, <1>3, <1>4, <1>8, <2>1 DEF Announced, Idle
    <2>3. Watched(c)'
      BY <1>1, <1>3 DEF RInv, PassPlaces, Watched
    <2> QED BY <2>2, <2>3
  <1> QED BY <1>1, <1>3, <1>4, <1>6, <1>7, <1>8, PassOnly

LEMMA DrivenStep ==
  ASSUME RInv, Driven
  PROVE  RInv'
  <1>1. /\ Typed /\ sweep.phase = "driving" /\ sweep.todo = {} /\ run[Pass].at = "idle"
        /\ UNCHANGED <<env, chat, journal, creating, claiming, run, mem, faults>>
    BY DEF RInv, Driven
  <1>2. PICK w \in SUBSET Drops :
          /\ w = {d \in Drops \ sweep.skip : /\ Has(d, TerminalStates)
                                             /\ journal[d].editFailed
                                             /\ editRetries[d] < MaxEditRetries}
          /\ sweep' = [sweep EXCEPT !.phase = "reediting", !.seen = journal, !.todo = w]
    BY DEF Driven
  <1>3. PICK j \in [Drops -> Entry \cup {None}] : j = journal
    BY <1>1 DEF Typed
  <1>4. sweep' = [sweep EXCEPT !.phase = "reediting", !.seen = j, !.todo = w] /\ sweep \in Pass1
    BY <1>1, <1>2, <1>3 DEF Typed
  <1>5. /\ sweep' \in Pass1
        /\ sweep'.phase = "reediting" /\ sweep'.todo = w /\ sweep'.lapsed = sweep.lapsed
        /\ sweep'.announced = sweep.announced /\ sweep'.seen = j
        /\ sweep'.lanes = sweep.lanes /\ sweep'.undecided = sweep.undecided
    BY <1>4, Zenon DEF Pass1
  <1>6. Grows
    BY <1>1, RowsSame DEF Grows, env, RInv
  <1>7. ASSUME NEW c \in Drops PROVE Old(c)'
    <2>1. /\ c \in sweep'.lapsed => c \in lapsed'
          /\ c \in sweep'.announced => journal'[c] # None /\ journal'[c].attempts > 0
      BY <1>1, <1>5 DEF RInv, Old, env
    <2>2. c \in w => /\ j[c] # None
                     /\ j[c].state \in TerminalStates
                     /\ editRetries'[c] < MaxEditRetries
      BY <1>1, <1>2, <1>3 DEF Has, mem
    <2>3. j[c] # None => /\ journal'[c] # None
                         /\ j[c].state = "received" => c \in submitted'
                         /\ j[c].announced = "old" => journal'[c].attempts > 0
      BY <1>1, <1>3 DEF RInv, Row, Has, env
    <2> QED BY <1>3, <1>5, <2>1, <2>2, <2>3 DEF Old
  <1>8. PassPlaces' /\ Carries(Pass)'
    BY <1>1, <1>5, <1>6, CarriesKept DEF RInv, PassPlaces, Finalizing, Reediting, mem, Actors
  <1>9. ASSUME NEW c \in Drops, Announced(c), Watched(c) PROVE Announced(c)' /\ Watched(c)'
    <2>1. /\ Told(c) => Told(c)'
          /\ Has(c, {"waiting"})' <=> Has(c, {"waiting"})
      BY <1>1, ToldThrough
    <2>2. Announced(c)'
      BY <1>1, <1>5, <1>9, <2>1 DEF Announced
    <2>3. Watched(c)'
      BY <1>1, <1>5, <1>9, <2>1 DEF Watched, Finalizing
    <2> QED BY <2>2, <2>3
  <1> QED BY <1>1, <1>5, <1>7, <1>8, <1>9, PassOnly DEF Typed

LEMMA ReeditStep ==
  ASSUME RInv, NEW d \in Drops, Reedit(d)
  PROVE  RInv'
  <1>1. /\ Typed /\ sweep.phase = "reediting" /\ run[Pass].at = "idle" /\ d \in sweep.todo
        /\ sweep' = [sweep EXCEPT !.todo = @ \ {d}]
        /\ UNCHANGED <<env, chat, journal, creating, claiming, mem, faults>>
    BY DEF RInv, Reedit, PassAt, Next1
  <1>2. /\ sweep.seen[d] # None /\ sweep.seen[d].state \in TerminalStates
        /\ editRetries[d] < MaxEditRetries /\ journal[d] # None
        /\ sweep.seen[d].state = "received" => d \in submitted
    BY <1>1 DEF RInv, Old
  <1>3. PICK w \in SUBSET Drops : w = sweep.todo \ {d}
    BY <1>1, SweepRead DEF Typed
  <1>4. sweep' = [sweep EXCEPT !.todo = w] /\ sweep \in Pass1
    BY <1>1, <1>3 DEF Typed
  <1>5. /\ sweep' \in Pass1
        /\ sweep'.phase = sweep.phase /\ sweep'.todo = w /\ sweep'.lapsed = sweep.lapsed
        /\ sweep'.announced = sweep.announced /\ sweep'.seen = sweep.seen
        /\ sweep'.lanes = sweep.lanes /\ sweep'.undecided = sweep.undecided
    BY <1>4, Zenon DEF Pass1
  <1>6. PICK state \in TerminalStates : state = sweep.seen[d].state
    BY <1>2
  <1>7. PICK q : /\ q = [at |-> "reediting", drop |-> d, pending |-> Nothing, state |-> state]
                 /\ run' = [run EXCEPT ![Pass] = q]
    BY <1>6 DEF Reedit
  <1>8. q \in Task
    BY <1>7, NothingTyped DEF Task, Places, States
  <1>9. /\ run' \in [Actors -> Task] /\ run'[Pass] = q
        /\ \A c \in Drops : run'[c] = run[c]
    BY <1>1, <1>7, <1>8, RunSet, DropsAct DEF Actors
  <1>10. Grows
    BY <1>1, RowsSame DEF Grows, env, RInv
  <1>11. \A c \in Drops : Old(c)'
    BY <1>1, <1>3, <1>5, <1>10, OldKept DEF mem
  <1>12. Carries(Pass)'
    BY <1>1, <1>2, <1>6, <1>7, <1>9 DEF Carries, Finalizing, Reediting, env
  <1>13. PassPlaces'
    BY <1>1, <1>2, <1>3, <1>5, <1>7, <1>9 DEF RInv, PassPlaces, Finalizing, Reediting, mem
  <1>14. ASSUME NEW c \in Drops, Announced(c), Watched(c) PROVE Announced(c)' /\ Watched(c)'
    <2>1. /\ Told(c) => Told(c)'
          /\ Has(c, {"waiting"})' <=> Has(c, {"waiting"})
      BY <1>1, <1>9, ToldThrough
    <2>2. Announced(c)'
      BY <1>1, <1>5, <1>7, <1>9, <1>14, <2>1 DEF Announced
    <2>3. Watched(c)'
      BY <1>1, <1>5, <1>9, <1>14, <2>1 DEF Watched, Finalizing
    <2> QED BY <2>2, <2>3
  <1> QED BY <1>1, <1>5, <1>9, <1>11, <1>12, <1>13, <1>14, PassOnly

LEMMA ReeditAnsweredStep ==
  ASSUME RInv, NEW ok \in BOOLEAN, ReeditAnswered(ok)
  PROVE  RInv'
  <1>1. PICK d : d = run[Pass].drop
    OBVIOUS
  <1>2. /\ Typed /\ Carries(Pass) /\ PassPlaces
        /\ d \in Drops /\ journal[d] # None /\ journal'[d] # None
        /\ journal' \in [Drops -> Entry \cup {None}]
        /\ \A c \in Drops : Writes(journal[c], journal'[c])
        /\ \A c \in Drops \ {d} : journal'[c] = journal[c]
        /\ journal'[d].state = journal[d].state
        /\ journal'[d].editFailed = journal[d].editFailed \/ ok
        /\ journal'[d].attempts = journal[d].attempts
        /\ journal'[d].announced = journal[d].announced
        /\ journal'[d].kind = journal[d].kind
        /\ journal'[d].claimed = journal[d].claimed
        /\ run[Pass].at \in Reediting /\ (ok => run[Pass].at = "reedited")
    BY <1>1, ReeditWrites DEF RInv, Actors
  <1>3. /\ UNCHANGED <<env, chat, creating, claiming, latch, resolvable, faults>>
        /\ run' = [run EXCEPT ![Pass] = Idle]
        /\ editRetries' = [editRetries EXCEPT ![d] = IF ok THEN 0 ELSE editRetries[d] + 1]
        /\ \E more \in SUBSET Lanes : sweep' = [sweep EXCEPT !.lanes = @ \cup more]
    <2>1. sweep \in Pass1 /\ LaneOf[d] \in Lanes
      BY <1>2, LaneAssumption DEF Typed
    <2>2. sweep = [sweep EXCEPT !.lanes = @ \cup {}]
      <3>1. sweep.lanes = sweep.lanes \cup {}
        OBVIOUS
      <3>2. sweep = [sweep EXCEPT !.lanes = sweep.lanes]
        BY <2>1, Zenon DEF Pass1
      <3> QED BY <3>1, <3>2
    <2>3. \/ sweep' = sweep
          \/ sweep' = [sweep EXCEPT !.lanes = @ \cup {LaneOf[d]}]
      BY <1>1 DEF ReeditAnswered
    <2> QED BY <1>1, <2>1, <2>2, <2>3 DEF ReeditAnswered
  <1>4. PICK more \in SUBSET Lanes : sweep' = [sweep EXCEPT !.lanes = @ \cup more]
    BY <1>3
  <1>5. /\ sweep' \in Pass1 /\ sweep'.lanes = sweep.lanes \cup more
        /\ sweep'.phase = sweep.phase /\ sweep'.todo = sweep.todo
        /\ sweep'.lapsed = sweep.lapsed /\ sweep'.seen = sweep.seen
        /\ sweep'.announced = sweep.announced /\ sweep'.undecided = sweep.undecided
    BY <1>2, <1>4, LanesJoin
  <1>6. /\ run' \in [Actors -> Task] /\ run'[Pass] = Idle
        /\ \A c \in Drops : run'[c] = run[c]
    BY <1>2, <1>3, RunSet, NothingTyped, DropsAct DEF Actors
  <1>7. /\ editRetries' \in [Drops -> 0..MaxEditRetries]
        /\ \A c \in Drops \ {d} : editRetries'[c] = editRetries[c]
    <2>1. editRetries[d] < MaxEditRetries
      BY <1>1, <1>2 DEF PassPlaces
    <2>2. PICK n \in 0..MaxEditRetries : n = IF ok THEN 0 ELSE editRetries[d] + 1
      BY <1>2, <2>1, RetriesAssumption DEF Typed
    <2> QED BY <1>2, <1>3, <2>2 DEF Typed
  <1>8. Typed'
    BY <1>2, <1>3, <1>5, <1>6, <1>7 DEF Typed, env
  <1>9. Grows
    BY <1>2, <1>3 DEF Grows, env
  <1>10. ASSUME NEW c \in Drops PROVE World(c)' /\ Row(c)' /\ Old(c)'
    <2>1. World(c)'
      BY <1>2, <1>3, WorldKept
    <2>2. Row(c)'
      <3>1. CASE c = d
        <4>1. ok => chat[d] # "waiting"
          BY <1>1, <1>2 DEF Carries
        <4> QED BY <1>2, <1>3, <3>1, <4>1 DEF RInv, Row, Has, env
      <3>2. CASE c # d
        BY <1>2, <1>3, <3>2, RowKept
      <3> QED BY <3>1, <3>2
    <2>3. Old(c)'
      <3>1. CASE c = d
        <4>1. d \notin sweep.todo
          BY <1>1, <1>2 DEF PassPlaces
        <4>2. Old(d)
          BY <1>2 DEF RInv
        <4> QED BY <1>2, <1>3, <1>5, <3>1, <4>1, <4>2 DEF Old, env
      <3>2. CASE c # d
        BY <1>5, <1>7, <1>9, <3>2, OldKept
      <3> QED BY <3>1, <3>2
    <2> QED BY <2>1, <2>2, <2>3
  <1>11. Carries(Pass)' /\ PassPlaces'
    BY <1>2, <1>3, <1>5, <1>6 DEF Carries, PassPlaces, Idle, Finalizing, Reediting
  <1>12. ASSUME NEW c \in Drops, Announced(c), Watched(c) PROVE Announced(c)' /\ Watched(c)'
    <2>1. /\ Has(c, {"waiting"})' <=> Has(c, {"waiting"})
          /\ Has(c, TerminalStates)' <=> Has(c, TerminalStates)
      BY <1>2 DEF Has
    <2>2. Told(c) => Told(c)'
      BY <1>2, <1>6, <1>9, <2>1, ToldKept DEF Tells, Reediting
    <2>3. run'[Pass].at = "idle" /\ sweep.phase = "reediting"
      BY <1>2, <1>6 DEF Idle, PassPlaces
    <2>4. Announced(c)'
      BY <1>5, <1>6, <1>12, <2>2, <2>3 DEF Announced
    <2>5. Watched(c)'
      BY <1>2, <1>3, <1>5, <1>6, <1>12, <2>1, <2>3 DEF Watched, Finalizing, Reediting
    <2> QED BY <2>4, <2>5
  <1>13. faults'.write <= faults.write
    BY <1>2, <1>3 DEF Typed, Faults
  <1> QED BY <1>6, <1>8, <1>9, <1>10, <1>11, <1>12, <1>13, PassMoves

LEMMA ReclaimStep ==
  ASSUME RInv, ReclaimSweep
  PROVE  RInv'
  <1>1. /\ Typed /\ sweep.phase = "reediting" /\ sweep.todo = {} /\ run[Pass].at = "idle"
        /\ UNCHANGED <<env, chat, creating, claiming, run, mem, faults>>
        /\ journal' \in [Drops -> Entry \cup {None}]
        /\ \A d \in Drops : Writes(journal[d], journal'[d])
        /\ \A d \in Drops : journal[d] = None => journal'[d] = None
        /\ \A d \in Drops : journal[d] # None =>
             /\ journal'[d] # None
             /\ journal'[d].state = journal[d].state
             /\ journal'[d].editFailed = journal[d].editFailed
             /\ journal'[d].attempts = journal[d].attempts
             /\ journal'[d].announced \in {journal[d].announced, "never"}
             /\ journal'[d].kind = journal[d].kind
             /\ journal'[d].claimed = journal[d].claimed
    BY ReclaimWrites DEF RInv, ReclaimSweep
  <1>2. PICK w \in SUBSET Drops :
          /\ w = TerminalUnannounced(journal', Lanes)
          /\ sweep' = [sweep EXCEPT !.phase = "announcing", !.seen = Nothing, !.todo = w]
    BY DEF ReclaimSweep, TerminalUnannounced
  <1>3. /\ sweep' \in Pass1
        /\ sweep'.phase = "announcing" /\ sweep'.todo = w /\ sweep'.lapsed = sweep.lapsed
        /\ sweep'.announced = sweep.announced
        /\ sweep'.lanes = sweep.lanes /\ sweep'.undecided = sweep.undecided
    <2>1. sweep \in Pass1
      BY <1>1 DEF Typed
    <2> QED BY <1>2, <2>1, Zenon DEF Pass1
  <1>4. Typed'
    BY <1>1, <1>3 DEF Typed, env, mem
  <1>5. Grows
    BY <1>1 DEF Grows, env
  <1>6. ASSUME NEW c \in Drops PROVE World(c)' /\ Row(c)' /\ Old(c)'
    <2>1. World(c)'
      BY <1>1, WorldKept
    <2>2. Row(c)'
      <3>1. CASE journal[c] = None
        <4>1. journal'[c] = journal[c]
          BY <1>1, <3>1
        <4> QED BY <1>1, <4>1, RowKept
      <3>2. CASE journal[c] # None
        <4>1. /\ journal'[c].claimed => broker[c] = "gone"
              /\ journal'[c].announced # "never" => journal'[c].attempts > 0
          BY <1>1, <3>2 DEF RInv, Row
        <4> QED BY <1>1, <3>2, <4>1, RowRewritten
      <3> QED BY <3>1, <3>2
    <2>3. Old(c)'
      <3>1. journal[c] # None => /\ journal'[c] # None
                                 /\ journal[c].attempts > 0 => journal'[c].attempts > 0
        BY <1>1
      <3> QED BY <1>1, <1>2, <1>3, <3>1 DEF RInv, Old, env, TerminalUnannounced
    <2> QED BY <2>1, <2>2, <2>3
  <1>7. PassPlaces' /\ Carries(Pass)'
    BY <1>1, <1>3, <1>5, CarriesKept DEF RInv, PassPlaces, Finalizing, Reediting, mem, Actors
  <1>8. ASSUME NEW c \in Drops, Announced(c), Watched(c) PROVE Announced(c)' /\ Watched(c)'
    <2>1. /\ Has(c, {"waiting"})' <=> Has(c, {"waiting"})
          /\ Has(c, TerminalStates)' <=> Has(c, TerminalStates)
      BY <1>1 DEF Has
    <2>2. Told(c) => Told(c)'
      BY <1>1, <1>5, <2>1, ToldKept DEF Tells
    <2>3. Told(c)' \/ c \in w
      <3>1. CASE ~Has(c, TerminalStates)'
        BY <3>1 DEF Told
      <3>2. CASE Has(c, TerminalStates)'
        <4>1. journal'[c] \in Entry /\ journal'[c] # None /\ journal'[c].state \in TerminalStates
          BY <1>1, <3>2 DEF Has
        <4>2. journal'[c].attempts \in Nat
          BY <4>1 DEF Entry
        <4>3. CASE journal'[c].attempts > 0
          BY <4>3 DEF Told
        <4>4. CASE ~(journal'[c].attempts > 0)
          <5>1. journal'[c].announced = "never"
            <6>1. Row(c)'
              BY <1>6
            <6> QED BY <4>1, <4>4, <6>1 DEF Row
          <5>2. LaneOf[c] \in Lanes /\ journal'[c].attempts < MaxAnnounceAttempts
            BY <4>2, <4>4, LaneAssumption, AttemptsAssumption
          <5> QED BY <1>2, <4>1, <5>1, <5>2 DEF TerminalUnannounced
        <4> QED BY <4>2, <4>3, <4>4
      <3> QED BY <3>1, <3>2
    <2>4. Announced(c)'
      BY <1>1, <1>3, <1>8, <2>2, <2>3 DEF Announced
    <2>5. Watched(c)'
      BY <1>1, <1>3, <1>8, <2>1 DEF Watched, Finalizing
    <2> QED BY <2>4, <2>5
  <1>9. faults'.write <= faults.write
    BY <1>1 DEF Typed, Faults
  <1> QED BY <1>1, <1>4, <1>5, <1>6, <1>7, <1>8, <1>9, PassMoves

LEMMA PassAnnouncesStep ==
  ASSUME RInv, NEW d \in Drops, PassAnnounces(d)
  PROVE  RInv'
  <1>1. /\ Typed /\ sweep.phase = "announcing" /\ run[Pass].at = "idle" /\ d \in sweep.todo
        /\ sweep' = [sweep EXCEPT !.todo = @ \ {d}]
        /\ run' = IF d \in sweep.announced THEN run
                  ELSE [run EXCEPT ![Pass] = Announce(journal, LaneOf[d])]
        /\ UNCHANGED <<env, chat, journal, creating, claiming, mem, faults>>
    BY DEF RInv, PassAnnounces, PassAt, Next1
  <1>2. PICK w \in SUBSET Drops : w = sweep.todo \ {d}
    BY <1>1, SweepRead DEF Typed
  <1>3. sweep' = [sweep EXCEPT !.todo = w] /\ sweep \in Pass1
    BY <1>1, <1>2 DEF Typed
  <1>4. /\ sweep' \in Pass1
        /\ sweep'.phase = sweep.phase /\ sweep'.todo = w /\ sweep'.lapsed = sweep.lapsed
        /\ sweep'.announced = sweep.announced /\ sweep'.seen = sweep.seen
        /\ sweep'.lanes = sweep.lanes /\ sweep'.undecided = sweep.undecided
    BY <1>3, Zenon DEF Pass1
  <1>5. Pass \in Actors /\ run \in [Actors -> Task] /\ journal \in [Drops -> Entry \cup {None}]
    BY <1>1 DEF Actors, Typed
  <1>6. PICK q \in Task : /\ q = IF d \in sweep.announced THEN run[Pass]
                                 ELSE Announce(journal, LaneOf[d])
                          /\ run' = [run EXCEPT ![Pass] = q]
    <2>1. Announce(journal, LaneOf[d]) \in Task /\ run[Pass] \in Task
      BY <1>5, SnapshotTyped
    <2> QED BY <1>1, <1>5, <2>1
  <1>7. /\ run' \in [Actors -> Task] /\ run'[Pass] = q
        /\ \A c \in Drops : run'[c] = run[c]
    BY <1>1, <1>5, <1>6, RunSet, DropsAct
  <1>8. Grows
    BY <1>1, RowsSame DEF Grows, env, RInv
  <1>9. \A c \in Drops : Old(c)'
    BY <1>1, <1>2, <1>4, <1>8, OldKept DEF mem
  <1>10. Typed'
    BY <1>1, <1>4, <1>7 DEF Typed, env, mem
  <1>11. Carries(Pass)' /\ run'[Pass].at \in {"idle", "waking"}
    <2>1. CASE d \in sweep.announced
      BY <1>1, <1>5, <1>6, <1>7, <1>8, <2>1, CarriesKept
    <2>2. CASE d \notin sweep.announced
      <3>1. run'[Pass] = Announce(journal', LaneOf[d])
        BY <1>1, <1>6, <1>7, <2>2
      <3> QED BY <1>5, <1>10, <3>1, AnnounceCarries
    <2> QED BY <2>1, <2>2
  <1>12. PassPlaces'
    BY <1>1, <1>4, <1>7, <1>11 DEF RInv, PassPlaces, Finalizing, Reediting, mem
  <1>13. Told(d)'
    <2>1. CASE d \in sweep.announced
      BY <1>1, <2>1 DEF RInv, Old, Told
    <2>2. CASE d \notin sweep.announced
      <3>1. CASE Has(d, TerminalStates)'
        <4>1. journal[d] # None /\ journal[d].state \in TerminalStates
          BY <1>1, <3>1 DEF Has
        <4>2. journal[d].announced # "never" => journal[d].attempts > 0
          BY <4>1 DEF RInv, Row
        <4>3. \/ journal[d].attempts > 0
              \/ /\ Announce(journal, LaneOf[d]).at = "waking"
                 /\ d \in DOMAIN Announce(journal, LaneOf[d]).pending
          BY <1>5, <4>1, <4>2, AnnounceTells
        <4> QED BY <1>1, <1>6, <1>7, <2>2, <4>3 DEF Told, Tells
      <3>2. CASE ~Has(d, TerminalStates)'
        BY <3>2 DEF Told
      <3> QED BY <3>1, <3>2
    <2> QED BY <2>1, <2>2
  <1>14. ASSUME NEW c \in Drops, Announced(c), Watched(c) PROVE Announced(c)' /\ Watched(c)'
    <2>1. /\ Told(c) => Told(c)'
          /\ Has(c, {"waiting"})' <=> Has(c, {"waiting"})
      BY <1>1, <1>7, ToldThrough
    <2>2. Announced(c)'
      BY <1>1, <1>2, <1>4, <1>7, <1>11, <1>13, <1>14, <2>1 DEF Announced
    <2>3. Watched(c)'
      BY <1>1, <1>4, <1>7, <1>14, <2>1 DEF Watched, Finalizing
    <2> QED BY <2>2, <2>3
  <1> QED BY <1>1, <1>4, <1>7, <1>9, <1>11, <1>12, <1>14, PassOnly

-----------------------------------------------------------------------------
(* The latch *)

\* A pass that passed something over leaves the latch open, or it gave up.
LEMMA UncleanOpens ==
  ASSUME NEW l \in LatchRecord, NEW s \in Summary,
         MaxFailedPasses \in Nat, MaxDeferredPasses \in Nat
  PROVE  /\ AccountForPass(l, s) \in LatchRecord
         /\ s.undecided \/ s.lanes # {} =>
              ~AccountForPass(l, s).started \/ GaveUp(AccountForPass(l, s))
  <1>1. ASSUME NEW m \in LatchRecord, NEW lanes \in SUBSET Lanes, NEW progress \in BOOLEAN
        PROVE  /\ NoteDeferredPass(m, lanes, progress) \in LatchRecord
               /\ \/ ~NoteDeferredPass(m, lanes, progress).started
                  \/ NoteDeferredPass(m, lanes, progress).spent
    <2>1. PICK n \in Nat : n = (IF progress THEN 0 ELSE m.deferredPasses) + 1
      BY DEF LatchRecord
    <2>2. PICK counted \in LatchRecord :
            counted = [m EXCEPT !.deferredPasses = n, !.deferredLanes = lanes]
      BY Zenon DEF LatchRecord
    <2>3. CASE n >= MaxDeferredPasses
      <3>1. NoteDeferredPass(m, lanes, progress) = [counted EXCEPT !.spent = TRUE]
        BY <2>1, <2>2, <2>3 DEF NoteDeferredPass
      <3>2. PICK e : e = [counted EXCEPT !.spent = TRUE]
        OBVIOUS
      <3>3. e \in LatchRecord /\ e.spent
        BY <3>2, Zenon DEF LatchRecord
      <3> QED BY <3>1, <3>2, <3>3
    <2>4. CASE ~(n >= MaxDeferredPasses)
      <3>1. NoteDeferredPass(m, lanes, progress) =
              [counted EXCEPT !.gated = TRUE, !.started = FALSE]
        BY <2>1, <2>2, <2>4 DEF NoteDeferredPass
      <3>2. PICK e : e = [counted EXCEPT !.gated = TRUE, !.started = FALSE]
        OBVIOUS
      <3>3. e \in LatchRecord /\ ~e.started
        BY <3>2, Zenon DEF LatchRecord
      <3> QED BY <3>1, <3>2, <3>3
    <2> QED BY <2>3, <2>4
  <1>2. s.lanes \in SUBSET Lanes /\ s.failed \in BOOLEAN /\ s.undecided \in BOOLEAN
        /\ s.progress \in BOOLEAN
    BY Zenon DEF Summary
  <1>3. ASSUME NEW lanes \in SUBSET Lanes
        PROVE  /\ NoteFailedPass(l, lanes) \in LatchRecord
               /\ ~NoteFailedPass(l, lanes).started \/ GaveUp(NoteFailedPass(l, lanes))
    <2>1. PICK n \in Nat : n = l.failedPasses + 1
      BY DEF LatchRecord
    <2>2. PICK carried \in SUBSET Lanes : carried = l.deferredLanes \cup lanes
      BY DEF LatchRecord
    <2>3. PICK counted : counted = [l EXCEPT !.failedPasses = n, !.deferredLanes = carried]
      OBVIOUS
    <2>4. /\ counted \in LatchRecord
          /\ counted.failedPasses = n /\ counted.deferredLanes = carried
      BY <2>3, Zenon DEF LatchRecord
    <2>5. [l EXCEPT !.failedPasses = @ + 1, !.deferredLanes = l.deferredLanes \cup lanes] = counted
      BY <2>1, <2>2, <2>3
    <2>6. CASE n < MaxFailedPasses
      <3>1. PICK e : e = [counted EXCEPT !.gated = FALSE, !.started = FALSE]
        OBVIOUS
      <3>2. e \in LatchRecord /\ ~e.started
        BY <2>4, <3>1, Zenon DEF LatchRecord
      <3>3. ~(n >= MaxFailedPasses)
        BY <2>6
      <3>4. NoteFailedPass(l, lanes) = e
        BY <2>2, <2>4, <2>5, <2>6, <3>1, <3>3, Zenon DEF NoteFailedPass
      <3> QED BY <3>2, <3>4
    <2>7. CASE n >= MaxFailedPasses /\ carried # {}
      <3>1. ~(n < MaxFailedPasses)
        BY <2>7
      <3>2. NoteFailedPass(l, lanes) = NoteDeferredPass(counted, carried, FALSE)
        BY <2>2, <2>4, <2>5, <2>7, <3>1, Zenon DEF NoteFailedPass
      <3> QED BY <1>1, <2>4, <3>2 DEF GaveUp
    <2>8. CASE n >= MaxFailedPasses /\ carried = {}
      <3>1. ~(n < MaxFailedPasses)
        BY <2>8
      <3>2. NoteFailedPass(l, lanes) = counted
        BY <2>2, <2>4, <2>5, <2>8, <3>1, Zenon DEF NoteFailedPass
      <3> QED BY <2>4, <2>8, <3>2 DEF GaveUp
    <2> QED BY <2>6, <2>7, <2>8
  <1>4. CASE s.failed \/ s.undecided
    <2>1. AccountForPass(l, s) = NoteFailedPass(l, s.lanes)
      BY <1>4, Zenon DEF AccountForPass
    <2> QED BY <1>2, <1>3, <2>1
  <1>5. CASE ~(s.failed \/ s.undecided) /\ s.lanes # {}
    <2>1. AccountForPass(l, s) = NoteDeferredPass(l, s.lanes, s.progress)
      BY <1>5, Zenon DEF AccountForPass
    <2> QED BY <1>1, <1>2, <2>1 DEF GaveUp
  <1>6. CASE ~(s.failed \/ s.undecided) /\ s.lanes = {}
    <2>1. AccountForPass(l, s) = NoteCleanPass(l)
      BY <1>6, Zenon DEF AccountForPass
    <2>2. l.started \in BOOLEAN /\ FreshLatch \in LatchRecord
      BY Zenon DEF LatchRecord, FreshLatch
    <2>3. NoteCleanPass(l) \in LatchRecord
      BY <2>2, Zenon DEF NoteCleanPass, LatchRecord
    <2> QED BY <1>6, <2>1, <2>3
  <1> QED BY <1>4, <1>5, <1>6

LEMMA PassEndsStep ==
  ASSUME RInv, PassEnds
  PROVE  RInv'
  <1>1. /\ Typed /\ sweep.phase = "announcing" /\ sweep.todo = {} /\ run[Pass].at = "idle"
        /\ latch' = AccountForPass(latch, Report)
        /\ editRetries' = IF CleanReport THEN [d \in Drops |-> 0] ELSE editRetries
        /\ sweep' = NoSweep
        /\ UNCHANGED <<env, chat, journal, creating, claiming, run, resolvable, faults>>
    BY DEF RInv, PassEnds
  <1>2. PICK s \in Summary : s = Report
    <2>1. sweep \in Pass1
      BY <1>1 DEF Typed
    <2>2. Report \in Summary
      BY <2>1, SweepRead DEF Report, Summary
    <2> QED BY <2>2
  <1>3. /\ latch' \in LatchRecord
        /\ s.undecided \/ s.lanes # {} => ~latch'.started \/ GaveUp(latch')
    <2>1. latch \in LatchRecord
      BY <1>1 DEF Typed
    <2>2. PICK l \in LatchRecord : l = latch
      BY <2>1
    <2> QED BY <1>1, <1>2, <2>2, UncleanOpens, PassesAssumption DEF BudgetAssumption
  <1>4. /\ sweep' \in Pass1 /\ sweep'.phase = "idle" /\ sweep'.todo = {}
        /\ sweep'.lapsed = {} /\ sweep'.announced = {}
    BY <1>1, NoSweepTyped, Zenon DEF NoSweep
  <1>5. editRetries' \in [Drops -> 0..MaxEditRetries]
    BY <1>1, RetriesAssumption DEF Typed
  <1>6. Typed'
    BY <1>1, <1>3, <1>4, <1>5 DEF Typed, env
  <1>7. Grows
    BY <1>1, RowsSame DEF Grows, env
  <1>8. ASSUME NEW c \in Drops PROVE World(c)' /\ Row(c)' /\ Old(c)'
    <2>1. World(c)' /\ Row(c)'
      BY <1>1, WorldKept, RowKept
    <2> QED BY <1>4, <2>1 DEF Old
  <1>9. Carries(Pass)' /\ PassPlaces'
    BY <1>1, <1>4, <1>7, CarriesKept DEF RInv, PassPlaces, Finalizing, Reediting, Actors
  <1>10. ASSUME NEW c \in Drops, Announced(c), Watched(c) PROVE Announced(c)' /\ Watched(c)'
    <2>1. /\ Told(c) => Told(c)'
          /\ Has(c, {"waiting"})' <=> Has(c, {"waiting"})
      BY <1>1, ToldThrough
    <2>2. Announced(c)'
      BY <1>1, <1>4, <1>10, <2>1 DEF Announced
    <2>3. s.undecided = sweep.undecided /\ s.lanes = sweep.lanes
      BY <1>2 DEF Report
    <2>4. Watched(c)'
      BY <1>1, <1>3, <1>4, <1>10, <2>1, <2>3 DEF Watched, Finalizing
    <2> QED BY <2>2, <2>4
  <1>11. faults'.write <= faults.write
    BY <1>1 DEF Typed, Faults
  <1> QED BY <1>1, <1>6, <1>7, <1>8, <1>9, <1>10, <1>11, PassMoves

LEMMA MessageStep ==
  ASSUME RInv, NEW lane \in Lanes, Message(lane)
  PROVE  RInv'
  <1>1. /\ Typed /\ resolvable' = resolvable \cup {lane}
        /\ UNCHANGED <<env, chat, journal, creating, claiming, run, editRetries, faults>>
        /\ \/ /\ ~latch.started /\ latch' = ClaimTrigger(latch)
              /\ sweep' = [NoSweep EXCEPT !.phase = "scheduled"]
           \/ UNCHANGED <<latch, sweep>>
    BY DEF RInv, Message
  <1>2. Grows
    BY <1>1, RowsSame DEF Grows, env
  <1>3. \A c \in Drops : World(c)' /\ Row(c)'
    BY <1>1, WorldKept, RowKept
  <1>4. faults'.write <= faults.write
    BY <1>1 DEF Typed, Faults
  <1>5. CASE UNCHANGED <<latch, sweep>>
    <2>1. Typed'
      BY <1>1, <1>5 DEF Typed, env
    <2> QED BY <1>1, <1>2, <1>3, <1>4, <1>5, <2>1, CalmStep
  <1>6. CASE /\ ~latch.started /\ latch' = ClaimTrigger(latch)
             /\ sweep' = [NoSweep EXCEPT !.phase = "scheduled"]
    <2>1. latch' \in LatchRecord /\ latch'.started
      <3>1. latch \in LatchRecord
        BY <1>1 DEF Typed
      <3>2. latch' = [latch EXCEPT !.started = TRUE]
        BY <1>6 DEF ClaimTrigger
      <3> QED BY <3>1, <3>2, Zenon DEF LatchRecord
    <2>2. /\ sweep' \in Pass1 /\ sweep'.phase = "scheduled" /\ sweep'.todo = {}
          /\ sweep'.lapsed = {} /\ sweep'.announced = {}
      <3>1. sweep' \in Pass1 /\ sweep'.phase = "scheduled"
        BY <1>6, NoSweepTyped, Zenon DEF Pass1
      <3>2. /\ sweep'.todo = NoSweep.todo /\ sweep'.lapsed = NoSweep.lapsed
            /\ sweep'.announced = NoSweep.announced
        BY <1>6, NoSweepTyped, Zenon DEF Pass1
      <3> QED BY <3>1, <3>2 DEF NoSweep
    <2>3. Typed'
      BY <1>1, <2>1, <2>2 DEF Typed, env
    <2>4. sweep.phase = "idle" /\ run[Pass].at = "idle"
      BY <1>6 DEF RInv, PassPlaces
    <2>5. \A c \in Drops : Old(c)'
      BY <2>2 DEF Old
    <2>6. Carries(Pass)' /\ PassPlaces'
      BY <1>1, <1>2, <2>1, <2>2, <2>4, CarriesKept
         DEF RInv, PassPlaces, Finalizing, Reediting, Actors
    <2>7. ASSUME NEW c \in Drops, Announced(c) PROVE Announced(c)' /\ Watched(c)'
      <3>1. Told(c) => Told(c)'
        BY <1>1, <2>4, ToldThrough
      <3>2. Announced(c)'
        BY <1>1, <2>2, <2>4, <2>7, <3>1 DEF Announced
      <3>3. Watched(c)'
        BY <2>2 DEF Watched
      <3> QED BY <3>2, <3>3
    <2> QED BY <1>1, <1>2, <1>3, <1>4, <2>3, <2>5, <2>6, <2>7, PassMoves
  <1> QED BY <1>1, <1>5, <1>6

LEMMA RestartStep ==
  ASSUME RInv, GatewayRestart
  PROVE  RInv'
  <1>1. /\ Typed
        /\ creating' = [d \in Drops |-> IF creating[d] = "none" THEN "none" ELSE "over"]
        /\ claiming' = [d \in Drops |-> "idle"]
        /\ run' = [a \in Actors |-> Idle] /\ sweep' = NoSweep /\ latch' = FreshLatch
        /\ resolvable' = {} /\ editRetries' = [d \in Drops |-> 0]
        /\ UNCHANGED <<env, chat, journal>>
        /\ faults' \in Faults /\ faults'.write <= faults.write /\ faults'.write <= WriteFaults
    BY SpendTyped DEF RInv, GatewayRestart
  <1>2. FreshLatch \in LatchRecord /\ ~FreshLatch.started
    BY Zenon DEF FreshLatch, LatchRecord
  <1>3. Typed'
    BY <1>1, <1>2, NothingTyped, NoSweepTyped, RetriesAssumption DEF Typed, env
  <1>4. /\ \A a \in Actors : run'[a] = Idle
        /\ Pass \in Actors /\ \A d \in Drops : d \in Actors
    BY <1>1 DEF Actors
  <1>5. Idle.at = "idle"
    BY DEF Idle
  <1>6. sweep'.phase = "idle" /\ sweep'.lapsed = {} /\ sweep'.announced = {} /\ sweep'.todo = {}
    BY <1>1 DEF NoSweep
  <1>7. ASSUME NEW d \in Drops
        PROVE  /\ World(d)' /\ Row(d)' /\ WaiterAt(d)' /\ Old(d)'
               /\ Announced(d)' /\ Watched(d)'
    <2>1. World(d)' /\ Row(d)'
      BY <1>1 DEF RInv, World, Row, Has, env
    <2>2. WaiterAt(d)'
      BY <1>4, <1>5 DEF WaiterAt, Finalizing
    <2>3. Old(d)'
      BY <1>6 DEF Old
    <2>4. Announced(d)' /\ Watched(d)'
      BY <1>1, <1>2, <1>4, <1>5, <1>6 DEF Announced, Watched
    <2> QED BY <2>1, <2>2, <2>3, <2>4
  <1>8. \A a \in Actors : Carries(a)'
    BY <1>4, <1>5 DEF Carries, Finalizing, Reediting
  <1>9. PassPlaces'
    BY <1>4, <1>5, <1>6 DEF PassPlaces, Finalizing, Reediting
  <1> QED BY <1>3, <1>7, <1>8, <1>9 DEF RInv

-----------------------------------------------------------------------------
(* The invariant *)

LEMMA InitInv == Init => RInv
  <1> SUFFICES ASSUME Init PROVE RInv
    OBVIOUS
  <1>1. FreshLatch \in LatchRecord /\ ~FreshLatch.started
    BY Zenon DEF FreshLatch, LatchRecord
  <1>2. Granted \in Faults /\ Granted.write = WriteFaults
    <2>1. /\ GatewayRestarts \in Nat /\ BrokerRestarts \in Nat /\ WriteFaults \in Nat
          /\ Cancels \in Nat /\ LaneLapses \in Nat /\ MaxFaults \in Nat
      BY FaultAssumption
    <2> QED BY <2>1 DEF Granted, Faults
  <1>3. Typed
    BY <1>1, <1>2, NothingTyped, NoSweepTyped, RetriesAssumption, FaultAssumption DEF Init, Typed
  <1>4. /\ \A a \in Actors : run[a] = Idle
        /\ Pass \in Actors /\ \A d \in Drops : d \in Actors
    BY DEF Init, Actors
  <1>5. Idle.at = "idle"
    BY DEF Idle
  <1>6. sweep.phase = "idle" /\ sweep.lapsed = {} /\ sweep.announced = {} /\ sweep.todo = {}
    BY DEF Init, NoSweep
  <1>7. ASSUME NEW d \in Drops
        PROVE  /\ World(d) /\ Row(d) /\ WaiterAt(d) /\ Old(d)
               /\ Announced(d) /\ Watched(d)
    <2>1. World(d) /\ Row(d)
      BY DEF Init, World, Row, Has
    <2>2. WaiterAt(d)
      BY <1>4, <1>5 DEF WaiterAt, Finalizing
    <2>3. Old(d)
      BY <1>6 DEF Old
    <2>4. Announced(d) /\ Watched(d)
      BY <1>1, <1>4, <1>5, <1>6 DEF Init, Announced, Watched
    <2> QED BY <2>1, <2>2, <2>3, <2>4
  <1>8. \A a \in Actors : Carries(a)
    BY <1>4, <1>5 DEF Carries, Finalizing, Reediting
  <1>9. PassPlaces
    BY <1>4, <1>5, <1>6 DEF PassPlaces, Finalizing, Reediting
  <1> QED BY <1>3, <1>7, <1>8, <1>9 DEF RInv

LEMMA StutterInv ==
  ASSUME RInv, UNCHANGED vars
  PROVE  RInv'
  <1>1. /\ Typed /\ Typed'
        /\ UNCHANGED <<env, chat, journal, creating, claiming, run, sweep, latch, editRetries, faults>>
    BY DEF RInv, Typed, vars, env, mem
  <1>2. Grows
    BY <1>1, RowsSame DEF Grows, env
  <1>3. \A c \in Drops : World(c)' /\ Row(c)'
    BY <1>1, WorldKept, RowKept
  <1>4. faults'.write <= faults.write
    BY <1>1 DEF Typed, Faults
  <1> QED BY <1>1, <1>2, <1>3, <1>4, CalmStep

LEMMA NextInv == RInv /\ [Next]_vars => RInv'
  <1> SUFFICES ASSUME RInv, [Next]_vars PROVE RInv'
    OBVIOUS
  <1>1. CASE UNCHANGED vars
    BY <1>1, StutterInv
  <1>2. ASSUME NEW d \in Drops, Submit(d) \/ Lapse(d) \/ GracePasses(d)
        PROVE  RInv'
    BY <1>2, SubmitStep, LapseStep, GraceStep
  <1>3. ASSUME NEW d \in Drops, Create(d)
        PROVE  RInv'
    BY <1>3, CreateStep, PostAnsweredStep
  <1>4. ASSUME NEW d \in Drops, WaiterStep(d)
        PROVE  RInv'
    BY <1>4, WaiterStartsStep, WaiterAnsweredStep DEF WaiterStep
  <1>5. ASSUME NEW d \in Drops, ClaimStep(d)
        PROVE  RInv'
    BY <1>5, ClaimStepInv
  <1>6. ASSUME NEW lane \in Lanes, Message(lane) \/ LaneGoes(lane)
        PROVE  RInv'
    BY <1>6, MessageStep, LaneGoesStep
  <1>7. ASSUME NEW a \in Actors, FinalizeStep(a)
        PROVE  RInv'
    BY <1>7, FinalizeStepInv
  <1>8. CASE PassStep
    <2>1. ASSUME NEW d \in Drops, \/ PassExpires(d) \/ PassProbes(d)
                                  \/ \E v \in {"submitted", "gone"} : ProbeResolves(d, v)
                                  \/ ProbeRearms(d) \/ ProbeUndecided(d)
          PROVE  RInv'
      BY <2>1, PassExpiresStep, PassProbesStep, ProbeResolvesStep, ProbeRearmsStep,
         ProbeUndecidedStep
    <2>2. ASSUME NEW d \in Drops, \/ Reedit(d) \/ PassAnnounces(d)
                                  \/ PassDefers("driving", d) \/ PassDefers("reediting", d)
                                  \/ PassDefers("announcing", d)
          PROVE  RInv'
      BY <2>2, ReeditStep, PassAnnouncesStep, PassDefersStep
    <2>3. ASSUME NEW ok \in BOOLEAN, ReeditAnswered(ok)
          PROVE  RInv'
      BY <2>3, ReeditAnsweredStep
    <2>4. CASE PassStarts \/ Driven \/ ReclaimSweep \/ PassEnds
      BY <2>4, PassStartsStep, DrivenStep, ReclaimStep, PassEndsStep
    <2> QED BY <1>8, <2>1, <2>2, <2>3, <2>4 DEF PassStep
  <1>9. CASE BrokerCrashes \/ GatewayRestart
    BY <1>9, BrokerCrashStep, RestartStep
  <1> QED BY <1>1, <1>2, <1>3, <1>4, <1>5, <1>6, <1>7, <1>8, <1>9 DEF Next

LEMMA TypedReads == Typed => TypeOK
  <1> SUFFICES ASSUME Typed PROVE TypeOK
    OBVIOUS
  <1>1. \A d \in Drops : journal[d] = None \/ journal[d] \in Entry
    BY DEF Typed
  <1>2. ASSUME NEW a \in Actors PROVE RunOK(run[a])
    <2>1. run[a] \in Task
      BY DEF Typed
    <2>2. DOMAIN run[a] = {"at", "drop", "state", "pending"}
      BY <2>1, Zenon DEF Task
    <2>3. /\ DOMAIN run[a].pending \subseteq Drops
          /\ \A d \in DOMAIN run[a].pending : run[a].pending[d] \in Nat
      BY <2>1, TaskRead, WakesRead
    <2> QED BY <2>1, <2>2, <2>3, TaskRead DEF RunOK
  <1>3. DOMAIN run = Actors
    BY DEF Typed
  <1>4. /\ sweep.phase \in {"idle", "scheduled", "driving", "reediting", "announcing"}
        /\ sweep.todo \cup sweep.lapsed \cup sweep.skip \cup sweep.announced \subseteq Drops
        /\ Report \in Summary
    <2>1. sweep \in Pass1
      BY DEF Typed
    <2> QED BY <2>1, SweepRead DEF Report, Summary
  <1> QED BY <1>1, <1>2, <1>3, <1>4 DEF Typed, TypeOK

\* The strengthening of all of the below: what each coroutine carries over an await is
\* still true when it acts on it, and what a pass has read is still true of the drops
\* it has left to do.
THEOREM ReconcilerInvariant == Spec => []RInv
  BY InitInv, NextInv, PTL DEF Spec

\* Entries, tasks, the pass and the latch stay records of their kind, and retries of an
\* edit within their limit, through every restart.
THEOREM ReconcilerTyped == Spec => []TypeOK
  BY ReconcilerInvariant, TypedReads, PTL DEF RInv

\* Whoever resolves a drop, after whichever awaits: nothing is shown or journalled as
\* received that was never submitted, and an expired drop is gone from the broker.
THEOREM VerdictsTrue == Spec => []VerdictTrue
  <1>1. RInv => VerdictTrue
    BY DEF RInv, Row, VerdictTrue
  <1> QED BY <1>1, ReconcilerInvariant, PTL

\* A message that still shows the link of a resolved drop is marked for another edit,
\* whichever of the two resolved it and however its edits ended.
THEOREM DeadLinksFlagged == Spec => []DeadLinkFlagged
  <1>1. RInv => DeadLinkFlagged
    BY DEF RInv, Row, DeadLinkFlagged
  <1> QED BY <1>1, ReconcilerInvariant, PTL

\* A claim recorded in the journal, on the answer or on a refusal, is of a drop the
\* broker does not hold.
THEOREM ClaimedIsSpent == Spec => []ClaimedMeansSpent
  <1>1. RInv => ClaimedMeansSpent
    BY DEF RInv, Row, ClaimedMeansSpent
  <1> QED BY <1>1, ReconcilerInvariant, PTL

\* As long as no journal write failed, a waiting drop that has neither waiter nor pass
\* finds the latch open for the next message, or its budget used up.
THEOREM WaitingWatched == Spec => []WaitingIsWatched
  <1>1. RInv => WaitingIsWatched
    <2> SUFFICES ASSUME RInv, faults.write = WriteFaults, NEW d \in Drops,
                        Has(d, {"waiting"}), GoneUnattended(d)
                 PROVE  ~latch.started \/ GaveUp(latch)
      BY DEF WaitingIsWatched
    <2>1. Watched(d) /\ PassPlaces
      BY DEF RInv, Faultless
    <2>2. sweep.phase = "idle" /\ run[d].at = "idle" /\ run[Pass].at = "idle"
      BY <2>1 DEF GoneUnattended, PassPlaces
    <2> QED BY <2>1, <2>2 DEF Watched, Finalizing
  <1> QED BY <1>1, ReconcilerInvariant, PTL

LEMMA SpendsOne ==
  ASSUME RInv, NEW kind \in {"gateway", "write"}, Spend(kind)
  PROVE  faults' # faults
  <1>1. PICK n \in Nat, m \in Nat : n = faults.all /\ m = faults[kind] /\ n > 0
    BY DEF RInv, Typed, Faults, Spend
  <1>2. faults' = [faults EXCEPT ![kind] = m - 1, !.all = n - 1] /\ faults \in Faults
    BY <1>1 DEF RInv, Typed, Spend
  <1>3. faults'.all = n - 1
    BY <1>2, Zenon DEF Faults
  <1>4. n - 1 # n
    OBVIOUS
  <1> QED BY <1>1, <1>3, <1>4

LEMMA PhaseHolds ==
  ASSUME RInv, NEW a \in Actors, FinalizeStep(a), faults' = faults
  PROVE  sweep'.phase = sweep.phase
  <1>1. CASE EditLands(a)
    BY <1>1 DEF EditLands
  <1>2. ASSUME NEW ok \in BOOLEAN, EditAnswered(a, ok)
        PROVE  sweep'.phase = sweep.phase
    <2>1. \E more \in SUBSET Lanes :
            sweep' = IF a = Pass THEN [sweep EXCEPT !.lanes = @ \cup more] ELSE sweep
      BY <1>2, EditAnsweredMoves
    <2> QED BY <2>1, LanesJoin DEF RInv
  <1>3. ASSUME NEW ok \in BOOLEAN, WakeAnswered(a, ok)
        PROVE  sweep'.phase = sweep.phase
    <2>1. CASE a = Pass /\ ok
      <3>1. PICK more : /\ more = sweep.announced \cup DOMAIN run[a].pending
                        /\ sweep' = [sweep EXCEPT !.announced = more, !.progress = TRUE]
        BY <1>3, <2>1 DEF WakeAnswered
      <3>2. sweep \in Pass1
        BY DEF RInv, Typed
      <3> QED BY <3>1, <3>2, Zenon DEF Pass1
    <2>2. CASE ~(a = Pass /\ ok)
      BY <1>3, <2>2 DEF WakeAnswered
    <2> QED BY <2>1, <2>2
  <1>4. ~Unrecorded(a)
    BY SpendsOne DEF Unrecorded
  <1> QED BY <1>1, <1>2, <1>3, <1>4 DEF FinalizeStep

\* Only its end, and a restart, take a pass from announcing to idle.
LEMMA OnlyPassEnds ==
  ASSUME RInv, Next, sweep.phase = "announcing", sweep'.phase = "idle", faults' = faults
  PROVE  PassEnds
  <1>1. sweep \in Pass1 /\ PassPlaces
    BY DEF RInv, Typed
  <1>2. ~UNCHANGED sweep
    OBVIOUS
  <1>3. ASSUME NEW d \in Drops
        PROVE  /\ ~Submit(d) /\ ~Lapse(d) /\ ~GracePasses(d) /\ ~Create(d)
               /\ ~WaiterStep(d) /\ ~ClaimStep(d)
    <2>1. ~Submit(d) /\ ~Lapse(d) /\ ~GracePasses(d)
      BY <1>2 DEF Submit, Lapse, GracePasses
    <2>2. ~Create(d)
      BY <1>2 DEF Create, CreateMints, PostLands, PostFails, PostAnswered, JournalRefuses,
                  Retract, BridgeCancelsCreate
    <2>3. ~WaiterStep(d)
      BY <1>2 DEF WaiterStep, WaiterStarts, WaiterAnswered
    <2>4. ~ClaimStep(d)
      BY <1>2 DEF ClaimStep, ClaimBegins, ClaimTakes, ClaimAnswered, ClaimRefused, ClaimLost
    <2> QED BY <2>1, <2>2, <2>3, <2>4
  <1>4. ASSUME NEW lane \in Lanes
        PROVE  ~Message(lane) /\ ~LaneGoes(lane)
    <2>1. [NoSweep EXCEPT !.phase = "scheduled"].phase = "scheduled"
      BY NoSweepTyped, Zenon DEF Pass1
    <2> QED BY <1>2, <2>1 DEF Message, LaneGoes
  <1>5. \A a \in Actors : ~FinalizeStep(a)
    BY PhaseHolds
  <1>6. ~BrokerCrashes /\ ~GatewayRestart
    BY <1>2, SpendsOne DEF BrokerCrashes, GatewayRestart
  <1>7. PassStep
    BY <1>3, <1>4, <1>5, <1>6 DEF Next
  <1>8. ~PassStarts /\ ~Driven /\ ~ReclaimSweep
    BY DEF PassStarts, Driven, ReclaimSweep
  <1>9. ASSUME NEW d \in Drops
        PROVE  /\ ~PassExpires(d) /\ ~PassProbes(d) /\ ~Reedit(d)
               /\ \A v \in {"submitted", "gone"} : ~ProbeResolves(d, v)
               /\ ~ProbeRearms(d) /\ ~ProbeUndecided(d)
    BY <1>1 DEF PassExpires, PassProbes, Reedit, PassAt, ProbeResolves, ProbeRearms,
                ProbeUndecided, Probed, PassPlaces
  <1>10. ASSUME NEW d \in Drops PROVE ~PassAnnounces(d)
    <2>1. sweep.todo \ {d} \in SUBSET Drops
      BY <1>1, SweepRead
    <2>2. [sweep EXCEPT !.todo = sweep.todo \ {d}].phase = sweep.phase
      BY <1>1, Zenon DEF Pass1
    <2> QED BY <2>2 DEF PassAnnounces, Next1
  <1>11. ASSUME NEW d \in Drops, NEW phase PROVE ~PassDefers(phase, d)
    <2>1. PICK w, l : w = sweep.todo \ {d} /\ l = sweep.lanes \cup {LaneOf[d]}
      OBVIOUS
    <2>2. [sweep EXCEPT !.todo = w, !.lanes = l].phase = sweep.phase
      BY <1>1, Zenon DEF Pass1
    <2> QED BY <2>1, <2>2 DEF PassDefers
  <1>12. \A ok \in BOOLEAN : ~ReeditAnswered(ok)
    BY <1>1 DEF ReeditAnswered, PassPlaces, Reediting
  <1> QED BY <1>7, <1>8, <1>9, <1>10, <1>11, <1>12 DEF PassStep

\* A pass reports clean only when every drop it leaves resolved was announced, or has
\* its announcement behind it or on the way: no verdict waits for a pass that the
\* latch, now shut, will not start.
THEOREM CleanPassLeavesNone == Spec => CleanPassLeavesNothing
  <1>1. RInv /\ [Next]_vars =>
          [sweep.phase = "announcing" /\ sweep'.phase = "idle" /\ faults' = faults /\ CleanReport
             /\ faults.write = WriteFaults =>
             \A d \in Drops : Has(d, TerminalStates) =>
               journal[d].announced # "never" \/ journal[d].attempts > 0
                 \/ run[d].at # "idle"]_vars
    <2> SUFFICES ASSUME RInv, Next, sweep.phase = "announcing", sweep'.phase = "idle",
                        faults' = faults, CleanReport, faults.write = WriteFaults,
                        NEW d \in Drops, Has(d, TerminalStates)
                 PROVE  journal[d].attempts > 0 \/ run[d].at # "idle"
      OBVIOUS
    <2>1. sweep.todo = {} /\ run[Pass].at = "idle"
      BY OnlyPassEnds DEF PassEnds
    <2>2. sweep.lanes = {}
      BY DEF CleanReport, Report
    <2>3. Announced(d)
      BY DEF RInv, Faultless
    <2>4. Told(d)
      BY <2>1, <2>2, <2>3 DEF Announced
    <2> QED BY <2>1, <2>4 DEF Told, Tells
  <1> QED BY <1>1, ReconcilerInvariant, PTL DEF Spec, CleanPassLeavesNothing
=============================================================================
