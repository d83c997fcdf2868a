------------------------------- MODULE Spool -------------------------------
(***************************************************************************)
(* The file spool of the plugin (drop/spool.py): the directories of the    *)
(* claims under one private root, the worker threads that create, fill,    *)
(* publish, quarantine and discard them, the startup purge behind its      *)
(* one-shot latch, and the janitor.  Each claim has one directory, named   *)
(* by a token of its own; what a thread does between two system calls that *)
(* another thread can observe is one action.  The disk survives a gateway  *)
(* restart, everything else is a global of the process.                    *)
(*                                                                         *)
(* A task awaits a worker by asyncio.to_thread: the worker's outcome waits *)
(* in out until the task resumes, and a task that stops waiting leaves a   *)
(* worker behind that nobody listens to.                                   *)
(***************************************************************************)
EXTENDS Naturals, FiniteSets

CONSTANTS Claims,       \* calls of materialize_file_claim
          SlotLimit,    \* MAX_LIVE_CLAIM_BYTES \div MAX_CLAIM_TOTAL_BYTES
          RootExists,   \* whether the root directory is there at first
          PassRuns,     \* whether a reconcile pass runs beside the claims
          SlowTransfers, \* whether a transfer may outlast STAGING_GRACE_SECONDS
          MaxFaults,    \* system calls that fail, cancellations and restarts, together
          None

ASSUME SlotAssumption == SlotLimit \in Nat \ {0} /\ None \notin Claims

VARIABLES disk,        \* the kind of entry under which a claim's bytes lie
          aged,        \* claims whose entry has passed its TTL or grace
          root,        \* does the root directory exist?
          dir,         \* StagingClaim: its descriptors and outcome flags
          reserved, registered,          \* _reserved_bytes, _ACTIVE_STAGING
          started, purging, sweep,       \* _started, holder of _STARTUP_LOCK, open sweeps
          janitor,                       \* _janitor
          at,          \* what the task of each caller awaits
          jobs, out,   \* workers of each caller, outcome the task has not seen yet
          faults,       \* what is left of MaxFaults
          holdFailed    \* history: claims whose quarantining rename failed

store   == <<disk, aged, root>>
proc    == <<dir, reserved, registered, started, purging, sweep, janitor, at, jobs, out>>
claimed == <<dir, reserved, registered>>
spoolVars == <<store, proc, faults, holdFailed>>

Arm == "arm"     \* _arm_spool of the reconciler: the other caller of ensure_started
Callers == Claims \cup {Arm}
Kinds == {"staging", "published", "quarantine"}
Jobs == {"start", "create", "making", "accept", "publish", "hold", "giveup", "discard"}
Sweeps == {"purge", "janitor"}

FreshProcess == /\ dir = [c \in Claims |-> "none"]
                /\ reserved = {} /\ registered = {}
                /\ started = FALSE /\ purging = None /\ janitor = FALSE
                /\ sweep = [s \in Sweeps |-> None]
                /\ at = [c \in Callers |-> "idle"]
                /\ jobs = [c \in Callers |-> {}]
                /\ out = [c \in Callers |-> None]

SpoolInit == /\ disk = [c \in Claims |-> "none"]
             /\ aged = {}
             /\ root = RootExists
             /\ FreshProcess
             /\ faults = MaxFaults
             /\ holdFailed = {}

\* One of the granted faults happens.
Fault == faults > 0 /\ faults' = faults - 1

\* The worker j of caller c ends; its outcome reaches a task that still awaits it.
Ends(c, j, outcome) ==
  /\ jobs' = [jobs EXCEPT ![c] = @ \ {j}]
  /\ out' = IF at[c] = j THEN [out EXCEPT ![c] = outcome] ELSE out

-----------------------------------------------------------------------------
(* ensure_started, the startup purge and the janitor *)

\* A variant that sets the latch before the purge.
StartTests_LatchFirst(c) ==
  /\ "start" \in jobs[c]
  /\ IF started \/ purging # None THEN Ends(c, "start", "ok") /\ UNCHANGED purging
                ELSE purging' = c /\ UNCHANGED <<jobs, out>>
  /\ UNCHANGED <<store, claimed, started, sweep, janitor, at, faults, holdFailed>>

\* The test of the latch, under _STARTUP_LOCK; waits for a purge under way.
StartTests(c) ==
  /\ "start" \in jobs[c] /\ purging = None
  /\ IF started THEN Ends(c, "start", "ok") /\ UNCHANGED purging
                ELSE purging' = c /\ UNCHANGED <<jobs, out>>
  /\ UNCHANGED <<store, claimed, started, sweep, janitor, at, faults, holdFailed>>

Listing == {<<c, disk[c]>> : c \in {x \in Claims : disk[x] # "none"}}

\* A variant that gives the lock back only after a purge.
PurgeOpens_KeepsLock ==
  /\ purging # None /\ sweep["purge"] = None /\ root
  /\ sweep' = [sweep EXCEPT !["purge"] = Listing]
  /\ UNCHANGED <<store, claimed, purging, jobs, out, started, janitor, at, faults, holdFailed>>

\* sweep opens the root and lists it; no root, and the latch is not spent.
PurgeOpens ==
  /\ purging # None /\ sweep["purge"] = None
  /\ IF root THEN /\ sweep' = [sweep EXCEPT !["purge"] = Listing]
                  /\ UNCHANGED <<purging, jobs, out>>
             ELSE /\ purging' = None
                  /\ Ends(purging, "start", "ok")
                  /\ UNCHANGED sweep
  /\ UNCHANGED <<store, claimed, started, janitor, at, faults, holdFailed>>

\* Its now is read before it lists: only what is aged already can expire in
\* this sweep.  A sweep without such an entry changes nothing.
JanitorOpens ==
  /\ janitor /\ root /\ sweep["janitor"] = None
  /\ LET overdue == {e \in Listing : e[1] \in aged} IN
       /\ overdue # {}
       /\ sweep' = [sweep EXCEPT !["janitor"] = overdue]
  /\ UNCHANGED <<store, claimed, started, purging, janitor, at, jobs, out, faults, holdFailed>>

\* A variant that purges without a look at the claims in progress.
Expired_Purges(s, c, kind) == s = "purge" \/ (~(kind = "staging" /\ c \in registered) /\ c \in aged)

\* _expired: a purge spares only what this process is staging.
Expired(s, c, kind) == /\ ~(kind = "staging" /\ c \in registered)
                       /\ s = "purge" \/ c \in aged

\* _remove_entry: the directory and what is in it.
Removed(c) == disk' = [disk EXCEPT ![c] = "none"]

\* One listed name: gone or renamed since, spared, or removed.
Examine(s, c, kind) ==
  /\ sweep[s] # None /\ <<c, kind>> \in sweep[s]
  /\ sweep' = [sweep EXCEPT ![s] = @ \ {<<c, kind>>}]
  /\ IF disk[c] = kind /\ Expired(s, c, kind) THEN Removed(c) ELSE UNCHANGED disk
  /\ UNCHANGED <<aged, root, claimed, started, purging, janitor, at, jobs, out, faults, holdFailed>>

PurgeEnds ==
  /\ sweep["purge"] = {}
  /\ sweep' = [sweep EXCEPT !["purge"] = None]
  /\ started' = TRUE
  /\ purging' = None
  /\ Ends(purging, "start", "ok")
  /\ UNCHANGED <<store, claimed, janitor, at, faults, holdFailed>>

\* A variant whose loop ends with its first sweep.
JanitorEnds_Last ==
  /\ sweep["janitor"] = {}
  /\ sweep' = [sweep EXCEPT !["janitor"] = None]
  /\ janitor' = FALSE
  /\ UNCHANGED <<store, claimed, started, purging, at, jobs, out, faults, holdFailed>>

JanitorEnds ==
  /\ sweep["janitor"] = {}
  /\ sweep' = [sweep EXCEPT !["janitor"] = None]
  /\ UNCHANGED <<store, claimed, started, purging, janitor, at, jobs, out, faults, holdFailed>>

\* _arm_spool, in the first pass of a process: ensure_started, then ensure_janitor.
ArmSpool == /\ PassRuns /\ at[Arm] = "idle"
            /\ at' = [at EXCEPT ![Arm] = "start"]
            /\ jobs' = [jobs EXCEPT ![Arm] = {"start"}]
            /\ UNCHANGED <<store, claimed, started, purging, sweep, janitor, out, faults, holdFailed>>

ArmEnds == /\ at[Arm] = "start" /\ out[Arm] # None
           /\ at' = [at EXCEPT ![Arm] = "over"]
           /\ out' = [out EXCEPT ![Arm] = None]
           /\ janitor' = TRUE
           /\ UNCHANGED <<store, claimed, started, purging, sweep, jobs, faults, holdFailed>>

\* An entry outlives its TTL, a staging directory its grace.
Ages(c) == /\ disk[c] # "none" /\ c \notin aged
           /\ SlowTransfers \/ c \notin registered
           /\ aged' = aged \cup {c}
           /\ UNCHANGED <<disk, root, proc, faults, holdFailed>>

-----------------------------------------------------------------------------
(* StagingClaim: the bodies its worker threads run *)

\* A variant that forgets the slot.
Released_KeepsSlot(c, outcome) == /\ dir' = [dir EXCEPT ![c] = outcome]
                                  /\ registered' = registered \ {c}
                                  /\ UNCHANGED reserved

\* _release: both registrations end and the descriptors are closed.
Released(c, outcome) == /\ dir' = [dir EXCEPT ![c] = outcome]
                        /\ registered' = registered \ {c}
                        /\ reserved' = reserved \ {c}

\* _reserve_claim_bytes, the first thing _create does.
Reserves(c) ==
  /\ "create" \in jobs[c]
  /\ IF Cardinality(reserved) < SlotLimit
       THEN /\ reserved' = reserved \cup {c}
            /\ jobs' = [jobs EXCEPT ![c] = (@ \ {"create"}) \cup {"making"}]
            /\ UNCHANGED out
       ELSE Ends(c, "create", "busy") /\ UNCHANGED reserved
  /\ UNCHANGED <<store, dir, registered, started, purging, sweep, janitor, at, faults, holdFailed>>

MakingEnds(c, outcome) ==
  /\ jobs' = [jobs EXCEPT ![c] = @ \ {"making"}]
  /\ out' = IF at[c] = "create" THEN [out EXCEPT ![c] = outcome] ELSE out

\* _open_root with create, through _open_parent.
OpensRoot == root' = TRUE

\* _spend_startup_latch: from here on the entries may be this process's.
SpendsLatch == started' = TRUE

\* The rest of _create: open or make the root, spend the latch, register, mkdir.
Makes(c) == /\ "making" \in jobs[c]
            /\ OpensRoot /\ SpendsLatch
            /\ disk' = [disk EXCEPT ![c] = "staging"]
            /\ dir' = [dir EXCEPT ![c] = "open"]
            /\ registered' = registered \cup {c}
            /\ MakingEnds(c, "ok")
            /\ UNCHANGED <<reserved, aged, purging, sweep, janitor, at, faults, holdFailed>>

\* A root whose marker vouches for nothing, or a call that fails: SpoolUnsafe,
\* and the slot is given back.
RefusesRoot(c) == /\ "making" \in jobs[c] /\ Fault
                  /\ reserved' = reserved \ {c}
                  /\ MakingEnds(c, "unsafe")
                  /\ UNCHANGED <<store, dir, registered, started, purging, sweep, janitor, at, holdFailed>>

\* The root is there, its staging directory could not be made or opened.
RefusesStaging(c) == /\ "making" \in jobs[c] /\ Fault
                     /\ OpensRoot /\ SpendsLatch
                     /\ reserved' = reserved \ {c}
                     /\ MakingEnds(c, "unsafe")
                     /\ UNCHANGED <<disk, aged, dir, registered, purging, sweep, janitor, at, holdFailed>>

\* _accept: the bytes are written and, at a file's end, synced and read back.
Accepts(c) ==
  /\ "accept" \in jobs[c]
  /\ \/ dir[c] = "open" /\ Ends(c, "accept", "ok") /\ UNCHANGED faults
     \/ dir[c] # "open" /\ Ends(c, "accept", "failed") /\ UNCHANGED faults
     \/ dir[c] = "open" /\ Fault /\ Ends(c, "accept", "failed")
  /\ UNCHANGED <<store, claimed, started, purging, sweep, janitor, at, holdFailed>>

\* The descriptors are open and the directory is where they expect it.
Renames(c) == dir[c] = "open" /\ disk[c] = "staging"

\* _publish: the metadata, the rename and its flag.
Publishes(c) ==
  /\ "publish" \in jobs[c]
  /\ \/ /\ Renames(c)
        /\ disk' = [disk EXCEPT ![c] = "published"]
        /\ aged' = aged \ {c}
        /\ Released(c, "published")
        /\ Ends(c, "publish", "ok")
        /\ UNCHANGED faults
     \/ /\ IF Renames(c) THEN Fault ELSE UNCHANGED faults
        /\ Ends(c, "publish", "failed")
        /\ UNCHANGED <<disk, aged, claimed>>
  /\ UNCHANGED <<root, started, purging, sweep, janitor, at, holdFailed>>

\* _quarantine: the rename out of reach.  Nothing to do unless the directory is open.
Quarantined(c) == /\ disk' = [disk EXCEPT ![c] = "quarantine"]
                  /\ Released(c, "quarantined")

\* _discard: the removal, which a worker still writing into the directory can defeat.
Discarded(c) ==
  IF dir[c] = "open"
    THEN /\ \/ Removed(c)
            \/ "accept" \in jobs[c] /\ UNCHANGED disk
         /\ Released(c, "discarded")
    ELSE UNCHANGED <<disk, claimed>>

Holds(c) ==
  /\ "hold" \in jobs[c]
  /\ \/ /\ Renames(c) /\ Quarantined(c)
        /\ Ends(c, "hold", "ok")
        /\ UNCHANGED <<faults, holdFailed>>
     \/ /\ dir[c] # "open"
        /\ Ends(c, "hold", "ok")
        /\ UNCHANGED <<disk, claimed, faults, holdFailed>>
     \/ /\ dir[c] = "open"
        /\ IF Renames(c) THEN Fault /\ holdFailed' = holdFailed \cup {c}
                         ELSE UNCHANGED <<faults, holdFailed>>
        /\ Ends(c, "hold", "failed")
        /\ UNCHANGED <<disk, claimed>>
  /\ UNCHANGED <<aged, root, started, purging, sweep, janitor, at>>

\* From __aexit__, or from a _hold that could not rename.
Discards(c) ==
  \E j \in {"discard", "giveup"} \cap jobs[c] :
  /\ Discarded(c)
  /\ Ends(c, j, "ok")
  /\ UNCHANGED <<aged, root, started, purging, sweep, janitor, at, faults, holdFailed>>

\* What the threads and the clock do, whatever the claims' tasks do.

\* A thread of claim c.
Worker(c) == \/ Reserves(c) \/ Makes(c) \/ RefusesRoot(c) \/ RefusesStaging(c)
             \/ Accepts(c) \/ Publishes(c) \/ Holds(c) \/ Discards(c)

\* The purge, whoever's thread runs it, and the janitor.
Sweeping == \/ \E c \in Callers : StartTests(c)
            \/ PurgeOpens \/ PurgeEnds
            \/ JanitorOpens \/ JanitorEnds
            \/ \E s \in Sweeps, c \in Claims, kind \in Kinds : Examine(s, c, kind)
=============================================================================
