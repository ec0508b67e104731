------------------------------ MODULE DriverJobs ------------------------------
(***************************************************************************)
(* experiments/driver_utils.py, run_managed_driver_jobs, and the drivers   *)
(* built on it (drive, sweep, ablate, lev2x2, critsweep, phase2b): one     *)
(* invocation assesses what is at the flat path of every slot, reuses or   *)
(* schedules the slot, runs a run_seed child for it until one looks        *)
(* healthy, and accounts for the slots in driver_summary.json.  Nothing    *)
(* keeps two invocations from working on one output root: they, and the    *)
(* orphans of killed ones, publish over each other's flat paths.           *)
(***************************************************************************)
EXTENDS Integers, FiniteSets

CONSTANTS
    Drivers,       \* invocations on one output root
    NumSlots,      \* planned (cell, seed) slots, in submission order
    MaxRetries,    \* MAX_RETRIES
    Workers,       \* --workers of each invocation
    Identity,      \* config identity of each invocation; not in the file names
    OldFiles       \* what may be at a flat path that no managed run published

ASSUME DriverAssumption ==
    /\ NumSlots \in Nat \ {0} /\ MaxRetries \in Nat \ {0}
    /\ Workers \in [Drivers -> Nat \ {0}]
    /\ OldFiles \subseteq {"none", "good", "bad"}

Slots == 1..NumSlots
Runs == Drivers \X Slots \X (1..MaxRetries)   \* child runs: whose, which slot, which try

DriverOf(r) == r[1]
SlotOf(r) == r[2]

VARIABLES
    old,        \* file at the flat path of a slot that is not a managed link
    link,       \* run the flat path of a slot links to, if any
    stage,      \* of each child run
    health,     \* of each finished run
    live,       \* child processes
    phase,      \* of each driver
    at,         \* of each driver and slot
    try,        \* of each driver and slot: attempt of the retry loop
    raised,     \* drivers whose pool is awaited before an interrupt is raised
    counts      \* completion counters in the manifest of each driver

disk == <<old, link, stage, health>>
memory == <<at, try, raised>>
vars == <<disk, live, phase, memory, counts>>

Over == {"finished", "failed", "killed"}

TypeOK ==
    /\ old \in [Slots -> {"none", "good", "bad"}]
    /\ link \in [Slots -> SUBSET Runs]
    /\ stage \in [Runs -> {"absent", "running", "finished", "linked", "declared"}]
    /\ health \in [Runs -> {"good", "bad"}]
    /\ live \subseteq Runs
    /\ phase \in [Drivers -> {"new", "assess", "run"} \union Over]
    /\ at \in [Drivers -> [Slots -> {"unassessed", "reusable", "todo", "trying", "launching",
                                     "waiting", "returned", "ok", "bad", "reused", "completed", "failed"}]]
    /\ try \in [Drivers -> [Slots -> 1..MaxRetries]]
    /\ raised \subseteq Drivers
    /\ counts \in [Drivers -> [started : Nat, executed : Nat, reused : Nat, completed : Nat,
                               failed : Nat]]

Init ==
    /\ old \in [Slots -> OldFiles]
    /\ link = [s \in Slots |-> {}]
    /\ stage = [r \in Runs |-> "absent"] /\ health = [r \in Runs |-> "bad"]
    /\ live = {}
    /\ phase = [d \in Drivers |-> "new"]
    /\ at = [d \in Drivers |-> [s \in Slots |-> "unassessed"]]
    /\ try = [d \in Drivers |-> [s \in Slots |-> 1]]
    /\ raised = {}
    /\ counts = [d \in Drivers |-> [started |-> 0, executed |-> 0, reused |-> 0,
                                    completed |-> 0, failed |-> 0]]

Count(d, c) == counts' = [counts EXCEPT ![d][c] = @ + 1]
Move(d, s, where) == at' = [at EXCEPT ![d][s] = where]

-----------------------------------------------------------------------------
(* Assessment: which slots have a result that can be reused *)

(* The reuse gate wants a managed link that the manifest of a finished and  *)
(* healthy run of the same identity declares.                               *)
Reusable(d, s) ==
    /\ old[s] = "none"
    /\ \E r \in link[s] : /\ stage[r] = "declared" /\ health[r] = "good"
                          /\ Identity[DriverOf(r)] = Identity[d]

Begin(d) ==
    /\ phase[d] = "new"
    /\ phase' = [phase EXCEPT ![d] = "assess"]
    /\ UNCHANGED <<disk, live, memory, counts>>

Assess(d, s) ==
    /\ phase[d] = "assess" /\ at[d][s] = "unassessed"
    /\ \A i \in Slots : i < s => at[d][i] # "unassessed"
    /\ Move(d, s, IF Reusable(d, s) THEN "reusable" ELSE "todo")
    /\ UNCHANGED <<disk, live, phase, try, raised, counts>>

Assessed(d, where) == {s \in Slots : at[d][s] = where}

(* Seeded bug: a reused slot is counted as if it had been started. *)
MutantEnter(d) ==
    /\ phase[d] = "assess" /\ Assessed(d, "unassessed") = {}
    /\ phase' = [phase EXCEPT ![d] = "run"]
    /\ at' = [at EXCEPT ![d] = [s \in Slots |-> IF @[s] = "reusable" THEN "reused" ELSE @[s]]]
    /\ LET reused == Cardinality(Assessed(d, "reusable"))
       IN  counts' = [counts EXCEPT ![d].reused = reused, ![d].completed = reused,
                                    ![d].started = reused]
    /\ UNCHANGED <<disk, live, try, raised>>

(* The managed attempt of the driver opens and records what it reuses. *)
Enter(d) ==
    /\ phase[d] = "assess" /\ Assessed(d, "unassessed") = {}
    /\ phase' = [phase EXCEPT ![d] = "run"]
    /\ at' = [at EXCEPT ![d] = [s \in Slots |-> IF @[s] = "reusable" THEN "reused" ELSE @[s]]]
    /\ LET reused == Cardinality(Assessed(d, "reusable"))
       IN  counts' = [counts EXCEPT ![d].reused = reused, ![d].completed = reused]
    /\ UNCHANGED <<disk, live, try, raised>>

-----------------------------------------------------------------------------
(* One thread per slot to do, Workers[d] at once *)

Busy(d) == {s \in Slots : at[d][s] \in {"trying", "launching", "waiting", "returned"}}

Start(d, s) ==
    /\ phase[d] = "run" /\ at[d][s] = "todo"
    /\ \A i \in Slots : i < s => at[d][i] # "todo"
    /\ Cardinality(Busy(d)) < Workers[d]
    /\ Move(d, s, "trying")
    /\ Count(d, "started")
    /\ UNCHANGED <<disk, live, phase, try, raised>>

(* The retry loop goes on, or gives the slot up. *)
Again(d, s) ==
    IF try[d][s] < MaxRetries
    THEN try' = [try EXCEPT ![d][s] = @ + 1] /\ Move(d, s, "trying")
    ELSE Move(d, s, "bad") /\ UNCHANGED try

(* The endpoint stays down: the attempt is used up without a child. *)
EndpointDown(d, s) ==
    /\ phase[d] = "run" /\ at[d][s] = "trying"
    /\ Again(d, s)
    /\ UNCHANGED <<disk, live, phase, raised, counts>>

Child(d, s) == <<d, s, try[d][s]>>

(* Seeded bug: a child is counted when its slot is accepted, not before it runs. *)
MutantCountLaunch(d, s) ==
    /\ phase[d] = "run" /\ at[d][s] = "trying"
    /\ Move(d, s, "launching")
    /\ UNCHANGED <<disk, live, phase, try, raised, counts>>

(* on_child_launch, before subprocess.run *)
CountLaunch(d, s) ==
    /\ phase[d] = "run" /\ at[d][s] = "trying"
    /\ Move(d, s, "launching")
    /\ Count(d, "executed")
    /\ UNCHANGED <<disk, live, phase, try, raised>>

Spawn(d, s) ==
    /\ phase[d] = "run" /\ at[d][s] = "launching"
    /\ live' = live \union {Child(d, s)}
    /\ stage' = [stage EXCEPT ![Child(d, s)] = "running"]
    /\ Move(d, s, "waiting")
    /\ UNCHANGED <<old, link, health, phase, try, raised, counts>>

(* subprocess.run raises: execute turns the error into a failed result. *)
SpawnFails(d, s) ==
    /\ phase[d] = "run" /\ at[d][s] = "launching"
    /\ Move(d, s, "bad")
    /\ UNCHANGED <<disk, live, phase, try, raised, counts>>

(* What _bad_frac reads at the flat path. *)
Shown(s) == IF old[s] # "none" THEN {old[s]} ELSE {health[r] : r \in link[s]}

MutantCounted(d, s) == TRUE   \* seeded bug: exit status 0 is enough
Counted(d, s) == "good" \in Shown(s)

(* The child has returned 0, or it has died. *)
Ended(d, s) == at[d][s] \in {"waiting", "returned"} /\ Child(d, s) \notin live

Collect(d, s) ==
    /\ phase[d] = "run" /\ Ended(d, s)
    /\ IF at[d][s] = "returned" /\ Counted(d, s)
       THEN Move(d, s, "ok") /\ UNCHANGED try
       ELSE Again(d, s)
    /\ UNCHANGED <<disk, live, phase, raised, counts>>

PoolDone(d) == \A s \in Slots : at[d][s] \in {"ok", "bad", "reused", "completed", "failed"}

(* Results are recorded when the last thread is through. *)
RecordResult(d, s) ==
    /\ phase[d] = "run" /\ PoolDone(d) /\ d \notin raised
    /\ \/ at[d][s] = "ok" /\ Move(d, s, "completed") /\ Count(d, "completed")
       \/ at[d][s] = "bad" /\ Move(d, s, "failed") /\ Count(d, "failed")
    /\ UNCHANGED <<disk, live, phase, try, raised>>

(* finish refuses counters that do not close. *)
Finish(d) ==
    /\ phase[d] = "run" /\ PoolDone(d)
    /\ d \in raised \/ Assessed(d, "ok") \union Assessed(d, "bad") = {}
    /\ phase' = [phase EXCEPT
                    ![d] = IF d \notin raised
                              /\ counts[d].completed + counts[d].failed = NumSlots
                           THEN "finished" ELSE "failed"]
    /\ UNCHANGED <<disk, live, memory, counts>>

-----------------------------------------------------------------------------
(* Interruptions, and the child processes *)

Own(d) == {r \in live : DriverOf(r) = d}

(* The memory of a process goes with it; manifest and children stay. *)
Forget(d) ==
    /\ at' = [at EXCEPT ![d] = [s \in Slots |-> "unassessed"]]
    /\ try' = [try EXCEPT ![d] = [s \in Slots |-> 1]]
    /\ raised' = raised \ {d}

(* Ctrl-C.  A pool is awaited first, with every slot that is still to do;   *)
(* otherwise the driver kills its child and fails.                          *)
Interrupt(d) ==
    /\ phase[d] \in {"assess", "run"}
    /\ IF phase[d] = "run" /\ Workers[d] > 1 /\ ~PoolDone(d)
       THEN raised' = raised \union {d} /\ UNCHANGED <<live, phase, at, try>>
       ELSE /\ live' = live \ Own(d)
            /\ phase' = [phase EXCEPT ![d] = "failed"]
            /\ Forget(d)
    /\ UNCHANGED <<disk, counts>>

Kill(d) ==
    /\ phase[d] \in {"assess", "run"}
    /\ phase' = [phase EXCEPT ![d] = "killed"]
    /\ Forget(d)
    /\ UNCHANGED <<disk, live, counts>>

ChildFinishes(r) ==
    /\ r \in live /\ stage[r] = "running"
    /\ stage' = [stage EXCEPT ![r] = "finished"]
    /\ \E h \in {"good", "bad"} : health' = [health EXCEPT ![r] = h]
    /\ UNCHANGED <<old, link, live, phase, memory, counts>>

(* publish_legacy_links replaces a managed link, and leaves a file that is  *)
(* not one alone.                                                           *)
ChildLinks(r) ==
    /\ r \in live /\ stage[r] = "finished" /\ old[SlotOf(r)] = "none"
    /\ link' = [link EXCEPT ![SlotOf(r)] = {r}]
    /\ stage' = [stage EXCEPT ![r] = "linked"]
    /\ UNCHANGED <<old, health, live, phase, memory, counts>>

ChildDeclares(r) ==
    /\ r \in live /\ stage[r] = "linked"
    /\ stage' = [stage EXCEPT ![r] = "declared"]
    /\ UNCHANGED <<old, link, health, live, phase, memory, counts>>

(* Exit status 0, published or not: a link that is skipped or fails is only *)
(* a warning of the child.                                                  *)
ChildReturns(r) ==
    /\ r \in live /\ stage[r] # "running"
    /\ live' = live \ {r}
    /\ IF phase[DriverOf(r)] = "run" THEN Move(DriverOf(r), SlotOf(r), "returned") ELSE UNCHANGED at
    /\ UNCHANGED <<disk, phase, try, raised, counts>>

(* It fails, or is killed, anywhere. *)
ChildDies(r) ==
    /\ r \in live
    /\ live' = live \ {r}
    /\ UNCHANGED <<disk, phase, memory, counts>>

ChildStep(r) ==
    \/ ChildFinishes(r) \/ ChildLinks(r) \/ ChildDeclares(r) \/ ChildReturns(r) \/ ChildDies(r)

SlotStep(d, s) ==
    \/ Assess(d, s) \/ Start(d, s) \/ EndpointDown(d, s) \/ CountLaunch(d, s) \/ Spawn(d, s)
    \/ SpawnFails(d, s) \/ Collect(d, s) \/ RecordResult(d, s)

Quiet == live = {} /\ \A d \in Drivers : phase[d] \in Over   \* nothing runs any more

Next ==
    \/ \E d \in Drivers : \/ Begin(d) \/ Enter(d) \/ Finish(d) \/ Interrupt(d) \/ Kill(d)
                          \/ \E s \in Slots : SlotStep(d, s)
    \/ \E r \in live : ChildStep(r)
    \/ Quiet /\ UNCHANGED vars

Spec == Init /\ [][Next]_vars

-----------------------------------------------------------------------------
(* Properties *)

(* docs/COMPLETION_ACCOUNTING.md:284-295: the summary of a finished driver  *)
(* accounts for every planned slot once, a slot is reused or started, and   *)
(* completed is exactly what was reused or accepted.                        *)
AccountsClose ==
    \A d \in Drivers : phase[d] = "finished" =>
        LET c == counts[d]
        IN  /\ c.completed + c.failed = NumSlots
            /\ c.reused + c.started = NumSlots
            /\ c.completed = Cardinality(Assessed(d, "reused") \union Assessed(d, "completed"))

(* The manifest of a driver never claims more than it did, also when the    *)
(* driver is killed or interrupted: every child is counted before it is     *)
(* launched, and no slot completes before its result was accepted.          *)
NeverOverstated ==
    \A d \in Drivers :
        /\ counts[d].executed >= Cardinality({r \in Runs : DriverOf(r) = d /\ stage[r] # "absent"})
        /\ phase[d] = "run" => counts[d].completed <=
                Cardinality(Assessed(d, "reused") \union Assessed(d, "completed"))

(* sweep.py:121 "2 = ~60 peak concurrent calls (...) Do NOT exceed 2": a    *)
(* driver never has more children than workers nor two of one slot, also    *)
(* after it was interrupted or killed.                                      *)
LoadBounded ==
    \A d \in Drivers : /\ Cardinality(Own(d)) <= Workers[d]
                       /\ \A q, r \in Own(d) : SlotOf(q) = SlotOf(r) => q = r

(* A slot is counted only if some finished run of that slot was healthy,    *)
(* whoever published over whom, unless an old file blocks the flat path.    *)
CountedIsBacked ==
    \A d \in Drivers, s \in Slots :
        at[d][s] \in {"ok", "reused", "completed"} /\ old[s] = "none" =>
            \E r \in Runs : SlotOf(r) = s /\ stage[r] \in {"linked", "declared"} /\ health[r] = "good"

(* driver_utils.py:425 "the old file is never counted merely because its    *)
(* name and health field look plausible": a slot is accepted on the result  *)
(* of a child that this driver launched for it.                             *)
NeverCountedOnLooks ==
    \A d \in Drivers, s \in Slots :
        at[d][s] \in {"ok", "completed"} => health[Child(d, s)] = "good"
=============================================================================
