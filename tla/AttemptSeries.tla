---------------------------- MODULE AttemptSeries ----------------------------
(***************************************************************************)
(* experiments/multi_event.py: main and its _OutputRootAttemptLock.  Every *)
(* slot of the experiment (here: job) has a bounded series of technical    *)
(* attempts, each a run_seed child process with a run directory of its own. *)
(* A driver takes one advisory lock on the output root, inspects what      *)
(* earlier drivers left behind, and launches what is missing; its children *)
(* inherit the lock.  Drivers are killed and interrupted, children die at  *)
(* any point, a ledger append can fail, and the analyzer of                *)
(* experiments/aggregate_multi_event.py wants the same lock.               *)
(***************************************************************************)
EXTENDS Integers, FiniteSets

CONSTANTS
    Drivers,       \* invocations of the driver on one output root
    NumJobs,       \* slots, in launch order
    MaxAttempts,   \* max_child_attempts of the protocol
    Workers,       \* --workers of each invocation
    MaxFaults      \* bound: ledger appends that fail

ASSUME SeriesAssumption ==
    /\ NumJobs \in Nat \ {0} /\ MaxAttempts \in Nat \ {0}
    /\ Workers \in [Drivers -> Nat \ {0}] /\ MaxFaults \in Nat

Jobs == 1..NumJobs
Attempts == 1..MaxAttempts

VARIABLES
    attempt,    \* run directory of each attempt, by job and index
    children,   \* live child processes <<driver, job, index>>
    ledger,     \* records of the durable attempt ledgers
    phase,      \* of each driver
    at,         \* of each driver: where its thread for a job is
    next,       \* of each driver and job: technical_idx
    decided,    \* of each driver: jobs whose decision is reusable
    raised,     \* drivers with an error to propagate
    reading,    \* the analyzer holds the lock
    faults

disk == <<attempt, children>>
memory == <<at, next, decided, raised>>
vars == <<disk, ledger, phase, memory, reading, faults>>

Statuses == {"launched", "not_launched", "accepted", "rejected", "in_flight", "indeterminate"}
Over == {"finished", "failed", "refused", "blocked", "killed"}
Settled == {"reused", "accepted", "failed"}

TypeOK ==
    /\ attempt \in [Jobs -> [Attempts ->
                      {"absent", "opened", "active", "healthy", "unhealthy"}]]
    /\ children \subseteq Drivers \X Jobs \X Attempts
    /\ ledger \subseteq [driver : Drivers, job : Jobs, idx : Attempts, status : Statuses]
    /\ phase \in [Drivers -> {"new", "preflight", "execute"} \union Over]
    /\ at \in [Drivers -> [Jobs -> {"unchecked", "todo", "due", "launching", "waiting"}
                                       \union Settled]]
    /\ next \in [Drivers -> [Jobs -> 1..(MaxAttempts + 1)]]
    /\ decided \in [Drivers -> SUBSET Jobs]
    /\ raised \subseteq Drivers
    /\ reading \in BOOLEAN
    /\ faults \in 0..MaxFaults

Init ==
    /\ attempt = [j \in Jobs |-> [k \in Attempts |-> "absent"]]
    /\ children = {} /\ ledger = {}
    /\ phase = [d \in Drivers |-> "new"]
    /\ at = [d \in Drivers |-> [j \in Jobs |-> "unchecked"]]
    /\ next = [d \in Drivers |-> [j \in Jobs |-> 1]]
    /\ decided = [d \in Drivers |-> {}] /\ raised = {}
    /\ reading = FALSE /\ faults = 0

-----------------------------------------------------------------------------
(* The lock *)

Owns(d) == phase[d] \in {"preflight", "execute"}

(* Seeded bug: the lock is released with the driver, not with its last child. *)
MutantFree == ~reading /\ \A d \in Drivers : ~Owns(d)

(* The kernel releases it when the last descriptor is closed, the driver's  *)
(* or an inherited one of a child.                                          *)
Free == ~reading /\ children = {} /\ \A d \in Drivers : ~Owns(d)

Acquire(d) ==
    /\ phase[d] = "new"
    /\ phase' = [phase EXCEPT ![d] = IF Free THEN "preflight" ELSE "refused"]
    /\ UNCHANGED <<disk, ledger, memory, reading, faults>>

(* The analyzer of a finished driver's evidence. *)
StartReading ==
    /\ Free /\ \E d \in Drivers : phase[d] = "finished"
    /\ reading' = TRUE
    /\ UNCHANGED <<disk, ledger, phase, memory, faults>>

StopReading ==
    /\ reading /\ reading' = FALSE
    /\ UNCHANGED <<disk, ledger, phase, memory, faults>>

-----------------------------------------------------------------------------
(* Preflight: what earlier drivers left of a job, in the order of the jobs *)

Record(d, j, k, s) == [driver |-> d, job |-> j, idx |-> k, status |-> s]

Occupied(j) == {k \in Attempts : attempt[j][k] # "absent"}

(* What the driver says of an attempt it finds. *)
Found(a) == CASE a = "active" -> "in_flight"
              [] a = "healthy" -> "accepted"
              [] OTHER -> "rejected"

(* The scan ends at the first attempt in flight. *)
Scanned(j) ==
    {k \in Occupied(j) : \A i \in Occupied(j) : i < k => attempt[j][i] # "active"}

(* A gap, more than one accepted attempt, or one that is not the last. *)
Irregular(j) ==
    \/ \E k \in Occupied(j), i \in Attempts \ Occupied(j) : i < k
    \/ \E k \in Occupied(j), i \in Occupied(j) : i < k /\ attempt[j][i] = "healthy"

MutantInFlight(j) == FALSE   \* seeded bug: an attempt in flight counts as rejected
InFlight(j) == \E k \in Occupied(j) : attempt[j][k] = "active"

Preflight(d, j) ==
    /\ phase[d] = "preflight" /\ at[d][j] = "unchecked"
    /\ \A i \in Jobs : i < j => at[d][i] # "unchecked"
    /\ LET healthy == \E k \in Occupied(j) : attempt[j][k] = "healthy"
       IN  /\ ledger' = ledger \union {Record(d, j, k, Found(attempt[j][k])) : k \in Scanned(j)}
           /\ next' = [next EXCEPT ![d][j] = Cardinality(Occupied(j)) + 1]
           /\ at' = [at EXCEPT ![d][j] = IF healthy THEN "reused" ELSE "todo"]
           /\ decided' = [decided EXCEPT ![d] = IF healthy THEN @ \union {j} ELSE @]
           /\ phase' = [phase EXCEPT ![d] = IF InFlight(j) THEN "blocked"
                                            ELSE IF Irregular(j) THEN "failed"
                                            ELSE IF j = NumJobs THEN "execute" ELSE @]
    /\ UNCHANGED <<disk, raised, reading, faults>>

-----------------------------------------------------------------------------
(* execute: one thread per job, at most Workers[d] at once, in their order *)

Running(d) == {j \in Jobs : at[d][j] \in {"due", "launching", "waiting"}}
Exited(d, j) == at[d][j] = "waiting" /\ <<d, j, next[d][j]>> \notin children

Move(d, j, where) == at' = [at EXCEPT ![d][j] = where]

(* An error in one thread stops the sequential loop, but not the pool. *)
Start(d, j) ==
    /\ phase[d] = "execute" /\ at[d][j] = "todo"
    /\ \A i \in Jobs : i < j => at[d][i] # "todo"
    /\ Cardinality(Running(d)) < Workers[d]
    /\ Workers[d] = 1 => d \notin raised
    /\ Move(d, j, IF next[d][j] > MaxAttempts THEN "failed" ELSE "due")
    /\ UNCHANGED <<disk, ledger, phase, next, decided, raised, reading, faults>>

EndpointDown(d, j) ==
    /\ phase[d] = "execute" /\ at[d][j] = "due"
    /\ ledger' = ledger \union {Record(d, j, next[d][j], "not_launched")}
    /\ Move(d, j, "failed")
    /\ UNCHANGED <<disk, phase, next, decided, raised, reading, faults>>

(* Seeded bug: the launch is recorded with its verdict. *)
MutantLaunch(d, j) ==
    /\ phase[d] = "execute" /\ at[d][j] = "due"
    /\ Move(d, j, "launching")
    /\ UNCHANGED <<disk, ledger, phase, next, decided, raised, reading, faults>>

(* The launch is on the ledger before there is a process. *)
Launch(d, j) ==
    /\ phase[d] = "execute" /\ at[d][j] = "due"
    /\ ledger' = ledger \union {Record(d, j, next[d][j], "launched")}
    /\ Move(d, j, "launching")
    /\ UNCHANGED <<disk, phase, next, decided, raised, reading, faults>>

Spawn(d, j) ==
    /\ phase[d] = "execute" /\ at[d][j] = "launching"
    /\ children' = children \union {<<d, j, next[d][j]>>}
    /\ Move(d, j, "waiting")
    /\ UNCHANGED <<attempt, ledger, phase, next, decided, raised, reading, faults>>

(* subprocess.run raises: no process, no run directory. *)
SpawnFails(d, j) ==
    /\ phase[d] = "execute" /\ at[d][j] = "launching"
    /\ ledger' = ledger \union {Record(d, j, next[d][j], "rejected")}
    /\ Move(d, j, "failed")
    /\ UNCHANGED <<disk, phase, next, decided, raised, reading, faults>>

(* The status of an attempt whose child has exited. *)
Verdict(a) == CASE a = "healthy" -> "accepted"
                [] a = "active" -> "in_flight"
                [] a = "opened" -> "indeterminate"
                [] OTHER -> "rejected"

(* Only a terminal attempt that was rejected is followed by another one. *)
Retried(a) == a = "unhealthy"

After(a, k) ==
    IF a = "healthy" THEN "accepted"
    ELSE IF Retried(a) /\ k < MaxAttempts THEN "due" ELSE "failed"

Reusable(a) == a = "healthy"

(* An attempt without a terminal manifest stops the driver. *)
Collect(d, j) ==
    /\ phase[d] = "execute" /\ Exited(d, j)
    /\ LET k == next[d][j]
           seen == attempt[j][k]
       IN  /\ ledger' = ledger \union {Record(d, j, k, Verdict(seen))}
           /\ decided' = [decided EXCEPT ![d] = IF Reusable(seen) THEN @ \union {j} ELSE @]
           /\ raised' = raised \union (IF seen \in {"opened", "active"} THEN {d} ELSE {})
           /\ next' = [next EXCEPT ![d][j] = IF Retried(seen) THEN k + 1 ELSE k]
           /\ Move(d, j, After(seen, k))
    /\ UNCHANGED <<disk, phase, reading, faults>>

(* What the thread would append next, when the endpoint is up. *)
Appending(d, j) ==
    Record(d, j, next[d][j], CASE at[d][j] = "due" -> "launched"
                               [] at[d][j] = "launching" -> "rejected"
                               [] OTHER -> Verdict(attempt[j][next[d][j]]))

(* The append raises, before or after the line is in the file.              *)
(* execute_guarded then writes the attempt off as rejected; when that       *)
(* append raises too, so does the thread.  What was decided before the      *)
(* append stays decided.                                                    *)
AppendFails(d, j) ==
    /\ phase[d] = "execute" /\ (at[d][j] \in {"due", "launching"} \/ Exited(d, j))
    /\ faults < MaxFaults
    /\ decided' = [decided EXCEPT
                      ![d] = IF Exited(d, j) /\ Reusable(attempt[j][next[d][j]])
                             THEN @ \union {j} ELSE @]
    /\ Move(d, j, "failed")
    /\ \E kept \in SUBSET {Appending(d, j)} :
          \/ /\ ledger' = ledger \union kept \union {Record(d, j, next[d][j], "rejected")}
             /\ faults' = faults + 1
             /\ UNCHANGED raised
          \/ /\ faults + 1 < MaxFaults
             /\ ledger' = ledger \union kept
             /\ raised' = raised \union {d}
             /\ faults' = faults + 2
    /\ UNCHANGED <<disk, phase, next, reading>>

(* Seeded bug: a stopped loop still waits for the jobs it never started. *)
MutantFinish(d) ==
    /\ phase[d] = "execute" /\ Running(d) = {}
    /\ \A j \in Jobs : at[d][j] \in Settled
    /\ phase' = [phase EXCEPT ![d] = IF d \in raised THEN "failed" ELSE "finished"]
    /\ UNCHANGED <<disk, ledger, memory, reading, faults>>

(* The loop or the pool is through; the selection is written, or the error  *)
(* of a thread is raised.  Either way the lock is let go.                   *)
Finish(d) ==
    /\ phase[d] = "execute" /\ Running(d) = {}
    /\ \/ \A j \in Jobs : at[d][j] \in Settled
       \/ Workers[d] = 1 /\ d \in raised
    /\ phase' = [phase EXCEPT ![d] = IF d \in raised THEN "failed" ELSE "finished"]
    /\ UNCHANGED <<disk, ledger, memory, reading, faults>>

-----------------------------------------------------------------------------
(* Interruptions and crashes *)

Own(d) == {c \in children : c[1] = d}

(* Ctrl-C.  The sequential driver kills its child, records what it left     *)
(* behind and ends; the pool is awaited before the error is propagated.     *)
Interrupt(d) ==
    /\ Owns(d)
    /\ IF Workers[d] = 1 \/ phase[d] = "preflight"
       THEN /\ children' = children \ Own(d)
            /\ ledger' = ledger \union
                 {Record(d, c[2], c[3], LET a == attempt[c[2]][c[3]]
                                        IN  IF a = "active" THEN "in_flight"
                                            ELSE IF a = "absent" THEN "rejected"
                                            ELSE "indeterminate") : c \in Own(d)}
            /\ phase' = [phase EXCEPT ![d] = "failed"]
            /\ UNCHANGED raised
       ELSE raised' = raised \union {d} /\ UNCHANGED <<children, ledger, phase>>
    /\ UNCHANGED <<attempt, at, next, decided, reading, faults>>

(* The driver is killed: its children are orphans and keep the lock. *)
Kill(d) ==
    /\ Owns(d)
    /\ phase' = [phase EXCEPT ![d] = "killed"]
    /\ UNCHANGED <<disk, ledger, memory, reading, faults>>

(* A child makes its run directory, writes a running manifest in it and     *)
(* then a terminal one, accepted by the reuse gate or not.  It may end, or  *)
(* be killed, between any two of these.                                     *)
ChildWrites(c) ==
    /\ c \in children
    /\ \E new \in {<<"absent", "opened">>, <<"opened", "active">>,
                   <<"active", "healthy">>, <<"active", "unhealthy">>} :
          /\ attempt[c[2]][c[3]] = new[1]
          /\ attempt' = [attempt EXCEPT ![c[2]][c[3]] = new[2]]
    /\ UNCHANGED <<children, ledger, phase, memory, reading, faults>>

ChildExits(c) ==
    /\ c \in children
    /\ children' = children \ {c}
    /\ UNCHANGED <<attempt, ledger, phase, memory, reading, faults>>

JobStep(d, j) ==
    \/ Preflight(d, j) \/ Start(d, j) \/ EndpointDown(d, j) \/ Launch(d, j)
    \/ Spawn(d, j) \/ SpawnFails(d, j) \/ Collect(d, j) \/ AppendFails(d, j)

Quiet == children = {} /\ \A d \in Drivers : phase[d] \in Over   \* nothing runs any more

Next ==
    \/ \E d \in Drivers : \/ Acquire(d) \/ Finish(d) \/ Interrupt(d) \/ Kill(d)
                          \/ \E j \in Jobs : JobStep(d, j)
    \/ \E c \in children : ChildWrites(c) \/ ChildExits(c)
    \/ StartReading \/ StopReading
    \/ Quiet /\ UNCHANGED vars

Spec == Init /\ [][Next]_vars

(* The threads of a driver run, and a child ends (subprocess.run has no     *)
(* timeout; the provider's clients have).  Every step but the readers' uses *)
(* up something finite, so one condition for each driver and one for the    *)
(* children leave no thread behind.                                         *)
FairSpec ==
    /\ Spec
    /\ \A d \in Drivers : WF_vars(Finish(d) \/ \E j \in Jobs : JobStep(d, j))
    /\ WF_vars(\E c \in children : ChildExits(c))

-----------------------------------------------------------------------------
(* Safety *)

(* Whoever inspects or extends the series is alone with them: while a       *)
(* driver owns the lock there is no other owner, no reading analyzer, and   *)
(* no live child but its own, at most one of each job.                      *)
SoleOwner ==
    /\ \A d \in Drivers : Owns(d) =>
          /\ ~reading /\ \A e \in Drivers : Owns(e) => e = d
          /\ \A c \in children : c[1] = d /\ at[d][c[2]] = "waiting" /\ c[3] = next[d][c[2]]
    /\ reading => children = {}
    /\ \A c, b \in children : c[2] = b[2] => c = b

(* No attempt is made before the one before it is settled: nothing follows  *)
(* an accepted attempt or one that may still be running, across all drivers *)
(* and crashes, and a series has no gap.                                    *)
NothingInDoubt ==
    \A j \in Jobs, k \in Attempts : attempt[j][k] # "absent" =>
        \A i \in 1..(k - 1) : /\ attempt[j][i] \in {"opened", "unhealthy"}
                             /\ \A c \in children : <<c[2], c[3]>> # <<j, i>>

(* Write-ahead: a run directory is accounted for by a launch on a ledger.   *)
LaunchedAhead ==
    \A j \in Jobs, k \in Attempts : attempt[j][k] # "absent" =>
        \E d \in Drivers : Record(d, j, k, "launched") \in ledger

(* A driver that has the lock lets go of it, whatever becomes of its        *)
(* children and of the threads that an error leaves without a slot.         *)
Concludes == \A d \in Drivers : Owns(d) ~> phase[d] \in Over
=============================================================================
