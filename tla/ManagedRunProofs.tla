-------------------------- MODULE ManagedRunProofs --------------------------
(***************************************************************************)
(* Machine-checked theorems about a managed attempt (ManagedRun) and the   *)
(* reuse gate that judges it (ReuseGate), for every number of rounds,      *)
(* agents, files and faults, and for both kinds of fault.  Four parts:     *)
(* types; the order of publication and the refinement of RunLifecycle; the *)
(* accounts of the manifest; the gate.                                     *)
(***************************************************************************)
EXTENDS ReuseGate, TLAPS

-----------------------------------------------------------------------------
(* Type correctness *)

(* The round counter is 0 until the simulation starts and below the plan    *)
(* whenever another round is about to start: TypeOK alone does not bound it. *)
RoundBound ==
    /\ pc \in {"create", "announceStart", "activate", "prepare", "simulate"} => round = 0
    /\ pc = "roundStart" => round < Rounds

TypeInv == TypeOK /\ RoundBound

(* _refresh_derived keeps a manifest a manifest: its subtractions are        *)
(* clipped at zero.                                                          *)
LEMMA DerivedType ==
    ASSUME NEW m \in Manifest, NEW s
    PROVE  Derived(m, s) \in Manifest
<1>1. /\ m.counts \in [Counted -> Nat]
      /\ m.derived.roundsFailed \in 0..1
  BY DEF Manifest
<1>2. \A t \in Counted : m.counts[t] \in Nat
  BY <1>1
<1>3. /\ m.counts["RoundStarted"] \in Nat /\ m.counts["RoundFinished"] \in Nat
      /\ m.counts["LLMRequestRecorded"] \in Nat
      /\ m.counts["AgentDecisionParsed"] \in Nat
  BY <1>2 DEF Counted
<1>4. Rounds * Agents \in Nat
  BY ConstantsAssumption
<1> QED
  BY SMTT(30), <1>1, <1>3, <1>4, ConstantsAssumption DEF Derived, Manifest, Minus

(* Each of the updates the steps make keeps a manifest a manifest.           *)
LEMMA RequestsUpdate ==
    ASSUME NEW m \in Manifest, NEW q \in [attempted : Nat, completed : Nat]
    PROVE  [m EXCEPT !.requests = q] \in Manifest
  BY DEF Manifest

LEMMA AttemptedUpdate ==
    ASSUME NEW m \in Manifest
    PROVE  [m EXCEPT !.requests.attempted = @ + 1] \in Manifest
<1>1. m.requests \in [attempted : Nat, completed : Nat]
  BY DEF Manifest
<1>2. [m.requests EXCEPT !.attempted = @ + 1] \in [attempted : Nat, completed : Nat]
  BY <1>1
<1>3. [m EXCEPT !.requests = [m.requests EXCEPT !.attempted = @ + 1]] \in Manifest
  BY <1>2, RequestsUpdate
<1> QED
  BY <1>3

LEMMA CompletedUpdate ==
    ASSUME NEW m \in Manifest
    PROVE  [m EXCEPT !.requests.completed = @ + 1] \in Manifest
<1>1. m.requests \in [attempted : Nat, completed : Nat]
  BY DEF Manifest
<1>2. [m.requests EXCEPT !.completed = @ + 1] \in [attempted : Nat, completed : Nat]
  BY <1>1
<1>3. [m EXCEPT !.requests = [m.requests EXCEPT !.completed = @ + 1]] \in Manifest
  BY <1>2, RequestsUpdate
<1> QED
  BY <1>3

LEMMA CountsUpdate ==
    ASSUME NEW m \in Manifest, NEW t \in Counted
    PROVE  [m EXCEPT !.counts[t] = @ + 1] \in Manifest
<1>1. m.counts \in [Counted -> Nat]
  BY DEF Manifest
<1>2. [m.counts EXCEPT ![t] = @ + 1] \in [Counted -> Nat]
  BY <1>1
<1> DEFINE c == [m.counts EXCEPT ![t] = @ + 1]
<1> HIDE DEF c
<1>3. [m EXCEPT !.counts = c] \in Manifest
  BY <1>2 DEF Manifest, c
<1> QED
  BY <1>3 DEF c

LEMMA ResultsUpdate ==
    ASSUME NEW m \in Manifest, NEW r \in [files : Nat, events : [EventTypes -> Nat]]
    PROVE  [m EXCEPT !.results = r] \in Manifest
  BY DEF Manifest

LEMMA DigestUpdate ==   \* the refreshed digest of the event log
    ASSUME NEW m \in Manifest, NEW e \in [EventTypes -> Nat]
    PROVE  [m EXCEPT !.results.events = e] \in Manifest
<1> DEFINE r == [m.results EXCEPT !.events = e]
<1>1. m.results \in [files : Nat, events : [EventTypes -> Nat]]
  BY DEF Manifest
<1>2. r \in [files : Nat, events : [EventTypes -> Nat]]
  BY <1>1
<1>3. [m EXCEPT !.results.events = e] = [m EXCEPT !.results = r]
  OBVIOUS
<1> HIDE DEF r
<1> QED
  BY <1>2, <1>3, ResultsUpdate

LEMMA StatusUpdate ==
    ASSUME NEW m \in Manifest, NEW s \in {"running", "finished", "failed"}
    PROVE  /\ [m EXCEPT !.status = s] \in Manifest
           /\ [m EXCEPT !.status = s].status = s
           /\ [m EXCEPT !.status = s].complete = m.complete
           /\ [m EXCEPT !.status = s].state = m.state
           /\ [m EXCEPT !.status = s].results = m.results
<1> DEFINE n == [m EXCEPT !.status = s]
<1>1. n \in Manifest
  BY DEF Manifest
<1>2. n.status = s
  BY DEF Manifest
<1>3. n.complete = m.complete /\ n.state = m.state /\ n.results = m.results
  BY DEF Manifest
<1> QED
  BY <1>1, <1>2, <1>3

LEMMA VerdictUpdate ==   \* the success flags, set by finish and taken back
    ASSUME NEW m \in Manifest, NEW b \in BOOLEAN,
           NEW s \in {"NEW", "ACTIVE", "FINISHED", "FAILED"}
    PROVE  [m EXCEPT !.complete = b, !.state = s] \in Manifest
  BY DEF Manifest

LEMMA RetractType ==
    ASSUME NEW m \in Manifest
    PROVE  Retract(m) \in Manifest
  BY VerdictUpdate DEF Retract

LEMMA RunsUpdate ==
    ASSUME NEW m \in Manifest,
           NEW r \in [started : 0..1, completed : 0..1, failed : 0..1]
    PROVE  [m EXCEPT !.runs = r] \in Manifest
  BY DEF Manifest

LEMMA CompletedRunUpdate ==
    ASSUME NEW m \in Manifest
    PROVE  [m EXCEPT !.runs.completed = 1] \in Manifest
<1> DEFINE r == [started |-> m.runs.started, completed |-> 1, failed |-> m.runs.failed]
<1>1. m.runs \in [started : 0..1, completed : 0..1, failed : 0..1]
  BY DEF Manifest
<1>2. m.runs.started \in 0..1 /\ m.runs.failed \in 0..1
  BY <1>1
<1>3. r \in [started : 0..1, completed : 0..1, failed : 0..1]
  BY <1>2
<1>4. [m.runs EXCEPT !.completed = 1] = r
  BY <1>1
<1> QED
  BY <1>3, <1>4, RunsUpdate

LEMMA FailedRunUpdate ==
    ASSUME NEW m \in Manifest, NEW f \in 0..1
    PROVE  [m EXCEPT !.runs.failed = f] \in Manifest
<1> DEFINE r == [started |-> m.runs.started, completed |-> m.runs.completed,
                 failed |-> f]
<1>1. m.runs \in [started : 0..1, completed : 0..1, failed : 0..1]
  BY DEF Manifest
<1>2. m.runs.started \in 0..1 /\ m.runs.completed \in 0..1
  BY <1>1
<1>3. r \in [started : 0..1, completed : 0..1, failed : 0..1]
  BY <1>2
<1>4. [m.runs EXCEPT !.failed = f] = r
  BY <1>1
<1> QED
  BY <1>3, <1>4, RunsUpdate

LEMMA ReturnedUpdate ==   \* the simulation returned
    ASSUME NEW m \in Manifest
    PROVE  [m EXCEPT !.runs.completed = 1, !.runs.failed = 0, !.simulated = TRUE]
              \in Manifest
<1> DEFINE c == [m EXCEPT !.runs.completed = 1]
<1> DEFINE d == [c EXCEPT !.runs.failed = 0]
<1>1. [m EXCEPT !.runs.completed = 1, !.runs.failed = 0, !.simulated = TRUE]
         = [d EXCEPT !.simulated = TRUE]
  OBVIOUS
<1>2. c \in Manifest
  BY CompletedRunUpdate
<1> HIDE DEF c
<1>5. 0 \in 0..1
  OBVIOUS
<1>3. d \in Manifest
  BY <1>2, <1>5, FailedRunUpdate, Zenon
<1>4. \A x \in Manifest : [x EXCEPT !.simulated = TRUE] \in Manifest
  BY DEF Manifest
<1> HIDE DEF d
<1> QED
  BY <1>1, <1>3, <1>4

LEMMA MarkedUpdate ==   \* the failure is recorded in memory
    ASSUME NEW m \in Manifest, NEW f \in 0..1
    PROVE  [m EXCEPT !.complete = FALSE, !.state = "FAILED", !.runs.failed = f]
              \in Manifest
<1> DEFINE v == [m EXCEPT !.complete = FALSE, !.state = "FAILED"]
<1>1. [m EXCEPT !.complete = FALSE, !.state = "FAILED", !.runs.failed = f]
         = [v EXCEPT !.runs.failed = f]
  OBVIOUS
<1>2. v \in Manifest
  BY VerdictUpdate
<1> HIDE DEF v
<1> QED
  BY <1>1, <1>2, FailedRunUpdate

(* Counting an event keeps a manifest a manifest.                            *)
LEMMA CountingType ==
    ASSUME NEW m \in Manifest, NEW t \in Counted
    PROVE  Counting(m, t) \in Manifest
<1> DEFINE c == [m EXCEPT !.counts[t] = @ + 1]
<1>1. c \in Manifest
  BY CountsUpdate
<1> HIDE DEF c
<1>2. [c EXCEPT !.requests.attempted = @ + 1] \in Manifest
  BY <1>1, AttemptedUpdate
<1>3. [c EXCEPT !.requests.completed = @ + 1] \in Manifest
  BY <1>1, CompletedUpdate
<1>4. \A q \in Manifest : Derived(q, "ACTIVE") \in Manifest
  BY DerivedType
<1>5. Counting(m, t) = Derived(IF t = "LLMRequestRecorded"
                                 THEN [c EXCEPT !.requests.attempted = @ + 1]
                                 ELSE IF t = "LLMResponseRecorded"
                                      THEN [c EXCEPT !.requests.completed = @ + 1]
                                      ELSE c, "ACTIVE")
  BY DEF Counting, c
<1> QED
  BY <1>1, <1>2, <1>3, <1>4, <1>5

(* Reconciling with the recorder keeps a manifest a manifest.                *)
LEMMA SyncedType ==
    ASSUME NEW m \in Manifest, NEW s,
           recorder \in [requested : Nat, responded : Nat]
    PROVE  Synced(m, s) \in Manifest
<1> DEFINE q == [attempted |-> Larger(m.requests.attempted, recorder.requested),
                 completed |-> Larger(m.requests.completed, recorder.responded)]
<1>1. q \in [attempted : Nat, completed : Nat]
  BY DEF Manifest, Larger
<1> HIDE DEF q
<1>2. [m EXCEPT !.requests = q] \in Manifest
  BY <1>1, RequestsUpdate
<1>3. Derived([m EXCEPT !.requests = q], s) \in Manifest
  BY <1>2, DerivedType
<1> QED
  BY <1>3 DEF Synced, q

(* The initial states are well typed.                                        *)
LEMMA InitType == Init => TypeInv
<1> SUFFICES ASSUME Init PROVE TypeInv
  OBVIOUS
<1>1. NoEvents \in [EventTypes -> Nat]
  BY DEF NoEvents
<1>2. FreshManifest \in Manifest
  BY <1>1 DEF FreshManifest, Manifest
<1>4. terminal \in BOOLEAN
  BY Zenon DEF Init
<1>3. TypeOK
  BY <1>1, <1>2, <1>4, ConstantsAssumption DEF Init, TypeOK, Steps
<1> QED
  BY <1>3 DEF Init, TypeInv, RoundBound

(* Every step keeps the types: one step of the proof per action.             *)
LEMMA StepType == TypeInv /\ [Next]_vars => TypeInv'
<1> SUFFICES ASSUME TypeInv, [Next]_vars PROVE TypeInv'
  OBVIOUS
<1> USE ConstantsAssumption DEF TypeInv, TypeOK, RoundBound, Steps, BodySteps, SimulationSteps,
        FinishSteps, PublishSteps, FailSteps, Stopped
<1>1. CASE EmitRunStarted
  BY <1>1 DEF EmitRunStarted, Append, Logged, Left, Raise, EventTypes, attempt, science, links
<1>2. CASE WarnRunStarted
  BY <1>2 DEF WarnRunStarted, Write, Left, Raise, attempt, science, links
<1>3. CASE Activate
  BY <1>3 DEF Activate, Write, Left, Raise, Manifest, science, links
<1>4. CASE PrepareLLM
  BY <1>4 DEF PrepareLLM, Write, Left, Raise, attempt, science, links
<1>5. CASE StartSimulation
  BY SMTT(30), <1>5 DEF StartSimulation, Write, Left, Raise, Manifest, attempt, science, links
<1>6. CASE StartRound
  BY <1>6, CountingType DEF StartRound, Observe, Logged, NextAgent, Counted, EventTypes, Write, Left, Raise, attempt, links
<1>7. CASE AskAgents
  BY <1>7, CountingType DEF AskAgents, Observe, Logged, NextAgent, Counted, EventTypes, Write, Left, Raise, attempt, links
<1>8. CASE CallProvider
  BY <1>8 DEF CallProvider, attempt, science, links
<1>9. CASE StoreResponse
  BY <1>9, CountingType DEF StoreResponse, Observe, Logged, NextAgent, Counted, EventTypes, Write, Left, Raise, attempt, links
<1>10. CASE ParseDecision
  BY <1>10, CountingType DEF ParseDecision, Observe, Logged, NextAgent, Counted, EventTypes, Write, Left, Raise, attempt, links
<1>11. CASE FinishRound
  BY <1>11, CountingType DEF FinishRound, Observe, Logged, Counted, EventTypes, Write, Left, Raise, attempt, science, links
<1>12. CASE SimulationReturned
  <2> DEFINE m == [mem EXCEPT !.runs.completed = 1, !.runs.failed = 0, !.simulated = TRUE]
  <2>1. m \in Manifest
    BY ReturnedUpdate
  <2>2. /\ Write(m, "settle", "exit") /\ UNCHANGED <<attempt, logged, science, links>>
    BY <1>12 DEF SimulationReturned
  <2> HIDE DEF m
  <2> QED
    BY <2>1, <2>2 DEF Write, Left, Raise, attempt, science, links
<1>13. CASE SimulationRaised
  BY SMTT(30), <1>13 DEF SimulationRaised, Write, Left, Raise, Manifest, attempt, science, links
<1>14. CASE Settle
  BY <1>14, SyncedType DEF Settle, Write, Left, Raise, attempt, science, links
<1>15. CASE Export
  BY <1>15 DEF Export, attempt, links
<1>16. CASE BodyRaises
  BY <1>16 DEF BodyRaises, attempt, science, links
<1>17. CASE BeginFinish
  BY <1>17, SyncedType DEF BeginFinish, Write, Left, Raise, attempt, science, links
<1>18. CASE FinishSamples
  <2>1. [mem EXCEPT !.complete = TRUE, !.state = "FINISHED"] \in Manifest
    BY VerdictUpdate
  <2> QED
    BY <1>18, <2>1, RetractType DEF FinishSamples, TryWrite, Left, Raise, science, links
<1>19. CASE FinishCollect
  <2>1. [files |-> exported, events |-> logged] \in [files : Nat, events : [EventTypes -> Nat]]
    OBVIOUS
  <2>2. [mem EXCEPT !.results = [files |-> exported, events |-> logged]] \in Manifest
    BY <2>1, ResultsUpdate
  <2> QED
    BY <1>19, <2>2, RetractType DEF FinishCollect, TryWrite, Left, Raise, science, links
<1>20. CASE FinishAnnounce
  BY <1>20, RetractType
  DEF FinishAnnounce, Logged, Left, Raise, EventTypes, science, links
<1>21. CASE FinishRefresh
  <2> DEFINE m == [mem EXCEPT !.status = "finished"]
  <2> DEFINE r == [m EXCEPT !.results.events = logged]
  <2>1. m \in Manifest
    BY StatusUpdate
  <2>2. r \in Manifest
    BY <2>1, DigestUpdate
  <2>3. /\ \/ mem' = r /\ faults' = faults /\ frame' = frame /\ pc' = "commit"
           \/ Raise /\ mem' = Retract(m) /\ frame' = "finish" /\ pc' = "fail"
        /\ UNCHANGED <<ctx, disk, logged, science, links>>
    BY <1>21 DEF FinishRefresh
  <2>4. terminal' \in BOOLEAN
    BY <1>21, Zenon DEF FinishRefresh
  <2> HIDE DEF r, m
  <2> QED
    BY <2>1, <2>2, <2>3, <2>4, RetractType DEF Raise, science, links
<1>22. CASE FinishCommit
  BY <1>22, RetractType DEF FinishCommit, TryWrite, Left, Raise, science, links
<1>23. CASE PublishLatest
  BY <1>23 DEF PublishLatest, Symlink, Left, Raise, attempt, science
<1>24. CASE PublishFlat
  BY <1>24 DEF PublishFlat, Symlink, Left, Raise, attempt, science
<1>25. CASE PublishWrite
  BY <1>25 DEF PublishWrite, Write, Left, Raise, attempt, science, links
<1>26. CASE PublishWarn
  BY <1>26 DEF PublishWarn, Write, Left, Raise, attempt, science, links
<1>27. CASE Exit
  BY <1>27 DEF Exit, science, links
<1>28. CASE FailSync
  BY <1>28, SyncedType DEF FailSync, Write, Left, Raise, FailCaller, attempt, science, links
<1>29. CASE FailMark
  <2>1. Derived(mem, "FAILED") \in Manifest
    BY DerivedType
  <2>2. Derived(mem, "FAILED").runs.failed \in 0..1
    BY <2>1 DEF Manifest
  <2> DEFINE f == IF mem.runs.started = 1 /\ mem.runs.completed = 0 THEN 1
                  ELSE Derived(mem, "FAILED").runs.failed
  <2>3. f \in 0..1
    BY <2>2
  <2>4. [Derived(mem, "FAILED") EXCEPT !.complete = FALSE, !.state = "FAILED",
                                       !.runs.failed = f] \in Manifest
    BY <2>1, <2>3, MarkedUpdate
  <2> QED
    BY <1>29, <2>4 DEF FailMark, Write, Left, Raise, FailCaller, science, links
<1>30. CASE FailAnnounce
  BY <1>30 DEF FailAnnounce, Append, FailCaller, Logged, Left, Raise, EventTypes, attempt, science, links
<1>31. CASE FailCollect
  <2>1. [files |-> exported, events |-> logged] \in [files : Nat, events : [EventTypes -> Nat]]
    OBVIOUS
  <2>2. [mem EXCEPT !.status = "failed"] \in Manifest
    BY StatusUpdate
  <2>3. [[mem EXCEPT !.status = "failed"] EXCEPT
            !.results = [files |-> exported, events |-> logged]] \in Manifest
    BY <2>1, <2>2, ResultsUpdate
  <2> QED
    BY <1>31, <2>2, <2>3 DEF FailCollect, Write, Left, Raise, attempt, science, links
<1>32. CASE FailRefresh
  <2> DEFINE r == [mem EXCEPT !.results.events = logged]
  <2>1. r \in Manifest
    BY DigestUpdate
  <2>2. /\ \/ mem' = r /\ faults' = faults /\ pc' = "failCommit"
           \/ Raise /\ mem' = mem /\ pc' = FailCaller
        /\ UNCHANGED <<frame, ctx, disk, logged, science, links>>
    BY <1>32 DEF FailRefresh
  <2>3. terminal' \in BOOLEAN
    BY <1>32, Zenon DEF FailRefresh
  <2> HIDE DEF r
  <2> QED
    BY <2>1, <2>2, <2>3 DEF Raise, FailCaller, science, links
<1>33. CASE FailCommit
  BY <1>33 DEF FailCommit, Write, Left, Raise, FailCaller, attempt, science, links
<1>34. CASE Crash
  BY <1>34 DEF Crash, attempt, science, links
<1>35. CASE UNCHANGED vars
  BY <1>35 DEF vars
<1> QED
  BY <1>1, <1>2, <1>3, <1>4, <1>5, <1>6, <1>7, <1>8, <1>9, <1>10, <1>11, <1>12, <1>13, <1>14, <1>15, <1>16, <1>17, <1>18, <1>19, <1>20, <1>21, <1>22, <1>23, <1>24, <1>25, <1>26, <1>27, <1>28, <1>29, <1>30, <1>31, <1>32, <1>33, <1>34, <1>35
  DEF Next, Step, Open, Simulate, Finish, Publish, Fail, Terminated

(* Type correctness: the manifests, the event log and every counter of a     *)
(* managed attempt keep their types in every reachable state.                *)
THEOREM TypeCorrect == Spec => []TypeOK
<1>1. Init => TypeInv
  BY InitType
<1>2. TypeInv /\ [Next]_vars => TypeInv'
  BY StepType
<1>3. TypeInv => TypeOK
  BY DEF TypeInv
<1> QED
  BY <1>1, <1>2, <1>3, PTL DEF Spec

-----------------------------------------------------------------------------
(* The inductive invariant behind the safety theorems *)

(* The steps before RunFinished is appended, the ones that follow it while   *)
(* the attempt may still be accepted, and the ones after RunFailed.          *)
Opening == {"create", "announceStart", "activate"}
Working == BodySteps \union {"simReturned", "simRaised", "finish", "samples",
                             "collect", "announce"}
Failed == {"failCollect", "failRefresh", "failCommit"}

(* The program counter fixes the state of the context.                       *)
ControlInv ==
    /\ pc \in Opening => ctx = "NEW"
    /\ pc \in Working \union {"refresh", "commit", "fail", "failMark"} => ctx = "ACTIVE"
    /\ pc \in PublishSteps => ctx = "FINISHED"
    /\ pc \in Failed \union {"failAnnounce"} => ctx = "FAILED"

(* _terminal is set only where no event is appended any more.                *)
TerminalInv ==
    terminal => pc \in {"commit", "fail", "failMark", "failCommit", "exit"}
                          \union PublishSteps \union Stopped

(* Which terminal events can be in the log at which step.                    *)
EventInv ==
    /\ pc \in Opening \union Working => logged["RunFinished"] = 0
    /\ pc \in {"refresh", "commit"} => logged["RunFinished"] = 1
    /\ ctx # "FAILED" \/ pc = "failAnnounce" => logged["RunFailed"] = 0
    /\ pc \in Failed => logged["RunFailed"] = 1

(* What the manifest in memory may already claim at which step.              *)
MemoryInv ==
    /\ pc \in Opening \union Working \union {"refresh"} => mem.status = "running"
    /\ pc \in Opening \union Working \union {"fail", "failMark"} =>
          (mem.complete => pc \in {"collect", "announce"})
    /\ ctx \in {"NEW", "ACTIVE"} /\ pc = "exit" => ~mem.complete
    /\ ctx = "FAILED" => ~mem.complete /\ mem.state = "FAILED"
    /\ pc \in {"collect", "announce", "refresh", "commit"} => mem.complete
    /\ pc \in {"failRefresh", "failCommit"} => mem.status = "failed"
    /\ pc = "commit" => mem.status = "finished" /\ terminal
    /\ mem.status = "failed" =>
          ctx = "FAILED" /\ pc \in {"failRefresh", "failCommit", "exit"} \union Stopped
    /\ pc = "failCommit" => mem.results.events = logged
    /\ pc \in {"finish"} \union FinishSteps => exported = Files
    /\ pc \in {"announce", "refresh", "commit"} => mem.results.files = Files
    /\ pc = "commit" => mem.results.events = logged
    /\ ctx = "FINISHED" => mem = disk

(* What makes a manifest on disk trustworthy once it is accepted or failed.  *)
DiskInv ==
    /\ Accepted(disk) => AcceptedIsSealed /\ terminal
    /\ disk.status = "failed" => FailedIsSealed
    /\ ctx = "FINISHED" => Accepted(disk)
    /\ latest = "self" \/ flat = "self" => ctx = "FINISHED"

SafetyInv == ControlInv /\ TerminalInv /\ EventInv /\ MemoryInv /\ DiskInv

(* The three conjuncts of a manifest that the invariant reads survive the    *)
(* recomputation of derived counters, the counting of an event and the       *)
(* reconciliation with the recorder.                                         *)
Same(m, n) == m.status = n.status /\ m.complete = n.complete
                /\ m.results = n.results

LEMMA DerivedKeeps ==
    ASSUME NEW m \in Manifest, NEW s
    PROVE  Same(Derived(m, s), m)
  BY DEF Derived, Same, Manifest

LEMMA CountingKeeps ==
    ASSUME NEW m \in Manifest, NEW t \in Counted
    PROVE  Same(Counting(m, t), m)
<1> DEFINE c == [m EXCEPT !.counts[t] = @ + 1]
           a == [c EXCEPT !.requests.attempted = @ + 1]
           d == [c EXCEPT !.requests.completed = @ + 1]
<1>1. c \in Manifest /\ Same(c, m)
  BY CountsUpdate DEF Manifest, Same
<1> HIDE DEF c
<1>2. a \in Manifest /\ Same(a, c)
  BY <1>1, AttemptedUpdate DEF Manifest, Same
<1>3. d \in Manifest /\ Same(d, c)
  BY <1>1, CompletedUpdate DEF Manifest, Same
<1> HIDE DEF a, d
<1>4. Counting(m, t) = Derived(IF t = "LLMRequestRecorded" THEN a
                               ELSE IF t = "LLMResponseRecorded" THEN d ELSE c,
                               "ACTIVE")
  BY DEF Counting, a, d, c
<1>5. \A q \in Manifest : Same(Derived(q, "ACTIVE"), q)
  BY DerivedKeeps
<1> QED
  BY <1>1, <1>2, <1>3, <1>4, <1>5 DEF Same

LEMMA SyncedKeeps ==
    ASSUME NEW m \in Manifest, NEW s,
           recorder \in [requested : Nat, responded : Nat]
    PROVE  Same(Synced(m, s), m)
<1> DEFINE q == [attempted |-> Larger(m.requests.attempted, recorder.requested),
                 completed |-> Larger(m.requests.completed, recorder.responded)]
<1>1. q \in [attempted : Nat, completed : Nat]
  BY DEF Manifest, Larger
<1> HIDE DEF q
<1>2. [m EXCEPT !.requests = q] \in Manifest /\ Same([m EXCEPT !.requests = q], m)
  BY <1>1, RequestsUpdate DEF Manifest, Same
<1>3. Same(Derived([m EXCEPT !.requests = q], s), [m EXCEPT !.requests = q])
  BY <1>2, DerivedKeeps
<1> QED
  BY <1>2, <1>3 DEF Synced, q, Same

(* Everything before finish's try block, seen through the invariant: such a  *)
(* step appends no terminal event, leaves the verdict of the manifest alone, *)
(* and reaches finish only with every canonical file exported.               *)
Before == Opening \union BodySteps \union {"simReturned", "simRaised", "finish"}
Quiet ==
    /\ pc \in Before
    /\ pc' \in Before \union {"samples", "exit", "done"}
    /\ pc' \in Opening => pc \in Opening
    /\ ctx' = IF pc = "activate" THEN "ACTIVE" ELSE ctx
    /\ pc = "activate" => pc' \in {"prepare", "done"}
    /\ pc \in Opening /\ pc # "activate" => pc' \in Opening \union {"done"}
    /\ pc' \in {"finish", "samples"} =>
          exported' = exported /\ (pc = "finish" \/ exported = Files)
    /\ Same(mem', mem)
    /\ disk' \in {disk, mem'}
    /\ logged'["RunFinished"] = logged["RunFinished"]
    /\ logged'["RunFailed"] = logged["RunFailed"]
    /\ UNCHANGED <<terminal, latest, flat>>

LEMMA QuietSteps ==
    TypeInv /\ (Open \/ Simulate \/ BodyRaises \/ BeginFinish) => Quiet
<1> SUFFICES ASSUME TypeInv, Open \/ Simulate \/ BodyRaises \/ BeginFinish
             PROVE  Quiet
  OBVIOUS
<1> USE DEF Quiet, Before, Opening, BodySteps, SimulationSteps
<1>a. mem \in Manifest /\ recorder \in [requested : Nat, responded : Nat]
      /\ logged \in [EventTypes -> Nat] /\ exported \in 0..Files
  BY DEF TypeInv, TypeOK
<1>1. CASE EmitRunStarted
  BY <1>1, <1>a DEF EmitRunStarted, Append, Logged, Left, Raise, EventTypes, Same, attempt, science, links
<1>2. CASE WarnRunStarted
  BY <1>2, <1>a DEF WarnRunStarted, Same, Write, Left, Raise, attempt, science, links
<1>3. CASE Activate
  BY <1>3, <1>a DEF Activate, Same, Manifest, Write, Left, Raise, science, links
<1>4. CASE PrepareLLM
  BY <1>4, <1>a DEF PrepareLLM, Same, Write, Left, Raise, attempt, science, links
<1>5. CASE StartSimulation
  BY <1>5, <1>a DEF StartSimulation, Same, Manifest, Write, Left, Raise, attempt, science, links
<1>6. CASE StartRound
  BY <1>6, <1>a, CountingKeeps DEF StartRound, Observe, Logged, Counted, EventTypes, Same, attempt, links, Write, Left, Raise
<1>7. CASE AskAgents
  BY <1>7, <1>a, CountingKeeps DEF AskAgents, Observe, Logged, Counted, EventTypes, Same, attempt, links, Write, Left, Raise
<1>8. CASE CallProvider
  BY <1>8, <1>a DEF CallProvider, Same, attempt, science, links
<1>9. CASE StoreResponse
  BY <1>9, <1>a, CountingKeeps DEF StoreResponse, Observe, Logged, Counted, EventTypes, Same, attempt, links, Write, Left, Raise
<1>10. CASE ParseDecision
  BY <1>10, <1>a, CountingKeeps DEF ParseDecision, Observe, Logged, Counted, EventTypes, Same, attempt, links, Write, Left, Raise
<1>11. CASE FinishRound
  BY <1>11, <1>a, CountingKeeps DEF FinishRound, Observe, Logged, Counted, EventTypes, Same, Write, Left, Raise, attempt, science, links
<1>12. CASE SimulationReturned
  BY <1>12, <1>a DEF SimulationReturned, Same, Manifest, Write, Left, Raise, attempt, science, links
<1>13. CASE SimulationRaised
  BY <1>13, <1>a DEF SimulationRaised, Same, Manifest, Write, Left, Raise, attempt, science, links
<1>14. CASE Settle
  BY <1>14, <1>a, SyncedKeeps DEF Settle, Same, Write, Left, Raise, attempt, science, links
<1>15. CASE Export
  BY <1>15, <1>a, ConstantsAssumption DEF Export, Same, attempt, links
<1>16. CASE BodyRaises
  BY <1>16, <1>a DEF BodyRaises, Same, attempt, science, links
<1>17. CASE BeginFinish
  BY <1>17, <1>a, SyncedKeeps DEF BeginFinish, Same, Write, Left, Raise, attempt, science, links
<1> QED
  BY <1>1, <1>2, <1>3, <1>4, <1>5, <1>6, <1>7, <1>8, <1>9, <1>10, <1>11, <1>12, <1>13, <1>14, <1>15, <1>16, <1>17 DEF Open, Simulate

LEMMA QuietSafety == TypeInv /\ SafetyInv /\ Quiet => SafetyInv'
<1> SUFFICES ASSUME TypeInv, SafetyInv, Quiet PROVE SafetyInv'
  OBVIOUS
<1> USE DEF Before, Opening, Working, Failed, BodySteps, SimulationSteps, FinishSteps,
            PublishSteps, Stopped
<1>1. ControlInv'
  BY DEF SafetyInv, ControlInv, Quiet
<1>2. ~terminal /\ ~terminal'
  BY DEF SafetyInv, TerminalInv, Quiet
<1>3. EventInv'
  BY DEF SafetyInv, ControlInv, EventInv, Quiet
<1>4. MemoryInv'
  BY DEF SafetyInv, ControlInv, MemoryInv, Quiet, Same
<1>5. DiskInv'
  <2>1. ctx \in {"NEW", "ACTIVE"} /\ ctx' \in {"NEW", "ACTIVE"}
    BY DEF SafetyInv, ControlInv, Quiet
  <2>2. mem.status = "running" /\ mem'.status = "running"
    BY DEF SafetyInv, MemoryInv, Quiet, Same
  <2>3. disk.status # "failed" /\ ~Accepted(disk)
    BY <1>2, <2>1 DEF SafetyInv, DiskInv, FailedIsSealed
  <2>4. disk'.status # "failed" /\ ~Accepted(disk)'
    BY <2>2, <2>3 DEF Quiet, Accepted
  <2>5. latest # "self" /\ flat # "self" /\ latest' # "self" /\ flat' # "self"
    BY <2>1 DEF SafetyInv, DiskInv, Quiet
  <2> QED
    BY <2>1, <2>4, <2>5 DEF DiskInv
<1> QED
  BY <1>1, <1>2, <1>3, <1>4, <1>5 DEF SafetyInv, TerminalInv

LEMMA FinishSafety ==
    TypeInv /\ SafetyInv
      /\ (FinishSamples \/ FinishCollect \/ FinishAnnounce \/ FinishRefresh \/ FinishCommit)
      => SafetyInv'
<1> SUFFICES ASSUME TypeInv, SafetyInv,
                    FinishSamples \/ FinishCollect \/ FinishAnnounce \/ FinishRefresh
                      \/ FinishCommit
             PROVE  SafetyInv'
  OBVIOUS
<1> USE DEF Opening, Working, Failed, BodySteps, SimulationSteps, FinishSteps,
            PublishSteps, Stopped
<1>a. /\ mem \in Manifest /\ disk \in Manifest /\ logged \in [EventTypes -> Nat]
      /\ exported \in 0..Files
  BY DEF TypeInv, TypeOK
<1>b. pc \in FinishSteps /\ ctx = "ACTIVE" /\ exported = Files /\ logged["RunFailed"] = 0
  BY DEF SafetyInv, ControlInv, EventInv, MemoryInv, FinishSamples, FinishCollect, FinishAnnounce,
         FinishRefresh, FinishCommit
<1>c. disk.status # "failed" /\ latest # "self" /\ flat # "self"
  BY <1>b DEF SafetyInv, DiskInv, FailedIsSealed
<1>d. terminal <=> pc = "commit"
  BY <1>b DEF SafetyInv, TerminalInv, MemoryInv
<1>e. pc # "commit" => ~Accepted(disk)
  BY <1>d DEF SafetyInv, DiskInv
<1>f. \A n \in Manifest : /\ Retract(n).status = n.status
                          /\ Retract(n).complete = FALSE
                          /\ Retract(n).results = n.results
  BY DEF Retract, Manifest
<1>1. CASE FinishSamples
  <2> DEFINE m == [mem EXCEPT !.complete = TRUE, !.state = "FINISHED"]
  <2>1. m \in Manifest
    BY <1>a, VerdictUpdate
  <2>2. m.status = "running" /\ m.complete = TRUE
    BY <1>1, <1>a DEF SafetyInv, MemoryInv, FinishSamples, Manifest
  <2>3. /\ pc = "samples" /\ TryWrite(m, "collect")
        /\ UNCHANGED <<ctx, terminal, logged, exported, latest, flat>>
    BY <1>1 DEF FinishSamples, science, links
  <2> HIDE DEF m
  <2>4. \/ mem' = m /\ disk' = m /\ pc' = "collect"
        \/ mem' = Retract(m) /\ disk' \in {disk, m} /\ pc' = "fail"
    BY <2>3 DEF TryWrite, Left
  <2>5. disk'.status # "failed" /\ ~Accepted(disk)'
    BY <1>c, <1>e, <2>2, <2>3, <2>4 DEF Accepted
  <2>6. logged["RunFinished"] = 0
    BY <2>3 DEF SafetyInv, EventInv
  <2>7. mem'.status = "running" /\ (mem'.complete => pc' = "collect")
    BY <1>f, <2>1, <2>2, <2>4
  <2>8. ControlInv' /\ TerminalInv' /\ EventInv'
    BY <1>b, <1>d, <2>3, <2>4, <2>6 DEF ControlInv, TerminalInv, EventInv
  <2>9. MemoryInv'
    BY <1>b, <2>2, <2>3, <2>4, <2>7 DEF MemoryInv
  <2>10. DiskInv'
    BY <1>b, <1>c, <2>3, <2>5 DEF DiskInv
  <2> QED
    BY <2>8, <2>9, <2>10 DEF SafetyInv
<1>2. CASE FinishCollect
  <2> DEFINE r == [files |-> exported, events |-> logged]
             m == [mem EXCEPT !.results = r]
  <2>0. r \in [files : Nat, events : [EventTypes -> Nat]]
    BY <1>a, ConstantsAssumption
  <2>1. m \in Manifest
    BY <1>a, <2>0, ResultsUpdate
  <2>2. m.status = "running" /\ m.complete /\ m.results.files = Files
    BY <1>2, <1>a, <1>b DEF SafetyInv, MemoryInv, FinishCollect, Manifest
  <2>3. /\ pc = "collect" /\ TryWrite(m, "announce")
        /\ UNCHANGED <<ctx, terminal, logged, exported, latest, flat>>
    BY <1>2 DEF FinishCollect, science, links
  <2> HIDE DEF m
  <2>4. \/ mem' = m /\ disk' = m /\ pc' = "announce"
        \/ mem' = Retract(m) /\ disk' \in {disk, m} /\ pc' = "fail"
    BY <2>3 DEF TryWrite, Left
  <2>5. disk'.status # "failed" /\ ~Accepted(disk)'
    BY <1>c, <1>e, <2>2, <2>3, <2>4 DEF Accepted
  <2>6. logged["RunFinished"] = 0
    BY <2>3 DEF SafetyInv, EventInv
  <2>7. mem'.status = "running" /\ (mem'.complete => pc' = "announce")
    BY <1>f, <2>1, <2>2, <2>4
  <2>8. ControlInv' /\ TerminalInv' /\ EventInv'
    BY <1>b, <1>d, <2>3, <2>4, <2>6 DEF ControlInv, TerminalInv, EventInv
  <2>9. MemoryInv'
    BY <1>b, <2>2, <2>3, <2>4, <2>7 DEF MemoryInv
  <2>10. DiskInv'
    BY <1>b, <1>c, <2>3, <2>5 DEF DiskInv
  <2> QED
    BY <2>8, <2>9, <2>10 DEF SafetyInv
<1>3. CASE FinishAnnounce
  <2>1. /\ pc = "announce" /\ logged["RunFinished"] = 0 /\ mem.status = "running"
        /\ mem.complete /\ mem.results.files = Files
    BY <1>3 DEF SafetyInv, EventInv, MemoryInv, FinishAnnounce
  <2>2. /\ \/ mem' = mem /\ logged' = Logged("RunFinished") /\ pc' = "refresh"
           \/ mem' = Retract(mem) /\ logged' \in {logged, Logged("RunFinished")} /\ pc' = "fail"
        /\ UNCHANGED <<ctx, terminal, disk, exported, latest, flat>>
    BY <1>3 DEF FinishAnnounce, Left, science, links
  <2>3. Logged("RunFinished")["RunFinished"] = 1 /\ Logged("RunFinished")["RunFailed"] = 0
    BY <1>a, <1>b, <2>1 DEF Logged, EventTypes
  <2>4. mem'.status = "running" /\ (mem'.complete => pc' = "refresh")
    BY <1>a, <1>f, <2>1, <2>2
  <2>5. ControlInv' /\ TerminalInv' /\ EventInv'
    BY <1>b, <1>d, <2>1, <2>2, <2>3 DEF ControlInv, TerminalInv, EventInv
  <2>6. MemoryInv'
    BY <1>b, <2>1, <2>2, <2>4 DEF MemoryInv
  <2>7. ~Accepted(disk)' /\ disk'.status # "failed"
    BY <1>c, <1>e, <2>1, <2>2 DEF Accepted
  <2>8. DiskInv'
    BY <1>b, <1>c, <2>2, <2>7 DEF DiskInv
  <2> QED
    BY <2>5, <2>6, <2>8 DEF SafetyInv
<1>4. CASE FinishRefresh
  <2> DEFINE m == [mem EXCEPT !.status = "finished"]
             n == [m EXCEPT !.results.events = logged]
  <2>1. /\ pc = "refresh" /\ logged["RunFinished"] = 1
        /\ mem.complete /\ mem.results.files = Files
    BY <1>4 DEF SafetyInv, EventInv, MemoryInv, FinishRefresh
  <2>2. m \in Manifest /\ m.status = "finished" /\ m.complete = mem.complete
        /\ m.results = mem.results
    BY <1>a, StatusUpdate
  <2>3. /\ \/ mem' = n /\ terminal' = TRUE /\ pc' = "commit"
           \/ mem' = Retract(m) /\ terminal' = terminal /\ pc' = "fail"
        /\ UNCHANGED <<ctx, disk, logged, exported, latest, flat>>
    BY <1>4 DEF FinishRefresh, science, links
  <2> HIDE DEF m
  <2>4. n.status = "finished" /\ n.complete = TRUE
    BY <1>a, <2>1, <2>2 DEF Manifest
  <2>5. n.results = [files |-> Files, events |-> logged]
    <3>1. m.results \in [files : Nat, events : [EventTypes -> Nat]]
      BY <2>2 DEF Manifest
    <3>2. n.results = [m.results EXCEPT !.events = logged]
      BY <2>2 DEF Manifest
    <3> QED
      BY <2>1, <2>2, <3>1, <3>2
  <2> HIDE DEF n
  <2>6. mem'.status = "finished" /\ (mem'.complete => pc' = "commit")
    BY <1>f, <2>2, <2>3, <2>4
  <2>7. ControlInv' /\ TerminalInv' /\ EventInv'
    BY <1>b, <1>d, <2>1, <2>3 DEF ControlInv, TerminalInv, EventInv
  <2>8. MemoryInv'
    BY <1>b, <2>1, <2>3, <2>4, <2>5, <2>6 DEF MemoryInv
  <2>9. ~Accepted(disk)' /\ disk'.status # "failed"
    BY <1>c, <1>e, <2>1, <2>3 DEF Accepted
  <2>10. DiskInv'
    BY <1>b, <1>c, <2>3, <2>9 DEF DiskInv
  <2> QED
    BY <2>7, <2>8, <2>10 DEF SafetyInv
<1>5. CASE FinishCommit
  <2>1. /\ pc = "commit" /\ logged["RunFinished"] = 1 /\ mem.status = "finished"
        /\ mem.complete /\ terminal
        /\ mem.results.files = Files /\ mem.results.events = logged
    BY <1>5 DEF SafetyInv, EventInv, MemoryInv, FinishCommit
  <2>2. mem.results = [files |-> Files, events |-> logged]
    BY <1>a, <2>1 DEF Manifest
  <2>3. /\ \/ mem' = mem /\ disk' = mem /\ pc' = "publishLatest" /\ ctx' = "FINISHED"
           \/ mem' = Retract(mem) /\ disk' \in {disk, mem} /\ pc' = "fail" /\ ctx' = ctx
        /\ UNCHANGED <<terminal, logged, exported, latest, flat>>
    BY <1>5 DEF FinishCommit, TryWrite, Left, science, links
  <2>4. mem'.status = "finished" /\ (mem'.complete => pc' = "publishLatest")
    BY <1>a, <1>f, <2>1, <2>3
  <2>5. disk'.status # "failed" /\ (Accepted(disk)' => AcceptedIsSealed')
    BY <1>b, <1>c, <2>1, <2>2, <2>3 DEF Accepted, SafetyInv, DiskInv, AcceptedIsSealed
  <2>6. pc' = "publishLatest" => Accepted(disk)'
    BY <2>1, <2>3 DEF Accepted
  <2>7. ControlInv' /\ TerminalInv' /\ EventInv'
    BY <1>b, <2>1, <2>3 DEF ControlInv, TerminalInv, EventInv
  <2>8. MemoryInv'
    BY <1>b, <2>1, <2>3, <2>4 DEF MemoryInv
  <2>9. DiskInv'
    BY <1>b, <1>c, <2>1, <2>3, <2>5, <2>6 DEF DiskInv
  <2> QED
    BY <2>7, <2>8, <2>9 DEF SafetyInv
<1> QED
  BY <1>1, <1>2, <1>3, <1>4, <1>5

LEMMA PublishSafety ==
    TypeInv /\ SafetyInv /\ (PublishLatest \/ PublishFlat \/ PublishWrite \/ PublishWarn)
      => SafetyInv'
<1> SUFFICES ASSUME TypeInv, SafetyInv,
                    PublishLatest \/ PublishFlat \/ PublishWrite \/ PublishWarn
             PROVE  SafetyInv'
  OBVIOUS
<1> USE DEF Opening, Working, Failed, BodySteps, SimulationSteps, FinishSteps,
            PublishSteps, Stopped
<1>1. /\ pc \in PublishSteps /\ pc' \in PublishSteps \union {"exit"}
      /\ mem' = mem /\ disk' \in {disk, mem}
      /\ UNCHANGED <<ctx, terminal, logged, exported>>
  BY DEF PublishLatest, PublishFlat, PublishWrite, PublishWarn, Symlink, Write, Left, Raise,
         attempt, science, links
<1>2. ctx = "FINISHED" /\ mem = disk /\ Accepted(disk) /\ terminal /\ AcceptedIsSealed
  BY <1>1 DEF SafetyInv, ControlInv, MemoryInv, DiskInv
<1>3. disk' = disk /\ Accepted(disk)' /\ AcceptedIsSealed' /\ disk'.status # "failed"
  BY <1>1, <1>2 DEF Accepted, AcceptedIsSealed
<1>4. ControlInv' /\ TerminalInv' /\ EventInv'
  BY <1>1, <1>2 DEF SafetyInv, ControlInv, TerminalInv, EventInv
<1>5. MemoryInv'
  BY <1>1, <1>2, <1>3 DEF Accepted, MemoryInv
<1>6. DiskInv'
  BY <1>1, <1>2, <1>3 DEF DiskInv
<1> QED
  BY <1>4, <1>5, <1>6 DEF SafetyInv

(* The invariant of the steps of fail, which are entered with the context    *)
(* still ACTIVE and leave it FAILED.                                         *)
LEMMA FailSafety ==
    TypeInv /\ SafetyInv
      /\ (FailSync \/ FailMark \/ FailAnnounce \/ FailCollect \/ FailRefresh \/ FailCommit)
      => SafetyInv'
<1> SUFFICES ASSUME TypeInv, SafetyInv,
                    FailSync \/ FailMark \/ FailAnnounce \/ FailCollect \/ FailRefresh
                      \/ FailCommit
             PROVE  SafetyInv'
  OBVIOUS
<1> USE DEF Opening, Working, Failed, BodySteps, SimulationSteps, FinishSteps,
            PublishSteps, Stopped
<1>a. /\ mem \in Manifest /\ disk \in Manifest /\ logged \in [EventTypes -> Nat]
      /\ recorder \in [requested : Nat, responded : Nat] /\ exported \in 0..Files
  BY DEF TypeInv, TypeOK
<1>b. ctx # "FINISHED" /\ latest # "self" /\ flat # "self"
  BY DEF SafetyInv, ControlInv, DiskInv, FailSync, FailMark, FailAnnounce, FailCollect,
         FailRefresh, FailCommit
<1>c. /\ FailCaller \in {"exit", "done"}
      /\ pc' \in {"failMark", "failAnnounce", "failCollect", "failRefresh", "failCommit",
                  "exit", "done"}
      /\ UNCHANGED <<exported, latest, flat>>
  BY DEF FailCaller, FailSync, FailMark, FailAnnounce, FailCollect, FailRefresh, FailCommit,
         Write, Append, attempt, science, links
<1>1. CASE FailSync
  <2> DEFINE m == Synced(mem, ctx)
  <2>1. Same(m, mem)
    BY <1>a, SyncedKeeps
  <2>2. /\ pc = "fail" /\ mem' = m /\ disk' \in {disk, m} /\ pc' \in {"failMark", FailCaller}
        /\ UNCHANGED <<ctx, terminal, logged>>
    BY <1>1 DEF FailSync, Write, Left, attempt, science
  <2> HIDE DEF m
  <2>3. /\ ctx = "ACTIVE" /\ mem.status # "failed" /\ ~mem.complete
        /\ logged["RunFailed"] = 0 /\ disk.status # "failed"
    BY <2>2 DEF SafetyInv, ControlInv, EventInv, MemoryInv, DiskInv, FailedIsSealed
  <2>4. m.status # "failed" /\ ~m.complete /\ ~Accepted(m)
    BY <2>1, <2>3 DEF Same, Accepted
  <2>5. disk'.status # "failed" /\ (Accepted(disk)' => AcceptedIsSealed' /\ terminal)
    <3>1. CASE disk' = disk
      BY <1>c, <2>2, <2>3, <3>1 DEF SafetyInv, DiskInv, Accepted, AcceptedIsSealed
    <3>2. CASE disk' = m
      BY <2>4, <3>2 DEF Accepted
    <3> QED
      BY <2>2, <3>1, <3>2
  <2>6. ControlInv' /\ TerminalInv' /\ EventInv'
    BY <1>c, <2>2, <2>3 DEF SafetyInv, ControlInv, TerminalInv, EventInv
  <2>7. MemoryInv'
    BY <1>c, <2>2, <2>3, <2>4 DEF MemoryInv
  <2>8. DiskInv'
    BY <1>b, <1>c, <2>2, <2>5 DEF DiskInv
  <2> QED
    BY <2>6, <2>7, <2>8 DEF SafetyInv
<1>2. CASE FailMark
  <2> DEFINE d == Derived(mem, "FAILED")
             f == IF mem.runs.started = 1 /\ mem.runs.completed = 0 THEN 1 ELSE d.runs.failed
             m == [d EXCEPT !.complete = FALSE, !.state = "FAILED", !.runs.failed = f]
  <2>1. d \in Manifest /\ d.status = mem.status
    BY <1>a, DerivedType, DerivedKeeps DEF Same
  <2>2. /\ pc = "failMark" /\ ctx' = "FAILED" /\ mem' = m /\ disk' \in {disk, m}
        /\ terminal => disk' = disk /\ pc' = FailCaller
        /\ UNCHANGED <<terminal, logged>>
    BY <1>2 DEF FailMark, Write, Left, science
  <2> HIDE DEF d
  <2>3. /\ m.status = mem.status /\ m.complete = FALSE /\ m.state = "FAILED"
    BY <2>1 DEF Manifest
  <2> HIDE DEF f, m
  <2>4. /\ ctx = "ACTIVE" /\ mem.status # "failed" /\ logged["RunFailed"] = 0
        /\ disk.status # "failed"
    BY <2>2 DEF SafetyInv, ControlInv, EventInv, MemoryInv, DiskInv, FailedIsSealed
  <2>5. disk'.status # "failed" /\ (Accepted(disk)' => AcceptedIsSealed' /\ terminal)
    <3>1. CASE disk' = disk
      BY <1>c, <2>2, <2>4, <3>1 DEF SafetyInv, DiskInv, Accepted, AcceptedIsSealed
    <3>2. CASE disk' = m
      BY <2>3, <2>4, <3>2 DEF Accepted
    <3> QED
      BY <2>2, <3>1, <3>2
  <2>6. pc' \in {"failAnnounce", FailCaller}
    BY <1>2 DEF FailMark, Write
  <2>7. ControlInv' /\ TerminalInv' /\ EventInv'
    BY <1>c, <2>2, <2>4, <2>6 DEF SafetyInv, ControlInv, TerminalInv, EventInv
  <2>8. MemoryInv'
    BY <1>c, <2>2, <2>3, <2>4, <2>6 DEF MemoryInv
  <2>9. DiskInv'
    BY <1>b, <1>c, <2>2, <2>5 DEF DiskInv
  <2> QED
    BY <2>7, <2>8, <2>9 DEF SafetyInv
<1>d. pc \in {"failAnnounce", "failCollect", "failRefresh"} =>
         /\ ctx = "FAILED" /\ ~terminal /\ ~mem.complete /\ mem.state = "FAILED"
         /\ ~Accepted(disk)
  BY DEF SafetyInv, ControlInv, TerminalInv, MemoryInv, DiskInv
<1>3. CASE FailAnnounce
  <2>1. /\ pc = "failAnnounce" /\ pc' \in {"failCollect", FailCaller}
        /\ \/ logged' = Logged("RunFailed")
           \/ pc' = FailCaller /\ logged' \in {logged, Logged("RunFailed")}
        /\ UNCHANGED <<ctx, terminal, mem, disk>>
    BY <1>3 DEF FailAnnounce, Append, Left, attempt, science
  <2>2. logged["RunFailed"] = 0 /\ Logged("RunFailed")["RunFailed"] = 1
    BY <1>a, <2>1 DEF SafetyInv, EventInv, Logged, EventTypes
  <2>3. disk.status # "failed" /\ mem.status # "failed"
    BY <2>1, <2>2 DEF SafetyInv, DiskInv, MemoryInv, FailedIsSealed
  <2>4. ~Accepted(disk)' /\ disk'.status # "failed"
    BY <1>d, <2>1, <2>3 DEF Accepted
  <2>5. ControlInv' /\ TerminalInv' /\ EventInv'
    BY <1>c, <1>d, <2>1, <2>2 DEF ControlInv, TerminalInv, EventInv
  <2>6. MemoryInv'
    BY <1>c, <1>d, <2>1, <2>3 DEF MemoryInv
  <2>7. DiskInv'
    BY <1>b, <1>c, <2>1, <2>4 DEF DiskInv
  <2> QED
    BY <2>5, <2>6, <2>7 DEF SafetyInv
<1>4. CASE FailCollect
  <2> DEFINE m == [mem EXCEPT !.status = "failed"]
             r == [files |-> exported, events |-> logged]
             n == [m EXCEPT !.results = r]
  <2>1. /\ pc = "failCollect" /\ logged["RunFailed"] = 1
    BY <1>4 DEF FailCollect, SafetyInv, EventInv
  <2>2. /\ m \in Manifest /\ m.status = "failed" /\ m.complete = mem.complete
        /\ m.state = mem.state
    BY <1>a, StatusUpdate
  <2>3. /\ mem' \in {m, n} /\ disk' \in {disk, n} /\ pc' = "failRefresh"
        /\ UNCHANGED <<ctx, terminal, logged>>
    BY <1>4 DEF FailCollect, Write, Left, attempt, science
  <2> HIDE DEF m
  <2>4. /\ n.status = "failed" /\ n.complete = mem.complete /\ n.state = mem.state
        /\ n.results.events = logged
    BY <2>2 DEF Manifest
  <2> HIDE DEF n
  <2>5. mem'.status = "failed" /\ ~mem'.complete /\ mem'.state = "FAILED"
    BY <1>d, <2>1, <2>2, <2>3, <2>4
  <2>6. ~Accepted(disk)' /\ (disk'.status = "failed" => FailedIsSealed')
    <3>1. CASE disk' = disk
      BY <1>d, <2>1, <2>3, <3>1 DEF SafetyInv, DiskInv, Accepted, FailedIsSealed
    <3>2. CASE disk' = n
      BY <1>d, <2>1, <2>3, <2>4, <3>2 DEF Accepted, FailedIsSealed
    <3> QED
      BY <2>3, <3>1, <3>2
  <2>7. ControlInv' /\ TerminalInv' /\ EventInv'
    BY <1>d, <2>1, <2>3 DEF ControlInv, TerminalInv, EventInv
  <2>8. MemoryInv'
    BY <1>d, <2>1, <2>3, <2>5 DEF MemoryInv
  <2>9. DiskInv'
    BY <1>b, <1>c, <2>3, <2>6 DEF DiskInv
  <2> QED
    BY <2>7, <2>8, <2>9 DEF SafetyInv
<1>5. CASE FailRefresh
  <2> DEFINE n == [mem EXCEPT !.results.events = logged]
  <2>1. /\ pc = "failRefresh" /\ mem.status = "failed" /\ logged["RunFailed"] = 1
    BY <1>5 DEF FailRefresh, SafetyInv, EventInv, MemoryInv
  <2>2. /\ \/ mem' = n /\ terminal' = TRUE /\ pc' = "failCommit"
           \/ mem' = mem /\ terminal' = terminal /\ pc' = FailCaller
        /\ UNCHANGED <<ctx, disk, logged>>
    BY <1>5 DEF FailRefresh, science
  <2>3. n.status = mem.status /\ n.complete = mem.complete /\ n.state = mem.state
    BY <1>a DEF Manifest
  <2>4. n.results.events = logged
    <3>1. mem.results \in [files : Nat, events : [EventTypes -> Nat]]
      BY <1>a DEF Manifest
    <3>2. n.results = [mem.results EXCEPT !.events = logged]
      BY <1>a DEF Manifest
    <3> QED
      BY <3>1, <3>2
  <2> HIDE DEF n
  <2>5. mem'.status = "failed" /\ ~mem'.complete /\ mem'.state = "FAILED"
    BY <1>d, <2>1, <2>2, <2>3
  <2>6. ~Accepted(disk)' /\ (disk'.status = "failed" => FailedIsSealed')
    BY <1>d, <2>1, <2>2 DEF SafetyInv, DiskInv, Accepted, FailedIsSealed
  <2>7. ControlInv' /\ TerminalInv' /\ EventInv'
    BY <1>c, <1>d, <2>1, <2>2 DEF ControlInv, TerminalInv, EventInv
  <2>8. MemoryInv'
    BY <1>c, <1>d, <2>1, <2>2, <2>4, <2>5 DEF MemoryInv
  <2>9. DiskInv'
    BY <1>b, <1>c, <2>2, <2>6 DEF DiskInv
  <2> QED
    BY <2>7, <2>8, <2>9 DEF SafetyInv
<1>6. CASE FailCommit
  <2>1. /\ pc = "failCommit" /\ mem' = mem /\ disk' \in {disk, mem} /\ pc' = FailCaller
        /\ UNCHANGED <<ctx, terminal, logged>>
    BY <1>6 DEF FailCommit, Write, Left, attempt, science
  <2>2. /\ ctx = "FAILED" /\ mem.status = "failed" /\ ~mem.complete /\ mem.state = "FAILED"
        /\ mem.results.events = logged /\ logged["RunFailed"] = 1
    BY <2>1 DEF SafetyInv, ControlInv, EventInv, MemoryInv
  <2>3. /\ Accepted(disk)' => AcceptedIsSealed' /\ terminal
        /\ disk'.status = "failed" => FailedIsSealed'
    <3>1. CASE disk' = disk
      BY <1>c, <2>1, <3>1 DEF SafetyInv, DiskInv, Accepted, AcceptedIsSealed, FailedIsSealed
    <3>2. CASE disk' = mem
      BY <2>1, <2>2, <3>2 DEF Accepted, FailedIsSealed
    <3> QED
      BY <2>1, <3>1, <3>2
  <2>4. ControlInv' /\ TerminalInv' /\ EventInv'
    BY <1>c, <2>1, <2>2 DEF SafetyInv, ControlInv, TerminalInv, EventInv
  <2>5. MemoryInv'
    BY <1>c, <2>1, <2>2 DEF MemoryInv
  <2>6. DiskInv'
    BY <1>b, <1>c, <2>1, <2>3 DEF DiskInv
  <2> QED
    BY <2>4, <2>5, <2>6 DEF SafetyInv
<1> QED
  BY <1>1, <1>2, <1>3, <1>4, <1>5, <1>6

LEMMA StepSafety == TypeInv /\ SafetyInv /\ [Next]_vars => SafetyInv'
<1> SUFFICES ASSUME TypeInv, SafetyInv, [Next]_vars PROVE SafetyInv'
  OBVIOUS
<1> USE DEF Opening, Working, Failed, BodySteps, SimulationSteps, FinishSteps,
            PublishSteps, Stopped
<1>1. CASE Open \/ Simulate \/ BodyRaises \/ BeginFinish
  BY <1>1, QuietSteps, QuietSafety
<1>2. CASE FinishSamples \/ FinishCollect \/ FinishAnnounce \/ FinishRefresh \/ FinishCommit
  BY <1>2, FinishSafety
<1>3. CASE Publish
  BY <1>3, PublishSafety DEF Publish
<1>4. CASE FailSync \/ FailMark \/ FailAnnounce \/ FailCollect \/ FailRefresh \/ FailCommit
  BY <1>4, FailSafety
<1>5. CASE Exit \/ Crash \/ UNCHANGED vars
  <2>1. /\ pc' = pc \/ pc' = "crashed" \/ (pc = "exit" /\ pc' = "done")
           \/ (pc = "exit" /\ ctx = "ACTIVE" /\ pc' = "fail")
        /\ UNCHANGED <<ctx, terminal, mem, disk, logged, exported, latest, flat>>
    BY <1>5 DEF Exit, Crash, vars, attempt, science, links
  <2>2. ControlInv' /\ TerminalInv' /\ EventInv'
    BY <2>1 DEF SafetyInv, ControlInv, TerminalInv, EventInv
  <2>3. MemoryInv'
    BY <2>1 DEF SafetyInv, ControlInv, MemoryInv
  <2>4. DiskInv'
    BY <2>1 DEF SafetyInv, DiskInv, Accepted, AcceptedIsSealed, FailedIsSealed
  <2> QED
    BY <2>2, <2>3, <2>4 DEF SafetyInv
<1> QED
  BY <1>1, <1>2, <1>3, <1>4, <1>5 DEF Next, Step, Finish, Fail, Terminated

LEMMA InitSafety == Init => SafetyInv
<1> SUFFICES ASSUME Init PROVE SafetyInv
  OBVIOUS
<1>1. /\ pc = "create" /\ ctx = "NEW" /\ ~terminal /\ mem = FreshManifest
      /\ disk = FreshManifest /\ exported = 0 /\ latest # "self" /\ flat # "self"
  BY DEF Init
<1>2. FreshManifest.status = "running" /\ FreshManifest.complete = FALSE
  BY DEF FreshManifest
<1>3. logged["RunFinished"] = 0 /\ logged["RunFailed"] = 0
  BY DEF Init, NoEvents, EventTypes
<1> QED
  BY <1>1, <1>2, <1>3
  DEF SafetyInv, ControlInv, TerminalInv, EventInv, MemoryInv, DiskInv, Accepted, Opening,
      Working, Failed, BodySteps, SimulationSteps, FinishSteps, PublishSteps, Stopped

(* TypeInv and SafetyInv together are inductive.                             *)
LEMMA SafetyHolds == Spec => []SafetyInv
<1>1. Init => TypeInv /\ SafetyInv
  BY InitType, InitSafety
<1>2. TypeInv /\ SafetyInv /\ [Next]_vars => (TypeInv /\ SafetyInv)'
  BY StepType, StepSafety
<1> QED
  BY <1>1, <1>2, PTL DEF Spec

(* A manifest that a reader accepts is sealed: exactly one RunFinished and   *)
(* no RunFailed, every canonical file described, an event digest that is the *)
(* digest of the log as it stands - whatever fails before, during or after.  *)
THEOREM AcceptedRunsAreSealed == Spec => []AcceptedIsSealed
<1>1. SafetyInv => AcceptedIsSealed
  BY DEF SafetyInv, DiskInv, AcceptedIsSealed
<1> QED
  BY <1>1, SafetyHolds, PTL

(* A failed manifest is sealed: written by a FAILED context, after RunFailed *)
(* reached the log, with a digest of the log as it stands.                   *)
THEOREM FailedRunsAreSealed == Spec => []FailedIsSealed
<1>1. SafetyInv => FailedIsSealed
  BY DEF SafetyInv, DiskInv, FailedIsSealed
<1> QED
  BY <1>1, SafetyHolds, PTL

(* `latest` and the flat paths only ever lead to an accepted run.            *)
THEOREM LinksLeadToAccepted == Spec => []LinksOnlyToAccepted
<1>1. SafetyInv => LinksOnlyToAccepted
  BY DEF SafetyInv, DiskInv, LinksOnlyToAccepted
<1> QED
  BY <1>1, SafetyHolds, PTL

-----------------------------------------------------------------------------
(* The refinement of RunLifecycle *)

(* A write in doubt: the manifest on disk is acceptable and its context does *)
(* not know.  It is on its way to fail, or has stopped trying.               *)
DoubtInv ==
    Accepted(disk) /\ ctx # "FINISHED" =>
        ctx = "ACTIVE" /\ pc \in {"fail", "exit"} \union Stopped

RefineInv == TypeInv /\ SafetyInv /\ DoubtInv

Verdict(m) == IF Accepted(m) THEN "accepted"
              ELSE IF m.status = "failed" THEN "rejected" ELSE "unfinished"

(* A step of the lifecycle or one that it does not see.                      *)
Seen == Lifecycle!Next \/ UNCHANGED <<ctx, Verdict(disk), latest = "self">>

(* The steps before finish's try block: the verdict is left open.            *)
LEMMA QuietRefines == RefineInv /\ Quiet => Seen /\ DoubtInv'
<1> SUFFICES ASSUME RefineInv, Quiet PROVE Seen /\ DoubtInv'
  OBVIOUS
<1> USE DEF Before, Opening, Working, BodySteps, SimulationSteps
<1>1. ctx \in {"NEW", "ACTIVE"} /\ ~terminal
  BY DEF RefineInv, SafetyInv, ControlInv, TerminalInv, Quiet, Stopped, PublishSteps
<1>2. mem.status = "running" /\ mem'.status = "running"
  BY DEF RefineInv, SafetyInv, MemoryInv, Quiet, Same
<1>3. disk.status # "failed" /\ ~Accepted(disk)
  BY <1>1 DEF RefineInv, SafetyInv, DiskInv, FailedIsSealed
<1>4. disk'.status # "failed" /\ ~Accepted(disk)'
  BY <1>2, <1>3 DEF Quiet, Accepted
<1>5. Verdict(disk) = "unfinished" /\ Verdict(disk') = "unfinished"
  BY <1>3, <1>4 DEF Verdict, Accepted
<1>6. pc = "activate" => ctx = "NEW"
  BY DEF RefineInv, SafetyInv, ControlInv
<1>7. latest' = latest /\ ctx' \in {ctx, "ACTIVE"} /\ (ctx' # ctx => ctx = "NEW" /\ ctx' = "ACTIVE")
  BY <1>6 DEF Quiet
<1>8. Seen
  BY <1>3, <1>4, <1>5, <1>7 DEF Seen, Lifecycle!Next, Lifecycle!Open, Accepted, Verdict
<1>9. DoubtInv'
  BY <1>4 DEF DoubtInv
<1> QED
  BY <1>8, <1>9

(* The steps of finish: only its last write changes the verdict.             *)
LEMMA FinishRefines ==
    RefineInv
      /\ (FinishSamples \/ FinishCollect \/ FinishAnnounce \/ FinishRefresh \/ FinishCommit)
      => Seen /\ DoubtInv'
<1> SUFFICES ASSUME RefineInv,
                    FinishSamples \/ FinishCollect \/ FinishAnnounce \/ FinishRefresh
                      \/ FinishCommit
             PROVE  Seen /\ DoubtInv'
  OBVIOUS
<1>a. pc \in FinishSteps /\ mem \in Manifest
  BY DEF RefineInv, TypeInv, TypeOK, FinishSteps, FinishSamples, FinishCollect,
         FinishAnnounce, FinishRefresh, FinishCommit
<1>b. ctx = "ACTIVE" /\ ~Accepted(disk) /\ disk.status # "failed"
  BY <1>a DEF RefineInv, DoubtInv, SafetyInv, ControlInv, DiskInv, FailedIsSealed,
              FinishSteps, Working, Stopped
<1>c. latest' = latest
  BY DEF FinishSamples, FinishCollect, FinishAnnounce, FinishRefresh, FinishCommit, links
<1>1. CASE FinishSamples \/ FinishCollect \/ FinishAnnounce \/ FinishRefresh
  <2>1. mem.status = "running"
    BY <1>1 DEF RefineInv, SafetyInv, MemoryInv, Working, FinishSamples, FinishCollect,
                FinishAnnounce, FinishRefresh
  <2>2. \A r : [mem EXCEPT !.results = r].status = "running"
    BY <1>a, <2>1 DEF Manifest
  <2>3. [mem EXCEPT !.complete = TRUE, !.state = "FINISHED"].status = "running"
    BY <1>a, <2>1 DEF Manifest
  <2>4. ctx' = ctx /\ (disk' = disk \/ disk'.status = "running")
    BY <1>1, <2>2, <2>3
    DEF FinishSamples, FinishCollect, FinishAnnounce, FinishRefresh, TryWrite, Left
  <2>5. ~Accepted(disk)' /\ disk'.status # "failed"
    BY <1>b, <2>4 DEF Accepted
  <2> QED
    BY <1>b, <1>c, <2>4, <2>5 DEF Seen, Verdict, DoubtInv, Accepted
<1>2. CASE FinishCommit
  <2>1. mem.status = "finished" /\ mem.complete
    BY <1>2 DEF RefineInv, SafetyInv, MemoryInv, FinishCommit
  <2>2. \/ disk' = mem /\ pc' = "publishLatest" /\ ctx' = "FINISHED"
        \/ disk' \in {disk, mem} /\ pc' = "fail" /\ ctx' = ctx
    BY <1>2 DEF FinishCommit, TryWrite, Left
  <2>3. Accepted(mem) /\ Verdict(mem) = "accepted"
    BY <2>1 DEF Accepted, Verdict
  <2>4. CASE disk' = disk /\ ctx' = ctx
    BY <1>b, <1>c, <2>4 DEF Seen, DoubtInv, Accepted
  <2>5. CASE disk' = mem /\ ctx' \in {"ACTIVE", "FINISHED"}
    BY <1>b, <1>c, <2>2, <2>3, <2>5
    DEF Seen, DoubtInv, Accepted, Verdict, Lifecycle!Next, Lifecycle!Accept
  <2> QED
    BY <1>b, <2>2, <2>4, <2>5
<1> QED
  BY <1>1, <1>2

(* Publication sees an accepted manifest and writes only that one again.     *)
LEMMA PublishRefines ==
    RefineInv /\ (PublishLatest \/ PublishFlat \/ PublishWrite \/ PublishWarn)
      => Seen /\ DoubtInv'
<1> SUFFICES ASSUME RefineInv, PublishLatest \/ PublishFlat \/ PublishWrite \/ PublishWarn
             PROVE  Seen /\ DoubtInv'
  OBVIOUS
<1>1. /\ pc \in PublishSteps /\ disk' \in {disk, mem} /\ ctx' = ctx
      /\ latest' = latest \/ latest' = "self"
  BY DEF PublishLatest, PublishFlat, PublishWrite, PublishWarn, Symlink, Write, Left, Raise,
         attempt, science, links, PublishSteps
<1>2. ctx = "FINISHED" /\ mem = disk /\ Accepted(disk)
  BY <1>1 DEF RefineInv, SafetyInv, ControlInv, MemoryInv, DiskInv
<1>3. disk' = disk
  BY <1>1, <1>2
<1> QED
  BY <1>1, <1>2, <1>3
  DEF Seen, DoubtInv, Accepted, Verdict, Lifecycle!Next, Lifecycle!Publish

(* fail: its first write takes a doubtful verdict back, its last ones reject. *)
LEMMA FailRefines ==
    RefineInv
      /\ (FailSync \/ FailMark \/ FailAnnounce \/ FailCollect \/ FailRefresh \/ FailCommit)
      => Seen /\ DoubtInv'
<1> SUFFICES ASSUME RefineInv,
                    FailSync \/ FailMark \/ FailAnnounce \/ FailCollect \/ FailRefresh
                      \/ FailCommit
             PROVE  Seen /\ DoubtInv'
  OBVIOUS
<1>a. mem \in Manifest /\ recorder \in [requested : Nat, responded : Nat]
  BY DEF RefineInv, TypeInv, TypeOK
<1>c. latest' = latest /\ FailCaller \in {"exit", "done"}
  BY DEF FailCaller, FailSync, FailMark, FailAnnounce, FailCollect, FailRefresh, FailCommit,
         science, links
<1>1. CASE FailSync
  <2> DEFINE m == Synced(mem, ctx)
  <2>1. pc = "fail" /\ disk' \in {disk, m} /\ pc' \in {"failMark", FailCaller} /\ ctx' = ctx
        /\ (pc' = "failMark" => disk' = m)
    BY <1>1, <1>c DEF FailSync, Write, Left, attempt
  <2>2. ctx = "ACTIVE" /\ mem.status # "failed" /\ ~mem.complete /\ disk.status # "failed"
    BY <2>1 DEF RefineInv, SafetyInv, ControlInv, MemoryInv, DiskInv, FailedIsSealed
  <2>3. ~Accepted(m) /\ m.status # "failed"
    BY <1>a, <2>2, SyncedKeeps DEF Same, Accepted
  <2> HIDE DEF m
  <2>4. DoubtInv'
    BY <1>c, <2>1, <2>2, <2>3 DEF DoubtInv, Accepted, Stopped
  <2>5. Seen
    BY <1>c, <2>1, <2>2, <2>3 DEF Seen, Verdict, Accepted, Lifecycle!Next, Lifecycle!Retract
  <2> QED
    BY <2>4, <2>5
<1>2. CASE FailMark
  <2> DEFINE d == Derived(mem, "FAILED")
             f == IF mem.runs.started = 1 /\ mem.runs.completed = 0 THEN 1 ELSE d.runs.failed
             m == [d EXCEPT !.complete = FALSE, !.state = "FAILED", !.runs.failed = f]
  <2>1. d \in Manifest /\ d.status = mem.status
    BY <1>a, DerivedType, DerivedKeeps DEF Same
  <2>2. pc = "failMark" /\ ctx' = "FAILED" /\ disk' \in {disk, m}
    BY <1>2 DEF FailMark, Write, Left
  <2> HIDE DEF d
  <2>3. m.status = mem.status /\ m.complete = FALSE
    BY <2>1 DEF Manifest
  <2> HIDE DEF f, m
  <2>4. ctx = "ACTIVE" /\ mem.status # "failed" /\ disk.status # "failed" /\ ~Accepted(disk)
    BY <2>2 DEF RefineInv, DoubtInv, SafetyInv, ControlInv, MemoryInv, DiskInv,
                FailedIsSealed, Stopped
  <2>5. ~Accepted(disk)' /\ disk'.status # "failed"
    BY <2>2, <2>3, <2>4 DEF Accepted
  <2> QED
    BY <1>c, <2>2, <2>4, <2>5
    DEF Seen, DoubtInv, Verdict, Accepted, Lifecycle!Next, Lifecycle!Abandon
<1>b. ctx = "FAILED" => ~Accepted(disk) /\ ~mem.complete
  BY DEF RefineInv, DoubtInv, SafetyInv, MemoryInv
<1>3. CASE FailAnnounce \/ FailRefresh
  <2>1. UNCHANGED <<ctx, disk>> /\ ctx = "FAILED"
    BY <1>3 DEF FailAnnounce, FailRefresh, RefineInv, SafetyInv, ControlInv, Failed, attempt
  <2> QED
    BY <1>b, <1>c, <2>1 DEF Seen, DoubtInv, Accepted
<1>4. CASE FailCollect \/ FailCommit
  <2>1. ctx = "FAILED" /\ ctx' = ctx
    BY <1>4 DEF FailCollect, FailCommit, RefineInv, SafetyInv, ControlInv, Failed, attempt
  <2>2. disk' = disk \/ (disk'.status = "failed" /\ ~disk'.complete)
    <3>1. CASE FailCollect
      <4> DEFINE m == [mem EXCEPT !.status = "failed"]
                 n == [m EXCEPT !.results = [files |-> exported, events |-> logged]]
      <4>1. m \in Manifest /\ m.status = "failed" /\ m.complete = mem.complete
        BY <1>a, StatusUpdate
      <4>2. disk' \in {disk, n}
        BY <3>1 DEF FailCollect, Write, Left
      <4> HIDE DEF m
      <4>3. n.status = "failed" /\ n.complete = mem.complete
        BY <4>1 DEF Manifest
      <4> QED
        BY <1>b, <2>1, <4>2, <4>3
    <3>2. CASE FailCommit
      <4>1. mem.status = "failed" /\ disk' \in {disk, mem}
        BY <3>2 DEF FailCommit, Write, Left, RefineInv, SafetyInv, MemoryInv
      <4> QED
        BY <1>b, <2>1, <4>1
    <3> QED
      BY <1>4, <3>1, <3>2
  <2>3. ~Accepted(disk)'
    BY <1>b, <2>1, <2>2 DEF Accepted
  <2>4. Seen
    BY <1>b, <1>c, <2>1, <2>2, <2>3 DEF Seen, Verdict, Accepted, Lifecycle!Next, Lifecycle!Reject
  <2> QED
    BY <2>3, <2>4 DEF DoubtInv
<1> QED
  BY <1>1, <1>2, <1>3, <1>4

LEMMA StepRefines == RefineInv /\ [Next]_vars => Seen /\ DoubtInv'
<1> SUFFICES ASSUME RefineInv, [Next]_vars PROVE Seen /\ DoubtInv'
  OBVIOUS
<1>1. CASE Open \/ Simulate \/ BodyRaises \/ BeginFinish
  BY <1>1, QuietSteps, QuietRefines DEF RefineInv
<1>2. CASE FinishSamples \/ FinishCollect \/ FinishAnnounce \/ FinishRefresh \/ FinishCommit
  BY <1>2, FinishRefines
<1>3. CASE Publish
  BY <1>3, PublishRefines DEF Publish
<1>4. CASE FailSync \/ FailMark \/ FailAnnounce \/ FailCollect \/ FailRefresh \/ FailCommit
  BY <1>4, FailRefines
<1>5. CASE Exit \/ Crash \/ UNCHANGED vars
  <2>1. /\ UNCHANGED <<ctx, disk, latest>>
        /\ pc' = pc \/ pc' = "crashed" \/ (pc = "exit" /\ pc' \in {"done", "fail"})
    BY <1>5 DEF Exit, Crash, vars, attempt, science, links
  <2>2. DoubtInv'
    BY <2>1 DEF RefineInv, DoubtInv, Stopped, Accepted
  <2> QED
    BY <2>1, <2>2 DEF Seen, Verdict, Accepted
<1> QED
  BY <1>1, <1>2, <1>3, <1>4, <1>5 DEF Next, Step, Finish, Fail, Terminated

(* A managed attempt implements the lifecycle it promises, whatever raises   *)
(* and wherever it is killed: a public or rejected verdict is final, and one *)
(* whose write was in doubt is taken back before the context fails.          *)
THEOREM AttemptImplementsLifecycle == Spec => ImplementsLifecycle
<1>1. Init => RefineInv
  <2>1. Init => ~Accepted(disk)
    BY DEF Init, FreshManifest, Accepted
  <2> QED
    BY <2>1, InitType, InitSafety DEF RefineInv, DoubtInv
<1>2. RefineInv /\ [Next]_vars => RefineInv'
  BY StepType, StepSafety, StepRefines DEF RefineInv
<1>3. Init => Lifecycle!Init
  BY DEF Init, FreshManifest, Accepted, Lifecycle!Init
<1>4. RefineInv /\ [Next]_vars => [Lifecycle!Next]_(Lifecycle!vars)
  BY StepRefines DEF Seen, Lifecycle!vars, Verdict
<1> QED
  BY <1>1, <1>2, <1>3, <1>4, PTL DEF Spec, ImplementsLifecycle, Lifecycle!Spec
-----------------------------------------------------------------------------
(**************************************************************************)
(* The accounts of a managed attempt: what the manifest counts is in the   *)
(* event log, an accepted run has done and counted all its work, and a     *)
(* failed one partitions its plan.                                         *)
(**************************************************************************)

-----------------------------------------------------------------------------
(* The decisions of n rounds.                                                *)
Work(n) == n * Agents

LEMMA WorkGrows ==
    /\ Work(0) = 0
    /\ \A n \in Nat : Work(n) \in Nat /\ Work(n + 1) = Work(n) + Agents
    /\ \A n \in Nat : n >= 1 => Work(n) = Work(n - 1) + Agents
    /\ \A n \in Nat : n < Rounds => Work(n) + Agents <= Work(Rounds)
<1>1. Agents \in Nat /\ Rounds \in Nat
  BY ConstantsAssumption
<1>2. \A n \in Nat : Work(n) \in Nat /\ Work(n + 1) = Work(n) + Agents
  BY <1>1 DEF Work
<1>3. \A n \in Nat : n >= 1 => Work(n) = Work(n - 1) + Agents
  BY <1>1 DEF Work
<1>4. \A n \in Nat : n < Rounds => Work(n) + Agents <= Work(Rounds)
  <2> SUFFICES ASSUME NEW n \in Nat, n < Rounds PROVE Work(n) + Agents <= Work(Rounds)
    OBVIOUS
  <2>1. PICK d \in Nat : Rounds = n + 1 + d
    <3>1. Rounds - (n + 1) \in Nat /\ Rounds = n + 1 + (Rounds - (n + 1))
      BY <1>1
    <3> QED
      BY <3>1
  <2>2. d * Agents \in Nat /\ Rounds * Agents = n * Agents + Agents + d * Agents
    BY <1>1, <2>1
  <2>3. n * Agents \in Nat
    BY <1>1
  <2> QED
    BY <1>1, <2>2, <2>3 DEF Work
<1> QED
  BY <1>1, <1>2, <1>3, <1>4 DEF Work

-----------------------------------------------------------------------------
(* What the updates of a manifest do to its accounts                         *)

(* Two manifests with the same accounts.                                     *)
Kept(n, m) ==
    /\ n.counts = m.counts /\ n.requests = m.requests /\ n.derived = m.derived
    /\ n.runs = m.runs /\ n.simulated = m.simulated

LEMMA DerivedFacts ==
    ASSUME NEW m \in Manifest, NEW s
    PROVE  LET n == Derived(m, s)
               c == m.counts
           IN  /\ n.counts = m.counts /\ n.requests = m.requests /\ n.runs = m.runs
               /\ n.simulated = m.simulated /\ n.state = m.state /\ n.status = m.status
               /\ n.complete = m.complete
               /\ n.derived.roundsFailed =
                     IF s = "FAILED" /\ c["RoundStarted"] > c["RoundFinished"] THEN 1
                     ELSE m.derived.roundsFailed
               /\ n.derived.roundsSkipped =
                     Minus(Rounds, c["RoundFinished"] + n.derived.roundsFailed)
               /\ n.derived.decisionsFailed =
                     Minus(c["LLMRequestRecorded"], c["AgentDecisionParsed"])
               /\ n.derived.decisionsSkipped =
                     Minus(Rounds * Agents,
                           c["AgentDecisionParsed"] + n.derived.decisionsFailed)
  BY DEF Derived, Manifest

LEMMA CountingFacts ==
    ASSUME NEW m \in Manifest, NEW t \in Counted
    PROVE  LET n == Counting(m, t)
           IN  /\ n.counts = [m.counts EXCEPT ![t] = @ + 1]
               /\ n.requests.attempted = m.requests.attempted
                     + (IF t = "LLMRequestRecorded" THEN 1 ELSE 0)
               /\ n.requests.completed = m.requests.completed
                     + (IF t = "LLMResponseRecorded" THEN 1 ELSE 0)
               /\ n.runs = m.runs /\ n.simulated = m.simulated /\ n.state = m.state
               /\ n.status = m.status /\ n.complete = m.complete
               /\ n.derived.roundsFailed = m.derived.roundsFailed
<1> DEFINE c == [m EXCEPT !.counts[t] = @ + 1]
           a == [c EXCEPT !.requests.attempted = @ + 1]
           d == [c EXCEPT !.requests.completed = @ + 1]
           Like(x) == /\ x \in Manifest /\ x.counts = [m.counts EXCEPT ![t] = @ + 1]
                      /\ x.runs = m.runs /\ x.simulated = m.simulated /\ x.state = m.state
                      /\ x.status = m.status /\ x.complete = m.complete
                      /\ x.derived = m.derived
<1>1. Like(c) /\ c.requests = m.requests
  BY CountsUpdate DEF Manifest
<1>0. m.requests \in [attempted : Nat, completed : Nat]
  BY DEF Manifest
<1> HIDE DEF c
<1>2. /\ Like(a) /\ a.requests.attempted = m.requests.attempted + 1
      /\ a.requests.completed = m.requests.completed
  BY <1>0, <1>1, AttemptedUpdate DEF Manifest
<1>3. /\ Like(d) /\ d.requests.completed = m.requests.completed + 1
      /\ d.requests.attempted = m.requests.attempted
  BY <1>0, <1>1, CompletedUpdate DEF Manifest
<1> HIDE DEF a, d
<1>4. Counting(m, t) = Derived(IF t = "LLMRequestRecorded" THEN a
                               ELSE IF t = "LLMResponseRecorded" THEN d ELSE c,
                               "ACTIVE")
  BY DEF Counting, a, d, c
<1> DEFINE q == IF t = "LLMRequestRecorded" THEN a
                ELSE IF t = "LLMResponseRecorded" THEN d ELSE c
<1>5. /\ Like(q)
      /\ q.requests.attempted = m.requests.attempted
            + (IF t = "LLMRequestRecorded" THEN 1 ELSE 0)
      /\ q.requests.completed = m.requests.completed
            + (IF t = "LLMResponseRecorded" THEN 1 ELSE 0)
  BY <1>0, <1>1, <1>2, <1>3
<1> HIDE DEF q
<1> QED
  BY <1>4, <1>5, DerivedFacts DEF q

LEMMA SyncedFacts ==
    ASSUME NEW m \in Manifest, NEW s,
           recorder \in [requested : Nat, responded : Nat]
    PROVE  LET n == Synced(m, s)
               c == m.counts
           IN  /\ n.counts = m.counts /\ n.runs = m.runs
               /\ n.simulated = m.simulated /\ n.state = m.state /\ n.status = m.status
               /\ n.complete = m.complete
               /\ n.requests = [attempted |-> Larger(m.requests.attempted, recorder.requested),
                                completed |-> Larger(m.requests.completed, recorder.responded)]
               /\ n.derived.roundsFailed =
                     IF s = "FAILED" /\ c["RoundStarted"] > c["RoundFinished"] THEN 1
                     ELSE m.derived.roundsFailed
               /\ n.derived.roundsSkipped =
                     Minus(Rounds, c["RoundFinished"] + n.derived.roundsFailed)
               /\ n.derived.decisionsFailed =
                     Minus(c["LLMRequestRecorded"], c["AgentDecisionParsed"])
               /\ n.derived.decisionsSkipped =
                     Minus(Rounds * Agents,
                           c["AgentDecisionParsed"] + n.derived.decisionsFailed)
<1> DEFINE q == [attempted |-> Larger(m.requests.attempted, recorder.requested),
                 completed |-> Larger(m.requests.completed, recorder.responded)]
           p == [m EXCEPT !.requests = q]
<1>1. q \in [attempted : Nat, completed : Nat]
  BY DEF Manifest, Larger
<1> HIDE DEF q
<1>2. /\ p \in Manifest /\ p.requests = q /\ p.counts = m.counts /\ p.runs = m.runs
      /\ p.simulated = m.simulated /\ p.state = m.state /\ p.status = m.status
      /\ p.complete = m.complete /\ p.derived = m.derived
  BY <1>1, RequestsUpdate DEF Manifest
<1>3. Synced(m, s) = Derived(p, s)
  BY DEF Synced, q
<1> HIDE DEF p
<1> QED
  BY <1>2, <1>3, DerivedFacts DEF q

-----------------------------------------------------------------------------
(* The inductive invariant behind the accounting theorems                    *)

(* The conclusions of the three properties, of a manifest m, an event log l, *)
(* the recorder's responses r and x exported files.                          *)
Accounted(m, l) ==
    /\ \A t \in Counted : m.counts[t] = l[t]
    /\ l["RoundStarted"] = Rounds /\ l["RoundFinished"] = Rounds
    /\ l["LLMRequestRecorded"] = Work(Rounds) /\ l["LLMResponseRecorded"] = Work(Rounds)
    /\ l["AgentDecisionParsed"] = Work(Rounds)
    /\ m.requests = [attempted |-> Work(Rounds), completed |-> Work(Rounds)]
    /\ m.simulated /\ m.runs = [started |-> 1, completed |-> 1, failed |-> 0]
    /\ m.derived.roundsFailed = 0 /\ m.derived.roundsSkipped = 0
    /\ m.derived.decisionsFailed = 0 /\ m.derived.decisionsSkipped = 0

Partitioned(m, x) ==
    /\ m.counts["RoundFinished"] + m.derived.roundsFailed
          + m.derived.roundsSkipped = Rounds
    /\ m.counts["RoundStarted"] = m.counts["RoundFinished"] + m.derived.roundsFailed
    /\ m.counts["AgentDecisionParsed"] + m.derived.decisionsFailed
          + m.derived.decisionsSkipped = Work(Rounds)
    /\ m.runs.started = m.runs.completed + m.runs.failed
    /\ m.simulated <=> m.runs.completed = 1
    /\ x > 0 => m.simulated

(* What the manifest in memory and the one on disk both promise.             *)
Sound(m, l, r, x) ==
    /\ \A t \in Counted : m.counts[t] <= l[t]
    /\ m.requests.completed <= m.requests.attempted
    /\ m.requests.completed <= r
    /\ Accepted(m) => Accounted(m, l)
    /\ m.state = "FAILED" => Partitioned(m, x)

(* What the observer keeps true wherever the simulation stops: at most one   *)
(* round is open, nothing exceeds the plan, and no round is failed before    *)
(* the context, in state s, is.                                              *)
Sane(m, x, s) ==
    /\ m.counts["RoundFinished"] <= m.counts["RoundStarted"]
    /\ m.counts["RoundStarted"] <= m.counts["RoundFinished"] + 1
    /\ m.counts["RoundStarted"] <= Rounds
    /\ m.counts["AgentDecisionParsed"] <= m.counts["LLMRequestRecorded"]
    /\ m.counts["LLMRequestRecorded"] <= Work(Rounds)
    /\ m.simulated <=> m.runs.completed = 1
    /\ m.runs.completed = 1 => m.runs.started = 1 /\ m.runs.failed = 0
    /\ m.runs.started = 0 => m.runs.completed = 0 /\ m.runs.failed = 0
    /\ x > 0 => m.simulated
    /\ s # "FAILED" => m.derived.roundsFailed = 0 /\ m.state # "FAILED"

(* While nothing has failed the tallies are exact: which work is done is     *)
(* read off the round, the phase and the next agent.                         *)
Unstarted == Opening \union {"prepare", "simulate"}
Settled == {"export", "finish"} \union FinishSteps
Computed == {"settle"} \union Settled
OnTrack == Unstarted \union SimulationSteps \union {"simReturned"} \union Computed

Tally(started, finished, asked, answered, parsed) ==
    /\ mem.counts["RoundStarted"] = started
    /\ mem.counts["RoundFinished"] = finished
    /\ mem.counts["LLMRequestRecorded"] = asked
    /\ mem.counts["LLMResponseRecorded"] = answered
    /\ mem.counts["AgentDecisionParsed"] = parsed
    /\ mem.requests.attempted = asked /\ mem.requests.completed = answered
    /\ recorder.responded = answered

Track ==
    /\ pc \in OnTrack => \A t \in Counted : mem.counts[t] = logged[t]
    /\ pc \in Unstarted =>
          Tally(0, 0, 0, 0, 0) /\ recorder.requested = 0 /\ mem.runs.started = 0
    /\ pc \in SimulationSteps \union {"simReturned", "simRaised"} =>
          mem.runs.started = 1 /\ mem.runs.completed = 0 /\ mem.runs.failed = 0
    /\ pc = "roundStart" =>
          Tally(round, round, Work(round), Work(round), Work(round))
            /\ recorder.requested = Work(round)
    /\ pc \in {"ask", "call", "store", "decide", "roundEnd"} => round >= 1
    /\ pc \in {"ask", "call", "store", "decide"} => k < Agents
    /\ pc \in {"call", "store", "decide", "roundEnd"} =>
          recorder.requested = Work(round)
    /\ pc = "ask" =>
          /\ Tally(round, round - 1, Work(round - 1) + k, Work(round - 1), Work(round - 1))
          /\ recorder.requested = IF k = 0 THEN Work(round - 1) ELSE Work(round)
    /\ pc = "call" =>
          Tally(round, round - 1, Work(round), Work(round - 1), Work(round - 1)) /\ k = 0
    /\ pc = "store" =>
          Tally(round, round - 1, Work(round), Work(round - 1) + k, Work(round - 1))
    /\ pc = "decide" =>
          Tally(round, round - 1, Work(round), Work(round), Work(round - 1) + k)
    /\ pc = "roundEnd" =>
          Tally(round, round - 1, Work(round), Work(round), Work(round))
    /\ pc \in {"simReturned"} \union Computed =>
          Tally(Rounds, Rounds, Work(Rounds), Work(Rounds), Work(Rounds))
            /\ recorder.requested = Work(Rounds)
    /\ pc \in Computed => mem.simulated
    /\ pc \in Settled =>
          mem.derived.roundsSkipped = 0 /\ mem.derived.decisionsFailed = 0
            /\ mem.derived.decisionsSkipped = 0
    /\ recorder.responded <= recorder.requested

AccountInv ==
    /\ Sound(mem, logged, recorder.responded, exported)
    /\ Sound(disk, logged, recorder.responded, exported)
    /\ Sane(mem, exported, ctx)
    /\ disk.state = "FAILED" => ctx = "FAILED"
    /\ Track

-----------------------------------------------------------------------------
(* Steps that leave the accounts alone                                       *)

(* Two event logs with the same counted events.                              *)
Recounted(l, o) == \A t \in Counted : l[t] = o[t]

(* Such a step appends no counted event, accepts no manifest and fails none  *)
(* (finish's refresh, whose accounts are known, apart), and stays on track   *)
(* only inside one phase.                                                    *)
Steady ==
    /\ Kept(mem', mem)
    /\ UNCHANGED <<recorder, round, k, exported>>
    /\ Recounted(logged', logged)
    /\ ctx' = "FAILED" <=> ctx = "FAILED"
    /\ mem'.state = "FAILED" => mem.state = "FAILED"
    /\ Accepted(mem') => Accepted(mem) \/ pc = "refresh"
    /\ \/ disk' = disk \/ disk' = mem'
       \/ /\ Kept(disk', mem) /\ (disk'.state = "FAILED" => mem.state = "FAILED")
          /\ Accepted(disk') => Accepted(mem)
    /\ \/ pc' \notin OnTrack \union {"simRaised"}
       \/ pc \in Unstarted /\ pc' \in Unstarted
       \/ pc \in SimulationSteps /\ pc' = "simRaised"
       \/ pc = "call" /\ pc' = "store"
       \/ pc \in FinishSteps /\ pc' \in FinishSteps

(* A manifest with the same accounts is as sound as before.                  *)
LEMMA KeptSound ==
    ASSUME NEW m, NEW n, NEW l, NEW o, NEW r, NEW x,
           Sound(m, l, r, x), Kept(n, m), Recounted(o, l),
           n.state = "FAILED" => m.state = "FAILED",
           Accepted(n) => Accepted(m) \/ Accounted(m, l)
    PROVE  Sound(n, o, r, x)
  BY DEF Sound, Kept, Accounted, Partitioned, Recounted, Counted

(* With its own accounts it is sound on another log with the same counts.    *)
LEMMA RecountedSound ==
    ASSUME NEW m, NEW l, NEW o, NEW r, NEW x, Sound(m, l, r, x), Recounted(o, l)
    PROVE  Sound(m, o, r, x)
  BY DEF Sound, Accounted, Recounted, Counted

(* On the way to the accepting write all the work is done and counted.       *)
LEMMA CompleteAccounted ==
    ASSUME TypeInv, AccountInv, pc \in Settled, ctx # "FAILED"
    PROVE  Accounted(mem, logged)
<1> USE DEF Settled, FinishSteps
<1>1. /\ mem \in Manifest /\ Sane(mem, exported, ctx) /\ Track
      /\ \A t \in Counted : mem.counts[t] = logged[t]
  BY DEF TypeInv, TypeOK, AccountInv, Track, OnTrack, Computed
<1>2. /\ Tally(Rounds, Rounds, Work(Rounds), Work(Rounds), Work(Rounds))
      /\ mem.simulated /\ mem.derived.roundsSkipped = 0
      /\ mem.derived.decisionsFailed = 0 /\ mem.derived.decisionsSkipped = 0
  BY <1>1 DEF Track, Computed
<1>3. mem.requests = [attempted |-> Work(Rounds), completed |-> Work(Rounds)]
  BY <1>1, <1>2 DEF Manifest, Tally
<1>4. mem.runs = [started |-> 1, completed |-> 1, failed |-> 0]
  BY <1>1, <1>2 DEF Manifest, Sane
<1>5. mem.derived.roundsFailed = 0
  BY <1>1 DEF Sane
<1> QED
  BY <1>1, <1>2, <1>3, <1>4, <1>5 DEF Accounted, Tally, Counted

LEMMA SteadyAccounts ==
    TypeInv /\ SafetyInv /\ AccountInv /\ Steady => AccountInv'
<1> SUFFICES ASSUME TypeInv, SafetyInv, AccountInv, Steady PROVE AccountInv'
  OBVIOUS
<1>1. /\ Sound(mem, logged, recorder.responded, exported)
      /\ Sound(disk, logged, recorder.responded, exported)
      /\ Sane(mem, exported, ctx) /\ Track
      /\ recorder' = recorder /\ exported' = exported /\ Recounted(logged', logged)
      /\ Kept(mem', mem)
  BY DEF AccountInv, Steady
<1>2. pc = "refresh" => Accounted(mem, logged)
  BY CompleteAccounted DEF Settled, FinishSteps, SafetyInv, ControlInv
<1>3. Sound(mem', logged', recorder'.responded, exported')
  BY <1>1, <1>2, KeptSound DEF Steady
<1>4. Sound(disk', logged', recorder'.responded, exported')
  <2>1. CASE disk' = disk
    BY <1>1, <2>1, RecountedSound
  <2>2. CASE disk' = mem'
    BY <1>3, <2>2
  <2>3. CASE /\ Kept(disk', mem) /\ (disk'.state = "FAILED" => mem.state = "FAILED")
             /\ Accepted(disk') => Accepted(mem)
    BY <1>1, <2>3, KeptSound
  <2> QED
    BY <2>1, <2>2, <2>3 DEF Steady
<1>5. Sane(mem', exported', ctx')
  BY <1>1 DEF Sane, Kept, Steady
<1>6. Track'
  <2> USE DEF OnTrack, Unstarted, Computed, Settled, Opening, SimulationSteps, FinishSteps
  <2>1. /\ recorder' = recorder /\ round' = round /\ k' = k /\ Track
        /\ mem'.counts = mem.counts /\ mem'.requests = mem.requests
        /\ mem'.derived = mem.derived /\ mem'.runs = mem.runs
        /\ mem'.simulated = mem.simulated
        /\ \A t \in Counted : logged'[t] = logged[t]
    BY <1>1 DEF Steady, Kept, Recounted
  <2>2. CASE pc' \notin OnTrack \union {"simRaised"}
    BY <2>1, <2>2 DEF Track
  <2>3. CASE pc \in Unstarted /\ pc' \in Unstarted
    BY <2>1, <2>3 DEF Track, Tally
  <2>4. CASE pc \in SimulationSteps /\ pc' = "simRaised"
    BY <2>1, <2>4 DEF Track
  <2>5. CASE pc = "call" /\ pc' = "store"
    BY <2>1, <2>5, WorkGrows DEF Track, Tally, TypeInv, TypeOK
  <2>6. CASE pc \in FinishSteps /\ pc' \in FinishSteps
    BY <2>1, <2>6 DEF Track, Tally
  <2> QED
    BY <2>2, <2>3, <2>4, <2>5, <2>6 DEF Steady
<1>7. disk'.state = "FAILED" => ctx' = "FAILED"
  BY <1>1 DEF AccountInv, Steady, Sane
<1> QED
  BY <1>3, <1>4, <1>5, <1>6, <1>7 DEF AccountInv

(* The updates that are not about accounts keep them.                        *)
LEMMA RetractKeeps ==
    ASSUME NEW m \in Manifest
    PROVE  Kept(Retract(m), m) /\ Retract(m).state = "ACTIVE" /\ ~Accepted(Retract(m))
  BY DEF Retract, Kept, Accepted, Manifest

LEMMA VerdictKeeps ==
    ASSUME NEW m \in Manifest, NEW b \in BOOLEAN,
           NEW s \in {"NEW", "ACTIVE", "FINISHED", "FAILED"}
    PROVE  /\ Kept([m EXCEPT !.complete = b, !.state = s], m)
           /\ [m EXCEPT !.complete = b, !.state = s].state = s
           /\ [m EXCEPT !.complete = b, !.state = s].status = m.status
  BY DEF Kept, Manifest

LEMMA StateKeeps ==
    ASSUME NEW m \in Manifest, NEW s
    PROVE  /\ Kept([m EXCEPT !.state = s], m) /\ [m EXCEPT !.state = s].state = s
           /\ Accepted([m EXCEPT !.state = s]) <=> Accepted(m)
  BY DEF Kept, Accepted, Manifest

LEMMA StatusKeeps ==
    ASSUME NEW m \in Manifest, NEW s
    PROVE  /\ Kept([m EXCEPT !.status = s], m)
           /\ [m EXCEPT !.status = s].state = m.state
           /\ [m EXCEPT !.status = s].status = s
  BY DEF Kept, Manifest

LEMMA ResultsKeeps ==
    ASSUME NEW m \in Manifest, NEW r
    PROVE  /\ Kept([m EXCEPT !.results = r], m)
           /\ [m EXCEPT !.results = r].state = m.state
           /\ Accepted([m EXCEPT !.results = r]) <=> Accepted(m)
  BY DEF Kept, Accepted, Manifest

LEMMA DigestKeeps ==
    ASSUME NEW m \in Manifest, NEW e
    PROVE  /\ Kept([m EXCEPT !.results.events = e], m)
           /\ [m EXCEPT !.results.events = e].state = m.state
           /\ Accepted([m EXCEPT !.results.events = e]) <=> Accepted(m)
  BY ResultsKeeps

LEMMA OpenSteady ==
    TypeInv /\ SafetyInv /\ (Open \/ CallProvider \/ BodyRaises) => Steady
<1> SUFFICES ASSUME TypeInv, SafetyInv, Open \/ CallProvider \/ BodyRaises
             PROVE  Steady
  OBVIOUS
<1> USE DEF Steady, Kept, Recounted, Counted, OnTrack, Unstarted, Computed, Settled, Opening,
            BodySteps, SimulationSteps, FinishSteps
<1>a. /\ mem \in Manifest /\ logged \in [EventTypes -> Nat]
      /\ pc \in Opening => ctx = "NEW"
  BY DEF TypeInv, TypeOK, SafetyInv, ControlInv
<1>1. CASE EmitRunStarted
  BY <1>1, <1>a DEF EmitRunStarted, Append, Logged, Left, Raise, EventTypes, attempt,
      science, links
<1>2. CASE WarnRunStarted
  BY <1>2, <1>a DEF WarnRunStarted, Write, Left, Raise, attempt, science, links
<1>3. CASE Activate
  <2> DEFINE n == [mem EXCEPT !.state = "ACTIVE"]
  <2>1. Kept(n, mem) /\ n.state = "ACTIVE" /\ (Accepted(n) <=> Accepted(mem))
    BY <1>a, StateKeeps
  <2>2. pc = "activate" /\ ctx' = "ACTIVE" /\ Write(n, "prepare", "done")
        /\ UNCHANGED <<logged, science>>
    BY <1>3 DEF Activate
  <2> HIDE DEF n
  <2> QED
    BY <1>a, <2>1, <2>2 DEF Write, Left, Raise, science
<1>4. CASE PrepareLLM
  BY <1>4, <1>a DEF PrepareLLM, Write, Left, Raise, attempt, science, links
<1>5. CASE CallProvider
  BY <1>5, <1>a DEF CallProvider, attempt, science, links
<1>6. CASE BodyRaises
  BY <1>6, <1>a DEF BodyRaises, attempt, science, links
<1> QED
  BY <1>1, <1>2, <1>3, <1>4, <1>5, <1>6 DEF Open

LEMMA FinishSteady ==
    TypeInv /\ SafetyInv
      /\ (FinishSamples \/ FinishCollect \/ FinishAnnounce \/ FinishRefresh \/ FinishCommit)
      => Steady
<1> SUFFICES ASSUME TypeInv, SafetyInv,
                    FinishSamples \/ FinishCollect \/ FinishAnnounce \/ FinishRefresh
                      \/ FinishCommit
             PROVE  Steady
  OBVIOUS
<1> USE DEF OnTrack, Unstarted, Computed, Settled, Opening, SimulationSteps, FinishSteps
<1>a. /\ mem \in Manifest /\ logged \in [EventTypes -> Nat]
      /\ pc \in FinishSteps => ctx = "ACTIVE"
      /\ pc = "samples" => mem.status = "running"
  BY DEF TypeInv, TypeOK, SafetyInv, ControlInv, MemoryInv, Working
<1>b. Kept(mem, mem)
  BY DEF Kept
<1>1. CASE FinishSamples
  <2> DEFINE n == [mem EXCEPT !.complete = TRUE, !.state = "FINISHED"]
  <2>1. /\ n \in Manifest /\ Kept(n, mem) /\ n.state = "FINISHED"
        /\ n.status = mem.status
    BY <1>a, VerdictKeeps, VerdictUpdate
  <2>2. pc = "samples" /\ TryWrite(n, "collect")
        /\ UNCHANGED <<ctx, terminal, logged, science, links>>
    BY <1>1 DEF FinishSamples
  <2> HIDE DEF n
  <2>3. Kept(Retract(n), n) /\ Retract(n).state = "ACTIVE" /\ ~Accepted(Retract(n))
    BY <2>1, RetractKeeps
  <2>4. ~Accepted(n)
    BY <1>a, <2>1, <2>2 DEF Accepted
  <2> QED
    BY <1>a, <2>1, <2>2, <2>3, <2>4 DEF Steady, Kept, Recounted, TryWrite, Left, Raise,
        science
<1>2. CASE FinishCollect
  <2> DEFINE n == [mem EXCEPT !.results = [files |-> exported, events |-> logged]]
  <2>0. [files |-> exported, events |-> logged] \in [files : Nat, events : [EventTypes -> Nat]]
    BY DEF TypeInv, TypeOK
  <2>1. /\ n \in Manifest /\ Kept(n, mem) /\ n.state = mem.state
        /\ (Accepted(n) <=> Accepted(mem))
    BY <1>a, <2>0, ResultsKeeps, ResultsUpdate
  <2>2. pc = "collect" /\ TryWrite(n, "announce")
        /\ UNCHANGED <<ctx, terminal, logged, science, links>>
    BY <1>2 DEF FinishCollect
  <2> HIDE DEF n
  <2>3. Kept(Retract(n), n) /\ Retract(n).state = "ACTIVE" /\ ~Accepted(Retract(n))
    BY <2>1, RetractKeeps
  <2> QED
    BY <1>a, <2>1, <2>2, <2>3 DEF Steady, Kept, Recounted, TryWrite, Left, Raise, science
<1>3. CASE FinishAnnounce
  <2>1. Kept(Retract(mem), mem) /\ Retract(mem).state = "ACTIVE" /\ ~Accepted(Retract(mem))
    BY <1>a, RetractKeeps
  <2>2. Recounted(logged', logged)
    BY <1>3, <1>a DEF FinishAnnounce, Recounted, Logged, Left, EventTypes, Counted
  <2> QED
    BY <1>3, <1>a, <1>b, <2>1, <2>2 DEF FinishAnnounce, Steady, Raise, science
<1>4. CASE FinishRefresh
  <2> DEFINE m == [mem EXCEPT !.status = "finished"]
             r == [m EXCEPT !.results.events = logged]
  <2>1. m \in Manifest /\ Kept(m, mem) /\ m.state = mem.state
    BY <1>a, StatusUpdate, StatusKeeps
  <2>2. /\ pc = "refresh"
        /\ \/ mem' = r /\ pc' = "commit"
           \/ mem' = Retract(m) /\ pc' = "fail"
        /\ UNCHANGED <<ctx, disk, logged, science>>
    BY <1>4 DEF FinishRefresh
  <2>3. Kept(r, m) /\ r.state = m.state
    BY <2>1, DigestKeeps
  <2> HIDE DEF m
  <2> HIDE DEF r
  <2>4. Kept(Retract(m), m) /\ Retract(m).state = "ACTIVE" /\ ~Accepted(Retract(m))
    BY <2>1, RetractKeeps
  <2> QED
    BY <1>a, <2>1, <2>2, <2>3, <2>4 DEF Steady, Kept, Recounted, science
<1>5. CASE FinishCommit
  <2>1. Kept(Retract(mem), mem) /\ Retract(mem).state = "ACTIVE" /\ ~Accepted(Retract(mem))
    BY <1>a, RetractKeeps
  <2> QED
    BY <1>5, <1>a, <1>b, <2>1 DEF FinishCommit, Steady, Recounted, TryWrite, Left, Raise,
        science
<1> QED
  BY <1>1, <1>2, <1>3, <1>4, <1>5

LEMMA FailSteady ==
    TypeInv /\ SafetyInv
      /\ (Publish \/ Exit \/ FailAnnounce \/ FailCollect \/ FailRefresh \/ FailCommit \/ Crash)
      => Steady
<1> SUFFICES ASSUME TypeInv, SafetyInv,
                    Publish \/ Exit \/ FailAnnounce \/ FailCollect \/ FailRefresh
                      \/ FailCommit \/ Crash
             PROVE  Steady
  OBVIOUS
<1> USE DEF OnTrack, Unstarted, Computed, Settled, Opening, SimulationSteps, FinishSteps, PublishSteps
<1>a. /\ mem \in Manifest /\ logged \in [EventTypes -> Nat]
      /\ Kept(mem, mem) /\ Recounted(logged, logged)
  BY DEF TypeInv, TypeOK, Kept, Recounted
<1>1. CASE PublishLatest
  BY <1>1, <1>a DEF PublishLatest, Symlink, Steady, Raise, attempt, science
<1>2. CASE PublishFlat
  BY <1>2, <1>a DEF PublishFlat, Symlink, Steady, Raise, attempt, science
<1>3. CASE PublishWrite
  BY <1>3, <1>a DEF PublishWrite, Write, Left, Steady, Raise, attempt, science
<1>4. CASE PublishWarn
  BY <1>4, <1>a DEF PublishWarn, Write, Left, Steady, Raise, attempt, science
<1>5. CASE Exit
  BY <1>5, <1>a DEF Exit, Steady, science
<1>6. CASE FailAnnounce
  <2>1. Recounted(logged', logged)
    BY <1>6, <1>a DEF FailAnnounce, Append, Recounted, Logged, Left, EventTypes, Counted
  <2> QED
    BY <1>6, <1>a, <2>1 DEF FailAnnounce, Append, FailCaller, Steady, Raise, attempt,
        science
<1>7. CASE FailCollect
  <2> DEFINE m == [mem EXCEPT !.status = "failed"]
             n == [m EXCEPT !.results = [files |-> exported, events |-> logged]]
  <2>1. m \in Manifest /\ Kept(m, mem) /\ m.state = mem.state /\ ~Accepted(m)
    BY <1>a, StatusUpdate, StatusKeeps DEF Accepted
  <2>2. /\ pc = "failCollect"
        /\ \/ Write(n, "failRefresh", "failRefresh")
           \/ mem' = m /\ pc' = "failRefresh" /\ UNCHANGED disk
        /\ UNCHANGED <<attempt, logged, science, links>>
    BY <1>7 DEF FailCollect
  <2>3. Kept(n, m) /\ n.state = m.state /\ ~Accepted(n)
    BY <2>1, ResultsKeeps
  <2> HIDE DEF m
  <2> HIDE DEF n
  <2> QED
    BY <1>a, <2>1, <2>2, <2>3 DEF Write, Left, Steady, Kept, Raise, attempt, science
<1>8. CASE FailRefresh
  <2> DEFINE n == [mem EXCEPT !.results.events = logged]
  <2>1. Kept(n, mem) /\ n.state = mem.state /\ (Accepted(n) <=> Accepted(mem))
    BY <1>a, DigestKeeps
  <2>2. /\ \/ mem' = n /\ pc' = "failCommit"
           \/ mem' = mem /\ pc' = FailCaller
        /\ UNCHANGED <<frame, ctx, disk, logged, science, links>>
    BY <1>8 DEF FailRefresh
  <2> HIDE DEF n
  <2> QED
    BY <1>a, <2>1, <2>2 DEF FailCaller, Steady, science
<1>9. CASE FailCommit
  BY <1>9, <1>a DEF FailCommit, FailCaller, Write, Left, Steady, Raise, attempt, science
<1>10. CASE Crash
  BY <1>10, <1>a DEF Crash, Steady, attempt, science
<1> QED
  BY <1>1, <1>2, <1>3, <1>4, <1>5, <1>6, <1>7, <1>8, <1>9, <1>10 DEF Publish

-----------------------------------------------------------------------------
(* Steps of the simulation: one counted event each                           *)

One(b) == IF b THEN 1 ELSE 0
Ticked(new, old, t) == \A u \in Counted : new[u] = old[u] + One(u = t)

(* What there must be room for before an event of type t is counted.         *)
Room(t) ==
    /\ t = "RoundStarted" => mem.counts["RoundStarted"] = mem.counts["RoundFinished"]
                                /\ mem.counts["RoundStarted"] < Rounds
    /\ t = "RoundFinished" => mem.counts["RoundFinished"] < mem.counts["RoundStarted"]
    /\ t = "LLMRequestRecorded" => mem.counts[t] < Work(Rounds)
    /\ t = "AgentDecisionParsed" => mem.counts[t] < mem.counts["LLMRequestRecorded"]
    /\ t = "LLMResponseRecorded" =>
          /\ mem.requests.completed < mem.requests.attempted
          /\ mem.requests.completed < recorder'.responded

(* The event was counted and the log holds it.                               *)
Observed(t) ==
    /\ Ticked(mem'.counts, mem.counts, t) /\ Ticked(logged', logged, t)
    /\ mem'.requests.attempted = mem.requests.attempted + One(t = "LLMRequestRecorded")
    /\ mem'.requests.completed = mem.requests.completed + One(t = "LLMResponseRecorded")

LEMMA ObserveFacts ==
    ASSUME TypeInv, NEW t \in Counted, NEW ok, ok # "simRaised", Observe(t, ok)
    PROVE  /\ \/ /\ mem' = mem /\ pc' = "simRaised"
                 /\ Recounted(logged', logged) \/ Ticked(logged', logged, t)
              \/ Observed(t) /\ pc' \in {ok, "simRaised"}
           /\ disk' \in {disk, mem'}
           /\ mem'.runs = mem.runs /\ mem'.simulated = mem.simulated
           /\ mem'.state = mem.state /\ mem'.status = mem.status
           /\ mem'.derived.roundsFailed = mem.derived.roundsFailed
<1>a. mem \in Manifest /\ logged \in [EventTypes -> Nat] /\ mem.counts \in [Counted -> Nat]
  BY DEF TypeInv, TypeOK, Manifest
<1> DEFINE n == Counting(mem, t)
<1>1. /\ n.counts = [mem.counts EXCEPT ![t] = @ + 1]
      /\ n.requests.attempted = mem.requests.attempted + One(t = "LLMRequestRecorded")
      /\ n.requests.completed = mem.requests.completed + One(t = "LLMResponseRecorded")
      /\ n.runs = mem.runs /\ n.simulated = mem.simulated /\ n.state = mem.state
      /\ n.status = mem.status
      /\ n.derived.roundsFailed = mem.derived.roundsFailed
  BY <1>a, CountingFacts DEF One
<1>2. Ticked(n.counts, mem.counts, t)
  BY <1>a, <1>1 DEF Ticked, One, Counted
<1>3. Ticked(Logged(t), logged, t)
  BY <1>a DEF Ticked, One, Logged, Counted, EventTypes
<1>4. \/ logged' = Logged(t) /\ mem' = n /\ disk' \in {disk, n} /\ pc' \in {ok, "simRaised"}
      \/ logged' \in {logged, Logged(t)} /\ mem' = mem /\ disk' = disk /\ pc' = "simRaised"
  BY DEF Observe, Write, Raise, Left
<1> HIDE DEF n
<1>5. CASE logged' = Logged(t) /\ mem' = n /\ disk' \in {disk, n} /\ pc' \in {ok, "simRaised"}
  BY <1>1, <1>2, <1>3, <1>5 DEF Observed
<1>6. CASE logged' \in {logged, Logged(t)} /\ mem' = mem /\ disk' = disk /\ pc' = "simRaised"
  BY <1>3, <1>6 DEF Recounted
<1> QED
  BY <1>4, <1>5, <1>6

(* Counting an event for which there is room keeps every promise, wherever   *)
(* the observer raises.                                                      *)
LEMMA ObserveSound ==
    ASSUME TypeInv, SafetyInv, AccountInv, TypeInv', pc \in SimulationSteps,
           NEW t \in Counted, NEW ok, ok # "simRaised", Observe(t, ok), Room(t),
           ctx' = ctx, exported' = exported, recorder.responded <= recorder'.responded
    PROVE  /\ Sound(mem', logged', recorder'.responded, exported')
           /\ Sound(disk', logged', recorder'.responded, exported')
           /\ Sane(mem', exported', ctx')
<1>a. /\ \A u \in Counted : mem.counts[u] \in Nat /\ disk.counts[u] \in Nat /\ logged[u] \in Nat
      /\ mem.requests.attempted \in Nat /\ mem.requests.completed \in Nat
      /\ disk.requests.attempted \in Nat /\ disk.requests.completed \in Nat
      /\ recorder.responded \in Nat /\ recorder'.responded \in Nat
  BY DEF TypeInv, TypeOK, Manifest, Counted, EventTypes
<1>b. /\ ctx # "FAILED" /\ mem.status = "running" /\ ~Accepted(disk)
  BY DEF SafetyInv, ControlInv, MemoryInv, DiskInv, TerminalInv, Working, BodySteps,
         SimulationSteps, PublishSteps, Stopped
<1>c. /\ \A u \in Counted : mem.counts[u] <= logged[u] /\ disk.counts[u] <= logged[u]
      /\ mem.requests.completed <= mem.requests.attempted
      /\ mem.requests.completed <= recorder.responded
      /\ disk.requests.completed <= disk.requests.attempted
      /\ disk.requests.completed <= recorder.responded
      /\ disk.state = "FAILED" => Partitioned(disk, exported)
      /\ Sane(mem, exported, ctx)
  BY DEF AccountInv, Sound
<1>1. /\ \/ /\ mem' = mem
            /\ Recounted(logged', logged) \/ Ticked(logged', logged, t)
         \/ Observed(t)
      /\ disk' \in {disk, mem'}
      /\ mem'.runs = mem.runs /\ mem'.simulated = mem.simulated
      /\ mem'.state = mem.state /\ mem'.status = mem.status
      /\ mem'.derived.roundsFailed = mem.derived.roundsFailed
  BY ObserveFacts
<1>2. \A u \in Counted : mem'.counts[u] <= logged'[u] /\ logged[u] <= logged'[u]
  BY <1>a, <1>c, <1>1 DEF Observed, Ticked, Recounted, One
<1>3. mem'.requests.completed <= mem'.requests.attempted
      /\ mem'.requests.completed <= recorder'.responded
  BY <1>a, <1>c, <1>1 DEF Observed, Room, One
<1>4. Sound(mem', logged', recorder'.responded, exported')
  BY <1>b, <1>c, <1>1, <1>2, <1>3 DEF Sound, Sane, Accepted
<1>5. Sound(disk', logged', recorder'.responded, exported')
  <2>1. CASE disk' = mem'
    BY <1>4, <2>1
  <2>2. CASE disk' = disk
    <3>1. \A u \in Counted : disk.counts[u] <= logged'[u]
      <4>1. TAKE u \in Counted
      <4>2. logged'[u] \in Nat
        BY DEF TypeInv, TypeOK, Counted, EventTypes
      <4> QED
        BY <1>a, <1>c, <1>2, <4>2
    <3> QED
      BY <1>a, <1>b, <1>c, <2>2, <3>1 DEF Sound
  <2> QED
    BY <1>1, <2>1, <2>2
<1>6. Sane(mem', exported', ctx')
  <2>1. CASE mem' = mem
    BY <1>c, <2>1 DEF Sane
  <2>2. CASE Observed(t)
    <3>1. /\ mem'.counts["RoundStarted"] = mem.counts["RoundStarted"] + One("RoundStarted" = t)
          /\ mem'.counts["RoundFinished"] = mem.counts["RoundFinished"] + One("RoundFinished" = t)
          /\ mem'.counts["LLMRequestRecorded"]
                = mem.counts["LLMRequestRecorded"] + One("LLMRequestRecorded" = t)
          /\ mem'.counts["AgentDecisionParsed"]
                = mem.counts["AgentDecisionParsed"] + One("AgentDecisionParsed" = t)
      BY <2>2 DEF Observed, Ticked, Counted
    <3>2. /\ mem.counts["RoundStarted"] \in Nat /\ mem.counts["RoundFinished"] \in Nat
          /\ mem.counts["LLMRequestRecorded"] \in Nat /\ mem.counts["AgentDecisionParsed"] \in Nat
          /\ Work(Rounds) \in Nat /\ Rounds \in Nat
      BY <1>a, WorkGrows, ConstantsAssumption DEF Counted
    <3> QED
      BY <1>c, <1>1, <3>1, <3>2 DEF Sane, Room, One
  <2> QED
    BY <1>1, <2>1, <2>2
<1> QED
  BY <1>4, <1>5, <1>6

(* The five observed actions have a common shape: the event of the step, the *)
(* room for it, and the track where the observer did not raise.              *)
Follows(t, ok) ==
    /\ pc \in SimulationSteps /\ ok # "simRaised" /\ Observe(t, ok) /\ Room(t)
    /\ ctx' = ctx /\ exported' = exported
    /\ recorder.responded <= recorder'.responded
    /\ recorder'.responded <= recorder'.requested

LEMMA ObserveAccounts ==
    ASSUME TypeInv, SafetyInv, AccountInv, TypeInv', NEW t \in Counted, NEW ok,
           Follows(t, ok), Observed(t) /\ pc' = ok => Track'
    PROVE  AccountInv'
<1>1. /\ Sound(mem', logged', recorder'.responded, exported')
      /\ Sound(disk', logged', recorder'.responded, exported')
      /\ Sane(mem', exported', ctx')
  BY ObserveSound DEF Follows
<1>2. /\ \/ Observed(t) /\ pc' = ok
         \/ pc' = "simRaised"
      /\ mem'.runs = mem.runs
  BY ObserveFacts DEF Follows
<1>3. mem.runs.started = 1 /\ mem.runs.completed = 0 /\ mem.runs.failed = 0
  BY DEF AccountInv, Track, Follows
<1>4. pc' = "simRaised" => Track'
  BY <1>2, <1>3 DEF Track, Follows, OnTrack, Unstarted, Opening, SimulationSteps,
      Computed, Settled,
     FinishSteps
<1>5. disk'.state = "FAILED" => ctx' = "FAILED"
  BY <1>1, ObserveFacts DEF AccountInv, Follows, Sane
<1> QED
  BY <1>1, <1>2, <1>4, <1>5 DEF AccountInv

(* The tallies on the track, of typed values.                                *)
LEMMA TrackTypes ==
    ASSUME TypeInv
    PROVE  /\ \A u \in Counted : mem.counts[u] \in Nat /\ logged[u] \in Nat
           /\ mem.requests.attempted \in Nat /\ mem.requests.completed \in Nat
           /\ recorder.responded \in Nat /\ recorder.requested \in Nat
           /\ recorder = [requested |-> recorder.requested, responded |-> recorder.responded]
           /\ round \in 0..Rounds /\ k \in 0..Agents /\ Rounds \in Nat /\ Agents \in Nat
           /\ Work(round) \in Nat /\ round < Rounds => Work(round) + Agents <= Work(Rounds)
           /\ Work(round + 1) = Work(round) + Agents
           /\ round >= 1 => Work(round - 1) \in Nat /\ Work(round) = Work(round - 1) + Agents
           /\ Work(Rounds) \in Nat /\ Work(round) <= Work(Rounds)
<1>1. /\ \A u \in Counted : mem.counts[u] \in Nat /\ logged[u] \in Nat
      /\ mem.requests.attempted \in Nat /\ mem.requests.completed \in Nat
      /\ recorder.responded \in Nat /\ recorder.requested \in Nat
      /\ recorder = [requested |-> recorder.requested, responded |-> recorder.responded]
      /\ round \in 0..Rounds /\ k \in 0..Agents /\ Rounds \in Nat /\ Agents \in Nat
  BY ConstantsAssumption DEF TypeInv, TypeOK, Manifest, Counted, EventTypes
<1>2. /\ Work(round) \in Nat /\ Work(Rounds) \in Nat
      /\ round < Rounds => Work(round) + Agents <= Work(Rounds)
      /\ Work(round + 1) = Work(round) + Agents
  BY <1>1, WorkGrows
<1>3. round >= 1 => Work(round - 1) \in Nat /\ Work(round) = Work(round - 1) + Agents
  <2> SUFFICES ASSUME round >= 1
               PROVE  Work(round - 1) \in Nat /\ Work(round) = Work(round - 1) + Agents
    OBVIOUS
  <2>1. round - 1 \in Nat /\ round \in Nat
    BY <1>1
  <2> QED
    BY <2>1, WorkGrows
<1>4. Work(round) <= Work(Rounds)
  BY <1>1, <1>2
<1> QED
  BY <1>1, <1>2, <1>3, <1>4

LEMMA StartRoundAccounts ==
    TypeInv /\ SafetyInv /\ AccountInv /\ TypeInv' /\ StartRound => AccountInv'
<1> SUFFICES ASSUME TypeInv, SafetyInv, AccountInv, TypeInv', StartRound
             PROVE  AccountInv'
  OBVIOUS
<1> DEFINE ok == IF Agents = 0 THEN "roundEnd" ELSE "ask"
<1>1. /\ pc = "roundStart" /\ round' = round + 1 /\ k' = 0
      /\ Observe("RoundStarted", ok) /\ ctx' = ctx /\ exported' = exported
      /\ recorder' = recorder
  BY DEF StartRound, attempt
<1>2. /\ Tally(round, round, Work(round), Work(round), Work(round))
      /\ recorder.requested = Work(round) /\ recorder.responded <= recorder.requested
      /\ \A u \in Counted : mem.counts[u] = logged[u]
      /\ mem.runs.started = 1 /\ mem.runs.completed = 0 /\ mem.runs.failed = 0
      /\ round < Rounds
  BY <1>1 DEF AccountInv, Track, OnTrack, SimulationSteps, TypeInv, RoundBound
<1>3. Room("RoundStarted")
  BY <1>2 DEF Room, Tally
<1>4. Follows("RoundStarted", ok)
  BY <1>1, <1>2, <1>3, TrackTypes DEF Follows, SimulationSteps
<1>5. mem'.runs = mem.runs
  BY <1>4, ObserveFacts DEF Follows, Counted
<1>6. ASSUME Observed("RoundStarted"), pc' = ok PROVE Track'
  <2>1. \A u \in Counted : mem'.counts[u] = logged'[u]
    BY <1>2, <1>6 DEF Observed, Ticked
  <2>2. /\ round' - 1 = round /\ Work(round' - 1) = Work(round)
        /\ round' \in Nat /\ round' >= 1 /\ Work(round') = Work(round) + Agents
    BY <1>1, TrackTypes
  <2>3. Tally(round, round - 1, Work(round - 1), Work(round - 1), Work(round - 1))'
    BY <1>1, <1>2, <1>6, <2>2, TrackTypes DEF Observed, Ticked, One, Tally, Counted
  <2> QED
    BY <1>1, <1>2, <1>5, <1>6, <2>1, <2>2, <2>3, TrackTypes
    DEF Track, OnTrack, Unstarted, Opening, SimulationSteps, Computed, Settled,
        FinishSteps, Tally
<1> HIDE DEF ok
<1> QED
  BY <1>4, <1>6, ObserveAccounts DEF Counted

LEMMA NextAgentFacts ==
    ASSUME TypeInv, k < Agents
    PROVE  \/ NextAgent = 0 /\ k + 1 = Agents
           \/ NextAgent = k + 1 /\ k + 1 < Agents /\ NextAgent # 0
  BY ConstantsAssumption DEF NextAgent, TypeInv, TypeOK

LEMMA AskAgentsAccounts ==
    TypeInv /\ SafetyInv /\ AccountInv /\ TypeInv' /\ AskAgents => AccountInv'
<1> SUFFICES ASSUME TypeInv, SafetyInv, AccountInv, TypeInv', AskAgents
             PROVE  AccountInv'
  OBVIOUS
<1> DEFINE ok == IF NextAgent = 0 THEN "call" ELSE "ask"
<1>1. /\ pc = "ask" /\ round' = round /\ k' = NextAgent
      /\ Observe("LLMRequestRecorded", ok) /\ ctx' = ctx /\ exported' = exported
  BY DEF AskAgents, attempt
<1>2. /\ Tally(round, round - 1, Work(round - 1) + k, Work(round - 1), Work(round - 1))
      /\ recorder.requested = IF k = 0 THEN Work(round - 1) ELSE Work(round)
      /\ round >= 1 /\ k < Agents /\ recorder.responded <= recorder.requested
      /\ \A u \in Counted : mem.counts[u] = logged[u]
      /\ mem.runs.started = 1 /\ mem.runs.completed = 0 /\ mem.runs.failed = 0
  BY <1>1 DEF AccountInv, Track, OnTrack, SimulationSteps
<1>3. /\ recorder'.requested = Work(round)
      /\ recorder'.responded = Work(round - 1)
  BY <1>1, <1>2, TrackTypes DEF AskAgents, Tally
<1>4. Room("LLMRequestRecorded")
  BY <1>2, <1>3, TrackTypes DEF Room, Tally
<1>5. Follows("LLMRequestRecorded", ok)
  BY <1>1, <1>2, <1>3, <1>4, TrackTypes DEF Follows, SimulationSteps, Tally
<1>6. mem'.runs = mem.runs
  BY <1>5, ObserveFacts DEF Follows, Counted
<1>7. ASSUME Observed("LLMRequestRecorded"), pc' = ok PROVE Track'
  <2>1. \A u \in Counted : mem'.counts[u] = logged'[u]
    BY <1>2, <1>7 DEF Observed, Ticked
  <2>2. Work(round') = Work(round) /\ Work(round' - 1) = Work(round - 1) /\ round' \in Nat
    BY <1>1, TrackTypes
  <2>3. CASE NextAgent = 0
    <3>1. pc' = "call" /\ k' = 0 /\ k + 1 = Agents
      BY <1>1, <1>2, <1>7, <2>3, NextAgentFacts
    <3>2. Tally(round, round - 1, Work(round), Work(round - 1), Work(round - 1))'
      BY <1>1, <1>2, <1>3, <1>7, <2>2, <3>1, TrackTypes
      DEF Observed, Ticked, One, Tally, Counted
    <3> QED
      BY <1>1, <1>2, <1>3, <1>6, <1>7, <2>1, <2>2, <3>1, <3>2, TrackTypes
      DEF Track, OnTrack, Unstarted, Opening, SimulationSteps, Computed, Settled,
          FinishSteps, Tally
  <2>4. CASE NextAgent # 0
    <3>1. pc' = "ask" /\ k' = k + 1 /\ k' < Agents
      BY <1>1, <1>2, <1>7, <2>4, NextAgentFacts
    <3>2. Tally(round, round - 1, Work(round - 1) + k, Work(round - 1), Work(round - 1))'
      BY <1>1, <1>2, <1>3, <1>7, <2>2, <3>1, TrackTypes
      DEF Observed, Ticked, One, Tally, Counted
    <3> QED
      BY <1>1, <1>2, <1>3, <1>6, <1>7, <2>1, <2>2, <3>1, <3>2, TrackTypes
      DEF Track, OnTrack, Unstarted, Opening, SimulationSteps, Computed, Settled,
          FinishSteps, Tally
  <2> QED
    BY <2>3, <2>4
<1> HIDE DEF ok
<1> QED
  BY <1>5, <1>7, ObserveAccounts DEF Counted

LEMMA StoreResponseAccounts ==
    TypeInv /\ SafetyInv /\ AccountInv /\ TypeInv' /\ StoreResponse => AccountInv'
<1> SUFFICES ASSUME TypeInv, SafetyInv, AccountInv, TypeInv', StoreResponse
             PROVE  AccountInv'
  OBVIOUS
<1> DEFINE ok == IF NextAgent = 0 THEN "decide" ELSE "store"
<1>1. /\ pc = "store" /\ round' = round /\ k' = NextAgent
      /\ Observe("LLMResponseRecorded", ok) /\ ctx' = ctx /\ exported' = exported
  BY DEF StoreResponse, attempt
<1>2. /\ Tally(round, round - 1, Work(round), Work(round - 1) + k, Work(round - 1))
      /\ recorder.requested = Work(round)
      /\ round >= 1 /\ k < Agents /\ recorder.responded <= recorder.requested
      /\ \A u \in Counted : mem.counts[u] = logged[u]
      /\ mem.runs.started = 1 /\ mem.runs.completed = 0 /\ mem.runs.failed = 0
  BY <1>1 DEF AccountInv, Track, OnTrack, SimulationSteps
<1>3. /\ recorder'.requested = Work(round)
      /\ recorder'.responded = Work(round - 1) + k + 1
  BY <1>1, <1>2, TrackTypes DEF StoreResponse, Tally
<1>4. Room("LLMResponseRecorded")
  BY <1>2, <1>3, TrackTypes DEF Room, Tally
<1>5. Follows("LLMResponseRecorded", ok)
  BY <1>1, <1>2, <1>3, <1>4, TrackTypes DEF Follows, SimulationSteps, Tally
<1>6. mem'.runs = mem.runs
  BY <1>5, ObserveFacts DEF Follows, Counted
<1>7. ASSUME Observed("LLMResponseRecorded"), pc' = ok PROVE Track'
  <2>1. \A u \in Counted : mem'.counts[u] = logged'[u]
    BY <1>2, <1>7 DEF Observed, Ticked
  <2>2. Work(round') = Work(round) /\ Work(round' - 1) = Work(round - 1) /\ round' \in Nat
    BY <1>1, TrackTypes
  <2>3. CASE NextAgent = 0
    <3>1. pc' = "decide" /\ k' = 0 /\ k + 1 = Agents
      BY <1>1, <1>2, <1>7, <2>3, NextAgentFacts
    <3>2. Tally(round, round - 1, Work(round), Work(round), Work(round - 1))'
      BY <1>1, <1>2, <1>3, <1>7, <2>2, <3>1, TrackTypes
      DEF Observed, Ticked, One, Tally, Counted
    <3> QED
      BY <1>1, <1>2, <1>3, <1>6, <1>7, <2>1, <2>2, <3>1, <3>2, TrackTypes
      DEF Track, OnTrack, Unstarted, Opening, SimulationSteps, Computed, Settled,
          FinishSteps, Tally
  <2>4. CASE NextAgent # 0
    <3>1. pc' = "store" /\ k' = k + 1 /\ k' < Agents
      BY <1>1, <1>2, <1>7, <2>4, NextAgentFacts
    <3>2. Tally(round, round - 1, Work(round), Work(round - 1) + k, Work(round - 1))'
      BY <1>1, <1>2, <1>3, <1>7, <2>2, <3>1, TrackTypes
      DEF Observed, Ticked, One, Tally, Counted
    <3> QED
      BY <1>1, <1>2, <1>3, <1>6, <1>7, <2>1, <2>2, <3>1, <3>2, TrackTypes
      DEF Track, OnTrack, Unstarted, Opening, SimulationSteps, Computed, Settled,
          FinishSteps, Tally
  <2> QED
    BY <2>3, <2>4
<1> HIDE DEF ok
<1> QED
  BY <1>5, <1>7, ObserveAccounts DEF Counted

LEMMA ParseDecisionAccounts ==
    TypeInv /\ SafetyInv /\ AccountInv /\ TypeInv' /\ ParseDecision => AccountInv'
<1> SUFFICES ASSUME TypeInv, SafetyInv, AccountInv, TypeInv', ParseDecision
             PROVE  AccountInv'
  OBVIOUS
<1> DEFINE ok == IF NextAgent = 0 THEN "roundEnd" ELSE "decide"
<1>1. /\ pc = "decide" /\ round' = round /\ k' = NextAgent
      /\ Observe("AgentDecisionParsed", ok) /\ ctx' = ctx /\ exported' = exported
  BY DEF ParseDecision, attempt
<1>2. /\ Tally(round, round - 1, Work(round), Work(round), Work(round - 1) + k)
      /\ recorder.requested = Work(round)
      /\ round >= 1 /\ k < Agents /\ recorder.responded <= recorder.requested
      /\ \A u \in Counted : mem.counts[u] = logged[u]
      /\ mem.runs.started = 1 /\ mem.runs.completed = 0 /\ mem.runs.failed = 0
  BY <1>1 DEF AccountInv, Track, OnTrack, SimulationSteps
<1>3. /\ recorder'.requested = Work(round)
      /\ recorder'.responded = Work(round)
  BY <1>1, <1>2, TrackTypes DEF ParseDecision, Tally
<1>4. Room("AgentDecisionParsed")
  BY <1>2, <1>3, TrackTypes DEF Room, Tally
<1>5. Follows("AgentDecisionParsed", ok)
  BY <1>1, <1>2, <1>3, <1>4, TrackTypes DEF Follows, SimulationSteps, Tally
<1>6. mem'.runs = mem.runs
  BY <1>5, ObserveFacts DEF Follows, Counted
<1>7. ASSUME Observed("AgentDecisionParsed"), pc' = ok PROVE Track'
  <2>1. \A u \in Counted : mem'.counts[u] = logged'[u]
    BY <1>2, <1>7 DEF Observed, Ticked
  <2>2. Work(round') = Work(round) /\ Work(round' - 1) = Work(round - 1) /\ round' \in Nat
    BY <1>1, TrackTypes
  <2>3. CASE NextAgent = 0
    <3>1. pc' = "roundEnd" /\ k' = 0 /\ k + 1 = Agents
      BY <1>1, <1>2, <1>7, <2>3, NextAgentFacts
    <3>2. Tally(round, round - 1, Work(round), Work(round), Work(round))'
      BY <1>1, <1>2, <1>3, <1>7, <2>2, <3>1, TrackTypes
      DEF Observed, Ticked, One, Tally, Counted
    <3> QED
      BY <1>1, <1>2, <1>3, <1>6, <1>7, <2>1, <2>2, <3>1, <3>2, TrackTypes
      DEF Track, OnTrack, Unstarted, Opening, SimulationSteps, Computed, Settled,
          FinishSteps, Tally
  <2>4. CASE NextAgent # 0
    <3>1. pc' = "decide" /\ k' = k + 1 /\ k' < Agents
      BY <1>1, <1>2, <1>7, <2>4, NextAgentFacts
    <3>2. Tally(round, round - 1, Work(round), Work(round), Work(round - 1) + k)'
      BY <1>1, <1>2, <1>3, <1>7, <2>2, <3>1, TrackTypes
      DEF Observed, Ticked, One, Tally, Counted
    <3> QED
      BY <1>1, <1>2, <1>3, <1>6, <1>7, <2>1, <2>2, <3>1, <3>2, TrackTypes
      DEF Track, OnTrack, Unstarted, Opening, SimulationSteps, Computed, Settled,
          FinishSteps, Tally
  <2> QED
    BY <2>3, <2>4
<1> HIDE DEF ok
<1> QED
  BY <1>5, <1>7, ObserveAccounts DEF Counted

LEMMA FinishRoundAccounts ==
    TypeInv /\ SafetyInv /\ AccountInv /\ TypeInv' /\ FinishRound => AccountInv'
<1> SUFFICES ASSUME TypeInv, SafetyInv, AccountInv, TypeInv', FinishRound
             PROVE  AccountInv'
  OBVIOUS
<1> DEFINE ok == IF round = Rounds THEN "simReturned" ELSE "roundStart"
<1>1. /\ pc = "roundEnd" /\ Observe("RoundFinished", ok)
      /\ ctx' = ctx /\ exported' = exported /\ recorder' = recorder
      /\ round' = round
  BY DEF FinishRound, attempt, science
<1>2. /\ Tally(round, round - 1, Work(round), Work(round), Work(round))
      /\ recorder.requested = Work(round) /\ recorder.responded <= recorder.requested
      /\ round >= 1
      /\ \A u \in Counted : mem.counts[u] = logged[u]
      /\ mem.runs.started = 1 /\ mem.runs.completed = 0 /\ mem.runs.failed = 0
  BY <1>1 DEF AccountInv, Track, OnTrack, SimulationSteps
<1>3. Room("RoundFinished")
  BY <1>2, TrackTypes DEF Room, Tally
<1>4. Follows("RoundFinished", ok)
  BY <1>1, <1>2, <1>3, TrackTypes DEF Follows, SimulationSteps
<1>5. mem'.runs = mem.runs
  BY <1>4, ObserveFacts DEF Follows, Counted
<1>6. ASSUME Observed("RoundFinished"), pc' = ok PROVE Track'
  <2>1. \A u \in Counted : mem'.counts[u] = logged'[u]
    BY <1>2, <1>6 DEF Observed, Ticked
  <2>2. Work(round') = Work(round)
    BY <1>1
  <2>3. Tally(round, round, Work(round), Work(round), Work(round))'
    BY <1>1, <1>2, <1>6, <2>2, TrackTypes DEF Observed, Ticked, One, Tally, Counted
  <2> QED
    BY <1>1, <1>2, <1>5, <1>6, <2>1, <2>2, <2>3, TrackTypes
    DEF Track, OnTrack, Unstarted, Opening, SimulationSteps, Computed, Settled,
        FinishSteps, Tally
<1> HIDE DEF ok
<1> QED
  BY <1>4, <1>6, ObserveAccounts DEF Counted

-----------------------------------------------------------------------------
(* Steps that rewrite the accounts                                           *)

LEMMA WriteAccounts ==
    ASSUME AccountInv, disk' \in {disk, mem'}, UNCHANGED <<logged, recorder, exported>>,
           Sound(mem', logged, recorder.responded, exported),
           Sane(mem', exported, ctx'), Track', ctx = "FAILED" => ctx' = "FAILED"
    PROVE  AccountInv'
  BY DEF AccountInv, Sane

(* The start and the end of the computation: only runs and simulated change. *)
LEMMA RunsFacts ==
    ASSUME NEW m \in Manifest
    PROVE  /\ LET n == [m EXCEPT !.runs.started = 1]
              IN  /\ n.counts = m.counts /\ n.requests = m.requests
                  /\ n.derived = m.derived /\ n.simulated = m.simulated
                  /\ n.state = m.state /\ n.status = m.status /\ n.complete = m.complete
                  /\ n.runs.started = 1 /\ n.runs.completed = m.runs.completed
                  /\ n.runs.failed = m.runs.failed
           /\ LET n == [m EXCEPT !.runs.completed = 1, !.runs.failed = 0, !.simulated = TRUE]
              IN  /\ n.counts = m.counts /\ n.requests = m.requests
                  /\ n.derived = m.derived /\ n.simulated = TRUE
                  /\ n.state = m.state /\ n.status = m.status /\ n.complete = m.complete
                  /\ n.runs.started = m.runs.started /\ n.runs.completed = 1
                  /\ n.runs.failed = 0
           /\ LET n == [m EXCEPT !.runs.failed = 1]
              IN  /\ n.counts = m.counts /\ n.requests = m.requests
                  /\ n.derived = m.derived /\ n.simulated = m.simulated
                  /\ n.state = m.state /\ n.status = m.status /\ n.complete = m.complete
                  /\ n.runs.started = m.runs.started
                  /\ n.runs.completed = m.runs.completed /\ n.runs.failed = 1
<1>1. m.runs \in [started : 0..1, completed : 0..1, failed : 0..1]
  BY DEF Manifest
<1> QED
  BY <1>1 DEF Manifest

LEMMA RunsAccounts ==
    TypeInv /\ SafetyInv /\ AccountInv
      /\ (StartSimulation \/ SimulationReturned \/ SimulationRaised) => AccountInv'
<1> SUFFICES ASSUME TypeInv, SafetyInv, AccountInv,
                    StartSimulation \/ SimulationReturned \/ SimulationRaised
             PROVE  AccountInv'
  OBVIOUS
<1> USE DEF OnTrack, Unstarted, Opening, SimulationSteps, Computed, Settled, FinishSteps
<1>a. /\ mem \in Manifest /\ round \in 0..Rounds /\ Rounds \in Nat
      /\ Sound(mem, logged, recorder.responded, exported)
      /\ Sane(mem, exported, ctx) /\ Track
      /\ pc \in {"simulate", "simReturned", "simRaised"} =>
            ctx = "ACTIVE" /\ mem.status = "running"
      /\ pc = "simulate" => round = 0
  BY ConstantsAssumption
  DEF TypeInv, TypeOK, RoundBound, AccountInv, SafetyInv, ControlInv, MemoryInv, Working,
      BodySteps
<1>1. CASE StartSimulation
  <2> DEFINE n == [mem EXCEPT !.runs.started = 1]
  <2>1. /\ n.counts = mem.counts /\ n.requests = mem.requests
        /\ n.derived = mem.derived /\ n.simulated = mem.simulated
        /\ n.state = mem.state /\ n.status = mem.status /\ n.complete = mem.complete
        /\ n.runs.started = 1 /\ n.runs.completed = mem.runs.completed
        /\ n.runs.failed = mem.runs.failed
    BY <1>a, RunsFacts
  <2>2. /\ pc = "simulate" /\ mem' = n /\ disk' \in {disk, n}
        /\ pc' \in {IF Rounds = 0 THEN "simReturned" ELSE "roundStart", "exit"}
        /\ UNCHANGED <<logged, recorder, exported, ctx, round>>
    BY <1>1 DEF StartSimulation, Write, Raise, Left, attempt, science
  <2> HIDE DEF n
  <2>3. Sound(n, logged, recorder.responded, exported) /\ Sane(n, exported, ctx)
    BY <1>a, <2>1, <2>2 DEF Sound, Sane, Accepted
  <2>4. Track'
    BY <1>a, <2>1, <2>2, WorkGrows DEF Track, Tally, Sane
  <2> QED
    BY <2>2, <2>3, <2>4, WriteAccounts
<1>2. CASE SimulationReturned
  <2> DEFINE n == [mem EXCEPT !.runs.completed = 1, !.runs.failed = 0, !.simulated = TRUE]
  <2>1. /\ n.counts = mem.counts /\ n.requests = mem.requests
        /\ n.derived = mem.derived /\ n.simulated = TRUE
        /\ n.state = mem.state /\ n.status = mem.status /\ n.complete = mem.complete
        /\ n.runs.started = mem.runs.started /\ n.runs.completed = 1
        /\ n.runs.failed = 0
    BY <1>a, RunsFacts
  <2>2. /\ pc = "simReturned" /\ mem' = n /\ disk' \in {disk, n}
        /\ pc' \in {"settle", "exit"}
        /\ UNCHANGED <<logged, recorder, exported, ctx, round>>
    BY <1>2 DEF SimulationReturned, Write, Raise, Left, attempt, science
  <2> HIDE DEF n
  <2>3. mem.runs.started = 1
    BY <1>a, <2>2 DEF Track
  <2>4. Sound(n, logged, recorder.responded, exported) /\ Sane(n, exported, ctx)
    BY <1>a, <2>1, <2>2, <2>3 DEF Sound, Sane, Accepted
  <2>5. Track'
    BY <1>a, <2>1, <2>2 DEF Track, Tally
  <2> QED
    BY <2>2, <2>4, <2>5, WriteAccounts
<1>3. CASE SimulationRaised
  <2> DEFINE n == [mem EXCEPT !.runs.failed = 1]
  <2>1. /\ n.counts = mem.counts /\ n.requests = mem.requests
        /\ n.derived = mem.derived /\ n.simulated = mem.simulated
        /\ n.state = mem.state /\ n.status = mem.status /\ n.complete = mem.complete
        /\ n.runs.started = mem.runs.started
        /\ n.runs.completed = mem.runs.completed /\ n.runs.failed = 1
    BY <1>a, RunsFacts
  <2>2. /\ pc = "simRaised" /\ mem' = n /\ disk' \in {disk, n} /\ pc' = "exit"
        /\ UNCHANGED <<logged, recorder, exported, ctx, round>>
    BY <1>3 DEF SimulationRaised, Write, Raise, Left, attempt, science
  <2> HIDE DEF n
  <2>3. mem.runs.started = 1 /\ mem.runs.completed = 0
    BY <1>a, <2>2 DEF Track
  <2>4. Sound(n, logged, recorder.responded, exported) /\ Sane(n, exported, ctx)
    BY <1>a, <2>1, <2>2, <2>3 DEF Sound, Sane, Accepted
  <2>5. Track'
    BY <1>a, <2>1, <2>2 DEF Track, Tally
  <2> QED
    BY <2>2, <2>4, <2>5, WriteAccounts
<1> QED
  BY <1>1, <1>2, <1>3

LEMMA ExportAccounts ==
    TypeInv /\ SafetyInv /\ AccountInv /\ Export => AccountInv'
<1> SUFFICES ASSUME TypeInv, SafetyInv, AccountInv, Export PROVE AccountInv'
  OBVIOUS
<1>1. /\ pc = "export" /\ pc' \in {"export", "finish"}
      /\ UNCHANGED <<ctx, mem, disk, logged, round, k, recorder>>
  BY DEF Export, attempt
<1>2. /\ mem.simulated /\ ctx = "ACTIVE"
      /\ disk.state # "FAILED" /\ mem.state # "FAILED"
  BY <1>1
  DEF AccountInv, Track, Computed, Settled, Sane, SafetyInv, ControlInv, Working, BodySteps
<1>3. /\ Sound(mem, logged, recorder.responded, exported')
      /\ Sound(disk, logged, recorder.responded, exported')
      /\ Sane(mem, exported', ctx)
  BY <1>2 DEF AccountInv, Sound, Sane
<1>4. Track'
  BY <1>1 DEF AccountInv, Track, Tally, OnTrack, Unstarted, Opening, SimulationSteps,
      Computed, Settled,
     FinishSteps
<1> QED
  BY <1>1, <1>2, <1>3, <1>4 DEF AccountInv

(* Reconciling with the recorder only ever catches up with it.               *)
LEMMA SyncedAccounts ==
    ASSUME TypeInv, SafetyInv, AccountInv, pc \in {"settle", "finish", "fail"}
    PROVE  /\ Sound(Synced(mem, ctx), logged, recorder.responded, exported)
           /\ Sane(Synced(mem, ctx), exported, ctx)
<1> DEFINE n == Synced(mem, ctx)
<1>a. /\ mem \in Manifest /\ recorder \in [requested : Nat, responded : Nat]
      /\ mem.requests.attempted \in Nat /\ mem.requests.completed \in Nat
      /\ recorder.requested \in Nat /\ recorder.responded \in Nat
  BY DEF TypeInv, TypeOK, Manifest
<1>b. ctx = "ACTIVE" /\ ~mem.complete
  BY DEF SafetyInv, ControlInv, MemoryInv, Working, BodySteps
<1>1. /\ n.counts = mem.counts /\ n.runs = mem.runs
      /\ n.simulated = mem.simulated /\ n.state = mem.state
      /\ n.complete = mem.complete
      /\ n.requests = [attempted |-> Larger(mem.requests.attempted, recorder.requested),
                       completed |-> Larger(mem.requests.completed, recorder.responded)]
      /\ n.derived.roundsFailed = mem.derived.roundsFailed
  BY <1>a, <1>b, SyncedFacts
<1>2. /\ Sound(mem, logged, recorder.responded, exported) /\ Sane(mem, exported, ctx)
      /\ recorder.responded <= recorder.requested
  BY DEF AccountInv, Track
<1> HIDE DEF n
<1>3. n.requests.completed <= n.requests.attempted /\ n.requests.completed <= recorder.responded
  BY <1>a, <1>1, <1>2 DEF Sound, Larger
<1>4. Sane(n, exported, ctx)
  BY <1>1, <1>2 DEF Sane
<1>5. Sound(n, logged, recorder.responded, exported)
  BY <1>b, <1>1, <1>2, <1>3, <1>4 DEF Sound, Sane, Accepted
<1> QED
  BY <1>4, <1>5 DEF n

LEMMA SyncAccounts ==
    TypeInv /\ SafetyInv /\ AccountInv /\ (Settle \/ BeginFinish \/ FailSync) => AccountInv'
<1> SUFFICES ASSUME TypeInv, SafetyInv, AccountInv, Settle \/ BeginFinish \/ FailSync
             PROVE  AccountInv'
  OBVIOUS
<1> USE DEF OnTrack, Unstarted, Opening, SimulationSteps, Computed, Settled, FinishSteps
<1> DEFINE n == Synced(mem, ctx)
<1>1. /\ pc \in {"settle", "finish", "fail"}
      /\ mem' = n /\ disk' \in {disk, n}
      /\ UNCHANGED <<logged, recorder, exported, ctx>>
      /\ \/ pc = "settle" /\ pc' = "export"
         \/ pc = "finish" /\ pc' = "samples"
         \/ pc' \in {"exit", "failMark", "done"}
  BY DEF Settle, BeginFinish, FailSync, FailCaller, Write, Raise, Left, attempt, science
<1>2. Sound(n, logged, recorder.responded, exported) /\ Sane(n, exported, ctx)
  BY <1>1, SyncedAccounts
<1>3. mem \in Manifest /\ recorder \in [requested : Nat, responded : Nat]
  BY DEF TypeInv, TypeOK
<1>4. /\ n.counts = mem.counts /\ n.simulated = mem.simulated
      /\ n.requests = [attempted |-> Larger(mem.requests.attempted, recorder.requested),
                       completed |-> Larger(mem.requests.completed, recorder.responded)]
      /\ n.derived.roundsSkipped =
            Minus(Rounds, mem.counts["RoundFinished"] + n.derived.roundsFailed)
      /\ n.derived.decisionsFailed =
            Minus(mem.counts["LLMRequestRecorded"], mem.counts["AgentDecisionParsed"])
      /\ n.derived.decisionsSkipped =
            Minus(Work(Rounds), mem.counts["AgentDecisionParsed"] + n.derived.decisionsFailed)
  BY <1>3, SyncedFacts DEF Work
<1> HIDE DEF n
<1>5. CASE pc \in {"settle", "finish"} /\ pc' \in {"export", "samples"}
  <2>1. /\ Tally(Rounds, Rounds, Work(Rounds), Work(Rounds), Work(Rounds))
        /\ recorder.requested = Work(Rounds) /\ mem.simulated
        /\ recorder.responded <= recorder.requested
        /\ \A t \in Counted : mem.counts[t] = logged[t]
    BY <1>5 DEF AccountInv, Track
  <2>2. n.derived.roundsFailed = 0
    BY <1>2, <1>5 DEF Sane, SafetyInv, ControlInv, Working, BodySteps
  <2>3. n.derived.roundsSkipped = 0 /\ n.derived.decisionsFailed = 0
        /\ n.derived.decisionsSkipped = 0
    BY <1>4, <2>1, <2>2, WorkGrows, ConstantsAssumption DEF Tally, Minus
  <2>4. n.requests.attempted = Work(Rounds) /\ n.requests.completed = Work(Rounds)
    BY <1>4, <2>1 DEF Tally, Larger
  <2>5. Track'
    BY <1>1, <1>4, <1>5, <2>1, <2>3, <2>4 DEF Track, Tally
  <2> QED
    BY <1>1, <1>2, <2>5, WriteAccounts
<1>6. CASE pc' \in {"exit", "failMark", "done"}
  <2>1. Track'
    BY <1>1, <1>6 DEF AccountInv, Track
  <2> QED
    BY <1>1, <1>2, <2>1, WriteAccounts
<1> QED
  BY <1>1, <1>5, <1>6

(* Marking the failure turns the tallies of whatever stopped into a          *)
(* partition of the plan.                                                    *)
LEMMA FailMarkAccounts ==
    TypeInv /\ SafetyInv /\ AccountInv /\ FailMark => AccountInv'
<1> SUFFICES ASSUME TypeInv, SafetyInv, AccountInv, FailMark PROVE AccountInv'
  OBVIOUS
<1> DEFINE d == Derived(mem, "FAILED")
           f == IF mem.runs.started = 1 /\ mem.runs.completed = 0 THEN 1
                ELSE d.runs.failed
           n == [d EXCEPT !.complete = FALSE, !.state = "FAILED", !.runs.failed = f]
<1>a. /\ mem \in Manifest /\ d \in Manifest
      /\ d.runs \in [started : 0..1, completed : 0..1, failed : 0..1]
  BY DerivedType DEF TypeInv, TypeOK, Manifest
<1>1. /\ pc = "failMark" /\ ctx' = "FAILED" /\ mem' = n /\ disk' \in {disk, n}
      /\ pc' \in {"failAnnounce", "exit", "done"}
      /\ UNCHANGED <<logged, recorder, exported>>
  BY DEF FailMark, FailCaller, Write, Raise, Left, science
<1>2. /\ d.counts = mem.counts /\ d.requests = mem.requests /\ d.runs = mem.runs
      /\ d.simulated = mem.simulated
      /\ d.derived.roundsFailed =
            IF mem.counts["RoundStarted"] > mem.counts["RoundFinished"] THEN 1
            ELSE mem.derived.roundsFailed
      /\ d.derived.roundsSkipped =
            Minus(Rounds, mem.counts["RoundFinished"] + d.derived.roundsFailed)
      /\ d.derived.decisionsFailed =
            Minus(mem.counts["LLMRequestRecorded"], mem.counts["AgentDecisionParsed"])
      /\ d.derived.decisionsSkipped =
            Minus(Work(Rounds), mem.counts["AgentDecisionParsed"] + d.derived.decisionsFailed)
  BY <1>a, DerivedFacts DEF Work
<1>3. /\ n.counts = d.counts /\ n.requests = d.requests /\ n.derived = d.derived
      /\ n.simulated = d.simulated /\ n.state = "FAILED" /\ ~n.complete
      /\ n.runs.started = d.runs.started /\ n.runs.completed = d.runs.completed
      /\ n.runs.failed = f
  BY <1>a DEF Manifest
<1>4. /\ Sound(mem, logged, recorder.responded, exported) /\ Sane(mem, exported, ctx)
      /\ ctx = "ACTIVE" /\ Track
  BY <1>1 DEF AccountInv, SafetyInv, ControlInv
<1>5. /\ mem.runs.started \in 0..1 /\ mem.runs.completed \in 0..1 /\ mem.runs.failed \in 0..1
      /\ \A t \in Counted : mem.counts[t] \in Nat
      /\ mem.counts["RoundStarted"] \in Nat /\ mem.counts["RoundFinished"] \in Nat
      /\ mem.counts["LLMRequestRecorded"] \in Nat /\ mem.counts["AgentDecisionParsed"] \in Nat
      /\ Work(Rounds) \in Nat /\ Rounds \in Nat
  BY <1>a, WorkGrows, ConstantsAssumption DEF Manifest, Counted
<1> HIDE DEF d, n
<1>6. Partitioned(n, exported)
  <2>1. /\ n.counts["RoundFinished"] + n.derived.roundsFailed + n.derived.roundsSkipped = Rounds
        /\ n.counts["RoundStarted"] = n.counts["RoundFinished"] + n.derived.roundsFailed
    BY <1>2, <1>3, <1>4, <1>5 DEF Sane, Minus
  <2>2. n.counts["AgentDecisionParsed"] + n.derived.decisionsFailed
          + n.derived.decisionsSkipped = Work(Rounds)
    BY <1>2, <1>3, <1>4, <1>5 DEF Sane, Minus
  <2>3. n.runs.started = n.runs.completed + n.runs.failed
    BY <1>2, <1>3, <1>4, <1>5 DEF Sane
  <2>4. (n.simulated <=> n.runs.completed = 1) /\ (exported > 0 => n.simulated)
    BY <1>2, <1>3, <1>4 DEF Sane
  <2> QED
    BY <2>1, <2>2, <2>3, <2>4 DEF Partitioned
<1>7. Sound(n, logged, recorder.responded, exported)
  BY <1>2, <1>3, <1>4, <1>6 DEF Sound, Accepted
<1>8. Sane(n, exported, "FAILED")
  BY <1>2, <1>3, <1>4, <1>5 DEF Sane
<1>9. Track'
  BY <1>1, <1>4 DEF Track, OnTrack, Unstarted, Opening, SimulationSteps, Computed,
      Settled, FinishSteps
<1> QED
  BY <1>1, <1>7, <1>8, <1>9, WriteAccounts

-----------------------------------------------------------------------------
(* The theorems                                                              *)

LEMMA InitAccounts == Init => AccountInv
<1> SUFFICES ASSUME Init PROVE AccountInv
  OBVIOUS
<1>1. /\ mem = FreshManifest /\ disk = FreshManifest /\ logged = NoEvents
      /\ recorder.requested = 0 /\ recorder.responded = 0 /\ exported = 0
      /\ ctx = "NEW" /\ pc = "create"
  BY DEF Init
<1>2. /\ \A t \in Counted : FreshManifest.counts[t] = 0 /\ NoEvents[t] = 0
      /\ FreshManifest.requests.attempted = 0 /\ FreshManifest.requests.completed = 0
      /\ FreshManifest.runs = [started |-> 0, completed |-> 0, failed |-> 0]
      /\ FreshManifest.simulated = FALSE /\ FreshManifest.state = "NEW"
      /\ FreshManifest.status = "running" /\ FreshManifest.derived.roundsFailed = 0
  BY DEF FreshManifest, NoEvents, Counted, EventTypes
<1>3. Rounds \in Nat /\ Work(Rounds) \in Nat /\ 0 <= Work(Rounds)
  BY WorkGrows, ConstantsAssumption
<1>4. /\ Sound(mem, logged, recorder.responded, exported)
      /\ Sound(disk, logged, recorder.responded, exported)
  BY <1>1, <1>2 DEF Sound, Accepted
<1>5. Sane(mem, exported, ctx) /\ disk.state # "FAILED"
  BY <1>1, <1>2, <1>3 DEF Sane, Counted
<1>6. Track
  BY <1>1, <1>2 DEF Track, Tally, OnTrack, Unstarted, Opening, SimulationSteps, Computed,
      Settled,
     FinishSteps, Counted
<1> QED
  BY <1>4, <1>5, <1>6 DEF AccountInv

LEMMA StepAccounts ==
    TypeInv /\ SafetyInv /\ AccountInv /\ TypeInv' /\ [Next]_vars => AccountInv'
<1> SUFFICES ASSUME TypeInv, SafetyInv, AccountInv, TypeInv', [Next]_vars
             PROVE  AccountInv'
  OBVIOUS
<1>1. CASE Open \/ CallProvider \/ BodyRaises
  BY <1>1, OpenSteady, SteadyAccounts
<1>2. CASE FinishSamples \/ FinishCollect \/ FinishAnnounce \/ FinishRefresh \/ FinishCommit
  BY <1>2, FinishSteady, SteadyAccounts
<1>3. CASE Publish \/ Exit \/ FailAnnounce \/ FailCollect \/ FailRefresh \/ FailCommit
             \/ Crash
  BY <1>3, FailSteady, SteadyAccounts
<1>4. CASE StartRound
  BY <1>4, StartRoundAccounts
<1>5. CASE AskAgents
  BY <1>5, AskAgentsAccounts
<1>6. CASE StoreResponse
  BY <1>6, StoreResponseAccounts
<1>7. CASE ParseDecision
  BY <1>7, ParseDecisionAccounts
<1>8. CASE FinishRound
  BY <1>8, FinishRoundAccounts
<1>9. CASE StartSimulation \/ SimulationReturned \/ SimulationRaised
  BY <1>9, RunsAccounts
<1>10. CASE Export
  BY <1>10, ExportAccounts
<1>11. CASE Settle \/ BeginFinish \/ FailSync
  BY <1>11, SyncAccounts
<1>12. CASE FailMark
  BY <1>12, FailMarkAccounts
<1>13. CASE UNCHANGED vars
  BY <1>13 DEF vars, AccountInv, Track, Tally
<1> QED
  BY <1>1, <1>2, <1>3, <1>4, <1>5, <1>6, <1>7, <1>8, <1>9, <1>10, <1>11, <1>12, <1>13
  DEF Next, Step, Simulate, Finish, Fail, Terminated

LEMMA AccountsHold == Spec => []AccountInv
<1> DEFINE IInv == TypeInv /\ SafetyInv /\ AccountInv
<1>1. Init => IInv
  BY InitType, InitSafety, InitAccounts
<1>2. IInv /\ [Next]_vars => IInv'
  BY StepType, StepSafety, StepAccounts
<1>3. IInv => AccountInv
  OBVIOUS
<1> QED
  BY <1>1, <1>2, <1>3, PTL DEF Spec

(* The manifest on disk never claims more than the append-only event log can *)
(* show, wherever the attempt stops or is killed, and its request counters   *)
(* are never ahead of the recorder's.                                        *)
THEOREM CountsNeverExceedTheLog == Spec => []CountsAreLogged
<1>1. AccountInv => CountsAreLogged
  BY DEF AccountInv, Sound, CountsAreLogged
<1> QED
  BY <1>1, AccountsHold, PTL

(* An accepted run did every round and every decision of its plan, and every *)
(* counter of its manifest says so.                                          *)
THEOREM AcceptedRunsAreAccounted == Spec => []AcceptedIsAccounted
<1>1. AccountInv => AcceptedIsAccounted
  BY DEF AccountInv, Sound, Accounted, AcceptedIsAccounted, Work
<1> QED
  BY <1>1, AccountsHold, PTL

(* The accounts of a failed run partition its plan, wherever it stopped.     *)
THEOREM FailedRunsPartitionTheirPlan == Spec => []FailedPartitionsPlan
<1>1. AccountInv => FailedPartitionsPlan
  BY DEF AccountInv, Sound, Partitioned, FailedPartitionsPlan, Work
<1> QED
  BY <1>1, AccountsHold, PTL
-----------------------------------------------------------------------------
(**************************************************************************)
(* The reuse gate beside a managed attempt: what is judged reusable is a   *)
(* run that did all its work, and a published run is never refused.        *)
(**************************************************************************)

-----------------------------------------------------------------------------
(* The completion of a run that did all its work: the only one a trusted     *)
(* manifest and a result file of an accepted run can carry.                  *)
Full ==
    [runs |-> [started |-> 1, completed |-> 1, failed |-> 0],
     counts |-> [t \in Counted |-> IF t \in {"RoundStarted", "RoundFinished"} THEN Rounds
                                   ELSE Work(Rounds)],
     requests |-> [attempted |-> Work(Rounds), completed |-> Work(Rounds)],
     derived |-> [roundsFailed |-> 0, roundsSkipped |-> 0,
                  decisionsFailed |-> 0, decisionsSkipped |-> 0]]

LEMMA AccountedIsFull ==
    ASSUME NEW m \in Manifest, NEW l, Accounted(m, l)
    PROVE  Completion(m) = Full
<1>1. m.counts = Full.counts
  <2>1. m.counts \in [Counted -> Nat]
    BY DEF Manifest
  <2>2. \A t \in Counted : m.counts[t] = Full.counts[t]
    BY DEF Accounted, Full, Counted
  <2>3. Full.counts = [t \in Counted |-> Full.counts[t]]
    BY DEF Full
  <2> QED
    BY <2>1, <2>2, <2>3
<1>2. m.derived = Full.derived
  BY DEF Manifest, Accounted, Full
<1>3. m.runs = Full.runs /\ m.requests = Full.requests
  BY DEF Accounted, Full
<1> QED
  BY <1>1, <1>2, <1>3 DEF Completion, Full

-----------------------------------------------------------------------------
(* What the attempt's steps do to the evidence the gate reads                *)

(* The points of control from which events may still be counted.             *)
Tallying == Opening \union BodySteps \union {"simReturned", "simRaised"}

(* The accepted manifest on disk says FINISHED in its own state as well.     *)
StateInv ==
    /\ pc \in {"collect", "announce", "refresh", "commit"} => mem.state = "FINISHED"
    /\ ctx = "FINISHED" => disk.state = "FINISHED"

LEMMA AfterCounting ==
    ASSUME TypeInv, SafetyInv, [Next]_vars, pc \notin Tallying
    PROVE  pc' \notin Tallying /\ Recounted(logged', logged)
<1> USE DEF Tallying, Opening, BodySteps, SimulationSteps
<1>1. CASE FinishSamples \/ FinishCollect \/ FinishAnnounce \/ FinishRefresh \/ FinishCommit
  <2>1. Recounted(logged', logged)
    BY <1>1, FinishSteady DEF Steady
  <2> QED
    BY <1>1, <2>1
    DEF FinishSamples, FinishCollect, FinishAnnounce, FinishRefresh, FinishCommit, TryWrite
<1>2. CASE Publish \/ Exit \/ FailAnnounce \/ FailCollect \/ FailRefresh \/ FailCommit \/ Crash
  <2>1. Recounted(logged', logged)
    BY <1>2, FailSteady DEF Steady
  <2> QED
    BY <1>2, <2>1
    DEF Publish, PublishLatest, PublishFlat, PublishWrite, PublishWarn, Symlink, Exit,
        FailAnnounce, FailCollect, FailRefresh, FailCommit, Crash, Write, Append, FailCaller
<1>3. CASE BeginFinish \/ FailSync \/ FailMark \/ UNCHANGED vars
  BY <1>3 DEF BeginFinish, FailSync, FailMark, Write, FailCaller, Recounted, vars
<1>4. CASE Open \/ Simulate \/ BodyRaises
  BY <1>4
  DEF Open, EmitRunStarted, WarnRunStarted, Activate, PrepareLLM, Simulate, StartSimulation,
      StartRound, AskAgents, CallProvider, StoreResponse, ParseDecision, FinishRound,
      SimulationReturned, SimulationRaised, Settle, Export, BodyRaises
<1> QED
  BY <1>1, <1>2, <1>3, <1>4 DEF Next, Step, Finish, Fail, Terminated

LEMMA AfterFinished ==
    ASSUME TypeInv, SafetyInv, [Next]_vars, ctx = "FINISHED"
    PROVE  ctx' = "FINISHED" /\ UNCHANGED <<disk, logged, exported>>
<1> USE DEF Opening, Working, Failed, BodySteps, SimulationSteps, FinishSteps, PublishSteps
<1>1. pc \in PublishSteps \union {"exit"} \union Stopped /\ mem = disk
  <2>1. pc \in Steps
    BY DEF TypeInv, TypeOK
  <2>2. ControlInv /\ mem = disk
    BY DEF SafetyInv, MemoryInv
  <2> QED
    BY <2>1, <2>2 DEF ControlInv, Steps, FailSteps, Stopped
<1>2. CASE Publish
  <2>1. CASE PublishLatest \/ PublishFlat
    BY <2>1 DEF PublishLatest, PublishFlat, attempt, science
  <2>2. CASE PublishWrite \/ PublishWarn
    BY <1>1, <2>2 DEF PublishWrite, PublishWarn, Write, Left, attempt, science
  <2> QED
    BY <1>2, <2>1, <2>2 DEF Publish
<1>3. CASE Exit \/ Crash \/ UNCHANGED vars
  BY <1>1, <1>3 DEF Exit, Crash, vars, attempt, science
<1>4. CASE Open \/ Simulate \/ BodyRaises \/ BeginFinish
  BY <1>1, <1>4, QuietSteps DEF Quiet, Before, Stopped
<1>5. CASE FinishSamples \/ FinishCollect \/ FinishAnnounce \/ FinishRefresh \/ FinishCommit
  <2>1. pc \in FinishSteps
    BY <1>5
    DEF FinishSamples, FinishCollect, FinishAnnounce, FinishRefresh, FinishCommit
  <2> QED
    BY <1>1, <2>1 DEF Stopped
<1>6. CASE FailSync \/ FailMark \/ FailAnnounce \/ FailCollect \/ FailRefresh \/ FailCommit
  <2>1. pc \in {"fail", "failMark", "failAnnounce", "failCollect", "failRefresh", "failCommit"}
    BY <1>6 DEF FailSync, FailMark, FailAnnounce, FailCollect, FailRefresh, FailCommit
  <2> QED
    BY <1>1, <2>1 DEF Stopped
<1> QED
  BY <1>2, <1>3, <1>4, <1>5, <1>6 DEF Next, Step, Finish, Fail, Terminated

LEMMA OneExport ==
    ASSUME TypeInv, SafetyInv, [Next]_vars
    PROVE  \/ exported' = exported
           \/ pc = "export" /\ exported' = exported + 1
<1>1. CASE Open \/ Simulate \/ BodyRaises
  BY <1>1
  DEF Open, EmitRunStarted, WarnRunStarted, Activate, PrepareLLM, Simulate, StartSimulation,
      StartRound, AskAgents, CallProvider, StoreResponse, ParseDecision, FinishRound,
      SimulationReturned, SimulationRaised, Settle, Export, BodyRaises, science
<1>2. CASE Finish \/ Publish \/ Fail \/ Crash \/ UNCHANGED vars
  BY <1>2
  DEF Finish, BeginFinish, FinishSamples, FinishCollect, FinishAnnounce, FinishRefresh,
      FinishCommit, Publish, PublishLatest, PublishFlat, PublishWrite, PublishWarn, Fail,
      Exit, FailSync, FailMark, FailAnnounce, FailCollect, FailRefresh, FailCommit, Crash,
      vars, science
<1> QED
  BY <1>1, <1>2 DEF Next, Step, Terminated

LEMMA StepState ==
    ASSUME TypeInv, SafetyInv, StateInv, [Next]_vars
    PROVE  StateInv'
<1>a. mem \in Manifest
  BY DEF TypeInv, TypeOK
<1>1. CASE ctx = "FINISHED"
  <2>1. disk'.state = "FINISHED"
    BY <1>1, AfterFinished DEF StateInv
  <2>2. pc' \notin {"collect", "announce", "refresh", "commit"}
    BY <1>1, AfterFinished, StepSafety DEF SafetyInv, ControlInv, Working, FinishSteps
  <2> QED
    BY <2>1, <2>2 DEF StateInv
<1>2. CASE ctx # "FINISHED" /\ FinishSamples
  <2> DEFINE n == [mem EXCEPT !.complete = TRUE, !.state = "FINISHED"]
  <2>1. n.state = "FINISHED"
    BY <1>a, VerdictKeeps
  <2>2. TryWrite(n, "collect") /\ ctx' = ctx
    BY <1>2 DEF FinishSamples
  <2> HIDE DEF n
  <2> QED
    BY <1>2, <2>1, <2>2 DEF TryWrite, StateInv
<1>3. CASE ctx # "FINISHED" /\ FinishCollect
  <2> DEFINE n == [mem EXCEPT !.results = [files |-> exported, events |-> logged]]
  <2>1. n.state = mem.state
    BY <1>a, ResultsKeeps
  <2>2. pc = "collect" /\ TryWrite(n, "announce") /\ ctx' = ctx
    BY <1>3 DEF FinishCollect
  <2> HIDE DEF n
  <2> QED
    BY <1>3, <2>1, <2>2 DEF TryWrite, StateInv
<1>4. CASE ctx # "FINISHED" /\ FinishAnnounce
  BY <1>4 DEF FinishAnnounce, StateInv
<1>5. CASE ctx # "FINISHED" /\ FinishRefresh
  <2> DEFINE m == [mem EXCEPT !.status = "finished"]
             r == [m EXCEPT !.results.events = logged]
  <2>1. m \in Manifest /\ m.state = mem.state
    BY <1>a, StatusUpdate, StatusKeeps
  <2>2. /\ pc = "refresh" /\ ctx' = ctx
        /\ \/ mem' = r /\ pc' = "commit"
           \/ pc' = "fail"
    BY <1>5 DEF FinishRefresh
  <2>3. r.state = m.state
    BY <2>1, DigestKeeps
  <2> HIDE DEF m
  <2> HIDE DEF r
  <2> QED
    BY <1>5, <2>1, <2>2, <2>3 DEF StateInv
<1>6. CASE ctx # "FINISHED" /\ FinishCommit
  BY <1>6 DEF FinishCommit, TryWrite, StateInv
<1>7. CASE ctx # "FINISHED" /\ (Open \/ Simulate \/ BodyRaises \/ BeginFinish)
  BY <1>7, QuietSteps
  DEF Quiet, Before, Opening, BodySteps, SimulationSteps, StateInv
<1>8. CASE ctx # "FINISHED" /\ Publish
  <2>1. pc \in PublishSteps
    BY <1>8
    DEF Publish, PublishLatest, PublishFlat, PublishWrite, PublishWarn, PublishSteps
  <2> QED
    BY <1>8, <2>1 DEF SafetyInv, ControlInv
<1>9. CASE ctx # "FINISHED" /\ (Fail \/ Crash)
  <2>1. pc' \notin {"collect", "announce", "refresh", "commit"} /\ ctx' # "FINISHED"
    BY <1>9
    DEF Fail, Exit, FailSync, FailMark, FailAnnounce, FailCollect, FailRefresh, FailCommit,
        Crash, Write, Append, FailCaller, attempt
  <2> QED
    BY <2>1 DEF StateInv
<1>10. CASE UNCHANGED vars
  BY <1>10 DEF vars, StateInv
<1> QED
  BY <1>1, <1>2, <1>3, <1>4, <1>5, <1>6, <1>7, <1>8, <1>9, <1>10
  DEF Next, Step, Finish, Terminated

-----------------------------------------------------------------------------
(* The inductive invariant of the gate                                       *)

ManagedInv == TypeInv /\ SafetyInv /\ AccountInv /\ StateInv

(* The link is declared only after the acceptance, and the first result file *)
(* repeats the completion of a run that did all its work.                    *)
EvidenceInv ==
    /\ declared # "no" => ctx = "FINISHED"
    /\ pc \in {"publishLatest", "publishFlat"} => declared = "no"
    /\ exported > 0 => repeated = Full

(* What an assessment that is past the manifest relies on: the work is done  *)
(* and nothing more is counted; the verdict is final, or was in doubt when   *)
(* it was read; and what a settled attempt registered is there.              *)
Reading == {"events", "files", "result", "reusable"}

Relies(g) ==
    /\ g = [stage |-> g.stage, via |-> g.via, settled |-> g.settled, doubt |-> g.doubt,
            child |-> g.child]
    /\ logged["RoundFinished"] = Rounds /\ logged["AgentDecisionParsed"] = Work(Rounds)
    /\ g.child.completion = Full
    /\ \/ ctx = "FINISHED"
       \/ g.via = "manifest" /\ g.doubt /\ pc \notin Tallying
    /\ g.settled => /\ pc = "done" /\ ctx = "FINISHED"
                    /\ g.child.results = [files |-> Files, events |-> logged]

Assessed ==
    /\ gate.stage = "resolved" => gate.via \in {"manifest", "link"}
    /\ gate.stage \in Reading => Relies(gate)
    /\ gate.stage = "refused" => ~gate.due

GateInv == ManagedInv /\ EvidenceInv /\ Assessed

LEMMA GateStepsAreSteps == [GateNext]_gateVars => [Next]_vars
  BY DEF GateNext, gateVars, Runs, Dies, Assess, Resolve, Load, Check, HashEvents, HashFiles,
     CompareResult, Next, Terminated

LEMMA ManagedStep ==
    ASSUME ManagedInv, [GateNext]_gateVars
    PROVE  ManagedInv'
  BY GateStepsAreSteps, StepType, StepSafety, StepAccounts, StepState DEF ManagedInv

(* The attempt goes on, or dies, under an assessment.                        *)
LEMMA RunsEvidence ==
    ASSUME GateInv, Runs
    PROVE  EvidenceInv'
<1>a. TypeInv /\ SafetyInv /\ AccountInv /\ EvidenceInv /\ Step /\ [Next]_vars
  BY DEF GateInv, ManagedInv, Runs, Next
<1>1. declared' # "no" => ctx' = "FINISHED"
  <2>1. declared # "no" => ctx' = "FINISHED"
    BY <1>a, AfterFinished DEF EvidenceInv
  <2>2. LinkNoted => ctx' = "FINISHED"
    BY <1>a, AfterFinished DEF LinkNoted, SafetyInv, ControlInv, PublishSteps
  <2>3. LinkWritten => ctx' = "FINISHED"
    BY <2>1 DEF LinkWritten
  <2>4. LinkNoted \/ LinkWritten \/ declared' = declared
    BY DEF Runs
  <2> QED
    BY <2>1, <2>2, <2>3, <2>4
<1>2. pc' \in {"publishLatest", "publishFlat"} => declared' = "no"
  <2> SUFFICES ASSUME pc' \in {"publishLatest", "publishFlat"} PROVE declared' = "no"
    OBVIOUS
  <2>1. pc \in {"commit", "publishLatest"}
    <3>1. CASE Open \/ Simulate \/ BodyRaises \/ BeginFinish
      BY <1>a, <3>1, QuietSteps DEF Quiet, Before, Opening, BodySteps, SimulationSteps
    <3>2. CASE FinishSamples \/ FinishCollect \/ FinishAnnounce \/ FinishRefresh
                 \/ FinishCommit
      BY <3>2
      DEF FinishSamples, FinishCollect, FinishAnnounce, FinishRefresh, FinishCommit, TryWrite
    <3>3. CASE Publish
      BY <3>3 DEF Publish, PublishLatest, PublishFlat, PublishWrite, PublishWarn, Symlink, Write
    <3>4. CASE Fail
      BY <3>4
      DEF Fail, Exit, FailSync, FailMark, FailAnnounce, FailCollect, FailRefresh, FailCommit,
          Write, Append, FailCaller
    <3> QED
      BY <1>a, <3>1, <3>2, <3>3, <3>4 DEF Step, Finish
  <2>2. declared = "no"
    BY <1>a, <2>1 DEF EvidenceInv, SafetyInv, ControlInv
  <2>3. ~LinkNoted /\ ~LinkWritten
    BY <2>1 DEF LinkNoted, LinkWritten
  <2> QED
    BY <2>2, <2>3 DEF Runs
<1>3. exported' > 0 => repeated' = Full
  <2>1. exported \in Nat
    BY <1>a, ConstantsAssumption DEF TypeInv, TypeOK
  <2>2. CASE exported > 0
    BY <1>a, <2>1, <2>2 DEF Runs, EvidenceInv
  <2>3. CASE exported = 0 /\ exported' = 0
    BY <2>3
  <2>4. CASE exported = 0 /\ pc = "export" /\ exported' = 1
    <3>1. Accounted(mem, logged)
      BY <1>a, <2>4, CompleteAccounted
      DEF Settled, SafetyInv, ControlInv, Working, BodySteps
    <3>2. Completion(mem) = Full
      BY <1>a, <3>1, AccountedIsFull DEF TypeInv, TypeOK
    <3> QED
      BY <2>4, <3>2 DEF Runs
  <2> QED
    BY <1>a, <2>1, <2>2, <2>3, <2>4, OneExport
<1> QED
  BY <1>1, <1>2, <1>3 DEF EvidenceInv

LEMMA AttemptKeepsAssessment ==
    ASSUME GateInv, Step \/ Crash, gate' = gate
    PROVE  Assessed'
<1>a. TypeInv /\ SafetyInv /\ Assessed /\ [Next]_vars
  BY DEF GateInv, ManagedInv, Next
<1>1. ASSUME gate.stage \in Reading PROVE Relies(gate)'
  <2>1. Relies(gate)
    BY <1>a, <1>1 DEF Assessed
  <2>2. pc \notin Tallying
    BY <1>a, <2>1
    DEF Relies, SafetyInv, ControlInv, Tallying, Opening, Working, BodySteps
  <2>3. pc' \notin Tallying /\ Recounted(logged', logged)
    BY <1>a, <2>2, AfterCounting
  <2>4. ctx = "FINISHED" => ctx' = "FINISHED"
    BY <1>a, AfterFinished
  <2>5. pc # "done"
    <3>1. CASE Crash
      BY <3>1 DEF Crash, Stopped
    <3>2. CASE Open \/ Simulate \/ BodyRaises \/ BeginFinish
      BY <1>a, <3>2, QuietSteps DEF Quiet, Before, Opening, BodySteps, SimulationSteps
    <3>3. CASE FinishSamples \/ FinishCollect \/ FinishAnnounce \/ FinishRefresh
                 \/ FinishCommit
      BY <3>3
      DEF FinishSamples, FinishCollect, FinishAnnounce, FinishRefresh, FinishCommit
    <3>4. CASE Publish
      BY <3>4 DEF Publish, PublishLatest, PublishFlat, PublishWrite, PublishWarn
    <3>5. CASE Fail
      BY <3>5
      DEF Fail, Exit, FailSync, FailMark, FailAnnounce, FailCollect, FailRefresh, FailCommit
    <3> QED
      BY <3>1, <3>2, <3>3, <3>4, <3>5 DEF Step, Finish
  <2>6. gate'.settled = gate.settled /\ ~gate.settled
    BY <2>1, <2>5 DEF Relies
  <2> QED
    BY <2>1, <2>3, <2>4, <2>6 DEF Relies, Recounted, Counted
<1> QED
  BY <1>a, <1>1 DEF Assessed

(* The plans the gate admits: it refuses a run without rounds, agents or     *)
(* result files whatever became of it.                                       *)
Planned == Rounds > 0 /\ Agents > 0 /\ Files > 0

LEMMA PublishedIsTrusted ==
    ASSUME Planned, ManagedInv, ctx = "FINISHED"
    PROVE  Registers(disk) /\ Trusted(disk)
<1>1. /\ disk \in Manifest /\ Accepted(disk) /\ disk.state = "FINISHED"
      /\ AcceptedIsSealed /\ Accounted(disk, logged)
  BY DEF ManagedInv, TypeInv, TypeOK, SafetyInv, DiskInv, AccountInv, Sound, StateInv
<1>2. Completion(disk) = Full
  BY <1>1, AccountedIsFull
<1>3. /\ disk.runs = Full.runs /\ disk.counts = Full.counts
      /\ disk.requests = Full.requests /\ disk.derived = Full.derived
  BY <1>2 DEF Completion, Full
<1>4. Planned /\ disk.results.files = Files
  BY <1>1 DEF AcceptedIsSealed
<1>5. Complete(disk)
  BY <1>3, <1>4 DEF Complete, Full, Counted, Planned, Work
<1> QED
  BY <1>1, <1>4, <1>5 DEF Registers, Trusted, Accepted, Planned

LEMMA LoadSound ==
    ASSUME Planned, GateInv, Load
    PROVE  Assessed'
<1> DEFINE settled == pc = "done" /\ ctx = "FINISHED" /\ LinkDeclared(gate.via)
           good(fits) == Registers(disk) /\ Trusted(disk) /\ fits /\ LinkDeclared(gate.via)
           next == [stage |-> "events", via |-> gate.via, settled |-> settled,
                    doubt |-> Accepted(disk) /\ ctx # "FINISHED", child |-> Child(disk)]
<1>a. /\ ManagedInv /\ EvidenceInv /\ gate.stage = "resolved"
      /\ gate.via \in {"manifest", "link"}
      /\ UNCHANGED <<vars, declared, repeated>>
  BY DEF GateInv, Assessed, Load
<1>1. PICK fits \in BOOLEAN :
         gate' = IF good(fits) THEN next ELSE [stage |-> "refused", due |-> settled /\ fits]
  BY DEF Load
<1>2. CASE good(fits)
  <2>1. gate' = next
    BY <1>1, <1>2
  <2>2. Accepted(disk) /\ disk \in Manifest /\ AcceptedIsSealed /\ terminal
    BY <1>a, <1>2 DEF Trusted, Accepted, ManagedInv, TypeInv, TypeOK, SafetyInv, DiskInv
  <2>3. Accounted(disk, logged)
    BY <1>a, <2>2 DEF ManagedInv, AccountInv, Sound
  <2>4. Completion(disk) = Full
    BY <2>2, <2>3, AccountedIsFull
  <2>5. ctx = "FINISHED" \/ (gate.via = "manifest" /\ pc \notin Tallying)
    <3>1. gate.via = "link" => ctx = "FINISHED"
      BY <1>a, <1>2 DEF LinkDeclared, EvidenceInv
    <3>2. pc \notin Tallying
      BY <1>a, <2>2
      DEF ManagedInv, SafetyInv, TerminalInv, Tallying, Opening, BodySteps, SimulationSteps,
          PublishSteps, Stopped
    <3> QED
      BY <1>a, <3>1, <3>2
  <2>6. settled => disk.results = [files |-> Files, events |-> logged]
    BY <2>2 DEF AcceptedIsSealed
  <2>7. Relies(next)
    <3>1. logged["RoundFinished"] = Rounds /\ logged["AgentDecisionParsed"] = Work(Rounds)
      BY <2>3 DEF Accounted
    <3>2. next.child.completion = Full /\ next.child.results = disk.results
      BY <2>4 DEF Child
    <3>3. next.via = gate.via /\ (next.doubt <=> ctx # "FINISHED") /\ (next.settled <=> settled)
      BY <2>2
    <3> HIDE DEF next
    <3>4. next = [stage |-> next.stage, via |-> next.via, settled |-> next.settled,
                  doubt |-> next.doubt, child |-> next.child]
      BY DEF next
    <3> QED
      BY <2>5, <2>6, <3>1, <3>2, <3>3, <3>4 DEF Relies
  <2>8. Relies(gate)'
    BY <1>a, <2>1, <2>7 DEF Relies, vars
  <2>9. gate'.stage = "events"
    BY <2>1
  <2> QED
    BY <2>8, <2>9 DEF Assessed
<1>3. CASE ~good(fits)
  <2>1. gate' = [stage |-> "refused", due |-> settled /\ fits]
    BY <1>1, <1>3
  <2>2. ~(settled /\ fits)
    BY <1>a, <1>3, PublishedIsTrusted
  <2>3. gate'.stage = "refused" /\ ~gate'.due
    BY <2>1, <2>2
  <2> QED
    BY <2>3 DEF Assessed, Reading
<1> QED
  BY <1>2, <1>3

LEMMA CheckSound ==
    ASSUME Planned, GateInv, HashEvents \/ HashFiles \/ CompareResult
    PROVE  Assessed'
<1>a. /\ ManagedInv /\ EvidenceInv /\ Relies(gate)
      /\ UNCHANGED <<vars, declared, repeated>>
  BY DEF GateInv, Assessed, Reading, HashEvents, HashFiles, CompareResult, Check
<1>1. gate.settled =>
         /\ gate.child.results.events = logged
         /\ gate.child.results.files = Files /\ exported = Files
         /\ repeated = gate.child.completion
  <2> SUFFICES ASSUME gate.settled
               PROVE  /\ gate.child.results.events = logged
                      /\ gate.child.results.files = Files /\ exported = Files
                      /\ repeated = gate.child.completion
    OBVIOUS
  <2>1. /\ gate.child.results = [files |-> Files, events |-> logged] /\ ctx = "FINISHED"
        /\ gate.child.completion = Full
    BY <1>a DEF Relies
  <2>2. exported = Files
    BY <1>a, <2>1 DEF ManagedInv, SafetyInv, DiskInv, AcceptedIsSealed
  <2>3. repeated = Full
    BY <1>a, <2>2 DEF EvidenceInv, Planned
  <2> QED
    BY <2>1, <2>2, <2>3
<1>2. \/ \E to \in {"files", "result", "reusable"} : gate' = [gate EXCEPT !.stage = to]
      \/ gate' = [stage |-> "refused", due |-> gate.settled] /\ ~gate.settled
  BY <1>1 DEF HashEvents, HashFiles, CompareResult, Check
<1>3. ASSUME NEW to \in {"files", "result", "reusable"}, gate' = [gate EXCEPT !.stage = to]
      PROVE  Assessed'
  <2>1. /\ gate' = [stage |-> to, via |-> gate.via, settled |-> gate.settled,
                    doubt |-> gate.doubt, child |-> gate.child]
    BY <1>a, <1>3 DEF Relies
  <2>2. Relies(gate)'
    BY <1>a, <2>1 DEF Relies, vars
  <2>3. gate'.stage = to
    BY <2>1
  <2> QED
    BY <2>2, <2>3 DEF Assessed
<1>4. CASE gate' = [stage |-> "refused", due |-> gate.settled] /\ ~gate.settled
  BY <1>4 DEF Assessed, Reading
<1> QED
  BY <1>2, <1>3, <1>4

LEMMA GateStep ==
    ASSUME Planned, GateInv, [GateNext]_gateVars
    PROVE  GateInv'
<1>1. ManagedInv'
  BY ManagedStep DEF GateInv
<1>2. CASE Runs
  <2>1. Assessed'
    BY <1>2, AttemptKeepsAssessment DEF Runs
  <2> QED
    BY <1>1, <1>2, <2>1, RunsEvidence DEF GateInv
<1>3. CASE Dies
  <2>1. Assessed'
    BY <1>3, AttemptKeepsAssessment DEF Dies
  <2>2. EvidenceInv'
    BY <1>3 DEF Dies, Crash, attempt, science, GateInv, EvidenceInv
  <2> QED
    BY <1>1, <2>1, <2>2 DEF GateInv
<1>4. CASE Assess
  <2>1. EvidenceInv'
    BY <1>4
    DEF Assess, Resolve, Load, Check, HashEvents, HashFiles, CompareResult, vars, GateInv,
        EvidenceInv
  <2>2. CASE \E via \in {"manifest", "link"} : Resolve(via)
    BY <1>1, <2>1, <2>2 DEF Resolve, GateInv, Assessed, Reading
  <2>3. CASE Load
    BY <1>1, <2>1, <2>3, LoadSound DEF GateInv
  <2>4. CASE HashEvents \/ HashFiles \/ CompareResult
    BY <1>1, <2>1, <2>4, CheckSound DEF GateInv
  <2> QED
    BY <1>4, <2>2, <2>3, <2>4 DEF Assess
<1>5. CASE UNCHANGED gateVars \/ (Terminated /\ UNCHANGED <<declared, repeated, gate>>)
  <2>1. UNCHANGED <<vars, declared, repeated, gate>>
    BY <1>5 DEF gateVars, Terminated
  <2> QED
    BY <1>1, <2>1 DEF vars, GateInv, EvidenceInv, Assessed, Relies
<1> QED
  BY <1>2, <1>3, <1>4, <1>5 DEF GateNext

LEMMA GateStart == GateInit => GateInv
<1> SUFFICES ASSUME GateInit PROVE GateInv
  OBVIOUS
<1>1. Init /\ declared = "no" /\ gate = [stage |-> "idle"]
  BY DEF GateInit, Idle
<1>2. TypeInv /\ SafetyInv /\ AccountInv
  BY <1>1, InitType, InitSafety, InitAccounts
<1>3. StateInv /\ EvidenceInv
  BY <1>1 DEF Init, StateInv, EvidenceInv
<1>4. Assessed
  BY <1>1 DEF Assessed, Reading
<1> QED
  BY <1>2, <1>3, <1>4 DEF GateInv, ManagedInv

(* What the gate judges reusable did all its work, and stays accepted unless *)
(* its manifest was read directly while its last write was in doubt; an      *)
(* attempt that finished and published is never refused for its evidence.    *)
(* This holds of every plan with a round, an agent and a result file: the    *)
(* gate refuses the others whatever became of them.                          *)
THEOREM ReusedRunsAreSound ==
    ASSUME Rounds > 0, Agents > 0, Files > 0
    PROVE  GateSpec => []ReuseIsSound
<1>1. GateInit => GateInv
  BY GateStart
<1>2. GateInv /\ [GateNext]_gateVars => GateInv'
  BY GateStep DEF Planned
<1>3. GateInv => ReuseIsSound
  <2> SUFFICES ASSUME GateInv PROVE ReuseIsSound
    OBVIOUS
  <2>1. /\ SafetyInv
        /\ gate.stage = "reusable" => Relies(gate)
        /\ gate.stage = "refused" => ~gate.due
    BY DEF GateInv, ManagedInv, Assessed, Reading
  <2>2. ctx = "FINISHED" => Accepted(disk) /\ logged["RunFailed"] = 0
    BY <2>1 DEF SafetyInv, DiskInv, AcceptedIsSealed
  <2> QED
    BY <2>1, <2>2 DEF Relies, ReuseIsSound, Work
<1> QED
  BY <1>1, <1>2, <1>3, PTL DEF GateSpec
=============================================================================
