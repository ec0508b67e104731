----------------------------- MODULE ManagedRun -----------------------------
(***************************************************************************)
(* One managed attempt: the body of nmsim/run.py:run under                 *)
(* `with ManagedRunContext.create(...)`, with the RunManager it owns.      *)
(* One process executes it, so the interesting interleaving is between     *)
(* its steps and the failures around them: every manifest write, event     *)
(* append or symlink may raise, the scientific body may raise anywhere,    *)
(* and the process may be killed between any two steps.                    *)
(*                                                                         *)
(* The manifest exists twice: `mem` is the dictionary the program mutates, *)
(* `disk` what the last successful RunManifest.write_atomic left in        *)
(* run_manifest.json (temporary file, fsync, os.replace).  The event files *)
(* are append-only; their content is abstracted to how many events of      *)
(* each type they hold, and a SHA-256 descriptor to the content it was     *)
(* computed from.                                                          *)
(***************************************************************************)
EXTENDS Naturals

CONSTANTS
    Rounds,      \* cfg.n_rounds
    Agents,      \* LLM agents asked in each round: one request, one decision each
    Files,       \* canonical result files run.py writes into the run directory
    MaxFaults,   \* bound: how many I/O calls may raise in one behaviour
    FaultKinds   \* "clean": raises before taking effect; "late": takes effect, then raises

ASSUME ConstantsAssumption ==
    /\ Rounds \in Nat /\ Agents \in Nat /\ Files \in Nat /\ MaxFaults \in Nat
    /\ FaultKinds \subseteq {"clean", "late"}

VARIABLES
    pc,        \* where the process stands
    frame,     \* who called ctx.fail: finish's except clause or __exit__
    ctx,       \* ManagedRunContext._state
    terminal,  \* RunManager._terminal
    mem,       \* the manifest dictionary
    disk,      \* run_manifest.json
    logged,    \* events.jsonl: events of each type appended so far
    exported,  \* canonical files written
    round,     \* current round of run_sim, 0 before the first
    k,         \* agents already served in the current phase of the round
    recorder,  \* RecordingLLM.request_count and response_count
    latest,    \* what out_root/latest points to
    flat,      \* what a flat compatibility path of out_root points to
    faults     \* I/O faults so far

vars == <<pc, frame, ctx, terminal, mem, disk, logged, exported, round, k,
          recorder, latest, flat, faults>>

-----------------------------------------------------------------------------
(* Types *)

Counted == {"RoundStarted", "RoundFinished", "LLMRequestRecorded",
            "LLMResponseRecorded", "AgentDecisionParsed"}
EventTypes == Counted \union {"RunStarted", "RunFinished", "RunFailed"}

Manifest ==
    [status : {"running", "finished", "failed"},
     state : {"NEW", "ACTIVE", "FINISHED", "FAILED"},   \* managed_context.state
     complete : BOOLEAN,      \* outputs_complete and managed_run_completed
     simulated : BOOLEAN,     \* simulation_computation_completed
     runs : [started : 0..1, completed : 0..1, failed : 0..1],
     counts : [Counted -> Nat],
     requests : [attempted : Nat, completed : Nat],
     derived : [roundsFailed : 0..1, roundsSkipped : Nat,
                decisionsFailed : Nat, decisionsSkipped : Nat],
     results : [files : Nat, events : [EventTypes -> Nat]]]

SimulationSteps == {"roundStart", "ask", "call", "store", "decide", "roundEnd"}
BodySteps == {"prepare", "simulate", "settle", "export"} \union SimulationSteps
FinishSteps == {"samples", "collect", "announce", "refresh", "commit"}
PublishSteps == {"publishLatest", "publishFlat", "publishWrite", "publishWarn"}
FailSteps == {"fail", "failMark", "failAnnounce", "failCollect", "failRefresh",
              "failCommit"}
Stopped == {"done", "crashed"}
Steps == {"create", "announceStart", "activate", "simReturned", "simRaised",
          "finish", "exit"}
         \union BodySteps \union FinishSteps \union PublishSteps
         \union FailSteps \union Stopped

TypeOK ==
    /\ pc \in Steps
    /\ frame \in {"none", "finish", "exit"}
    /\ ctx \in {"NEW", "ACTIVE", "FINISHED", "FAILED"}
    /\ terminal \in BOOLEAN
    /\ mem \in Manifest
    /\ disk \in Manifest
    /\ logged \in [EventTypes -> Nat]
    /\ exported \in 0..Files
    /\ round \in 0..Rounds
    /\ k \in 0..Agents
    /\ recorder \in [requested : Nat, responded : Nat]
    /\ latest \in {"none", "other", "foreign", "self"}
    /\ flat \in {"none", "other", "foreign", "self"}
    /\ faults \in 0..MaxFaults

(* What a reader of the run directory takes for a successful run: the three *)
(* manifest fields together (docs/MANAGED_RUN_LIFECYCLE.md, result_reuse).  *)
Accepted(m) == m.status = "finished" /\ m.complete

-----------------------------------------------------------------------------
(* Effects shared by the steps *)

Minus(a, b) == IF a > b THEN a - b ELSE 0
NoEvents == [t \in EventTypes |-> 0]

(* RunManager.__init__'s initial dictionary. *)
FreshManifest ==
    [status |-> "running", state |-> "NEW", complete |-> FALSE,
     simulated |-> FALSE,
     runs |-> [started |-> 0, completed |-> 0, failed |-> 0],
     counts |-> [t \in Counted |-> 0],
     requests |-> [attempted |-> 0, completed |-> 0],
     derived |-> [roundsFailed |-> 0, roundsSkipped |-> 0,
                  decisionsFailed |-> 0, decisionsSkipped |-> 0],
     results |-> [files |-> 0, events |-> NoEvents]]

(* _refresh_derived of manifest m while the context is in state s. *)
Derived(m, s) ==
    LET c == m.counts
        roundsFailed == IF s = "FAILED" /\ c["RoundStarted"] > c["RoundFinished"]
                        THEN 1 ELSE m.derived.roundsFailed
        decisionsFailed == Minus(c["LLMRequestRecorded"], c["AgentDecisionParsed"])
    IN  [m EXCEPT !.derived =
            [roundsFailed |-> roundsFailed,
             roundsSkipped |-> Minus(Rounds, c["RoundFinished"] + roundsFailed),
             decisionsFailed |-> decisionsFailed,
             decisionsSkipped |-> Minus(Rounds * Agents,
                                        c["AgentDecisionParsed"] + decisionsFailed)]]

(* Seeded bug: the recorder's totals are added to the observed ones.        *)
MutantSyncedTwice(m, s) ==
    Derived([m EXCEPT
        !.requests = [attempted |-> m.requests.attempted + recorder.requested,
                      completed |-> m.requests.completed + recorder.responded]],
        s)

(* sync_llm_accounting: the recorder's own counters raise the observed ones. *)
Larger(a, b) == IF a > b THEN a ELSE b
Synced(m, s) ==
    Derived([m EXCEPT
        !.requests = [attempted |-> Larger(m.requests.attempted, recorder.requested),
                      completed |-> Larger(m.requests.completed, recorder.responded)]],
        s)

Raise == faults < MaxFaults /\ faults' = faults + 1

(* What a raising manifest write or event append may have left behind. *)
Left(old, new) ==
    (IF "clean" \in FaultKinds THEN {old} ELSE {})
        \union (IF "late" \in FaultKinds THEN {new} ELSE {})

(* RunManifest.write_atomic of m, going on at ok or raising to bad. *)
Write(m, ok, bad) ==
    /\ mem' = m
    /\ \/ disk' = m /\ pc' = ok /\ UNCHANGED faults
       \/ Raise /\ disk' \in Left(disk, m) /\ pc' = bad

(* EventLogger.emit: one fsynced append, or an exception around it. *)
Logged(t) == [logged EXCEPT ![t] = @ + 1]
Append(t, ok, bad) ==
    \/ logged' = Logged(t) /\ pc' = ok /\ UNCHANGED faults
    \/ Raise /\ logged' \in Left(logged, Logged(t)) /\ pc' = bad

(* _observe_event: counted in memory, derived fields refreshed, persisted. *)
Counting(m, t) ==
    LET c == [m EXCEPT !.counts[t] = @ + 1]
        q == IF t = "LLMRequestRecorded" THEN [c EXCEPT !.requests.attempted = @ + 1]
             ELSE IF t = "LLMResponseRecorded"
                  THEN [c EXCEPT !.requests.completed = @ + 1]
                  ELSE c
    IN  Derived(q, "ACTIVE")

(* Seeded bug: the observer counts before the event is in the log.          *)
MutantCountFirst(t, ok) ==
    \/ logged' = Logged(t) /\ Write(Counting(mem, t), ok, "simRaised")
    \/ /\ Raise /\ logged' \in Left(logged, Logged(t)) /\ pc' = "simRaised"
       /\ mem' = Counting(mem, t) /\ disk' = mem'

(* _ManagedEventObserver.emit inside the simulation: the event first, then  *)
(* the count, then the manifest; an exception leaves what was done so far.  *)
Observe(t, ok) ==
    \/ logged' = Logged(t) /\ Write(Counting(mem, t), ok, "simRaised")
    \/ /\ Raise /\ logged' \in Left(logged, Logged(t)) /\ pc' = "simRaised"
       /\ UNCHANGED <<mem, disk>>

attempt == <<frame, ctx, terminal>>
science == <<exported, round, k, recorder>>
links == <<latest, flat>>

-----------------------------------------------------------------------------
Init ==
    /\ pc = "create" /\ frame = "none" /\ ctx = "NEW" /\ terminal = FALSE
    /\ mem = FreshManifest /\ disk = FreshManifest   \* mkdir + first write done
    /\ logged = NoEvents
    /\ exported = 0 /\ round = 0 /\ k = 0
    /\ recorder = [requested |-> 0, responded |-> 0]
    /\ latest \in {"none", "other", "foreign"}
    /\ flat \in {"none", "other", "foreign"}
    /\ faults = 0

(* RunManager.__init__ emits RunStarted; an event-log error only adds a     *)
(* warning, and the warning is written.                                     *)
EmitRunStarted ==
    /\ pc = "create"
    /\ Append("RunStarted", "activate", "announceStart")
    /\ UNCHANGED <<attempt, mem, disk, science, links>>

WarnRunStarted ==
    /\ pc = "announceStart"
    /\ Write(mem, "activate", "done")
    /\ UNCHANGED <<attempt, logged, science, links>>

(* ManagedRunContext.__init__: a failed write means no context, so nobody   *)
(* ever calls fail: the directory stays behind with a running manifest.     *)
Activate ==
    /\ pc = "activate"
    /\ ctx' = "ACTIVE"
    /\ Write([mem EXCEPT !.state = "ACTIVE"], "prepare", "done")
    /\ UNCHANGED <<frame, terminal, logged, science, links>>

PrepareLLM ==   \* provider_setup or replay_preflight
    /\ pc = "prepare"
    /\ Write(mem, "simulate", "exit")
    /\ UNCHANGED <<attempt, logged, science, links>>

StartSimulation ==   \* execute_simulation up to the call of run_sim
    /\ pc = "simulate"
    /\ Write([mem EXCEPT !.runs.started = 1],
             IF Rounds = 0 THEN "simReturned" ELSE "roundStart", "exit")
    /\ UNCHANGED <<attempt, logged, science, links>>

-----------------------------------------------------------------------------
(* run_sim, reduced to the events the managed observer counts. *)

(* The agents are served in list order; 0 again after the last one. *)
NextAgent == IF k + 1 < Agents THEN k + 1 ELSE 0

StartRound ==
    /\ pc = "roundStart"
    /\ round' = round + 1 /\ k' = 0
    /\ Observe("RoundStarted", IF Agents = 0 THEN "roundEnd" ELSE "ask")
    /\ UNCHANGED <<attempt, exported, recorder, links>>

AskAgents ==   \* RecordingLLM._make_calls: the whole batch is counted, then emitted
    /\ pc = "ask"
    /\ recorder' = IF k = 0 THEN [recorder EXCEPT !.requested = @ + Agents]
                   ELSE recorder
    /\ k' = NextAgent
    /\ Observe("LLMRequestRecorded", IF NextAgent = 0 THEN "call" ELSE "ask")
    /\ UNCHANGED <<attempt, exported, round, links>>

CallProvider ==   \* the inner complete_batch returned one response per prompt
    /\ pc = "call"
    /\ pc' = "store"
    /\ UNCHANGED <<attempt, mem, disk, logged, science, links, faults>>

StoreResponse ==   \* _store_responses: record appended and counted, then the event
    /\ pc = "store"
    /\ recorder' = [recorder EXCEPT !.responded = @ + 1]
    /\ k' = NextAgent
    /\ Observe("LLMResponseRecorded", IF NextAgent = 0 THEN "decide" ELSE "store")
    /\ UNCHANGED <<attempt, exported, round, links>>

ParseDecision ==
    /\ pc = "decide"
    /\ k' = NextAgent
    /\ Observe("AgentDecisionParsed", IF NextAgent = 0 THEN "roundEnd" ELSE "decide")
    /\ UNCHANGED <<attempt, exported, round, recorder, links>>

FinishRound ==
    /\ pc = "roundEnd"
    /\ Observe("RoundFinished", IF round = Rounds THEN "simReturned" ELSE "roundStart")
    /\ UNCHANGED <<attempt, science, links>>

SimulationReturned ==
    /\ pc = "simReturned"
    /\ Write([mem EXCEPT !.runs.completed = 1, !.runs.failed = 0, !.simulated = TRUE],
             "settle", "exit")
    /\ UNCHANGED <<attempt, logged, science, links>>

SimulationRaised ==   \* execute_simulation's except clause, which re-raises
    /\ pc = "simRaised"
    /\ Write([mem EXCEPT !.runs.failed = 1], "exit", "exit")
    /\ UNCHANGED <<attempt, logged, science, links>>

Settle ==   \* assert_replay_exhausted, set_population, sync_llm_accounting
    /\ pc = "settle"
    /\ Write(Synced(mem, ctx), "export", "exit")
    /\ UNCHANGED <<attempt, logged, science, links>>

Export ==   \* the canonical files, one after the other
    /\ pc = "export"
    /\ IF exported < Files
       THEN exported' = exported + 1 /\ UNCHANGED pc
       ELSE pc' = "finish" /\ UNCHANGED exported
    /\ UNCHANGED <<attempt, mem, disk, logged, round, k, recorder, links, faults>>

(* An exception or interrupt out of the with-body that is not an I/O fault  *)
(* of the lifecycle itself: provider set-up, replay mismatch, parser, CSV.  *)
BodyRaises ==
    /\ pc \in BodySteps
    /\ pc' = IF pc \in SimulationSteps THEN "simRaised" ELSE "exit"
    /\ UNCHANGED <<attempt, mem, disk, logged, science, links, faults>>

-----------------------------------------------------------------------------
(* ManagedRunContext.finish and RunManager.finish *)

(* Seeded bug: an error before the try block is nobody's. *)
MutantBeginFinish ==
    /\ pc = "finish"
    /\ Write(Synced(mem, ctx), "samples", "done")
    /\ UNCHANGED <<attempt, logged, science, links>>

BeginFinish ==   \* set_stage and sync_llm_accounting, both before the try block
    /\ pc = "finish"
    /\ Write(Synced(mem, ctx), "samples", "exit")
    /\ UNCHANGED <<attempt, logged, science, links>>

(* finish's except clause: the success flags are taken back, then fail runs. *)
Retract(m) == [m EXCEPT !.complete = FALSE, !.state = "ACTIVE"]

TryWrite(m, ok) ==
    \/ mem' = m /\ disk' = m /\ pc' = ok /\ UNCHANGED <<frame, faults>>
    \/ /\ Raise /\ disk' \in Left(disk, m)
       /\ mem' = Retract(m) /\ pc' = "fail" /\ frame' = "finish"

FinishSamples ==   \* the success flags, then set_samples persists them
    /\ pc = "samples"
    /\ TryWrite([mem EXCEPT !.complete = TRUE, !.state = "FINISHED"], "collect")
    /\ UNCHANGED <<ctx, terminal, logged, science, links>>

FinishCollect ==   \* collect_artifacts hashes every file, then writes
    /\ pc = "collect"
    /\ TryWrite([mem EXCEPT !.results = [files |-> exported, events |-> logged]],
                "announce")
    /\ UNCHANGED <<ctx, terminal, logged, science, links>>

FinishAnnounce ==   \* RunFinished is required: its failure fails the run
    /\ pc = "announce"
    /\ \/ /\ logged' = Logged("RunFinished") /\ pc' = "refresh"
          /\ UNCHANGED <<frame, mem, faults>>
       \/ /\ Raise /\ logged' \in Left(logged, Logged("RunFinished"))
          /\ mem' = Retract(mem) /\ pc' = "fail" /\ frame' = "finish"
    /\ UNCHANGED <<ctx, terminal, disk, science, links>>

(* Seeded bug: the event digests are not refreshed after RunFinished.       *)
MutantNoRefresh ==
    /\ pc = "refresh"
    /\ mem' = [mem EXCEPT !.status = "finished"] /\ terminal' = TRUE /\ pc' = "commit"
    /\ UNCHANGED <<frame, ctx, disk, logged, science, links, faults>>

FinishRefresh ==   \* status = finished, _refresh_event_artifacts, _terminal = True
    /\ pc = "refresh"
    /\ LET m == [mem EXCEPT !.status = "finished"]
       IN  \/ /\ mem' = [m EXCEPT !.results.events = logged]
              /\ terminal' = TRUE /\ pc' = "commit" /\ UNCHANGED <<faults, frame>>
           \/ /\ Raise /\ frame' = "finish" /\ pc' = "fail"   \* hashing raised
              /\ mem' = Retract(m) /\ UNCHANGED terminal
    /\ UNCHANGED <<ctx, disk, logged, science, links>>

FinishCommit ==   \* the write that makes the run accepted; only then FINISHED
    /\ pc = "commit"
    /\ TryWrite(mem, "publishLatest")
    /\ ctx' = IF pc' = "publishLatest" THEN "FINISHED" ELSE ctx
    /\ UNCHANGED <<terminal, logged, science, links>>

-----------------------------------------------------------------------------
(* publish_legacy_links: any exception only adds a warning to the manifest. *)

Symlink(link, next) ==   \* temporary symlink, then os.replace
    \/ link' = "self" /\ pc' = next /\ UNCHANGED faults
    \/ Raise /\ link' \in Left(link, "self") /\ pc' = "publishWarn"

PublishLatest ==
    /\ pc = "publishLatest"
    /\ \/ latest = "foreign" /\ pc' = "publishWrite" /\ UNCHANGED <<latest, faults>>
       \/ latest # "foreign" /\ Symlink(latest, "publishFlat")
    /\ UNCHANGED <<attempt, mem, disk, logged, science, flat>>

PublishFlat ==
    /\ pc = "publishFlat"
    /\ \/ flat = "foreign" /\ pc' = "publishWrite" /\ UNCHANGED <<flat, faults>>
       \/ flat # "foreign" /\ Symlink(flat, "publishWrite")
    /\ UNCHANGED <<attempt, mem, disk, logged, science, latest>>

PublishWrite ==
    /\ pc = "publishWrite"
    /\ Write(mem, "exit", "publishWarn")
    /\ UNCHANGED <<attempt, logged, science, links>>

PublishWarn ==
    /\ pc = "publishWarn"
    /\ Write(mem, "exit", "exit")
    /\ UNCHANGED <<attempt, logged, science, links>>

-----------------------------------------------------------------------------
(* __exit__, ManagedRunContext.fail and RunManager.fail *)

(* Seeded bug: __exit__ fails a context that has already finished.          *)
MutantExitFails ==
    /\ pc = "exit"
    /\ IF ctx # "FAILED" THEN pc' = "fail" /\ frame' = "exit"
       ELSE pc' = "done" /\ UNCHANGED frame
    /\ UNCHANGED <<ctx, terminal, mem, disk, logged, science, links, faults>>

Exit ==   \* fail or close; both are no-ops unless the context is ACTIVE
    /\ pc = "exit"
    /\ IF ctx = "ACTIVE" THEN pc' = "fail" /\ frame' = "exit"
       ELSE pc' = "done" /\ UNCHANGED frame
    /\ UNCHANGED <<ctx, terminal, mem, disk, logged, science, links, faults>>

(* Where fail returns or raises to: finish re-raises into __exit__. *)
FailCaller == IF frame = "finish" THEN "exit" ELSE "done"

FailSync ==   \* sync_llm_accounting while still ACTIVE; raising leaves it ACTIVE
    /\ pc = "fail"
    /\ Write(Synced(mem, ctx), "failMark", FailCaller)
    /\ UNCHANGED <<attempt, logged, science, links>>

(* Seeded bug: derived counters refreshed before the state is FAILED.       *)
MutantMarkStale ==
    /\ pc = "failMark"
    /\ ctx' = "FAILED"
    /\ LET r == mem.runs
           m == [Derived(mem, "ACTIVE") EXCEPT
                    !.complete = FALSE, !.state = "FAILED",
                    !.runs.failed = IF r.started = 1 /\ r.completed = 0 THEN 1 ELSE @]
       IN  IF terminal
           THEN mem' = m /\ pc' = FailCaller /\ UNCHANGED <<disk, faults>>
           ELSE Write(m, "failAnnounce", FailCaller)
    /\ UNCHANGED <<frame, terminal, logged, science, links>>

(* Seeded bug: status = failed is persisted before RunFailed is appended.   *)
MutantMarkFirst ==
    /\ pc = "failMark"
    /\ ctx' = "FAILED"
    /\ Write([Derived(mem, "FAILED") EXCEPT
                !.complete = FALSE, !.state = "FAILED", !.status = "failed"],
             "failAnnounce", FailCaller)
    /\ UNCHANGED <<frame, terminal, logged, science, links>>

(* FAILED in memory; RunManager.fail returns at once if already terminal,   *)
(* else set_samples persists the failed state.                              *)
FailMark ==
    /\ pc = "failMark"
    /\ ctx' = "FAILED"
    /\ LET r == mem.runs
           m == [Derived(mem, "FAILED") EXCEPT
                    !.complete = FALSE, !.state = "FAILED",
                    !.runs.failed = IF r.started = 1 /\ r.completed = 0 THEN 1 ELSE @]
       IN  IF terminal
           THEN mem' = m /\ pc' = FailCaller /\ UNCHANGED <<disk, faults>>
           ELSE Write(m, "failAnnounce", FailCaller)
    /\ UNCHANGED <<frame, terminal, logged, science, links>>

FailAnnounce ==
    /\ pc = "failAnnounce"
    /\ Append("RunFailed", "failCollect", FailCaller)
    /\ UNCHANGED <<attempt, mem, disk, science, links>>

FailCollect ==   \* status = failed; a collection error only becomes a warning
    /\ pc = "failCollect"
    /\ LET m == [mem EXCEPT !.status = "failed"]
       IN  \/ Write([m EXCEPT !.results = [files |-> exported, events |-> logged]],
                    "failRefresh", "failRefresh")
           \/ /\ Raise /\ mem' = m /\ pc' = "failRefresh" /\ UNCHANGED disk
    /\ UNCHANGED <<attempt, logged, science, links>>

FailRefresh ==
    /\ pc = "failRefresh"
    /\ \/ /\ mem' = [mem EXCEPT !.results.events = logged]
          /\ terminal' = TRUE /\ pc' = "failCommit" /\ UNCHANGED faults
       \/ Raise /\ pc' = FailCaller /\ UNCHANGED <<mem, terminal>>
    /\ UNCHANGED <<frame, ctx, disk, logged, science, links>>

FailCommit ==
    /\ pc = "failCommit"
    /\ Write(mem, FailCaller, FailCaller)
    /\ UNCHANGED <<attempt, logged, science, links>>

-----------------------------------------------------------------------------
Crash ==   \* SIGKILL or power loss between two effects
    /\ pc \notin Stopped
    /\ pc' = "crashed"
    /\ UNCHANGED <<attempt, mem, disk, logged, science, links, faults>>

Terminated == pc \in Stopped /\ UNCHANGED vars

Open == EmitRunStarted \/ WarnRunStarted \/ Activate \/ PrepareLLM
Simulate == \/ StartSimulation \/ StartRound \/ AskAgents \/ CallProvider
            \/ StoreResponse \/ ParseDecision \/ FinishRound
            \/ SimulationReturned \/ SimulationRaised \/ Settle \/ Export
Finish == \/ BeginFinish \/ FinishSamples \/ FinishCollect \/ FinishAnnounce
          \/ FinishRefresh \/ FinishCommit
Publish == PublishLatest \/ PublishFlat \/ PublishWrite \/ PublishWarn
Fail == \/ Exit \/ FailSync \/ FailMark \/ FailAnnounce \/ FailCollect
        \/ FailRefresh \/ FailCommit
Step == Open \/ Simulate \/ BodyRaises \/ Finish \/ Publish \/ Fail

Next == Step \/ Crash \/ Terminated

Spec == Init /\ [][Next]_vars

(* The interpreter keeps executing until the process stops or is killed. *)
FairSpec == Spec /\ WF_vars(Step)

-----------------------------------------------------------------------------
(* Safety *)

(* A manifest that a reader accepts was preceded by exactly one RunFinished *)
(* and no RunFailed, describes every canonical file, and its event digest   *)
(* is the digest of the event log as it stands: nothing was appended to the *)
(* log of an accepted run, whatever failed afterwards (finish, publication, *)
(* __exit__).                                                               *)
AcceptedIsSealed ==
    Accepted(disk) =>
        /\ logged["RunFinished"] = 1 /\ logged["RunFailed"] = 0
        /\ exported = Files
        /\ disk.results = [files |-> Files, events |-> logged]

(* A manifest whose status is failed was written by a context already in    *)
(* FAILED, after RunFailed reached the event log, with a digest of the log  *)
(* as it stands.                                                            *)
FailedIsSealed ==
    disk.status = "failed" =>
        /\ ctx = "FAILED" /\ disk.state = "FAILED" /\ ~disk.complete
        /\ logged["RunFailed"] = 1
        /\ disk.results.events = logged

(* An accepted run did all its planned work and says so: the counters the   *)
(* observer kept are the events in the log, the recorder's own counters     *)
(* agree, nothing is failed or skipped (docs/COMPLETION_ACCOUNTING.md).     *)
AcceptedIsAccounted ==
    Accepted(disk) =>
        /\ \A t \in Counted : disk.counts[t] = logged[t]
        /\ logged["RoundFinished"] = Rounds
        /\ logged["AgentDecisionParsed"] = Rounds * Agents
        /\ disk.requests = [attempted |-> Rounds * Agents,
                            completed |-> Rounds * Agents]
        /\ disk.simulated /\ disk.runs = [started |-> 1, completed |-> 1, failed |-> 0]
        /\ disk.derived.roundsFailed = 0 /\ disk.derived.roundsSkipped = 0
        /\ disk.derived.decisionsFailed = 0 /\ disk.derived.decisionsSkipped = 0

(* The accounting of a failed run partitions its plan: rounds and decisions *)
(* are completed, failed or skipped and never two of them, at most one      *)
(* round was cut off, a computation that started either completed or        *)
(* failed, and an export failure leaves the completed computation on record. *)
FailedPartitionsPlan ==
    disk.state = "FAILED" =>
        /\ disk.counts["RoundFinished"] + disk.derived.roundsFailed
              + disk.derived.roundsSkipped = Rounds
        /\ disk.counts["RoundStarted"]
              = disk.counts["RoundFinished"] + disk.derived.roundsFailed
        /\ disk.counts["AgentDecisionParsed"] + disk.derived.decisionsFailed
              + disk.derived.decisionsSkipped = Rounds * Agents
        /\ disk.runs.started = disk.runs.completed + disk.runs.failed
        /\ disk.simulated <=> disk.runs.completed = 1
        /\ exported > 0 => disk.simulated

(* The manifest on disk never claims more than the append-only event log    *)
(* can show, in any state, including the ones a crash freezes; and the      *)
(* request counters it reconciles with the recorder's are never behind it.  *)
CountsAreLogged ==
    /\ \A t \in Counted : disk.counts[t] <= logged[t]
    /\ disk.requests.completed <= disk.requests.attempted
    /\ disk.requests.completed <= recorder.responded

(* `latest` and the flat compatibility paths only ever lead to a run whose  *)
(* manifest is accepted; a failed or crashed attempt never takes them.      *)
LinksOnlyToAccepted ==
    latest = "self" \/ flat = "self" => Accepted(disk) /\ ctx = "FINISHED"

(* ManagedRun implements RunLifecycle under every fault: a verdict once      *)
(* public or rejected is final, and one whose write was in doubt is taken    *)
(* back before the context fails.                                            *)
Lifecycle == INSTANCE RunLifecycle WITH
    state <- ctx,
    verdict <- IF Accepted(disk) THEN "accepted"
               ELSE IF disk.status = "failed" THEN "rejected" ELSE "unfinished",
    public <- latest = "self"

ImplementsLifecycle == Lifecycle!Spec

(* Whatever failed so far, an attempt whose context is ACTIVE ends in a       *)
(* terminal state unless it is killed or something fails again, and its      *)
(* manifest tells the same story.  What fails again is not the end either,   *)
(* except in the fail of __exit__, which nobody repeats.  Only after         *)
(* RunFinished, when the write that accepts failed, there is no failure      *)
(* record: the manifest is merely not accepted, because RunManager is        *)
(* terminal already.                                                         *)
SameStory ==
    \/ ctx = "FINISHED" /\ Accepted(disk)
    \/ ctx = "FAILED" /\ disk.status = "failed"
    \/ ctx = "FAILED" /\ logged["RunFinished"] = 1 /\ ~Accepted(disk)
FailsAgain(n) == faults > n /\ (pc \notin Stopped \/ frame = "exit")
Concludes ==
    \A n \in 0..MaxFaults :
        (ctx = "ACTIVE" /\ pc \notin Stopped /\ faults = n)
            ~> (pc = "crashed" \/ FailsAgain(n) \/ (pc = "done" /\ SameStory))

=============================================================================
