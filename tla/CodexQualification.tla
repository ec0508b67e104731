------------------------- MODULE CodexQualification -------------------------
(***************************************************************************)
(* experiments/model_qualification.py asks one provider about a list of    *)
(* cases, one after the other.  With nmsim/codex_exec.py every case is a   *)
(* process of its own: probed once, started with bounded pipes and a hard  *)
(* timeout, watched by reader threads that may kill it, and judged by its  *)
(* exit code, its event stream and its output file in a fixed order.  Any  *)
(* failure of it ends the run; a mock provider's failure is only counted.  *)
(*                                                                         *)
(* The child is a process of the environment: it writes, exits, overruns   *)
(* or hangs by itself, and goes on when nmsim is killed.  The executable   *)
(* is assumed to stay the one that was probed.                             *)
(***************************************************************************)
EXTENDS Naturals, Sequences, FiniteSets

CONSTANTS
    Cases,      \* number of selected cases
    Controls,   \* reviewed configuration keys that the probe may have to diagnose
    MaxFaults   \* bound: writes that raise, interrupts, refused launches

ASSUME QualificationAssumption ==
    Cases \in Nat /\ Controls \in Nat /\ MaxFaults \in Nat

VARIABLES
    pc,        \* where the program stands
    kind,      \* "codex_exec" or "mock"
    probe,     \* stages of probe_codex_cli that have passed
    case,      \* current case, 0 before the first
    child,     \* the process of the current turn
    turn,      \* what it does, unknown to the program
    heard,     \* the reader threads have read all of its output
    killed,    \* why the group was killed: {}, {"limit"}, {"timeout"} or both
    calls,     \* provider_calls_attempted, _succeeded, _failed
    history,   \* call_metadata_history: [case, status]
    rows,      \* provider_call_metadata of the manifest: [case, of, ok]
    mem, disk, \* the manifest: in memory, and run_manifest.json
    faults

process == <<child, turn, heard, killed>>
provider == <<calls, history>>
vars == <<pc, kind, probe, case, process, provider, rows, mem, disk, faults>>

-----------------------------------------------------------------------------
(* Turns of the child *)

Stages == <<"version", "exec help", "app-server help", "strict config",
            "features", "login status">>

(* exit: 0, or a class of _classify_nonzero; stream: what the event parser  *)
(* makes of stdout; file: the output message; loud: more than the limit;    *)
(* held: a descendant keeps the pipe open after the exit, and the part of   *)
(* the stream that is still in the reader's buffer is never seen.           *)
Turns ==
    [exit : {"zero", "usage", "other"},
     stream : {"final", "nofinal", "invalid"},
     file : {"same", "differs", "invalid", "missing"},
     loud : BOOLEAN, held : BOOLEAN]

NoTurn == CHOOSE t \in Turns : t.exit = "zero"

(* What the parser sees: a stream cut short has lost its final message or   *)
(* ends within a line.                                                      *)
Seen == IF heard THEN {turn.stream} ELSE {turn.stream, "nofinal", "invalid"}

(* validate_codex_decision: the file holds a decision of the fixed schema.  *)
ValidDecision(file) == file \in {"same", "differs"}

(* Seeded bug: the output file alone decides.                               *)
MutantVerdict(stream) ==
    IF "limit" \in killed THEN "output_too_large"
    ELSE IF "timeout" \in killed THEN "subprocess_timeout"
    ELSE IF turn.exit # "zero" THEN "nonzero"
    ELSE IF ~ValidDecision(turn.file) THEN "output"
    ELSE "finished"

(* _run_limited_process and complete: the first check that fails names the  *)
(* error.                                                                   *)
Verdict(stream) ==
    IF "limit" \in killed THEN "output_too_large"
    ELSE IF "timeout" \in killed THEN "subprocess_timeout"
    ELSE IF child = "killed" \/ turn.exit # "zero" THEN "nonzero"
    ELSE IF stream = "invalid" THEN "json_event_stream_invalid"
    ELSE IF turn.file = "missing" THEN "output_missing"
    ELSE IF ~ValidDecision(turn.file) THEN "schema_validation_failed"
    ELSE IF stream = "nofinal" THEN "output_missing"
    ELSE IF turn.file = "differs" THEN "json_event_stream_invalid"
    ELSE "finished"

-----------------------------------------------------------------------------
(* Effects *)

Minus(a, b) == IF a > b THEN a - b ELSE 0
Raise == faults < MaxFaults /\ faults' = faults + 1

(* RunManifest.write_atomic, after an event or on its own.                  *)
Written(m, ok, bad) ==
    /\ mem' = m
    /\ \/ disk' = m /\ pc' = ok /\ UNCHANGED faults
       \/ Raise /\ disk' \in {disk, m} /\ pc' = bad

(* sync_llm_accounting: a codex provider's own counters are taken over.     *)
Synced(m) == IF kind = "codex_exec" THEN [m EXCEPT !.calls = calls, !.history = history] ELSE m

Skipping(m) ==
    [m EXCEPT !.cases.skipped = Minus(Cases, m.cases.completed + m.cases.failed)]

Init ==
    /\ pc = "guard" /\ kind \in {"codex_exec", "mock"}
    /\ probe = 0 /\ case = 0
    /\ child = "none" /\ turn = NoTurn /\ heard = FALSE /\ killed = {}
    /\ calls = [attempted |-> 0, succeeded |-> 0, failed |-> 0] /\ history = <<>>
    /\ rows = <<>>
    /\ mem = [status |-> "running", requests |-> 0, responses |-> 0,
              cases |-> [attempted |-> 0, completed |-> 0, failed |-> 0, skipped |-> Cases],
              calls |-> calls, history |-> <<>>]
    /\ disk = mem
    /\ faults = 0

(* _validate_provider_execution_guard: an unreviewed provider, more than    *)
(* one worker, or a real run that is not confirmed case by case.            *)
Refuse ==
    /\ pc = "guard" /\ pc' = "fail"
    /\ UNCHANGED <<kind, probe, case, process, provider, rows, mem, disk, faults>>

(* _initialise_manifest; the dry run goes straight to the export.           *)
Guard ==
    /\ pc = "guard"
    /\ \/ Written(mem, IF kind = "mock" THEN "case" ELSE "probe", "fail")
       \/ Written(mem, "export", "fail")
    /\ UNCHANGED <<kind, probe, case, process, provider, rows>>

(* probe_codex_cli runs one short process per stage; a stage that does not  *)
(* pass, diagnosed or not, means that no provider is built.                 *)
ProbeStage ==
    /\ pc = "probe" /\ probe < Len(Stages)
    /\ \/ probe' = probe + 1 /\ UNCHANGED pc
       \/ /\ pc' = IF Stages[probe + 1] = "strict config" /\ Controls > 0
                   THEN "diagnose" ELSE "fail"
          /\ UNCHANGED probe
    /\ UNCHANGED <<kind, case, process, provider, rows, mem, disk, faults>>

Diagnose ==   \* every reviewed key is tried on its own, and then the probe fails anyway
    /\ pc = "diagnose" /\ pc' = "fail"
    /\ UNCHANGED <<kind, probe, case, process, provider, rows, mem, disk, faults>>

Construct ==   \* CodexExecLLM.__init__: the binary and the controls are the probed ones
    /\ pc = "probe" /\ probe = Len(Stages)
    /\ pc' \in {"case", "fail"}
    /\ UNCHANGED <<kind, probe, case, process, provider, rows, mem, disk, faults>>

-----------------------------------------------------------------------------
(* One case *)

BeginCase ==   \* counted, then LLMRequestRecorded through the observer
    /\ pc = "case" /\ case < Cases
    /\ case' = case + 1
    /\ LET m == [mem EXCEPT !.cases.attempted = @ + 1,
                            !.cases.skipped = Minus(Cases, mem.cases.attempted + 1),
                            !.requests = @ + 1]
       IN  \/ Written(m, "prepare", "fail")
           \/ /\ Raise /\ pc' = "fail" /\ UNCHANGED disk
              /\ mem' = [m EXCEPT !.requests = mem.requests]
    /\ UNCHANGED <<kind, probe, process, provider, rows>>

(* The mock answers or raises; nothing else happens.                        *)
MockCompletes ==
    /\ pc = "prepare" /\ kind = "mock"
    /\ pc' \in {"respond", "failed"}
    /\ UNCHANGED <<kind, probe, case, process, provider, rows, mem, disk, faults>>

(* complete up to the launch: too large an input or an unusable temporary   *)
(* directory raises before the call has metadata or is counted.             *)
Prepare ==
    /\ pc = "prepare" /\ kind = "codex_exec"
    /\ \/ /\ history' = Append(history, [case |-> case, status |-> "active"])
          /\ calls' = [calls EXCEPT !.attempted = @ + 1]
          /\ pc' = "launch" /\ UNCHANGED faults
       \/ Raise /\ pc' = "failed" /\ UNCHANGED provider
    /\ UNCHANGED <<kind, probe, case, process, rows, mem, disk>>

(* The outcome of the call under way.                                       *)
Settle(status, next) ==
    /\ calls' = IF status = "finished" THEN [calls EXCEPT !.succeeded = @ + 1]
                ELSE [calls EXCEPT !.failed = @ + 1]
    /\ history' = [history EXCEPT ![Len(history)].status = status]
    /\ pc' = next

Launch ==   \* Popen in a session of its own, or an error that started no process
    /\ pc = "launch"
    /\ \/ /\ child' = "running" /\ turn' \in Turns /\ heard' = FALSE /\ killed' = {}
          /\ pc' = "started"
          /\ UNCHANGED <<provider, faults>>
       \/ Raise /\ Settle("failed", "failed") /\ UNCHANGED process
    /\ UNCHANGED <<kind, probe, case, rows, mem, disk>>

Wait ==   \* the threads are started, then process.wait(timeout)
    /\ pc = "started" /\ pc' = "wait"
    /\ UNCHANGED <<kind, probe, case, process, provider, rows, mem, disk, faults>>

ChildExits ==
    /\ child = "running" /\ child' = "exited"
    /\ UNCHANGED <<pc, kind, probe, case, turn, heard, killed, provider, rows, mem, disk, faults>>

(* A reader thread reaches the end of the stream, or passes the limit and   *)
(* kills the group, also after the process has exited.                      *)
Read ==
    /\ pc \in {"wait", "join"} /\ ~heard
    /\ turn.loud \/ (child \in {"exited", "killed"} /\ ~turn.held)
    /\ heard' = TRUE
    /\ IF turn.loud
       THEN /\ killed' = killed \union {"limit"}
            /\ child' = IF child = "running" THEN "killed" ELSE child
       ELSE UNCHANGED <<child, killed>>
    /\ UNCHANGED <<pc, kind, probe, case, turn, provider, rows, mem, disk, faults>>

(* Seeded bug: the group is not killed before the second, unbounded wait.   *)
MutantTimeout ==
    /\ pc = "wait" /\ child = "running" /\ killed = {}
    /\ killed' = {"timeout"}
    /\ UNCHANGED <<pc, kind, probe, case, child, turn, heard, provider, rows, mem, disk, faults>>

Timeout ==
    /\ pc = "wait" /\ child = "running"
    /\ killed' = killed \union {"timeout"} /\ child' = "killed"
    /\ pc' = "join"
    /\ UNCHANGED <<kind, probe, case, turn, heard, provider, rows, mem, disk, faults>>

Reap ==   \* wait returns; each thread is joined for two seconds at most
    /\ pc = "wait" /\ child \in {"exited", "killed"}
    /\ pc' = "join"
    /\ UNCHANGED <<kind, probe, case, process, provider, rows, mem, disk, faults>>

Judge ==   \* the end of complete
    /\ pc = "join"
    /\ \E stream \in Seen :
          IF Verdict(stream) = "finished" THEN Settle("finished", "respond")
          ELSE Settle("failed", "failed")
    /\ child' = IF child = "running" THEN "running" ELSE "none"
    /\ UNCHANGED <<kind, probe, case, turn, heard, killed, rows, mem, disk, faults>>

(* _safe_codex_metadata(last_call_metadata): the metadata of the last call  *)
(* that was prepared, of this case or, when it raised before, another's.    *)
Row(ok) == IF history = <<>> THEN <<>>
           ELSE << [case |-> case, of |-> history[Len(history)].case, ok |-> ok] >>

Respond ==   \* LLMResponseRecorded, evaluate_response, AgentDecisionParsed, completed
    /\ pc = "respond"
    /\ rows' = rows \o Row(TRUE)
    /\ LET m == [mem EXCEPT !.responses = @ + 1]
       IN  \/ Written(m, "complete", "fail")
           \/ Raise /\ pc' = "fail" /\ UNCHANGED <<mem, disk>>
    /\ UNCHANGED <<kind, probe, case, process, provider>>

CompleteCase ==
    /\ pc = "complete"
    /\ mem' = [mem EXCEPT !.cases.completed = @ + 1]
    /\ pc' = "case"
    /\ UNCHANGED <<kind, probe, case, process, provider, rows, disk, faults>>

(* Seeded bug: a codex failure is counted and the next case is asked.       *)
MutantCaseFailed ==
    /\ pc = "failed"
    /\ rows' = rows \o Row(FALSE)
    /\ LET m == [mem EXCEPT !.cases.failed = @ + 1]
       IN  mem' = m /\ disk' = m /\ pc' = "case" /\ UNCHANGED faults
    /\ UNCHANGED <<kind, probe, case, process, provider>>

(* The except clause: the case is counted as failed and announced; a mock   *)
(* goes on, codex writes its accounts and raises.                           *)
CaseFailed ==
    /\ pc = "failed"
    /\ rows' = rows \o Row(FALSE)
    /\ LET counted == [mem EXCEPT !.cases.failed = @ + 1]
           m == IF kind = "mock" THEN counted ELSE Skipping(Synced(counted))
       IN  \/ Written(m, IF kind = "mock" THEN "case" ELSE "fail", "fail")
           \/ Raise /\ mem' = counted /\ pc' = "fail" /\ UNCHANGED disk
    /\ UNCHANGED <<kind, probe, case, process, provider>>

-----------------------------------------------------------------------------
Summarise ==
    /\ pc = "case" /\ case = Cases
    /\ Written(Skipping(Synced(mem)), "export", "fail")
    /\ UNCHANGED <<kind, probe, case, process, provider, rows>>

Export ==   \* the result files, each created exclusively
    /\ pc = "export"
    /\ \/ pc' = "finish" /\ UNCHANGED faults
       \/ Raise /\ pc' = "fail"
    /\ UNCHANGED <<kind, probe, case, process, provider, rows, mem, disk>>

Finish ==   \* ManagedRunContext.finish; ManagedRun has its steps
    /\ pc = "finish"
    /\ \/ /\ mem' = [Synced(mem) EXCEPT !.status = "finished"] /\ disk' = mem'
          /\ pc' = "over" /\ UNCHANGED faults
       \/ Raise /\ pc' = "fail" /\ UNCHANGED <<mem, disk>>
    /\ UNCHANGED <<kind, probe, case, process, provider, rows>>

Fail ==   \* ManagedRunContext.fail
    /\ pc = "fail"
    /\ Written([Synced(mem) EXCEPT !.status = "failed"], "over", "over")
    /\ UNCHANGED <<kind, probe, case, process, provider, rows>>

(* KeyboardInterrupt is no Exception: complete settles its call and kills   *)
(* the group only from within wait; the case is not counted as failed.      *)
Interrupt ==
    /\ pc \notin {"over", "killed", "fail", "finish"}
    /\ Raise
    /\ IF pc \in {"launch", "started", "wait", "join"} THEN Settle("failed", "fail")
       ELSE pc' = "fail" /\ UNCHANGED provider
    /\ child' = IF pc = "wait" /\ child = "running" THEN "killed"
                ELSE IF pc = "started" /\ child = "running" THEN "stray" ELSE child
    /\ UNCHANGED <<kind, probe, case, turn, heard, killed, rows, mem, disk>>

Kill ==   \* nmsim dies; its child has a session of its own and lives on
    /\ pc \notin {"over", "killed"} /\ pc' = "killed"
    /\ UNCHANGED <<kind, probe, case, process, provider, rows, mem, disk, faults>>

Terminated == pc \in {"over", "killed"} /\ UNCHANGED vars

Run == \/ Refuse \/ Guard \/ ProbeStage \/ Diagnose \/ Construct \/ BeginCase \/ MockCompletes
       \/ Prepare \/ Launch \/ Wait \/ Timeout \/ Reap \/ Judge \/ Respond
       \/ CompleteCase \/ CaseFailed \/ Summarise \/ Export \/ Finish \/ Fail

Next == Run \/ ChildExits \/ Read \/ Interrupt \/ Kill \/ Terminated

(* The process itself keeps running; the wait has a timeout and the joins   *)
(* of the reader threads are bounded, so neither child nor reader must move. *)
Spec == Init /\ [][Next]_vars
FairSpec == Spec /\ WF_vars(Run)

-----------------------------------------------------------------------------
(* The first failed turn is the last one: nothing is started after it, by   *)
(* a retry or for the next case, the prompt of a case is sent at most once, *)
(* and only after every stage of the probe.  A manifest with a verdict has  *)
(* no live turn, but for a child that an interrupt caught between Popen and *)
(* the wait.                                                                *)
FailureIsFinal ==
    /\ \A i, j \in DOMAIN history : i < j =>
          history[i].status = "finished" /\ history[i].case < history[j].case
    /\ history # <<>> => probe = Len(Stages)
    /\ child = "running" /\ pc # "killed" => pc \in {"started", "wait"}

(* A case counts as completed only when its own turn ended by itself with   *)
(* exit code 0 and said the same in its stream and its file; its metadata   *)
(* row is its own.  The cases of a run with a verdict add up: all planned   *)
(* ones are completed, failed or skipped, except the one an interrupt or a  *)
(* raising write left between its request and its outcome.                  *)
CasesAddUp ==
    /\ pc = "respond" /\ kind = "codex_exec" =>
          /\ turn.exit = "zero" /\ turn.stream = "final" /\ turn.file = "same"
          /\ killed = {}
    /\ \A i \in DOMAIN rows : rows[i].ok => rows[i].of = rows[i].case
    /\ disk.status # "running" =>
          LET c == disk.cases
          IN  /\ c.attempted - (c.completed + c.failed) \in {0, 1}
              /\ c.completed <= disk.responses /\ disk.responses <= disk.requests
              /\ c.completed + c.failed + c.skipped \in {Cases, Cases - 1}
    /\ disk.status = "finished" /\ case > 0 =>
          disk.cases.completed + disk.cases.failed = Cases /\ disk.cases.skipped = 0

(* Left alone, a run comes to an end, whatever its child does: hangs,       *)
(* floods the pipe, or leaves a descendant that holds it open.              *)
Concludes == <>(pc \in {"over", "killed"})
=============================================================================
