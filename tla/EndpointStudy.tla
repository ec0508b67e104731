--------------------------- MODULE EndpointStudy ---------------------------
(***************************************************************************)
(* The endpoint study, experiments/endpoint_stochasticity.py: a frozen     *)
(* schedule of blocks, each a batch of requests sent by coroutines under a *)
(* semaphore of the block's own size.  gather raises at the first failure  *)
(* and leaves the other coroutines running while the provider is closed;   *)
(* only asyncio.run cancels what is left.  After a whole block its private *)
(* rows are appended, then its public rows, then the manifest is told.     *)
(*                                                                         *)
(* A coroutine runs without interruption between two awaits, so sending is *)
(* one action and receiving another; each emits events through the managed *)
(* observer, which appends the event and then writes the manifest, and     *)
(* either may raise.                                                       *)
(***************************************************************************)
EXTENDS Integers, Sequences, FiniteSetsExt

CONSTANTS
    Conditions,  \* BLOCK_CONDITIONS: sequence of [temperature, concurrency], in tenths
    Spans,       \* BLOCK_REPEAT_SPANS: sequence of <<start, stop>>, stop excluded
    Cases,       \* number of selected cases
    Repeats,     \* REPEATS, the replicates planned for every cell
    MaxFaults    \* bound: writes that raise, interrupts

(* Replicates start..stop-1 of a wave. *)
Span(w) == Spans[w][1]..(Spans[w][2] - 1)

(* _validated_block_schedule: no condition twice; the spans of the waves    *)
(* tile the replicates.                                                     *)
ASSUME StudyAssumption ==
    /\ Conditions \in Seq([temperature : Nat, concurrency : Nat \ {0}])
    /\ \A i, j \in DOMAIN Conditions : Conditions[i] = Conditions[j] => i = j
    /\ Spans \in Seq(Nat \X Nat)
    /\ \A w, v \in DOMAIN Spans : w # v => Span(w) \intersect Span(v) = {}
    /\ UNION {Span(w) : w \in DOMAIN Spans} = 0..(Repeats - 1)
    /\ Cases \in Nat \ {0} /\ Repeats \in Nat /\ MaxFaults \in Nat

VARIABLES
    pc,        \* where run_study stands
    block,     \* block of the schedule under way, the seed probe after the last
    task,      \* the coroutine of each request
    outcome,   \* what the provider answered, once the coroutine returned its row
    log,       \* events.jsonl, as a set of <<type, request>>
    provider,  \* request_count and response_count
    private,   \* requests with a row in private_endpoint_records.jsonl
    public,    \* ... in endpoint_samples.jsonl
    mem,       \* manager.manifest
    disk,      \* run_manifest.json
    faults

files == <<private, public>>
study == <<pc, block, task, outcome, log, provider, files, mem, disk, faults>>

-----------------------------------------------------------------------------
(* The plan *)

Waves == Len(Spans)
Positions == Len(Conditions)
Blocks == Waves * Positions

WaveOf(b) == (b - 1) \div Positions + 1

(* _block_schedule: a cyclic rotation, one step further in every wave.      *)
ConditionOf(b) ==
    LET position == (b - 1) % Positions
    IN  Conditions[((WaveOf(b) - 1 + position) % Positions) + 1]

(* build_grid_requests, block by block: replicates outside, cases inside.   *)
GridBlock(b) ==
    LET span == Spans[WaveOf(b)]
    IN  [i \in 1..((span[2] - span[1]) * Cases) |->
            [kind |-> "grid", condition |-> ConditionOf(b),
             replicate |-> span[1] + ((i - 1) \div Cases), case |-> ((i - 1) % Cases) + 1]]

(* build_seed_probe_requests: the same request twice, one after the other.  *)
SeedBlock == [i \in 1..2 |-> [kind |-> "seed", index |-> i]]

BlockOf == [b \in 1..(Blocks + 1) |-> IF b <= Blocks THEN GridBlock(b) ELSE SeedBlock]
Planned == [b \in 1..(Blocks + 1) |-> Range(BlockOf[b])]
Requests == UNION Range(Planned)

(* The requests of the first n blocks. *)
Whole(n) == UNION {Planned[b] : b \in 1..n}
LimitOf(b) == IF b <= Blocks THEN ConditionOf(b).concurrency ELSE 1

(* What complete may return: text that parses or not, or an exception; the  *)
(* status of the exception matters to the seed probe only.                  *)
Answers(r) == {"parsed", "unparsed", "failed"}
              \union IF r.kind = "seed" THEN {"rejected"} ELSE {}
Answered == {"parsed", "unparsed"}

-----------------------------------------------------------------------------
(* Accounting *)

With(rows, results) == {r \in rows : outcome[r] \in results}

(* Seeded bug: an answer that does not parse is not taken for a response.   *)
MutantCompletion(rows) ==
    [attempted |-> Cardinality(rows),
     completed |-> Cardinality(With(rows, {"parsed"})),
     parsed    |-> Cardinality(With(rows, {"parsed"}))]

(* _completion_summary of a set of rows.                                    *)
Completion(rows) ==
    [attempted |-> Cardinality(rows),
     completed |-> Cardinality(With(rows, Answered)),
     parsed    |-> Cardinality(With(rows, {"parsed"}))]

Events(type, l) == Cardinality({r \in Requests : <<type, r>> \in l})
Larger(a, b) == IF a >= b THEN a ELSE b

(* _observe_event *)
Observed(m, es) ==
    [m EXCEPT !.attempted = @ + IF "LLMRequestRecorded" \in es THEN 1 ELSE 0,
              !.completed = @ + IF "LLMResponseRecorded" \in es THEN 1 ELSE 0]

(* sync_llm_accounting: the provider's own counters raise them.             *)
Synced(m) ==
    [m EXCEPT !.attempted = Larger(@, provider.requests),
              !.completed = Larger(@, provider.responses)]

(* Rows held in memory: those of the blocks whose gather has returned.      *)
Held == Whole(IF pc \in {"send", "closing"} THEN block - 1 ELSE block)

(* aggregate_grid_results: one summary per condition and case, pooled into  *)
(* one line of the sigma table per condition.                               *)
Cell(rows, condition, case) ==
    {r \in rows : r.kind = "grid" /\ r.condition = condition /\ r.case = case}

Freedom(n) == IF n >= 2 THEN n - 1 ELSE 0

OverCases(f) == MapThenSumSet(LAMBDA k : f[k], 1..Cases)

SigmaLine(rows, condition) ==
    LET parsed == [k \in 1..Cases |-> Cardinality(With(Cell(rows, condition, k), {"parsed"}))]
        honest == [k \in 1..Cases |-> Cardinality(With(Cell(rows, condition, k), Answered))]
    IN  [condition |-> condition, honest |-> OverCases(honest), parsed |-> OverCases(parsed),
         pairs |-> OverCases([k \in 1..Cases |-> (honest[k] * (honest[k] - 1)) \div 2]),
         freedom |-> OverCases([k \in 1..Cases |-> Freedom(parsed[k])])]

(* aggregate_seed_probe *)
SeedStatus(rows) ==
    LET seeds == {r \in rows : r.kind = "seed"}
    IN  IF With(seeds, Answered) = Planned[Blocks + 1] THEN "accepted"
        ELSE IF With(seeds, {"rejected"}) # {} THEN "rejected"
        ELSE "inconclusive"

Summary(rows) ==
    [total |-> Completion(rows), seed |-> SeedStatus(rows),
     table |-> {SigmaLine(rows, c) : c \in Range(Conditions)}]

-----------------------------------------------------------------------------
Raise == faults < MaxFaults /\ faults' = faults + 1

(* RunManifest.write_atomic: it raises before or after it took effect.      *)
Written(m, ok, bad) ==
    /\ mem' = m
    /\ \/ disk' = m /\ pc' = ok /\ UNCHANGED faults
       \/ Raise /\ disk' \in {disk, m} /\ pc' = bad

StudyInit ==
    /\ pc = "guard" /\ block = 1
    /\ task = [r \in Requests |-> "planned"]
    /\ outcome = [r \in Requests |-> "none"]
    /\ log = {} /\ provider = [requests |-> 0, responses |-> 0]
    /\ private = {} /\ public = {}
    /\ mem = [status |-> "running", attempted |-> 0, completed |-> 0,
               rows |-> Completion({}),
               summary |-> [total |-> Completion({}), seed |-> "none", table |-> {}],
               dry |-> FALSE]
    /\ disk = mem
    /\ faults = 0

work == <<block, task, outcome, log, provider, files>>

(* _validate_execution_guard and _initialise_manifest, in either order: the *)
(* run goes on, is refused, or ends as a dry run that calls no provider.    *)
Guard ==
    /\ pc = "guard"
    /\ \/ Written(mem, "block", "fail")
       \/ Written([mem EXCEPT !.dry = TRUE], "export", "fail")
       \/ pc' = "fail" /\ UNCHANGED <<mem, disk, faults>>
    /\ UNCHANGED work

StartBlock ==   \* _execute_block creates one coroutine per request
    /\ pc = "block"
    /\ task' = [r \in Requests |-> IF r \in Planned[block] THEN "waiting" ELSE task[r]]
    /\ pc' = "send"
    /\ UNCHANGED <<block, outcome, log, provider, files, mem, disk, faults>>

Running == pc \in {"send", "closing"}
In(state) == {r \in Planned[block] : task[r] = state}

(* A coroutine emits the events es of r one after the other: all of them    *)
(* are logged, counted and the manifest written, or the n-th of them raises *)
(* somewhere on that way.                                                   *)
Emitted(r, es) ==
    /\ log' = log \union {<<e, r>> : e \in Range(es)}
    /\ mem' = Observed(mem, Range(es)) /\ disk' = mem'
    /\ UNCHANGED <<pc, faults>>

EmitRaised(r, es) ==
    /\ Raise
    /\ \E n \in DOMAIN es :
        LET earlier == {es[i] : i \in 1..(n - 1)}
            before  == Observed(mem, earlier)
            after   == Observed(before, {es[n]})
            kept    == log \union {<<e, r>> : e \in earlier}
            saved   == IF n = 1 THEN disk ELSE before
        IN  \/ log' \in {kept, kept \union {<<es[n], r>>}} /\ mem' = before /\ disk' = saved
            \/ /\ log' = kept \union {<<es[n], r>>}
               /\ mem' = after /\ disk' \in {saved, after}
    /\ task' = [task EXCEPT ![r] = "broken"]
    /\ pc' = "closing"

(* asyncio.Semaphore is fair: the permits go round in the block's order.    *)
MayStart(r) ==
    /\ Running /\ task[r] = "waiting"
    /\ Cardinality(In("asked")) < LimitOf(block)
    /\ r = SelectSeq(BlockOf[block], LAMBDA q : task[q] = "waiting")[1]

Send(r) ==   \* _execute_one up to the await on the provider
    /\ MayStart(r)
    /\ \/ /\ Emitted(r, <<"LLMRequestRecorded">>)
          /\ task' = [task EXCEPT ![r] = "asked"]
          /\ provider' = [provider EXCEPT !.requests = @ + 1]
       \/ EmitRaised(r, <<"LLMRequestRecorded">>) /\ UNCHANGED provider
    /\ UNCHANGED <<block, outcome, files>>

ReceivedEvents(a) ==
    IF a \in Answered THEN <<"LLMResponseRecorded", "AgentDecisionParsed">>
    ELSE <<"EndpointProbeFailed">>

Receive(r) ==   \* the rest of _execute_one
    /\ Running /\ task[r] = "asked"
    /\ \E a \in Answers(r) :
        /\ provider' = [provider EXCEPT !.responses = @ + IF a \in Answered THEN 1 ELSE 0]
        /\ \/ /\ Emitted(r, ReceivedEvents(a))
              /\ task' = [task EXCEPT ![r] = "done"]
              /\ outcome' = [outcome EXCEPT ![r] = a]
           \/ EmitRaised(r, ReceivedEvents(a)) /\ UNCHANGED outcome
    /\ UNCHANGED <<block, files>>

(* Seeded bug: the manifest is told before the private rows are appended.   *)
MutantGatherReturns ==
    /\ pc = "send" /\ In("done") = Planned[block]
    /\ pc' = "private"
    /\ mem' = [Synced(mem) EXCEPT
                  !.rows = Completion(Whole(block))]
    /\ disk' = mem'
    /\ UNCHANGED <<work, faults>>

GatherReturns ==
    /\ pc = "send" /\ In("done") = Planned[block]
    /\ pc' = "private"
    /\ UNCHANGED <<work, mem, disk, faults>>

-----------------------------------------------------------------------------
(* _append_jsonl buffers the rows of the block and flushes them at the end: *)
(* a write that raises, or a death, leaves any prefix in the file.          *)
PartsOfBlock == {{BlockOf[block][i] : i \in 1..n} : n \in 0..Len(BlockOf[block])}

Torn(file, there) == IF pc = there THEN {file \union p : p \in PartsOfBlock} ELSE {file}

AppendRows(file, next) ==
    \/ file' = file \union Planned[block] /\ pc' = next /\ UNCHANGED faults
    \/ Raise /\ \E p \in PartsOfBlock : file' = file \union p /\ pc' = "closing"

AppendPrivate ==
    /\ pc = "private"
    /\ AppendRows(private, "public")
    /\ UNCHANGED <<block, task, outcome, log, provider, public, mem, disk>>

AppendPublic ==
    /\ pc = "public"
    /\ AppendRows(public, "checkpoint")
    /\ UNCHANGED <<block, task, outcome, log, provider, private, mem, disk>>

(* _checkpoint_progress.  It writes twice, with nothing to tell between.     *)
Checkpoint ==
    /\ pc = "checkpoint" /\ block <= Blocks
    /\ Written([Synced(mem) EXCEPT !.rows = Completion(Held)], "block", "closing")
        /\ block' = IF pc' = "block" THEN block + 1 ELSE block
    /\ UNCHANGED <<task, outcome, log, provider, files>>

LastCheckpoint ==   \* of the seed probe: the provider is closed without an error
    /\ pc = "checkpoint" /\ block = Blocks + 1
    /\ Written([Synced(mem) EXCEPT !.rows = Completion(Held)], "summarise", "closing")
    /\ UNCHANGED work

(* A keyboard interrupt cancels the coroutines, or ends a synchronous step. *)
Interrupt ==
    /\ pc \in {"guard", "block", "send", "private", "public", "checkpoint",
               "summarise", "export"}
    /\ Raise
    /\ task' = [r \in Requests |-> IF task[r] \in {"waiting", "asked"} THEN "cancelled"
                                   ELSE task[r]]
    /\ pc' = IF pc \in {"guard", "summarise", "export"} THEN "fail" ELSE "closing"
    /\ private' \in Torn(private, "private") /\ public' \in Torn(public, "public")
    /\ UNCHANGED <<block, outcome, log, provider, mem, disk>>

(* Seeded bug: asyncio.run returns and leaves the coroutines alive.         *)
MutantClosed ==
    /\ pc = "closing"
    /\ pc' = "fail"
    /\ UNCHANGED <<work, mem, disk, faults>>

Closed ==   \* aclose returned; asyncio.run cancels and awaits what is left
    /\ pc = "closing"
    /\ task' = [r \in Requests |-> IF task[r] \in {"waiting", "asked"} THEN "cancelled"
                                   ELSE task[r]]
    /\ pc' = "fail"
    /\ UNCHANGED <<block, outcome, log, provider, files, mem, disk, faults>>

Summarise ==   \* build_summary over the rows in memory, and its manifest entries
    /\ pc = "summarise"
    /\ LET after == [Synced(mem) EXCEPT !.rows = Completion(Held), !.summary = Summary(Held)]
       IN  Written(after, "export", "fail")
    /\ UNCHANGED work

Export ==   \* endpoint_stochasticity_summary.json, created exclusively
    /\ pc = "export"
    /\ \/ pc' = "finish" /\ UNCHANGED faults
       \/ Raise /\ pc' = "fail"
    /\ UNCHANGED <<work, mem, disk>>

Finish ==   \* ManagedRunContext.finish; ManagedRun has its steps
    /\ pc = "finish"
    /\ \/ disk' = [Synced(mem) EXCEPT !.status = "finished"] /\ mem' = disk'
          /\ pc' = "over" /\ UNCHANGED faults
       \/ Raise /\ UNCHANGED <<mem, disk>> /\ pc' = "fail"
    /\ UNCHANGED work

Fail ==   \* ManagedRunContext.fail
    /\ pc = "fail"
    /\ Written([Synced(mem) EXCEPT !.status = "failed"], "over", "over")
    /\ UNCHANGED work

Kill ==   \* the process dies; what it had buffered may be in the file
    /\ pc \notin {"over", "killed"}
    /\ pc' = "killed"
    /\ private' \in Torn(private, "private") /\ public' \in Torn(public, "public")
    /\ UNCHANGED <<block, task, outcome, log, provider, mem, disk, faults>>

Terminated == pc \in {"over", "killed"} /\ UNCHANGED study

Coroutine == \E r \in Planned[block] : Send(r) \/ Receive(r)
Study == \/ Guard \/ StartBlock \/ GatherReturns \/ AppendPrivate \/ AppendPublic
         \/ Checkpoint \/ LastCheckpoint \/ Closed \/ Summarise \/ Export \/ Finish \/ Fail

StudyNext == Coroutine \/ Study \/ Interrupt \/ Kill \/ Terminated

StudySpec == StudyInit /\ [][StudyNext]_study

-----------------------------------------------------------------------------
(* Whatever fails or dies, the files and the manifest lose at most the      *)
(* block under way: every earlier block is complete in both files, no       *)
(* public row lacks its private one, and the rows the manifest claims are   *)
(* exactly those of whole blocks that both files hold, with their outcomes  *)
(* (_run_requests: private rows, public rows, then _checkpoint_progress).   *)
LossIsOneBlock ==
    /\ Whole(block - 1) \subseteq public /\ public \subseteq private
    /\ private \subseteq Whole(block)
    /\ \E n \in 0..(Blocks + 1) :
           Whole(n) \subseteq public /\ disk.rows = Completion(Whole(n))

(* The requests and responses counted in the manifest never claim an        *)
(* exchange that did not take place, are never behind the rows on file once *)
(* the manifest has a verdict, and no request reached the provider twice:   *)
(* single attempt, no retry, also when coroutines outlive the failure of    *)
(* their block.  A manifest with a verdict has no coroutine left.           *)
VerdictIsQuiet ==
    /\ provider.requests <= Events("LLMRequestRecorded", log)
    /\ disk.completed <= disk.attempted
    /\ disk.status # "running" =>
        /\ \A r \in Requests : task[r] \notin {"waiting", "asked"}
        /\ provider.requests <= disk.attempted
        /\ disk.attempted <= Events("LLMRequestRecorded", log)
        /\ disk.completed = provider.responses
        /\ disk.attempted >= disk.rows.attempted /\ disk.completed >= disk.rows.completed

(* After every undisturbed block the manifest's two accounts agree: the     *)
(* exchanges, counted one by one from the events, and the rows, counted     *)
(* from the results.  A finished study has every planned sample exactly     *)
(* once in every cell, and the pooled table of its summary adds up to both. *)
SummaryAddsUp ==
    /\ pc = "block" /\ faults = 0 =>
          disk.attempted = disk.rows.attempted /\ disk.completed = disk.rows.completed
    /\ disk.status = "finished" /\ ~disk.dry =>
        LET s == disk.summary
            grid == {r \in public : r.kind = "grid"}
            seeds == Planned[Blocks + 1]
        IN  /\ public = private /\ public = Requests
            /\ \A c \in Range(Conditions), k \in 1..Cases :
                   Cardinality(Cell(public, c, k)) = Repeats
            /\ s.total = Completion(public)
            /\ disk.attempted = s.total.attempted /\ disk.completed = s.total.completed
            /\ MapThenSumSet(LAMBDA l : l.honest, s.table)
                  + Cardinality(With(seeds, Answered)) = disk.completed
            /\ \A l \in s.table :
                  /\ l.parsed <= l.honest /\ l.freedom <= l.parsed
                  /\ l.pairs >= l.honest - Cases
            /\ s.seed = "accepted" => With(seeds, Answered) = seeds
=============================================================================
