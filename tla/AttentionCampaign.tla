------------------------- MODULE AttentionCampaign -------------------------
(***************************************************************************)
(* A managed V2 run, experiments/v2_attention_market.py: a bounded pool of *)
(* coroutines samples the teacher, the students are fitted to the valid    *)
(* samples, and a market runs every cell and seed.  Each step leaves       *)
(* durable evidence (event log, private and public rows, round ledgers,    *)
(* run files) and then advances the counters of the manifest, which is     *)
(* written again and again; any write may raise, and the process may be    *)
(* interrupted or killed anywhere.                                         *)
(*                                                                         *)
(* A handler that makes several effects is one action that performs the    *)
(* first n of them: all, or fewer when it raises or the process dies.      *)
(* With the offline teacher the pool has one worker.                       *)
(***************************************************************************)
EXTENDS Integers, FiniteSets, Sequences

CONSTANTS
    States,      \* number of observations, one family each, ranked by hash
    Replicates,  \* samples of each
    Workers,     \* permits of the semaphore in complete_many
    MarketRuns,  \* cells times seeds
    Rounds,      \* rounds of a market run
    MaxFaults    \* bound: writes that raise, interrupts, failed computations

ASSUME CampaignAssumption ==
    /\ States \in Nat \ {0} /\ Replicates \in Nat \ {0} /\ Workers \in Nat \ {0}
    /\ MarketRuns \in Nat /\ Rounds \in Nat /\ MaxFaults \in Nat

VARIABLES
    pc,        \* phase of the process
    task,      \* what became of each coroutine
    log,       \* samples with a request, and with a response, in the event log
    private,   \* samples with a row in private_teacher_records.jsonl
    public,    \* ... in teacher_samples.jsonl
    rows,      \* public_rows, and the results given to the students
    student,   \* states the students were fitted to
    products,  \* durable files of the run's own: the first so many of Products
    summary,   \* v2_attention_market_summary.json: nothing, or what it says
    market,    \* keys and catalog that run_market_phase holds in memory
    ledger,    \* durable round rows of all market runs
    files,     \* durable run files
    mem,       \* manager.manifest
    disk,      \* run_manifest.json
    faults

evidence == <<log, private, public>>
learnt == <<student, products, summary>>
vars == <<pc, task, evidence, rows, learnt, market, ledger, files, mem, disk, faults>>

-----------------------------------------------------------------------------
(* The plan and the split *)

(* _sample_plan: the replicates of a state follow each other.               *)
Plan == 1..(States * Replicates)
StateOf(sample) == (sample - 1) \div Replicates + 1
Outcomes == {"valid", "invalid", "exception"}

(* _split_counts for fractions 0.70, 0.15, 0.15: largest remainders, the    *)
(* earlier partition first among equals.                                    *)
SplitCounts(n) ==
    LET train == (n * 14) \div 20
        other == (n * 3) \div 20
        rest  == n - train - 2 * other
        first == (n * 14) % 20 >= (n * 3) % 20   \* train goes before validation
        extra == IF first THEN <<1, 2, 3>> ELSE <<3, 1, 2>>
    IN  [train      |-> train + (IF rest >= extra[1] THEN 1 ELSE 0),
         validation |-> other + (IF rest >= extra[2] THEN 1 ELSE 0),
         test       |-> other + (IF rest >= extra[3] THEN 1 ELSE 0)]

(* Frozen before the first request; the states are numbered by their rank.  *)
PartitionOf(state) ==
    LET counts == SplitCounts(States)
    IN  IF state <= counts.train THEN "train"
        ELSE IF state <= counts.train + counts.validation THEN "validation"
        ELSE "test"
Partitions == {"train", "validation", "test"}

-----------------------------------------------------------------------------
(* The manifest *)

Sent == {s \in Plan : task[s] \notin {"waiting", "unannounced"}}

Manifest0 ==
    [status |-> "running", requests |-> 0, examples |-> 0,
     teacher |-> [attempted |-> 0, resolved |-> 0, valid |-> 0, failed |-> 0,
                  skipped |-> States * Replicates],
     rounds |-> [started |-> 0, completed |-> 0, failed |-> 0],
     runs |-> [started |-> 0, completed |-> 0, failed |-> 0]]

Larger(a, b) == IF a >= b THEN a ELSE b

(* sync_llm_accounting: the requests are the larger of what the events and  *)
(* the provider have counted.                                               *)
Synced(m, sent) == [m EXCEPT !.requests = Larger(@, Cardinality(sent))]

(* refresh_accounting: what was sent and has no row is unresolved.          *)
Refreshed(m, sent, resolved, outcome) ==
    LET attempted == Cardinality(sent)
        valid     == Cardinality({s \in resolved : outcome[s] = "valid"})
    IN  [Synced(m, sent) EXCEPT !.teacher =
            [attempted |-> attempted, resolved |-> Cardinality(resolved),
             valid |-> valid, failed |-> attempted - valid,
             skipped |-> Cardinality(Plan) - attempted]]

(* refresh_market_accounting: what is open is failed once the phase has     *)
(* ended with an error.                                                     *)
MarketRefreshed(m, held, terminal) ==
    LET open(started, completed) == IF terminal THEN started - completed ELSE 0
    IN  [m EXCEPT
            !.rounds = [started |-> held.rounds, completed |-> held.settled,
                        failed |-> open(held.rounds, held.settled)],
            !.runs   = [started |-> held.runs, completed |-> held.catalog,
                        failed |-> open(held.runs, held.catalog)]]

(* ManagedRunContext.fail and _refresh_derived in state FAILED.             *)
Failed(m) ==
    [Synced(m, Sent) EXCEPT
        !.status = "failed",
        !.rounds.failed = IF m.rounds.started > m.rounds.completed THEN 1 ELSE @,
        !.runs.failed = IF m.runs.started > 0 /\ m.runs.completed = 0
                        THEN Larger(1, @) ELSE @]

-----------------------------------------------------------------------------
(* Handlers and their ends *)

Raise == faults < MaxFaults /\ faults' = faults + 1

(* A handler has made n of its last effects.                                *)
Ends(n, last, next, error) ==
    IF n = last THEN pc' = next /\ UNCHANGED faults
    ELSE \/ Raise /\ pc' = error
         \/ pc' = "crashed" /\ UNCHANGED faults

(* The four effects of a refresh of the teacher's accounts, of which n are  *)
(* made: sync, its write, the update, the last write.                       *)
Refresh(n, sent, resolved, outcome, before) ==
    /\ mem' = IF n >= 3 THEN Refreshed(mem, sent, resolved, outcome)
              ELSE IF n >= 1 THEN Synced(mem, sent) ELSE mem
    /\ disk' = IF n >= 4 THEN Refreshed(mem, sent, resolved, outcome)
               ELSE IF n >= 2 THEN Synced(mem, sent) ELSE before

(* The two effects of a refresh of the market's accounts.                   *)
RefreshMarket(n, held, terminal, before) ==
    /\ mem' = IF n >= 1 THEN MarketRefreshed(mem, held, terminal) ELSE mem
    /\ disk' = IF n >= 2 THEN MarketRefreshed(mem, held, terminal) ELSE before

-----------------------------------------------------------------------------
Init ==
    /\ pc = "sample"
    /\ task = [s \in Plan |-> "waiting"]
    /\ log = [requests |-> {}, responses |-> {}]
    /\ private = {} /\ public = {} /\ rows = {} /\ student = {} /\ products = 0
    /\ summary = <<>>
    /\ market = [runs |-> 0, rounds |-> 0, settled |-> 0, catalog |-> 0]
    /\ ledger = 0 /\ files = 0
    /\ mem = Manifest0 /\ disk = Manifest0 /\ faults = 0

(* States of a coroutine: waiting for the semaphore, unannounced (its       *)
(* before_attempt raised), sent, one of the outcomes, or lost (its outcome  *)
(* could not be recorded).                                                  *)
Running == {"sample", "closing"}
InFlight == {s \in Plan : task[s] = "sent"}

(* The next coroutine gets the semaphore: before_attempt logs the request   *)
(* and counts it in the manifest, then the provider counts and sends it.    *)
Attempt(s) ==
    /\ pc \in Running /\ task[s] = "waiting" /\ Cardinality(InFlight) < Workers
    /\ \A earlier \in Plan : task[earlier] = "waiting" => s <= earlier
    /\ \E n \in 0..4 :
         LET counted == [mem EXCEPT !.requests = @ + 1]
         IN  /\ log' = IF n >= 1 THEN [log EXCEPT !.requests = @ \union {s}] ELSE log
             /\ mem' = IF n >= 2 THEN counted ELSE mem
             /\ disk' = IF n >= 3 THEN counted ELSE disk
             /\ task' = [task EXCEPT ![s] = IF n = 4 THEN "sent" ELSE "unannounced"]
             /\ Ends(n, 4, pc, "closing")
    /\ UNCHANGED <<private, public, rows, learnt, market, ledger, files>>

(* Seeded bug: the counters are advanced before the public row is there.    *)
MutantComplete(s) ==
    /\ pc \in Running /\ task[s] = "sent"
    /\ \E out \in Outcomes, n \in 0..10 :
         LET resolved == rows \union {s}
             outcome == [task EXCEPT ![s] = IF n = 10 THEN out ELSE "lost"]
         IN  /\ task' = outcome
             /\ log' = IF n >= 1 /\ out # "exception"
                       THEN [log EXCEPT !.responses = @ \union {s}] ELSE log
             /\ private' = IF n >= 3 THEN private \union {s} ELSE private
             /\ rows' = IF n >= 4 THEN resolved ELSE rows
             /\ public' = IF n >= 10 THEN public \union {s} ELSE public
             /\ Refresh(n - 5, Sent, resolved, outcome, IF n >= 2 THEN mem ELSE disk)
             /\ Ends(n, 10, pc, "closing")
    /\ UNCHANGED <<learnt, market, ledger, files>>

(* A request has its answer, and record_completion runs without a pause:    *)
(* response event (with a manifest write), private row, public row, memory, *)
(* validation event (with another), refreshed accounts.  The outcome is     *)
(* invalid when the answer does not parse; an exception, or a response      *)
(* without a text, has no response event.                                   *)
Complete(s) ==
    /\ pc \in Running /\ task[s] = "sent"
    /\ \E out \in Outcomes, n \in 0..10 :
         LET resolved == rows \union {s}
             outcome == [task EXCEPT ![s] = IF n >= 5 THEN out ELSE "lost"]
         IN  /\ task' = outcome
             /\ log' = IF n >= 1 /\ out # "exception"
                       THEN [log EXCEPT !.responses = @ \union {s}] ELSE log
             /\ private' = IF n >= 3 THEN private \union {s} ELSE private
             /\ public' = IF n >= 4 THEN public \union {s} ELSE public
             /\ rows' = IF n >= 5 THEN resolved ELSE rows
             /\ Refresh(n - 6, Sent, resolved, outcome,
                        IF n >= (IF out = "exception" THEN 6 ELSE 2) THEN mem ELSE disk)
             /\ Ends(n, 10, pc, "closing")
    /\ UNCHANGED <<learnt, market, ledger, files>>

(* gather returns when every coroutine has: every sample has its row.       *)
Resolved == rows = Plan

(* Seeded bug: the errors of coroutines are collected with the results.     *)
MutantClose ==
    /\ pc = "closing" /\ InFlight = {} /\ \A s \in Plan : task[s] # "waiting"
    /\ pc' = "distil"
    /\ UNCHANGED <<task, evidence, rows, learnt, market, ledger, files, mem, disk, faults>>

(* The first error ends the gather but not the other coroutines: they go on *)
(* while complete_many's caller awaits aclose, until asyncio.run cancels    *)
(* what is left.                                                            *)
Close ==
    /\ pc = "closing" /\ pc' = "cancelled"
    /\ UNCHANGED <<task, evidence, rows, learnt, market, ledger, files, mem, disk, faults>>

(* Ctrl-C cancels every coroutine at once.                                  *)
Interrupt ==
    /\ pc = "sample" /\ Raise /\ pc' = "cancelled"
    /\ UNCHANGED <<task, evidence, rows, learnt, market, ledger, files, mem, disk>>

(* Seeded bug: nothing is refreshed on the way out.                         *)
MutantFinalRefresh ==
    /\ \/ pc = "cancelled" /\ pc' = "failing"
       \/ pc \in Running /\ Resolved /\ pc' = "distil"
    /\ UNCHANGED <<task, evidence, rows, learnt, market, ledger, files, mem, disk, faults>>

(* The finally of run_teacher_phase.                                        *)
FinalRefresh ==
    /\ \/ pc = "cancelled"
       \/ pc = "sample" /\ Resolved
    /\ \E n \in 0..4 :
         /\ Refresh(n, Sent, rows, task, disk)
         /\ Ends(n, 4, IF pc = "cancelled" THEN "failing" ELSE "distil", "failing")
    /\ UNCHANGED <<task, evidence, rows, learnt, market, ledger, files>>

-----------------------------------------------------------------------------
(* Distillation *)

(* aggregate_teacher_samples: what is known of a state.                     *)
Target(x) ==
    LET of == {s \in rows : StateOf(s) = x}
        valid == {s \in of : task[s] = "valid"}
    IN  [valid |-> Cardinality(valid), failed |-> Cardinality(of \ valid)]

(* build_training_examples: a state without a valid sample teaches nothing. *)
Examples == {x \in 1..States : Target(x).valid > 0}

(* Every state keeps its partition; the phase fails when one is left empty. *)
Distil ==
    /\ pc = "distil"
    /\ \/ /\ {PartitionOf(x) : x \in Examples} = Partitions
          /\ student' = Examples /\ pc' = "publish" /\ UNCHANGED faults
       \/ /\ {PartitionOf(x) : x \in Examples} # Partitions
          /\ pc' = "failing" /\ UNCHANGED <<student, faults>>
       \/ Raise /\ pc' = "failing" /\ UNCHANGED student
       \/ pc' = "crashed" /\ UNCHANGED <<student, faults>>
    /\ UNCHANGED <<task, evidence, rows, products, summary, market, ledger, files, mem, disk>>

(* The files of a run in the order they are created, each exclusively: the  *)
(* students before the envelope with their hashes, the index of the market  *)
(* after its runs.                                                          *)
Products == <<"dataset", "students", "envelope", "evaluation", "index", "summary", "reports">>
Learnt == 4   \* what the students leave

(* Effects: the students' files, the manifest's account of them, its write. *)
Publish ==
    /\ pc = "publish"
    /\ \E n \in 0..(Learnt + 2) :
         /\ products' = IF n < Learnt THEN n ELSE Learnt
         /\ mem' = IF n > Learnt THEN [mem EXCEPT !.examples = Cardinality(student)] ELSE mem
         /\ disk' = IF n = Learnt + 2 THEN mem' ELSE disk
         /\ Ends(n, Learnt + 2, "market", "failing")
    /\ UNCHANGED <<task, evidence, rows, student, summary, market, ledger, files>>

-----------------------------------------------------------------------------
(* Market *)

RunOpen == market.runs > market.catalog
RoundOpen == market.rounds > market.settled
RoundsDone == market.rounds = market.runs * Rounds
sampling == <<task, evidence, rows, learnt>>

(* on_run_started: stream and key, event, accounts.                         *)
StartRun ==
    /\ pc = "market" /\ ~RunOpen /\ market.runs < MarketRuns
    /\ \E n \in 0..4 :
         LET held == [market EXCEPT !.runs = @ + 1]
         IN  /\ market' = IF n >= 1 THEN held ELSE market
             /\ RefreshMarket(n - 2, held, FALSE, IF n >= 2 THEN mem ELSE disk)
             /\ Ends(n, 4, pc, "stopping")
    /\ UNCHANGED <<sampling, ledger, files>>

(* on_round_started: key, event, accounts.                                  *)
StartRound ==
    /\ pc = "market" /\ RunOpen /\ ~RoundOpen /\ ~RoundsDone
    /\ \E n \in 1..4 :
         LET held == [market EXCEPT !.rounds = @ + 1]
         IN  /\ market' = held
             /\ RefreshMarket(n - 2, held, FALSE, IF n >= 2 THEN mem ELSE disk)
             /\ Ends(n, 4, pc, "stopping")
    /\ UNCHANGED <<sampling, ledger, files>>

(* on_round_completed: durable row, key, event, accounts.                   *)
EndRound ==
    /\ pc = "market" /\ RoundOpen
    /\ \E n \in 0..5 :
         LET held == [market EXCEPT !.settled = @ + 1]
         IN  /\ ledger' = IF n >= 1 THEN ledger + 1 ELSE ledger
             /\ market' = IF n >= 2 THEN held ELSE market
             /\ RefreshMarket(n - 3, held, FALSE, IF n >= 3 THEN mem ELSE disk)
             /\ Ends(n, 5, pc, "stopping")
    /\ UNCHANGED <<sampling, files>>

(* on_run_completed: durable file, catalog, event, accounts.                *)
EndRun ==
    /\ pc = "market" /\ RunOpen /\ ~RoundOpen /\ RoundsDone
    /\ \E n \in 0..5 :
         LET held == [market EXCEPT !.catalog = @ + 1]
         IN  /\ files' = IF n >= 1 THEN files + 1 ELSE files
             /\ market' = IF n >= 2 THEN held ELSE market
             /\ RefreshMarket(n - 3, held, FALSE, IF n >= 3 THEN mem ELSE disk)
             /\ Ends(n, 5, pc, "stopping")
    /\ UNCHANGED <<sampling, ledger>>

(* The computation of a round fails, or is interrupted.                     *)
MarketFails ==
    /\ pc = "market" /\ Raise /\ pc' = "stopping"
    /\ UNCHANGED <<sampling, market, ledger, files, mem, disk>>

(* The finally of run_market_phase.                                         *)
EndMarket ==
    /\ \/ pc = "stopping"
       \/ pc = "market" /\ market.catalog = MarketRuns
    /\ \E n \in 0..2 :
         /\ RefreshMarket(n, market, pc = "stopping", disk)
         /\ Ends(n, 2, IF pc = "stopping" THEN "failing" ELSE "index", "failing")
    /\ UNCHANGED <<sampling, market, ledger, files>>

(* The index of all runs, and their accounts once more.                     *)
Index ==
    /\ pc = "index"
    /\ \E n \in 0..3 :
         /\ products' = IF n >= 1 THEN products + 1 ELSE products
         /\ RefreshMarket(n - 1, market, FALSE, disk)
         /\ Ends(n, 3, "export", "failing")
    /\ UNCHANGED <<task, evidence, rows, student, summary, market, ledger, files>>

(* _full_summary repeats what the phases returned.                          *)
Summary ==
    [teacher |-> mem.teacher, examples |-> Cardinality(student), runs |-> market.catalog]

(* The summary, then the reports rendered from it.                          *)
Export ==
    /\ pc = "export"
    /\ \E n \in 0..2 :
         /\ products' = products + n
         /\ summary' = IF n >= 1 THEN <<Summary>> ELSE summary
         /\ Ends(n, 2, "finish", "failing")
    /\ UNCHANGED <<task, evidence, rows, student, market, ledger, files, mem, disk>>

(* manager.finish *)
Finish ==
    /\ pc = "finish"
    /\ \/ /\ mem' = [Synced(mem, Sent) EXCEPT !.status = "finished"]
          /\ disk' = mem' /\ pc' = "finished" /\ UNCHANGED faults
       \/ Raise /\ pc' = "failing" /\ UNCHANGED <<mem, disk>>
       \/ pc' = "crashed" /\ UNCHANGED <<mem, disk, faults>>
    /\ UNCHANGED <<sampling, market, ledger, files>>

(* ManagedRunContext.__exit__ after an error.                               *)
Fail ==
    /\ pc = "failing"
    /\ \E n \in 0..2 :
         /\ mem' = IF n >= 1 THEN Failed(mem) ELSE mem
         /\ disk' = IF n = 2 THEN Failed(mem) ELSE disk
         /\ Ends(n, 2, "failed", "crashed")
    /\ UNCHANGED <<sampling, market, ledger, files>>

Ended == {"finished", "failed", "crashed"}
Done == pc \in Ended /\ UNCHANGED vars

Next ==
    \/ \E s \in Plan : Attempt(s) \/ Complete(s)
    \/ Close \/ Interrupt \/ FinalRefresh \/ Distil \/ Publish
    \/ StartRun \/ StartRound \/ EndRound \/ EndRun \/ MarketFails \/ EndMarket
    \/ Index \/ Export \/ Finish \/ Fail \/ Done

Spec == Init /\ [][Next]_vars

-----------------------------------------------------------------------------
(* Properties *)

(* Whenever the manifest is read, after a kill too, each of its counts is   *)
(* backed by what is durable: an attempt by its logged request, a resolved  *)
(* sample by its public row, that by its private row, an example by the     *)
(* students' files, a round by its ledger row, a market run by its file;    *)
(* and no market runs ahead of the envelope that it names as its model      *)
(* (docs/V2_ATTENTION_DISTILLATION.md).                                     *)
ManifestIsBacked ==
    /\ disk.teacher.attempted <= Cardinality(log.requests)
    /\ disk.requests <= Cardinality(log.requests)
    /\ disk.teacher.resolved <= Cardinality(public)
    /\ disk.teacher.valid <= Cardinality(public \intersect log.responses)
    /\ public \subseteq private /\ private \subseteq log.requests
    /\ disk.examples > 0 => products >= Learnt
    /\ market.runs > 0 => disk.examples = Cardinality(student) /\ disk.examples > 0
    /\ disk.rounds.completed <= ledger /\ disk.runs.completed <= files

(* After at most one disturbance anywhere, a manifest marked failed has the *)
(* whole account: every request that went out is attempted, those without a *)
(* row are failures, the plan is partitioned, and the open market run and   *)
(* round are failed ones.                                                   *)
FailureAccountsClose ==
    disk.status = "failed" /\ faults <= 1 =>
        /\ disk.teacher.attempted = Cardinality(Sent)
        /\ disk.teacher.resolved = Cardinality(rows)
        /\ disk.teacher.valid + disk.teacher.failed + disk.teacher.skipped
             = Cardinality(Plan)
        /\ disk.runs.started = disk.runs.completed + disk.runs.failed
        /\ disk.rounds.started = disk.rounds.completed + disk.rounds.failed
        /\ disk.runs.started = market.runs /\ disk.rounds.completed = market.settled

(* A finished campaign is complete: every sample of the plan was sent, and  *)
(* is resolved in public, the students have learnt from exactly the states  *)
(* with a valid answer, in all three partitions, and all rounds and runs of *)
(* the market are on disk, with all that is derived from them; the summary  *)
(* says what the manifest says.                                             *)
FinishedIsComplete ==
    disk.status = "finished" =>
        /\ log.requests = Plan /\ public = Plan
        /\ disk.teacher.resolved = Cardinality(Plan)
        /\ student = {StateOf(s) : s \in {r \in Plan : task[r] = "valid"}}
        /\ {PartitionOf(x) : x \in student} = Partitions
        /\ ledger = MarketRuns * Rounds /\ files = MarketRuns
        /\ products = Len(Products)
        /\ summary = << [teacher |-> disk.teacher, examples |-> disk.examples,
                         runs |-> disk.runs.completed] >>

=============================================================================
