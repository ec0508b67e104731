---------------------------- MODULE RecordReplay ----------------------------
(***************************************************************************)
(* The tape of a run, nmsim/recording.py with the wrappers under it: a     *)
(* RecordingLLM over the CachingLLM of nmsim/llm.py over an endpoint       *)
(* adapter that retries, and later a ReplayLLM, or a reparse audit, over   *)
(* what the recorder left in llm_records.jsonl.  The recorder's run may    *)
(* raise or be killed anywhere, the replaying simulation may ask anything. *)
(*                                                                         *)
(* A prompt stands for the pair (system, user), whose hash identifies it;  *)
(* the agent of a request is its place in the batch.  The simulation asks  *)
(* all its agents once a round, in one batch.                              *)
(***************************************************************************)
EXTENDS Integers, Sequences, FiniteSets

CONSTANTS
    Agents,      \* LLM agents of the recorded run: the size of each batch
    Rounds,      \* its planned rounds
    Prompts,     \* prompt pairs
    Texts,       \* parseable answers of the endpoint
    Retries,     \* application retries of an adapter after the first attempt
    MaxFaults,   \* bound: appends and emits that raise in one behaviour
    Caching,     \* values of cfg.cache_enabled
    Variants,    \* schema variants of the recording
    Differences  \* sets of identity fields in which the replaying run differs

(* A request that has no answer yet. *)
None == "none"

ASSUME TapeAssumption ==
    /\ Agents \in Nat \ {0} /\ Rounds \in Nat /\ Retries \in Nat /\ MaxFaults \in Nat
    /\ Caching \subseteq BOOLEAN /\ None \notin Texts

VARIABLES
    pc,         \* where the recording, then the replaying process stands
    round,      \* rounds asked by that process
    k,          \* place in the batch of the next event or record
    batch,      \* prompts of the batch in progress
    flight,     \* what each of its requests has got so far
    attempts,   \* LLMProviderAttemptObserved events of each request sequence
    cache,      \* CachingLLM._cache
    enabled,    \* CachingLLM.enabled
    recorder,   \* RecordingLLM._sequence, _batch_sequence and response_count
    tape,       \* llm_records.jsonl: the complete lines
    torn,       \* the file that half a line ends, "records" or "events"; or None
    decided,    \* AgentDecisionParsed events of the recorded run
    cursor,     \* ReplayLLM._cursor
    batches,    \* ReplayLLM._batch_sequence
    served,     \* what the replay has returned to its simulation
    deviated,   \* the replaying simulation has asked what is not next on the tape
    faults

recording == <<flight, attempts, cache, recorder, tape, torn, decided>>
replaying == <<cursor, batches, served, deviated>>
vars == <<pc, round, k, batch, enabled, recording, replaying, faults>>

-----------------------------------------------------------------------------
(* What the adapters substitute when their attempts are used up: JSON that  *)
(* parses as a hold.                                                        *)
Fallback == [exception |-> "api-error", junk |-> "parse-retries-exhausted"]
Answers == Texts \union {"api-error", "parse-retries-exhausted"}
Outcomes == Texts \union {"exception", "junk"}
Places == 1..Agents
Sequences == 1..(Rounds * Agents)

(* The logical sequence number of place i in the batch in progress.         *)
SequenceOf(i) == recorder.sequence - Agents + i

Record(i, answer) ==
    [sequence |-> SequenceOf(i), batch |-> recorder.batches, index |-> i,
     size |-> Agents, round |-> round, prompt |-> batch[i], answer |-> answer]

(* Line n starts a batch. *)
Starts(t, n) == n = 1 \/ t[n - 1].index = t[n - 1].size

(* Seeded bug: a batch may extend past the end of the recording.            *)
MutantWholeBatches(t) ==
    \A n \in 1..Len(t) :
        /\ t[n].sequence = n /\ t[n].size >= 1
        /\ t[n].index = IF Starts(t, n) THEN 1 ELSE t[n - 1].index + 1

(* validate_v12_record_sequence over the loaded lines: contiguous calls in  *)
(* whole batches, each batch of one size and one round.                     *)
WholeBatches(t) ==
    \A n \in 1..Len(t) :
        /\ t[n].sequence = n /\ t[n].size >= 1
        /\ t[n].index = IF Starts(t, n) THEN 1 ELSE t[n - 1].index + 1
        /\ t[n].batch = IF n = 1 THEN 1
                        ELSE t[n - 1].batch + (IF Starts(t, n) THEN 1 ELSE 0)
        /\ \/ Starts(t, n)
           \/ /\ t[n].size = t[n - 1].size
              /\ t[n].round = t[n - 1].round
        /\ n = Len(t) => t[n].index = t[n].size

(* RECORDING_COMPATIBILITY_MATRIX: every variant loads, one can be replayed *)
StrictReplay(v) == v = "1.2"

(* Differences that ReplayLLM.__init__ refuses.  The execution config, the  *)
(* commit and a dirty tree may differ.                                      *)
Blocking == {"config_classification_hash", "scientific_config_hash",
             "model_request_config_hash", "scientific_component_fingerprint",
             "model_config"}

Loadable == torn # "records" /\ tape # <<>> /\ WholeBatches(tape)
Preflight(variant, differs) ==
    Loadable /\ StrictReplay(variant) /\ differs \intersect Blocking = {}

Given == Answers \union {None}
Questions == Seq(Prompts)
Requests == [Places -> [tries : 0..(Retries + 1), out : Given]]
Histories == Seq([out : Outcomes, retry : BOOLEAN])
Caches == [Prompts -> Given]
Counters == [sequence : Nat, batches : Nat, responses : Nat]
Line == [sequence : Int, batch : Int, index : Int, size : Int, round : Int,
         prompt : Prompts, answer : Given]
Reply == [round : Int, agent : Int, prompt : Prompts, answer : Given]

TypeOK ==
    /\ pc \in {"ask", "announce", "lookup", "call", "store", "decide", "finished",
               "raised", "crashed", "ready", "match", "serve", "rejected",
               "refused", "early", "accepted"}
    /\ round \in Nat /\ k \in Places /\ faults \in 0..MaxFaults
    /\ batch \in Questions /\ flight \in Requests
    /\ attempts \in [Sequences -> Histories]
    /\ cache \in Caches /\ recorder \in Counters
    /\ tape \in Seq(Line) /\ served \in Seq(Reply)
    /\ torn \in {None, "records", "events"} /\ enabled \in BOOLEAN /\ deviated \in BOOLEAN
    /\ cursor \in 0..Len(tape) /\ batches \in Nat

-----------------------------------------------------------------------------
Idle == [i \in Places |-> [tries |-> 0, out |-> None]]

Init ==
    /\ pc = "ask" /\ round = 0 /\ k = 1 /\ batch = <<>>
    /\ flight = Idle
    /\ attempts = [s \in Sequences |-> <<>>]
    /\ cache = [p \in Prompts |-> None]
    /\ enabled \in Caching
    /\ recorder = [sequence |-> 0, batches |-> 0, responses |-> 0]
    /\ tape = <<>> /\ torn = None /\ decided = {}
    /\ cursor = 0 /\ batches = 0 /\ served = <<>> /\ deviated = FALSE
    /\ faults = 0

Raise == faults < MaxFaults /\ faults' = faults + 1

(* The next place of the batch, or the next phase after the last one.       *)
Advance(here, next) ==
    IF k < Agents THEN k' = k + 1 /\ pc' = here ELSE k' = 1 /\ pc' = next

-----------------------------------------------------------------------------
(* Recording *)

(* run_sim asks all agents; _make_calls numbers the batch and its requests  *)
(* before anything is announced or sent.                                    *)
Ask ==
    /\ pc = "ask" /\ round < Rounds
    /\ \E p \in [Places -> Prompts] : batch' = p
    /\ round' = round + 1 /\ k' = 1 /\ pc' = "announce"
    /\ recorder' = [recorder EXCEPT !.sequence = @ + Agents, !.batches = @ + 1]
    /\ flight' = Idle
    /\ UNCHANGED <<attempts, cache, tape, torn, decided, replaying, enabled, faults>>

(* LLMRequestRecorded for each request of the batch. *)
Announce ==
    /\ pc = "announce"
    /\ \/ Advance("announce", "lookup") /\ UNCHANGED faults
       \/ Raise /\ pc' = "raised" /\ UNCHANGED k
    /\ UNCHANGED <<round, batch, recording, replaying, enabled>>

(* CachingLLM.complete_batch: hits are answered, the misses go on together; *)
(* requests of one batch with one prompt all miss.                          *)
Lookup ==
    /\ pc = "lookup"
    /\ flight' = [i \in Places |->
                    IF enabled THEN [tries |-> 0, out |-> cache[batch[i]]]
                    ELSE flight[i]]
    /\ pc' = "call"
    /\ UNCHANGED <<round, k, batch, attempts, cache, recorder, tape, torn, decided,
                   replaying, enabled, faults>>

Missed(i) == ~enabled \/ cache[batch[i]] = None

(* Seeded bug: the contexts are not filtered with the misses, so that the   *)
(* j-th miss carries the identity of the j-th request.                      *)
MutantContextOf(i) ==
    SequenceOf(Cardinality({j \in 1..i : Missed(j)}))

(* The identity an attempt of place i is reported under: the context goes   *)
(* through the cache with its own request.                                  *)
ContextOf(i) == SequenceOf(i)

(* One return of the loop in _acomplete_with_context: an answer, another    *)
(* turn, or the substitute after the last one.                              *)
Result(out, tries) ==
    IF out \in Texts THEN out
    ELSE IF tries > Retries THEN Fallback[out] ELSE None

(* The coroutines of one asyncio.gather: each attempt that returns or raises *)
(* is observed before the loop goes on.  An observer that raises ends the    *)
(* gather, and asyncio.run cancels the other requests.                       *)
Attempt(i) ==
    /\ pc = "call" /\ flight[i].out = None
    /\ \E out \in Outcomes :
         LET tries == flight[i].tries + 1
             event == [out |-> out, retry |-> out \notin Texts /\ tries <= Retries]
             observed == [attempts EXCEPT ![ContextOf(i)] = Append(@, event)]
         IN  \/ /\ flight' = [flight EXCEPT ![i] = [tries |-> tries,
                                                   out |-> Result(out, tries)]]
                /\ attempts' = observed
                /\ UNCHANGED <<pc, faults>>
             \/ /\ Raise /\ pc' = "raised"
                /\ attempts' \in {attempts, observed} /\ UNCHANGED flight
    /\ UNCHANGED <<round, k, batch, cache, recorder, tape, torn, decided, replaying,
                   enabled>>

(* Every request is answered: the cache keeps the fresh answers, the last   *)
(* of equal prompts staying, and the batch returns to the recorder.         *)
Return ==
    /\ pc = "call" /\ \A i \in Places : flight[i].out # None
    /\ cache' = IF ~enabled THEN cache
                ELSE [p \in Prompts |->
                        LET same == {i \in Places : batch[i] = p /\ Missed(i)}
                        IN  IF same = {} THEN cache[p]
                            ELSE flight[CHOOSE i \in same : \A j \in same : j <= i].out]
    /\ pc' = "store" /\ k' = 1
    /\ UNCHANGED <<round, batch, flight, attempts, recorder, tape, torn, decided,
                   replaying, enabled, faults>>

(* Seeded bug: the answer is announced before the record is appended.       *)
MutantStore ==
    /\ pc = "store"
    /\ LET stored == Append(tape, Record(k, flight[k].out))
       IN  \/ /\ tape' = stored /\ recorder' = [recorder EXCEPT !.responses = @ + 1]
              /\ Advance("store", "decide") /\ UNCHANGED faults
           \/ /\ Raise /\ Advance("store", "decide")
              /\ UNCHANGED <<tape, recorder>>
    /\ UNCHANGED <<round, batch, flight, attempts, cache, torn, decided, replaying,
                   enabled>>

(* _store_responses: append and fsync the record, count it, announce it;    *)
(* the append may raise with or without its line, the event likewise.       *)
Store ==
    /\ pc = "store"
    /\ LET stored == Append(tape, Record(k, flight[k].out))
       IN  \/ /\ tape' = stored /\ recorder' = [recorder EXCEPT !.responses = @ + 1]
              /\ Advance("store", "decide") /\ UNCHANGED faults
           \/ /\ Raise /\ pc' = "raised" /\ UNCHANGED k
              /\ \/ tape' \in {tape, stored} /\ UNCHANGED recorder
                 \/ tape' = stored /\ recorder' = [recorder EXCEPT !.responses = @ + 1]
    /\ UNCHANGED <<round, batch, flight, attempts, cache, torn, decided, replaying,
                   enabled>>

(* run_sim parses each answer and emits AgentDecisionParsed. *)
Decide ==
    /\ pc = "decide"
    /\ LET event == [round |-> round, agent |-> k, answer |-> flight[k].out,
                      line |-> SequenceOf(k)]
       IN  \/ /\ decided' = decided \union {event}
              /\ Advance("decide", "ask") /\ UNCHANGED faults
           \/ /\ Raise /\ pc' = "raised" /\ UNCHANGED k
              /\ decided' \in {decided, decided \union {event}}
    /\ UNCHANGED <<round, batch, flight, attempts, cache, recorder, tape, torn,
                   replaying, enabled>>

FinishRecording ==
    /\ pc = "ask" /\ round = Rounds /\ pc' = "finished"
    /\ UNCHANGED <<round, k, batch, recording, replaying, enabled, faults>>

RecordingSteps == {"ask", "announce", "lookup", "call", "store", "decide"}
Stopped == {"finished", "raised", "crashed"}

(* The process is killed, while it records or while it emits the events of  *)
(* its end.  In the middle of an os.write half a line remains: a record is  *)
(* appended in "store" only, events wherever the run is.                    *)
Crash ==
    /\ pc \in RecordingSteps \union {"finished", "raised"} /\ pc' = "crashed"
    /\ torn' \in {None, "events"} \union (IF pc = "store" THEN {"records"} ELSE {})
    /\ UNCHANGED <<round, k, batch, flight, attempts, cache, recorder, tape, decided,
                   replaying, enabled, faults>>

-----------------------------------------------------------------------------
(* Replaying: a new process, which reads llm_records.jsonl and nothing else *)
(* of the recorded run.                                                     *)

(* _load_records and ReplayLLM.__init__: schema, batches and identity are   *)
(* checked before the first round.  The other files are forgotten here.     *)
Load ==
    /\ pc \in Stopped
    /\ \E variant \in Variants, differs \in Differences :
          pc' = IF Preflight(variant, differs) THEN "ready" ELSE "rejected"
    /\ round' = 0 /\ k' = 1 /\ batch' = <<>> /\ enabled' = FALSE
    /\ flight' = Idle /\ cache' = [p \in Prompts |-> None]
    /\ attempts' = [s \in Sequences |-> <<>>] /\ decided' = {}
    /\ torn' = IF torn = "events" THEN None ELSE torn
    /\ UNCHANGED <<recorder, tape, replaying, faults>>

(* The simulation asks some batch in its next round.                        *)
AskReplay ==
    /\ pc = "ready" /\ round < Rounds + 1
    /\ \E size \in Places : \E p \in [1..size -> Prompts] : batch' = p
    /\ round' = round + 1 /\ k' = 1 /\ pc' = "match"
    /\ UNCHANGED <<recording, replaying, enabled, faults>>

Size == Len(batch)

(* The comparisons of _complete_many for the k-th request of the batch.     *)
Matches(n) ==
    LET r == tape[n]
    IN  /\ r.round = round /\ r.batch = batches + 1 /\ r.index = k
        /\ r.size = Size /\ r.prompt = batch[k]

(* The whole batch in progress is what the tape holds next.                 *)
NextOnTape ==
    \A i \in 1..Size :
        /\ cursor + i <= Len(tape)
        /\ LET r == tape[cursor + i]
           IN  r.round = round /\ r.size = Size /\ r.prompt = batch[i]

(* Seeded bug: each match consumes its record at once.                      *)
MutantMatch ==
    /\ pc = "match"
    /\ deviated' = ~NextOnTape
    /\ \/ /\ Raise /\ pc' = "refused" /\ UNCHANGED <<k, cursor, batches>>
       \/ /\ UNCHANGED faults
          /\ IF cursor + 1 > Len(tape) \/ ~Matches(cursor + 1)
             THEN pc' = "refused" /\ UNCHANGED <<k, cursor, batches>>
             ELSE /\ cursor' = cursor + 1
                  /\ IF k < Size
                     THEN k' = k + 1 /\ pc' = "match" /\ UNCHANGED batches
                     ELSE k' = 1 /\ pc' = "serve" /\ batches' = batches + 1
    /\ UNCHANGED <<round, batch, recording, served, enabled>>

(* One turn of _complete_many: announce the request, refuse it when the     *)
(* tape is used up or holds another; after the last one the batch is        *)
(* consumed as a whole.                                                     *)
Match ==
    /\ pc = "match"
    /\ deviated' = ~NextOnTape
    /\ \/ /\ Raise /\ pc' = "refused" /\ UNCHANGED <<k, cursor, batches>>
       \/ /\ UNCHANGED faults
          /\ IF cursor + k > Len(tape) \/ ~Matches(cursor + k)
             THEN pc' = "refused" /\ UNCHANGED <<k, cursor, batches>>
             ELSE IF k < Size
             THEN k' = k + 1 /\ pc' = "match" /\ UNCHANGED <<cursor, batches>>
             ELSE /\ k' = 1 /\ pc' = "serve"
                  /\ cursor' = cursor + Size /\ batches' = batches + 1
    /\ UNCHANGED <<round, batch, recording, served, enabled>>

(* LLMResponseRecorded for each record of the batch, then the answers are   *)
(* returned together.                                                       *)
Serve ==
    /\ pc = "serve"
    /\ \/ /\ Raise /\ pc' = "refused" /\ UNCHANGED served
       \/ /\ served' = served \o [i \in 1..Size |->
                [round |-> round, agent |-> i, prompt |-> batch[i],
                 answer |-> tape[cursor - Size + i].answer]]
          /\ pc' = "ready" /\ UNCHANGED faults
    /\ UNCHANGED <<round, k, batch, recording, cursor, batches, deviated, enabled>>

(* The simulation has returned: assert_exhausted. *)
FinishReplay ==
    /\ pc = "ready" /\ round > 0
    /\ pc' = IF cursor < Len(tape) THEN "early" ELSE "accepted"
    /\ UNCHANGED <<round, k, batch, recording, replaying, enabled, faults>>

Done == pc \in {"rejected", "refused", "early", "accepted"} /\ UNCHANGED vars

Next ==
    \/ Ask \/ Announce \/ Lookup \/ (\E i \in Places : Attempt(i)) \/ Return
    \/ Store \/ Decide \/ FinishRecording \/ Crash
    \/ Load \/ AskReplay \/ Match \/ Serve \/ FinishReplay \/ Done

Spec == Init /\ [][Next]_vars

-----------------------------------------------------------------------------
(* Reparse audit, over the tape and the event log of a run *)

(* The decisions that _decision_index files under the key of line n.        *)
HistoricalDecision(n) ==
    {d \in decided : <<d.round, d.agent, d.answer>> =
                     <<tape[n].round, tape[n].index, tape[n].answer>>}

(* What each line is compared with.                                         *)
Audit == [n \in 1..Len(tape) |-> HistoricalDecision(n)]

(* _read_jsonl raises at half a line: of the records before anything is     *)
(* created, of the events when the audit's directory is there, empty.       *)
AuditOutcome ==
    CASE torn = "records" -> "refused"
      [] torn = "events"  -> "abandoned"
      [] OTHER            -> "written"

-----------------------------------------------------------------------------
(* Properties *)

(* The evidence of a request explains its answer (provider_attempts.py,     *)
(* CachingLLM): the attempts logged under its sequence number are a         *)
(* complete retry history that ends in the answer on the tape, or in the    *)
(* substitute for its last failure; and a request with no attempt repeats   *)
(* the answer of an earlier batch to the same prompt.                       *)
Explains(history, answer) ==
    /\ Len(history) <= Retries + 1
    /\ \A j \in 1..Len(history) :
          history[j].retry <=> j < Len(history)
    /\ LET last == history[Len(history)].out
       IN  answer = IF last \in Texts THEN last ELSE Fallback[last]
AttemptsExplainAnswers ==
    pc \in RecordingSteps \union Stopped =>
    \A n \in 1..Len(tape) :
        IF attempts[n] # <<>> THEN Explains(attempts[n], tape[n].answer)
        ELSE /\ enabled
             /\ \E m \in 1..(n - 1) :
                    /\ tape[m].batch < tape[n].batch /\ attempts[m] # <<>>
                    /\ tape[m].prompt = tape[n].prompt
                    /\ tape[m].answer = tape[n].answer

(* A recording that ended by itself can be loaded, and one that was cut off *)
(* can be loaded exactly when it was cut between two batches: no strict     *)
(* replay starts from half a batch (recording_schema.py).                   *)
LoadsWhatIsWhole ==
    pc \in Stopped =>
        /\ Loadable <=> torn # "records" /\ tape # <<>> /\ Len(tape) % Agents = 0
        /\ pc = "finished" /\ Rounds > 0 => Loadable /\ Len(tape) = Rounds * Agents

(* What a replay returned to its simulation is, batch for batch, the        *)
(* recorded requests with the recorded answers, and it has consumed exactly *)
(* that much of the tape, plus at most the batch it failed to return.  It   *)
(* is refused only for an event that could not be written or a request that *)
(* is not next on the tape, and accepted only at the end of it.             *)
ServesTheTape ==
    /\ \A n \in 1..Len(served) :
          served[n] = [round |-> tape[n].round, agent |-> tape[n].index,
                       prompt |-> tape[n].prompt, answer |-> tape[n].answer]
    /\ cursor - Len(served) \in {0} \union (IF pc \in {"serve", "refused"}
                                            THEN {Size} ELSE {})
    /\ cursor > 0 => tape[cursor].index = tape[cursor].size
    /\ pc = "accepted" => Len(served) = Len(tape)
    /\ pc = "refused" => faults > 0 \/ deviated

(* Every decision in the event log has its line on the tape.  An audit of a *)
(* stopped recording that is written compares each line with the decision   *)
(* parsed from it and no other; only lines of the last round have none, and *)
(* after a finished run no line.  Only a kill, which may leave half a line  *)
(* in either log, makes it compare nothing (run_reparse_audit).             *)
DecisionsAreOnTape ==
    pc \in Stopped =>
        /\ \A d \in decided : d.line \in 1..Len(tape)
        /\ AuditOutcome = "written" =>
              \A n \in 1..Len(tape) :
                  /\ Audit[n] = {d \in decided : d.line = n}
                  /\ Audit[n] = {} => tape[n].round = round /\ pc # "finished"
        /\ AuditOutcome # "written" => pc = "crashed"
=============================================================================
