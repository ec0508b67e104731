--------------------------- MODULE AttemptEvidence ---------------------------
(***************************************************************************)
(* What the multi-event analysis makes of the retries of a recorded run.    *)
(* Three witnesses are written on three paths: the attempt events of the    *)
(* adapter (RecordReplay!attempts), the counters that the managed context   *)
(* keeps of them in the manifest, and the decisions, whose terminal status  *)
(* is read off the answer alone.  aggregate_multi_event.py recounts the     *)
(* events, parses each retry history and lets the three close.              *)
(***************************************************************************)
EXTENDS RecordReplay

VARIABLE tally   \* completion.application_provider_attempts of the manifest

evidenceVars == <<vars, tally>>

Failures == {"exception", "junk"}

(* The strict schema has no place for what an adapter substitutes, so that  *)
(* no text of the endpoint is mistaken for it (validate_decision_response). *)
ASSUME EvidenceAssumption ==
    Texts \intersect (Failures \union {Fallback[f] : f \in Failures}) = {}

NoAttempts == [attempted |-> 0, responses |-> 0, parseFailed |-> 0, exceptions |-> 0,
               retries |-> 0, withRetry |-> 0, exhausted |-> 0]

EvidenceInit == Init /\ tally = NoAttempts

-----------------------------------------------------------------------------
(* The context's own count *)

(* Seeded bug: each retry makes another request with a retry.               *)
MutantCounted(t, e, n) ==
    LET add(yes) == IF yes THEN 1 ELSE 0
    IN  [attempted   |-> t.attempted + 1,
         responses   |-> t.responses + add(e.out # "exception"),
         parseFailed |-> t.parseFailed + add(e.out = "junk"),
         exceptions  |-> t.exceptions + add(e.out = "exception"),
         retries     |-> t.retries + add(e.retry),
         withRetry   |-> t.withRetry + add(e.retry \/ n > 1),
         exhausted   |-> t.exhausted + add(~e.retry /\ e.out \in Failures)]

(* _observe_event for the n-th attempt of a request.                        *)
Counted(t, e, n) ==
    LET add(yes) == IF yes THEN 1 ELSE 0
    IN  [attempted   |-> t.attempted + 1,
         responses   |-> t.responses + add(e.out # "exception"),
         parseFailed |-> t.parseFailed + add(e.out = "junk"),
         exceptions  |-> t.exceptions + add(e.out = "exception"),
         retries     |-> t.retries + add(e.retry),
         withRetry   |-> t.withRetry + add(n = 2),
         exhausted   |-> t.exhausted + add(~e.retry /\ e.out \in Failures)]

(* The event is appended before it is counted; what raises in between stays *)
(* uncounted, and ends the run.                                             *)
Observes ==
    \E i \in Places :
        /\ Attempt(i)
        /\ LET s == ContextOf(i)
               counted == Counted(tally, attempts'[s][Len(attempts'[s])], Len(attempts'[s]))
           IN  tally' \in IF attempts' = attempts THEN {tally}
                          ELSE IF pc' = "raised" THEN {tally, counted} ELSE {counted}

-----------------------------------------------------------------------------
(* The analysis *)

(* validate_decision_response: the adapters hand through no other text.     *)
StrictlyValid(answer) == answer \in Texts

(* exact_adapter_terminal_status: they mark what they substitute.           *)
Marked(answer) ==
    IF answer = Fallback["exception"] THEN "provider_exception_exhausted"
    ELSE "provider_parse_exhausted"

Terminal(answer) == IF StrictlyValid(answer) THEN "valid_decision" ELSE Marked(answer)

(* The disjoint union of the result's health.                               *)
Health ==
    [status \in {"valid_decision", "provider_exception_exhausted",
                 "provider_parse_exhausted"} |->
        Cardinality({d \in decided : Terminal(d.answer) = status})]

Listed == {s \in Sequences : attempts[s] # <<>>}
Last(s) == attempts[s][Len(attempts[s])]

(* All attempt events: the n-th attempt of a request, and those that ended  *)
(* in one of the given ways.                                                *)
Events == UNION {{s} \X DOMAIN attempts[s] : s \in Listed}
Ending(ways) == {e \in Events : attempts[e[1]][e[2]].out \in ways}

(* The counters, once more from the events.                                 *)
Recounted ==
    [attempted   |-> Cardinality(Events),
     responses   |-> Cardinality(Ending(Outcomes \ {"exception"})),
     parseFailed |-> Cardinality(Ending({"junk"})),
     exceptions  |-> Cardinality(Ending({"exception"})),
     retries     |-> Cardinality({e \in Events : attempts[e[1]][e[2]].retry}),
     withRetry   |-> Cardinality({s \in Listed : Len(attempts[s]) >= 2}),
     exhausted   |-> Cardinality({s \in Listed : Last(s).out \in Failures})]

(* A live child has reported exactly one model, with its first response.    *)
NamesItsModel == Ending(Outcomes \ {"exception"}) # {}

(* One retry history: a retry after each failure but the last, none after a *)
(* usable response, and no giving up ahead of the last attempt.             *)
WellFormed(s) ==
    /\ \A n \in 1..(Len(attempts[s]) - 1) :
          attempts[s][n].retry /\ attempts[s][n].out \in Failures
    /\ ~Last(s).retry
    /\ Last(s).out \in Failures => Len(attempts[s]) = Retries + 1

Cell(s) == <<(s - 1) \div Agents + 1, ((s - 1) % Agents) + 1>>   \* round and agent

Decisions == {<<d.round, d.agent>> : d \in decided}

(* The histories are numbered without a gap and belong to the decisions.    *)
Closes ==
    /\ Listed = 1..Cardinality(Listed)
    /\ Cardinality(Listed) = Cardinality(decided)
    /\ {Cell(s) : s \in Listed} = Decisions

(* The exhausted requests are the decisions that say so, kind by kind.      *)
HealthCloses ==
    LET ending(out) == Cardinality({s \in Listed : Last(s).out = out})
    IN  /\ Health["provider_exception_exhausted"] = ending("exception")
        /\ Health["provider_parse_exhausted"] = ending("junk")
        /\ Health["provider_exception_exhausted"] + Health["provider_parse_exhausted"]
             = tally.exhausted

EvidenceHolds ==
    /\ NamesItsModel /\ tally = Recounted
    /\ \A s \in Listed : WellFormed(s)
    /\ Closes /\ HealthCloses

-----------------------------------------------------------------------------
(* Everything else leaves the count alone; a replay has none of it.         *)
EvidenceNext ==
    \/ Observes
    \/ Load /\ tally' = NoAttempts
    \/ /\ \/ Ask \/ Announce \/ Lookup \/ Return \/ Store \/ Decide \/ FinishRecording
          \/ Crash \/ AskReplay \/ Match \/ Serve \/ FinishReplay \/ Done
       /\ UNCHANGED tally

EvidenceSpec == EvidenceInit /\ [][EvidenceNext]_evidenceVars

(* A run without the cache that ended by itself, and heard from its model   *)
(* at all, is never refused for its attempts; and evidence that is accepted *)
(* has, for each decision, the history of its own request, which ends in    *)
(* what the decision was parsed from.                                       *)
EvidenceCloses ==
    pc = "finished" =>
        /\ ~enabled /\ NamesItsModel => EvidenceHolds
        /\ EvidenceHolds =>
              \A d \in decided :
                  LET out == Last(d.line).out
                  IN  /\ Cell(d.line) = <<d.round, d.agent>>
                      /\ d.answer = IF out \in Texts THEN out ELSE Fallback[out]
=============================================================================
