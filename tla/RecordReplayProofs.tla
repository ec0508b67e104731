------------------------- MODULE RecordReplayProofs -------------------------
(***************************************************************************)
(* Proofs about RecordReplay and AttemptEvidence, for any number of        *)
(* agents, rounds, prompts, retries and faults, with or without the cache, *)
(* and wherever the recording was cut off: the tape loads exactly when it  *)
(* ends with a whole batch, a replay that asks anything returns it batch   *)
(* by batch and is refused only with cause, each decision has its line,    *)
(* the logged attempts explain each answer, and the analysis finds its     *)
(* three witnesses of the retries in agreement.                            *)
(***************************************************************************)
EXTENDS AttemptEvidence, SequenceTheorems, WellFoundedInduction, FiniteSetTheorems, TLAPS

Asking == {"announce", "lookup", "call", "store", "decide"}
Replaying == {"ready", "match", "serve", "refused", "early", "accepted"}

(* Types, with what the code's types do not say: the batch in progress has  *)
(* a prompt for each place, and an unanswered request has attempts left.    *)
Typed ==
    /\ TypeOK
    /\ pc \in Asking => batch \in [Places -> Prompts]
    /\ pc \in {"match", "serve"} => Size \in Places
    /\ \A i \in Places : flight[i].out = None => flight[i].tries <= Retries

-----------------------------------------------------------------------------
LEMMA Numbers ==
    /\ Agents \in Nat /\ Agents >= 1 /\ Places = 1..Agents /\ 1 \in Places
    /\ Retries \in Nat /\ MaxFaults \in Nat
  BY TapeAssumption DEF Places

LEMMA NoAnswerIsNone == None \notin Answers
  BY TapeAssumption DEF None, Answers

(* The last of a set of places. *)
LEMMA LastPlace ==
  ASSUME NEW S \in SUBSET Places, S # {}
  PROVE  \E i \in S : \A j \in S : j <= i
<1> DEFINE T == {Agents - i : i \in S}
<1>1. T \subseteq Nat /\ T # {}
  BY Numbers
<1> DEFINE Less == {ss \in Nat \X Nat : ss[1] < ss[2]}
<1>w. IsWellFoundedOn(Less, Nat)
  BY NatLessThanWellFounded DEF OpToRel
<1>2. \E x \in T : \A y \in T : ~(<<y, x>> \in Less)
  <2> HIDE DEF T, Less
  <2> QED  BY <1>1, <1>w, WFMin
<1>3. PICK x \in T : \A y \in T : ~(y < x)
  BY <1>1, <1>2
<1>4. PICK i \in S : x = Agents - i
  BY <1>3
<1>5. \A j \in S : ~(Agents - j < Agents - i)
  BY <1>3, <1>4
<1> QED  BY <1>5, <1>4, Numbers

-----------------------------------------------------------------------------
(* Types *)

LEMMA IdleTyped == Idle \in Requests /\ \A i \in Places : Idle[i].tries <= Retries
  BY Numbers DEF Idle, Requests, Given

LEMMA EmptyTyped ==
    /\ <<>> \in Questions /\ <<>> \in Histories /\ <<>> \in Seq(Line) /\ <<>> \in Seq(Reply)
    /\ [p \in Prompts |-> None] \in Caches
    /\ [s \in Sequences |-> <<>>] \in [Sequences -> Histories]
  BY DEF Questions, Histories, Caches, Given

LEMMA InitTyped == Init => Typed
<1> SUFFICES ASSUME Init PROVE Typed
  OBVIOUS
<1>1. recorder \in Counters
  BY DEF Init, Counters
<1>2. enabled \in BOOLEAN
  BY TapeAssumption DEF Init
<1>3. cursor \in 0..Len(tape) /\ faults \in 0..MaxFaults
  BY Numbers DEF Init
<1> QED  BY <1>1, <1>2, <1>3, IdleTyped, EmptyTyped, Numbers DEF Init, Typed, TypeOK, Asking

LEMMA AdvanceTyped ==
  ASSUME TypeOK, NEW here, NEW next, Advance(here, next)
  PROVE  k' \in Places /\ pc' \in {here, next}
  BY Numbers DEF TypeOK, Advance

LEMMA RaiseTyped == TypeOK /\ (Raise \/ UNCHANGED faults) => faults' \in 0..MaxFaults
  BY Numbers DEF TypeOK, Raise

LEMMA RecordTyped ==
  ASSUME Typed, pc \in Asking
  PROVE  /\ Record(k, flight[k].out) \in Line
         /\ Append(tape, Record(k, flight[k].out)) \in Seq(Line)
         /\ Len(tape) \in Nat
         /\ Len(Append(tape, Record(k, flight[k].out))) = Len(tape) + 1
<1>1. flight[k].out \in Given /\ batch[k] \in Prompts
  BY DEF Typed, TypeOK, Requests
<1>2. recorder.sequence \in Int /\ recorder.batches \in Int /\ round \in Int /\ k \in Int
  BY Numbers DEF Typed, TypeOK, Counters
<1>3. Record(k, flight[k].out) \in Line
  BY <1>1, <1>2, Numbers DEF Record, SequenceOf, Line
<1> HIDE DEF Line
<1> QED  BY <1>3 DEF Typed, TypeOK

LEMMA AskTyped == Typed /\ Ask => Typed'
<1> SUFFICES ASSUME Typed, Ask PROVE Typed'
  OBVIOUS
<1>1. batch' \in [Places -> Prompts] /\ batch' \in Questions
  BY Numbers DEF Ask, Questions
<1>2. flight' = Idle /\ k' \in Places /\ round' \in Nat /\ pc' = "announce"
  BY Numbers DEF Ask, Typed, TypeOK
<1>3. recorder' \in Counters
  <2>1. recorder.sequence + Agents \in Nat /\ recorder.batches + 1 \in Nat
    BY Numbers DEF Typed, TypeOK, Counters
  <2>2. recorder' = [recorder EXCEPT !.sequence = @ + Agents, !.batches = @ + 1]
    BY DEF Ask
  <2> QED  BY <2>1, <2>2 DEF Typed, TypeOK, Counters
<1> QED
  BY <1>1, <1>2, <1>3, IdleTyped DEF Ask, Typed, TypeOK, Asking, replaying

LEMMA AnnounceTyped == Typed /\ Announce => Typed'
<1> SUFFICES ASSUME Typed, Announce PROVE Typed'
  OBVIOUS
<1>1. k' \in Places /\ pc' \in {"announce", "lookup", "raised"} /\ faults' \in 0..MaxFaults
  BY AdvanceTyped, RaiseTyped DEF Announce, Typed, TypeOK
<1> QED  BY <1>1 DEF Announce, Typed, TypeOK, Asking, recording, replaying

LEMMA LookupTyped == Typed /\ Lookup => Typed'
<1> SUFFICES ASSUME Typed, Lookup PROVE Typed'
  OBVIOUS
<1>1. \A i \in Places : cache[batch[i]] \in Given
  BY DEF Lookup, Typed, TypeOK, Asking, Caches
<1>2. \A i \in Places : /\ flight'[i] \in [tries : 0..(Retries + 1), out : Given]
                        /\ flight'[i].out = None => flight'[i].tries <= Retries
  BY <1>1, Numbers DEF Lookup, Typed, TypeOK, Requests
<1>3. flight' \in Requests
  BY <1>2 DEF Lookup, Requests
<1> QED  BY <1>2, <1>3 DEF Lookup, Typed, TypeOK, Asking, replaying

LEMMA AttemptTyped ==
  ASSUME Typed, NEW i \in Places, Attempt(i)
  PROVE  Typed'
<1> PICK out \in Outcomes :
      LET tries == flight[i].tries + 1
          event == [out |-> out, retry |-> out \notin Texts /\ tries <= Retries]
          observed == [attempts EXCEPT ![ContextOf(i)] = Append(@, event)]
      IN  \/ /\ flight' = [flight EXCEPT ![i] = [tries |-> tries,
                                                out |-> Result(out, tries)]]
             /\ attempts' = observed
             /\ UNCHANGED <<pc, faults>>
          \/ /\ Raise /\ pc' = "raised"
             /\ attempts' \in {attempts, observed} /\ UNCHANGED flight
  BY DEF Attempt
<1> DEFINE tries == flight[i].tries + 1
           event == [out |-> out, retry |-> out \notin Texts /\ tries <= Retries]
           observed == [attempts EXCEPT ![ContextOf(i)] = Append(@, event)]
<1>1. tries \in 1..(Retries + 1)
  BY Numbers DEF Attempt, Typed, TypeOK, Requests
<1>2. observed \in [Sequences -> Histories]
  <2> DEFINE Logged == [out : Outcomes, retry : BOOLEAN]
  <2>1. event \in Logged
    <3> DEFINE retry == out \notin Texts /\ tries <= Retries
    <3>1. retry \in BOOLEAN
      OBVIOUS
    <3> HIDE DEF retry
    <3> QED  BY <3>1
  <2>2. observed \in [Sequences -> Histories]
    <3>1. \A h \in Histories : Append(h, event) \in Histories
      <4> HIDE DEF event
      <4> QED  BY <2>1 DEF Histories
    <3> HIDE DEF event, Logged
    <3> QED  BY <3>1 DEF Typed, TypeOK
  <2> QED  BY <2>2
<1>3. attempts' \in [Sequences -> Histories]
  <2>1. attempts' = attempts \/ attempts' = observed
    OBVIOUS
  <2> HIDE DEF observed
  <2> QED  BY <1>2, <2>1 DEF Typed, TypeOK
<1>4. Result(out, tries) \in Given /\ (Result(out, tries) = None => tries <= Retries)
  <2> HIDE DEF tries
  <2>1. CASE out \in Texts
    BY <2>1, TapeAssumption DEF Result, Given, Answers, None
  <2>2. CASE out \notin Texts /\ tries > Retries
    <3>1. out \in {"exception", "junk"}
      BY <2>2 DEF Outcomes
    <3>2. Fallback[out] \in {"api-error", "parse-retries-exhausted"}
      BY <3>1 DEF Fallback
    <3> QED  BY <2>2, <3>2, NoAnswerIsNone DEF Result, Given, Answers
  <2>3. CASE out \notin Texts /\ ~(tries > Retries)
    BY <2>3, <1>1, Numbers DEF Result, Given
  <2> QED  BY <2>1, <2>2, <2>3
<1>5. /\ flight' \in Requests
      /\ \A j \in Places : flight'[j].out = None => flight'[j].tries <= Retries
  <2>1. CASE UNCHANGED flight
    BY <2>1 DEF Typed, TypeOK
  <2>2. CASE flight' = [flight EXCEPT ![i] = [tries |-> tries, out |-> Result(out, tries)]]
    <3>1. [tries |-> tries, out |-> Result(out, tries)] \in [tries : 0..(Retries + 1), out : Given]
      BY <1>1, <1>4, Numbers
    <3> HIDE DEF tries
    <3> QED  BY <2>2, <3>1, <1>4 DEF Typed, TypeOK, Requests
  <2> QED  BY <2>1, <2>2
<1>6. pc' \in {"call", "raised"} /\ faults' \in 0..MaxFaults
  BY RaiseTyped DEF Attempt, Typed
<1> HIDE DEF tries, event, observed
<1>7. UNCHANGED <<round, k, batch, cache, recorder, tape, torn, decided, replaying, enabled>>
  BY DEF Attempt
<1> QED  BY <1>3, <1>5, <1>6, <1>7 DEF Attempt, Typed, TypeOK, Asking, replaying

LEMMA ReturnTyped == Typed /\ Return => Typed'
<1> SUFFICES ASSUME Typed, Return PROVE Typed'
  OBVIOUS
<1> DEFINE Same(p) == {i \in Places : batch[i] = p /\ Missed(i)}
           Final(p) == CHOOSE i \in Same(p) : \A j \in Same(p) : j <= i
<1>1. ASSUME NEW p \in Prompts, Same(p) # {} PROVE flight[Final(p)].out \in Given
  <2>1. Final(p) \in Places
    <3>1. Same(p) \in SUBSET Places
      OBVIOUS
    <3>2. \E i \in Same(p) : \A j \in Same(p) : j <= i
      <4> HIDE DEF Same
      <4> QED  BY <1>1, <3>1, LastPlace
    <3> HIDE DEF Same
    <3> QED  BY <3>1, <3>2
  <2> HIDE DEF Final
  <2> QED  BY <2>1 DEF Typed, TypeOK, Requests
<1>2. \/ cache' = cache
      \/ cache' = [p \in Prompts |-> IF Same(p) = {} THEN cache[p] ELSE flight[Final(p)].out]
  BY DEF Return
<1>3. cache' \in Caches
  <2> HIDE DEF Same, Final
  <2> QED  BY <1>1, <1>2 DEF Typed, TypeOK, Caches
<1> HIDE DEF Same, Final
<1>4. pc' = "store" /\ k' \in Places /\ pc \in Asking
  BY Numbers DEF Return, Asking
<1>5. UNCHANGED <<round, batch, flight, attempts, recorder, tape, torn, decided,
                  replaying, enabled, faults>>
  BY DEF Return
<1> QED  BY <1>3, <1>4, <1>5 DEF Typed, TypeOK, Asking, replaying

LEMMA StoreTyped == Typed /\ Store => Typed'
<1> SUFFICES ASSUME Typed, Store PROVE Typed'
  OBVIOUS
<1> DEFINE stored == Append(tape, Record(k, flight[k].out))
<1>1. stored \in Seq(Line) /\ Len(tape) \in Nat /\ Len(stored) = Len(tape) + 1
  BY RecordTyped DEF Store, Asking
<1>2. tape' \in {tape, stored}
  BY DEF Store
<1>3. tape' \in Seq(Line) /\ cursor \in 0..Len(tape')
  <2> HIDE DEF stored
  <2> QED  BY <1>1, <1>2 DEF Typed, TypeOK
<1>4. k' \in Places /\ pc' \in {"store", "decide", "raised"} /\ faults' \in 0..MaxFaults
  BY AdvanceTyped, RaiseTyped DEF Store, Typed, TypeOK
<1>5. recorder' \in Counters
  BY DEF Store, Typed, TypeOK, Counters
<1>6. /\ UNCHANGED <<round, batch, flight, attempts, cache, torn, decided, replaying, enabled>>
      /\ pc \in Asking
  BY DEF Store, Asking
<1> HIDE DEF stored
<1> QED  BY <1>3, <1>4, <1>5, <1>6 DEF Typed, TypeOK, Asking, replaying

LEMMA DecideTyped == Typed /\ Decide => Typed'
<1> SUFFICES ASSUME Typed, Decide PROVE Typed'
  OBVIOUS
<1>1. k' \in Places /\ pc' \in {"decide", "ask", "raised"} /\ faults' \in 0..MaxFaults
  BY AdvanceTyped, RaiseTyped DEF Decide, Typed, TypeOK
<1>2. /\ UNCHANGED <<round, batch, flight, attempts, cache, recorder, tape, torn,
                     replaying, enabled>>
      /\ pc \in Asking
  BY DEF Decide, Asking
<1> QED  BY <1>1, <1>2 DEF Typed, TypeOK, Asking, replaying

LEMMA EndsTyped == Typed /\ (FinishRecording \/ Crash \/ FinishReplay) => Typed'
<1> SUFFICES ASSUME Typed, FinishRecording \/ Crash \/ FinishReplay PROVE Typed'
  OBVIOUS
<1>1. /\ UNCHANGED <<round, k, batch, flight, attempts, cache, recorder, tape, cursor,
                     batches, served, deviated, enabled, faults>>
      /\ pc' \in {"finished", "crashed", "early", "accepted"}
  BY DEF FinishRecording, Crash, FinishReplay, recording, replaying
<1>2. torn' \in {None, "records", "events"}
  BY DEF FinishRecording, Crash, FinishReplay, recording, Typed, TypeOK
<1> QED  BY <1>1, <1>2 DEF Typed, TypeOK, Asking

LEMMA LoadTyped == Typed /\ Load => Typed'
<1> SUFFICES ASSUME Typed, Load PROVE Typed'
  OBVIOUS
<1>1. pc' \in {"ready", "rejected"} /\ round' \in Nat /\ k' \in Places /\ enabled' \in BOOLEAN
  BY Numbers DEF Load
<1>2. /\ batch' = <<>> /\ flight' = Idle /\ cache' = [p \in Prompts |-> None]
      /\ attempts' = [s \in Sequences |-> <<>>]
      /\ UNCHANGED <<recorder, tape, replaying, faults>>
      /\ torn' \in {torn, None}
  BY DEF Load
<1> QED  BY <1>1, <1>2, IdleTyped, EmptyTyped DEF Typed, TypeOK, Asking, replaying

LEMMA AskReplayTyped == Typed /\ AskReplay => Typed'
<1> SUFFICES ASSUME Typed, AskReplay PROVE Typed'
  OBVIOUS
<1>1. PICK size \in Places : \E p \in [1..size -> Prompts] : batch' = p
  BY DEF AskReplay
<1>2. batch' \in Questions /\ Size' = size
  BY <1>1, Numbers DEF Questions, Size
<1>3. pc' = "match" /\ k' \in Places /\ round' \in Nat
  BY Numbers DEF AskReplay, Typed, TypeOK
<1> QED  BY <1>2, <1>3 DEF AskReplay, Typed, TypeOK, Asking, recording, replaying

LEMMA MatchCases ==
  ASSUME Match
  PROVE  \/ Raise /\ pc' = "refused" /\ UNCHANGED <<k, cursor, batches>>
         \/ /\ cursor + k > Len(tape) \/ ~Matches(cursor + k)
            /\ pc' = "refused" /\ UNCHANGED <<faults, k, cursor, batches>>
         \/ /\ ~(cursor + k > Len(tape)) /\ Matches(cursor + k) /\ k < Size
            /\ k' = k + 1 /\ pc' = "match" /\ UNCHANGED <<faults, cursor, batches>>
         \/ /\ ~(cursor + k > Len(tape)) /\ Matches(cursor + k) /\ ~(k < Size)
            /\ k' = 1 /\ pc' = "serve" /\ UNCHANGED faults
            /\ cursor' = cursor + Size /\ batches' = batches + 1
  BY DEF Match

LEMMA MatchTyped == Typed /\ Match => Typed'
<1> SUFFICES ASSUME Typed, Match PROVE Typed'
  OBVIOUS
<1>1. Size \in Places /\ Size' = Size /\ Len(tape) \in Nat
  BY DEF Match, Typed, TypeOK, Size
<1>2. /\ pc' \in {"refused", "match", "serve"} /\ k' \in Places
      /\ cursor' \in 0..Len(tape) /\ batches' \in Nat
  <2>1. CASE pc' = "refused" /\ UNCHANGED <<k, cursor, batches>>
    BY <2>1 DEF Typed, TypeOK
  <2>2. CASE k < Size /\ k' = k + 1 /\ pc' = "match" /\ UNCHANGED <<cursor, batches>>
    BY <2>2, <1>1, Numbers DEF Typed, TypeOK
  <2>3. CASE /\ ~(cursor + k > Len(tape)) /\ ~(k < Size) /\ k' = 1 /\ pc' = "serve"
             /\ cursor' = cursor + Size /\ batches' = batches + 1
    BY <2>3, <1>1, Numbers DEF Typed, TypeOK
  <2> QED  BY <2>1, <2>2, <2>3, MatchCases
<1>3. deviated' \in BOOLEAN
  BY DEF Match
<1>4. faults' \in 0..MaxFaults
  BY MatchCases, RaiseTyped DEF Typed
<1>5. UNCHANGED <<round, batch, flight, attempts, cache, recorder, tape, torn, served, enabled>>
  BY DEF Match, recording
<1> QED  BY <1>1, <1>2, <1>3, <1>4, <1>5 DEF Typed, TypeOK, Asking

-----------------------------------------------------------------------------
(* Replay *)

(* The next line is where a batch ends, and batches have been counted. *)
Boundary ==
    IF cursor = 0 THEN batches = 0
    ELSE tape[cursor].index = tape[cursor].size /\ tape[cursor].batch = batches

Returned ==
    \A n \in 1..Len(served) :
        served[n] = [round |-> tape[n].round, agent |-> tape[n].index,
                     prompt |-> tape[n].prompt, answer |-> tape[n].answer]

(* Line n is the record of place i of the batch in progress. *)
Holds(n, i) ==
    tape[n].round = round /\ tape[n].index = i /\ tape[n].prompt = batch[i]

(* How far the replay has got at each point of control. *)
Position ==
    /\ pc \in {"ready", "match", "early", "accepted"} => cursor = Len(served)
    /\ pc = "accepted" => cursor = Len(tape)
    /\ pc = "match" => /\ k \in 1..Size
                       /\ \A j \in 1..(k - 1) :
                            /\ cursor + j <= Len(tape) /\ tape[cursor + j].size = Size
                            /\ tape[cursor + j].batch = batches + 1
                            /\ Holds(cursor + j, j)
    /\ pc = "serve" => /\ cursor = Len(served) + Size
                       /\ \A j \in 1..Size : Holds(Len(served) + j, j)
    /\ pc = "refused" => /\ cursor - Len(served) \in {0, Size}
                         /\ faults > 0 \/ deviated

ReplayInv ==
    /\ Typed /\ Boundary /\ Returned /\ Position
    /\ pc \in Replaying => WholeBatches(tape)
    /\ pc \notin Replaying => cursor = 0 /\ served = <<>>

LEMMA ReplayInvServes == ReplayInv => ServesTheTape
<1> SUFFICES ASSUME ReplayInv PROVE ServesTheTape
  OBVIOUS
<1>1. Len(served) \in Nat /\ Len(tape) \in Nat /\ cursor \in Nat
  BY DEF ReplayInv, Typed, TypeOK
<1>2. cursor - Len(served) \in {0} \union (IF pc \in {"serve", "refused"}
                                           THEN {Size} ELSE {})
  <2>1. pc \in {"match", "serve", "refused"} => Size \in Int
    BY DEF ReplayInv, Typed, TypeOK, Questions, Size
  <2>2. CASE pc \in Replaying
    BY <1>1, <2>1, <2>2 DEF ReplayInv, Position, Replaying
  <2>3. CASE pc \notin Replaying
    BY <1>1, <2>3 DEF ReplayInv
  <2> QED  BY <2>2, <2>3
<1>3. pc = "accepted" => Len(served) = Len(tape)
  BY DEF ReplayInv, Position
<1>4. pc = "refused" => faults > 0 \/ deviated
  BY DEF ReplayInv, Position
<1>5. cursor > 0 => tape[cursor].index = tape[cursor].size
  BY DEF ReplayInv, Boundary
<1> QED  BY <1>2, <1>3, <1>4, <1>5 DEF ReplayInv, Returned, ServesTheTape

LEMMA InitReplay == Init => ReplayInv
<1> SUFFICES ASSUME Init PROVE ReplayInv
  OBVIOUS
<1>1. Typed
  BY InitTyped
<1> QED  BY <1>1 DEF Init, ReplayInv, Boundary, Returned, Position, Replaying

Recordings == Ask \/ Announce \/ Lookup \/ (\E i \in Places : Attempt(i)) \/ Return
              \/ Store \/ Decide \/ FinishRecording \/ Crash

LEMMA RecordingsTyped == Typed /\ Recordings => Typed'
  BY AskTyped, AnnounceTyped, LookupTyped, AttemptTyped, ReturnTyped, StoreTyped,
     DecideTyped, EndsTyped
  DEF Recordings

(* A recording step touches nothing of the replay, which has not begun. *)
LEMMA RecordingReplays == ReplayInv /\ Recordings => ReplayInv'
<1> SUFFICES ASSUME ReplayInv, Recordings PROVE ReplayInv'
  OBVIOUS
<1>1. Typed'
  BY RecordingsTyped DEF ReplayInv
<1>2. /\ UNCHANGED <<cursor, batches, served>>
      /\ pc \notin Replaying /\ pc' \notin Replaying
  <2>1. CASE Ask
    BY <2>1 DEF Ask, Replaying, replaying
  <2>2. CASE Announce
    BY <2>2, AdvanceTyped DEF Announce, Advance, Replaying, replaying
  <2>3. CASE Lookup
    BY <2>3 DEF Lookup, Replaying, replaying
  <2>4. CASE \E i \in Places : Attempt(i)
    BY <2>4 DEF Attempt, Replaying, replaying
  <2>5. CASE Return
    BY <2>5 DEF Return, Replaying, replaying
  <2>6. CASE Store
    BY <2>6 DEF Store, Advance, Replaying, replaying
  <2>7. CASE Decide
    BY <2>7 DEF Decide, Advance, Replaying, replaying
  <2>8. CASE FinishRecording \/ Crash
    BY <2>8 DEF FinishRecording, Crash, RecordingSteps, Replaying, replaying
  <2> QED  BY <2>1, <2>2, <2>3, <2>4, <2>5, <2>6, <2>7, <2>8 DEF Recordings
<1>3. cursor = 0 /\ served = <<>> /\ batches = 0
  BY <1>2 DEF ReplayInv, Boundary
<1> QED  BY <1>1, <1>2, <1>3 DEF ReplayInv, Boundary, Returned, Position, Replaying

LEMMA LoadReplays == ReplayInv /\ Load => ReplayInv'
<1> SUFFICES ASSUME ReplayInv, Load PROVE ReplayInv'
  OBVIOUS
<1>1. Typed'
  BY LoadTyped DEF ReplayInv
<1>2. UNCHANGED <<tape, cursor, batches, served>> /\ pc \notin Replaying
  BY DEF Load, Stopped, Replaying, replaying
<1>3. pc' = "rejected" \/ (pc' = "ready" /\ WholeBatches(tape))
  BY DEF Load, Preflight, Loadable
<1>4. cursor = 0 /\ served = <<>> /\ batches = 0
  BY <1>2 DEF ReplayInv, Boundary
<1>5. pc' \in Replaying => WholeBatches(tape')
  BY <1>2, <1>3 DEF Replaying
<1> QED
  BY <1>1, <1>2, <1>3, <1>4, <1>5 DEF ReplayInv, Boundary, Returned, Position, Replaying

LEMMA AskReplays == ReplayInv /\ AskReplay => ReplayInv'
<1> SUFFICES ASSUME ReplayInv, AskReplay PROVE ReplayInv'
  OBVIOUS
<1>1. Typed'
  BY AskReplayTyped DEF ReplayInv
<1>2. /\ UNCHANGED <<tape, cursor, batches, served>>
      /\ pc = "ready" /\ pc' = "match" /\ k' = 1
  BY DEF AskReplay, recording, replaying
<1>3. Size' \in Places
  BY <1>1, <1>2 DEF Typed
<1>4. Boundary' /\ Returned'
  BY <1>2 DEF ReplayInv, Boundary, Returned
<1>5. Position'
  BY <1>2, <1>3, Numbers DEF ReplayInv, Position
<1>6. WholeBatches(tape') /\ pc' \in Replaying
  BY <1>2 DEF ReplayInv, Replaying
<1> QED  BY <1>1, <1>4, <1>5, <1>6 DEF ReplayInv

LEMMA FinishReplays == ReplayInv /\ FinishReplay => ReplayInv'
<1> SUFFICES ASSUME ReplayInv, FinishReplay PROVE ReplayInv'
  OBVIOUS
<1>1. Typed'
  BY EndsTyped DEF ReplayInv
<1>2. /\ UNCHANGED <<tape, cursor, batches, served>>
      /\ pc = "ready" /\ pc' = IF cursor < Len(tape) THEN "early" ELSE "accepted"
  BY DEF FinishReplay, recording, replaying
<1>3. Boundary' /\ Returned'
  BY <1>2 DEF ReplayInv, Boundary, Returned
<1>4. cursor \in 0..Len(tape) /\ Len(tape) \in Nat
  BY DEF ReplayInv, Typed, TypeOK
<1>5. Position'
  BY <1>2, <1>4 DEF ReplayInv, Position
<1>6. WholeBatches(tape') /\ pc' \in Replaying
  BY <1>2 DEF ReplayInv, Replaying
<1> QED  BY <1>1, <1>3, <1>5, <1>6 DEF ReplayInv

(* A request that is refused was not next on the tape: in a whole recording *)
(* the place and the batch of a line follow from the line before it.        *)
LEMMA NextMatches ==
  ASSUME ReplayInv, pc = "match", NextOnTape
  PROVE  ~(cursor + k > Len(tape)) /\ Matches(cursor + k)
<1> DEFINE n == cursor + k
<1>1. /\ cursor \in Nat /\ k \in 1..Size /\ Size \in Nat /\ Size >= 1
      /\ Len(tape) \in Nat /\ batches \in Nat
  BY Numbers DEF ReplayInv, Typed, TypeOK, Position
<1>2. /\ n <= Len(tape) /\ tape[n].round = round /\ tape[n].size = Size
      /\ tape[n].prompt = batch[k]
  BY <1>1 DEF NextOnTape
<1>3. n \in 1..Len(tape) /\ n \in Nat
  BY <1>1, <1>2
<1>4. /\ tape[n].index = IF Starts(tape, n) THEN 1 ELSE tape[n - 1].index + 1
      /\ tape[n].batch = IF n = 1 THEN 1
                         ELSE tape[n - 1].batch + (IF Starts(tape, n) THEN 1 ELSE 0)
  <2> HIDE DEF n
  <2> QED  BY <1>3 DEF ReplayInv, Replaying, WholeBatches
<1>5. tape[n].index = k /\ tape[n].batch = batches + 1
  <2>1. CASE k = 1 /\ cursor = 0
    BY <2>1, <1>4 DEF ReplayInv, Boundary, Starts
  <2>2. CASE k = 1 /\ cursor # 0
    <3>1. n - 1 = cursor /\ n # 1
      BY <2>2, <1>1
    <3>2. tape[n - 1].index = tape[n - 1].size /\ tape[n - 1].batch = batches
      BY <3>1, <2>2 DEF ReplayInv, Boundary
    <3> HIDE DEF n
    <3> QED  BY <2>2, <3>1, <3>2, <1>4 DEF Starts
  <2>3. CASE k # 1
    <3>1. n - 1 = cursor + (k - 1) /\ n # 1 /\ k - 1 \in 1..(k - 1)
      BY <2>3, <1>1
    <3>2. /\ tape[n - 1].size = Size /\ tape[n - 1].batch = batches + 1
          /\ tape[n - 1].index = k - 1
      BY <3>1 DEF ReplayInv, Position, Holds
    <3>3. ~Starts(tape, n)
      <4> HIDE DEF n
      <4> QED  BY <3>1, <3>2, <1>1 DEF Starts
    <3> HIDE DEF n
    <3> QED  BY <3>1, <3>2, <3>3, <1>1, <1>4
  <2> QED  BY <2>1, <2>2, <2>3
<1> HIDE DEF n
<1> QED  BY <1>1, <1>2, <1>3, <1>5 DEF Matches, n

LEMMA MatchReplays == ReplayInv /\ Match => ReplayInv'
<1> SUFFICES ASSUME ReplayInv, Match PROVE ReplayInv'
  OBVIOUS
<1>1. Typed'
  BY MatchTyped DEF ReplayInv
<1>2. pc = "match" /\ UNCHANGED <<round, batch, tape, served>> /\ deviated' = ~NextOnTape
  BY DEF Match, recording
<1>3. /\ cursor \in Nat /\ k \in 1..Size /\ Size \in Nat /\ Size >= 1 /\ Size' = Size
      /\ Len(tape) \in Nat /\ batches \in Nat /\ cursor = Len(served)
      /\ faults \in Nat
  BY <1>2, Numbers DEF ReplayInv, Typed, TypeOK, Position, Size
<1>4. Returned'
  BY <1>2 DEF ReplayInv, Returned
<1>5. pc' \in {"refused", "match", "serve"}
  BY MatchCases
<1>6. pc' \in Replaying /\ WholeBatches(tape')
  BY <1>2, <1>5 DEF ReplayInv, Replaying
<1>7. Boundary' /\ Position'
  <2>1. CASE Raise /\ pc' = "refused" /\ UNCHANGED <<k, cursor, batches>>
    <3>1. faults' > 0
      BY <2>1, <1>3 DEF Raise
    <3> QED  BY <2>1, <3>1, <1>2, <1>3 DEF ReplayInv, Boundary, Position
  <2>2. CASE /\ cursor + k > Len(tape) \/ ~Matches(cursor + k)
             /\ pc' = "refused" /\ UNCHANGED <<faults, k, cursor, batches>>
    <3>1. deviated'
      BY <2>2, <1>2, NextMatches
    <3> QED  BY <2>2, <3>1, <1>2, <1>3 DEF ReplayInv, Boundary, Position
  <2>3. CASE /\ ~(cursor + k > Len(tape)) /\ Matches(cursor + k) /\ k < Size
             /\ k' = k + 1 /\ pc' = "match" /\ UNCHANGED <<faults, cursor, batches>>
    <3>1. /\ tape[cursor + k].size = Size /\ tape[cursor + k].batch = batches + 1
          /\ Holds(cursor + k, k) /\ cursor + k <= Len(tape)
      BY <2>3, <1>3 DEF Matches, Holds
    <3>2. \A j \in 1..k : /\ cursor + j <= Len(tape) /\ tape[cursor + j].size = Size
                          /\ tape[cursor + j].batch = batches + 1
                          /\ Holds(cursor + j, j)
      <4> SUFFICES ASSUME NEW j \in 1..k
                   PROVE  /\ cursor + j <= Len(tape) /\ tape[cursor + j].size = Size
                          /\ tape[cursor + j].batch = batches + 1
                          /\ Holds(cursor + j, j)
        OBVIOUS
      <4>1. j = k \/ j \in 1..(k - 1)
        BY <1>3
      <4> QED  BY <4>1, <3>1, <1>2 DEF ReplayInv, Position
    <3>3. k' \in 1..Size' /\ k' - 1 = k
      BY <2>3, <1>3
    <3>4. Boundary'
      BY <2>3, <1>2 DEF ReplayInv, Boundary
    <3>5. \A j \in 1..(k' - 1) :
            /\ cursor' + j <= Len(tape') /\ tape'[cursor' + j].size = Size'
            /\ tape'[cursor' + j].batch = batches' + 1
            /\ Holds(cursor + j, j)'
      BY <2>3, <3>2, <3>3, <1>2, <1>3 DEF Holds
    <3>6. cursor' = Len(served')
      BY <2>3, <1>2, <1>3
    <3> QED  BY <2>3, <3>3, <3>4, <3>5, <3>6 DEF Position
  <2>4. CASE /\ ~(cursor + k > Len(tape)) /\ Matches(cursor + k) /\ ~(k < Size)
             /\ k' = 1 /\ pc' = "serve" /\ UNCHANGED faults
             /\ cursor' = cursor + Size /\ batches' = batches + 1
    <3>1. k = Size
      BY <2>4, <1>3
    <3>2. /\ tape[cursor'].size = Size /\ tape[cursor'].batch = batches'
          /\ tape[cursor'].index = Size /\ Holds(cursor + k, k)
      BY <2>4, <3>1 DEF Matches, Holds
    <3>3. \A j \in 1..Size : Holds(cursor + j, j)
      <4>1. \A j \in 1..Size : j = k \/ j \in 1..(k - 1)
        BY <3>1, <1>3
      <4> QED  BY <4>1, <3>2, <1>2 DEF ReplayInv, Position
    <3>4. cursor' # 0 /\ cursor' = Len(served) + Size
      BY <2>4, <1>3
    <3>5. Boundary'
      BY <2>4, <3>2, <3>4, <1>2 DEF Boundary
    <3>6. \A j \in 1..Size' : Holds(Len(served) + j, j)'
      BY <3>3, <1>2, <1>3 DEF Holds
    <3> QED  BY <2>4, <3>4, <3>5, <3>6, <1>2, <1>3 DEF Position
  <2> QED  BY <2>1, <2>2, <2>3, <2>4, MatchCases
<1> QED  BY <1>1, <1>4, <1>6, <1>7 DEF ReplayInv

(* What the replay returns for place i of its batch. *)
Answered(i) == [round |-> round, agent |-> i, prompt |-> batch[i],
                answer |-> tape[cursor - Size + i].answer]

LEMMA ServeReplays == ReplayInv /\ Serve => ReplayInv'
<1> SUFFICES ASSUME ReplayInv, Serve PROVE ReplayInv'
  OBVIOUS
<1> DEFINE next == [i \in 1..Size |-> Answered(i)]
<1>1. /\ pc = "serve" /\ UNCHANGED <<round, k, batch, flight, attempts, cache, recorder,
                                     tape, torn, cursor, batches, deviated, enabled>>
  BY DEF Serve, recording
<1>2. /\ Size \in Nat /\ Size >= 1 /\ Size' = Size /\ Len(served) \in Nat
      /\ Len(tape) \in Nat /\ cursor = Len(served) + Size /\ cursor <= Len(tape)
      /\ cursor - Size = Len(served) /\ Size \in Places /\ faults \in Nat
  BY <1>1, Numbers DEF ReplayInv, Typed, TypeOK, Position, Size
<1>3. /\ \/ served' = served /\ pc' = "refused" /\ faults' > 0
         \/ served' = served \o next /\ pc' = "ready"
      /\ faults' \in 0..MaxFaults
  BY <1>2, RaiseTyped DEF Serve, Answered, Raise, ReplayInv, Typed
<1>4. \A i \in 1..Size : /\ Answered(i) \in Reply
                         /\ Answered(i) = [round |-> tape[Len(served) + i].round,
                                           agent |-> tape[Len(served) + i].index,
                                           prompt |-> tape[Len(served) + i].prompt,
                                           answer |-> tape[Len(served) + i].answer]
  <2> SUFFICES ASSUME NEW i \in 1..Size
               PROVE  /\ Answered(i) \in Reply
                      /\ Answered(i) = [round |-> tape[Len(served) + i].round,
                                        agent |-> tape[Len(served) + i].index,
                                        prompt |-> tape[Len(served) + i].prompt,
                                        answer |-> tape[Len(served) + i].answer]
    OBVIOUS
  <2>1. Len(served) + i \in 1..Len(tape)
    BY <1>2
  <2>2. tape[Len(served) + i] \in Line
    BY <2>1 DEF ReplayInv, Typed, TypeOK
  <2>3. Holds(Len(served) + i, i)
    BY <1>1 DEF ReplayInv, Position
  <2> QED  BY <2>2, <2>3, <1>2 DEF Answered, Holds, Reply, Line
<1>5. next \in Seq(Reply) /\ Len(next) = Size
  <2> HIDE DEF Reply
  <2> QED  BY <1>2, <1>4
<1>6. served' \in Seq(Reply) /\ Returned' /\ Len(served') \in {Len(served), cursor}
      /\ (pc' = "ready" => Len(served') = cursor) /\ (pc' = "refused" => served' = served)
  <2>1. CASE served' = served /\ pc' = "refused"
    BY <2>1, <1>1 DEF ReplayInv, Returned, Typed, TypeOK
  <2>2. CASE served' = served \o next /\ pc' = "ready"
    <3>1. served' \in Seq(Reply) /\ Len(served') = Len(served) + Size
      <4>1. served \in Seq(Reply)
        BY DEF ReplayInv, Typed, TypeOK
      <4> HIDE DEF next
      <4> QED  BY <2>2, <4>1, <1>5, ConcatProperties
    <3>2. ASSUME NEW n \in 1..Len(served')
          PROVE  served'[n] = [round |-> tape[n].round, agent |-> tape[n].index,
                               prompt |-> tape[n].prompt, answer |-> tape[n].answer]
      <4>1. CASE n <= Len(served)
        <5>1. served'[n] = served[n]
          <6> HIDE DEF next
          <6> QED  BY <2>2, <3>1, <3>2, <4>1, <1>5 DEF ReplayInv, Typed, TypeOK
        <5> QED  BY <4>1, <5>1, <1>2, <3>1 DEF ReplayInv, Returned
      <4>2. CASE ~(n <= Len(served))
        <5>1. n - Len(served) \in 1..Size /\ Len(served) + (n - Len(served)) = n
          BY <3>1, <3>2, <4>2, <1>2
        <5>2. served'[n] = next[n - Len(served)]
          <6> HIDE DEF next
          <6> QED  BY <2>2, <3>1, <3>2, <4>2, <1>5 DEF ReplayInv, Typed, TypeOK
        <5>3. next[n - Len(served)] = Answered(n - Len(served))
          BY <5>1
        <5> HIDE DEF next
        <5> QED  BY <5>1, <5>2, <5>3, <1>4
      <4> QED  BY <4>1, <4>2
    <3>3. Returned'
      BY <3>2, <1>1 DEF Returned
    <3> QED  BY <2>2, <3>1, <3>3, <1>2
  <2> HIDE DEF next
  <2> QED  BY <2>1, <2>2, <1>3
<1>7. pc' \in {"ready", "refused"} /\ (pc' = "refused" => faults' > 0)
  BY <1>3
<1> HIDE DEF next
<1>8. Typed'
  BY <1>1, <1>3, <1>6, <1>7 DEF ReplayInv, Typed, TypeOK, Asking
<1>9. Boundary'
  BY <1>1 DEF ReplayInv, Boundary
<1>10. Position'
  BY <1>1, <1>2, <1>6, <1>7 DEF Position
<1>11. WholeBatches(tape') /\ pc' \in Replaying
  BY <1>1, <1>7 DEF ReplayInv, Replaying
<1> QED  BY <1>6, <1>8, <1>9, <1>10, <1>11 DEF ReplayInv

LEMMA StutterReplays == ReplayInv /\ UNCHANGED vars => ReplayInv'
  BY DEF ReplayInv, vars, recording, replaying, Typed, TypeOK, Boundary, Returned, Position,
         Holds, Size, Asking

LEMMA NextReplays == ReplayInv /\ [Next]_vars => ReplayInv'
  BY RecordingReplays, LoadReplays, AskReplays, MatchReplays, ServeReplays, FinishReplays,
     StutterReplays
  DEF Next, Recordings, Done

-----------------------------------------------------------------------------
(* Types, for the recording and its replay together (RecordingLLM,          *)
(* CachingLLM, ReplayLLM).                                                  *)
THEOREM TapesAreTyped == Spec => []TypeOK
<1>1. ReplayInv => TypeOK
  BY DEF ReplayInv, Typed
<1> QED  BY <1>1, InitReplay, NextReplays, PTL DEF Spec

(* For any recording that _load_records lets through, of any length and cut *)
(* off anywhere, a replay returns the tape batch by batch, has consumed     *)
(* what it returned and at most the batch it failed to return, and is       *)
(* refused only with cause (ReplayLLM._complete_many, assert_exhausted).    *)
THEOREM ReplayServesTheTape == Spec => []ServesTheTape
  BY InitReplay, NextReplays, ReplayInvServes, PTL DEF Spec

-----------------------------------------------------------------------------
(* What a recording looks like, wherever it was cut off *)

(* Line n is place index of batch batch. *)
Placed(n) ==
    /\ tape[n].sequence = n /\ tape[n].size = Agents
    /\ tape[n].index \in Places /\ tape[n].batch \in Nat \ {0}
    /\ tape[n].round = tape[n].batch
    /\ n = Agents * (tape[n].batch - 1) + tape[n].index

(* Before a kill. *)
Running == RecordingSteps \union {"finished", "raised"}

Layout ==
    pc \in RecordingSteps \union Stopped =>
        /\ round <= Rounds
        /\ recorder.sequence = Agents * round /\ recorder.batches = round
        /\ Len(tape) <= Agents * round
        /\ \A n \in 1..Len(tape) : Placed(n)
        /\ pc \in Asking => round >= 1
        /\ pc \in {"announce", "lookup", "call"} => Len(tape) = Agents * (round - 1)
        /\ pc = "store" => Len(tape) = Agents * (round - 1) + (k - 1)
        /\ pc \in {"ask", "decide"} => Len(tape) = Agents * round
        /\ pc = "finished" => Len(tape) = Agents * Rounds
        /\ pc \in Running => torn = None

(* A line has one place. *)
LEMMA OnePlace ==
  ASSUME NEW p \in Nat, NEW q \in Nat, NEW i \in Places, NEW j \in Places,
         Agents * p + i = Agents * q + j
  PROVE  p = q /\ i = j
<1>1. /\ Agents \in Nat /\ Agents >= 1 /\ i \in Nat /\ j \in Nat
      /\ 1 <= i /\ i <= Agents /\ 1 <= j /\ j <= Agents
  BY Numbers
<1>2. CASE p = q
  BY <1>1, <1>2
<1>3. CASE p > q
  <2>1. PICK e \in Nat : p = q + 1 + e
    BY <1>3
  <2>2. Agents * p = Agents * q + Agents + Agents * e
    BY <1>1, <2>1
  <2>3. Agents * e \in Nat /\ Agents * q \in Nat
    BY <1>1
  <2> QED  BY <1>1, <2>2, <2>3
<1>4. CASE p < q
  <2>1. PICK e \in Nat : q = p + 1 + e
    BY <1>4
  <2>2. Agents * q = Agents * p + Agents + Agents * e
    BY <1>1, <2>1
  <2>3. Agents * e \in Nat /\ Agents * p \in Nat
    BY <1>1
  <2> QED  BY <1>1, <2>2, <2>3
<1> QED  BY <1>2, <1>3, <1>4

LEMMA Remainder ==
  ASSUME NEW q \in Nat, NEW i \in Places
  PROVE  (Agents * q + i) % Agents = 0 <=> i = Agents
BY Numbers

(* The next line is the next place, or the first of the next batch. *)
LEMMA Chained ==
  ASSUME NEW n \in 1..Len(tape), Len(tape) \in Nat, \A m \in 1..Len(tape) : Placed(m)
  PROVE  /\ tape[n].index = IF Starts(tape, n) THEN 1 ELSE tape[n - 1].index + 1
         /\ tape[n].batch = IF n = 1 THEN 1
                            ELSE tape[n - 1].batch + (IF Starts(tape, n) THEN 1 ELSE 0)
<1> DEFINE i == tape[n].index
           b == tape[n].batch
<1>1. /\ i \in Places /\ b - 1 \in Nat /\ b \in Nat
      /\ n = Agents * (b - 1) + i
  BY DEF Placed
<1>2. CASE n = 1
  <2>1. Agents * 0 + 1 = Agents * (b - 1) + i
    BY <1>1, <1>2, Numbers
  <2> HIDE DEF i, b
  <2>2. b - 1 = 0 /\ i = 1
    BY <1>1, <2>1, OnePlace, Numbers
  <2> QED  BY <1>1, <1>2, <2>2 DEF Starts, i, b
<1>3. CASE n # 1
  <2> DEFINE h == tape[n - 1].index
             a == tape[n - 1].batch
  <2>1. /\ h \in Places /\ a - 1 \in Nat /\ a \in Nat
        /\ n - 1 = Agents * (a - 1) + h /\ tape[n - 1].size = Agents
    <3>1. n - 1 \in 1..Len(tape)
      BY <1>3
    <3> QED  BY <3>1 DEF Placed
  <2>2. Starts(tape, n) <=> h = Agents
    BY <1>3, <2>1 DEF Starts
  <2> HIDE DEF i, b, h, a
  <2>3. CASE h = Agents
    <3>1. Agents * a + 1 = Agents * (b - 1) + i
      BY <1>1, <2>1, <2>3, Numbers
    <3>2. a = b - 1 /\ i = 1
      BY <1>1, <2>1, <3>1, OnePlace, Numbers
    <3> QED  BY <1>1, <1>3, <2>1, <2>2, <2>3, <3>2 DEF i, b, h, a
  <2>4. CASE h # Agents
    <3>1. h + 1 \in Places
      BY <2>1, <2>4, Numbers
    <3>2. Agents * (a - 1) + (h + 1) = Agents * (b - 1) + i
      BY <1>1, <2>1, <3>1, Numbers
    <3>3. a - 1 = b - 1 /\ h + 1 = i
      BY <1>1, <2>1, <3>1, <3>2, OnePlace
    <3> QED  BY <1>1, <1>3, <2>1, <2>2, <2>4, <3>3 DEF i, b, h, a
  <2> QED  BY <2>3, <2>4
<1> QED  BY <1>2, <1>3

LEMMA WholeIs ==
  ASSUME Len(tape) \in Nat, \A n \in 1..Len(tape) : Placed(n)
  PROVE  WholeBatches(tape) <=> Len(tape) % Agents = 0
<1>1. \A n \in 1..Len(tape) :
        /\ tape[n].sequence = n /\ tape[n].size >= 1
        /\ tape[n].index = IF Starts(tape, n) THEN 1 ELSE tape[n - 1].index + 1
        /\ tape[n].batch = IF n = 1 THEN 1
                           ELSE tape[n - 1].batch + (IF Starts(tape, n) THEN 1 ELSE 0)
        /\ \/ Starts(tape, n)
           \/ /\ tape[n].size = tape[n - 1].size
              /\ tape[n].round = tape[n - 1].round
  <2> SUFFICES ASSUME NEW n \in 1..Len(tape)
               PROVE  /\ tape[n].sequence = n /\ tape[n].size >= 1
                      /\ tape[n].index = IF Starts(tape, n) THEN 1 ELSE tape[n - 1].index + 1
                      /\ tape[n].batch = IF n = 1 THEN 1
                             ELSE tape[n - 1].batch + (IF Starts(tape, n) THEN 1 ELSE 0)
                      /\ \/ Starts(tape, n)
                         \/ /\ tape[n].size = tape[n - 1].size
                            /\ tape[n].round = tape[n - 1].round
    OBVIOUS
  <2>1. /\ tape[n].sequence = n /\ tape[n].size = Agents /\ tape[n].round = tape[n].batch
    BY DEF Placed
  <2>2. /\ tape[n].index = IF Starts(tape, n) THEN 1 ELSE tape[n - 1].index + 1
        /\ tape[n].batch = IF n = 1 THEN 1
                           ELSE tape[n - 1].batch + (IF Starts(tape, n) THEN 1 ELSE 0)
    BY Chained
  <2>3. ASSUME ~Starts(tape, n)
        PROVE  tape[n].size = tape[n - 1].size /\ tape[n].round = tape[n - 1].round
    <3>1. n # 1 /\ n - 1 \in 1..Len(tape)
      BY <2>3 DEF Starts
    <3>2. /\ tape[n - 1].size = Agents /\ tape[n - 1].round = tape[n - 1].batch
          /\ tape[n - 1].batch \in Nat
      BY <3>1 DEF Placed
    <3> QED  BY <2>1, <2>2, <2>3, <3>1, <3>2
  <2> QED  BY <2>1, <2>2, <2>3, Numbers
<1>2. CASE Len(tape) = 0
  BY <1>2, Numbers DEF WholeBatches
<1>3. CASE Len(tape) # 0
  <2> DEFINE n == Len(tape)
             q == tape[n].batch - 1
  <2>1. n \in 1..Len(tape)
    BY <1>3
  <2>2. /\ q \in Nat /\ tape[n].index \in Places /\ tape[n].size = Agents
        /\ n = Agents * q + tape[n].index
    BY <2>1 DEF Placed
  <2> HIDE DEF q
  <2>3. n % Agents = 0 <=> tape[n].index = tape[n].size
    BY <2>2, Remainder
  <2>4. WholeBatches(tape) <=> tape[n].index = tape[n].size
    <3> HIDE DEF n
    <3> QED  BY <1>1, <2>1 DEF WholeBatches, n
  <2> QED  BY <2>3, <2>4
<1> QED  BY <1>2, <1>3

LEMMA InitLayout == Init => Layout
<1> SUFFICES ASSUME Init PROVE Layout
  OBVIOUS
<1>1. Rounds \in Nat
  BY TapeAssumption
<1> QED  BY <1>1, Numbers DEF Init, Layout, Asking

LEMMA AskLayout == Typed /\ Layout /\ Ask => Layout'
<1> SUFFICES ASSUME Typed, Layout, Ask PROVE Layout'
  OBVIOUS
<1>1. /\ pc = "ask" /\ pc' = "announce" /\ round' = round + 1 /\ round \in Nat /\ round < Rounds
      /\ UNCHANGED <<tape, torn>>
  BY DEF Ask, Typed, TypeOK
<1>2. /\ recorder.sequence = Agents * round /\ recorder.batches = round
      /\ \A n \in 1..Len(tape) : Placed(n)
      /\ Len(tape) = Agents * round /\ torn = None
  BY <1>1 DEF Layout, RecordingSteps, Running
<1>3. recorder'.sequence = Agents * round + Agents /\ recorder'.batches = round + 1
  BY <1>2 DEF Ask, Typed, TypeOK, Counters
<1>4. /\ recorder'.sequence = Agents * round' /\ round' - 1 = round /\ round' <= Rounds
      /\ round' >= 1 /\ Agents * round <= Agents * round'
  BY <1>1, <1>3, Numbers, TapeAssumption
<1>5. \A n \in 1..Len(tape') : Placed(n)'
  BY <1>1, <1>2 DEF Placed
<1> QED  BY <1>1, <1>2, <1>3, <1>4, <1>5 DEF Layout

(* Steps between the question and the first record. *)
LEMMA QuietLayout ==
  ASSUME Typed, Layout, UNCHANGED <<round, recorder, tape>>,
         \/ /\ pc \in {"announce", "lookup", "call"} /\ UNCHANGED torn
            /\ pc' \in {"announce", "lookup", "call", "raised"}
         \/ pc = "call" /\ pc' = "store" /\ k' = 1 /\ UNCHANGED torn
         \/ pc = "decide" /\ pc' \in {"decide", "ask", "raised"} /\ UNCHANGED torn
         \/ pc \in Running /\ pc' = "crashed"
         \/ pc = "ask" /\ round = Rounds /\ pc' = "finished" /\ UNCHANGED torn
  PROVE  Layout'
<1>1. pc \in Running /\ pc \in RecordingSteps \union Stopped
      /\ (pc' # "crashed" => pc \in RecordingSteps)
  BY DEF Running, RecordingSteps, Stopped
<1>2. /\ round <= Rounds /\ recorder.sequence = Agents * round /\ recorder.batches = round
      /\ Len(tape) <= Agents * round
      /\ \A n \in 1..Len(tape) : Placed(n)
      /\ pc \in Asking => round >= 1
  BY <1>1 DEF Layout
<1>3. \A n \in 1..Len(tape') : Placed(n)'
  BY <1>2 DEF Placed
<1>4. /\ pc' \in {"announce", "lookup", "call"} => Len(tape) = Agents * (round - 1)
      /\ pc' = "store" => Len(tape) = Agents * (round - 1) + (k' - 1)
      /\ pc' \in {"ask", "decide"} => Len(tape) = Agents * round
      /\ pc' = "finished" => Len(tape) = Agents * Rounds
  <2>1. round \in Nat
    BY DEF Typed, TypeOK
  <2> QED  BY <1>1, <2>1, Numbers DEF Layout
<1>5. pc' \in Running => torn' = None
  BY <1>1 DEF Layout, RecordingSteps, Running
<1>6. pc' \in Asking => round >= 1
  BY <1>2 DEF Asking
<1> QED  BY <1>2, <1>3, <1>4, <1>5, <1>6 DEF Layout

LEMMA StoreLayout == Typed /\ Layout /\ Store => Layout'
<1> SUFFICES ASSUME Typed, Layout, Store PROVE Layout'
  OBVIOUS
<1> DEFINE line == Record(k, flight[k].out)
           stored == Append(tape, line)
<1>1. /\ pc = "store" /\ round \in Nat /\ round >= 1 /\ round <= Rounds
      /\ recorder.sequence = Agents * round /\ recorder.batches = round
      /\ \A n \in 1..Len(tape) : Placed(n)
      /\ Len(tape) = Agents * (round - 1) + (k - 1) /\ k \in Places /\ torn = None
  BY DEF Store, Layout, RecordingSteps, Running, Asking, Typed, TypeOK
<1>2. /\ stored \in Seq(Line) /\ Len(tape) \in Nat /\ Len(stored) = Len(tape) + 1
      /\ \A n \in 1..Len(tape) : stored[n] = tape[n]
      /\ stored[Len(tape) + 1] = line
  <2>1. line \in Line /\ stored \in Seq(Line) /\ Len(tape) \in Nat
        /\ Len(stored) = Len(tape) + 1 /\ tape \in Seq(Line)
    BY <1>1, RecordTyped DEF Asking, Typed, TypeOK
  <2> HIDE DEF line
  <2> QED  BY <2>1
<1>3. /\ line.sequence = Agents * (round - 1) + k /\ line.batch = round /\ line.index = k
      /\ line.size = Agents /\ line.round = round
  <2>1. line.sequence = Agents * round - Agents + k
    BY <1>1 DEF Record, SequenceOf
  <2>2. Agents * round - Agents = Agents * (round - 1)
    BY <1>1, Numbers
  <2> QED  BY <1>1, <2>1, <2>2 DEF Record
<1>4. /\ UNCHANGED <<round, torn>> /\ tape' \in {tape, stored}
      /\ recorder'.sequence = recorder.sequence /\ recorder'.batches = recorder.batches
      /\ \/ pc' = "raised"
         \/ tape' = stored /\ pc' = "store" /\ k' = k + 1
         \/ tape' = stored /\ pc' = "decide" /\ k = Agents
  <2>1. UNCHANGED <<round, torn>> /\ tape' \in {tape, stored}
    BY DEF Store
  <2>2. recorder'.sequence = recorder.sequence /\ recorder'.batches = recorder.batches
    BY DEF Store, Typed, TypeOK, Counters
  <2>3. \/ pc' = "raised"
        \/ tape' = stored /\ Advance("store", "decide")
    BY DEF Store
  <2>4. Advance("store", "decide") => \/ pc' = "store" /\ k' = k + 1
                                      \/ pc' = "decide" /\ k = Agents
    BY <1>1, Numbers DEF Advance
  <2> HIDE DEF stored
  <2> QED  BY <2>1, <2>2, <2>3, <2>4
<1> HIDE DEF line, stored
<1>5. /\ Agents \in Nat /\ k \in Nat /\ round - 1 \in Nat
      /\ Agents * (round - 1) + Agents = Agents * round
  BY <1>1, Numbers
<1>6. ASSUME NEW n \in 1..Len(tape')
      PROVE  Placed(n)'
  <2>1. CASE n \in 1..Len(tape)
    <3>1. tape'[n] = tape[n]
      BY <1>2, <1>4, <2>1
    <3> QED  BY <1>1, <2>1, <3>1 DEF Placed
  <2>2. CASE n \notin 1..Len(tape)
    <3>1. tape'[n] = line /\ n = Len(tape) + 1
      BY <1>2, <1>4, <2>2, <1>6
    <3>2. n = Agents * (round - 1) + k
      BY <1>1, <1>5, <3>1
    <3> QED  BY <1>1, <1>3, <1>5, <3>1, <3>2 DEF Placed
  <2> QED  BY <2>1, <2>2
<1>7. /\ pc' = "store" => Len(tape') = Agents * (round - 1) + (k' - 1)
      /\ pc' = "decide" => Len(tape') = Agents * round
      /\ Len(tape') <= Agents * round
  <2>1. k <= Agents
    BY <1>1, Numbers
  <2> QED  BY <1>1, <1>2, <1>4, <1>5, <2>1
<1>8. pc' \in {"store", "decide", "raised"}
  BY <1>4
<1> QED  BY <1>1, <1>4, <1>6, <1>7, <1>8 DEF Layout

LEMMA NextLayout == Typed /\ Layout /\ [Next]_vars => Layout'
<1> SUFFICES ASSUME Typed, Layout, [Next]_vars PROVE Layout'
  OBVIOUS
<1>1. CASE Ask
  BY <1>1, AskLayout
<1>2. CASE Announce
  BY <1>2, QuietLayout DEF Announce, Advance, recording
<1>3. CASE Lookup
  BY <1>3, QuietLayout DEF Lookup
<1>4. CASE \E i \in Places : Attempt(i)
  <2>1. pc = "call" /\ pc' \in {"call", "raised"} /\ UNCHANGED <<round, recorder, tape, torn>>
    BY <1>4 DEF Attempt
  <2> QED  BY <2>1, QuietLayout
<1>5. CASE Return
  BY <1>5, QuietLayout DEF Return
<1>6. CASE Store
  BY <1>6, StoreLayout
<1>7. CASE Decide
  BY <1>7, QuietLayout DEF Decide, Advance
<1>8. CASE FinishRecording
  BY <1>8, QuietLayout DEF FinishRecording, recording
<1>9. CASE Crash
  BY <1>9, QuietLayout DEF Crash, Running
<1>10. CASE Load \/ AskReplay \/ Match \/ Serve \/ FinishReplay
  <2>1. pc' \notin RecordingSteps \union Stopped
    BY <1>10
    DEF Load, AskReplay, Match, Serve, FinishReplay, RecordingSteps, Stopped
  <2> QED  BY <2>1 DEF Layout
<1>11. CASE Done \/ UNCHANGED vars
  <2>1. UNCHANGED <<pc, round, k, recorder, tape, torn>>
    BY <1>11 DEF Done, vars, recording
  <2> QED  BY <2>1 DEF Layout, Placed
<1> QED
  BY <1>1, <1>2, <1>3, <1>4, <1>5, <1>6, <1>7, <1>8, <1>9, <1>10, <1>11 DEF Next

(* For any number of agents and rounds: a recording that ended by itself is *)
(* complete and loads, and one that was cut off, between two lines or in    *)
(* one, loads exactly when it was cut between two batches (_append_record,  *)
(* _load_records).                                                          *)
THEOREM CutRecordingsLoadWhole == Spec => []LoadsWhatIsWhole
<1>1. Typed /\ Layout => LoadsWhatIsWhole
  <2> SUFFICES ASSUME Typed, Layout, pc \in Stopped
               PROVE  /\ Loadable <=> torn # "records" /\ tape # <<>> /\ Len(tape) % Agents = 0
                      /\ pc = "finished" /\ Rounds > 0 =>
                            Loadable /\ Len(tape) = Rounds * Agents
    BY DEF LoadsWhatIsWhole
  <2>1. Len(tape) \in Nat /\ tape \in Seq(Line)
    BY DEF Typed, TypeOK
  <2>2. WholeBatches(tape) <=> Len(tape) % Agents = 0
    BY <2>1, WholeIs DEF Layout
  <2>3. Loadable <=> torn # "records" /\ tape # <<>> /\ Len(tape) % Agents = 0
    BY <2>2 DEF Loadable
  <2>4. ASSUME pc = "finished", Rounds > 0
        PROVE  Loadable /\ Len(tape) = Rounds * Agents
    <3>1. Len(tape) = Agents * Rounds /\ torn # "records"
      BY <2>4 DEF Layout, Stopped, Running, None
    <3>2. Len(tape) = Agents * (Rounds - 1) + Agents /\ Rounds - 1 \in Nat /\ Len(tape) > 0
          /\ Agents * Rounds = Rounds * Agents
      BY <3>1, <2>4, TapeAssumption, Numbers
    <3>3. Len(tape) % Agents = 0
      BY <3>2, Remainder, Numbers
    <3>4. tape # <<>>
      BY <2>1, <3>2
    <3> QED  BY <2>3, <3>1, <3>2, <3>3, <3>4
  <2> QED  BY <2>3, <2>4
<1>2. ReplayInv => Typed
  BY DEF ReplayInv
<1>3. (ReplayInv /\ Layout) /\ [Next]_vars => (ReplayInv /\ Layout)'
  BY <1>2, NextReplays, NextLayout
<1> QED  BY <1>1, <1>2, <1>3, InitReplay, InitLayout, PTL DEF Spec

-----------------------------------------------------------------------------
(* The decisions in the event log *)

(* The answer of place i is on the tape. *)
Written(i) ==
    /\ SequenceOf(i) \in 1..Len(tape)
    /\ tape[SequenceOf(i)] = Record(i, flight[i].out)

(* A decision carries what its line holds. *)
Files(t, d) ==
    /\ d.line \in 1..Len(t) /\ d.round = t[d.line].round
    /\ d.agent = t[d.line].index /\ d.answer = t[d.line].answer

(* The line has its decision by now. *)
Due(n) ==
    \/ tape[n].round < round
    \/ pc \in {"ask", "finished"}
    \/ pc = "decide" /\ tape[n].index < k

Filled(n) == \E d \in decided : d.line = n

Filed ==
    /\ \A d \in decided : Files(tape, d)
    /\ pc \in RecordingSteps \union Stopped =>
          \A n \in 1..Len(tape) : Due(n) => Filled(n)
    /\ pc \notin RecordingSteps \union Stopped => decided = {}
    /\ pc = "store" => \A i \in 1..(k - 1) : Written(i)
    /\ pc = "decide" => \A i \in Places : Written(i)

LEMMA StoreWrites ==
  ASSUME Typed, Layout, Store
  PROVE  /\ Len(tape) \in Nat /\ Len(tape') \in Nat /\ Len(tape) <= Len(tape')
         /\ \A n \in 1..Len(tape) : tape'[n] = tape[n]
         /\ Len(tape') <= Len(tape) + 1 /\ SequenceOf(k) = Len(tape) + 1
         /\ Len(tape') = Len(tape) + 1 => tape'[Len(tape) + 1] = Record(k, flight[k].out)
         /\ pc' # "raised" => Len(tape') = Len(tape) + 1
<1> DEFINE line == Record(k, flight[k].out)
           stored == Append(tape, line)
<1>1. line \in Line /\ tape \in Seq(Line)
  BY RecordTyped DEF Store, Asking, Typed, TypeOK
<1>2. /\ Len(tape) \in Nat /\ Len(stored) = Len(tape) + 1 /\ stored[Len(tape) + 1] = line
      /\ \A n \in 1..Len(tape) : stored[n] = tape[n]
  <2> HIDE DEF line
  <2> QED  BY <1>1
<1>3. tape' \in {tape, stored} /\ (pc' # "raised" => tape' = stored)
  BY DEF Store
<1>4. SequenceOf(k) = Len(tape) + 1
  <2>1. /\ round \in Nat /\ round >= 1 /\ recorder.sequence = Agents * round
        /\ Len(tape) = Agents * (round - 1) + (k - 1) /\ k \in Nat
    BY Numbers DEF Store, Layout, RecordingSteps, Asking, Typed, TypeOK
  <2>2. Agents * round - Agents = Agents * (round - 1)
    BY <2>1, Numbers
  <2> QED  BY <2>1, <2>2, Numbers DEF SequenceOf
<1> HIDE DEF line, stored
<1> QED
  BY <1>2, <1>3, <1>4 DEF line

LEMMA StoreFiles == Typed /\ Layout /\ Filed /\ Store => Filed'
<1> SUFFICES ASSUME Typed, Layout, Filed, Store PROVE Filed'
  OBVIOUS
<1>1. \A d \in decided' : Files(tape, d)' 
  <2>1. decided' = decided
    BY DEF Store
  <2> QED  BY <2>1, StoreWrites DEF Filed, Files
<1>2. /\ \A i \in Places : SequenceOf(i)' = SequenceOf(i)
      /\ \A i \in Places : Record(i, flight[i].out)' = Record(i, flight[i].out)
  <2>1. recorder'.sequence = recorder.sequence /\ recorder'.batches = recorder.batches
    BY DEF Store, Typed, TypeOK, Counters
  <2> QED  BY <2>1 DEF Store, SequenceOf, Record
<1>3. ASSUME NEW i \in Places, Written(i)
      PROVE  Written(i)'
  BY <1>2, <1>3, StoreWrites DEF Written
<1>4. ASSUME pc' # "raised", NEW i \in Places, i = k
      PROVE  Written(i)'
  <2>1. SequenceOf(i)' = Len(tape) + 1 /\ Record(i, flight[i].out)' = Record(k, flight[k].out)
    BY <1>2, <1>4, StoreWrites
  <2>2. Len(tape') = Len(tape) + 1 /\ tape'[Len(tape) + 1] = Record(k, flight[k].out)
    BY <1>4, StoreWrites
  <2> QED  BY <2>1, <2>2, StoreWrites DEF Written
<1>5. /\ pc = "store" /\ k \in Places /\ pc' \in {"store", "decide", "raised"}
      /\ pc' = "store" => k' = k + 1
      /\ pc' = "decide" => k = Agents
  BY Numbers DEF Store, Advance, Typed, TypeOK
<1>6. ASSUME pc' # "raised", NEW i \in 1..k
      PROVE  Written(i)'
  <2>1. i \in Places
    BY <1>5, Numbers
  <2>2. CASE i = k
    BY <1>4, <1>6, <2>1, <2>2
  <2>3. CASE i # k
    <3>1. Written(i)
      BY <1>5, <2>3, Numbers DEF Filed
    <3> QED  BY <1>3, <2>1, <3>1
  <2> QED  BY <2>2, <2>3
<1>7. pc' = "store" => \A i \in 1..(k' - 1) : Written(i)'
  BY <1>5, <1>6, Numbers
<1>8. pc' = "decide" => \A i \in Places : Written(i)'
  BY <1>5, <1>6, Numbers
<1>9. ASSUME NEW n \in 1..Len(tape'), Due(n)'
      PROVE  Filled(n)'
  <2>1. Placed(n)' /\ round' = round /\ decided' = decided /\ round \in Nat
    BY <1>5, StoreLayout DEF Layout, RecordingSteps, Stopped, Store, Typed, TypeOK
  <2>2. pc' = "decide" => k' = 1
    BY <1>5, Numbers DEF Store, Advance
  <2>3. tape'[n].round < round
    BY <1>5, <1>9, <2>1, <2>2, Numbers DEF Due, Placed
  <2>4. n \in 1..Len(tape)
    <3>1. SUFFICES n # Len(tape) + 1
      BY StoreWrites
    <3>2. Record(k, flight[k].out).round = round
      BY DEF Record
    <3> QED  BY <2>1, <2>3, <3>2, StoreWrites
  <2>5. Due(n)
    BY <2>3, <2>4, StoreWrites DEF Due
  <2>6. Filled(n)
    BY <1>5, <2>4, <2>5 DEF Filed, RecordingSteps
  <2> QED  BY <2>1, <2>6 DEF Filled
<1> QED  BY <1>1, <1>5, <1>7, <1>8, <1>9 DEF Filed, RecordingSteps, Stopped

(* A line of a full tape is of no later round. *)
LEMMA InRound ==
  ASSUME NEW b \in Nat \ {0}, NEW i \in Places, NEW r \in Nat,
         Agents * (b - 1) + i <= Agents * r, ~(b < r)
  PROVE  b = r
<1>1. Agents \in Nat /\ Agents >= 1 /\ i \in Nat /\ i >= 1
  BY Numbers
<1>2. ASSUME b > r PROVE FALSE
  <2>1. PICK e \in Nat : b - 1 = r + e
    BY <1>2
  <2>2. Agents * (b - 1) = Agents * r + Agents * e /\ Agents * e \in Nat /\ Agents * r \in Nat
    BY <1>1, <2>1
  <2> QED  BY <1>1, <2>2
<1> QED  BY <1>2

LEMMA DecideFiles == Typed /\ Layout /\ Filed /\ Decide => Filed'
<1> SUFFICES ASSUME Typed, Layout, Filed, Decide PROVE Filed'
  OBVIOUS
<1> DEFINE event == [round |-> round, agent |-> k, answer |-> flight[k].out,
                     line |-> SequenceOf(k)]
<1>1. pc = "decide" /\ k \in Places /\ Written(k)
  BY DEF Decide, Filed, Typed, TypeOK
<1>2. Files(tape, event)
  BY <1>1 DEF Written, Files, Record
<1>3. decided' \in {decided, decided \union {event}} /\ pc' \in {"decide", "ask", "raised"}
  BY DEF Decide, Advance
<1>4. \A d \in decided' : Files(tape, d)
  <2> HIDE DEF event
  <2> QED  BY <1>2, <1>3 DEF Filed
<1>5. tape' = tape /\ \A i \in Places : Written(i)' = Written(i)
  BY DEF Decide, Written, SequenceOf, Record
<1>6. ASSUME NEW n \in 1..Len(tape), Due(n)'
      PROVE  Filled(n)'
  <2>1. Placed(n) /\ n \in Nat
    BY <1>1 DEF Layout, RecordingSteps
  <2>2. CASE tape[n].round < round \/ tape[n].index < k
    <3>1. Filled(n)
      BY <1>1, <2>2 DEF Due, Filed, RecordingSteps
    <3> QED  BY <1>3, <3>1 DEF Filled
  <2>3. CASE ~(tape[n].round < round) /\ ~(tape[n].index < k)
    <3>1. /\ round' = round /\ tape' = tape /\ event \in decided'
          /\ \/ pc' = "decide" /\ k' = k + 1 /\ tape[n].index < k'
             \/ pc' = "ask" /\ ~(k < Agents)
      <4>1. /\ round' = round /\ tape' = tape
            /\ \/ decided' = decided \union {event} /\ Advance("decide", "ask")
               \/ pc' = "raised"
        BY DEF Decide
      <4>2. \/ pc' \in {"ask", "finished"}
            \/ pc' = "decide" /\ tape[n].index < k'
        BY <1>6, <2>3, <4>1 DEF Due
      <4>3. ASSUME Advance("decide", "ask")
            PROVE  \/ pc' = "decide" /\ k' = k + 1
                   \/ pc' = "ask" /\ ~(k < Agents)
        BY <4>3 DEF Advance
      <4> HIDE DEF event
      <4> QED  BY <4>1, <4>2, <4>3
    <3>2. tape[n].index = k
      <4> HIDE DEF event
      <4>1. tape[n].index \in Places
        BY <2>1 DEF Placed
      <4> QED  BY <1>1, <2>3, <3>1, <4>1, Numbers
    <3>3. n <= Agents * round /\ round \in Nat /\ SequenceOf(k) = Agents * round - Agents + k
      <4>1. Len(tape) = Agents * round /\ recorder.sequence = Agents * round /\ round \in Nat
        BY <1>1 DEF Layout, RecordingSteps, Typed, TypeOK
      <4> QED  BY <4>1 DEF SequenceOf
    <3>4. tape[n].round = round
      BY <2>1, <2>3, <3>3, InRound DEF Placed
    <3>5. n = SequenceOf(k)
      BY <2>1, <3>2, <3>3, <3>4, Numbers DEF Placed
    <3>6. event.line = n
      BY <3>5
    <3> HIDE DEF event
    <3> QED  BY <3>1, <3>6 DEF Filled
  <2> QED  BY <2>2, <2>3
<1> QED  BY <1>1, <1>3, <1>4, <1>5, <1>6 DEF Filed, Files, RecordingSteps, Stopped

LEMMA InitFiled == Init => Filed
  BY DEF Init, Filed, RecordingSteps

LEMMA NextFiled == Typed /\ Layout /\ Filed /\ [Next]_vars => Filed'
<1> SUFFICES ASSUME Typed, Layout, Filed, [Next]_vars PROVE Filed'
  OBVIOUS
<1>1. CASE Store
  BY <1>1, StoreFiles
<1>2. CASE Decide
  BY <1>2, DecideFiles
<1>3. CASE \/ Ask \/ Announce \/ Lookup \/ (\E i \in Places : Attempt(i)) \/ Return
           \/ FinishRecording \/ Crash
  <2>1. /\ UNCHANGED <<decided, tape>> /\ pc \in Running
        /\ pc' \in {"announce", "lookup", "call", "raised", "finished", "crashed"} \/ Return
    BY <1>3 DEF Ask, Announce, Advance, Lookup, Attempt, Return, FinishRecording, Crash,
       RecordingSteps, Running, recording
  <2>2. Return => pc' = "store" /\ k' = 1
    BY DEF Return
  <2>3. pc' \in RecordingSteps \union Stopped /\ pc' # "decide" /\ (pc' = "store" => k' = 1)
    BY <2>1, <2>2 DEF RecordingSteps, Stopped
  <2>4. ASSUME NEW n \in 1..Len(tape), Due(n)'
        PROVE  Filled(n)'
    <3>1. CASE pc = "ask"
      BY <2>1, <3>1 DEF Filed, Due, Filled, RecordingSteps
    <3>2. CASE pc # "ask"
      <4>1. round' = round /\ pc' # "ask" /\ pc' # "finished"
        BY <1>3, <3>2 DEF Ask, Announce, Advance, Lookup, Attempt, Return, FinishRecording, Crash
      <4>2. tape[n].round < round
        BY <2>1, <2>3, <2>4, <4>1 DEF Due
      <4>3. Due(n) /\ pc \in RecordingSteps \union Stopped
        BY <2>1, <4>2 DEF Due, Running, Stopped
      <4> QED  BY <2>1, <4>3 DEF Filed, Filled
    <3> QED  BY <3>1, <3>2
  <2> QED  BY <2>1, <2>3, <2>4 DEF Filed, Files
<1>4. CASE Load
  BY <1>4 DEF Load, Filed, RecordingSteps, Stopped
<1>5. CASE AskReplay \/ Match \/ Serve \/ FinishReplay
  <2>1. /\ UNCHANGED decided /\ pc \notin RecordingSteps \union Stopped
        /\ pc' \notin RecordingSteps \union Stopped
    BY <1>5 DEF AskReplay, Match, Serve, FinishReplay, RecordingSteps, Stopped, recording
  <2> QED  BY <2>1 DEF Filed, RecordingSteps
<1>6. CASE Done \/ UNCHANGED vars
  BY <1>6 DEF Done, vars, recording, Filed, Files, Written, SequenceOf, Record, Due, Filled
<1> QED
  BY <1>1, <1>2, <1>3, <1>4, <1>5, <1>6 DEF Next

LEMMA LinesPair ==
  ASSUME Typed, Layout, Filed, pc \in RecordingSteps \union Stopped
  PROVE  \A n \in 1..Len(tape) :
            HistoricalDecision(n) = {d \in decided : d.line = n}
<1> SUFFICES ASSUME NEW n \in 1..Len(tape), NEW d \in decided
             PROVE  <<d.round, d.agent, d.answer>> =
                    <<tape[n].round, tape[n].index, tape[n].answer>> <=> d.line = n
  BY DEF HistoricalDecision
<1>1. Files(tape, d)
  BY DEF Filed
<1>2. d.line = n =>
        <<d.round, d.agent, d.answer>> = <<tape[n].round, tape[n].index, tape[n].answer>>
  BY <1>1 DEF Files
<1>3. ASSUME <<d.round, d.agent, d.answer>> =
             <<tape[n].round, tape[n].index, tape[n].answer>>
      PROVE  d.line = n
  <2>1. d.round = tape[n].round /\ d.agent = tape[n].index
    BY <1>3
  <2>2. /\ tape[d.line].round = tape[n].round /\ tape[d.line].index = tape[n].index
        /\ d.line \in 1..Len(tape)
    BY <1>1, <2>1 DEF Files
  <2>3. Placed(n) /\ Placed(d.line)
    BY <2>2 DEF Layout
  <2> QED  BY <2>2, <2>3 DEF Placed
<1> QED  BY <1>2, <1>3

LEMMA FiledIsAudited == Typed /\ Layout /\ Filed => DecisionsAreOnTape
<1> SUFFICES ASSUME Typed, Layout, Filed, pc \in Stopped
             PROVE  DecisionsAreOnTape
  BY DEF DecisionsAreOnTape
<1>1. \A d \in decided : d.line \in 1..Len(tape)
  BY DEF Filed, Files
<1>2. ASSUME NEW n \in 1..Len(tape)
      PROVE  /\ Audit[n] = {d \in decided : d.line = n}
             /\ Audit[n] = {} => tape[n].round = round /\ pc # "finished"
  <2>1. Audit[n] = {d \in decided : d.line = n}
    BY LinesPair DEF Audit
  <2>2. ASSUME Audit[n] = {}
        PROVE  tape[n].round = round /\ pc # "finished"
    <3>1. ~Due(n)
      BY <2>1, <2>2 DEF Filed, Filled
    <3>2. ~(tape[n].round < round) /\ pc # "finished"
      BY <3>1 DEF Due
    <3>3. n <= Agents * round /\ round \in Nat /\ Placed(n)
      <4>1. Len(tape) \in Nat /\ round \in Nat /\ Agents * round \in Nat
        BY Numbers DEF Typed, TypeOK
      <4>2. Len(tape) <= Agents * round /\ Placed(n)
        BY DEF Layout
      <4> QED  BY <4>1, <4>2
    <3> QED  BY <3>2, <3>3, InRound DEF Placed
  <2> QED  BY <2>1, <2>2
<1>3. AuditOutcome # "written" => pc = "crashed"
  BY DEF AuditOutcome, Layout, Stopped, Running, None
<1> QED  BY <1>1, <1>2, <1>3 DEF DecisionsAreOnTape

(* For any number of agents and rounds, wherever the recording raised or    *)
(* was killed: every decision in the event log has its line on the tape;    *)
(* an audit that no half line stops pairs each line with its own decision   *)
(* and no other, and misses one only in the last round of an unfinished     *)
(* run; and only a kill stops it (reparse_audit.py, run_reparse_audit).     *)
THEOREM AuditsPairDecisions == Spec => []DecisionsAreOnTape
<1>1. ReplayInv => Typed
  BY DEF ReplayInv
<1>2. (ReplayInv /\ Layout /\ Filed) /\ [Next]_vars => (ReplayInv /\ Layout /\ Filed)'
  BY <1>1, NextReplays, NextLayout, NextFiled
<1> QED
  BY <1>1, <1>2, FiledIsAudited, InitReplay, InitLayout, InitFiled, PTL DEF Spec

-----------------------------------------------------------------------------
(* The attempts behind the answers *)

(* One of the first lines of t answers prompt by attempts of its own. *)
Witness(t, a, prompt, answer, last) ==
    \E m \in 1..last : a[m] # <<>> /\ t[m].prompt = prompt /\ t[m].answer = answer

Explained(t, a, on, n) ==
    IF a[n] # <<>> THEN Explains(a[n], t[n].answer)
    ELSE /\ on
         /\ \E m \in 1..(n - 1) :
                /\ t[m].batch < t[n].batch /\ a[m] # <<>>
                /\ t[m].prompt = t[n].prompt /\ t[m].answer = t[n].answer

(* Lines of the batches before the one in progress. *)
Earlier == Agents * (round - 1)

(* What is logged of a request so far: attempts that are to be repeated     *)
(* while it is open, the explanation of its answer or a hit afterwards.     *)
Open(h, f) == Len(h) = f.tries /\ \A j \in 1..Len(h) : h[j].retry
Settled(h, f, on, witnessed) ==
    IF h # <<>> THEN Explains(h, f.out) ELSE on /\ witnessed

Request(i, t, a, f, on) ==
    IF f.out = None THEN Open(a[Earlier + i], f)
    ELSE Settled(a[Earlier + i], f, on, Witness(t, a, batch[i], f.out, Earlier))

(* A fresh answer of the batch in progress. *)
Fresh(prompt, answer) ==
    \E i \in Places : /\ batch[i] = prompt /\ flight[i].out = answer
                      /\ attempts[Earlier + i] # <<>>

Known(last) ==
    \A p \in Prompts : cache[p] # None => Witness(tape, attempts, p, cache[p], last)

Evidence ==
    pc \in RecordingSteps \union Stopped =>
        /\ \A n \in 1..Len(tape) : Explained(tape, attempts, enabled, n)
        /\ pc \in RecordingSteps =>
              \A s \in Sequences : s > Agents * round => attempts[s] = <<>>
        /\ pc \in {"announce", "lookup"} => \A i \in Places : attempts[Earlier + i] = <<>>
        /\ pc = "ask" => Known(Agents * round)
        /\ pc \in {"announce", "lookup", "call"} => Known(Earlier)
        /\ pc \in {"announce", "lookup"} => flight = Idle
        /\ pc \in {"call", "store", "decide"} =>
              \A i \in Places : Request(i, tape, attempts, flight[i], enabled)
        /\ pc = "call" =>
              \A i \in Places : flight[i].out # None /\ attempts[Earlier + i] = <<>> => ~Missed(i)
        /\ pc \in {"store", "decide"} =>
              /\ \A i \in Places : flight[i].out # None
              /\ \A p \in Prompts : cache[p] # None =>
                    Witness(tape, attempts, p, cache[p], Earlier) \/ Fresh(p, cache[p])

LEMMA KeepsExplained ==
  ASSUME NEW N \in Nat, NEW t, NEW u, NEW a, NEW b, NEW on,
         \A m \in 1..N : u[m] = t[m] /\ b[m] = a[m],
         NEW n \in 1..N, Explained(t, a, on, n)
  PROVE  Explained(u, b, on, n)
<1>1. u[n] = t[n] /\ b[n] = a[n]
  OBVIOUS
<1>2. \A m \in 1..(n - 1) : u[m] = t[m] /\ b[m] = a[m]
  OBVIOUS
<1> QED  BY <1>1, <1>2 DEF Explained

LEMMA KeepsWitness ==
  ASSUME NEW N \in Nat, NEW M \in Nat, N <= M, NEW t, NEW u, NEW a, NEW b, NEW p, NEW x,
         \A m \in 1..N : u[m] = t[m] /\ b[m] = a[m],
         Witness(t, a, p, x, N)
  PROVE  Witness(u, b, p, x, M)
BY DEF Witness

LEMMA Fits ==
  ASSUME NEW r \in Nat, r <= Rounds
  PROVE  Agents * r \in Nat /\ Agents * r <= Rounds * Agents
<1>1. Rounds - r \in Nat /\ Rounds = r + (Rounds - r)
  BY TapeAssumption
<1>2. PICK e \in Nat : Rounds = r + e
  BY <1>1
<1>3. Rounds * Agents = Agents * r + Agents * e /\ Agents * e \in Nat /\ Agents * r \in Nat
  BY <1>2, Numbers
<1> QED  BY <1>3

(* Where the batch in progress stands. *)
LEMMA Lines ==
  ASSUME Typed, Layout, pc \in Asking
  PROVE  /\ Earlier \in Nat /\ round \in Nat /\ round >= 1
         /\ Earlier + Agents = Agents * round
         /\ \A i \in Places : SequenceOf(i) = Earlier + i /\ Earlier + i \in Sequences
         /\ Len(tape) \in Nat /\ Earlier <= Len(tape) /\ Earlier \in 0..(Rounds * Agents)
<1>1. /\ round \in Nat /\ round >= 1 /\ round <= Rounds /\ Rounds \in Nat
      /\ recorder.sequence = Agents * round /\ Len(tape) \in Nat
      /\ pc \in RecordingSteps
  BY TapeAssumption DEF Typed, TypeOK, Layout, Asking, RecordingSteps
<1>2. /\ Agents * round - Agents = Agents * (round - 1)
      /\ Agents * (round - 1) \in Nat /\ Agents * round \in Nat
  BY <1>1, Numbers
<1>3. Agents * round <= Rounds * Agents
  BY <1>1, Fits
<1>4. \A i \in Places : SequenceOf(i) = Earlier + i /\ Earlier + i \in Sequences
  BY <1>1, <1>2, <1>3, Numbers DEF SequenceOf, Earlier, Sequences
<1>5. Earlier <= Len(tape)
  BY <1>1, <1>2, Numbers DEF Layout, Asking, Earlier, Typed, TypeOK
<1> QED  BY <1>1, <1>2, <1>3, <1>4, <1>5, Numbers DEF Earlier

(* Lines of the earlier batches are of earlier batches. *)
LEMMA EarlierBatch ==
  ASSUME Typed, Layout, pc \in Asking, NEW m \in 1..Earlier
  PROVE  m \in 1..Len(tape) /\ tape[m].batch < round
<1>1. m \in 1..Len(tape)
  BY Lines
<1>2. /\ tape[m].index \in Nat /\ tape[m].index >= 1 /\ tape[m].batch \in Nat \ {0}
      /\ m = Agents * (tape[m].batch - 1) + tape[m].index
  BY <1>1, Numbers DEF Layout, Placed, Asking, RecordingSteps
<1>3. ASSUME tape[m].batch >= round
      PROVE  FALSE
  <2>1. tape[m].batch - round \in Nat /\ tape[m].batch = round + (tape[m].batch - round)
    BY <1>2, <1>3, Lines
  <2>2. PICK e \in Nat : tape[m].batch = round + e
    BY <2>1
  <2>3. Agents * (tape[m].batch - 1) = Earlier + Agents * e /\ Agents * e \in Nat
    BY <2>2, Lines, Numbers DEF Earlier
  <2> QED  BY <1>2, <2>3, Lines
<1> QED  BY <1>1, <1>2, <1>3, Lines

LEMMA InitEvidence == Init => Evidence
<1> SUFFICES ASSUME Init PROVE Evidence
  OBVIOUS
<1>1. pc = "ask" /\ Len(tape) = 0
  BY DEF Init
<1>2. \A p \in Prompts : cache[p] = None
  BY DEF Init
<1>3. \A s \in Sequences : attempts[s] = <<>>
  BY DEF Init
<1> QED  BY <1>1, <1>2, <1>3 DEF Evidence, Known

LEMMA AskEvidence == Typed /\ Layout /\ Evidence /\ Ask => Evidence'
<1> SUFFICES ASSUME Typed, Layout, Evidence, Ask PROVE Evidence'
  OBVIOUS
<1>1. /\ pc = "ask" /\ pc' = "announce" /\ round' = round + 1 /\ flight' = Idle
      /\ UNCHANGED <<attempts, cache, tape, enabled>> /\ round \in Nat
  BY DEF Ask, Typed, TypeOK
<1>2. Earlier' = Agents * round /\ Agents * round \in Nat
      /\ Agents * (round + 1) = Agents * round + Agents
  BY <1>1, Numbers DEF Earlier
<1>3. \A s \in Sequences : s > Agents * round => attempts[s] = <<>>
  BY <1>1 DEF Evidence, RecordingSteps
<1>4. \A i \in Places : (attempts[Earlier + i] = <<>>)'
  <2>1. round + 1 \in Nat /\ round + 1 <= Rounds
    BY <1>1, TapeAssumption DEF Ask
  <2>2. \A i \in Places : Earlier' + i \in Sequences /\ Earlier' + i > Agents * round
    <3>1. Agents * (round + 1) <= Rounds * Agents /\ Rounds * Agents \in Nat
      BY <2>1, Fits, TapeAssumption, Numbers
    <3>2. Earlier' \in Nat /\ Earlier' + Agents <= Rounds * Agents
      BY <1>2, <3>1
    <3> QED  BY <1>2, <3>1, <3>2, Numbers DEF Sequences
  <2> QED  BY <1>1, <1>2, <1>3, <2>2, Numbers
<1>5. Known(Earlier)'
  BY <1>1, <1>2 DEF Evidence, RecordingSteps, Known
<1>6. \A s \in Sequences : s > Agents * round' => attempts'[s] = <<>>
  BY <1>1, <1>2, <1>3, TapeAssumption, Numbers DEF Sequences
<1>7. \A n \in 1..Len(tape) : Explained(tape, attempts, enabled, n)
  BY <1>1 DEF Evidence, RecordingSteps
<1> QED  BY <1>1, <1>4, <1>5, <1>6, <1>7 DEF Evidence

(* Announcing a request changes nothing of this. *)
LEMMA AnnounceEvidence == Evidence /\ Announce => Evidence'
<1> SUFFICES ASSUME Evidence, Announce PROVE Evidence'
  OBVIOUS
<1>1. /\ pc = "announce" /\ pc' \in {"announce", "lookup", "raised"}
      /\ UNCHANGED <<round, batch, flight, attempts, cache, tape, enabled>>
  BY DEF Announce, Advance, recording
<1> QED  BY <1>1 DEF Evidence, Known, Earlier, RecordingSteps, Stopped

LEMMA LookupEvidence == Typed /\ Layout /\ Evidence /\ Lookup => Evidence'
<1> SUFFICES ASSUME Typed, Layout, Evidence, Lookup PROVE Evidence'
  OBVIOUS
<1>1. /\ pc = "lookup" /\ pc' = "call" /\ pc \in Asking /\ pc \in RecordingSteps
      /\ UNCHANGED <<round, batch, attempts, cache, tape, enabled>>
  BY DEF Lookup, Asking, RecordingSteps
<1>2. /\ Earlier' = Earlier /\ flight = Idle /\ Known(Earlier)
      /\ \A i \in Places : attempts[Earlier + i] = <<>>
      /\ \A n \in 1..Len(tape) : Explained(tape, attempts, enabled, n)
      /\ \A s \in Sequences : s > Agents * round => attempts[s] = <<>>
  BY <1>1 DEF Evidence, Earlier
<1>3. ASSUME NEW i \in Places
      PROVE  /\ Request(i, tape, attempts, flight[i], enabled)'
             /\ (flight[i].out # None /\ attempts[Earlier + i] = <<>> => ~Missed(i))'
  <2>1. batch[i] \in Prompts
    BY <1>1 DEF Typed
  <2>2. CASE enabled
    <3>1. flight'[i] = [tries |-> 0, out |-> cache[batch[i]]]
      BY <2>2 DEF Lookup
    <3>2. CASE cache[batch[i]] = None
      BY <1>1, <1>2, <3>1, <3>2 DEF Request, Open, Earlier
    <3>3. CASE cache[batch[i]] # None
      <4>1. Witness(tape, attempts, batch[i], cache[batch[i]], Earlier)
        BY <1>2, <2>1, <3>3 DEF Known
      <4> QED  BY <1>1, <1>2, <2>2, <3>1, <3>3, <4>1 DEF Request, Settled, Missed
    <3> QED  BY <3>2, <3>3
  <2>3. CASE ~enabled
    <3>1. flight'[i] = [tries |-> 0, out |-> None]
      BY <1>2, <2>3 DEF Lookup, Idle
    <3> QED  BY <1>1, <1>2, <3>1 DEF Request, Open, Earlier
  <2> QED  BY <2>2, <2>3
<1>4. Known(Earlier)'
  BY <1>1, <1>2 DEF Known
<1> QED  BY <1>1, <1>2, <1>3, <1>4 DEF Evidence

(* One attempt of a request, and what it leaves in its history. *)
LEMMA AttemptExplains ==
  ASSUME NEW h \in Histories, NEW f, f.tries \in 0..Retries, Open(h, f),
         NEW out \in Outcomes, NEW g,
         g = [tries |-> f.tries + 1, out |-> Result(out, f.tries + 1)],
         NEW on, NEW w
  PROVE  LET e == [out |-> out, retry |-> out \notin Texts /\ f.tries + 1 <= Retries]
             b == Append(h, e)
         IN  /\ b # <<>>
             /\ IF g.out = None THEN Open(b, g) ELSE Settled(b, g, on, w)
<1> DEFINE e == [out |-> out, retry |-> out \notin Texts /\ f.tries + 1 <= Retries]
           b == Append(h, e)
<1>1. e \in [out : Outcomes, retry : BOOLEAN]
  <2> DEFINE again == out \notin Texts /\ f.tries + 1 <= Retries
  <2>1. again \in BOOLEAN
    OBVIOUS
  <2> HIDE DEF again
  <2> QED  BY <2>1
<1>2. e.out = out /\ (e.retry <=> out \notin Texts /\ f.tries + 1 <= Retries)
  OBVIOUS
<1>3. /\ Len(h) = f.tries /\ Len(b) = f.tries + 1 /\ b[f.tries + 1] = e /\ b # <<>>
      /\ \A j \in 1..f.tries : b[j] = h[j] /\ h[j].retry
  <2> DEFINE Logged == [out : Outcomes, retry : BOOLEAN]
  <2>1. h \in Seq(Logged) /\ e \in Logged
    BY <1>1 DEF Histories
  <2>2. Len(h) = f.tries /\ \A j \in 1..f.tries : h[j].retry
    BY DEF Open
  <2> HIDE DEF e, Logged
  <2>3. /\ Len(b) = Len(h) + 1 /\ b[Len(h) + 1] = e /\ b # <<>>
        /\ \A j \in 1..Len(h) : b[j] = h[j]
    BY <2>1
  <2> QED  BY <2>2, <2>3
<1> HIDE DEF e, b
<1>4. CASE g.out = None
  <2>1. out \notin Texts /\ f.tries + 1 <= Retries
    <3>1. Result(out, f.tries + 1) = None
      BY <1>4
    <3>2. out \notin Texts
      BY <3>1, TapeAssumption DEF Result
    <3>3. out \in {"exception", "junk"}
      BY <3>2 DEF Outcomes
    <3>4. Fallback[out] # None
      BY <3>3, NoAnswerIsNone DEF Fallback, Answers
    <3> QED  BY <3>1, <3>2, <3>4, Numbers DEF Result
  <2>2. g.tries = f.tries + 1
    OBVIOUS
  <2>3. \A j \in 1..Len(b) : b[j].retry
    BY <1>2, <1>3, <2>1
  <2> QED  BY <1>3, <1>4, <2>2, <2>3 DEF Open, b, e
<1>5. CASE g.out # None
  <2>1. out \in Texts \/ f.tries + 1 > Retries
    BY <1>5, Numbers DEF Result
  <2>2. g.out = IF out \in Texts THEN out ELSE Fallback[out]
    BY <2>1 DEF Result
  <2>3. ~e.retry
    BY <1>2, <2>1, Numbers
  <2>4. Len(b) <= Retries + 1
    BY <1>3, Numbers
  <2>5. \A j \in 1..Len(b) : b[j].retry <=> j < Len(b)
    BY <1>3, <2>3
  <2>6. b[Len(b)].out = out
    BY <1>2, <1>3
  <2>7. Explains(b, g.out)
    BY <2>2, <2>4, <2>5, <2>6 DEF Explains
  <2> QED  BY <1>3, <1>5, <2>7 DEF Settled, b, e
<1> QED  BY <1>4, <1>5

LEMMA AttemptKeepsEvidence ==
  ASSUME Typed, Layout, Evidence, NEW i \in Places, Attempt(i)
  PROVE  Evidence'
<1> PICK out \in Outcomes :
      LET tries == flight[i].tries + 1
          event == [out |-> out, retry |-> out \notin Texts /\ tries <= Retries]
          observed == [attempts EXCEPT ![ContextOf(i)] = Append(@, event)]
      IN  \/ /\ flight' = [flight EXCEPT ![i] = [tries |-> tries,
                                                out |-> Result(out, tries)]]
             /\ attempts' = observed
             /\ UNCHANGED <<pc, faults>>
          \/ /\ Raise /\ pc' = "raised"
             /\ attempts' \in {attempts, observed} /\ UNCHANGED flight
  BY DEF Attempt
<1> DEFINE tries == flight[i].tries + 1
           event == [out |-> out, retry |-> out \notin Texts /\ tries <= Retries]
           h == attempts[Earlier + i]
           longer == Append(h, event)
           g == [tries |-> tries, out |-> Result(out, tries)]
<1>1. /\ pc = "call" /\ pc \in Asking /\ pc \in RecordingSteps /\ flight[i].out = None
      /\ UNCHANGED <<round, batch, cache, tape, enabled>> /\ Earlier' = Earlier
  BY DEF Attempt, Asking, RecordingSteps, Earlier
<1>2. /\ Earlier \in Nat /\ \A j \in Places : Earlier + j \in Sequences
      /\ Len(tape) = Earlier /\ ContextOf(i) = Earlier + i /\ i \in Nat /\ i >= 1
  BY <1>1, Lines, Numbers DEF ContextOf, Layout, Earlier
<1>3. \/ /\ flight' = [flight EXCEPT ![i] = g]
         /\ attempts' = [attempts EXCEPT ![Earlier + i] = longer]
         /\ UNCHANGED pc
      \/ /\ pc' = "raised"
         /\ attempts' \in {attempts, [attempts EXCEPT ![Earlier + i] = longer]}
  BY <1>2
<1>4. attempts \in [Sequences -> Histories] /\ h \in Histories /\ flight[i].tries \in 0..Retries
  <2>1. attempts \in [Sequences -> Histories] /\ Earlier + i \in Sequences
    BY <1>2 DEF Typed, TypeOK
  <2>2. h \in Histories
    BY <2>1
  <2>3. flight[i].tries \in 0..(Retries + 1) /\ flight[i].tries <= Retries
    BY <1>1 DEF Typed, TypeOK, Requests
  <2> QED  BY <2>1, <2>2, <2>3, Numbers
<1>5. Open(h, flight[i])
  BY <1>1 DEF Evidence, Request
<1>6. /\ longer # <<>>
      /\ \A on, w : IF g.out = None THEN Open(longer, g) ELSE Settled(longer, g, on, w)
  BY <1>4, <1>5, AttemptExplains
<1> HIDE DEF tries, event, h, longer, g
<1>7. \A m \in 1..Earlier : tape'[m] = tape[m] /\ attempts'[m] = attempts[m]
  <2>1. \A m \in 1..Earlier : m # Earlier + i /\ m \in Sequences
    <3>1. Rounds * Agents \in Nat /\ Earlier <= Rounds * Agents
      BY <1>1, Lines, TapeAssumption, Numbers
    <3> QED  BY <1>2, <3>1 DEF Sequences
  <2>2. attempts' \in {attempts, [attempts EXCEPT ![Earlier + i] = longer]}
    BY <1>3
  <2> QED  BY <1>1, <1>4, <2>1, <2>2
<1>8. \A n \in 1..Len(tape) : Explained(tape, attempts', enabled, n)
  <2>1. \A n \in 1..Len(tape) : Explained(tape, attempts, enabled, n)
    BY <1>1 DEF Evidence
  <2> QED  BY <1>1, <1>2, <1>7, <2>1, KeepsExplained
<1>9. ASSUME pc' # "raised"
      PROVE  Evidence'
  <2>1. /\ pc' = "call" /\ flight' = [flight EXCEPT ![i] = g]
        /\ attempts' = [attempts EXCEPT ![Earlier + i] = longer]
    BY <1>1, <1>3, <1>9
  <2>2. \A s \in Sequences : s > Agents * round => attempts'[s] = <<>>
    <3>1. Earlier + i <= Agents * round /\ Agents * round \in Int
      BY <1>1, Lines, Numbers
    <3>2. \A s \in Sequences : s > Agents * round => attempts[s] = <<>> /\ s # Earlier + i
      BY <1>1, <1>2, <3>1 DEF Evidence, Sequences
    <3> QED  BY <2>1, <3>2, <1>4
  <2>3. \A p, x : Witness(tape, attempts, p, x, Earlier) => Witness(tape, attempts', p, x, Earlier)
    BY <1>1, <1>2, <1>7, KeepsWitness
  <2>4. Known(Earlier)'
    BY <1>1, <2>3 DEF Evidence, Known
  <2>5. ASSUME NEW j \in Places, j # i
        PROVE  /\ Request(j, tape, attempts, flight[j], enabled)'
               /\ (flight[j].out # None /\ attempts[Earlier + j] = <<>> => ~Missed(j))'
    <3>1. flight'[j] = flight[j] /\ attempts'[Earlier + j] = attempts[Earlier + j]
      BY <1>2, <1>4, <2>1, <2>5, Numbers DEF Typed, TypeOK, Requests
    <3>2. /\ Request(j, tape, attempts, flight[j], enabled)
          /\ flight[j].out # None /\ attempts[Earlier + j] = <<>> => ~Missed(j)
      BY <1>1 DEF Evidence
    <3> QED  BY <1>1, <2>3, <3>1, <3>2 DEF Request, Settled, Missed
  <2>6. /\ Request(i, tape, attempts, flight[i], enabled)'
        /\ attempts'[Earlier + i] # <<>>
    <3>1. flight'[i] = g /\ attempts'[Earlier + i] = longer
      BY <1>2, <1>4, <2>1 DEF Typed, TypeOK, Requests
    <3> QED  BY <1>1, <1>6, <3>1 DEF Request
  <2>7. \A j \in Places :
          /\ Request(j, tape, attempts, flight[j], enabled)'
          /\ (flight[j].out # None /\ attempts[Earlier + j] = <<>> => ~Missed(j))'
    BY <1>1, <2>5, <2>6
  <2> QED  BY <1>1, <1>8, <2>1, <2>2, <2>4, <2>7 DEF Evidence
<1>10. CASE pc' = "raised"
  BY <1>1, <1>8, <1>10 DEF Evidence, RecordingSteps
<1> QED  BY <1>9, <1>10

LEMMA ReturnEvidence == Typed /\ Layout /\ Evidence /\ Return => Evidence'
<1> SUFFICES ASSUME Typed, Layout, Evidence, Return PROVE Evidence'
  OBVIOUS
<1> DEFINE Same(p) == {i \in Places : batch[i] = p /\ Missed(i)}
           Final(p) == CHOOSE i \in Same(p) : \A j \in Same(p) : j <= i
<1>1. /\ pc = "call" /\ pc' = "store" /\ pc \in RecordingSteps
      /\ \A i \in Places : flight[i].out # None
      /\ UNCHANGED <<round, batch, flight, attempts, tape, enabled>> /\ Earlier' = Earlier
  BY DEF Return, RecordingSteps, Earlier
<1>2. ASSUME NEW p \in Prompts, Same(p) # {}
      PROVE  Final(p) \in Same(p)
  <2>1. Same(p) \in SUBSET Places
    OBVIOUS
  <2>2. \E i \in Same(p) : \A j \in Same(p) : j <= i
    <3> HIDE DEF Same
    <3> QED  BY <1>2, <2>1, LastPlace
  <2> HIDE DEF Same
  <2> QED  BY <2>2
<1>3. ASSUME NEW p \in Prompts, NEW i \in Same(p)
      PROVE  Fresh(p, flight[i].out)
  BY <1>1 DEF Evidence, Fresh
<1>4. \/ cache' = cache
      \/ cache' = [p \in Prompts |-> IF Same(p) = {} THEN cache[p] ELSE flight[Final(p)].out]
  BY DEF Return
<1>5. ASSUME NEW p \in Prompts, cache'[p] # None
      PROVE  (Witness(tape, attempts, p, cache[p], Earlier) \/ Fresh(p, cache[p]))'
  <2>1. cache'[p] = cache[p] \/ (Same(p) # {} /\ cache'[p] = flight[Final(p)].out)
    <3> HIDE DEF Same, Final
    <3> QED  BY <1>4
  <2> HIDE DEF Same, Final
  <2>2. Fresh(p, cache'[p]) => Fresh(p, cache[p])'
    BY <1>1 DEF Fresh
  <2>3. CASE cache'[p] = cache[p]
    BY <1>1, <1>5, <2>3 DEF Evidence, Known
  <2>4. CASE Same(p) # {} /\ cache'[p] = flight[Final(p)].out
    BY <1>2, <1>3, <2>2, <2>4
  <2> QED  BY <2>1, <2>3, <2>4
<1> HIDE DEF Same, Final
<1>6. \A i \in Places : Request(i, tape, attempts, flight[i], enabled)'
  BY <1>1 DEF Evidence, Request, Settled
<1> QED  BY <1>1, <1>5, <1>6 DEF Evidence

LEMMA StoreEvidence == Typed /\ Layout /\ Evidence /\ Store => Evidence'
<1> SUFFICES ASSUME Typed, Layout, Evidence, Store PROVE Evidence'
  OBVIOUS
<1>1. /\ pc = "store" /\ pc \in Asking /\ pc \in RecordingSteps /\ k \in Places
      /\ UNCHANGED <<round, batch, flight, attempts, cache, enabled>> /\ Earlier' = Earlier
      /\ pc' \in {"store", "decide", "raised"}
  BY DEF Store, Advance, Asking, RecordingSteps, Earlier, Typed, TypeOK
<1>2. /\ Earlier \in Nat /\ Earlier <= Len(tape) /\ Earlier + k = Len(tape) + 1
      /\ Len(tape) \in Nat
  BY <1>1, Lines, StoreWrites
<1>3. \A m \in 1..Len(tape) : tape'[m] = tape[m] /\ attempts'[m] = attempts[m]
  BY <1>1, StoreWrites
<1>4. ASSUME NEW n \in 1..Len(tape)
      PROVE  Explained(tape', attempts', enabled', n)
  <2>1. Explained(tape, attempts, enabled, n)
    BY <1>1 DEF Evidence
  <2> QED  BY <1>1, <1>2, <1>3, <2>1, KeepsExplained
<1>5. ASSUME Len(tape') = Len(tape) + 1
      PROVE  Explained(tape', attempts', enabled', Len(tape) + 1)
  <2> DEFINE n == Len(tape) + 1
             h == attempts[n]
  <2>1. /\ tape'[n].prompt = batch[k] /\ tape'[n].answer = flight[k].out
        /\ tape'[n].batch = round
    <3>1. recorder.batches = round
      BY <1>1 DEF Layout
    <3> QED  BY <1>5, <3>1, StoreWrites DEF Record
  <2>2. Settled(h, flight[k], enabled, Witness(tape, attempts, batch[k], flight[k].out, Earlier))
    BY <1>1, <1>2 DEF Evidence, Request
  <2>3. CASE h # <<>>
    BY <1>1, <2>1, <2>2, <2>3 DEF Settled, Explained
  <2>4. CASE h = <<>>
    <3>1. PICK m \in 1..Earlier :
            /\ attempts[m] # <<>> /\ tape[m].prompt = batch[k] /\ tape[m].answer = flight[k].out
      BY <2>2, <2>4 DEF Settled, Witness
    <3>2. m \in 1..(n - 1) /\ tape'[m] = tape[m] /\ tape[m].batch < round
      BY <1>1, <1>2, <1>3, EarlierBatch
    <3>3. enabled
      BY <2>2, <2>4 DEF Settled
    <3> QED  BY <1>1, <2>1, <2>4, <3>1, <3>2, <3>3 DEF Explained
  <2> QED  BY <2>3, <2>4
<1>6. \A n \in 1..Len(tape') : Explained(tape', attempts', enabled', n)
  BY <1>4, <1>5, StoreWrites
<1>7. \A p, x : Witness(tape, attempts, p, x, Earlier) => Witness(tape', attempts', p, x, Earlier)
  BY <1>2, <1>3, KeepsWitness
<1>8. \A i \in Places : Request(i, tape, attempts, flight[i], enabled)'
  <2>1. \A i \in Places : Request(i, tape, attempts, flight[i], enabled)
    BY <1>1 DEF Evidence
  <2> QED  BY <1>1, <1>7, <2>1 DEF Request, Settled
<1>9. \A p \in Prompts : cache'[p] # None =>
         (Witness(tape, attempts, p, cache[p], Earlier) \/ Fresh(p, cache[p]))'
  BY <1>1, <1>7 DEF Evidence, Fresh
<1> QED  BY <1>1, <1>6, <1>8, <1>9 DEF Evidence

LEMMA DecideEvidence == Typed /\ Layout /\ Filed /\ Evidence /\ Decide => Evidence'
<1> SUFFICES ASSUME Typed, Layout, Filed, Evidence, Decide PROVE Evidence'
  OBVIOUS
<1>1. /\ pc = "decide" /\ pc \in Asking /\ pc \in RecordingSteps
      /\ UNCHANGED <<round, batch, flight, attempts, cache, tape, enabled>> /\ Earlier' = Earlier
      /\ pc' \in {"decide", "ask", "raised"}
  BY DEF Decide, Advance, Asking, RecordingSteps, Earlier
<1>2. ASSUME NEW p \in Prompts, cache[p] # None
      PROVE  Witness(tape, attempts, p, cache[p], Agents * round)
  <2>1. CASE Witness(tape, attempts, p, cache[p], Earlier)
    <3>1. Earlier \in Nat /\ Agents * round \in Nat /\ Earlier <= Agents * round
      BY <1>1, Lines, Numbers
    <3> QED  BY <2>1, <3>1, KeepsWitness
  <2>2. CASE Fresh(p, cache[p])
    <3>1. PICK i \in Places : /\ batch[i] = p /\ flight[i].out = cache[p]
                              /\ attempts[Earlier + i] # <<>>
      BY <2>2 DEF Fresh
    <3>2. tape[Earlier + i] = Record(i, flight[i].out) /\ Earlier + i \in 1..(Agents * round)
      <4>1. Written(i)
        BY <1>1 DEF Filed
      <4>2. SequenceOf(i) = Earlier + i /\ Earlier \in Nat /\ Earlier + Agents = Agents * round
        BY <1>1, Lines
      <4> QED  BY <4>1, <4>2, Numbers DEF Written
    <3>3. tape[Earlier + i].prompt = p /\ tape[Earlier + i].answer = cache[p]
      BY <3>1, <3>2 DEF Record
    <3> QED  BY <3>1, <3>2, <3>3 DEF Witness
  <2> QED  BY <1>1, <1>2, <2>1, <2>2 DEF Evidence
<1>3. (pc = "ask" => Known(Agents * round))'
  BY <1>1, <1>2 DEF Known
<1>4. /\ pc' = "decide" => \A i \in Places : Request(i, tape, attempts, flight[i], enabled)'
      /\ \A n \in 1..Len(tape) : Explained(tape, attempts, enabled, n)
      /\ \A s \in Sequences : s > Agents * round => attempts[s] = <<>>
  BY <1>1 DEF Evidence, Request, Settled
<1>5. pc' = "decide" => \A p \in Prompts : cache'[p] # None =>
         (Witness(tape, attempts, p, cache[p], Earlier) \/ Fresh(p, cache[p]))'
  BY <1>1 DEF Evidence, Fresh
<1> QED  BY <1>1, <1>3, <1>4, <1>5 DEF Evidence

LEMMA NextEvidence == Typed /\ Layout /\ Filed /\ Evidence /\ [Next]_vars => Evidence'
<1> SUFFICES ASSUME Typed, Layout, Filed, Evidence, [Next]_vars PROVE Evidence'
  OBVIOUS
<1>1. CASE Ask
  BY <1>1, AskEvidence
<1>2. CASE Announce
  BY <1>2, AnnounceEvidence
<1>3. CASE Lookup
  BY <1>3, LookupEvidence
<1>4. CASE \E i \in Places : Attempt(i)
  BY <1>4, AttemptKeepsEvidence
<1>5. CASE Return
  BY <1>5, ReturnEvidence
<1>6. CASE Store
  BY <1>6, StoreEvidence
<1>7. CASE Decide
  BY <1>7, DecideEvidence
<1>8. CASE FinishRecording \/ Crash
  <2>1. /\ pc \in RecordingSteps \union Stopped /\ pc' \in {"finished", "crashed"}
        /\ UNCHANGED <<attempts, tape, enabled>>
    BY <1>8 DEF FinishRecording, Crash, recording, RecordingSteps, Stopped
  <2> QED  BY <2>1 DEF Evidence, RecordingSteps
<1>9. CASE Load \/ AskReplay \/ Match \/ Serve \/ FinishReplay
  <2>1. pc' \notin RecordingSteps \union Stopped
    BY <1>9
    DEF Load, AskReplay, Match, Serve, FinishReplay, RecordingSteps, Stopped
  <2> QED  BY <2>1 DEF Evidence
<1>10. CASE Done \/ UNCHANGED vars
  <2>1. UNCHANGED <<pc, round, batch, enabled, flight, attempts, cache, tape>>
    BY <1>10 DEF Done, vars, recording
  <2> QED  BY <2>1 DEF Evidence, Known, Fresh, Request, Settled, Earlier, Missed
<1> QED
  BY <1>1, <1>2, <1>3, <1>4, <1>5, <1>6, <1>7, <1>8, <1>9, <1>10 DEF Next

(* For any number of agents, retries and faults, with or without the cache: *)
(* the attempts logged under a line's sequence number are a complete retry  *)
(* history that ends in its answer or in the substitute for the last        *)
(* failure, and a line without attempts repeats an earlier batch's answer   *)
(* to its prompt (_acomplete_with_context, CachingLLM.complete_batch).      *)
THEOREM AnswersAreExplained == Spec => []AttemptsExplainAnswers
<1>1. Evidence => AttemptsExplainAnswers
  BY DEF Evidence, AttemptsExplainAnswers, Explained
<1>2. ReplayInv => Typed
  BY DEF ReplayInv
<1>3. ReplayInv /\ Layout /\ Filed /\ Evidence /\ [Next]_vars
        => (ReplayInv /\ Layout /\ Filed /\ Evidence)'
  BY <1>2, NextReplays, NextLayout, NextFiled, NextEvidence
<1> QED
  BY <1>1, <1>3, InitReplay, InitLayout, InitFiled, InitEvidence, PTL DEF Spec

-----------------------------------------------------------------------------
(* The evidence of the retries *)

(* The events in a, those that ended in one of some ways, those that were   *)
(* repeated, the requests with a retry, and those that gave up.             *)
EventsOf(a) == UNION {{s} \X DOMAIN a[s] : s \in Sequences}
WaysOf(a, ways) == {e \in EventsOf(a) : a[e[1]][e[2]].out \in ways}
Repeated(a) == {e \in EventsOf(a) : a[e[1]][e[2]].retry}
Retried(a) == {s \in Sequences : Len(a[s]) >= 2}
GaveUp(h) == h # <<>> /\ h[Len(h)].out \in Failures /\ ~h[Len(h)].retry
GivenUp(a) == {s \in Sequences : GaveUp(a[s])}

Tallied(a) ==
    [attempted   |-> Cardinality(EventsOf(a)),
     responses   |-> Cardinality(WaysOf(a, Outcomes \ {"exception"})),
     parseFailed |-> Cardinality(WaysOf(a, {"junk"})),
     exceptions  |-> Cardinality(WaysOf(a, {"exception"})),
     retries     |-> Cardinality(Repeated(a)),
     withRetry   |-> Cardinality(Retried(a)),
     exhausted   |-> Cardinality(GivenUp(a))]

(* An attempt says that it will be repeated exactly when it will be.        *)
Announced(h) ==
    \A n \in 1..Len(h) : h[n].retry <=> h[n].out \notin Texts /\ n <= Retries

(* The decision made of line n, and the lines decided so far.               *)
DecisionOf(t, n) ==
    [round |-> t[n].round, agent |-> t[n].index, answer |-> t[n].answer, line |-> n]
DecisionsOf(t, last) == {DecisionOf(t, n) : n \in 1..last}

Parsed ==
    IF pc \in {"ask", "finished"} THEN Len(tape)
    ELSE IF pc = "decide" THEN Earlier + (k - 1) ELSE Earlier

(* While nothing was raised, each event is counted once and each line up to *)
(* the place in progress has its decision.                                  *)
Tally ==
    /\ \A s \in Sequences : Announced(attempts[s])
    /\ pc \in RecordingSteps \union {"finished"} =>
          /\ tally = Tallied(attempts)
          /\ decided = DecisionsOf(tape, Parsed)

Entry == [out : Outcomes, retry : BOOLEAN]   \* an attempt event

(* The histories after one more attempt.                                     *)
After(a, s, e) == [a EXCEPT ![s] = Append(@, e)]

LEMMA AfterEvent ==
  ASSUME NEW a \in [Sequences -> Histories], NEW s \in Sequences, NEW e \in Entry
  PROVE  /\ After(a, s, e) \in [Sequences -> Histories]
         /\ Len(a[s]) \in Nat /\ Len(After(a, s, e)[s]) = Len(a[s]) + 1
         /\ DOMAIN a[s] = 1..Len(a[s]) /\ DOMAIN After(a, s, e)[s] = 1..(Len(a[s]) + 1)
         /\ \A r \in Sequences : r # s => After(a, s, e)[r] = a[r]
         /\ \A j \in 1..Len(a[s]) : After(a, s, e)[s][j] = a[s][j]
         /\ After(a, s, e)[s][Len(a[s]) + 1] = e
<1>1. a[s] \in Seq(Entry)
  BY DEF Histories, Entry
<1>2. /\ Append(a[s], e) \in Seq(Entry) /\ Len(Append(a[s], e)) = Len(a[s]) + 1
      /\ \A j \in 1..Len(a[s]) : Append(a[s], e)[j] = a[s][j]
      /\ Append(a[s], e)[Len(a[s]) + 1] = e
      /\ Len(a[s]) \in Nat
      /\ DOMAIN Append(a[s], e) = 1..(Len(a[s]) + 1) /\ DOMAIN a[s] = 1..Len(a[s])
  BY <1>1
<1> DEFINE b == After(a, s, e)
<1>3. b[s] = Append(a[s], e) /\ b = [r \in Sequences |-> b[r]]
      /\ \A r \in Sequences : r # s => b[r] = a[r]
  BY DEF After
<1> HIDE DEF b
<1>4. b \in [Sequences -> Histories]
  <2>1. \A r \in Sequences : b[r] \in Histories
    BY <1>2, <1>3 DEF Histories, Entry
  <2> QED  BY <1>3, <2>1
<1> QED  BY <1>2, <1>3, <1>4 DEF b

LEMMA AddsEvent ==
  ASSUME NEW a \in [Sequences -> Histories], NEW s \in Sequences, NEW e \in Entry
  PROVE  /\ EventsOf(After(a, s, e)) = EventsOf(a) \union {<<s, Len(a[s]) + 1>>}
         /\ <<s, Len(a[s]) + 1>> \notin EventsOf(a)
         /\ \A x \in EventsOf(a) : After(a, s, e)[x[1]][x[2]] = a[x[1]][x[2]]
<1> DEFINE b == After(a, s, e)
           n == Len(a[s]) + 1
<1>1. /\ n \in Nat \ {0} /\ DOMAIN b[s] = 1..n /\ DOMAIN a[s] = 1..(n - 1)
      /\ \A r \in Sequences : r # s => b[r] = a[r]
      /\ \A j \in 1..(n - 1) : b[s][j] = a[s][j]
  BY AfterEvent
<1> HIDE DEF b, n
<1>2. EventsOf(b) = EventsOf(a) \union {<<s, n>>}
  <2>1. \A x : x \in EventsOf(b) <=> \E r \in Sequences : x \in {r} \X DOMAIN b[r]
    BY DEF EventsOf
  <2>2. \A x : x \in EventsOf(a) <=> \E r \in Sequences : x \in {r} \X DOMAIN a[r]
    BY DEF EventsOf
  <2>3. {s} \X DOMAIN b[s] = ({s} \X DOMAIN a[s]) \union {<<s, n>>}
    BY <1>1
  <2> QED  BY <1>1, <2>1, <2>2, <2>3
<1>3. <<s, n>> \notin EventsOf(a)
  BY <1>1 DEF EventsOf
<1>4. \A x \in EventsOf(a) : b[x[1]][x[2]] = a[x[1]][x[2]]
  <2> SUFFICES ASSUME NEW x \in EventsOf(a) PROVE b[x[1]][x[2]] = a[x[1]][x[2]]
    OBVIOUS
  <2>1. PICK r \in Sequences : x[1] = r /\ x[2] \in DOMAIN a[r]
    BY DEF EventsOf
  <2> QED  BY <1>1, <2>1
<1> QED  BY <1>2, <1>3, <1>4 DEF b, n

LEMMA RangeFinite == ASSUME NEW n \in Nat PROVE IsFiniteSet(1..n) /\ Cardinality(1..n) = n
  BY FS_Interval

LEMMA EventsFinite ==
  ASSUME NEW a \in [Sequences -> Histories]
  PROVE  IsFiniteSet(EventsOf(a)) /\ IsFiniteSet(Sequences)
<1>1. Rounds * Agents \in Nat
  BY TapeAssumption
<1>2. IsFiniteSet(Sequences)
  BY <1>1, FS_Interval DEF Sequences
<1>3. \A s \in Sequences : IsFiniteSet({s} \X DOMAIN a[s])
  <2> TAKE s \in Sequences
  <2>1. a[s] \in Seq([out : Outcomes, retry : BOOLEAN])
    BY DEF Histories
  <2>2. Len(a[s]) \in Nat /\ DOMAIN a[s] = 1..Len(a[s])
    BY <2>1
  <2> PICK n \in Nat : n = Len(a[s])
    BY <2>2
  <2>3. IsFiniteSet(1..n) /\ IsFiniteSet({s})
    BY RangeFinite, FS_Singleton
  <2>4. IsFiniteSet({s} \X (1..n))
    <3> DEFINE I == 1..n
    <3> HIDE DEF I
    <3> QED  BY <2>3, FS_Product DEF I
  <2> QED  BY <2>2, <2>4
<1> DEFINE Parts == {{s} \X DOMAIN a[s] : s \in Sequences}
           f == [s \in Sequences |-> {s} \X DOMAIN a[s]]
<1>4. IsFiniteSet(Parts)
  <2>1. f \in Surjection(Sequences, Parts)
    BY DEF Surjection
  <2> HIDE DEF f, Parts
  <2> QED  BY <1>2, <2>1, FS_Surjection
<1>5. \A S \in Parts : IsFiniteSet(S)
  BY <1>3
<1>6. EventsOf(a) = UNION Parts
  BY DEF EventsOf
<1> HIDE DEF Parts
<1> QED  BY <1>2, <1>4, <1>5, <1>6, FS_UNION

LEMMA OneMore ==
  ASSUME NEW S, IsFiniteSet(S), NEW F \in SUBSET S, NEW x, x \notin F, NEW yes \in BOOLEAN,
         NEW G, G = IF yes THEN F \union {x} ELSE F
  PROVE  /\ Cardinality(F) \in Nat
         /\ Cardinality(G) = Cardinality(F) + (IF yes THEN 1 ELSE 0)
<1>1. IsFiniteSet(F)
  BY FS_Subset
<1>2. Cardinality(F) \in Nat /\ Cardinality(F \union {x}) = Cardinality(F) + 1
  BY <1>1, FS_CardinalityType, FS_AddElement
<1> QED  BY <1>2

(* One more attempt of a request that is still open is counted once.        *)
LEMMA AddsTally ==
  ASSUME NEW a \in [Sequences -> Histories], NEW s \in Sequences,
         NEW e \in Entry,
         \A j \in 1..Len(a[s]) : a[s][j].retry
  PROVE  Tallied(After(a, s, e)) = Counted(Tallied(a), e, Len(a[s]) + 1)
<1> DEFINE b == After(a, s, e)
           n == Len(a[s]) + 1
           E == EventsOf(a)
           x == <<s, n>>
<1>1. /\ n \in Nat \ {0} /\ Len(b[s]) = n
      /\ \A r \in Sequences : r # s => b[r] = a[r]
      /\ b[s][n] = e
      /\ EventsOf(b) = E \union {x} /\ x \notin E
      /\ \A y \in E : b[y[1]][y[2]] = a[y[1]][y[2]]
      /\ b \in [Sequences -> Histories]
  BY AfterEvent, AddsEvent
<1>2. IsFiniteSet(E) /\ IsFiniteSet(Sequences)
  BY EventsFinite
<1>3. e.out \in Outcomes /\ e.retry \in BOOLEAN
  BY DEF Entry
<1>4. b[x[1]][x[2]] = e
  BY <1>1 DEF x
<1> HIDE DEF b, E, x
<1>5. Cardinality(EventsOf(b)) = Cardinality(E) + 1
  BY <1>1, <1>2, FS_AddElement
<1>6. ASSUME NEW ways
      PROVE  Cardinality(WaysOf(b, ways))
               = Cardinality(WaysOf(a, ways)) + (IF e.out \in ways THEN 1 ELSE 0)
  <2> DEFINE F == WaysOf(a, ways)
             G == WaysOf(b, ways)
             yes == e.out \in ways
  <2>1. F \in SUBSET E /\ x \notin F
    BY <1>1 DEF WaysOf, E
  <2>2. G = IF yes THEN F \union {x} ELSE F
    BY <1>1, <1>4 DEF WaysOf, E
  <2>3. yes \in BOOLEAN
    OBVIOUS
  <2> HIDE DEF F, G, yes
  <2>4. Cardinality(G) = Cardinality(F) + (IF yes THEN 1 ELSE 0)
    BY <1>2, <2>1, <2>2, <2>3, OneMore
  <2> QED  BY <2>4 DEF F, G, yes
<1>7. Cardinality(Repeated(b)) = Cardinality(Repeated(a)) + (IF e.retry THEN 1 ELSE 0)
  <2> DEFINE F == Repeated(a)
             G == Repeated(b)
             yes == e.retry
  <2>1. F \in SUBSET E /\ x \notin F
    BY <1>1 DEF Repeated, E
  <2>2. G = IF yes THEN F \union {x} ELSE F
    BY <1>1, <1>4 DEF Repeated, E
  <2>3. yes \in BOOLEAN
    BY <1>3
  <2> HIDE DEF F, G, yes
  <2>4. Cardinality(G) = Cardinality(F) + (IF yes THEN 1 ELSE 0)
    BY <1>2, <2>1, <2>2, <2>3, OneMore
  <2> QED  BY <2>4 DEF F, G, yes
<1>8. Cardinality(Retried(b)) = Cardinality(Retried(a)) + (IF n = 2 THEN 1 ELSE 0)
  <2> DEFINE F == Retried(a)
             G == Retried(b)
             yes == n = 2
  <2>1. F \in SUBSET Sequences
    BY DEF Retried
  <2>2. CASE n > 2
    <3>1. G = F
      BY <1>1, <2>2 DEF Retried
    <3> QED  BY <1>1, <2>1, <2>2, <3>1, <1>2, FS_Subset, FS_CardinalityType
  <2>3. CASE n <= 2
    <3>1. s \notin F
      BY <1>1, <2>3 DEF Retried
    <3>2. G = IF yes THEN F \union {s} ELSE F
      BY <1>1, <2>3 DEF Retried
    <3>3. yes \in BOOLEAN
      OBVIOUS
    <3> HIDE DEF F, G, yes
    <3>4. Cardinality(G) = Cardinality(F) + (IF yes THEN 1 ELSE 0)
      BY <1>2, <2>1, <3>1, <3>2, <3>3, OneMore
    <3> QED  BY <3>4 DEF F, G, yes
  <2> QED  BY <1>1, <2>2, <2>3
<1>9. Cardinality(GivenUp(b))
        = Cardinality(GivenUp(a)) + (IF ~e.retry /\ e.out \in Failures THEN 1 ELSE 0)
  <2> DEFINE F == GivenUp(a)
             G == GivenUp(b)
             yes == ~e.retry /\ e.out \in Failures
  <2>1. F \in SUBSET Sequences
    BY DEF GivenUp
  <2>2. s \notin F
    <3>1. a[s] \in Seq([out : Outcomes, retry : BOOLEAN])
      BY DEF Histories
    <3>2. a[s] # <<>> => Len(a[s]) \in 1..Len(a[s])
      BY <3>1
    <3> QED  BY <3>2 DEF GivenUp, GaveUp
  <2>3. b[s] # <<>> /\ b[s][Len(b[s])] = e
    BY <1>1
  <2>4. G = IF yes THEN F \union {s} ELSE F
    BY <1>1, <2>2, <2>3 DEF GivenUp, GaveUp
  <2>5. yes \in BOOLEAN
    BY <1>3
  <2> HIDE DEF F, G, yes
  <2>6. Cardinality(G) = Cardinality(F) + (IF yes THEN 1 ELSE 0)
    BY <1>2, <2>1, <2>2, <2>4, <2>5, OneMore
  <2> QED  BY <2>6 DEF F, G, yes
<1>10. Cardinality(WaysOf(b, Outcomes \ {"exception"}))
         = Cardinality(WaysOf(a, Outcomes \ {"exception"}))
             + (IF e.out # "exception" THEN 1 ELSE 0)
  <2>1. e.out \in Outcomes \ {"exception"} <=> e.out # "exception"
    BY <1>3
  <2> QED  BY <1>6, <2>1
<1>11. /\ Cardinality(WaysOf(b, {"junk"}))
            = Cardinality(WaysOf(a, {"junk"})) + (IF e.out = "junk" THEN 1 ELSE 0)
       /\ Cardinality(WaysOf(b, {"exception"}))
            = Cardinality(WaysOf(a, {"exception"})) + (IF e.out = "exception" THEN 1 ELSE 0)
  <2>1. e.out \in {"junk"} <=> e.out = "junk"
    OBVIOUS
  <2>2. e.out \in {"exception"} <=> e.out = "exception"
    OBVIOUS
  <2> QED  BY <1>6, <2>1, <2>2
<1> QED
  BY <1>5, <1>7, <1>8, <1>9, <1>10, <1>11 DEF Tallied, Counted, b, E

LEMMA InitTally == EvidenceInit => Tally
<1> SUFFICES ASSUME EvidenceInit PROVE Tally
  OBVIOUS
<1> DEFINE a == [s \in Sequences |-> <<>>]
<1>1. attempts = a /\ tape = <<>> /\ decided = {} /\ pc = "ask" /\ tally = NoAttempts
  BY DEF EvidenceInit, Init
<1>2. \A s \in Sequences : a[s] = <<>>
  OBVIOUS
<1> HIDE DEF a
<1>3. EventsOf(a) = {} /\ Retried(a) = {} /\ GivenUp(a) = {}
  BY <1>2 DEF EventsOf, Retried, GivenUp, GaveUp
<1>4. Repeated(a) = {} /\ \A ways : WaysOf(a, ways) = {}
  BY <1>3 DEF Repeated, WaysOf
<1>5. Tallied(a) = NoAttempts
  BY <1>3, <1>4, FS_EmptySet DEF Tallied, NoAttempts
<1>6. DecisionsOf(<<>>, 0) = {}
  BY DEF DecisionsOf
<1>7. Parsed = 0
  BY <1>1 DEF Parsed
<1> QED  BY <1>1, <1>2, <1>5, <1>6, <1>7 DEF Tally, Announced

LEMMA ObservesTally ==
  ASSUME Typed, Layout, Evidence, Tally, Observes
  PROVE  Tally'
<1> DEFINE s(i) == ContextOf(i)
<1>1. PICK i \in Places :
        /\ Attempt(i)
        /\ LET counted == Counted(tally, attempts'[s(i)][Len(attempts'[s(i)])],
                                  Len(attempts'[s(i)]))
           IN  tally' \in IF attempts' = attempts THEN {tally}
                          ELSE IF pc' = "raised" THEN {tally, counted} ELSE {counted}
  BY DEF Observes
<1>2. /\ pc = "call" /\ pc \in Asking /\ pc \in RecordingSteps /\ flight[i].out = None
      /\ pc' \in {"call", "raised"}
      /\ UNCHANGED <<round, tape, decided>> /\ Earlier' = Earlier
  BY <1>1 DEF Attempt, Asking, RecordingSteps, Earlier
<1>3. /\ Earlier \in Nat /\ Earlier + i \in Sequences
      /\ ContextOf(i) = Earlier + i
  BY <1>2, Lines, Numbers DEF ContextOf, Layout, Earlier
<1> PICK q \in Sequences : q = Earlier + i
  BY <1>3
<1> DEFINE h == attempts[q]
           n == Len(h) + 1
<1>4. /\ attempts \in [Sequences -> Histories] /\ h \in Histories
      /\ flight[i].tries \in Nat /\ Open(h, flight[i])
  <2>1. attempts \in [Sequences -> Histories] /\ h \in Histories
    BY <1>3 DEF Typed, TypeOK
  <2>2. flight[i].tries \in Nat
    BY Numbers DEF Typed, TypeOK, Requests
  <2>3. Request(i, tape, attempts, flight[i], enabled)
    BY <1>2 DEF Evidence
  <2> QED  BY <1>2, <2>1, <2>2, <2>3 DEF Request
<1>5. PICK e \in Entry :
        /\ e.retry <=> e.out \notin Texts /\ flight[i].tries + 1 <= Retries
        /\ \/ attempts' = After(attempts, q, e) /\ pc' = "call"
           \/ /\ pc' = "raised"
              /\ attempts' \in {attempts, After(attempts, q, e)}
  <2>1. PICK out \in Outcomes :
        LET tries == flight[i].tries + 1
            event == [out |-> out, retry |-> out \notin Texts /\ tries <= Retries]
            observed == [attempts EXCEPT ![ContextOf(i)] = Append(@, event)]
        IN  \/ attempts' = observed /\ UNCHANGED pc
            \/ pc' = "raised" /\ attempts' \in {attempts, observed}
    BY <1>1 DEF Attempt
  <2> DEFINE again == out \notin Texts /\ flight[i].tries + 1 <= Retries
             e == [out |-> out, retry |-> again]
  <2>2. \/ attempts' = After(attempts, q, e) /\ pc' = "call"
        \/ pc' = "raised" /\ attempts' \in {attempts, After(attempts, q, e)}
    BY <1>2, <1>3, <2>1 DEF After
  <2>3. again \in BOOLEAN
    OBVIOUS
  <2>4. e \in Entry /\ e.out = out /\ e.retry = again
    <3> HIDE DEF again
    <3> QED  BY <2>3 DEF Entry
  <2> HIDE DEF e
  <2> QED  BY <2>2, <2>4
<1> DEFINE b == After(attempts, q, e)
<1>6. /\ b \in [Sequences -> Histories] /\ n \in Nat \ {0} /\ Len(b[q]) = n
      /\ \A r \in Sequences : r # q => b[r] = attempts[r]
      /\ \A j \in 1..(n - 1) : b[q][j] = h[j]
      /\ b[q][n] = e
  <2>1. attempts \in [Sequences -> Histories]
    BY <1>4
  <2>2. /\ b \in [Sequences -> Histories]
        /\ Len(attempts[q]) \in Nat /\ Len(b[q]) = Len(attempts[q]) + 1
        /\ \A r \in Sequences : r # q => b[r] = attempts[r]
        /\ \A j \in 1..Len(attempts[q]) : b[q][j] = attempts[q][j]
        /\ b[q][Len(attempts[q]) + 1] = e
    BY <2>1, AfterEvent
  <2> HIDE DEF b
  <2> QED  BY <2>2
<1>7. Tallied(b) = Counted(Tallied(attempts), e, n)
  BY <1>3, <1>4, AddsTally DEF Open
<1>8. n = flight[i].tries + 1 /\ Len(h) \in Nat
  BY <1>4 DEF Open
<1>9. \A r \in Sequences : Announced(b[r])
  <2> SUFFICES ASSUME NEW r \in Sequences PROVE Announced(b[r])
    OBVIOUS
  <2>1. Announced(attempts[r]) /\ Announced(h)
    BY <1>3 DEF Tally
  <2>2. CASE r # q
    BY <1>6, <2>1, <2>2
  <2>3. CASE r = q
    <3> SUFFICES ASSUME NEW j \in 1..n
                 PROVE  b[r][j].retry <=> b[r][j].out \notin Texts /\ j <= Retries
      BY <1>6, <2>3 DEF Announced
    <3>1. CASE j = n
      BY <1>5, <1>6, <1>8, <2>3, <3>1
    <3>2. CASE j # n
      <4>1. j \in 1..(n - 1) /\ j \in 1..Len(h)
        BY <1>8, <3>2
      <4> QED  BY <1>6, <2>1, <2>3, <4>1 DEF Announced
    <3> QED  BY <3>1, <3>2
  <2> QED  BY <2>2, <2>3
<1>10. b # attempts
  BY <1>6, <1>8
<1> HIDE DEF b, n, h
<1>11. \A r \in Sequences : Announced(attempts'[r])
  BY <1>5, <1>9 DEF Tally, b
<1>12. CASE pc' = "raised"
  BY <1>11, <1>12 DEF Tally, RecordingSteps
<1>13. CASE pc' # "raised"
  <2>1. attempts' = b /\ pc' = "call"
    BY <1>5, <1>13 DEF b
  <2>2. tally' = Counted(tally, e, n)
    BY <1>1, <1>3, <1>6, <1>10, <1>13, <2>1
  <2>3. tally = Tallied(attempts) /\ decided = DecisionsOf(tape, Parsed)
    BY <1>2 DEF Tally
  <2>4. tally' = Tallied(attempts')
    BY <1>7, <2>1, <2>2, <2>3
  <2>5. Parsed' = Parsed
    BY <1>2, <2>1 DEF Parsed
  <2> QED  BY <1>2, <1>11, <2>3, <2>4, <2>5 DEF Tally
<1> QED  BY <1>12, <1>13

(* Lines that stay leave their decisions as they are. *)
LEMMA KeepsDecisions ==
  ASSUME NEW t, NEW u, NEW last \in Nat, \A n \in 1..last : u[n] = t[n]
  PROVE  DecisionsOf(u, last) = DecisionsOf(t, last)
<1>1. \A n \in 1..last : DecisionOf(u, n) = DecisionOf(t, n)
  BY DEF DecisionOf
<1> QED  BY <1>1 DEF DecisionsOf

LEMMA StoreTally ==
  ASSUME Typed, Layout, Tally, Store, UNCHANGED tally
  PROVE  Tally'
<1>1. /\ pc = "store" /\ pc' \in {"store", "decide", "raised"}
      /\ (pc' = "decide" => k' = 1) /\ Earlier' = Earlier
      /\ UNCHANGED <<attempts, decided>>
  BY DEF Store, Advance, Earlier
<1>2. Earlier \in Nat /\ Earlier <= Len(tape) /\ Len(tape) \in Nat
  BY <1>1, Lines, Numbers DEF Layout, RecordingSteps, Earlier, Typed, TypeOK, Asking
<1>3. \A n \in 1..Earlier : tape'[n] = tape[n]
  BY <1>2, StoreWrites
<1>4. DecisionsOf(tape', Earlier) = DecisionsOf(tape, Earlier)
  BY <1>2, <1>3, KeepsDecisions
<1>5. pc' # "raised" => Parsed' = Earlier
  BY <1>1, <1>2 DEF Parsed
<1>6. tally = Tallied(attempts) /\ decided = DecisionsOf(tape, Earlier)
  BY <1>1 DEF Tally, Parsed, RecordingSteps
<1>7. \A s \in Sequences : Announced(attempts[s])
  BY DEF Tally
<1> QED  BY <1>1, <1>4, <1>5, <1>6, <1>7 DEF Tally, RecordingSteps

LEMMA DecideTally ==
  ASSUME Typed, Layout, Filed, Tally, Decide, UNCHANGED tally
  PROVE  Tally'
<1> DEFINE event == [round |-> round, agent |-> k, answer |-> flight[k].out,
                     line |-> SequenceOf(k)]
<1>1. /\ pc = "decide" /\ k \in Places /\ Written(k) /\ k \in Nat
      /\ UNCHANGED <<attempts, tape, round>> /\ Earlier' = Earlier
      /\ \/ pc' = "raised"
         \/ /\ decided' = decided \union {event}
            /\ \/ pc' = "decide" /\ k' = k + 1
               \/ pc' = "ask" /\ k = Agents
  BY Numbers DEF Decide, Advance, Earlier, Filed, Typed, TypeOK
<1>2. /\ round \in Nat /\ round >= 1 /\ Len(tape) = Agents * round
      /\ Earlier \in Nat /\ recorder.sequence = Agents * round
  BY <1>1, Lines, Numbers DEF Layout, RecordingSteps, Typed, TypeOK, Asking
<1>3. Agents * round = Earlier + Agents
  BY <1>2, Numbers DEF Earlier
<1>4. SequenceOf(k) = Earlier + k
  BY <1>1, <1>2, <1>3, Numbers DEF SequenceOf
<1>5. event = DecisionOf(tape, Earlier + k)
  <2>1. tape[Earlier + k] = Record(k, flight[k].out)
    BY <1>1, <1>4 DEF Written
  <2> QED  BY <1>4, <2>1 DEF Record, DecisionOf
<1>6. DecisionsOf(tape, Earlier + k)
        = DecisionsOf(tape, Earlier + (k - 1)) \union {DecisionOf(tape, Earlier + k)}
  <2>1. 1..(Earlier + k) = 1..(Earlier + (k - 1)) \union {Earlier + k}
    BY <1>1, <1>2, Numbers
  <2>2. PICK A : A = 1..(Earlier + k)
    OBVIOUS
  <2>3. PICK B : B = 1..(Earlier + (k - 1))
    OBVIOUS
  <2> QED  BY <2>1, <2>2, <2>3 DEF DecisionsOf
<1>7. tally = Tallied(attempts) /\ decided = DecisionsOf(tape, Earlier + (k - 1))
  BY <1>1 DEF Tally, Parsed, RecordingSteps
<1>8. pc' # "raised" => Parsed' = Earlier + k
  BY <1>1, <1>2, <1>3 DEF Parsed
<1>9. \A s \in Sequences : Announced(attempts[s])
  BY DEF Tally
<1> HIDE DEF event
<1>10. \A s \in Sequences : Announced(attempts'[s])
  BY <1>1, <1>9
<1>11. CASE pc' = "raised"
  BY <1>10, <1>11 DEF Tally, RecordingSteps
<1>12. CASE pc' # "raised"
  <2>1. decided' = DecisionsOf(tape', Parsed')
    BY <1>1, <1>5, <1>6, <1>7, <1>8, <1>12
  <2> QED  BY <1>1, <1>7, <1>10, <2>1 DEF Tally
<1> QED  BY <1>11, <1>12

LEMMA NextTally == Typed /\ Layout /\ Filed /\ Evidence /\ Tally /\ [EvidenceNext]_evidenceVars
                     => Tally'
<1> SUFFICES ASSUME Typed, Layout, Filed, Evidence, Tally, [EvidenceNext]_evidenceVars
             PROVE  Tally'
  OBVIOUS
<1>1. CASE Observes
  BY <1>1, ObservesTally
<1>2. CASE Load
  <2>1. pc' \in {"ready", "rejected"} /\ attempts' = [s \in Sequences |-> <<>>]
    BY <1>2 DEF Load
  <2>2. \A s \in Sequences : attempts'[s] = <<>>
    BY <2>1
  <2>3. Announced(<<>>)
    BY DEF Announced
  <2>4. \A s \in Sequences : Announced(attempts'[s])
    BY <2>2, <2>3
  <2>5. pc' \notin RecordingSteps \union {"finished"}
    BY <2>1 DEF RecordingSteps
  <2> QED  BY <2>4, <2>5 DEF Tally
<1>3. CASE Ask /\ UNCHANGED tally
  <2>1. /\ pc = "ask" /\ pc' = "announce" /\ round' = round + 1 /\ round \in Nat
        /\ UNCHANGED <<attempts, tape, decided>>
    BY <1>3 DEF Ask, Typed, TypeOK
  <2>2. Len(tape) = Agents * round
    BY <2>1 DEF Layout, RecordingSteps
  <2>3. Parsed = Agents * round /\ Parsed' = Agents * round
    BY <2>1, <2>2, Numbers DEF Parsed, Earlier
  <2> QED  BY <1>3, <2>1, <2>3 DEF Tally, RecordingSteps
<1>4. CASE (Announce \/ Lookup \/ Return) /\ UNCHANGED tally
  <2>1. /\ pc \in {"announce", "lookup", "call"}
        /\ pc' \in {"announce", "lookup", "call", "store", "raised"}
        /\ UNCHANGED <<attempts, tape, decided, round>>
    BY <1>4 DEF Announce, Lookup, Return, Advance, recording
  <2>2. pc' # "raised" => Parsed = Earlier /\ Parsed' = Earlier
    BY <2>1 DEF Parsed, Earlier
  <2> QED  BY <1>4, <2>1, <2>2 DEF Tally, RecordingSteps
<1>5. CASE Store /\ UNCHANGED tally
  BY <1>5, StoreTally
<1>6. CASE Decide /\ UNCHANGED tally
  BY <1>6, DecideTally
<1>7. CASE (FinishRecording \/ Crash) /\ UNCHANGED tally
  <2>1. /\ pc' = "crashed" \/ (pc = "ask" /\ pc' = "finished")
        /\ UNCHANGED <<attempts, tape, decided>>
    BY <1>7 DEF FinishRecording, Crash, recording
  <2>2. pc' = "finished" => Parsed' = Parsed
    BY <2>1 DEF Parsed
  <2> QED  BY <1>7, <2>1, <2>2 DEF Tally, RecordingSteps
<1>8. CASE (AskReplay \/ Match \/ Serve \/ FinishReplay) /\ UNCHANGED tally
  <2>1. pc' \notin RecordingSteps \union {"finished"} /\ UNCHANGED attempts
    BY <1>8 DEF AskReplay, Match, Serve, FinishReplay, RecordingSteps, recording
  <2> QED  BY <2>1 DEF Tally
<1>9. CASE (Done /\ UNCHANGED tally) \/ UNCHANGED evidenceVars
  <2>1. UNCHANGED <<pc, round, k, attempts, tape, decided, tally>>
    BY <1>9 DEF Done, evidenceVars, vars, recording
  <2> QED  BY <2>1 DEF Tally, Parsed, Earlier
<1> QED
  BY <1>1, <1>2, <1>3, <1>4, <1>5, <1>6, <1>7, <1>8, <1>9 DEF EvidenceNext

(* The cell of a line is its round and its place. *)
LEMMA CellOfLine ==
  ASSUME NEW n \in Nat \ {0}, Placed(n)
  PROVE  Cell(n) = <<tape[n].round, tape[n].index>>
<1> DEFINE q == (n - 1) \div Agents
           i == ((n - 1) % Agents) + 1
           b == tape[n].batch
           j == tape[n].index
<1>1. /\ b \in Nat \ {0} /\ j \in Places /\ n = Agents * (b - 1) + j
      /\ tape[n].round = b
  BY DEF Placed
<1>2. /\ q \in Nat /\ (n - 1) % Agents \in 0..(Agents - 1)
      /\ n - 1 = Agents * q + ((n - 1) % Agents)
  BY Numbers
<1>3. i \in Places /\ n = Agents * q + i
  BY <1>2, Numbers
<1>4. b - 1 \in Nat
  BY <1>1
<1> HIDE DEF q, i, b, j
<1>5. q = b - 1 /\ i = j
  BY <1>1, <1>2, <1>3, <1>4, OnePlace
<1>6. q + 1 = b
  BY <1>1, <1>5
<1>7. Cell(n) = <<q + 1, i>>
  BY DEF Cell, q, i
<1> QED  BY <1>1, <1>5, <1>6, <1>7 DEF b, j

(* As many decisions as lines they were made of. *)
LEMMA CountDecisions ==
  ASSUME NEW t, NEW last \in Nat, NEW T \in SUBSET (1..last)
  PROVE  Cardinality({DecisionOf(t, n) : n \in T}) = Cardinality(T)
<1> DEFINE D == {DecisionOf(t, n) : n \in T}
           f == [n \in T |-> DecisionOf(t, n)]
<1>1. IsFiniteSet(T)
  BY RangeFinite, FS_Subset
<1>2. f \in [T -> D] /\ \A n \in T : f[n].line = n
  BY DEF DecisionOf
<1>3. \A d \in D : \E n \in T : f[n] = d
  OBVIOUS
<1>4. f \in Bijection(T, D)
  <2> HIDE DEF f, D
  <2>1. \A m, n \in T : f[m] = f[n] => m = n
    BY <1>2
  <2> QED  BY <1>2, <1>3, <2>1 DEF Bijection, Injection, IsInjective, Surjection
<1>5. ExistsBijection(T, D)
  BY <1>4 DEF ExistsBijection
<1> HIDE DEF D, f
<1> QED  BY <1>1, <1>5, FS_Bijection DEF D

(* The recount from the events is the count kept of them, once no request   *)
(* is left in the middle of its retries.                                    *)
LEMMA RecountedIsTallied ==
  ASSUME attempts \in [Sequences -> Histories], \A s \in Listed : ~Last(s).retry
  PROVE  Recounted = Tallied(attempts)
<1>1. Events = EventsOf(attempts)
  <2>1. \A s \in Sequences : attempts[s] = <<>> => DOMAIN attempts[s] = {}
    OBVIOUS
  <2>2. \A x : x \in Events <=> \E s \in Listed : x \in {s} \X DOMAIN attempts[s]
    BY DEF Events
  <2>3. \A x : x \in EventsOf(attempts) <=> \E s \in Sequences : x \in {s} \X DOMAIN attempts[s]
    BY DEF EventsOf
  <2>4. \A s \in Sequences \ Listed : \A x : x \notin {s} \X DOMAIN attempts[s]
    BY <2>1 DEF Listed
  <2>5. Listed \subseteq Sequences
    BY DEF Listed
  <2> QED  BY <2>2, <2>3, <2>4, <2>5
<1>2. \A ways : Ending(ways) = WaysOf(attempts, ways)
  BY <1>1 DEF Ending, WaysOf
<1>3. {e \in Events : attempts[e[1]][e[2]].retry} = Repeated(attempts)
  BY <1>1 DEF Repeated
<1>4. {s \in Listed : Len(attempts[s]) >= 2} = Retried(attempts)
  BY DEF Listed, Retried
<1>5. {s \in Listed : Last(s).out \in Failures} = GivenUp(attempts)
  BY DEF Listed, GivenUp, GaveUp, Last
<1> QED  BY <1>1, <1>2, <1>3, <1>4, <1>5 DEF Recounted, Tallied

(* A finished run: its lines, their decisions and their histories.          *)
LEMMA FinishedFacts ==
  ASSUME Typed, Layout, Evidence, Tally, pc = "finished"
  PROVE  /\ Len(tape) \in Nat /\ Sequences = 1..Len(tape)
         /\ decided = DecisionsOf(tape, Len(tape)) /\ Cardinality(decided) = Len(tape)
         /\ tally = Tallied(attempts) /\ attempts \in [Sequences -> Histories]
         /\ \A n \in Sequences :
               /\ Cell(n) = <<tape[n].round, tape[n].index>>
               /\ Explained(tape, attempts, enabled, n)
               /\ Announced(attempts[n])
<1>1. Len(tape) = Agents * Rounds /\ Len(tape) \in Nat /\ Agents * Rounds = Rounds * Agents
  BY TapeAssumption, Numbers DEF Layout, Stopped, Typed, TypeOK
<1>2. Sequences = 1..Len(tape)
  BY <1>1 DEF Sequences
<1>3. /\ decided = DecisionsOf(tape, Len(tape)) /\ tally = Tallied(attempts)
      /\ \A n \in Sequences : Announced(attempts[n])
  BY DEF Tally, Parsed
<1>4. Cardinality(decided) = Len(tape)
  <2> PICK N \in Nat : N = Len(tape)
    BY <1>1
  <2> DEFINE T == 1..N
  <2>1. T \in SUBSET (1..N) /\ Cardinality(T) = N
    BY RangeFinite
  <2> HIDE DEF T
  <2>2. Cardinality({DecisionOf(tape, n) : n \in T}) = N
    BY <2>1, CountDecisions
  <2> QED  BY <1>3, <2>2 DEF DecisionsOf, T
<1>5. \A n \in Sequences : Cell(n) = <<tape[n].round, tape[n].index>>
  <2> SUFFICES ASSUME NEW n \in Sequences PROVE Cell(n) = <<tape[n].round, tape[n].index>>
    OBVIOUS
  <2>1. n \in Nat \ {0} /\ Placed(n)
    BY <1>1, <1>2 DEF Layout, Stopped
  <2> QED  BY <2>1, CellOfLine
<1>6. \A n \in Sequences : Explained(tape, attempts, enabled, n)
  BY <1>2 DEF Evidence, Stopped
<1> QED  BY <1>1, <1>2, <1>3, <1>4, <1>5, <1>6 DEF Typed, TypeOK

(* One complete history: it is well formed, and the status read off its     *)
(* answer is that of its last attempt.                                      *)
LEMMA HistoryOfLine ==
  ASSUME NEW s \in Sequences, NEW answer,
         attempts \in [Sequences -> Histories], attempts[s] # <<>>,
         Explains(attempts[s], answer), Announced(attempts[s])
  PROVE  /\ WellFormed(s) /\ Last(s).out \in Outcomes
         /\ answer = IF Last(s).out \in Texts THEN Last(s).out ELSE Fallback[Last(s).out]
         /\ Terminal(answer) = "provider_exception_exhausted" <=> Last(s).out = "exception"
         /\ Terminal(answer) = "provider_parse_exhausted" <=> Last(s).out = "junk"
<1> DEFINE h == attempts[s]
           m == Len(h)
<1>1. h \in Seq(Entry)
  BY DEF Histories, Entry
<1>2. /\ m \in Nat \ {0} /\ \A n \in 1..m : h[n] \in Entry
      /\ Last(s) = h[m]
  BY <1>1 DEF Last
<1>3. /\ m <= Retries + 1 /\ \A n \in 1..m : h[n].retry <=> n < m
      /\ \A n \in 1..m : h[n].retry <=> h[n].out \notin Texts /\ n <= Retries
      /\ answer = IF h[m].out \in Texts THEN h[m].out ELSE Fallback[h[m].out]
  BY DEF Explains, Announced
<1>4. \A n \in 1..m : h[n].out \in Texts \union Failures
  BY <1>2 DEF Entry, Outcomes, Failures
<1> HIDE DEF h, m
<1>5. WellFormed(s)
  <2>1. \A n \in 1..(m - 1) : h[n].retry /\ h[n].out \in Failures
    BY <1>2, <1>3, <1>4
  <2>2. ~h[m].retry
    BY <1>2, <1>3
  <2>3. h[m].out \in Failures => m = Retries + 1
    <3>1. h[m].out \in Failures => h[m].out \notin Texts
      BY EvidenceAssumption
    <3> QED  BY <1>2, <1>3, <2>2, <3>1, Numbers
  <2> QED  BY <1>2, <2>1, <2>2, <2>3 DEF WellFormed, h, m
<1>6. h[m].out \in Texts \union Failures
  BY <1>2, <1>4
<1>7. CASE h[m].out \in Texts
  <2>1. answer \in Texts /\ h[m].out \notin Failures
    BY <1>3, <1>7, EvidenceAssumption
  <2> QED  BY <1>2, <1>3, <1>5, <1>7, <2>1 DEF Terminal, StrictlyValid, Failures, Outcomes
<1>8. CASE h[m].out \in Failures
  <2>1. h[m].out \notin Texts /\ answer = Fallback[h[m].out]
    BY <1>3, <1>8, EvidenceAssumption
  <2>2. Fallback[h[m].out] \notin Texts
    BY <1>8, EvidenceAssumption
  <2>3. Terminal(answer) = Marked(answer)
    BY <2>1, <2>2 DEF Terminal, StrictlyValid
  <2>4. CASE h[m].out = "exception"
    BY <1>2, <1>3, <1>5, <2>1, <2>3, <2>4 DEF Marked, Fallback, Outcomes
  <2>5. CASE h[m].out = "junk"
    BY <1>2, <1>3, <1>5, <2>1, <2>3, <2>5 DEF Marked, Fallback, Outcomes
  <2> QED  BY <1>8, <2>4, <2>5 DEF Failures
<1> QED  BY <1>6, <1>7, <1>8

(* Decisions of one status are the lines whose history ends in one way.     *)
LEMMA StatusesClose ==
  ASSUME Typed, Layout, Evidence, Tally, pc = "finished", Listed = Sequences,
         NEW status \in {"valid_decision", "provider_exception_exhausted",
                         "provider_parse_exhausted"},
         NEW out, \A s \in Sequences : Terminal(tape[s].answer) = status <=> Last(s).out = out
  PROVE  Health[status] = Cardinality({s \in Listed : Last(s).out = out})
<1> PICK N \in Nat : /\ N = Len(tape) /\ Sequences = 1..N
                     /\ decided = {DecisionOf(tape, n) : n \in 1..N}
  BY FinishedFacts DEF DecisionsOf
<1> DEFINE T == {s \in 1..N : Last(s).out = out}
           D == {d \in decided : Terminal(d.answer) = status}
<1>1. T \in SUBSET (1..N) /\ T = {s \in Listed : Last(s).out = out}
  OBVIOUS
<1>2. D = {DecisionOf(tape, n) : n \in T}
  <2>1. \A n : DecisionOf(tape, n).answer = tape[n].answer
    BY DEF DecisionOf
  <2>2. \A n \in 1..N : Terminal(DecisionOf(tape, n).answer) = status <=> n \in T
    BY <2>1
  <2> HIDE DEF T
  <2>3. \A d \in D : \E n \in T : d = DecisionOf(tape, n)
    BY <2>2
  <2>4. \A n \in T : DecisionOf(tape, n) \in D
    BY <1>1, <2>2
  <2> QED  BY <2>3, <2>4
<1>3. Health[status] = Cardinality(D)
  BY DEF Health
<1> HIDE DEF T, D
<1>4. Cardinality({DecisionOf(tape, n) : n \in T}) = Cardinality(T)
  <2>1. T \in SUBSET (1..N)
    BY <1>1
  <2> QED  BY <2>1, CountDecisions
<1> QED  BY <1>1, <1>2, <1>3, <1>4

(* When each line has a history of its own, all the evidence closes.        *)
LEMMA ListedCloses ==
  ASSUME Typed, Layout, Evidence, Tally, pc = "finished", Listed = Sequences, NamesItsModel
  PROVE  EvidenceHolds
<1>1. /\ Len(tape) \in Nat /\ Sequences = 1..Len(tape)
      /\ decided = DecisionsOf(tape, Len(tape)) /\ Cardinality(decided) = Len(tape)
      /\ tally = Tallied(attempts) /\ attempts \in [Sequences -> Histories]
      /\ \A n \in Sequences :
            /\ Cell(n) = <<tape[n].round, tape[n].index>>
            /\ Explained(tape, attempts, enabled, n)
            /\ Announced(attempts[n])
  BY FinishedFacts
<1>2. \A s \in Sequences : attempts[s] # <<>> /\ Explains(attempts[s], tape[s].answer)
  BY <1>1 DEF Explained, Listed
<1>3. \A s \in Sequences :
        /\ WellFormed(s) /\ Last(s).out \in Outcomes
        /\ Terminal(tape[s].answer) = "provider_exception_exhausted" <=> Last(s).out = "exception"
        /\ Terminal(tape[s].answer) = "provider_parse_exhausted" <=> Last(s).out = "junk"
  BY <1>1, <1>2, HistoryOfLine
<1>4. tally = Recounted
  <2>1. \A s \in Listed : ~Last(s).retry
    BY <1>3 DEF WellFormed
  <2> QED  BY <1>1, <2>1, RecountedIsTallied
<1>5. Cardinality(Sequences) = Len(tape)
  BY <1>1, RangeFinite
<1>6. Closes
  <2>1. Listed = 1..Cardinality(Listed) /\ Cardinality(Listed) = Cardinality(decided)
    BY <1>1, <1>5
  <2>2. PICK N : N = 1..Len(tape)
    OBVIOUS
  <2>3. {Cell(s) : s \in Listed} = {<<tape[n].round, tape[n].index>> : n \in N}
    BY <1>1, <2>2
  <2>4. Decisions = {<<tape[n].round, tape[n].index>> : n \in N}
    <3>1. \A d : d \in decided <=> \E n \in N : d = DecisionOf(tape, n)
      BY <1>1, <2>2 DEF DecisionsOf
    <3>2. \A n : /\ DecisionOf(tape, n).round = tape[n].round
                 /\ DecisionOf(tape, n).agent = tape[n].index
      BY DEF DecisionOf
    <3>3. \A c : c \in Decisions <=> \E d \in decided : c = <<d.round, d.agent>>
      BY DEF Decisions
    <3> QED  BY <3>1, <3>2, <3>3
  <2> QED  BY <2>1, <2>3, <2>4 DEF Closes
<1>7. /\ Health["provider_exception_exhausted"]
           = Cardinality({s \in Listed : Last(s).out = "exception"})
      /\ Health["provider_parse_exhausted"]
           = Cardinality({s \in Listed : Last(s).out = "junk"})
  BY <1>3, StatusesClose
<1>8. Cardinality({s \in Listed : Last(s).out = "exception"})
        + Cardinality({s \in Listed : Last(s).out = "junk"}) = tally.exhausted
  <2> DEFINE A == {s \in Listed : Last(s).out = "exception"}
             B == {s \in Listed : Last(s).out = "junk"}
             C == {s \in Listed : Last(s).out \in Failures}
  <2>1. C = A \union B /\ A \intersect B = {}
    BY DEF Failures
  <2>2. IsFiniteSet(Listed)
    BY <1>1, EventsFinite
  <2>3. A \subseteq Listed /\ B \subseteq Listed
    OBVIOUS
  <2>4. tally.exhausted = Cardinality(C)
    BY <1>4 DEF Recounted
  <2> HIDE DEF A, B, C
  <2>5. IsFiniteSet(A) /\ IsFiniteSet(B)
    BY <2>2, <2>3, FS_Subset
  <2>6. Cardinality(A \union B) = Cardinality(A) + Cardinality(B) - Cardinality({})
    BY <2>1, <2>5, FS_Union
  <2>7. Cardinality(A) \in Nat /\ Cardinality(B) \in Nat /\ Cardinality({}) = 0
    BY <2>5, FS_CardinalityType, FS_EmptySet
  <2>8. Cardinality(A) + Cardinality(B) = tally.exhausted
    BY <2>1, <2>4, <2>6, <2>7
  <2> QED  BY <2>8 DEF A, B
<1>9. HealthCloses
  BY <1>7, <1>8 DEF HealthCloses
<1> QED  BY <1>3, <1>4, <1>6, <1>9 DEF EvidenceHolds

LEMMA TallyCloses == Typed /\ Layout /\ Evidence /\ Tally => EvidenceCloses
<1> SUFFICES ASSUME Typed, Layout, Evidence, Tally, pc = "finished"
             PROVE  /\ ~enabled /\ NamesItsModel => EvidenceHolds
                    /\ EvidenceHolds =>
                         \A d \in decided :
                            LET out == Last(d.line).out
                            IN  /\ Cell(d.line) = <<d.round, d.agent>>
                                /\ d.answer = IF out \in Texts THEN out ELSE Fallback[out]
  BY DEF EvidenceCloses
<1>1. /\ Len(tape) \in Nat /\ Sequences = 1..Len(tape)
      /\ decided = DecisionsOf(tape, Len(tape)) /\ Cardinality(decided) = Len(tape)
      /\ attempts \in [Sequences -> Histories]
      /\ \A n \in Sequences :
            /\ Cell(n) = <<tape[n].round, tape[n].index>>
            /\ Explained(tape, attempts, enabled, n)
            /\ Announced(attempts[n])
  BY FinishedFacts
<1>2. ASSUME ~enabled, NamesItsModel PROVE EvidenceHolds
  <2>1. Listed = Sequences
    BY <1>1, <1>2 DEF Explained, Listed
  <2> QED  BY <1>2, <2>1, ListedCloses
<1>3. ASSUME EvidenceHolds, NEW d \in decided
      PROVE  /\ Cell(d.line) = <<d.round, d.agent>>
             /\ d.answer = IF Last(d.line).out \in Texts THEN Last(d.line).out
                           ELSE Fallback[Last(d.line).out]
  <2>1. Listed = Sequences
    BY <1>1, <1>3 DEF EvidenceHolds, Closes
  <2>2. PICK n \in Sequences : d = DecisionOf(tape, n)
    BY <1>1 DEF DecisionsOf
  <2>3. /\ d.line = n /\ d.round = tape[n].round /\ d.agent = tape[n].index
        /\ d.answer = tape[n].answer
    BY <2>2 DEF DecisionOf
  <2>4. attempts[n] # <<>> /\ Explains(attempts[n], tape[n].answer) /\ Announced(attempts[n])
    BY <1>1, <2>1 DEF Explained, Listed
  <2>5. tape[n].answer = IF Last(n).out \in Texts THEN Last(n).out ELSE Fallback[Last(n).out]
    BY <1>1, <2>4, HistoryOfLine
  <2> QED  BY <1>1, <2>3, <2>5
<1> QED  BY <1>2, <1>3

(* A step of the recorder that keeps a count is a step of the recorder. *)
LEMMA EvidenceStep == [EvidenceNext]_evidenceVars => [Next]_vars
  BY DEF EvidenceNext, evidenceVars, Next, Observes

(* For any number of agents, rounds and retries: when a run without the     *)
(* cache ends by itself and has heard from its model, the analysis finds    *)
(* its counters, its retry histories and the statuses of its decisions in   *)
(* agreement; and whenever it does, each decision was parsed from what its  *)
(* own request ended in (_validated_application_attempt_evidence).          *)
THEOREM RetryEvidenceCloses == EvidenceSpec => []EvidenceCloses
<1> DEFINE Whole == ReplayInv /\ Layout /\ Filed /\ Evidence /\ Tally
<1>1. EvidenceInit => Whole
  <2>1. EvidenceInit => Init
    BY DEF EvidenceInit
  <2> QED  BY <2>1, InitReplay, InitLayout, InitFiled, InitEvidence, InitTally
<1>2. ReplayInv => Typed
  BY DEF ReplayInv
<1>3. Whole /\ [EvidenceNext]_evidenceVars => Whole'
  BY <1>2, EvidenceStep, NextReplays, NextLayout, NextFiled, NextEvidence, NextTally
<1>4. Whole => EvidenceCloses
  BY <1>2, TallyCloses
<1> QED
  BY <1>1, <1>3, <1>4, PTL DEF EvidenceSpec

=============================================================================
