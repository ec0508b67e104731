---------------------- MODULE CodexQualificationProofs ----------------------
(***************************************************************************)
(* Two theorems about CodexQualification, for every number of cases and of *)
(* disturbances: the first failed turn is the last one, and the cases of a *)
(* run with a verdict add up to its plan.                                  *)
(***************************************************************************)
EXTENDS CodexQualification, TLAPS

-----------------------------------------------------------------------------
(* The inductive invariant *)

Calls == [case : Nat, status : {"active", "finished", "failed"}]

(* The points of a run at which a provider exists, those of a turn under     *)
(* way, and those at which the next case is still to be asked.               *)
Serving == {"case", "prepare", "launch", "started", "wait", "join", "respond",
            "complete", "failed"}
InTurn == {"launch", "started", "wait", "join"}
Between == {"case", "respond", "complete"}

HistoryTypes ==
    /\ history \in Seq(Calls) /\ case \in Nat /\ probe \in Nat
    /\ kind \in {"codex_exec", "mock"}

(* A provider is built only after the last stage, and a mock has no turns.   *)
Probed ==
    /\ kind = "codex_exec" /\ pc \in Serving => probe = Len(Stages)
    /\ kind = "mock" => history = <<>> /\ pc \notin InTurn
    /\ pc \in {"guard", "probe"} => history = <<>>
    /\ history # <<>> => probe = Len(Stages)

(* All earlier turns are finished ones of earlier cases.                     *)
Ordered ==
    \A i, j \in DOMAIN history : i < j =>
        history[i].status = "finished" /\ history[i].case < history[j].case

(* What the history ends with at each point.                                 *)
EndsWith ==
    /\ pc \in Between => \A i \in DOMAIN history :
          history[i].status = "finished" /\ history[i].case <= case
    /\ pc = "prepare" => \A i \in DOMAIN history :
          history[i].status = "finished" /\ history[i].case < case
    /\ pc \in InTurn => Len(history) > 0 /\ history[Len(history)].case <= case

(* A live child has a process that waits for it, or one that died.           *)
Watched == child = "running" /\ pc # "killed" => pc \in {"started", "wait"}

FinalInv == HistoryTypes /\ Probed /\ Ordered /\ EndsWith /\ Watched

-----------------------------------------------------------------------------
(* Settling the last call changes nothing but its status.                    *)
LEMMA SettledHistory ==
    ASSUME NEW h \in Seq(Calls), Len(h) > 0, NEW s \in {"finished", "failed"}
    PROVE  LET g == [h EXCEPT ![Len(h)].status = s]
           IN  /\ g \in Seq(Calls) /\ Len(g) = Len(h)
               /\ \A i \in DOMAIN h : g[i].case = h[i].case
               /\ \A i \in DOMAIN h : i # Len(h) => g[i] = h[i]
               /\ g[Len(h)].status = s
<1> DEFINE r == [h[Len(h)] EXCEPT !.status = s]
           g == [h EXCEPT ![Len(h)] = r]
<1>1. Len(h) \in DOMAIN h /\ DOMAIN h = 1..Len(h) /\ h[Len(h)] \in Calls
  OBVIOUS
<1>2. r \in Calls /\ r.case = h[Len(h)].case /\ r.status = s
  BY <1>1 DEF Calls
<1> HIDE DEF r
<1>3. g \in Seq(Calls) /\ Len(g) = Len(h) /\ g[Len(h)] = r
      /\ \A i \in DOMAIN h : i # Len(h) => g[i] = h[i]
  BY <1>1, <1>2
<1>4. \A i \in DOMAIN h : g[i].case = h[i].case
  BY <1>1, <1>2, <1>3
<1> QED
  BY <1>2, <1>3, <1>4 DEF r

LEMMA CasesAreNumbers == HistoryTypes => \A i \in DOMAIN history : history[i].case \in Nat
<1> SUFFICES ASSUME HistoryTypes, NEW i \in DOMAIN history PROVE history[i].case \in Nat
  OBVIOUS
<1>1. history[i] \in Calls
  BY DEF HistoryTypes
<1> QED
  BY <1>1 DEF Calls

LEMMA InitFinal == Init => FinalInv
  BY DEF Init, FinalInv, HistoryTypes, Probed, Ordered, EndsWith, Watched, Serving, InTurn,
         Between, Calls

(* A call that is settled was the last one, and stays it.                    *)
LEMMA SettleFinal ==
    ASSUME FinalInv, pc \in InTurn, NEW s \in {"finished", "failed"}, NEW next,
           Settle(s, next)
    PROVE  /\ history' \in Seq(Calls) /\ Len(history') > 0 /\ Ordered' /\ pc' = next
           /\ kind = "codex_exec" /\ probe = Len(Stages)
           /\ s = "finished" => \A i \in DOMAIN history' :
                 history'[i].status = "finished" /\ history'[i].case <= case
<1>1. /\ history \in Seq(Calls) /\ Len(history) > 0 /\ history[Len(history)].case <= case
      /\ case \in Nat /\ Ordered
  BY DEF FinalInv, HistoryTypes, EndsWith
<1>2. history' = [history EXCEPT ![Len(history)].status = s] /\ pc' = next
  BY DEF Settle
<1>3. /\ history' \in Seq(Calls) /\ Len(history') = Len(history)
      /\ \A i \in DOMAIN history : history'[i].case = history[i].case
      /\ \A i \in DOMAIN history : i # Len(history) => history'[i] = history[i]
      /\ history'[Len(history)].status = s
  BY <1>1, <1>2, SettledHistory
<1>4. DOMAIN history = 1..Len(history) /\ DOMAIN history' = 1..Len(history)
  BY <1>1, <1>3
<1>5. Ordered'
  BY <1>1, <1>3, <1>4 DEF Ordered
<1>6. \A i \in DOMAIN history : history[i].case \in Nat
  BY CasesAreNumbers DEF FinalInv
<1>7. \A i \in DOMAIN history : i # Len(history) =>
         history[i].status = "finished" /\ history[i].case <= case
  BY <1>1, <1>4, <1>6 DEF Ordered
<1>8. s = "finished" => \A i \in DOMAIN history' :
         history'[i].status = "finished" /\ history'[i].case <= case
  BY <1>1, <1>3, <1>4, <1>7
<1>9. kind = "codex_exec" /\ probe = Len(Stages)
  BY DEF FinalInv, HistoryTypes, Probed, InTurn, Serving
<1> QED
  BY <1>1, <1>2, <1>3, <1>5, <1>8, <1>9

(* The steps that leave the history alone.                                   *)
LEMMA OtherSteps ==
    ASSUME FinalInv, UNCHANGED history,
           \/ Refuse \/ Guard \/ ProbeStage \/ Diagnose \/ Construct \/ BeginCase
           \/ MockCompletes \/ Wait \/ Timeout \/ Reap \/ Respond \/ CompleteCase
           \/ CaseFailed \/ Summarise \/ Export \/ Finish \/ Fail \/ ChildExits
           \/ Read \/ Kill \/ UNCHANGED vars
    PROVE  FinalInv'
<1>a. \A i \in DOMAIN history : history[i].case \in Nat
  BY CasesAreNumbers DEF FinalInv
<1> USE DEF FinalInv, HistoryTypes, Probed, Ordered, EndsWith, Watched, Serving, InTurn, Between
<1>1. CASE Refuse \/ Guard
  BY <1>1 DEF Refuse, Guard, Written, process, provider
<1>2. CASE ProbeStage \/ Diagnose
  <2>1. /\ pc \in {"probe", "diagnose"}
        /\ pc' \in {"probe", "diagnose", "fail"} /\ probe' \in {probe, probe + 1}
        /\ pc' = "probe" => pc = "probe"
        /\ probe' # probe => pc = "probe"
        /\ UNCHANGED <<kind, case, child>>
    BY <1>2, Zenon DEF ProbeStage, Diagnose, process
  <2> QED
    BY <2>1
<1>11. CASE Construct
  BY <1>11 DEF Construct, process, provider
<1>3. CASE BeginCase
  BY <1>3, <1>a DEF BeginCase, Written, process, provider
<1>4. CASE MockCompletes
  BY <1>4 DEF MockCompletes, process, provider
<1>5. CASE Wait \/ Timeout \/ Reap
  BY <1>5 DEF Wait, Timeout, Reap, process, provider
<1>6. CASE Respond \/ CompleteCase
  BY <1>6 DEF Respond, CompleteCase, Written, process, provider
<1>7. CASE CaseFailed
  BY <1>7 DEF CaseFailed, Written, process, provider
<1>8. CASE Summarise \/ Export \/ Finish \/ Fail
  BY <1>8 DEF Summarise, Export, Finish, Fail, Written, process, provider
<1>9. CASE ChildExits \/ Read \/ Kill
  BY <1>9 DEF ChildExits, Read, Kill, process, provider
<1>10. CASE UNCHANGED vars
  BY <1>10 DEF vars, process, provider
<1> QED
  BY <1>1, <1>2, <1>3, <1>4, <1>5, <1>6, <1>7, <1>8, <1>9, <1>10, <1>11

(* A prompt is sent after finished turns of earlier cases only.              *)
LEMMA PrepareFinal == FinalInv /\ Prepare => FinalInv'
<1> SUFFICES ASSUME FinalInv, Prepare PROVE FinalInv'
  OBVIOUS
<1> DEFINE call == [case |-> case, status |-> "active"]
<1>1. /\ pc = "prepare" /\ kind = "codex_exec" /\ probe = Len(Stages)
      /\ history \in Seq(Calls) /\ case \in Nat /\ probe \in Nat /\ Ordered /\ Watched
      /\ \A i \in DOMAIN history : history[i].status = "finished" /\ history[i].case < case
      /\ UNCHANGED <<kind, probe, case, child>>
  BY DEF Prepare, FinalInv, HistoryTypes, Probed, EndsWith, Serving, process
<1>2. CASE history' = Append(history, call) /\ pc' = "launch"
  <2>1. call \in Calls
    BY <1>1 DEF Calls
  <2>2. /\ history' \in Seq(Calls) /\ Len(history') = Len(history) + 1
        /\ DOMAIN history' = 1..(Len(history) + 1) /\ DOMAIN history = 1..Len(history)
        /\ \A i \in DOMAIN history : history'[i] = history[i]
        /\ history'[Len(history) + 1] = call
    BY <1>1, <1>2, <2>1
  <2> HIDE DEF call
  <2>3. call.case = case
    BY DEF call
  <2>4. Ordered'
    <3> SUFFICES ASSUME NEW i \in DOMAIN history', NEW j \in DOMAIN history', i < j
                 PROVE  history'[i].status = "finished"
                          /\ history'[i].case < history'[j].case
      BY DEF Ordered
    <3>1. i \in DOMAIN history
      BY <1>1, <2>2
    <3>2. CASE j \in DOMAIN history
      BY <1>1, <2>2, <3>1, <3>2 DEF Ordered
    <3>3. CASE j = Len(history) + 1
      BY <1>1, <2>2, <2>3, <3>1, <3>3
    <3> QED
      BY <1>1, <2>2, <3>2, <3>3
  <2>5. Len(history') > 0 /\ history'[Len(history')].case <= case
    BY <1>1, <2>2, <2>3
  <2> QED
    BY <1>1, <1>2, <2>2, <2>4, <2>5
    DEF FinalInv, HistoryTypes, Probed, EndsWith, Watched, Serving, InTurn, Between
<1>3. CASE history' = history /\ pc' = "failed"
  BY <1>1, <1>3
  DEF FinalInv, HistoryTypes, Probed, Ordered, EndsWith, Watched, Serving, InTurn, Between
<1> QED
  BY <1>2, <1>3 DEF Prepare, provider

LEMMA LaunchFinal == FinalInv /\ Launch => FinalInv'
<1> SUFFICES ASSUME FinalInv, Launch PROVE FinalInv'
  OBVIOUS
<1>0. pc = "launch" /\ UNCHANGED <<kind, probe, case>> /\ Watched /\ HistoryTypes
  BY DEF Launch, FinalInv
<1>1. CASE pc' = "started" /\ UNCHANGED provider
  BY <1>0, <1>1
  DEF FinalInv, HistoryTypes, Probed, Ordered, EndsWith, Watched, Serving, InTurn, Between, provider
<1>2. CASE Settle("failed", "failed") /\ UNCHANGED process
  <2>1. /\ history' \in Seq(Calls) /\ Len(history') > 0 /\ Ordered' /\ pc' = "failed"
        /\ kind = "codex_exec" /\ probe = Len(Stages)
    BY <1>0, <1>2, SettleFinal DEF InTurn
  <2> QED
    BY <1>0, <1>2, <2>1
    DEF FinalInv, HistoryTypes, Probed, EndsWith, Watched, Serving, InTurn, Between, process
<1> QED
  BY <1>1, <1>2 DEF Launch

(* After a failed turn the run fails; only a finished one goes on.           *)
LEMMA JudgeFinal == FinalInv /\ Judge => FinalInv'
<1> SUFFICES ASSUME FinalInv, Judge PROVE FinalInv'
  OBVIOUS
<1>0. /\ pc = "join" /\ UNCHANGED <<kind, probe, case>> /\ Watched /\ HistoryTypes
      /\ child' # "running"
  BY DEF Judge, FinalInv, Watched
<1>1. CASE Settle("finished", "respond")
  <2>1. /\ history' \in Seq(Calls) /\ Len(history') > 0 /\ Ordered' /\ pc' = "respond"
        /\ kind = "codex_exec" /\ probe = Len(Stages)
        /\ \A i \in DOMAIN history' :
              history'[i].status = "finished" /\ history'[i].case <= case
    BY <1>0, <1>1, SettleFinal DEF InTurn
  <2> QED
    BY <1>0, <2>1
    DEF FinalInv, HistoryTypes, Probed, EndsWith, Watched, Serving, InTurn, Between
<1>2. CASE Settle("failed", "failed")
  <2>1. /\ history' \in Seq(Calls) /\ Len(history') > 0 /\ Ordered' /\ pc' = "failed"
        /\ kind = "codex_exec" /\ probe = Len(Stages)
    BY <1>0, <1>2, SettleFinal DEF InTurn
  <2> QED
    BY <1>0, <2>1
    DEF FinalInv, HistoryTypes, Probed, EndsWith, Watched, Serving, InTurn, Between
<1> QED
  BY <1>1, <1>2 DEF Judge

LEMMA InterruptFinal == FinalInv /\ Interrupt => FinalInv'
<1> SUFFICES ASSUME FinalInv, Interrupt PROVE FinalInv'
  OBVIOUS
<1>0. /\ UNCHANGED <<kind, probe, case>> /\ Watched /\ HistoryTypes /\ pc # "killed"
      /\ child' # "running"
  BY DEF Interrupt, FinalInv, Watched
<1>1. CASE pc \in InTurn
  <2>1. /\ history' \in Seq(Calls) /\ Len(history') > 0 /\ Ordered' /\ pc' = "fail"
        /\ kind = "codex_exec" /\ probe = Len(Stages)
    BY <1>1, SettleFinal DEF Interrupt, InTurn
  <2> QED
    BY <1>0, <2>1
    DEF FinalInv, HistoryTypes, Probed, EndsWith, Watched, Serving, InTurn, Between
<1>2. CASE pc \notin InTurn
  <2>1. pc' = "fail" /\ history' = history
    BY <1>2 DEF Interrupt, InTurn, provider
  <2> QED
    BY <1>0, <2>1
    DEF FinalInv, HistoryTypes, Probed, Ordered, EndsWith, Watched, Serving, InTurn, Between
<1> QED
  BY <1>1, <1>2

LEMMA StepFinal == FinalInv /\ [Next]_vars => FinalInv'
<1> SUFFICES ASSUME FinalInv, [Next]_vars PROVE FinalInv'
  OBVIOUS
<1>1. CASE \/ Refuse \/ Guard \/ ProbeStage \/ Diagnose \/ Construct \/ BeginCase
           \/ MockCompletes \/ Wait \/ Timeout \/ Reap \/ Respond \/ CompleteCase
           \/ CaseFailed \/ Summarise \/ Export \/ Finish \/ Fail \/ ChildExits
           \/ Read \/ Kill \/ UNCHANGED vars
  <2>1. UNCHANGED history
    BY <1>1
    DEF Refuse, Guard, ProbeStage, Diagnose, Construct, BeginCase, MockCompletes, Wait,
        Timeout, Reap, Respond, CompleteCase, CaseFailed, Summarise, Export, Finish, Fail,
        ChildExits, Read, Kill, vars, provider
  <2> QED
    BY <1>1, <2>1, OtherSteps
<1>2. CASE Prepare \/ Launch \/ Judge \/ Interrupt
  BY <1>2, PrepareFinal, LaunchFinal, JudgeFinal, InterruptFinal
<1> QED
  BY <1>1, <1>2 DEF Next, Run, Terminated

(* Nothing is started after the first failed turn, the prompt of a case is   *)
(* sent at most once and only after every stage of the probe, and a run with *)
(* a verdict leaves no turn behind it.                                       *)
THEOREM TurnsStopAtTheFirstFailure == Spec => []FailureIsFinal
<1>1. FinalInv => FailureIsFinal
  BY DEF FinalInv, Ordered, Probed, Watched, FailureIsFinal
<1> QED
  BY <1>1, InitFinal, StepFinal, PTL DEF Spec

-----------------------------------------------------------------------------
(***************************************************************************)
(* The accounts of the cases                                               *)
(***************************************************************************)

CallCounts == [attempted : Nat, succeeded : Nat, failed : Nat]

Manifest ==
    [status : {"running", "finished", "failed"}, requests : Nat, responses : Nat,
     cases : [attempted : Nat, completed : Nat, failed : Nat, skipped : Nat],
     calls : CallCounts, history : Seq(Calls)]

Rows == [case : Nat, of : Nat, ok : BOOLEAN]

AccountTypes ==
    /\ mem \in Manifest /\ disk \in Manifest /\ calls \in CallCounts
    /\ rows \in Seq(Rows)
    /\ turn \in Turns /\ killed \in SUBSET {"limit", "timeout"}

(* The points at which no case has begun, at which the last one is open, at  *)
(* which its request has no response yet, and at which all are done.         *)
Before == {"guard", "probe", "diagnose"}
Open == {"prepare", "launch", "started", "wait", "join", "respond", "complete", "failed"}
Asked == {"prepare", "launch", "started", "wait", "join", "respond"}
Done == {"export", "finish"}

Closed(m) == m.cases.completed + m.cases.failed

(* A dry run has asked nothing; any other run that is done has asked all.    *)
AllAsked(m) == case = 0 \/ (Closed(m) = Cases /\ m.cases.skipped = 0)

(* What the manifest in memory says at each point.  A case that has begun    *)
(* leaves the skipped ones; when a failure is written, the open one returns  *)
(* to them.                                                                  *)
CasesCounted(m) ==
    /\ m.cases.attempted = case /\ case <= Cases
    /\ Closed(m) = case \/ Closed(m) + 1 = case
    /\ m.cases.skipped + case = Cases \/ m.cases.skipped + Closed(m) = Cases
    /\ m.cases.completed <= m.responses /\ m.responses <= m.requests

CasesAt(m) ==
    /\ pc \in Before => case = 0
    /\ pc \in Before \union Serving => m.cases.skipped + case = Cases
    /\ pc \in Before \union Done \union {"case"} => Closed(m) = case
    /\ pc \in Open => Closed(m) + 1 = case
    /\ pc \in Asked => m.responses < m.requests
    /\ pc = "complete" => m.cases.completed < m.responses
    /\ pc \in Done => AllAsked(m)

(* Only the two last writes give a verdict, and nothing follows them.        *)
VerdictIsLast ==
    /\ pc # "over" => mem.status = "running" /\ disk.status = "running"
    /\ mem.status = "finished" => AllAsked(mem)
    /\ disk.status # "running" => disk = mem

(* The call under way is the current case's, and so is the metadata that its *)
(* row takes over; its answer is taken only from a turn that went well.      *)
OwnRows ==
    /\ pc \in InTurn \union {"respond"} /\ kind = "codex_exec" =>
          Len(history) > 0 /\ history[Len(history)].case = case
    /\ \A i \in DOMAIN rows : rows[i].ok => rows[i].of = rows[i].case
    /\ pc = "respond" /\ kind = "codex_exec" =>
          /\ turn.exit = "zero" /\ turn.stream = "final" /\ turn.file = "same"
          /\ killed = {}

CaseInv ==
    /\ FinalInv /\ AccountTypes
    /\ CasesCounted(mem) /\ CasesAt(mem) /\ VerdictIsLast /\ OwnRows

(* A write leaves the old manifest or the new one.                           *)
LEMMA WrittenEither ==
    ASSUME NEW m, NEW ok, NEW bad, Written(m, ok, bad)
    PROVE  mem' = m /\ disk' \in {disk, m} /\ pc' \in {ok, bad}
  BY DEF Written

(* The updates of a manifest, field by field.                                *)
LEMMA SyncedFacts ==
    ASSUME AccountTypes, history \in Seq(Calls), NEW m \in Manifest
    PROVE  /\ Synced(m) \in Manifest /\ Synced(m).cases = m.cases
           /\ Synced(m).requests = m.requests /\ Synced(m).responses = m.responses
           /\ Synced(m).status = m.status
<1>1. CASE kind = "codex_exec"
  <2>1. Synced(m) = [m EXCEPT !.calls = calls, !.history = history]
    BY <1>1 DEF Synced
  <2> QED
    BY <2>1 DEF Manifest, AccountTypes
<1>2. CASE kind # "codex_exec"
  BY <1>2 DEF Synced
<1> QED
  BY <1>1, <1>2

LEMMA StatusFacts ==
    ASSUME NEW m \in Manifest, NEW s \in {"finished", "failed"}
    PROVE  LET n == [m EXCEPT !.status = s]
           IN  /\ n \in Manifest /\ n.cases = m.cases /\ n.status = s
               /\ n.requests = m.requests /\ n.responses = m.responses
  BY DEF Manifest

LEMMA SkippingFacts ==
    ASSUME NEW m \in Manifest, Closed(m) <= Cases
    PROVE  LET n == Skipping(m)
           IN  /\ n \in Manifest /\ n.status = m.status
               /\ n.requests = m.requests /\ n.responses = m.responses
               /\ n.cases.attempted = m.cases.attempted
               /\ n.cases.completed = m.cases.completed
               /\ n.cases.failed = m.cases.failed
               /\ n.cases.skipped + Closed(m) = Cases
<1>1. /\ m.cases.completed \in Nat /\ m.cases.failed \in Nat /\ Cases \in Nat
      /\ m.cases.completed + m.cases.failed <= Cases
  BY QualificationAssumption DEF Manifest, Closed
<1>2. PICK k \in Nat : k = Cases - (m.cases.completed + m.cases.failed)
  BY <1>1
<1>3. Minus(Cases, m.cases.completed + m.cases.failed) = k
      /\ k + (m.cases.completed + m.cases.failed) = Cases
  BY <1>1, <1>2 DEF Minus
<1>4. Skipping(m) = [m EXCEPT !.cases.skipped = k]
  BY <1>3 DEF Skipping
<1> QED
  BY <1>3, <1>4 DEF Manifest, Closed

(* What a case's steps do to the accounts in memory.                         *)
CaseCounts == [attempted : Nat, completed : Nat, failed : Nat, skipped : Nat]

LEMMA CasesUpdate ==
    ASSUME NEW m \in Manifest, NEW c \in CaseCounts
    PROVE  LET n == [m EXCEPT !.cases = c]
           IN  /\ n \in Manifest /\ n.status = m.status /\ n.cases = c
               /\ n.requests = m.requests /\ n.responses = m.responses
  BY DEF Manifest, CaseCounts

LEMMA RequestsUpdate ==
    ASSUME NEW m \in Manifest, NEW q \in Nat
    PROVE  LET n == [m EXCEPT !.requests = q]
           IN  /\ n \in Manifest /\ n.status = m.status /\ n.cases = m.cases
               /\ n.requests = q /\ n.responses = m.responses
  BY DEF Manifest

LEMMA BegunCases ==
    ASSUME NEW c \in CaseCounts, NEW k \in Nat
    PROVE  LET d == [c EXCEPT !.attempted = @ + 1, !.skipped = k]
           IN  /\ d \in CaseCounts /\ d.attempted = c.attempted + 1
               /\ d.completed = c.completed /\ d.failed = c.failed /\ d.skipped = k
<1> DEFINE a == [c EXCEPT !.attempted = @ + 1]
<1>1. /\ a \in CaseCounts /\ a.attempted = c.attempted + 1
      /\ a.completed = c.completed /\ a.failed = c.failed
  BY DEF CaseCounts
<1>2. [c EXCEPT !.attempted = @ + 1, !.skipped = k] = [a EXCEPT !.skipped = k]
  OBVIOUS
<1> HIDE DEF a
<1>3. LET d == [a EXCEPT !.skipped = k]
      IN  /\ d \in CaseCounts /\ d.attempted = a.attempted
          /\ d.completed = a.completed /\ d.failed = a.failed /\ d.skipped = k
  BY <1>1 DEF CaseCounts
<1> QED
  BY <1>1, <1>2, <1>3

LEMMA CountFacts ==
    ASSUME NEW m \in Manifest
    PROVE  /\ LET n == [m EXCEPT !.cases.completed = @ + 1]
              IN  /\ n \in Manifest /\ n.status = m.status
                  /\ n.requests = m.requests /\ n.responses = m.responses
                  /\ n.cases = [m.cases EXCEPT !.completed = @ + 1]
           /\ LET n == [m EXCEPT !.cases.failed = @ + 1]
              IN  /\ n \in Manifest /\ n.status = m.status
                  /\ n.requests = m.requests /\ n.responses = m.responses
                  /\ n.cases = [m.cases EXCEPT !.failed = @ + 1]
           /\ LET n == [m EXCEPT !.responses = @ + 1]
              IN  /\ n \in Manifest /\ n.status = m.status
                  /\ n.requests = m.requests /\ n.responses = m.responses + 1
                  /\ n.cases = m.cases
<1>0. m.cases \in CaseCounts
  BY DEF Manifest, CaseCounts
<1>1. [m.cases EXCEPT !.completed = @ + 1] \in CaseCounts
      /\ [m.cases EXCEPT !.failed = @ + 1] \in CaseCounts
  BY <1>0 DEF CaseCounts
<1>2. [m EXCEPT !.cases.completed = @ + 1]
         = [m EXCEPT !.cases = [m.cases EXCEPT !.completed = @ + 1]]
      /\ [m EXCEPT !.cases.failed = @ + 1]
         = [m EXCEPT !.cases = [m.cases EXCEPT !.failed = @ + 1]]
  OBVIOUS
<1>3. LET n == [m EXCEPT !.responses = @ + 1]
      IN  /\ n \in Manifest /\ n.status = m.status
          /\ n.requests = m.requests /\ n.responses = m.responses + 1
          /\ n.cases = m.cases
  BY DEF Manifest
<1> QED
  BY <1>1, <1>2, <1>3, CasesUpdate

LEMMA BeginFacts ==
    ASSUME NEW m \in Manifest, m.cases.attempted < Cases
    PROVE  LET n == [m EXCEPT !.cases.attempted = @ + 1,
                              !.cases.skipped = Minus(Cases, m.cases.attempted + 1),
                              !.requests = @ + 1]
               e == [n EXCEPT !.requests = m.requests]
           IN  /\ n \in Manifest /\ e \in Manifest /\ n.status = m.status /\ e.cases = n.cases
               /\ n.requests = m.requests + 1 /\ n.responses = m.responses
               /\ e.requests = m.requests /\ e.responses = m.responses /\ e.status = m.status
               /\ n.cases.attempted = m.cases.attempted + 1
               /\ n.cases.completed = m.cases.completed
               /\ n.cases.failed = m.cases.failed
               /\ n.cases.skipped + (m.cases.attempted + 1) = Cases
<1>0. m.cases \in CaseCounts
  BY DEF Manifest, CaseCounts
<1>1. m.cases.attempted \in Nat /\ Cases \in Nat
  BY <1>0, QualificationAssumption DEF CaseCounts
<1>2. PICK k \in Nat : k = Cases - (m.cases.attempted + 1)
  BY <1>1
<1>3. Minus(Cases, m.cases.attempted + 1) = k /\ k + (m.cases.attempted + 1) = Cases
  BY <1>1, <1>2 DEF Minus
<1> DEFINE c == [m.cases EXCEPT !.attempted = @ + 1, !.skipped = k]
           a == [m EXCEPT !.cases = c]
           n == [a EXCEPT !.requests = @ + 1]
           e == [n EXCEPT !.requests = m.requests]
<1>4. /\ c \in CaseCounts /\ c.attempted = m.cases.attempted + 1
      /\ c.completed = m.cases.completed /\ c.failed = m.cases.failed /\ c.skipped = k
  BY <1>0, <1>2, BegunCases
<1> DEFINE d == [m.cases EXCEPT !.attempted = @ + 1]
           b == [m EXCEPT !.cases = d]
<1>5. [m EXCEPT !.cases.attempted = @ + 1,
                !.cases.skipped = Minus(Cases, m.cases.attempted + 1),
                !.requests = @ + 1] = n
  <2>1. b.cases = d
    BY DEF Manifest
  <2>2. [b EXCEPT !.cases = [b.cases EXCEPT !.skipped = k]] = [b EXCEPT !.cases = c]
    BY <2>1, Zenon
  <2>3. [b EXCEPT !.cases = c] = a
    <3> HIDE DEF c, d
    <3> QED
      BY DEF Manifest
  <2>4. [m EXCEPT !.cases.attempted = @ + 1,
                  !.cases.skipped = Minus(Cases, m.cases.attempted + 1),
                  !.requests = @ + 1]
        = [[b EXCEPT !.cases = [b.cases EXCEPT !.skipped = k]] EXCEPT !.requests = @ + 1]
    BY <1>3, Zenon
  <2> QED
    BY <2>2, <2>3, <2>4, Zenon
<1> HIDE DEF c
<1>6. /\ a \in Manifest /\ a.status = m.status /\ a.cases = c
      /\ a.requests = m.requests /\ a.responses = m.responses
  BY <1>4, CasesUpdate
<1> HIDE DEF a
<1>7. /\ n \in Manifest /\ n.status = m.status /\ n.cases = c
      /\ n.requests = m.requests + 1 /\ n.responses = m.responses
  <2>1. a.requests \in Nat
    BY <1>6 DEF Manifest
  <2> QED
    BY <1>6, <2>1, RequestsUpdate
<1> HIDE DEF n
<1>8. /\ e \in Manifest /\ e.status = m.status /\ e.cases = c
      /\ e.requests = m.requests /\ e.responses = m.responses
  <2>1. m.requests \in Nat
    BY DEF Manifest
  <2> QED
    BY <1>7, <2>1, RequestsUpdate
<1> QED
  BY <1>3, <1>4, <1>5, <1>7, <1>8

-----------------------------------------------------------------------------
LEMMA InitCases == Init => CaseInv
<1> SUFFICES ASSUME Init PROVE CaseInv
  OBVIOUS
<1>1. FinalInv
  BY InitFinal
<1>2. NoTurn \in Turns
  <2>1. [exit |-> "zero", stream |-> "final", file |-> "same", loud |-> FALSE,
         held |-> FALSE] \in Turns
    BY DEF Turns
  <2> QED
    BY <2>1 DEF NoTurn
<1>3. AccountTypes
  BY <1>2, QualificationAssumption
  DEF Init, AccountTypes, Manifest, CallCounts
<1> QED
  BY <1>1, <1>3, QualificationAssumption
  DEF Init, CaseInv, CasesCounted, CasesAt, VerdictIsLast, OwnRows, Before, Serving, Open,
      Asked, Done, Closed, InTurn

(* Launching, judging and interrupting leave a call of the current case.     *)
LEMMA SettleOwn ==
    ASSUME CaseInv, pc \in InTurn, NEW s \in {"finished", "failed"}, NEW next,
           Settle(s, next)
    PROVE  /\ Len(history') > 0 /\ history'[Len(history')].case = case
           /\ calls' \in CallCounts /\ pc' = next /\ kind = "codex_exec"
<1>1. /\ history \in Seq(Calls) /\ Len(history) > 0 /\ kind = "codex_exec"
      /\ history[Len(history)].case = case /\ calls \in CallCounts
  BY DEF CaseInv, FinalInv, HistoryTypes, EndsWith, Probed, InTurn, OwnRows, AccountTypes
<1>2. /\ history' = [history EXCEPT ![Len(history)].status = s] /\ pc' = next
      /\ \/ calls' = [calls EXCEPT !.succeeded = @ + 1]
         \/ calls' = [calls EXCEPT !.failed = @ + 1]
  BY DEF Settle
<1>3. Len(history') = Len(history) /\ history'[Len(history)].case = case
  BY <1>1, <1>2, SettledHistory
<1>4. calls' \in CallCounts
  BY <1>1, <1>2 DEF CallCounts
<1> QED
  BY <1>1, <1>2, <1>3, <1>4

LEMMA ProviderTypes ==
    ASSUME CaseInv, [Next]_vars
    PROVE  calls' \in CallCounts /\ turn' \in Turns /\ killed' \in SUBSET {"limit", "timeout"}
<1>1. AccountTypes
  BY DEF CaseInv
<1>2. calls' \in CallCounts
  <2>1. CASE UNCHANGED calls
    BY <1>1, <2>1 DEF AccountTypes
  <2>2. CASE Prepare
    BY <1>1, <2>2 DEF Prepare, AccountTypes, CallCounts, provider
  <2>3. CASE Launch \/ Judge \/ Interrupt
    <3>1. \/ UNCHANGED calls
          \/ pc \in InTurn /\ \E s \in {"finished", "failed"}, next \in {"respond", "failed", "fail"} :
                Settle(s, next)
      BY <2>3 DEF Launch, Judge, Interrupt, InTurn, provider
    <3> QED
      BY <2>1, <3>1, SettleOwn
  <2> QED
    BY <2>1, <2>2, <2>3
    DEF Next, Run, Refuse, Guard, ProbeStage, Diagnose, Construct, BeginCase,
        MockCompletes, Wait, Timeout, Reap, Respond, CompleteCase, CaseFailed,
        Summarise, Export, Finish, Fail, ChildExits, Read, Kill, Terminated, vars, provider
<1>3. turn' \in Turns /\ killed' \in SUBSET {"limit", "timeout"}
  <2>1. CASE Launch
    BY <1>1, <2>1 DEF Launch, AccountTypes, process
  <2>2. CASE Read
    BY <1>1, <2>2 DEF Read, AccountTypes
  <2>3. CASE Timeout
    BY <1>1, <2>3 DEF Timeout, AccountTypes
  <2>4. CASE UNCHANGED <<turn, killed>>
    BY <1>1, <2>4 DEF AccountTypes
  <2> QED
    BY <2>1, <2>2, <2>3, <2>4
    DEF Next, Run, Refuse, Guard, ProbeStage, Diagnose, Construct, BeginCase, Prepare,
        MockCompletes, Wait, Reap, Judge, Respond, CompleteCase, CaseFailed, Interrupt,
        Summarise, Export, Finish, Fail, ChildExits, Kill, Terminated, vars, process
<1> QED
  BY <1>2, <1>3

(* Where the steps lead that no manifest sees.                               *)
Follows ==
    \/ pc' = pc
    \/ pc' \in {"fail", "killed"} /\ pc # "over"
    \/ pc = "probe" /\ pc' \in {"diagnose", "case"}
    \/ pc = "prepare" /\ pc' \in {"respond", "failed", "launch"}
    \/ pc = "launch" /\ pc' \in {"started", "failed"}
    \/ pc = "started" /\ pc' = "wait"
    \/ pc = "wait" /\ pc' = "join"
    \/ pc = "join" /\ pc' \in {"respond", "failed"}
    \/ pc = "export" /\ pc' = "finish"

LEMMA UnseenCounts ==
    ASSUME CaseInv, Follows, UNCHANGED <<mem, disk, case>>
    PROVE  CasesCounted(mem)' /\ CasesAt(mem)' /\ VerdictIsLast'
<1>1. CasesCounted(mem) /\ CasesAt(mem) /\ VerdictIsLast /\ AccountTypes
  BY DEF CaseInv
<1>2. CasesCounted(mem)'
  BY <1>1 DEF CasesCounted, Closed
<1>3. CasesAt(mem)'
  BY <1>1 DEF CasesAt, Follows, Before, Serving, Done, Open, Asked, AllAsked, Closed
<1>4. VerdictIsLast'
  BY <1>1 DEF VerdictIsLast, Follows, AllAsked, Closed
<1> QED
  BY <1>2, <1>3, <1>4

(* A turn whose answer is taken ended by itself, with exit code 0, and said  *)
(* the same in its stream and its file.                                      *)
LEMMA VerdictIsSound ==
    ASSUME AccountTypes, NEW stream \in Seen, Verdict(stream) = "finished"
    PROVE  /\ turn.exit = "zero" /\ turn.stream = "final" /\ turn.file = "same"
           /\ killed = {}
<1>1. killed = {}
  BY DEF AccountTypes, Verdict
<1>2. turn.exit = "zero" /\ stream # "invalid" /\ stream # "nofinal" /\ turn.file = "same"
  BY DEF Verdict, ValidDecision
<1>3. stream = turn.stream
  BY <1>2 DEF Seen
<1>4. turn.stream \in {"final", "nofinal", "invalid"}
  BY DEF AccountTypes, Turns
<1> QED
  BY <1>1, <1>2, <1>3, <1>4

LEMMA UnseenOwn ==
    ASSUME CaseInv, [Next]_vars, UNCHANGED <<case, rows>>
    PROVE  OwnRows'
<1>0. /\ OwnRows /\ AccountTypes /\ FinalInv
  BY DEF CaseInv
<1>1. CASE pc' \notin InTurn \union {"respond"}
  BY <1>0, <1>1 DEF OwnRows
<1>2. CASE Prepare /\ pc' = "launch"
  <2>1. history' = Append(history, [case |-> case, status |-> "active"])
        /\ history \in Seq(Calls)
    BY <1>0, <1>2 DEF Prepare, FinalInv, HistoryTypes
  <2>2. [case |-> case, status |-> "active"] \in Calls
    BY <1>0 DEF FinalInv, HistoryTypes, Calls
  <2>3. Len(history') = Len(history) + 1 /\ Len(history) \in Nat
        /\ history'[Len(history) + 1] = [case |-> case, status |-> "active"]
    BY <2>1, <2>2
  <2> QED
    BY <1>0, <1>2, <2>3 DEF OwnRows, InTurn
<1>3. CASE Judge /\ pc' = "respond"
  <2>1. PICK stream \in Seen : Verdict(stream) = "finished" /\ Settle("finished", "respond")
    BY <1>3 DEF Judge, Settle
  <2>2. /\ turn.exit = "zero" /\ turn.stream = "final" /\ turn.file = "same" /\ killed = {}
        /\ UNCHANGED <<turn, killed>>
    BY <1>0, <1>3, <2>1, VerdictIsSound DEF Judge
  <2>3. Len(history') > 0 /\ history'[Len(history')].case = case
    BY <1>3, <2>1, SettleOwn DEF Judge, InTurn
  <2> QED
    BY <1>0, <2>2, <2>3 DEF OwnRows
<1>4. CASE MockCompletes
  BY <1>0, <1>4 DEF MockCompletes, OwnRows
<1>5. CASE /\ pc \in InTurn \union {"respond"} /\ UNCHANGED <<history, kind>>
           /\ pc' \in InTurn \/ UNCHANGED <<pc, turn, killed>>
  BY <1>0, <1>5 DEF OwnRows, InTurn
<1>6. CASE Launch \/ Wait \/ Timeout \/ Reap \/ Read \/ ChildExits \/ UNCHANGED vars
  <2>1. CASE Launch
    <3>1. pc' = "failed" \/ (pc' = "started" /\ UNCHANGED provider)
      BY <2>1 DEF Launch, Settle
    <3> QED
      BY <1>1, <1>5, <2>1, <3>1 DEF Launch, InTurn, provider
  <2>2. CASE Read \/ Wait \/ Timeout \/ Reap
    BY <1>5, <2>2 DEF Read, Wait, Timeout, Reap, InTurn, provider
  <2>3. CASE ChildExits \/ UNCHANGED vars
    BY <1>1, <1>5, <2>3 DEF ChildExits, vars, process, provider
  <2> QED
    BY <1>6, <2>1, <2>2, <2>3
<1>7. CASE \/ Refuse \/ Guard \/ ProbeStage \/ Diagnose \/ Construct \/ BeginCase
           \/ Respond \/ CompleteCase \/ CaseFailed \/ Summarise \/ Export \/ Finish
           \/ Fail \/ Kill \/ Interrupt
  <2>1. pc' \notin InTurn \union {"respond"}
    BY <1>7
    DEF Refuse, Guard, ProbeStage, Diagnose, Construct, BeginCase, Respond, CompleteCase,
        CaseFailed, Summarise, Export, Finish, Fail, Kill, Interrupt, Written, Settle, InTurn
  <2> QED
    BY <1>1, <2>1
<1>8. CASE (Prepare /\ pc' # "launch") \/ (Judge /\ pc' # "respond")
  BY <1>1, <1>8 DEF Prepare, Judge, Settle, InTurn
<1> QED
  BY <1>2, <1>3, <1>4, <1>6, <1>7, <1>8 DEF Next, Run, Terminated

(* The steps of the provider and of its child.                               *)
LEMMA UnseenSteps ==
    ASSUME CaseInv, [Next]_vars, UNCHANGED <<mem, disk, case, rows>>, Follows
    PROVE  CaseInv'
<1>1. FinalInv'
  BY StepFinal DEF CaseInv
<1>2. AccountTypes'
  BY ProviderTypes DEF CaseInv, AccountTypes
<1> QED
  BY <1>1, <1>2, UnseenCounts, UnseenOwn DEF CaseInv

(* A step that rewrites the manifest: what is left to show of it.            *)
LEMMA SeenSteps ==
    ASSUME CaseInv, [Next]_vars, mem' \in Manifest, disk' \in {disk, mem'},
           CasesCounted(mem)', CasesAt(mem)', VerdictIsLast', OwnRows', rows' \in Seq(Rows)
    PROVE  CaseInv'
<1>1. FinalInv'
  BY StepFinal DEF CaseInv
<1>2. AccountTypes'
  BY ProviderTypes DEF CaseInv, AccountTypes
<1> QED
  BY <1>1, <1>2 DEF CaseInv

LEMMA GuardStep ==
    ASSUME CaseInv, Guard PROVE CaseInv'
<1>1. /\ CasesCounted(mem) /\ CasesAt(mem) /\ VerdictIsLast /\ AccountTypes
      /\ mem \in Manifest
  BY DEF CaseInv, AccountTypes
<1>2. /\ mem' = mem /\ disk' \in {disk, mem} /\ UNCHANGED <<case, rows>>
      /\ pc = "guard" /\ pc' \in {"case", "probe", "export", "fail"}
  BY WrittenEither DEF Guard
<1>3. CasesCounted(mem)'
  BY <1>1, <1>2 DEF CasesCounted, Closed
<1>4. CasesAt(mem)'
  BY <1>1, <1>2 DEF CasesAt, Before, Serving, Done, Open, Asked, AllAsked, Closed
<1>5. VerdictIsLast'
  BY <1>1, <1>2 DEF VerdictIsLast, AllAsked, Closed
<1>6. [Next]_vars
  BY DEF Next, Run
<1>7. OwnRows'
  BY <1>2, <1>6, UnseenOwn
<1> QED
  BY <1>1, <1>2, <1>3, <1>4, <1>5, <1>6, <1>7, SeenSteps DEF AccountTypes

LEMMA BeginStep ==
    ASSUME CaseInv, BeginCase PROVE CaseInv'
<1>1. /\ CasesCounted(mem) /\ CasesAt(mem) /\ VerdictIsLast /\ AccountTypes
      /\ mem \in Manifest /\ OwnRows /\ rows \in Seq(Rows) /\ case \in Nat
      /\ mem.cases \in CaseCounts /\ Cases \in Nat
  BY QualificationAssumption
  DEF CaseInv, AccountTypes, FinalInv, HistoryTypes, Manifest, CaseCounts
<1> DEFINE m == [mem EXCEPT !.cases.attempted = @ + 1,
                            !.cases.skipped = Minus(Cases, mem.cases.attempted + 1),
                            !.requests = @ + 1]
           e == [m EXCEPT !.requests = mem.requests]
<1>2. /\ disk' \in {disk, mem'} /\ case' = case + 1 /\ case < Cases /\ UNCHANGED rows
      /\ pc = "case"
      /\ \/ mem' = m /\ pc' \in {"prepare", "fail"}
         \/ mem' = e /\ pc' = "fail"
  BY DEF BeginCase, Written
<1>3. mem.cases.attempted < Cases
  BY <1>1, <1>2 DEF CasesCounted
<1>4. /\ m \in Manifest /\ e \in Manifest /\ m.status = mem.status /\ e.cases = m.cases
      /\ m.requests = mem.requests + 1 /\ m.responses = mem.responses
      /\ e.requests = mem.requests /\ e.responses = mem.responses /\ e.status = mem.status
      /\ m.cases.attempted = mem.cases.attempted + 1
      /\ m.cases.completed = mem.cases.completed
      /\ m.cases.failed = mem.cases.failed
      /\ m.cases.skipped + (mem.cases.attempted + 1) = Cases
  BY <1>1, <1>3, BeginFacts
<1> HIDE DEF m, e
<1>5. mem.requests \in Nat /\ mem.responses \in Nat
  BY <1>1 DEF Manifest
<1>6. /\ mem' \in Manifest /\ mem'.status = mem.status /\ mem'.responses = mem.responses
      /\ mem'.requests = mem.requests + 1 \/ (mem'.requests = mem.requests /\ pc' = "fail")
      /\ mem'.cases.attempted = mem.cases.attempted + 1
      /\ mem'.cases.completed = mem.cases.completed
      /\ mem'.cases.failed = mem.cases.failed
      /\ mem'.cases.skipped + (mem.cases.attempted + 1) = Cases
  BY <1>2, <1>4
<1>7. /\ mem.cases.completed \in Nat /\ mem.cases.failed \in Nat
      /\ mem.cases.attempted = case /\ Closed(mem) = case
      /\ mem.cases.completed <= mem.responses /\ mem.responses <= mem.requests
  BY <1>1, <1>2 DEF CasesCounted, CasesAt, CaseCounts
<1>8. CasesCounted(mem)'
  BY <1>1, <1>2, <1>5, <1>6, <1>7 DEF CasesCounted, Closed
<1>9. CasesAt(mem)'
  BY <1>1, <1>2, <1>5, <1>6, <1>7
  DEF CasesAt, Before, Serving, Done, Open, Asked, AllAsked, Closed
<1>10. VerdictIsLast'
  BY <1>1, <1>2, <1>6 DEF VerdictIsLast
<1>11. OwnRows'
  BY <1>1, <1>2 DEF OwnRows, InTurn
<1>12. [Next]_vars
  BY DEF Next, Run
<1> QED
  BY <1>1, <1>2, <1>6, <1>8, <1>9, <1>10, <1>11, <1>12, SeenSteps

(* A row is added under its own case, or under none.                         *)
LEMMA RowFacts ==
    ASSUME CaseInv, NEW ok \in BOOLEAN, rows' = rows \o Row(ok),
           ok => history = <<>> \/ history[Len(history)].case = case
    PROVE  /\ rows' \in Seq(Rows)
           /\ \A i \in DOMAIN rows' : rows'[i].ok => rows'[i].of = rows'[i].case
<1>1. /\ rows \in Seq(Rows) /\ history \in Seq(Calls) /\ case \in Nat
      /\ \A i \in DOMAIN rows : rows[i].ok => rows[i].of = rows[i].case
  BY DEF CaseInv, AccountTypes, OwnRows, FinalInv, HistoryTypes
<1>2. CASE history = <<>>
  <2>1. rows' = rows
    BY <1>1, <1>2 DEF Row
  <2> QED
    BY <1>1, <2>1
<1>3. CASE history # <<>>
  <2> DEFINE r == [case |-> case, of |-> history[Len(history)].case, ok |-> ok]
  <2>1. history[Len(history)] \in Calls
    BY <1>1, <1>3
  <2>2. r \in Rows /\ (r.ok => r.of = r.case)
    BY <1>1, <1>3, <2>1 DEF Calls, Rows
  <2>3. rows' = rows \o <<r>>
    BY <1>3 DEF Row
  <2> HIDE DEF r
  <2>4. /\ rows' \in Seq(Rows) /\ Len(rows') = Len(rows) + 1 /\ Len(rows) \in Nat
        /\ \A i \in 1..Len(rows) : rows'[i] = rows[i]
        /\ rows'[Len(rows) + 1] = r
    BY <1>1, <2>2, <2>3
  <2>5. \A i \in DOMAIN rows' : i \in 1..Len(rows) \/ i = Len(rows) + 1
    BY <2>4
  <2>6. DOMAIN rows = 1..Len(rows)
    BY <1>1
  <2> QED
    BY <1>1, <2>2, <2>4, <2>5, <2>6
<1> QED
  BY <1>2, <1>3

LEMMA RespondStep ==
    ASSUME CaseInv, Respond PROVE CaseInv'
<1>1. /\ CasesCounted(mem) /\ CasesAt(mem) /\ VerdictIsLast /\ OwnRows /\ FinalInv
      /\ mem \in Manifest /\ disk \in Manifest
  BY DEF CaseInv, AccountTypes
<1> DEFINE m == [mem EXCEPT !.responses = @ + 1]
<1>2. /\ disk' \in {disk, mem'} /\ UNCHANGED <<case, kind>> /\ pc = "respond"
      /\ \/ mem' = m /\ pc' \in {"complete", "fail"}
         \/ mem' = mem /\ pc' = "fail"
      /\ rows' = rows \o Row(TRUE)
  BY DEF Respond, Written
<1>3. /\ m \in Manifest /\ m.status = mem.status
      /\ m.requests = mem.requests /\ m.responses = mem.responses + 1
      /\ m.cases = mem.cases
  BY <1>1, CountFacts
<1> HIDE DEF m
<1>4. mem.requests \in Nat /\ mem.responses \in Nat /\ mem.cases.completed \in Nat
  BY <1>1 DEF Manifest
<1>5. /\ mem' \in Manifest /\ mem'.status = mem.status /\ mem'.cases = mem.cases
      /\ mem'.requests = mem.requests
      /\ mem'.responses = mem.responses + 1 \/ (mem'.responses = mem.responses /\ pc' = "fail")
  BY <1>1, <1>2, <1>3
<1>6. CasesCounted(mem)'
  BY <1>1, <1>2, <1>4, <1>5 DEF CasesCounted, CasesAt, Asked, Closed
<1>7. CasesAt(mem)'
  BY <1>1, <1>2, <1>4, <1>5
  DEF CasesAt, CasesCounted, Before, Serving, Done, Open, Asked, AllAsked, Closed
<1>8. VerdictIsLast'
  BY <1>1, <1>2, <1>5 DEF VerdictIsLast
<1>9. history = <<>> \/ history[Len(history)].case = case
  BY <1>1, <1>2 DEF OwnRows, FinalInv, Probed, HistoryTypes
<1>10. /\ rows' \in Seq(Rows)
       /\ \A i \in DOMAIN rows' : rows'[i].ok => rows'[i].of = rows'[i].case
  BY <1>2, <1>9, RowFacts
<1>11. OwnRows'
  BY <1>2, <1>10 DEF OwnRows, InTurn
<1>12. [Next]_vars
  BY DEF Next, Run
<1> QED
  BY <1>2, <1>5, <1>6, <1>7, <1>8, <1>10, <1>11, <1>12, SeenSteps

LEMMA CompleteStep ==
    ASSUME CaseInv, CompleteCase PROVE CaseInv'
<1>1. /\ CasesCounted(mem) /\ CasesAt(mem) /\ VerdictIsLast /\ OwnRows /\ FinalInv
      /\ mem \in Manifest /\ rows \in Seq(Rows) /\ case \in Nat
  BY DEF CaseInv, AccountTypes, FinalInv, HistoryTypes
<1>2. /\ disk' = disk /\ UNCHANGED <<case, rows>> /\ pc = "complete" /\ pc' = "case"
      /\ mem' = [mem EXCEPT !.cases.completed = @ + 1]
  BY DEF CompleteCase
<1>3. /\ mem' \in Manifest /\ mem'.status = mem.status
      /\ mem'.requests = mem.requests /\ mem'.responses = mem.responses
      /\ mem'.cases = [mem.cases EXCEPT !.completed = @ + 1]
  BY <1>1, <1>2, CountFacts
<1>4. mem.cases \in CaseCounts
  BY <1>1 DEF Manifest, CaseCounts
<1>5. /\ mem'.cases.attempted = mem.cases.attempted
      /\ mem'.cases.completed = mem.cases.completed + 1
      /\ mem'.cases.failed = mem.cases.failed /\ mem'.cases.skipped = mem.cases.skipped
  BY <1>3, <1>4 DEF CaseCounts
<1>6. /\ mem.cases.completed \in Nat /\ mem.cases.failed \in Nat /\ mem.requests \in Nat
      /\ mem.responses \in Nat
  BY <1>1, <1>4 DEF CaseCounts, Manifest
<1>7. CasesCounted(mem)'
  BY <1>1, <1>2, <1>3, <1>5, <1>6 DEF CasesCounted, CasesAt, Open, Serving, Closed
<1>8. CasesAt(mem)'
  BY <1>1, <1>2, <1>3, <1>5, <1>6
  DEF CasesAt, CasesCounted, Before, Serving, Done, Open, Asked, AllAsked, Closed
<1>9. VerdictIsLast'
  BY <1>1, <1>2, <1>3 DEF VerdictIsLast
<1>10. [Next]_vars
  BY DEF Next, Run
<1>11. OwnRows'
  BY <1>2, <1>10, UnseenOwn
<1> QED
  BY <1>1, <1>2, <1>3, <1>7, <1>8, <1>9, <1>10, <1>11, SeenSteps

LEMMA FailedStep ==
    ASSUME CaseInv, CaseFailed PROVE CaseInv'
<1>1. /\ CasesCounted(mem) /\ CasesAt(mem) /\ VerdictIsLast /\ OwnRows /\ FinalInv
      /\ mem \in Manifest /\ AccountTypes /\ history \in Seq(Calls)
      /\ case \in Nat /\ Cases \in Nat
  BY QualificationAssumption DEF CaseInv, AccountTypes, FinalInv, HistoryTypes
<1> DEFINE counted == [mem EXCEPT !.cases.failed = @ + 1]
           m == Skipping(Synced(counted))
<1>2. /\ disk' \in {disk, mem'} /\ UNCHANGED <<case, kind>> /\ pc = "failed"
      /\ \/ mem' = counted /\ pc' \in {"case", "fail"}
         \/ mem' = m /\ pc' = "fail"
      /\ rows' = rows \o Row(FALSE)
  BY DEF CaseFailed, Written
<1>3. mem.cases \in CaseCounts
  BY <1>1 DEF Manifest, CaseCounts
<1>4. /\ counted \in Manifest /\ counted.status = mem.status
      /\ counted.requests = mem.requests /\ counted.responses = mem.responses
      /\ counted.cases = [mem.cases EXCEPT !.failed = @ + 1]
  BY <1>1, CountFacts
<1> HIDE DEF counted
<1>5. /\ counted.cases.attempted = mem.cases.attempted
      /\ counted.cases.completed = mem.cases.completed
      /\ counted.cases.failed = mem.cases.failed + 1
      /\ counted.cases.skipped = mem.cases.skipped
  BY <1>3, <1>4 DEF CaseCounts
<1>6. /\ mem.cases.completed \in Nat /\ mem.cases.failed \in Nat /\ mem.requests \in Nat
      /\ mem.responses \in Nat
  BY <1>1, <1>3 DEF CaseCounts, Manifest
<1>7. Closed(mem) + 1 = case /\ case <= Cases /\ mem.cases.attempted = case
      /\ mem.cases.skipped + case = Cases
  BY <1>1, <1>2 DEF CasesCounted, CasesAt, Open, Serving
<1>8. Closed(counted) = case
  BY <1>5, <1>6, <1>7 DEF Closed
<1> DEFINE y == Synced(counted)
<1>9. /\ y \in Manifest /\ y.cases = counted.cases
      /\ y.requests = counted.requests /\ y.responses = counted.responses
      /\ y.status = counted.status
  BY <1>1, <1>4, SyncedFacts
<1> HIDE DEF y
<1>10. /\ m \in Manifest /\ m.status = y.status
       /\ m.requests = y.requests /\ m.responses = y.responses
       /\ m.cases.attempted = y.cases.attempted
       /\ m.cases.completed = y.cases.completed
       /\ m.cases.failed = y.cases.failed
       /\ m.cases.skipped + Closed(y) = Cases
  BY <1>7, <1>8, <1>9, SkippingFacts DEF Closed, y
<1> HIDE DEF m
<1>11. /\ mem' \in Manifest /\ mem'.status = mem.status
       /\ mem'.requests = mem.requests /\ mem'.responses = mem.responses
       /\ mem'.cases.attempted = case
       /\ mem'.cases.completed = mem.cases.completed
       /\ mem'.cases.failed = mem.cases.failed + 1
       /\ mem'.cases.skipped + case = Cases
  BY <1>2, <1>4, <1>5, <1>7, <1>8, <1>9, <1>10 DEF Closed
<1>12. Closed(mem') = case /\ pc' \in {"case", "fail"}
  BY <1>2, <1>6, <1>7, <1>11 DEF Closed
<1>13. CasesCounted(mem)'
  BY <1>1, <1>2, <1>6, <1>7, <1>11, <1>12 DEF CasesCounted
<1>14. CasesAt(mem)'
  BY <1>1, <1>2, <1>11, <1>12
  DEF CasesAt, Before, Serving, Done, Open, Asked, AllAsked
<1>15. VerdictIsLast'
  BY <1>1, <1>2, <1>11, <1>12 DEF VerdictIsLast
<1>16. /\ rows' \in Seq(Rows)
       /\ \A i \in DOMAIN rows' : rows'[i].ok => rows'[i].of = rows'[i].case
  BY <1>2, RowFacts
<1>17. OwnRows'
  BY <1>12, <1>16 DEF OwnRows, InTurn
<1>18. [Next]_vars
  BY DEF Next, Run
<1> QED
  BY <1>2, <1>11, <1>13, <1>14, <1>15, <1>16, <1>17, <1>18, SeenSteps

(* The accounts of a run that is done; every case it planned was asked.      *)
LEMMA SummariseStep ==
    ASSUME CaseInv, Summarise PROVE CaseInv'
<1>1. /\ CasesCounted(mem) /\ CasesAt(mem) /\ VerdictIsLast
      /\ mem \in Manifest /\ AccountTypes /\ history \in Seq(Calls)
      /\ case \in Nat /\ Cases \in Nat /\ rows \in Seq(Rows)
  BY QualificationAssumption DEF CaseInv, AccountTypes, FinalInv, HistoryTypes
<1> DEFINE y == Synced(mem)
           m == Skipping(y)
<1>2. /\ mem' = m /\ disk' \in {disk, mem'} /\ UNCHANGED <<case, rows>>
      /\ pc = "case" /\ case = Cases /\ pc' \in {"export", "fail"}
  BY WrittenEither DEF Summarise
<1>3. /\ y \in Manifest /\ y.cases = mem.cases
      /\ y.requests = mem.requests /\ y.responses = mem.responses /\ y.status = mem.status
  BY <1>1, SyncedFacts
<1>4. /\ Closed(mem) = Cases /\ mem.cases.attempted = Cases
      /\ mem.cases.skipped + case = Cases
  BY <1>1, <1>2 DEF CasesCounted, CasesAt, Serving
<1> HIDE DEF y
<1>5. /\ m \in Manifest /\ m.status = y.status
      /\ m.requests = y.requests /\ m.responses = y.responses
      /\ m.cases.attempted = y.cases.attempted
      /\ m.cases.completed = y.cases.completed
      /\ m.cases.failed = y.cases.failed
      /\ m.cases.skipped + Closed(y) = Cases
  BY <1>1, <1>3, <1>4, SkippingFacts DEF Closed
<1> HIDE DEF m
<1>6. m.cases.skipped \in Nat
  BY <1>5 DEF Manifest
<1>7. /\ mem' \in Manifest /\ mem'.status = mem.status
      /\ mem'.requests = mem.requests /\ mem'.responses = mem.responses
      /\ mem'.cases.attempted = Cases /\ mem'.cases.completed = mem.cases.completed
      /\ Closed(mem') = Cases /\ mem'.cases.skipped = 0
  BY <1>1, <1>2, <1>3, <1>4, <1>5, <1>6 DEF Closed
<1>8. CasesCounted(mem)'
  BY <1>1, <1>2, <1>7 DEF CasesCounted
<1>9. CasesAt(mem)'
  BY <1>1, <1>2, <1>7
  DEF CasesAt, Before, Serving, Done, Open, Asked, AllAsked
<1>10. VerdictIsLast'
  BY <1>1, <1>2, <1>7 DEF VerdictIsLast
<1>11. [Next]_vars
  BY DEF Next, Run
<1>12. OwnRows'
  BY <1>2, <1>11, UnseenOwn
<1> QED
  BY <1>1, <1>2, <1>7, <1>8, <1>9, <1>10, <1>11, <1>12, SeenSteps

(* The two writes that give a verdict.                                       *)
LEMMA VerdictStep ==
    ASSUME CaseInv, Finish \/ Fail, mem' # mem \/ pc' = "over" PROVE CaseInv'
<1>1. /\ CasesCounted(mem) /\ CasesAt(mem) /\ VerdictIsLast
      /\ mem \in Manifest /\ disk \in Manifest /\ AccountTypes /\ history \in Seq(Calls)
      /\ rows \in Seq(Rows)
  BY DEF CaseInv, AccountTypes, FinalInv, HistoryTypes
<1> DEFINE y == Synced(mem)
<1>2. /\ y \in Manifest /\ y.cases = mem.cases
      /\ y.requests = mem.requests /\ y.responses = mem.responses /\ y.status = mem.status
  BY <1>1, SyncedFacts
<1> HIDE DEF y
<1>3. PICK s \in {"finished", "failed"} :
         /\ mem' = [y EXCEPT !.status = s]
         /\ disk' \in {disk, mem'} /\ pc' = "over" /\ UNCHANGED <<case, rows>>
         /\ pc \in {"finish", "fail"} /\ (s = "finished" => pc = "finish")
  BY WrittenEither DEF Finish, Fail, y
<1>4. /\ mem' \in Manifest /\ mem'.cases = mem.cases /\ mem'.status = s
      /\ mem'.requests = mem.requests /\ mem'.responses = mem.responses
  BY <1>2, <1>3, StatusFacts
<1>5. CasesCounted(mem)'
  BY <1>1, <1>3, <1>4 DEF CasesCounted, Closed
<1>6. CasesAt(mem)'
  BY <1>3 DEF CasesAt, Before, Serving, Done, Open, Asked
<1>7. VerdictIsLast'
  BY <1>1, <1>3, <1>4 DEF VerdictIsLast, CasesAt, Done, AllAsked, Closed
<1>8. [Next]_vars
  BY DEF Next, Run
<1>9. OwnRows'
  BY <1>3, <1>8, UnseenOwn
<1> QED
  BY <1>1, <1>3, <1>4, <1>5, <1>6, <1>7, <1>8, <1>9, SeenSteps

LEMMA StepCases == CaseInv /\ [Next]_vars => CaseInv'
<1> SUFFICES ASSUME CaseInv, [Next]_vars PROVE CaseInv'
  OBVIOUS
<1>1. CASE Guard \/ BeginCase \/ Respond \/ CompleteCase \/ CaseFailed \/ Summarise
  BY <1>1, GuardStep, BeginStep, RespondStep, CompleteStep, FailedStep, SummariseStep
<1>2. CASE (Finish \/ Fail) /\ (mem' # mem \/ pc' = "over")
  BY <1>2, VerdictStep
<1>3. CASE Finish /\ mem' = mem /\ pc' # "over"
  <2>1. UNCHANGED <<mem, disk, case, rows>> /\ pc = "finish" /\ pc' = "fail"
    BY <1>3 DEF Finish
  <2> QED
    BY <2>1, UnseenSteps DEF Follows
<1>4. CASE \/ Refuse \/ ProbeStage \/ Diagnose \/ Construct \/ MockCompletes \/ Prepare
           \/ Launch \/ Wait \/ Timeout \/ Reap \/ Judge \/ Export
  <2>1. UNCHANGED <<mem, disk, case, rows>>
    BY <1>4 DEF Refuse, ProbeStage, Diagnose, Construct, MockCompletes, Prepare, Launch,
      Wait, Timeout, Reap, Judge, Export
  <2>2. Follows
    BY <1>4 DEF Refuse, ProbeStage, Diagnose, Construct, MockCompletes, Prepare, Launch,
      Wait, Timeout, Reap, Judge, Export, Settle, Follows
  <2> QED
    BY <2>1, <2>2, UnseenSteps
<1>5. CASE ChildExits \/ Read \/ Interrupt \/ Kill \/ UNCHANGED vars
  <2>1. UNCHANGED <<mem, disk, case, rows>>
    BY <1>5 DEF ChildExits, Read, Interrupt, Kill, vars
  <2>2. Follows
    BY <1>5 DEF ChildExits, Read, Interrupt, Kill, vars, Settle, Follows
  <2> QED
    BY <2>1, <2>2, UnseenSteps
<1>6. Fail => pc' = "over"
  BY DEF Fail, Written
<1> QED
  BY <1>1, <1>2, <1>3, <1>4, <1>5, <1>6 DEF Next, Run, Terminated

(* A case counts as completed only when its own turn ended by itself, with   *)
(* exit code 0 and the same decision in its stream and its file; its row is  *)
(* its own; and the cases of a run with a verdict add up to the plan.        *)
THEOREM QualifiedCasesAddUp == Spec => []CasesAddUp
<1>1. CaseInv => CasesAddUp
  <2> SUFFICES ASSUME CaseInv PROVE CasesAddUp
    OBVIOUS
  <2>1. /\ CasesCounted(mem) /\ VerdictIsLast /\ OwnRows /\ mem \in Manifest
        /\ mem.cases \in CaseCounts /\ Cases \in Nat /\ case \in Nat
    BY QualificationAssumption
    DEF CaseInv, AccountTypes, FinalInv, HistoryTypes, Manifest, CaseCounts
  <2>2. /\ mem.cases.completed \in Nat /\ mem.cases.failed \in Nat
        /\ mem.cases.skipped \in Nat /\ mem.cases.attempted \in Nat
        /\ mem.requests \in Nat /\ mem.responses \in Nat
    BY <2>1 DEF CaseCounts, Manifest
  <2>3. ASSUME disk.status # "running"
        PROVE  LET c == disk.cases
               IN  /\ c.attempted - (c.completed + c.failed) \in {0, 1}
                   /\ c.completed <= disk.responses /\ disk.responses <= disk.requests
                   /\ c.completed + c.failed + c.skipped \in {Cases, Cases - 1}
    BY <2>1, <2>2, <2>3 DEF VerdictIsLast, CasesCounted, Closed
  <2>4. ASSUME disk.status = "finished", case > 0
        PROVE  disk.cases.completed + disk.cases.failed = Cases /\ disk.cases.skipped = 0
    BY <2>1, <2>2, <2>4 DEF VerdictIsLast, AllAsked, Closed
  <2> QED
    BY <2>1, <2>3, <2>4 DEF OwnRows, CasesAddUp
<1> QED
  BY <1>1, InitCases, StepCases, PTL DEF Spec
=============================================================================
