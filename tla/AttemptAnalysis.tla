--------------------------- MODULE AttemptAnalysis ---------------------------
(***************************************************************************)
(* What one driver of AttemptSeries leaves behind, and who reads it:        *)
(* experiments/multi_event.py writes a ledger file, a selection and a       *)
(* summary per driver run; experiments/aggregate_multi_event.py takes the   *)
(* attempt lock, re-validates them line by line against each other and the  *)
(* run directories, re-validates every selected child, and exports what is  *)
(* left.  The ledger of AttemptSeries is the set of records of all drivers; *)
(* here each driver's file has its order, its sources and its length.       *)
(***************************************************************************)
EXTENDS AttemptSeries, Sequences

VARIABLES
    book,       \* the driver's ledger file, by driver and job
    declared,   \* length of attempt_run_ids, by driver and job
    lost,       \* drivers with a line in the file that they did not count
    audit       \* the analysis

evidence == <<book, declared, lost>>
all == <<vars, evidence, audit>>

Idle == [stage |-> "idle"]
Line(source, k, s) == [source |-> source, idx |-> k, status |-> s]

JointInit ==
    /\ Init
    /\ book = [d \in Drivers |-> [j \in Jobs |-> <<>>]]
    /\ declared = [d \in Drivers |-> [j \in Jobs |-> 0]]
    /\ lost = {} /\ audit = Idle

-----------------------------------------------------------------------------
(* The driver's own evidence.  Nobody opens that of a driver that did not   *)
(* finish, so it is dropped when the driver ends.                           *)

Kept(of, none) ==
    [d \in Drivers |-> IF phase'[d] \in Over \ {"finished"} THEN none ELSE of[d]]

Leaves(d, j, lines, attempts) ==
    /\ book' = Kept([book EXCEPT ![d][j] = @ \o lines], [i \in Jobs |-> <<>>])
    /\ declared' = Kept([declared EXCEPT ![d][j] = attempts], [i \in Jobs |-> 0])

(* Seeded bug: a launch that was not made names its run. *)
MutantExecuted(r) == Line("executed", r.idx, r.status)

(* A record of execute; not_launched names no run. *)
Executed(r) == Line("executed", IF r.status = "not_launched" THEN 0 ELSE r.idx, r.status)

(* What the preflight says of the attempts that it finds. *)
Resumed(j) ==
    [k \in 1..Cardinality(Scanned(j)) |-> Line("resumed", k, Found(attempt[j][k]))]

Inspects(d, j) ==
    /\ Preflight(d, j) /\ Leaves(d, j, Resumed(j), Cardinality(Occupied(j)))
    /\ UNCHANGED <<lost, audit>>

(* A step of execute appends what it puts on the ledger; a launch makes the *)
(* attempt one of the slot's.                                               *)
Works(d, j) ==
    /\ \/ Start(d, j) /\ Leaves(d, j, <<>>, declared[d][j])
       \/ Spawn(d, j) /\ Leaves(d, j, <<>>, declared[d][j])
       \/ /\ EndpointDown(d, j)
          /\ Leaves(d, j, <<Executed(Record(d, j, next[d][j], "not_launched"))>>, declared[d][j])
       \/ Launch(d, j) /\ Leaves(d, j, <<Executed(Appending(d, j))>>, next[d][j])
       \/ SpawnFails(d, j) /\ Leaves(d, j, <<Executed(Appending(d, j))>>, declared[d][j])
       \/ Collect(d, j) /\ Leaves(d, j, <<Executed(Appending(d, j))>>, declared[d][j])
    /\ UNCHANGED <<lost, audit>>

(* A public line that raises is not counted by the driver, also when it is  *)
(* in the file.  A verdict has a private line after it, whose failure       *)
(* leaves the public one counted: the private file is then right or one     *)
(* line longer than its count.                                              *)
Stumbles(d, j) ==
    /\ AppendFails(d, j)
    /\ \E kept, counted \in BOOLEAN :
          LET appended == Appending(d, j)
              added == IF kept THEN {appended} ELSE {}
              guarded == faults' = faults + 1
          IN  /\ counted => kept /\ at[d][j] # "due"
              /\ ledger' = ledger \union added \union
                             (IF guarded THEN {Record(d, j, next[d][j], "rejected")} ELSE {})
              /\ Leaves(d, j, (IF kept THEN <<Executed(appended)>> ELSE <<>>) \o
                              (IF guarded THEN <<Line("driver", next[d][j], "rejected")>> ELSE <<>>),
                        IF at[d][j] = "due" THEN next[d][j] ELSE declared[d][j])
              /\ lost' = IF kept /\ ~counted THEN lost \union {d} ELSE lost
    /\ UNCHANGED audit

(* Everything else that the drivers and their children do. *)
Else ==
    /\ \/ \E d \in Drivers : Acquire(d) \/ Finish(d) \/ Interrupt(d) \/ Kill(d)
       \/ \E c \in children : ChildWrites(c) \/ ChildExits(c)
    /\ book' = Kept(book, [i \in Jobs |-> <<>>])
    /\ declared' = Kept(declared, [i \in Jobs |-> 0])
    /\ lost' = {d \in lost : phase'[d] \notin Over \ {"finished"}}
    /\ UNCHANGED audit

(* _candidate_record: a child is chosen by the run that was accepted, the   *)
(* last of the attempts that the slot declares.                             *)
Candidate(d, j) == declared[d][j]

(* The selection of a finished driver: the slots with a reusable decision,  *)
(* and the others by whether they were attempted.                           *)
Selection(d) ==
    LET rest == Jobs \ decided[d]
        none == {j \in rest : declared[d][j] = 0}
    IN  [children |-> decided[d], rejected |-> rest \ none, missing |-> none]

-----------------------------------------------------------------------------
(* What the analysis demands of the evidence *)

Lines(cell, k) == {i \in DOMAIN cell : cell[i].idx = k}

(* An attempt that was found has its terminal line, one that was made its   *)
(* launch and its terminal line.                                            *)
Closed(cell, k) ==
    \E i, h \in Lines(cell, k) :
        /\ Lines(cell, k) = {i, h} /\ cell[h].status \in {"accepted", "rejected"}
        /\ \/ i = h /\ cell[i].source = "resumed"
           \/ /\ i < h /\ cell[i].source = "executed" /\ cell[i].status = "launched"
              /\ cell[h].source \in {"executed", "driver"}

(* The last line of the attempt accepts it. *)
Accepts(cell, k) ==
    \E i \in Lines(cell, k) :
        cell[i].status = "accepted" /\ \A h \in Lines(cell, k) : h <= i

InOrder(cell) ==
    \A i \in DOMAIN cell :
        /\ cell[i].status \in {"launched", "accepted", "rejected", "not_launched"}
        /\ cell[i].idx = 0 => i = Len(cell)
        /\ cell[i].idx > 1 => \E h \in 1..(i - 1) : cell[h].idx = cell[i].idx - 1

CellIsBound(d, j) ==
    LET cell == book[d][j]
        n == declared[d][j]
    IN  /\ cell # <<>> /\ InOrder(cell)
        /\ {cell[i].idx : i \in DOMAIN cell} \ {0} = 1..n
        /\ \A k \in 1..n : Closed(cell, k)
        /\ {k \in 1..n : Accepts(cell, k)} =
              IF j \in Selection(d).children THEN {Candidate(d, j)} ELSE {}

(* The run directories of a live slot are exactly the declared ones, and    *)
(* all of them are terminal.                                                *)
CapIsKept(d, j) ==
    /\ Occupied(j) = 1..declared[d][j]
    /\ \A k \in Occupied(j) : attempt[j][k] \in {"healthy", "unhealthy"}

(* completed_runs, counted thread by thread, against the selected children. *)
SummaryAgrees(d) ==
    Cardinality({j \in Jobs : at[d][j] \in {"reused", "accepted"}}) =
        Cardinality(Selection(d).children)

(* Every slot is selected, rejected after attempts, or missing without any, *)
(* and no attempt list is longer than the frozen one.                       *)
Partitions(s, d) ==
    /\ s.children \union s.rejected \union s.missing = Jobs
    /\ \A j \in Jobs :
          /\ Cardinality({f \in {"children", "rejected", "missing"} : j \in s[f]}) = 1
          /\ declared[d][j] \in 0..MaxAttempts
          /\ declared[d][j] = 0 <=> j \in s.missing

(* The lines counted by the driver are the lines of its files. *)
CountsAreWhole(d) == d \notin lost

EvidenceHolds(d, live) ==
    /\ CountsAreWhole(d) /\ SummaryAgrees(d) /\ Partitions(Selection(d), d)
    /\ \A j \in Jobs : CellIsBound(d, j) /\ (live => CapIsKept(d, j))

-----------------------------------------------------------------------------
(* The analysis, under the attempt lock *)

(* The trust anchor is a finished parent run with complete outputs. *)
Terminal(d) == phase[d] = "finished"

Opens(d, live) ==
    /\ Terminal(d) /\ StartReading
    /\ audit' = [stage |-> "opened", of |-> d, live |-> live, job |-> 0, observed |-> {}]
    /\ UNCHANGED evidence

Verifies ==
    /\ audit.stage = "opened"
    /\ audit' = [audit EXCEPT !.stage = IF EvidenceHolds(audit.of, audit.live)
                                        THEN "verified" ELSE "refused"]
    /\ UNCHANGED <<vars, evidence>>

(* The children of the selection, each by the run of its last attempt.      *)
Children(d) == [j \in Selection(d).children |-> Candidate(d, j)]

(* A selected child is opened again, and its health counted again from its  *)
(* own records: an observation, or a rejection.                             *)
StillHealthy(a) == a = "healthy"

ValidatesChild ==
    /\ audit.stage = "verified" /\ audit.job < NumJobs
    /\ LET j == audit.job + 1
           selected == Children(audit.of)
       IN  audit' = [audit EXCEPT !.job = j,
                        !.observed = IF j \in DOMAIN selected /\ StillHealthy(attempt[j][selected[j]])
                                     THEN @ \union {j} ELSE @]
    /\ UNCHANGED <<vars, evidence>>

Exports ==
    /\ audit.stage = "verified" /\ audit.job = NumJobs
    /\ audit' = [audit EXCEPT !.stage = "exported"]
    /\ UNCHANGED <<vars, evidence>>

(* It is through, or it dies where it is: the lock goes with it. *)
Closes == StopReading /\ audit' = Idle /\ UNCHANGED evidence

Threads(d, j) == Inspects(d, j) \/ Works(d, j) \/ Stumbles(d, j)

JointNext ==
    \/ \E d \in Drivers, j \in Jobs : Threads(d, j)
    \/ Else
    \/ \E d \in Drivers, live \in BOOLEAN : Opens(d, live)
    \/ Verifies \/ ValidatesChild \/ Exports \/ Closes
    \/ Quiet /\ UNCHANGED all

JointSpec == JointInit /\ [][JointNext]_all

-----------------------------------------------------------------------------
(* A driver that finishes leaves evidence that its own analysis accepts:    *)
(* every slot has its outcome, every attempt its launch and its verdict, in *)
(* order, whatever its predecessors left, its children did and the endpoint *)
(* did.  Only a failing append can spoil it.                                *)
FinishedIsAnalysable ==
    faults = 0 => \A d \in Drivers : phase[d] = "finished" => EvidenceHolds(d, FALSE)

(* What is exported stands for the slots that the driver selected and       *)
(* counted, each by the last attempt it declared, which is accepted on the  *)
(* durable ledger and the only healthy one; and a live series has not grown *)
(* since it was verified.  Other drivers, orphaned children and failing     *)
(* appends do not change that.                                              *)
AnalysisIsSound ==
    audit.stage = "exported" =>
        LET d == audit.of
        IN  /\ audit.observed = decided[d]
            /\ audit.observed = {j \in Jobs : at[d][j] \in {"reused", "accepted"}}
            /\ \A j \in audit.observed :
                  /\ Record(d, j, declared[d][j], "accepted") \in ledger
                  /\ {k \in Attempts : attempt[j][k] = "healthy"} = {declared[d][j]}
            /\ audit.live => \A j \in Jobs : CapIsKept(d, j)
=============================================================================
