---------------------- MODULE AttentionCampaignProofs ----------------------
(***************************************************************************)
(* Machine-checked theorems about AttentionCampaign, for every plan, pool, *)
(* market and number of faults: the manifest is backed by what is durable, *)
(* a failed campaign's accounts close, and a finished one is complete.     *)
(***************************************************************************)
EXTENDS AttentionCampaign, FiniteSetTheorems, TLAPS

-----------------------------------------------------------------------------
(* Types *)

Statuses == Outcomes \union {"waiting", "unannounced", "sent", "lost"}
Phases ==
    {"sample", "closing", "cancelled", "distil", "publish", "market", "stopping", "index",
     "export", "finish", "failing"} \union Ended

Teacher == [attempted : Nat, resolved : Nat, valid : Nat, failed : Int, skipped : Int]
Counts == [started : Nat, completed : Nat, failed : Int]
Manifest ==
    [status : {"running", "failed", "finished"}, requests : Nat, examples : Nat,
     teacher : Teacher, rounds : Counts, runs : Counts]

Logs == [requests : SUBSET Plan, responses : SUBSET Plan]
Markets == [runs : Nat, rounds : Nat, settled : Nat, catalog : Nat]

TypeInv ==
    /\ pc \in Phases
    /\ task \in [Plan -> Statuses]
    /\ log \in Logs
    /\ private \subseteq Plan /\ public \subseteq Plan /\ rows \subseteq Plan
    /\ student \subseteq 1..States /\ products \in Nat
    /\ market \in Markets /\ ledger \in Nat /\ files \in Nat
    /\ mem \in Manifest /\ disk \in Manifest
    /\ faults \in Nat

-----------------------------------------------------------------------------
(* The samples: what is in memory is in the rows, the rows are in the logs.  *)
SampleInv ==
    /\ \A s \in Plan : task[s] = "waiting" => s \notin log.requests
    /\ Sent \subseteq log.requests
    /\ rows = {s \in Plan : task[s] \in Outcomes}
    /\ rows \subseteq public /\ public \subseteq private /\ private \subseteq log.requests
    /\ \A s \in Plan : task[s] = "valid" => s \in log.responses

(* What a manifest claims is durable.                                        *)
BackedIn(m, requests, responses, seen, made, settled, run) ==
    /\ m.teacher.attempted <= Cardinality(requests)
    /\ m.requests <= Cardinality(requests)
    /\ m.teacher.resolved <= Cardinality(seen)
    /\ m.teacher.valid <= Cardinality(seen \intersect responses)
    /\ m.examples > 0 => made >= Learnt
    /\ m.rounds.completed <= settled /\ m.runs.completed <= run

BackedBy(m) ==
    BackedIn(m, log.requests, log.responses, public, products, ledger, files)

(* The phases before the market, those in which the samples are settled, and *)
(* those with nothing left to fail but the handling of an earlier error.     *)
Early == {"sample", "closing", "cancelled", "distil", "publish"}
Later == {"distil", "publish", "market", "stopping", "index", "export", "finish"}
Orderly == {"sample", "closing", "cancelled", "distil", "publish", "market", "index",
            "export", "finish"}
Wounded == {"closing", "cancelled", "stopping"}

(* The students are fitted before the market, and the manifest says to how   *)
(* many examples before the first run.                                       *)
LearntInv ==
    /\ pc \in Early => market = [runs |-> 0, rounds |-> 0, settled |-> 0, catalog |-> 0]
    /\ pc \in Early => mem.examples = 0 /\ disk.examples = 0
    /\ pc \in Later \ {"distil"} => student = Examples /\ {PartitionOf(x) : x \in student} = Partitions
    /\ market.runs > 0 \/ pc \in {"market", "stopping", "index", "export", "finish"} =>
          /\ mem.examples = Cardinality(student) /\ disk.examples = Cardinality(student)
          /\ student # {}

(* One run is open at most, one round of it at most, and a run is done when  *)
(* its rounds are.  While no handler has been cut short, what is durable is  *)
(* what is in memory.                                                        *)
MarketInv ==
    /\ market.settled <= ledger /\ market.catalog <= files
    /\ market.catalog <= market.runs /\ market.runs <= market.catalog + 1
    /\ market.settled <= market.rounds /\ market.rounds <= market.settled + 1
    /\ market.runs <= MarketRuns /\ market.rounds <= market.runs * Rounds
    /\ market.runs = market.catalog =>
          market.rounds = market.runs * Rounds /\ market.settled = market.rounds
    /\ pc \in Orderly => ledger = market.settled /\ files = market.catalog
    /\ pc \in {"index", "export", "finish"} => market.catalog = MarketRuns

(* The accounts that a complete refresh leaves.                              *)
ValidIn(resolved, outcome) == {s \in resolved : outcome[s] = "valid"}
Account(sent, resolved, outcome) ==
    LET valid == Cardinality(ValidIn(resolved, outcome))
    IN  [attempted |-> Cardinality(sent), resolved |-> Cardinality(resolved),
         valid |-> valid, failed |-> Cardinality(sent) - valid,
         skipped |-> Cardinality(Plan) - Cardinality(sent)]
Exact == Account(Sent, rows, task)

MarketExact(m, failedRounds, failedRuns) ==
    /\ m.rounds = [started |-> market.rounds, completed |-> market.settled,
                   failed |-> failedRounds]
    /\ m.runs = [started |-> market.runs, completed |-> market.catalog, failed |-> failedRuns]

(* Where they are exact: between the handlers, and after the first error     *)
(* once it has been handled.                                                 *)
ExactInv ==
    /\ pc \in Wounded => faults >= 1
    /\ pc = "sample" /\ InFlight = {} => mem.teacher = Exact
    /\ pc \in Later => rows = Plan /\ mem.teacher = Exact
    /\ pc \in Orderly => MarketExact(mem, 0, 0)
    /\ pc = "failing" /\ faults <= 1 =>
          /\ mem.teacher = Exact
          /\ MarketExact(mem, market.rounds - market.settled, market.runs - market.catalog)

(* The files of the run, in their order, and what the summary says.          *)
ProductInv ==
    /\ pc \in {"market", "stopping", "index"} => products = Learnt
    /\ pc = "export" => products = Learnt + 1
    /\ pc = "finish" =>
          /\ products = Learnt + 3
          /\ summary = << [teacher |-> mem.teacher, examples |-> mem.examples,
                           runs |-> mem.runs.completed] >>

(* A verdict is the last thing that is written.                              *)
VerdictInv ==
    /\ pc \notin Ended => mem.status = "running" /\ disk.status = "running"
    /\ disk.status = "failed" => pc = "failed"
    /\ disk.status = "finished" => pc = "finished"

CampaignInv ==
    /\ TypeInv /\ SampleInv /\ BackedBy(mem) /\ BackedBy(disk)
    /\ LearntInv /\ MarketInv /\ ExactInv /\ ProductInv /\ VerdictInv
    /\ FailureAccountsClose /\ FinishedIsComplete

-----------------------------------------------------------------------------
(* Sizes of parts of the plan                                                *)

LEMMA PlanFinite ==
    /\ IsFiniteSet(Plan) /\ Cardinality(Plan) \in Nat
    /\ Cardinality(Plan) = States * Replicates
<1>1. States * Replicates \in Nat
  BY CampaignAssumption
<1> QED
  BY <1>1, FS_Interval DEF Plan

LEMMA PartSize ==
    ASSUME NEW S \in SUBSET Plan
    PROVE  /\ IsFiniteSet(S) /\ Cardinality(S) \in Nat
           /\ \A T \in SUBSET S : Cardinality(T) \in Nat /\ Cardinality(T) <= Cardinality(S)
<1>1. IsFiniteSet(S) /\ Cardinality(S) \in Nat
  BY PlanFinite, FS_Subset, FS_CardinalityType
<1>2. ASSUME NEW T \in SUBSET S
      PROVE  Cardinality(T) \in Nat /\ Cardinality(T) <= Cardinality(S)
  BY <1>1, FS_Subset, FS_CardinalityType
<1> QED
  BY <1>1, <1>2

LEMMA OneMore ==
    ASSUME NEW S \in SUBSET Plan, NEW x \in Plan, x \notin S
    PROVE  Cardinality(S \union {x}) = Cardinality(S) + 1
  BY PartSize, FS_AddElement

-----------------------------------------------------------------------------
(* The updates of a manifest, field by field                                 *)

(* Two manifests that differ in the accounts of the requests at most.        *)
SameBut(n, m) ==
    /\ n.status = m.status /\ n.examples = m.examples
    /\ n.rounds = m.rounds /\ n.runs = m.runs

LEMMA RequestsUpdate ==
    ASSUME NEW m \in Manifest, NEW q \in Nat
    PROVE  LET n == [m EXCEPT !.requests = q]
           IN  n \in Manifest /\ n.requests = q /\ n.teacher = m.teacher /\ SameBut(n, m)
  BY DEF Manifest, SameBut

LEMMA SyncedFacts ==
    ASSUME NEW m \in Manifest, NEW sent \in SUBSET Plan
    PROVE  LET n == Synced(m, sent)
           IN  /\ n \in Manifest /\ SameBut(n, m) /\ n.teacher = m.teacher
               /\ n.requests = m.requests \/ n.requests = Cardinality(sent)
<1>1. m.requests \in Nat /\ Cardinality(sent) \in Nat
  BY PartSize DEF Manifest
<1>2. PICK q \in Nat : q = Larger(m.requests, Cardinality(sent))
  BY <1>1 DEF Larger
<1>3. Synced(m, sent) = [m EXCEPT !.requests = q]
  BY <1>2 DEF Synced
<1> QED
  BY <1>1, <1>2, <1>3, RequestsUpdate DEF Larger

LEMMA TeacherUpdate ==
    ASSUME NEW m \in Manifest, NEW t \in Teacher
    PROVE  LET n == [m EXCEPT !.teacher = t]
           IN  n \in Manifest /\ n.requests = m.requests /\ n.teacher = t /\ SameBut(n, m)
  BY DEF Manifest, SameBut

LEMMA RefreshedFacts ==
    ASSUME NEW m \in Manifest, NEW sent \in SUBSET Plan, NEW resolved \in SUBSET Plan,
           NEW outcome
    PROVE  LET n == Refreshed(m, sent, resolved, outcome)
               valid == ValidIn(resolved, outcome)
           IN  /\ n \in Manifest /\ SameBut(n, m)
               /\ n.requests = m.requests \/ n.requests = Cardinality(sent)
               /\ n.teacher = Account(sent, resolved, outcome)
               /\ n.teacher.attempted = Cardinality(sent)
               /\ n.teacher.resolved = Cardinality(resolved)
               /\ n.teacher.valid = Cardinality(valid)
<1> DEFINE valid == ValidIn(resolved, outcome)
           t == Account(sent, resolved, outcome)
           y == Synced(m, sent)
<1>1. Cardinality(sent) \in Nat /\ Cardinality(resolved) \in Nat /\ Cardinality(valid) \in Nat
      /\ Cardinality(Plan) \in Nat
  BY PartSize, PlanFinite DEF ValidIn
<1>2. t \in Teacher /\ t.attempted = Cardinality(sent) /\ t.resolved = Cardinality(resolved)
      /\ t.valid = Cardinality(valid)
  BY <1>1 DEF Teacher, Account
<1>3. Refreshed(m, sent, resolved, outcome) = [y EXCEPT !.teacher = t]
  BY DEF Refreshed, ValidIn, Account
<1> HIDE DEF t
<1>4. /\ y \in Manifest /\ SameBut(y, m)
      /\ y.requests = m.requests \/ y.requests = Cardinality(sent)
  BY SyncedFacts
<1> HIDE DEF y
<1>5. LET n == [y EXCEPT !.teacher = t]
      IN  n \in Manifest /\ n.requests = y.requests /\ n.teacher = t /\ SameBut(n, y)
  BY <1>2, <1>4, TeacherUpdate
<1> QED
  BY <1>2, <1>3, <1>4, <1>5 DEF SameBut, t

WithMarket(m, a, b) == [m EXCEPT !.rounds = a, !.runs = b]

LEMMA MarketUpdate ==
    ASSUME NEW m \in Manifest, NEW a \in Counts, NEW b \in Counts
    PROVE  LET n == WithMarket(m, a, b)
           IN  /\ n \in Manifest /\ n.requests = m.requests /\ n.teacher = m.teacher
               /\ n.status = m.status /\ n.examples = m.examples
               /\ n.rounds = a /\ n.runs = b
<1> DEFINE x == [m EXCEPT !.rounds = a]
<1>1. /\ x \in Manifest /\ x.requests = m.requests /\ x.teacher = m.teacher
      /\ x.status = m.status /\ x.examples = m.examples /\ x.rounds = a
  BY DEF Manifest
<1>2. WithMarket(m, a, b) = [x EXCEPT !.runs = b]
  BY DEF WithMarket
<1> HIDE DEF x
<1>3. LET n == [x EXCEPT !.runs = b]
      IN  /\ n \in Manifest /\ n.requests = x.requests /\ n.teacher = x.teacher
          /\ n.status = x.status /\ n.examples = x.examples
          /\ n.rounds = x.rounds /\ n.runs = b
  BY <1>1 DEF Manifest
<1> QED
  BY <1>1, <1>2, <1>3

LEMMA MarketRefreshedFacts ==
    ASSUME NEW m \in Manifest, NEW held \in Markets, NEW terminal \in BOOLEAN
    PROVE  LET n == MarketRefreshed(m, held, terminal)
           IN  /\ n \in Manifest /\ n.requests = m.requests /\ n.teacher = m.teacher
               /\ n.status = m.status /\ n.examples = m.examples
               /\ n.rounds = [started |-> held.rounds, completed |-> held.settled,
                              failed |-> IF terminal THEN held.rounds - held.settled ELSE 0]
               /\ n.runs = [started |-> held.runs, completed |-> held.catalog,
                            failed |-> IF terminal THEN held.runs - held.catalog ELSE 0]
               /\ n.rounds.completed = held.settled /\ n.runs.completed = held.catalog
<1> DEFINE a == [started |-> held.rounds, completed |-> held.settled,
                 failed |-> IF terminal THEN held.rounds - held.settled ELSE 0]
           b == [started |-> held.runs, completed |-> held.catalog,
                 failed |-> IF terminal THEN held.runs - held.catalog ELSE 0]
<1>1. a \in Counts /\ b \in Counts /\ a.completed = held.settled /\ b.completed = held.catalog
  BY DEF Counts, Markets
<1>2. MarketRefreshed(m, held, terminal) = WithMarket(m, a, b)
  BY DEF MarketRefreshed, WithMarket
<1> HIDE DEF a, b
<1>3. LET n == MarketRefreshed(m, held, terminal)
      IN  /\ n \in Manifest /\ n.requests = m.requests /\ n.teacher = m.teacher
          /\ n.status = m.status /\ n.examples = m.examples
          /\ n.rounds = a /\ n.runs = b
  BY <1>1, <1>2, MarketUpdate
<1>4. LET n == MarketRefreshed(m, held, terminal)
      IN  n.rounds.completed = held.settled /\ n.runs.completed = held.catalog
  BY <1>1, <1>3
<1> QED
  BY <1>3, <1>4 DEF a, b

LEMMA ExamplesUpdate ==
    ASSUME NEW m \in Manifest, NEW e \in Nat
    PROVE  LET n == [m EXCEPT !.examples = e]
           IN  /\ n \in Manifest /\ n.requests = m.requests /\ n.teacher = m.teacher
               /\ n.status = m.status /\ n.examples = e
               /\ n.rounds = m.rounds /\ n.runs = m.runs
  BY DEF Manifest

-----------------------------------------------------------------------------
(* What is backed stays backed                                               *)

(* Nothing durable is ever taken away.                                       *)
LEMMA BackedGrows ==
    ASSUME NEW m \in Manifest,
           NEW req, NEW res, NEW seen, NEW made \in Nat, NEW settled \in Nat, NEW run \in Nat,
           NEW req2 \in SUBSET Plan, NEW res2 \in SUBSET Plan, NEW seen2 \in SUBSET Plan,
           NEW made2 \in Nat, NEW settled2 \in Nat, NEW run2 \in Nat,
           req \subseteq req2, res \subseteq res2, seen \subseteq seen2,
           made <= made2 \/ m.examples = 0, settled <= settled2, run <= run2,
           BackedIn(m, req, res, seen, made, settled, run)
    PROVE  BackedIn(m, req2, res2, seen2, made2, settled2, run2)
<1>1. /\ Cardinality(req) \in Nat /\ Cardinality(req2) \in Nat
      /\ Cardinality(req) <= Cardinality(req2)
  BY PartSize
<1>2. /\ Cardinality(seen) \in Nat /\ Cardinality(seen2) \in Nat
      /\ Cardinality(seen) <= Cardinality(seen2)
  BY PartSize
<1>3. /\ Cardinality(seen \intersect res) \in Nat /\ Cardinality(seen2 \intersect res2) \in Nat
      /\ Cardinality(seen \intersect res) <= Cardinality(seen2 \intersect res2)
  <2>1. seen2 \intersect res2 \in SUBSET Plan
        /\ seen \intersect res \in SUBSET (seen2 \intersect res2)
    OBVIOUS
  <2> QED
    BY <2>1, PartSize
<1>4. /\ m.teacher \in Teacher /\ m.requests \in Nat /\ m.examples \in Nat
      /\ m.rounds \in Counts /\ m.runs \in Counts
  BY DEF Manifest
<1>5. /\ m.teacher.attempted \in Nat /\ m.teacher.resolved \in Nat /\ m.teacher.valid \in Nat
      /\ m.rounds.completed \in Nat /\ m.runs.completed \in Nat
  BY <1>4 DEF Teacher, Counts
<1> QED
  BY <1>1, <1>2, <1>3, <1>4, <1>5 DEF BackedIn, Learnt

LEMMA BackedSynced ==
    ASSUME NEW m \in Manifest, NEW sent,
           NEW req \in SUBSET Plan, NEW res, NEW seen, NEW made, NEW settled, NEW run,
           sent \subseteq req, BackedIn(m, req, res, seen, made, settled, run)
    PROVE  BackedIn(Synced(m, sent), req, res, seen, made, settled, run)
<1>1. Cardinality(sent) <= Cardinality(req)
  BY PartSize
<1>2. LET n == Synced(m, sent)
      IN  /\ n \in Manifest /\ SameBut(n, m) /\ n.teacher = m.teacher
          /\ n.requests = m.requests \/ n.requests = Cardinality(sent)
  BY SyncedFacts
<1> HIDE DEF Synced
<1> QED
  BY <1>1, <1>2 DEF BackedIn, SameBut

LEMMA BackedRefreshed ==
    ASSUME NEW m \in Manifest, NEW sent, NEW resolved, NEW outcome,
           NEW req \in SUBSET Plan, NEW res, NEW seen \in SUBSET Plan, NEW made,
           NEW settled, NEW run,
           sent \subseteq req, resolved \subseteq seen,
           ValidIn(resolved, outcome) \subseteq res,
           BackedIn(m, req, res, seen, made, settled, run)
    PROVE  BackedIn(Refreshed(m, sent, resolved, outcome),
                    req, res, seen, made, settled, run)
<1> DEFINE valid == ValidIn(resolved, outcome)
           n == Refreshed(m, sent, resolved, outcome)
<1>1. /\ Cardinality(sent) <= Cardinality(req)
      /\ Cardinality(resolved) <= Cardinality(seen)
  BY PartSize
<1>2. Cardinality(valid) <= Cardinality(seen \intersect res)
  <2>1. seen \intersect res \in SUBSET Plan /\ valid \in SUBSET (seen \intersect res)
    BY DEF ValidIn
  <2> QED
    BY <2>1, PartSize
<1>3. sent \in SUBSET Plan /\ resolved \in SUBSET Plan
  OBVIOUS
<1>4. /\ n \in Manifest /\ SameBut(n, m)
      /\ n.requests = m.requests \/ n.requests = Cardinality(sent)
      /\ n.teacher.attempted = Cardinality(sent)
      /\ n.teacher.resolved = Cardinality(resolved)
      /\ n.teacher.valid = Cardinality(valid)
  BY <1>3, RefreshedFacts
<1> HIDE DEF n, valid
<1>5. BackedIn(n, req, res, seen, made, settled, run)
  BY <1>1, <1>2, <1>4 DEF BackedIn, SameBut
<1> QED
  BY <1>5 DEF n

LEMMA BackedMarket ==
    ASSUME NEW m \in Manifest, NEW held \in Markets, NEW terminal \in BOOLEAN,
           NEW req, NEW res, NEW seen, NEW made, NEW settled, NEW run,
           held.settled <= settled, held.catalog <= run,
           BackedIn(m, req, res, seen, made, settled, run)
    PROVE  BackedIn(MarketRefreshed(m, held, terminal), req, res, seen, made, settled, run)
<1> DEFINE n == MarketRefreshed(m, held, terminal)
<1>1. /\ n \in Manifest /\ n.requests = m.requests /\ n.teacher = m.teacher
      /\ n.status = m.status /\ n.examples = m.examples
      /\ n.rounds.completed = held.settled /\ n.runs.completed = held.catalog
  BY MarketRefreshedFacts
<1> HIDE DEF n
<1>2. BackedIn(n, req, res, seen, made, settled, run)
  BY <1>1 DEF BackedIn
<1> QED
  BY <1>2 DEF n

-----------------------------------------------------------------------------
(* How a handler ends, and what its refresh has written by then              *)

LEMMA EndsFacts ==
    ASSUME NEW n, NEW last, NEW next, NEW error, Ends(n, last, next, error), faults \in Nat
    PROVE  /\ faults' \in Nat /\ faults' >= faults
           /\ \/ n = last /\ pc' = next /\ faults' = faults
              \/ n # last /\ pc' = error /\ faults' = faults + 1
              \/ n # last /\ pc' = "crashed" /\ faults' = faults
  BY DEF Ends, Raise

LEMMA RefreshFacts ==
    ASSUME NEW n \in Int, NEW sent, NEW resolved, NEW outcome, NEW before,
           Refresh(n, sent, resolved, outcome, before)
    PROVE  /\ mem' \in {mem, Synced(mem, sent), Refreshed(mem, sent, resolved, outcome)}
           /\ disk' \in {before, Synced(mem, sent), Refreshed(mem, sent, resolved, outcome)}
           /\ n >= 4 => mem' = Refreshed(mem, sent, resolved, outcome)
  BY DEF Refresh

LEMMA RefreshMarketFacts ==
    ASSUME NEW n \in Int, NEW held, NEW terminal, NEW before,
           RefreshMarket(n, held, terminal, before)
    PROVE  /\ mem' \in {mem, MarketRefreshed(mem, held, terminal)}
           /\ disk' \in {before, MarketRefreshed(mem, held, terminal)}
           /\ n >= 2 => /\ mem' = MarketRefreshed(mem, held, terminal)
                        /\ disk' = MarketRefreshed(mem, held, terminal)
           /\ n < 1 => mem' = mem
  BY DEF RefreshMarket

(* A step that gives no verdict.                                             *)
LEMMA NoVerdict ==
    ASSUME mem'.status = "running", disk'.status = "running"
    PROVE  VerdictInv' /\ FailureAccountsClose' /\ FinishedIsComplete'
  BY DEF VerdictInv, FailureAccountsClose, FinishedIsComplete

(* The parts of the invariant that are about the market and what is learnt,  *)
(* in a step of the sampling phase.                                          *)
LEMMA SamplingKeeps ==
    ASSUME CampaignInv, pc \in {"sample", "closing", "cancelled"},
           UNCHANGED <<learnt, market, ledger, files>>,
           pc' \in {"sample", "closing", "cancelled", "distil", "failing", "crashed"},
           mem' \in Manifest, SameBut(mem', mem), disk' \in Manifest,
           SameBut(disk', mem) \/ SameBut(disk', disk)
    PROVE  /\ LearntInv' /\ MarketInv' /\ ProductInv'
           /\ MarketExact(mem, 0, 0)'
           /\ MarketExact(mem, market.rounds - market.settled, market.runs - market.catalog)'
           /\ VerdictInv' /\ FailureAccountsClose' /\ FinishedIsComplete'
<1>0. /\ LearntInv /\ MarketInv /\ ProductInv /\ VerdictInv /\ ExactInv
      /\ UNCHANGED <<student, products, summary>>
  BY DEF CampaignInv, learnt
<1>1. /\ market = [runs |-> 0, rounds |-> 0, settled |-> 0, catalog |-> 0]
      /\ mem.examples = 0 /\ disk.examples = 0
      /\ market.runs = 0 /\ market.rounds = 0 /\ market.settled = 0 /\ market.catalog = 0
  BY <1>0 DEF LearntInv, Early
<1>2. LearntInv'
  <2>1. mem'.examples = 0 /\ disk'.examples = 0
    BY <1>1 DEF SameBut
  <2> QED
    BY <1>0, <1>1, <2>1 DEF LearntInv, Early, Later
<1>3. MarketInv'
  BY <1>0, <1>1 DEF MarketInv, Orderly
<1>4. ProductInv'
  BY DEF ProductInv
<1>5. /\ MarketExact(mem, 0, 0)'
      /\ MarketExact(mem, market.rounds - market.settled, market.runs - market.catalog)'
  BY <1>0, <1>1 DEF ExactInv, Orderly, MarketExact, SameBut
<1>6. mem'.status = "running" /\ disk'.status = "running"
  BY <1>0 DEF VerdictInv, Ended, SameBut
<1> QED
  BY <1>2, <1>3, <1>4, <1>5, <1>6, NoVerdict

-----------------------------------------------------------------------------
(* The samples                                                               *)

LEMMA AttemptStep ==
    ASSUME CampaignInv, NEW s \in Plan, Attempt(s)
    PROVE  CampaignInv'
<1>0. /\ TypeInv /\ SampleInv /\ BackedBy(mem) /\ BackedBy(disk) /\ VerdictInv /\ ExactInv
      /\ pc \in Running /\ task[s] = "waiting"
      /\ mem \in Manifest /\ disk \in Manifest /\ log \in Logs
      /\ task \in [Plan -> Statuses] /\ faults \in Nat
      /\ UNCHANGED <<private, public, rows, learnt, market, ledger, files>>
  BY DEF CampaignInv, Attempt, TypeInv
<1> DEFINE counted == [mem EXCEPT !.requests = @ + 1]
<1>1. PICK n \in 0..4 :
         /\ log' = IF n >= 1 THEN [log EXCEPT !.requests = @ \union {s}] ELSE log
         /\ mem' = IF n >= 2 THEN counted ELSE mem
         /\ disk' = IF n >= 3 THEN counted ELSE disk
         /\ task' = [task EXCEPT ![s] = IF n = 4 THEN "sent" ELSE "unannounced"]
         /\ Ends(n, 4, pc, "closing")
  BY DEF Attempt
<1>2. /\ log.requests \in SUBSET Plan /\ log.responses \in SUBSET Plan
      /\ log' \in Logs /\ log'.responses = log.responses
      /\ log'.requests = IF n >= 1 THEN log.requests \union {s} ELSE log.requests
  BY <1>0, <1>1 DEF Logs
<1>3. mem.requests \in Nat
  BY <1>0 DEF Manifest
<1>4. /\ counted \in Manifest /\ counted.requests = mem.requests + 1
      /\ counted.teacher = mem.teacher /\ SameBut(counted, mem)
  BY <1>0, <1>3, RequestsUpdate
<1> HIDE DEF counted
<1>5. /\ faults' \in Nat /\ faults' >= faults
      /\ \/ n = 4 /\ pc' = pc /\ faults' = faults
         \/ n # 4 /\ pc' = "closing" /\ faults' = faults + 1
         \/ n # 4 /\ pc' = "crashed" /\ faults' = faults
  BY <1>0, <1>1, EndsFacts
<1>6. /\ mem' \in Manifest /\ disk' \in Manifest
      /\ mem'.teacher = mem.teacher /\ SameBut(mem', mem)
      /\ SameBut(disk', mem) \/ SameBut(disk', disk)
  BY <1>0, <1>1, <1>4 DEF SameBut
<1>7. /\ task' \in [Plan -> Statuses] /\ task'[s] = IF n = 4 THEN "sent" ELSE "unannounced"
      /\ \A t \in Plan \ {s} : task'[t] = task[t]
  BY <1>0, <1>1 DEF Statuses
<1>8. TypeInv'
  BY <1>0, <1>2, <1>5, <1>6, <1>7 DEF TypeInv, learnt, Phases, Running, Ended
<1>9. SampleInv'
  BY <1>0, <1>1, <1>2, <1>7 DEF SampleInv, Sent, Outcomes
<1>10. BackedBy(mem)' /\ BackedBy(disk)'
  <2>1. /\ log.requests \subseteq log'.requests /\ log'.requests \in SUBSET Plan
        /\ products \in Nat /\ ledger \in Nat /\ files \in Nat
        /\ products' = products /\ public \in SUBSET Plan
    BY <1>0, <1>2 DEF TypeInv, learnt
  <2>2. BackedBy(mem)' \/ n >= 2
    <3>1. BackedIn(mem, log'.requests, log.responses, public, products, ledger, files)
      BY <1>0, <1>2, <2>1, BackedGrows DEF BackedBy
    <3> QED
      BY <1>0, <1>1, <1>2, <2>1, <3>1 DEF BackedBy
  <2>3. ASSUME n >= 2
        PROVE  BackedIn(counted, log'.requests, log.responses, public, products, ledger, files)
    <3>1. s \notin log.requests
      BY <1>0 DEF SampleInv
    <3>2. Cardinality(log'.requests) = Cardinality(log.requests) + 1
          /\ Cardinality(log.requests) \in Nat
      BY <1>2, <2>3, <3>1, OneMore, PartSize
    <3>3. BackedIn(mem, log'.requests, log.responses, public, products, ledger, files)
      BY <1>0, <1>2, <2>1, BackedGrows DEF BackedBy
    <3>4. mem.requests <= Cardinality(log.requests)
      BY <1>0 DEF BackedBy, BackedIn
    <3> QED
      BY <1>3, <1>4, <3>2, <3>3, <3>4 DEF BackedIn, SameBut
  <2>4. BackedIn(disk, log'.requests, log.responses, public, products, ledger, files)
    BY <1>0, <1>2, <2>1, BackedGrows DEF BackedBy
  <2>5. /\ mem' = counted \/ n < 2
        /\ disk' \in {disk, counted}
        /\ disk' = counted => n >= 2 \/ disk' = disk
    BY <1>1
  <2> QED
    BY <1>0, <1>1, <1>2, <2>1, <2>2, <2>3, <2>4 DEF BackedBy
<1>11. /\ LearntInv' /\ MarketInv' /\ ProductInv'
       /\ MarketExact(mem, 0, 0)'
       /\ VerdictInv' /\ FailureAccountsClose' /\ FinishedIsComplete'
  BY <1>0, <1>5, <1>6, SamplingKeeps DEF Running
<1>12. ExactInv'
  <2>1. n = 4 => s \in InFlight'
    BY <1>7 DEF InFlight
  <2>2. /\ pc' = "sample" => n = 4
        /\ pc' \in {"sample", "closing", "crashed"}
        /\ pc' = "closing" => faults' >= 1
    BY <1>0, <1>5 DEF ExactInv, Wounded, Running
  <2> QED
    BY <1>11, <2>1, <2>2 DEF ExactInv, Wounded, Later
<1> QED
  BY <1>8, <1>9, <1>10, <1>11, <1>12 DEF CampaignInv

LEMMA CompleteStep ==
    ASSUME CampaignInv, NEW s \in Plan, Complete(s)
    PROVE  CampaignInv'
<1>0. /\ TypeInv /\ SampleInv /\ BackedBy(mem) /\ BackedBy(disk) /\ VerdictInv /\ ExactInv
      /\ pc \in Running /\ task[s] = "sent"
      /\ mem \in Manifest /\ disk \in Manifest /\ log \in Logs
      /\ task \in [Plan -> Statuses] /\ faults \in Nat
      /\ private \in SUBSET Plan /\ public \in SUBSET Plan /\ rows \in SUBSET Plan
      /\ products \in Nat /\ ledger \in Nat /\ files \in Nat
      /\ UNCHANGED <<learnt, market, ledger, files>>
  BY DEF CampaignInv, Complete, TypeInv
<1> DEFINE resolved == rows \union {s}
<1>1. PICK out \in Outcomes, n \in 0..10 :
         LET outcome == [task EXCEPT ![s] = IF n >= 5 THEN out ELSE "lost"]
         IN  /\ task' = outcome
             /\ log' = IF n >= 1 /\ out # "exception"
                       THEN [log EXCEPT !.responses = @ \union {s}] ELSE log
             /\ private' = IF n >= 3 THEN private \union {s} ELSE private
             /\ public' = IF n >= 4 THEN public \union {s} ELSE public
             /\ rows' = IF n >= 5 THEN resolved ELSE rows
             /\ Refresh(n - 6, Sent, resolved, outcome,
                        IF n >= (IF out = "exception" THEN 6 ELSE 2) THEN mem ELSE disk)
             /\ Ends(n, 10, pc, "closing")
  BY DEF Complete
<1> DEFINE outcome == [task EXCEPT ![s] = IF n >= 5 THEN out ELSE "lost"]
           r == Refreshed(mem, Sent, resolved, outcome)
           y == Synced(mem, Sent)
<1>2. /\ log.requests \in SUBSET Plan /\ log.responses \in SUBSET Plan
      /\ log' \in Logs /\ log'.requests = log.requests
      /\ log'.responses = IF n >= 1 /\ out # "exception" THEN log.responses \union {s}
                          ELSE log.responses
  BY <1>0, <1>1 DEF Logs
<1>3. /\ outcome \in [Plan -> Statuses]
      /\ outcome[s] = IF n >= 5 THEN out ELSE "lost"
      /\ \A t \in Plan \ {s} : outcome[t] = task[t]
      /\ task' = outcome
  BY <1>0, <1>1 DEF Statuses
<1> HIDE DEF outcome
<1>4. /\ Sent \in SUBSET Plan /\ Sent \subseteq log.requests /\ s \in Sent
      /\ resolved \in SUBSET Plan
  BY <1>0 DEF SampleInv, Sent
<1>5. Sent' = Sent
  BY <1>0, <1>3 DEF Sent, Outcomes
<1>6. /\ mem' \in {mem, y, r} /\ disk' \in {mem, disk, y, r}
      /\ n = 10 => mem' = r
      /\ n <= 6 => mem' = mem /\ disk' \in {mem, disk}
  <2>1. Refresh(n - 6, Sent, resolved, outcome,
                IF n >= (IF out = "exception" THEN 6 ELSE 2) THEN mem ELSE disk)
        /\ n - 6 \in Int
    BY <1>1 DEF outcome
  <2>2. mem' \in {mem, y, r} /\ (n = 10 => mem' = r)
    BY <2>1, RefreshFacts
  <2>3. disk' \in {IF n >= (IF out = "exception" THEN 6 ELSE 2) THEN mem ELSE disk, y, r}
    BY <2>1, RefreshFacts
  <2>4. n <= 6 => mem' = mem /\ disk' \in {mem, disk}
    BY <2>1 DEF Refresh
  <2> QED
    BY <2>2, <2>3, <2>4
<1>7. /\ y \in Manifest /\ SameBut(y, mem)
  BY <1>0, <1>4, SyncedFacts
<1>8. /\ r \in Manifest /\ SameBut(r, mem) /\ r.teacher = Account(Sent, resolved, outcome)
  <2>1. mem \in Manifest /\ Sent \in SUBSET Plan /\ resolved \in SUBSET Plan
    BY <1>0, <1>4
  <2> HIDE DEF resolved
  <2> QED
    BY <2>1, RefreshedFacts
<1> HIDE DEF y, r
<1>9. /\ mem' \in Manifest /\ disk' \in Manifest /\ SameBut(mem', mem)
      /\ SameBut(disk', mem) \/ SameBut(disk', disk)
  BY <1>0, <1>6, <1>7, <1>8 DEF SameBut
<1>10. /\ faults' \in Nat /\ faults' >= faults
       /\ \/ n = 10 /\ pc' = pc /\ faults' = faults
          \/ n # 10 /\ pc' = "closing" /\ faults' = faults + 1
          \/ n # 10 /\ pc' = "crashed" /\ faults' = faults
  BY <1>0, <1>1, EndsFacts
<1>11. /\ private' \in SUBSET Plan /\ public' \in SUBSET Plan /\ rows' \in SUBSET Plan
       /\ private \subseteq private' /\ public \subseteq public'
       /\ n >= 5 => s \in public' /\ s \in private' /\ rows' = resolved
  BY <1>0, <1>1
<1>12. TypeInv'
  BY <1>0, <1>2, <1>3, <1>9, <1>10, <1>11
  DEF TypeInv, learnt, Phases, Running, Ended
<1>13. s \notin rows /\ s \in log.requests
  BY <1>0, <1>4 DEF SampleInv, Outcomes
<1>14. SampleInv'
  <2>1. \A t \in Plan : task'[t] = "waiting" => t \notin log'.requests
    BY <1>0, <1>2, <1>3 DEF SampleInv, Outcomes
  <2>2. rows' = {t \in Plan : task'[t] \in Outcomes}
    <3>1. CASE n >= 5
      BY <1>0, <1>3, <1>11, <3>1 DEF SampleInv
    <3>2. CASE n < 5
      <4>1. rows' = rows /\ task'[s] = "lost"
        BY <1>1, <1>3, <3>2
      <4> QED
        BY <1>0, <1>3, <1>13, <4>1 DEF SampleInv, Outcomes
    <3> QED
      BY <3>1, <3>2
  <2>3. rows' \subseteq public' /\ public' \subseteq private' /\ private' \subseteq log'.requests
    BY <1>0, <1>1, <1>2, <1>11, <1>13 DEF SampleInv
  <2>4. \A t \in Plan : task'[t] = "valid" => t \in log'.responses
    BY <1>0, <1>2, <1>3 DEF SampleInv
  <2> QED
    BY <1>2, <1>4, <1>5, <2>1, <2>2, <2>3, <2>4 DEF SampleInv
<1>15. BackedBy(mem)' /\ BackedBy(disk)'
  <2>1. /\ log'.requests \in SUBSET Plan /\ log'.responses \in SUBSET Plan
        /\ log.responses \subseteq log'.responses
    BY <1>0, <1>2
  <2> DEFINE B(m) == BackedIn(m, log'.requests, log'.responses, public', products, ledger, files)
  <2>2. B(mem) /\ B(disk)
    BY <1>0, <1>2, <1>11, <2>1, BackedGrows DEF BackedBy
  <2>3. B(y)
    BY <1>0, <1>2, <1>4, <2>1, <2>2, BackedSynced DEF y
  <2>4. n >= 7 => B(r)
    <3> SUFFICES ASSUME n >= 7 PROVE B(r)
      OBVIOUS
    <3>1. resolved \subseteq public'
      BY <1>0, <1>11 DEF SampleInv
    <3>2. ValidIn(resolved, outcome) \subseteq log'.responses
      BY <1>0, <1>2, <1>3 DEF SampleInv, ValidIn
    <3> QED
      BY <1>0, <1>2, <1>4, <1>11, <2>1, <2>2, <3>1, <3>2, BackedRefreshed DEF r
  <2>5. B(mem') /\ B(disk')
    <3> HIDE DEF B
    <3> QED
      BY <1>6, <2>2, <2>3, <2>4
  <2> QED
    BY <1>0, <2>5 DEF BackedBy, learnt
<1>16. /\ LearntInv' /\ MarketInv' /\ ProductInv'
       /\ MarketExact(mem, 0, 0)'
       /\ VerdictInv' /\ FailureAccountsClose' /\ FinishedIsComplete'
  BY <1>0, <1>9, <1>10, SamplingKeeps DEF Running
<1>17. ExactInv'
  <2>1. n = 10 => mem'.teacher = Exact'
    BY <1>3, <1>5, <1>6, <1>8, <1>11 DEF Exact
  <2>2. /\ pc' = "sample" => n = 10
        /\ pc' \in {"sample", "closing", "crashed"}
        /\ pc' = "closing" => faults' >= 1
    BY <1>0, <1>10 DEF ExactInv, Wounded, Running
  <2> QED
    BY <1>16, <2>1, <2>2 DEF ExactInv, Wounded, Later
<1> QED
  BY <1>12, <1>14, <1>15, <1>16, <1>17 DEF CampaignInv

(* What is durable stays backed when nothing durable changes.                *)
LEMMA SameEvidence ==
    ASSUME UNCHANGED <<log, private, public, rows, task, products, ledger, files, market>>
    PROVE  /\ SampleInv => SampleInv'
           /\ \A m : BackedIn(m, log'.requests, log'.responses, public', products', ledger', files')
                       <=> BackedBy(m)
           /\ Exact' = Exact /\ Sent' = Sent /\ Examples' = Examples
  BY DEF SampleInv, BackedBy, Exact, Sent, Examples, Target

LEMMA CloseStep ==
    ASSUME CampaignInv, Close \/ Interrupt
    PROVE  CampaignInv'
<1>0. /\ TypeInv /\ SampleInv /\ BackedBy(mem) /\ BackedBy(disk) /\ ExactInv
      /\ mem \in Manifest /\ disk \in Manifest /\ faults \in Nat
      /\ pc \in {"sample", "closing"} /\ pc' = "cancelled"
      /\ UNCHANGED <<task, evidence, rows, learnt, market, ledger, files, mem, disk>>
      /\ \/ pc = "closing" /\ faults' = faults
         \/ faults' = faults + 1
  BY DEF CampaignInv, TypeInv, Close, Interrupt, Raise
<1>1. TypeInv'
  BY <1>0 DEF TypeInv, Phases, evidence, learnt
<1>2. SampleInv' /\ BackedBy(mem)' /\ BackedBy(disk)'
  BY <1>0, SameEvidence DEF BackedBy, evidence, learnt
<1>3. /\ LearntInv' /\ MarketInv' /\ ProductInv' /\ MarketExact(mem, 0, 0)'
      /\ VerdictInv' /\ FailureAccountsClose' /\ FinishedIsComplete'
  BY <1>0, SamplingKeeps DEF SameBut
<1>4. ExactInv'
  BY <1>0, <1>3 DEF ExactInv, Wounded, Later
<1> QED
  BY <1>1, <1>2, <1>3, <1>4 DEF CampaignInv

LEMMA FinalRefreshStep ==
    ASSUME CampaignInv, FinalRefresh
    PROVE  CampaignInv'
<1>0. /\ TypeInv /\ SampleInv /\ BackedBy(mem) /\ BackedBy(disk) /\ ExactInv
      /\ mem \in Manifest /\ disk \in Manifest /\ faults \in Nat
      /\ UNCHANGED <<task, evidence, rows, learnt, market, ledger, files>>
      /\ log.requests \in SUBSET Plan /\ rows \in SUBSET Plan /\ public \in SUBSET Plan
      /\ pc = "cancelled" \/ (pc = "sample" /\ rows = Plan)
  BY DEF CampaignInv, TypeInv, FinalRefresh, Logs, Resolved
<1>1. PICK n \in 0..4 :
         /\ Refresh(n, Sent, rows, task, disk)
         /\ Ends(n, 4, IF pc = "cancelled" THEN "failing" ELSE "distil", "failing")
  BY DEF FinalRefresh
<1> DEFINE r == Refreshed(mem, Sent, rows, task)
           y == Synced(mem, Sent)
<1>2. /\ mem' \in {mem, y, r} /\ disk' \in {disk, y, r} /\ (n = 4 => mem' = r)
  BY <1>1, RefreshFacts
<1>3. Sent \in SUBSET Plan /\ Sent \subseteq log.requests /\ rows \subseteq public
      /\ ValidIn(rows, task) \subseteq log.responses
  BY <1>0 DEF SampleInv, Sent, ValidIn
<1>4. /\ y \in Manifest /\ SameBut(y, mem) /\ y.teacher = mem.teacher /\ BackedBy(y)
  BY <1>0, <1>3, SyncedFacts, BackedSynced DEF BackedBy
<1>5. /\ r \in Manifest /\ SameBut(r, mem) /\ r.teacher = Exact
  <2>1. mem \in Manifest /\ Sent \in SUBSET Plan /\ rows \in SUBSET Plan
    BY <1>0, <1>3
  <2> QED
    BY <2>1, RefreshedFacts DEF Exact
<1>6. BackedBy(r)
  BY <1>0, <1>3, BackedRefreshed DEF BackedBy
<1> HIDE DEF y, r
<1>7. /\ mem' \in Manifest /\ disk' \in Manifest /\ SameBut(mem', mem)
      /\ SameBut(disk', mem) \/ SameBut(disk', disk)
  BY <1>0, <1>2, <1>4, <1>5 DEF SameBut
<1>8. /\ faults' \in Nat /\ faults' >= faults
      /\ \/ n = 4 /\ pc = "cancelled" /\ pc' = "failing" /\ faults' = faults
         \/ n = 4 /\ pc = "sample" /\ pc' = "distil" /\ faults' = faults
         \/ n # 4 /\ pc' = "failing" /\ faults' = faults + 1
         \/ n # 4 /\ pc' = "crashed" /\ faults' = faults
  BY <1>0, <1>1, EndsFacts
<1>9. TypeInv'
  BY <1>0, <1>7, <1>8 DEF TypeInv, Phases, Ended, evidence, learnt
<1>10. SampleInv' /\ BackedBy(mem)' /\ BackedBy(disk)' /\ Exact' = Exact
  BY <1>0, <1>2, <1>4, <1>6, SameEvidence DEF BackedBy, evidence, learnt
<1>11. /\ LearntInv' /\ MarketInv' /\ ProductInv'
       /\ MarketExact(mem, 0, 0)'
       /\ MarketExact(mem, market.rounds - market.settled, market.runs - market.catalog)'
       /\ VerdictInv' /\ FailureAccountsClose' /\ FinishedIsComplete'
  BY <1>0, <1>7, <1>8, SamplingKeeps
<1>12. ExactInv'
  <2>1. pc = "sample" => mem.teacher = Exact
    <3>1. pc = "sample" => InFlight = {}
      BY <1>0 DEF InFlight, SampleInv, Outcomes
    <3> QED
      BY <1>0, <3>1 DEF ExactInv
  <2>2. pc = "sample" \/ n = 4 => mem'.teacher = Exact
    BY <1>2, <1>4, <1>5, <2>1
  <2>3. pc = "cancelled" => faults >= 1
    BY <1>0 DEF ExactInv, Wounded
  <2>4. pc' = "distil" => rows' = Plan /\ mem'.teacher = Exact'
    BY <1>0, <1>8, <1>10, <2>2
  <2>5. pc' = "failing" /\ faults' <= 1 => mem'.teacher = Exact'
    BY <1>0, <1>8, <1>10, <2>2, <2>3
  <2> QED
    BY <1>8, <1>11, <2>4, <2>5 DEF ExactInv, Wounded, Later
<1> QED
  BY <1>9, <1>10, <1>11, <1>12 DEF CampaignInv

-----------------------------------------------------------------------------
(* Distillation                                                              *)

(* The state of a sample is a state: dividing by the replicates of each.     *)
LEMMA StateOfSample ==
    ASSUME NEW s \in Plan
    PROVE  StateOf(s) \in 1..States
<1>1. States \in Nat /\ Replicates \in Nat /\ Replicates > 0 /\ s \in Nat /\ s >= 1
      /\ s <= States * Replicates /\ States * Replicates \in Nat
  BY CampaignAssumption DEF Plan
<1>2. PICK q \in Nat, r \in Nat : s - 1 = q * Replicates + r
                                  /\ q = (s - 1) \div Replicates /\ r < Replicates
  <2>1. /\ (s - 1) \div Replicates \in Nat /\ (s - 1) % Replicates \in Nat
        /\ (s - 1) % Replicates < Replicates
        /\ s - 1 = ((s - 1) \div Replicates) * Replicates + ((s - 1) % Replicates)
    BY <1>1
  <2> QED
    BY <2>1
<1>3. q < States
  <2> SUFFICES ASSUME q >= States PROVE FALSE
    BY <1>1
  <2>1. PICK d \in Nat : q = States + d
    <3>1. q - States \in Nat /\ q = States + (q - States)
      BY <1>1
    <3> QED
      BY <3>1
  <2>2. q * Replicates = States * Replicates + d * Replicates /\ d * Replicates \in Nat
        /\ q * Replicates \in Nat
    BY <1>1, <2>1
  <2> QED
    BY <1>1, <1>2, <2>2
<1> QED
  BY <1>1, <1>2, <1>3 DEF StateOf

(* The states that teach are those of the valid samples.                     *)
LEMMA ExamplesAreValid ==
    ASSUME rows \in SUBSET Plan
    PROVE  Examples = {StateOf(s) : s \in {r \in rows : task[r] = "valid"}}
<1>1. ASSUME NEW x \in 1..States
      PROVE  Target(x).valid > 0 <=> \E s \in rows : task[s] = "valid" /\ StateOf(s) = x
  <2> DEFINE V == {s \in {r \in rows : StateOf(r) = x} : task[s] = "valid"}
  <2>1. Target(x).valid = Cardinality(V)
    BY DEF Target
  <2>2. V \in SUBSET Plan
    OBVIOUS
  <2>3. Cardinality(V) \in Nat /\ (Cardinality(V) = 0 <=> V = {})
    <3> HIDE DEF V
    <3> QED
      BY <2>2, PartSize, FS_EmptySet
  <2>4. V # {} <=> \E s \in rows : task[s] = "valid" /\ StateOf(s) = x
    OBVIOUS
  <2> QED
    BY <2>1, <2>3, <2>4
<1>2. \A s \in rows : StateOf(s) \in 1..States
  BY StateOfSample
<1> QED
  BY <1>1, <1>2 DEF Examples

LEMMA DistilStep ==
    ASSUME CampaignInv, Distil
    PROVE  CampaignInv'
<1>0. /\ TypeInv /\ SampleInv /\ BackedBy(mem) /\ BackedBy(disk) /\ ExactInv
      /\ LearntInv /\ MarketInv /\ VerdictInv
      /\ mem \in Manifest /\ disk \in Manifest /\ faults \in Nat
      /\ pc = "distil"
      /\ UNCHANGED <<task, evidence, rows, products, summary, market, ledger, files, mem, disk>>
  BY DEF CampaignInv, TypeInv, Distil
<1>1. \/ /\ student' = Examples /\ {PartitionOf(x) : x \in Examples} = Partitions
         /\ pc' = "publish" /\ faults' = faults
      \/ pc' = "failing" /\ student' = student /\ faults' \in {faults, faults + 1}
      \/ pc' = "crashed" /\ student' = student /\ faults' = faults
  BY DEF Distil, Raise
<1>2. Examples \subseteq 1..States
  BY DEF Examples
<1>3. TypeInv'
  <2>1. student' \subseteq 1..States
    BY <1>0, <1>1, <1>2 DEF TypeInv
  <2>2. pc' \in Phases /\ faults' \in Nat
    BY <1>0, <1>1 DEF Phases, Ended
  <2> QED
    BY <1>0, <2>1, <2>2 DEF TypeInv, evidence
<1>4. SampleInv' /\ BackedBy(mem)' /\ BackedBy(disk)' /\ Exact' = Exact /\ Examples' = Examples
  BY <1>0, SameEvidence DEF BackedBy, evidence
<1>5. /\ market = [runs |-> 0, rounds |-> 0, settled |-> 0, catalog |-> 0]
      /\ mem.examples = 0 /\ disk.examples = 0
      /\ market.runs = 0 /\ market.rounds = 0 /\ market.settled = 0 /\ market.catalog = 0
  BY <1>0 DEF LearntInv, Early
<1>6. LearntInv'
  <2>1. pc' = "publish" => {PartitionOf(x) : x \in student'} = Partitions
    BY <1>1
  <2>2. \A x : PartitionOf(x)' = PartitionOf(x)
    BY DEF PartitionOf
  <2>3. pc' = "publish" => student' = Examples'
    BY <1>1, <1>4
  <2> QED
    BY <1>0, <1>1, <1>5, <2>1, <2>3 DEF LearntInv, Early, Later
<1>7. MarketInv'
  BY <1>0, <1>1 DEF MarketInv, Orderly
<1>8. ProductInv'
  BY <1>1 DEF ProductInv
<1>9. VerdictInv' /\ FailureAccountsClose' /\ FinishedIsComplete'
  BY <1>0, NoVerdict DEF VerdictInv, Ended
<1>10. ExactInv'
  <2>1. rows = Plan /\ mem.teacher = Exact /\ MarketExact(mem, 0, 0)
    BY <1>0 DEF ExactInv, Later, Orderly
  <2>2. MarketExact(mem, 0, 0)'
        /\ MarketExact(mem, market.rounds - market.settled, market.runs - market.catalog)'
    BY <1>0, <1>5, <2>1 DEF MarketExact
  <2> QED
    BY <1>0, <1>1, <1>4, <2>1, <2>2 DEF ExactInv, Wounded, Later
<1> QED
  BY <1>3, <1>4, <1>6, <1>7, <1>8, <1>9, <1>10 DEF CampaignInv

LEMMA PublishStep ==
    ASSUME CampaignInv, Publish
    PROVE  CampaignInv'
<1>0. /\ TypeInv /\ SampleInv /\ BackedBy(mem) /\ BackedBy(disk) /\ ExactInv
      /\ LearntInv /\ MarketInv /\ VerdictInv
      /\ mem \in Manifest /\ disk \in Manifest /\ faults \in Nat
      /\ pc = "publish"
      /\ UNCHANGED <<task, evidence, rows, student, summary, market, ledger, files>>
  BY DEF CampaignInv, TypeInv, Publish
<1> DEFINE e == [mem EXCEPT !.examples = Cardinality(student)]
<1>1. PICK n \in 0..6 :
         /\ products' = IF n < 4 THEN n ELSE 4
         /\ mem' = IF n > 4 THEN e ELSE mem
         /\ disk' = IF n = 6 THEN mem' ELSE disk
         /\ Ends(n, 6, "market", "failing")
  BY DEF Publish, Learnt
<1>2. /\ market = [runs |-> 0, rounds |-> 0, settled |-> 0, catalog |-> 0]
      /\ mem.examples = 0 /\ disk.examples = 0
      /\ market.runs = 0 /\ market.rounds = 0 /\ market.settled = 0 /\ market.catalog = 0
      /\ student = Examples /\ {PartitionOf(x) : x \in student} = Partitions
  BY <1>0 DEF LearntInv, Early, Later
<1>3. student # {} /\ Cardinality(student) \in Nat
  <2>1. student \in SUBSET (1..States) /\ States \in Int
    BY <1>0, CampaignAssumption DEF TypeInv
  <2>2. IsFiniteSet(1..States)
    BY <2>1, FS_Interval
  <2>3. IsFiniteSet(student)
    BY <2>1, <2>2, FS_Subset
  <2>4. Cardinality(student) \in Nat
    BY <2>3, FS_CardinalityType
  <2> QED
    BY <1>2, <2>4 DEF Partitions
<1>4. /\ e \in Manifest /\ e.requests = mem.requests /\ e.teacher = mem.teacher
      /\ e.status = mem.status /\ e.examples = Cardinality(student)
      /\ e.rounds = mem.rounds /\ e.runs = mem.runs
  BY <1>0, <1>3, ExamplesUpdate
<1> HIDE DEF e
<1>5. /\ faults' \in Nat /\ faults' >= faults
      /\ \/ n = 6 /\ pc' = "market" /\ faults' = faults
         \/ n # 6 /\ pc' = "failing" /\ faults' = faults + 1
         \/ n # 6 /\ pc' = "crashed" /\ faults' = faults
  BY <1>0, <1>1, EndsFacts
<1>6. /\ mem' \in {mem, e} /\ disk' \in {disk, e} /\ products' \in Nat
      /\ mem' = e \/ disk' = e => products' = 4 \/ mem' = mem
      /\ n = 6 => mem' = e /\ disk' = e /\ products' = 4
      /\ disk' = e => disk' = disk \/ products' = 4
  BY <1>1
<1>7. TypeInv'
  BY <1>0, <1>4, <1>5, <1>6 DEF TypeInv, Phases, Ended, evidence
<1>8. SampleInv' /\ Exact' = Exact /\ Examples' = Examples
  BY <1>0 DEF SampleInv, Exact, Sent, Examples, Target, evidence
<1>9. BackedBy(mem)' /\ BackedBy(disk)'
  <2>1. BackedBy(mem)' \/ mem' # mem
    BY <1>0, <1>2 DEF BackedBy, BackedIn, evidence
  <2>2. BackedBy(disk)' \/ disk' # disk
    BY <1>0, <1>2 DEF BackedBy, BackedIn, evidence
  <2>3. products' = 4 =>
           BackedIn(e, log.requests, log.responses, public, products', ledger, files)
    BY <1>0, <1>4 DEF BackedBy, BackedIn, Learnt
  <2> QED
    BY <1>0, <1>6, <2>1, <2>2, <2>3 DEF BackedBy, evidence
<1>10. LearntInv'
  <2>1. n = 6 => mem'.examples = Cardinality(student') /\ disk'.examples = Cardinality(student')
    BY <1>0, <1>4, <1>6
  <2>2. {PartitionOf(x) : x \in student'} = Partitions /\ student' = Examples' /\ student' # {}
    BY <1>0, <1>2, <1>3, <1>8
  <2> QED
    BY <1>0, <1>2, <1>5, <2>1, <2>2 DEF LearntInv, Early, Later
<1>11. MarketInv'
  BY <1>0, <1>5 DEF MarketInv, Orderly
<1>12. ProductInv'
  BY <1>5, <1>6 DEF ProductInv, Learnt
<1>13. VerdictInv' /\ FailureAccountsClose' /\ FinishedIsComplete'
  <2>1. mem'.status = "running" /\ disk'.status = "running"
    BY <1>0, <1>4, <1>6 DEF VerdictInv, Ended
  <2> QED
    BY <2>1, NoVerdict
<1>14. ExactInv'
  <2>1. rows = Plan /\ mem.teacher = Exact /\ MarketExact(mem, 0, 0)
    BY <1>0 DEF ExactInv, Later, Orderly
  <2>2. mem'.teacher = mem.teacher /\ mem'.rounds = mem.rounds /\ mem'.runs = mem.runs
    BY <1>4, <1>6
  <2>3. MarketExact(mem, 0, 0)'
        /\ MarketExact(mem, market.rounds - market.settled, market.runs - market.catalog)'
    BY <1>0, <1>2, <2>1, <2>2 DEF MarketExact
  <2> QED
    BY <1>0, <1>5, <1>8, <2>1, <2>2, <2>3 DEF ExactInv, Wounded, Later
<1> QED
  BY <1>7, <1>8, <1>9, <1>10, <1>11, <1>12, <1>13, <1>14 DEF CampaignInv

-----------------------------------------------------------------------------
(* The market                                                                *)

(* The rounds of n runs.                                                     *)
Span(n) == n * Rounds

LEMMA SpanFacts ==
    ASSUME NEW n \in Nat
    PROVE  Span(n) \in Nat /\ Span(n) <= Span(n + 1)
<1>1. Rounds \in Nat
  BY CampaignAssumption
<1>2. n * Rounds \in Nat /\ (n + 1) * Rounds = n * Rounds + Rounds
  BY <1>1
<1> QED
  BY <1>1, <1>2 DEF Span

(* MarketInv of the values p, k, l, f, with the product named.               *)
MarketIn(p, k, l, f) ==
    /\ k.settled <= l /\ k.catalog <= f
    /\ k.catalog <= k.runs /\ k.runs <= k.catalog + 1
    /\ k.settled <= k.rounds /\ k.rounds <= k.settled + 1
    /\ k.runs <= MarketRuns /\ k.rounds <= Span(k.runs)
    /\ k.runs = k.catalog => k.rounds = Span(k.runs) /\ k.settled = k.rounds
    /\ p \in Orderly => l = k.settled /\ f = k.catalog
    /\ p \in {"index", "export", "finish"} => k.catalog = MarketRuns

LEMMA MarketInvNamed ==
    /\ MarketInv => MarketIn(pc, market, ledger, files)
    /\ MarketIn(pc', market', ledger', files') => MarketInv'
  BY DEF MarketInv, MarketIn, Span

(* A handler of the market, cut short or not, keeps all but its own counts:  *)
(* it holds the keys before it writes accounts of them, and writes no        *)
(* account of a row or file that is not there.                               *)
LEMMA HandlerKeeps ==
    ASSUME CampaignInv, pc = "market", UNCHANGED sampling,
           NEW held \in Markets, NEW n \in Int, NEW before \in {mem, disk},
           RefreshMarket(n, held, FALSE, before), n <= 2,
           market' \in {market, held}, ledger' \in Nat, files' \in Nat,
           ledger <= ledger', files <= files',
           n >= 1 => held.settled <= ledger' /\ held.catalog <= files',
           \/ n = 2 /\ pc' = pc /\ faults' = faults /\ market' = held
           \/ pc' = "stopping" /\ faults' = faults + 1
           \/ pc' = "crashed" /\ faults' = faults,
           MarketInv'
    PROVE  CampaignInv'
<1> DEFINE k == MarketRefreshed(mem, held, FALSE)
<1>0. /\ TypeInv /\ SampleInv /\ BackedBy(mem) /\ BackedBy(disk) /\ ExactInv
      /\ LearntInv /\ ProductInv /\ VerdictInv
      /\ mem \in Manifest /\ disk \in Manifest /\ faults \in Nat /\ market \in Markets
      /\ ledger \in Nat /\ files \in Nat /\ products \in Nat
      /\ UNCHANGED <<task, log, private, public, rows, student, products, summary>>
  BY DEF CampaignInv, TypeInv, sampling, evidence, learnt
<1>1. /\ mem' = IF n >= 1 THEN k ELSE mem
      /\ disk' = IF n >= 2 THEN k ELSE before
  BY DEF RefreshMarket
<1>2. /\ k \in Manifest /\ k.requests = mem.requests /\ k.teacher = mem.teacher
      /\ k.status = mem.status /\ k.examples = mem.examples
      /\ k.rounds = [started |-> held.rounds, completed |-> held.settled, failed |-> 0]
      /\ k.runs = [started |-> held.runs, completed |-> held.catalog, failed |-> 0]
  BY <1>0, MarketRefreshedFacts
<1>3. /\ Exact' = Exact /\ Examples' = Examples /\ SampleInv'
  BY <1>0 DEF SampleInv, Exact, Sent, Examples, Target
<1> DEFINE B(m) == BackedIn(m, log.requests, log.responses, public, products, ledger', files')
<1>4. B(mem) /\ B(disk)
  <2>1. /\ log.requests \in SUBSET Plan /\ log.responses \in SUBSET Plan
        /\ public \in SUBSET Plan /\ products <= products
    BY <1>0 DEF TypeInv, Logs
  <2> QED
    BY <1>0, <2>1, BackedGrows DEF BackedBy
<1>5. n >= 1 => B(k)
  BY <1>0, <1>4, BackedMarket
<1> HIDE DEF k
<1>6. BackedBy(mem)' /\ BackedBy(disk)'
  <2>1. B(mem') /\ B(disk')
    <3> HIDE DEF B
    <3> QED
      BY <1>1, <1>4, <1>5
  <2> QED
    BY <1>0, <2>1 DEF BackedBy
<1>7. TypeInv'
  <2>1. mem' \in Manifest /\ disk' \in Manifest /\ market' \in Markets
    BY <1>0, <1>1, <1>2
  <2>2. pc' \in Phases /\ faults' \in Nat
    BY <1>0 DEF Phases, Ended
  <2> QED
    BY <1>0, <2>1, <2>2 DEF TypeInv
<1>8. /\ rows = Plan /\ mem.teacher = Exact /\ products = Learnt
      /\ student = Examples /\ {PartitionOf(x) : x \in student} = Partitions
      /\ student # {} /\ mem.examples = Cardinality(student)
      /\ disk.examples = Cardinality(student)
      /\ mem.status = "running" /\ disk.status = "running"
  BY <1>0 DEF ExactInv, LearntInv, ProductInv, VerdictInv, Later, Ended
<1>9. /\ mem'.teacher = mem.teacher /\ mem'.examples = Cardinality(student)
      /\ disk'.examples = Cardinality(student)
      /\ mem'.status = "running" /\ disk'.status = "running"
  BY <1>1, <1>2, <1>8
<1>10. LearntInv'
  <2>1. student' = Examples' /\ {PartitionOf(x) : x \in student'} = Partitions
        /\ student' # {}
    BY <1>0, <1>3, <1>8
  <2>2. mem'.examples = Cardinality(student') /\ disk'.examples = Cardinality(student')
    BY <1>0, <1>9
  <2>3. pc' \notin Early
    BY DEF Early
  <2> QED
    BY <2>1, <2>2, <2>3 DEF LearntInv
<1>11. ExactInv'
  <2>1. n = 2 /\ market' = held => MarketExact(mem, 0, 0)'
    BY <1>1, <1>2 DEF MarketExact
  <2>2. rows' = Plan /\ mem'.teacher = Exact'
    BY <1>0, <1>3, <1>8, <1>9
  <2>3. pc' \in {"market", "stopping", "crashed"}
        /\ (pc' = "market" => n = 2 /\ market' = held) /\ (pc' = "stopping" => faults' >= 1)
    BY <1>0
  <2> QED
    BY <2>1, <2>2, <2>3 DEF ExactInv, Wounded, Orderly
<1>12. ProductInv'
  BY <1>0, <1>8 DEF ProductInv
<1>13. VerdictInv' /\ FailureAccountsClose' /\ FinishedIsComplete'
  BY <1>9, NoVerdict
<1> QED
  BY <1>3, <1>6, <1>7, <1>10, <1>11, <1>12, <1>13 DEF CampaignInv

LEMMA MarketFacts ==
    ASSUME CampaignInv, pc = "market"
    PROVE  /\ market \in Markets /\ ledger \in Nat /\ files \in Nat /\ faults \in Nat
           /\ market.runs \in Nat /\ market.rounds \in Nat /\ market.settled \in Nat
           /\ market.catalog \in Nat /\ MarketRuns \in Nat
           /\ Span(market.runs) \in Nat /\ Span(market.runs) <= Span(market.runs + 1)
           /\ ledger = market.settled /\ files = market.catalog
           /\ MarketInv /\ MarketIn(pc, market, ledger, files)
  BY SpanFacts, CampaignAssumption, MarketInvNamed
     DEF CampaignInv, TypeInv, MarketInv, Orderly, Markets

LEMMA StartRunStep ==
    ASSUME CampaignInv, StartRun
    PROVE  CampaignInv'
<1> DEFINE held == [market EXCEPT !.runs = @ + 1]
<1>1. PICK n \in 0..4 :
         /\ market' = IF n >= 1 THEN held ELSE market
         /\ RefreshMarket(n - 2, held, FALSE, IF n >= 2 THEN mem ELSE disk)
         /\ Ends(n, 4, pc, "stopping")
  BY DEF StartRun
<1>2. /\ pc = "market" /\ ~(market.runs > market.catalog) /\ market.runs < MarketRuns
      /\ UNCHANGED <<sampling, ledger, files>>
  BY DEF StartRun, RunOpen
<1>3. /\ held \in Markets /\ held.runs = market.runs + 1 /\ held.rounds = market.rounds
      /\ held.settled = market.settled /\ held.catalog = market.catalog
  BY <1>2, MarketFacts DEF Markets
<1> HIDE DEF held
<1>4. \/ n = 4 /\ pc' = pc /\ faults' = faults
      \/ n # 4 /\ pc' = "stopping" /\ faults' = faults + 1
      \/ n # 4 /\ pc' = "crashed" /\ faults' = faults
  BY <1>1, <1>2, MarketFacts, EndsFacts
<1>5. MarketInv'
  <2>1. market' \in {market, held} /\ pc' \in {"market", "stopping", "crashed"}
    BY <1>1, <1>2, <1>4
  <2> QED
    BY <1>2, <1>3, <2>1, MarketFacts, MarketInvNamed DEF MarketIn, Orderly
<1>6. /\ n - 2 \in Int /\ n - 2 <= 2 /\ market' \in {market, held}
      /\ ledger' \in Nat /\ files' \in Nat /\ ledger <= ledger' /\ files <= files'
      /\ held.settled <= ledger' /\ held.catalog <= files'
      /\ (IF n >= 2 THEN mem ELSE disk) \in {mem, disk}
      /\ UNCHANGED sampling
      /\ n = 4 => n - 2 = 2 /\ market' = held
  BY <1>1, <1>2, <1>3, MarketFacts
<1> QED
  BY <1>1, <1>2, <1>3, <1>4, <1>5, <1>6, HandlerKeeps

LEMMA StartRoundStep ==
    ASSUME CampaignInv, StartRound
    PROVE  CampaignInv'
<1> DEFINE held == [market EXCEPT !.rounds = @ + 1]
<1>1. PICK n \in 1..4 :
         /\ market' = held
         /\ RefreshMarket(n - 2, held, FALSE, IF n >= 2 THEN mem ELSE disk)
         /\ Ends(n, 4, pc, "stopping")
  BY DEF StartRound
<1>2. /\ pc = "market" /\ market.runs > market.catalog /\ ~(market.rounds > market.settled)
      /\ market.rounds # Span(market.runs)
      /\ UNCHANGED <<sampling, ledger, files>>
  BY DEF StartRound, RunOpen, RoundOpen, RoundsDone, Span
<1>3. /\ held \in Markets /\ held.runs = market.runs /\ held.rounds = market.rounds + 1
      /\ held.settled = market.settled /\ held.catalog = market.catalog
  BY <1>2, MarketFacts DEF Markets
<1> HIDE DEF held
<1>4. \/ n = 4 /\ pc' = pc /\ faults' = faults
      \/ n # 4 /\ pc' = "stopping" /\ faults' = faults + 1
      \/ n # 4 /\ pc' = "crashed" /\ faults' = faults
  BY <1>1, <1>2, MarketFacts, EndsFacts
<1>5. MarketInv'
  BY <1>1, <1>2, <1>3, <1>4, MarketFacts, MarketInvNamed DEF MarketIn, Orderly
<1>6. /\ n - 2 \in Int /\ n - 2 <= 2 /\ market' \in {market, held}
      /\ ledger' \in Nat /\ files' \in Nat /\ ledger <= ledger' /\ files <= files'
      /\ held.settled <= ledger' /\ held.catalog <= files'
      /\ (IF n >= 2 THEN mem ELSE disk) \in {mem, disk}
      /\ UNCHANGED sampling
      /\ n = 4 => n - 2 = 2 /\ market' = held
  BY <1>1, <1>2, <1>3, MarketFacts
<1> QED
  BY <1>1, <1>2, <1>3, <1>4, <1>5, <1>6, HandlerKeeps

LEMMA EndRoundStep ==
    ASSUME CampaignInv, EndRound
    PROVE  CampaignInv'
<1> DEFINE held == [market EXCEPT !.settled = @ + 1]
<1>1. PICK n \in 0..5 :
         /\ ledger' = IF n >= 1 THEN ledger + 1 ELSE ledger
         /\ market' = IF n >= 2 THEN held ELSE market
         /\ RefreshMarket(n - 3, held, FALSE, IF n >= 3 THEN mem ELSE disk)
         /\ Ends(n, 5, pc, "stopping")
  BY DEF EndRound
<1>2. /\ pc = "market" /\ market.rounds > market.settled
      /\ UNCHANGED <<sampling, files>>
  BY DEF EndRound, RoundOpen
<1>3. /\ held \in Markets /\ held.runs = market.runs /\ held.rounds = market.rounds
      /\ held.settled = market.settled + 1 /\ held.catalog = market.catalog
  BY <1>2, MarketFacts DEF Markets
<1> HIDE DEF held
<1>4. \/ n = 5 /\ pc' = pc /\ faults' = faults
      \/ n # 5 /\ pc' = "stopping" /\ faults' = faults + 1
      \/ n # 5 /\ pc' = "crashed" /\ faults' = faults
  BY <1>1, <1>2, MarketFacts, EndsFacts
<1>5. MarketInv'
  <2>1. \/ n < 2 /\ market' = market /\ ledger' >= ledger /\ pc' \in {"stopping", "crashed"}
        \/ market' = held /\ ledger' = ledger + 1 /\ pc' \in {"market", "stopping", "crashed"}
    BY <1>1, <1>2, <1>4, MarketFacts
  <2>2. ledger' \in Nat
    BY <1>1, <1>2, MarketFacts
  <2> QED
    BY <1>2, <1>3, <2>1, <2>2, MarketFacts, MarketInvNamed DEF MarketIn, Orderly
<1>6. /\ n - 3 \in Int /\ n - 3 <= 2 /\ market' \in {market, held}
      /\ ledger' \in Nat /\ files' \in Nat /\ ledger <= ledger' /\ files <= files'
      /\ n - 3 >= 1 => held.settled <= ledger' /\ held.catalog <= files'
      /\ (IF n >= 3 THEN mem ELSE disk) \in {mem, disk}
      /\ UNCHANGED sampling
      /\ n = 5 => n - 3 = 2 /\ market' = held
  BY <1>1, <1>2, <1>3, MarketFacts
<1> QED
  BY <1>1, <1>2, <1>3, <1>4, <1>5, <1>6, HandlerKeeps

LEMMA EndRunStep ==
    ASSUME CampaignInv, EndRun
    PROVE  CampaignInv'
<1> DEFINE held == [market EXCEPT !.catalog = @ + 1]
<1>1. PICK n \in 0..5 :
         /\ files' = IF n >= 1 THEN files + 1 ELSE files
         /\ market' = IF n >= 2 THEN held ELSE market
         /\ RefreshMarket(n - 3, held, FALSE, IF n >= 3 THEN mem ELSE disk)
         /\ Ends(n, 5, pc, "stopping")
  BY DEF EndRun
<1>2. /\ pc = "market" /\ market.runs > market.catalog /\ ~(market.rounds > market.settled)
      /\ market.rounds = Span(market.runs)
      /\ UNCHANGED <<sampling, ledger>>
  BY DEF EndRun, RunOpen, RoundOpen, RoundsDone, Span
<1>3. /\ held \in Markets /\ held.runs = market.runs /\ held.rounds = market.rounds
      /\ held.settled = market.settled /\ held.catalog = market.catalog + 1
  BY <1>2, MarketFacts DEF Markets
<1> HIDE DEF held
<1>4. \/ n = 5 /\ pc' = pc /\ faults' = faults
      \/ n # 5 /\ pc' = "stopping" /\ faults' = faults + 1
      \/ n # 5 /\ pc' = "crashed" /\ faults' = faults
  BY <1>1, <1>2, MarketFacts, EndsFacts
<1>5. MarketInv'
  <2>1. \/ n < 2 /\ market' = market /\ files' >= files /\ pc' \in {"stopping", "crashed"}
        \/ market' = held /\ files' = files + 1 /\ pc' \in {"market", "stopping", "crashed"}
    BY <1>1, <1>2, <1>4, MarketFacts
  <2>2. files' \in Nat
    BY <1>1, <1>2, MarketFacts
  <2> QED
    BY <1>2, <1>3, <2>1, <2>2, MarketFacts, MarketInvNamed DEF MarketIn, Orderly
<1>6. /\ n - 3 \in Int /\ n - 3 <= 2 /\ market' \in {market, held}
      /\ ledger' \in Nat /\ files' \in Nat /\ ledger <= ledger' /\ files <= files'
      /\ n - 3 >= 1 => held.settled <= ledger' /\ held.catalog <= files'
      /\ (IF n >= 3 THEN mem ELSE disk) \in {mem, disk}
      /\ UNCHANGED sampling
      /\ n = 5 => n - 3 = 2 /\ market' = held
  BY <1>1, <1>2, <1>3, MarketFacts
<1> QED
  BY <1>1, <1>2, <1>3, <1>4, <1>5, <1>6, HandlerKeeps

LEMMA MarketFailsStep ==
    ASSUME CampaignInv, MarketFails
    PROVE  CampaignInv'
<1>1. /\ pc = "market" /\ pc' = "stopping" /\ faults' = faults + 1
      /\ UNCHANGED <<sampling, market, ledger, files, mem, disk>>
  BY DEF MarketFails, Raise
<1>2. MarketInv'
  BY <1>1, MarketFacts DEF MarketInv, Orderly
<1>3. PICK n \in Int : n = 0
  OBVIOUS
<1>4. RefreshMarket(n, market, FALSE, disk)
  BY <1>1, <1>3 DEF RefreshMarket
<1>5. /\ disk \in {mem, disk} /\ market' \in {market, market} /\ n <= 2 /\ ~(n >= 1)
      /\ ledger' \in Nat /\ files' \in Nat /\ ledger <= ledger' /\ files <= files'
      /\ UNCHANGED sampling /\ market \in Markets
  BY <1>1, <1>3, MarketFacts
<1> QED
  BY <1>1, <1>2, <1>4, <1>5, HandlerKeeps

(* A refresh of the market's accounts from the keys that are held.           *)
LEMMA AccountsKeep ==
    ASSUME CampaignInv, pc \in {"market", "stopping", "index"},
           pc' \in {"index", "export", "failing", "crashed"},
           UNCHANGED <<task, log, private, public, rows, student, market, ledger, files>>,
           products' \in Nat, products <= products', faults' \in Nat,
           NEW terminal \in BOOLEAN,
           mem' \in {mem, MarketRefreshed(mem, market, terminal)},
           disk' \in {disk, MarketRefreshed(mem, market, terminal)},
           pc' \in {"index", "export"} => pc # "stopping" /\ market.catalog = MarketRuns
    PROVE  /\ TypeInv' /\ SampleInv' /\ BackedBy(mem)' /\ BackedBy(disk)'
           /\ LearntInv' /\ MarketInv' /\ VerdictInv' /\ FailureAccountsClose'
           /\ FinishedIsComplete'
           /\ rows' = Plan /\ mem'.teacher = Exact'
<1> DEFINE k == MarketRefreshed(mem, market, terminal)
<1>0. /\ TypeInv /\ SampleInv /\ BackedBy(mem) /\ BackedBy(disk) /\ ExactInv
      /\ LearntInv /\ MarketInv /\ VerdictInv
      /\ mem \in Manifest /\ disk \in Manifest /\ market \in Markets
      /\ ledger \in Nat /\ files \in Nat /\ products \in Nat
  BY DEF CampaignInv, TypeInv
<1>2. /\ k \in Manifest /\ k.teacher = mem.teacher
      /\ k.status = mem.status /\ k.examples = mem.examples
  BY <1>0, MarketRefreshedFacts
<1>3. /\ Exact' = Exact /\ Examples' = Examples /\ SampleInv'
  BY <1>0 DEF SampleInv, Exact, Sent, Examples, Target
<1> DEFINE B(m) == BackedIn(m, log.requests, log.responses, public, products', ledger, files)
<1>4. B(mem) /\ B(disk)
  <2>1. /\ log.requests \in SUBSET Plan /\ log.responses \in SUBSET Plan
        /\ public \in SUBSET Plan
    BY <1>0 DEF TypeInv, Logs
  <2> QED
    BY <1>0, <2>1, BackedGrows DEF BackedBy
<1>5. B(k)
  <2>1. market.settled <= ledger /\ market.catalog <= files
    BY <1>0 DEF MarketInv
  <2> QED
    BY <1>0, <1>4, <2>1, BackedMarket
<1> HIDE DEF k
<1>6. BackedBy(mem)' /\ BackedBy(disk)'
  <2>1. B(mem') /\ B(disk')
    <3>1. mem' \in {mem, k} /\ disk' \in {disk, k}
      BY DEF k
    <3> HIDE DEF B
    <3> QED
      BY <3>1, <1>4, <1>5
  <2> QED
    BY <1>0, <2>1 DEF BackedBy
<1>7. TypeInv'
  <2>1. mem' \in Manifest /\ disk' \in Manifest /\ pc' \in Phases
    BY <1>0, <1>2 DEF Phases, Ended, k
  <2> QED
    BY <1>0, <2>1 DEF TypeInv
<1>8. /\ rows = Plan /\ mem.teacher = Exact
      /\ student = Examples /\ {PartitionOf(x) : x \in student} = Partitions
      /\ student # {} /\ mem.examples = Cardinality(student)
      /\ disk.examples = Cardinality(student)
      /\ mem.status = "running" /\ disk.status = "running"
  BY <1>0 DEF ExactInv, LearntInv, VerdictInv, Later, Ended
<1>9. /\ mem'.teacher = mem.teacher /\ mem'.examples = Cardinality(student)
      /\ disk'.examples = Cardinality(student)
      /\ mem'.status = "running" /\ disk'.status = "running"
  BY <1>2, <1>8 DEF k
<1>10. LearntInv'
  <2>1. student' = Examples' /\ {PartitionOf(x) : x \in student'} = Partitions
        /\ student' # {}
    BY <1>0, <1>3, <1>8
  <2>2. mem'.examples = Cardinality(student') /\ disk'.examples = Cardinality(student')
    BY <1>0, <1>9
  <2>3. pc' \notin Early
    BY DEF Early
  <2> QED
    BY <2>1, <2>2, <2>3 DEF LearntInv
<1>11. MarketInv'
  BY <1>0 DEF MarketInv, Orderly
<1>12. VerdictInv' /\ FailureAccountsClose' /\ FinishedIsComplete'
  BY <1>9, NoVerdict
<1> QED
  BY <1>3, <1>6, <1>7, <1>8, <1>9, <1>10, <1>11, <1>12

(* When the catalog is complete nothing is open.                             *)
LEMMA NothingOpen ==
    ASSUME TypeInv, MarketInv, market.catalog = MarketRuns
    PROVE  /\ market.runs = MarketRuns /\ market.settled = market.rounds
           /\ market.rounds = MarketRuns * Rounds
           /\ market.rounds - market.settled = 0 /\ market.runs - market.catalog = 0
<1>1. /\ market.runs \in Nat /\ market.rounds \in Nat /\ market.settled \in Nat
      /\ market.catalog \in Nat /\ MarketRuns \in Nat
  BY CampaignAssumption DEF TypeInv, Markets
<1>2. market.runs = MarketRuns
  BY <1>1 DEF MarketInv
<1>3. market.rounds = MarketRuns * Rounds /\ market.settled = market.rounds
  BY <1>2 DEF MarketInv
<1> QED
  BY <1>1, <1>2, <1>3

LEMMA EndMarketStep ==
    ASSUME CampaignInv, EndMarket
    PROVE  CampaignInv'
<1> DEFINE terminal == pc = "stopping"
           k == MarketRefreshed(mem, market, terminal)
<1>0. /\ TypeInv /\ ExactInv /\ MarketInv /\ ProductInv
      /\ mem \in Manifest /\ market \in Markets /\ faults \in Nat /\ products \in Nat
      /\ terminal \/ (pc = "market" /\ market.catalog = MarketRuns)
      /\ UNCHANGED <<sampling, market, ledger, files>>
      /\ UNCHANGED <<task, log, private, public, rows, student, products, summary>>
  BY DEF CampaignInv, TypeInv, EndMarket, sampling, evidence, learnt
<1>1. PICK n \in 0..2 :
         /\ RefreshMarket(n, market, terminal, disk)
         /\ Ends(n, 2, IF terminal THEN "failing" ELSE "index", "failing")
  BY DEF EndMarket
<1>2. /\ mem' \in {mem, k} /\ disk' \in {disk, k} /\ (n = 2 => mem' = k)
  BY <1>1 DEF RefreshMarket
<1>3. /\ faults' \in Nat
      /\ \/ n = 2 /\ pc' = "failing" /\ faults' = faults /\ terminal
         \/ n = 2 /\ pc' = "index" /\ faults' = faults /\ ~terminal
         \/ n # 2 /\ pc' = "failing" /\ faults' = faults + 1
         \/ n # 2 /\ pc' = "crashed" /\ faults' = faults
  BY <1>0, <1>1, EndsFacts
<1>4. k.rounds = [started |-> market.rounds, completed |-> market.settled,
                  failed |-> IF terminal THEN market.rounds - market.settled ELSE 0]
      /\ k.runs = [started |-> market.runs, completed |-> market.catalog,
                   failed |-> IF terminal THEN market.runs - market.catalog ELSE 0]
  BY <1>0, MarketRefreshedFacts
<1>5. /\ TypeInv' /\ SampleInv' /\ BackedBy(mem)' /\ BackedBy(disk)'
      /\ LearntInv' /\ MarketInv' /\ VerdictInv' /\ FailureAccountsClose'
      /\ FinishedIsComplete'
      /\ rows' = Plan /\ mem'.teacher = Exact'
  <2>1. products <= products'
    BY <1>0
  <2> QED
    BY <1>0, <1>2, <1>3, <2>1, AccountsKeep
<1>6. ProductInv'
  BY <1>0, <1>3 DEF ProductInv
<1> HIDE DEF k
<1>7. pc' = "index" => MarketExact(mem, 0, 0)'
  BY <1>0, <1>2, <1>3, <1>4 DEF MarketExact
<1>8. pc' = "failing" /\ faults' <= 1 =>
         MarketExact(mem, market.rounds - market.settled, market.runs - market.catalog)'
  <2>1. CASE terminal
    <3>1. faults >= 1
      BY <2>1, <1>0 DEF ExactInv, Wounded
    <3> QED
      BY <2>1, <3>1, <1>0, <1>2, <1>3, <1>4 DEF MarketExact
  <2>2. CASE ~terminal
    <3>1. market.rounds - market.settled = 0 /\ market.runs - market.catalog = 0
      BY <1>0, <2>2, NothingOpen
    <3>2. MarketExact(mem, 0, 0)
      BY <1>0, <2>2 DEF ExactInv, Orderly
    <3>3. mem'.rounds = mem.rounds /\ mem'.runs = mem.runs
      BY <1>2, <1>4, <2>2, <3>2 DEF MarketExact
    <3> QED
      BY <1>0, <3>1, <3>2, <3>3 DEF MarketExact
  <2> QED
    BY <2>1, <2>2
<1>9. ExactInv'
  BY <1>3, <1>5, <1>7, <1>8 DEF ExactInv, Wounded, Orderly
<1> QED
  BY <1>5, <1>6, <1>9 DEF CampaignInv

LEMMA IndexStep ==
    ASSUME CampaignInv, Index
    PROVE  CampaignInv'
<1> DEFINE k == MarketRefreshed(mem, market, FALSE)
<1>0. /\ TypeInv /\ ExactInv /\ MarketInv /\ ProductInv
      /\ mem \in Manifest /\ market \in Markets /\ faults \in Nat
      /\ pc = "index" /\ market.catalog = MarketRuns /\ products = 4
      /\ UNCHANGED <<task, log, private, public, rows, student, summary, market, ledger, files>>
  BY DEF CampaignInv, TypeInv, Index, evidence, MarketInv, ProductInv, Learnt
<1>1. PICK n \in 0..3 :
         /\ products' = IF n >= 1 THEN products + 1 ELSE products
         /\ RefreshMarket(n - 1, market, FALSE, disk)
         /\ Ends(n, 3, "export", "failing")
  BY DEF Index
<1>2. /\ mem' \in {mem, k} /\ disk' \in {disk, k}
  BY <1>1 DEF RefreshMarket
<1>3. /\ faults' \in Nat
      /\ \/ n = 3 /\ pc' = "export" /\ faults' = faults
         \/ pc' = "failing" /\ faults' = faults + 1
         \/ pc' = "crashed" /\ faults' = faults
  BY <1>0, <1>1, EndsFacts
<1>4. k.rounds = [started |-> market.rounds, completed |-> market.settled, failed |-> 0]
      /\ k.runs = [started |-> market.runs, completed |-> market.catalog, failed |-> 0]
  BY <1>0, MarketRefreshedFacts
<1>5. products' \in Nat /\ products <= products' /\ (n = 3 => products' = 5)
  BY <1>0, <1>1
<1>6. /\ TypeInv' /\ SampleInv' /\ BackedBy(mem)' /\ BackedBy(disk)'
      /\ LearntInv' /\ MarketInv' /\ VerdictInv' /\ FailureAccountsClose'
      /\ FinishedIsComplete'
      /\ rows' = Plan /\ mem'.teacher = Exact'
  <2>1. FALSE \in BOOLEAN
    OBVIOUS
  <2> QED
    BY <1>0, <1>2, <1>3, <1>5, <2>1, AccountsKeep
<1>7. ProductInv'
  BY <1>3, <1>5 DEF ProductInv, Learnt
<1> HIDE DEF k
<1>8. /\ MarketExact(mem, 0, 0)'
      /\ MarketExact(mem, market.rounds - market.settled, market.runs - market.catalog)'
  <2>1. market.rounds - market.settled = 0 /\ market.runs - market.catalog = 0
    BY <1>0, NothingOpen
  <2>2. MarketExact(mem, 0, 0)
    BY <1>0 DEF ExactInv, Orderly
  <2>3. mem'.rounds = mem.rounds /\ mem'.runs = mem.runs
    BY <1>2, <1>4, <2>2 DEF MarketExact
  <2> QED
    BY <1>0, <2>1, <2>2, <2>3 DEF MarketExact
<1>9. ExactInv'
  BY <1>3, <1>6, <1>8 DEF ExactInv, Wounded, Orderly
<1> QED
  BY <1>6, <1>7, <1>9 DEF CampaignInv

LEMMA ExportStep ==
    ASSUME CampaignInv, Export
    PROVE  CampaignInv'
<1>0. /\ TypeInv /\ SampleInv /\ BackedBy(mem) /\ BackedBy(disk) /\ ExactInv
      /\ LearntInv /\ MarketInv /\ ProductInv /\ VerdictInv
      /\ mem \in Manifest /\ disk \in Manifest /\ market \in Markets /\ faults \in Nat
      /\ pc = "export" /\ market.catalog = MarketRuns /\ products = 5
      /\ UNCHANGED <<task, log, private, public, rows, student, market, ledger, files, mem, disk>>
  BY DEF CampaignInv, TypeInv, Export, evidence, MarketInv, ProductInv, Learnt
<1>1. PICK n \in 0..2 :
         /\ products' = products + n
         /\ summary' = IF n >= 1 THEN <<Summary>> ELSE summary
         /\ Ends(n, 2, "finish", "failing")
  BY DEF Export
<1>3. /\ faults' \in Nat
      /\ \/ n = 2 /\ pc' = "finish" /\ faults' = faults
         \/ pc' = "failing" /\ faults' = faults + 1
         \/ pc' = "crashed" /\ faults' = faults
  BY <1>0, <1>1, EndsFacts
<1>4. products' \in Nat /\ products <= products' /\ (n = 2 => products' = 7)
  BY <1>0, <1>1
<1>5. /\ Exact' = Exact /\ Examples' = Examples /\ SampleInv'
  BY <1>0 DEF SampleInv, Exact, Sent, Examples, Target
<1>6. BackedBy(mem)' /\ BackedBy(disk)'
  <2>1. /\ log.requests \in SUBSET Plan /\ log.responses \in SUBSET Plan
        /\ public \in SUBSET Plan /\ ledger \in Nat /\ files \in Nat /\ products \in Nat
    BY <1>0 DEF TypeInv, Logs
  <2>2. /\ BackedIn(mem, log.requests, log.responses, public, products', ledger, files)
        /\ BackedIn(disk, log.requests, log.responses, public, products', ledger, files)
    BY <1>0, <1>4, <2>1, BackedGrows DEF BackedBy
  <2> QED
    BY <1>0, <2>2 DEF BackedBy
<1>7. TypeInv'
  BY <1>0, <1>3, <1>4 DEF TypeInv, Phases, Ended
<1>8. LearntInv'
  <2>1. /\ student = Examples /\ {PartitionOf(x) : x \in student} = Partitions
        /\ student # {} /\ mem.examples = Cardinality(student)
        /\ disk.examples = Cardinality(student)
    BY <1>0 DEF LearntInv, Later
  <2>2. /\ student' = Examples' /\ {PartitionOf(x) : x \in student'} = Partitions
        /\ student' # {} /\ mem'.examples = Cardinality(student')
        /\ disk'.examples = Cardinality(student')
    BY <1>0, <1>5, <2>1
  <2>3. pc' \notin Early
    BY <1>3 DEF Early
  <2> QED
    BY <2>2, <2>3 DEF LearntInv
<1>9. MarketInv'
  BY <1>0, <1>3 DEF MarketInv, Orderly
<1>10. rows' = Plan /\ mem'.teacher = Exact' /\ MarketExact(mem, 0, 0)
  BY <1>0, <1>5 DEF ExactInv, Later, Orderly
<1>11. ProductInv'
  <2>1. mem.runs.completed = market.catalog
    BY <1>10 DEF MarketExact
  <2>2. mem.examples = Cardinality(student)
    BY <1>0 DEF LearntInv
  <2>3. n = 2 => summary' = << [teacher |-> mem'.teacher, examples |-> mem'.examples,
                                runs |-> mem'.runs.completed] >>
    BY <1>0, <1>1, <2>1, <2>2 DEF Summary
  <2> QED
    BY <1>3, <1>4, <2>3 DEF ProductInv, Learnt
<1>12. VerdictInv' /\ FailureAccountsClose' /\ FinishedIsComplete'
  BY <1>0, NoVerdict DEF VerdictInv, Ended
<1>13. /\ MarketExact(mem, 0, 0)'
       /\ MarketExact(mem, market.rounds - market.settled, market.runs - market.catalog)'
  <2>1. market.rounds - market.settled = 0 /\ market.runs - market.catalog = 0
    BY <1>0, NothingOpen
  <2> QED
    BY <1>0, <1>10, <2>1 DEF MarketExact
<1>14. ExactInv'
  BY <1>3, <1>10, <1>13 DEF ExactInv, Wounded, Orderly
<1> QED
  BY <1>5, <1>6, <1>7, <1>8, <1>9, <1>11, <1>12, <1>14 DEF CampaignInv

-----------------------------------------------------------------------------
(* The verdict                                                               *)

Marked(m, status) == [m EXCEPT !.status = status]

LEMMA MarkedFacts ==
    ASSUME NEW m \in Manifest, NEW status \in {"running", "failed", "finished"}
    PROVE  LET n == Marked(m, status)
           IN  /\ n \in Manifest /\ n.status = status /\ n.requests = m.requests
               /\ n.teacher = m.teacher /\ n.examples = m.examples
               /\ n.rounds = m.rounds /\ n.runs = m.runs
  BY DEF Marked, Manifest

(* What fail changes: the status, and what is open is failed at least once.  *)
LEMMA FailedFacts ==
    ASSUME NEW m \in Manifest, Sent \in SUBSET Plan
    PROVE  LET n == Failed(m)
               a == IF m.rounds.started > m.rounds.completed THEN 1 ELSE m.rounds.failed
               b == IF m.runs.started > 0 /\ m.runs.completed = 0
                    THEN Larger(1, m.runs.failed) ELSE m.runs.failed
           IN  /\ n \in Manifest /\ n.status = "failed" /\ n.examples = m.examples
               /\ n.teacher = m.teacher /\ n.requests = Synced(m, Sent).requests
               /\ n.rounds.started = m.rounds.started
               /\ n.rounds.completed = m.rounds.completed /\ n.rounds.failed = a
               /\ n.runs.started = m.runs.started
               /\ n.runs.completed = m.runs.completed /\ n.runs.failed = b
<1> DEFINE y == Synced(m, Sent)
           a == IF m.rounds.started > m.rounds.completed THEN 1 ELSE m.rounds.failed
           b == IF m.runs.started > 0 /\ m.runs.completed = 0
                THEN Larger(1, m.runs.failed) ELSE m.runs.failed
<1>1. y \in Manifest /\ SameBut(y, m) /\ y.teacher = m.teacher
  BY SyncedFacts
<1>2. m.rounds \in Counts /\ m.runs \in Counts
  BY DEF Manifest
<1>3. a \in Int /\ b \in Int
  BY <1>2 DEF Counts, Larger
<1>4. Failed(m) = [y EXCEPT !.status = "failed", !.rounds.failed = a, !.runs.failed = b]
  <2>1. y.rounds = m.rounds /\ y.runs = m.runs
    BY <1>1 DEF SameBut
  <2> HIDE DEF y
  <2>2. Failed(m) = [y EXCEPT !.status = "failed",
            !.rounds.failed = IF m.rounds.started > m.rounds.completed THEN 1 ELSE @,
            !.runs.failed = IF m.runs.started > 0 /\ m.runs.completed = 0
                            THEN Larger(1, @) ELSE @]
    BY DEF Failed, y
  <2>3. y \in Manifest
    BY <1>1
  <2> QED
    BY <2>1, <2>2, <2>3 DEF Manifest, Counts
<1> HIDE DEF a, b
<1> DEFINE rounds == [m.rounds EXCEPT !.failed = a]
           runs == [m.runs EXCEPT !.failed = b]
<1>5. /\ rounds \in Counts /\ rounds.started = m.rounds.started
      /\ rounds.completed = m.rounds.completed /\ rounds.failed = a
      /\ runs \in Counts /\ runs.started = m.runs.started
      /\ runs.completed = m.runs.completed /\ runs.failed = b
  BY <1>2, <1>3 DEF Counts
<1>6. Failed(m) = WithMarket(Marked(y, "failed"), rounds, runs)
  <2>1. y.rounds = m.rounds /\ y.runs = m.runs /\ y \in Manifest
    BY <1>1 DEF SameBut
  <2> HIDE DEF y
  <2> QED
    BY <1>4, <2>1 DEF WithMarket, Marked, Manifest
<1> HIDE DEF y, rounds, runs
<1>7. /\ Marked(y, "failed") \in Manifest /\ Marked(y, "failed").status = "failed"
      /\ Marked(y, "failed").requests = y.requests /\ Marked(y, "failed").teacher = y.teacher
      /\ Marked(y, "failed").examples = y.examples
  BY <1>1, MarkedFacts
<1>8. /\ Failed(m) \in Manifest /\ Failed(m).status = "failed"
      /\ Failed(m).requests = y.requests /\ Failed(m).teacher = y.teacher
      /\ Failed(m).examples = y.examples
      /\ Failed(m).rounds = rounds /\ Failed(m).runs = runs
  BY <1>5, <1>6, <1>7, MarketUpdate
<1> QED
  BY <1>1, <1>5, <1>8 DEF SameBut, y, a, b

(* The parts of the invariant that the last steps cannot disturb.            *)
LEMMA LastKeeps ==
    ASSUME CampaignInv, pc \in {"finish", "failing"}, pc' \in {"failing"} \union Ended,
           UNCHANGED <<sampling, market, ledger, files>>, faults' \in Nat,
           mem' \in Manifest, disk' \in Manifest,
           mem'.examples = mem.examples, disk'.examples \in {mem.examples, disk.examples},
           BackedBy(mem'), BackedBy(disk')
    PROVE  /\ TypeInv' /\ SampleInv' /\ BackedBy(mem)' /\ BackedBy(disk)'
           /\ LearntInv' /\ MarketInv' /\ ProductInv'
           /\ Exact' = Exact /\ Sent' = Sent /\ rows' = rows
<1>0. /\ TypeInv /\ SampleInv /\ LearntInv /\ MarketInv
      /\ UNCHANGED <<task, log, private, public, rows, student, products, summary>>
  BY DEF CampaignInv, sampling, evidence, learnt
<1>1. SampleInv' /\ Exact' = Exact /\ Sent' = Sent
  BY <1>0 DEF SampleInv, Exact, Sent
<1>2. TypeInv'
  BY <1>0 DEF TypeInv, Phases
<1>3. BackedBy(mem)' /\ BackedBy(disk)'
  BY <1>0 DEF BackedBy
<1>4. LearntInv'
  <2>1. pc' \notin Early /\ pc' \notin Later
    BY DEF Early, Later, Ended
  <2>2. pc' \notin {"market", "stopping", "index", "export", "finish"}
    BY DEF Ended
  <2>3. market'.runs > 0 => /\ mem'.examples = Cardinality(student')
                            /\ disk'.examples = Cardinality(student') /\ student' # {}
    BY <1>0 DEF LearntInv
  <2> QED
    BY <2>1, <2>2, <2>3 DEF LearntInv, Later
<1>5. MarketInv'
  BY <1>0 DEF MarketInv, Orderly, Ended
<1>6. ProductInv'
  BY DEF ProductInv, Ended
<1> QED
  BY <1>0, <1>1, <1>2, <1>3, <1>4, <1>5, <1>6

LEMMA FinishStep ==
    ASSUME CampaignInv, Finish
    PROVE  CampaignInv'
<1> DEFINE y == Synced(mem, Sent)
           v == Marked(y, "finished")
<1>0. /\ TypeInv /\ SampleInv /\ BackedBy(mem) /\ BackedBy(disk) /\ ExactInv
      /\ LearntInv /\ MarketInv /\ ProductInv /\ VerdictInv
      /\ mem \in Manifest /\ disk \in Manifest /\ market \in Markets /\ faults \in Nat
      /\ pc = "finish" /\ market.catalog = MarketRuns
      /\ UNCHANGED <<sampling, market, ledger, files>>
  BY DEF CampaignInv, TypeInv, Finish, MarketInv
<1>1. \/ mem' = v /\ disk' = v /\ pc' = "finished" /\ faults' = faults
      \/ mem' = mem /\ disk' = disk /\ pc' = "failing" /\ faults' = faults + 1
      \/ mem' = mem /\ disk' = disk /\ pc' = "crashed" /\ faults' = faults
  BY DEF Finish, Raise, Marked
<1>2. Sent \in SUBSET Plan /\ Sent \subseteq log.requests /\ log.requests \in SUBSET Plan
  BY <1>0 DEF SampleInv, Sent, TypeInv, Logs
<1>3. y \in Manifest /\ SameBut(y, mem) /\ y.teacher = mem.teacher /\ BackedBy(y)
  BY <1>0, <1>2, SyncedFacts, BackedSynced DEF BackedBy
<1> HIDE DEF y
<1>4. /\ v \in Manifest /\ v.status = "finished" /\ v.requests = y.requests
      /\ v.teacher = y.teacher /\ v.examples = y.examples
      /\ v.rounds = y.rounds /\ v.runs = y.runs
  BY <1>3, MarkedFacts
<1> HIDE DEF v
<1>5. BackedBy(v)
  BY <1>3, <1>4 DEF BackedBy, BackedIn
<1>6. v.examples = mem.examples /\ v.runs = mem.runs /\ v.teacher = mem.teacher
  BY <1>3, <1>4 DEF SameBut
<1>7. /\ TypeInv' /\ SampleInv' /\ BackedBy(mem)' /\ BackedBy(disk)'
      /\ LearntInv' /\ MarketInv' /\ ProductInv'
      /\ Exact' = Exact /\ Sent' = Sent /\ rows' = rows
  <2>1. /\ pc' \in {"failing"} \union Ended /\ faults' \in Nat
        /\ mem' \in Manifest /\ disk' \in Manifest /\ mem'.examples = mem.examples
        /\ disk'.examples \in {mem.examples, disk.examples}
        /\ BackedBy(mem') /\ BackedBy(disk')
    BY <1>0, <1>1, <1>4, <1>5, <1>6 DEF Ended
  <2> QED
    BY <1>0, <2>1, LastKeeps
<1>8. /\ rows = Plan /\ mem.teacher = Exact /\ MarketExact(mem, 0, 0)
      /\ student = Examples /\ {PartitionOf(x) : x \in student} = Partitions
      /\ mem.status = "running" /\ disk.status = "running"
      /\ ledger = market.settled /\ files = market.catalog
  BY <1>0 DEF ExactInv, LearntInv, VerdictInv, MarketInv, Later, Orderly, Ended
<1>9. /\ market.rounds - market.settled = 0 /\ market.runs - market.catalog = 0
      /\ market.settled = MarketRuns * Rounds
  BY <1>0, NothingOpen
<1>10. ExactInv'
  <2>1. MarketExact(mem, market.rounds - market.settled, market.runs - market.catalog)' \/ pc' # "failing"
    BY <1>0, <1>1, <1>8, <1>9 DEF MarketExact
  <2>2. mem'.teacher = Exact'
    BY <1>1, <1>6, <1>7, <1>8
  <2> QED
    BY <1>1, <1>7, <2>1, <2>2 DEF ExactInv, Wounded, Later, Orderly
<1>11. VerdictInv'
  BY <1>1, <1>4, <1>8 DEF VerdictInv, Ended
<1>12. FailureAccountsClose'
  BY <1>1, <1>4, <1>8 DEF FailureAccountsClose
<1>13. FinishedIsComplete'
  <2>1. CASE pc' # "finished"
    BY <1>1, <1>8, <2>1 DEF FinishedIsComplete
  <2>2. CASE pc' = "finished"
    <3>1. log.requests = Plan /\ public = Plan
      BY <1>2, <1>8, <1>0 DEF SampleInv, TypeInv
    <3>2. disk'.teacher.resolved = Cardinality(Plan)
      BY <1>1, <1>6, <1>8, <2>2 DEF Exact, Account
    <3>3. student = {StateOf(s) : s \in {r \in Plan : task[r] = "valid"}}
      BY <1>8, ExamplesAreValid
    <3>4. products = Len(Products) /\ Learnt + 3 = 7
      BY <1>0 DEF ProductInv, Products, Learnt
    <3>5. disk'.teacher = mem.teacher /\ disk'.examples = mem.examples
          /\ disk'.runs.completed = mem.runs.completed
      BY <1>1, <1>6, <2>2
    <3>6. summary = << [teacher |-> disk'.teacher, examples |-> disk'.examples,
                        runs |-> disk'.runs.completed] >>
      BY <1>0, <3>5 DEF ProductInv
    <3>7. UNCHANGED <<task, log, public, student, products, summary, ledger, files>>
      BY <1>0 DEF sampling, evidence, learnt
    <3> QED
      BY <3>1, <3>2, <3>3, <3>4, <3>6, <3>7, <1>0, <1>8, <1>9 DEF FinishedIsComplete
  <2> QED
    BY <2>1, <2>2
<1> QED
  BY <1>7, <1>10, <1>11, <1>12, <1>13 DEF CampaignInv

LEMMA FailStep ==
    ASSUME CampaignInv, Fail
    PROVE  CampaignInv'
<1> DEFINE w == Failed(mem)
<1>0. /\ TypeInv /\ SampleInv /\ BackedBy(mem) /\ BackedBy(disk) /\ ExactInv
      /\ LearntInv /\ MarketInv /\ VerdictInv
      /\ mem \in Manifest /\ disk \in Manifest /\ market \in Markets /\ faults \in Nat
      /\ pc = "failing" /\ UNCHANGED <<sampling, market, ledger, files>>
  BY DEF CampaignInv, TypeInv, Fail
<1>1. PICK n \in 0..2 :
         /\ mem' = IF n >= 1 THEN w ELSE mem
         /\ disk' = IF n = 2 THEN w ELSE disk
         /\ Ends(n, 2, "failed", "crashed")
  BY DEF Fail
<1>2. Sent \in SUBSET Plan /\ Sent \subseteq log.requests /\ log.requests \in SUBSET Plan
  BY <1>0 DEF SampleInv, Sent, TypeInv, Logs
<1>3. BackedBy(Synced(mem, Sent))
  BY <1>0, <1>2, BackedSynced DEF BackedBy
<1>31. SameBut(Synced(mem, Sent), mem) /\ Synced(mem, Sent).teacher = mem.teacher
  BY <1>0, <1>2, SyncedFacts
<1>4. /\ w \in Manifest /\ w.status = "failed" /\ w.examples = mem.examples
      /\ w.teacher = mem.teacher /\ w.requests = Synced(mem, Sent).requests
      /\ w.rounds.started = mem.rounds.started
      /\ w.rounds.completed = mem.rounds.completed
      /\ w.rounds.failed = IF mem.rounds.started > mem.rounds.completed THEN 1
                           ELSE mem.rounds.failed
      /\ w.runs.started = mem.runs.started
      /\ w.runs.completed = mem.runs.completed
      /\ w.runs.failed = IF mem.runs.started > 0 /\ mem.runs.completed = 0
                         THEN Larger(1, mem.runs.failed) ELSE mem.runs.failed
  BY <1>0, <1>2, FailedFacts
<1> HIDE DEF w
<1>5. BackedBy(w)
  BY <1>3, <1>31, <1>4 DEF BackedBy, BackedIn, SameBut
<1>6. /\ faults' \in Nat /\ pc' \in {"failed", "crashed"}
      /\ pc' = "failed" <=> n = 2
      /\ n = 2 => faults' = faults
  BY <1>0, <1>1, EndsFacts
<1>7. /\ TypeInv' /\ SampleInv' /\ BackedBy(mem)' /\ BackedBy(disk)'
      /\ LearntInv' /\ MarketInv' /\ ProductInv'
      /\ Exact' = Exact /\ Sent' = Sent /\ rows' = rows
  <2>1. /\ pc' \in {"failing"} \union Ended
        /\ mem' \in Manifest /\ disk' \in Manifest /\ mem'.examples = mem.examples
        /\ disk'.examples \in {mem.examples, disk.examples}
        /\ BackedBy(mem') /\ BackedBy(disk')
    BY <1>0, <1>1, <1>4, <1>5, <1>6 DEF Ended
  <2> QED
    BY <1>0, <1>6, <2>1, LastKeeps
<1>8. mem.status = "running" /\ disk.status = "running"
  BY <1>0 DEF VerdictInv, Ended
<1>9. ExactInv'
  BY <1>6 DEF ExactInv, Wounded, Later, Orderly
<1>10. VerdictInv' /\ FinishedIsComplete'
  BY <1>1, <1>4, <1>6, <1>8 DEF VerdictInv, FinishedIsComplete, Ended
<1>11. FailureAccountsClose'
  <2> SUFFICES ASSUME n = 2, faults <= 1
               PROVE  FailureAccountsClose'
    BY <1>1, <1>6, <1>8 DEF FailureAccountsClose
  <2>1. mem.teacher = Exact
        /\ MarketExact(mem, market.rounds - market.settled, market.runs - market.catalog)
    BY <1>0 DEF ExactInv
  <2>2. disk' = w
    BY <1>1
  <2>3. /\ Cardinality(Sent) \in Nat /\ Cardinality(rows) \in Nat /\ Cardinality(Plan) \in Nat
        /\ Cardinality(ValidIn(rows, task)) \in Nat
    BY <1>0, <1>2, PartSize, PlanFinite DEF TypeInv, ValidIn
  <2>4. /\ disk'.teacher.attempted = Cardinality(Sent')
        /\ disk'.teacher.resolved = Cardinality(rows')
        /\ disk'.teacher.valid + disk'.teacher.failed + disk'.teacher.skipped
             = Cardinality(Plan)
    BY <1>4, <1>7, <2>1, <2>2, <2>3 DEF Exact, Account
  <2>5. /\ mem.rounds.started = market.rounds /\ mem.rounds.completed = market.settled
        /\ mem.rounds.failed = market.rounds - market.settled
        /\ mem.runs.started = market.runs /\ mem.runs.completed = market.catalog
        /\ mem.runs.failed = market.runs - market.catalog
    BY <2>1 DEF MarketExact
  <2>6. /\ market.rounds \in Nat /\ market.settled \in Nat
        /\ market.runs \in Nat /\ market.catalog \in Nat
        /\ market.settled <= market.rounds /\ market.rounds <= market.settled + 1
        /\ market.catalog <= market.runs /\ market.runs <= market.catalog + 1
    BY <1>0 DEF MarketInv, Markets
  <2>7. /\ disk'.runs.started = disk'.runs.completed + disk'.runs.failed
        /\ disk'.rounds.started = disk'.rounds.completed + disk'.rounds.failed
        /\ disk'.runs.started = market.runs /\ disk'.rounds.completed = market.settled
    BY <1>4, <2>2, <2>5, <2>6 DEF Larger
  <2> QED
    BY <1>0, <2>4, <2>7 DEF FailureAccountsClose
<1> QED
  BY <1>7, <1>9, <1>10, <1>11 DEF CampaignInv

-----------------------------------------------------------------------------
(* The theorems                                                              *)

LEMMA InitCampaign == Init => CampaignInv
<1> SUFFICES ASSUME Init PROVE CampaignInv
  OBVIOUS
<1>1. /\ States * Replicates \in Nat /\ Cardinality({}) = 0
      /\ MarketRuns \in Nat /\ Rounds \in Nat
  BY CampaignAssumption, FS_EmptySet
<1>2. Cardinality(Plan) \in Nat /\ Cardinality(Plan) = States * Replicates
  BY PlanFinite
<1>3. Manifest0 \in Manifest
  <2>1. [started |-> 0, completed |-> 0, failed |-> 0] \in Counts
    BY DEF Counts
  <2>2. [attempted |-> 0, resolved |-> 0, valid |-> 0, failed |-> 0,
         skipped |-> States * Replicates] \in Teacher
    BY <1>1 DEF Teacher
  <2> QED
    BY <2>1, <2>2 DEF Manifest0, Manifest
<1>4. TypeInv
  <2>1. task \in [Plan -> Statuses] /\ log \in Logs
    BY DEF Init, Statuses, Logs
  <2> QED
    BY <1>3, <2>1 DEF Init, TypeInv, Phases, Markets
<1>5. Sent = {} /\ \A s \in Plan : task[s] = "waiting"
  BY DEF Init, Sent
<1>6. SampleInv
  BY <1>5 DEF Init, SampleInv, Outcomes
<1>7. BackedBy(mem) /\ BackedBy(disk)
  BY <1>1 DEF Init, BackedBy, BackedIn, Manifest0
<1>8. LearntInv
  BY DEF Init, LearntInv, Early, Later, Manifest0
<1>9. MarketInv
  BY <1>1 DEF Init, MarketInv, Orderly
<1>10. Exact = Manifest0.teacher
  <2>1. ValidIn(rows, task) = {} /\ rows = {}
    BY DEF Init, ValidIn
  <2> QED
    BY <1>1, <1>2, <1>5, <2>1 DEF Exact, Account, Manifest0
<1>11. ExactInv
  BY <1>10 DEF Init, ExactInv, Wounded, Later, Orderly, MarketExact, Manifest0
<1>12. ProductInv /\ VerdictInv /\ FailureAccountsClose /\ FinishedIsComplete
  BY DEF Init, ProductInv, VerdictInv, FailureAccountsClose, FinishedIsComplete, Ended, Manifest0
<1> QED
  BY <1>4, <1>6, <1>7, <1>8, <1>9, <1>11, <1>12 DEF CampaignInv

LEMMA StutterCampaign ==
    ASSUME CampaignInv, UNCHANGED vars
    PROVE  CampaignInv'
<1>1. UNCHANGED <<pc, task, log, private, public, rows, student, products, summary, market,
                  ledger, files, mem, disk, faults>>
  BY DEF vars, evidence, learnt
<1>2. Exact' = Exact /\ Sent' = Sent /\ Examples' = Examples /\ InFlight' = InFlight
  BY <1>1 DEF Exact, Sent, Examples, Target, InFlight
<1>3. TypeInv' /\ SampleInv' /\ BackedBy(mem)' /\ BackedBy(disk)'
  BY <1>1, <1>2 DEF CampaignInv, TypeInv, SampleInv, BackedBy
<1>4. LearntInv' /\ MarketInv' /\ ProductInv' /\ VerdictInv'
  BY <1>1, <1>2 DEF CampaignInv, LearntInv, MarketInv, ProductInv, VerdictInv
<1>5. ExactInv'
  BY <1>1, <1>2 DEF CampaignInv, ExactInv, MarketExact
<1>6. FailureAccountsClose' /\ FinishedIsComplete'
  BY <1>1, <1>2 DEF CampaignInv, FailureAccountsClose, FinishedIsComplete
<1> QED
  BY <1>3, <1>4, <1>5, <1>6 DEF CampaignInv

LEMMA StepCampaign == CampaignInv /\ [Next]_vars => CampaignInv'
<1> SUFFICES ASSUME CampaignInv, [Next]_vars PROVE CampaignInv'
  OBVIOUS
<1>1. ASSUME NEW s \in Plan, Attempt(s) \/ Complete(s) PROVE CampaignInv'
  BY <1>1, AttemptStep, CompleteStep
<1>2. CASE Close \/ Interrupt
  BY <1>2, CloseStep
<1>3. CASE FinalRefresh
  BY <1>3, FinalRefreshStep
<1>4. CASE Distil
  BY <1>4, DistilStep
<1>5. CASE Publish
  BY <1>5, PublishStep
<1>6. CASE StartRun
  BY <1>6, StartRunStep
<1>7. CASE StartRound
  BY <1>7, StartRoundStep
<1>8. CASE EndRound
  BY <1>8, EndRoundStep
<1>9. CASE EndRun
  BY <1>9, EndRunStep
<1>10. CASE MarketFails
  BY <1>10, MarketFailsStep
<1>11. CASE EndMarket
  BY <1>11, EndMarketStep
<1>12. CASE Index
  BY <1>12, IndexStep
<1>13. CASE Export
  BY <1>13, ExportStep
<1>14. CASE Finish
  BY <1>14, FinishStep
<1>15. CASE Fail
  BY <1>15, FailStep
<1>16. CASE Done \/ UNCHANGED vars
  BY <1>16, StutterCampaign DEF Done
<1> QED
  BY <1>1, <1>2, <1>3, <1>4, <1>5, <1>6, <1>7, <1>8, <1>9, <1>10, <1>11, <1>12, <1>13,
     <1>14, <1>15, <1>16 DEF Next

(* The inductive invariant holds throughout.                                 *)
THEOREM CampaignInvariant == Spec => []CampaignInv
  BY InitCampaign, StepCampaign, PTL DEF Spec

(* Whenever the manifest on disk is read, after a kill too, each of its      *)
(* counts is backed by what is durable, and no market runs ahead of the      *)
(* envelope that it names as its model.                                      *)
THEOREM ManifestBacked == Spec => []ManifestIsBacked
<1>1. CampaignInv => ManifestIsBacked
  <2> SUFFICES ASSUME CampaignInv PROVE ManifestIsBacked
    OBVIOUS
  <2>1. /\ BackedIn(disk, log.requests, log.responses, public, products, ledger, files)
        /\ public \subseteq private /\ private \subseteq log.requests
    BY DEF CampaignInv, BackedBy, SampleInv
  <2>2. market.runs > 0 => disk.examples = Cardinality(student) /\ disk.examples > 0
    <3> SUFFICES ASSUME market.runs > 0
                 PROVE  disk.examples = Cardinality(student) /\ disk.examples > 0
      OBVIOUS
    <3>1. disk.examples = Cardinality(student) /\ student # {} /\ student \in SUBSET (1..States)
      BY DEF CampaignInv, LearntInv, TypeInv
    <3>2. 1 \in Int /\ States \in Int
      BY CampaignAssumption
    <3>3. IsFiniteSet(1..States)
      BY <3>2, FS_Interval
    <3>4. IsFiniteSet(student)
      BY <3>1, <3>3, FS_Subset
    <3>5. Cardinality(student) \in Nat /\ Cardinality(student) # 0
      BY <3>1, <3>4, FS_CardinalityType, FS_EmptySet
    <3> QED
      BY <3>1, <3>5
  <2> QED
    BY <2>1, <2>2 DEF BackedIn, ManifestIsBacked
<1> QED
  BY <1>1, CampaignInvariant, PTL

(* After at most one disturbance anywhere, a manifest marked failed has the  *)
(* whole account of what was sent, answered, run and left open.              *)
THEOREM FailureAccounts == Spec => []FailureAccountsClose
<1>1. CampaignInv => FailureAccountsClose
  BY DEF CampaignInv
<1> QED
  BY <1>1, CampaignInvariant, PTL

(* A finished campaign is complete, and its summary says what the manifest   *)
(* says.                                                                     *)
THEOREM FinishedCampaign == Spec => []FinishedIsComplete
<1>1. CampaignInv => FinishedIsComplete
  BY DEF CampaignInv
<1> QED
  BY <1>1, CampaignInvariant, PTL

=============================================================================
