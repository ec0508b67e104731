------------------------- MODULE AttemptSeriesProofs -------------------------
(***************************************************************************)
(* Proofs about AttemptSeries and AttemptAnalysis: for any number of        *)
(* drivers, slots, attempts, workers and failing appends, whoever owns the  *)
(* lock is alone with the series, no attempt is made while an earlier one   *)
(* is in doubt, and every run directory was announced on a ledger; a driver *)
(* that finishes leaves evidence that can be analysed, and what an analysis *)
(* exports is borne out by it.                                              *)
(***************************************************************************)
EXTENDS AttemptAnalysis, SequenceTheorems, FiniteSetTheorems, TLAPS

(* A thread that is about to use an index has one within the budget. *)
Bounded ==
    \A d \in Drivers, j \in Jobs :
        at[d][j] \in {"due", "launching", "waiting"} => next[d][j] \in Attempts

(* A process, or a thread about to start one, has its launch on the ledger. *)
Launches ==
    /\ \A c \in children : Record(c[1], c[2], c[3], "launched") \in ledger
    /\ \A d \in Drivers, j \in Jobs :
          at[d][j] = "launching" => Record(d, j, next[d][j], "launched") \in ledger

Past(j, n) == \A i \in 1..(n - 1) : attempt[j][i] \in {"opened", "unhealthy"}

(* A live child, orphan or not, comes after settled attempts only. *)
Behind == \A c \in children : Past(c[2], c[3])

(* What the preflight has read still holds when the thread acts on it. *)
Ready ==
    \A d \in Drivers, j \in Jobs : Owns(d) =>
        /\ at[d][j] \in {"todo", "due", "launching", "waiting"} =>
              /\ Past(j, next[d][j])
              /\ \A k \in Attempts : k > next[d][j] => attempt[j][k] = "absent"
        /\ at[d][j] \in {"todo", "due", "launching"} =>
              \A k \in Attempts : k = next[d][j] => attempt[j][k] = "absent"

(* A driver that has not taken the lock has read nothing. *)
Fresh == \A d \in Drivers, j \in Jobs : phase[d] = "new" => at[d][j] = "unchecked"

Inv ==
    /\ TypeOK /\ SoleOwner /\ NothingInDoubt /\ LaunchedAhead
    /\ Bounded /\ Launches /\ Behind /\ Ready /\ Fresh

Where == {"unchecked", "todo", "due", "launching", "waiting"} \union Settled
Phases == {"new", "preflight", "execute"} \union Over

-----------------------------------------------------------------------------
(* The slots of a series and the records of a ledger are what they are said to be. *)

LEMMA Indices ==
    /\ NumJobs \in Nat \ {0} /\ MaxAttempts \in Nat \ {0}
    /\ MaxFaults \in Nat
    /\ Jobs \subseteq Nat /\ Attempts \subseteq Nat
    /\ 1 \in 1..(MaxAttempts + 1)
  BY SeriesAssumption DEF Jobs, Attempts

LEMMA Records ==
    ASSUME NEW d \in Drivers, NEW j \in Jobs, NEW k \in Attempts, NEW s \in Statuses
    PROVE  /\ Record(d, j, k, s) \in
                  [driver : Drivers, job : Jobs, idx : Attempts, status : Statuses]
           /\ Record(d, j, k, s).driver = d /\ Record(d, j, k, s).job = j
           /\ Record(d, j, k, s).idx = k /\ Record(d, j, k, s).status = s
  BY DEF Record

(* One thread moves, the others stay. *)
LEMMA Moves ==
    ASSUME TypeOK, NEW d \in Drivers, NEW j \in Jobs, NEW w \in Where, Move(d, j, w)
    PROVE  /\ at' \in [Drivers -> [Jobs -> Where]]
           /\ at'[d][j] = w
           /\ \A e \in Drivers, i \in Jobs : e # d \/ i # j => at'[e][i] = at[e][i]
  BY DEF TypeOK, Move, Where

-----------------------------------------------------------------------------
(* The lock *)

LEMMA StartInv == Init => Inv
  <1> SUFFICES ASSUME Init PROVE Inv OBVIOUS
  <1> USE Indices DEF Init
  <1>1. TypeOK
    <2>1. attempt \in [Jobs -> [Attempts ->
                          {"absent", "opened", "active", "healthy", "unhealthy"}]]
      OBVIOUS
    <2>2. phase \in [Drivers -> {"new", "preflight", "execute"} \union Over]
      OBVIOUS
    <2>3. at \in [Drivers -> [Jobs -> {"unchecked", "todo", "due", "launching", "waiting"}
                                         \union Settled]]
      OBVIOUS
    <2>4. next \in [Drivers -> [Jobs -> 1..(MaxAttempts + 1)]]
      OBVIOUS
    <2>5. decided \in [Drivers -> SUBSET Jobs] /\ faults \in 0..MaxFaults
      OBVIOUS
    <2> QED BY <2>1, <2>2, <2>3, <2>4, <2>5 DEF TypeOK
  <1>2. SoleOwner BY DEF SoleOwner, Owns
  <1>3. NothingInDoubt /\ LaunchedAhead BY DEF NothingInDoubt, LaunchedAhead
  <1>4. Bounded /\ Launches /\ Behind /\ Fresh BY DEF Bounded, Launches, Behind, Fresh
  <1>5. Ready BY DEF Ready, Owns
  <1> QED BY <1>1, <1>2, <1>3, <1>4, <1>5 DEF Inv

(* Nothing but the ledger, the phases and the flags changes: the series do  *)
(* not notice.                                                              *)
LEMMA SeriesStay ==
    ASSUME Inv, UNCHANGED disk, UNCHANGED ledger
    PROVE  NothingInDoubt' /\ LaunchedAhead' /\ Behind'
  BY DEF Inv, NothingInDoubt, LaunchedAhead, Behind, Past, disk, Record

LEMMA ThreadsStay ==
    ASSUME Inv, UNCHANGED disk, UNCHANGED memory, UNCHANGED ledger
    PROVE  Bounded' /\ Launches'
  BY DEF Inv, Bounded, Launches, disk, memory, Record

(* Whoever takes the lock finds no other owner and no live child.           *)
LEMMA AcquireKeeps ==
    ASSUME Inv, NEW d \in Drivers, Acquire(d)
    PROVE  Inv'
  <1> USE DEF Acquire
  <1>1. TypeOK' BY DEF Inv, TypeOK, Over, disk, memory
  <1>2. NothingInDoubt' /\ LaunchedAhead' /\ Behind' /\ Bounded' /\ Launches'
    BY SeriesStay, ThreadsStay
  <1>3. \A e \in Drivers : phase'[e] = IF e # d THEN phase[e]
                                       ELSE IF Free THEN "preflight" ELSE "refused"
    BY DEF Inv, TypeOK
  <1>4. SoleOwner' BY <1>3 DEF Inv, SoleOwner, Free, Owns, disk, memory
  <1>5. Ready'
    BY <1>3 DEF Inv, Ready, Fresh, Owns, Past, disk, memory
  <1>6. Fresh' BY <1>3 DEF Inv, Fresh, memory
  <1> QED BY <1>1, <1>2, <1>4, <1>5, <1>6 DEF Inv

LEMMA ReadingKeeps ==
    ASSUME Inv, StartReading \/ StopReading
    PROVE  Inv'
  <1> USE DEF StartReading, StopReading
  <1>1. UNCHANGED <<disk, ledger, phase, memory>> OBVIOUS
  <1>2. TypeOK' BY <1>1 DEF Inv, TypeOK, disk, memory
  <1>3. NothingInDoubt' /\ LaunchedAhead' /\ Behind' /\ Bounded' /\ Launches'
    BY <1>1, SeriesStay, ThreadsStay
  <1>4. SoleOwner' BY DEF Inv, SoleOwner, Free, Owns, disk, memory
  <1>5. Ready' /\ Fresh' BY <1>1 DEF Inv, Ready, Fresh, Owns, Past, disk, memory
  <1> QED BY <1>2, <1>3, <1>4, <1>5 DEF Inv

LEMMA KillKeeps ==
    ASSUME Inv, NEW d \in Drivers, Kill(d) \/ Finish(d)
    PROVE  Inv'
  <1>1. /\ UNCHANGED <<disk, ledger, memory, reading, faults>>
        /\ Owns(d) /\ \E p \in Over : phase' = [phase EXCEPT ![d] = p]
    BY DEF Kill, Finish, Owns, Over
  <1>2. TypeOK' BY <1>1 DEF Inv, TypeOK, disk, memory
  <1>3. NothingInDoubt' /\ LaunchedAhead' /\ Behind' /\ Bounded' /\ Launches'
    BY <1>1, SeriesStay, ThreadsStay
  <1>4. \A e \in Drivers : /\ Owns(e)' => Owns(e)
                           /\ phase'[e] = "new" => phase[e] = "new"
    BY <1>1 DEF Inv, TypeOK, Owns, Over
  <1>5. SoleOwner' BY <1>1, <1>4 DEF Inv, SoleOwner, disk, memory
  <1>6. Ready' /\ Fresh' BY <1>1, <1>4 DEF Inv, Ready, Fresh, Past, disk, memory
  <1> QED BY <1>2, <1>3, <1>5, <1>6 DEF Inv

-----------------------------------------------------------------------------
(* The threads *)

(* A thread that does not wait for a child is alone with its series.        *)
LEMMA NoChild ==
    ASSUME Inv, NEW d \in Drivers, NEW j \in Jobs, Owns(d),
           at[d][j] # "waiting" \/ Exited(d, j)
    PROVE  \A c \in children : c[2] # j
  <1> SUFFICES ASSUME NEW c \in children, c[2] = j PROVE FALSE OBVIOUS
  <1>1. c = <<c[1], c[2], c[3]>> BY DEF Inv, TypeOK
  <1>2. c[1] = d /\ at[d][j] = "waiting" /\ c[3] = next[d][j] BY DEF Inv, SoleOwner
  <1> QED BY <1>1, <1>2 DEF Exited

(* What Ready says of one thread of the owner. *)
LEMMA ReadyAt ==
    ASSUME Inv, NEW d \in Drivers, NEW j \in Jobs, Owns(d)
    PROVE  /\ at[d][j] \in {"todo", "due", "launching", "waiting"} =>
                 /\ Past(j, next[d][j])
                 /\ \A k \in Attempts : k > next[d][j] => attempt[j][k] = "absent"
           /\ at[d][j] \in {"todo", "due", "launching"} =>
                 \A k \in Attempts : k = next[d][j] => attempt[j][k] = "absent"
  BY DEF Inv, Ready

(* A step of a thread that neither starts nor ends a child: it keeps the    *)
(* invariant if what it is about to launch is free and announced.           *)
LEMMA ThreadKeeps ==
    ASSUME Inv, NEW d \in Drivers, NEW j \in Jobs, Owns(d),
           at[d][j] # "waiting" \/ Exited(d, j),
           NEW w \in {"due", "launching", "accepted", "failed"}, Move(d, j, w),
           UNCHANGED <<disk, phase, reading>>,
           ledger \subseteq ledger',
           ledger' \subseteq [driver : Drivers, job : Jobs, idx : Attempts, status : Statuses],
           next' \in [Drivers -> [Jobs -> 1..(MaxAttempts + 1)]],
           \A e \in Drivers, i \in Jobs : e # d \/ i # j => next'[e][i] = next[e][i],
           decided' \in [Drivers -> SUBSET Jobs], raised' \subseteq Drivers,
           faults' \in 0..MaxFaults,
           w \in {"due", "launching"} =>
              /\ next'[d][j] \in Attempts /\ Past(j, next'[d][j])
              /\ \A k \in Attempts : k >= next'[d][j] => attempt[j][k] = "absent",
           w = "launching" => Record(d, j, next'[d][j], "launched") \in ledger'
    PROVE  Inv'
  <1> USE DEF disk
  <1>m. /\ at' \in [Drivers -> [Jobs -> Where]]
        /\ at'[d][j] = w
        /\ \A e \in Drivers, i \in Jobs : e # d \/ i # j => at'[e][i] = at[e][i]
    <2>1. TypeOK /\ w \in Where BY DEF Inv, Where, Settled
    <2> QED BY <2>1, Moves
  <1>c. \A c \in children : c[2] # j BY NoChild
  <1>t. \A c \in children : c[1] \in Drivers /\ c[2] \in Jobs /\ c[3] \in Attempts
    BY DEF Inv, TypeOK
  <1>o. \A e \in Drivers : Owns(e) <=> Owns(e)' BY DEF Owns
  <1>1. TypeOK' BY <1>m DEF Inv, TypeOK, Where
  <1>2. SoleOwner'
    <2>1. \A c \in children, e \in Drivers :
             at'[e][c[2]] = at[e][c[2]] /\ next'[e][c[2]] = next[e][c[2]]
      BY <1>m, <1>c, <1>t
    <2>2. ASSUME NEW e \in Drivers, Owns(e)
          PROVE  /\ ~reading /\ \A f \in Drivers : Owns(f) => f = e
                 /\ \A c \in children : /\ c[1] = e /\ at'[e][c[2]] = "waiting"
                                        /\ c[3] = next'[e][c[2]]
      BY <2>1, <2>2 DEF Inv, SoleOwner
    <2>3. /\ reading => children = {}
          /\ \A c, b \in children : c[2] = b[2] => c = b
      BY DEF Inv, SoleOwner
    <2> QED BY <2>2, <2>3, <1>o DEF SoleOwner
  <1>3. NothingInDoubt' BY DEF Inv, NothingInDoubt
  <1>4. LaunchedAhead' BY DEF Inv, LaunchedAhead, Record
  <1>5. Bounded' BY <1>m DEF Inv, Bounded
  <1>6. Launches'
    <2>1. \A c \in children' : Record(c[1], c[2], c[3], "launched") \in ledger'
      BY DEF Inv, Launches, Record
    <2>2. \A e \in Drivers, i \in Jobs :
             at'[e][i] = "launching" => Record(e, i, next'[e][i], "launched") \in ledger'
      <3> TAKE e \in Drivers, i \in Jobs
      <3>1. CASE e = d /\ i = j BY <3>1, <1>m
      <3>2. CASE e # d \/ i # j
        <4>1. at'[e][i] = at[e][i] /\ next'[e][i] = next[e][i] BY <3>2, <1>m
        <4> QED BY <4>1 DEF Inv, Launches, Record
      <3> QED BY <3>1, <3>2
    <2> QED BY <2>1, <2>2 DEF Launches, Record
  <1>7. Behind' BY DEF Inv, Behind, Past
  <1>8. Ready'
    <2> SUFFICES ASSUME NEW e \in Drivers, NEW i \in Jobs, Owns(e)
        PROVE  /\ at'[e][i] \in {"todo", "due", "launching", "waiting"} =>
                     /\ Past(i, next'[e][i])
                     /\ \A k \in Attempts : k > next'[e][i] => attempt[i][k] = "absent"
               /\ at'[e][i] \in {"todo", "due", "launching"} =>
                     \A k \in Attempts : k = next'[e][i] => attempt[i][k] = "absent"
      BY <1>o DEF Ready, Past
    <2>1. CASE e = d /\ i = j
      <3>1. w \in {"accepted", "failed"} \/ w \in {"due", "launching"} OBVIOUS
      <3> QED BY <2>1, <3>1, <1>m, Indices
    <2>2. CASE e # d \/ i # j
      <3>1. at'[e][i] = at[e][i] /\ next'[e][i] = next[e][i] BY <2>2, <1>m
      <3> QED BY <3>1, ReadyAt
    <2> QED BY <2>1, <2>2
  <1>9. Fresh' BY SMTT(30), <1>m DEF Inv, Fresh, Owns
  <1> QED BY <1>1, <1>2, <1>3, <1>4, <1>5, <1>6, <1>7, <1>8, <1>9 DEF Inv

LEMMA StartKeeps ==
    ASSUME Inv, NEW d \in Drivers, NEW j \in Jobs, Start(d, j)
    PROVE  Inv'
  <1> DEFINE w == IF next[d][j] > MaxAttempts THEN "failed" ELSE "due"
  <1>1. Owns(d) /\ at[d][j] = "todo" /\ Move(d, j, w) BY DEF Start, Owns
  <1>2. UNCHANGED <<disk, ledger, phase, next, decided, raised, reading, faults>>
    BY DEF Start
  <1>3. next[d][j] \in 1..(MaxAttempts + 1) BY DEF Inv, TypeOK
  <1>4. w = "due" =>
          /\ next'[d][j] \in Attempts /\ Past(j, next'[d][j])
          /\ \A k \in Attempts : k >= next'[d][j] => attempt[j][k] = "absent"
    BY <1>1, <1>2, <1>3, Indices DEF Inv, Ready, Attempts, Past
  <1>5. w \in {"due", "failed"} OBVIOUS
  <1> HIDE DEF w
  <1> QED BY <1>1, <1>2, <1>4, <1>5, ThreadKeeps DEF Inv, TypeOK, disk

(* What a thread may put on the ledger of the attempt it is at.             *)
LEMMA Recorded ==
    ASSUME Inv, NEW d \in Drivers, NEW j \in Jobs,
           at[d][j] \in {"due", "launching", "waiting"}, NEW s \in Statuses,
           ledger' = ledger \union {Record(d, j, next[d][j], s)}
    PROVE  /\ ledger \subseteq ledger'
           /\ ledger' \subseteq
                 [driver : Drivers, job : Jobs, idx : Attempts, status : Statuses]
  <1>1. next[d][j] \in Attempts BY DEF Inv, Bounded
  <1> QED BY <1>1, Records DEF Inv, TypeOK

LEMMA EndpointDownKeeps ==
    ASSUME Inv, NEW d \in Drivers, NEW j \in Jobs, EndpointDown(d, j) \/ SpawnFails(d, j)
    PROVE  Inv'
  <1>1. /\ Owns(d) /\ at[d][j] \in {"due", "launching"} /\ Move(d, j, "failed")
        /\ UNCHANGED <<disk, phase, next, decided, raised, reading, faults>>
        /\ \E s \in Statuses : ledger' = ledger \union {Record(d, j, next[d][j], s)}
    BY DEF EndpointDown, SpawnFails, Owns, Statuses
  <1>2. /\ ledger \subseteq ledger'
        /\ ledger' \subseteq
              [driver : Drivers, job : Jobs, idx : Attempts, status : Statuses]
    BY <1>1, Recorded
  <1> QED BY <1>1, <1>2, ThreadKeeps DEF Inv, TypeOK

LEMMA LaunchKeeps ==
    ASSUME Inv, NEW d \in Drivers, NEW j \in Jobs, Launch(d, j)
    PROVE  Inv'
  <1>1. /\ Owns(d) /\ at[d][j] = "due" /\ Move(d, j, "launching")
        /\ UNCHANGED <<disk, phase, next, decided, raised, reading, faults>>
        /\ ledger' = ledger \union {Record(d, j, next[d][j], "launched")}
    BY DEF Launch, Owns
  <1>2. /\ ledger \subseteq ledger'
        /\ ledger' \subseteq
              [driver : Drivers, job : Jobs, idx : Attempts, status : Statuses]
    BY <1>1, Recorded DEF Statuses
  <1>3. /\ next[d][j] \in Attempts /\ Past(j, next[d][j])
        /\ \A k \in Attempts : k >= next[d][j] => attempt[j][k] = "absent"
    <2>1. next[d][j] \in Attempts BY <1>1 DEF Inv, Bounded
    <2>2. /\ Past(j, next[d][j])
          /\ \A k \in Attempts : k > next[d][j] => attempt[j][k] = "absent"
          /\ \A k \in Attempts : k = next[d][j] => attempt[j][k] = "absent"
      BY <1>1 DEF Inv, Ready
    <2>3. \A k \in Attempts : k >= next[d][j] => k > next[d][j] \/ k = next[d][j]
      BY <2>1 DEF Attempts
    <2> QED BY <2>1, <2>2, <2>3
  <1>4. /\ next'[d][j] \in Attempts /\ Past(j, next'[d][j])
        /\ \A k \in Attempts : k >= next'[d][j] => attempt[j][k] = "absent"
    BY <1>1, <1>3
  <1>5. Record(d, j, next'[d][j], "launched") \in ledger' BY <1>1
  <1> QED BY <1>1, <1>2, <1>4, <1>5, ThreadKeeps DEF Inv, TypeOK

(* A rejected attempt is settled, and the next one of the series is free.   *)
LEMMA CollectKeeps ==
    ASSUME Inv, NEW d \in Drivers, NEW j \in Jobs, Collect(d, j)
    PROVE  Inv'
  <1> DEFINE k == next[d][j]
             w == After(attempt[j][k], k)
  <1>1. /\ Owns(d) /\ Exited(d, j) /\ at[d][j] = "waiting" /\ Move(d, j, w)
        /\ UNCHANGED <<disk, phase, reading, faults>>
        /\ ledger' = ledger \union {Record(d, j, k, Verdict(attempt[j][k]))}
        /\ next' = [next EXCEPT ![d][j] = IF Retried(attempt[j][k]) THEN k + 1 ELSE k]
        /\ raised' \subseteq Drivers
    BY DEF Collect, Exited, Owns, Inv, TypeOK
  <1>2. k \in Attempts BY <1>1 DEF Inv, Bounded
  <1>3. Verdict(attempt[j][k]) \in Statuses BY DEF Verdict, Statuses
  <1>4. /\ ledger \subseteq ledger'
        /\ ledger' \subseteq
              [driver : Drivers, job : Jobs, idx : Attempts, status : Statuses]
    BY <1>1, <1>3, Recorded
  <1>5. /\ next' \in [Drivers -> [Jobs -> 1..(MaxAttempts + 1)]]
        /\ next'[d][j] = IF Retried(attempt[j][k]) THEN k + 1 ELSE k
        /\ \A e \in Drivers, i \in Jobs : e # d \/ i # j => next'[e][i] = next[e][i]
    BY <1>1, <1>2, Indices DEF Inv, TypeOK, Attempts
  <1>6. decided' \in [Drivers -> SUBSET Jobs] BY DEF Collect, Inv, TypeOK
  <1>7. w \in {"due", "accepted", "failed"} BY DEF After
  <1>8. ASSUME w = "due"
        PROVE  /\ next'[d][j] \in Attempts /\ Past(j, next'[d][j])
               /\ \A m \in Attempts : m >= next'[d][j] => attempt[j][m] = "absent"
    <2>1. attempt[j][k] = "unhealthy" /\ k < MaxAttempts /\ next'[d][j] = k + 1
      BY <1>8, <1>5 DEF After, Retried
    <2>2. /\ Past(j, k)
          /\ \A m \in Attempts : m > k => attempt[j][m] = "absent"
      BY <1>1 DEF Inv, Ready
    <2>3. Past(j, k + 1) BY <2>1, <2>2, <1>2, Indices DEF Past, Attempts
    <2> QED BY <2>1, <2>2, <2>3, <1>2, Indices DEF Attempts
  <1>9. faults' \in 0..MaxFaults BY <1>1 DEF Inv, TypeOK
  <1>10. w \in {"due", "launching", "accepted", "failed"} /\ w # "launching" BY <1>7
  <1>11. w \in {"due", "launching"} =>
           /\ next'[d][j] \in Attempts /\ Past(j, next'[d][j])
           /\ \A m \in Attempts : m >= next'[d][j] => attempt[j][m] = "absent"
    BY <1>8, <1>10
  <1> HIDE DEF w, k
  <1> QED BY <1>1, <1>4, <1>5, <1>6, <1>9, <1>10, <1>11, ThreadKeeps

LEMMA AppendFailsKeeps ==
    ASSUME Inv, NEW d \in Drivers, NEW j \in Jobs, AppendFails(d, j)
    PROVE  Inv'
  <1>1. /\ Owns(d) /\ (at[d][j] # "waiting" \/ Exited(d, j)) /\ Move(d, j, "failed")
        /\ at[d][j] \in {"due", "launching", "waiting"}
        /\ UNCHANGED <<disk, phase, next, reading>>
    BY DEF AppendFails, Exited, Owns
  <1>2. decided' \in [Drivers -> SUBSET Jobs] BY DEF AppendFails, Inv, TypeOK
  <1>3. faults' \in 0..MaxFaults /\ raised' \subseteq Drivers
    BY Indices DEF AppendFails, Inv, TypeOK
  <1>4. /\ ledger \subseteq ledger'
        /\ ledger' \subseteq
              [driver : Drivers, job : Jobs, idx : Attempts, status : Statuses]
    <2>1. next[d][j] \in Attempts BY <1>1 DEF Inv, Bounded
    <2>2. \E s \in Statuses : Appending(d, j) = Record(d, j, next[d][j], s)
      BY DEF Appending, Verdict, Statuses
    <2>3. "rejected" \in Statuses BY DEF Statuses
    <2>4. ledger' \subseteq ledger \union
                               {Appending(d, j), Record(d, j, next[d][j], "rejected")}
      BY DEF AppendFails
    <2>5. ledger \subseteq ledger' BY DEF AppendFails
    <2>6. \A r \in ledger' : r \in ledger \/ \E s \in Statuses :
                                               r = Record(d, j, next[d][j], s)
      BY <2>2, <2>3, <2>4
    <2> QED BY <2>1, <2>5, <2>6, Records DEF Inv, TypeOK
  <1> QED BY <1>1, <1>2, <1>3, <1>4, ThreadKeeps DEF Inv, TypeOK

(* What is announced and free is opened by no child but the new one.        *)
LEMMA SpawnKeeps ==
    ASSUME Inv, NEW d \in Drivers, NEW j \in Jobs, Spawn(d, j)
    PROVE  Inv'
  <1> DEFINE n == next[d][j]
             new == <<d, j, n>>
  <1>1. /\ Owns(d) /\ at[d][j] = "launching" /\ Move(d, j, "waiting")
        /\ children' = children \union {new}
        /\ UNCHANGED <<attempt, ledger, phase, next, decided, raised, reading, faults>>
    BY DEF Spawn, Owns
  <1>m. /\ at' \in [Drivers -> [Jobs -> Where]]
        /\ at'[d][j] = "waiting"
        /\ \A e \in Drivers, i \in Jobs : e # d \/ i # j => at'[e][i] = at[e][i]
    <2>1. TypeOK /\ "waiting" \in Where BY DEF Inv, Where
    <2> QED BY <2>1, <1>1, Moves
  <1>n. n \in Attempts BY <1>1 DEF Inv, Bounded
  <1>c. \A c \in children : c[2] # j BY <1>1, NoChild
  <1>t. \A c \in children : c[1] \in Drivers /\ c[2] \in Jobs /\ c[3] \in Attempts
    BY DEF Inv, TypeOK
  <1>e. new[1] = d /\ new[2] = j /\ new[3] = n OBVIOUS
  <1>r. /\ Past(j, n) /\ \A k \in Attempts : k > n => attempt[j][k] = "absent"
        /\ \A k \in Attempts : k = n => attempt[j][k] = "absent"
    BY <1>1 DEF Inv, Ready
  <1>o. \A e \in Drivers : Owns(e) <=> Owns(e)' BY <1>1 DEF Owns
  <1>1a. TypeOK'
    <2>1. new \in Drivers \X Jobs \X Attempts BY <1>n
    <2> HIDE DEF new
    <2> QED BY <2>1, <1>1, <1>m DEF Inv, TypeOK, Where
  <1> HIDE DEF new
  <1>2. SoleOwner'
    <2>1. ASSUME NEW e \in Drivers, Owns(e)
          PROVE  /\ ~reading /\ \A f \in Drivers : Owns(f) => f = e
                 /\ \A c \in children : /\ c[1] = e /\ at[e][c[2]] = "waiting"
                                        /\ c[3] = next[e][c[2]]
      BY <2>1 DEF Inv, SoleOwner
    <2>2. ASSUME NEW e \in Drivers, Owns(e), NEW c \in children'
          PROVE  c[1] = e /\ at'[e][c[2]] = "waiting" /\ c[3] = next[e][c[2]]
      <3>1. CASE c = new BY <3>1, <2>1, <2>2, <1>1, <1>e, <1>m
      <3>2. CASE c \in children BY <3>2, <2>1, <2>2, <1>c, <1>t, <1>m
      <3> QED BY <3>1, <3>2, <2>2, <1>1
    <2>3. reading' => children' = {} BY <2>1, <1>1
    <2>4. \A c, b \in children' : c[2] = b[2] => c = b
      BY <1>1, <1>c, <1>e DEF Inv, SoleOwner
    <2> QED BY <2>1, <2>2, <2>3, <2>4, <1>1, <1>o DEF SoleOwner
  <1>3. NothingInDoubt'
    <2> SUFFICES ASSUME NEW i \in Jobs, NEW k \in Attempts, attempt[i][k] # "absent",
                        NEW x \in 1..(k - 1)
        PROVE  /\ attempt[i][x] \in {"opened", "unhealthy"}
               /\ \A c \in children' : <<c[2], c[3]>> # <<i, x>>
      BY <1>1 DEF NothingInDoubt
    <2>1. /\ attempt[i][x] \in {"opened", "unhealthy"}
          /\ \A c \in children : <<c[2], c[3]>> # <<i, x>>
      BY DEF Inv, NothingInDoubt
    <2>2. i = j => x # n
      BY <1>r, <1>n, Indices DEF Attempts
    <2>3. <<new[2], new[3]>> # <<i, x>> BY <2>2, <1>e
    <2> QED BY <2>1, <2>3, <1>1
  <1>4. LaunchedAhead' BY <1>1 DEF Inv, LaunchedAhead, Record
  <1>5. Bounded' BY <1>1, <1>m, <1>n DEF Inv, Bounded
  <1>6. Launches'
    <2>1. Record(d, j, n, "launched") \in ledger BY <1>1 DEF Inv, Launches
    <2>2. \A c \in children' : Record(c[1], c[2], c[3], "launched") \in ledger
      BY <2>1, <1>1, <1>e DEF Inv, Launches
    <2>3. \A e \in Drivers, i \in Jobs :
             at'[e][i] = "launching" => Record(e, i, next[e][i], "launched") \in ledger
      BY <1>m DEF Inv, Launches
    <2> QED BY <2>2, <2>3, <1>1 DEF Launches, Record
  <1>7. Behind'
    <2>1. \A c \in children' : Past(c[2], c[3]) BY <1>1, <1>e, <1>r DEF Inv, Behind
    <2> QED BY <2>1, <1>1 DEF Behind, Past
  <1>8. Ready'
    <2> SUFFICES ASSUME NEW e \in Drivers, NEW i \in Jobs, Owns(e)
        PROVE  /\ at'[e][i] \in {"todo", "due", "launching", "waiting"} =>
                     /\ Past(i, next[e][i])
                     /\ \A k \in Attempts : k > next[e][i] => attempt[i][k] = "absent"
               /\ at'[e][i] \in {"todo", "due", "launching"} =>
                     \A k \in Attempts : k = next[e][i] => attempt[i][k] = "absent"
      BY <1>1, <1>o DEF Ready, Past
    <2>1. CASE e = d /\ i = j BY <2>1, <1>m, <1>r
    <2>2. CASE e # d \/ i # j BY <2>2, <1>m DEF Inv, Ready
    <2> QED BY <2>1, <2>2
  <1>9. Fresh' BY <1>1, <1>m DEF Inv, Fresh, Owns
  <1> QED BY <1>1a, <1>2, <1>3, <1>4, <1>5, <1>6, <1>7, <1>8, <1>9 DEF Inv

-----------------------------------------------------------------------------
(* The children *)

LEMMA ChildExitsKeeps ==
    ASSUME Inv, NEW c \in children, ChildExits(c)
    PROVE  Inv'
  <1> USE DEF ChildExits
  <1>1. TypeOK' BY DEF Inv, TypeOK, memory
  <1>2. SoleOwner' BY DEF Inv, SoleOwner, Owns, memory
  <1>3. NothingInDoubt' /\ LaunchedAhead' BY DEF Inv, NothingInDoubt, LaunchedAhead, Record
  <1>4. Bounded' /\ Launches' BY DEF Inv, Bounded, Launches, memory, Record
  <1>5. Behind' BY DEF Inv, Behind, Past
  <1>6. Ready' /\ Fresh' BY DEF Inv, Ready, Fresh, Owns, Past, memory
  <1> QED BY <1>1, <1>2, <1>3, <1>4, <1>5, <1>6 DEF Inv

(* A child writes on the one attempt of its slot that nothing follows.      *)
LEMMA ChildWritesKeeps ==
    ASSUME Inv, NEW c \in children, ChildWrites(c)
    PROVE  Inv'
  <1> DEFINE j == c[2]
             k == c[3]
             state == {"absent", "opened", "active", "healthy", "unhealthy"}
  <1>1. /\ UNCHANGED <<children, ledger, phase, memory, reading, faults>>
        /\ j \in Jobs /\ k \in Attempts
        /\ \A b \in children : b[2] \in Jobs /\ b[3] \in Attempts
    BY DEF ChildWrites, Inv, TypeOK
  <1>2. /\ attempt' \in [Jobs -> [Attempts -> state]]
        /\ attempt'[j][k] # "absent"
        /\ \A i \in Jobs, m \in Attempts : i # j \/ m # k => attempt'[i][m] = attempt[i][m]
    <2>1. \E new \in state :
             new # "absent" /\ attempt' = [attempt EXCEPT ![j][k] = new]
      <3>1. PICK pair \in {<<"absent", "opened">>, <<"opened", "active">>,
                          <<"active", "healthy">>, <<"active", "unhealthy">>} :
               attempt' = [attempt EXCEPT ![j][k] = pair[2]]
        BY DEF ChildWrites
      <3>2. pair[2] \in state \ {"absent"} OBVIOUS
      <3> QED BY <3>1, <3>2
    <2> QED BY <2>1, <1>1 DEF Inv, TypeOK
  <1>3. \A b \in children : b[2] = j => b = c
    BY DEF Inv, SoleOwner
  <1>4. /\ Past(j, k)
        /\ Record(c[1], j, k, "launched") \in ledger
    BY DEF Inv, Behind, Launches
  <1>5. \A d \in Drivers : Owns(d) => at[d][j] = "waiting" /\ k = next[d][j]
    BY DEF Inv, SoleOwner
  <1>6. k \in Int /\ (\A x \in 1..(k - 1) : x \in Attempts /\ x # k)
    BY <1>1, Indices DEF Attempts
  <1>p. Past(j, k)'
    BY <1>1, <1>2, <1>4, <1>6 DEF Past
  <1>x. \A m \in Attempts : \A x \in 1..(m - 1) : x \in Attempts
    BY Indices DEF Attempts
  <1>a. TypeOK' BY <1>1, <1>2 DEF Inv, TypeOK, memory
  <1>b. SoleOwner' BY <1>1 DEF Inv, SoleOwner, Owns, memory
  <1>c. NothingInDoubt'
    <2> SUFFICES ASSUME NEW i \in Jobs, NEW m \in Attempts, attempt'[i][m] # "absent",
                        NEW x \in 1..(m - 1)
        PROVE  /\ attempt'[i][x] \in {"opened", "unhealthy"}
               /\ \A b \in children : <<b[2], b[3]>> # <<i, x>>
      BY <1>1 DEF NothingInDoubt
    <2>1. x \in Attempts BY <1>x
    <2>2. CASE i = j /\ m = k
      <3>1. attempt'[i][x] \in {"opened", "unhealthy"} BY <2>2, <1>p DEF Past
      <3>2. \A b \in children : b[2] = i => b[3] # x BY <2>2, <1>3, <1>6
      <3> QED BY <3>1, <3>2
    <2>3. CASE i # j \/ m # k
      <3>1. attempt[i][m] # "absent" BY <2>3, <1>2
      <3>2. /\ attempt[i][x] \in {"opened", "unhealthy"}
            /\ \A b \in children : <<b[2], b[3]>> # <<i, x>>
        BY <3>1 DEF Inv, NothingInDoubt
      <3>3. i # j \/ x # k BY <3>2
      <3> QED BY <3>2, <3>3, <2>1, <1>2
    <2> QED BY <2>2, <2>3
  <1>d. LaunchedAhead'
    <2>1. c[1] \in Drivers BY DEF Inv, TypeOK
    <2> SUFFICES ASSUME NEW i \in Jobs, NEW m \in Attempts, attempt'[i][m] # "absent"
        PROVE  \E d \in Drivers : Record(d, i, m, "launched") \in ledger
      BY <1>1 DEF LaunchedAhead, Record
    <2>2. CASE i = j /\ m = k BY <2>1, <2>2, <1>4
    <2>3. CASE i # j \/ m # k BY <2>3, <1>2 DEF Inv, LaunchedAhead
    <2> QED BY <2>2, <2>3
  <1>e. Bounded' /\ Launches' BY <1>1 DEF Inv, Bounded, Launches, memory, Record
  <1>f. Behind'
    <2> SUFFICES ASSUME NEW b \in children PROVE Past(b[2], b[3])'
      BY <1>1 DEF Behind
    <2>1. CASE b = c BY <2>1, <1>p
    <2>2. CASE b # c
      <3>1. b[2] # j BY <2>2, <1>3
      <3>2. Past(b[2], b[3]) BY DEF Inv, Behind
      <3> QED BY <3>1, <3>2, <1>1, <1>2, <1>x DEF Past
    <2> QED BY <2>1, <2>2
  <1>g. Ready'
    <2> SUFFICES ASSUME NEW d \in Drivers, NEW i \in Jobs, Owns(d)
        PROVE  /\ at[d][i] \in {"todo", "due", "launching", "waiting"} =>
                     /\ Past(i, next[d][i])'
                     /\ \A m \in Attempts : m > next[d][i] => attempt'[i][m] = "absent"
               /\ at[d][i] \in {"todo", "due", "launching"} =>
                     \A m \in Attempts : m = next[d][i] => attempt'[i][m] = "absent"
      BY <1>1 DEF Ready, Owns, memory, Past
    <2>1. CASE i = j
      <3>1. at[d][i] = "waiting" /\ k = next[d][i] BY <2>1, <1>5
      <3>2. \A m \in Attempts : m > k => attempt[j][m] = "absent"
        BY <2>1, <3>1 DEF Inv, Ready
      <3>3. \A m \in Attempts : m > k => m # k BY <1>6, Indices
      <3>4. next'[d][i] = next[d][i] BY <1>1 DEF memory
      <3> QED BY <2>1, <3>1, <3>2, <3>3, <3>4, <1>p, <1>2 DEF Past
    <2>2. CASE i # j
      <3>1. next[d][i] \in 1..(MaxAttempts + 1) BY DEF Inv, TypeOK
      <3>2. \A x \in 1..(next[d][i] - 1) : x \in Attempts
        BY <3>1, Indices DEF Attempts
      <3>3. next'[d][i] = next[d][i] BY <1>1 DEF memory
      <3> QED BY <2>2, <3>2, <3>3, <1>2 DEF Inv, Ready, Past
    <2> QED BY <2>1, <2>2
  <1>h. Fresh' BY <1>1 DEF Inv, Fresh, memory
  <1> QED BY <1>a, <1>b, <1>c, <1>d, <1>e, <1>f, <1>g, <1>h DEF Inv

(* An interrupted sequential driver takes its child with it; a pool is      *)
(* only marked.                                                             *)
LEMMA InterruptKeeps ==
    ASSUME Inv, NEW d \in Drivers, Interrupt(d)
    PROVE  Inv'
  <1>1. /\ UNCHANGED <<attempt, at, next, decided, reading, faults>>
        /\ children' \subseteq children /\ ledger \subseteq ledger'
        /\ raised' \subseteq Drivers /\ Owns(d)
        /\ phase' = [phase EXCEPT ![d] = "failed"] \/ UNCHANGED phase
    BY DEF Interrupt, Own, Inv, TypeOK
  <1>2. ledger' \subseteq [driver : Drivers, job : Jobs, idx : Attempts, status : Statuses]
    <2>1. \A c \in children : c[2] \in Jobs /\ c[3] \in Attempts BY DEF Inv, TypeOK
    <2>2. \A r \in ledger' : r \in ledger \/ \E c \in children, s \in Statuses :
                                               r = Record(d, c[2], c[3], s)
      BY DEF Interrupt, Own, Statuses
    <2> QED BY <2>1, <2>2, Records DEF Inv, TypeOK
  <1>3. TypeOK' BY <1>1, <1>2 DEF Inv, TypeOK, Over
  <1>4. \A e \in Drivers : /\ Owns(e)' => Owns(e)
                           /\ phase'[e] = "new" => phase[e] = "new"
    BY <1>1 DEF Inv, TypeOK, Owns
  <1>5. SoleOwner' BY <1>1, <1>4 DEF Inv, SoleOwner
  <1>6. NothingInDoubt' /\ LaunchedAhead'
    BY <1>1 DEF Inv, NothingInDoubt, LaunchedAhead, Record
  <1>7. Bounded' /\ Launches' BY <1>1 DEF Inv, Bounded, Launches, Record
  <1>8. Behind' BY <1>1 DEF Inv, Behind, Past
  <1>9. Ready' /\ Fresh' BY <1>1, <1>4 DEF Inv, Ready, Fresh, Past
  <1> QED BY <1>3, <1>5, <1>6, <1>7, <1>8, <1>9 DEF Inv

-----------------------------------------------------------------------------
(* The preflight *)

(* A series without a gap occupies its first indices, so that the number of *)
(* its attempts is the index of the last one.                               *)
LEMMA NoGap ==
    ASSUME NEW j \in Jobs,
           \A k \in Occupied(j), i \in Attempts : i < k => i \in Occupied(j)
    PROVE  /\ Cardinality(Occupied(j)) \in 0..MaxAttempts
           /\ Occupied(j) = 1..Cardinality(Occupied(j))
  <1> DEFINE S == Occupied(j)
             n == Cardinality(S)
  <1>1. S \subseteq Attempts BY DEF Occupied
  <1>2. IsFiniteSet(Attempts) /\ Cardinality(Attempts) = MaxAttempts
    BY FS_Interval, Indices DEF Attempts
  <1>3. IsFiniteSet(S) /\ n <= MaxAttempts BY <1>1, <1>2, FS_Subset
  <1>4. n \in Nat BY <1>3, FS_CardinalityType
  <1>5. IsFiniteSet(1..n) /\ Cardinality(1..n) = n BY <1>4, FS_Interval
  <1>6. \A k \in S : k \in 1..n
    <2> SUFFICES ASSUME NEW k \in S PROVE k \in 1..n OBVIOUS
    <2>1. k \in Attempts /\ k \in Nat /\ k >= 1 BY <1>1 DEF Attempts
    <2>2. 1..k \subseteq S BY <2>1, Indices DEF Attempts
    <2>3. Cardinality(1..k) = k BY <2>1, FS_Interval
    <2>4. Cardinality(1..k) <= n BY <2>2, <1>3, FS_Subset
    <2> QED BY <2>1, <2>3, <2>4, <1>4
  <1>7. S = 1..n BY <1>3, <1>5, <1>6, FS_Subset
  <1> QED BY <1>3, <1>4, <1>7, Indices

LEMMA PreflightKeeps ==
    ASSUME Inv, NEW d \in Drivers, NEW j \in Jobs, Preflight(d, j)
    PROVE  Inv'
  <1> DEFINE n == Cardinality(Occupied(j))
             w == IF \E k \in Occupied(j) : attempt[j][k] = "healthy"
                  THEN "reused" ELSE "todo"
  <1>1. /\ Owns(d) /\ at[d][j] = "unchecked" /\ Move(d, j, w)
        /\ UNCHANGED <<disk, raised, reading, faults>>
        /\ ledger' = ledger \union
              {Record(d, j, k, Found(attempt[j][k])) : k \in Scanned(j)}
        /\ next' = [next EXCEPT ![d][j] = n + 1]
        /\ decided' \in [Drivers -> SUBSET Jobs]
        /\ phase' = [phase EXCEPT ![d] = IF InFlight(j) THEN "blocked"
                                         ELSE IF Irregular(j) THEN "failed"
                                         ELSE IF j = NumJobs THEN "execute" ELSE @]
    <2>1. decided' \in [Drivers -> SUBSET Jobs] BY DEF Preflight, Inv, TypeOK
    <2> QED BY <2>1 DEF Preflight, Owns, Move
  <1>2. /\ n \in 0..MaxAttempts /\ Occupied(j) = 1..n
    <2>1. \A k \in Occupied(j), i \in Attempts : i < k => i \in Occupied(j)
      <3> SUFFICES ASSUME NEW k \in Occupied(j), NEW i \in Attempts, i < k
          PROVE i \in Occupied(j)
        OBVIOUS
      <3>1. k \in Attempts /\ attempt[j][k] # "absent" BY DEF Occupied
      <3>2. i \in 1..(k - 1) BY <3>1, Indices DEF Attempts
      <3>3. attempt[j][i] \in {"opened", "unhealthy"}
        BY <3>1, <3>2 DEF Inv, NothingInDoubt
      <3> QED BY <3>3 DEF Occupied
    <2> QED BY <2>1, NoGap
  <1>3. ASSUME w = "todo", ~InFlight(j)
        PROVE  /\ Past(j, n + 1)
               /\ \A k \in Attempts : k >= n + 1 => attempt[j][k] = "absent"
    <2>1. \A k \in Attempts : k >= n + 1 => k \notin 1..n BY <1>2, Indices DEF Attempts
    <2>2. \A k \in Attempts : k >= n + 1 => attempt[j][k] = "absent"
      BY <2>1, <1>2 DEF Occupied
    <2>3. \A i \in 1..n : attempt[j][i] \in {"opened", "unhealthy"}
      <3> SUFFICES ASSUME NEW i \in 1..n
          PROVE  attempt[j][i] \in {"opened", "unhealthy"}
        OBVIOUS
      <3>1. i \in Occupied(j) BY <1>2
      <3>2. i \in Attempts /\ attempt[j][i] # "absent" BY <3>1 DEF Occupied
      <3>3. attempt[j][i] # "healthy" BY <3>1, <1>3
      <3>4. attempt[j][i] # "active" BY <3>1, <1>3 DEF InFlight
      <3> QED BY <3>2, <3>3, <3>4 DEF Inv, TypeOK
    <2>4. 1..((n + 1) - 1) = 1..n BY <1>2
    <2> QED BY <2>2, <2>3, <2>4 DEF Past
  <1>4. w \in {"reused", "todo"} OBVIOUS
  <1>5. ledger' \subseteq [driver : Drivers, job : Jobs, idx : Attempts, status : Statuses]
    <2>1. \A k \in Scanned(j) : k \in Attempts BY DEF Scanned, Occupied
    <2>2. \A a : Found(a) \in Statuses BY DEF Found, Statuses
    <2>3. \A r \in ledger' : r \in ledger \/ \E k \in Attempts, s \in Statuses :
                                               r = Record(d, j, k, s)
      BY <1>1, <2>1, <2>2
    <2> QED BY <2>3, Records DEF Inv, TypeOK
  <1>6. /\ next' \in [Drivers -> [Jobs -> 1..(MaxAttempts + 1)]]
        /\ next'[d][j] = n + 1
        /\ \A e \in Drivers, i \in Jobs : e # d \/ i # j => next'[e][i] = next[e][i]
    BY <1>1, <1>2, Indices DEF Inv, TypeOK
  <1>c. \A c \in children : c[2] # j BY <1>1, NoChild
  <1>t. \A c \in children : c[1] \in Drivers /\ c[2] \in Jobs /\ c[3] \in Attempts
    BY DEF Inv, TypeOK
  <1>7. /\ phase' \in [Drivers -> Phases]
        /\ \A e \in Drivers : /\ Owns(e)' => Owns(e)
                              /\ phase'[e] = "new" => phase[e] = "new" /\ e # d
        /\ Owns(d)' => ~InFlight(j)
    BY <1>1 DEF Inv, TypeOK, Owns, Over, Phases
  <1> HIDE DEF w, n
  <1>m. /\ at' \in [Drivers -> [Jobs -> Where]]
        /\ at'[d][j] = w
        /\ \A e \in Drivers, i \in Jobs : e # d \/ i # j => at'[e][i] = at[e][i]
    <2>1. TypeOK /\ w \in Where BY <1>4 DEF Inv, Where, Settled
    <2> QED BY <2>1, <1>1, Moves
  <1>a. TypeOK' BY <1>1, <1>5, <1>6, <1>7, <1>m DEF Inv, TypeOK, Where, Phases, disk
  <1>b. SoleOwner'
    <2>1. \A c \in children, e \in Drivers :
             at'[e][c[2]] = at[e][c[2]] /\ next'[e][c[2]] = next[e][c[2]]
      BY <1>m, <1>6, <1>c, <1>t
    <2>2. ASSUME NEW e \in Drivers, Owns(e)
          PROVE  /\ ~reading /\ \A f \in Drivers : Owns(f) => f = e
                 /\ \A c \in children : /\ c[1] = e /\ at'[e][c[2]] = "waiting"
                                        /\ c[3] = next'[e][c[2]]
      BY <2>1, <2>2 DEF Inv, SoleOwner
    <2>3. /\ reading => children = {}
          /\ \A c, b \in children : c[2] = b[2] => c = b
      BY DEF Inv, SoleOwner
    <2> QED BY <2>2, <2>3, <1>1, <1>7 DEF SoleOwner, disk
  <1>d. NothingInDoubt' /\ Behind' BY <1>1 DEF Inv, NothingInDoubt, Behind, Past, disk
  <1>e. LaunchedAhead' BY <1>1 DEF Inv, LaunchedAhead, Record, disk
  <1>f. Bounded' BY <1>m, <1>4, <1>6 DEF Inv, Bounded
  <1>g. Launches'
    <2>1. \A c \in children' : Record(c[1], c[2], c[3], "launched") \in ledger'
      BY <1>1 DEF Inv, Launches, Record, disk
    <2>2. \A e \in Drivers, i \in Jobs :
             at'[e][i] = "launching" => Record(e, i, next'[e][i], "launched") \in ledger'
      <3> SUFFICES ASSUME NEW e \in Drivers, NEW i \in Jobs, at'[e][i] = "launching"
          PROVE  Record(e, i, next'[e][i], "launched") \in ledger'
        OBVIOUS
      <3>1. e # d \/ i # j BY <1>m, <1>4
      <3>2. at[e][i] = "launching" /\ next'[e][i] = next[e][i] BY <3>1, <1>m, <1>6
      <3>3. Record(e, i, next[e][i], "launched") \in ledger BY <3>2 DEF Inv, Launches
      <3> QED BY <3>2, <3>3, <1>1
    <2> QED BY <2>1, <2>2 DEF Launches, Record
  <1>h. Ready'
    <2> SUFFICES ASSUME NEW e \in Drivers, NEW i \in Jobs, Owns(e)'
        PROVE  /\ at'[e][i] \in {"todo", "due", "launching", "waiting"} =>
                     /\ Past(i, next'[e][i])
                     /\ \A k \in Attempts : k > next'[e][i] => attempt[i][k] = "absent"
               /\ at'[e][i] \in {"todo", "due", "launching"} =>
                     \A k \in Attempts : k = next'[e][i] => attempt[i][k] = "absent"
      BY <1>1 DEF Ready, Past, disk
    <2>1. CASE e = d /\ i = j
      <3>1. CASE w = "reused" BY <2>1, <3>1, <1>m
      <3>2. CASE w = "todo"
        <4>1. /\ Past(j, n + 1)
              /\ \A k \in Attempts : k >= n + 1 => attempt[j][k] = "absent"
          BY <2>1, <3>2, <1>3, <1>7
        <4>2. \A k \in Attempts : k > n + 1 \/ k = n + 1 => k >= n + 1
          BY <1>2, Indices DEF Attempts
        <4>3. next'[e][i] = n + 1 BY <2>1, <1>6
        <4>4. \A k \in Attempts : k > n + 1 \/ k = n + 1 => attempt[j][k] = "absent"
          BY <4>1, <4>2
        <4>5. /\ \A k \in Attempts : k > next'[e][i] => attempt[i][k] = "absent"
              /\ \A k \in Attempts : k = next'[e][i] => attempt[i][k] = "absent"
          BY <2>1, <4>3, <4>4
        <4>6. Past(i, next'[e][i]) BY <2>1, <4>1, <4>3
        <4> QED BY <4>5, <4>6
      <3> QED BY <3>1, <3>2, <1>4
    <2>2. CASE e # d \/ i # j
      <3>1. at'[e][i] = at[e][i] /\ next'[e][i] = next[e][i] BY <2>2, <1>m, <1>6
      <3>2. Owns(e) BY <1>7
      <3> QED BY <3>1, <3>2, ReadyAt
    <2> QED BY <2>1, <2>2
  <1>i. Fresh' BY <1>7, <1>m DEF Inv, Fresh
  <1> QED BY <1>a, <1>b, <1>d, <1>e, <1>f, <1>g, <1>h, <1>i DEF Inv

-----------------------------------------------------------------------------
LEMMA JobStepKeeps ==
    ASSUME Inv, NEW d \in Drivers, NEW j \in Jobs, JobStep(d, j)
    PROVE  Inv'
  BY PreflightKeeps, StartKeeps, EndpointDownKeeps, LaunchKeeps, SpawnKeeps,
     CollectKeeps, AppendFailsKeeps DEF JobStep

LEMMA StepKeeps ==
    ASSUME Inv, [Next]_vars
    PROVE  Inv'
  <1>1. CASE UNCHANGED vars
    <2>1. UNCHANGED <<disk, ledger, phase, memory, reading, faults>> BY <1>1 DEF vars
    <2>2. TypeOK' BY <2>1 DEF Inv, TypeOK, disk, memory
    <2>3. NothingInDoubt' /\ LaunchedAhead' /\ Behind' /\ Bounded' /\ Launches'
      BY <2>1, SeriesStay, ThreadsStay
    <2>4. SoleOwner' BY <2>1 DEF Inv, SoleOwner, Owns, disk, memory
    <2>5. Ready' /\ Fresh' BY <2>1 DEF Inv, Ready, Fresh, Owns, Past, disk, memory
    <2> QED BY <2>2, <2>3, <2>4, <2>5 DEF Inv
  <1>2. CASE \E d \in Drivers : Acquire(d) BY <1>2, AcquireKeeps
  <1>3. CASE \E d \in Drivers : Finish(d) \/ Kill(d) BY <1>3, KillKeeps
  <1>4. CASE \E d \in Drivers : Interrupt(d) BY <1>4, InterruptKeeps
  <1>5. CASE \E d \in Drivers, j \in Jobs : JobStep(d, j) BY <1>5, JobStepKeeps
  <1>6. CASE \E c \in children : ChildWrites(c) BY <1>6, ChildWritesKeeps
  <1>7. CASE \E c \in children : ChildExits(c) BY <1>7, ChildExitsKeeps
  <1>8. CASE StartReading \/ StopReading BY <1>8, ReadingKeeps
  <1> QED BY <1>1, <1>2, <1>3, <1>4, <1>5, <1>6, <1>7, <1>8 DEF Next

(* The invariant on which the others rest: to the three properties it adds  *)
(* that what the preflight read is still true when a thread acts on it, and *)
(* that an orphan is never on an attempt that something follows.            *)
THEOREM Invariance == Spec => []Inv
  <1>1. Inv /\ [Next]_vars => Inv' BY StepKeeps
  <1> QED BY <1>1, StartInv, PTL DEF Spec

(* The variables of drivers, children, ledgers and directories keep their types. *)
THEOREM SeriesTypes == Spec => []TypeOK
  BY Invariance, PTL DEF Inv

(* A driver that holds the lock of _OutputRootAttemptLock, and the analyzer *)
(* that holds it, is alone: no other driver, and no child of a dead one.    *)
THEOREM OwnersAreAlone == Spec => []SoleOwner
  BY Invariance, PTL DEF Inv

(* However drivers and children die, the attempts of a slot are made one    *)
(* after the other, each after the settled failure of the one before.       *)
THEOREM SeriesNeverInDoubt == Spec => []NothingInDoubt
  BY Invariance, PTL DEF Inv

(* No run directory of an attempt appears that no driver has announced on   *)
(* its durable ledger.                                                      *)
THEOREM LaunchesAreAnnounced == Spec => []LaunchedAhead
  BY Invariance, PTL DEF Inv

-----------------------------------------------------------------------------
(* AttemptAnalysis: what the driver leaves behind, and who reads it *)

(* A line of a driver's file. *)
Entry == [source : {"resumed", "executed", "driver"}, idx : 0..MaxAttempts, status : Statuses]

Stages == {"opened", "verified", "refused", "exported"}

EvidenceTypes ==
    /\ book \in [Drivers -> [Jobs -> Seq(Entry)]]
    /\ declared \in [Drivers -> [Jobs -> 0..MaxAttempts]]
    /\ lost \subseteq Drivers
    /\ \/ audit = Idle
       \/ audit \in [stage : Stages, of : Drivers, live : BOOLEAN, job : 0..NumJobs,
                     observed : SUBSET Jobs]

(* What a thread counts as done is in the selection. *)
Selected ==
    \A d \in Drivers, j \in Jobs : at[d][j] \in {"reused", "accepted"} => j \in decided[d]

(* An accepting line of the file is on the ledger, and true of the run. *)
Borne(j, d, l) ==
    l.status = "accepted" =>
        /\ l.idx \in Attempts /\ attempt[j][l.idx] = "healthy"
        /\ Record(d, j, l.idx, "accepted") \in ledger

BookBorne ==
    \A d \in Drivers, j \in Jobs : \A i \in DOMAIN book[d][j] : Borne(j, d, book[d][j][i])

(* The analysis reads what nobody changes any more. *)
Audited ==
    audit # Idle =>
        /\ reading /\ phase[audit.of] = "finished"
        /\ audit.stage \in {"verified", "exported"} =>
              /\ EvidenceHolds(audit.of, audit.live)
              /\ audit.observed = {j \in decided[audit.of] : j <= audit.job}
        /\ audit.stage = "opened" => audit.job = 0 /\ audit.observed = {}
        /\ audit.stage = "exported" => audit.job = NumJobs

(* What a driver without a failing append has written of a slot. *)
Whole(cell, n, chosen) ==
    /\ InOrder(cell) /\ {cell[i].idx : i \in DOMAIN cell} \ {0} = 1..n
    /\ \A k \in 1..n : Closed(cell, k)
    /\ {k \in 1..n : Accepts(cell, k)} = chosen

Open(cell) == \A i \in DOMAIN cell : cell[i].idx # 0 /\ cell[i].status # "accepted"

Pending(cell, n) ==
    /\ InOrder(cell) /\ Open(cell) /\ {cell[i].idx : i \in DOMAIN cell} = 1..n
    /\ \A k \in 1..(n - 1) : Closed(cell, k)
    /\ Lines(cell, n) = {Len(cell)}
    /\ cell[Len(cell)].source = "executed" /\ cell[Len(cell)].status = "launched"

Written(cell, n, where, k, chosen) ==
    CASE where = "unchecked" -> cell = <<>> /\ n = 0 /\ ~chosen
      [] where \in {"todo", "due"} ->
            Whole(cell, n, {}) /\ Open(cell) /\ n = k - 1 /\ ~chosen
      [] where \in {"launching", "waiting"} -> Pending(cell, n) /\ n = k /\ ~chosen
      [] where \in {"reused", "accepted"} -> Whole(cell, n, {n}) /\ n # 0 /\ chosen
      [] OTHER -> Whole(cell, n, {}) /\ cell # <<>> /\ ~chosen

Cell(d, j) ==
    Written(book[d][j], declared[d][j], at[d][j], next[d][j], j \in decided[d])

Cells ==
    faults = 0 => \A d \in Drivers :
        d \notin raised /\ phase[d] \notin Over \ {"finished"} => \A j \in Jobs : Cell(d, j)

Ended ==
    \A d \in Drivers : phase[d] = "finished" =>
        d \notin raised /\ \A j \in Jobs : at[d][j] \in Settled

Uncounted == faults = 0 => lost = {}
EvidenceInv == EvidenceTypes /\ Selected /\ BookBorne /\ Audited /\ Cells /\ Ended /\ Uncounted

-----------------------------------------------------------------------------
(* The lines of one slot in a driver's file, as it grows *)

Plus(cell, l) == cell \o <<l>>

Filed == Seq(Entry)

LEMMA PlusIs ==
    ASSUME NEW cell \in Filed, NEW l \in Entry
    PROVE  /\ Plus(cell, l) \in Filed /\ Len(Plus(cell, l)) = Len(cell) + 1
           /\ DOMAIN cell = 1..Len(cell) /\ DOMAIN Plus(cell, l) = 1..(Len(cell) + 1)
           /\ Len(cell) \in Nat
           /\ \A i \in 1..Len(cell) : Plus(cell, l)[i] = cell[i]
           /\ Plus(cell, l)[Len(cell) + 1] = l
  <1> DEFINE S == Entry
  <1>1. cell \in Seq(S) /\ l \in S BY DEF Filed
  <1> HIDE DEF S
  <1>2. <<l>> \in Seq(S) /\ Len(<<l>>) = 1 /\ <<l>>[1] = l BY <1>1
  <1>3. Plus(cell, l) \in Seq(S) BY <1>1, <1>2 DEF Plus
  <1>4. Len(Plus(cell, l)) = Len(cell) + 1 BY <1>1, <1>2 DEF Plus
  <1>5. \A i \in 1..Len(cell) : Plus(cell, l)[i] = cell[i] BY <1>1, <1>2 DEF Plus
  <1>6. Plus(cell, l)[Len(cell) + 1] = l BY <1>1, <1>2 DEF Plus
  <1>7. DOMAIN cell = 1..Len(cell) /\ Len(cell) \in Nat BY <1>1
  <1>8. DOMAIN Plus(cell, l) = 1..(Len(cell) + 1) BY <1>3, <1>4
  <1> QED BY <1>3, <1>4, <1>5, <1>6, <1>7, <1>8 DEF S, Filed

LEMMA PlusLines ==
    ASSUME NEW cell \in Filed, NEW l \in Entry, NEW k
    PROVE  Lines(Plus(cell, l), k) =
              IF l.idx = k THEN Lines(cell, k) \union {Len(cell) + 1} ELSE Lines(cell, k)
  <1> DEFINE new == Plus(cell, l)
             m == Len(cell)
  <1>1. /\ m \in Nat /\ DOMAIN cell = 1..m /\ DOMAIN new = 1..(m + 1)
        /\ \A i \in 1..m : new[i] = cell[i]
        /\ new[m + 1] = l
    BY PlusIs
  <1>2. DOMAIN new = (DOMAIN cell) \union {m + 1} BY <1>1
  <1> HIDE DEF new, m
  <1>3. \A i \in DOMAIN cell : new[i] = cell[i] BY <1>1
  <1>4. Lines(new, k) = IF l.idx = k THEN Lines(cell, k) \union {m + 1} ELSE Lines(cell, k)
    BY <1>1, <1>2, <1>3 DEF Lines
  <1> QED BY <1>4 DEF new, m

(* The other attempts are as they were. *)
LEMMA OthersStay ==
    ASSUME NEW cell \in Filed, NEW l \in Entry, NEW k, l.idx # k
    PROVE  /\ Closed(Plus(cell, l), k) <=> Closed(cell, k)
           /\ Accepts(Plus(cell, l), k) <=> Accepts(cell, k)
  <1>1. Lines(Plus(cell, l), k) = Lines(cell, k) BY PlusLines
  <1>2. \A i \in Lines(cell, k) : Plus(cell, l)[i] = cell[i]
    <2>1. \A i \in DOMAIN cell : Plus(cell, l)[i] = cell[i] BY PlusIs
    <2> QED BY <2>1 DEF Lines
  <1> QED BY <1>1, <1>2 DEF Closed, Accepts

LEMMA OrderStays ==
    ASSUME NEW cell \in Filed, NEW l \in Entry, InOrder(cell), Open(cell),
           l.status \in {"launched", "accepted", "rejected", "not_launched"},
           l.idx > 1 => \E h \in DOMAIN cell : cell[h].idx = l.idx - 1
    PROVE  InOrder(Plus(cell, l))
  <1> SUFFICES ASSUME NEW i \in 1..(Len(cell) + 1)
      PROVE  LET new == Plus(cell, l)
             IN  /\ new[i].status \in {"launched", "accepted", "rejected", "not_launched"}
                 /\ new[i].idx = 0 => i = Len(new)
                 /\ new[i].idx > 1 => \E h \in 1..(i - 1) : new[h].idx = new[i].idx - 1
    BY PlusIs DEF InOrder
  <1>1. CASE i \in 1..Len(cell)
    <2>1. Plus(cell, l)[i] = cell[i] /\ i \in DOMAIN cell BY <1>1, PlusIs
    <2>2. cell[i].idx > 1 => \E h \in 1..(i - 1) : cell[h].idx = cell[i].idx - 1
      BY <2>1 DEF InOrder
    <2>3. \A h \in 1..(i - 1) : Plus(cell, l)[h] = cell[h]
      <3>1. Len(cell) \in Nat /\ \A h \in 1..Len(cell) : Plus(cell, l)[h] = cell[h]
        BY PlusIs
      <3>2. \A h \in 1..(i - 1) : h \in 1..Len(cell) BY <1>1, <3>1
      <3> QED BY <3>1, <3>2
    <2> QED BY <2>1, <2>2, <2>3 DEF InOrder, Open
  <1>2. CASE i = Len(cell) + 1
    <2>1. Plus(cell, l)[i] = l /\ i = Len(Plus(cell, l)) BY <1>2, PlusIs
    <2>2. \A h \in DOMAIN cell : h \in 1..(i - 1) /\ Plus(cell, l)[h] = cell[h]
      BY <1>2, PlusIs
    <2> QED BY <2>1, <2>2
  <1> QED BY <1>1, <1>2, PlusIs

LEMMA PlusIndices ==
    ASSUME NEW cell \in Filed, NEW l \in Entry
    PROVE  {Plus(cell, l)[i].idx : i \in DOMAIN Plus(cell, l)} =
              {cell[i].idx : i \in DOMAIN cell} \union {l.idx}
  <1> DEFINE new == Plus(cell, l)
             m == Len(cell)
  <1>1. /\ m \in Nat /\ DOMAIN cell = 1..m /\ DOMAIN new = 1..(m + 1)
        /\ \A i \in 1..m : new[i] = cell[i]
        /\ new[m + 1] = l
    BY PlusIs
  <1>2. DOMAIN new = (DOMAIN cell) \union {m + 1} BY <1>1
  <1> HIDE DEF new, m
  <1>3. \A i \in DOMAIN cell : new[i] = cell[i] BY <1>1
  <1> QED BY <1>1, <1>2, <1>3 DEF new

(* An attempt is launched after the ones before it are closed. *)
LEMMA LaunchOpens ==
    ASSUME NEW cell \in Filed, NEW n \in Nat, NEW l \in Entry,
           Whole(cell, n, {}), Open(cell),
           l.source = "executed", l.idx = n + 1, l.status = "launched"
    PROVE  Pending(Plus(cell, l), n + 1)
  <1> DEFINE new == Plus(cell, l)
  <1>1. {cell[i].idx : i \in DOMAIN cell} = 1..n BY DEF Whole, Open
  <1>2. InOrder(new)
    <2>1. l.idx > 1 => \E h \in DOMAIN cell : cell[h].idx = l.idx - 1
      <3> SUFFICES ASSUME l.idx > 1 PROVE \E h \in DOMAIN cell : cell[h].idx = l.idx - 1
        OBVIOUS
      <3>1. n \in 1..n OBVIOUS
      <3>2. \E h \in DOMAIN cell : cell[h].idx = n BY <3>1, <1>1
      <3> QED BY <3>2
    <2> QED BY <2>1, OrderStays DEF Whole
  <1>3. Open(new) BY PlusIs DEF Open
  <1>4. {new[i].idx : i \in DOMAIN new} = 1..(n + 1) BY <1>1, PlusIndices
  <1>5. \A k \in 1..n : Closed(new, k) BY OthersStay DEF Whole
  <1>6. Lines(new, n + 1) = {Len(new)}
    <2>1. Lines(cell, n + 1) = {} BY <1>1 DEF Lines
    <2> QED BY <2>1, PlusLines, PlusIs
  <1>7. new[Len(new)] = l BY PlusIs
  <1>8. (n + 1) - 1 = n OBVIOUS
  <1> QED BY <1>2, <1>3, <1>4, <1>5, <1>6, <1>7, <1>8 DEF Pending

(* Its verdict closes it. *)
LEMMA VerdictCloses ==
    ASSUME NEW cell \in Filed, NEW n \in Nat \ {0}, NEW l \in Entry,
           Pending(cell, n), l.source = "executed", l.idx = n,
           l.status \in {"accepted", "rejected"}
    PROVE  /\ Whole(Plus(cell, l), n, IF l.status = "accepted" THEN {n} ELSE {})
           /\ Plus(cell, l) # <<>>
           /\ l.status = "rejected" => Open(Plus(cell, l))
  <1> DEFINE new == Plus(cell, l)
             m == Len(cell)
  <1>1. /\ Lines(new, n) = {m, m + 1} /\ m \in Nat
        /\ \A i \in DOMAIN cell : i \in 1..m /\ new[i] = cell[i]
        /\ new[m + 1] = l /\ m \in DOMAIN cell /\ Len(new) = m + 1
    <2>1. Lines(cell, n) = {m} BY DEF Pending
    <2>2. m \in DOMAIN cell BY <2>1 DEF Lines
    <2>3. Lines(new, n) = {m, m + 1} BY <2>1, PlusLines
    <2>4. /\ m \in Nat /\ Len(new) = m + 1 /\ DOMAIN cell = 1..m
          /\ \A i \in 1..m : new[i] = cell[i]
          /\ new[m + 1] = l
      BY PlusIs
    <2> HIDE DEF new, m
    <2> QED BY <2>2, <2>3, <2>4
  <1>2. InOrder(new)
    <2>1. l.idx > 1 => \E h \in DOMAIN cell : cell[h].idx = l.idx - 1
      <3>1. n > 1 => n - 1 \in 1..n OBVIOUS
      <3> QED BY <3>1 DEF Pending
    <2> QED BY <2>1, OrderStays DEF Pending
  <1>3. {new[i].idx : i \in DOMAIN new} = 1..n
    <2>1. {new[i].idx : i \in DOMAIN new} = {cell[i].idx : i \in DOMAIN cell} \union {l.idx}
      BY PlusIndices
    <2>2. {cell[i].idx : i \in DOMAIN cell} = 1..n BY DEF Pending
    <2>3. l.idx \in 1..n OBVIOUS
    <2> HIDE DEF new
    <2> QED BY <2>1, <2>2, <2>3
  <1>4. 0 \notin 1..n OBVIOUS
  <1>5. Closed(new, n)
    <2>1. new[m].source = "executed" /\ new[m].status = "launched"
      BY <1>1 DEF Pending
    <2> HIDE DEF new, m
    <2>2. m < m + 1 /\ m \in Lines(new, n) /\ m + 1 \in Lines(new, n) BY <1>1
    <2> QED BY <2>1, <2>2, <1>1 DEF Closed
  <1>6. \A k \in 1..n : Closed(new, k)
    <2> SUFFICES ASSUME NEW k \in 1..n PROVE Closed(new, k) OBVIOUS
    <2>1. CASE k = n BY <2>1, <1>5
    <2>2. CASE k # n
      <3>1. k \in 1..(n - 1) /\ l.idx # k BY <2>2
      <3>2. Closed(cell, k) BY <3>1 DEF Pending
      <3> QED BY <3>1, <3>2, OthersStay
    <2> QED BY <2>1, <2>2
  <1>7. Accepts(new, n) <=> l.status = "accepted"
    <2> HIDE DEF new, m
    <2>1. \A h \in Lines(new, n) : h <= m + 1 BY <1>1
    <2>2. \A i \in Lines(new, n) : (\A h \in Lines(new, n) : h <= i) => i = m + 1
      BY <1>1
    <2>3. m + 1 \in Lines(new, n) BY <1>1
    <2> QED BY <2>1, <2>2, <2>3, <1>1 DEF Accepts
  <1>8. \A k \in 1..n : k # n => ~Accepts(new, k)
    <2> SUFFICES ASSUME NEW k \in 1..n, k # n, Accepts(new, k) PROVE FALSE OBVIOUS
    <2>1. Accepts(cell, k) BY OthersStay
    <2> QED BY <2>1 DEF Accepts, Pending, Open, Lines
  <1>9. {k \in 1..n : Accepts(new, k)} = IF l.status = "accepted" THEN {n} ELSE {}
    BY <1>7, <1>8
  <1>10. new # <<>> BY <1>1
  <1>11. l.status = "rejected" => Open(new) BY PlusIs DEF Pending, Open
  <1> QED BY <1>2, <1>3, <1>4, <1>6, <1>9, <1>10, <1>11 DEF Whole

(* An endpoint that is down ends the series without another attempt. *)
LEMMA NotLaunchedEnds ==
    ASSUME NEW cell \in Filed, NEW n \in Nat, NEW l \in Entry,
           Whole(cell, n, {}), Open(cell),
           l.idx = 0, l.status = "not_launched"
    PROVE  Whole(Plus(cell, l), n, {}) /\ Plus(cell, l) # <<>>
  <1> DEFINE new == Plus(cell, l)
  <1>1. InOrder(new) BY OrderStays DEF Whole
  <1>2. {new[i].idx : i \in DOMAIN new} \ {0} = 1..n BY PlusIndices DEF Whole
  <1>3. \A k \in 1..n : l.idx # k OBVIOUS
  <1>4. \A k \in 1..n : Closed(new, k) BY <1>3, OthersStay DEF Whole
  <1>5. {k \in 1..n : Accepts(new, k)} = {} BY <1>3, OthersStay DEF Whole
  <1>6. new # <<>> BY PlusIs
  <1> QED BY <1>1, <1>2, <1>4, <1>5, <1>6 DEF Whole

(* The attempts that a driver finds, one line each. *)
LEMMA FoundAreWhole ==
    ASSUME NEW cell \in Filed, NEW n \in Nat, Len(cell) = n,
           \A k \in 1..n : /\ cell[k].source = "resumed" /\ cell[k].idx = k
                           /\ cell[k].status \in {"accepted", "rejected"}
    PROVE  /\ Whole(cell, n, {k \in 1..n : cell[k].status = "accepted"})
           /\ (\A k \in 1..n : cell[k].status # "accepted") => Open(cell)
  <1>1. DOMAIN cell = 1..n BY DEF Filed
  <1>2. \A k \in 1..n : Lines(cell, k) = {k} BY <1>1 DEF Lines
  <1>3. InOrder(cell)
    <2> SUFFICES ASSUME NEW i \in 1..n
        PROVE  i > 1 => \E h \in 1..(i - 1) : cell[h].idx = i - 1
      BY <1>1 DEF InOrder
    <2>1. i > 1 => i - 1 \in 1..(i - 1) /\ i - 1 \in 1..n OBVIOUS
    <2> QED BY <2>1
  <1>4. {cell[i].idx : i \in DOMAIN cell} = 1..n
    <2>1. \A i \in DOMAIN cell : cell[i].idx = i BY <1>1
    <2> QED BY <2>1, <1>1
  <1>5. 0 \notin 1..n OBVIOUS
  <1>6. \A k \in 1..n : Closed(cell, k) BY <1>2 DEF Closed
  <1>7. \A k \in 1..n : Accepts(cell, k) <=> cell[k].status = "accepted"
    BY <1>2 DEF Accepts
  <1>8. (\A k \in 1..n : cell[k].status # "accepted") => Open(cell) BY <1>1 DEF Open
  <1> QED BY <1>3, <1>4, <1>5, <1>6, <1>7, <1>8 DEF Whole

-----------------------------------------------------------------------------
(* The steps of the drivers and of the analysis *)

Counted == 0..MaxAttempts

LEMMA JointMoves ==
    ASSUME [JointNext]_all
    PROVE  [Next]_vars
  <1>1. CASE UNCHANGED all BY <1>1 DEF all
  <1>2. CASE \E d \in Drivers, j \in Jobs : Threads(d, j)
    BY <1>2 DEF Threads, Inspects, Works, Stumbles, Next, JobStep
  <1>3. CASE Else BY <1>3 DEF Else, Next
  <1>4. CASE \E d \in Drivers, live \in BOOLEAN : Opens(d, live)
    BY <1>4 DEF Opens, Next
  <1>5. CASE Verifies \/ ValidatesChild \/ Exports
    BY <1>5 DEF Verifies, ValidatesChild, Exports
  <1>6. CASE Closes BY <1>6 DEF Closes, Next
  <1> QED BY <1>1, <1>2, <1>3, <1>4, <1>5, <1>6 DEF JointNext, all

(* Runs that were accepted stay, and a ledger keeps its lines. *)
LEMMA Lasting ==
    ASSUME Inv, [Next]_vars
    PROVE  /\ ledger \subseteq ledger'
           /\ \A j \in Jobs, k \in Attempts :
                 attempt[j][k] = "healthy" => attempt'[j][k] = "healthy"
  <1>1. CASE UNCHANGED <<attempt, ledger>> BY <1>1
  <1>2. CASE UNCHANGED attempt /\ ledger \subseteq ledger' BY <1>2
  <1>3. CASE \E c \in children : ChildWrites(c)
    <2> PICK c \in children : ChildWrites(c) BY <1>3
    <2>1. c[2] \in Jobs /\ c[3] \in Attempts BY DEF Inv, TypeOK
    <2>2. PICK new \in {<<"absent", "opened">>, <<"opened", "active">>,
                        <<"active", "healthy">>, <<"active", "unhealthy">>} :
             /\ attempt[c[2]][c[3]] = new[1]
             /\ attempt' = [attempt EXCEPT ![c[2]][c[3]] = new[2]]
      BY DEF ChildWrites
    <2>3. ledger' = ledger BY DEF ChildWrites
    <2>4. attempt[c[2]][c[3]] # "healthy" BY <2>2
    <2> QED BY <2>1, <2>2, <2>3, <2>4 DEF Inv, TypeOK
  <1>4. CASE \E d \in Drivers, j \in Jobs : JobStep(d, j)
    <2>1. UNCHANGED attempt
      BY <1>4 DEF JobStep, Preflight, Start, EndpointDown, Launch, Spawn, SpawnFails,
                  Collect, AppendFails, disk
    <2>2. ledger \subseteq ledger'
      BY <1>4 DEF JobStep, Preflight, Start, EndpointDown, Launch, Spawn, SpawnFails,
                  Collect, AppendFails
    <2> QED BY <2>1, <2>2
  <1>5. CASE \E d \in Drivers : Acquire(d) \/ Finish(d) \/ Interrupt(d) \/ Kill(d)
    <2>1. UNCHANGED attempt /\ ledger \subseteq ledger'
      BY <1>5 DEF Acquire, Finish, Interrupt, Kill, disk
    <2> QED BY <2>1
  <1>6. CASE \E c \in children : ChildExits(c) BY <1>6 DEF ChildExits
  <1>7. CASE StartReading \/ StopReading BY <1>7 DEF StartReading, StopReading, disk
  <1>8. CASE UNCHANGED vars BY <1>8 DEF vars, disk
  <1> QED BY <1>3, <1>4, <1>5, <1>6, <1>7, <1>8 DEF Next

(* A series has neither a gap nor an attempt after an accepted one, so that *)
(* the preflight scans all of it.                                           *)
LEMMA SeriesAreRegular ==
    ASSUME Inv, NEW j \in Jobs
    PROVE  /\ Cardinality(Occupied(j)) \in Counted
           /\ Occupied(j) = 1..Cardinality(Occupied(j))
           /\ Scanned(j) = Occupied(j) /\ ~Irregular(j)
  <1>1. \A k \in Occupied(j), i \in Attempts : i < k =>
           attempt[j][i] \in {"opened", "unhealthy"}
    <2> SUFFICES ASSUME NEW k \in Occupied(j), NEW i \in Attempts, i < k
        PROVE attempt[j][i] \in {"opened", "unhealthy"}
      OBVIOUS
    <2>1. k \in Attempts /\ attempt[j][k] # "absent" BY DEF Occupied
    <2>2. i \in 1..(k - 1) BY <2>1, Indices DEF Attempts
    <2> QED BY <2>1, <2>2 DEF Inv, NothingInDoubt
  <1>2. \A k \in Occupied(j), i \in Attempts : i < k => i \in Occupied(j)
    BY <1>1 DEF Occupied
  <1>3. \A i \in Occupied(j) : i \in Attempts BY DEF Occupied
  <1>4. Scanned(j) = Occupied(j) BY <1>1, <1>3 DEF Scanned
  <1>5. ~Irregular(j) BY <1>1, <1>2, <1>3 DEF Irregular
  <1> QED BY <1>2, <1>4, <1>5, NoGap DEF Counted

(* What a thread's step makes of the evidence. *)
LEMMA LeavesIs ==
    ASSUME EvidenceTypes, NEW d \in Drivers, NEW j \in Jobs,
           NEW lines \in Filed, NEW n \in Counted, Leaves(d, j, lines, n)
    PROVE  /\ book' \in [Drivers -> [Jobs -> Filed]]
           /\ declared' \in [Drivers -> [Jobs -> Counted]]
           /\ \A e \in Drivers, i \in Jobs :
                 /\ book'[e][i] =
                       IF phase'[e] \in Over \ {"finished"} THEN <<>>
                       ELSE IF e = d /\ i = j THEN book[d][j] \o lines ELSE book[e][i]
                 /\ declared'[e][i] =
                       IF phase'[e] \in Over \ {"finished"} THEN 0
                       ELSE IF e = d /\ i = j THEN n ELSE declared[e][i]
  <1> DEFINE Ends == Over \ {"finished"}
  <1>1. <<>> \in Filed /\ \A s, t \in Filed : s \o t \in Filed BY DEF Filed
  <1>2. 0 \in Counted BY Indices DEF Counted
  <1>3. book \in [Drivers -> [Jobs -> Filed]] /\ declared \in [Drivers -> [Jobs -> Counted]]
    BY DEF EvidenceTypes, Filed, Counted
  <1>4. book[d][j] \o lines \in Filed BY <1>1, <1>3
  <1>5. /\ book' = [e \in Drivers |->
              IF phase'[e] \in Ends THEN [i \in Jobs |-> <<>>]
              ELSE [book EXCEPT ![d][j] = @ \o lines][e]]
        /\ declared' = [e \in Drivers |->
              IF phase'[e] \in Ends THEN [i \in Jobs |-> 0]
              ELSE [declared EXCEPT ![d][j] = n][e]]
    BY DEF Leaves, Kept
  <1> DEFINE more == book[d][j] \o lines
  <1>6. book' = [e \in Drivers |->
              IF phase'[e] \in Ends THEN [i \in Jobs |-> <<>>]
              ELSE [book EXCEPT ![d][j] = more][e]]
    BY <1>5
  <1>7. more \in Filed BY <1>4
  <1> HIDE DEF more, Ends
  <1>8. /\ book' \in [Drivers -> [Jobs -> Filed]]
        /\ \A e \in Drivers, i \in Jobs : book'[e][i] =
              IF phase'[e] \in Ends THEN <<>>
              ELSE IF e = d /\ i = j THEN more ELSE book[e][i]
    BY <1>1, <1>3, <1>6, <1>7
  <1>9. /\ declared' \in [Drivers -> [Jobs -> Counted]]
        /\ \A e \in Drivers, i \in Jobs : declared'[e][i] =
              IF phase'[e] \in Ends THEN 0
              ELSE IF e = d /\ i = j THEN n ELSE declared[e][i]
    BY <1>2, <1>3, <1>5
  <1> QED BY <1>8, <1>9 DEF more, Ends

(* The other steps keep the evidence or drop it. *)
LEMMA ElseKeeps ==
    ASSUME EvidenceTypes, Else
    PROVE  /\ book' \in [Drivers -> [Jobs -> Filed]]
           /\ declared' \in [Drivers -> [Jobs -> Counted]]
           /\ \A e \in Drivers, i \in Jobs :
                 /\ book'[e][i] = IF phase'[e] \in Over \ {"finished"} THEN <<>> ELSE book[e][i]
                 /\ declared'[e][i] = IF phase'[e] \in Over \ {"finished"} THEN 0
                                      ELSE declared[e][i]
  <1> DEFINE Ends == Over \ {"finished"}
  <1>1. <<>> \in Filed BY DEF Filed
  <1>2. 0 \in Counted BY Indices DEF Counted
  <1>3. book \in [Drivers -> [Jobs -> Filed]] /\ declared \in [Drivers -> [Jobs -> Counted]]
    BY DEF EvidenceTypes, Filed, Counted
  <1>4. /\ book' = [e \in Drivers |-> IF phase'[e] \in Ends THEN [i \in Jobs |-> <<>>]
                                      ELSE book[e]]
        /\ declared' = [e \in Drivers |-> IF phase'[e] \in Ends THEN [i \in Jobs |-> 0]
                                          ELSE declared[e]]
    BY DEF Else, Kept
  <1> HIDE DEF Ends
  <1>5. /\ book' \in [Drivers -> [Jobs -> Filed]]
        /\ declared' \in [Drivers -> [Jobs -> Counted]]
        /\ \A e \in Drivers, i \in Jobs :
              /\ book'[e][i] = IF phase'[e] \in Ends THEN <<>> ELSE book[e][i]
              /\ declared'[e][i] = IF phase'[e] \in Ends THEN 0 ELSE declared[e][i]
    BY <1>1, <1>2, <1>3, <1>4
  <1> QED BY <1>5 DEF Ends

LEMMA ExecutedIs ==
    ASSUME NEW d \in Drivers, NEW j \in Jobs, NEW k \in Attempts, NEW s \in Statuses
    PROVE  /\ Executed(Record(d, j, k, s)) \in Entry
           /\ Executed(Record(d, j, k, s)).source = "executed"
           /\ Executed(Record(d, j, k, s)).status = s
           /\ Executed(Record(d, j, k, s)).idx = IF s = "not_launched" THEN 0 ELSE k
  <1>1. 0 \in 0..MaxAttempts /\ k \in 0..MaxAttempts BY Indices DEF Attempts
  <1> QED BY <1>1, Records DEF Executed, Line, Entry

LEMMA OneLine ==
    ASSUME NEW l \in Entry
    PROVE  <<l>> \in Filed /\ DOMAIN <<l>> = {1} /\ <<l>>[1] = l
  BY DEF Filed

LEMMA NoLine == <<>> \in Filed /\ DOMAIN <<>> = {}
  BY DEF Filed

(* What a thread would append is a record of the attempt it is at. *)
LEMMA AppendingIs ==
    ASSUME Inv, NEW d \in Drivers, NEW j \in Jobs,
           at[d][j] \in {"due", "launching", "waiting"}
    PROVE  /\ next[d][j] \in Attempts
           /\ \E s \in Statuses :
                /\ Appending(d, j) = Record(d, j, next[d][j], s)
                /\ at[d][j] = "due" => s = "launched"
                /\ at[d][j] = "launching" => s = "rejected"
                /\ at[d][j] = "waiting" => s = Verdict(attempt[j][next[d][j]])
                /\ s # "not_launched"
                /\ s = "accepted" => /\ attempt[j][next[d][j]] = "healthy"
                                     /\ at[d][j] = "waiting"
  <1>1. next[d][j] \in Attempts BY DEF Inv, Bounded
  <1>2. CASE at[d][j] = "due"
    <2>1. Appending(d, j) = Record(d, j, next[d][j], "launched") BY <1>2 DEF Appending
    <2> QED BY <1>1, <1>2, <2>1 DEF Statuses
  <1>3. CASE at[d][j] = "launching"
    <2>1. Appending(d, j) = Record(d, j, next[d][j], "rejected") BY <1>3 DEF Appending
    <2> QED BY <1>1, <1>3, <2>1 DEF Statuses
  <1>4. CASE at[d][j] = "waiting"
    <2>1. Appending(d, j) = Record(d, j, next[d][j], Verdict(attempt[j][next[d][j]]))
      BY <1>4 DEF Appending
    <2>2. /\ Verdict(attempt[j][next[d][j]]) \in Statuses
          /\ Verdict(attempt[j][next[d][j]]) # "not_launched"
          /\ Verdict(attempt[j][next[d][j]]) = "accepted" =>
                attempt[j][next[d][j]] = "healthy"
      BY DEF Verdict, Statuses
    <2> QED BY <1>1, <1>4, <2>1, <2>2
  <1> QED BY <1>2, <1>3, <1>4

LEMMA ResumedIs ==
    ASSUME Inv, NEW j \in Jobs
    PROVE  /\ Resumed(j) \in Filed /\ Len(Resumed(j)) = Cardinality(Occupied(j))
           /\ DOMAIN Resumed(j) = Occupied(j)
           /\ \A k \in Occupied(j) : /\ Resumed(j)[k].source = "resumed"
                                     /\ Resumed(j)[k].idx = k
                                     /\ Resumed(j)[k].status = Found(attempt[j][k])
  <1> DEFINE n == Cardinality(Occupied(j))
             row == [k \in 1..n |-> Line("resumed", k, Found(attempt[j][k]))]
  <1>1. n \in Counted /\ Occupied(j) = 1..n /\ Scanned(j) = Occupied(j)
    BY SeriesAreRegular
  <1>2. Resumed(j) = row BY <1>1 DEF Resumed
  <1>3. \A k \in 1..n : /\ Line("resumed", k, Found(attempt[j][k])) \in Entry
                        /\ Line("resumed", k, Found(attempt[j][k])).source = "resumed"
                        /\ Line("resumed", k, Found(attempt[j][k])).idx = k
                        /\ Line("resumed", k, Found(attempt[j][k])).status = Found(attempt[j][k])
    <2>1. \A k \in 1..n : k \in 0..MaxAttempts BY <1>1, Indices DEF Counted
    <2>2. \A a : Found(a) \in Statuses BY DEF Found, Statuses
    <2> QED BY <2>1, <2>2 DEF Line, Entry
  <1>4. n \in Nat BY <1>1, Indices DEF Counted
  <1>5. row \in Filed /\ Len(row) = n
    <2> DEFINE S == Entry
    <2>1. row \in [1..n -> S] BY <1>3
    <2> HIDE DEF row, S
    <2> QED BY <2>1, <1>4 DEF Filed, S
  <1>6. DOMAIN row = 1..n /\ \A k \in 1..n : row[k] = Line("resumed", k, Found(attempt[j][k]))
    OBVIOUS
  <1> HIDE DEF row, n
  <1> QED BY <1>1, <1>2, <1>3, <1>5, <1>6 DEF n

(* Whatever a thread adds to its driver's file, a line that accepts is      *)
(* about a healthy run and stands on the ledger.                            *)
LEMMA ThreadAdds ==
    ASSUME Inv, EvidenceTypes, NEW d \in Drivers, NEW j \in Jobs, Threads(d, j)
    PROVE  \E lines \in Filed, n \in Counted :
              /\ Leaves(d, j, lines, n)
              /\ \A i \in DOMAIN lines : lines[i].status = "accepted" =>
                    /\ lines[i].idx \in Attempts /\ attempt[j][lines[i].idx] = "healthy"
                    /\ Record(d, j, lines[i].idx, "accepted") \in ledger'
  <1>n. declared[d][j] \in Counted BY DEF EvidenceTypes, Counted
  <1>k. \A k \in Attempts : k \in Counted BY Indices DEF Attempts, Counted
  <1>a. ASSUME Inspects(d, j) PROVE
           \E lines \in Filed, n \in Counted :
              /\ Leaves(d, j, lines, n)
              /\ \A i \in DOMAIN lines : lines[i].status = "accepted" =>
                    /\ lines[i].idx \in Attempts /\ attempt[j][lines[i].idx] = "healthy"
                    /\ Record(d, j, lines[i].idx, "accepted") \in ledger'
    <2>1. Leaves(d, j, Resumed(j), Cardinality(Occupied(j))) BY <1>a DEF Inspects
    <2>2. Cardinality(Occupied(j)) \in Counted BY SeriesAreRegular
    <2>3. Resumed(j) \in Filed BY ResumedIs
    <2>4. ASSUME NEW i \in DOMAIN Resumed(j), Resumed(j)[i].status = "accepted"
          PROVE  /\ Resumed(j)[i].idx \in Attempts /\ attempt[j][Resumed(j)[i].idx] = "healthy"
                 /\ Record(d, j, Resumed(j)[i].idx, "accepted") \in ledger'
      <3>1. i \in Occupied(j) /\ Resumed(j)[i].idx = i /\ Found(attempt[j][i]) = "accepted"
        BY <2>4, ResumedIs
      <3>2. i \in Attempts BY <3>1 DEF Occupied
      <3>3. attempt[j][i] = "healthy" BY <3>1 DEF Found
      <3>4. i \in Scanned(j) BY <3>1, SeriesAreRegular
      <3>5. Record(d, j, i, Found(attempt[j][i])) \in ledger'
        BY <1>a, <3>4 DEF Inspects, Preflight
      <3> QED BY <3>1, <3>2, <3>3, <3>5
    <2> QED BY <2>1, <2>2, <2>3, <2>4
  <1>b. ASSUME NEW l \in Entry, NEW n \in Counted, Leaves(d, j, <<l>>, n),
               l.status = "accepted" =>
                  /\ l.idx \in Attempts /\ attempt[j][l.idx] = "healthy"
                  /\ Record(d, j, l.idx, "accepted") \in ledger'
        PROVE
           \E lines \in Filed, m \in Counted :
              /\ Leaves(d, j, lines, m)
              /\ \A i \in DOMAIN lines : lines[i].status = "accepted" =>
                    /\ lines[i].idx \in Attempts /\ attempt[j][lines[i].idx] = "healthy"
                    /\ Record(d, j, lines[i].idx, "accepted") \in ledger'
    <2> DEFINE one == <<l>>
    <2>1. one \in Filed /\ DOMAIN one = {1} /\ one[1] = l BY OneLine
    <2>2. Leaves(d, j, one, n) BY <1>b
    <2> HIDE DEF one
    <2> QED BY <1>b, <2>1, <2>2
  <1>c. ASSUME Works(d, j) PROVE
           \E lines \in Filed, n \in Counted :
              /\ Leaves(d, j, lines, n)
              /\ \A i \in DOMAIN lines : lines[i].status = "accepted" =>
                    /\ lines[i].idx \in Attempts /\ attempt[j][lines[i].idx] = "healthy"
                    /\ Record(d, j, lines[i].idx, "accepted") \in ledger'
    <2>1. CASE (Start(d, j) \/ Spawn(d, j)) /\ Leaves(d, j, <<>>, declared[d][j])
      BY <2>1, <1>n, NoLine
    <2>2. CASE /\ EndpointDown(d, j)
               /\ Leaves(d, j, <<Executed(Record(d, j, next[d][j], "not_launched"))>>,
                         declared[d][j])
      <3>1. next[d][j] \in Attempts BY <2>2 DEF EndpointDown, Inv, Bounded
      <3>2. "not_launched" \in Statuses BY DEF Statuses
      <3> DEFINE l == Executed(Record(d, j, next[d][j], "not_launched"))
      <3>3. l \in Entry /\ l.status = "not_launched" BY <3>1, <3>2, ExecutedIs
      <3>4. Leaves(d, j, <<l>>, declared[d][j]) BY <2>2
      <3> HIDE DEF l
      <3> QED BY <3>3, <3>4, <1>b, <1>n
    <2>3. ASSUME at[d][j] \in {"due", "launching", "waiting"},
                 Appending(d, j) \in ledger',
                 NEW n \in Counted, Leaves(d, j, <<Executed(Appending(d, j))>>, n)
          PROVE
           \E lines \in Filed, m \in Counted :
              /\ Leaves(d, j, lines, m)
              /\ \A i \in DOMAIN lines : lines[i].status = "accepted" =>
                    /\ lines[i].idx \in Attempts /\ attempt[j][lines[i].idx] = "healthy"
                    /\ Record(d, j, lines[i].idx, "accepted") \in ledger'
      <3> DEFINE l == Executed(Appending(d, j))
      <3>1. next[d][j] \in Attempts BY <2>3, AppendingIs
      <3>2. PICK s \in Statuses :
              /\ Appending(d, j) = Record(d, j, next[d][j], s)
              /\ s # "not_launched"
              /\ s = "accepted" => attempt[j][next[d][j]] = "healthy"
        BY <2>3, AppendingIs
      <3>3. l \in Entry /\ l.status = s /\ l.idx = next[d][j]
        BY <3>1, <3>2, ExecutedIs
      <3>4. Leaves(d, j, <<l>>, n) BY <2>3
      <3>5. s = "accepted" => Record(d, j, l.idx, "accepted") \in ledger'
        BY <2>3, <3>2, <3>3
      <3> HIDE DEF l
      <3> QED BY <3>1, <3>2, <3>3, <3>4, <3>5, <1>b
    <2>4. CASE Launch(d, j) /\ Leaves(d, j, <<Executed(Appending(d, j))>>, next[d][j])
      <3>1. at[d][j] = "due" BY <2>4 DEF Launch
      <3>2. Appending(d, j) = Record(d, j, next[d][j], "launched") BY <3>1 DEF Appending
      <3>3. Appending(d, j) \in ledger' BY <2>4, <3>2 DEF Launch
      <3>4. next[d][j] \in Counted BY <3>1, <1>k DEF Inv, Bounded
      <3> QED BY <2>3, <2>4, <3>1, <3>3, <3>4
    <2>5. CASE SpawnFails(d, j) /\ Leaves(d, j, <<Executed(Appending(d, j))>>, declared[d][j])
      <3>1. at[d][j] = "launching" BY <2>5 DEF SpawnFails
      <3>2. Appending(d, j) = Record(d, j, next[d][j], "rejected") BY <3>1 DEF Appending
      <3>3. Appending(d, j) \in ledger' BY <2>5, <3>2 DEF SpawnFails
      <3> QED BY <2>3, <2>5, <3>1, <3>3, <1>n
    <2>6. CASE Collect(d, j) /\ Leaves(d, j, <<Executed(Appending(d, j))>>, declared[d][j])
      <3>1. at[d][j] = "waiting" BY <2>6 DEF Collect, Exited
      <3>2. Appending(d, j) = Record(d, j, next[d][j], Verdict(attempt[j][next[d][j]]))
        BY <3>1 DEF Appending
      <3>3. Appending(d, j) \in ledger' BY <2>6, <3>2 DEF Collect
      <3> QED BY <2>3, <2>6, <3>1, <3>3, <1>n
    <2> QED BY <1>c, <2>1, <2>2, <2>4, <2>5, <2>6 DEF Works
  <1>d. ASSUME Stumbles(d, j) PROVE
           \E lines \in Filed, n \in Counted :
              /\ Leaves(d, j, lines, n)
              /\ \A i \in DOMAIN lines : lines[i].status = "accepted" =>
                    /\ lines[i].idx \in Attempts /\ attempt[j][lines[i].idx] = "healthy"
                    /\ Record(d, j, lines[i].idx, "accepted") \in ledger'
    <2>1. at[d][j] \in {"due", "launching", "waiting"}
      BY <1>d DEF Stumbles, AppendFails, Exited
    <2>2. next[d][j] \in Attempts BY <2>1, AppendingIs
    <2>3. PICK s \in Statuses :
              /\ Appending(d, j) = Record(d, j, next[d][j], s)
              /\ s # "not_launched"
              /\ s = "accepted" => attempt[j][next[d][j]] = "healthy"
      BY <2>1, AppendingIs
    <2> DEFINE first == Executed(Appending(d, j))
               second == Line("driver", next[d][j], "rejected")
               n == IF at[d][j] = "due" THEN next[d][j] ELSE declared[d][j]
    <2>4. PICK kept \in BOOLEAN :
            /\ kept => Appending(d, j) \in ledger'
            /\ Leaves(d, j, (IF kept THEN <<first>> ELSE <<>>) \o
                              (IF faults' = faults + 1 THEN <<second>> ELSE <<>>), n)
      BY <1>d DEF Stumbles
    <2>5. first \in Entry /\ first.status = s /\ first.idx = next[d][j]
      BY <2>2, <2>3, ExecutedIs
    <2>6. second \in Entry /\ second.status = "rejected"
      BY <2>2, <1>k DEF Line, Entry, Statuses, Counted
    <2>7. n \in Counted BY <2>2, <1>n, <1>k
    <2>8. s = "accepted" /\ kept => Record(d, j, first.idx, "accepted") \in ledger'
      BY <2>3, <2>4, <2>5
    <2> DEFINE lines == (IF kept THEN <<first>> ELSE <<>>) \o
                              (IF faults' = faults + 1 THEN <<second>> ELSE <<>>)
    <2>9. Leaves(d, j, lines, n) BY <2>4
    <2> HIDE DEF first, second, n
    <2>10. lines \in Filed /\ \A i \in DOMAIN lines :
              (kept /\ lines[i] = first) \/ lines[i] = second
      <3> DEFINE S == Entry
      <3>1. first \in S /\ second \in S BY <2>5, <2>6
      <3> HIDE DEF S
      <3>2. CASE kept /\ faults' = faults + 1
        <4> DEFINE one == <<first>>
        <4>1. one \in Filed /\ Len(one) = 1 /\ one[1] = first BY <3>1 DEF Filed, S
        <4>2. lines = Plus(one, second) BY <3>2 DEF Plus
        <4> HIDE DEF one, lines
        <4>3. second \in Entry BY <3>1 DEF S
        <4>p. /\ Plus(one, second) \in Filed
              /\ DOMAIN Plus(one, second) = 1..(Len(one) + 1)
              /\ \A i \in 1..Len(one) : Plus(one, second)[i] = one[i]
              /\ Plus(one, second)[Len(one) + 1] = second
          BY <4>1, <4>3, PlusIs
        <4>q. Len(one) + 1 = 2 /\ 1 \in 1..Len(one) BY <4>1
        <4>4. /\ lines \in Filed /\ DOMAIN lines = 1..2
              /\ lines[1] = first /\ lines[2] = second
          BY <4>1, <4>2, <4>p, <4>q
        <4>5. \A i \in 1..2 : i = 1 \/ i = 2 OBVIOUS
        <4> QED BY <3>2, <4>4, <4>5
      <3>3. CASE kept /\ faults' # faults + 1
        <4>1. lines = <<first>> BY <3>1, <3>3
        <4> QED BY <3>1, <3>3, <4>1 DEF Filed, S
      <3>4. CASE ~kept /\ faults' = faults + 1
        <4>1. lines = <<second>> BY <3>1, <3>4
        <4> QED BY <3>1, <3>4, <4>1 DEF Filed, S
      <3>5. CASE ~kept /\ faults' # faults + 1
        <4>1. lines = <<>> BY <3>5
        <4> QED BY <4>1 DEF Filed
      <3> QED BY <3>2, <3>3, <3>4, <3>5
    <2> HIDE DEF lines
    <2> QED BY <2>2, <2>3, <2>5, <2>6, <2>7, <2>8, <2>9, <2>10
  <1> QED BY <1>a, <1>c, <1>d DEF Threads

(* A thread works under the lock of its driver. *)
LEMMA ThreadsOwn ==
    ASSUME NEW d \in Drivers, NEW j \in Jobs, Threads(d, j)
    PROVE  Owns(d) /\ JobStep(d, j)
  BY DEF Threads, Inspects, Works, Stumbles, JobStep, Owns, Preflight, Start, EndpointDown,
         Launch, Spawn, SpawnFails, Collect, AppendFails

LEMMA SelectedKept ==
    ASSUME Inv, Selected, [Next]_vars
    PROVE  Selected'
  <1>1. ASSUME UNCHANGED <<at, decided>> PROVE Selected' BY <1>1 DEF Selected
  <1>2. ASSUME NEW d \in Drivers, NEW j \in Jobs, NEW w, Move(d, j, w),
               \A e \in Drivers : decided[e] \subseteq decided'[e],
               w \in {"reused", "accepted"} => j \in decided'[d]
        PROVE  Selected'
    <2>1. \A e \in Drivers, i \in Jobs :
             at'[e][i] = IF e = d /\ i = j THEN w ELSE at[e][i]
      BY <1>2 DEF Move, Inv, TypeOK
    <2> QED BY <1>2, <2>1 DEF Selected
  <1>3. ASSUME NEW d \in Drivers, NEW j \in Jobs, JobStep(d, j) PROVE Selected'
    <2>t. decided \in [Drivers -> SUBSET Jobs] BY DEF Inv, TypeOK
    <2>1. CASE Preflight(d, j)
      <3> DEFINE w == IF \E k \in Occupied(j) : attempt[j][k] = "healthy"
                      THEN "reused" ELSE "todo"
      <3>1. Move(d, j, w) BY <2>1 DEF Preflight, Move
      <3>2. \A e \in Drivers : decided[e] \subseteq decided'[e]
        BY <2>1, <2>t DEF Preflight
      <3>3. w \in {"reused", "accepted"} => j \in decided'[d]
        BY <2>1, <2>t DEF Preflight
      <3> HIDE DEF w
      <3> QED BY <3>1, <3>2, <3>3, <1>2
    <2>2. CASE Start(d, j) \/ EndpointDown(d, j) \/ Launch(d, j) \/ Spawn(d, j)
               \/ SpawnFails(d, j) \/ AppendFails(d, j)
      <3>1. PICK w \in {"failed", "due", "launching", "waiting"} : Move(d, j, w)
        BY <2>2 DEF Start, EndpointDown, Launch, Spawn, SpawnFails, AppendFails
      <3>2. \A e \in Drivers : decided[e] \subseteq decided'[e]
        BY <2>2, <2>t DEF Start, EndpointDown, Launch, Spawn, SpawnFails, AppendFails
      <3>3. w \notin {"reused", "accepted"} BY <3>1
      <3> QED BY <3>1, <3>2, <3>3, <1>2
    <2>3. CASE Collect(d, j)
      <3> DEFINE seen == attempt[j][next[d][j]]
                 w == After(seen, next[d][j])
      <3>1. /\ Move(d, j, w)
            /\ decided' = [decided EXCEPT ![d] = IF Reusable(seen) THEN @ \union {j} ELSE @]
        BY <2>3 DEF Collect
      <3>2. w \in {"reused", "accepted"} => Reusable(seen) BY DEF After, Reusable
      <3> HIDE DEF w, seen
      <3>3. \A e \in Drivers : decided[e] \subseteq decided'[e] BY <3>1, <2>t
      <3>4. Reusable(seen) => j \in decided'[d] BY <3>1, <2>t
      <3> QED BY <3>1, <3>2, <3>3, <3>4, <1>2
    <2> QED BY <1>3, <2>1, <2>2, <2>3 DEF JobStep
  <1>4. CASE \E d \in Drivers, j \in Jobs : JobStep(d, j) BY <1>3, <1>4
  <1>5. CASE UNCHANGED memory BY <1>1, <1>5 DEF memory
  <1>6. CASE \E d \in Drivers : Interrupt(d) BY <1>1, <1>6 DEF Interrupt
  <1>7. CASE \E d \in Drivers : Acquire(d) \/ Finish(d) \/ Kill(d)
    BY <1>5, <1>7 DEF Acquire, Finish, Kill
  <1>8. CASE \E c \in children : ChildWrites(c) \/ ChildExits(c)
    BY <1>5, <1>8 DEF ChildWrites, ChildExits
  <1>9. CASE StartReading \/ StopReading \/ UNCHANGED vars
    BY <1>5, <1>9 DEF StartReading, StopReading, vars
  <1> QED BY <1>4, <1>6, <1>7, <1>8, <1>9 DEF Next

(* The files grow by lines that are borne out, or are dropped. *)
LEMMA BookKept ==
    ASSUME Inv, EvidenceTypes, BookBorne, JointNext
    PROVE  BookBorne'
  <1>l. /\ ledger \subseteq ledger'
        /\ \A j \in Jobs, k \in Attempts :
              attempt[j][k] = "healthy" => attempt'[j][k] = "healthy"
    BY JointMoves, Lasting
  <1>o. \A d \in Drivers, j \in Jobs : \A i \in DOMAIN book[d][j] :
           book[d][j][i].status = "accepted" =>
              /\ book[d][j][i].idx \in Attempts
              /\ attempt'[j][book[d][j][i].idx] = "healthy"
              /\ Record(d, j, book[d][j][i].idx, "accepted") \in ledger'
    BY <1>l DEF BookBorne, Borne
  <1>1. ASSUME \A d \in Drivers, j \in Jobs : book'[d][j] = book[d][j] \/ book'[d][j] = <<>>
        PROVE  BookBorne'
    <2> SUFFICES ASSUME NEW d \in Drivers, NEW j \in Jobs, NEW i \in DOMAIN book'[d][j],
                        book'[d][j][i].status = "accepted"
        PROVE  /\ book'[d][j][i].idx \in Attempts
               /\ attempt'[j][book'[d][j][i].idx] = "healthy"
               /\ Record(d, j, book'[d][j][i].idx, "accepted") \in ledger'
      BY DEF BookBorne, Borne, Record
    <2>1. book'[d][j] # <<>> BY NoLine
    <2>2. book'[d][j] = book[d][j] BY <1>1, <2>1
    <2> QED BY <1>o, <2>2
  <1>2. ASSUME NEW d \in Drivers, NEW j \in Jobs, Threads(d, j) PROVE BookBorne'
    <2>1. PICK lines \in Filed, n \in Counted :
              /\ Leaves(d, j, lines, n)
              /\ \A i \in DOMAIN lines : lines[i].status = "accepted" =>
                    /\ lines[i].idx \in Attempts /\ attempt[j][lines[i].idx] = "healthy"
                    /\ Record(d, j, lines[i].idx, "accepted") \in ledger'
      BY <1>2, ThreadAdds
    <2> SUFFICES ASSUME NEW e \in Drivers, NEW h \in Jobs, NEW i \in DOMAIN book'[e][h],
                        book'[e][h][i].status = "accepted"
        PROVE  /\ book'[e][h][i].idx \in Attempts
               /\ attempt'[h][book'[e][h][i].idx] = "healthy"
               /\ Record(e, h, book'[e][h][i].idx, "accepted") \in ledger'
      BY DEF BookBorne, Borne, Record
    <2>2. book'[e][h] # <<>> BY NoLine
    <2>3. book'[e][h] = IF e = d /\ h = j THEN book[d][j] \o lines ELSE book[e][h]
      BY <2>1, <2>2, LeavesIs
    <2>4. CASE e = d /\ h = j
      <3> DEFINE old == book[d][j]
      <3>1. old \in Filed /\ lines \in Filed BY DEF EvidenceTypes, Filed
      <3>2. book'[e][h] = old \o lines BY <2>3, <2>4
      <3>3. \/ i \in DOMAIN old /\ (old \o lines)[i] = old[i]
            \/ /\ i - Len(old) \in DOMAIN lines
               /\ (old \o lines)[i] = lines[i - Len(old)]
        <4> DEFINE S == Entry
        <4>1. old \in Seq(S) /\ lines \in Seq(S) BY <3>1 DEF Filed
        <4>2. i \in DOMAIN (old \o lines) BY <3>2
        <4> HIDE DEF old, S
        <4>3. i \in 1..(Len(old) + Len(lines)) BY <4>1, <4>2
        <4> QED BY <4>1, <4>3
      <3>4. CASE i \in DOMAIN old /\ (old \o lines)[i] = old[i]
        <4>1. book'[e][h][i] = book[e][h][i] /\ i \in DOMAIN book[e][h] BY <2>4, <3>2, <3>4
        <4> QED BY <1>o, <4>1
      <3>5. CASE /\ i - Len(old) \in DOMAIN lines
                 /\ (old \o lines)[i] = lines[i - Len(old)]
        <4>1. book'[e][h][i] = lines[i - Len(old)] BY <3>2, <3>5
        <4> HIDE DEF old
        <4> QED BY <1>l, <2>1, <2>4, <3>5, <4>1
      <3> QED BY <3>3, <3>4, <3>5
    <2>5. CASE ~(e = d /\ h = j)
      <3>1. book'[e][h] = book[e][h] BY <2>3, <2>5
      <3> QED BY <1>o, <3>1
    <2> QED BY <2>4, <2>5
  <1>3. CASE \E d \in Drivers, j \in Jobs : Threads(d, j) BY <1>2, <1>3
  <1>4. CASE Else BY <1>1, <1>4, ElseKeeps
  <1>5. CASE UNCHANGED evidence BY <1>1, <1>5 DEF evidence
  <1> QED BY <1>3, <1>4, <1>5 DEF JointNext, Opens, Verifies, ValidatesChild, Exports, Closes,
                                  all

AuditTyped(a) ==
    \/ a = Idle
    \/ a \in [stage : Stages, of : Drivers, live : BOOLEAN, job : 0..NumJobs,
              observed : SUBSET Jobs]

LEMMA EvidenceTypesKept ==
    ASSUME Inv, EvidenceTypes, JointNext
    PROVE  EvidenceTypes'
  <1>t. /\ book \in [Drivers -> [Jobs -> Filed]]
        /\ declared \in [Drivers -> [Jobs -> Counted]]
        /\ lost \subseteq Drivers /\ AuditTyped(audit)
    BY DEF EvidenceTypes, Filed, Counted, AuditTyped
  <1>q. ASSUME /\ book' \in [Drivers -> [Jobs -> Filed]]
               /\ declared' \in [Drivers -> [Jobs -> Counted]]
               /\ lost' \subseteq Drivers /\ AuditTyped(audit')
        PROVE  EvidenceTypes'
    BY <1>q DEF EvidenceTypes, Filed, Counted, AuditTyped
  <1>1. CASE \E d \in Drivers, j \in Jobs : Threads(d, j)
    <2> PICK d \in Drivers, j \in Jobs : Threads(d, j) BY <1>1
    <2>1. PICK lines \in Filed, n \in Counted : Leaves(d, j, lines, n) BY ThreadAdds
    <2>2. /\ book' \in [Drivers -> [Jobs -> Filed]]
          /\ declared' \in [Drivers -> [Jobs -> Counted]]
      BY <2>1, LeavesIs
    <2>3. lost' \subseteq Drivers /\ audit' = audit
      BY <1>t DEF Threads, Inspects, Works, Stumbles
    <2> QED BY <1>t, <1>q, <2>2, <2>3
  <1>2. CASE Else
    <2>1. lost' \subseteq Drivers /\ audit' = audit BY <1>2, <1>t DEF Else
    <2> QED BY <1>2, <1>t, <1>q, <2>1, ElseKeeps
  <1>3. ASSUME UNCHANGED evidence, AuditTyped(audit') PROVE EvidenceTypes'
    BY <1>t, <1>q, <1>3 DEF evidence
  <1>n. NumJobs \in Nat BY Indices
  <1>4. CASE \E d \in Drivers, live \in BOOLEAN : Opens(d, live)
    <2>1. AuditTyped(audit') BY <1>4, <1>n DEF Opens, AuditTyped, Stages
    <2> QED BY <1>3, <1>4, <2>1 DEF Opens
  <1>r. audit # Idle => audit \in [stage : Stages, of : Drivers, live : BOOLEAN,
                                   job : 0..NumJobs, observed : SUBSET Jobs]
    BY <1>t DEF AuditTyped
  <1>5. CASE Verifies \/ ValidatesChild \/ Exports
    <2>1. audit # Idle BY <1>5 DEF Verifies, ValidatesChild, Exports, Idle
    <2>2. CASE Verifies
      <3>1. audit' \in [stage : Stages, of : Drivers, live : BOOLEAN,
                        job : 0..NumJobs, observed : SUBSET Jobs]
        BY <1>r, <2>1, <2>2 DEF Verifies, Stages
      <3> QED BY <1>3, <2>2, <3>1 DEF Verifies, AuditTyped
    <2>3. CASE ValidatesChild
      <3>1. /\ audit.job \in 0..NumJobs /\ audit.job < NumJobs
            /\ audit.observed \subseteq Jobs
        BY <1>r, <2>1, <2>3 DEF ValidatesChild
      <3>2. audit.job + 1 \in Jobs /\ audit.job + 1 \in 0..NumJobs
        BY <3>1, <1>n DEF Jobs
      <3>3. PICK o \in SUBSET Jobs :
               audit' = [audit EXCEPT !.job = audit.job + 1, !.observed = o]
        BY <2>3, <3>1, <3>2 DEF ValidatesChild
      <3>4. audit' \in [stage : Stages, of : Drivers, live : BOOLEAN,
                        job : 0..NumJobs, observed : SUBSET Jobs]
        BY <1>r, <2>1, <3>2, <3>3
      <3> QED BY <1>3, <2>3, <3>4 DEF ValidatesChild, AuditTyped
    <2>4. CASE Exports
      <3>1. audit' \in [stage : Stages, of : Drivers, live : BOOLEAN,
                        job : 0..NumJobs, observed : SUBSET Jobs]
        BY <1>r, <2>1, <2>4 DEF Exports, Stages
      <3> QED BY <1>3, <2>4, <3>1 DEF Exports, AuditTyped
    <2> QED BY <1>5, <2>2, <2>3, <2>4
  <1>6. CASE Closes BY <1>3, <1>6 DEF Closes, AuditTyped
  <1>7. CASE UNCHANGED all BY <1>t, <1>3, <1>7 DEF all
  <1> QED BY <1>1, <1>2, <1>4, <1>5, <1>6, <1>7 DEF JointNext

-----------------------------------------------------------------------------
(* The analysis *)

(* What the analysis demands is about the driver it opened, and the runs.   *)
LEMMA EvidenceStays ==
    ASSUME NEW d \in Drivers, NEW live \in BOOLEAN, UNCHANGED <<attempt, at, decided>>,
           d \in lost' <=> d \in lost,
           \A j \in Jobs : book'[d][j] = book[d][j] /\ declared'[d][j] = declared[d][j],
           EvidenceHolds(d, live)
    PROVE  EvidenceHolds(d, live)'
  <1>1. Selection(d)' = Selection(d) BY DEF Selection
  <1>2. CountsAreWhole(d)' BY DEF EvidenceHolds, CountsAreWhole
  <1>3. SummaryAgrees(d)' BY <1>1 DEF EvidenceHolds, SummaryAgrees
  <1>4. Partitions(Selection(d), d)'
    BY <1>1 DEF EvidenceHolds, Partitions
  <1>5. ASSUME NEW j \in Jobs PROVE CellIsBound(d, j)'
    BY <1>1 DEF EvidenceHolds, CellIsBound, Candidate
  <1>6. ASSUME NEW j \in Jobs, live PROVE CapIsKept(d, j)'
    <2>1. Occupied(j)' = Occupied(j) BY DEF Occupied
    <2>2. CapIsKept(d, j) BY <1>6 DEF EvidenceHolds
    <2> QED BY <2>1, <2>2 DEF CapIsKept
  <1> QED BY <1>2, <1>3, <1>4, <1>5, <1>6 DEF EvidenceHolds

(* A selected child is the run that an accepting line is about.             *)
LEMMA SelectedAreHealthy ==
    ASSUME EvidenceTypes, BookBorne, NEW d \in Drivers, NEW j \in Jobs, CellIsBound(d, j),
           j \in decided[d]
    PROVE  /\ declared[d][j] \in Attempts /\ attempt[j][declared[d][j]] = "healthy"
           /\ Record(d, j, declared[d][j], "accepted") \in ledger
  <1> DEFINE n == declared[d][j]
  <1>1. {k \in 1..n : Accepts(book[d][j], k)} = {n} BY DEF CellIsBound, Selection, Candidate
  <1>2. Accepts(book[d][j], n) BY <1>1
  <1>3. PICK i \in DOMAIN book[d][j] : book[d][j][i].idx = n /\ book[d][j][i].status = "accepted"
    BY <1>2 DEF Accepts, Lines
  <1> QED BY <1>3 DEF BookBorne, Borne

LEMMA AuditedKept ==
    ASSUME Inv, EvidenceTypes, BookBorne, Audited, JointNext
    PROVE  Audited'
  <1>r. audit # Idle => audit \in [stage : Stages, of : Drivers, live : BOOLEAN,
                                   job : 0..NumJobs, observed : SUBSET Jobs]
    BY DEF EvidenceTypes
  <1>s. ASSUME audit # Idle, audit' = audit, reading' = reading,
               UNCHANGED <<attempt, at, decided>>,
               phase'[audit.of] = phase[audit.of],
               audit.of \in lost' <=> audit.of \in lost,
               \A j \in Jobs : /\ book'[audit.of][j] = book[audit.of][j]
                               /\ declared'[audit.of][j] = declared[audit.of][j]
        PROVE  Audited'
    <2>1. audit.of \in Drivers /\ audit.live \in BOOLEAN BY <1>r, <1>s
    <2>2. EvidenceHolds(audit.of, audit.live) => EvidenceHolds(audit.of, audit.live)'
      <3> DEFINE d == audit.of
                 live == audit.live
      <3>1. d' = d /\ live' = live BY <1>s
      <3>2. /\ d \in Drivers /\ live \in BOOLEAN /\ (d \in lost' <=> d \in lost)
            /\ \A j \in Jobs : book'[d][j] = book[d][j] /\ declared'[d][j] = declared[d][j]
        BY <1>s, <2>1
      <3> HIDE DEF d, live
      <3>3. \A e \in Drivers, b \in BOOLEAN :
              /\ e \in lost' <=> e \in lost
              /\ \A j \in Jobs : book'[e][j] = book[e][j] /\ declared'[e][j] = declared[e][j]
              /\ EvidenceHolds(e, b)
              => EvidenceHolds(e, b)'
        BY <1>s, EvidenceStays
      <3> QED BY <3>1, <3>2, <3>3 DEF d, live
    <2> QED BY <1>s, <2>2 DEF Audited
  <1>n. audit' = Idle => Audited' BY DEF Audited
  <1>1. CASE \E d \in Drivers, j \in Jobs : Threads(d, j)
    <2> PICK d \in Drivers, j \in Jobs : Threads(d, j) BY <1>1
    <2>1. Owns(d) BY ThreadsOwn
    <2>2. ~reading BY <2>1 DEF Inv, SoleOwner
    <2>3. audit = Idle BY <2>2 DEF Audited
    <2>4. audit' = audit BY DEF Threads, Inspects, Works, Stumbles
    <2> QED BY <1>n, <2>3, <2>4
  <1>2. CASE Else
    <2>1. audit' = audit BY <1>2 DEF Else
    <2>2. CASE audit # Idle
      <3> DEFINE of == audit.of
      <3>1. reading /\ phase[of] = "finished" /\ of \in Drivers BY <1>r, <2>2 DEF Audited
      <3>2. children = {} /\ \A d \in Drivers : ~Owns(d) BY <3>1 DEF Inv, SoleOwner
      <3>3. \A d \in Drivers : ~Finish(d) /\ ~Interrupt(d) /\ ~Kill(d)
        BY <3>2 DEF Finish, Interrupt, Kill, Owns
      <3>4. PICK d \in Drivers : Acquire(d) BY <1>2, <3>2, <3>3 DEF Else
      <3>5. /\ UNCHANGED <<attempt, at, decided, reading>>
            /\ phase[d] = "new" /\ \A e \in Drivers : e # d => phase'[e] = phase[e]
        BY <3>4 DEF Acquire, disk, memory, Inv, TypeOK
      <3>6. phase'[of] = "finished" BY <3>1, <3>5
      <3> HIDE DEF of
      <3>7. \A j \in Jobs : book'[of][j] = book[of][j] /\ declared'[of][j] = declared[of][j]
        BY <1>2, <3>1, <3>6, ElseKeeps
      <3>8. of \in lost' <=> of \in lost BY <1>2, <3>6 DEF Else
      <3> QED BY <1>s, <2>1, <2>2, <3>1, <3>5, <3>6, <3>7, <3>8 DEF of
    <2> QED BY <1>n, <2>1, <2>2
  <1>3. CASE \E d \in Drivers, live \in BOOLEAN : Opens(d, live)
    <2> PICK d \in Drivers, live \in BOOLEAN : Opens(d, live) BY <1>3
    <2>1. /\ audit' = [stage |-> "opened", of |-> d, live |-> live, job |-> 0, observed |-> {}]
          /\ reading' /\ phase' = phase /\ phase[d] = "finished"
      BY DEF Opens, StartReading, Terminal
    <2>2. /\ audit'.stage = "opened" /\ audit'.of = d /\ audit'.job = 0
          /\ audit'.observed = {}
      BY <2>1
    <2> QED BY <2>1, <2>2 DEF Audited
  <1>4. CASE Verifies \/ ValidatesChild \/ Exports
    <2>1. audit # Idle BY <1>4 DEF Verifies, ValidatesChild, Exports, Idle
    <2> DEFINE of == audit.of
               live == audit.live
    <2>2. /\ reading /\ phase[of] = "finished" /\ of \in Drivers /\ live \in BOOLEAN
          /\ audit.job \in 0..NumJobs /\ audit.observed \subseteq Jobs
      BY <1>r, <2>1 DEF Audited
    <2>3. UNCHANGED vars /\ UNCHANGED evidence
      BY <1>4 DEF Verifies, ValidatesChild, Exports
    <2>4. audit' # Idle => reading' /\ phase'[of] = "finished"
      BY <2>2, <2>3 DEF vars
    <2>5. audit'.of = of /\ audit'.live = live
      BY <1>4, <1>r, <2>1 DEF Verifies, ValidatesChild, Exports
    <2>6. \A e \in Drivers, b \in BOOLEAN : EvidenceHolds(e, b) => EvidenceHolds(e, b)'
      BY <2>3, EvidenceStays DEF vars, evidence, memory, disk
    <2>d. decided' = decided BY <2>3 DEF vars, memory
    <2>t. decided[of] \subseteq Jobs BY <2>2 DEF Inv, TypeOK
    <2> HIDE DEF of, live
    <2>7. ASSUME audit'.stage \in {"verified", "exported"} =>
                    /\ EvidenceHolds(of, live)
                    /\ audit'.observed = {j \in decided[of] : j <= audit'.job},
                 audit'.stage # "opened",
                 audit'.stage = "exported" => audit'.job = NumJobs
          PROVE  Audited'
      <3>1. audit'.stage \in {"verified", "exported"} =>
               EvidenceHolds(audit.of, audit.live)'
        BY <2>2, <2>5, <2>6, <2>7 DEF of, live
      <3>2. audit'.stage \in {"verified", "exported"} =>
               audit'.observed = {j \in decided'[audit'.of] : j <= audit'.job}
        BY <2>5, <2>7, <2>d
      <3> QED BY <2>4, <2>5, <2>7, <3>1, <3>2 DEF Audited
    <2>8. CASE Verifies
      <3>1. /\ audit.stage = "opened"
            /\ audit'.stage = IF EvidenceHolds(of, live) THEN "verified" ELSE "refused"
            /\ audit'.job = audit.job /\ audit'.observed = audit.observed
        BY <2>8, <1>r, <2>1 DEF Verifies, of, live
      <3>2. audit.job = 0 /\ audit.observed = {} BY <3>1, <2>1 DEF Audited
      <3>3. {j \in decided[of] : j <= 0} = {} BY <2>t, Indices DEF Jobs
      <3> QED BY <2>7, <3>1, <3>2, <3>3
    <2>9. CASE ValidatesChild
      <3> DEFINE h == audit.job + 1
      <3>1. audit.stage = "verified" /\ audit.job < NumJobs BY <2>9 DEF ValidatesChild
      <3>2. EvidenceHolds(of, live) /\ audit.observed = {j \in decided[of] : j <= audit.job}
        BY <3>1, <2>1 DEF Audited, of, live
      <3>3. h \in Jobs /\ audit.job \in Nat BY <2>2, <3>1, Indices DEF Jobs
      <3>4. h \in decided[of] => attempt[h][declared[of][h]] = "healthy"
        <4>1. CellIsBound(of, h) BY <3>2, <3>3 DEF EvidenceHolds
        <4> QED BY <2>2, <3>3, <4>1, SelectedAreHealthy
      <3>5. /\ audit'.stage = "verified" /\ audit'.job = h
            /\ audit'.observed =
                 IF h \in DOMAIN Children(of) /\ StillHealthy(attempt[h][Children(of)[h]])
                 THEN audit.observed \union {h} ELSE audit.observed
        BY <2>9, <3>1, <1>r, <2>1 DEF ValidatesChild, of
      <3>6. DOMAIN Children(of) = decided[of]
            /\ \A j \in decided[of] : Children(of)[j] = declared[of][j]
        BY DEF Children, Selection, Candidate
      <3>7. audit'.observed = IF h \in decided[of] THEN audit.observed \union {h}
                              ELSE audit.observed
        BY <3>4, <3>5, <3>6 DEF StillHealthy
      <3>8. \A j \in decided[of] : j <= h <=> j <= audit.job \/ j = h
        BY <2>t, <3>3, Indices DEF Jobs
      <3> HIDE DEF h
      <3>9. audit'.observed = {j \in decided[of] : j <= h}
        BY <3>2, <3>7, <3>8
      <3> QED BY <2>7, <3>2, <3>5, <3>9
    <2>10. CASE Exports
      <3>1. /\ audit.stage = "verified" /\ audit.job = NumJobs
            /\ audit'.stage = "exported" /\ audit'.job = audit.job
            /\ audit'.observed = audit.observed
        BY <2>10, <1>r, <2>1 DEF Exports
      <3>2. EvidenceHolds(of, live) /\ audit.observed = {j \in decided[of] : j <= audit.job}
        BY <3>1, <2>1 DEF Audited, of, live
      <3> QED BY <2>7, <3>1, <3>2
    <2> QED BY <1>4, <2>8, <2>9, <2>10
  <1>5. CASE Closes BY <1>5, <1>n DEF Closes
  <1>6. CASE UNCHANGED all
    <2>1. audit' = audit /\ UNCHANGED <<vars, evidence>> BY <1>6 DEF all
    <2> QED BY <1>n, <1>s, <2>1 DEF vars, evidence, memory, disk
  <1> QED BY <1>1, <1>2, <1>3, <1>4, <1>5, <1>6 DEF JointNext

(* What happened is not undone: a failing append, an error, a driver's end. *)
LEMMA Onward ==
    ASSUME Inv, [Next]_vars
    PROVE  /\ faults' = 0 => faults = 0
           /\ raised \subseteq raised'
           /\ \A d \in Drivers : /\ phase[d] \in Over => phase'[d] = phase[d]
                                 /\ d \in raised' => d \in raised \/ Owns(d)
                                 /\ phase'[d] = "finished" => phase[d] = "finished" \/ Finish(d)
  <1>t. faults \in Nat /\ phase \in [Drivers -> Phases] BY DEF Inv, TypeOK, Phases
  <1>s. ASSUME UNCHANGED <<faults, raised, phase>>
        PROVE  /\ faults' = 0 => faults = 0
               /\ raised \subseteq raised'
               /\ \A d \in Drivers : /\ phase[d] \in Over => phase'[d] = phase[d]
                                     /\ d \in raised' => d \in raised \/ Owns(d)
                                     /\ phase'[d] = "finished" =>
                                           phase[d] = "finished" \/ Finish(d)
    BY <1>s
  <1>1. ASSUME NEW d \in Drivers, NEW j \in Jobs, JobStep(d, j)
        PROVE  /\ faults' = 0 => faults = 0
               /\ raised \subseteq raised' /\ raised' \subseteq raised \union {d}
               /\ Owns(d)
               /\ \A e \in Drivers : phase'[e] # phase[e] => e = d /\ phase'[d] # "finished"
    <2>1. CASE Preflight(d, j) BY <1>t, <2>1 DEF Preflight, Owns
    <2>2. CASE Start(d, j) \/ EndpointDown(d, j) \/ Launch(d, j) \/ Spawn(d, j)
               \/ SpawnFails(d, j) \/ Collect(d, j)
      BY <2>2 DEF Start, EndpointDown, Launch, Spawn, SpawnFails, Collect, Owns
    <2>3. CASE AppendFails(d, j) BY <1>t, <2>3 DEF AppendFails, Owns
    <2> QED BY <1>1, <2>1, <2>2, <2>3 DEF JobStep
  <1>2. CASE \E d \in Drivers, j \in Jobs : JobStep(d, j)
    <2> PICK d \in Drivers, j \in Jobs : JobStep(d, j) BY <1>2
    <2> QED BY <1>1 DEF Owns, Over
  <1>3. CASE \E d \in Drivers : Acquire(d) BY <1>t, <1>3 DEF Acquire, memory, Over
  <1>4. CASE \E d \in Drivers : Finish(d) BY <1>t, <1>4 DEF Finish, memory, Over
  <1>5. CASE \E d \in Drivers : Kill(d) BY <1>t, <1>5 DEF Kill, memory, Over, Owns
  <1>6. CASE \E d \in Drivers : Interrupt(d) BY <1>t, <1>6 DEF Interrupt, Over, Owns
  <1>7. CASE \E c \in children : ChildWrites(c) \/ ChildExits(c)
    BY <1>s, <1>7 DEF ChildWrites, ChildExits, memory
  <1>8. CASE StartReading \/ StopReading \/ UNCHANGED vars
    BY <1>s, <1>8 DEF StartReading, StopReading, vars, memory
  <1> QED BY <1>2, <1>3, <1>4, <1>5, <1>6, <1>7, <1>8 DEF Next

LEMMA EndedKept ==
    ASSUME Inv, Ended, [Next]_vars
    PROVE  Ended'
  <1> SUFFICES ASSUME NEW d \in Drivers, phase'[d] = "finished"
      PROVE  d \notin raised' /\ \A j \in Jobs : at'[d][j] \in Settled
    BY DEF Ended
  <1>1. CASE Finish(d)
    <2>1. d \notin raised BY <1>1 DEF Finish, Inv, TypeOK
    <2> QED BY <1>1, <2>1 DEF Finish, memory
  <1>2. CASE phase[d] = "finished"
    <2>1. d \notin raised /\ ~Owns(d) BY <1>2 DEF Ended, Owns
    <2>2. d \notin raised' BY <2>1, Onward
    <2>3. \A j \in Jobs : at'[d][j] = at[d][j]
      <3>1. CASE \E e \in Drivers, i \in Jobs : JobStep(e, i)
        <4> PICK e \in Drivers, i \in Jobs : JobStep(e, i) BY <3>1
        <4>1. Owns(e)
          BY DEF JobStep, Preflight, Start, EndpointDown, Launch, Spawn, SpawnFails,
                 Collect, AppendFails, Owns
        <4>2. \E w : Move(e, i, w)
          BY DEF JobStep, Preflight, Start, EndpointDown, Launch, Spawn, SpawnFails,
                 Collect, AppendFails, Move
        <4> QED BY <2>1, <4>1, <4>2 DEF Move, Inv, TypeOK
      <3>2. CASE at' = at BY <3>2
      <3> QED BY <3>1, <3>2 DEF Next, Acquire, Finish, Interrupt, Kill, ChildWrites,
                 ChildExits, StartReading, StopReading, vars, memory
    <2> QED BY <1>2, <2>2, <2>3 DEF Ended
  <1> QED BY <1>1, <1>2, Onward

LEMMA UncountedKept ==
    ASSUME Inv, Uncounted, JointNext
    PROVE  Uncounted'
  <1> SUFFICES ASSUME faults' = 0 PROVE lost' = {} BY DEF Uncounted
  <1>1. faults = 0 /\ lost = {} BY JointMoves, Onward DEF Uncounted
  <1>2. \A d \in Drivers, j \in Jobs : ~AppendFails(d, j) BY <1>1 DEF AppendFails
  <1>3. CASE \E d \in Drivers, j \in Jobs : Threads(d, j)
    BY <1>1, <1>2, <1>3 DEF Threads, Inspects, Works, Stumbles
  <1>4. CASE Else BY <1>1, <1>4 DEF Else
  <1>5. CASE UNCHANGED evidence BY <1>1, <1>5 DEF evidence
  <1> QED BY <1>3, <1>4, <1>5 DEF JointNext, Opens, Verifies, ValidatesChild, Exports, Closes,
                                  all

-----------------------------------------------------------------------------
(* A thread's step, as the file of its slot shows it *)

(* The preflight: what it found, and it found an end.                       *)
LEMMA InspectionWrites ==
    ASSUME Inv, NEW j \in Jobs, ~InFlight(j)
    PROVE  LET n == Cardinality(Occupied(j))
               healthy == \E k \in Occupied(j) : attempt[j][k] = "healthy"
           IN  Written(Resumed(j), n, IF healthy THEN "reused" ELSE "todo", n + 1, healthy)
  <1> DEFINE n == Cardinality(Occupied(j))
             healthy == \E k \in Occupied(j) : attempt[j][k] = "healthy"
             cell == Resumed(j)
  <1>1. n \in Nat /\ Occupied(j) = 1..n /\ ~Irregular(j)
    BY SeriesAreRegular, Indices DEF Counted
  <1>2. cell \in Filed /\ Len(cell) = n
        /\ \A k \in 1..n : /\ cell[k].source = "resumed" /\ cell[k].idx = k
                           /\ cell[k].status = Found(attempt[j][k])
    BY <1>1, ResumedIs
  <1>3. \A k \in 1..n : /\ Found(attempt[j][k]) \in {"accepted", "rejected"}
                        /\ Found(attempt[j][k]) = "accepted" <=> attempt[j][k] = "healthy"
    <2>1. \A k \in 1..n : attempt[j][k] # "active" BY <1>1 DEF InFlight
    <2> QED BY <2>1 DEF Found
  <1>4. Whole(cell, n, {k \in 1..n : cell[k].status = "accepted"})
        /\ ((\A k \in 1..n : cell[k].status # "accepted") => Open(cell))
    BY <1>1, <1>2, <1>3, FoundAreWhole
  <1>5. CASE healthy
    <2>1. PICK k \in 1..n : attempt[j][k] = "healthy" BY <1>1, <1>5
    <2>2. \A h \in 1..n : attempt[j][h] = "healthy" => h = n
      <3>1. \A h \in 1..n : h \in Attempts /\ h \in Occupied(j) BY <1>1 DEF Occupied
      <3>2. n \in Occupied(j) BY <2>1, <1>1
      <3>3. \A h \in 1..n : attempt[j][h] = "healthy" => ~(h < n)
        BY <1>1, <3>1, <3>2 DEF Irregular
      <3> QED BY <1>1, <3>3
    <2>3. {h \in 1..n : cell[h].status = "accepted"} = {n}
      BY <2>1, <2>2, <1>2, <1>3
    <2>4. n # 0 BY <2>1
    <2> QED BY <1>4, <1>5, <2>3, <2>4 DEF Written
  <1>6. CASE ~healthy
    <2>1. \A k \in 1..n : cell[k].status # "accepted" BY <1>1, <1>2, <1>3, <1>6
    <2>2. {k \in 1..n : cell[k].status = "accepted"} = {} BY <2>1
    <2>3. (n + 1) - 1 = n BY <1>1
    <2> QED BY <1>4, <1>6, <2>1, <2>2, <2>3 DEF Written
  <1> QED BY <1>5, <1>6

LEMMA NothingAdded ==
    ASSUME NEW cell \in Filed
    PROVE  cell \o <<>> = cell /\ <<>> \o cell = cell
  <1> DEFINE S == Entry
  <1>1. cell \in Seq(S) BY DEF Filed
  <1> HIDE DEF S
  <1> QED BY <1>1

(* The budget of the series is spent. *)
LEMMA SpentWrites ==
    ASSUME NEW cell \in Filed, NEW n \in Nat \ {0}, NEW k, Whole(cell, n, {})
    PROVE  Written(cell, n, "failed", k, FALSE)
  <1>1. n \in {cell[i].idx : i \in DOMAIN cell} BY DEF Whole
  <1>2. cell # <<>> BY <1>1, NoLine
  <1> QED BY <1>2 DEF Written

(* A step of the thread of a slot leaves the slot's lines in order.         *)
LEMMA ThreadWrites ==
    ASSUME Inv, EvidenceTypes, NEW d \in Drivers, NEW j \in Jobs, Threads(d, j),
           faults' = 0, d \notin raised', phase'[d] \notin Over \ {"finished"}, Cell(d, j)
    PROVE  Cell(d, j)'
  <1> DEFINE cell == book[d][j]
             n == declared[d][j]
             k == next[d][j]
             chosen == j \in decided[d]
  <1>t. /\ cell \in Filed /\ n \in Counted /\ n \in Nat /\ k \in 1..(MaxAttempts + 1)
        /\ decided[d] \subseteq Jobs
    BY Indices DEF EvidenceTypes, Inv, TypeOK, Filed, Counted
  <1>j. JobStep(d, j) /\ [Next]_vars BY ThreadsOwn DEF Next
  <1>f. faults = 0 BY <1>j, Onward
  <1>a. ~AppendFails(d, j) BY <1>f DEF AppendFails
  <1>s. SUFFICES Written(book'[d][j], declared'[d][j], at'[d][j], next'[d][j],
                         j \in decided'[d])
    BY DEF Cell
  <1>w. Written(cell, n, at[d][j], k, chosen) BY DEF Cell
  <1>l. ASSUME NEW lines \in Filed, NEW m \in Counted, Leaves(d, j, lines, m)
        PROVE  book'[d][j] = cell \o lines /\ declared'[d][j] = m
    <2>1. \A e \in Drivers, i \in Jobs :
             /\ book'[e][i] =
                   IF phase'[e] \in Over \ {"finished"} THEN <<>>
                   ELSE IF e = d /\ i = j THEN book[d][j] \o lines ELSE book[e][i]
             /\ declared'[e][i] =
                   IF phase'[e] \in Over \ {"finished"} THEN 0
                   ELSE IF e = d /\ i = j THEN m ELSE declared[e][i]
      BY <1>l, LeavesIs
    <2> QED BY <2>1
  <1>m. ASSUME NEW w, Move(d, j, w) PROVE at'[d][j] = w
    BY <1>m DEF Move, Inv, TypeOK
  <1>0. \A e \in Drivers, i \in Jobs : next[e][i] \in Nat
    BY Indices DEF Inv, TypeOK
  <1>1. CASE Inspects(d, j)
    <2> DEFINE c == Cardinality(Occupied(j))
               healthy == \E h \in Occupied(j) : attempt[j][h] = "healthy"
    <2>1. /\ at[d][j] = "unchecked" /\ at'[d][j] = IF healthy THEN "reused" ELSE "todo"
          /\ decided' = [decided EXCEPT ![d] = IF healthy THEN @ \union {j} ELSE @]
          /\ next'[d][j] = c + 1
          /\ phase'[d] = IF InFlight(j) THEN "blocked"
                         ELSE IF Irregular(j) THEN "failed"
                         ELSE IF j = NumJobs THEN "execute" ELSE phase[d]
      BY <1>1 DEF Inspects, Preflight, Inv, TypeOK
    <2>2. cell = <<>> /\ ~chosen BY <1>w, <2>1 DEF Written
    <2>3. j \in decided'[d] <=> healthy BY <2>1, <2>2 DEF Inv, TypeOK
    <2>4. ~InFlight(j) BY <2>1 DEF Over
    <2>5. Resumed(j) \in Filed /\ c \in Counted BY ResumedIs, SeriesAreRegular
    <2>6. book'[d][j] = <<>> \o Resumed(j) /\ declared'[d][j] = c
      BY <1>1, <1>l, <2>2, <2>5 DEF Inspects
    <2>7. book'[d][j] = Resumed(j) BY <2>5, <2>6, NothingAdded
    <2>8. Written(Resumed(j), c, IF healthy THEN "reused" ELSE "todo", c + 1, healthy)
      BY <2>4, InspectionWrites
    <2> HIDE DEF c, healthy
    <2>9. CASE healthy
      <3>1. Whole(Resumed(j), c, {c}) /\ c # 0 BY <2>8, <2>9 DEF Written
      <3> QED BY <2>1, <2>3, <2>6, <2>7, <2>9, <3>1 DEF Written
    <2>10. CASE ~healthy
      <3>1. Whole(Resumed(j), c, {}) /\ Open(Resumed(j)) /\ c = (c + 1) - 1
        BY <2>8, <2>10 DEF Written
      <3> QED BY <2>1, <2>3, <2>6, <2>7, <2>10, <3>1 DEF Written
    <2> QED BY <2>9, <2>10
  <1>2. CASE (Start(d, j) \/ Spawn(d, j)) /\ Leaves(d, j, <<>>, declared[d][j])
    <2>1. book'[d][j] = cell /\ declared'[d][j] = n
      BY <1>2, <1>l, <1>t, NoLine, NothingAdded
    <2>2. next' = next /\ decided' = decided BY <1>2 DEF Start, Spawn
    <2>3. CASE Start(d, j)
      <3>1. at[d][j] = "todo" /\ at'[d][j] = IF k > MaxAttempts THEN "failed" ELSE "due"
        BY <2>3, <1>m DEF Start
      <3>2. Whole(cell, n, {}) /\ Open(cell) /\ n = k - 1 /\ ~chosen
        BY <1>w, <3>1 DEF Written
      <3>3. CASE k > MaxAttempts
        <4>1. n \in Nat \ {0} BY <1>t, <3>2, <3>3, Indices
        <4>2. Written(cell, n, "failed", k, FALSE) BY <1>t, <3>2, <4>1, SpentWrites
        <4>3. (j \in decided'[d]) = FALSE BY <2>2, <3>2
        <4> QED BY <2>1, <2>2, <3>1, <3>3, <4>2, <4>3
      <3>4. CASE ~(k > MaxAttempts)
        <4>1. at'[d][j] = "due" BY <3>1, <3>4
        <4> QED BY <2>1, <2>2, <3>2, <4>1 DEF Written
      <3> QED BY <3>3, <3>4
    <2>4. CASE Spawn(d, j)
      <3>1. at[d][j] = "launching" /\ at'[d][j] = "waiting" BY <2>4, <1>m DEF Spawn
      <3>2. Pending(cell, n) /\ n = k /\ ~chosen BY <1>w, <3>1 DEF Written
      <3> QED BY <2>1, <2>2, <3>1, <3>2 DEF Written
    <2> QED BY <1>2, <2>3, <2>4
  <1>p. ASSUME NEW l \in Entry, NEW m \in Counted, Leaves(d, j, <<l>>, m)
        PROVE  book'[d][j] = Plus(cell, l) /\ declared'[d][j] = m
    BY <1>p, <1>l, OneLine DEF Plus
  <1>3. CASE /\ EndpointDown(d, j)
             /\ Leaves(d, j, <<Executed(Record(d, j, next[d][j], "not_launched"))>>,
                       declared[d][j])
    <2> DEFINE l == Executed(Record(d, j, k, "not_launched"))
    <2>1. at[d][j] = "due" /\ at'[d][j] = "failed" /\ next' = next /\ decided' = decided
      BY <1>3, <1>m DEF EndpointDown
    <2>2. k \in Attempts BY <2>1 DEF Inv, Bounded
    <2>3. l \in Entry /\ l.idx = 0 /\ l.status = "not_launched"
      BY <2>2, ExecutedIs DEF Statuses
    <2>4. Leaves(d, j, <<l>>, n) BY <1>3
    <2> HIDE DEF l
    <2>5. book'[d][j] = Plus(cell, l) /\ declared'[d][j] = n BY <1>p, <1>t, <2>3, <2>4
    <2>6. Whole(cell, n, {}) /\ Open(cell) /\ ~chosen BY <1>w, <2>1 DEF Written
    <2>7. Whole(Plus(cell, l), n, {}) /\ Plus(cell, l) # <<>>
      BY <1>t, <2>3, <2>6, NotLaunchedEnds
    <2> QED BY <2>1, <2>5, <2>6, <2>7 DEF Written
  <1>4. CASE Launch(d, j) /\ Leaves(d, j, <<Executed(Appending(d, j))>>, next[d][j])
    <2> DEFINE l == Executed(Appending(d, j))
    <2>1. at[d][j] = "due" /\ at'[d][j] = "launching" /\ next' = next /\ decided' = decided
      BY <1>4, <1>m DEF Launch
    <2>2. k \in Attempts /\ k \in Counted
      BY <2>1, Indices DEF Inv, Bounded, Attempts, Counted
    <2>3. Appending(d, j) = Record(d, j, k, "launched") BY <2>1 DEF Appending
    <2>4. l \in Entry /\ l.source = "executed" /\ l.idx = k /\ l.status = "launched"
      BY <2>2, <2>3, ExecutedIs DEF Statuses
    <2>5. Leaves(d, j, <<l>>, k) BY <1>4
    <2> HIDE DEF l
    <2>6. book'[d][j] = Plus(cell, l) /\ declared'[d][j] = k BY <1>p, <2>2, <2>4, <2>5
    <2>7. Whole(cell, n, {}) /\ Open(cell) /\ n = k - 1 /\ ~chosen
      BY <1>w, <2>1 DEF Written
    <2>8. k = n + 1 BY <1>t, <2>7
    <2>9. Pending(Plus(cell, l), k) BY <1>t, <2>4, <2>7, <2>8, LaunchOpens
    <2> QED BY <2>1, <2>6, <2>7, <2>9 DEF Written
  <1>v. ASSUME at[d][j] \in {"launching", "waiting"}, NEW s \in {"accepted", "rejected"},
               Appending(d, j) = Record(d, j, k, s),
               Leaves(d, j, <<Executed(Appending(d, j))>>, declared[d][j])
        PROVE  /\ Whole(book'[d][j], n, IF s = "accepted" THEN {n} ELSE {})
               /\ s = "rejected" => Open(book'[d][j])
               /\ book'[d][j] # <<>> /\ declared'[d][j] = n /\ n = k /\ n # 0 /\ ~chosen
    <2> DEFINE l == Executed(Appending(d, j))
    <2>1. k \in Attempts BY <1>v DEF Inv, Bounded
    <2>2. l \in Entry /\ l.source = "executed" /\ l.idx = k /\ l.status = s
      BY <1>v, <2>1, ExecutedIs DEF Statuses
    <2>3. Leaves(d, j, <<l>>, n) BY <1>v
    <2> HIDE DEF l
    <2>4. book'[d][j] = Plus(cell, l) /\ declared'[d][j] = n BY <1>p, <1>t, <2>2, <2>3
    <2>5. Pending(cell, n) /\ n = k /\ ~chosen BY <1>v, <1>w DEF Written
    <2>6. n \in Nat \ {0} BY <2>1, <2>5, Indices DEF Attempts
    <2>7. /\ Whole(Plus(cell, l), n, IF l.status = "accepted" THEN {n} ELSE {})
          /\ Plus(cell, l) # <<>>
          /\ l.status = "rejected" => Open(Plus(cell, l))
      BY <1>t, <2>2, <2>5, <2>6, VerdictCloses
    <2> QED BY <2>2, <2>4, <2>5, <2>6, <2>7
  <1>5. CASE SpawnFails(d, j) /\ Leaves(d, j, <<Executed(Appending(d, j))>>, declared[d][j])
    <2>1. at[d][j] = "launching" /\ at'[d][j] = "failed" /\ next' = next /\ decided' = decided
      BY <1>5, <1>m DEF SpawnFails
    <2>2. Appending(d, j) = Record(d, j, k, "rejected") BY <2>1 DEF Appending
    <2>3. /\ Whole(book'[d][j], n, {}) /\ book'[d][j] # <<>> /\ declared'[d][j] = n /\ ~chosen
      BY <1>5, <1>v, <2>1, <2>2
    <2> QED BY <2>1, <2>3 DEF Written
  <1>6. CASE Collect(d, j) /\ Leaves(d, j, <<Executed(Appending(d, j))>>, declared[d][j])
    <2> DEFINE seen == attempt[j][k]
    <2>1. /\ at[d][j] = "waiting" /\ at'[d][j] = After(seen, k)
          /\ next'[d][j] = IF Retried(seen) THEN k + 1 ELSE k
          /\ decided'[d] = IF Reusable(seen) THEN decided[d] \union {j} ELSE decided[d]
          /\ seen \notin {"opened", "active"}
      <3>1. at[d][j] = "waiting" /\ Move(d, j, After(seen, k)) BY <1>6 DEF Collect, Exited
      <3>2. at'[d][j] = After(seen, k) BY <3>1, <1>m
      <3>3. /\ next'[d][j] = IF Retried(seen) THEN k + 1 ELSE k
            /\ decided'[d] = IF Reusable(seen) THEN decided[d] \union {j} ELSE decided[d]
        BY <1>6 DEF Collect, Inv, TypeOK
      <3>4. seen \notin {"opened", "active"} BY <1>6 DEF Collect
      <3> QED BY <3>1, <3>2, <3>3, <3>4
    <2>2. k \in Attempts BY <2>1 DEF Inv, Bounded
    <2>3. seen \in {"absent", "healthy", "unhealthy"}
      BY <2>1, <2>2 DEF Inv, TypeOK
    <2>4. Appending(d, j) = Record(d, j, k, Verdict(seen)) BY <2>1 DEF Appending
    <2> HIDE DEF seen
    <2>5. CASE seen = "healthy"
      <3>1. Verdict(seen) = "accepted" BY <2>5 DEF Verdict
      <3>2. /\ Whole(book'[d][j], n, {n}) /\ declared'[d][j] = n /\ n # 0
        BY <1>6, <1>v, <2>1, <2>4, <3>1
      <3>3. at'[d][j] = "accepted" /\ j \in decided'[d]
        BY <2>1, <2>5 DEF After, Reusable
      <3> QED BY <3>2, <3>3 DEF Written
    <2>6. CASE seen # "healthy"
      <3>1. Verdict(seen) = "rejected" BY <2>3, <2>6 DEF Verdict
      <3>2. /\ Whole(book'[d][j], n, {}) /\ Open(book'[d][j]) /\ book'[d][j] # <<>>
            /\ declared'[d][j] = n /\ n = k /\ ~chosen
        BY <1>6, <1>v, <2>1, <2>4, <3>1
      <3>3. j \notin decided'[d] BY <2>1, <2>6, <3>2 DEF Reusable
      <3>4. CASE at'[d][j] = "due"
        <4>1. next'[d][j] = k + 1 BY <2>1, <2>6, <3>4 DEF After, Retried
        <4>2. n = next'[d][j] - 1 BY <1>t, <3>2, <4>1
        <4> QED BY <3>2, <3>3, <3>4, <4>2 DEF Written
      <3>5. CASE at'[d][j] = "failed" BY <3>2, <3>3, <3>5 DEF Written
      <3> QED BY <2>1, <2>6, <3>4, <3>5 DEF After
    <2> QED BY <2>5, <2>6
  <1> QED BY <1>a, <1>1, <1>2, <1>3, <1>4, <1>5, <1>6 DEF Threads, Works, Stumbles

(* What the other threads of a driver leave alone. *)
LEMMA OtherSlots ==
    ASSUME Inv, NEW d \in Drivers, NEW j \in Jobs, JobStep(d, j),
           NEW e \in Drivers, NEW i \in Jobs, e # d \/ i # j
    PROVE  /\ at'[e][i] = at[e][i] /\ next'[e][i] = next[e][i]
           /\ i \in decided'[e] <=> i \in decided[e]
  <1>1. \E w : Move(d, j, w)
    BY DEF JobStep, Preflight, Start, EndpointDown, Launch, Spawn, SpawnFails, Collect,
           AppendFails, Move
  <1>2. at'[e][i] = at[e][i] BY <1>1 DEF Move, Inv, TypeOK
  <1>3. next' = next \/ \E m : next' = [next EXCEPT ![d][j] = m]
    BY DEF JobStep, Preflight, Start, EndpointDown, Launch, Spawn, SpawnFails, Collect,
           AppendFails
  <1>4. next'[e][i] = next[e][i] BY <1>3 DEF Inv, TypeOK
  <1>5. \/ decided' = decided
        \/ \E b \in BOOLEAN : decided' = [decided EXCEPT ![d] = IF b THEN @ \union {j} ELSE @]
    <2>1. CASE Preflight(d, j)
      <3>1. (\E h \in Occupied(j) : attempt[j][h] = "healthy") \in BOOLEAN OBVIOUS
      <3> QED BY <2>1, <3>1 DEF Preflight
    <2>2. CASE Collect(d, j)
      <3>1. Reusable(attempt[j][next[d][j]]) \in BOOLEAN BY DEF Reusable
      <3> QED BY <2>2, <3>1 DEF Collect
    <2>3. CASE AppendFails(d, j)
      <3>1. (Exited(d, j) /\ Reusable(attempt[j][next[d][j]])) \in BOOLEAN OBVIOUS
      <3> QED BY <2>3, <3>1 DEF AppendFails
    <2> QED BY <2>1, <2>2, <2>3 DEF JobStep, Start, EndpointDown, Launch, Spawn, SpawnFails
  <1>6. i \in decided'[e] <=> i \in decided[e] BY <1>5 DEF Inv, TypeOK
  <1> QED BY <1>2, <1>4, <1>6

LEMMA CellsKept ==
    ASSUME Inv, EvidenceTypes, Cells, JointNext
    PROVE  Cells'
  <1> SUFFICES ASSUME faults' = 0, NEW e \in Drivers, e \notin raised',
                      phase'[e] \notin Over \ {"finished"}, NEW i \in Jobs
      PROVE  Cell(e, i)'
    BY DEF Cells
  <1>n. [Next]_vars BY JointMoves
  <1>1. faults = 0 /\ e \notin raised BY <1>n, Onward
  <1>2. phase[e] \notin Over \ {"finished"} BY <1>n, Onward
  <1>3. Cell(e, i) BY <1>1, <1>2 DEF Cells
  <1>s. ASSUME book'[e][i] = book[e][i], declared'[e][i] = declared[e][i],
               at'[e][i] = at[e][i], next'[e][i] = next[e][i],
               i \in decided'[e] <=> i \in decided[e]
        PROVE  Cell(e, i)'
    <2>1. (i \in decided'[e]) = (i \in decided[e]) BY <1>s
    <2> QED BY <1>3, <1>s, <2>1 DEF Cell
  <1>4. CASE \E d \in Drivers, j \in Jobs : Threads(d, j)
    <2> PICK d \in Drivers, j \in Jobs : Threads(d, j) BY <1>4
    <2>1. CASE e = d /\ i = j
      <3>1. Threads(e, i) BY <2>1
      <3>2. Cell(e, i)' BY <3>1, <1>3, ThreadWrites
      <3> QED BY <3>2
    <2>2. CASE e # d \/ i # j
      <3>1. /\ at'[e][i] = at[e][i] /\ next'[e][i] = next[e][i]
            /\ i \in decided'[e] <=> i \in decided[e]
        BY <2>2, ThreadsOwn, OtherSlots
      <3>2. PICK lines \in Filed, n \in Counted : Leaves(d, j, lines, n) BY ThreadAdds
      <3>3. book'[e][i] = book[e][i] /\ declared'[e][i] = declared[e][i]
        BY <2>2, <3>2, LeavesIs
      <3> QED BY <1>s, <3>1, <3>3
    <2> QED BY <2>1, <2>2
  <1>5. CASE Else
    <2>1. book'[e][i] = book[e][i] /\ declared'[e][i] = declared[e][i] BY <1>5, ElseKeeps
    <2>2. UNCHANGED <<at, next, decided>>
      BY <1>5 DEF Else, Acquire, Finish, Interrupt, Kill, ChildWrites, ChildExits, memory
    <2> QED BY <1>s, <2>1, <2>2
  <1>6. CASE UNCHANGED evidence /\ UNCHANGED memory BY <1>6, <1>s DEF evidence, memory
  <1> QED BY <1>4, <1>5, <1>6 DEF JointNext, Opens, Verifies, ValidatesChild, Exports, Closes,
                                  all, vars, StartReading, StopReading

(* The evidence, initially and in a step *)

LEMMA EvidenceStart == JointInit => EvidenceInv
  <1> SUFFICES ASSUME JointInit PROVE EvidenceInv OBVIOUS
  <1> USE DEF JointInit, Init
  <1>n. MaxAttempts \in Nat /\ NumJobs \in Nat BY Indices
  <1>1. EvidenceTypes
    <2>1. <<>> \in Seq(Entry) /\ 0 \in 0..MaxAttempts BY <1>n
    <2> QED BY <2>1 DEF EvidenceTypes
  <1>2. Selected /\ Ended /\ Uncounted /\ Audited BY DEF Selected, Ended, Uncounted, Audited
  <1>3. BookBorne BY DEF BookBorne
  <1>4. Cells BY DEF Cells, Cell, Written
  <1> QED BY <1>1, <1>2, <1>3, <1>4 DEF EvidenceInv

LEMMA EvidenceStep ==
    ASSUME Inv, EvidenceInv, [JointNext]_all
    PROVE  EvidenceInv'
  <1>1. CASE JointNext
    <2>1. [Next]_vars BY JointMoves
    <2> QED BY <1>1, <2>1, EvidenceTypesKept, SelectedKept, BookKept, AuditedKept, CellsKept,
               EndedKept, UncountedKept DEF EvidenceInv
  <1>2. CASE UNCHANGED all
    <2>2. UNCHANGED vars BY <1>2 DEF all
    <2>3. Selected' /\ Ended' BY <2>2, SelectedKept, EndedKept DEF EvidenceInv
    <2>4. EvidenceTypes' /\ Uncounted' /\ BookBorne' /\ Cells'
      BY <1>2 DEF EvidenceInv, EvidenceTypes, Uncounted, BookBorne, Borne, Cells, Cell, all,
                  evidence, vars, memory, disk, Record
    <2>5. Audited'
      <3>1. EvidenceHolds(audit.of, audit.live) => EvidenceHolds(audit.of, audit.live)'
        BY <1>2 DEF EvidenceHolds, CountsAreWhole, SummaryAgrees, Selection, Partitions,
                    CellIsBound, Candidate, CapIsKept, Occupied, all, evidence, vars, memory, disk
      <3> QED BY <1>2, <3>1 DEF EvidenceInv, Audited, all, evidence, vars, memory, disk
    <2> QED BY <2>3, <2>4, <2>5 DEF EvidenceInv
  <1> QED BY <1>1, <1>2

(* A finished driver whose appends all succeeded has a slot's lines in      *)
(* every slot, closed, and selected what it counted.                        *)
LEMMA FinishedHolds ==
    ASSUME Inv, EvidenceInv
    PROVE  FinishedIsAnalysable
  <1> SUFFICES ASSUME faults = 0, NEW d \in Drivers, phase[d] = "finished"
      PROVE EvidenceHolds(d, FALSE)
    BY DEF FinishedIsAnalysable
  <1>1. \A j \in Jobs : at[d][j] \in Settled /\ Cell(d, j)
    BY DEF EvidenceInv, Ended, Cells
  <1>2. \A j \in Jobs : declared[d][j] \in 0..MaxAttempts BY DEF EvidenceInv, EvidenceTypes
  <1>3. decided[d] \subseteq Jobs BY DEF Inv, TypeOK
  <1>4. ASSUME NEW j \in Jobs
        PROVE  /\ Whole(book[d][j], declared[d][j],
                        IF j \in decided[d] THEN {declared[d][j]} ELSE {})
               /\ book[d][j] # <<>>
               /\ j \in decided[d] <=> at[d][j] \in {"reused", "accepted"}
               /\ j \in decided[d] => declared[d][j] # 0
    <2>1. at[d][j] \in Settled /\ Cell(d, j) BY <1>1
    <2>2. CASE at[d][j] \in {"reused", "accepted"}
      <3>1. /\ Whole(book[d][j], declared[d][j], {declared[d][j]})
            /\ declared[d][j] # 0 /\ j \in decided[d]
        BY <2>1, <2>2 DEF Cell, Written
      <3>2. declared[d][j] \in {book[d][j][i].idx : i \in DOMAIN book[d][j]}
        <4>1. declared[d][j] \in 1..declared[d][j] BY <1>2, <3>1, Indices
        <4> QED BY <3>1, <4>1 DEF Whole
      <3>3. book[d][j] # <<>> BY <3>2, NoLine
      <3> QED BY <2>2, <3>1, <3>3
    <2>3. CASE at[d][j] = "failed"
      <3>1. Whole(book[d][j], declared[d][j], {}) /\ book[d][j] # <<>> /\ j \notin decided[d]
        BY <2>1, <2>3 DEF Cell, Written
      <3> QED BY <2>3, <3>1
    <2> QED BY <2>1, <2>2, <2>3 DEF Settled
  <1>5. CountsAreWhole(d) BY DEF EvidenceInv, Uncounted, CountsAreWhole
  <1>6. SummaryAgrees(d)
    <2>1. {j \in Jobs : at[d][j] \in {"reused", "accepted"}} = decided[d] BY <1>3, <1>4
    <2> QED BY <2>1 DEF SummaryAgrees, Selection
  <1>7. Partitions(Selection(d), d)
    <2> DEFINE s == Selection(d)
    <2>1. /\ s.children = decided[d]
          /\ s.missing = {j \in Jobs \ decided[d] : declared[d][j] = 0}
          /\ s.rejected = (Jobs \ decided[d]) \ s.missing
      BY DEF Selection
    <2>2. s.children \union s.rejected \union s.missing = Jobs BY <2>1, <1>3
    <2>3. ASSUME NEW j \in Jobs
          PROVE  /\ Cardinality({f \in {"children", "rejected", "missing"} : j \in s[f]}) = 1
                 /\ declared[d][j] = 0 <=> j \in s.missing
      <3> DEFINE F == {f \in {"children", "rejected", "missing"} : j \in s[f]}
      <3>1. /\ s["children"] = s.children /\ s["rejected"] = s.rejected
            /\ s["missing"] = s.missing
        OBVIOUS
      <3> HIDE DEF s
      <3>2. \E f : F = {f}
        <4>1. CASE j \in decided[d]
          <5>1. F = {"children"} BY <2>1, <3>1, <4>1
          <5> QED BY <5>1
        <4>2. CASE j \notin decided[d] /\ declared[d][j] = 0
          <5>1. F = {"missing"} BY <2>1, <3>1, <4>2
          <5> QED BY <5>1
        <4>3. CASE j \notin decided[d] /\ declared[d][j] # 0
          <5>1. F = {"rejected"} BY <2>1, <3>1, <4>3
          <5> QED BY <5>1
        <4> QED BY <4>1, <4>2, <4>3
      <3>3. Cardinality(F) = 1 BY <3>2, FS_Singleton
      <3>4. declared[d][j] = 0 <=> j \in s.missing BY <2>1, <1>4
      <3> QED BY <3>3, <3>4
    <2> HIDE DEF s
    <2>4. Partitions(s, d) BY <2>2, <2>3, <1>2 DEF Partitions
    <2> QED BY <2>4 DEF s
  <1>8. ASSUME NEW j \in Jobs PROVE CellIsBound(d, j)
    BY <1>4 DEF CellIsBound, Whole, Selection, Candidate
  <1> QED BY <1>5, <1>6, <1>7, <1>8 DEF EvidenceHolds

(* The selected slots are all that was counted, and the analysis opened all *)
(* of them; NothingInDoubt leaves each one healthy run.                     *)
LEMMA SoundHolds ==
    ASSUME Inv, EvidenceInv
    PROVE  AnalysisIsSound
  <1> SUFFICES ASSUME audit.stage = "exported"
      PROVE LET d == audit.of
            IN  /\ audit.observed = decided[d]
                /\ audit.observed = {j \in Jobs : at[d][j] \in {"reused", "accepted"}}
                /\ \A j \in audit.observed :
                      /\ Record(d, j, declared[d][j], "accepted") \in ledger
                      /\ {k \in Attempts : attempt[j][k] = "healthy"} = {declared[d][j]}
                /\ audit.live => \A j \in Jobs : CapIsKept(d, j)
    BY DEF AnalysisIsSound
  <1> DEFINE d == audit.of
  <1>1. audit # Idle BY DEF Idle
  <1>2. d \in Drivers /\ audit.live \in BOOLEAN BY <1>1 DEF EvidenceInv, EvidenceTypes
  <1>3. /\ EvidenceHolds(d, audit.live) /\ audit.job = NumJobs
        /\ audit.observed = {j \in decided[d] : j <= audit.job}
    BY <1>1 DEF EvidenceInv, Audited
  <1>4. audit.live => \A j \in Jobs : CapIsKept(d, j) BY <1>3 DEF EvidenceHolds
  <1>5. decided[d] \subseteq Jobs BY <1>2 DEF Inv, TypeOK
  <1> HIDE DEF d
  <1>6. audit.observed = decided[d] BY <1>3, <1>5 DEF Jobs
  <1>7. decided[d] = {j \in Jobs : at[d][j] \in {"reused", "accepted"}}
    <2> DEFINE S == {j \in Jobs : at[d][j] \in {"reused", "accepted"}}
    <2>1. S \subseteq decided[d] BY <1>2 DEF EvidenceInv, Selected
    <2>2. Cardinality(S) = Cardinality(decided[d])
      BY <1>3 DEF EvidenceHolds, SummaryAgrees, Selection
    <2>3. IsFiniteSet(decided[d])
      <3>1. IsFiniteSet(Jobs) BY FS_Interval, Indices DEF Jobs
      <3> QED BY <1>5, <3>1, FS_Subset
    <2> HIDE DEF S
    <2>4. S = decided[d] BY <2>1, <2>2, <2>3, FS_Subset
    <2> QED BY <2>4 DEF S
  <1>8. ASSUME NEW j \in decided[d]
        PROVE  /\ Record(d, j, declared[d][j], "accepted") \in ledger
               /\ {k \in Attempts : attempt[j][k] = "healthy"} = {declared[d][j]}
    <2> DEFINE n == declared[d][j]
    <2>1. j \in Jobs /\ CellIsBound(d, j) BY <1>3, <1>5 DEF EvidenceHolds
    <2>2. n \in Attempts /\ attempt[j][n] = "healthy" /\ Record(d, j, n, "accepted") \in ledger
      BY <1>2, <2>1, SelectedAreHealthy DEF EvidenceInv
    <2> HIDE DEF n
    <2>3. \A h, k \in Attempts : attempt[j][h] = "healthy" /\ attempt[j][k] = "healthy" =>
                                    ~(h < k)
      <3> SUFFICES ASSUME NEW h \in Attempts, NEW k \in Attempts,
                          attempt[j][h] = "healthy", attempt[j][k] = "healthy", h < k
          PROVE FALSE
        OBVIOUS
      <3>1. h \in 1..(k - 1) BY Indices DEF Attempts
      <3>2. attempt[j][h] \in {"opened", "unhealthy"}
        BY <2>1, <3>1 DEF Inv, NothingInDoubt
      <3> QED BY <3>2
    <2>4. \A k \in Attempts : attempt[j][k] = "healthy" => k = n
      BY <2>2, <2>3, Indices DEF Attempts
    <2>5. {k \in Attempts : attempt[j][k] = "healthy"} = {n} BY <2>2, <2>4
    <2> QED BY <2>2, <2>5 DEF n
  <1> QED BY <1>4, <1>6, <1>7, <1>8 DEF d

-----------------------------------------------------------------------------
(* Evidence and analysis only look on: what drivers and children do under   *)
(* JointSpec they may do under Spec, so that what is proved there holds.    *)
THEOREM AnalysisLooksOn == JointSpec => Spec
  <1>1. JointInit => Init BY DEF JointInit
  <1>2. [JointNext]_all => [Next]_vars BY JointMoves
  <1> QED BY <1>1, <1>2, PTL DEF JointSpec, Spec

(* The invariant of the evidence: the lines of a driver's file are those of *)
(* its slots' attempts, and the analysis is alone with what it has verified. *)
THEOREM JointInvariance == JointSpec => [](Inv /\ EvidenceInv)
  <1>1. JointInit => Inv /\ EvidenceInv BY StartInv, EvidenceStart DEF JointInit
  <1>2. Inv /\ EvidenceInv /\ [JointNext]_all => (Inv /\ EvidenceInv)'
    BY JointMoves, StepKeeps, EvidenceStep
  <1> QED BY <1>1, <1>2, PTL DEF JointSpec

(* Without a failing append, prepare_driver_selection accepts what a driver *)
(* that finished has written of its slots, whatever it found, its children  *)
(* did and the endpoint did.                                                *)
THEOREM FinishedDriversAreAnalysable == JointSpec => []FinishedIsAnalysable
  BY JointInvariance, FinishedHolds, PTL

(* What the analyzer exports are the slots that the driver selected and     *)
(* counted, each by its one healthy run, accepted on the durable ledger;    *)
(* other drivers, orphans and failing appends do not change that.           *)
THEOREM AnalysesAreSound == JointSpec => []AnalysisIsSound
  BY JointInvariance, SoundHolds, PTL
=============================================================================
