--------------------------- MODULE DriverJobsProofs ---------------------------
(***************************************************************************)
(* Proofs about DriverJobs: for any number of invocations, slots, tries    *)
(* and workers, whatever is killed and whoever publishes over whom, a      *)
(* counted slot is backed by a healthy run unless an old file is in the    *)
(* way, no driver has more children than workers, and the counters of each *)
(* manifest are the numbers of slots and children that they stand for.     *)
(***************************************************************************)
EXTENDS DriverJobs, FiniteSetTheorems, TLAPS

TryOf(r) == r[3]

Backed(s) ==
    \E r \in Runs : SlotOf(r) = s /\ stage[r] \in {"linked", "declared"} /\ health[r] = "good"

(* A flat path only links to a published run of its own slot. *)
LinksAreOwn ==
    \A s \in Slots : \A r \in link[s] : SlotOf(r) = s /\ stage[r] \in {"linked", "declared"}

(* What is accepted, or is about to be reused, is backed. *)
Acceptances ==
    \A d \in Drivers, s \in Slots :
        at[d][s] \in {"reusable", "ok", "reused", "completed"} /\ old[s] = "none" => Backed(s)

(* The child of a running driver is the one that its thread waits for. *)
Waiting ==
    \A r \in live : phase[DriverOf(r)] = "run" =>
        at[DriverOf(r)][SlotOf(r)] = "waiting" /\ r = Child(DriverOf(r), SlotOf(r))

(* A driver without a pool has no thread. *)
Idle == \A d \in Drivers : phase[d] \in {"new", "assess"} => Busy(d) = {}

Pool == \A d \in Drivers : phase[d] = "run" => Cardinality(Busy(d)) <= Workers[d]

(* A thread that goes on to launch a child launches a new one: no child of  *)
(* a later try, nor of the try at hand, was ever there.                      *)
Fresh ==
    \A r \in Runs : stage[r] # "absent" =>
        /\ phase[DriverOf(r)] \notin {"new", "assess"}
        /\ phase[DriverOf(r)] = "run" =>
              /\ TryOf(r) <= try[DriverOf(r)][SlotOf(r)]
              /\ at[DriverOf(r)][SlotOf(r)] \in {"todo", "trying", "launching"} =>
                    TryOf(r) < try[DriverOf(r)][SlotOf(r)]

LiveIsStaged == \A r \in live : stage[r] # "absent"

Inv ==
    /\ TypeOK /\ LinksAreOwn /\ Acceptances /\ Waiting /\ Fresh /\ LiveIsStaged
    /\ Idle /\ Pool /\ LoadBounded

Where == {"unassessed", "reusable", "todo", "trying", "launching", "waiting", "returned",
          "ok", "bad", "reused", "completed", "failed"}
Counters == [started : Nat, executed : Nat, reused : Nat, completed : Nat, failed : Nat]

-----------------------------------------------------------------------------
LEMMA Numbers ==
    /\ NumSlots \in Nat \ {0} /\ MaxRetries \in Nat \ {0} /\ 1 \in 1..MaxRetries
    /\ Slots \subseteq Nat
    /\ \A d \in Drivers : Workers[d] \in Nat \ {0}
  BY DriverAssumption DEF Slots

LEMMA RunParts ==
    ASSUME NEW r \in Runs
    PROVE  DriverOf(r) \in Drivers /\ SlotOf(r) \in Slots
  BY DEF Runs, DriverOf, SlotOf

LEMMA ChildParts ==
    ASSUME TypeOK, NEW d \in Drivers, NEW s \in Slots
    PROVE  Child(d, s) \in Runs /\ DriverOf(Child(d, s)) = d /\ SlotOf(Child(d, s)) = s
  BY DEF TypeOK, Child, Runs, DriverOf, SlotOf

(* One thread moves, the others stay. *)
LEMMA Moves ==
    ASSUME TypeOK, NEW d \in Drivers, NEW s \in Slots, NEW w \in Where, Move(d, s, w)
    PROVE  /\ at' \in [Drivers -> [Slots -> Where]]
           /\ at'[d][s] = w
           /\ \A e \in Drivers, i \in Slots : e # d \/ i # s => at'[e][i] = at[e][i]
  BY DEF TypeOK, Move, Where

LEMMA Counts ==
    ASSUME TypeOK, NEW d \in Drivers, NEW c \in {"started", "executed", "completed", "failed"},
           Count(d, c)
    PROVE  counts' \in [Drivers -> Counters]
  <1>1. counts \in [Drivers -> Counters] BY DEF TypeOK, Counters
  <1>2. [counts[d] EXCEPT ![c] = @ + 1] \in Counters BY <1>1 DEF Counters
  <1>3. counts' = [counts EXCEPT ![d] = [counts[d] EXCEPT ![c] = @ + 1]] BY DEF Count
  <1> QED BY <1>1, <1>2, <1>3

(* The retry loop stays within its bound. *)
LEMMA Tries ==
    ASSUME TypeOK, NEW d \in Drivers, NEW s \in Slots, Again(d, s)
    PROVE  /\ try' \in [Drivers -> [Slots -> 1..MaxRetries]]
           /\ at' \in [Drivers -> [Slots -> Where]]
           /\ at'[d][s] \in {"trying", "bad"}
           /\ \A e \in Drivers, i \in Slots : e # d \/ i # s =>
                 at'[e][i] = at[e][i] /\ try'[e][i] = try[e][i]
  <1>1. CASE try[d][s] < MaxRetries
    <2>1. Move(d, s, "trying") /\ try' = [try EXCEPT ![d][s] = @ + 1] BY <1>1 DEF Again
    <2>2. try[d][s] + 1 \in 1..MaxRetries BY <1>1, Numbers DEF TypeOK
    <2>3. "trying" \in Where BY DEF Where
    <2> QED BY <2>1, <2>2, <2>3, Moves DEF TypeOK
  <1>2. CASE ~(try[d][s] < MaxRetries)
    <2>1. Move(d, s, "bad") /\ UNCHANGED try BY <1>2 DEF Again
    <2>2. "bad" \in Where BY DEF Where
    <2> QED BY <2>1, <2>2, Moves DEF TypeOK
  <1> QED BY <1>1, <1>2

(* The threads of one driver are finitely many. *)
LEMMA BusyIsFinite ==
    ASSUME NEW busy \in SUBSET Slots
    PROVE  IsFiniteSet(busy) /\ Cardinality(busy) \in Nat
  <1>1. IsFiniteSet(Slots) BY FS_Interval, Numbers DEF Slots
  <1> QED BY <1>1, FS_Subset, FS_CardinalityType

(* Children of different slots are no more than these slots. *)
LEMMA OnePerSlot ==
    ASSUME NEW own \in SUBSET Runs, NEW busy \in SUBSET Slots,
           \A r \in own : SlotOf(r) \in busy,
           \A q, r \in own : SlotOf(q) = SlotOf(r) => q = r
    PROVE  IsFiniteSet(own) /\ Cardinality(own) \in Nat /\ Cardinality(own) <= Cardinality(busy)
  <1> DEFINE f == [r \in own |-> SlotOf(r)]
  <1>1. f \in Injection(own, busy) BY DEF Injection, IsInjective
  <1>2. IsFiniteSet(own) /\ Cardinality(own) <= Cardinality(busy)
    BY <1>1, BusyIsFinite, FS_Injection
  <1> QED BY <1>2, FS_CardinalityType

(* Without a new child the load does not grow. *)
LEMMA LoadStays ==
    ASSUME Inv, live' \subseteq live
    PROVE  LoadBounded'
  <1> SUFFICES ASSUME NEW d \in Drivers
               PROVE  /\ Cardinality(Own(d)') <= Workers[d]
                      /\ \A q, r \in Own(d)' : SlotOf(q) = SlotOf(r) => q = r
    BY DEF LoadBounded
  <1>1. Own(d) \in SUBSET Runs /\ Own(d)' \subseteq Own(d) BY DEF Inv, TypeOK, Own
  <1>2. Cardinality(Own(d)) <= Workers[d] /\ \A q, r \in Own(d) : SlotOf(q) = SlotOf(r) => q = r
    BY DEF Inv, LoadBounded
  <1>3. \A r \in Own(d) : SlotOf(r) \in Slots BY <1>1, RunParts
  <1>4. IsFiniteSet(Own(d)) /\ Cardinality(Own(d)) \in Nat BY <1>1, <1>2, <1>3, OnePerSlot
  <1>5. Cardinality(Own(d)') <= Cardinality(Own(d)) /\ Cardinality(Own(d)') \in Nat
    BY <1>1, <1>4, FS_Subset, FS_CardinalityType
  <1>6. Workers[d] \in Nat BY Numbers
  <1> QED BY <1>1, <1>2, <1>4, <1>5, <1>6

(* A pool does not outgrow its workers when no thread starts. *)
LEMMA PoolStays ==
    ASSUME NEW before \in SUBSET Slots, NEW after \in SUBSET before, NEW n \in Nat,
           Cardinality(before) <= n
    PROVE  Cardinality(after) <= n
  <1>1. IsFiniteSet(before) /\ Cardinality(before) \in Nat BY BusyIsFinite
  <1>2. Cardinality(after) <= Cardinality(before) /\ Cardinality(after) \in Nat
    BY <1>1, FS_Subset, FS_CardinalityType
  <1> QED BY <1>1, <1>2

-----------------------------------------------------------------------------
(* The threads of a driver *)

(* A step of one thread, as seen from everything else. *)
OneThread(d, s) ==
    /\ UNCHANGED <<disk, live, phase, raised>>
    /\ at' \in [Drivers -> [Slots -> Where]]
    /\ try' \in [Drivers -> [Slots -> 1..MaxRetries]]
    /\ counts' \in [Drivers -> Counters]
    /\ \A e \in Drivers, i \in Slots : e # d \/ i # s =>
           at'[e][i] = at[e][i] /\ try'[e][i] = try[e][i]

LEMMA MoveIsOneThread ==
    ASSUME Inv, NEW d \in Drivers, NEW s \in Slots, NEW w \in Where, Move(d, s, w),
           UNCHANGED <<disk, live, phase, raised, try>>,
           counts' \in [Drivers -> Counters]
    PROVE  OneThread(d, s) /\ at'[d][s] = w
  <1>1. try' \in [Drivers -> [Slots -> 1..MaxRetries]] BY DEF Inv, TypeOK
  <1>2. \A e \in Drivers, i \in Slots : try'[e][i] = try[e][i] OBVIOUS
  <1>3. TypeOK BY DEF Inv
  <1> QED BY <1>1, <1>2, <1>3, Moves DEF OneThread

LEMMA AgainIsOneThread ==
    ASSUME Inv, NEW d \in Drivers, NEW s \in Slots, Again(d, s),
           UNCHANGED <<disk, live, phase, raised, counts>>
    PROVE  OneThread(d, s) /\ at'[d][s] \in {"trying", "bad"}
  <1>1. TypeOK BY DEF Inv
  <1>2. counts' \in [Drivers -> Counters] BY DEF Inv, TypeOK, Counters
  <1> QED BY <1>1, <1>2, Tries DEF OneThread

LEMMA DiskStays ==
    ASSUME Inv, UNCHANGED disk
    PROVE  LinksAreOwn' /\ \A s \in Slots : Backed(s)' <=> Backed(s)
  BY DEF Inv, LinksAreOwn, Backed, disk

(* What a thread without a live child leaves alone when it moves on. *)
LEMMA RestStays ==
    ASSUME Inv, NEW d \in Drivers, NEW s \in Slots, OneThread(d, s),
           phase[d] = "run" =>
               /\ \A r \in live : DriverOf(r) # d \/ SlotOf(r) # s
               /\ try'[d][s] >= try[d][s]
               /\ at'[d][s] \in {"todo", "trying", "launching"} =>
                     try'[d][s] > try[d][s] \/ at[d][s] \in {"todo", "trying", "launching"}
    PROVE  /\ TypeOK' /\ LinksAreOwn' /\ Waiting' /\ Fresh' /\ LiveIsStaged' /\ LoadBounded'
           /\ \A i \in Slots : Backed(i)' <=> Backed(i)
  <1> USE DEF OneThread
  <1>1. TypeOK' BY DEF Inv, TypeOK, disk, Where, Counters
  <1>2. LinksAreOwn' /\ \A i \in Slots : Backed(i)' <=> Backed(i) BY DiskStays
  <1>3. Waiting'
    <2> SUFFICES ASSUME NEW r \in live, phase[DriverOf(r)] = "run"
                 PROVE  /\ at'[DriverOf(r)][SlotOf(r)] = "waiting"
                        /\ r = Child(DriverOf(r), SlotOf(r))'
      BY DEF Waiting
    <2>1. DriverOf(r) \in Drivers /\ SlotOf(r) \in Slots BY RunParts DEF Inv, TypeOK
    <2> QED BY <2>1 DEF Inv, Waiting, Child
  <1>4. LiveIsStaged' BY DEF Inv, LiveIsStaged, disk
  <1>5. Fresh'
    <2> SUFFICES ASSUME NEW r \in Runs, stage[r] # "absent", phase[DriverOf(r)] = "run"
                 PROVE  /\ TryOf(r) <= try'[DriverOf(r)][SlotOf(r)]
                        /\ at'[DriverOf(r)][SlotOf(r)] \in {"todo", "trying", "launching"} =>
                              TryOf(r) < try'[DriverOf(r)][SlotOf(r)]
      BY DEF Inv, Fresh, disk
    <2>1. DriverOf(r) \in Drivers /\ SlotOf(r) \in Slots /\ TryOf(r) \in Nat
      BY RunParts DEF Runs, TryOf
    <2>2. /\ TryOf(r) <= try[DriverOf(r)][SlotOf(r)]
          /\ at[DriverOf(r)][SlotOf(r)] \in {"todo", "trying", "launching"} =>
                TryOf(r) < try[DriverOf(r)][SlotOf(r)]
      BY DEF Inv, Fresh
    <2>3. CASE DriverOf(r) # d \/ SlotOf(r) # s BY <2>1, <2>2, <2>3
    <2>4. CASE DriverOf(r) = d /\ SlotOf(r) = s
      <3>1. try[d][s] \in Nat /\ try'[d][s] \in Nat BY Numbers DEF Inv, TypeOK
      <3>2. /\ TryOf(r) <= try[d][s]
            /\ at[d][s] \in {"todo", "trying", "launching"} => TryOf(r) < try[d][s]
        BY <2>2, <2>4
      <3>3. phase[d] = "run" BY <2>4
      <3>4. TryOf(r) <= try'[d][s] BY <2>1, <3>1, <3>2, <3>3
      <3>5. at'[d][s] \in {"todo", "trying", "launching"} => TryOf(r) < try'[d][s]
        BY <2>1, <3>1, <3>2, <3>3
      <3> QED BY <2>4, <3>4, <3>5
    <2> QED BY <2>3, <2>4
  <1>6. LoadBounded' BY LoadStays
  <1> QED BY <1>1, <1>2, <1>3, <1>4, <1>5, <1>6

(* One thread of a running pool goes from one place to another, and has no  *)
(* live child when it does.                                                 *)
LEMMA ThreadMoves ==
    ASSUME Inv, NEW d \in Drivers, NEW s \in Slots, phase[d] = "run", OneThread(d, s),
           \A r \in live : DriverOf(r) # d \/ SlotOf(r) # s,
           at'[d][s] \in {"trying", "launching", "waiting", "returned"} => s \in Busy(d),
           try'[d][s] >= try[d][s],
           at'[d][s] \in {"todo", "trying", "launching"} =>
               try'[d][s] > try[d][s] \/ at[d][s] \in {"todo", "trying", "launching"},
           at'[d][s] \in {"reusable", "ok", "reused", "completed"} /\ old[s] = "none" => Backed(s)
    PROVE  Inv'
  <1>1. /\ TypeOK' /\ LinksAreOwn' /\ Waiting' /\ Fresh' /\ LiveIsStaged' /\ LoadBounded'
        /\ \A i \in Slots : Backed(i)' <=> Backed(i)
    BY RestStays
  <1> USE DEF OneThread
  <1>2. Acceptances' BY <1>1 DEF Inv, Acceptances, disk
  <1>3. \A e \in Drivers : Busy(e)' \subseteq Busy(e) BY DEF Busy
  <1>4. Idle' BY <1>3 DEF Inv, Idle
  <1>5. Pool'
    <2> SUFFICES ASSUME NEW e \in Drivers, phase[e] = "run"
                 PROVE  Cardinality(Busy(e)') <= Workers[e]
      BY DEF Pool
    <2>1. Cardinality(Busy(e)) <= Workers[e] /\ Busy(e) \in SUBSET Slots
      BY DEF Inv, Pool, Busy
    <2> QED BY <1>3, <2>1, PoolStays, Numbers
  <1> QED BY <1>1, <1>2, <1>4, <1>5 DEF Inv

(* A thread that does not wait has no live child. *)
LEMMA NoChild ==
    ASSUME Inv, NEW d \in Drivers, NEW s \in Slots, phase[d] = "run",
           at[d][s] # "waiting" \/ Child(d, s) \notin live
    PROVE  \A r \in live : DriverOf(r) # d \/ SlotOf(r) # s
  BY DEF Inv, Waiting

(* The retry loop takes the next try, or gives the slot up. *)
LEMMA AgainKeeps ==
    ASSUME Inv, NEW d \in Drivers, NEW s \in Slots, phase[d] = "run", Again(d, s),
           at[d][s] \in {"trying", "waiting", "returned"},
           at[d][s] # "waiting" \/ Child(d, s) \notin live,
           UNCHANGED <<disk, live, phase, raised, counts>>
    PROVE  Inv'
  <1>1. \A r \in live : DriverOf(r) # d \/ SlotOf(r) # s BY NoChild
  <1>2. s \in Busy(d) BY DEF Busy
  <1>3. OneThread(d, s) /\ at'[d][s] \in {"trying", "bad"} BY AgainIsOneThread
  <1>4. try[d][s] \in Nat BY Numbers DEF Inv, TypeOK
  <1>5. /\ try'[d][s] >= try[d][s]
        /\ at'[d][s] = "trying" => try'[d][s] > try[d][s]
    BY <1>4 DEF Again, Move, Inv, TypeOK
  <1> QED BY <1>1, <1>2, <1>3, <1>5, ThreadMoves

LEMMA RetryKeeps ==
    ASSUME Inv, NEW d \in Drivers, NEW s \in Slots, EndpointDown(d, s)
    PROVE  Inv'
  BY AgainKeeps DEF EndpointDown

(* A thread that moves without a new try. *)
LEMMA MoveKeeps ==
    ASSUME Inv, NEW d \in Drivers, NEW s \in Slots, phase[d] = "run", NEW w \in Where,
           Move(d, s, w), UNCHANGED <<disk, live, phase, raised, try>>,
           counts' \in [Drivers -> Counters],
           at[d][s] # "waiting" \/ Child(d, s) \notin live,
           w \in {"trying", "launching", "waiting", "returned"} => s \in Busy(d),
           w \in {"todo", "trying", "launching"} => at[d][s] \in {"todo", "trying", "launching"},
           w \in {"reusable", "ok", "reused", "completed"} /\ old[s] = "none" => Backed(s)
    PROVE  Inv'
  <1>1. \A r \in live : DriverOf(r) # d \/ SlotOf(r) # s BY NoChild
  <1>2. OneThread(d, s) /\ at'[d][s] = w BY MoveIsOneThread
  <1>3. try[d][s] \in Nat /\ try'[d][s] = try[d][s] BY Numbers DEF Inv, TypeOK
  <1> QED BY <1>1, <1>2, <1>3, ThreadMoves

LEMMA LaunchKeeps ==
    ASSUME Inv, NEW d \in Drivers, NEW s \in Slots, CountLaunch(d, s) \/ SpawnFails(d, s)
    PROVE  Inv'
  <1>1. CASE CountLaunch(d, s)
    <2>1. counts' \in [Drivers -> Counters] BY <1>1, Counts DEF Inv, CountLaunch
    <2>2. "launching" \in Where /\ s \in Busy(d) BY <1>1 DEF Where, Busy, CountLaunch
    <2> QED BY <1>1, <2>1, <2>2, MoveKeeps DEF CountLaunch
  <1>2. CASE SpawnFails(d, s)
    <2>1. counts' \in [Drivers -> Counters] BY <1>2 DEF Inv, TypeOK, Counters, SpawnFails
    <2>2. "bad" \in Where BY DEF Where
    <2> QED BY <1>2, <2>1, <2>2, MoveKeeps DEF SpawnFails
  <1> QED BY <1>1, <1>2

LEMMA CollectKeeps ==
    ASSUME Inv, NEW d \in Drivers, NEW s \in Slots, Collect(d, s)
    PROVE  Inv'
  <1> USE DEF Collect, Ended
  <1>1. CASE at[d][s] = "returned" /\ Counted(d, s)
    <2>1. old[s] = "none" => Backed(s)
      <3> SUFFICES ASSUME old[s] = "none" PROVE Backed(s) OBVIOUS
      <3>1. PICK r \in link[s] : health[r] = "good" BY <1>1 DEF Counted, Shown
      <3>2. r \in Runs BY DEF Inv, TypeOK
      <3> QED BY <3>1, <3>2 DEF Inv, LinksAreOwn, Backed
    <2>2. Move(d, s, "ok") /\ UNCHANGED try BY <1>1
    <2>3. "ok" \in Where BY DEF Where
    <2>4. counts' \in [Drivers -> Counters] BY DEF Inv, TypeOK, Counters
    <2> QED BY <1>1, <2>1, <2>2, <2>3, <2>4, MoveKeeps
  <1>2. CASE ~(at[d][s] = "returned" /\ Counted(d, s)) BY <1>2, AgainKeeps
  <1> QED BY <1>1, <1>2

LEMMA RecordKeeps ==
    ASSUME Inv, NEW d \in Drivers, NEW s \in Slots, RecordResult(d, s)
    PROVE  Inv'
  <1>1. CASE at[d][s] = "ok" /\ Move(d, s, "completed") /\ Count(d, "completed")
    <2>1. counts' \in [Drivers -> Counters] BY <1>1, Counts DEF Inv
    <2>2. "completed" \in Where BY DEF Where
    <2>3. old[s] = "none" => Backed(s) BY <1>1 DEF Inv, Acceptances
    <2> QED BY <1>1, <2>1, <2>2, <2>3, MoveKeeps DEF RecordResult
  <1>2. CASE at[d][s] = "bad" /\ Move(d, s, "failed") /\ Count(d, "failed")
    <2>1. counts' \in [Drivers -> Counters] BY <1>2, Counts DEF Inv
    <2>2. "failed" \in Where BY DEF Where
    <2> QED BY <1>2, <2>1, <2>2, MoveKeeps DEF RecordResult
  <1> QED BY <1>1, <1>2 DEF RecordResult

(* A driver that starts a thread has room for it. *)
LEMMA StartKeeps ==
    ASSUME Inv, NEW d \in Drivers, NEW s \in Slots, Start(d, s)
    PROVE  Inv'
  <1> USE DEF Start
  <1>1. counts' \in [Drivers -> Counters] BY Counts DEF Inv
  <1>2. "trying" \in Where BY DEF Where
  <1>3. OneThread(d, s) /\ at'[d][s] = "trying" BY <1>1, <1>2, MoveIsOneThread
  <1>4. \A r \in live : DriverOf(r) # d \/ SlotOf(r) # s BY NoChild
  <1>5. try[d][s] \in Nat /\ try'[d][s] = try[d][s] BY Numbers DEF Inv, TypeOK
  <1>6. /\ TypeOK' /\ LinksAreOwn' /\ Waiting' /\ Fresh' /\ LiveIsStaged' /\ LoadBounded'
        /\ \A i \in Slots : Backed(i)' <=> Backed(i)
    BY <1>3, <1>4, <1>5, RestStays
  <1> USE <1>3 DEF OneThread
  <1>7. Acceptances' BY <1>6 DEF Inv, Acceptances, disk
  <1>8. Idle' BY DEF Inv, Idle, Busy
  <1>9. Pool'
    <2> SUFFICES ASSUME NEW e \in Drivers, phase[e] = "run"
                 PROVE  Cardinality(Busy(e)') <= Workers[e]
      BY DEF Pool
    <2>1. Busy(e) \in SUBSET Slots /\ Busy(d) \in SUBSET Slots BY DEF Busy
    <2>2. CASE e # d
      <3>1. Busy(e)' = Busy(e) BY <2>2 DEF Busy
      <3> QED BY <3>1 DEF Inv, Pool
    <2>3. CASE e = d
      <3>1. s \notin Busy(d) /\ Busy(d)' = Busy(d) \union {s} BY DEF Busy
      <3>2. IsFiniteSet(Busy(d)) /\ Cardinality(Busy(d)) \in Nat BY <2>1, BusyIsFinite
      <3>3. Cardinality(Busy(d)') = Cardinality(Busy(d)) + 1
        <4> DEFINE b == Busy(d)
        <4> HIDE DEF b
        <4>1. IsFiniteSet(b) /\ s \notin b BY <3>1, <3>2 DEF b
        <4>2. Cardinality(b \union {s}) = Cardinality(b) + 1 BY <4>1, FS_AddElement
        <4> QED BY <3>1, <4>2 DEF b
      <3>4. Workers[d] \in Nat BY Numbers
      <3> QED BY <2>3, <3>2, <3>3, <3>4
    <2> QED BY <2>2, <2>3
  <1> QED BY <1>6, <1>7, <1>8, <1>9 DEF Inv

(* A slot that is to be reused links to a healthy run of its own. *)
LEMMA AssessKeeps ==
    ASSUME Inv, NEW d \in Drivers, NEW s \in Slots, Assess(d, s)
    PROVE  Inv'
  <1> DEFINE w == IF Reusable(d, s) THEN "reusable" ELSE "todo"
  <1> USE DEF Assess
  <1>1. w \in Where /\ Move(d, s, w) BY DEF Where
  <1>2. counts' \in [Drivers -> Counters] BY DEF Inv, TypeOK, Counters
  <1>3. w \in {"reusable", "todo"} OBVIOUS
  <1>4. w = "reusable" => Backed(s)
    <2> SUFFICES ASSUME Reusable(d, s) PROVE Backed(s) OBVIOUS
    <2>1. PICK r \in link[s] : health[r] = "good" BY DEF Reusable
    <2>2. r \in Runs BY DEF Inv, TypeOK
    <2> QED BY <2>1, <2>2 DEF Inv, LinksAreOwn, Backed
  <1> HIDE DEF w
  <1>5. OneThread(d, s) /\ at'[d][s] = w BY <1>1, <1>2, MoveIsOneThread
  <1>6. /\ TypeOK' /\ LinksAreOwn' /\ Waiting' /\ Fresh' /\ LiveIsStaged' /\ LoadBounded'
        /\ \A i \in Slots : Backed(i)' <=> Backed(i)
    BY <1>5, RestStays
  <1> USE <1>5 DEF OneThread
  <1>7. Acceptances' BY <1>3, <1>4, <1>6 DEF Inv, Acceptances, disk
  <1>8. \A e \in Drivers : Busy(e)' = Busy(e)
    <2>1. Busy(d)' = Busy(d) BY <1>3 DEF Busy
    <2>2. \A e \in Drivers : e # d => Busy(e)' = Busy(e) BY DEF Busy
    <2> QED BY <2>1, <2>2
  <1>9. Idle' /\ Pool' BY <1>8 DEF Inv, Idle, Pool
  <1> QED BY <1>6, <1>7, <1>9 DEF Inv

(* The children of a driver are in slots whose threads wait for them. *)
LEMMA SpawnKeeps ==
    ASSUME Inv, NEW d \in Drivers, NEW s \in Slots, Spawn(d, s)
    PROVE  Inv'
  <1> USE DEF Spawn
  <1> DEFINE c == Child(d, s)
  <1>1. c \in Runs /\ DriverOf(c) = d /\ SlotOf(c) = s BY ChildParts DEF Inv
  <1>2. stage[c] = "absent" /\ TryOf(c) = try[d][s]
    <2>1. TryOf(c) = try[d][s] BY DEF TryOf, Child
    <2>2. try[d][s] \in Nat BY Numbers DEF Inv, TypeOK
    <2>3. ~(try[d][s] < try[d][s]) BY <2>2
    <2> QED BY <1>1, <2>1, <2>3 DEF Inv, Fresh
  <1> HIDE DEF c
  <1>3. live' = live \union {c} /\ stage' = [stage EXCEPT ![c] = "running"] BY DEF c
  <1>4. /\ at' \in [Drivers -> [Slots -> Where]] /\ at'[d][s] = "waiting"
        /\ \A e \in Drivers, i \in Slots : e # d \/ i # s => at'[e][i] = at[e][i]
    BY Moves DEF Inv, Where
  <1>5. TypeOK' BY <1>1, <1>3, <1>4 DEF Inv, TypeOK, Where
  <1>6. LinksAreOwn' BY <1>2, <1>3 DEF Inv, TypeOK, LinksAreOwn
  <1>7. \A i \in Slots : Backed(i) => Backed(i)' BY <1>2, <1>3 DEF Inv, TypeOK, Backed
  <1>8. Acceptances' BY <1>4, <1>7 DEF Inv, Acceptances
  <1>9. \A r \in live : DriverOf(r) # d \/ SlotOf(r) # s BY NoChild
  <1>10. Waiting'
    <2> SUFFICES ASSUME NEW r \in live', phase[DriverOf(r)] = "run"
                 PROVE  /\ at'[DriverOf(r)][SlotOf(r)] = "waiting"
                        /\ r = Child(DriverOf(r), SlotOf(r))'
      BY DEF Waiting
    <2>1. Child(DriverOf(r), SlotOf(r))' = Child(DriverOf(r), SlotOf(r)) BY DEF Child
    <2>2. CASE r = c BY <1>1, <1>4, <2>1, <2>2 DEF c
    <2>3. CASE r \in live
      <3>1. DriverOf(r) \in Drivers /\ SlotOf(r) \in Slots BY <2>3, RunParts DEF Inv, TypeOK
      <3> QED BY <1>4, <1>9, <2>1, <2>3, <3>1 DEF Inv, Waiting
    <2> QED BY <1>3, <2>2, <2>3
  <1>11. LiveIsStaged' BY <1>1, <1>3 DEF Inv, TypeOK, LiveIsStaged
  <1>12. Fresh'
    <2> SUFFICES ASSUME NEW r \in Runs, stage'[r] # "absent"
                 PROVE  /\ phase[DriverOf(r)] \notin {"new", "assess"}
                        /\ phase[DriverOf(r)] = "run" =>
                              /\ TryOf(r) <= try[DriverOf(r)][SlotOf(r)]
                              /\ at'[DriverOf(r)][SlotOf(r)] \in {"todo", "trying", "launching"} =>
                                    TryOf(r) < try[DriverOf(r)][SlotOf(r)]
      BY DEF Fresh
    <2>1. DriverOf(r) \in Drivers /\ SlotOf(r) \in Slots BY RunParts
    <2>2. CASE r = c
      <3>1. try[d][s] \in Nat BY Numbers DEF Inv, TypeOK
      <3> QED BY <1>1, <1>2, <1>4, <2>2, <3>1
    <2>3. CASE r # c
      <3>1. stage[r] # "absent" BY <1>3, <2>3 DEF Inv, TypeOK
      <3> QED BY <1>4, <2>1, <3>1 DEF Inv, Fresh
    <2> QED BY <2>2, <2>3
  <1>13. \A e \in Drivers : Busy(e)' = Busy(e)
    <2>1. Busy(d)' = Busy(d) BY <1>4 DEF Busy
    <2>2. \A e \in Drivers : e # d => Busy(e)' = Busy(e) BY <1>4 DEF Busy
    <2> QED BY <2>1, <2>2
  <1>14. Idle' /\ Pool' BY <1>13 DEF Inv, Idle, Pool
  <1>15. LoadBounded'
    <2> SUFFICES ASSUME NEW e \in Drivers
                 PROVE  /\ Cardinality(Own(e)') <= Workers[e]
                        /\ \A q, r \in Own(e)' : SlotOf(q) = SlotOf(r) => q = r
      BY DEF LoadBounded
    <2>1. CASE e # d
      <3>1. Own(e)' = Own(e) BY <1>1, <1>3, <2>1 DEF Own
      <3> QED BY <3>1 DEF Inv, LoadBounded
    <2>2. CASE e = d
      <3>1. Own(d)' \in SUBSET Runs BY <1>1, <1>3 DEF Inv, TypeOK, Own
      <3>2. \A r \in Own(d)' : DriverOf(r) = d /\ SlotOf(r) \in Slots
        BY <3>1, RunParts DEF Own
      <3>3. \A r \in Own(d)' : at'[d][SlotOf(r)] = "waiting" /\ r = Child(d, SlotOf(r))'
        BY <1>10, <3>2 DEF Waiting, Own
      <3>4. \A q, r \in Own(d)' : SlotOf(q) = SlotOf(r) => q = r BY <3>3
      <3>5. \A r \in Own(d)' : SlotOf(r) \in Busy(d)' BY <3>2, <3>3 DEF Busy
      <3>6. Busy(d)' \in SUBSET Slots BY DEF Busy
      <3>7. Cardinality(Own(d)') <= Cardinality(Busy(d)') /\ Cardinality(Own(d)') \in Nat
        BY <3>1, <3>4, <3>5, <3>6, OnePerSlot
      <3>8. Cardinality(Busy(d)') <= Workers[d] BY <1>14 DEF Pool
      <3>9. Cardinality(Busy(d)') \in Nat /\ Workers[d] \in Nat BY <3>6, BusyIsFinite, Numbers
      <3> QED BY <2>2, <3>4, <3>7, <3>8, <3>9
    <2> QED BY <2>1, <2>2
  <1> QED BY <1>5, <1>6, <1>8, <1>10, <1>11, <1>12, <1>14, <1>15 DEF Inv

-----------------------------------------------------------------------------
(* A driver opens, finishes, or dies *)

LEMMA BeginKeeps ==
    ASSUME Inv, NEW d \in Drivers, Begin(d)
    PROVE  Inv'
  <1> USE DEF Begin, memory
  <1>1. TypeOK' BY DEF Inv, TypeOK, disk
  <1>2. LinksAreOwn' /\ \A i \in Slots : Backed(i)' <=> Backed(i) BY DiskStays
  <1>3. Acceptances' BY <1>2 DEF Inv, Acceptances, disk
  <1>4. \A e \in Drivers : phase'[e] = phase[e] \/ (phase[e] = "new" /\ phase'[e] = "assess")
    BY DEF Inv, TypeOK
  <1>5. Waiting'
    <2> SUFFICES ASSUME NEW r \in live, phase'[DriverOf(r)] = "run"
                 PROVE  /\ at[DriverOf(r)][SlotOf(r)] = "waiting"
                        /\ r = Child(DriverOf(r), SlotOf(r))'
      BY DEF Waiting
    <2>1. DriverOf(r) \in Drivers BY RunParts DEF Inv, TypeOK
    <2> QED BY <1>4, <2>1 DEF Inv, Waiting, Child
  <1>6. LiveIsStaged' BY DEF Inv, LiveIsStaged, disk
  <1>7. Fresh'
    <2> SUFFICES ASSUME NEW r \in Runs, stage[r] # "absent"
                 PROVE  /\ phase'[DriverOf(r)] \notin {"new", "assess"}
                        /\ phase'[DriverOf(r)] = "run" =>
                              /\ TryOf(r) <= try[DriverOf(r)][SlotOf(r)]
                              /\ at[DriverOf(r)][SlotOf(r)] \in {"todo", "trying", "launching"} =>
                                    TryOf(r) < try[DriverOf(r)][SlotOf(r)]
      BY DEF Fresh, disk
    <2>1. DriverOf(r) \in Drivers BY RunParts
    <2> QED BY <1>4, <2>1 DEF Inv, Fresh
  <1>8. \A e \in Drivers : Busy(e)' = Busy(e) BY DEF Busy
  <1>9. Idle' /\ Pool' BY <1>4, <1>8 DEF Inv, Idle, Pool
  <1>10. LoadBounded' BY LoadStays
  <1> QED BY <1>1, <1>2, <1>3, <1>5, <1>6, <1>7, <1>9, <1>10 DEF Inv

(* The pool opens empty, and no child is there. *)
LEMMA EnterKeeps ==
    ASSUME Inv, NEW d \in Drivers, Enter(d)
    PROVE  Inv'
  <1> USE DEF Enter
  <1>1. /\ at' \in [Drivers -> [Slots -> Where]]
        /\ \A i \in Slots : at'[d][i] = IF at[d][i] = "reusable" THEN "reused" ELSE at[d][i]
        /\ \A e \in Drivers : e # d => at'[e] = at[e]
    BY DEF Inv, TypeOK, Where
  <1>2. Cardinality(Assessed(d, "reusable")) \in Nat BY BusyIsFinite DEF Assessed
  <1>3. counts' \in [Drivers -> Counters]
    <2> DEFINE n == Cardinality(Assessed(d, "reusable"))
    <2> HIDE DEF n
    <2>1. counts \in [Drivers -> Counters] /\ n \in Nat BY <1>2 DEF Inv, TypeOK, Counters, n
    <2>2. [counts[d] EXCEPT !.reused = n, !.completed = n] \in Counters BY <2>1 DEF Counters
    <2>3. counts' = [counts EXCEPT ![d] = [counts[d] EXCEPT !.reused = n, !.completed = n]]
      BY <2>1 DEF n, Counters
    <2> QED BY <2>1, <2>2, <2>3
  <1>4. /\ phase' \in [Drivers -> {"new", "assess", "run"} \union Over] /\ phase'[d] = "run"
        /\ \A e \in Drivers : e # d => phase'[e] = phase[e]
    BY DEF Inv, TypeOK
  <1>5. TypeOK' BY <1>1, <1>3, <1>4 DEF Inv, TypeOK, disk, Where, Counters
  <1>6. LinksAreOwn' /\ \A i \in Slots : Backed(i)' <=> Backed(i) BY DiskStays
  <1>7. Acceptances' BY <1>1, <1>6 DEF Inv, Acceptances, disk
  <1>8. \A r \in live : DriverOf(r) \in Drivers /\ DriverOf(r) # d
    <2> SUFFICES ASSUME NEW r \in live PROVE DriverOf(r) \in Drivers /\ DriverOf(r) # d OBVIOUS
    <2>1. r \in Runs /\ stage[r] # "absent" BY DEF Inv, TypeOK, LiveIsStaged
    <2> QED BY <2>1, RunParts DEF Inv, Fresh
  <1>9. Waiting' BY <1>1, <1>4, <1>8 DEF Inv, Waiting, Child
  <1>10. LiveIsStaged' BY DEF Inv, LiveIsStaged, disk
  <1>11. Fresh'
    <2> SUFFICES ASSUME NEW r \in Runs, stage[r] # "absent"
                 PROVE  /\ phase'[DriverOf(r)] \notin {"new", "assess"}
                        /\ phase'[DriverOf(r)] = "run" =>
                              /\ TryOf(r) <= try[DriverOf(r)][SlotOf(r)]
                              /\ at'[DriverOf(r)][SlotOf(r)] \in {"todo", "trying", "launching"} =>
                                    TryOf(r) < try[DriverOf(r)][SlotOf(r)]
      BY DEF Fresh, disk
    <2>1. DriverOf(r) \in Drivers /\ SlotOf(r) \in Slots /\ DriverOf(r) # d
      BY RunParts DEF Inv, Fresh
    <2> QED BY <1>1, <1>4, <2>1 DEF Inv, Fresh
  <1>12. /\ Busy(d)' = {} /\ Busy(d) = {}
         /\ \A e \in Drivers : e # d => Busy(e)' = Busy(e)
    <2>1. Busy(d) = {} BY DEF Inv, Idle
    <2>2. Busy(d)' = Busy(d) BY <1>1 DEF Busy
    <2> QED BY <1>1, <2>1, <2>2 DEF Busy
  <1>13. Idle' BY <1>4, <1>12 DEF Inv, Idle
  <1>14. Pool'
    <2>1. Cardinality({}) = 0 BY FS_EmptySet
    <2>2. Workers[d] \in Nat /\ 0 <= Workers[d] BY Numbers
    <2>3. Cardinality(Busy(d)') <= Workers[d] BY <1>12, <2>1, <2>2
    <2> QED BY <1>4, <1>12, <2>3 DEF Inv, Pool
  <1>15. LoadBounded' BY LoadStays
  <1> QED BY <1>5, <1>6, <1>7, <1>9, <1>10, <1>11, <1>13, <1>14, <1>15 DEF Inv

(* A driver that is over takes its threads with it, and launches nothing.   *)
LEMMA OverKeeps ==
    ASSUME Inv, NEW d \in Drivers, phase[d] \notin {"new"},
           UNCHANGED disk, live' \subseteq live, counts' \in [Drivers -> Counters],
           raised' \subseteq Drivers,
           phase' \in [Drivers -> {"new", "assess", "run"} \union Over], phase'[d] \in Over,
           at' \in [Drivers -> [Slots -> Where]], try' \in [Drivers -> [Slots -> 1..MaxRetries]],
           \A s \in Slots : at'[d][s] = at[d][s] \/ at'[d][s] = "unassessed",
           \A e \in Drivers : e # d =>
               phase'[e] = phase[e] /\ at'[e] = at[e] /\ try'[e] = try[e]
    PROVE  Inv'
  <1>1. TypeOK' BY DEF Inv, TypeOK, disk, Where, Counters
  <1>2. LinksAreOwn' /\ \A i \in Slots : Backed(i)' <=> Backed(i) BY DiskStays
  <1>3. Acceptances'
    <2> SUFFICES ASSUME NEW e \in Drivers, NEW s \in Slots, old[s] = "none",
                        at'[e][s] \in {"reusable", "ok", "reused", "completed"}
                 PROVE  Backed(s)'
      BY DEF Acceptances, disk
    <2>1. at'[e][s] = at[e][s] OBVIOUS
    <2> QED BY <1>2, <2>1 DEF Inv, Acceptances
  <1>4. Waiting'
    <2> SUFFICES ASSUME NEW r \in live', phase'[DriverOf(r)] = "run"
                 PROVE  /\ at'[DriverOf(r)][SlotOf(r)] = "waiting"
                        /\ r = Child(DriverOf(r), SlotOf(r))'
      BY DEF Waiting
    <2>1. DriverOf(r) \in Drivers /\ DriverOf(r) # d BY RunParts DEF Inv, TypeOK, Over
    <2> QED BY <2>1 DEF Inv, Waiting, Child
  <1>5. LiveIsStaged' BY DEF Inv, LiveIsStaged, disk
  <1>6. Fresh'
    <2> SUFFICES ASSUME NEW r \in Runs, stage[r] # "absent"
                 PROVE  /\ phase'[DriverOf(r)] \notin {"new", "assess"}
                        /\ phase'[DriverOf(r)] = "run" =>
                              /\ TryOf(r) <= try'[DriverOf(r)][SlotOf(r)]
                              /\ at'[DriverOf(r)][SlotOf(r)] \in {"todo", "trying", "launching"} =>
                                    TryOf(r) < try'[DriverOf(r)][SlotOf(r)]
      BY DEF Fresh, disk
    <2>1. DriverOf(r) \in Drivers BY RunParts
    <2>2. CASE DriverOf(r) = d BY <2>2 DEF Over
    <2>3. CASE DriverOf(r) # d BY <2>1, <2>3 DEF Inv, Fresh
    <2> QED BY <2>2, <2>3
  <1>7. Idle' BY DEF Inv, Idle, Busy, Over
  <1>8. Pool'
    <2> SUFFICES ASSUME NEW e \in Drivers, phase'[e] = "run"
                 PROVE  Cardinality(Busy(e)') <= Workers[e]
      BY DEF Pool
    <2>1. e # d BY DEF Over
    <2>2. Busy(e)' = Busy(e) BY <2>1 DEF Busy
    <2> QED BY <2>1, <2>2 DEF Inv, Pool
  <1>9. LoadBounded' BY LoadStays
  <1> QED BY <1>1, <1>2, <1>3, <1>4, <1>5, <1>6, <1>7, <1>8, <1>9 DEF Inv

LEMMA Forgotten ==
    ASSUME Inv, NEW d \in Drivers, Forget(d)
    PROVE  /\ at' \in [Drivers -> [Slots -> Where]] /\ try' \in [Drivers -> [Slots -> 1..MaxRetries]]
           /\ \A s \in Slots : at'[d][s] = "unassessed"
           /\ \A e \in Drivers : e # d => at'[e] = at[e] /\ try'[e] = try[e]
           /\ raised' \subseteq Drivers
  BY Numbers DEF Inv, TypeOK, Forget, Where

LEMMA FinishKeeps ==
    ASSUME Inv, NEW d \in Drivers, Finish(d)
    PROVE  Inv'
  <1>1. /\ phase' \in [Drivers -> {"new", "assess", "run"} \union Over] /\ phase'[d] \in Over
        /\ \A e \in Drivers : e # d => phase'[e] = phase[e]
    BY DEF Inv, TypeOK, Finish, Over
  <1> QED BY <1>1, OverKeeps DEF Inv, TypeOK, Finish, memory, Where, Counters

LEMMA KillKeeps ==
    ASSUME Inv, NEW d \in Drivers, Kill(d)
    PROVE  Inv'
  <1>1. /\ phase' \in [Drivers -> {"new", "assess", "run"} \union Over] /\ phase'[d] \in Over
        /\ \A e \in Drivers : e # d => phase'[e] = phase[e]
    BY DEF Inv, TypeOK, Kill, Over
  <1>2. counts' \in [Drivers -> Counters] BY DEF Inv, TypeOK, Kill, Counters
  <1> QED BY SMTT(30), <1>1, <1>2, Forgotten, OverKeeps DEF Kill

LEMMA InterruptKeeps ==
    ASSUME Inv, NEW d \in Drivers, Interrupt(d)
    PROVE  Inv'
  <1>1. counts' \in [Drivers -> Counters] BY DEF Inv, TypeOK, Interrupt, Counters
  <1>2. CASE phase[d] = "run" /\ Workers[d] > 1 /\ ~PoolDone(d)
    <2>1. UNCHANGED <<disk, live, phase, at, try, counts>> /\ raised' \subseteq Drivers
      BY <1>2 DEF Interrupt, Inv, TypeOK
    <2>2. TypeOK' BY <2>1 DEF Inv, TypeOK, disk
    <2>3. LinksAreOwn' /\ \A i \in Slots : Backed(i)' <=> Backed(i) BY <2>1, DiskStays
    <2>4. Acceptances' BY <2>1, <2>3 DEF Inv, Acceptances, disk
    <2>5. Waiting' /\ Fresh' /\ LiveIsStaged'
      BY <2>1 DEF Inv, Waiting, Fresh, LiveIsStaged, Child, disk
    <2>6. Idle' /\ Pool' BY <2>1 DEF Inv, Idle, Pool, Busy
    <2>7. LoadBounded' BY <2>1, LoadStays
    <2> QED BY <2>2, <2>3, <2>4, <2>5, <2>6, <2>7 DEF Inv
  <1>3. CASE ~(phase[d] = "run" /\ Workers[d] > 1 /\ ~PoolDone(d))
    <2>1. /\ live' \subseteq live /\ Forget(d) /\ UNCHANGED disk /\ phase[d] # "new"
          /\ phase' = [phase EXCEPT ![d] = "failed"]
      BY <1>3 DEF Interrupt
    <2>2. /\ phase' \in [Drivers -> {"new", "assess", "run"} \union Over] /\ phase'[d] \in Over
          /\ \A e \in Drivers : e # d => phase'[e] = phase[e]
      BY <2>1 DEF Inv, TypeOK, Over
    <2> QED BY <1>1, <2>1, <2>2, Forgotten, OverKeeps
  <1> QED BY <1>2, <1>3

-----------------------------------------------------------------------------
(* The children *)

(* A child that works on its own run only makes more slots backed. *)
LEMMA ChildWorks ==
    ASSUME Inv, NEW r \in live, NEW to \in {"finished", "linked", "declared"},
           stage' = [stage EXCEPT ![r] = to],
           UNCHANGED <<old, live, phase, memory, counts>>,
           link' \in [Slots -> SUBSET Runs], health' \in [Runs -> {"good", "bad"}],
           LinksAreOwn',
           \A q \in Runs : q # r => health'[q] = health[q],
           stage[r] = "running" \/ (health' = health /\ to # "finished")
    PROVE  Inv'
  <1>1. r \in Runs /\ stage[r] # "absent" BY DEF Inv, TypeOK, LiveIsStaged
  <1>2. TypeOK' BY <1>1 DEF Inv, TypeOK, memory
  <1>3. \A s \in Slots : Backed(s) => Backed(s)'
    <2> SUFFICES ASSUME NEW s \in Slots, NEW q \in Runs, SlotOf(q) = s,
                        stage[q] \in {"linked", "declared"}, health[q] = "good"
                 PROVE  Backed(s)'
      BY DEF Backed
    <2>1. stage'[q] \in {"linked", "declared"} /\ health'[q] = "good" BY <1>1 DEF Inv, TypeOK
    <2> QED BY <2>1 DEF Backed
  <1>4. Acceptances' BY <1>3 DEF Inv, Acceptances, memory
  <1>5. \A q \in Runs : stage'[q] # "absent" <=> stage[q] # "absent"
    BY <1>1 DEF Inv, TypeOK
  <1>6. Waiting' BY DEF Inv, Waiting, Child, memory
  <1>7. Fresh' BY <1>5 DEF Inv, Fresh, memory
  <1>8. LiveIsStaged' BY <1>5 DEF Inv, TypeOK, LiveIsStaged
  <1>9. Idle' /\ Pool' BY DEF Inv, Idle, Pool, Busy, memory
  <1>10. LoadBounded' BY LoadStays
  <1> QED BY <1>2, <1>4, <1>6, <1>7, <1>8, <1>9, <1>10 DEF Inv

LEMMA ChildFinishesKeeps ==
    ASSUME Inv, NEW r \in live, ChildFinishes(r)
    PROVE  Inv'
  <1>1. r \in Runs BY DEF Inv, TypeOK
  <1>2. /\ stage' = [stage EXCEPT ![r] = "finished"] /\ stage[r] = "running"
        /\ UNCHANGED <<old, link, live, phase, memory, counts>>
        /\ health' \in [Runs -> {"good", "bad"}]
        /\ \A q \in Runs : q # r => health'[q] = health[q]
    BY DEF Inv, TypeOK, ChildFinishes
  <1>3. LinksAreOwn' BY <1>1, <1>2 DEF Inv, TypeOK, LinksAreOwn
  <1> QED BY <1>1, <1>2, <1>3, ChildWorks DEF Inv, TypeOK

(* The child replaces the link of its own slot by itself. *)
LEMMA ChildLinksKeeps ==
    ASSUME Inv, NEW r \in live, ChildLinks(r)
    PROVE  Inv'
  <1>1. r \in Runs /\ SlotOf(r) \in Slots BY RunParts DEF Inv, TypeOK
  <1>2. /\ stage' = [stage EXCEPT ![r] = "linked"] /\ link' = [link EXCEPT ![SlotOf(r)] = {r}]
        /\ UNCHANGED <<old, health, live, phase, memory, counts>>
    BY DEF ChildLinks
  <1>3. LinksAreOwn'
    <2> SUFFICES ASSUME NEW s \in Slots, NEW q \in link'[s]
                 PROVE  SlotOf(q) = s /\ stage'[q] \in {"linked", "declared"}
      BY DEF LinksAreOwn
    <2>1. CASE s = SlotOf(r) BY <1>1, <1>2, <2>1 DEF Inv, TypeOK
    <2>2. CASE s # SlotOf(r) BY <1>1, <1>2, <2>2 DEF Inv, TypeOK, LinksAreOwn
    <2> QED BY <2>1, <2>2
  <1>4. link' \in [Slots -> SUBSET Runs] BY <1>1, <1>2 DEF Inv, TypeOK
  <1> QED BY <1>1, <1>2, <1>3, <1>4, ChildWorks DEF Inv, TypeOK

LEMMA ChildDeclaresKeeps ==
    ASSUME Inv, NEW r \in live, ChildDeclares(r)
    PROVE  Inv'
  <1>1. r \in Runs BY DEF Inv, TypeOK
  <1>2. /\ stage' = [stage EXCEPT ![r] = "declared"]
        /\ UNCHANGED <<old, link, health, live, phase, memory, counts>>
    BY DEF ChildDeclares
  <1>3. LinksAreOwn' BY <1>1, <1>2 DEF Inv, TypeOK, LinksAreOwn
  <1> QED BY <1>1, <1>2, <1>3, ChildWorks DEF Inv, TypeOK

(* The thread that waits for the child learns that it returned. *)
LEMMA ChildReturnsKeeps ==
    ASSUME Inv, NEW r \in live, ChildReturns(r)
    PROVE  Inv'
  <1> DEFINE d == DriverOf(r)
             s == SlotOf(r)
  <1>1. r \in Runs /\ d \in Drivers /\ s \in Slots BY RunParts DEF Inv, TypeOK
  <1>2. live' = live \ {r} /\ UNCHANGED <<disk, phase, try, raised, counts>>
    BY DEF ChildReturns
  <1>3. LinksAreOwn' /\ \A i \in Slots : Backed(i)' <=> Backed(i) BY <1>2, DiskStays
  <1>4. LiveIsStaged' BY <1>2 DEF Inv, LiveIsStaged, disk
  <1>5. LoadBounded' BY <1>2, LoadStays
  <1>6. CASE phase[d] = "run"
    <2>1. at[d][s] = "waiting" /\ r = Child(d, s) BY <1>6 DEF Inv, Waiting
    <2>2. Move(d, s, "returned") BY <1>6 DEF ChildReturns
    <2>3. "returned" \in Where /\ TypeOK BY DEF Where, Inv
    <2> HIDE DEF d, s
    <2>4. /\ at' \in [Drivers -> [Slots -> Where]] /\ at'[d][s] = "returned"
          /\ \A e \in Drivers, i \in Slots : e # d \/ i # s => at'[e][i] = at[e][i]
      BY <1>1, <2>2, <2>3, Moves
    <2>5. TypeOK' BY <1>2, <2>4 DEF Inv, TypeOK, disk, Where
    <2>6. Acceptances' BY <1>2, <1>3, <2>4 DEF Inv, Acceptances, disk
    <2>7. Waiting'
      <3> SUFFICES ASSUME NEW q \in live', phase[DriverOf(q)] = "run"
                   PROVE  /\ at'[DriverOf(q)][SlotOf(q)] = "waiting"
                          /\ q = Child(DriverOf(q), SlotOf(q))'
        BY <1>2 DEF Waiting
      <3>1. q \in live /\ q # r BY <1>2
      <3>2. DriverOf(q) \in Drivers /\ SlotOf(q) \in Slots BY <3>1, RunParts DEF Inv, TypeOK
      <3>3. at[DriverOf(q)][SlotOf(q)] = "waiting" /\ q = Child(DriverOf(q), SlotOf(q))
        BY <3>1 DEF Inv, Waiting
      <3>4. DriverOf(q) # d \/ SlotOf(q) # s BY <2>1, <3>1, <3>3
      <3> QED BY <1>2, <2>4, <3>2, <3>3, <3>4 DEF Child
    <2>8. Fresh'
      <3> SUFFICES ASSUME NEW q \in Runs, stage[q] # "absent", phase[DriverOf(q)] = "run"
                   PROVE  /\ TryOf(q) <= try[DriverOf(q)][SlotOf(q)]
                          /\ at'[DriverOf(q)][SlotOf(q)] \in {"todo", "trying", "launching"} =>
                                TryOf(q) < try[DriverOf(q)][SlotOf(q)]
        BY <1>2 DEF Inv, Fresh, disk
      <3>1. DriverOf(q) \in Drivers /\ SlotOf(q) \in Slots BY RunParts
      <3> QED BY <2>4, <3>1 DEF Inv, Fresh
    <2>9. \A e \in Drivers : Busy(e)' = Busy(e)
      <3>1. Busy(d)' = Busy(d) BY <1>1, <2>1, <2>4 DEF Busy
      <3>2. \A e \in Drivers : e # d => Busy(e)' = Busy(e) BY <2>4 DEF Busy
      <3> QED BY <3>1, <3>2
    <2>10. Idle' /\ Pool' BY <1>2, <2>9 DEF Inv, Idle, Pool
    <2> QED BY <1>3, <1>4, <1>5, <2>5, <2>6, <2>7, <2>8, <2>10 DEF Inv
  <1>7. CASE phase[d] # "run"
    <2>1. UNCHANGED at BY <1>7 DEF ChildReturns
    <2>2. TypeOK' BY <1>2, <2>1 DEF Inv, TypeOK, disk
    <2>3. Acceptances' BY <1>2, <1>3, <2>1 DEF Inv, Acceptances, disk
    <2>4. Waiting' /\ Fresh' BY <1>2, <2>1 DEF Inv, Waiting, Fresh, Child, disk
    <2>5. Idle' /\ Pool' BY <1>2, <2>1 DEF Inv, Idle, Pool, Busy
    <2> QED BY <1>3, <1>4, <1>5, <2>2, <2>3, <2>4, <2>5 DEF Inv
  <1> QED BY <1>6, <1>7

LEMMA ChildDiesKeeps ==
    ASSUME Inv, NEW r \in live, ChildDies(r)
    PROVE  Inv'
  <1>1. live' = live \ {r} /\ UNCHANGED <<disk, phase, memory, counts>> BY DEF ChildDies
  <1>2. TypeOK' BY <1>1 DEF Inv, TypeOK, disk, memory
  <1>3. LinksAreOwn' /\ \A i \in Slots : Backed(i)' <=> Backed(i) BY <1>1, DiskStays
  <1>4. Acceptances' BY <1>1, <1>3 DEF Inv, Acceptances, disk, memory
  <1>5. Waiting' /\ Fresh' /\ LiveIsStaged'
    BY <1>1 DEF Inv, Waiting, Fresh, LiveIsStaged, Child, disk, memory
  <1>6. Idle' /\ Pool' BY <1>1 DEF Inv, Idle, Pool, Busy, memory
  <1>7. LoadBounded' BY <1>1, LoadStays
  <1> QED BY <1>2, <1>3, <1>4, <1>5, <1>6, <1>7 DEF Inv

-----------------------------------------------------------------------------
(* The invariant, and what follows from it *)

LEMMA InitHolds ==
    ASSUME Init
    PROVE  Inv
  <1> USE DEF Init
  <1>1. TypeOK
    <2>1. old \in [Slots -> {"none", "good", "bad"}] BY DriverAssumption
    <2>2. try \in [Drivers -> [Slots -> 1..MaxRetries]] BY Numbers
    <2>3. counts \in [Drivers -> [started : Nat, executed : Nat, reused : Nat, completed : Nat,
                                   failed : Nat]]
      OBVIOUS
    <2> QED BY <2>1, <2>2, <2>3 DEF TypeOK
  <1>2. LinksAreOwn /\ Acceptances /\ Waiting /\ Fresh /\ LiveIsStaged
    BY RunParts DEF LinksAreOwn, Acceptances, Waiting, Fresh, LiveIsStaged
  <1>3. \A d \in Drivers : Busy(d) = {} /\ Own(d) = {} BY DEF Busy, Own
  <1>4. Cardinality({}) = 0 BY FS_EmptySet
  <1>5. \A d \in Drivers : 0 <= Workers[d] BY Numbers
  <1>6. Idle /\ Pool /\ LoadBounded BY <1>3, <1>4, <1>5 DEF Idle, Pool, LoadBounded
  <1> QED BY <1>1, <1>2, <1>6 DEF Inv

LEMMA StepKeeps ==
    ASSUME Inv, [Next]_vars
    PROVE  Inv'
  <1>1. ASSUME NEW d \in Drivers,
               Begin(d) \/ Enter(d) \/ Finish(d) \/ Interrupt(d) \/ Kill(d)
        PROVE  Inv'
    BY <1>1, BeginKeeps, EnterKeeps, FinishKeeps, InterruptKeeps, KillKeeps
  <1>2. ASSUME NEW d \in Drivers, NEW s \in Slots, SlotStep(d, s)
        PROVE  Inv'
    <2>1. CASE Assess(d, s) BY <2>1, AssessKeeps
    <2>2. CASE Start(d, s) BY <2>2, StartKeeps
    <2>3. CASE EndpointDown(d, s) BY <2>3, RetryKeeps
    <2>4. CASE CountLaunch(d, s) \/ SpawnFails(d, s) BY <2>4, LaunchKeeps
    <2>5. CASE Spawn(d, s) BY <2>5, SpawnKeeps
    <2>6. CASE Collect(d, s) BY <2>6, CollectKeeps
    <2>7. CASE RecordResult(d, s) BY <2>7, RecordKeeps
    <2> QED BY <1>2, <2>1, <2>2, <2>3, <2>4, <2>5, <2>6, <2>7 DEF SlotStep
  <1>3. ASSUME NEW r \in live, ChildStep(r)
        PROVE  Inv'
    <2>1. CASE ChildFinishes(r) BY <2>1, ChildFinishesKeeps
    <2>2. CASE ChildLinks(r) BY <2>2, ChildLinksKeeps
    <2>3. CASE ChildDeclares(r) BY <2>3, ChildDeclaresKeeps
    <2>4. CASE ChildReturns(r) BY <2>4, ChildReturnsKeeps
    <2>5. CASE ChildDies(r) BY <2>5, ChildDiesKeeps
    <2> QED BY <1>3, <2>1, <2>2, <2>3, <2>4, <2>5 DEF ChildStep
  <1>4. CASE UNCHANGED vars
    <2> USE <1>4 DEF vars, disk, memory
    <2>1. TypeOK' /\ LinksAreOwn' /\ Acceptances' /\ Waiting' /\ Fresh' /\ LiveIsStaged'
      BY DEF Inv, TypeOK, LinksAreOwn, Acceptances, Backed, Waiting, Child, Fresh, LiveIsStaged
    <2>2. Idle' /\ Pool' BY DEF Inv, Idle, Pool, Busy
    <2>3. LoadBounded' BY LoadStays
    <2> QED BY <2>1, <2>2, <2>3 DEF Inv
  <1> QED BY <1>1, <1>2, <1>3, <1>4 DEF Next

LEMMA InvHolds == Spec => []Inv
  <1>1. Init => Inv BY InitHolds
  <1>2. Inv /\ [Next]_vars => Inv' BY StepKeeps
  <1> QED BY <1>1, <1>2, PTL DEF Spec

(* Every variable keeps its type; in particular the retry loop of a slot    *)
(* never goes past MAX_RETRIES.                                             *)
THEOREM TypesHold == Spec => []TypeOK
  <1>1. Inv => TypeOK BY DEF Inv
  <1> QED BY <1>1, InvHolds, PTL

(* However many invocations publish over each other, and whatever is killed *)
(* when: a driver that counts a slot, run or reused, has a finished healthy  *)
(* run of that slot behind it, unless an old file holds the flat path.       *)
THEOREM CountsAreBacked == Spec => []CountedIsBacked
  <1>1. Inv => CountedIsBacked BY DEF Inv, Acceptances, Backed, CountedIsBacked
  <1> QED BY <1>1, InvHolds, PTL

(* No driver ever has more children than workers, nor two children of one   *)
(* slot, its orphans after an interrupt or a kill included.                 *)
THEOREM LoadIsBounded == Spec => []LoadBounded
  <1>1. Inv => LoadBounded BY DEF Inv
  <1> QED BY <1>1, InvHolds, PTL

-----------------------------------------------------------------------------
(* The counters of the manifest *)

(* The slots whose thread is at one of some places. *)
Held(where, places) == {s \in Slots : where[s] \in places}

Before == {"unassessed", "reusable", "todo"}
Begun == {"trying", "launching", "waiting", "returned", "ok", "bad", "completed", "failed"}
Accepted == {"reused", "completed"}

Launched(d) == {r \in Runs : DriverOf(r) = d /\ stage[r] # "absent"}

(* The counters of a running driver are the numbers of slots at some        *)
(* places, and a child that is about to be launched is already counted.     *)
Tally(d) ==
    /\ Cardinality(Launched(d)) <= counts[d].executed
    /\ phase[d] \in {"new", "assess"} =>
          /\ counts[d].started = 0
          /\ \A s \in Slots : at[d][s] \in Before
    /\ phase[d] = "run" =>
          /\ \A s \in Slots : at[d][s] \notin {"unassessed", "reusable"}
          /\ counts[d].started = Cardinality(Held(at[d], Begun))
          /\ counts[d].reused = Cardinality(Held(at[d], {"reused"}))
          /\ counts[d].completed = Cardinality(Held(at[d], Accepted))
          /\ Cardinality(Launched(d)) + Cardinality(Held(at[d], {"launching"}))
                <= counts[d].executed
    /\ phase[d] = "finished" =>
          /\ counts[d].completed + counts[d].failed = NumSlots
          /\ counts[d].reused + counts[d].started = NumSlots
          /\ counts[d].completed = Cardinality(Held(at[d], Accepted))

Tallies == \A d \in Drivers : Tally(d)

LEMMA HeldIsFinite ==
    ASSUME NEW where, NEW places
    PROVE  /\ Held(where, places) \in SUBSET Slots
           /\ IsFiniteSet(Held(where, places)) /\ Cardinality(Held(where, places)) \in Nat
  <1>1. Held(where, places) \in SUBSET Slots BY DEF Held
  <1> QED BY <1>1, BusyIsFinite

(* One slot that moves changes each number by at most one. *)
LEMMA HeldMoves ==
    ASSUME NEW f, NEW g, NEW s \in Slots, NEW places, \A i \in Slots : i # s => g[i] = f[i]
    PROVE  Cardinality(Held(g, places)) =
             Cardinality(Held(f, places)) + (IF g[s] \in places THEN 1 ELSE 0)
                                          - (IF f[s] \in places THEN 1 ELSE 0)
  <1> DEFINE a == Held(f, places)
             b == Held(g, places)
  <1>1. IsFiniteSet(a) /\ Cardinality(a) \in Nat /\ IsFiniteSet(b) /\ Cardinality(b) \in Nat
    BY HeldIsFinite
  <1>2. CASE g[s] \in places /\ f[s] \notin places
    <2>1. b = a \union {s} /\ s \notin a BY <1>2 DEF Held
    <2> HIDE DEF a, b
    <2>2. Cardinality(b) = Cardinality(a) + 1 BY <1>1, <2>1, FS_AddElement
    <2> QED BY <1>1, <1>2, <2>2 DEF a, b
  <1>3. CASE g[s] \notin places /\ f[s] \in places
    <2>1. b = a \ {s} /\ s \in a BY <1>3 DEF Held
    <2> HIDE DEF a, b
    <2>2. Cardinality(b) = Cardinality(a) - 1 BY <1>1, <2>1, FS_RemoveElement
    <2> QED BY <1>1, <1>3, <2>2 DEF a, b
  <1>4. CASE g[s] \in places <=> f[s] \in places
    <2>1. b = a BY <1>4 DEF Held
    <2> HIDE DEF a, b
    <2> QED BY <1>1, <1>4, <2>1 DEF a, b
  <1> QED BY <1>2, <1>3, <1>4

LEMMA LaunchedIsFinite ==
    ASSUME NEW d \in Drivers, NEW own \in SUBSET {r \in Runs : DriverOf(r) = d}
    PROVE  IsFiniteSet(own) /\ Cardinality(own) \in Nat
  <1> DEFINE places == Slots \X (1..MaxRetries)
             f == [r \in own |-> <<SlotOf(r), TryOf(r)>>]
  <1>1. IsFiniteSet(Slots) /\ IsFiniteSet(1..MaxRetries)
    BY FS_Interval, Numbers DEF Slots
  <1>2. IsFiniteSet(places) BY <1>1, FS_Product
  <1>3. f \in Injection(own, places)
    BY DEF Injection, IsInjective, Runs, DriverOf, SlotOf, TryOf
  <1> HIDE DEF f, places
  <1>4. IsFiniteSet(own) BY <1>2, <1>3, FS_Injection
  <1> QED BY <1>4, FS_CardinalityType

LEMMA CountsAreNumbers ==
    ASSUME TypeOK, NEW d \in Drivers
    PROVE  /\ counts[d].started \in Nat /\ counts[d].executed \in Nat
           /\ counts[d].reused \in Nat /\ counts[d].completed \in Nat
           /\ counts[d].failed \in Nat
  BY DEF TypeOK

LEMMA LaunchedIs ==
    ASSUME NEW d \in Drivers
    PROVE  IsFiniteSet(Launched(d)) /\ Cardinality(Launched(d)) \in Nat
  BY LaunchedIsFinite DEF Launched

(* What happens to others leaves the tally of a driver alone. *)
LEMMA TallyStays ==
    ASSUME NEW d \in Drivers, Tally(d), phase'[d] = phase[d], at'[d] = at[d],
           counts'[d] = counts[d], Launched(d)' = Launched(d)
    PROVE  Tally(d)'
  BY DEF Tally, Held

(* One thread of a running driver moves on, and is counted. *)
LEMMA TallyMoves ==
    ASSUME TypeOK, NEW d \in Drivers, NEW s \in Slots, Tally(d), phase[d] = "run",
           phase'[d] = "run", \A i \in Slots : i # s => at'[d][i] = at[d][i],
           at[d][s] \notin Accepted, at'[d][s] # "reused",
           counts'[d].started = counts[d].started + (IF at[d][s] \in Begun THEN 0 ELSE 1),
           at'[d][s] \in Begun,
           counts'[d].reused = counts[d].reused,
           counts'[d].completed = counts[d].completed
                                  + (IF at'[d][s] = "completed" THEN 1 ELSE 0),
           counts'[d].executed \in Nat,
           counts'[d].executed - counts[d].executed >=
               Cardinality(Launched(d)') - Cardinality(Launched(d))
               + (IF at'[d][s] = "launching" THEN 1 ELSE 0)
               - (IF at[d][s] = "launching" THEN 1 ELSE 0),
           Cardinality(Launched(d)') \in Nat
    PROVE  Tally(d)'
  <1>1. /\ Cardinality(Held(at'[d], Begun)) =
             Cardinality(Held(at[d], Begun)) + (IF at'[d][s] \in Begun THEN 1 ELSE 0)
                                             - (IF at[d][s] \in Begun THEN 1 ELSE 0)
        /\ Cardinality(Held(at[d], Begun)) \in Nat
    BY HeldMoves, HeldIsFinite
  <1>2. counts'[d].started = Cardinality(Held(at'[d], Begun))
    BY <1>1, CountsAreNumbers DEF Tally
  <1>3. /\ Cardinality(Held(at'[d], {"reused"})) =
             Cardinality(Held(at[d], {"reused"}))
             + (IF at'[d][s] \in {"reused"} THEN 1 ELSE 0)
             - (IF at[d][s] \in {"reused"} THEN 1 ELSE 0)
        /\ Cardinality(Held(at[d], {"reused"})) \in Nat
    BY HeldMoves, HeldIsFinite
  <1>4. counts'[d].reused = Cardinality(Held(at'[d], {"reused"}))
    BY <1>3 DEF Tally, Accepted
  <1>5. /\ Cardinality(Held(at'[d], Accepted)) =
             Cardinality(Held(at[d], Accepted))
             + (IF at'[d][s] \in Accepted THEN 1 ELSE 0)
             - (IF at[d][s] \in Accepted THEN 1 ELSE 0)
        /\ Cardinality(Held(at[d], Accepted)) \in Nat
    BY HeldMoves, HeldIsFinite
  <1>6. at'[d][s] \in Accepted <=> at'[d][s] = "completed"
    BY DEF Accepted
  <1>7. counts'[d].completed = Cardinality(Held(at'[d], Accepted))
    BY <1>5, <1>6 DEF Tally
  <1>8. /\ Cardinality(Held(at'[d], {"launching"})) =
             Cardinality(Held(at[d], {"launching"}))
             + (IF at'[d][s] \in {"launching"} THEN 1 ELSE 0)
             - (IF at[d][s] \in {"launching"} THEN 1 ELSE 0)
        /\ Cardinality(Held(at[d], {"launching"})) \in Nat
        /\ Cardinality(Held(at'[d], {"launching"})) \in Nat
    BY HeldMoves, HeldIsFinite
  <1>9. Cardinality(Launched(d)) \in Nat BY LaunchedIs
  <1>10. Cardinality(Launched(d)') + Cardinality(Held(at'[d], {"launching"}))
            <= counts'[d].executed
    BY <1>8, <1>9, CountsAreNumbers DEF Tally
  <1>11. Cardinality(Launched(d)') <= counts'[d].executed BY <1>8, <1>10
  <1>12. \A i \in Slots : at'[d][i] \notin {"unassessed", "reusable"}
    BY DEF Tally, Begun
  <1> QED BY <1>2, <1>4, <1>7, <1>10, <1>11, <1>12 DEF Tally, Held

LEMMA TalliesHold ==
    ASSUME Tallies, NEW d \in Drivers, Tally(d)',
           \A e \in Drivers : e # d =>
               /\ phase'[e] = phase[e] /\ at'[e] = at[e] /\ counts'[e] = counts[e]
               /\ Launched(e)' = Launched(e)
    PROVE  Tallies'
  <1> SUFFICES ASSUME NEW e \in Drivers, e # d PROVE Tally(e)' BY DEF Tallies
  <1> QED BY TallyStays DEF Tallies

(* A thread that neither starts a child nor moves before its driver runs. *)
LEMMA ThreadTallies ==
    ASSUME Inv, Tallies, NEW d \in Drivers, NEW s \in Slots, OneThread(d, s), phase[d] = "run",
           at[d][s] \notin Accepted, at'[d][s] # "reused", at'[d][s] \in Begun,
           \A e \in Drivers : e # d => counts'[e] = counts[e],
           counts'[d].started = counts[d].started + (IF at[d][s] \in Begun THEN 0 ELSE 1),
           counts'[d].reused = counts[d].reused,
           counts'[d].completed = counts[d].completed
                                  + (IF at'[d][s] = "completed" THEN 1 ELSE 0),
           counts'[d].executed >= counts[d].executed
               + (IF at'[d][s] = "launching" THEN 1 ELSE 0)
               - (IF at[d][s] = "launching" THEN 1 ELSE 0)
    PROVE  Tallies'
  <1> USE DEF OneThread
  <1>1. \A e \in Drivers : Launched(e)' = Launched(e) BY DEF Launched, disk
  <1>2. \A e \in Drivers : e # d => at'[e] = at[e]
    <2> SUFFICES ASSUME NEW e \in Drivers, e # d PROVE at'[e] = at[e] OBVIOUS
    <2>1. at[e] \in [Slots -> Where] /\ at'[e] \in [Slots -> Where] BY DEF Inv, TypeOK, Where
    <2> QED BY <2>1
  <1>3. counts'[d].executed \in Nat BY DEF Counters
  <1>4. Cardinality(Launched(d)) \in Nat /\ Cardinality(Launched(d)') = Cardinality(Launched(d))
    BY <1>1, LaunchedIs
  <1>5. counts[d].executed \in Nat BY CountsAreNumbers DEF Inv
  <1>6. Tally(d)'
    <2>1. TypeOK /\ Tally(d) BY DEF Inv, Tallies
    <2>2. counts'[d].executed - counts[d].executed >=
               Cardinality(Launched(d)') - Cardinality(Launched(d))
               + (IF at'[d][s] = "launching" THEN 1 ELSE 0)
               - (IF at[d][s] = "launching" THEN 1 ELSE 0)
      BY <1>3, <1>4, <1>5
    <2> QED BY <1>3, <1>4, <2>1, <2>2, TallyMoves
  <1> QED BY <1>1, <1>2, <1>6, TalliesHold

LEMMA AgainTallies ==
    ASSUME Inv, Tallies, NEW d \in Drivers, NEW s \in Slots, phase[d] = "run", Again(d, s),
           at[d][s] \in {"trying", "waiting", "returned"},
           UNCHANGED <<disk, live, phase, raised, counts>>
    PROVE  Tallies'
  <1>1. OneThread(d, s) /\ at'[d][s] \in {"trying", "bad"} BY AgainIsOneThread
  <1>2. counts[d].executed \in Nat /\ counts[d].started \in Nat /\ counts[d].completed \in Nat
    BY CountsAreNumbers DEF Inv
  <1>3. at'[d][s] \in Begun /\ at[d][s] \in Begun /\ at[d][s] \notin Accepted
    BY <1>1 DEF Begun, Accepted
  <1> QED BY <1>1, <1>2, <1>3, ThreadTallies

LEMMA CountIs ==
    ASSUME TypeOK, NEW d \in Drivers, NEW c \in {"started", "executed", "completed", "failed"},
           Count(d, c)
    PROVE  /\ \A e \in Drivers : e # d => counts'[e] = counts[e]
           /\ counts'[d].reused = counts[d].reused
           /\ counts'[d].started = counts[d].started + (IF c = "started" THEN 1 ELSE 0)
           /\ counts'[d].executed = counts[d].executed + (IF c = "executed" THEN 1 ELSE 0)
           /\ counts'[d].completed = counts[d].completed + (IF c = "completed" THEN 1 ELSE 0)
  <1>1. counts[d] \in Counters /\ counts \in [Drivers -> Counters] BY DEF TypeOK, Counters
  <1>2. counts'[d] = [counts[d] EXCEPT ![c] = @ + 1] BY <1>1 DEF Count
  <1>3. \A e \in Drivers : e # d => counts'[e] = counts[e] BY <1>1 DEF Count
  <1>4. CASE c = "started" BY <1>1, <1>2, <1>3, <1>4 DEF Counters
  <1>5. CASE c = "executed" BY <1>1, <1>2, <1>3, <1>5 DEF Counters
  <1>6. CASE c = "completed" BY <1>1, <1>2, <1>3, <1>6 DEF Counters
  <1>7. CASE c = "failed" BY <1>1, <1>2, <1>3, <1>7 DEF Counters
  <1> QED BY <1>4, <1>5, <1>6, <1>7

LEMMA StartTallies ==
    ASSUME Inv, Tallies, NEW d \in Drivers, NEW s \in Slots,
           Start(d, s) \/ CountLaunch(d, s) \/ RecordResult(d, s)
    PROVE  Tallies'
  <1>1. TypeOK BY DEF Inv
  <1>2. counts[d].executed \in Nat /\ counts[d].started \in Nat /\ counts[d].completed \in Nat
    BY <1>1, CountsAreNumbers
  <1>3. PICK w \in Where, c \in {"started", "executed", "completed", "failed"} :
          /\ Move(d, s, w) /\ Count(d, c)
          /\ \/ at[d][s] = "todo" /\ w = "trying" /\ c = "started"
             \/ at[d][s] = "trying" /\ w = "launching" /\ c = "executed"
             \/ at[d][s] = "ok" /\ w = "completed" /\ c = "completed"
             \/ at[d][s] = "bad" /\ w = "failed" /\ c = "failed"
    BY DEF Start, CountLaunch, RecordResult, Where
  <1>4. phase[d] = "run" /\ UNCHANGED <<disk, live, phase, raised, try>>
    BY DEF Start, CountLaunch, RecordResult
  <1>5. counts' \in [Drivers -> Counters] BY <1>1, <1>3, Counts
  <1>6. OneThread(d, s) /\ at'[d][s] = w BY <1>3, <1>4, <1>5, MoveIsOneThread
  <1>7. /\ at'[d][s] \in Begun /\ at'[d][s] # "reused" /\ at[d][s] \notin Accepted
        /\ at[d][s] \in Begun <=> c # "started"
        /\ at'[d][s] = "completed" <=> c = "completed"
        /\ at'[d][s] = "launching" <=> c = "executed"
        /\ at[d][s] # "launching"
    BY <1>3, <1>6 DEF Begun, Accepted
  <1>8. /\ \A e \in Drivers : e # d => counts'[e] = counts[e]
        /\ counts'[d].reused = counts[d].reused
        /\ counts'[d].started = counts[d].started + (IF c = "started" THEN 1 ELSE 0)
        /\ counts'[d].executed = counts[d].executed + (IF c = "executed" THEN 1 ELSE 0)
        /\ counts'[d].completed = counts[d].completed + (IF c = "completed" THEN 1 ELSE 0)
    BY <1>1, <1>3, CountIs
  <1> QED BY <1>2, <1>4, <1>6, <1>7, <1>8, ThreadTallies

LEMMA CollectTallies ==
    ASSUME Inv, Tallies, NEW d \in Drivers, NEW s \in Slots,
           EndpointDown(d, s) \/ SpawnFails(d, s) \/ Collect(d, s)
    PROVE  Tallies'
  <1>1. counts' = counts /\ phase[d] = "run" /\ UNCHANGED <<disk, live, phase, raised>>
    BY DEF EndpointDown, SpawnFails, Collect
  <1>2. counts' \in [Drivers -> Counters] BY <1>1 DEF Inv, TypeOK, Counters
  <1>3. counts[d].executed \in Nat /\ counts[d].started \in Nat /\ counts[d].completed \in Nat
    BY CountsAreNumbers DEF Inv
  <1>4. CASE /\ Again(d, s) /\ at[d][s] \in {"trying", "waiting", "returned"}
    BY <1>1, <1>4, AgainTallies
  <1>5. ASSUME NEW w \in {"ok", "bad"}, Move(d, s, w), UNCHANGED try,
               at[d][s] \in {"launching", "returned"}
        PROVE  Tallies'
    <2>1. OneThread(d, s) /\ at'[d][s] = w BY <1>1, <1>2, <1>5, MoveIsOneThread DEF Where
    <2>2. at'[d][s] \in Begun /\ at[d][s] \in Begun /\ at[d][s] \notin Accepted
      BY <1>5, <2>1 DEF Begun, Accepted
    <2> QED BY <1>1, <1>3, <1>5, <2>1, <2>2, ThreadTallies
  <1>6. \/ Again(d, s) /\ at[d][s] \in {"trying", "waiting", "returned"}
        \/ Move(d, s, "ok") /\ UNCHANGED try /\ at[d][s] = "returned"
        \/ Move(d, s, "bad") /\ UNCHANGED try /\ at[d][s] = "launching"
    BY DEF EndpointDown, SpawnFails, Collect, Ended
  <1> QED BY <1>4, <1>5, <1>6

LEMMA AssessTallies ==
    ASSUME Inv, Tallies, NEW d \in Drivers, NEW s \in Slots, Assess(d, s)
    PROVE  Tallies'
  <1>1. phase[d] = "assess" /\ UNCHANGED <<disk, phase, counts>> BY DEF Assess
  <1>2. PICK w \in {"reusable", "todo"} : Move(d, s, w) BY DEF Assess
  <1>3. /\ at'[d][s] = w /\ \A i \in Slots : i # s => at'[d][i] = at[d][i]
        /\ \A e \in Drivers : e # d => at'[e] = at[e]
    BY <1>2 DEF Inv, TypeOK, Move
  <1>4. \A e \in Drivers : Launched(e)' = Launched(e) BY <1>1 DEF Launched, disk
  <1>5. Tally(d)' BY <1>1, <1>3, <1>4 DEF Tallies, Tally, Before
  <1> QED BY <1>1, <1>3, <1>4, <1>5, TalliesHold

(* A child is counted when it is launched, and never again. *)
LEMMA SpawnTallies ==
    ASSUME Inv, Tallies, NEW d \in Drivers, NEW s \in Slots, Spawn(d, s)
    PROVE  Tallies'
  <1> DEFINE c == Child(d, s)
  <1>1. c \in Runs /\ DriverOf(c) = d BY ChildParts DEF Inv
  <1>2. /\ phase[d] = "run" /\ at[d][s] = "launching" /\ Move(d, s, "waiting")
        /\ UNCHANGED <<phase, counts>> /\ stage' = [stage EXCEPT ![c] = "running"]
    BY DEF Spawn
  <1> HIDE DEF c
  <1>3. /\ at'[d][s] = "waiting" /\ \A i \in Slots : i # s => at'[d][i] = at[d][i]
        /\ \A e \in Drivers : e # d => at'[e] = at[e]
    BY <1>2 DEF Inv, TypeOK, Move
  <1>4. \A e \in Drivers : e # d => Launched(e)' = Launched(e)
    BY <1>1, <1>2 DEF Inv, TypeOK, Launched
  <1>5. Launched(d)' = Launched(d) \union {c}
    BY <1>1, <1>2 DEF Inv, TypeOK, Launched
  <1>6. /\ IsFiniteSet(Launched(d)) /\ Cardinality(Launched(d)) \in Nat
    BY LaunchedIs
  <1>7. /\ Cardinality(Launched(d)') <= Cardinality(Launched(d)) + 1
        /\ Cardinality(Launched(d)') \in Nat
    <2> DEFINE known == Launched(d)
    <2>1. IsFiniteSet(known) /\ Cardinality(known) \in Nat BY <1>6
    <2> HIDE DEF known
    <2>2. /\ Cardinality(known \union {c}) =
               IF c \in known THEN Cardinality(known) ELSE Cardinality(known) + 1
      BY <2>1, FS_AddElement
    <2>3. Launched(d)' = known \union {c} BY <1>5 DEF known
    <2>4. /\ Cardinality(Launched(d)') <= Cardinality(known) + 1
          /\ Cardinality(Launched(d)') \in Nat
      BY <2>1, <2>2, <2>3
    <2> QED BY <2>4 DEF known
  <1>8. /\ counts[d].executed \in Nat /\ counts[d].started \in Nat
        /\ counts[d].completed \in Nat /\ counts'[d] = counts[d]
    BY <1>2, CountsAreNumbers DEF Inv
  <1>9. /\ at'[d][s] \in Begun /\ at[d][s] \in Begun /\ at[d][s] \notin Accepted
    BY <1>2, <1>3 DEF Begun, Accepted
  <1>10. counts'[d].executed - counts[d].executed >=
               Cardinality(Launched(d)') - Cardinality(Launched(d))
               + (IF at'[d][s] = "launching" THEN 1 ELSE 0)
               - (IF at[d][s] = "launching" THEN 1 ELSE 0)
    BY <1>2, <1>3, <1>6, <1>7, <1>8
  <1>11. Tally(d)'
    <2>1. TypeOK /\ Tally(d) /\ phase'[d] = "run" BY <1>2 DEF Inv, Tallies
    <2> QED BY <1>2, <1>3, <1>7, <1>8, <1>9, <1>10, <2>1, TallyMoves
  <1> QED BY <1>2, <1>3, <1>4, <1>11, TalliesHold

LEMMA BeginTallies ==
    ASSUME Inv, Tallies, NEW d \in Drivers, Begin(d)
    PROVE  Tallies'
  <1>1. /\ phase[d] = "new" /\ phase'[d] = "assess" /\ UNCHANGED <<disk, at, counts>>
        /\ \A e \in Drivers : e # d => phase'[e] = phase[e]
    BY DEF Begin, Inv, TypeOK, memory
  <1>2. \A e \in Drivers : Launched(e)' = Launched(e) BY <1>1 DEF Launched, disk
  <1>3. Tally(d)' BY <1>1, <1>2 DEF Tallies, Tally
  <1> QED BY <1>1, <1>2, <1>3, TalliesHold

(* The counters begin with what is reused. *)
LEMMA EnterTallies ==
    ASSUME Inv, Tallies, NEW d \in Drivers, Enter(d)
    PROVE  Tallies'
  <1> DEFINE n == Cardinality(Assessed(d, "reusable"))
  <1>1. /\ phase[d] = "assess" /\ phase'[d] = "run" /\ UNCHANGED disk
        /\ Assessed(d, "unassessed") = {}
        /\ \A e \in Drivers : e # d => phase'[e] = phase[e] /\ at'[e] = at[e]
        /\ \A i \in Slots : at'[d][i] = IF at[d][i] = "reusable" THEN "reused" ELSE at[d][i]
    BY DEF Enter, Inv, TypeOK
  <1>2. /\ counts'[d].reused = n /\ counts'[d].completed = n
        /\ counts'[d].started = counts[d].started /\ counts'[d].executed = counts[d].executed
        /\ \A e \in Drivers : e # d => counts'[e] = counts[e]
    <2>1. counts[d] \in Counters /\ counts \in [Drivers -> Counters]
      BY DEF Inv, TypeOK, Counters
    <2>2. counts' = [counts EXCEPT ![d].reused = n, ![d].completed = n] BY DEF Enter
    <2> HIDE DEF n
    <2> QED BY <2>1, <2>2 DEF Counters
  <1>3. \A i \in Slots : at[d][i] \in Before BY <1>1 DEF Tallies, Tally
  <1>4. \A i \in Slots : at'[d][i] \in {"reused", "todo"}
    BY <1>1, <1>3 DEF Before, Assessed
  <1>5. /\ Held(at'[d], {"reused"}) = Assessed(d, "reusable")
        /\ Held(at'[d], Accepted) = Assessed(d, "reusable")
        /\ Held(at'[d], Begun) = {} /\ Held(at'[d], {"launching"}) = {}
    BY <1>1, <1>3, <1>4 DEF Held, Assessed, Accepted, Begun, Before
  <1>6. Cardinality({}) = 0 BY FS_EmptySet
  <1>7. \A e \in Drivers : Launched(e)' = Launched(e) BY <1>1 DEF Launched, disk
  <1>8. Cardinality(Launched(d)) <= counts[d].executed /\ counts[d].started = 0
    BY <1>1 DEF Tallies, Tally
  <1>9. Cardinality(Launched(d)) \in Nat BY LaunchedIs
  <1>10. Tally(d)'
    <2>1. counts'[d].started = Cardinality(Held(at'[d], Begun)) BY <1>2, <1>5, <1>6, <1>8
    <2>2. /\ counts'[d].reused = Cardinality(Held(at'[d], {"reused"}))
          /\ counts'[d].completed = Cardinality(Held(at'[d], Accepted))
      BY <1>2, <1>5
    <2>3. Cardinality(Launched(d)') + Cardinality(Held(at'[d], {"launching"}))
             <= counts'[d].executed
      BY <1>2, <1>5, <1>6, <1>7, <1>8, <1>9
    <2>4. Cardinality(Launched(d)') <= counts'[d].executed BY <1>2, <1>7, <1>8
    <2>5. \A i \in Slots : at'[d][i] \notin {"unassessed", "reusable"} BY <1>4
    <2> QED BY <1>1, <2>1, <2>2, <2>3, <2>4, <2>5 DEF Tally, Held
  <1> QED BY <1>1, <1>2, <1>7, <1>10, TalliesHold

(* Every slot of a finished driver was reused, or begun and decided. *)
LEMMA FinishTallies ==
    ASSUME Inv, Tallies, NEW d \in Drivers, Finish(d)
    PROVE  Tallies'
  <1>1. /\ phase[d] = "run" /\ PoolDone(d) /\ UNCHANGED <<disk, at, counts>>
        /\ \A e \in Drivers : e # d => phase'[e] = phase[e]
        /\ phase'[d] \in {"finished", "failed"}
        /\ phase'[d] = "finished" =>
              /\ d \notin raised /\ counts[d].completed + counts[d].failed = NumSlots
              /\ Assessed(d, "ok") \union Assessed(d, "bad") = {}
    BY DEF Finish, Inv, TypeOK, memory
  <1>2. \A e \in Drivers : Launched(e)' = Launched(e) BY <1>1 DEF Launched, disk
  <1> DEFINE reused == Held(at[d], {"reused"})
             begun == Held(at[d], Begun)
  <1>3. phase'[d] = "finished" => counts[d].reused + counts[d].started = NumSlots
    <2> SUFFICES ASSUME phase'[d] = "finished"
                 PROVE  counts[d].reused + counts[d].started = NumSlots
      OBVIOUS
    <2>1. \A s \in Slots : at[d][s] \in {"reused", "completed", "failed"}
      BY <1>1 DEF PoolDone, Assessed
    <2>2. reused \union begun = Slots /\ reused \intersect begun = {}
      BY <2>1 DEF Held, Begun
    <2>3. /\ IsFiniteSet(reused) /\ Cardinality(reused) \in Nat
          /\ IsFiniteSet(begun) /\ Cardinality(begun) \in Nat
      BY HeldIsFinite
    <2>4. Cardinality(Slots) = NumSlots /\ Cardinality({}) = 0
      BY FS_Interval, FS_EmptySet, Numbers DEF Slots
    <2>5. Cardinality(reused \union begun) =
             Cardinality(reused) + Cardinality(begun) - Cardinality(reused \intersect begun)
      <3> HIDE DEF reused, begun
      <3> QED BY <2>3, FS_Union
    <2>6. counts[d].reused = Cardinality(reused) /\ counts[d].started = Cardinality(begun)
      BY <1>1 DEF Tallies, Tally
    <2> HIDE DEF reused, begun
    <2>7. Cardinality(reused \union begun) = NumSlots BY <2>2, <2>4
    <2>8. Cardinality(reused \intersect begun) = 0 BY <2>2, <2>4
    <2> QED BY <2>3, <2>5, <2>6, <2>7, <2>8
  <1>4. /\ Cardinality(Launched(d)) <= counts[d].executed
        /\ counts[d].completed = Cardinality(Held(at[d], Accepted))
    BY <1>1 DEF Tallies, Tally
  <1>5. Tally(d)' BY <1>1, <1>2, <1>3, <1>4 DEF Tally, Held
  <1> QED BY <1>1, <1>2, <1>5, TalliesHold

LEMMA InterruptTallies ==
    ASSUME Inv, Tallies, NEW d \in Drivers, Interrupt(d) \/ Kill(d)
    PROVE  Tallies'
  <1>1. UNCHANGED <<disk, counts>> BY DEF Interrupt, Kill
  <1>2. \A e \in Drivers : Launched(e)' = Launched(e) BY <1>1 DEF Launched, disk
  <1>3. CASE UNCHANGED <<phase, at>>
    BY <1>1, <1>2, <1>3, TallyStays DEF Tallies
  <1>4. CASE /\ phase'[d] \in {"failed", "killed"}
             /\ \A e \in Drivers : e # d => phase'[e] = phase[e] /\ at'[e] = at[e]
    <2>1. Tally(d)' BY <1>1, <1>2, <1>4 DEF Tallies, Tally
    <2> QED BY <1>1, <1>2, <1>4, <2>1, TalliesHold
  <1> QED BY <1>3, <1>4 DEF Interrupt, Kill, Forget, Inv, TypeOK

(* A child only changes a run that is there, and wakes the thread that waits. *)
LEMMA ChildTallies ==
    ASSUME Inv, Tallies, NEW r \in live, ChildStep(r)
    PROVE  Tallies'
  <1>1. r \in Runs /\ stage[r] # "absent" BY DEF Inv, TypeOK, LiveIsStaged
  <1>2. /\ UNCHANGED <<phase, counts>>
        /\ \/ stage' = stage
           \/ \E to \in {"finished", "linked", "declared"} : stage' = [stage EXCEPT ![r] = to]
    BY DEF ChildStep, ChildFinishes, ChildLinks, ChildDeclares, ChildReturns, ChildDies, disk
  <1>3. \A q \in Runs : stage'[q] # "absent" <=> stage[q] # "absent"
    BY <1>1, <1>2 DEF Inv, TypeOK
  <1>4. \A e \in Drivers : Launched(e)' = Launched(e) BY <1>3 DEF Launched
  <1>5. CASE UNCHANGED at BY <1>2, <1>4, <1>5, TallyStays DEF Tallies
  <1>6. CASE ChildReturns(r) /\ phase[DriverOf(r)] = "run"
    <2> DEFINE d == DriverOf(r)
               s == SlotOf(r)
    <2>1. d \in Drivers /\ s \in Slots BY <1>1, RunParts
    <2>2. at[d][s] = "waiting" BY <1>6 DEF Inv, Waiting
    <2>3. Move(d, s, "returned") /\ phase[d] = "run" /\ UNCHANGED <<disk, phase, raised, try>>
      BY <1>6 DEF ChildReturns
    <2> HIDE DEF d, s
    <2>4. /\ at'[d][s] = "returned" /\ \A i \in Slots : i # s => at'[d][i] = at[d][i]
          /\ \A e \in Drivers : e # d => at'[e] = at[e]
      BY <2>1, <2>3 DEF Inv, TypeOK, Move
    <2>5. /\ counts[d].executed \in Nat /\ counts[d].started \in Nat
          /\ counts[d].completed \in Nat /\ counts'[d] = counts[d]
      BY <1>2, <2>1, CountsAreNumbers DEF Inv
    <2>6. Cardinality(Launched(d)') = Cardinality(Launched(d)) /\ Cardinality(Launched(d)) \in Nat
      BY <1>4, <2>1, LaunchedIs
    <2>7. /\ at'[d][s] \in Begun /\ at[d][s] \in Begun /\ at[d][s] \notin Accepted
      BY <2>2, <2>4 DEF Begun, Accepted
    <2>8. counts'[d].executed - counts[d].executed >=
               Cardinality(Launched(d)') - Cardinality(Launched(d))
               + (IF at'[d][s] = "launching" THEN 1 ELSE 0)
               - (IF at[d][s] = "launching" THEN 1 ELSE 0)
      BY <2>2, <2>4, <2>5, <2>6
    <2>9. Tally(d)'
      <3>1. TypeOK /\ Tally(d) /\ phase'[d] = "run" BY <1>2, <2>1, <2>3 DEF Inv, Tallies
      <3> QED BY <2>1, <2>3, <2>4, <2>5, <2>6, <2>7, <2>8, <3>1, TallyMoves
    <2> QED BY <1>2, <1>4, <2>1, <2>4, <2>9, TalliesHold
  <1>7. UNCHANGED at \/ (ChildReturns(r) /\ phase[DriverOf(r)] = "run")
    BY DEF ChildStep, ChildFinishes, ChildLinks, ChildDeclares, ChildReturns, ChildDies, memory
  <1> QED BY <1>5, <1>6, <1>7

LEMMA InitTallies == Init => Tallies
  <1> SUFFICES ASSUME Init, NEW d \in Drivers PROVE Tally(d) BY DEF Tallies
  <1>1. Launched(d) = {} BY DEF Init, Launched
  <1>2. Cardinality({}) = 0 BY FS_EmptySet
  <1> QED BY <1>1, <1>2 DEF Init, Tally, Before

LEMMA StepTallies ==
    ASSUME Inv, Tallies, [Next]_vars
    PROVE  Tallies'
  <1>1. ASSUME NEW d \in Drivers,
               Begin(d) \/ Enter(d) \/ Finish(d) \/ Interrupt(d) \/ Kill(d)
        PROVE  Tallies'
    BY <1>1, BeginTallies, EnterTallies, FinishTallies, InterruptTallies
  <1>2. ASSUME NEW d \in Drivers, NEW s \in Slots, SlotStep(d, s)
        PROVE  Tallies'
    <2>1. CASE Assess(d, s) BY <2>1, AssessTallies
    <2>2. CASE Start(d, s) \/ CountLaunch(d, s) \/ RecordResult(d, s) BY <2>2, StartTallies
    <2>3. CASE EndpointDown(d, s) \/ SpawnFails(d, s) \/ Collect(d, s)
      BY <2>3, CollectTallies
    <2>4. CASE Spawn(d, s) BY <2>4, SpawnTallies
    <2> QED BY <1>2, <2>1, <2>2, <2>3, <2>4 DEF SlotStep
  <1>3. ASSUME NEW r \in live, ChildStep(r)
        PROVE  Tallies'
    BY <1>3, ChildTallies
  <1>4. CASE UNCHANGED vars
    <2>1. UNCHANGED <<phase, at, counts, stage>> BY <1>4 DEF vars, disk, memory
    <2>2. \A d \in Drivers : Launched(d)' = Launched(d) BY <2>1 DEF Launched
    <2> QED BY <2>1, <2>2, TallyStays DEF Tallies
  <1> QED BY <1>1, <1>2, <1>3, <1>4 DEF Next

LEMMA TalliesAlways == Spec => [](Inv /\ Tallies)
  <1>1. Init => Inv /\ Tallies BY InitHolds, InitTallies
  <1>2. (Inv /\ Tallies) /\ [Next]_vars => (Inv /\ Tallies)' BY StepKeeps, StepTallies
  <1> QED BY <1>1, <1>2, PTL DEF Spec

LEMMA AcceptedIs ==
    \A d \in Drivers :
        Held(at[d], Accepted) = Assessed(d, "reused") \union Assessed(d, "completed")
  BY DEF Held, Accepted, Assessed

(* The summary of a finished driver accounts for every slot once, however   *)
(* its children ended and whoever else published meanwhile.                 *)
THEOREM FinishedAccountsClose == Spec => []AccountsClose
  <1>1. Tallies => AccountsClose BY AcceptedIs DEF Tallies, Tally, AccountsClose
  <1> QED BY <1>1, TalliesAlways, PTL

(* No manifest claims more than was done, also after a kill: every child    *)
(* was counted before it was launched, and what is completed was accepted.  *)
THEOREM DriversNeverOverstate == Spec => []NeverOverstated
  <1>1. Inv /\ Tallies => NeverOverstated
    <2> SUFFICES ASSUME Inv, Tallies, NEW d \in Drivers
                 PROVE  /\ counts[d].executed >= Cardinality(Launched(d))
                        /\ phase[d] = "run" => counts[d].completed <=
                              Cardinality(Assessed(d, "reused") \union Assessed(d, "completed"))
      BY DEF NeverOverstated, Launched
    <2>1. counts[d].executed \in Nat /\ counts[d].completed \in Nat
      BY CountsAreNumbers DEF Inv
    <2>2. Cardinality(Launched(d)) \in Nat BY LaunchedIs
    <2>3. phase[d] = "run" => counts[d].completed = Cardinality(Held(at[d], Accepted))
      BY DEF Tallies, Tally
    <2>4. Cardinality(Launched(d)) <= counts[d].executed BY DEF Tallies, Tally
    <2> QED BY <2>1, <2>2, <2>3, <2>4, AcceptedIs
  <1> QED BY <1>1, TalliesAlways, PTL

=============================================================================
