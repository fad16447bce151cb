---------------------------- MODULE TrackBatchesProofs ----------------------------
(***************************************************************************)
(* Proofs about TrackBatches and SongLists, for any number of songs and    *)
(* any sizes of batches, turns and pages: the counters of the WaitGroup    *)
(* and of the semaphore count the goroutines they are there for, and an    *)
(* answer is the list asked for. What recursive definitions compute (the   *)
(* pieces put together, what is left of a list) is proved by induction     *)
(* over the length, with the lemmas of Inductions.                         *)
(***************************************************************************)
EXTENDS SongLists, Inductions

---------------------------------------------------------------------------
(* How many batches there are.                                             *)

LEMMA DivBounds ==
  ASSUME NEW a \in Nat, NEW d \in Nat \ {0}
  PROVE  /\ a \div d \in Nat
         /\ d * (a \div d) <= a /\ a < d * (a \div d) + d
  BY SMTT(30)

LEMMA DivMonotone ==
  ASSUME NEW a \in Nat, NEW b \in Nat, a <= b, NEW d \in Nat \ {0}
  PROVE  a \div d <= b \div d
<1> DEFINE p == a \div d
           q == b \div d
<1>1. p \in Nat /\ q \in Nat /\ d * p <= a /\ b < d * q + d
  BY DivBounds
<1> HIDE DEF p, q
<1>2. d * p < d * (q + 1)
  BY <1>1, SMT
<1>3. p < q + 1
  BY <1>1, <1>2, SMT
<1> QED BY <1>1, <1>3 DEF p, q

LEMMA BatchesBounded ==
  \A n \in 0..MaxIds :
    NumBatches(n) \in Nat /\ NumBatches(n) <= NumBatches(MaxIds) /\ NumBatches(MaxIds) \in Nat
<1> SUFFICES ASSUME NEW n \in 0..MaxIds
             PROVE NumBatches(n) \in Nat /\ NumBatches(n) <= NumBatches(MaxIds)
                   /\ NumBatches(MaxIds) \in Nat
  OBVIOUS
<1>1. n + BatchSize - 1 \in Nat /\ MaxIds + BatchSize - 1 \in Nat
      /\ n + BatchSize - 1 <= MaxIds + BatchSize - 1
  BY SizesAssumption
<1>2. BatchSize \in Nat \ {0}
  BY SizesAssumption
<1> QED BY <1>1, <1>2, DivBounds, DivMonotone DEF NumBatches

LEMMA SomeBatch ==
  ASSUME NEW n \in 1..MaxIds PROVE NumBatches(n) \in Nat \ {0}
<1>1. BatchSize \in Nat \ {0} /\ n + BatchSize - 1 \in Nat /\ BatchSize <= n + BatchSize - 1
  BY SizesAssumption
<1> DEFINE q == (n + BatchSize - 1) \div BatchSize
<1>2. q \in Nat /\ n + BatchSize - 1 < BatchSize * q + BatchSize
  BY <1>1, DivBounds
<1> HIDE DEF q
<1>3. q # 0
  BY <1>1, <1>2, SMT
<1> QED BY <1>2, <1>3 DEF q, NumBatches

---------------------------------------------------------------------------
(* The counters.                                                           *)

\* The goroutines that have left sem, with or without an error sent.
Through == {b \in Batches : pc[b] \in {"leave", "done", "over"}}

Counted ==
  /\ working = Cardinality(Working)
  /\ running = Cardinality(Holding)
  /\ errs <= Cardinality(Through)

\* Who has been started, and when the channel is closed.
Started ==
  /\ \A b \in Batches : b > launched => pc[b] = "unborn"
  /\ at \in {"idle", "cookie", "single", "collect"} => working = 0
  /\ at = "launch" => launched < NumBatches(ids)
  /\ closed => at \in {"idle", "collect"}

Kinds ==
  /\ at \in CallerStages /\ ids \in 0..MaxIds
  /\ launched \in 0..NumBatches(ids)
  /\ working \in Nat /\ running \in Nat /\ errs \in Nat
  /\ closed \in BOOLEAN /\ refused \in BOOLEAN
  /\ chunks \in [Batches -> SUBSET (1..MaxIds)]
  /\ pc \in [Batches -> Stages]
  /\ at \in {"cookie", "single"} => ids \in 1..MaxIds /\ launched = 0

IInv == Kinds /\ Started /\ Counted /\ running <= Permits

LEMMA SetsFinite ==
  /\ IsFiniteSet(Working) /\ Cardinality(Working) \in Nat
  /\ IsFiniteSet(Holding) /\ Cardinality(Holding) \in Nat
  /\ IsFiniteSet(Through) /\ Cardinality(Through) \in Nat
<1>1. NumBatches(MaxIds) \in Nat
  BY BatchesBounded, SizesAssumption
<1>2. IsFiniteSet(Batches)
  BY <1>1, FS_Interval DEF Batches
<1> QED BY <1>2, FS_Subset, FS_CardinalityType DEF Working, Holding, Through

\* Nobody is at work: nobody holds a permit.
LEMMA QuietWhenNone ==
  ASSUME Counted, working = 0 PROVE Working = {} /\ Holding = {} /\ running = 0
<1>1. Working = {}
  BY SetsFinite, FS_EmptySet DEF Counted
<1>2. Holding = {}
  BY <1>1 DEF Working, Holding
<1> QED BY <1>1, <1>2, FS_EmptySet DEF Counted

LEMMA CountedInit == Init => IInv
<1> SUFFICES ASSUME Init PROVE IInv
  OBVIOUS
<1>1. Working = {} /\ Holding = {} /\ Through = {}
  BY DEF Init, Working, Holding, Through
<1>2. Counted
  BY <1>1, FS_EmptySet DEF Init, Counted
<1>3. 0 \in 0..MaxIds /\ NumBatches(0) \in Nat
  BY SizesAssumption, BatchesBounded
<1>4. Kinds
  <2>1. chunks \in [Batches -> SUBSET (1..MaxIds)] /\ pc \in [Batches -> Stages]
    BY DEF Init, Stages
  <2>2. launched \in 0..NumBatches(ids) /\ ids \in 0..MaxIds
    BY <1>3 DEF Init
  <2> QED BY <2>1, <2>2 DEF Init, Kinds, CallerStages
<1> QED BY <1>2, <1>4, SizesAssumption DEF IInv, Init, Started

\* A step that leaves every goroutine where it is.
LEMMA CallerStep == IInv /\ (LoadCookie \/ Single \/ CallFails \/ Close \/ Collect) => IInv'
<1> SUFFICES ASSUME IInv, LoadCookie \/ Single \/ CallFails \/ Close \/ Collect PROVE IInv'
  OBVIOUS
<1> USE DEF LoadCookie, Single, CallFails, Close, CloseAfter, Collect, Finish
<1>1. UNCHANGED <<pc, working, running, errs, launched, ids>>
  OBVIOUS
<1>2. Working' = Working /\ Holding' = Holding /\ Through' = Through
  BY <1>1 DEF Working, Holding, Through
<1>3. Counted' /\ running' <= Permits
  BY <1>1, <1>2 DEF Counted, IInv
<1>4. Kinds'
  <2>1. chunks' \in [Batches -> SUBSET (1..MaxIds)]
    <3>1. CASE Single
      <4>1. Batch(ids, 1) \subseteq 1..MaxIds
        BY SizesAssumption DEF Batch, IInv, Kinds
      <4> QED BY <3>1, <4>1 DEF IInv, Kinds
    <3> QED BY <3>1 DEF IInv, Kinds
  <2>2. at' \in {"idle", "single", "launch", "collect"}
    OBVIOUS
  <2>3. at' = "single" => at = "cookie"
    OBVIOUS
  <2>4. closed' \in BOOLEAN /\ refused' \in BOOLEAN
    BY DEF IInv, Kinds
  <2> QED BY <1>1, <2>1, <2>2, <2>3, <2>4 DEF IInv, Kinds, CallerStages
<1>5. Started'
  <2>1. CASE LoadCookie
    <3>1. ids \in 1..MaxIds /\ launched = 0 /\ working = 0
      BY <2>1 DEF IInv, Kinds, Started
    <3> QED BY <2>1, <3>1, SomeBatch DEF IInv, Started
  <2>2. CASE ~LoadCookie
    BY <2>2 DEF IInv, Started, Kinds
  <2> QED BY <2>1, <2>2
<1> QED BY <1>3, <1>4, <1>5 DEF IInv

LEMMA CallStep == ASSUME IInv, NEW n \in 0..MaxIds, Call(n) PROVE IInv'
<1> USE DEF Call, Finish
<1>1. working = 0
  BY DEF IInv, Started
<1>2. running = 0
  BY <1>1, QuietWhenNone DEF IInv
<1>3. Working' = {} /\ Holding' = {} /\ Through' = {}
  BY DEF Working, Holding, Through
<1>4. Counted'
  BY <1>1, <1>2, <1>3, FS_EmptySet DEF Counted
<1>5. NumBatches(n) \in Nat
  BY BatchesBounded
<1>6. at' \in {"idle", "cookie"} /\ (at' = "cookie" => n # 0)
  OBVIOUS
<1>7. Kinds'
  <2>1. chunks' \in [Batches -> SUBSET (1..MaxIds)] /\ pc' \in [Batches -> Stages]
    BY DEF Stages
  <2>2. launched' \in 0..NumBatches(ids') /\ ids' \in 0..MaxIds
    BY <1>5
  <2>3. ids' \in 1..MaxIds \/ at' = "idle"
    BY <1>6, SizesAssumption
  <2> QED BY <1>1, <1>2, <1>6, <2>1, <2>2, <2>3 DEF Kinds, CallerStages
<1>8. Started'
  BY <1>1, <1>6 DEF Started
<1> QED BY <1>2, <1>4, <1>7, <1>8, SizesAssumption DEF IInv

LEMMA LaunchStep == IInv /\ Launch => IInv'
<1> SUFFICES ASSUME IInv, Launch PROVE IInv'
  OBVIOUS
<1> DEFINE b == launched + 1
<1>1. b \in Batches /\ b <= NumBatches(ids) /\ launched \in Nat /\ NumBatches(ids) \in Nat
  BY BatchesBounded DEF IInv, Kinds, Started, Launch, Batches
<1>2. pc[b] = "unborn" /\ pc' = [pc EXCEPT ![b] = "acquire"]
  BY <1>1 DEF IInv, Started, Launch
<1> HIDE DEF b
<1>3. Working' = Working \cup {b} /\ b \notin Working
  BY <1>1, <1>2 DEF Working, IInv, Kinds
<1>4. Holding' = Holding /\ Through' = Through
  BY <1>1, <1>2 DEF Holding, Through, IInv, Kinds
<1>5. Cardinality(Working') = Cardinality(Working) + 1
  BY <1>3, SetsFinite, FS_AddElement
<1>6. Counted' /\ running' <= Permits
  BY <1>4, <1>5 DEF Counted, IInv, Launch
<1>7. Kinds'
  BY <1>1, <1>2 DEF Kinds, IInv, Launch, CallerStages, Stages, b
<1>8. Started'
  <2>1. \A c \in Batches : c > launched' => c # b /\ c > launched /\ c \in Nat
    BY <1>1, BatchesBounded, SizesAssumption DEF Launch, b, Batches
  <2>2. \A c \in Batches : c > launched' => pc'[c] = "unborn"
    BY <1>2, <2>1 DEF IInv, Started, Kinds
  <2>3. at' \in {"launch", "wait"} /\ (at' = "launch" => launched' # NumBatches(ids)) /\ ~closed'
    BY DEF Launch, IInv, Started, Kinds
  <2> QED BY <1>1, <2>2, <2>3 DEF Started, Launch, b
<1> QED BY <1>6, <1>7, <1>8 DEF IInv

\* What a goroutine's step has to keep; the counters are left to its lemma.
LEMMA GoroutineStep ==
  ASSUME IInv, NEW b \in Batches, NEW l \in Stages \ {"unborn"},
         pc[b] # "unborn", pc' = [pc EXCEPT ![b] = l],
         UNCHANGED <<at, ids, launched, closed>>,
         working' \in Nat, running' \in Nat, errs' \in Nat, refused' \in BOOLEAN,
         chunks' \in [Batches -> SUBSET (1..MaxIds)],
         working = 0 => working' = 0, running' <= Permits, Counted'
  PROVE  IInv'
<1>1. Kinds'
  BY DEF IInv, Kinds
<1>2. Started'
  <2>1. \A c \in Batches : c > launched => pc'[c] = "unborn"
    BY DEF IInv, Kinds, Started
  <2> QED BY <2>1 DEF IInv, Started
<1> QED BY <1>1, <1>2 DEF IInv

\* A goroutine that is born has its place among the batches of the call.
LEMMA StepOf ==
  ASSUME IInv, NEW b \in Batches, NEW k, NEW l, Step(b, k, l), k # "unborn"
  PROVE  pc[b] = k /\ pc[b] # "unborn" /\ pc' = [pc EXCEPT ![b] = l]
         /\ \A c \in Batches : pc'[c] = IF c = b THEN l ELSE pc[c]
  BY DEF Step, IInv, Kinds

LEMMA AcquireStep == ASSUME IInv, NEW b \in Batches, Acquire(b) PROVE IInv'
<1>1. Step(b, "acquire", "ask")
  BY DEF Acquire
<1>2. Working' = Working /\ Through' = Through
  BY <1>1, StepOf DEF Working, Through
<1>3. Holding' = Holding \cup {b} /\ b \notin Holding
  BY <1>1, StepOf DEF Holding
<1>4. Cardinality(Holding') = Cardinality(Holding) + 1
  BY <1>3, SetsFinite, FS_AddElement
<1>5. Counted'
  BY <1>2, <1>4 DEF Counted, IInv, Acquire
<1>6. running' <= Permits /\ running' \in Nat
  BY SizesAssumption DEF IInv, Kinds, Acquire
<1> QED BY <1>1, <1>5, <1>6, StepOf, GoroutineStep DEF Acquire, IInv, Kinds, Stages

LEMMA AnsweredStep == ASSUME IInv, NEW b \in Batches, Answered(b) PROVE IInv'
<1>1. Step(b, "ask", "leave")
  BY DEF Answered
<1>2. Working' = Working /\ Holding' = Holding
  BY <1>1, StepOf DEF Working, Holding
<1>3. Through' = Through \cup {b} /\ b \notin Through
  BY <1>1, StepOf DEF Through
<1>4. Cardinality(Through') = Cardinality(Through) + 1
  BY <1>3, SetsFinite, FS_AddElement
<1>5. Counted'
  BY <1>2, <1>4, SetsFinite DEF Counted, IInv, Kinds, Answered
<1>6. Batch(ids, b) \subseteq 1..MaxIds
  BY SizesAssumption DEF Batch, IInv, Kinds
<1>7. chunks' \in [Batches -> SUBSET (1..MaxIds)]
  BY <1>6 DEF Answered, IInv, Kinds
<1> QED BY <1>1, <1>5, <1>7, StepOf, GoroutineStep DEF Answered, IInv, Kinds, Stages

LEMMA RefusedStep == ASSUME IInv, NEW b \in Batches, Refused(b) PROVE IInv'
<1>1. Step(b, "ask", "report")
  BY DEF Refused
<1>2. Working' = Working /\ Holding' = Holding /\ Through' = Through
  BY <1>1, StepOf DEF Working, Holding, Through
<1>3. Counted'
  BY <1>2 DEF Counted, IInv, Refused
<1> QED BY <1>1, <1>3, StepOf, GoroutineStep DEF Refused, IInv, Kinds, Stages

LEMMA ReportStep == ASSUME IInv, NEW b \in Batches, Report(b) PROVE IInv'
<1>1. Step(b, "report", "leave")
  BY DEF Report
<1>2. Working' = Working /\ Holding' = Holding
  BY <1>1, StepOf DEF Working, Holding
<1>3. Through' = Through \cup {b} /\ b \notin Through
  BY <1>1, StepOf DEF Through
<1>4. Cardinality(Through') = Cardinality(Through) + 1
  BY <1>3, SetsFinite, FS_AddElement
<1>5. working' = working /\ errs' = errs + 1
  BY DEF Report, IInv, Kinds
<1>6. Counted'
  BY <1>2, <1>4, <1>5, SetsFinite DEF Counted, IInv, Kinds, Report
<1> QED BY <1>1, <1>5, <1>6, StepOf, GoroutineStep DEF Report, IInv, Kinds, Stages

LEMMA LeaveStep == ASSUME IInv, NEW b \in Batches, Leave(b) PROVE IInv'
<1>1. Step(b, "leave", "done")
  BY DEF Leave
<1>2. Working' = Working /\ Through' = Through
  BY <1>1, StepOf DEF Working, Through
<1>3. Holding' = Holding \ {b} /\ b \in Holding
  BY <1>1, StepOf DEF Holding
<1>4. Cardinality(Holding') = Cardinality(Holding) - 1 /\ Cardinality(Holding') \in Nat
  BY <1>3, SetsFinite, FS_RemoveElement, FS_CardinalityType
<1>5. running' = Cardinality(Holding') /\ running' \in Nat /\ running' <= Permits
  BY <1>4, SizesAssumption DEF Counted, IInv, Kinds, Leave
<1>6. Counted'
  BY <1>2, <1>5 DEF Counted, IInv, Leave
<1> QED BY <1>1, <1>5, <1>6, StepOf, GoroutineStep DEF Leave, IInv, Kinds, Stages

LEMMA DoneStep == ASSUME IInv, NEW b \in Batches, Done(b) PROVE IInv'
<1>1. Step(b, "done", "over")
  BY DEF Done
<1>2. Holding' = Holding /\ Through' = Through
  BY <1>1, StepOf DEF Holding, Through
<1>3. Working' = Working \ {b} /\ b \in Working
  BY <1>1, StepOf DEF Working
<1>4. Cardinality(Working') = Cardinality(Working) - 1 /\ Cardinality(Working') \in Nat
  BY <1>3, SetsFinite, FS_RemoveElement, FS_CardinalityType
<1>5. working' = Cardinality(Working') /\ working' \in Nat /\ working # 0
  BY <1>4 DEF Counted, IInv, Kinds, Done
<1>6. Counted'
  BY <1>2, <1>5 DEF Counted, IInv, Done
<1> QED BY <1>1, <1>5, <1>6, StepOf, GoroutineStep DEF Done, IInv, Kinds, Stages

LEMMA CountedStep == IInv /\ [Next]_vars => IInv'
<1> SUFFICES ASSUME IInv, [Next]_vars PROVE IInv'
  OBVIOUS
<1>1. CASE UNCHANGED vars
  BY <1>1 DEF vars, IInv, Kinds, Started, Counted, Working, Holding, Through
<1>2. ASSUME NEW n \in 0..MaxIds, Call(n) PROVE IInv'
  BY <1>2, CallStep
<1>3. CASE Caller
  BY <1>3, CallerStep, LaunchStep DEF Caller
<1>4. ASSUME NEW b \in Batches, Goroutine(b) PROVE IInv'
  BY <1>4, AcquireStep, AnsweredStep, RefusedStep, ReportStep, LeaveStep, DoneStep DEF Goroutine
<1> QED BY <1>1, <1>2, <1>3, <1>4 DEF Next

LEMMA CountersCount == Spec => []IInv
<1> QED BY CountedInit, CountedStep, PTL DEF Spec

---------------------------------------------------------------------------
(* What follows.                                                           *)

\* Goroutines are among those started, and there are no more than batches.
LEMMA StartedOnly ==
  ASSUME IInv, NEW S \in SUBSET Batches, \A b \in S : pc[b] # "unborn"
  PROVE  IsFiniteSet(S) /\ Cardinality(S) <= launched
<1>1. launched \in Nat
  BY BatchesBounded DEF IInv, Kinds
<1>2. S \subseteq 1..launched
  BY <1>1, BatchesBounded, SizesAssumption DEF IInv, Started, Batches
<1>3. IsFiniteSet(1..launched) /\ Cardinality(1..launched) = launched
  BY <1>1, FS_Interval
<1> QED BY <1>2, <1>3, FS_Subset

\* The variables keep their types: the WaitGroup's counter is never negative,
\* which would end the process, nor above the number of batches.
THEOREM BatchTypes == Spec => []TypeOK
<1>1. IInv => TypeOK
  <2> SUFFICES ASSUME IInv PROVE TypeOK
    OBVIOUS
  <2>1. Cardinality(Working) <= launched
    BY StartedOnly DEF Working
  <2>2. working \in 0..NumBatches(ids)
    BY <2>1, BatchesBounded DEF IInv, Kinds, Counted
  <2> QED BY <2>2 DEF IInv, Kinds, TypeOK
<1> QED BY <1>1, CountersCount, PTL

\* However many batches there are, no more requests are under way than sem has
\* permits, and running counts exactly those that hold one.
THEOREM RequestsAreFew == Spec => []FewAtATime
<1>1. IInv => FewAtATime
  BY DEF IInv, Counted, FewAtATime
<1> QED BY <1>1, CountersCount, PTL

\* Nobody is left to send when errCh is closed.
THEOREM ClosedInPeace == Spec => []NoneAfterClose
<1>1. IInv => NoneAfterClose
  BY QuietWhenNone DEF IInv, Started, NoneAfterClose
<1> QED BY <1>1, CountersCount, PTL

\* A goroutine that has an error to report finds room for it.
THEOREM ErrorsHaveRoom == Spec => []SendsNeverBlock
<1>1. IInv => SendsNeverBlock
  <2> SUFFICES ASSUME IInv, NEW b \in Batches, pc[b] = "report" PROVE errs < Room(ids)
    BY DEF SendsNeverBlock
  <2>1. b \notin Through
    BY DEF Through
  <2>2. Cardinality(Through \cup {b}) = Cardinality(Through) + 1
    BY <2>1, SetsFinite, FS_AddElement
  <2>3. Cardinality(Through \cup {b}) <= launched
    BY StartedOnly DEF Through
  <2> QED BY <2>2, <2>3, SetsFinite, BatchesBounded DEF IInv, Kinds, Counted, Room
<1> QED BY <1>1, CountersCount, PTL

---------------------------------------------------------------------------
(* The pieces put together.                                                *)

Flattens(f, q, n) == f = [i \in 1..n |-> IF i = 1 THEN q[i] ELSE f[i - 1] \o q[i]]

LEMMA FlatteningExists ==
  ASSUME NEW q, NEW n \in Nat PROVE \E f : Flattens(f, q, n)
<1> DEFINE F == {m \in Nat : \E f : Flattens(f, q, m)}
<1>1. 0 \in F
  <2> DEFINE g == [i \in 1..0 |-> q[i]]
  <2>1. Flattens(g, q, 0)
    BY DEF Flattens
  <2> QED BY <2>1
<1>2. ASSUME NEW m \in Nat, m \in F PROVE m + 1 \in F
  <2>1. PICK f : Flattens(f, q, m)
    BY <1>2
  <2> DEFINE g == [i \in 1..(m + 1) |-> IF i = 1 THEN q[i] ELSE f[i - 1] \o q[i]]
  <2>2. \A i \in 1..m : g[i] = f[i]
    <3>1. \A i \in 1..m : f[i] = IF i = 1 THEN q[i] ELSE f[i - 1] \o q[i]
      BY ONLY <2>1, Zenon DEF Flattens
    <3>2. \A i \in 1..m : i \in 1..(m + 1)
      OBVIOUS
    <3> QED BY <3>1, <3>2, Zenon
  <2>3. \A i \in 1..(m + 1) : i # 1 => i - 1 \in 1..m
    OBVIOUS
  <2>4. \A i \in 1..(m + 1) : g[i] = IF i = 1 THEN q[i] ELSE g[i - 1] \o q[i]
    BY <2>2, <2>3
  <2>5. Flattens(g, q, m + 1)
    BY <2>4 DEF Flattens
  <2> QED BY <2>5
<1> HIDE DEF F
<1>3. Nat \subseteq F
  BY <1>1, <1>2, CountingUp
<1> QED BY <1>3 DEF F

\* Of sets of which each comes before the next, the lists one after the other are
\* the list of all their elements.
LEMMA ListsJoin ==
  ASSUME NEW n \in Nat \ {0}, NEW M \in Nat, NEW C, \A b \in 1..n : C[b] \subseteq 1..M,
         \A b, c \in 1..n : b < c => \A x \in C[b], y \in C[c] : x < y
  PROVE  FlattenSeq([b \in 1..n |-> InOrder(C[b])]) = InOrder(UNION {C[b] : b \in 1..n})
<1> DEFINE q == [b \in 1..n |-> InOrder(C[b])]
           U(i) == UNION {C[b] : b \in 1..i}
           f == CHOOSE g : Flattens(g, q, n)
           F == {i \in Nat : i \in 1..n => \E m : Sorts(f[i], m, U(i))}
<1>1. Flattens(f, q, n)
  BY FlatteningExists
<1>2. FlattenSeq(q) = f[n]
  <2>1. Len(q) = n /\ n # 0
    OBVIOUS
  <2> QED BY <2>1 DEF FlattenSeq, Flattens
<1> HIDE DEF f
<1>3. ASSUME NEW i \in 1..n PROVE \E m : Sorts(q[i], m, C[i])
  <2>1. C[i] \subseteq Nat /\ IsFiniteSet(C[i])
    <3>1. IsFiniteSet(1..M) /\ C[i] \in SUBSET (1..M)
      BY FS_Interval
    <3>2. IsFiniteSet(C[i])
      BY ONLY <3>1, FS_Subset
    <3> QED BY <3>1, <3>2
  <2>2. PICK s, m : Sorts(s, m, C[i])
    BY <2>1, SortedExists
  <2> QED BY <2>2, InOrderIs
<1> HIDE DEF q
<1>4. 0 \in F
  OBVIOUS
<1>5. ASSUME NEW i \in Nat, i \in F PROVE i + 1 \in F
  <2> SUFFICES ASSUME i + 1 \in 1..n PROVE \E m : Sorts(f[i + 1], m, U(i + 1))
    OBVIOUS
  <2>1. PICK m : Sorts(q[i + 1], m, C[i + 1])
    BY <1>3
  <2>2. CASE i = 0
    <3>1. U(i + 1) = C[i + 1] /\ f[i + 1] = q[i + 1]
      BY <1>1, <2>2 DEF Flattens
    <3> QED BY <2>1, <3>1
  <2>3. CASE i # 0
    <3>1. i \in 1..n
      BY <2>3
    <3>2. PICK l : Sorts(f[i], l, U(i))
      BY <1>5, <3>1
    <3>3. f[i + 1] = f[i] \o q[i + 1]
      <4>1. \A j \in 1..n : f[j] = IF j = 1 THEN q[j] ELSE f[j - 1] \o q[j]
        BY ONLY <1>1, Zenon DEF Flattens
      <4>2. i + 1 # 1 /\ (i + 1) - 1 = i
        BY <2>3
      <4> QED BY <4>1, <4>2
    <3>4. \A x \in U(i), y \in C[i + 1] : x < y
      <4>1. \A b \in 1..i : b \in 1..n /\ b < i + 1
        BY <3>1
      <4> QED BY <4>1
    <3>5. U(i + 1) = U(i) \cup C[i + 1]
      <4>1. 1..(i + 1) = (1..i) \cup {i + 1}
        OBVIOUS
      <4> QED BY <4>1
    <3> HIDE DEF U
    <3>6. Sorts(f[i] \o q[i + 1], l + m, U(i) \cup C[i + 1])
      BY <2>1, <3>2, <3>4, SortedJoins
    <3> QED BY <3>3, <3>5, <3>6
  <2> QED BY <2>2, <2>3
<1>6. n \in F
  <2> HIDE DEF F
  <2>1. Nat \subseteq F
    BY <1>4, <1>5, CountingUp
  <2> QED BY <2>1
<1>7. PICK m : Sorts(f[n], m, U(n))
  BY <1>6
<1>8. InOrder(U(n)) = f[n]
  BY <1>7, InOrderIs
<1> QED BY <1>2, <1>8 DEF q

\* Each batch ends where the next begins.
LEMMA BatchesFollow ==
  ASSUME NEW n \in Nat, NEW b \in Nat, NEW c \in Nat, b < c,
         NEW x \in Batch(n, b), NEW y \in Batch(n, c)
  PROVE  x < y
<1>1. BatchSize \in Nat
  BY SizesAssumption
<1>2. b * BatchSize <= (c - 1) * BatchSize /\ b * BatchSize \in Nat /\ (c - 1) * BatchSize \in Nat
  BY <1>1, SMT
<1>3. x \in Nat /\ y \in Nat /\ x <= b * BatchSize /\ (c - 1) * BatchSize < y
  BY DEF Batch
<1> QED BY ONLY <1>2, <1>3

\* The batches of a call hold all of its songs, and those beyond hold none.
LEMMA BatchesCover ==
  ASSUME NEW n \in 0..MaxIds
  PROVE  /\ \A i \in 1..n : /\ i \in Batch(n, NumBatches(i)) /\ NumBatches(i) \in Batches
                            /\ NumBatches(i) <= NumBatches(n)
         /\ \A b \in Batches : b > NumBatches(n) => Batch(n, b) = {}
<1>1. BatchSize \in Nat \ {0} /\ MaxIds \in Nat
  BY SizesAssumption
<1>2. ASSUME NEW i \in 1..n
      PROVE  i \in Batch(n, NumBatches(i)) /\ NumBatches(i) \in Batches /\ NumBatches(i) <= NumBatches(n)
  <2> DEFINE a == i + BatchSize - 1
             q == NumBatches(i)
  <2>1. a \in Nat /\ i \in 1..MaxIds /\ n + BatchSize - 1 \in Nat /\ a <= n + BatchSize - 1
    BY <1>1
  <2>2. q \in Nat \ {0} /\ q = a \div BatchSize
    BY <2>1, SomeBatch DEF NumBatches
  <2>3. BatchSize * q <= a /\ a < BatchSize * q + BatchSize
    BY <1>1, <2>1, <2>2, DivBounds
  <2>4. q <= NumBatches(n)
    BY <1>1, <2>1, DivMonotone DEF NumBatches
  <2>5. q \in Batches
    BY <2>1, <2>2, BatchesBounded DEF Batches
  <2>6. (q - 1) * BatchSize = BatchSize * q - BatchSize /\ q * BatchSize = BatchSize * q
    BY <1>1, <2>2, SMT
  <2> HIDE DEF q
  <2>7. (q - 1) * BatchSize < i /\ i <= q * BatchSize
    BY <1>1, <2>1, <2>2, <2>3, <2>6, SMT
  <2> QED BY <2>4, <2>5, <2>7 DEF Batch, q
<1>3. ASSUME NEW b \in Batches, b > NumBatches(n), NEW i \in Batch(n, b) PROVE FALSE
  <2>1. i \in 1..n /\ (b - 1) * BatchSize < i
    BY DEF Batch
  <2>2. i \in Batch(n, NumBatches(i)) /\ NumBatches(i) <= NumBatches(n) /\ NumBatches(i) \in Nat
    BY <1>2, <2>1, BatchesBounded DEF Batches
  <2>3. NumBatches(i) < b /\ b \in Nat
    BY <1>3, <2>2, BatchesBounded DEF Batches
  <2>4. i < i
    BY <1>3, <2>2, <2>3, BatchesFollow
  <2> QED BY <2>1, <2>4
<1> QED BY <1>2, <1>3

---------------------------------------------------------------------------
(* The answer.                                                             *)

\* Every refusal is still to be told or in errCh, until the call has failed; and
\* a piece is of its batch.
Answers ==
  /\ \A b \in Batches : chunks[b] \subseteq Batch(ids, b)
  /\ at # "idle" => ids # 0
  /\ at = "single" => NumBatches(ids) = 1
  /\ ~refused => errs = 0 /\ \A b \in Batches : pc[b] # "report"
  /\ refused => at = "idle" \/ errs > 0 \/ \E b \in Batches : pc[b] = "report"
  /\ AnswerExact

Covered(n) == \A i \in 1..n : \E b \in Batches : i \in Batch(n, b) /\ b <= NumBatches(n)

LEMMA AllCovered == ASSUME NEW n \in 0..MaxIds PROVE Covered(n)
  BY BatchesCover DEF Covered

LEMMA AnswersFit ==
  ASSUME IInv, at = "idle" => IF refused THEN answer = Failed
                              ELSE answer = Songs(InOrder(UNION {chunks[b] : b \in Batches}))
  PROVE  AnswerExact
  BY AllCovered DEF AnswerExact, Covered, IInv, Kinds

\* All that the pieces hold is in the batches of the call.
LEMMA PiecesInBatches ==
  ASSUME IInv, Answers
  PROVE  UNION {chunks[b] : b \in Batches} = UNION {chunks[b] : b \in 1..NumBatches(ids)}
<1>1. 1..NumBatches(ids) \subseteq Batches
  BY BatchesBounded DEF IInv, Kinds, Batches
<1>2. \A b \in Batches : b \notin 1..NumBatches(ids) => chunks[b] = {}
  <2> SUFFICES ASSUME NEW b \in Batches, b \notin 1..NumBatches(ids) PROVE chunks[b] = {}
    OBVIOUS
  <2>1. b > NumBatches(ids)
    BY BatchesBounded DEF IInv, Kinds, Batches
  <2> QED BY <2>1, BatchesCover DEF IInv, Kinds, Answers
<1> QED BY <1>1, <1>2

\* Before any goroutine is started nothing has been refused.
LEMMA NothingRefusedYet ==
  ASSUME IInv, Answers, at \in {"cookie", "single"} PROVE ~refused
<1>1. \A b \in Batches : pc[b] = "unborn"
  <2>1. \A b \in Batches : b > launched
    BY BatchesBounded DEF IInv, Kinds, Batches
  <2> QED BY <2>1 DEF IInv, Started
<1>2. Through = {}
  BY <1>1 DEF Through
<1>3. errs = 0
  BY <1>2, FS_EmptySet DEF IInv, Counted, Kinds
<1> QED BY <1>1, <1>3 DEF Answers

LEMMA AnswersInit == Init => Answers
<1> SUFFICES ASSUME Init PROVE Answers
  OBVIOUS
<1>1. UNION {chunks[b] : b \in Batches} = {}
  BY DEF Init
<1>2. InOrder({}) = <<>>
  BY SortedOfNone, InOrderIs
<1>3. AnswerExact
  BY <1>1, <1>2, AnswersFit, CountedInit DEF Init
<1> QED BY <1>3 DEF Init, Answers

LEMMA CallAnswers ==
  ASSUME IInv, IInv', Answers, NEW n \in 0..MaxIds, Call(n) PROVE Answers'
<1> USE DEF Call, Finish
<1>1. /\ chunks' = [b \in Batches |-> {}] /\ refused' = FALSE /\ errs' = 0
      /\ \A b \in Batches : pc'[b] = "unborn"
  OBVIOUS
<1>2. UNION {chunks'[b] : b \in Batches} = {} /\ InOrder({}) = <<>>
  BY <1>1, SortedOfNone, InOrderIs
<1>3. at' = "idle" => answer' = Songs(<<>>)
  OBVIOUS
<1>4. Covered(ids')
  BY AllCovered
<1>5. AnswerExact'
  BY <1>1, <1>2, <1>3, <1>4 DEF AnswerExact, Covered
<1>6. at' # "single"
  OBVIOUS
<1> QED BY <1>1, <1>5, <1>6 DEF Answers

\* The only request there is has been answered.
LEMMA SingleAnswers == ASSUME IInv, IInv', Answers, Single PROVE Answers'
<1> USE DEF Single, Finish
<1>1. PICK S \in SUBSET Batch(ids, 1) :
        answer' = Songs(InOrder(S)) /\ chunks' = [chunks EXCEPT ![1] = S]
  OBVIOUS
<1>2. 1 \in Batches /\ ids \in 0..MaxIds /\ NumBatches(ids) = 1
  BY BatchesBounded DEF IInv, Kinds, Batches, Answers
<1>3. chunks \in [Batches -> SUBSET (1..MaxIds)]
  BY DEF IInv, Kinds
<1>4. \A b \in Batches : b # 1 => chunks'[b] = {}
  <2>1. \A b \in Batches : b # 1 => b > NumBatches(ids)
    BY <1>2 DEF Batches
  <2>2. \A b \in Batches : b # 1 => chunks[b] = {}
    BY <1>2, <2>1, BatchesCover DEF Answers
  <2> QED BY <1>1, <1>3, <2>2
<1>5. chunks'[1] = S
  BY <1>1, <1>2, <1>3
<1>6. UNION {chunks'[b] : b \in Batches} = S
  BY <1>2, <1>4, <1>5
<1>7. ~refused'
  BY NothingRefusedYet
<1>8. Covered(ids')
  BY <1>2, AllCovered
<1>9. AnswerExact'
  BY <1>1, <1>6, <1>7, <1>8 DEF AnswerExact, Covered
<1>10. \A b \in Batches : chunks'[b] \subseteq Batch(ids', b)
  BY <1>1, <1>4, <1>5
<1> QED BY <1>7, <1>9, <1>10 DEF Answers

\* The pieces, or the first of the errors: all that were refused have told.
LEMMA CollectAnswers == ASSUME IInv, IInv', Answers, Collect PROVE Answers'
<1> USE DEF Collect, Finish
<1>1. ids \in 0..MaxIds /\ NumBatches(ids) \in Nat /\ working = 0
  BY BatchesBounded DEF IInv, Kinds, Started
<1>2. \A b \in Batches : pc[b] # "report"
  <2>1. Working = {}
    BY <1>1, QuietWhenNone DEF IInv
  <2> QED BY <2>1 DEF Working
<1>3. Covered(ids)
  BY <1>1, AllCovered
<1>4. CASE errs > 0
  <2>1. refused /\ answer' = Failed
    BY <1>4 DEF Answers
  <2>2. AnswerExact'
    BY <2>1 DEF AnswerExact
  <2> QED BY <2>1, <2>2 DEF Answers
<1>5. CASE ~(errs > 0)
  <2>1. ~refused
    BY <1>2, <1>5 DEF Answers
  <2>2. answer' = Songs(FlattenSeq([b \in 1..NumBatches(ids) |-> InOrder(chunks[b])]))
    BY <1>5
  <2>3. FlattenSeq([b \in 1..NumBatches(ids) |-> InOrder(chunks[b])])
          = InOrder(UNION {chunks[b] : b \in 1..NumBatches(ids)})
    <3>1. NumBatches(ids) # 0
      BY <1>1, SomeBatch DEF Answers
    <3>2. \A b \in 1..NumBatches(ids) : b \in Batches /\ b \in Nat /\ chunks[b] \subseteq Batch(ids, b)
      BY <1>1, BatchesBounded DEF Batches, Answers
    <3>3. \A b \in 1..NumBatches(ids) : chunks[b] \subseteq 1..MaxIds
      BY <3>2 DEF IInv, Kinds
    <3>4. \A b, c \in 1..NumBatches(ids) : b < c => \A x \in chunks[b], y \in chunks[c] : x < y
      <4> SUFFICES ASSUME NEW b \in 1..NumBatches(ids), NEW c \in 1..NumBatches(ids), b < c,
                          NEW x \in chunks[b], NEW y \in chunks[c]
                   PROVE  x < y
        OBVIOUS
      <4>1. x \in Batch(ids, b) /\ y \in Batch(ids, c) /\ ids \in Nat /\ b \in Nat /\ c \in Nat
        BY <1>1, <3>2
      <4> QED BY <4>1, BatchesFollow
    <3>5. NumBatches(ids) \in Nat \ {0} /\ MaxIds \in Nat
      BY <1>1, <3>1, SizesAssumption
    <3> QED BY ONLY <3>3, <3>4, <3>5, ListsJoin
  <2>4. UNION {chunks[b] : b \in Batches} = UNION {chunks[b] : b \in 1..NumBatches(ids)}
    BY PiecesInBatches
  <2>5. AnswerExact'
    BY <1>3, <2>1, <2>2, <2>3, <2>4 DEF AnswerExact, Covered
  <2> QED BY <2>1, <2>5 DEF Answers
<1> QED BY <1>4, <1>5

\* A goroutine that takes a step keeps the caller waiting.
LEMMA GoroutineAnswers ==
  ASSUME IInv, Answers, NEW b \in Batches, Goroutine(b) PROVE Answers'
<1> USE DEF Goroutine, Acquire, Answered, Refused, Report, Leave, Done
<1>1. b \in Working /\ UNCHANGED <<at, ids>>
  BY DEF Working, Step
<1>2. at # "idle" /\ at # "single"
  BY <1>1, QuietWhenNone DEF IInv, Started
<1>3. AnswerExact'
  BY <1>1, <1>2 DEF AnswerExact
<1>4. \A c \in Batches : chunks'[c] \subseteq Batch(ids', c)
  BY DEF IInv, Kinds, Answers
<1>5. /\ ~refused' => errs' = 0 /\ \A c \in Batches : pc'[c] # "report"
      /\ refused' => errs' > 0 \/ \E c \in Batches : pc'[c] = "report"
  <2>1. pc \in [Batches -> Stages] /\ errs \in Nat
    BY DEF IInv, Kinds
  <2>2. CASE Report(b)
    <3>1. refused /\ errs' > 0
      BY <2>1, <2>2 DEF Answers, Step
    <3> QED BY <2>2, <3>1
  <2>3. CASE Refused(b)
    BY <2>1, <2>3 DEF Answers, Step
  <2>4. CASE Acquire(b) \/ Answered(b) \/ Leave(b) \/ Done(b)
    <3>1. UNCHANGED <<refused, errs>> /\ pc[b] # "report" /\ pc'[b] # "report"
          /\ \A c \in Batches : c # b => pc'[c] = pc[c]
      BY <2>1, <2>4 DEF Step
    <3> QED BY <1>2, <3>1 DEF Answers
  <2> QED BY <2>2, <2>3, <2>4
<1> QED BY <1>1, <1>2, <1>3, <1>4, <1>5 DEF Answers

LEMMA AnswersStep == IInv /\ IInv' /\ Answers /\ [Next]_vars => Answers'
<1> SUFFICES ASSUME IInv, IInv', Answers, [Next]_vars PROVE Answers'
  OBVIOUS
<1>1. CASE UNCHANGED vars
  BY <1>1 DEF vars, Answers, AnswerExact
<1>2. ASSUME NEW n \in 0..MaxIds, Call(n) PROVE Answers'
  BY <1>2, CallAnswers
<1>3. CASE Caller
  <2>1. CASE LoadCookie
    <3>1. at' \in {"single", "launch"} /\ (at' = "single" => NumBatches(ids') = 1) /\ ~refused
      BY <2>1, NothingRefusedYet DEF LoadCookie
    <3> QED BY <2>1, <3>1 DEF LoadCookie, Answers, AnswerExact
  <2>2. CASE CallFails
    BY <2>2 DEF CallFails, Finish, Answers, AnswerExact
  <2>3. CASE Launch
    <3>1. /\ at \notin {"idle", "single"} /\ at' \in {"launch", "wait"} /\ UNCHANGED <<ids, chunks, errs, refused>>
          /\ pc' = [pc EXCEPT ![launched + 1] = "acquire"]
      BY <2>3 DEF Launch
    <3>2. \A b \in Batches : pc'[b] = "report" <=> pc[b] = "report"
      <4>1. pc[launched + 1] = "unborn" /\ pc \in [Batches -> Stages]
        BY <2>3, BatchesBounded DEF IInv, Kinds, Started, Launch, Batches
      <4> QED BY <3>1, <4>1
    <3> QED BY <3>1, <3>2 DEF Answers, AnswerExact
  <2>4. CASE Close
    BY <2>4 DEF Close, CloseAfter, Answers, AnswerExact
  <2> QED BY <1>3, <2>1, <2>2, <2>3, <2>4, SingleAnswers, CollectAnswers DEF Caller
<1>4. ASSUME NEW b \in Batches, Goroutine(b) PROVE Answers'
  BY <1>4, GoroutineAnswers
<1> QED BY <1>1, <1>2, <1>3, <1>4 DEF Next

\* However many batches, in whatever order they come in, and whichever of them are
\* refused: a call answers with all the source knows of the songs asked for, in
\* their order, or it fails.
THEOREM AnswersAreExact == Spec => []AnswerExact
<1>1. IInv /\ Answers /\ [Next]_vars => (IInv /\ Answers)'
  BY CountedStep, AnswersStep
<1>2. Answers => AnswerExact
  BY DEF Answers
<1> QED BY <1>1, <1>2, CountedInit, AnswersInit, PTL DEF Spec

---------------------------------------------------------------------------
(* In SongLists.                                                           *)

\* The calls that fetch lists do with the batches nothing that TrackBatches does
\* not: SongLists implements it, and its theorems hold of LikedTracks.
THEOREM ListsUseBatches == ListSpec => Spec
<1>1. ListInit => Init
  BY DEF ListInit
<1>2. [ListNext]_listVars => [Next]_vars
  <2> SUFFICES ASSUME [ListNext]_listVars PROVE [Next]_vars
    OBVIOUS
  <2>1. CASE LikesForBatches
    BY <2>1 DEF LikesForBatches, Next
  <2>2. CASE Batching
    BY <2>2 DEF Batching, Next
  <2>3. CASE LikedTracks \/ Playlist \/ Profile \/ Detail \/ Change
    BY <2>3 DEF LikedTracks, Playlist, Begin, Profile, Detail, Change
  <2>4. CASE LikesForTurns \/ Batched \/ Turn \/ Page \/ AskFails
    BY <2>4 DEF LikesForTurns, Batched, Turn, Page, Collected, AskFails
  <2>5. CASE UNCHANGED listVars
    BY <2>5 DEF listVars
  <2> QED BY <2>1, <2>2, <2>3, <2>4, <2>5 DEF ListNext
<1> QED BY <1>1, <1>2, PTL DEF ListSpec, Spec

---------------------------------------------------------------------------
(* What is left of a list without some of its elements.                    *)

Drops(f, s, h, n) ==
  f = [i \in 0..n |-> IF i = 0 THEN <<>> ELSE IF s[i] \in h THEN f[i - 1] ELSE Append(f[i - 1], s[i])]

LEMMA DropsAt ==
  ASSUME NEW f, NEW s, NEW h, NEW n, Drops(f, s, h, n)
  PROVE  \A i \in 0..n : f[i] = IF i = 0 THEN <<>>
                                ELSE IF s[i] \in h THEN f[i - 1] ELSE Append(f[i - 1], s[i])
  BY Zenon DEF Drops

LEMMA DroppingExists ==
  ASSUME NEW s, NEW h, NEW n \in Nat PROVE \E f : Drops(f, s, h, n)
<1> DEFINE F == {m \in Nat : \E f : Drops(f, s, h, m)}
           Go(f, i) == IF i = 0 THEN <<>> ELSE IF s[i] \in h THEN f[i - 1] ELSE Append(f[i - 1], s[i])
<1>1. 0 \in F
  <2> DEFINE g == [i \in 0..0 |-> <<>>]
  <2>1. \A i \in 0..0 : g[i] = Go(g, i)
    OBVIOUS
  <2>2. Drops(g, s, h, 0)
    BY <2>1 DEF Drops
  <2> QED BY <2>2
<1>2. ASSUME NEW m \in Nat, m \in F PROVE m + 1 \in F
  <2>1. PICK f : Drops(f, s, h, m)
    BY <1>2
  <2> DEFINE g == [i \in 0..(m + 1) |-> Go(f, i)]
  <2>2. \A i \in 0..m : g[i] = f[i]
    <3>1. \A i \in 0..m : f[i] = Go(f, i)
      BY <2>1, DropsAt
    <3>2. \A i \in 0..m : i \in 0..(m + 1)
      OBVIOUS
    <3> QED BY <3>1, <3>2, Zenon
  <2>3. \A i \in 0..(m + 1) : i # 0 => i - 1 \in 0..m
    OBVIOUS
  <2>4. \A i \in 0..(m + 1) : Go(f, i) = Go(g, i)
    BY <2>2, <2>3
  <2>5. Drops(g, s, h, m + 1)
    BY <2>4 DEF Drops
  <2> QED BY <2>5
<1> HIDE DEF F
<1>3. Nat \subseteq F
  BY <1>1, <1>2, CountingUp
<1> QED BY <1>3 DEF F

LEMMA DropsAgree ==
  ASSUME NEW h, NEW s, NEW n \in Nat, NEW f, Drops(f, s, h, n),
         NEW t, NEW m \in Nat, NEW g, Drops(g, t, h, m), n <= m, \A i \in 1..n : s[i] = t[i]
  PROVE  f[n] = g[n]
<1> DEFINE F == {i \in Nat : i <= n => f[i] = g[i]}
<1>1. 0 \in F
  <2>1. f[0] = <<>> /\ g[0] = <<>>
    BY DropsAt
  <2> QED BY <2>1
<1>2. ASSUME NEW i \in Nat, i \in F PROVE i + 1 \in F
  <2> SUFFICES ASSUME i + 1 <= n PROVE f[i + 1] = g[i + 1]
    OBVIOUS
  <2>1. i + 1 \in 0..n /\ i + 1 \in 0..m /\ i + 1 # 0 /\ (i + 1) - 1 = i /\ s[i + 1] = t[i + 1]
    OBVIOUS
  <2>2. f[i + 1] = IF s[i + 1] \in h THEN f[i] ELSE Append(f[i], s[i + 1])
    BY <2>1, DropsAt
  <2>3. g[i + 1] = IF t[i + 1] \in h THEN g[i] ELSE Append(g[i], t[i + 1])
    BY <2>1, DropsAt
  <2>4. f[i] = g[i]
    BY <1>2
  <2> QED BY <2>1, <2>2, <2>3, <2>4
<1> HIDE DEF F
<1>3. Nat \subseteq F
  BY <1>1, <1>2, CountingUp
<1> QED BY <1>3 DEF F

LEMMA WithoutIs ==
  ASSUME NEW S, NEW s \in Seq(S), NEW h, NEW f, Drops(f, s, h, Len(s))
  PROVE  Without(s, h) = f[Len(s)]
<1> DEFINE g == CHOOSE g : Drops(g, s, h, Len(s))
<1>1. Drops(g, s, h, Len(s))
  BY Zenon
<1>2. Without(s, h) = g[Len(s)]
  BY Zenon DEF Without, Drops
<1> HIDE DEF g
<1> QED BY <1>1, <1>2, DropsAgree, LenProperties

LEMMA WithoutNone == ASSUME NEW h PROVE Without(<<>>, h) = <<>>
<1>1. <<>> \in Seq({}) /\ Len(<<>>) = 0
  BY EmptySeq
<1>2. PICK f : Drops(f, <<>>, h, 0)
  BY DroppingExists
<1>3. f[0] = <<>>
  BY <1>2, DropsAt
<1> QED BY <1>1, <1>2, <1>3, WithoutIs

LEMMA WithoutMore ==
  ASSUME NEW S, NEW s \in Seq(S), NEW e \in S, NEW h
  PROVE  Without(Append(s, e), h) = IF e \in h THEN Without(s, h) ELSE Append(Without(s, h), e)
<1> DEFINE t == Append(s, e)
           n == Len(s)
<1>1. n \in Nat /\ t \in Seq(S) /\ Len(t) = n + 1 /\ t[n + 1] = e /\ \A i \in 1..n : s[i] = t[i]
  BY AppendProperties, LenProperties
<1>2. PICK f : Drops(f, s, h, n)
  BY <1>1, DroppingExists
<1>3. PICK g : Drops(g, t, h, n + 1)
  BY <1>1, DroppingExists
<1> HIDE DEF t, n
<1>4. f[n] = g[n]
  BY <1>1, <1>2, <1>3, DropsAgree
<1>5. g[n + 1] = IF t[n + 1] \in h THEN g[n] ELSE Append(g[n], t[n + 1])
  <2>1. n + 1 \in 0..(n + 1) /\ n + 1 # 0 /\ (n + 1) - 1 = n
    BY <1>1
  <2> QED BY <1>3, <2>1, DropsAt
<1>6. Without(s, h) = f[n] /\ Without(t, h) = g[n + 1]
  BY <1>1, <1>2, <1>3, WithoutIs DEF n
<1> QED BY <1>1, <1>4, <1>5, <1>6 DEF t

LEMMA WithoutIsSeq ==
  ASSUME NEW S, NEW h
  PROVE  \A s \in Seq(S) : /\ Without(s, h) \in Seq(S)
                           /\ Len(Without(s, h)) <= Len(s)
                           /\ Len(Without(s, h)) < Len(s) => \E i \in 1..Len(s) : s[i] \in h
<1> DEFINE Good(s) == /\ Without(s, h) \in Seq(S)
                      /\ Len(Without(s, h)) <= Len(s)
                      /\ Len(Without(s, h)) < Len(s) => \E i \in 1..Len(s) : s[i] \in h
           F == {s \in Seq(S) : Good(s)}
<1>1. <<>> \in F
  <2>1. Without(<<>>, h) = <<>>
    BY WithoutNone, Zenon
  <2>2. <<>> \in Seq(S) /\ Len(<<>>) = 0
    OBVIOUS
  <2>3. Good(<<>>)
    <3>1. ~(0 < 0) /\ 0 <= 0
      OBVIOUS
    <3> QED BY ONLY <2>1, <2>2, <3>1, Zenon
  <2> QED BY ONLY <2>2, <2>3
<1>2. ASSUME NEW s \in Seq(S), NEW e \in S, s \in F PROVE Append(s, e) \in F
  <2> DEFINE t == Append(s, e)
             k == Without(s, h)
             n == Len(s)
  <2>1. /\ t \in Seq(S) /\ n \in Nat /\ Len(t) = n + 1 /\ t[n + 1] = e
        /\ \A i \in 1..n : t[i] = s[i]
    BY AppendProperties, LenProperties
  <2>2. Without(t, h) = IF e \in h THEN k ELSE Append(k, e)
    BY WithoutMore
  <2>3. k \in Seq(S) /\ Len(k) \in Nat /\ Append(k, e) \in Seq(S) /\ Len(Append(k, e)) = Len(k) + 1
    BY <1>2, AppendProperties, LenProperties
  <2>4. Len(k) <= n /\ (Len(k) < n => \E i \in 1..n : s[i] \in h)
    BY <1>2
  <2> HIDE DEF t, k, n
  <2>5. CASE e \in h
    <3>1. n + 1 \in 1..Len(t) /\ t[n + 1] \in h
      BY ONLY <2>1, <2>5
    <3>2. Len(k) <= Len(t)
      BY ONLY <2>1, <2>3, <2>4
    <3>3. Good(t)
      BY ONLY <2>2, <2>3, <2>5, <3>1, <3>2
    <3> QED BY <2>1, <3>3 DEF t
  <2>6. CASE e \notin h
    <3>1. Without(t, h) = Append(k, e)
      BY ONLY <2>2, <2>6
    <3>2. ASSUME Len(k) + 1 < Len(t) PROVE \E i \in 1..Len(t) : t[i] \in h
      <4>1. Len(k) < n
        BY ONLY <2>1, <2>3, <3>2
      <4>2. PICK i \in 1..n : s[i] \in h
        BY ONLY <2>4, <4>1
      <4>3. i \in 1..Len(t) /\ t[i] = s[i]
        BY ONLY <2>1, i \in 1..n
      <4> QED BY ONLY <4>2, <4>3
    <3>3. Len(k) + 1 <= Len(t)
      BY ONLY <2>1, <2>3, <2>4
    <3>4. Good(t)
      BY ONLY <2>3, <3>1, <3>2, <3>3
    <3> QED BY <2>1, <3>4 DEF t
  <2> QED BY <2>5, <2>6
<1> HIDE DEF F
<1>3. Seq(S) \subseteq F
  BY <1>1, <1>2, ListInduction
<1> QED BY <1>3 DEF F

LEMMA WithoutJoins ==
  ASSUME NEW S, NEW h, NEW s \in Seq(S), NEW t \in Seq(S)
  PROVE  Without(s \o t, h) = Without(s, h) \o Without(t, h)
<1> DEFINE F == {u \in Seq(S) : Without(s \o u, h) = Without(s, h) \o Without(u, h)}
<1>1. <<>> \in F
  BY WithoutNone, WithoutIsSeq, ConcatEmptySeq, EmptySeq
<1>2. ASSUME NEW u \in Seq(S), NEW e \in S, u \in F PROVE Append(u, e) \in F
  <2> DEFINE k == Without(s, h)
             l == Without(u, h)
  <2>1. k \in Seq(S) /\ l \in Seq(S) /\ s \o u \in Seq(S) /\ Append(u, e) \in Seq(S)
    BY WithoutIsSeq, ConcatProperties, AppendProperties
  <2>2. s \o Append(u, e) = Append(s \o u, e)
    BY AppendJoins
  <2>3. k \o Append(l, e) = Append(k \o l, e)
    BY <2>1, AppendJoins
  <2>4. Without(s \o u, h) = k \o l
    BY <1>2
  <2>5. Without(Append(s \o u, e), h) = IF e \in h THEN k \o l ELSE Append(k \o l, e)
    <3> DEFINE v == s \o u
    <3>1. v \in Seq(S) /\ Without(v, h) = k \o l
      BY <2>1, <2>4
    <3> HIDE DEF v
    <3>2. Without(Append(v, e), h) = IF e \in h THEN Without(v, h) ELSE Append(Without(v, h), e)
      BY <3>1, WithoutMore
    <3> QED BY <3>1, <3>2 DEF v
  <2>6. Without(Append(u, e), h) = IF e \in h THEN l ELSE Append(l, e)
    BY WithoutMore
  <2> HIDE DEF k, l
  <2>7. Without(s \o Append(u, e), h) = k \o Without(Append(u, e), h)
    BY <2>2, <2>3, <2>5, <2>6
  <2> QED BY <2>1, <2>7 DEF k
<1> HIDE DEF F
<1>3. Seq(S) \subseteq F
  BY <1>1, <1>2, ListInduction
<1> QED BY <1>3 DEF F

---------------------------------------------------------------------------
(* Lists got part by part.                                                 *)

\* What the call has of a list when it has come to the offset o.
Upto(s, o, h) == Without(SubSeq(s, 1, o), h)

\* Where the part of a list from o on ends.
PartEnd(s, o, n) == IF o + n < Len(s) THEN o + n ELSE Len(s)

LEMMA PartsJoin ==
  ASSUME NEW s \in Seq(Ids), NEW h, NEW o \in 0..Len(s), NEW m \in o..Len(s)
  PROVE  Upto(s, o, h) \o Without(SubSeq(s, o + 1, m), h) = Upto(s, m, h)
<1>1. Len(s) \in Nat /\ o \in Nat /\ m \in Nat
  BY LenProperties
<1>2. SubSeq(s, 1, o) \in Seq(Ids) /\ SubSeq(s, o + 1, m) \in Seq(Ids)
  <2>1. \A i \in 1..o : s[i] \in Ids
    BY <1>1, ElementOfSeq
  <2>2. \A i \in (o + 1)..m : s[i] \in Ids
    BY <1>1, ElementOfSeq
  <2>3. 1 \in Int /\ o \in Int /\ o + 1 \in Int /\ m \in Int
    BY <1>1
  <2> QED BY <2>1, <2>2, <2>3, SubSeqProperties
<1>3. SubSeq(s, 1, o) \o SubSeq(s, o + 1, m) = SubSeq(s, 1, m)
  <2>1. 1 \in 1..(Len(s) + 1) /\ o \in (1 - 1)..Len(s) /\ m \in o..Len(s)
    BY <1>1
  <2> QED BY <2>1, ConcatAdjacentSubSeq
<1> QED BY <1>2, <1>3, WithoutJoins DEF Upto

LEMMA NextPart ==
  ASSUME NEW s \in Seq(Ids), NEW h, NEW o \in 0..Len(s), NEW n \in Nat
  PROVE  /\ Upto(s, o, h) \o Without(From(s, o, n), h) = Upto(s, PartEnd(s, o, n), h)
         /\ PartEnd(s, o, n) \in 0..Len(s)
<1>1. PartEnd(s, o, n) \in o..Len(s) /\ PartEnd(s, o, n) \in 0..Len(s)
  BY LenProperties DEF PartEnd
<1> QED BY <1>1, PartsJoin DEF From, PartEnd

LEMMA UptoNone == ASSUME NEW s, NEW h PROVE Upto(s, 0, h) = <<>>
<1>1. SubSeq(s, 1, 0) = <<>>
  <2>1. 1 \in Int /\ 0 \in Int /\ 0 < 1
    OBVIOUS
  <2> QED BY <2>1, SubSeqEmpty
<1> QED BY <1>1, WithoutNone, Zenon DEF Upto

LEMMA UptoAll == ASSUME NEW s \in Seq(Ids), NEW h PROVE Upto(s, Len(s), h) = Without(s, h)
  BY SubSeqFull DEF Upto

LEMMA PartIsSeq ==
  ASSUME NEW s \in Seq(Ids), NEW h, NEW o \in Nat, NEW n \in Nat
  PROVE  /\ From(s, o, n) \in Seq(Ids) /\ Without(From(s, o, n), h) \in Seq(Ids)
<1> DEFINE m == PartEnd(s, o, n)
<1>1. Len(s) \in Nat /\ m \in Nat /\ m <= Len(s) /\ o + 1 \in Nat \ {0}
  BY LenProperties DEF PartEnd
<1>2. From(s, o, n) = SubSeq(s, o + 1, m)
  BY DEF From, PartEnd
<1> HIDE DEF m
<1>3. \A i \in (o + 1)..m : s[i] \in Ids
  BY <1>1, ElementOfSeq
<1>4. SubSeq(s, o + 1, m) \in Seq(Ids)
  BY <1>1, <1>3, SubSeqProperties
<1> QED BY <1>2, <1>4, WithoutIsSeq

LEMMA UptoIsPrefix ==
  ASSUME NEW s \in Seq(Ids), NEW h, NEW m \in 0..Len(s)
  PROVE  IsPrefix(Upto(s, m, h), Without(s, h))
<1> DEFINE a == Upto(s, m, h)
           b == Without(SubSeq(s, m + 1, Len(s)), h)
<1>1. Len(s) \in Nat /\ m \in Nat
  BY LenProperties
<1>2. a \o b = Without(s, h)
  BY <1>1, PartsJoin, UptoAll
<1>3. a \in Seq(Ids) /\ b \in Seq(Ids)
  <2>1. \A i \in 1..m : s[i] \in Ids
    BY <1>1, ElementOfSeq
  <2>2. \A i \in (m + 1)..Len(s) : s[i] \in Ids
    BY <1>1, ElementOfSeq
  <2>3. 1 \in Int /\ m \in Int /\ m + 1 \in Int /\ Len(s) \in Int
    BY <1>1
  <2>4. SubSeq(s, 1, m) \in Seq(Ids) /\ SubSeq(s, m + 1, Len(s)) \in Seq(Ids)
    BY <2>1, <2>2, <2>3, SubSeqProperties
  <2> QED BY <2>4, WithoutIsSeq DEF Upto
<1> HIDE DEF a, b
<1>4. Len(a \o b) = Len(a) + Len(b) /\ Len(a) \in Nat /\ Len(b) \in Nat
  BY <1>3, ConcatProperties, LenProperties
<1>5. SubSeq(a \o b, 1, Len(a)) = SubSeq(a, 1, Len(a))
  <2>1. CASE Len(a) = 0
    BY <2>1, SubSeqEmpty
  <2>2. CASE Len(a) # 0
    <3>1. 1 \in 1..Len(a) /\ Len(a) \in 1..Len(a)
      BY <1>4, <2>2
    <3> QED BY <1>3, <3>1, SubSeqOfConcat1
  <2> QED BY <2>1, <2>2
<1> QED BY <1>2, <1>4, <1>5 DEF IsPrefix, a

---------------------------------------------------------------------------
(* The lists.                                                              *)

ListKinds ==
  /\ list \in Seq(Ids) /\ wanted \in Seq(Ids)
  /\ external \in BOOLEAN /\ changes \in Nat /\ offset \in Nat
  /\ last.changes \in Nat /\ last.changes <= changes

\* Only the external API is asked in turns or by pages, and a call has the songs
\* of the list it had at first, as long as that is the list.
Progress ==
  /\ ~external => result.failed /\ ask \notin {"turn", "detail", "page"}
  /\ external => ask # "batches"
  /\ ask \in {"detail", "page"} => last.for = "playlist"
  /\ ask \in {"turn", "page"} /\ last.changes = changes =>
       /\ offset \in 0..Len(list)
       /\ tracks = Upto(list, offset, hidden)
  /\ ask = "turn" /\ last.changes = changes => wanted = list /\ offset < Len(list)
  /\ ask = "page" => \E j \in Nat : offset = j * PageSize
  /\ ask = "page" /\ last.changes = changes => count = Len(list)

LInv == ListKinds /\ Progress /\ ListExact

\* A page that is not full and not the last misses a song.
LEMMA ShortPage ==
  ASSUME NEW s \in Seq(Ids), NEW h, NEW o \in 0..Len(s), NEW j \in Nat, o = j * PageSize,
         o + PageSize < Len(s), Len(Without(From(s, o, PageSize), h)) < PageSize
  PROVE  \E i \in DOMAIN s : s[i] \in h /\ i <= ((Len(s) - 1) \div PageSize) * PageSize
<1>1. PageSize \in Nat \ {0} /\ Len(s) \in Nat /\ DOMAIN s = 1..Len(s) /\ Len(s) - 1 \in Nat
  BY ListsAssumption, LenProperties
<1>2. From(s, o, PageSize) = SubSeq(s, o + 1, o + PageSize)
  BY DEF From
<1>3. /\ Len(From(s, o, PageSize)) = PageSize
      /\ \A i \in 1..PageSize : From(s, o, PageSize)[i] = s[o + i]
  <2> DEFINE a == o + 1
             b == o + PageSize
  <2>1. \A i \in a..b : s[i] \in Ids
    BY <1>1, ElementOfSeq
  <2>2. a \in Int /\ b \in Int /\ b - a + 1 = PageSize /\ a <= b
    BY <1>1
  <2>3. \A i \in 1..PageSize : a + i - 1 = o + i
    BY <1>1
  <2> HIDE DEF a, b
  <2>4. /\ Len(SubSeq(s, a, b)) = IF a <= b THEN b - a + 1 ELSE 0
        /\ \A i \in 1..(b - a + 1) : SubSeq(s, a, b)[i] = s[a + i - 1]
    BY ONLY <2>1, <2>2, SubSeqProperties
  <2>5. Len(SubSeq(s, a, b)) = PageSize /\ \A i \in 1..PageSize : SubSeq(s, a, b)[i] = s[o + i]
    BY ONLY <2>2, <2>3, <2>4, Zenon
  <2> QED BY <1>2, <2>5, Zenon DEF a, b
<1>4. PICK i \in 1..PageSize : s[o + i] \in h
  <2>1. From(s, o, PageSize) \in Seq(Ids)
    BY <1>1, PartIsSeq
  <2> QED BY <1>3, <2>1, WithoutIsSeq
<1> DEFINE q == (Len(s) - 1) \div PageSize
<1>5. q \in Nat /\ Len(s) - 1 < PageSize * q + PageSize
  BY <1>1, DivBounds
<1> HIDE DEF q
<1>6. o + PageSize = PageSize * (j + 1) /\ PageSize * q + PageSize = PageSize * (q + 1)
  BY <1>1, <1>5, SMT
<1>7. PageSize * (j + 1) < PageSize * (q + 1)
  BY ONLY <1>1, <1>5, <1>6, o \in 0..Len(s), o + PageSize < Len(s)
<1>8. j + 1 <= q
  BY ONLY <1>1, <1>5, <1>7, j \in Nat, SMT
<1>9. PageSize * (j + 1) <= q * PageSize
  BY ONLY <1>1, <1>5, <1>8, j \in Nat, SMT
<1>10. o + i \in DOMAIN s /\ o + i <= q * PageSize
  <2>1. o + i <= o + PageSize /\ o + i \in 1..Len(s)
    BY <1>1
  <2>2. q * PageSize \in Nat
    BY ONLY <1>1, <1>5
  <2> QED BY <1>1, <1>6, <1>9, <2>1, <2>2
<1> QED BY <1>4, <1>10 DEF q

LEMMA ListsAreSeqs == \A s \in Lists : s \in Seq(Ids)
<1> SUFFICES ASSUME NEW s \in Lists PROVE s \in Seq(Ids)
  OBVIOUS
<1>1. Cardinality(Ids) \in Nat
  BY ListsAssumption, FS_CardinalityType
<1>2. PICK n \in 0..Cardinality(Ids) : s \in [1..n -> Ids]
  BY DEF Lists
<1>3. n \in Nat
  BY <1>1
<1> QED BY <1>2, <1>3

LEMMA ListsInit == ListInit => LInv
<1> SUFFICES ASSUME ListInit PROVE LInv
  OBVIOUS
<1>1. list \in Seq(Ids)
  <2>1. \A s \in Lists : s \in Seq(Ids)
    BY ListsAreSeqs
  <2>2. <<>> \in Seq(Ids)
    OBVIOUS
  <2> QED BY <2>1, <2>2 DEF ListInit
<1>2. result.failed
  BY DEF ListInit, Failed
<1> QED BY <1>1, <1>2 DEF ListInit, LInv, ListKinds, Progress, ListExact

\* The last part of a list is in: its songs are as the property says.
LEMMA LastPart ==
  ASSUME NEW s \in Seq(Ids), NEW h, NEW m \in 0..Len(s)
  PROVE  /\ IsPrefix(Upto(s, m, h), Without(s, h))
         /\ m = Len(s) => Upto(s, m, h) = Without(s, h)
  BY UptoIsPrefix, UptoAll

LEMMA TurnLists == ASSUME LInv, Turn PROVE LInv'
<1> DEFINE songs == Known(From(wanted, offset, TurnSize))
           m == PartEnd(wanted, offset, TurnSize)
           ends == offset + TurnSize >= Len(wanted)
<1>1. /\ ask = "turn" /\ tracks' = tracks \o songs /\ offset' = offset + TurnSize
      /\ ends => ask' = "none" /\ result' = Songs(tracks')
      /\ ~ends => ask' = ask /\ result' = result
      /\ UNCHANGED <<external, list, hidden, changes, wanted, count, last>>
  BY DEF Turn, Collected, Return, account
<1>2. list \in Seq(Ids) /\ Len(list) \in Nat /\ offset \in Nat /\ TurnSize \in Nat \ {0} /\ external
  BY <1>1, ListsAssumption, LenProperties DEF LInv, ListKinds, Progress
<1>3. ListKinds'
  BY <1>1, <1>2 DEF LInv, ListKinds
<1>4. CASE last.changes # changes
  BY <1>1, <1>2, <1>3, <1>4 DEF LInv, Progress, ListExact
<1>5. CASE last.changes = changes
  <2>1. wanted = list /\ offset \in 0..Len(list) /\ tracks = Upto(list, offset, hidden)
    BY <1>1, <1>5 DEF LInv, Progress
  <2>2. tracks' = Upto(list, m, hidden) /\ m \in 0..Len(list)
    BY <1>1, <1>2, <2>1, NextPart DEF Known
  <2>3. CASE ends
    <3>1. m = Len(list)
      BY <1>2, <2>1, <2>3 DEF PartEnd
    <3>2. tracks' = Known(list) /\ IsPrefix(tracks', Known(list))
      BY <1>2, <2>2, <3>1, LastPart DEF Known
    <3>3. ListExact'
      BY <1>1, <2>3, <3>2 DEF ListExact, Songs, Known
    <3> QED BY <1>1, <1>2, <1>3, <2>3, <3>3 DEF LInv, Progress
  <2>4. CASE ~ends
    <3>1. m = offset' /\ offset' < Len(list) /\ offset' \in 0..Len(list)
      BY <1>1, <1>2, <2>1, <2>4 DEF PartEnd
    <3> HIDE DEF m, songs
    <3>2. tracks' = Upto(list, offset', hidden)
      BY ONLY <2>2, <3>1
    <3>3. ask' = "turn" /\ external' /\ wanted' = list
      BY ONLY <1>1, <1>2, <2>1, <2>4
    <3>4. Progress'
      BY ONLY <1>1, <3>1, <3>2, <3>3 DEF Progress
    <3> QED BY ONLY <1>3, <3>3, <3>4 DEF LInv, ListExact
  <2> QED BY <2>3, <2>4
<1> QED BY <1>4, <1>5

LEMMA PageLists == ASSUME LInv, Page PROVE LInv'
<1> DEFINE m == PartEnd(list, offset, PageSize)
           ends == Len(NextPage) < PageSize \/ offset + PageSize >= count
<1>1. /\ ask = "page" /\ tracks' = tracks \o NextPage /\ offset' = offset + PageSize
      /\ ends => ask' = "none" /\ result' = Songs(tracks')
      /\ ~ends => ask' = ask /\ result' = result
      /\ UNCHANGED <<external, list, hidden, changes, wanted, count, last>>
  BY DEF Page, Collected, Return, account
<1>2. list \in Seq(Ids) /\ Len(list) \in Nat /\ offset \in Nat /\ PageSize \in Nat \ {0} /\ external
  BY <1>1, ListsAssumption, LenProperties DEF LInv, ListKinds, Progress
<1>3. ListKinds'
  BY <1>1, <1>2 DEF LInv, ListKinds
<1>4. PICK j \in Nat : offset = j * PageSize
  BY <1>1 DEF LInv, Progress
<1>5. offset' = (j + 1) * PageSize /\ j + 1 \in Nat
  BY <1>1, <1>2, <1>4, SMT
<1>6. last.for = "playlist"
  BY <1>1 DEF LInv, Progress
<1>7. CASE last.changes # changes
  BY <1>1, <1>2, <1>3, <1>5, <1>6, <1>7 DEF LInv, Progress, ListExact
<1>8. CASE last.changes = changes
  <2>1. count = Len(list) /\ offset \in 0..Len(list) /\ tracks = Upto(list, offset, hidden)
    BY <1>1, <1>8 DEF LInv, Progress
  <2>2. tracks' = Upto(list, m, hidden) /\ m \in 0..Len(list)
    BY <1>1, <1>2, <2>1, NextPart DEF NextPage, Known
  <2>3. CASE ends
    <3>1. IsPrefix(tracks', Known(list)) /\ (m = Len(list) => tracks' = Known(list))
      BY <1>2, <2>2, LastPart DEF Known
    <3>2. ASSUME m # Len(list) PROVE CutShort
      <4>1. offset + PageSize < Len(list) /\ Len(NextPage) < PageSize
        BY <1>2, <2>1, <2>3, <3>2 DEF PartEnd
      <4> QED BY <1>2, <1>4, <2>1, <4>1, ShortPage DEF CutShort, NextPage, Known
    <3>3. Known(list)' = Known(list) /\ (CutShort' <=> CutShort) /\ result'.songs = tracks'
      BY <1>1, <2>3 DEF Known, CutShort, Songs
    <3> HIDE DEF m
    <3>4. ListExact'
      BY <1>1, <1>6, <3>1, <3>2, <3>3 DEF ListExact
    <3> QED BY <1>1, <1>2, <1>3, <2>3, <3>4 DEF LInv, Progress
  <2>4. CASE ~ends
    <3>1. m = offset' /\ offset' \in 0..Len(list)
      BY <1>1, <1>2, <2>1, <2>4 DEF PartEnd
    <3> HIDE DEF m
    <3>2. tracks' = Upto(list, offset', hidden)
      BY ONLY <2>2, <3>1
    <3>3. ask' = "page" /\ external'
      BY ONLY <1>1, <1>2, <2>4
    <3>4. Progress'
      BY ONLY <1>1, <1>5, <1>6, <2>1, <3>1, <3>2, <3>3 DEF Progress
    <3> QED BY ONLY <1>3, <3>3, <3>4 DEF LInv, ListExact
  <2> QED BY <2>3, <2>4
<1> QED BY <1>7, <1>8

LEMMA ListsStep == LInv /\ [ListNext]_listVars => LInv'
<1> SUFFICES ASSUME LInv, [ListNext]_listVars PROVE LInv'
  OBVIOUS
<1> USE DEF LInv, ListKinds
<1>1. CASE UNCHANGED listVars
  BY <1>1 DEF listVars, account, progress, Progress, ListExact, CutShort, Known
<1>2. CASE LikedTracks \/ Playlist
  <2>1. /\ UNCHANGED <<external, list, wanted, changes, offset, result>>
        /\ last'.changes = changes
        /\ ask' = "profile" \/ (ask' = "detail" /\ last'.for = "playlist" /\ external)
    BY <1>2 DEF LikedTracks, Playlist, Begin, account, progress
  <2> QED BY <2>1 DEF Progress, ListExact
<1>3. CASE Profile \/ LikesForBatches
  BY <1>3 DEF Profile, LikesForBatches, account, progress, Progress, ListExact
<1>4. CASE LikesForTurns
  <2>1. CASE list = <<>>
    <3>1. Known(list)' = <<>> /\ list' = <<>>
      BY <1>4, <2>1, WithoutNone DEF LikesForTurns, account, Known
    <3>2. IsPrefix(<<>>, <<>>)
      BY DEF IsPrefix
    <3>3. ask' = "none" /\ result'.songs = <<>> /\ external' = external /\ external
      BY <1>4, <2>1 DEF LikesForTurns, Return, Songs
    <3>4. ListExact'
      BY <3>1, <3>2, <3>3 DEF ListExact
    <3>5. ListKinds'
      BY <1>4 DEF LikesForTurns, account
    <3> QED BY <3>3, <3>4, <3>5 DEF Progress
  <2>2. CASE list # <<>>
    <3>1. Len(list) \in Nat \ {0}
      BY <2>2
    <3>2. /\ ask' = "turn" /\ wanted' = list /\ offset' = 0 /\ tracks' = <<>> /\ external
          /\ UNCHANGED <<external, list, hidden, changes, last>>
      BY <1>4, <2>2 DEF LikesForTurns, account
    <3>3. Upto(list, 0, hidden) = <<>>
      BY UptoNone
    <3>4. tracks' = Upto(list', offset', hidden')
      BY <3>2, <3>3
    <3>5. Progress'
      BY <3>1, <3>2, <3>4 DEF Progress
    <3> QED BY <3>2, <3>5 DEF ListExact
  <2> QED BY <2>1, <2>2
<1>5. CASE Batching
  BY <1>5 DEF Batching, account, progress, Progress, ListExact
<1>6. CASE Batched
  BY <1>6 DEF Batched, account, progress, Progress, ListExact
<1>7. CASE Detail
  <2>1. /\ ask = "detail" /\ ask' = "page" /\ count' = Len(list) /\ offset' = 0 /\ tracks' = <<>>
        /\ UNCHANGED <<external, list, hidden, changes, last, wanted, result>>
    BY <1>7 DEF Detail, account
  <2>2. Upto(list, 0, hidden) = <<>> /\ Len(list) \in Nat
    BY UptoNone, LenProperties
  <2>3. 0 = 0 * PageSize
    BY ListsAssumption
  <2> QED BY <2>1, <2>2, <2>3 DEF Progress, ListExact
<1>8. CASE AskFails
  BY <1>8 DEF AskFails, Return, Failed, account, progress, Progress, ListExact
<1>9. CASE Change
  <2>1. list' \in Seq(Ids) /\ changes' = changes + 1 /\ last'.changes # changes'
    <3>1. list' \in Lists /\ changes' = changes + 1 /\ last' = last
      BY <1>9 DEF Change
    <3> QED BY <3>1, ListsAreSeqs
  <2>2. UNCHANGED <<external, ask, wanted, offset, result, last>>
    BY <1>9 DEF Change, progress
  <2> QED BY <2>1, <2>2 DEF Progress, ListExact
<1> QED BY <1>1, <1>2, <1>3, <1>4, <1>5, <1>6, <1>7, <1>8, <1>9, TurnLists, PageLists DEF ListNext

\* Whatever the sizes of turns and pages: a list that stays as it is comes whole,
\* in its order and each song once, but for a playlist with a page that a song
\* taken down leaves short, of which it is the beginning.
THEOREM ListsAreExact == ListSpec => []ListExact
<1>1. LInv => ListExact
  BY DEF LInv
<1> QED BY <1>1, ListsInit, ListsStep, PTL DEF ListSpec
===================================================================================
