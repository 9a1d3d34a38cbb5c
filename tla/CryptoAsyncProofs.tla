--------------------------- MODULE CryptoAsyncProofs ---------------------------
(***************************************************************************)
(* The items of CryptoAsync go round without a loss, and its lists are a   *)
(* queue of jobs, with any number of threads, jobs and items.              *)
(***************************************************************************)
EXTENDS CryptoAsync, FiniteSetTheorems, SequenceTheorems, TLAPS

Labels == {"idle", "alloc", "push", "queue", "put", "wake", "check", "asleep"}

TypeOK ==
    /\ free \in Nat /\ lost \in Nat
    /\ itemcount \in 0..MaxRing
    /\ todo \in Seq(Jobs) /\ done \in Seq(Jobs) /\ tmp \in Seq(Jobs)
    /\ pending \in BOOLEAN
    /\ worker \in {"idle", "busy", "wake"}
    /\ pc \in [Threads -> Labels]
    /\ job \in [Threads -> Jobs \cup {NoJob}]
    /\ watch \in [Threads -> {"in", "out"}]
    /\ waiters \subseteq Threads

\* The threads that have an item in hand, which has a job in it.
Hands == {t \in Threads : pc[t] \in {"alloc", "push", "put"}}
HandInv == \A t \in Threads : job[t] \in Jobs <=> t \in Hands

\* cryptask_routine has jobs only while it runs them.
WorkerInv == worker # "busy" => tmp = <<>>

Inv == TypeOK /\ HandInv /\ WorkerInv /\ ItemsAreSomewhere

-------------------------------------------------------------------------------
(***************************************************************************)
(* The items in hand, as one thread takes one or gives one back.           *)
(***************************************************************************)
LEMMA HandsAreCounted ==
  /\ InHand = Cardinality(Hands) /\ IsFiniteSet(Hands) /\ InHand \in Nat
  /\ (\E t \in Threads : t \in Hands) => InHand > 0
<1>1. InHand = Cardinality(Hands)
  BY DEF InHand, Hands
<1>2. IsFiniteSet(Hands)
  BY ThreadsAssumption, FS_Subset DEF Hands
<1> QED
  BY <1>1, <1>2, FS_CardinalityType, FS_EmptySet

LEMMA HandsMove ==
  ASSUME TypeOK, NEW t \in Threads, NEW l \in Labels, Goto(t, l)
  PROVE  /\ pc' \in [Threads -> Labels]
         /\ t \in Hands' <=> l \in {"alloc", "push", "put"}
         /\ \A u \in Threads \ {t} : u \in Hands' <=> u \in Hands
         /\ InHand' = IF t \in Hands
                      THEN IF l \in {"alloc", "push", "put"} THEN InHand ELSE InHand - 1
                      ELSE IF l \in {"alloc", "push", "put"} THEN InHand + 1 ELSE InHand
<1>1. pc \in [Threads -> Labels]
  BY DEF TypeOK
<1>2. pc' = [pc EXCEPT ![t] = l]
  BY DEF Goto
<1>3. /\ pc' \in [Threads -> Labels]
      /\ t \in Hands' <=> l \in {"alloc", "push", "put"}
      /\ \A u \in Threads \ {t} : u \in Hands' <=> u \in Hands
  BY <1>1, <1>2 DEF Hands
<1>4. Hands' = IF l \in {"alloc", "push", "put"} THEN Hands \cup {t} ELSE Hands \ {t}
  BY <1>3 DEF Hands
<1>5. InHand = Cardinality(Hands) /\ IsFiniteSet(Hands) /\ InHand' = Cardinality(Hands')
  BY HandsAreCounted DEF InHand, Hands
<1>6. t \in Hands => Hands \cup {t} = Hands
  OBVIOUS
<1>7. t \notin Hands => Hands \ {t} = Hands
  OBVIOUS
<1>8. /\ Cardinality(Hands \cup {t}) = IF t \in Hands THEN InHand ELSE InHand + 1
      /\ Cardinality(Hands \ {t}) = IF t \in Hands THEN InHand - 1 ELSE InHand
  BY <1>5, FS_AddElement, FS_RemoveElement
<1> QED
  BY <1>3, <1>4, <1>5, <1>8

LEMMA HandsStay ==
  ASSUME pc' = pc
  PROVE  Hands' = Hands /\ InHand' = InHand
  BY DEF Hands, InHand

LEMMA PendingStays ==
  ASSUME TypeOK, pending' = pending
  PROVE  pending' \in BOOLEAN
  BY Zenon DEF TypeOK

LEMMA Lengths ==
  ASSUME TypeOK
  PROVE  Len(todo) \in Nat /\ Len(done) \in Nat /\ Len(tmp) \in Nat
  BY LenProperties DEF TypeOK

LEMMA InvInit == Init => Inv
<1> SUFFICES ASSUME Init PROVE Inv
  OBVIOUS
<1>0. pending \in BOOLEAN
  BY Zenon DEF Init
<1>1. TypeOK
  BY <1>0, RingAssumption DEF Init, Open, TypeOK, Labels
<1>2. HandInv /\ WorkerInv
  BY JobsAssumption DEF Init, Open, HandInv, WorkerInv, Hands
<1>3. Hands = {}
  BY DEF Init, Hands
<1>4. InHand = 0
  BY <1>3, HandsAreCounted, FS_EmptySet
<1>5. ItemsAreSomewhere
  BY <1>4, RingAssumption DEF Init, Open, ItemsAreSomewhere
<1> QED
  BY <1>1, <1>2, <1>5 DEF Inv

(***************************************************************************)
(* The steps of a thread                                                   *)
(***************************************************************************)
LEMMA TakeItemKeeps ==
  ASSUME Inv, NEW t \in Threads, TakeItem(t)
  PROVE  Inv'
<1>1. PICK j \in Jobs : job' = [job EXCEPT ![t] = j]
  BY DEF TakeItem
<1>2. /\ pc[t] = "idle" /\ t \notin Hands
      /\ todo' = todo /\ done' = done /\ tmp' = tmp /\ lost' = lost
      /\ pending' = pending /\ worker' = worker /\ watch' = watch /\ waiters' = waiters
  BY DEF TakeItem, Hands, polling
<1>3. \/ free > 0 /\ free' = free - 1 /\ itemcount' = itemcount /\ Goto(t, "push")
      \/ itemcount < MaxRing /\ itemcount' = itemcount + 1 /\ free' = free /\ Goto(t, "alloc")
  BY DEF TakeItem
<1>4. /\ pc' \in [Threads -> Labels] /\ t \in Hands' /\ InHand' = InHand + 1
      /\ \A u \in Threads \ {t} : u \in Hands' <=> u \in Hands
  BY <1>2, <1>3, HandsMove DEF Inv, Labels
<1>5. TypeOK'
  <2>1. free' \in Nat /\ itemcount' \in 0..MaxRing
    BY <1>3, RingAssumption DEF Inv, TypeOK
  <2>2. job' \in [Threads -> Jobs \cup {NoJob}]
    BY <1>1 DEF Inv, TypeOK
  <2> QED
    BY <1>2, <1>4, <2>1, <2>2, PendingStays DEF Inv, TypeOK
<1>6. HandInv' /\ WorkerInv'
  BY <1>1, <1>2, <1>4 DEF Inv, TypeOK, HandInv, WorkerInv
<1>7. ItemsAreSomewhere'
  <2>1. /\ free \in Nat /\ itemcount \in Nat /\ lost \in Nat /\ InHand \in Nat
        /\ Len(todo) \in Nat /\ Len(done) \in Nat /\ Len(tmp) \in Nat
    BY HandsAreCounted, Lengths DEF Inv, TypeOK
  <2>2. free + Len(todo) + Len(tmp) + Len(done) + InHand + lost = itemcount
    BY DEF Inv, ItemsAreSomewhere
  <2>3. free' + Len(todo) + Len(tmp) + Len(done) + (InHand + 1) + lost = itemcount'
    <3>1. \/ free' = free - 1 /\ itemcount' = itemcount
          \/ free' = free /\ itemcount' = itemcount + 1
      BY <1>3
    <3>2. PICK a \in Nat, b \in Nat, c \in Nat, d \in Nat :
             a = Len(todo) /\ b = Len(tmp) /\ c = Len(done) /\ d = InHand
      BY <2>1
    <3>3. free + a + b + c + d + lost = itemcount
      BY <2>2, <3>2
    <3>4. free \in Nat /\ itemcount \in Nat /\ lost \in Nat
      BY <2>1
    <3>5. free' + a + b + c + (d + 1) + lost = itemcount'
      BY <3>1, <3>3, <3>4
    <3> QED
      BY <3>2, <3>5
  <2> QED
    BY <1>2, <1>4, <2>3 DEF ItemsAreSomewhere
<1> QED
  BY <1>5, <1>6, <1>7 DEF Inv

LEMMA AllocKeeps ==
  ASSUME Inv, NEW t \in Threads, Alloc(t)
  PROVE  Inv'
<1>1. /\ pc[t] = "alloc" /\ t \in Hands
      /\ free' = free /\ todo' = todo /\ done' = done /\ tmp' = tmp
      /\ itemcount' = itemcount /\ pending' = pending /\ worker' = worker
      /\ watch' = watch /\ waiters' = waiters
  BY DEF Alloc, Hands, polling
<1>2. CASE Goto(t, "push") /\ lost' = lost /\ job' = job
  <2>1. /\ pc' \in [Threads -> Labels] /\ t \in Hands' /\ InHand' = InHand
        /\ \A u \in Threads \ {t} : u \in Hands' <=> u \in Hands
    BY <1>1, <1>2, HandsMove DEF Inv, Labels
  <2> QED
    BY <1>1, <1>2, <2>1 DEF Inv, TypeOK, HandInv, WorkerInv, ItemsAreSomewhere
<1>3. CASE Goto(t, "idle") /\ lost' = lost + 1 /\ job' = [job EXCEPT ![t] = NoJob]
  <2>1. /\ pc' \in [Threads -> Labels] /\ t \notin Hands' /\ InHand' = InHand - 1
        /\ \A u \in Threads \ {t} : u \in Hands' <=> u \in Hands
    BY <1>1, <1>3, HandsMove DEF Inv, Labels
  <2>2. TypeOK'
    <3>1. lost' \in Nat
      BY <1>3 DEF Inv, TypeOK
    <3>2. job' \in [Threads -> Jobs \cup {NoJob}]
      BY <1>3 DEF Inv, TypeOK
    <3> QED
      BY <1>1, <2>1, <3>1, <3>2, PendingStays DEF Inv, TypeOK
  <2>3. HandInv' /\ WorkerInv'
    BY <1>1, <1>3, <2>1, JobsAssumption DEF Inv, TypeOK, HandInv, WorkerInv
  <2>4. ItemsAreSomewhere'
    BY <1>1, <1>3, <2>1, HandsAreCounted, Lengths
    DEF Inv, TypeOK, ItemsAreSomewhere
  <2> QED
    BY <2>2, <2>3, <2>4 DEF Inv
<1> QED
  BY <1>2, <1>3 DEF Alloc

LEMMA PushKeeps ==
  ASSUME Inv, NEW t \in Threads, Push(t)
  PROVE  Inv'
<1>1. /\ pc[t] = "push" /\ t \in Hands /\ Goto(t, "queue")
      /\ todo' = Append(todo, job[t]) /\ job' = [job EXCEPT ![t] = NoJob]
      /\ free' = free /\ done' = done /\ tmp' = tmp /\ itemcount' = itemcount
      /\ lost' = lost /\ pending' = pending /\ worker' = worker
      /\ watch' = watch /\ waiters' = waiters
  BY DEF Push, Hands, polling
<1>2. job[t] \in Jobs /\ todo \in Seq(Jobs)
  BY <1>1 DEF Inv, HandInv, TypeOK
<1>3. todo' \in Seq(Jobs) /\ Len(todo') = Len(todo) + 1
  BY <1>1, <1>2, AppendProperties
<1>4. /\ pc' \in [Threads -> Labels] /\ t \notin Hands' /\ InHand' = InHand - 1
      /\ \A u \in Threads \ {t} : u \in Hands' <=> u \in Hands
  BY <1>1, HandsMove DEF Inv, Labels
<1>5. TypeOK'
  BY <1>1, <1>3, <1>4, PendingStays DEF Inv, TypeOK
<1>6. HandInv' /\ WorkerInv'
  BY <1>1, <1>4, JobsAssumption DEF Inv, TypeOK, HandInv, WorkerInv
<1>7. ItemsAreSomewhere'
  BY <1>1, <1>3, <1>4, HandsAreCounted, Lengths DEF Inv, TypeOK, ItemsAreSomewhere
<1> QED
  BY <1>5, <1>6, <1>7 DEF Inv

LEMMA FetchKeeps ==
  ASSUME Inv, NEW t \in Threads, Fetch(t)
  PROVE  Inv'
<1>1. /\ pc[t] = "idle" /\ t \notin Hands /\ Goto(t, "put") /\ done # <<>>
      /\ done' = Tail(done) /\ job' = [job EXCEPT ![t] = Head(done)]
      /\ free' = free /\ todo' = todo /\ tmp' = tmp /\ itemcount' = itemcount
      /\ lost' = lost /\ pending' = pending /\ worker' = worker
      /\ watch' = watch /\ waiters' = waiters
  BY DEF Fetch, Hands, polling
<1>2. Head(done) \in Jobs /\ done' \in Seq(Jobs) /\ Len(done') = Len(done) - 1
  BY <1>1, HeadTailProperties DEF Inv, TypeOK
<1>3. /\ pc' \in [Threads -> Labels] /\ t \in Hands' /\ InHand' = InHand + 1
      /\ \A u \in Threads \ {t} : u \in Hands' <=> u \in Hands
  BY <1>1, HandsMove DEF Inv, Labels
<1>4. TypeOK'
  BY <1>1, <1>2, <1>3, PendingStays DEF Inv, TypeOK
<1>5. HandInv' /\ WorkerInv'
  BY <1>1, <1>2, <1>3 DEF Inv, TypeOK, HandInv, WorkerInv
<1>6. ItemsAreSomewhere'
  BY <1>1, <1>2, <1>3, HandsAreCounted, Lengths DEF Inv, TypeOK, ItemsAreSomewhere
<1> QED
  BY <1>4, <1>5, <1>6 DEF Inv

LEMMA PutItemKeeps ==
  ASSUME Inv, NEW t \in Threads, PutItem(t)
  PROVE  Inv'
<1>1. /\ pc[t] = "put" /\ t \in Hands /\ Goto(t, "wake")
      /\ free' = free + 1 /\ job' = [job EXCEPT ![t] = NoJob]
      /\ todo' = todo /\ done' = done /\ tmp' = tmp /\ itemcount' = itemcount
      /\ lost' = lost /\ pending' = pending /\ worker' = worker
      /\ watch' = watch /\ waiters' = waiters
  BY DEF PutItem, Hands, polling
<1>2. /\ pc' \in [Threads -> Labels] /\ t \notin Hands' /\ InHand' = InHand - 1
      /\ \A u \in Threads \ {t} : u \in Hands' <=> u \in Hands
  BY <1>1, HandsMove DEF Inv, Labels
<1>3. TypeOK'
  <2>1. free' \in Nat
    BY <1>1 DEF Inv, TypeOK
  <2>2. job' \in [Threads -> Jobs \cup {NoJob}]
    BY <1>1 DEF Inv, TypeOK
  <2> QED
    BY <1>1, <1>2, <2>1, <2>2, PendingStays DEF Inv, TypeOK
<1>4. HandInv' /\ WorkerInv'
  BY <1>1, <1>2, JobsAssumption DEF Inv, TypeOK, HandInv, WorkerInv
<1>5. ItemsAreSomewhere'
  BY <1>1, <1>2, HandsAreCounted, Lengths DEF Inv, TypeOK, ItemsAreSomewhere
<1> QED
  BY <1>3, <1>4, <1>5 DEF Inv

\* Polling and waking move no item.
LEMMA PollKeeps ==
  ASSUME Inv, NEW t \in Threads,
         \/ QueueWork(t) \/ WakeOut(t) \/ Poll(t) \/ Check(t) \/ Woken(t) \/ PollEnds(t)
  PROVE  Inv' /\ UNCHANGED lists
<1>1. UNCHANGED lists /\ UNCHANGED <<worker, job>> /\ t \notin Hands
  BY DEF QueueWork, WakeOut, Poll, Check, Woken, PollEnds, Hands, polling
<1>2. PICK l \in {"idle", "check", "asleep"} : Goto(t, l)
  BY DEF QueueWork, WakeOut, Poll, Check, Woken, PollEnds
<1>3. pending' \in BOOLEAN
  <2>1. pending' = pending \/ pending' = TRUE
    BY DEF QueueWork, WakeOut, Poll, Check, Woken, PollEnds
  <2> QED
    BY <2>1, Zenon DEF Inv, TypeOK
<1>4. watch' \in [Threads -> {"in", "out"}] /\ waiters' \subseteq Threads
  BY DEF Inv, TypeOK, QueueWork, WakeOut, Poll, Check, Woken, PollEnds, polling
<1>5. /\ pc' \in [Threads -> Labels] /\ InHand' = InHand
      /\ \A u \in Threads : u \in Hands' <=> u \in Hands
  BY <1>1, <1>2, HandsMove DEF Inv, Labels
<1>6. TypeOK'
  BY <1>1, <1>3, <1>4, <1>5 DEF lists, Inv, TypeOK
<1>7. HandInv' /\ WorkerInv' /\ ItemsAreSomewhere'
  BY <1>1, <1>5 DEF lists, Inv, HandInv, WorkerInv, ItemsAreSomewhere
<1> QED
  BY <1>1, <1>6, <1>7 DEF Inv

(***************************************************************************)
(* The work queue and the release                                          *)
(***************************************************************************)
LEMMA WorkerKeeps ==
  ASSUME Inv, WorkerStep
  PROVE  Inv'
<1>1. /\ pc' = pc /\ job' = job /\ watch' = watch /\ free' = free
      /\ itemcount' = itemcount /\ lost' = lost
  BY DEF WorkerStep, TakeJobs, PushDone, WakeIn, lists, polling
<1>2. Hands' = Hands /\ InHand' = InHand
  BY <1>1, HandsStay
<1>3. HandInv'
  BY <1>1, <1>2 DEF Inv, HandInv
<1>4. pending' \in BOOLEAN
  <2>1. pending' = pending \/ pending' = FALSE
    BY DEF WorkerStep, TakeJobs, PushDone, WakeIn
  <2> QED
    BY <2>1, Zenon DEF Inv, TypeOK
<1>5. waiters' \subseteq Threads
  BY DEF Inv, TypeOK, WorkerStep, TakeJobs, PushDone, WakeIn, polling
<1>6. CASE TakeJobs
  <2>1. tmp = <<>> /\ tmp' = todo /\ todo' = <<>> /\ done' = done /\ worker' = "busy"
    BY <1>6 DEF Inv, WorkerInv, TakeJobs
  <2>2. TypeOK'
    BY <1>1, <1>4, <1>5, <2>1 DEF Inv, TypeOK
  <2>3. WorkerInv' /\ ItemsAreSomewhere'
    BY <1>1, <1>2, <2>1, HandsAreCounted, Lengths
    DEF Inv, TypeOK, WorkerInv, ItemsAreSomewhere
  <2> QED
    BY <1>3, <2>2, <2>3 DEF Inv
<1>7. CASE PushDone
  <2>1. tmp' = <<>> /\ todo' = todo /\ done' = done \o tmp /\ worker' = "wake"
    BY <1>7 DEF PushDone
  <2>2. done' \in Seq(Jobs) /\ Len(done') = Len(done) + Len(tmp)
    BY <2>1, ConcatProperties DEF Inv, TypeOK
  <2>3. TypeOK'
    BY <1>1, <1>4, <1>5, <2>1, <2>2 DEF Inv, TypeOK
  <2>4. WorkerInv' /\ ItemsAreSomewhere'
    BY <1>1, <1>2, <2>1, <2>2, HandsAreCounted, Lengths
    DEF Inv, TypeOK, WorkerInv, ItemsAreSomewhere
  <2> QED
    BY <1>3, <2>3, <2>4 DEF Inv
<1>8. CASE WakeIn
  <2>1. UNCHANGED lists /\ worker = "wake" /\ worker' = "idle"
    BY <1>8 DEF WakeIn
  <2>2. TypeOK'
    BY <1>1, <1>4, <1>5, <2>1 DEF lists, Inv, TypeOK
  <2>3. WorkerInv' /\ ItemsAreSomewhere'
    BY <1>2, <2>1 DEF lists, Inv, WorkerInv, ItemsAreSomewhere
  <2> QED
    BY <1>3, <2>2, <2>3 DEF Inv
<1> QED
  BY <1>6, <1>7, <1>8 DEF WorkerStep

LEMMA ReleaseKeeps ==
  ASSUME Inv, Release
  PROVE  Inv'
<1>1. /\ pc' = pc /\ job' = job /\ watch' = watch /\ waiters' = waiters
      /\ worker' = worker /\ tmp' = tmp /\ tmp = <<>>
      /\ free' = DefRing /\ itemcount' = DefRing /\ lost' = 0
      /\ todo' = <<>> /\ done' = <<>>
  BY DEF Release, polling, Inv, WorkerInv
<1>2. Hands = {}
  BY DEF Release, Hands
<1>3. Hands' = {} /\ InHand' = 0
  BY <1>1, <1>2, HandsStay, HandsAreCounted, FS_EmptySet
<1>4. pending' \in BOOLEAN
  BY Zenon DEF Release
<1>5. TypeOK'
  BY <1>1, <1>4, RingAssumption DEF Inv, TypeOK
<1>6. HandInv' /\ WorkerInv' /\ ItemsAreSomewhere'
  BY <1>1, <1>2, <1>3, RingAssumption DEF Inv, HandInv, WorkerInv, ItemsAreSomewhere
<1> QED
  BY <1>5, <1>6 DEF Inv

LEMMA InvStep ==
  ASSUME Inv, [Next]_vars
  PROVE  Inv'
<1>1. CASE UNCHANGED vars
  <2>1. Hands' = Hands /\ InHand' = InHand
    BY <1>1, HandsStay DEF vars
  <2> QED
    BY <1>1, <2>1 DEF vars, Inv, TypeOK, HandInv, WorkerInv, ItemsAreSomewhere
<1>2. ASSUME NEW t \in Threads,
             Step(t) \/ TakeItem(t) \/ Fetch(t) \/ Poll(t) \/ PollEnds(t)
      PROVE  Inv'
  BY <1>2, TakeItemKeeps, AllocKeeps, PushKeeps, FetchKeeps, PutItemKeeps, PollKeeps DEF Step
<1> QED
  BY <1>1, <1>2, WorkerKeeps, ReleaseKeeps DEF Next

\* A thread has a job while it has an item in hand, cryptask_routine only while
\* it runs, and every item counted is somewhere.
THEOREM Invariance == Spec => []Inv
  BY InvInit, InvStep, PTL DEF Spec

\* The lists and the calls keep their types, with never more than MaxRing items.
THEOREM Typed == Spec => []TypeOK
<1>1. Inv => TypeOK
  BY DEF Inv
<1> QED
  BY <1>1, Invariance, PTL

\* Every item that crypto_async_run has counted is on one list, in the hand of
\* one call, with cryptask_routine, or was never allocated.
THEOREM ItemsAreAlwaysSomewhere == Spec => []ItemsAreSomewhere
<1>1. Inv => ItemsAreSomewhere
  BY DEF Inv
<1> QED
  BY <1>1, Invariance, PTL

-------------------------------------------------------------------------------
(***************************************************************************)
(* The lists are a queue: done, what cryptask_routine has, and todo, one   *)
(* after the other.                                                        *)
(***************************************************************************)
given == done \o tmp \o todo

LEMMA TailOfConcat ==
  ASSUME NEW S, NEW q \in Seq(S), NEW r \in Seq(S), q # <<>>
  PROVE  q \o r # <<>> /\ Tail(q \o r) = Tail(q) \o r
<1>1. /\ Len(q) \in Nat \ {0} /\ Len(r) \in Nat
      /\ Tail(q) \in Seq(S) /\ Len(Tail(q)) = Len(q) - 1
  BY EmptySeq, LenProperties, HeadTailProperties
<1>2. q \o r \in Seq(S) /\ Len(q \o r) = Len(q) + Len(r)
  BY ConcatProperties
<1>3. q \o r # <<>>
  BY <1>1, <1>2, EmptySeq
<1>4. /\ Tail(q \o r) \in Seq(S) /\ Len(Tail(q \o r)) = Len(q) + Len(r) - 1
      /\ Tail(q) \o r \in Seq(S) /\ Len(Tail(q) \o r) = Len(q) + Len(r) - 1
  BY <1>1, <1>2, <1>3, HeadTailProperties, ConcatProperties
<1>5. ASSUME NEW i \in 1..(Len(q) + Len(r) - 1)
      PROVE  Tail(q \o r)[i] = (Tail(q) \o r)[i]
  <2>1. Tail(q \o r)[i] = (q \o r)[i + 1]
    BY <1>1, <1>2, <1>3, <1>4, <1>5, HeadTailProperties
  <2>2. (q \o r)[i + 1] = IF i + 1 <= Len(q) THEN q[i + 1] ELSE r[i + 1 - Len(q)]
    BY <1>1, <1>5, ConcatProperties
  <2>3. (Tail(q) \o r)[i] = IF i <= Len(q) - 1 THEN Tail(q)[i] ELSE r[i - (Len(q) - 1)]
    BY <1>1, <1>5, ConcatProperties
  <2>4. i <= Len(q) - 1 => Tail(q)[i] = q[i + 1]
    BY <1>1, <1>5, HeadTailProperties
  <2>5. (i + 1 <= Len(q) <=> i <= Len(q) - 1) /\ i + 1 - Len(q) = i - (Len(q) - 1)
    BY <1>1, <1>5
  <2> QED
    BY <2>1, <2>2, <2>3, <2>4, <2>5
<1> QED
  BY <1>3, <1>4, <1>5, SeqEqual

LEMMA Given ==
  ASSUME TypeOK
  PROVE  given \in Seq(Jobs) /\ Len(given) = Len(done) + Len(tmp) + Len(todo)
<1>1. done \o tmp \in Seq(Jobs) /\ Len(done \o tmp) = Len(done) + Len(tmp)
  BY ConcatProperties DEF TypeOK
<1> QED
  BY <1>1, ConcatProperties DEF TypeOK, given

\* Joining three sequences of jobs, from either end.
LEMMA ConcatsAgree ==
  ASSUME NEW q \in Seq(Jobs), NEW r \in Seq(Jobs), NEW x \in Seq(Jobs)
  PROVE  (q \o r) \o x = q \o (r \o x)
  OBVIOUS

LEMMA PushGives ==
  ASSUME Inv, NEW t \in Threads, Push(t)
  PROVE  Queue!Give(job[t]) /\ job[t] \in Jobs
<1>1. job[t] \in Jobs /\ \E u \in Threads : u \in Hands
  BY DEF Push, Inv, HandInv, Hands
<1>2. Len(given) < MaxRing
  <2>1. /\ free \in Nat /\ lost \in Nat /\ itemcount \in 0..MaxRing
        /\ InHand \in Nat /\ InHand > 0
        /\ Len(todo) \in Nat /\ Len(done) \in Nat /\ Len(tmp) \in Nat
    BY <1>1, HandsAreCounted, Lengths DEF Inv, TypeOK
  <2>2. free + Len(todo) + Len(tmp) + Len(done) + InHand + lost = itemcount
    BY DEF Inv, ItemsAreSomewhere
  <2>3. Len(done) + Len(tmp) + Len(todo) < MaxRing
    BY <2>1, <2>2, RingAssumption
  <2> QED
    BY <2>3, Given DEF Inv
<1>3. given' = Append(given, job[t])
  <2>1. /\ done \o tmp \in Seq(Jobs) /\ todo \in Seq(Jobs)
        /\ given \in Seq(Jobs) /\ <<job[t]>> \in Seq(Jobs)
    BY <1>1, ConcatProperties, Given DEF Inv, TypeOK
  <2>2. given' = (done \o tmp) \o (todo \o <<job[t]>>)
    BY <1>1, <2>1, AppendIsConcat DEF given, Push
  <2>3. given' = given \o <<job[t]>>
    <3>1. PICK q, x : q = done \o tmp /\ x = <<job[t]>>
      OBVIOUS
    <3>2. (q \o todo) \o x = q \o (todo \o x)
      <4>1. q \in Seq(Jobs) /\ todo \in Seq(Jobs) /\ x \in Seq(Jobs)
        BY <2>1, <3>1
      <4> QED
        BY <4>1, ConcatsAgree
    <3>3. given = q \o todo
      BY <3>1 DEF given
    <3> QED
      BY <2>2, <3>1, <3>2, <3>3
  <2> QED
    BY <1>1, <2>1, <2>3, AppendIsConcat
<1>4. Len(done)' = Len(done)
  BY DEF Push
<1> QED
  BY <1>1, <1>2, <1>3, <1>4 DEF Queue!Give, given

LEMMA FetchFetches ==
  ASSUME Inv, NEW t \in Threads, Fetch(t)
  PROVE  Queue!Fetch
<1>1. /\ done \in Seq(Jobs) /\ done # <<>> /\ done' = Tail(done)
      /\ tmp' = tmp /\ todo' = todo /\ tmp \in Seq(Jobs) /\ todo \in Seq(Jobs)
  BY DEF Fetch, Inv, TypeOK
<1>2. /\ Len(done) > 0 /\ Len(done') = Len(done) - 1 /\ done' \in Seq(Jobs)
  BY <1>1, HeadTailProperties, EmptySeq, LenProperties
<1>3. Tail(done \o tmp) = Tail(done) \o tmp /\ done \o tmp # <<>> /\ done \o tmp \in Seq(Jobs)
  BY <1>1, <1>2, ConcatProperties, TailOfConcat, Zenon
<1>4. given' = Tail(given)
  <2>1. PICK q : q = done \o tmp
    OBVIOUS
  <2>2. Tail(q \o todo) = Tail(q) \o todo
    BY <1>1, <1>3, <2>1, TailOfConcat
  <2>3. given = q \o todo
    BY <2>1 DEF given
  <2>4. given' = Tail(q) \o todo
    BY <1>1, <1>3, <2>1 DEF given
  <2> QED
    BY <2>2, <2>3, <2>4
<1> QED
  BY <1>2, <1>4 DEF Queue!Fetch, given

LEMMA WorkerFinishes ==
  ASSUME Inv, WorkerStep
  PROVE  Queue!Finish \/ UNCHANGED Queue!queueVars
<1>1. /\ done \in Seq(Jobs) /\ tmp \in Seq(Jobs) /\ todo \in Seq(Jobs)
      /\ Len(done) \in Nat /\ Len(tmp) \in Nat /\ Len(todo) \in Nat
  BY Lengths DEF Inv, TypeOK
<1>2. CASE TakeJobs
  <2>1. tmp = <<>> /\ tmp' = todo /\ todo' = <<>> /\ done' = done
    BY <1>2 DEF Inv, WorkerInv, TakeJobs
  <2>2. done \o todo \in Seq(Jobs)
    BY <1>1, ConcatProperties
  <2>3. given' = done \o todo /\ given = done \o todo
    BY <1>1, <2>1, <2>2, ConcatEmptySeq DEF given
  <2> QED
    BY <2>1, <2>3 DEF Queue!queueVars, given
<1>3. CASE PushDone
  <2>1. tmp' = <<>> /\ todo' = todo /\ done' = done \o tmp
    BY <1>3 DEF PushDone
  <2>2. done \o tmp \in Seq(Jobs) /\ Len(done') = Len(done) + Len(tmp)
    BY <1>1, <2>1, ConcatProperties
  <2>3. given' = given
    BY <2>1, <2>2, ConcatEmptySeq DEF given
  <2>4. CASE Len(tmp) = 0
    BY <1>1, <2>2, <2>3, <2>4 DEF Queue!queueVars, given
  <2>5. CASE Len(tmp) # 0
    <3>1. Len(given) = Len(done) + Len(tmp) + Len(todo)
      BY Given DEF Inv
    <3>2. Len(done) < Len(given) /\ Len(done') \in (Len(done) + 1)..Len(given)
      BY <1>1, <2>2, <2>5, <3>1
    <3> QED
      BY <2>3, <3>2 DEF Queue!Finish, given
  <2> QED
    BY <2>4, <2>5
<1>4. CASE WakeIn
  BY <1>4 DEF WakeIn, lists, Queue!queueVars
<1> QED
  BY <1>2, <1>3, <1>4 DEF WorkerStep

\* The calls, the work queue and the close of the file are steps of a queue
\* that gives back every job once, in order, and holds MaxRing of them.
THEOREM ListsAreAQueue == Spec => ImplementsQueue
<1>1. Init => Queue!Init
  <2> SUFFICES ASSUME Init PROVE Queue!Init
    OBVIOUS
  <2>1. done = <<>> /\ tmp = <<>> /\ todo = <<>> /\ <<>> \in Seq(Jobs)
    BY DEF Init, Open
  <2>2. done \o tmp \o todo = <<>> /\ Len(done) = 0
    BY <2>1, ConcatEmptySeq
  <2> QED
    BY <2>2 DEF Queue!Init
<1>2. ASSUME Inv, [Next]_vars PROVE [Queue!Next]_(Queue!queueVars)
  <2>1. CASE UNCHANGED vars
    BY <2>1 DEF vars, Queue!queueVars
  <2>2. ASSUME NEW t \in Threads,
               Step(t) \/ TakeItem(t) \/ Fetch(t) \/ Poll(t) \/ PollEnds(t)
        PROVE  Queue!Next \/ UNCHANGED Queue!queueVars
    <3>1. CASE Push(t)
      BY <1>2, <3>1, PushGives DEF Queue!Next
    <3>2. CASE Fetch(t)
      BY <1>2, <3>2, FetchFetches DEF Queue!Next
    <3>3. CASE TakeItem(t) \/ Alloc(t) \/ PutItem(t)
      BY <3>3 DEF TakeItem, Alloc, PutItem, Queue!queueVars
    <3>4. CASE \/ QueueWork(t) \/ WakeOut(t) \/ Poll(t) \/ Check(t) \/ Woken(t)
               \/ PollEnds(t)
      BY <1>2, <3>4, PollKeeps DEF lists, Queue!queueVars
    <3> QED
      BY <2>2, <3>1, <3>2, <3>3, <3>4 DEF Step
  <2>3. CASE Release
    <3>1. done' = <<>> /\ tmp' = <<>> /\ todo' = <<>> /\ <<>> \in Seq(Jobs)
      BY <1>2, <2>3 DEF Release, Inv, WorkerInv
    <3>2. (done \o tmp \o todo)' = <<>> /\ Len(done)' = 0
      BY <3>1, ConcatEmptySeq
    <3> QED
      BY <3>2 DEF Queue!Next, Queue!Close
  <2> QED
    BY <1>2, <2>1, <2>2, <2>3, WorkerFinishes DEF Next, Queue!Next
<1> QED
  BY <1>1, <1>2, Invariance, PTL DEF Spec, ImplementsQueue, Queue!Spec
===============================================================================
