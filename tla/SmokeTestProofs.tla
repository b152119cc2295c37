--------------------------- MODULE SmokeTestProofs ---------------------------
(***************************************************************************)
(* Proofs about SmokeTest.  The load that its producer makes can be told   *)
(* apart and is in order, for any clock, any ages of the events, any       *)
(* number of originals and whatever the rest of the pipeline does.  What   *)
(* the script concludes from its counts, which are sums over the records   *)
(* stored at different moments, is true of the records.                    *)
(***************************************************************************)
EXTENDS SmokeTest, FiniteSetTheorems, WellFoundedInduction, TLAPS

Messages == [event : Nat, sequence : Nat, producedAt : Nat, eventTime : Int,
             tenant : Tenants, duplicate : BOOLEAN, late : BOOLEAN,
             malformed : BOOLEAN]

Copied == {"event", "tenant", "eventTime", "late"}

\* m follows what was sent, an original or the duplicate of the last message.
Follows(s, m) ==
    m.duplicate =>
        /\ Len(s) > 0 /\ ~m.malformed /\ ~s[Len(s)].duplicate
        /\ \A f \in Copied : m[f] = s[Len(s)][f]

\* A load as it should be, whose last message was produced at last.
Orderly(s, last) ==
    /\ s \in Seq(Messages) /\ last \in Nat
    /\ \A i \in 1 .. Len(s) : /\ s[i].sequence = i
                              /\ s[i].producedAt <= last
                              /\ s[i].eventTime <= s[i].producedAt
    /\ \A i, j \in 1 .. Len(s) : i < j =>
          /\ s[i].producedAt < s[j].producedAt
          /\ ~s[j].late => s[j].eventTime >= s[i].eventTime - OutOfOrder
    /\ \A i \in 1 .. Len(s) : s[i].duplicate =>
          /\ i > 1 /\ ~s[i].malformed /\ ~s[i - 1].duplicate
          /\ \A f \in Copied : s[i][f] = s[i - 1][f]

LoadInv == clock \in Times /\ Orderly(sent, lastProducedAt)

\* A message that is later than all, and not too far behind any, keeps order.
LEMMA OrderlyAppend ==
    ASSUME NEW s, NEW last, Orderly(s, last),
           NEW m \in Messages, m.sequence = Len(s) + 1,
           last < m.producedAt, m.eventTime <= m.producedAt, Follows(s, m),
           ~m.late => \A i \in 1 .. Len(s) : m.eventTime >= s[i].eventTime - OutOfOrder
    PROVE  Orderly(Append(s, m), m.producedAt)
<1> DEFINE a == Append(s, m)
<1>1. s \in Seq(Messages) /\ last \in Nat /\ m.producedAt \in Nat
  BY DEF Orderly, Messages
<1>2. PICK n \in Nat : n = Len(s)
  BY <1>1
<1>3. /\ a \in Seq(Messages) /\ Len(a) = n + 1 /\ a[n + 1] = m
      /\ \A i \in 1 .. n : a[i] = s[i]
  BY <1>1, <1>2
<1> HIDE DEF a
<1>4. ASSUME NEW i \in 1 .. n PROVE s[i].producedAt \in Nat
  <2>1. s[i] \in Messages
    BY <1>1, <1>2
  <2> QED
    BY <2>1 DEF Messages
<1>5. \A i \in 1 .. n + 1 : i \in 1 .. n \/ i = n + 1
  BY <1>2
<1>6. ASSUME NEW i \in 1 .. n + 1
      PROVE  /\ a[i].sequence = i /\ a[i].producedAt <= m.producedAt
             /\ a[i].eventTime <= a[i].producedAt
  BY <1>1, <1>2, <1>3, <1>4, <1>5 DEF Orderly
<1>7. ASSUME NEW i \in 1 .. n + 1, NEW j \in 1 .. n + 1, i < j
      PROVE  /\ a[i].producedAt < a[j].producedAt
             /\ ~a[j].late => a[j].eventTime >= a[i].eventTime - OutOfOrder
  <2>1. i \in 1 .. n
    BY <1>2, <1>7
  <2>2. CASE j \in 1 .. n
    BY <1>2, <1>3, <1>7, <2>1, <2>2 DEF Orderly
  <2>3. CASE j = n + 1
    <3>1. s[i].producedAt <= last
      BY <1>2, <2>1 DEF Orderly
    <3>2. s[i].producedAt < m.producedAt
      BY <1>1, <1>4, <2>1, <3>1
    <3>3. ~m.late => m.eventTime >= s[i].eventTime - OutOfOrder
      BY <1>2, <2>1
    <3> QED
      BY <1>3, <2>1, <2>3, <3>2, <3>3
  <2> QED
    BY <1>5, <2>2, <2>3
<1>8. ASSUME NEW i \in 1 .. n + 1, a[i].duplicate
      PROVE  /\ i > 1 /\ ~a[i].malformed /\ ~a[i - 1].duplicate
             /\ \A f \in Copied : a[i][f] = a[i - 1][f]
  <2>1. CASE i \in 1 .. n
    <3>1. /\ i > 1 /\ ~s[i].malformed /\ ~s[i - 1].duplicate
          /\ \A f \in Copied : s[i][f] = s[i - 1][f]
      BY <1>2, <1>3, <1>8, <2>1 DEF Orderly
    <3>2. i - 1 \in 1 .. n
      BY <1>2, <2>1, <3>1
    <3> QED
      BY <1>3, <2>1, <3>1, <3>2
  <2>2. CASE i = n + 1
    <3>1. /\ n > 0 /\ ~m.malformed /\ ~s[n].duplicate
          /\ \A f \in Copied : m[f] = s[n][f]
      BY <1>2, <1>3, <1>8, <2>2 DEF Follows
    <3>2. n \in 1 .. n /\ i - 1 = n /\ i > 1
      BY <1>2, <2>2, <3>1
    <3> QED
      BY <1>3, <2>2, <3>1, <3>2
  <2> QED
    BY <1>5, <2>1, <2>2
<1>9. m.producedAt \in Nat /\ Len(a) = n + 1 /\ a \in Seq(Messages)
  BY <1>1, <1>3
<1> QED
  BY <1>6, <1>7, <1>8, <1>9 DEF Orderly, a

LEMMA ProducedLater ==
    ASSUME clock \in Times, NEW last \in Nat
    PROVE  NextProducedAt(last) \in Nat /\ last < NextProducedAt(last)
BY TimesAssumption DEF NextProducedAt

\* What create_original makes.
LEMMA OriginalProperty ==
    ASSUME LoadInv, NEW t \in Tenants, NEW age \in Ages, NEW m \in BOOLEAN
    PROVE  /\ Original(t, age, m) \in Messages
           /\ Original(t, age, m).sequence = Len(sent) + 1
           /\ lastProducedAt < Original(t, age, m).producedAt
           /\ ~Original(t, age, m).duplicate
           /\ Original(t, age, m).eventTime <= Original(t, age, m).producedAt
           /\ ~Original(t, age, m).late =>
                 Original(t, age, m).eventTime >= Original(t, age, m).producedAt - OutOfOrder
<1> DEFINE at == NextProducedAt(lastProducedAt)
<1>1. sent \in Seq(Messages) /\ lastProducedAt \in Nat /\ clock \in Times
  BY DEF LoadInv, Orderly
<1>2. at \in Nat /\ lastProducedAt < at /\ Len(sent) + 1 \in Nat
  BY <1>1, ProducedLater
<1>3. /\ age \in Nat /\ OutOfOrder \in Nat /\ LateMin \in Nat
      /\ (age >= LateMin) \in BOOLEAN
      /\ ~(age >= LateMin) => age <= OutOfOrder
  BY AgesAssumption DEF Ages
<1> HIDE DEF at
<1>4. PICK late \in BOOLEAN :
         /\ late <=> age >= LateMin
         /\ Original(t, age, m) =
               [event |-> Len(sent) + 1, sequence |-> Len(sent) + 1, producedAt |-> at,
                eventTime |-> at - age, tenant |-> t, duplicate |-> FALSE,
                late |-> late, malformed |-> m]
  BY <1>3 DEF Original, EventTime, at
<1>5. at - age \in Int /\ at - age <= at
  BY <1>2, <1>3
<1>6. ~late => at - age >= at - OutOfOrder
  BY <1>2, <1>3, <1>4
<1> QED
  BY <1>2, <1>3, <1>4, <1>5, <1>6 DEF Messages

\* What create_duplicate makes of it.
LEMMA DuplicateProperty ==
    ASSUME clock \in Times, NEW o \in Messages
    PROVE  /\ Duplicate(o) \in Messages
           /\ Duplicate(o).sequence = o.sequence + 1
           /\ o.producedAt < Duplicate(o).producedAt
           /\ Duplicate(o).duplicate /\ ~Duplicate(o).malformed
           /\ \A f \in Copied : Duplicate(o)[f] = o[f]
<1>1. /\ NextProducedAt(o.producedAt) \in Nat
      /\ o.producedAt < NextProducedAt(o.producedAt) /\ o.sequence + 1 \in Nat
  BY ProducedLater DEF Messages
<1> QED
  BY <1>1 DEF Duplicate, Messages, Copied

LEMMA OriginalKeepsOrder ==
    ASSUME LoadInv, NEW t \in Tenants, NEW age \in Ages, NEW m \in BOOLEAN
    PROVE  Orderly(Append(sent, Original(t, age, m)), Original(t, age, m).producedAt)
<1> DEFINE o == Original(t, age, m)
<1>1. /\ o \in Messages /\ o.sequence = Len(sent) + 1 /\ lastProducedAt < o.producedAt
      /\ ~o.duplicate /\ o.eventTime <= o.producedAt
      /\ ~o.late => o.eventTime >= o.producedAt - OutOfOrder
  BY OriginalProperty
<1> HIDE DEF o
<1>2. Orderly(sent, lastProducedAt)
  BY DEF LoadInv
<1>3. ASSUME ~o.late, NEW i \in 1 .. Len(sent)
      PROVE  o.eventTime >= sent[i].eventTime - OutOfOrder
  <2>1. sent[i].producedAt <= lastProducedAt /\ sent[i].eventTime <= sent[i].producedAt
    BY <1>2 DEF Orderly
  <2>2. sent[i] \in Messages
    BY <1>2 DEF Orderly
  <2>3. /\ sent[i].producedAt \in Nat /\ sent[i].eventTime \in Int
        /\ o.producedAt \in Nat /\ o.eventTime \in Int
        /\ lastProducedAt \in Nat /\ OutOfOrder \in Nat
    BY <1>1, <1>2, <2>2, AgesAssumption DEF Orderly, Messages
  <2> QED
    BY <1>1, <1>3, <2>1, <2>3
<1> QED
  BY <1>1, <1>2, <1>3, OrderlyAppend DEF Follows, o

LEMMA DuplicateKeepsOrder ==
    ASSUME clock \in Times, NEW s \in Seq(Messages), NEW o \in Messages, ~o.duplicate,
           o.sequence = Len(s) + 1, o.eventTime <= o.producedAt,
           Orderly(Append(s, o), o.producedAt)
    PROVE  Orderly(Append(Append(s, o), Duplicate(o)), Duplicate(o).producedAt)
<1> DEFINE a == Append(s, o)
           d == Duplicate(o)
<1>1. PICK n \in Nat : n = Len(s)
  OBVIOUS
<1>2. /\ Len(a) = n + 1 /\ a[n + 1] = o /\ n + 1 > 0
  BY <1>1
<1>3. /\ d \in Messages /\ d.sequence = o.sequence + 1 /\ o.producedAt < d.producedAt
      /\ d.duplicate /\ ~d.malformed /\ \A f \in Copied : d[f] = o[f]
  BY DuplicateProperty
<1>4. Orderly(a, o.producedAt)
  OBVIOUS
<1> HIDE DEF a, d
<1>5. d.eventTime = o.eventTime /\ d.late = o.late
  BY <1>3 DEF Copied
<1>6. o.eventTime \in Int /\ o.producedAt \in Nat /\ d.producedAt \in Nat /\ OutOfOrder \in Nat
  BY <1>3, AgesAssumption DEF Messages
<1>7. ASSUME ~d.late, NEW i \in 1 .. n + 1
      PROVE  d.eventTime >= a[i].eventTime - OutOfOrder
  <2>1. CASE i = n + 1
    BY <1>2, <1>5, <1>6, <2>1
  <2>2. CASE i < n + 1
    <3>1. n + 1 \in 1 .. n + 1
      BY <1>1
    <3> QED
      BY <1>2, <1>4, <1>5, <1>7, <2>2, <3>1 DEF Orderly
  <2> QED
    BY <1>7, <2>1, <2>2
<1>8. Follows(a, d)
  BY <1>2, <1>3 DEF Follows
<1>9. d.sequence = Len(a) + 1 /\ d.eventTime <= d.producedAt
  BY <1>1, <1>2, <1>3, <1>5, <1>6
<1> QED
  BY <1>2, <1>3, <1>4, <1>7, <1>8, <1>9, OrderlyAppend DEF a, d

LEMMA NextBatchKeepsOrder ==
    ASSUME LoadInv, NEW batch \in Batches, NextBatch(batch)
    PROVE  LoadInv'
<1>1. clock' = clock /\ clock \in Times /\ sent \in Seq(Messages)
  BY DEF NextBatch, LoadInv, Orderly
<1>2. PICK t \in Tenants, age \in Ages, m \in BOOLEAN :
         \/ batch = <<Original(t, age, m)>>
         \/ batch = <<Original(t, age, m), Duplicate(Original(t, age, m))>>
  BY DEF Batches
<1> DEFINE o == Original(t, age, m)
           d == Duplicate(o)
<1>3. /\ o \in Messages /\ o.sequence = Len(sent) + 1 /\ ~o.duplicate
      /\ o.eventTime <= o.producedAt
  BY OriginalProperty
<1>4. Orderly(Append(sent, o), o.producedAt)
  BY OriginalKeepsOrder
<1>5. d \in Messages
  BY <1>1, <1>3, DuplicateProperty
<1> HIDE DEF o, d
<1>6. CASE batch = <<o>>
  <2>1. sent' = Append(sent, o) /\ lastProducedAt' = o.producedAt
    BY <1>1, <1>3, <1>6 DEF NextBatch
  <2> QED
    BY <1>1, <1>4, <2>1 DEF LoadInv
<1>7. CASE batch = <<o, d>>
  <2>1. Len(batch) = 2 /\ batch[2] = d
    BY <1>7
  <2>2. sent' = Append(Append(sent, o), d) /\ lastProducedAt' = d.producedAt
    <3>1. sent' = sent \o <<o, d>> /\ lastProducedAt' = d.producedAt
      BY <1>7, <2>1 DEF NextBatch
    <3>2. sent \o <<o, d>> = Append(Append(sent, o), d)
      BY <1>1, <1>3, <1>5
    <3> QED
      BY <3>1, <3>2
  <2>3. Orderly(Append(Append(sent, o), d), d.producedAt)
    BY <1>1, <1>3, <1>4, DuplicateKeepsOrder DEF d
  <2> QED
    BY <1>1, <2>2, <2>3 DEF LoadInv
<1> QED
  BY <1>2, <1>6, <1>7 DEF o, d

LEMMA NothingIsOrderly == Orderly(<<>>, 0)
BY DEF Orderly

LEMMA NextLoadInv == LoadInv /\ [Next]_vars => LoadInv'
<1> SUFFICES ASSUME LoadInv, [Next]_vars PROVE LoadInv'
  OBVIOUS
<1>1. CASE UNCHANGED workloadVars
  BY <1>1 DEF workloadVars, LoadInv
<1>2. CASE Publish
  BY <1>2, NextBatchKeepsOrder DEF Publish
<1>3. CASE ClockMoves
  BY <1>3 DEF ClockMoves, Ticks, LoadInv
<1>4. CASE ProducerExits
  <2>1. sent' = <<>> /\ lastProducedAt' = 0 /\ clock' = FirstTime
    BY <1>4 DEF ProducerExits
  <2>2. FirstTime \in Times
    BY DEF LoadInv, FirstTime
  <2> QED
    BY <2>1, <2>2, NothingIsOrderly DEF LoadInv
<1> QED
  BY <1>1, <1>2, <1>3, <1>4
  DEF Next, Script, Deliver, Replay, OtherProducer, ListOrRun, Before, SampleRaw,
      SampleDlq, SampleRows, Compare, ChecksTheRest, vars

THEOREM LoadInvariant == Spec => []LoadInv
<1>1. Init => LoadInv
  BY NothingIsOrderly DEF Init, WorkloadInit, LoadInv
<1> QED
  BY <1>1, NextLoadInv, PTL DEF Spec

\* Replays are told apart: sequence numbers and production times grow together and
\* a duplicate is a valid copy right behind its original (EventFactory,
\* workload.py), for any load and a clock that stands still or is set back.
THEOREM ReplaysAreVisibleHolds == Spec => []ReplaysAreVisible
<1>1. LoadInv => ReplaysAreVisible
  <2> SUFFICES ASSUME LoadInv, NEW i \in DOMAIN sent, NEW j \in DOMAIN sent
               PROVE  /\ i < j => /\ sent[i].sequence < sent[j].sequence
                                  /\ sent[i].producedAt < sent[j].producedAt
                      /\ sent[i].duplicate =>
                            /\ i > 1 /\ ~sent[i].malformed /\ ~sent[i - 1].duplicate
                            /\ \A f \in Copied : sent[i][f] = sent[i - 1][f]
    BY DEF ReplaysAreVisible, Copied
  <2>1. Orderly(sent, lastProducedAt) /\ DOMAIN sent = 1 .. Len(sent)
    BY DEF LoadInv, Orderly
  <2> QED
    BY <2>1 DEF Orderly
<1> QED
  BY <1>1, LoadInvariant, PTL

\* Only injected lateness is late: a normal event is never further behind any
\* earlier one than OUT_OF_ORDER_SECONDS, as long as the jitter is not
\* (NORMAL_EVENT_JITTER_SECONDS), whatever the clock does between two events.
THEOREM NormalIsOnTimeHolds == Spec => []NormalIsOnTime
<1>1. LoadInv => NormalIsOnTime
  BY DEF LoadInv, Orderly, NormalIsOnTime
<1> QED
  BY <1>1, LoadInvariant, PTL

-----------------------------------------------------------------------------
(* Sums over finite sets, by a least counterexample in place of an         *)
(* induction.                                                              *)

First(s) == CHOOSE x \in s : TRUE
\* g sums f over the sets in a collection.
SumOf(g, f, s) == IF s = {} THEN 0 ELSE f[First(s)] + g[s \ {First(s)}]
Sums(g, f, C) == g = [s \in C |-> SumOf(g, f, s)]
AddsUp(g, f, S) ==
    \A s \in SUBSET S : g[s] \in Nat /\ \A x \in s : g[s] = f[x] + g[s \ {x}]
SumsAll(g, f, S) == Sums(g, f, SUBSET S)

LEMMA SumIsChosen ==
    ASSUME NEW f, NEW S
    PROVE  SumFunctionOnSet(f, S) = (CHOOSE g : SumsAll(g, f, S))[S]
BY DEF SumFunctionOnSet, FoldFunctionOnSet, MapThenFoldSet, Sums, SumsAll, SumOf, First

\* The least of some numbers, in place of an induction.
LEMMA LeastNumber ==
    ASSUME NEW N \in SUBSET Nat, N # {}
    PROVE  \E n \in N : \A k \in Nat : k < n => k \notin N
<1>1. PICK n \in N : \A k \in N : <<k, n>> \notin OpToRel(<, Nat)
  BY NatLessThanWellFounded, WFMin
<1>2. ASSUME NEW k \in N, k < n PROVE FALSE
  <2>1. <<k, n>> \in Nat \X Nat
    OBVIOUS
  <2>2. <<k, n>> \in OpToRel(<, Nat)
    BY <1>2, <2>1, Zenon DEF OpToRel
  <2> QED
    BY <1>1, <2>2
<1> QED
  BY <1>2

LEMMA FirstProperty ==
    ASSUME NEW s, IsFiniteSet(s), s # {}
    PROVE  /\ First(s) \in s /\ IsFiniteSet(s \ {First(s)})
           /\ Cardinality(s) \in Nat
           /\ Cardinality(s \ {First(s)}) = Cardinality(s) - 1
           /\ Cardinality(s) > 0
<1>1. First(s) \in s
  BY DEF First
<1> HIDE DEF First
<1> QED
  BY <1>1, FS_RemoveElement, FS_CardinalityType, FS_EmptySet

LEMMA SumsExist ==
    ASSUME NEW f, NEW S, IsFiniteSet(S)
    PROVE  \E g : SumsAll(g, f, S)
<1> DEFINE Level(n) == {s \in SUBSET S : Cardinality(s) <= n}
           Bad == {n \in Nat : ~ \E g : Sums(g, f, Level(n))}
<1>1. ASSUME NEW s \in SUBSET S
      PROVE  IsFiniteSet(s) /\ Cardinality(s) \in Nat
  BY FS_Subset, FS_CardinalityType
<1>2. Bad = {}
  <2> SUFFICES ASSUME Bad # {} PROVE FALSE
    OBVIOUS
  <2>1. PICK n \in Bad : \A k \in Nat : k < n => k \notin Bad
    <3>1. Bad \in SUBSET Nat
      OBVIOUS
    <3> HIDE DEF Bad
    <3> QED
      BY <3>1, LeastNumber
  <2>2. n \in Nat /\ ~ \E g : Sums(g, f, Level(n))
    OBVIOUS
  <2>3. PICK g : \A s \in Level(n - 1) : n # 0 => g[s] = SumOf(g, f, s)
    <3>1. CASE n = 0
      BY <3>1
    <3>2. CASE n # 0
      <4>1. n - 1 \in Nat /\ n - 1 < n
        BY <2>2, <3>2
      <4>2. PICK g : Sums(g, f, Level(n - 1))
        BY <2>1, <4>1
      <4>3. \A s \in Level(n - 1) : g[s] = SumOf(g, f, s)
        <5> HIDE DEF Level
        <5> QED
          BY <4>2 DEF Sums
      <4> QED
        BY <4>3
    <3> QED
      BY <3>1, <3>2
  <2> DEFINE h == [s \in Level(n) |-> SumOf(g, f, s)]
  <2>4. ASSUME NEW s \in Level(n) PROVE h[s] = SumOf(h, f, s)
    <3>1. CASE s = {}
      BY <3>1 DEF SumOf
    <3>2. CASE s # {}
      <4> DEFINE u == s \ {First(s)}
      <4>1. IsFiniteSet(s) /\ Cardinality(s) \in Nat /\ Cardinality(s) <= n
        BY <1>1
      <4>2. Cardinality(u) = Cardinality(s) - 1 /\ Cardinality(s) > 0
        BY <3>2, <4>1, FirstProperty
      <4>3. n # 0 /\ u \in Level(n - 1) /\ u \in Level(n)
        BY <2>2, <4>1, <4>2
      <4>4. h[u] = SumOf(g, f, u) /\ g[u] = SumOf(g, f, u)
        BY <2>3, <4>3
      <4>5. h[s] = SumOf(g, f, s)
        OBVIOUS
      <4> HIDE DEF h, u
      <4>6. SumOf(g, f, s) = f[First(s)] + g[u] /\ SumOf(h, f, s) = f[First(s)] + h[u]
        BY <3>2 DEF SumOf, u
      <4> QED
        BY <4>4, <4>5, <4>6
    <3> QED
      BY <3>1, <3>2
  <2>5. Sums(h, f, Level(n))
    <3>1. h = [s \in Level(n) |-> h[s]]
      OBVIOUS
    <3> HIDE DEF h, Level
    <3> QED
      BY <2>4, <3>1 DEF Sums
  <2> QED
    BY <2>2, <2>5
<1>3. Level(Cardinality(S)) = SUBSET S
  BY <1>1, FS_Subset
<1>4. Cardinality(S) \notin Bad /\ Cardinality(S) \in Nat
  BY <1>1, <1>2
<1> QED
  BY <1>3, <1>4 DEF SumsAll

\* The sum over a set takes its elements one by one.
LEMMA SumsProperty ==
    ASSUME NEW f, NEW S, IsFiniteSet(S), \A x \in S : f[x] \in Nat,
           NEW g, SumsAll(g, f, S)
    PROVE  AddsUp(g, f, S)
<1> DEFINE Good(s) == g[s] \in Nat /\ \A x \in s : g[s] = f[x] + g[s \ {x}]
           Bad == {n \in Nat : \E s \in SUBSET S : Cardinality(s) = n /\ ~Good(s)}
<1>1. ASSUME NEW s \in SUBSET S
      PROVE  IsFiniteSet(s) /\ Cardinality(s) \in Nat
  BY FS_Subset, FS_CardinalityType
<1>2. \A s \in SUBSET S : g[s] = SumOf(g, f, s)
  BY DEF Sums, SumsAll
<1>3. Bad = {}
  <2> SUFFICES ASSUME Bad # {} PROVE FALSE
    OBVIOUS
  <2>1. PICK n \in Bad : \A k \in Nat : k < n => k \notin Bad
    <3>1. Bad \in SUBSET Nat
      OBVIOUS
    <3> HIDE DEF Bad
    <3> QED
      BY <3>1, LeastNumber
  <2>2. PICK s \in SUBSET S : Cardinality(s) = n /\ ~Good(s)
    OBVIOUS
  <2>3. ASSUME NEW u \in SUBSET S, Cardinality(u) < n PROVE Good(u)
    <3>1. Cardinality(u) \in Nat /\ Cardinality(u) \notin Bad
      BY <1>1, <2>1, <2>3
    <3> HIDE DEF Good
    <3> QED
      BY <3>1
  <2>4. Good(s)
    <3>1. CASE s = {}
      <4>1. g[s] = 0
        BY <1>2, <3>1 DEF SumOf
      <4> QED
        BY <3>1, <4>1
    <3>2. CASE s # {}
      <4> DEFINE c == First(s)
      <4>1. /\ c \in s /\ IsFiniteSet(s) /\ Cardinality(s) > 0
            /\ g[s] = f[c] + g[s \ {c}]
        BY <1>1, <1>2, <3>2, FirstProperty DEF SumOf
      <4> HIDE DEF c
      <4>2. ASSUME NEW x \in s PROVE Cardinality(s \ {x}) < n /\ s \ {x} \in SUBSET S
        BY <1>1, <2>2, <4>1, FS_RemoveElement
      <4>3. \A x \in s : Good(s \ {x})
        BY <2>3, <4>2
      <4>4. g[s] \in Nat
        <5>1. f[c] \in Nat /\ g[s \ {c}] \in Nat
          BY <4>1, <4>3
        <5> QED
          BY <4>1, <5>1
      <4>5. ASSUME NEW x \in s PROVE g[s] = f[x] + g[s \ {x}]
        <5>1. CASE x = c
          BY <4>1, <5>1
        <5>2. CASE x # c
          <6>1. g[s \ {c}] = f[x] + g[(s \ {c}) \ {x}]
            BY <4>1, <4>3, <5>2
          <6>2. g[s \ {x}] = f[c] + g[(s \ {x}) \ {c}]
            BY <4>1, <4>3, <5>2
          <6>3. (s \ {c}) \ {x} = (s \ {x}) \ {c}
            OBVIOUS
          <6>4. (s \ {c}) \ {x} \in SUBSET S /\ Cardinality((s \ {c}) \ {x}) < n
            <7>1. IsFiniteSet(s \ {c}) /\ Cardinality(s \ {c}) < n /\ Cardinality(s \ {c}) \in Nat
              BY <1>1, <4>1, <4>2
            <7>2. Cardinality((s \ {c}) \ {x}) <= Cardinality(s \ {c})
              BY <7>1, FS_Subset
            <7>3. Cardinality((s \ {c}) \ {x}) \in Nat
              BY <1>1
            <7>4. n \in Nat
              OBVIOUS
            <7> QED
              BY <7>1, <7>2, <7>3, <7>4
          <6>5. g[(s \ {c}) \ {x}] \in Nat
            BY <2>3, <6>4
          <6>6. f[x] \in Nat /\ f[c] \in Nat
            BY <4>1
          <6> DEFINE rest == g[(s \ {c}) \ {x}]
          <6>7. /\ g[s] = f[c] + (f[x] + rest)
                /\ g[s \ {x}] = f[c] + rest /\ rest \in Nat
            BY <4>1, <6>1, <6>2, <6>3, <6>5
          <6> HIDE DEF rest
          <6> QED
            BY <6>6, <6>7
        <5> QED
          BY <5>1, <5>2
      <4> QED
        BY <4>4, <4>5
    <3> QED
      BY <3>1, <3>2
  <2> QED
    BY <2>2, <2>4
<1>4. ASSUME NEW s \in SUBSET S PROVE Good(s)
  <2>1. Cardinality(s) \in Nat /\ Cardinality(s) \notin Bad
    BY <1>1, <1>3
  <2> HIDE DEF Good
  <2> QED
    BY <2>1
<1> QED
  BY <1>4 DEF AddsUp

\* It depends on the values in the set only.
LEMMA SumsAgree ==
    ASSUME NEW f, NEW e, NEW S, NEW T, NEW U, U \subseteq S, U \subseteq T,
           IsFiniteSet(U), \A x \in U : f[x] = e[x],
           NEW g, SumsAll(g, f, S), NEW h, SumsAll(h, e, T)
    PROVE  \A s \in SUBSET U : g[s] = h[s]
<1> DEFINE Bad == {n \in Nat : \E s \in SUBSET U : Cardinality(s) = n /\ g[s] # h[s]}
<1>1. ASSUME NEW s \in SUBSET U
      PROVE  IsFiniteSet(s) /\ Cardinality(s) \in Nat
  BY FS_Subset, FS_CardinalityType
<1>2. ASSUME NEW s \in SUBSET U PROVE g[s] = SumOf(g, f, s) /\ h[s] = SumOf(h, e, s)
  BY DEF Sums, SumsAll
<1>3. Bad = {}
  <2> SUFFICES ASSUME Bad # {} PROVE FALSE
    OBVIOUS
  <2>1. PICK n \in Bad : \A k \in Nat : k < n => k \notin Bad
    <3>1. Bad \in SUBSET Nat
      OBVIOUS
    <3> HIDE DEF Bad
    <3> QED
      BY <3>1, LeastNumber
  <2>2. PICK s \in SUBSET U : Cardinality(s) = n /\ g[s] # h[s]
    OBVIOUS
  <2>3. CASE s = {}
    BY <1>2, <2>2, <2>3 DEF SumOf
  <2>4. CASE s # {}
    <3> DEFINE u == s \ {First(s)}
    <3>1. /\ First(s) \in s /\ u \in SUBSET U /\ Cardinality(u) \in Nat
          /\ Cardinality(u) < n
      BY <1>1, <2>2, <2>4, FirstProperty
    <3>2. g[u] = h[u]
      BY <2>1, <3>1
    <3>3. g[s] = f[First(s)] + g[u] /\ h[s] = e[First(s)] + h[u]
      BY <1>2, <2>4 DEF SumOf
    <3>4. f[First(s)] = e[First(s)]
      BY <3>1
    <3> QED
      BY <2>2, <3>2, <3>3, <3>4
  <2> QED
    BY <2>3, <2>4
<1> QED
  BY <1>1, <1>3

LEMMA SumOfNothing ==
    ASSUME NEW f
    PROVE  SumFunctionOnSet(f, {}) = 0
<1>1. PICK g : SumsAll(g, f, {}) /\ SumFunctionOnSet(f, {}) = g[{}]
  BY SumIsChosen, SumsExist, FS_EmptySet
<1> QED
  BY <1>1 DEF Sums, SumsAll, SumOf

LEMMA SumRemoves ==
    ASSUME NEW f, NEW S, IsFiniteSet(S), \A x \in S : f[x] \in Nat
    PROVE  /\ SumFunctionOnSet(f, S) \in Nat
           /\ \A x \in S : SumFunctionOnSet(f, S) = f[x] + SumFunctionOnSet(f, S \ {x})
<1>1. PICK g : SumsAll(g, f, S) /\ SumFunctionOnSet(f, S) = g[S]
  BY SumIsChosen, SumsExist
<1>2. ASSUME NEW x \in S PROVE SumFunctionOnSet(f, S \ {x}) = g[S \ {x}]
  <2>1. IsFiniteSet(S \ {x})
    BY FS_RemoveElement
  <2>2. PICK h : /\ SumsAll(h, f, (S \ {x}))
                 /\ SumFunctionOnSet(f, S \ {x}) = h[S \ {x}]
    BY <2>1, SumIsChosen, SumsExist
  <2> DEFINE U == S \ {x}
  <2>3. U \subseteq S /\ IsFiniteSet(U) /\ SumsAll(h, f, U)
    BY <2>1, <2>2
  <2> HIDE DEF U
  <2>4. \A s \in SUBSET U : h[s] = g[s]
    BY <1>1, <2>3, SumsAgree
  <2> QED
    BY <2>2, <2>4 DEF U
<1>3. g[S] \in Nat /\ \A x \in S : g[S] = f[x] + g[S \ {x}]
  <2>1. AddsUp(g, f, S)
    BY <1>1, SumsProperty
  <2> QED
    BY <2>1 DEF AddsUp
<1> QED
  BY <1>1, <1>2, <1>3

LEMMA SumAgrees ==
    ASSUME NEW f, NEW e, NEW S, IsFiniteSet(S), \A x \in S : f[x] = e[x]
    PROVE  SumFunctionOnSet(f, S) = SumFunctionOnSet(e, S)
<1>1. PICK g : SumsAll(g, f, S) /\ SumFunctionOnSet(f, S) = g[S]
  BY SumIsChosen, SumsExist
<1>2. PICK h : SumsAll(h, e, S) /\ SumFunctionOnSet(e, S) = h[S]
  BY SumIsChosen, SumsExist
<1>3. \A s \in SUBSET S : g[s] = h[s]
  BY <1>1, <1>2, SumsAgree
<1> QED
  BY <1>1, <1>2, <1>3

\* Zeros do not count.
LEMMA SumOfZeros ==
    ASSUME NEW f, NEW T, IsFiniteSet(T), \A x \in T : f[x] \in Nat,
           NEW S \in SUBSET T, \A x \in T \ S : f[x] = 0
    PROVE  SumFunctionOnSet(f, T) = SumFunctionOnSet(f, S)
<1> DEFINE Same(s) == SumFunctionOnSet(f, T) = SumFunctionOnSet(f, s)
           Bad == {n \in Nat : \E s \in SUBSET T : S \subseteq s /\ Cardinality(T \ s) = n /\ ~Same(s)}
<1>1. ASSUME NEW s \in SUBSET T
      PROVE  IsFiniteSet(s) /\ IsFiniteSet(T \ s) /\ Cardinality(T \ s) \in Nat
  BY FS_Subset, FS_CardinalityType
<1>2. Bad = {}
  <2> SUFFICES ASSUME Bad # {} PROVE FALSE
    OBVIOUS
  <2>1. PICK n \in Bad : \A k \in Nat : k < n => k \notin Bad
    <3>1. Bad \in SUBSET Nat
      OBVIOUS
    <3> HIDE DEF Bad
    <3> QED
      BY <3>1, LeastNumber
  <2>2. PICK s \in SUBSET T : S \subseteq s /\ Cardinality(T \ s) = n /\ ~Same(s)
    OBVIOUS
  <2>3. s # T
    BY <2>2
  <2>4. PICK x \in T \ s : TRUE
    BY <2>3
  <2> DEFINE u == s \cup {x}
  <2>5. /\ u \in SUBSET T /\ S \subseteq u /\ x \in u /\ u \ {x} = s /\ f[x] = 0
        /\ T \ u = (T \ s) \ {x} /\ x \in T \ s
    BY <2>2, <2>4
  <2> HIDE DEF u
  <2>6. Cardinality(T \ u) = n - 1 /\ Cardinality(T \ u) \in Nat /\ Cardinality(T \ u) < n
    <3>1. Cardinality((T \ s) \ {x}) = Cardinality(T \ s) - 1
      BY <1>1, <2>5, FS_RemoveElement
    <3>2. Cardinality(T \ u) \in Nat /\ n \in Nat
      BY <1>1, <2>5
    <3>3. T \ u = (T \ s) \ {x} /\ Cardinality(T \ s) = n
      BY <2>2, <2>5
    <3>4. Cardinality(T \ u) = n - 1
      BY <3>1, <3>3
    <3> QED
      BY <3>2, <3>4
  <2>7. Same(u)
    <3>1. Cardinality(T \ u) \notin Bad
      BY <2>1, <2>6
    <3> HIDE DEF Same
    <3> QED
      BY <2>5, <2>6, <3>1
  <2>8. SumFunctionOnSet(f, u) = f[x] + SumFunctionOnSet(f, s) /\ SumFunctionOnSet(f, s) \in Nat
    <3>1. IsFiniteSet(u) /\ IsFiniteSet(s) /\ \A y \in u : f[y] \in Nat
      BY <1>1, <2>5
    <3>2. \A y \in u : SumFunctionOnSet(f, u) = f[y] + SumFunctionOnSet(f, u \ {y})
      BY <3>1, SumRemoves
    <3> QED
      BY <2>5, <3>1, <3>2, SumRemoves
  <2> QED
    BY <2>2, <2>5, <2>7, <2>8
<1>3. S \in SUBSET T /\ Cardinality(T \ S) \in Nat /\ Cardinality(T \ S) \notin Bad
  BY <1>1, <1>2
<1>4. Same(S)
  <2> HIDE DEF Same
  <2> QED
    BY <1>3
<1> QED
  BY <1>4

\* One more of one element is one more of the sum.
LEMMA SumGrows ==
    ASSUME NEW f, NEW e, NEW S, IsFiniteSet(S), NEW x \in S, \A y \in S : f[y] \in Nat,
           e[x] = f[x] + 1, \A y \in S \ {x} : e[y] = f[y]
    PROVE  SumFunctionOnSet(e, S) = SumFunctionOnSet(f, S) + 1
<1> DEFINE R == S \ {x}
<1>1. IsFiniteSet(R) /\ \A y \in R : e[y] = f[y]
  BY FS_RemoveElement
<1>2. SumFunctionOnSet(e, R) = SumFunctionOnSet(f, R)
  <2> HIDE DEF R
  <2> QED
    BY <1>1, SumAgrees
<1>3. \A y \in R : f[y] \in Nat
  OBVIOUS
<1>4. SumFunctionOnSet(f, R) \in Nat
  <2> HIDE DEF R
  <2> QED
    BY <1>1, <1>3, SumRemoves
<1>5. SumFunctionOnSet(f, S) = f[x] + SumFunctionOnSet(f, R)
  BY SumRemoves
<1>6. \A y \in S : e[y] \in Nat
  OBVIOUS
<1>7. SumFunctionOnSet(e, S) = e[x] + SumFunctionOnSet(e, R)
  BY <1>6, SumRemoves
<1> HIDE DEF R
<1> QED
  BY <1>2, <1>4, <1>5, <1>7

-----------------------------------------------------------------------------
(* The invariant of the script: what it has sampled, in terms of the       *)
(* records of its run that the job has stored.                             *)

OwnMalformed == {i \in DOMAIN raw : raw[i].own /\ raw[i].malformed}
OwnValid == {i \in DOMAIN raw : raw[i].own /\ ~raw[i].malformed}
StoredMalformed == Cardinality(OwnMalformed \ todo)
StoredValid == Cardinality(OwnValid \ todo)

\* The script has begun to count.
Started == pc \notin {"list", "before"}
\* Nothing was stored again, and no envelope of others is in the way.
Quiet == replays = 0 /\ ~polluted

Records == [own : BOOLEAN, malformed : BOOLEAN, duplicate : BOOLEAN]

PipelineType ==
    /\ raw \in Seq(Records)
    /\ copies \in Seq(Nat) /\ Len(copies) = Len(raw)
    /\ todo \in SUBSET DOMAIN raw

ScriptType ==
    /\ pc \in {"list", "before", "produce", "raw", "dlq", "rows", "compare",
               "anomalies", "passed", "failed"}
    /\ attempt \in 0 .. MaxAttempts /\ originals \in 0 .. MaxOriginals
    /\ attempted \in 0 .. 2 * MaxOriginals
    /\ rawBefore \in Nat /\ dlqBefore \in Nat
    /\ rawAfter \in Nat /\ dlqAfter \in Nat /\ runRows \in Nat
    /\ why \in {"none", "producer", "mismatch", "observability"}
    /\ replays \in 0 .. MaxReplays
    /\ polluted \in BOOLEAN /\ joined \in BOOLEAN /\ lagging \in BOOLEAN

\* Where the script is says what it has done.
Phases ==
    /\ ~Started => /\ OwnRecords = {} /\ sent = <<>>
                   /\ attempted = 0 /\ attempt = 0 /\ originals = 0
                   /\ dlqAfter = 0 /\ runRows = 0
    /\ pc = "produce" => attempt = 0 /\ Len(sent) <= 2 * originals
    /\ pc \in {"raw", "dlq", "rows"} => attempt < MaxAttempts
    /\ why = "mismatch" => pc = "failed"
    /\ Cardinality(OwnRecords) = IF pc = "produce" THEN Len(sent) ELSE attempted

\* The counts that the script reads are those of the stored records.
Counts ==
    Started =>
        /\ ~joined => Len(raw) = rawBefore + Cardinality(OwnRecords)
        /\ Quiet => /\ \A i \in OwnRecords : copies[i] = IF i \in todo THEN 0 ELSE 1
                    /\ \A i \in todo : raw[i].malformed => raw[i].own
                    /\ Envelopes = dlqBefore + StoredMalformed
                    /\ RowsOfRun = StoredValid

\* A sample is never ahead of what is stored.
Samples ==
    Started /\ Quiet =>
        /\ dlqAfter <= dlqBefore + StoredMalformed
        /\ runRows <= StoredValid
        /\ pc \in {"anomalies", "passed"} => PipelineMatches

\* A last round that began when all was stored has seen all.
LastRound ==
    Started /\ Quiet /\ ~joined /\ ~lagging =>
        /\ pc \in {"dlq", "rows", "compare"} => OwnRecords \cap todo = {} /\ rawAfter = Len(raw)
        /\ pc \in {"rows", "compare"} => dlqAfter = dlqBefore + StoredMalformed
        /\ pc = "compare" => runRows = StoredValid
        /\ why # "mismatch"

ScriptInv ==
    /\ PipelineType /\ ScriptType /\ Phases
    /\ Counts /\ Samples /\ LastRound

LEMMA OwnProperty ==
    ASSUME PipelineType
    PROVE  /\ Len(raw) \in Nat /\ DOMAIN raw = 1 .. Len(raw) /\ IsFiniteSet(DOMAIN raw)
           /\ DOMAIN copies = DOMAIN raw /\ \A i \in DOMAIN raw : copies[i] \in Nat
           /\ \A i \in DOMAIN raw : raw[i] \in Records
           /\ IsFiniteSet(OwnMalformed \ todo) /\ IsFiniteSet(OwnValid \ todo)
           /\ IsFiniteSet(OwnRecords) /\ Cardinality(OwnRecords) \in Nat
           /\ StoredMalformed \in Nat /\ StoredValid \in Nat
           /\ StoredMalformed + StoredValid <= Cardinality(OwnRecords)
           /\ StoredMalformed + StoredValid = Cardinality(OwnRecords)
                 <=> OwnRecords \cap todo = {}
           /\ Envelopes \in Nat /\ RowsOfRun \in Nat
<1> DEFINE A == OwnMalformed \ todo
           B == OwnValid \ todo
<1>1. /\ Len(raw) \in Nat /\ DOMAIN raw = 1 .. Len(raw)
      /\ DOMAIN copies = DOMAIN raw /\ \A i \in DOMAIN raw : copies[i] \in Nat
      /\ \A i \in DOMAIN raw : raw[i] \in Records
  BY DEF PipelineType
<1>2. IsFiniteSet(DOMAIN raw)
  BY <1>1, FS_Interval
<1>3. /\ A \in SUBSET OwnRecords /\ B \in SUBSET OwnRecords /\ OwnRecords \in SUBSET DOMAIN raw
      /\ A \cap B = {} /\ A \cup B = OwnRecords \ todo
  BY DEF OwnRecords, OwnMalformed, OwnValid
<1>4. IsFiniteSet(OwnRecords) /\ Cardinality(OwnRecords) \in Nat
  BY <1>2, <1>3, FS_Subset, FS_CardinalityType
<1>5. /\ IsFiniteSet(A) /\ IsFiniteSet(B)
      /\ Cardinality(A) \in Nat /\ Cardinality(B) \in Nat
  BY <1>3, <1>4, FS_Subset, FS_CardinalityType
<1>6. Cardinality(A \cup B) = Cardinality(A) + Cardinality(B)
  <2>1. Cardinality(A \cup B) = Cardinality(A) + Cardinality(B) - Cardinality(A \cap B)
    BY <1>5, FS_Union
  <2>2. Cardinality(A \cap B) = 0
    BY <1>3, FS_EmptySet
  <2> HIDE DEF A, B
  <2> QED
    BY <1>5, <2>1, <2>2
<1>7. /\ Cardinality(OwnRecords \ todo) <= Cardinality(OwnRecords)
      /\ Cardinality(OwnRecords) = Cardinality(OwnRecords \ todo)
            => OwnRecords = OwnRecords \ todo
  BY <1>4, FS_Subset
<1>8. OwnRecords = OwnRecords \ todo <=> OwnRecords \cap todo = {}
  OBVIOUS
<1>9. StoredMalformed = Cardinality(A) /\ StoredValid = Cardinality(B)
  BY DEF StoredMalformed, StoredValid
<1>10. /\ StoredMalformed + StoredValid <= Cardinality(OwnRecords)
       /\ StoredMalformed + StoredValid = Cardinality(OwnRecords)
             <=> OwnRecords \cap todo = {}
  <2> HIDE DEF A, B
  <2> QED
    BY <1>3, <1>5, <1>6, <1>7, <1>8, <1>9
<1>11. Envelopes \in Nat /\ RowsOfRun \in Nat
  <2>1. ASSUME NEW S \in SUBSET DOMAIN raw
        PROVE  Total(S) \in Nat
    <3>1. IsFiniteSet(S) /\ \A i \in S : copies[i] \in Nat
      BY <1>1, <1>2, FS_Subset
    <3> QED
      BY <3>1, SumRemoves DEF Total
  <2> QED
    BY <2>1 DEF Envelopes, RowsOfRun
<1> QED
  BY <1>1, <1>2, <1>4, <1>5, <1>9, <1>10, <1>11

LEMMA SameRecords ==
    ASSUME UNCHANGED pipelineVars
    PROVE  /\ PipelineType' = PipelineType /\ OwnRecords' = OwnRecords
           /\ StoredMalformed' = StoredMalformed /\ StoredValid' = StoredValid
           /\ Envelopes' = Envelopes /\ RowsOfRun' = RowsOfRun
BY DEF pipelineVars, PipelineType, OwnRecords, StoredMalformed, StoredValid, OwnMalformed,
       OwnValid, Envelopes, RowsOfRun, Total

\* A round that begins when all is stored will see all.
LEMMA SampleRawKeepsInv ==
    ASSUME ScriptInv, SampleRaw
    PROVE  ScriptInv'
<1>1. /\ PipelineType /\ ScriptType /\ Phases /\ Counts /\ Samples /\ LastRound
      /\ PipelineType' = PipelineType /\ OwnRecords' = OwnRecords
      /\ StoredMalformed' = StoredMalformed /\ StoredValid' = StoredValid
      /\ Envelopes' = Envelopes /\ RowsOfRun' = RowsOfRun
      /\ UNCHANGED pipelineVars
  BY SameRecords DEF ScriptInv, SampleRaw, pipelineVars
<1>2. /\ Len(raw) \in Nat /\ StoredMalformed \in Nat /\ StoredValid \in Nat
      /\ Cardinality(OwnRecords) \in Nat
      /\ StoredMalformed + StoredValid <= Cardinality(OwnRecords)
      /\ StoredMalformed + StoredValid = Cardinality(OwnRecords)
            <=> OwnRecords \cap todo = {}
      /\ Envelopes \in Nat /\ RowsOfRun \in Nat
  BY <1>1, OwnProperty
<1>3. ScriptType'
  BY <1>1, <1>2, AttemptsAssumption DEF ScriptType, Phases, Counts, Started, SampleRaw, Go, Fail, historyVars, sampleVars, workloadVars
<1>4. Phases'
  BY <1>1, <1>2 DEF ScriptType, Phases, Started, SampleRaw, Go, Fail, workloadVars
<1>5. Counts'
  BY <1>1, <1>2 DEF Counts, Started, Quiet, SampleRaw, Go, Fail, pipelineVars, historyVars, sampleVars
<1>6. Samples'
  BY <1>1, <1>2 DEF ScriptType, Counts, Samples, Started, Quiet, SampleRaw, Go, Fail, historyVars, sampleVars, PipelineMatches, DlqDelta
<1>7. LastRound'
  BY <1>1, <1>2 DEF ScriptType, PipelineType, Phases, Counts, LastRound, Started, Quiet, SampleRaw, Go, Fail, pipelineVars, historyVars, sampleVars, OwnRecords
<1> QED
  BY <1>1, <1>3, <1>4, <1>5, <1>6, <1>7 DEF ScriptInv

\* The envelopes, at the moment they are counted.
LEMMA SampleDlqKeepsInv ==
    ASSUME ScriptInv, SampleDlq
    PROVE  ScriptInv'
<1>1. /\ PipelineType /\ ScriptType /\ Phases /\ Counts /\ Samples /\ LastRound
      /\ PipelineType' = PipelineType /\ OwnRecords' = OwnRecords
      /\ StoredMalformed' = StoredMalformed /\ StoredValid' = StoredValid
      /\ Envelopes' = Envelopes /\ RowsOfRun' = RowsOfRun
      /\ UNCHANGED pipelineVars
  BY SameRecords DEF ScriptInv, SampleDlq, pipelineVars
<1>2. /\ Len(raw) \in Nat /\ StoredMalformed \in Nat /\ StoredValid \in Nat
      /\ Cardinality(OwnRecords) \in Nat
      /\ StoredMalformed + StoredValid <= Cardinality(OwnRecords)
      /\ StoredMalformed + StoredValid = Cardinality(OwnRecords)
            <=> OwnRecords \cap todo = {}
      /\ Envelopes \in Nat /\ RowsOfRun \in Nat
  BY <1>1, OwnProperty
<1>3. ScriptType'
  BY <1>1, <1>2, AttemptsAssumption DEF ScriptType, Phases, Counts, Started, SampleDlq, Go, Fail, historyVars, sampleVars, workloadVars
<1>4. Phases'
  BY <1>1, <1>2 DEF ScriptType, Phases, Started, SampleDlq, Go, Fail, workloadVars
<1>5. Counts'
  BY <1>1, <1>2 DEF Counts, Started, Quiet, SampleDlq, Go, Fail, pipelineVars, historyVars, sampleVars
<1>6. Samples'
  BY <1>1, <1>2 DEF ScriptType, Counts, Samples, Started, Quiet, SampleDlq, Go, Fail, historyVars, sampleVars, PipelineMatches, DlqDelta
<1>7. LastRound'
  BY <1>1, <1>2 DEF ScriptType, PipelineType, Phases, Counts, LastRound, Started, Quiet, SampleDlq, Go, Fail, pipelineVars, historyVars, sampleVars, OwnRecords
<1> QED
  BY <1>1, <1>3, <1>4, <1>5, <1>6, <1>7 DEF ScriptInv

\* The rows.
LEMMA SampleRowsKeepsInv ==
    ASSUME ScriptInv, SampleRows
    PROVE  ScriptInv'
<1>1. /\ PipelineType /\ ScriptType /\ Phases /\ Counts /\ Samples /\ LastRound
      /\ PipelineType' = PipelineType /\ OwnRecords' = OwnRecords
      /\ StoredMalformed' = StoredMalformed /\ StoredValid' = StoredValid
      /\ Envelopes' = Envelopes /\ RowsOfRun' = RowsOfRun
      /\ UNCHANGED pipelineVars
  BY SameRecords DEF ScriptInv, SampleRows, pipelineVars
<1>2. /\ Len(raw) \in Nat /\ StoredMalformed \in Nat /\ StoredValid \in Nat
      /\ Cardinality(OwnRecords) \in Nat
      /\ StoredMalformed + StoredValid <= Cardinality(OwnRecords)
      /\ StoredMalformed + StoredValid = Cardinality(OwnRecords)
            <=> OwnRecords \cap todo = {}
      /\ Envelopes \in Nat /\ RowsOfRun \in Nat
  BY <1>1, OwnProperty
<1>3. ScriptType'
  BY <1>1, <1>2, AttemptsAssumption DEF ScriptType, Phases, Counts, Started, SampleRows, Go, Fail, historyVars, sampleVars, workloadVars
<1>4. Phases'
  BY <1>1, <1>2 DEF ScriptType, Phases, Started, SampleRows, Go, Fail, workloadVars
<1>5. Counts'
  BY <1>1, <1>2 DEF Counts, Started, Quiet, SampleRows, Go, Fail, pipelineVars, historyVars, sampleVars
<1>6. Samples'
  BY <1>1, <1>2 DEF ScriptType, Counts, Samples, Started, Quiet, SampleRows, Go, Fail, historyVars, sampleVars, PipelineMatches, DlqDelta
<1>7. LastRound'
  BY <1>1, <1>2 DEF ScriptType, PipelineType, Phases, Counts, LastRound, Started, Quiet, SampleRows, Go, Fail, pipelineVars, historyVars, sampleVars, OwnRecords
<1> QED
  BY <1>1, <1>3, <1>4, <1>5, <1>6, <1>7 DEF ScriptInv

\* The verdict.
LEMMA CompareKeepsInv ==
    ASSUME ScriptInv, Compare
    PROVE  ScriptInv'
<1>1. /\ PipelineType /\ ScriptType /\ Phases /\ Counts /\ Samples /\ LastRound
      /\ PipelineType' = PipelineType /\ OwnRecords' = OwnRecords
      /\ StoredMalformed' = StoredMalformed /\ StoredValid' = StoredValid
      /\ Envelopes' = Envelopes /\ RowsOfRun' = RowsOfRun
      /\ UNCHANGED pipelineVars
  BY SameRecords DEF ScriptInv, Compare, pipelineVars
<1>2. /\ Len(raw) \in Nat /\ StoredMalformed \in Nat /\ StoredValid \in Nat
      /\ Cardinality(OwnRecords) \in Nat
      /\ StoredMalformed + StoredValid <= Cardinality(OwnRecords)
      /\ StoredMalformed + StoredValid = Cardinality(OwnRecords)
            <=> OwnRecords \cap todo = {}
      /\ Envelopes \in Nat /\ RowsOfRun \in Nat
  BY <1>1, OwnProperty
<1>3. ScriptType'
  BY <1>1, <1>2, AttemptsAssumption DEF ScriptType, Phases, Counts, Started, Compare, Go, Fail, historyVars, sampleVars, workloadVars, Verdict
<1>4. Phases'
  BY <1>1, <1>2 DEF ScriptType, Phases, Started, Compare, Go, Fail, workloadVars, Verdict
<1>5. Counts'
  BY <1>1, <1>2 DEF Counts, Started, Quiet, Compare, Go, Fail, pipelineVars, historyVars, sampleVars
<1>6. Samples'
  BY <1>1, <1>2 DEF ScriptType, Counts, Samples, Started, Quiet, Compare, Go, Fail, historyVars, sampleVars, PipelineMatches, DlqDelta, Verdict, RawMatches
<1>7. LastRound'
  BY <1>1, <1>2 DEF ScriptType, PipelineType, Phases, Counts, LastRound, Started, Quiet, Compare, Go, Fail, pipelineVars, historyVars, sampleVars, OwnRecords, Verdict, RawMatches, PipelineMatches, DlqDelta
<1> QED
  BY <1>1, <1>3, <1>4, <1>5, <1>6, <1>7 DEF ScriptInv

\* What follows counts nothing.
LEMMA ChecksKeepInv ==
    ASSUME ScriptInv, ChecksTheRest
    PROVE  ScriptInv'
<1>1. /\ PipelineType /\ ScriptType /\ Phases /\ Counts /\ Samples /\ LastRound
      /\ PipelineType' = PipelineType /\ OwnRecords' = OwnRecords
      /\ StoredMalformed' = StoredMalformed /\ StoredValid' = StoredValid
      /\ Envelopes' = Envelopes /\ RowsOfRun' = RowsOfRun
      /\ UNCHANGED pipelineVars
  BY SameRecords DEF ScriptInv, ChecksTheRest, pipelineVars
<1>2. /\ Len(raw) \in Nat /\ StoredMalformed \in Nat /\ StoredValid \in Nat
      /\ Cardinality(OwnRecords) \in Nat
      /\ StoredMalformed + StoredValid <= Cardinality(OwnRecords)
      /\ StoredMalformed + StoredValid = Cardinality(OwnRecords)
            <=> OwnRecords \cap todo = {}
      /\ Envelopes \in Nat /\ RowsOfRun \in Nat
  BY <1>1, OwnProperty
<1>3. ScriptType'
  BY <1>1, <1>2, AttemptsAssumption DEF ScriptType, Phases, Counts, Started, ChecksTheRest, Go, Fail, historyVars, sampleVars, workloadVars
<1>4. Phases'
  BY <1>1, <1>2 DEF ScriptType, Phases, Started, ChecksTheRest, Go, Fail, workloadVars
<1>5. Counts'
  BY <1>1, <1>2 DEF Counts, Started, Quiet, ChecksTheRest, Go, Fail, pipelineVars, historyVars, sampleVars
<1>6. Samples'
  BY <1>1, <1>2 DEF ScriptType, Counts, Samples, Started, Quiet, ChecksTheRest, Go, Fail, historyVars, sampleVars, PipelineMatches, DlqDelta
<1>7. LastRound'
  BY <1>1, <1>2 DEF ScriptType, PipelineType, Phases, Counts, LastRound, Started, Quiet, ChecksTheRest, Go, Fail, pipelineVars, historyVars, sampleVars, OwnRecords
<1> QED
  BY <1>1, <1>3, <1>4, <1>5, <1>6, <1>7 DEF ScriptInv

LEMMA NothingOwn ==
    ASSUME OwnRecords = {}
    PROVE  StoredMalformed = 0 /\ StoredValid = 0 /\ RowsOfRun = 0
<1>1. OwnMalformed = {} /\ OwnValid = {} /\ OwnMalformed \ todo = {} /\ OwnValid \ todo = {}
  BY DEF OwnRecords, OwnMalformed, OwnValid
<1>2. RowsOfRun = Total({})
  BY <1>1 DEF RowsOfRun, OwnValid
<1> QED
  BY <1>1, <1>2, SumOfNothing, FS_EmptySet DEF StoredMalformed, StoredValid, Total

\* The script begins to count when none of its records exists.
LEMMA BeforeKeepsInv ==
    ASSUME ScriptInv, Before
    PROVE  ScriptInv'
<1>1. /\ PipelineType /\ ScriptType /\ Phases /\ Counts /\ Samples /\ LastRound
      /\ PipelineType' = PipelineType /\ OwnRecords' = OwnRecords
      /\ StoredMalformed' = StoredMalformed /\ StoredValid' = StoredValid
      /\ Envelopes' = Envelopes /\ RowsOfRun' = RowsOfRun
      /\ UNCHANGED pipelineVars
  BY SameRecords DEF ScriptInv, Before, pipelineVars
<1>2. /\ Len(raw) \in Nat /\ StoredMalformed \in Nat /\ StoredValid \in Nat
      /\ Cardinality(OwnRecords) \in Nat
      /\ StoredMalformed + StoredValid <= Cardinality(OwnRecords)
      /\ StoredMalformed + StoredValid = Cardinality(OwnRecords)
            <=> OwnRecords \cap todo = {}
      /\ Envelopes \in Nat /\ RowsOfRun \in Nat
  BY <1>1, OwnProperty
<1>8. pc = "before" /\ OwnRecords = {} /\ sent = <<>> /\ RowsOfRun = 0
      /\ StoredMalformed = 0 /\ StoredValid = 0 /\ attempt = 0 /\ originals = 0
      /\ dlqAfter = 0 /\ runRows = 0
  BY <1>1, NothingOwn DEF Before, Phases, Started
<1>9. polluted' \in BOOLEAN
  BY DEF Before
<1>10. 0 \in 0 .. MaxReplays
  BY BoundsAssumption
<1>3. ScriptType'
  BY <1>1, <1>2, <1>8, <1>9, <1>10 DEF ScriptType, Phases, Counts, Started, Before, Go, Fail, historyVars, sampleVars, workloadVars
<1>4. Phases'
  BY <1>1, <1>2, <1>8 DEF ScriptType, Phases, Started, Before, Go, Fail, workloadVars
<1>5. Counts'
  BY <1>1, <1>2, <1>8 DEF Counts, Started, Quiet, Before, Go, Fail, pipelineVars, historyVars, sampleVars
<1>6. Samples'
  BY <1>1, <1>2, <1>8 DEF ScriptType, Counts, Samples, Started, Quiet, Before, Go, Fail, historyVars, sampleVars, PipelineMatches, DlqDelta, Phases
<1>7. LastRound'
  BY <1>1, <1>2, <1>8 DEF ScriptType, PipelineType, Phases, Counts, LastRound, Started, Quiet, Before, Go, Fail, pipelineVars, historyVars, sampleVars, OwnRecords
<1> QED
  BY <1>1, <1>3, <1>4, <1>5, <1>6, <1>7 DEF ScriptInv

\* The clock of the host counts nothing.
LEMMA ClockMovesKeepsInv ==
    ASSUME ScriptInv, ClockMoves
    PROVE  ScriptInv'
<1>1. /\ PipelineType /\ ScriptType /\ Phases /\ Counts /\ Samples /\ LastRound
      /\ PipelineType' = PipelineType /\ OwnRecords' = OwnRecords
      /\ StoredMalformed' = StoredMalformed /\ StoredValid' = StoredValid
      /\ Envelopes' = Envelopes /\ RowsOfRun' = RowsOfRun
      /\ UNCHANGED pipelineVars
  BY SameRecords DEF ScriptInv, ClockMoves, Ticks, scriptVars, pipelineVars
<1>2. /\ Len(raw) \in Nat /\ StoredMalformed \in Nat /\ StoredValid \in Nat
      /\ Cardinality(OwnRecords) \in Nat
      /\ StoredMalformed + StoredValid <= Cardinality(OwnRecords)
      /\ StoredMalformed + StoredValid = Cardinality(OwnRecords)
            <=> OwnRecords \cap todo = {}
      /\ Envelopes \in Nat /\ RowsOfRun \in Nat
  BY <1>1, OwnProperty
<1>3. ScriptType'
  BY <1>1, <1>2, AttemptsAssumption DEF ScriptType, Phases, Counts, Started, ClockMoves, Ticks, scriptVars, Go, Fail, historyVars, sampleVars, workloadVars
<1>4. Phases'
  BY <1>1, <1>2 DEF ScriptType, Phases, Started, ClockMoves, Ticks, scriptVars, Go, Fail, workloadVars
<1>5. Counts'
  BY <1>1, <1>2 DEF Counts, Started, Quiet, ClockMoves, Ticks, scriptVars, Go, Fail, pipelineVars, historyVars, sampleVars
<1>6. Samples'
  BY <1>1, <1>2 DEF ScriptType, Counts, Samples, Started, Quiet, ClockMoves, Ticks, scriptVars, Go, Fail, historyVars, sampleVars, PipelineMatches, DlqDelta
<1>7. LastRound'
  BY <1>1, <1>2 DEF ScriptType, PipelineType, Phases, Counts, LastRound, Started, Quiet, ClockMoves, Ticks, scriptVars, Go, Fail, pipelineVars, historyVars, sampleVars, OwnRecords
<1> QED
  BY <1>1, <1>3, <1>4, <1>5, <1>6, <1>7 DEF ScriptInv

\* The producer's own count is that of its records in the topic.
LEMMA ExitKeepsInv ==
    ASSUME ScriptInv, ProducerExits, Len(sent) \in Nat
    PROVE  ScriptInv'
<1>1. /\ PipelineType /\ ScriptType /\ Phases /\ Counts /\ Samples /\ LastRound
      /\ PipelineType' = PipelineType /\ OwnRecords' = OwnRecords
      /\ StoredMalformed' = StoredMalformed /\ StoredValid' = StoredValid
      /\ Envelopes' = Envelopes /\ RowsOfRun' = RowsOfRun
      /\ UNCHANGED pipelineVars
  BY SameRecords DEF ScriptInv, ProducerExits, Attempted, pipelineVars
<1>2. /\ Len(raw) \in Nat /\ StoredMalformed \in Nat /\ StoredValid \in Nat
      /\ Cardinality(OwnRecords) \in Nat
      /\ StoredMalformed + StoredValid <= Cardinality(OwnRecords)
      /\ StoredMalformed + StoredValid = Cardinality(OwnRecords)
            <=> OwnRecords \cap todo = {}
      /\ Envelopes \in Nat /\ RowsOfRun \in Nat
  BY <1>1, OwnProperty
<1>8. pc = "produce" /\ attempt = 0 /\ attempt < MaxAttempts
      /\ Len(sent) \in 0 .. 2 * MaxOriginals /\ Cardinality(OwnRecords) = Len(sent)
  BY <1>1, BoundsAssumption, AttemptsAssumption DEF ProducerExits, ScriptType, Phases, Started
<1>3. ScriptType'
  BY <1>1, <1>2, <1>8 DEF ScriptType, Phases, Counts, Started, ProducerExits, Attempted, Go, Fail, historyVars, sampleVars, workloadVars, sampleVars
<1>4. Phases'
  BY <1>1, <1>2, <1>8 DEF ScriptType, Phases, Started, ProducerExits, Attempted, Go, Fail, workloadVars
<1>5. Counts'
  BY <1>1, <1>2 DEF Counts, Started, Quiet, ProducerExits, Attempted, Go, Fail, pipelineVars, historyVars, sampleVars
<1>6. Samples'
  BY <1>1, <1>2 DEF ScriptType, Counts, Samples, Started, Quiet, ProducerExits, Attempted, Go, Fail, historyVars, sampleVars, PipelineMatches, DlqDelta
<1>7. LastRound'
  BY <1>1, <1>2 DEF ScriptType, PipelineType, Phases, Counts, LastRound, Started, Quiet, ProducerExits, Attempted, Go, Fail, pipelineVars, historyVars, sampleVars, OwnRecords
<1> QED
  BY <1>1, <1>3, <1>4, <1>5, <1>6, <1>7 DEF ScriptInv

\* What a delivery adds to the counts.
LEMMA DeliverEffect ==
    ASSUME PipelineType, NEW i \in todo, Deliver(i)
    PROVE  /\ PipelineType' /\ OwnRecords' = OwnRecords
           /\ Envelopes' = IF raw[i].malformed THEN Envelopes + 1 ELSE Envelopes
           /\ RowsOfRun' = IF raw[i].own /\ ~raw[i].malformed
                             THEN RowsOfRun + 1 ELSE RowsOfRun
           /\ StoredMalformed' = IF raw[i].own /\ raw[i].malformed
                                  THEN StoredMalformed + 1 ELSE StoredMalformed
           /\ StoredValid' = IF raw[i].own /\ ~raw[i].malformed
                              THEN StoredValid + 1 ELSE StoredValid
           /\ \A j \in DOMAIN raw : copies'[j] = IF j = i THEN copies[j] + 1 ELSE copies[j]
<1>1. /\ raw' = raw /\ todo' = todo \ {i} /\ i \in DOMAIN raw
      /\ copies' = [copies EXCEPT ![i] = @ + 1]
  BY DEF Deliver, PipelineType
<1>2. /\ IsFiniteSet(DOMAIN raw) /\ DOMAIN copies = DOMAIN raw
      /\ \A j \in DOMAIN raw : copies[j] \in Nat
      /\ IsFiniteSet(OwnMalformed \ todo) /\ IsFiniteSet(OwnValid \ todo)
  BY OwnProperty
<1>3. \A j \in DOMAIN raw : copies'[j] = IF j = i THEN copies[j] + 1 ELSE copies[j]
  BY <1>1, <1>2
<1>4. PipelineType'
  BY <1>1 DEF PipelineType
<1>5. ASSUME NEW S \in SUBSET DOMAIN raw
      PROVE  SumFunctionOnSet(copies', S) =
                IF i \in S THEN SumFunctionOnSet(copies, S) + 1 ELSE SumFunctionOnSet(copies, S)
  <2>1. IsFiniteSet(S) /\ \A j \in S : copies[j] \in Nat
    BY <1>2, FS_Subset
  <2>2. CASE i \in S
    <3>1. copies'[i] = copies[i] + 1 /\ \A j \in S \ {i} : copies'[j] = copies[j]
      BY <1>3, <2>2
    <3> QED
      BY <2>1, <2>2, <3>1, SumGrows
  <2>3. CASE i \notin S
    <3>1. \A j \in S : copies'[j] = copies[j]
      BY <1>3, <2>3
    <3> QED
      BY <2>1, <2>3, <3>1, SumAgrees
  <2> QED
    BY <2>2, <2>3
<1>6. Envelopes' = IF raw[i].malformed THEN Envelopes + 1 ELSE Envelopes
  <2> DEFINE S == {j \in DOMAIN raw : raw[j].malformed}
  <2>1. Envelopes = SumFunctionOnSet(copies, S) /\ Envelopes' = SumFunctionOnSet(copies', S)
    BY <1>1 DEF Envelopes, Total
  <2>2. S \in SUBSET DOMAIN raw /\ (i \in S <=> raw[i].malformed)
    BY <1>1
  <2> HIDE DEF S
  <2> QED
    BY <1>5, <2>1, <2>2
<1>7. RowsOfRun' = IF raw[i].own /\ ~raw[i].malformed THEN RowsOfRun + 1 ELSE RowsOfRun
  <2> DEFINE S == {j \in DOMAIN raw : raw[j].own /\ ~raw[j].malformed}
  <2>1. RowsOfRun = SumFunctionOnSet(copies, S) /\ RowsOfRun' = SumFunctionOnSet(copies', S)
    BY <1>1 DEF RowsOfRun, Total
  <2>2. S \in SUBSET DOMAIN raw /\ (i \in S <=> raw[i].own /\ ~raw[i].malformed)
    BY <1>1
  <2> HIDE DEF S
  <2> QED
    BY <1>5, <2>1, <2>2
<1>8. OwnRecords' = OwnRecords /\ OwnMalformed' = OwnMalformed /\ OwnValid' = OwnValid
  BY <1>1 DEF OwnRecords, OwnMalformed, OwnValid
<1>9. ASSUME NEW S, IsFiniteSet(S \ todo)
      PROVE  Cardinality(S \ todo') =
                IF i \in S THEN Cardinality(S \ todo) + 1 ELSE Cardinality(S \ todo)
  <2>1. i \notin S \ todo
    OBVIOUS
  <2>2. CASE i \in S
    <3>1. S \ todo' = (S \ todo) \cup {i}
      BY <1>1, <2>2
    <3> QED
      BY <1>9, <2>1, <2>2, <3>1, FS_AddElement
  <2>3. CASE i \notin S
    <3>1. S \ todo' = S \ todo
      BY <1>1, <2>3
    <3> QED
      BY <2>3, <3>1
  <2> QED
    BY <2>2, <2>3
<1>10. /\ i \in OwnMalformed <=> raw[i].own /\ raw[i].malformed
       /\ i \in OwnValid <=> raw[i].own /\ ~raw[i].malformed
  BY <1>1 DEF OwnMalformed, OwnValid
<1>11. StoredMalformed' = Cardinality(OwnMalformed \ todo') /\ StoredValid' = Cardinality(OwnValid \ todo')
  BY <1>8 DEF StoredMalformed, StoredValid
<1>12. StoredMalformed' = IF raw[i].own /\ raw[i].malformed
                          THEN StoredMalformed + 1 ELSE StoredMalformed
  BY <1>2, <1>9, <1>10, <1>11 DEF StoredMalformed
<1>13. StoredValid' = IF raw[i].own /\ ~raw[i].malformed THEN StoredValid + 1 ELSE StoredValid
  BY <1>2, <1>9, <1>10, <1>11 DEF StoredValid
<1> QED
  BY <1>3, <1>4, <1>6, <1>7, <1>8, <1>12, <1>13

\* A record is stored for the first time, or the run is not quiet.
LEMMA DeliverKeepsInv ==
    ASSUME ScriptInv, NEW i \in DOMAIN raw, Deliver(i)
    PROVE  ScriptInv'
<1>1. /\ PipelineType /\ ScriptType /\ Phases /\ Counts /\ Samples /\ LastRound
      /\ i \in todo /\ raw' = raw /\ todo' = todo \ {i}
      /\ UNCHANGED <<workloadVars, scriptVars, historyVars>>
      /\ Runs
  BY DEF ScriptInv, Deliver
<1>2. UNCHANGED <<pc, originals, attempted, rawBefore, dlqBefore, rawAfter, dlqAfter, runRows,
                  attempt, why, replays, polluted, joined, lagging, sent>>
  BY <1>1 DEF workloadVars, scriptVars, sampleVars, historyVars
<1>3. /\ PipelineType' /\ OwnRecords' = OwnRecords
      /\ Envelopes' = IF raw[i].malformed THEN Envelopes + 1 ELSE Envelopes
      /\ RowsOfRun' = IF raw[i].own /\ ~raw[i].malformed THEN RowsOfRun + 1 ELSE RowsOfRun
      /\ StoredMalformed' = IF raw[i].own /\ raw[i].malformed
                             THEN StoredMalformed + 1 ELSE StoredMalformed
      /\ StoredValid' = IF raw[i].own /\ ~raw[i].malformed
                         THEN StoredValid + 1 ELSE StoredValid
      /\ \A j \in DOMAIN raw : copies'[j] = IF j = i THEN copies[j] + 1 ELSE copies[j]
  BY <1>1, DeliverEffect
<1>4. /\ StoredMalformed \in Nat /\ StoredValid \in Nat /\ Envelopes \in Nat /\ RowsOfRun \in Nat
      /\ \A j \in DOMAIN raw : copies[j] \in Nat
  BY <1>1, OwnProperty
<1>5. ScriptType' /\ Phases'
  BY <1>1, <1>2, <1>3 DEF ScriptType, Phases, Started
<1>6. Counts'
  <2> SUFFICES ASSUME Started PROVE Counts'
    BY <1>2 DEF Counts, Started
  <2>1. ~joined' => Len(raw') = rawBefore' + Cardinality(OwnRecords')
    BY <1>1, <1>2, <1>3 DEF Counts
  <2>2. ASSUME Quiet
        PROVE  /\ \A j \in OwnRecords' : copies'[j] = IF j \in todo' THEN 0 ELSE 1
               /\ \A j \in todo' : raw'[j].malformed => raw'[j].own
               /\ Envelopes' = dlqBefore' + StoredMalformed'
               /\ RowsOfRun' = StoredValid'
    <3>1. /\ \A j \in OwnRecords : copies[j] = IF j \in todo THEN 0 ELSE 1
          /\ \A j \in todo : raw[j].malformed => raw[j].own
          /\ Envelopes = dlqBefore + StoredMalformed
          /\ RowsOfRun = StoredValid
      BY <1>1, <2>2 DEF Counts
    <3>2. \A j \in OwnRecords : copies'[j] = IF j \in todo' THEN 0 ELSE 1
      BY <1>1, <1>3, <3>1 DEF OwnRecords
    <3>3. dlqBefore \in Nat
      BY <1>1 DEF ScriptType
    <3>4. Envelopes' = dlqBefore' + StoredMalformed' /\ RowsOfRun' = StoredValid'
      BY <1>1, <1>2, <1>3, <1>4, <3>1, <3>3
    <3> QED
      BY <1>1, <1>3, <3>1, <3>2, <3>4
  <2> QED
    BY <1>2, <2>1, <2>2 DEF Counts, Quiet
<1>7. Samples'
  <2>1. StoredMalformed <= StoredMalformed' /\ StoredValid <= StoredValid'
    BY <1>3, <1>4
  <2>2. dlqAfter \in Nat /\ dlqBefore \in Nat /\ runRows \in Nat
        /\ StoredMalformed' \in Nat /\ StoredValid' \in Nat
    BY <1>1, <1>3, <1>4 DEF ScriptType
  <2> QED
    BY <1>1, <1>2, <1>4, <2>1, <2>2 DEF Samples, Started, Quiet, PipelineMatches, DlqDelta
<1>8. LastRound'
  <2> SUFFICES ASSUME Started, Quiet, ~joined, ~lagging PROVE LastRound'
    BY <1>2 DEF LastRound, Started, Quiet
  <2>1. CASE pc \in {"dlq", "rows", "compare"}
    <3>1. OwnRecords \cap todo = {}
      BY <1>1, <2>1 DEF LastRound
    <3>2. ~raw[i].own
      BY <1>1, <3>1 DEF OwnRecords, PipelineType
    <3> QED
      BY <1>1, <1>2, <1>3, <3>1, <3>2 DEF LastRound, Started, Quiet
  <2>2. CASE pc \notin {"dlq", "rows", "compare"}
    BY <1>1, <1>2, <2>2 DEF LastRound, Started, Quiet
  <2> QED
    BY <2>1, <2>2
<1> QED
  BY <1>3, <1>5, <1>6, <1>7, <1>8 DEF ScriptInv

\* New records, which are not stored yet, add nothing to the counts.
LEMMA GrowEffect ==
    ASSUME PipelineType, PipelineType', NEW added, added \cap DOMAIN raw = {},
           DOMAIN raw' = DOMAIN raw \cup added, todo' = todo \cup added,
           \A i \in DOMAIN raw : raw'[i] = raw[i] /\ copies'[i] = copies[i],
           \A i \in added : copies'[i] = 0
    PROVE  /\ Envelopes' = Envelopes /\ RowsOfRun' = RowsOfRun
           /\ StoredMalformed' = StoredMalformed /\ StoredValid' = StoredValid
<1>1. /\ IsFiniteSet(DOMAIN raw) /\ IsFiniteSet(DOMAIN raw')
      /\ \A i \in DOMAIN raw : copies[i] \in Nat
      /\ \A i \in DOMAIN raw' : copies'[i] \in Nat
  <2>1. /\ Len(raw') \in Nat /\ DOMAIN raw' = 1 .. Len(raw')
        /\ \A i \in DOMAIN raw' : copies'[i] \in Nat
    <3>1. raw' \in Seq(Records) /\ copies' \in Seq(Nat) /\ Len(copies') = Len(raw')
      BY DEF PipelineType
    <3> QED
      BY ONLY <3>1
  <2> QED
    BY <2>1, OwnProperty, FS_Interval
<1>2. ASSUME NEW S \in SUBSET DOMAIN raw, NEW T \in SUBSET DOMAIN raw',
             S \subseteq T, T \ S \subseteq added
      PROVE  SumFunctionOnSet(copies', T) = SumFunctionOnSet(copies, S)
  <2>1. IsFiniteSet(T) /\ IsFiniteSet(S) /\ \A i \in T : copies'[i] \in Nat
    BY <1>1, <1>2, FS_Subset
  <2>2. \A i \in T \ S : copies'[i] = 0
    BY <1>2
  <2>3. SumFunctionOnSet(copies', T) = SumFunctionOnSet(copies', S)
    BY <1>2, <2>1, <2>2, SumOfZeros
  <2>4. \A i \in S : copies'[i] = copies[i]
    OBVIOUS
  <2>5. SumFunctionOnSet(copies', S) = SumFunctionOnSet(copies, S)
    BY <2>1, <2>4, SumAgrees
  <2> QED
    BY <2>3, <2>5
<1>3. Envelopes' = Envelopes
  <2> DEFINE S == {i \in DOMAIN raw : raw[i].malformed}
             T == {i \in DOMAIN raw' : raw'[i].malformed}
  <2>1. Envelopes = SumFunctionOnSet(copies, S) /\ Envelopes' = SumFunctionOnSet(copies', T)
    BY DEF Envelopes, Total
  <2>2. S \in SUBSET DOMAIN raw /\ T \in SUBSET DOMAIN raw' /\ S \subseteq T /\ T \ S \subseteq added
    OBVIOUS
  <2> HIDE DEF S, T
  <2> QED
    BY <1>2, <2>1, <2>2
<1>4. RowsOfRun' = RowsOfRun
  <2> DEFINE S == {i \in DOMAIN raw : raw[i].own /\ ~raw[i].malformed}
             T == {i \in DOMAIN raw' : raw'[i].own /\ ~raw'[i].malformed}
  <2>1. RowsOfRun = SumFunctionOnSet(copies, S) /\ RowsOfRun' = SumFunctionOnSet(copies', T)
    BY DEF RowsOfRun, Total
  <2>2. S \in SUBSET DOMAIN raw /\ T \in SUBSET DOMAIN raw' /\ S \subseteq T /\ T \ S \subseteq added
    OBVIOUS
  <2> HIDE DEF S, T
  <2> QED
    BY <1>2, <2>1, <2>2
<1>5. OwnMalformed' \ todo' = OwnMalformed \ todo /\ OwnValid' \ todo' = OwnValid \ todo
  BY DEF OwnMalformed, OwnValid
<1> QED
  BY <1>3, <1>4, <1>5 DEF StoredMalformed, StoredValid

\* A record of another producer.
LEMMA OtherKeepsInv ==
    ASSUME ScriptInv, NEW m \in BOOLEAN, OtherProducer(m)
    PROVE  ScriptInv'
<1>1. /\ PipelineType /\ ScriptType /\ Phases /\ Counts /\ Samples /\ LastRound
      /\ UNCHANGED <<workloadVars, scriptVars, replays, lagging>>
      /\ raw' = Append(raw, Record(FALSE, m, FALSE)) /\ copies' = Append(copies, 0)
      /\ todo' = todo \cup {Len(raw')}
      /\ polluted' = (polluted \/ m) /\ joined' = TRUE
  BY DEF ScriptInv, OtherProducer
<1>2. UNCHANGED <<pc, originals, attempted, rawBefore, dlqBefore, rawAfter, dlqAfter, runRows,
                  attempt, why, replays, lagging, sent>>
  BY <1>1 DEF workloadVars, scriptVars, sampleVars
<1>3. /\ Len(raw) \in Nat /\ DOMAIN raw = 1 .. Len(raw) /\ DOMAIN copies = DOMAIN raw
      /\ raw \in Seq(Records) /\ copies \in Seq(Nat) /\ Len(copies) = Len(raw)
      /\ todo \in SUBSET DOMAIN raw
  BY <1>1, OwnProperty DEF PipelineType
<1> DEFINE n == Len(raw) + 1
<1>4. Record(FALSE, m, FALSE) \in Records /\ ~Record(FALSE, m, FALSE).own
      /\ Record(FALSE, m, FALSE).malformed = m
  BY DEF Record, Records
<1>5. /\ raw' \in Seq(Records) /\ Len(raw') = n /\ DOMAIN raw' = DOMAIN raw \cup {n}
      /\ copies' \in Seq(Nat) /\ Len(copies') = n
      /\ \A i \in DOMAIN raw : raw'[i] = raw[i] /\ copies'[i] = copies[i]
      /\ raw'[n] = Record(FALSE, m, FALSE) /\ copies'[n] = 0
      /\ {n} \cap DOMAIN raw = {} /\ todo' = todo \cup {n}
  <2> DEFINE r == Record(FALSE, m, FALSE)
  <2>1. /\ raw' = Append(raw, r) /\ copies' = Append(copies, 0) /\ r \in Records
        /\ todo' = todo \cup {Len(raw')}
    BY <1>1, <1>4
  <2> HIDE DEF r
  <2>2. /\ raw' \in Seq(Records) /\ Len(raw') = n /\ raw'[n] = r
        /\ \A i \in DOMAIN raw : raw'[i] = raw[i]
    BY <1>3, <2>1
  <2>3. /\ copies' \in Seq(Nat) /\ Len(copies') = n /\ copies'[n] = 0
        /\ \A i \in DOMAIN raw : copies'[i] = copies[i]
    BY <1>3, <2>1
  <2>4. DOMAIN raw' = DOMAIN raw \cup {n} /\ {n} \cap DOMAIN raw = {}
    BY <1>3, <2>2
  <2> QED
    BY <2>1, <2>2, <2>3, <2>4 DEF r
<1> HIDE DEF n
<1>6. PipelineType'
  BY <1>3, <1>5 DEF PipelineType
<1>7. /\ Envelopes' = Envelopes /\ RowsOfRun' = RowsOfRun
      /\ StoredMalformed' = StoredMalformed /\ StoredValid' = StoredValid
  BY <1>1, <1>5, <1>6, GrowEffect
<1>8. OwnRecords' = OwnRecords /\ n \notin OwnRecords
  BY <1>4, <1>5 DEF OwnRecords
<1>9. (polluted \/ m) \in BOOLEAN /\ (~polluted' => ~polluted /\ ~m)
  BY <1>1
<1>10. ScriptType' /\ Phases'
  BY <1>1, <1>2, <1>8, <1>9 DEF ScriptType, Phases, Started
<1>11. Counts'
  <2> SUFFICES ASSUME Started, Quiet'
               PROVE  /\ \A i \in OwnRecords' : copies'[i] = IF i \in todo' THEN 0 ELSE 1
                      /\ \A i \in todo' : raw'[i].malformed => raw'[i].own
                      /\ Envelopes' = dlqBefore' + StoredMalformed'
                      /\ RowsOfRun' = StoredValid'
    BY <1>1, <1>2 DEF Counts, Started
  <2>1. Quiet /\ ~m
    BY <1>2, <1>9 DEF Quiet
  <2>2. /\ \A i \in OwnRecords : copies[i] = IF i \in todo THEN 0 ELSE 1
        /\ \A i \in todo : raw[i].malformed => raw[i].own
        /\ Envelopes = dlqBefore + StoredMalformed /\ RowsOfRun = StoredValid
    BY <1>1, <2>1 DEF Counts
  <2>3. ASSUME NEW i \in OwnRecords' PROVE copies'[i] = IF i \in todo' THEN 0 ELSE 1
    <3>1. i \in OwnRecords /\ i \in DOMAIN raw /\ i # n
      BY <1>8, <2>3 DEF OwnRecords
    <3> QED
      BY <1>5, <2>2, <3>1
  <2>4. ASSUME NEW i \in todo', raw'[i].malformed PROVE raw'[i].own
    <3>1. i # n
      BY <1>4, <1>5, <2>1, <2>4
    <3> QED
      BY <1>3, <1>5, <2>2, <2>4, <3>1
  <2> QED
    BY <1>2, <1>7, <2>2, <2>3, <2>4
<1>12. Samples'
  <2>1. Quiet' => Quiet
    BY <1>2, <1>9 DEF Quiet
  <2> QED
    BY <1>1, <1>2, <1>7, <2>1 DEF Samples, Started, PipelineMatches, DlqDelta
<1>13. LastRound'
  BY <1>1 DEF LastRound
<1> QED
  BY <1>6, <1>10, <1>11, <1>12, <1>13 DEF ScriptInv

\* A record is to be stored again.
LEMMA ReplayKeepsInv ==
    ASSUME ScriptInv, NEW i \in DOMAIN raw, Replay(i)
    PROVE  ScriptInv'
<1>1. /\ PipelineType /\ ScriptType /\ Phases /\ Counts /\ Samples /\ LastRound
      /\ UNCHANGED <<raw, copies, workloadVars, scriptVars, polluted, joined, lagging>>
      /\ todo' = todo \cup {i} /\ replays < MaxReplays /\ replays' = replays + 1
  BY DEF ScriptInv, Replay
<1>2. UNCHANGED <<pc, originals, attempted, rawBefore, dlqBefore, rawAfter, dlqAfter, runRows,
                  attempt, why, sent>>
  BY <1>1 DEF workloadVars, scriptVars, sampleVars
<1>3. OwnRecords' = OwnRecords /\ PipelineType'
  BY <1>1 DEF OwnRecords, PipelineType
<1>4. replays' \in 0 .. MaxReplays /\ replays' # 0
  BY <1>1, BoundsAssumption DEF ScriptType
<1>5. ScriptType' /\ Phases'
  BY <1>1, <1>2, <1>3, <1>4 DEF ScriptType, Phases, Started
<1>6. Counts'
  BY <1>1, <1>2, <1>3, <1>4 DEF Counts, Started, Quiet
<1>7. Samples' /\ LastRound'
  BY <1>4 DEF Samples, LastRound, Quiet
<1> QED
  BY <1>3, <1>5, <1>6, <1>7 DEF ScriptInv

\* The job runs, and the script has not begun to count.
LEMMA ListKeepsInv ==
    ASSUME ScriptInv, ListOrRun
    PROVE  ScriptInv'
<1>1. /\ PipelineType /\ ScriptType /\ Phases
      /\ raw' = raw /\ copies' = copies /\ todo' \in {todo, DOMAIN raw}
      /\ pc = "list" /\ pc' = "before"
      /\ UNCHANGED <<workloadVars, why, originals, attempted, sampleVars, attempt, historyVars>>
  BY DEF ScriptInv, ListOrRun, Go
<1>2. UNCHANGED <<originals, attempted, rawBefore, dlqBefore, rawAfter, dlqAfter, runRows,
                  attempt, why, replays, polluted, joined, lagging, sent>>
  BY <1>1 DEF workloadVars, sampleVars, historyVars
<1>3. OwnRecords' = OwnRecords /\ PipelineType'
  BY <1>1 DEF OwnRecords, PipelineType
<1>4. ScriptType' /\ Phases'
  BY <1>1, <1>2, <1>3 DEF ScriptType, Phases, Started
<1>5. Counts' /\ Samples' /\ LastRound'
  BY <1>1 DEF Counts, Samples, LastRound, Started
<1> QED
  BY <1>3, <1>4, <1>5 DEF ScriptInv

LEMMA BatchProperty ==
    ASSUME LoadInv, NEW batch \in Batches
    PROVE  batch \in Seq(Messages) /\ Len(batch) \in {1, 2}
<1>1. PICK t \in Tenants, age \in Ages, m \in BOOLEAN :
         \/ batch = <<Original(t, age, m)>>
         \/ batch = <<Original(t, age, m), Duplicate(Original(t, age, m))>>
  BY DEF Batches
<1> DEFINE o == Original(t, age, m)
           d == Duplicate(o)
<1>2. o \in Messages
  BY OriginalProperty
<1>3. d \in Messages
  BY <1>2, DuplicateProperty DEF LoadInv
<1> HIDE DEF o, d
<1>4. batch = <<o>> \/ batch = <<o, d>>
  BY <1>1 DEF o, d
<1>5. CASE batch = <<o>>
  BY <1>2, <1>5
<1>6. CASE batch = <<o, d>>
  BY <1>2, <1>3, <1>6
<1> QED
  BY <1>4, <1>5, <1>6

LEMMA ConcatProperty ==
    ASSUME NEW S, NEW s \in Seq(S), NEW t \in Seq(S)
    PROVE  /\ s \o t \in Seq(S) /\ Len(s \o t) = Len(s) + Len(t)
           /\ \A i \in 1 .. Len(s) : (s \o t)[i] = s[i]
           /\ \A i \in Len(s) + 1 .. Len(s) + Len(t) : (s \o t)[i] = t[i - Len(s)]
OBVIOUS

\* A batch makes as many records of the run as messages were sent.
LEMMA PublishEffect ==
    ASSUME PipelineType, LoadInv, Publish
    PROVE  \E n \in {1, 2} :
              LET added == Len(raw) + 1 .. Len(raw) + n IN
              /\ PipelineType' /\ Len(raw') = Len(raw) + n /\ Len(sent') = Len(sent) + n
              /\ DOMAIN raw' = DOMAIN raw \cup added /\ todo' = todo \cup added
              /\ \A i \in DOMAIN raw : raw'[i] = raw[i] /\ copies'[i] = copies[i]
              /\ \A i \in added : raw'[i].own /\ copies'[i] = 0
<1>1. PICK batch \in Batches :
         /\ NextBatch(batch)
         /\ raw' = raw \o [i \in DOMAIN batch |->
                            Record(TRUE, batch[i].malformed, batch[i].duplicate)]
         /\ todo' = todo \cup (Len(raw) + 1 .. Len(raw'))
         /\ copies' = copies \o [i \in DOMAIN batch |-> 0]
  BY DEF Publish
<1>2. batch \in Seq(Messages) /\ Len(batch) \in {1, 2}
  BY BatchProperty
<1>3. PICK n \in {1, 2} : n = Len(batch)
  BY <1>2
<1> DEFINE rs == [i \in DOMAIN batch |-> Record(TRUE, batch[i].malformed, batch[i].duplicate)]
           zs == [i \in DOMAIN batch |-> 0]
<1>4. DOMAIN batch = 1 .. n /\ \A i \in 1 .. n : batch[i] \in Messages
  BY <1>2, <1>3
<1>5. \A i \in 1 .. n : rs[i] \in Records /\ rs[i].own /\ zs[i] = 0
  <2> SUFFICES ASSUME NEW i \in 1 .. n
               PROVE  /\ Record(TRUE, batch[i].malformed, batch[i].duplicate) \in Records
                      /\ Record(TRUE, batch[i].malformed, batch[i].duplicate).own
    BY <1>4
  <2>1. batch[i].malformed \in BOOLEAN /\ batch[i].duplicate \in BOOLEAN
    BY <1>4 DEF Messages
  <2> QED
    BY <2>1 DEF Record, Records
<1>6. /\ rs \in Seq(Records) /\ Len(rs) = n /\ zs \in Seq(Nat) /\ Len(zs) = n
  <2>1. rs = [i \in 1 .. n |-> rs[i]] /\ zs = [i \in 1 .. n |-> zs[i]]
    BY <1>4
  <2> HIDE DEF rs, zs
  <2> QED
    BY <1>5, <2>1
<1>7. raw' = raw \o rs /\ copies' = copies \o zs /\ sent' = sent \o batch
  BY <1>1 DEF NextBatch
<1> HIDE DEF rs, zs
<1>8. /\ raw \in Seq(Records) /\ copies \in Seq(Nat) /\ Len(copies) = Len(raw)
      /\ todo \in SUBSET DOMAIN raw /\ sent \in Seq(Messages) /\ Len(raw) \in Nat
  BY DEF PipelineType, LoadInv, Orderly
<1>9. /\ raw' \in Seq(Records) /\ Len(raw') = Len(raw) + n
      /\ \A i \in DOMAIN raw : raw'[i] = raw[i]
      /\ \A i \in Len(raw) + 1 .. Len(raw) + n : raw'[i] = rs[i - Len(raw)]
  BY <1>6, <1>7, <1>8, ConcatProperty
<1>10. /\ copies' \in Seq(Nat) /\ Len(copies') = Len(raw) + n
       /\ \A i \in DOMAIN raw : copies'[i] = copies[i]
       /\ \A i \in Len(raw) + 1 .. Len(raw) + n : copies'[i] = zs[i - Len(raw)]
  <2>1. /\ copies' \in Seq(Nat) /\ Len(copies') = Len(copies) + n
        /\ \A i \in 1 .. Len(copies) : copies'[i] = copies[i]
        /\ \A i \in Len(copies) + 1 .. Len(copies) + n : copies'[i] = zs[i - Len(copies)]
    <3> DEFINE K == Nat
    <3>1. zs \in Seq(K) /\ copies \in Seq(K) /\ Len(zs) = n /\ copies' = copies \o zs
      BY <1>6, <1>7, <1>8
    <3> HIDE DEF K
    <3>2. /\ copies' \in Seq(K) /\ Len(copies') = Len(copies) + n
          /\ \A i \in 1 .. Len(copies) : copies'[i] = copies[i]
          /\ \A i \in Len(copies) + 1 .. Len(copies) + n : copies'[i] = zs[i - Len(copies)]
      BY ONLY <3>1, ConcatProperty
    <3> QED
      BY <3>2 DEF K
  <2>2. Len(copies) = Len(raw) /\ DOMAIN raw = 1 .. Len(raw)
    BY <1>8
  <2> QED
    BY ONLY <2>1, <2>2
<1>11. Len(sent') = Len(sent) + n
  BY <1>2, <1>3, <1>7, <1>8
<1> DEFINE added == Len(raw) + 1 .. Len(raw) + n
<1>12. \A i \in added : i - Len(raw) \in 1 .. n
  BY <1>8
<1>13. DOMAIN raw' = DOMAIN raw \cup added /\ todo' = todo \cup added
  <2>1. DOMAIN raw = 1 .. Len(raw) /\ DOMAIN raw' = 1 .. Len(raw) + n
    BY <1>8, <1>9
  <2>2. 1 .. Len(raw) + n = (1 .. Len(raw)) \cup added
    BY <1>8
  <2> QED
    BY <1>1, <1>9, <2>1, <2>2
<1>14. \A i \in added : raw'[i].own /\ copies'[i] = 0
  BY <1>5, <1>9, <1>10, <1>12
<1>15. PipelineType'
  BY <1>8, <1>9, <1>10, <1>13 DEF PipelineType
<1> QED
  BY <1>9, <1>10, <1>11, <1>13, <1>14, <1>15

\* The producer publishes a batch.
LEMMA PublishKeepsInv ==
    ASSUME ScriptInv, LoadInv, Publish
    PROVE  ScriptInv'
<1>1. /\ PipelineType /\ ScriptType /\ Phases /\ Counts /\ Samples
      /\ pc = "produce" /\ originals < MaxOriginals /\ originals' = originals + 1
      /\ UNCHANGED <<pc, attempted, sampleVars, attempt, why, historyVars>>
  BY DEF ScriptInv, Publish
<1>2. UNCHANGED <<pc, attempted, rawBefore, dlqBefore, rawAfter, dlqAfter, runRows,
                  attempt, why, replays, polluted, joined, lagging>>
  BY <1>1 DEF sampleVars, historyVars
<1>3. PICK n \in {1, 2} :
         LET added == Len(raw) + 1 .. Len(raw) + n IN
         /\ PipelineType' /\ Len(raw') = Len(raw) + n /\ Len(sent') = Len(sent) + n
         /\ DOMAIN raw' = DOMAIN raw \cup added /\ todo' = todo \cup added
         /\ \A i \in DOMAIN raw : raw'[i] = raw[i] /\ copies'[i] = copies[i]
         /\ \A i \in added : raw'[i].own /\ copies'[i] = 0
  BY <1>1, PublishEffect
<1> DEFINE added == Len(raw) + 1 .. Len(raw) + n
<1>4. /\ Len(raw) \in Nat /\ DOMAIN raw = 1 .. Len(raw) /\ Len(sent) \in Nat
      /\ todo \in SUBSET DOMAIN raw
      /\ IsFiniteSet(OwnRecords) /\ Cardinality(OwnRecords) \in Nat
  BY <1>1, OwnProperty DEF PipelineType, LoadInv, Orderly
<1>5. added \cap DOMAIN raw = {} /\ IsFiniteSet(added) /\ Cardinality(added) = n
  <2>1. Len(raw) + 1 \in Int /\ Len(raw) + n \in Int
    BY <1>4
  <2>2. /\ IsFiniteSet(added)
        /\ Cardinality(added) = IF Len(raw) + 1 > Len(raw) + n THEN 0
                                ELSE (Len(raw) + n) - (Len(raw) + 1) + 1
    BY <2>1, FS_Interval
  <2>3. Cardinality(added) = n
    <3> HIDE DEF added
    <3> QED
      BY <1>4, <2>2
  <2> QED
    BY <1>4, <2>2, <2>3
<1>6. /\ PipelineType' /\ Len(raw') = Len(raw) + n /\ Len(sent') = Len(sent) + n
      /\ DOMAIN raw' = DOMAIN raw \cup added /\ todo' = todo \cup added
      /\ \A i \in DOMAIN raw : raw'[i] = raw[i] /\ copies'[i] = copies[i]
      /\ \A i \in added : raw'[i].own /\ copies'[i] = 0
  BY <1>3
<1> HIDE DEF added
<1>7. /\ Envelopes' = Envelopes /\ RowsOfRun' = RowsOfRun
      /\ StoredMalformed' = StoredMalformed /\ StoredValid' = StoredValid
  BY <1>1, <1>5, <1>6, GrowEffect
<1>8. OwnRecords' = OwnRecords \cup added /\ OwnRecords \cap added = {}
  BY <1>5, <1>6 DEF OwnRecords
<1>9. Cardinality(OwnRecords') = Cardinality(OwnRecords) + n
  <2>1. Cardinality(OwnRecords \cup added) =
           Cardinality(OwnRecords) + Cardinality(added) - Cardinality(OwnRecords \cap added)
    BY <1>4, <1>5, FS_Union
  <2>2. Cardinality(OwnRecords \cap added) = 0
    BY <1>8, FS_EmptySet
  <2> QED
    BY <1>4, <1>5, <1>8, <2>1, <2>2
<1>10. ScriptType'
  BY <1>1, <1>2, BoundsAssumption DEF ScriptType
<1>11. Phases'
  <2>1. originals \in Nat /\ Len(sent) <= 2 * originals /\ Cardinality(OwnRecords) = Len(sent)
    BY <1>1, BoundsAssumption DEF ScriptType, Phases
  <2> QED
    BY <1>1, <1>2, <1>4, <1>6, <1>9, <2>1 DEF Phases, Started
<1>12. Counts'
  <2>1. Started /\ Started' /\ Quiet' = Quiet
    BY <1>1, <1>2 DEF Started, Quiet
  <2>2. ~joined' => Len(raw') = rawBefore' + Cardinality(OwnRecords')
    <3>1. ~joined => Len(raw) = rawBefore + Cardinality(OwnRecords)
      BY <1>1, <2>1 DEF Counts
    <3>2. rawBefore \in Nat
      BY <1>1 DEF ScriptType
    <3> QED
      BY <1>2, <1>4, <1>6, <1>9, <3>1, <3>2
  <2>3. ASSUME Quiet
        PROVE  /\ \A i \in OwnRecords' : copies'[i] = IF i \in todo' THEN 0 ELSE 1
               /\ \A i \in todo' : raw'[i].malformed => raw'[i].own
               /\ Envelopes' = dlqBefore' + StoredMalformed'
               /\ RowsOfRun' = StoredValid'
    <3>1. /\ \A i \in OwnRecords : copies[i] = IF i \in todo THEN 0 ELSE 1
          /\ \A i \in todo : raw[i].malformed => raw[i].own
          /\ Envelopes = dlqBefore + StoredMalformed /\ RowsOfRun = StoredValid
      BY <1>1, <2>1, <2>3 DEF Counts
    <3>2. ASSUME NEW i \in OwnRecords' PROVE copies'[i] = IF i \in todo' THEN 0 ELSE 1
      <4>1. CASE i \in added
        BY <1>6, <4>1
      <4>2. CASE i \notin added
        <5>1. i \in OwnRecords /\ i \in DOMAIN raw
          BY <1>8, <4>2 DEF OwnRecords
        <5> QED
          BY <1>6, <3>1, <4>2, <5>1
      <4> QED
        BY <4>1, <4>2
    <3>3. \A i \in todo' : raw'[i].malformed => raw'[i].own
      BY <1>4, <1>6, <3>1
    <3> QED
      BY <1>2, <1>7, <3>1, <3>2, <3>3
  <2> QED
    BY <2>1, <2>2, <2>3 DEF Counts
<1>13. Samples'
  BY <1>1, <1>2, <1>7 DEF Samples, Started, Quiet
<1>14. LastRound'
  BY <1>1, <1>2 DEF LastRound, Phases
<1> QED
  BY <1>6, <1>10, <1>11, <1>12, <1>13, <1>14 DEF ScriptInv

LEMMA NextScriptInv == LoadInv /\ ScriptInv /\ [Next]_vars => ScriptInv'
<1> SUFFICES ASSUME LoadInv, ScriptInv, [Next]_vars PROVE ScriptInv'
  OBVIOUS
<1>1. CASE UNCHANGED vars
  <2>1. UNCHANGED <<pc, originals, attempted, rawBefore, dlqBefore, rawAfter, dlqAfter,
                    runRows, attempt, why, replays, polluted, joined, lagging, sent>>
        /\ UNCHANGED pipelineVars
    BY <1>1 DEF vars, scriptVars, sampleVars, historyVars, workloadVars
  <2>2. PipelineType /\ ScriptType /\ Phases /\ Counts /\ Samples /\ LastRound
    BY DEF ScriptInv
  <2>3. /\ PipelineType' = PipelineType /\ OwnRecords' = OwnRecords
        /\ StoredMalformed' = StoredMalformed /\ StoredValid' = StoredValid
        /\ Envelopes' = Envelopes /\ RowsOfRun' = RowsOfRun
    BY <2>1, SameRecords
  <2>4. ScriptType' /\ Phases'
    BY <2>1, <2>2, <2>3 DEF ScriptType, Phases, Started
  <2>5. Counts' /\ Samples' /\ LastRound'
    BY <2>1, <2>2, <2>3 DEF Counts, Samples, LastRound, Started, Quiet, pipelineVars,
       PipelineMatches, DlqDelta
  <2> QED
    BY <2>2, <2>3, <2>4, <2>5 DEF ScriptInv
<1>2. CASE \E i \in DOMAIN raw : Deliver(i) \/ Replay(i)
  BY <1>2, DeliverKeepsInv, ReplayKeepsInv
<1>3. CASE \E m \in BOOLEAN : OtherProducer(m)
  BY <1>3, OtherKeepsInv
<1>4. CASE Script
  <2>1. Len(sent) \in Nat
    BY DEF LoadInv, Orderly
  <2> QED
    BY <1>4, <2>1, ListKeepsInv, BeforeKeepsInv, PublishKeepsInv, ClockMovesKeepsInv,
       ExitKeepsInv, SampleRawKeepsInv, SampleDlqKeepsInv, SampleRowsKeepsInv,
       CompareKeepsInv, ChecksKeepInv DEF Script
<1> QED
  BY <1>1, <1>2, <1>3, <1>4 DEF Next

LEMMA InitScriptInv == Init => ScriptInv
<1> SUFFICES ASSUME Init PROVE ScriptInv
  OBVIOUS
<1>1. PipelineType
  <2>1. raw = <<>> \/ \E m \in BOOLEAN : raw = <<Record(FALSE, m, FALSE)>>
    BY DEF Init
  <2>2. \A m \in BOOLEAN : Record(FALSE, m, FALSE) \in Records
    BY DEF Record, Records
  <2>3. raw \in Seq(Records) /\ todo \in SUBSET DOMAIN raw
    <3>1. raw \in Seq(Records)
      <4>1. CASE raw = <<>>
        BY <4>1
      <4>2. ASSUME NEW m \in BOOLEAN, raw = <<Record(FALSE, m, FALSE)>>
            PROVE  raw \in Seq(Records)
        <5> DEFINE r == Record(FALSE, m, FALSE)
        <5>1. r \in Records /\ raw = <<r>>
          BY <2>2, <4>2
        <5> HIDE DEF r
        <5> QED
          BY ONLY <5>1
      <4> QED
        BY <2>1, <4>1, <4>2
    <3> QED
      BY <3>1 DEF Init
  <2>4. PICK n \in Nat : n = Len(raw) /\ DOMAIN raw = 1 .. n
    BY <2>3
  <2>5. copies = [i \in 1 .. n |-> IF i \in todo THEN 0 ELSE 1]
    BY <2>4 DEF Init
  <2>6. copies \in Seq(Nat) /\ Len(copies) = n
    BY <2>5
  <2> QED
    BY <2>3, <2>4, <2>6 DEF PipelineType
<1>2. OwnRecords = {}
  <2>1. \A i \in DOMAIN raw : ~raw[i].own
    BY DEF Init, Record
  <2> QED
    BY <2>1 DEF OwnRecords
<1>3. Cardinality(OwnRecords) = 0
  BY <1>2, FS_EmptySet
<1>4. ScriptType
  <2>1. 0 \in 0 .. MaxAttempts /\ 0 \in 0 .. MaxOriginals /\ 0 \in 0 .. MaxReplays
    BY BoundsAssumption, AttemptsAssumption
  <2>2. 0 \in 0 .. 2 * MaxOriginals
    <3>1. MaxOriginals \in Nat
      BY BoundsAssumption
    <3> QED
      BY <3>1
  <2> QED
    BY <2>1, <2>2 DEF Init, ScriptType
<1>5. Phases
  BY <1>2, <1>3 DEF Init, Phases, Started, WorkloadInit
<1>6. Counts /\ Samples /\ LastRound
  BY DEF Init, Counts, Samples, LastRound, Started
<1> QED
  BY <1>1, <1>4, <1>5, <1>6 DEF ScriptInv

THEOREM ScriptInvariant == Spec => []ScriptInv
<1>1. LoadInv /\ LoadInv' /\ ScriptInv /\ [Next]_vars => ScriptInv'
  BY NextScriptInv
<1> QED
  BY <1>1, InitScriptInv, LoadInvariant, PTL DEF Spec

\* Each variable of the smoke test has its type, and the topic holds as many records
\* of the run as its producer counts (scripts/smoke.sh), for any load and any number of
\* rounds, of records of others and of records stored again.
THEOREM SmokeTestTypeCorrect == Spec => []TypeOK
<1>1. LoadInv /\ ScriptInv => TypeOK
  <2> SUFFICES ASSUME LoadInv, ScriptInv PROVE TypeOK
    OBVIOUS
  <2>1. PipelineType /\ ScriptType /\ Phases
    BY DEF ScriptInv
  <2>2. clock \in Times /\ lastProducedAt \in Nat
    BY DEF LoadInv, Orderly
  <2>3. /\ DOMAIN copies = DOMAIN raw /\ todo \subseteq DOMAIN raw
        /\ \A i \in DOMAIN copies : copies[i] \in Nat
    BY <2>1, OwnProperty DEF PipelineType
  <2>4. sampleVars \in Nat \X Nat \X Nat \X Nat \X Nat
    BY <2>1 DEF sampleVars, ScriptType
  <2> QED
    BY <2>1, <2>2, <2>3, <2>4 DEF TypeOK, ScriptType, Phases
<1> QED
  BY <1>1, LoadInvariant, ScriptInvariant, PTL

\* A smoke test that passes is right: its three samples of different moments
\* agree with the producer's count only when each record of the run is stored exactly
\* once (reconciliation in scripts/smoke.sh), for any load, any interleaving with the job
\* and any valid records of others, if nothing is stored again and no envelope of
\* others comes in between.
THEOREM PassMeansArrivedHolds == Spec => []PassMeansArrived
<1>1. ScriptInv => PassMeansArrived
  <2> SUFFICES ASSUME ScriptInv, pc \in {"anomalies", "passed"}, Quiet,
                      NEW i \in OwnRecords
               PROVE  copies[i] = 1
    BY DEF PassMeansArrived, Quiet
  <2>1. PipelineType /\ ScriptType /\ Phases /\ Counts /\ Samples /\ Started
    BY DEF ScriptInv, Started
  <2>2. /\ StoredMalformed \in Nat /\ StoredValid \in Nat
        /\ Cardinality(OwnRecords) \in Nat
        /\ StoredMalformed + StoredValid <= Cardinality(OwnRecords)
        /\ StoredMalformed + StoredValid = Cardinality(OwnRecords)
              <=> OwnRecords \cap todo = {}
    BY <2>1, OwnProperty
  <2>3. runRows + (dlqAfter - dlqBefore) = Cardinality(OwnRecords)
    BY <2>1 DEF Samples, PipelineMatches, DlqDelta, Phases
  <2>4. /\ dlqAfter <= dlqBefore + StoredMalformed /\ runRows <= StoredValid
        /\ dlqAfter \in Nat /\ dlqBefore \in Nat /\ runRows \in Nat
    BY <2>1 DEF Samples, ScriptType
  <2>5. OwnRecords \cap todo = {}
    BY <2>2, <2>3, <2>4
  <2>6. copies[i] = IF i \in todo THEN 0 ELSE 1
    BY <2>1 DEF Counts
  <2> QED
    BY <2>5, <2>6
<1> QED
  BY <1>1, ScriptInvariant, PTL

\* There is no false alarm: without another producer, a mismatch is reported only
\* when the job owed records of the run at the beginning of the last round
\* (reconciliation in scripts/smoke.sh), for any number of rounds.
THEOREM NoFalseAlarmHolds == Spec => []NoFalseAlarm
<1>1. ScriptInv => NoFalseAlarm
  BY DEF ScriptInv, NoFalseAlarm, LastRound, Phases, Started, Quiet
<1> QED
  BY <1>1, ScriptInvariant, PTL
=============================================================================
