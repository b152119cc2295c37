--------------------------- MODULE EventTimeProofs ---------------------------
(***************************************************************************)
(* Proofs about EventTime: no watermark passes a split that was never idle *)
(* and no row is late without a cause, for any number of splits, subtasks, *)
(* channels and event times, however the channels are laid out.            *)
(***************************************************************************)
EXTENDS EventTime, FiniteSetTheorems, WellFoundedInduction, TLAPS

-----------------------------------------------------------------------------
(* The extremes of finite sets of integers.                                *)

\* Every finite non-empty set of integers has a largest and a smallest element:
\* the smallest counterexample would still have one without one of its elements.
LEMMA HasExtremes ==
    ASSUME NEW S \in SUBSET Int, IsFiniteSet(S), S # {}
    PROVE  /\ \E x \in S : \A y \in S : x >= y
           /\ \E x \in S : \A y \in S : x <= y
<1> DEFINE Has(T) == /\ \E x \in T : \A y \in T : x >= y
                     /\ \E x \in T : \A y \in T : x <= y
           Bad(n) == \E T \in SUBSET Int : /\ IsFiniteSet(T) /\ T # {}
                                           /\ Cardinality(T) = n /\ ~Has(T)
           N == {n \in Nat : Bad(n)}
<1> SUFFICES ASSUME N # {} PROVE FALSE
  <2>1. Cardinality(S) \in Nat
    BY FS_CardinalityType
  <2> QED
    BY <2>1
<1>1. PICK n \in N : \A k \in N : <<k, n>> \notin OpToRel(<, Nat)
  <2>1. N \subseteq Nat /\ N # {}
    OBVIOUS
  <2> HIDE DEF N
  <2> QED
    BY <2>1, NatLessThanWellFounded, WFMin
<1>2. \A k \in N : ~(k < n)
  BY <1>1, Zenon DEF OpToRel
<1>3. PICK T \in SUBSET Int : /\ IsFiniteSet(T) /\ T # {}
                              /\ Cardinality(T) = n /\ ~Has(T)
  BY <1>1
<1>4. PICK x \in T : TRUE
  BY <1>3
<1> DEFINE R == T \ {x}
<1>5. IsFiniteSet(R) /\ Cardinality(R) = n - 1 /\ R \in SUBSET Int /\ n - 1 \in Nat
  <2>1. IsFiniteSet(R) /\ Cardinality(R) = n - 1
    BY <1>3, <1>4, FS_RemoveElement
  <2>2. Cardinality(R) \in Nat
    BY <2>1, FS_CardinalityType
  <2> QED
    BY <2>1, <2>2
<1>6. CASE R = {}
  <2>1. T = {x} /\ x \in Int
    BY <1>4, <1>6
  <2> QED
    BY <1>3, <2>1
<1>7. CASE R # {}
  <2>1. n - 1 \notin N
    BY <1>2, <1>5
  <2>2. Has(R)
    BY <1>5, <1>7, <2>1
  <2>3. PICK a \in R : \A y \in R : a >= y
    BY <2>2
  <2>4. PICK b \in R : \A y \in R : b <= y
    BY <2>2
  <2>5. /\ x \in Int /\ a \in Int /\ b \in Int /\ a \in T /\ b \in T
        /\ T = R \cup {x} /\ \A y \in T : y \in Int
    BY <1>3, <1>4, <2>3, <2>4
  <2>6. \A y \in T : (IF x >= a THEN x ELSE a) >= y
    BY <2>3, <2>5
  <2>7. \A y \in T : (IF x <= b THEN x ELSE b) <= y
    BY <2>4, <2>5
  <2> QED
    BY <1>3, <1>4, <2>5, <2>6, <2>7
<1> QED
  BY <1>6, <1>7

LEMMA MaxProperty ==
    ASSUME NEW S \in SUBSET Int, IsFiniteSet(S), S # {}
    PROVE  Max(S) \in S /\ \A y \in S : Max(S) >= y
BY HasExtremes DEF Max

LEMMA MinProperty ==
    ASSUME NEW S \in SUBSET Int, IsFiniteSet(S), S # {}
    PROVE  Min(S) \in S /\ \A y \in S : Min(S) <= y
BY HasExtremes DEF Min

LEMMA MaxOfTwo ==
    ASSUME NEW a \in Int, NEW b \in Int
    PROVE  Max({a, b}) = IF a >= b THEN a ELSE b
<1> DEFINE m == IF a >= b THEN a ELSE b
<1>1. m \in {a, b} /\ \A y \in {a, b} : m >= y
  OBVIOUS
<1>2. \A x \in {a, b} : (\A y \in {a, b} : x >= y) => x = m
  OBVIOUS
<1> QED
  BY <1>1, <1>2 DEF Max

\* A combined watermark comes from somewhere, never goes back, and passes none of
\* the watermarks it has not already passed.
LEMMA CombinedProperty ==
    ASSUME NEW old \in Int, NEW marks \in SUBSET Int, IsFiniteSet(marks)
    PROVE  /\ Combined(old, marks) \in {old} \cup marks
           /\ old <= Combined(old, marks)
           /\ \A m \in marks : old <= m => Combined(old, marks) <= m
<1>1. CASE marks = {}
  BY <1>1 DEF Combined
<1>2. CASE marks # {}
  <2>1. Min(marks) \in marks /\ \A y \in marks : Min(marks) <= y
    BY <1>2, MinProperty
  <2>2. Combined(old, marks) = IF old >= Min(marks) THEN old ELSE Min(marks)
    BY <1>2, <2>1, MaxOfTwo DEF Combined
  <2>3. Min(marks) \in Int /\ \A m \in marks : m \in Int
    BY <2>1
  <2>4. Combined(old, marks) \in {old, Min(marks)} /\ old <= Combined(old, marks)
    BY <2>2, <2>3
  <2>5. \A m \in marks : old <= m => Combined(old, marks) <= m
    BY <2>1, <2>2, <2>3
  <2> QED
    BY <2>1, <2>4, <2>5
<1> QED
  BY <1>1, <1>2

LEMMA ImageIsFinite ==
    ASSUME NEW S, IsFiniteSet(S), NEW V, NEW g \in [S -> V]
    PROVE  IsFiniteSet({g[x] : x \in S})
<1> DEFINE T == {g[x] : x \in S}
<1>1. g \in Surjection(S, T)
  BY DEF Surjection
<1> QED
  BY <1>1, FS_Surjection

-----------------------------------------------------------------------------
(* Types.                                                                  *)

RowMessages == [kind : {"row"}, time : Times, excused : BOOLEAN]
StatusMessages == [kind : {"status"}, status : Statuses]

TypeInv == TypeOK /\ channel \in [Edges -> Seq(RowMessages \cup StatusMessages)]

LEMMA Integral ==
    /\ Marks \subseteq Int /\ LongMin \in Marks /\ LongMin \in Int /\ OutOfOrder \in Nat
    /\ Times \subseteq Int
    /\ Nothing \in Int /\ Nothing - OutOfOrder - 1 = LongMin
    /\ \A t \in Times \cup {0} : t - OutOfOrder - 1 \in Marks
    /\ \A t \in Times \cup {0, Nothing} : t \in Int /\ t - OutOfOrder - 1 \in Marks
BY TimesAssumption DEF Marks, Nothing

LEMMA EdgeEnds ==
    ASSUME NEW e \in Edges
    PROVE  e[1] \in Subtasks /\ e[2] \in Subtasks /\ e = <<e[1], e[2]>>
BY EdgesAssumption

\* What onPeriodicEmit does: the subtask's watermark never goes back, and it
\* passes no split that has never been idle.
LEMMA EmitProperty ==
    ASSUME TypeInv, NEW s \in Subtasks, PeriodicEmit(s)
    PROVE  \E status \in Statuses :
              /\ sent' = [sent EXCEPT ![s] = status]
              /\ sent[s].mark <= status.mark
              /\ \A p \in Splits : Owner[p] = s /\ ~rested'[p] =>
                    /\ ~status.idle
                    /\ sent[s].mark <= mark'[p] => status.mark <= mark'[p]
              /\ mark' \in [Splits -> Marks]
              /\ \A p \in Splits :
                    /\ mark[p] <= mark'[p]
                    /\ mark'[p] = mark[p] \/ mark'[p] = maxTime[p] - OutOfOrder - 1
                    /\ rested[p] => rested'[p]
              /\ idle' \in [Splits -> BOOLEAN] /\ quiet' \in [Splits -> BOOLEAN]
              /\ rested' \in [Splits -> BOOLEAN]
              /\ channel' = [e \in Edges |->
                    IF e[1] = s /\ status # sent[s]
                    THEN Append(channel[e], [kind |-> "status", status |-> status])
                    ELSE channel[e]]
              /\ UNCHANGED <<read, maxTime, operatorVars, best, spoilt>>
<1> DEFINE own == {p \in Splits : Owner[p] = s}
           marks == [p \in own |-> Max({mark[p], maxTime[p] - OutOfOrder - 1})]
           status(timedOut) ==
               [mark |-> Combined(sent[s].mark, {marks[p] : p \in own \ timedOut}),
                idle |-> own \ timedOut = {}]
<1>1. PICK timedOut \in SUBSET own :
         /\ mark' = [p \in Splits |-> IF p \in own \ timedOut THEN marks[p] ELSE mark[p]]
         /\ idle' = [p \in Splits |-> IF p \in own THEN p \in timedOut ELSE idle[p]]
         /\ quiet' = [p \in Splits |-> IF p \in own THEN p \in timedOut ELSE quiet[p]]
         /\ rested' = [p \in Splits |-> rested[p] \/ p \in timedOut]
         /\ sent' = [sent EXCEPT ![s] = status(timedOut)]
         /\ channel' = [e \in Edges |->
               IF e[1] = s /\ status(timedOut) # sent[s]
               THEN Append(channel[e], [kind |-> "status", status |-> status(timedOut)])
               ELSE channel[e]]
         /\ UNCHANGED <<read, maxTime, operatorVars, best, spoilt>>
  BY DEF PeriodicEmit
<1> DEFINE active == own \ timedOut
           new == status(timedOut)
<1>2. ASSUME NEW p \in own
      PROVE  /\ marks[p] \in Marks /\ mark[p] <= marks[p]
             /\ marks[p] = mark[p] \/ marks[p] = maxTime[p] - OutOfOrder - 1
  <2>1. mark[p] \in Int /\ mark[p] \in Marks
    BY Integral DEF TypeInv, TypeOK
  <2>2. maxTime[p] - OutOfOrder - 1 \in Marks /\ maxTime[p] - OutOfOrder - 1 \in Int
    BY Integral DEF TypeInv, TypeOK
  <2>3. marks[p] = IF mark[p] >= maxTime[p] - OutOfOrder - 1
                   THEN mark[p] ELSE maxTime[p] - OutOfOrder - 1
    BY <2>1, <2>2, MaxOfTwo
  <2> QED
    BY <2>1, <2>2, <2>3
<1> HIDE DEF marks
<1>3. sent[s] \in Statuses /\ sent[s].mark \in Marks /\ sent[s].mark \in Int
  BY Integral DEF TypeInv, TypeOK, Statuses
<1>4. IsFiniteSet({marks[p] : p \in active}) /\ {marks[p] : p \in active} \in SUBSET Int
  <2>1. IsFiniteSet(active)
    BY LimitsAssumption, FS_Subset
  <2> DEFINE g == [p \in active |-> marks[p]]
  <2>2. IsFiniteSet({g[p] : p \in active})
    <3>1. g \in [active -> Marks]
      BY <1>2
    <3> HIDE DEF g, active
    <3> QED
      BY <2>1, <3>1, ImageIsFinite
  <2>3. {g[p] : p \in active} = {marks[p] : p \in active}
    OBVIOUS
  <2> QED
    BY <1>2, <2>2, <2>3, Integral
<1>5. /\ new.mark \in {sent[s].mark} \cup {marks[p] : p \in active}
      /\ sent[s].mark <= new.mark
      /\ \A p \in active : sent[s].mark <= marks[p] => new.mark <= marks[p]
      /\ new.idle = (active = {})
  <2> DEFINE M == {marks[p] : p \in active}
  <2>1. new.mark = Combined(sent[s].mark, M) /\ new.idle = (active = {})
    OBVIOUS
  <2>2. \A p \in active : marks[p] \in M
    OBVIOUS
  <2>3. IsFiniteSet(M) /\ M \in SUBSET Int
    BY <1>4
  <2> HIDE DEF M, status, active
  <2>4. /\ Combined(sent[s].mark, M) \in {sent[s].mark} \cup M
        /\ sent[s].mark <= Combined(sent[s].mark, M)
        /\ \A m \in M : sent[s].mark <= m => Combined(sent[s].mark, M) <= m
    BY <1>3, <2>3, CombinedProperty
  <2> QED
    BY <2>1, <2>2, <2>4 DEF M
<1>6. new \in Statuses
  BY <1>2, <1>3, <1>5 DEF Statuses
<1> HIDE DEF status
<1>7. ASSUME NEW p \in Splits, Owner[p] = s, ~rested'[p]
      PROVE  /\ ~new.idle
             /\ sent[s].mark <= mark'[p] => new.mark <= mark'[p]
  <2>1. p \in active /\ mark'[p] = marks[p]
    BY <1>1, <1>7
  <2> QED
    BY <1>5, <2>1
<1>8. mark' \in [Splits -> Marks]
  BY <1>1, <1>2 DEF TypeInv, TypeOK
<1>9. ASSUME NEW p \in Splits
      PROVE  /\ mark[p] <= mark'[p]
             /\ mark'[p] = mark[p] \/ mark'[p] = maxTime[p] - OutOfOrder - 1
             /\ rested[p] => rested'[p]
  <2>1. mark[p] \in Int
    BY Integral DEF TypeInv, TypeOK
  <2>2. mark'[p] = IF p \in active THEN marks[p] ELSE mark[p]
    BY <1>1
  <2>3. active \subseteq own
    OBVIOUS
  <2>4. rested[p] => rested'[p]
    BY <1>1, Zenon
  <2> HIDE DEF active
  <2> QED
    BY <1>2, <2>1, <2>2, <2>3, <2>4
<1>10. /\ idle' \in [Splits -> BOOLEAN] /\ quiet' \in [Splits -> BOOLEAN]
       /\ rested' \in [Splits -> BOOLEAN]
  <2>1. idle' \in [Splits -> BOOLEAN]
    <3>1. ASSUME NEW p \in Splits
          PROVE  (IF p \in own THEN p \in timedOut ELSE idle[p]) \in BOOLEAN
      <4>1. idle[p] \in BOOLEAN
        BY DEF TypeInv, TypeOK
      <4>2. CASE p \in own
        BY <4>2
      <4>3. CASE p \notin own
        BY <4>1, <4>3
      <4> QED
        BY <4>2, <4>3
    <3> HIDE DEF own
    <3> QED
      BY <1>1, <3>1
  <2>2. quiet' \in [Splits -> BOOLEAN]
    <3>1. ASSUME NEW p \in Splits
          PROVE  (IF p \in own THEN p \in timedOut ELSE quiet[p]) \in BOOLEAN
      <4>1. quiet[p] \in BOOLEAN
        BY DEF TypeInv, TypeOK
      <4>2. CASE p \in own
        BY <4>2
      <4>3. CASE p \notin own
        BY <4>1, <4>3
      <4> QED
        BY <4>2, <4>3
    <3> HIDE DEF own
    <3> QED
      BY <1>1, <3>1
  <2>3. rested' \in [Splits -> BOOLEAN]
    BY <1>1, Zenon DEF TypeInv, TypeOK
  <2> QED
    BY <2>1, <2>2, <2>3
<1> QED
  BY <1>1, <1>5, <1>6, <1>7, <1>8, <1>9, <1>10

\* What the operator's watermark becomes: it passes no active input that it had
\* not passed before.
LEMMA AdvanceProperty ==
    ASSUME NEW e \in Edges, current[e[2]] \in Marks, seen' \in [Edges -> Statuses]
    PROVE  /\ Advance(e[2]) \in Marks
           /\ ~seen'[e].idle /\ current[e[2]] <= seen'[e].mark
                 => Advance(e[2]) <= seen'[e].mark
<1> DEFINE d == e[2]
           active == {i \in Inputs(d) : ~seen'[i].idle}
<1>1. current[d] \in Int /\ \A i \in Edges : seen'[i].mark \in Marks /\ seen'[i].mark \in Int
  BY Integral DEF Statuses
<1>2. IsFiniteSet(Inputs(d)) /\ e \in Inputs(d) /\ Inputs(d) \subseteq Edges
  <2>1. IsFiniteSet(Subtasks \X Subtasks)
    BY LimitsAssumption, FS_Product
  <2>2. IsFiniteSet(Edges)
    BY <2>1, EdgesAssumption, FS_Subset
  <2> QED
    BY <2>2, FS_Subset DEF Inputs
<1>3. ASSUME NEW S \in SUBSET Inputs(d)
      PROVE  /\ IsFiniteSet({seen'[i].mark : i \in S})
             /\ {seen'[i].mark : i \in S} \in SUBSET Int
             /\ {seen'[i].mark : i \in S} \subseteq Marks
  <2> DEFINE g == [i \in S |-> seen'[i].mark]
  <2>1. IsFiniteSet(S)
    BY <1>2, FS_Subset
  <2>2. IsFiniteSet({g[i] : i \in S})
    <3>1. g \in [S -> Marks]
      BY <1>1, <1>2
    <3> HIDE DEF g
    <3> QED
      BY <2>1, <3>1, ImageIsFinite
  <2>3. {g[i] : i \in S} = {seen'[i].mark : i \in S}
    OBVIOUS
  <2> QED
    BY <1>1, <1>2, <2>2, <2>3
<1>4. CASE active = {}
  <2> DEFINE T == {seen'[i].mark : i \in Inputs(d)}
  <2>1. Max(T) \in T /\ Max(T) \in Int /\ Max(T) \in Marks
    <3>1. T # {} /\ IsFiniteSet(T) /\ T \in SUBSET Int /\ T \subseteq Marks
      BY <1>2, <1>3
    <3> QED
      BY <3>1, MaxProperty
  <2>2. Advance(d) = Max({current[d], Max(T)})
    BY <1>4 DEF Advance
  <2>3. Advance(d) \in {current[d], Max(T)}
    <3> HIDE DEF T
    <3> QED
      BY <1>1, <2>1, <2>2, MaxOfTwo
  <2>4. seen'[e].idle
    BY <1>2, <1>4
  <2> QED
    BY <2>1, <2>3, <2>4
<1>5. CASE active # {}
  <2> DEFINE A == Aligned(d, active)
             T == {seen'[i].mark : i \in A}
  <2>1. A \in SUBSET Inputs(d)
    BY DEF Aligned
  <2>2. IsFiniteSet(T) /\ T \in SUBSET Int /\ T \subseteq Marks
    BY <1>3, <2>1
  <2>3. Advance(d) = Combined(current[d], T)
    BY <1>5 DEF Advance
  <2>4. /\ Combined(current[d], T) \in {current[d]} \cup T
        /\ \A m \in T : current[d] <= m => Combined(current[d], T) <= m
    <3> HIDE DEF T
    <3> QED
      BY <1>1, <2>2, CombinedProperty
  <2>5. ASSUME ~seen'[e].idle, current[d] <= seen'[e].mark PROVE seen'[e].mark \in T
    <3>1. e \in A
      BY <1>1, <1>2, <2>5 DEF Aligned
    <3> QED
      BY <3>1
  <2> QED
    BY <2>2, <2>3, <2>4, <2>5
<1> QED
  BY <1>4, <1>5

LEMMA InitTypeInv == Init => TypeInv
<1> SUFFICES ASSUME Init PROVE TypeInv
  OBVIOUS
<1>1. NoStatus \in Statuses
  BY Integral DEF NoStatus, Statuses
<1>2. NoRow \in [is_late : BOOLEAN, lateness : Nat, excused : BOOLEAN]
  BY DEF NoRow
<1>3. channel \in [Edges -> Seq(RowMessages \cup StatusMessages)]
  BY DEF Init
<1>4. read \in 0 .. MaxRecords
  BY LimitsAssumption DEF Init
<1> QED
  BY <1>1, <1>2, <1>3, <1>4, Integral DEF Init, TypeInv, TypeOK

LEMMA ObserveTypes ==
    ASSUME TypeInv, NEW p \in Splits, NEW t \in Times \cup {0}, Observe(p, t)
    PROVE  /\ read' \in 0 .. MaxRecords
           /\ maxTime' \in [Splits -> Times \cup {0, Nothing}]
           /\ quiet' \in [Splits -> BOOLEAN]
           /\ UNCHANGED <<mark, idle, sent, operatorVars, rested>>
BY LimitsAssumption DEF Observe, TypeInv, TypeOK

LEMMA HeadsAreMessages ==
    ASSUME TypeInv, NEW e \in Edges, channel[e] # <<>>
    PROVE  /\ Head(channel[e]) \in RowMessages \cup StatusMessages
           /\ Head(channel[e]) = channel[e][1] /\ 1 \in DOMAIN channel[e]
           /\ Head(channel[e]).kind = "row" => Head(channel[e]) \in RowMessages
           /\ Head(channel[e]).kind = "status" => Head(channel[e]) \in StatusMessages
           /\ [channel EXCEPT ![e] = Tail(@)]
                 \in [Edges -> Seq(RowMessages \cup StatusMessages)]
<1> DEFINE M == RowMessages \cup StatusMessages
<1>1. channel[e] \in Seq(M) /\ channel \in [Edges -> Seq(M)]
  BY DEF TypeInv
<1> HIDE DEF M
<1>2. /\ Head(channel[e]) \in M /\ Tail(channel[e]) \in Seq(M)
      /\ Head(channel[e]) = channel[e][1] /\ 1 \in DOMAIN channel[e]
  BY <1>1
<1>3. [channel EXCEPT ![e] = Tail(@)] \in [Edges -> Seq(M)]
  BY <1>1, <1>2
<1> QED
  BY <1>2, <1>3 DEF M, RowMessages, StatusMessages

LEMMA NextTypeInv == TypeInv /\ [Next]_vars => TypeInv'
<1> SUFFICES ASSUME TypeInv, [Next]_vars PROVE TypeInv'
  OBVIOUS
<1> USE DEF sourceVars, operatorVars, historyVars
<1> DEFINE M == RowMessages \cup StatusMessages
<1>a. TypeOK /\ channel \in [Edges -> Seq(M)]
  BY DEF TypeInv
<1>1. ASSUME NEW p \in Splits, ReadRejected(p) PROVE TypeInv'
  BY <1>1, <1>a, ObserveTypes DEF ReadRejected, TimeOfRejected, TypeInv, TypeOK
<1>2. ASSUME NEW p \in Splits, NEW t \in Times, NEW d \in Subtasks, ReadValid(p, t, d)
      PROVE  TypeInv'
  <2> DEFINE e == <<Owner[p], d>>
             r == [kind |-> "row", time |-> t, excused |-> Excused(p, t)]
  <2>1. best' \in [Splits -> Times \cup {Nothing}]
    BY <1>2, <1>a DEF ReadValid, TypeOK
  <2>2. r \in M
    <3>1. Excused(p, t) \in BOOLEAN
      BY <1>a DEF Excused, TypeOK
    <3> QED
      BY <3>1 DEF RowMessages
  <2>3. channel' \in [Edges -> Seq(M)]
    <3>1. channel' = [channel EXCEPT ![e] = Append(channel[e], r)] /\ e \in Edges
      BY <1>2 DEF ReadValid
    <3> HIDE DEF M, r, e
    <3> QED
      BY <1>a, <2>2, <3>1
  <2> QED
    BY <1>2, <1>a, <2>1, <2>3, ObserveTypes DEF ReadValid, TypeInv, TypeOK
<1>3. ASSUME NEW s \in Subtasks, PeriodicEmit(s) PROVE TypeInv'
  <2>1. PICK status \in Statuses :
           /\ sent' = [sent EXCEPT ![s] = status]
           /\ mark' \in [Splits -> Marks]
           /\ idle' \in [Splits -> BOOLEAN] /\ quiet' \in [Splits -> BOOLEAN]
           /\ rested' \in [Splits -> BOOLEAN]
           /\ channel' = [e \in Edges |->
                 IF e[1] = s /\ status # sent[s]
                 THEN Append(channel[e], [kind |-> "status", status |-> status])
                 ELSE channel[e]]
           /\ UNCHANGED <<read, maxTime, operatorVars, best, spoilt>>
    BY <1>3, EmitProperty
  <2>2. sent' \in [Subtasks -> Statuses]
    BY <1>a, <2>1 DEF TypeOK
  <2>3. [kind |-> "status", status |-> status] \in M
    BY DEF StatusMessages
  <2>4. channel' \in [Edges -> Seq(M)]
    <3> HIDE DEF M
    <3> QED
      BY <1>a, <2>1, <2>3
  <2> QED
    BY <1>a, <2>1, <2>2, <2>4 DEF TypeInv, TypeOK
<1>4. ASSUME NEW e \in Edges, ReceiveStatus(e) PROVE TypeInv'
  <2>1. /\ channel[e] # <<>> /\ Head(channel[e]).kind = "status"
        /\ channel' = [channel EXCEPT ![e] = Tail(@)]
        /\ seen' = [seen EXCEPT ![e] = Head(channel[e]).status]
        /\ current' = [current EXCEPT ![e[2]] = Advance(e[2])]
        /\ UNCHANGED <<sourceVars, row, historyVars>>
    BY <1>4 DEF ReceiveStatus
  <2>2. Head(channel[e]) \in StatusMessages /\ channel' \in [Edges -> Seq(M)]
    BY <2>1, HeadsAreMessages
  <2>3. seen' \in [Edges -> Statuses]
    BY <1>a, <2>1, <2>2 DEF StatusMessages, TypeOK
  <2>4. current' \in [Subtasks -> Marks]
    <3>1. e[2] \in Subtasks /\ current[e[2]] \in Marks
      BY <1>a, EdgeEnds DEF TypeOK
    <3>2. Advance(e[2]) \in Marks
      BY <2>3, <3>1, AdvanceProperty
    <3> QED
      BY <1>a, <2>1, <3>2 DEF TypeOK
  <2> QED
    BY <1>a, <2>1, <2>2, <2>3, <2>4 DEF TypeInv, TypeOK
<1>5. ASSUME NEW e \in Edges, ReceiveRow(e) PROVE TypeInv'
  <2> DEFINE r == Head(channel[e])
             w == current[e[2]]
             new == [is_late |-> is_late(r.time, w), lateness |-> lateness(r.time, w),
                     excused |-> r.excused]
  <2>1. /\ channel[e] # <<>> /\ r.kind = "row"
        /\ channel' = [channel EXCEPT ![e] = Tail(@)]
        /\ row' = [row EXCEPT ![e[2]] = new]
        /\ UNCHANGED <<sourceVars, seen, current, historyVars>>
    BY <1>5 DEF ReceiveRow
  <2>2. r \in RowMessages /\ channel' \in [Edges -> Seq(M)]
    BY <2>1, HeadsAreMessages
  <2>3. e[2] \in Subtasks /\ w \in Int /\ r.time \in Int /\ r.excused \in BOOLEAN
    BY <1>a, <2>2, EdgeEnds, Integral DEF TypeOK, RowMessages
  <2>4. is_late(r.time, w) \in BOOLEAN /\ lateness(r.time, w) \in Nat
    BY <2>3 DEF is_late, lateness
  <2>5. row' \in [Subtasks -> [is_late : BOOLEAN, lateness : Nat, excused : BOOLEAN]]
    <3>1. new \in [is_late : BOOLEAN, lateness : Nat, excused : BOOLEAN]
      BY <2>3, <2>4
    <3> HIDE DEF new
    <3> QED
      BY <1>a, <2>1, <3>1 DEF TypeOK
  <2> QED
    BY <1>a, <2>1, <2>2, <2>5 DEF TypeInv, TypeOK
<1>6. CASE UNCHANGED vars
  BY <1>6, <1>a DEF vars, TypeInv, TypeOK
<1> QED
  BY <1>1, <1>2, <1>3, <1>4, <1>5, <1>6 DEF Next

THEOREM EventTimeTypes == Spec => []TypeInv
BY InitTypeInv, NextTypeInv, PTL DEF Spec

\* Every variable has its type, for any splits, channels and event times; the
\* lateness of a row always fits its UInt64 column (calculate_lateness, logic.py).
THEOREM EventTimeTypeCorrect == Spec => []TypeOK
<1>1. TypeInv => TypeOK
  BY DEF TypeInv
<1> QED
  BY <1>1, EventTimeTypes, PTL

-----------------------------------------------------------------------------
(* Watermarks wait for every split.                                        *)

IsStatus(m) == m.kind = "status"

\* The watermarks on an edge grow from what has arrived to what was sent last.
MarksInOrder ==
    \A e \in Edges :
        /\ seen[e].mark <= sent[e[1]].mark
        /\ \A i \in DOMAIN channel[e] : IsStatus(channel[e][i]) =>
              /\ seen[e].mark <= channel[e][i].status.mark
              /\ channel[e][i].status.mark <= sent[e[1]].mark
              /\ \A k \in 1 .. i : IsStatus(channel[e][k]) =>
                    channel[e][k].status.mark <= channel[e][i].status.mark

\* Along the way of a split that was never idle, from its generator to the
\* operators, no watermark is ahead and nothing says that the input is idle.
HeldBack ==
    \A p \in Splits : ~rested[p] =>
        /\ sent[Owner[p]].mark <= mark[p]
        /\ \A e \in Edges : e[1] = Owner[p] =>
              /\ current[e[2]] <= seen[e].mark
              /\ ~seen[e].idle
              /\ \A i \in DOMAIN channel[e] :
                    IsStatus(channel[e][i]) => ~channel[e][i].status.idle

WaitInv == MarksInOrder /\ HeldBack

\* A split's watermark stays behind its latest event, or behind the time of
\* rejected records if it had any.
BehindBest ==
    \A p \in Splits :
        /\ maxTime[p] <= best[p] \/ (spoilt[p] /\ maxTime[p] <= TimeOfRejected)
        /\ \/ mark[p] <= best[p] - OutOfOrder - 1
           \/ spoilt[p] /\ mark[p] <= TimeOfRejected - OutOfOrder - 1

\* A row without an excuse is on its way ahead of any watermark or idleness that
\* could make it late.
RowsAhead ==
    \A e \in Edges : \A i \in DOMAIN channel[e] :
        channel[e][i].kind = "row" /\ ~channel[e][i].excused =>
            /\ current[e[2]] <= seen[e].mark /\ ~seen[e].idle
            /\ seen[e].mark < channel[e][i].time
            /\ \A k \in 1 .. i : IsStatus(channel[e][k]) =>
                  /\ ~channel[e][k].status.idle
                  /\ channel[e][k].status.mark < channel[e][i].time

LateInv == BehindBest /\ RowsAhead /\ LateHasACause

LEMMA IntegerValues ==
    ASSUME TypeInv
    PROVE  /\ \A e \in Edges : /\ seen[e] \in Statuses /\ seen[e].mark \in Int
                               /\ sent[e[1]].mark \in Int /\ current[e[2]] \in Int
                               /\ \A i \in DOMAIN channel[e] :
                                     /\ channel[e][i] \in RowMessages \cup StatusMessages
                                     /\ IsStatus(channel[e][i]) =>
                                           channel[e][i].status.mark \in Int
                                     /\ channel[e][i].kind = "row" =>
                                           channel[e][i].time \in Int
           /\ \A p \in Splits : /\ mark[p] \in Int /\ maxTime[p] \in Int /\ best[p] \in Int
                                /\ sent[Owner[p]].mark \in Int
<1>1. ASSUME NEW e \in Edges
      PROVE  /\ seen[e] \in Statuses /\ seen[e].mark \in Int
             /\ sent[e[1]].mark \in Int /\ current[e[2]] \in Int
             /\ \A i \in DOMAIN channel[e] :
                   channel[e][i] \in RowMessages \cup StatusMessages
  <2>1. channel[e] \in Seq(RowMessages \cup StatusMessages)
    BY DEF TypeInv
  <2>2. \A i \in DOMAIN channel[e] : channel[e][i] \in RowMessages \cup StatusMessages
    BY <2>1
  <2> QED
    BY <2>2, EdgeEnds, Integral DEF TypeInv, TypeOK, Statuses
<1>2. ASSUME NEW m \in RowMessages \cup StatusMessages
      PROVE  /\ IsStatus(m) => m.status.mark \in Int
             /\ m.kind = "row" => m.time \in Int
  BY Integral DEF RowMessages, StatusMessages, Statuses, IsStatus
<1>3. ASSUME NEW p \in Splits
      PROVE  /\ mark[p] \in Int /\ maxTime[p] \in Int /\ best[p] \in Int
             /\ sent[Owner[p]].mark \in Int
  BY Integral, OwnerAssumption DEF TypeInv, TypeOK, Statuses
<1> QED
  BY <1>1, <1>2, <1>3

\* What a message added to a channel or taken from it leaves of the others.
LEMMA Appended ==
    ASSUME TypeInv, NEW e \in Edges, NEW m \in RowMessages \cup StatusMessages,
           channel'[e] = Append(channel[e], m)
    PROVE  \A i \in DOMAIN channel'[e] :
              /\ \/ i \in DOMAIN channel[e] /\ channel'[e][i] = channel[e][i]
                 \/ channel'[e][i] = m
              /\ \A k \in 1 .. i :
                    \/ k \in DOMAIN channel[e] /\ channel'[e][k] = channel[e][k]
                    \/ k = i /\ channel'[e][k] = m
<1> DEFINE M == RowMessages \cup StatusMessages
<1>1. channel[e] \in Seq(M)
  BY DEF TypeInv
<1> HIDE DEF M
<1>2. PICK n \in Nat :
         /\ DOMAIN channel[e] = 1 .. n /\ DOMAIN channel'[e] = 1 .. n + 1
         /\ \A i \in 1 .. n : channel'[e][i] = channel[e][i]
         /\ channel'[e][n + 1] = m
  BY <1>1
<1>3. ASSUME NEW i \in 1 .. n + 1
      PROVE  /\ i \in 1 .. n \/ i = n + 1
             /\ \A k \in 1 .. i : k \in 1 .. n \/ (k = i /\ i = n + 1)
  OBVIOUS
<1> QED
  BY <1>2, <1>3

LEMMA Shortened ==
    ASSUME TypeInv, NEW e \in Edges, channel[e] # <<>>, channel'[e] = Tail(channel[e])
    PROVE  \A i \in DOMAIN channel'[e] :
              /\ i + 1 \in DOMAIN channel[e] /\ channel'[e][i] = channel[e][i + 1]
              /\ 1 \in 1 .. (i + 1)
              /\ \A k \in 1 .. i : /\ k + 1 \in 1 .. (i + 1) /\ k + 1 \in DOMAIN channel[e]
                                   /\ channel'[e][k] = channel[e][k + 1]
<1> DEFINE M == RowMessages \cup StatusMessages
<1>1. channel[e] \in Seq(M)
  BY DEF TypeInv
<1> HIDE DEF M
<1>2. /\ Len(channel[e]) \in Nat /\ DOMAIN channel[e] = 1 .. Len(channel[e])
      /\ Len(channel[e]) > 0
      /\ DOMAIN channel'[e] = 1 .. Len(channel[e]) - 1
      /\ \A i \in 1 .. Len(channel[e]) - 1 : channel'[e][i] = channel[e][i + 1]
  BY <1>1
<1>3. ASSUME NEW i \in 1 .. Len(channel[e]) - 1
      PROVE  /\ i + 1 \in 1 .. Len(channel[e]) /\ 1 \in 1 .. (i + 1)
             /\ \A k \in 1 .. i : /\ k \in 1 .. Len(channel[e]) - 1
                                  /\ k + 1 \in 1 .. (i + 1)
                                  /\ k + 1 \in 1 .. Len(channel[e])
  BY <1>2
<1> QED
  BY <1>2, <1>3

\* Records only move generators and rows.
LEMMA ReadWait ==
    ASSUME TypeInv, WaitInv, NEW p \in Splits,
           ReadRejected(p) \/ \E t \in Times, d \in Subtasks : ReadValid(p, t, d)
    PROVE  WaitInv'
<1> USE DEF operatorVars
<1>1. UNCHANGED <<mark, sent, seen, current, rested>>
  BY DEF ReadRejected, ReadValid, Observe
<1>2. ASSUME NEW e \in Edges
      PROVE  \/ channel'[e] = channel[e]
             \/ \E m \in RowMessages : channel'[e] = Append(channel[e], m)
  <2>1. CASE ReadRejected(p)
    BY <2>1 DEF ReadRejected
  <2>2. ASSUME NEW t \in Times, NEW d \in Subtasks, ReadValid(p, t, d)
        PROVE  \/ channel'[e] = channel[e]
               \/ \E m \in RowMessages : channel'[e] = Append(channel[e], m)
    <3> DEFINE r == [kind |-> "row", time |-> t, excused |-> Excused(p, t)]
    <3>1. channel' = [channel EXCEPT ![<<Owner[p], d>>] = Append(@, r)]
      BY <2>2 DEF ReadValid
    <3>2. r \in RowMessages
      <4>1. Excused(p, t) \in BOOLEAN
        BY DEF Excused, TypeInv, TypeOK
      <4> QED
        BY <4>1 DEF RowMessages
    <3>3. channel'[e] = channel[e] \/ channel'[e] = Append(channel[e], r)
      BY <3>1 DEF TypeInv
    <3> HIDE DEF r
    <3> QED
      BY <3>2, <3>3
  <2> QED
    BY <2>1, <2>2
\* So the statuses in the channels are the old ones.
<1>3. ASSUME NEW e \in Edges, NEW i \in DOMAIN channel'[e], IsStatus(channel'[e][i])
      PROVE  /\ i \in DOMAIN channel[e] /\ channel'[e][i] = channel[e][i]
             /\ \A k \in 1 .. i : channel'[e][k] = channel[e][k]
  <2>1. CASE channel'[e] = channel[e]
    BY <1>3, <2>1
  <2>2. ASSUME NEW m \in RowMessages, channel'[e] = Append(channel[e], m)
        PROVE  /\ i \in DOMAIN channel[e] /\ channel'[e][i] = channel[e][i]
               /\ \A k \in 1 .. i : channel'[e][k] = channel[e][k]
    <3>1. ~IsStatus(m)
      BY DEF IsStatus, RowMessages
    <3> QED
      BY <1>3, <2>2, <3>1, Appended
  <2> QED
    BY <1>2, <2>1, <2>2
<1>4. MarksInOrder'
  BY <1>1, <1>3 DEF WaitInv, MarksInOrder
<1>5. HeldBack'
  BY <1>1, <1>3 DEF WaitInv, HeldBack
<1> QED
  BY <1>4, <1>5 DEF WaitInv

\* What a subtask sends is not behind what it sent, nor ahead of a split that was
\* never idle.
LEMMA EmitWait ==
    ASSUME TypeInv, WaitInv, NEW s \in Subtasks, PeriodicEmit(s)
    PROVE  WaitInv'
<1> USE DEF operatorVars
<1>1. PICK status \in Statuses :
         /\ sent' = [sent EXCEPT ![s] = status]
         /\ sent[s].mark <= status.mark
         /\ \A p \in Splits : Owner[p] = s /\ ~rested'[p] =>
               /\ ~status.idle
               /\ sent[s].mark <= mark'[p] => status.mark <= mark'[p]
         /\ \A p \in Splits : mark[p] <= mark'[p] /\ (rested[p] => rested'[p])
         /\ mark' \in [Splits -> Marks]
         /\ channel' = [e \in Edges |->
               IF e[1] = s /\ status # sent[s]
               THEN Append(channel[e], [kind |-> "status", status |-> status])
               ELSE channel[e]]
         /\ UNCHANGED <<seen, current>>
  BY EmitProperty
<1> DEFINE new == [kind |-> "status", status |-> status]
<1>2. new \in StatusMessages /\ IsStatus(new) /\ new.status = status /\ status.mark \in Int
  BY Integral DEF StatusMessages, IsStatus, Statuses
<1>3. ASSUME NEW e \in Edges
      PROVE  /\ sent'[e[1]].mark = IF e[1] = s THEN status.mark ELSE sent[e[1]].mark
             /\ sent[e[1]].mark <= sent'[e[1]].mark /\ sent'[e[1]].mark \in Int
             /\ \/ channel'[e] = channel[e]
                \/ e[1] = s /\ channel'[e] = Append(channel[e], new)
  BY <1>1, <1>2, EdgeEnds, IntegerValues DEF TypeInv, TypeOK
<1> HIDE DEF new
<1>4. ASSUME NEW e \in Edges, NEW i \in DOMAIN channel'[e]
      PROVE  /\ \/ i \in DOMAIN channel[e] /\ channel'[e][i] = channel[e][i]
                \/ e[1] = s /\ channel'[e][i] = new
             /\ \A k \in 1 .. i :
                   \/ k \in DOMAIN channel[e] /\ channel'[e][k] = channel[e][k]
                   \/ k = i /\ e[1] = s /\ channel'[e][k] = new
  <2>1. CASE channel'[e] = channel[e]
    <3>1. channel[e] \in Seq(RowMessages \cup StatusMessages)
      BY DEF TypeInv
    <3>2. DOMAIN channel[e] = 1 .. Len(channel[e]) /\ Len(channel[e]) \in Nat
      BY <3>1
    <3> QED
      BY <1>4, <2>1, <3>2
  <2>2. CASE e[1] = s /\ channel'[e] = Append(channel[e], new)
    BY <1>2, <1>4, <2>2, Appended
  <2> QED
    BY <1>3, <2>1, <2>2
<1>5. MarksInOrder'
  <2>1. ASSUME NEW e \in Edges PROVE seen'[e].mark <= sent'[e[1]].mark
    BY <1>1, <1>3, IntegerValues DEF WaitInv, MarksInOrder
  <2>2. ASSUME NEW e \in Edges, NEW i \in DOMAIN channel'[e], IsStatus(channel'[e][i])
        PROVE  /\ seen'[e].mark <= channel'[e][i].status.mark
               /\ channel'[e][i].status.mark <= sent'[e[1]].mark
    <3>1. CASE i \in DOMAIN channel[e] /\ channel'[e][i] = channel[e][i]
      BY <1>1, <1>3, <2>2, <3>1, IntegerValues DEF WaitInv, MarksInOrder
    <3>2. CASE e[1] = s /\ channel'[e][i] = new
      BY <1>1, <1>2, <1>3, <2>1, <3>2
    <3> QED
      BY <1>4, <3>1, <3>2
  <2>3. ASSUME NEW e \in Edges, NEW i \in DOMAIN channel'[e], IsStatus(channel'[e][i]),
               NEW k \in 1 .. i, IsStatus(channel'[e][k])
        PROVE  channel'[e][k].status.mark <= channel'[e][i].status.mark
    <3>1. CASE e[1] = s /\ channel'[e][i] = new
      <4>1. CASE channel'[e][k] = new
        BY <1>2, <3>1, <4>1
      <4>2. CASE k \in DOMAIN channel[e] /\ channel'[e][k] = channel[e][k]
        <5>1. channel[e][k].status.mark <= sent[s].mark
          BY <2>3, <3>1, <4>2 DEF WaitInv, MarksInOrder
        <5>2. sent[s].mark <= status.mark /\ sent[s].mark \in Int
          BY <1>3, <3>1, IntegerValues
        <5>3. channel'[e][i].status.mark = status.mark
          BY <1>2, <3>1
        <5>4. channel'[e][k].status.mark = channel[e][k].status.mark
          BY <4>2
        <5>5. channel[e][k].status.mark \in Int
          BY <2>3, <4>2, IntegerValues
        <5> QED
          BY <1>2, <5>1, <5>2, <5>3, <5>4, <5>5
      <4> QED
        BY <1>4, <4>1, <4>2
    <3>2. CASE i \in DOMAIN channel[e] /\ channel'[e][i] = channel[e][i]
      <4>1. CASE k \in DOMAIN channel[e] /\ channel'[e][k] = channel[e][k]
        BY <2>3, <3>2, <4>1 DEF WaitInv, MarksInOrder
      <4>2. CASE k = i
        BY <2>3, <3>2, <4>2, IntegerValues
      <4> QED
        BY <1>4, <4>1, <4>2
    <3> QED
      BY <1>4, <3>1, <3>2
  <2> QED
    BY <2>1, <2>2, <2>3 DEF MarksInOrder
<1>6. HeldBack'
  <2>1. ASSUME NEW p \in Splits, ~rested'[p]
        PROVE  sent'[Owner[p]].mark <= mark'[p]
    <3>1. sent[Owner[p]].mark <= mark[p] /\ mark[p] <= mark'[p]
      BY <1>1, <2>1 DEF WaitInv, HeldBack
    <3>2. sent[Owner[p]].mark <= mark'[p]
      <4>1. mark'[p] \in Int
        BY <1>1, Integral
      <4> QED
        BY <3>1, <4>1, IntegerValues
    <3>3. Owner[p] \in Subtasks
      BY OwnerAssumption
    <3> QED
      BY <1>1, <2>1, <3>2, <3>3 DEF TypeInv, TypeOK
  <2>2. ASSUME NEW p \in Splits, ~rested'[p], NEW e \in Edges, e[1] = Owner[p],
               NEW i \in DOMAIN channel'[e], IsStatus(channel'[e][i])
        PROVE  ~channel'[e][i].status.idle
    <3>1. ~rested[p]
      BY <1>1, <2>2
    <3> QED
      BY <1>1, <1>2, <1>4, <2>2, <3>1 DEF WaitInv, HeldBack
  <2> QED
    BY <1>1, <2>1, <2>2 DEF WaitInv, HeldBack
<1> QED
  BY <1>5, <1>6 DEF WaitInv

\* What is received leaves the front of its channel.
LEMMA Received ==
    ASSUME TypeInv, NEW e \in Edges, ReceiveStatus(e) \/ ReceiveRow(e)
    PROVE  /\ channel[e] # <<>>
           /\ 1 \in DOMAIN channel[e] /\ channel[e][1] = Head(channel[e])
           /\ channel'[e] = Tail(channel[e])
           /\ \A f \in Edges \ {e} : channel'[f] = channel[f]
           /\ UNCHANGED <<mark, maxTime, sent, best, spoilt, rested>>
<1>1. channel[e] # <<>> /\ channel' = [channel EXCEPT ![e] = Tail(@)]
  BY DEF ReceiveStatus, ReceiveRow
<1>2. channel[e][1] = Head(channel[e]) /\ 1 \in DOMAIN channel[e]
  BY <1>1, HeadsAreMessages
<1>3. UNCHANGED <<mark, maxTime, sent, best, spoilt, rested>>
  BY DEF ReceiveStatus, ReceiveRow, sourceVars, historyVars
<1> QED
  BY <1>1, <1>2, <1>3 DEF TypeInv

\* Arriving watermarks grow, and the operator passes none that is active and that
\* it had not passed.
LEMMA StatusReceived ==
    ASSUME TypeInv, MarksInOrder, NEW e \in Edges, ReceiveStatus(e)
    PROVE  /\ IsStatus(channel[e][1]) /\ seen'[e] = channel[e][1].status
           /\ seen[e].mark <= seen'[e].mark /\ seen'[e].mark \in Int
           /\ \A f \in Edges \ {e} : seen'[f] = seen[f]
           /\ \A f \in Edges :
                 /\ current[f[2]] <= seen[f].mark => current[f[2]] <= seen'[f].mark
                 /\ current[f[2]] <= seen[f].mark /\ ~seen'[f].idle
                       => current'[f[2]] <= seen'[f].mark
<1>1. /\ Head(channel[e]).kind = "status"
      /\ seen' = [seen EXCEPT ![e] = Head(channel[e]).status]
      /\ current' = [current EXCEPT ![e[2]] = Advance(e[2])]
  BY DEF ReceiveStatus
<1>2. IsStatus(channel[e][1]) /\ 1 \in DOMAIN channel[e]
  BY <1>1, Received DEF IsStatus
<1>3. seen'[e] = channel[e][1].status /\ \A f \in Edges \ {e} : seen'[f] = seen[f]
  BY <1>1, Received DEF TypeInv, TypeOK
<1>4. seen[e].mark <= seen'[e].mark /\ seen'[e].mark \in Int
  BY <1>2, <1>3, IntegerValues DEF MarksInOrder
<1>5. seen' \in [Edges -> Statuses]
  <2>1. channel[e][1] \in StatusMessages
    BY <1>1, <1>2, Received, HeadsAreMessages
  <2> QED
    BY <1>1, <1>2, <2>1, Received DEF StatusMessages, TypeInv, TypeOK
<1>6. ASSUME NEW f \in Edges, current[f[2]] <= seen[f].mark
      PROVE  /\ current[f[2]] <= seen'[f].mark
             /\ ~seen'[f].idle => current'[f[2]] <= seen'[f].mark
  <2>1. current[f[2]] <= seen'[f].mark
    BY <1>3, <1>4, <1>6, IntegerValues
  <2>2. current[f[2]] \in Marks /\ f[2] \in Subtasks
    BY EdgeEnds DEF TypeInv, TypeOK
  <2>3. CASE f[2] = e[2]
    <3>1. current'[f[2]] = Advance(f[2])
      BY <1>1, <2>2, <2>3 DEF TypeInv, TypeOK
    <3> QED
      BY <1>5, <2>1, <2>2, <3>1, AdvanceProperty
  <2>4. CASE f[2] # e[2]
    BY <1>1, <2>1, <2>2, <2>4 DEF TypeInv, TypeOK
  <2> QED
    BY <2>1, <2>3, <2>4
<1> QED
  BY <1>2, <1>3, <1>4, <1>6

LEMMA ReceiveWait ==
    ASSUME TypeInv, WaitInv, NEW e \in Edges, ReceiveStatus(e) \/ ReceiveRow(e)
    PROVE  WaitInv'
<1>a. MarksInOrder /\ HeldBack
  BY DEF WaitInv
<1>1. /\ channel[e] # <<>> /\ 1 \in DOMAIN channel[e]
      /\ channel'[e] = Tail(channel[e])
      /\ \A f \in Edges \ {e} : channel'[f] = channel[f]
      /\ UNCHANGED <<mark, sent, rested>>
  BY Received
<1>2. \A i \in DOMAIN channel'[e] :
         /\ i + 1 \in DOMAIN channel[e] /\ channel'[e][i] = channel[e][i + 1]
         /\ 1 \in 1 .. (i + 1)
         /\ \A k \in 1 .. i : /\ k + 1 \in 1 .. (i + 1) /\ k + 1 \in DOMAIN channel[e]
                              /\ channel'[e][k] = channel[e][k + 1]
  BY <1>1, Shortened
<1>3. \/ seen'[e] = seen[e]
      \/ IsStatus(channel[e][1]) /\ seen'[e] = channel[e][1].status
  BY <1>a, StatusReceived DEF ReceiveRow
<1>4. /\ \A f \in Edges \ {e} : seen'[f] = seen[f]
      /\ \A f \in Edges : current[f[2]] <= seen[f].mark /\ ~seen'[f].idle
                             => current'[f[2]] <= seen'[f].mark
  BY <1>a, StatusReceived DEF ReceiveRow
<1>5. ASSUME NEW f \in Edges
      PROVE  /\ seen'[f].mark <= sent'[f[1]].mark
             /\ \A i \in DOMAIN channel'[f] : IsStatus(channel'[f][i]) =>
                   /\ seen'[f].mark <= channel'[f][i].status.mark
                   /\ channel'[f][i].status.mark <= sent'[f[1]].mark
                   /\ \A k \in 1 .. i : IsStatus(channel'[f][k]) =>
                         channel'[f][k].status.mark <= channel'[f][i].status.mark
  <2>1. CASE f # e
    BY <1>a, <1>1, <1>4, <2>1 DEF MarksInOrder
  <2>2. CASE f = e
    <3>1. seen'[e].mark <= sent'[e[1]].mark
      BY <1>a, <1>1, <1>3 DEF MarksInOrder
    <3>2. ASSUME NEW i \in DOMAIN channel'[e], IsStatus(channel'[e][i])
          PROVE  /\ seen'[e].mark <= channel'[e][i].status.mark
                 /\ channel'[e][i].status.mark <= sent'[e[1]].mark
                 /\ \A k \in 1 .. i : IsStatus(channel'[e][k]) =>
                       channel'[e][k].status.mark <= channel'[e][i].status.mark
      BY <1>a, <1>1, <1>2, <1>3, <3>2 DEF MarksInOrder
    <3> QED
      BY <2>2, <3>1, <3>2
  <2> QED
    BY <2>1, <2>2
<1>6. ASSUME NEW p \in Splits, ~rested'[p]
      PROVE  /\ sent'[Owner[p]].mark <= mark'[p]
             /\ \A f \in Edges : f[1] = Owner[p] =>
                   /\ current'[f[2]] <= seen'[f].mark
                   /\ ~seen'[f].idle
                   /\ \A i \in DOMAIN channel'[f] :
                         IsStatus(channel'[f][i]) => ~channel'[f][i].status.idle
  <2>1. /\ sent'[Owner[p]].mark <= mark'[p]
        /\ \A f \in Edges : f[1] = Owner[p] =>
              /\ current[f[2]] <= seen[f].mark /\ ~seen[f].idle
              /\ \A i \in DOMAIN channel[f] :
                    IsStatus(channel[f][i]) => ~channel[f][i].status.idle
    BY <1>a, <1>1, <1>6 DEF HeldBack
  <2>2. ASSUME NEW f \in Edges, f[1] = Owner[p]
        PROVE  /\ ~seen'[f].idle
               /\ \A i \in DOMAIN channel'[f] :
                     IsStatus(channel'[f][i]) => ~channel'[f][i].status.idle
    <3>1. CASE f # e
      BY <1>1, <1>4, <2>1, <2>2, <3>1
    <3>2. CASE f = e
      BY <1>1, <1>2, <1>3, <2>1, <2>2, <3>2
    <3> QED
      BY <3>1, <3>2
  <2> QED
    BY <1>4, <2>1, <2>2
<1> QED
  BY <1>5, <1>6 DEF WaitInv, MarksInOrder, HeldBack

LEMMA InitWait == Init => WaitInv
<1> SUFFICES ASSUME Init PROVE WaitInv
  OBVIOUS
<1>1. \A e \in Edges : /\ channel[e] = <<>> /\ seen[e] = NoStatus
                       /\ sent[e[1]] = NoStatus /\ current[e[2]] = LongMin
  BY EdgeEnds DEF Init
<1>2. \A p \in Splits : mark[p] = LongMin /\ sent[Owner[p]] = NoStatus
  BY OwnerAssumption DEF Init
<1>3. NoStatus.mark = LongMin /\ ~NoStatus.idle /\ LongMin <= LongMin
  BY Integral DEF NoStatus
<1> QED
  BY <1>1, <1>2, <1>3 DEF WaitInv, MarksInOrder, HeldBack

LEMMA NextWait == TypeInv /\ WaitInv /\ [Next]_vars => WaitInv'
<1> SUFFICES ASSUME TypeInv, WaitInv, [Next]_vars PROVE WaitInv'
  OBVIOUS
<1>1. CASE UNCHANGED vars
  BY <1>1 DEF vars, sourceVars, operatorVars, historyVars, WaitInv, MarksInOrder, HeldBack
<1> QED
  BY <1>1, ReadWait, EmitWait, ReceiveWait DEF Next

THEOREM WaitInvariant == Spec => []WaitInv
BY InitWait, NextWait, EventTimeTypes, PTL DEF Spec

\* No operator's watermark passes a split that it depends on and that was never
\* idle, for any number of splits and subtasks and any layout of the channels: the
\* reason why watermarks are assigned per split in the source (main, job.py).
THEOREM WaitsForEverySplitHolds == Spec => []WaitsForEverySplit
<1>1. TypeInv /\ WaitInv => WaitsForEverySplit
  <2> SUFFICES ASSUME TypeInv, WaitInv, NEW p \in Splits, NEW d \in Subtasks,
                      <<Owner[p], d>> \in Edges, ~rested[p]
               PROVE  current[d] <= mark[p]
    BY DEF WaitsForEverySplit
  <2> DEFINE e == <<Owner[p], d>>
  <2>1. /\ current[d] <= seen[e].mark /\ seen[e].mark <= sent[Owner[p]].mark
        /\ sent[Owner[p]].mark <= mark[p]
    BY DEF WaitInv, HeldBack, MarksInOrder
  <2>2. /\ current[d] \in Int /\ seen[e].mark \in Int
        /\ sent[Owner[p]].mark \in Int /\ mark[p] \in Int
    BY IntegerValues
  <2> QED
    BY <2>1, <2>2
<1> QED
  BY <1>1, EventTimeTypes, WaitInvariant, PTL

-----------------------------------------------------------------------------
(* Late rows.                                                              *)

LEMMA InitLate == Init => LateInv
<1> SUFFICES ASSUME Init PROVE LateInv
  OBVIOUS
<1>1. BehindBest
  <2>1. \A p \in Splits : maxTime[p] = best[p] /\ best[p] = Nothing /\ mark[p] = LongMin
    BY DEF Init
  <2>2. Nothing \in Int /\ LongMin = Nothing - OutOfOrder - 1
    BY Integral DEF Nothing
  <2>3. ASSUME NEW p \in Splits
        PROVE  maxTime[p] <= best[p] /\ mark[p] <= best[p] - OutOfOrder - 1
    <3>1. maxTime[p] = Nothing /\ best[p] = Nothing /\ mark[p] = LongMin
      BY <2>1
    <3> QED
      BY <2>2, <3>1, Integral
  <2> QED
    BY <2>3, Zenon DEF BehindBest
<1>2. RowsAhead
  BY DEF Init, RowsAhead
<1>3. LateHasACause
  BY DEF Init, LateHasACause, NoRow
<1> QED
  BY <1>1, <1>2, <1>3 DEF LateInv

LEMMA ObserveBehindBest ==
    ASSUME TypeInv, BehindBest, NEW p \in Splits, NEW t \in Times \cup {0}, Observe(p, t),
           \A q \in Splits : /\ best[q] <= best'[q] /\ best'[q] \in Int
                             /\ spoilt[q] => spoilt'[q]
                             /\ q = p => t <= best'[q] \/ (spoilt'[q] /\ t = TimeOfRejected)
    PROVE  BehindBest'
<1>1. UNCHANGED mark /\ \A q \in Splits : maxTime'[q] = maxTime[q] \/ (q = p /\ maxTime'[q] = t)
  BY DEF Observe, GeneratorOf
<1>2. t \in Int /\ OutOfOrder \in Nat /\ TimeOfRejected \in Int
  BY Integral DEF TimeOfRejected
<1>3. ASSUME NEW q \in Splits
      PROVE  /\ maxTime'[q] <= best'[q] \/ (spoilt'[q] /\ maxTime'[q] <= TimeOfRejected)
             /\ \/ mark'[q] <= best'[q] - OutOfOrder - 1
                \/ spoilt'[q] /\ mark'[q] <= TimeOfRejected - OutOfOrder - 1
  <2>1. /\ mark[q] \in Int /\ maxTime[q] \in Int /\ best[q] \in Int
        /\ best[q] <= best'[q] /\ best'[q] \in Int /\ (spoilt[q] => spoilt'[q])
    BY IntegerValues
  <2>2. /\ maxTime[q] <= best[q] \/ (spoilt[q] /\ maxTime[q] <= TimeOfRejected)
        /\ \/ mark[q] <= best[q] - OutOfOrder - 1
           \/ spoilt[q] /\ mark[q] <= TimeOfRejected - OutOfOrder - 1
    BY DEF BehindBest
  <2>3. maxTime'[q] <= best'[q] \/ (spoilt'[q] /\ maxTime'[q] <= TimeOfRejected)
    BY <1>1, <1>2, <2>1, <2>2
  <2>4. mark'[q] = mark[q]
    BY <1>1
  <2> QED
    BY <1>2, <2>1, <2>2, <2>3, <2>4
<1> QED
  BY <1>3 DEF BehindBest, TimeOfRejected

LEMMA ReadRejectedLate ==
    ASSUME TypeInv, WaitInv, LateInv, NEW p \in Splits, ReadRejected(p)
    PROVE  LateInv'
<1> USE DEF operatorVars
<1>1. /\ Observe(p, TimeOfRejected) /\ UNCHANGED <<channel, best, seen, current, row>>
      /\ TimeOfRejected \in Times \cup {0}
  BY DEF ReadRejected, Observe, TimeOfRejected
<1>2. \A q \in Splits : /\ best[q] <= best'[q] /\ best'[q] \in Int
                        /\ (spoilt[q] => spoilt'[q]) /\ (q = p => spoilt'[q])
  BY <1>1, IntegerValues DEF ReadRejected, TypeInv, TypeOK
<1>3. BehindBest'
  BY <1>1, <1>2, ObserveBehindBest DEF LateInv
<1> QED
  BY <1>1, <1>3 DEF LateInv, RowsAhead, LateHasACause

\* A row that is in order at its split joins a channel none of whose watermarks
\* has passed it.
LEMMA ReadValidLate ==
    ASSUME TypeInv, WaitInv, LateInv,
           NEW p \in Splits, NEW t \in Times, NEW d \in Subtasks, ReadValid(p, t, d)
    PROVE  LateInv'
<1> USE DEF operatorVars
<1> DEFINE e == <<Owner[p], d>>
           r == [kind |-> "row", time |-> t, excused |-> Excused(p, t)]
<1>1. /\ e \in Edges /\ Observe(p, t) /\ UNCHANGED <<seen, current, row, sent, mark, spoilt>>
      /\ best' = [best EXCEPT ![p] = IF t > best[p] THEN t ELSE best[p]]
      /\ channel' = [channel EXCEPT ![e] = Append(channel[e], r)]
  BY DEF ReadValid, Observe
<1>2. /\ r \in RowMessages /\ r.kind = "row" /\ ~IsStatus(r) /\ r.time = t
      /\ r.excused = Excused(p, t) /\ t \in Int
  <2>1. Excused(p, t) \in BOOLEAN
    BY DEF Excused, TypeInv, TypeOK
  <2> QED
    BY <2>1, Integral DEF RowMessages, IsStatus
<1>3. /\ channel'[e] = Append(channel[e], r)
      /\ \A f \in Edges \ {e} : channel'[f] = channel[f]
  BY <1>1 DEF TypeInv
<1>4. BehindBest'
  <2>1. ASSUME NEW q \in Splits
        PROVE  /\ best[q] <= best'[q] /\ best'[q] \in Int
               /\ (spoilt[q] => spoilt'[q]) /\ (q = p => t <= best'[q])
    <3>1. best[q] \in Int /\ best[p] \in Int
      BY IntegerValues
    <3> QED
      BY <1>1, <1>2, <3>1 DEF TypeInv, TypeOK
  <2>2. \A q \in Splits :
           /\ best[q] <= best'[q] /\ best'[q] \in Int /\ (spoilt[q] => spoilt'[q])
           /\ q = p => t <= best'[q] \/ (spoilt'[q] /\ t = TimeOfRejected)
    BY <2>1, Zenon
  <2>3. BehindBest /\ t \in Times \cup {0} /\ Observe(p, t)
    BY <1>1 DEF LateInv
  <2> HIDE DEF e, r
  <2> QED
    BY <2>2, <2>3, ObserveBehindBest, Zenon
<1>5. ASSUME ~Excused(p, t) PROVE mark[p] < t /\ ~rested[p]
  <2>1. /\ mark[p] \in Int /\ best[p] \in Int /\ OutOfOrder \in Nat
        /\ TimeOfRejected \in Int
    BY Integral, IntegerValues DEF TimeOfRejected
  <2>2. /\ ~(t <= best[p] - OutOfOrder - 1) /\ ~rested[p]
        /\ ~(spoilt[p] /\ t <= TimeOfRejected - OutOfOrder - 1)
    BY <1>5 DEF Excused
  <2>3. \/ mark[p] <= best[p] - OutOfOrder - 1
        \/ spoilt[p] /\ mark[p] <= TimeOfRejected - OutOfOrder - 1
    BY DEF LateInv, BehindBest
  <2> QED
    BY <1>2, <2>1, <2>2, <2>3
<1>6. ASSUME ~Excused(p, t)
      PROVE  /\ current[d] <= seen[e].mark /\ ~seen[e].idle /\ seen[e].mark < t
             /\ \A k \in DOMAIN channel[e] : IsStatus(channel[e][k]) =>
                   ~channel[e][k].status.idle /\ channel[e][k].status.mark < t
  <2>1. sent[Owner[p]].mark <= mark[p] /\ mark[p] < t
    BY <1>5, <1>6 DEF WaitInv, HeldBack
  <2>2. /\ sent[Owner[p]].mark \in Int /\ mark[p] \in Int /\ seen[e].mark \in Int
        /\ \A k \in DOMAIN channel[e] :
              IsStatus(channel[e][k]) => channel[e][k].status.mark \in Int
    BY <1>1, IntegerValues
  <2>3. /\ seen[e].mark <= sent[Owner[p]].mark
        /\ \A k \in DOMAIN channel[e] :
              IsStatus(channel[e][k]) => channel[e][k].status.mark <= sent[Owner[p]].mark
    BY <1>1 DEF WaitInv, MarksInOrder
  <2>4. /\ current[d] <= seen[e].mark /\ ~seen[e].idle
        /\ \A k \in DOMAIN channel[e] :
              IsStatus(channel[e][k]) => ~channel[e][k].status.idle
    BY <1>1, <1>5, <1>6 DEF WaitInv, HeldBack
  <2> QED
    BY <1>2, <2>1, <2>2, <2>3, <2>4
<1> HIDE DEF r
<1>7. ASSUME NEW i \in DOMAIN channel'[e]
      PROVE  /\ \/ i \in DOMAIN channel[e] /\ channel'[e][i] = channel[e][i]
                \/ channel'[e][i] = r
             /\ \A k \in 1 .. i :
                   \/ k \in DOMAIN channel[e] /\ channel'[e][k] = channel[e][k]
                   \/ k = i /\ channel'[e][k] = r
  BY <1>1, <1>2, <1>3, Appended
<1>8. ASSUME NEW f \in Edges, NEW i \in DOMAIN channel'[f],
             channel'[f][i].kind = "row", ~channel'[f][i].excused
      PROVE  /\ current'[f[2]] <= seen'[f].mark /\ ~seen'[f].idle
             /\ seen'[f].mark < channel'[f][i].time
             /\ \A k \in 1 .. i : IsStatus(channel'[f][k]) =>
                   /\ ~channel'[f][k].status.idle
                   /\ channel'[f][k].status.mark < channel'[f][i].time
  <2>1. CASE f # e
    BY <1>1, <1>3, <1>8, <2>1 DEF LateInv, RowsAhead
  <2>2. CASE f = e /\ channel'[f][i] = r
    <3>1. ~Excused(p, t)
      BY <1>2, <1>8, <2>2
    <3>2. \A k \in 1 .. i : IsStatus(channel'[e][k]) =>
             k \in DOMAIN channel[e] /\ channel'[e][k] = channel[e][k]
      BY <1>2, <1>7, <1>8, <2>2
    <3>3. e[2] = d
      OBVIOUS
    <3> QED
      BY <1>1, <1>2, <1>6, <2>2, <3>1, <3>2, <3>3
  <2>3. CASE f = e /\ i \in DOMAIN channel[e] /\ channel'[e][i] = channel[e][i]
    <3>1. \A k \in 1 .. i : IsStatus(channel'[e][k]) =>
             channel'[e][k] = channel[e][k]
      BY <1>2, <1>7, <1>8, <2>3
    <3> HIDE DEF e
    <3> QED
      BY <1>1, <1>8, <2>3, <3>1 DEF LateInv, RowsAhead
  <2> QED
    BY <1>7, <1>8, <2>1, <2>2, <2>3
<1> QED
  BY <1>1, <1>4, <1>8 DEF LateInv, RowsAhead, LateHasACause

\* A watermark that is sent queues behind the rows.
LEMMA EmitLate ==
    ASSUME TypeInv, WaitInv, LateInv, NEW s \in Subtasks, PeriodicEmit(s)
    PROVE  LateInv'
<1> USE DEF operatorVars
<1>1. PICK status \in Statuses :
         /\ \A p \in Splits : mark'[p] = mark[p] \/ mark'[p] = maxTime[p] - OutOfOrder - 1
         /\ channel' = [e \in Edges |->
               IF e[1] = s /\ status # sent[s]
               THEN Append(channel[e], [kind |-> "status", status |-> status])
               ELSE channel[e]]
         /\ UNCHANGED <<maxTime, best, spoilt, seen, current, row>>
  BY EmitProperty
<1> DEFINE new == [kind |-> "status", status |-> status]
<1>2. BehindBest'
  <2>1. ASSUME NEW p \in Splits
        PROVE  \/ mark'[p] <= best[p] - OutOfOrder - 1
               \/ spoilt[p] /\ mark'[p] <= TimeOfRejected - OutOfOrder - 1
    <3>1. /\ mark[p] \in Int /\ maxTime[p] \in Int /\ best[p] \in Int
          /\ OutOfOrder \in Nat /\ TimeOfRejected \in Int
      BY Integral, IntegerValues DEF TimeOfRejected
    <3>2. /\ maxTime[p] <= best[p] \/ (spoilt[p] /\ maxTime[p] <= TimeOfRejected)
          /\ \/ mark[p] <= best[p] - OutOfOrder - 1
             \/ spoilt[p] /\ mark[p] <= TimeOfRejected - OutOfOrder - 1
      BY DEF LateInv, BehindBest
    <3> QED
      BY <1>1, <3>1, <3>2
  <2> QED
    BY <1>1, <2>1 DEF LateInv, BehindBest, TimeOfRejected
<1>3. new \in StatusMessages /\ new.kind = "status"
  BY DEF StatusMessages
<1> HIDE DEF new
<1>4. ASSUME NEW e \in Edges, NEW i \in DOMAIN channel'[e], channel'[e][i].kind = "row"
      PROVE  /\ i \in DOMAIN channel[e] /\ channel'[e][i] = channel[e][i]
             /\ \A k \in 1 .. i : channel'[e][k] = channel[e][k]
  <2>1. CASE channel'[e] = channel[e]
    BY <1>4, <2>1
  <2>2. CASE channel'[e] = Append(channel[e], new)
    BY <1>3, <1>4, <2>2, Appended
  <2> QED
    BY <1>1, <2>1, <2>2 DEF new
<1>5. RowsAhead'
  BY <1>1, <1>4 DEF LateInv, RowsAhead
<1> QED
  BY <1>1, <1>2, <1>5 DEF LateInv, LateHasACause

\* What arrives before a row cannot make it late.
LEMMA ReceiveLate ==
    ASSUME TypeInv, WaitInv, LateInv, NEW e \in Edges, ReceiveStatus(e) \/ ReceiveRow(e)
    PROVE  LateInv'
<1>a. MarksInOrder /\ BehindBest /\ RowsAhead /\ LateHasACause
  BY DEF WaitInv, LateInv
<1>1. /\ channel[e] # <<>> /\ 1 \in DOMAIN channel[e] /\ channel[e][1] = Head(channel[e])
      /\ channel'[e] = Tail(channel[e])
      /\ \A f \in Edges \ {e} : channel'[f] = channel[f]
      /\ UNCHANGED <<mark, maxTime, best, spoilt>>
  BY Received
<1>2. \A i \in DOMAIN channel'[e] :
         /\ i + 1 \in DOMAIN channel[e] /\ channel'[e][i] = channel[e][i + 1]
         /\ 1 \in 1 .. (i + 1)
         /\ \A k \in 1 .. i : /\ k + 1 \in 1 .. (i + 1) /\ k + 1 \in DOMAIN channel[e]
                              /\ channel'[e][k] = channel[e][k + 1]
  BY <1>1, Shortened
<1>3. \/ seen'[e] = seen[e]
      \/ IsStatus(channel[e][1]) /\ seen'[e] = channel[e][1].status
  BY <1>a, StatusReceived DEF ReceiveRow
<1>4. /\ \A f \in Edges \ {e} : seen'[f] = seen[f]
      /\ \A f \in Edges : current[f[2]] <= seen[f].mark /\ ~seen'[f].idle
                             => current'[f[2]] <= seen'[f].mark
  BY <1>a, StatusReceived DEF ReceiveRow
<1>5. ASSUME NEW f \in Edges, NEW i \in DOMAIN channel'[f],
             channel'[f][i].kind = "row", ~channel'[f][i].excused
      PROVE  /\ current'[f[2]] <= seen'[f].mark /\ ~seen'[f].idle
             /\ seen'[f].mark < channel'[f][i].time
             /\ \A k \in 1 .. i : IsStatus(channel'[f][k]) =>
                   /\ ~channel'[f][k].status.idle
                   /\ channel'[f][k].status.mark < channel'[f][i].time
  <2>1. CASE f # e
    BY <1>a, <1>1, <1>4, <1>5, <2>1 DEF RowsAhead
  <2>2. CASE f = e
    <3>1. /\ i + 1 \in DOMAIN channel[e] /\ channel'[e][i] = channel[e][i + 1]
          /\ 1 \in 1 .. (i + 1)
          /\ \A k \in 1 .. i : k + 1 \in 1 .. (i + 1) /\ channel'[e][k] = channel[e][k + 1]
      BY <1>2, <1>5, <2>2
    <3>2. /\ current[e[2]] <= seen[e].mark /\ ~seen[e].idle
          /\ seen[e].mark < channel[e][i + 1].time
          /\ \A k \in 1 .. (i + 1) : IsStatus(channel[e][k]) =>
                /\ ~channel[e][k].status.idle
                /\ channel[e][k].status.mark < channel[e][i + 1].time
      BY <1>a, <1>5, <2>2, <3>1 DEF RowsAhead
    <3>3. ~seen'[e].idle /\ seen'[e].mark < channel'[e][i].time
      BY <1>3, <3>1, <3>2
    <3>4. current'[e[2]] <= seen'[e].mark
      BY <1>4, <3>2, <3>3
    <3> QED
      BY <2>2, <3>1, <3>2, <3>3, <3>4
  <2> QED
    BY <2>1, <2>2
<1>6. LateHasACause'
  <2>1. CASE ReceiveStatus(e)
    BY <1>a, <2>1 DEF ReceiveStatus, LateHasACause
  <2>2. CASE ReceiveRow(e)
    <3> DEFINE r == channel[e][1]
               w == current[e[2]]
    <3>1. /\ r.kind = "row"
          /\ row' = [row EXCEPT ![e[2]] =
                        [is_late |-> is_late(r.time, w), lateness |-> lateness(r.time, w),
                         excused |-> r.excused]]
      BY <1>1, <2>2 DEF ReceiveRow
    <3>2. is_late(r.time, w) => r.excused
      <4> SUFFICES ASSUME ~r.excused PROVE ~is_late(r.time, w)
        OBVIOUS
      <4>1. w <= seen[e].mark /\ seen[e].mark < r.time
        BY <1>a, <1>1, <3>1 DEF RowsAhead
      <4>2. w \in Int /\ seen[e].mark \in Int /\ r.time \in Int
        BY <1>1, <3>1, IntegerValues
      <4> QED
        BY <4>1, <4>2 DEF is_late
    <3> HIDE DEF r, w
    <3>3. ASSUME NEW d \in Subtasks, d # e[2] PROVE row'[d] = row[d]
      BY <3>1, <3>3 DEF TypeInv, TypeOK
    <3>4. row'[e[2]].is_late = is_late(r.time, w) /\ row'[e[2]].excused = r.excused
      BY <3>1, EdgeEnds DEF TypeInv, TypeOK
    <3> QED
      BY <1>a, <3>2, <3>3, <3>4 DEF LateHasACause
  <2> QED
    BY <2>1, <2>2
<1>7. BehindBest'
  BY <1>a, <1>1 DEF BehindBest, TimeOfRejected
<1> QED
  BY <1>5, <1>6, <1>7 DEF LateInv, RowsAhead

LEMMA NextLate ==
    TypeInv /\ WaitInv /\ LateInv /\ [Next]_vars => LateInv'
<1> SUFFICES ASSUME TypeInv, WaitInv, LateInv, [Next]_vars PROVE  LateInv'
  OBVIOUS
<1>1. CASE UNCHANGED vars
  BY <1>1 DEF vars, sourceVars, operatorVars, historyVars, LateInv, BehindBest, RowsAhead,
              LateHasACause, TimeOfRejected
<1> QED
  BY <1>1, ReadRejectedLate, ReadValidLate, EmitLate, ReceiveLate DEF Next

\* A row is late only if its own split was out of order by more than the bound,
\* also against the time of a rejected record (event_time_ms_for_watermark), or
\* idle before, for any event times and any number of faster splits and subtasks
\* (calculate_lateness in logic.py, main in job.py).
THEOREM LateHasACauseHolds == Spec => []LateHasACause
<1>1. TypeInv /\ WaitInv /\ LateInv /\ [Next]_vars => LateInv'
  BY NextLate
<1>2. LateInv => LateHasACause
  BY DEF LateInv
<1> QED
  BY <1>1, <1>2, InitLate, EventTimeTypes, WaitInvariant, PTL DEF Spec
=============================================================================
