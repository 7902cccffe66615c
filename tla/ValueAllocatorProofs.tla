------------------------ MODULE ValueAllocatorProofs ------------------------
(***************************************************************************)
(* The interval pool of util/value_allocator.hpp implements a plain set of *)
(* used values, for every range, as long as "value + 1" does not wrap.     *)
(***************************************************************************)
EXTENDS ValueAllocator, TLAPS

\* value + 1 is computed without wrapping around: the value type is narrower
\* than int, or the highest value is below the largest of the type.
NoWrap == Promoted \/ Highest < TypeMax

\* The inductive invariant: intervals of the range, sorted and concatenated.
PoolInv ==
  /\ pool \subseteq [low : Values, high : Values]
  /\ Canonical

\* Without a wrap, "value + 1" is the next value.
LEMMA SuccIsPlusOne ==
  ASSUME NoWrap, NEW v \in Values
  PROVE  Succ(v) = v + 1
BY RangeAssumption DEF NoWrap, Succ, Values

\* An interval is found for a value exactly when it contains the value.
LEMMA FindContains ==
  ASSUME PoolInv, NEW v \in Values
  PROVE  Find(v) = {i \in pool : i.low <= v /\ v <= i.high}
BY RangeAssumption DEF PoolInv, Canonical, Find, Equivalent, Interval, Values

\* emplace adds an interval that touches no other one.
LEMMA EmplaceApart ==
  ASSUME NEW P \in SUBSET [low : Values, high : Values],
         NEW l \in Values, NEW h \in Values, l <= h,
         \A j \in P : j.low <= j.high /\ (h < j.low \/ j.high < l)
  PROVE  Emplace(P, Interval(l, h)) = P \cup {Interval(l, h)}
BY RangeAssumption DEF Emplace, Equivalent, Interval, Values

\* The constructor establishes the invariant.
LEMMA InitPoolInv == Init => PoolInv
BY RangeAssumption DEF Init, PoolInv, Canonical, Interval, Values

\* The values an interval set holds.
Free(P) == {v \in Values : \E i \in P : i.low <= v /\ v <= i.high}

\* One interval holds the values between its ends,
LEMMA FreeOfInterval ==
  ASSUME NEW l, NEW h, NEW v \in Values
  PROVE  v \in Free({Interval(l, h)}) <=> l <= v /\ v <= h
BY DEF Free, Interval

\* and the empty pool none.
LEMMA FreeOfNone == ASSUME NEW v PROVE v \notin Free({})
BY DEF Free

\* use() keeps the invariant and takes exactly its argument.
LEMMA UsePoolInv ==
  ASSUME NoWrap, PoolInv, NEW v \in Values, Use(v)
  PROVE  PoolInv' /\ Free(pool') = Free(pool) \ {v}
<1>1. CASE Find(v) = {} /\ UNCHANGED pool
  BY <1>1, FindContains DEF PoolInv, Canonical, Free
<1>2. ASSUME NEW it \in Find(v),
             pool' = LET below == IF it.low < v
                                  THEN Emplace(pool \ {it}, Interval(it.low, v - 1))
                                  ELSE pool \ {it}
                     IN IF Succ(v) <= it.high
                        THEN Emplace(below, Interval(Succ(v), it.high))
                        ELSE below
      PROVE  PoolInv' /\ Free(pool') = Free(pool) \ {v}
  <2>1. /\ it \in pool /\ it.low \in Values /\ it.high \in Values
        /\ it.low <= v /\ v <= it.high /\ Succ(v) = v + 1
    BY FindContains, SuccIsPlusOne DEF PoolInv
  <2>2. \A j \in pool \ {it} :
          /\ j.low \in Values /\ j.high \in Values /\ j.low <= j.high
          /\ (it.high + 1 < j.low \/ j.high + 1 < it.low)
    BY <2>1 DEF PoolInv, Canonical
  <2>3. pool \ {it} \in SUBSET [low : Values, high : Values]
    BY DEF PoolInv
  <2> DEFINE L == IF it.low < v THEN {Interval(it.low, v - 1)} ELSE {}
             R == IF v + 1 <= it.high THEN {Interval(v + 1, it.high)} ELSE {}
             below == IF it.low < v
                      THEN Emplace(pool \ {it}, Interval(it.low, v - 1))
                      ELSE pool \ {it}
  <2>4. below = (pool \ {it}) \cup L
    <3>1. CASE it.low < v
      <4>1. v - 1 \in Values /\ it.low <= v - 1
        BY <2>1, <3>1, RangeAssumption DEF Values
      <4>2. \A j \in pool \ {it} : j.low <= j.high /\ (v - 1 < j.low \/ j.high < it.low)
        BY <2>1, <2>2, RangeAssumption DEF Values
      <4>. QED BY <2>1, <2>3, <3>1, <4>1, <4>2, EmplaceApart
    <3>2. CASE ~ (it.low < v)
      BY <3>2
    <3>. QED BY <3>1, <3>2
  <2> HIDE DEF below
  <2>5. pool' = ((pool \ {it}) \cup L) \cup R
    <3>1. CASE v + 1 <= it.high
      <4>1. v + 1 \in Values
        BY <2>1, <3>1, RangeAssumption DEF Values
      <4>2. below \in SUBSET [low : Values, high : Values]
        BY <2>1, <2>3, <2>4, RangeAssumption DEF Interval, Values
      <4>3. \A j \in below : j.low <= j.high /\ (it.high < j.low \/ j.high < v + 1)
        BY <2>1, <2>2, <2>4, RangeAssumption DEF Interval, Values
      <4>4. pool' = Emplace(below, Interval(v + 1, it.high))
        BY <1>2, <2>1, <3>1 DEF below
      <4>5. Emplace(below, Interval(v + 1, it.high)) = below \cup {Interval(v + 1, it.high)}
        BY <2>1, <3>1, <4>1, <4>2, <4>3, EmplaceApart
      <4>. QED BY <2>4, <3>1, <4>4, <4>5
    <3>2. CASE ~ (v + 1 <= it.high)
      BY <1>2, <2>1, <2>4, <3>2 DEF below
    <3>. QED BY <3>1, <3>2
  <2>6. PoolInv'
    BY <2>1, <2>2, <2>3, <2>5, RangeAssumption
       DEF PoolInv, Canonical, Interval, Values
  <2>7. Free(pool') = Free(pool) \ {v}
    <3>1. ASSUME NEW w \in Values
          PROVE  w \in Free(pool') <=> w \in Free(pool) /\ w # v
      <4>1. w \in Free(L) \cup Free(R) <=> it.low <= w /\ w <= it.high /\ w # v
        <5>1. w \in Free(L) <=> it.low <= w /\ w < v
          BY <2>1, FreeOfInterval, FreeOfNone, RangeAssumption DEF Values
        <5>2. w \in Free(R) <=> v < w /\ w <= it.high
          BY <2>1, FreeOfInterval, FreeOfNone, RangeAssumption DEF Values
        <5>. QED BY <2>1, <5>1, <5>2, RangeAssumption DEF Values
      <4>2. w \in Free(pool') <=> w \in Free(pool \ {it}) \/ w \in Free(L) \cup Free(R)
        BY <2>5 DEF Free
      <4>3. w \in Free(pool) <=> w \in Free(pool \ {it}) \/ (it.low <= w /\ w <= it.high)
        BY <2>1 DEF Free
      <4>4. v \notin Free(pool \ {it})
        BY <2>1, <2>2, RangeAssumption DEF Free, Values
      <4>. QED BY <4>1, <4>2, <4>3, <4>4
    <3>. QED BY <3>1 DEF Free
  <2>. QED BY <2>6, <2>7
<1>. QED BY <1>1, <1>2 DEF Use

\* allocate() keeps the invariant and takes the lowest free value.
LEMMA AllocatePoolInv ==
  ASSUME NoWrap, PoolInv, NEW it \in Begin,
         \/ /\ Succ(it.low) <= it.high
            /\ pool' = Modify(pool, it, Interval(Succ(it.low), it.high))
         \/ /\ Succ(it.low) > it.high
            /\ pool' = pool \ {it}
  PROVE  /\ PoolInv'
         /\ it.low \in Free(pool)
         /\ \A w \in Free(pool) : it.low <= w
         /\ Free(pool') = Free(pool) \ {it.low}
<1>1. /\ it \in pool /\ it.low \in Values /\ it.high \in Values
      /\ it.low <= it.high /\ Succ(it.low) = it.low + 1
  BY SuccIsPlusOne DEF Begin, PoolInv, Canonical
<1>2. \A j \in pool \ {it} :
        /\ j.low \in Values /\ j.high \in Values /\ j.low <= j.high
        /\ it.high + 1 < j.low
  BY <1>1, RangeAssumption DEF PoolInv, Canonical, Begin, Values
<1> DEFINE R == IF it.low + 1 <= it.high THEN {Interval(it.low + 1, it.high)} ELSE {}
<1>3. pool' = (pool \ {it}) \cup R
  <2>1. CASE it.low + 1 <= it.high
    <3>1. it.low + 1 \in Values
      BY <1>1, <2>1, RangeAssumption DEF Values
    <3>2. \A j \in pool \ {it} : j.low <= j.high /\ (it.high < j.low \/ j.high < it.low + 1)
      BY <1>1, <1>2, RangeAssumption DEF Values
    <3>3. pool \ {it} \in SUBSET [low : Values, high : Values]
      BY DEF PoolInv
    <3>4. pool' = Emplace(pool \ {it}, Interval(it.low + 1, it.high))
      BY <1>1, <2>1, RangeAssumption DEF Modify, Values
    <3>. QED BY <1>1, <2>1, <3>1, <3>2, <3>3, <3>4, EmplaceApart
  <2>2. CASE ~ (it.low + 1 <= it.high)
    BY <1>1, <2>2
  <2>. QED BY <2>1, <2>2
<1>4. PoolInv'
  BY <1>1, <1>2, <1>3, RangeAssumption DEF PoolInv, Canonical, Interval, Values
<1>5. it.low \in Free(pool) /\ \A w \in Free(pool) : it.low <= w
  BY <1>1, <1>2, RangeAssumption DEF Free, Values
<1>6. ASSUME NEW w \in Values
      PROVE  w \in Free(pool') <=> w \in Free(pool) /\ w # it.low
  <2>1. w \in Free(R) <=> it.low < w /\ w <= it.high
    BY <1>1, FreeOfInterval, FreeOfNone, RangeAssumption DEF Values
  <2>2. w \in Free(pool') <=> w \in Free(pool \ {it}) \/ w \in Free(R)
    BY <1>3 DEF Free
  <2>3. w \in Free(pool) <=> w \in Free(pool \ {it}) \/ (it.low <= w /\ w <= it.high)
    BY <1>1 DEF Free
  <2>4. it.low \notin Free(pool \ {it})
    BY <1>1, <1>2, RangeAssumption DEF Free, Values
  <2>. QED BY <1>1, <2>1, <2>2, <2>3, <2>4, RangeAssumption DEF Values
<1>. QED BY <1>4, <1>5, <1>6 DEF Free

\* deallocate() looks at the neighbours in the order of the container; these
\* are exactly the intervals that touch the value.
LEMMA ConcatTouches ==
  ASSUME NoWrap, PoolInv, NEW v \in Values
  PROVE  /\ ConcatLeft(v) = {i \in pool : i.high + 1 = v}
         /\ ConcatRight(v) = {i \in pool : i.low = v + 1}
<1>1. \A i \in pool : /\ i.low \in Values /\ i.high \in Values
                      /\ i.low <= i.high /\ Succ(i.high) = i.high + 1
  BY SuccIsPlusOne DEF PoolInv, Canonical
<1>2. Succ(v) = v + 1
  BY SuccIsPlusOne
<1>3. \A i \in pool : i.high + 1 = v => i \in Before(v)
  BY <1>1, RangeAssumption DEF PoolInv, Canonical, Before, Values
<1>4. \A i \in pool : i.low = v + 1 => i \in UpperBound(v)
  BY <1>1, RangeAssumption DEF PoolInv, Canonical, UpperBound, Values
<1>. QED BY <1>1, <1>2, <1>3, <1>4 DEF ConcatLeft, ConcatRight, Before, UpperBound

\* A pool without the intervals it had next to v, and with v and those
\* intervals as one.
LEMMA JoinPoolInv ==
  ASSUME PoolInv, NEW v \in Values, NEW l \in Values, NEW h \in Values,
         NEW J \in SUBSET pool, l <= v, v <= h,
         \A j \in pool \ J : h + 1 < j.low \/ j.high + 1 < l,
         \A w \in Values : w \in Free(J) \/ w = v <=> l <= w /\ w <= h,
         pool' = Emplace(pool \ J, Interval(l, h))
  PROVE  PoolInv' /\ Free(pool') = Free(pool) \cup {v}
<1>1. \A j \in pool : j.low \in Values /\ j.high \in Values /\ j.low <= j.high
  BY DEF PoolInv, Canonical
<1>2. pool' = (pool \ J) \cup {Interval(l, h)}
  <2>1. pool \ J \in SUBSET [low : Values, high : Values] /\ l <= h
    BY RangeAssumption DEF PoolInv, Values
  <2>2. \A j \in pool \ J : j.low <= j.high /\ (h < j.low \/ j.high < l)
    BY <1>1, RangeAssumption DEF Values
  <2>. QED BY <2>1, <2>2, EmplaceApart
<1>3. PoolInv'
  <2>1. pool' \subseteq [low : Values, high : Values]
    <3>1. Interval(l, h) \in [low : Values, high : Values]
      BY DEF Interval
    <3>. QED BY <1>2, <3>1 DEF PoolInv
  <2>2. \A i \in pool' : i.low <= i.high
    BY <1>1, <1>2, RangeAssumption DEF Interval, Values
  <2>3. ASSUME NEW i \in pool', NEW j \in pool', i # j
        PROVE  i.high + 1 < j.low \/ j.high + 1 < i.low
    <3>1. CASE i \in pool \ J /\ j \in pool \ J
      BY <2>3, <3>1 DEF PoolInv, Canonical
    <3>2. CASE i \in pool \ J /\ j = Interval(l, h)
      BY <3>2 DEF Interval
    <3>3. CASE j \in pool \ J /\ i = Interval(l, h)
      BY <3>3 DEF Interval
    <3>. QED BY <1>2, <2>3, <3>1, <3>2, <3>3
  <2>. QED BY <2>1, <2>2, <2>3, SMTT(30) DEF PoolInv, Canonical
<1>4. ASSUME NEW w \in Values
      PROVE  w \in Free(pool') <=> w \in Free(pool) \/ w = v
  <2>1. w \in Free(pool') <=> w \in Free(pool \ J) \/ w \in Free({Interval(l, h)})
    BY <1>2 DEF Free
  <2>2. w \in Free(pool) <=> w \in Free(pool \ J) \/ w \in Free(J)
    BY DEF Free
  <2>. QED BY <2>1, <2>2, FreeOfInterval
<1>. QED BY <1>3, <1>4 DEF Free

\* deallocate() keeps the invariant and frees exactly its argument.
LEMMA DeallocatePoolInv ==
  ASSUME NoWrap, PoolInv, NEW v \in Values, Deallocate(v)
  PROVE  PoolInv' /\ Free(pool') = Free(pool) \cup {v}
<1>1. /\ ConcatLeft(v) = {i \in pool : i.high + 1 = v}
      /\ ConcatRight(v) = {i \in pool : i.low = v + 1}
  BY ConcatTouches
<1>2. \A j \in pool : j.low \in Values /\ j.high \in Values /\ j.low <= j.high
  BY DEF PoolInv, Canonical
<1>3. ASSUME NEW itl \in ConcatLeft(v), NEW itr \in ConcatRight(v),
             pool' = Modify(pool \ {itr}, itl, Interval(itl.low, itr.high))
      PROVE  PoolInv' /\ Free(pool') = Free(pool) \cup {v}
  <2>1. /\ itl \in pool /\ itr \in pool /\ itl.high + 1 = v /\ itr.low = v + 1
    BY <1>1
  <2>2. pool' = Emplace(pool \ {itl, itr}, Interval(itl.low, itr.high))
    <3>1. (pool \ {itr}) \ {itl} = pool \ {itl, itr}
      OBVIOUS
    <3>. QED BY <1>3, <3>1 DEF Modify
  <2>3. \A j \in pool \ {itl, itr} : itr.high + 1 < j.low \/ j.high + 1 < itl.low
    BY <1>2, <2>1, RangeAssumption DEF PoolInv, Canonical, Values
  <2>4. \A w \in Values : w \in Free({itl, itr}) \/ w = v <=> itl.low <= w /\ w <= itr.high
    BY <1>2, <2>1, RangeAssumption DEF Free, Values
  <2>5. {itl, itr} \in SUBSET pool /\ itl.low <= v /\ v <= itr.high
    BY <1>2, <2>1, RangeAssumption DEF Values
  <2>. QED BY <1>2, <2>1, <2>2, <2>3, <2>4, <2>5, JoinPoolInv
<1>4. ASSUME NEW itl \in ConcatLeft(v), ConcatRight(v) = {},
             pool' = Modify(pool, itl, Interval(itl.low, v))
      PROVE  PoolInv' /\ Free(pool') = Free(pool) \cup {v}
  <2>1. itl \in pool /\ itl.high + 1 = v /\ \A j \in pool : j.low # v + 1
    BY <1>1, <1>4
  <2>2. \A j \in pool \ {itl} : v + 1 < j.low \/ j.high + 1 < itl.low
    BY <1>2, <2>1, RangeAssumption DEF PoolInv, Canonical, Values
  <2>3. \A w \in Values : w \in Free({itl}) \/ w = v <=> itl.low <= w /\ w <= v
    BY <1>2, <2>1, RangeAssumption DEF Free, Values
  <2>4. {itl} \in SUBSET pool /\ v <= v /\ itl.low <= v
    BY <1>2, <2>1, RangeAssumption DEF Values
  <2>5. pool' = Emplace(pool \ {itl}, Interval(itl.low, v))
    BY <1>4 DEF Modify
  <2>. QED BY <1>2, <2>1, <2>2, <2>3, <2>4, <2>5, JoinPoolInv
<1>5. ASSUME NEW itr \in ConcatRight(v), ConcatLeft(v) = {},
             pool' = Modify(pool, itr, Interval(v, itr.high))
      PROVE  PoolInv' /\ Free(pool') = Free(pool) \cup {v}
  <2>1. itr \in pool /\ itr.low = v + 1 /\ \A j \in pool : j.high + 1 # v
    BY <1>1, <1>5
  <2>2. \A j \in pool \ {itr} : itr.high + 1 < j.low \/ j.high + 1 < v
    BY <1>2, <2>1, RangeAssumption DEF PoolInv, Canonical, Values
  <2>3. \A w \in Values : w \in Free({itr}) \/ w = v <=> v <= w /\ w <= itr.high
    BY <1>2, <2>1, RangeAssumption DEF Free, Values
  <2>4. {itr} \in SUBSET pool /\ v <= v /\ v <= itr.high
    BY <1>2, <2>1, RangeAssumption DEF Values
  <2>5. pool' = Emplace(pool \ {itr}, Interval(v, itr.high))
    BY <1>5 DEF Modify
  <2>. QED BY <1>2, <2>1, <2>2, <2>3, <2>4, <2>5, JoinPoolInv
<1>6. ASSUME ConcatLeft(v) = {}, ConcatRight(v) = {},
             pool' = Emplace(pool, Interval(v, v))
      PROVE  PoolInv' /\ Free(pool') = Free(pool) \cup {v}
  <2>1. \A j \in pool : j.low # v + 1 /\ j.high + 1 # v
    BY <1>1, <1>6
  <2>2. CASE Find(v) = {}
    <3>1. \A j \in pool \ {} : v + 1 < j.low \/ j.high + 1 < v
      BY <1>2, <2>1, <2>2, FindContains, RangeAssumption DEF Values
    <3>2. \A w \in Values : w \in Free({}) \/ w = v <=> v <= w /\ w <= v
      BY FreeOfNone, RangeAssumption DEF Values
    <3>3. pool' = Emplace(pool \ {}, Interval(v, v))
      <4>1. pool \ {} = pool
        OBVIOUS
      <4>. QED BY <1>6, <4>1
    <3>4. {} \in SUBSET pool /\ v <= v
      BY RangeAssumption DEF Values
    <3>. QED BY <3>1, <3>2, <3>3, <3>4, JoinPoolInv
  <2>3. CASE Find(v) # {}
    <3>1. pool' = pool
      BY <1>6, <2>3 DEF Find, Emplace, Equivalent
    <3>2. v \in Free(pool)
      BY <2>3, FindContains DEF Free
    <3>. QED BY <3>1, <3>2 DEF PoolInv, Canonical, Free
  <2>. QED BY <2>2, <2>3
<1>. QED BY <1>3, <1>4, <1>5, <1>6 DEF Deallocate

\* Every step keeps the inductive invariant.
LEMMA StepPoolInv ==
  ASSUME NoWrap, PoolInv, [Next]_vars
  PROVE  PoolInv'
<1>1. CASE Allocate
  <2>1. CASE UNCHANGED pool
    BY <2>1 DEF PoolInv, Canonical
  <2>. QED BY <1>1, <2>1, AllocatePoolInv DEF Allocate
<1>2. CASE Clear
  BY <1>2, RangeAssumption DEF Clear, PoolInv, Canonical, Interval, Values
<1>3. ASSUME NEW v \in Values, Use(v) PROVE PoolInv'
  BY <1>3, UsePoolInv
<1>4. ASSUME NEW v \in Values, Deallocate(v) PROVE PoolInv'
  BY <1>4, DeallocatePoolInv
<1>5. CASE UNCHANGED vars
  BY <1>5 DEF vars, PoolInv, Canonical
<1>. QED BY <1>1, <1>2, <1>3, <1>4, <1>5 DEF Next

\* The invariant holds in every reachable state.
LEMMA PoolInvariant == ASSUME NoWrap PROVE Spec => []PoolInv
<1>1. PoolInv /\ [Next]_vars => PoolInv'
  BY StepPoolInv
<1>. QED BY <1>1, InitPoolInv, PTL DEF Spec

\* For every range [Lowest, Highest] whose "+ 1" does not wrap, the pool of
\* value_allocator.hpp stays a set of non-empty intervals, any two of them
\* separated by a used value.
THEOREM PoolCanonical == ASSUME NoWrap PROVE Spec => []Canonical
<1>1. PoolInv => Canonical
  BY DEF PoolInv
<1>. QED BY <1>1, PoolInvariant, PTL

\* The type invariant, under the same assumption: every interval and every
\* answer of allocate() and use() lies in [Lowest, Highest].
THEOREM TypeCorrect == ASSUME NoWrap PROVE Spec => []TypeOK
<1>1. Init => TypeOK
  BY RangeAssumption DEF Init, TypeOK, Interval, Values
<1>2. ASSUME PoolInv, PoolInv', TypeOK, [Next]_vars PROVE TypeOK'
  <2> DEFINE Answers == {"construct", "allocate", "use", "deallocate", "clear"}
                          \X (Values \cup {Refused})
  <2>1. CASE Allocate
    <3>1. \A it \in Begin : it.low \in Values
      BY <1>2 DEF Begin, PoolInv
    <3>2. answer' \in Answers
      BY <2>1, <3>1 DEF Allocate
    <3>. QED BY <1>2, <3>2 DEF TypeOK, PoolInv
  <2>2. CASE Clear
    BY <1>2, <2>2 DEF Clear, TypeOK, PoolInv
  <2>3. ASSUME NEW v \in Values, Use(v) \/ Deallocate(v) PROVE TypeOK'
    <3>1. answer' \in {<<"use", Refused>>, <<"use", v>>, <<"deallocate", v>>}
      BY <2>3 DEF Use, Deallocate
    <3>. QED BY <1>2, <3>1 DEF TypeOK, PoolInv
  <2>4. CASE UNCHANGED vars
    BY <1>2, <2>4 DEF vars, TypeOK
  <2>. QED BY <1>2, <2>1, <2>2, <2>3, <2>4 DEF Next
<1>. QED BY <1>1, <1>2, PoolInvariant, PTL DEF Spec

\* is_used() says of a value that it is in no interval.
LEMMA UsedIsNotFree ==
  ASSUME PoolInv
  PROVE  {v \in Values : IsUsed(v)} = Values \ Free(pool)
BY FindContains DEF IsUsed, Free

\* The interval pool implements the plain set of used values: allocate() hands
\* out the lowest unused value and answers nullopt only when every value is
\* used, use() refuses exactly the used values, deallocate() gives back exactly
\* one value, clear() all of them.
THEOREM ImplementsIdPool == ASSUME NoWrap PROVE Spec => IsIdPool
<1> DEFINE Used == {v \in Values : IsUsed(v)}
<1>1. Init => Abstract!Init
  <2>1. ASSUME Init PROVE Used = {}
    <3>1. \A v \in Values : v \in Free(pool)
      BY <2>1, FreeOfInterval, RangeAssumption DEF Init, Values
    <3>2. PoolInv
      BY <2>1, InitPoolInv
    <3>. QED BY <3>1, <3>2, UsedIsNotFree
  <2>. QED BY <2>1 DEF Init, Abstract!Init, Refused, Abstract!Refused
<1>2. PoolInv => Used = Values \ Free(pool)
  BY UsedIsNotFree
<1>3. (PoolInv => Used = Values \ Free(pool))'
  BY <1>2, PTL
<1>4. ASSUME PoolInv, PoolInv', [Next]_vars PROVE [Abstract!Next]_(Abstract!vars)
  <2>1. Used = Values \ Free(pool) /\ Used' = Values \ Free(pool')
    BY <1>2, <1>3, <1>4
  <2>2. /\ Abstract!Values = Values /\ Abstract!Refused = Refused
        /\ Free(pool) \subseteq Values
    BY DEF Abstract!Values, Values, Abstract!Refused, Refused, Free
  <2>3. CASE Allocate
    <3>1. CASE pool = {} /\ UNCHANGED pool /\ answer' = <<"allocate", Refused>>
      <4>1. Free(pool) = {} /\ Free(pool') = {}
        BY <3>1 DEF Free
      <4>. QED BY <2>1, <2>2, <3>1, <4>1 DEF Abstract!Allocate, Abstract!Next
    <3>2. ASSUME NEW it \in Begin, answer' = <<"allocate", it.low>>,
                 \/ /\ Succ(it.low) <= it.high
                    /\ pool' = Modify(pool, it, Interval(Succ(it.low), it.high))
                 \/ /\ Succ(it.low) > it.high
                    /\ pool' = pool \ {it}
          PROVE  Abstract!Allocate
      <4>1. /\ it.low \in Free(pool)
            /\ \A w \in Free(pool) : it.low <= w
            /\ Free(pool') = Free(pool) \ {it.low}
        BY <1>4, <3>2, AllocatePoolInv
      <4>. QED BY <2>1, <2>2, <3>2, <4>1 DEF Abstract!Allocate
    <3>. QED BY <2>3, <3>1, <3>2 DEF Allocate, Abstract!Next
  <2>4. CASE Clear
    <3>1. Free(pool') = Values
      BY <2>4, RangeAssumption DEF Clear, Free, Interval, Values
    <3>. QED BY <2>1, <2>2, <2>4, <3>1 DEF Clear, Abstract!Clear, Abstract!Next
  <2>5. ASSUME NEW v \in Values, Use(v) PROVE Abstract!Use(v)
    <3>1. Free(pool') = Free(pool) \ {v}
      BY <1>4, <2>5, UsePoolInv
    <3>2. v \in Used <=> Find(v) = {}
      BY DEF IsUsed
    <3>3. CASE v \in Used
      BY <2>1, <2>5, <3>1, <3>2, <3>3, <2>2 DEF Use, Abstract!Use
    <3>4. CASE v \notin Used
      <4>1. answer' = <<"use", v>>
        BY <2>5, <3>2, <3>4 DEF Use
      <4>. QED BY <2>1, <2>2, <3>1, <3>4, <4>1 DEF Abstract!Use
    <3>. QED BY <3>3, <3>4
  <2>6. ASSUME NEW v \in Values, Deallocate(v) PROVE Abstract!Deallocate(v)
    <3>1. Free(pool') = Free(pool) \cup {v}
      BY <1>4, <2>6, DeallocatePoolInv
    <3>. QED BY <2>1, <2>6, <3>1 DEF Deallocate, Abstract!Deallocate
  <2>7. CASE UNCHANGED vars
    <3>1. Free(pool') = Free(pool) /\ answer' = answer
      BY <2>7 DEF vars, Free
    <3>. QED BY <2>1, <3>1 DEF Abstract!vars
  <2>. QED BY <1>4, <2>2, <2>3, <2>4, <2>5, <2>6, <2>7 DEF Next, Abstract!Next
<1>. QED BY <1>1, <1>4, PoolInvariant, PTL DEF Spec, IsIdPool, Abstract!Spec
=============================================================================
