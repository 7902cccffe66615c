--------------------------- MODULE ValueAllocator ---------------------------
(***************************************************************************)
(* util/value_allocator.hpp: the free values of [lowest, highest], kept as *)
(* an ordered container of disjoint intervals.  packet_id_manager.hpp and  *)
(* topic_alias_send.hpp hold one each.                                     *)
(***************************************************************************)
EXTENDS Integers

CONSTANTS
  Lowest, Highest,  \* the constructor's arguments
  TypeMax,          \* std::numeric_limits<value_type>::max()
  Promoted          \* TRUE: value_type is narrower than int, so that "+ 1" is
                    \* computed in int; FALSE: it wraps (32 bit packet ids)

ASSUME RangeAssumption ==
  /\ Lowest \in Nat /\ Highest \in Nat /\ TypeMax \in Nat
  /\ 0 < Lowest /\ Lowest <= Highest /\ Highest <= TypeMax
  /\ Promoted \in BOOLEAN

VARIABLES pool,   \* pool_: the intervals of free values
          answer  \* the last call and what it returned

vars == <<pool, answer>>

Values == Lowest .. Highest
Refused == -1

\* value + 1, in the width the C++ expression has.
Succ(v) == IF Promoted \/ v < TypeMax THEN v + 1 ELSE 0

Interval(l, h) == [low |-> l, high |-> h]

\* Neither operand of operator< is less than the other: the container takes the
\* two intervals for the same key.
Equivalent(i, j) ==
  /\ ~ (i.low < j.low /\ i.high < j.low)
  /\ ~ (j.low < i.low /\ j.high < i.low)

\* pool_.emplace: rejected when an equivalent interval is already there.
Emplace(P, i) == IF \E j \in P : Equivalent(i, j) THEN P ELSE P \cup {i}

\* pool_.modify without a rollback: an element that collides is erased.
Modify(P, i, j) == Emplace(P \ {i}, j)

\* pool_.begin(), as a set that is empty when the pool is.
Begin == {i \in pool : \A j \in pool : i.low <= j.low}

\* pool_.find(value_interval{v}), as a set that is empty when there is none.
Find(v) == {i \in pool : Equivalent(i, Interval(v, v))}

\* itr of deallocate(): pool_.upper_bound(value_interval{v}).
UpperBound(v) ==
  {i \in pool : v < i.low /\ \A j \in pool : v < j.low => i.low <= j.low}

\* itl of deallocate(): the element before itr.
Before(v) ==
  {i \in pool : i.low <= v /\ \A j \in pool : j.low <= v => j.low <= i.low}

IsUsed(v) == Find(v) = {}

Init ==
  /\ pool = {Interval(Lowest, Highest)}
  /\ answer = <<"construct", Refused>>

\* Mutant of Allocate: "<" for "<=" drops the last value of an interval.
AllocateDropsLast ==
  \/ /\ pool = {}
     /\ answer' = <<"allocate", Refused>>
     /\ UNCHANGED pool
  \/ \E it \in Begin :
       /\ answer' = <<"allocate", it.low>>
       /\ pool' = IF Succ(it.low) < it.high
                  THEN Modify(pool, it, Interval(Succ(it.low), it.high))
                  ELSE pool \ {it}

Allocate ==
  \/ /\ pool = {}
     /\ answer' = <<"allocate", Refused>>
     /\ UNCHANGED pool
  \/ \E it \in Begin :
       /\ answer' = <<"allocate", it.low>>
       /\ \/ /\ Succ(it.low) <= it.high
             /\ pool' = Modify(pool, it, Interval(Succ(it.low), it.high))
          \/ /\ Succ(it.low) > it.high
             /\ pool' = pool \ {it}

\* The four ways deallocate() may concatenate the value to its neighbours.
ConcatLeft(v) == {itl \in Before(v) : Succ(itl.high) = v}
ConcatRight(v) == {itr \in UpperBound(v) : Succ(v) = itr.low}

\* Mutant of Deallocate: the left neighbour is looked at first, and the right
\* one only when there is nothing to join on the left.
DeallocateJoinsOneSide(v) ==
  /\ answer' = <<"deallocate", v>>
  /\ \/ \E itl \in ConcatLeft(v) :
          pool' = Modify(pool, itl, Interval(itl.low, v))
     \/ \E itr \in ConcatRight(v) :
          /\ ConcatLeft(v) = {}
          /\ pool' = Modify(pool, itr, Interval(v, itr.high))
     \/ /\ ConcatLeft(v) = {} /\ ConcatRight(v) = {}
        /\ pool' = Emplace(pool, Interval(v, v))

Deallocate(v) ==
  /\ answer' = <<"deallocate", v>>
  /\ \/ \E itl \in ConcatLeft(v), itr \in ConcatRight(v) :
          pool' = Modify(pool \ {itr}, itl, Interval(itl.low, itr.high))
     \/ \E itl \in ConcatLeft(v) :
          /\ ConcatRight(v) = {}
          /\ pool' = Modify(pool, itl, Interval(itl.low, v))
     \/ \E itr \in ConcatRight(v) :
          /\ ConcatLeft(v) = {}
          /\ pool' = Modify(pool, itr, Interval(v, itr.high))
     \/ /\ ConcatLeft(v) = {} /\ ConcatRight(v) = {}
        /\ pool' = Emplace(pool, Interval(v, v))

\* Mutant of Use: the upper part is put back without looking whether there is
\* one.
UseKeepsEmptyRest(v) ==
  \/ /\ Find(v) = {}
     /\ answer' = <<"use", Refused>>
     /\ UNCHANGED pool
  \/ \E it \in Find(v) :
       /\ answer' = <<"use", v>>
       /\ pool' = (IF it.low < v
                   THEN Emplace(pool \ {it}, Interval(it.low, v - 1))
                   ELSE pool \ {it}) \cup {Interval(Succ(v), it.high)}

Use(v) ==
  \/ /\ Find(v) = {}
     /\ answer' = <<"use", Refused>>
     /\ UNCHANGED pool
  \/ \E it \in Find(v) :
       LET below == IF it.low < v
                    THEN Emplace(pool \ {it}, Interval(it.low, v - 1))
                    ELSE pool \ {it}
       IN /\ answer' = <<"use", v>>
          /\ pool' = IF Succ(v) <= it.high
                     THEN Emplace(below, Interval(Succ(v), it.high))
                     ELSE below

Clear ==
  /\ pool' = {Interval(Lowest, Highest)}
  /\ answer' = <<"clear", Refused>>

Next ==
  \/ Allocate
  \/ Clear
  \/ \E v \in Values : Use(v) \/ Deallocate(v)

Spec == Init /\ [][Next]_vars
-----------------------------------------------------------------------------
(***************************************************************************)
(* Properties                                                              *)
(***************************************************************************)

\* The pool holds intervals of values of the range, and the answers are values.
TypeOK ==
  /\ pool \subseteq [low : Values, high : Values]
  /\ answer \in {"construct", "allocate", "use", "deallocate", "clear"}
                  \X (Values \cup {Refused})

\* Every interval is non-empty and any two are separated by at least one used
\* value: allocate(), use() and deallocate() keep the pool sorted and maximally
\* concatenated, also when a value that is already free is deallocated.
Canonical ==
  /\ \A i \in pool : i.low <= i.high
  /\ \A i, j \in pool :
       i # j => (i.high + 1 < j.low \/ j.high + 1 < i.low)

\* The interval pool behaves as a plain set of used values.
Abstract == INSTANCE IdPool WITH used <- {v \in Values : IsUsed(v)}
IsIdPool == Abstract!Spec
=============================================================================
