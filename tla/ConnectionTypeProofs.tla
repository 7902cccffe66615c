------------------------ MODULE ConnectionTypeProofs ------------------------
(***************************************************************************)
(* Type correctness of the connection, for every number of packet          *)
(* identifiers and topic aliases, every width of the counters, every set   *)
(* of topics and every use, careful or not, together with what the types   *)
(* rest on.  The type invariant is not inductive by itself:                *)
(* get_lru_alias() reads the oldest entry of a table that must not be      *)
(* empty, so that the sending table of topic aliases has to be sound, and  *)
(* what is known of the store and the timers is carried along (Sound).     *)
(*                                                                         *)
(* The second half tells which calls leave the store and the packet        *)
(* identifiers alone (Quiet), and what each of the others does up to such  *)
(* quiet steps.  ConnectionStoreProofs and ConnectionIdProofs rest on it.  *)
(***************************************************************************)
EXTENDS ConnectionUse, FiniteSetTheorems, WellFoundedInduction, TLAPS
-----------------------------------------------------------------------------
(***************************************************************************)
(* The two containers of a connection, the packet store and the sending    *)
(* table of topic aliases, and the sequences they are.                     *)
(***************************************************************************)
\* The bounds are natural numbers.
LEMMA Bounds == MaxPacketId \in Nat /\ ReceiveMaximumMax \in Nat /\ MaxAlias \in Nat
  BY PacketsAssumption, Zenon

\* A non-empty set of natural numbers has a least element.
LEMMA Least ==
  ASSUME NEW S, S \subseteq Nat, S # {}
  PROVE  \E a \in S : \A b \in S : a <= b
  <1> DEFINE R == {ss \in Nat \X Nat : ss[1] < ss[2]}
  <1>1. IsWellFoundedOn(R, Nat)
    BY NatLessThanWellFounded DEF OpToRel
  <1>2. \E x \in S : \A y \in S : ~ (<<y, x>> \in R)
    <2> HIDE DEF R
    <2> QED BY <1>1, WFMin, Zenon
  <1>3. \A x, y \in Nat : y < x => <<y, x>> \in R
    OBVIOUS
  <1> HIDE DEF R
  <1>4. PICK x \in S : \A y \in S : ~ (<<y, x>> \in R)
    BY <1>2
  <1>5. \A y \in S : ~ (y < x)
    BY <1>3, <1>4, Zenon
  <1>6. \A y \in S : x <= y
    BY <1>5
  <1> QED BY <1>6

\* What RemoveAt leaves.
LEMMA RemoveAtSeq ==
  ASSUME NEW S, NEW s \in Seq(S), NEW i \in DOMAIN s
  PROVE  /\ RemoveAt(s, i) \in Seq(S)
         /\ Len(RemoveAt(s, i)) = Len(s) - 1
         /\ \A j \in 1 .. Len(s) - 1 :
              RemoveAt(s, i)[j] = IF j < i THEN s[j] ELSE s[j + 1]
  BY DEF RemoveAt

-----------------------------------------------------------------------------
(***************************************************************************)
(* The topic alias tables                                                  *)
(***************************************************************************)
\* The() picks a member.
LEMMA TheIn == \A S : S # {} => The(S) \in S
  BY DEF The

\* Taking an entry out, and appending one that is new, keeps the others distinct.
LEMMA RemoveDistinct ==
  ASSUME NEW E, NEW e \in Seq(E), NEW i \in DOMAIN e, Distinct(e)
  PROVE  /\ Distinct(RemoveAt(e, i))
         /\ \A j \in DOMAIN RemoveAt(e, i) :
              \E k \in DOMAIN e : k # i /\ RemoveAt(e, i)[j] = e[k]
  <1> DEFINE r == RemoveAt(e, i)
             old(j) == IF j < i THEN j ELSE j + 1
  <1>1. /\ r \in Seq(E) /\ Len(r) = Len(e) - 1
        /\ \A j \in 1 .. Len(e) - 1 : r[j] = IF j < i THEN e[j] ELSE e[j + 1]
    BY RemoveAtSeq
  <1> HIDE DEF r
  <1>2. \A j \in DOMAIN r : old(j) \in DOMAIN e /\ old(j) # i /\ r[j] = e[old(j)]
    BY <1>1
  <1>3. \A j, k \in DOMAIN r : old(j) = old(k) => j = k
    BY <1>1
  <1> HIDE DEF old
  <1>4. Distinct(r)
    BY <1>2, <1>3 DEF Distinct
  <1> QED BY <1>2, <1>4 DEF r

\* Appending an entry with a new alias and a new topic name keeps entries distinct.
LEMMA AppendDistinct ==
  ASSUME NEW E, NEW e \in Seq(E), NEW x \in E, Distinct(e),
         \A j \in DOMAIN e : e[j].alias # x.alias /\ e[j].topic # x.topic
  PROVE  Distinct(Append(e, x))
  <1>1. \A j \in DOMAIN Append(e, x) : 
          \/ j \in DOMAIN e /\ Append(e, x)[j] = e[j]
          \/ j = Len(e) + 1 /\ Append(e, x)[j] = x
    OBVIOUS
  <1> QED BY <1>1 DEF Distinct

\* find() returns a topic name or an alias of the table, or nothing.
LEMMA EntryFound ==
  ASSUME NEW t \in AliasSendType, TableSound(t)
  PROVE  /\ \A alias : FindTopic(t, alias) \in Topics \cup {NoTopic}
         /\ \A topic : FindAlias(t, topic) \in 0 .. t.max
         /\ t.max \in 0 .. MaxAlias
  <1>1. \A i \in DOMAIN t.entries :
          t.entries[i].topic \in Topics /\ t.entries[i].alias \in 1 .. t.max
    <2> DEFINE E == [topic : Topics, alias : Aliases]
    <2>3. t.entries \in Seq(E)
      BY DEF AliasSendType
    <2>1. \A i \in DOMAIN t.entries : t.entries[i] \in E
      <3> HIDE DEF E
      <3> QED BY <2>3
    <2>2. \A i \in DOMAIN t.entries : t.entries[i].alias \in 1 .. t.max
      BY DEF TableSound
    <2> QED BY <2>1, <2>2
  <1>2. \A alias : FindTopic(t, alias) \in Topics \cup {NoTopic}
    <2>1. SUFFICES ASSUME NEW alias PROVE FindTopic(t, alias) \in Topics \cup {NoTopic}
      OBVIOUS
    <2>2. CASE AtAlias(t, alias) = {}
      BY <2>2 DEF FindTopic
    <2>3. CASE AtAlias(t, alias) # {}
      <3>1. The(AtAlias(t, alias)) \in DOMAIN t.entries
        BY <2>3, TheIn DEF AtAlias
      <3> QED BY <3>1, <2>3, <1>1, SMTT(20) DEF FindTopic
    <2> QED BY <2>2, <2>3
  <1>3. \A topic : FindAlias(t, topic) \in 0 .. t.max
    <2>1. t.max \in Nat
      BY Bounds DEF AliasSendType
    <2>2. SUFFICES ASSUME NEW topic PROVE FindAlias(t, topic) \in 0 .. t.max
      OBVIOUS
    <2>3. CASE AtTopic(t, topic) = {}
      BY <2>1, <2>3 DEF FindAlias, NoAlias
    <2>4. CASE AtTopic(t, topic) # {}
      <3>1. The(AtTopic(t, topic)) \in DOMAIN t.entries
        BY <2>4, TheIn DEF AtTopic
      <3>2. FindAlias(t, topic) = t.entries[The(AtTopic(t, topic))].alias
        BY <2>4 DEF FindAlias
      <3> QED BY <3>1, <3>2, <1>1, <2>1
    <2> QED BY <2>3, <2>4
  <1> QED BY <1>2, <1>3 DEF AliasSendType

\* The touch of find(alias) only reorders the entries.
LEMMA TouchSound ==
  ASSUME NEW t \in AliasSendType, TableSound(t), NEW alias
  PROVE  Touch(t, alias) \in AliasSendType /\ TableSound(Touch(t, alias))
         /\ Touch(t, alias).max = t.max
  <1> DEFINE i == The(AtAlias(t, alias))
             e == t.entries
             E == [topic : Topics, alias : Aliases]
             n == Append(RemoveAt(e, i), e[i])
  <1>1. CASE AtAlias(t, alias) = {}
    BY <1>1 DEF Touch
  <1>2. CASE AtAlias(t, alias) # {}
    <2>1. i \in DOMAIN e /\ e \in Seq(E) /\ Distinct(e)
      BY <1>2, TheIn, Zenon DEF AtAlias, AliasSendType, TableSound
    <2> HIDE DEF i, E
    <2>2. RemoveAt(e, i) \in Seq(E) /\ e[i] \in E
      BY <2>1, RemoveAtSeq
    <2>3. /\ Distinct(RemoveAt(e, i))
          /\ \A j \in DOMAIN RemoveAt(e, i) :
              \E k \in DOMAIN e : k # i /\ RemoveAt(e, i)[j] = e[k]
      BY <2>1, RemoveDistinct
    <2>4. \A j \in DOMAIN RemoveAt(e, i) :
            RemoveAt(e, i)[j].alias # e[i].alias /\ RemoveAt(e, i)[j].topic # e[i].topic
      BY <2>1, <2>3 DEF Distinct
    <2>5. Distinct(n)
      <3> HIDE DEF e
      <3> QED BY <2>2, <2>3, <2>4, AppendDistinct
    <2>6. n \in Seq(E) /\ n # <<>>
      BY <2>2
    <2>7. \A j \in DOMAIN n : \E k \in DOMAIN e : n[j] = e[k]
      BY <2>1, <2>2, <2>3, SMTT(20)
    <2>8. Touch(t, alias) = [t EXCEPT !.entries = n]
      BY <1>2 DEF Touch, i
    <2> HIDE DEF n
    <2>9. Touch(t, alias) \in AliasSendType /\ Touch(t, alias).entries = n
          /\ Touch(t, alias).used = t.used /\ Touch(t, alias).max = t.max
      BY <2>6, <2>8, ZenonT(40) DEF AliasSendType, E
    <2> QED BY <2>5, <2>6, <2>7, <2>9 DEF TableSound
  <1> QED BY <1>1, <1>2

\* insert_or_update() of a topic name and an alias in the range of the table.
LEMMA InsertSound ==
  ASSUME NEW t \in AliasSendType, TableSound(t), NEW topic \in Topics,
         NEW alias \in 1 .. t.max
  PROVE  /\ InsertOrUpdate(t, topic, alias) \in AliasSendType
         /\ TableSound(InsertOrUpdate(t, topic, alias))
         /\ InsertOrUpdate(t, topic, alias).max = t.max
  <1> DEFINE e == t.entries
             E == [topic : Topics, alias : Aliases]
             here == AtAlias(t, alias)
             i == The(here)
             rest == IF here = {} THEN e ELSE RemoveAt(e, i)
             other == AtTopic(t, topic) \ here
             x == Entry(topic, alias)
             n == IF other = {} THEN Append(rest, x) ELSE rest
             u == t.used \cup {alias}
  <1>1. e \in Seq(E) /\ Distinct(e) /\ x \in E /\ alias \in Aliases
    BY Bounds DEF AliasSendType, TableSound, Entry, Aliases
  <1>2. here = {j \in DOMAIN e : e[j].alias = alias}
    BY DEF AtAlias
  <1>3. AtTopic(t, topic) = {j \in DOMAIN e : e[j].topic = topic}
    BY DEF AtTopic
  <1> HIDE DEF e, E, here
  <1>4. /\ rest \in Seq(E) /\ Distinct(rest)
        /\ \A j \in DOMAIN rest : \E k \in DOMAIN e \ here : rest[j] = e[k]
        /\ DOMAIN e \ here # {} => rest # <<>>
    <2>1. CASE here = {}
      BY <1>1, <2>1
    <2>2. CASE here # {}
      <3>1. i \in here /\ i \in DOMAIN e
        BY <1>2, <2>2, TheIn
      <3>2. here = {i}
        BY <1>1, <1>2, <3>1, Zenon DEF Distinct
      <3> HIDE DEF i
      <3>3. RemoveAt(e, i) \in Seq(E) /\ Len(RemoveAt(e, i)) = Len(e) - 1
        BY <1>1, <3>1, RemoveAtSeq
      <3>5. DOMAIN e \ {i} # {} => Len(e) > 1
        BY <1>1, <3>1
      <3>4. /\ Distinct(RemoveAt(e, i))
            /\ \A j \in DOMAIN RemoveAt(e, i) :
                 \E k \in DOMAIN e : k # i /\ RemoveAt(e, i)[j] = e[k]
        BY <1>1, <3>1, RemoveDistinct, SMTT(20)
      <3> QED BY <1>1, <2>2, <3>2, <3>3, <3>4, <3>5
    <2> QED BY <2>1, <2>2, ZenonT(40)
  <1> HIDE DEF rest
  <1>5. /\ Distinct(n) /\ n \in Seq(E) /\ n # <<>>
        /\ \A j \in DOMAIN n : n[j].alias = alias \/ \E k \in DOMAIN e : n[j] = e[k]
    <2>1. CASE other = {}
      <3>1. \A k \in DOMAIN e \ here : e[k].alias # alias /\ e[k].topic # topic
        BY <1>2, <1>3, <2>1
      <3>2. \A j \in DOMAIN rest : rest[j].alias # x.alias /\ rest[j].topic # x.topic
        BY <1>4, <3>1 DEF Entry
      <3>3. x.alias = alias
        BY DEF Entry
      <3> HIDE DEF x
      <3>4. Distinct(Append(rest, x))
        BY <1>1, <1>4, <3>2, AppendDistinct, SMTT(20)
      <3>5. \A j \in DOMAIN Append(rest, x) : 
              Append(rest, x)[j] = x \/ \E k \in DOMAIN e : Append(rest, x)[j] = e[k]
        BY <1>1, <1>4
      <3>6. n = Append(rest, x)
        BY <2>1
      <3>7. Append(rest, x) \in Seq(E) /\ Append(rest, x) # <<>>
        <4>1. rest \in Seq(E) /\ x \in E
          BY <1>1, <1>4, Zenon
        <4>2. Append(rest, x) \in Seq(E)
          BY <4>1, SMTT(10)
        <4>3. Len(Append(rest, x)) = Len(rest) + 1 /\ Len(rest) \in Nat
          BY <4>1, SMTT(10)
        <4>4. Append(rest, x) = <<>> => Len(Append(rest, x)) = 0
          OBVIOUS
        <4> QED BY <4>2, <4>3, <4>4, SMTT(10)
      <3> HIDE DEF n
      <3> QED BY <3>3, <3>4, <3>5, <3>6, <3>7
    <2>2. CASE other # {}
      BY <1>3, <1>4, <2>2
    <2> QED BY <2>1, <2>2
  <1>6. InsertOrUpdate(t, topic, alias) = [t EXCEPT !.used = u, !.entries = n]
    BY DEF InsertOrUpdate, e, here, rest
  <1> HIDE DEF n
  <1>7. \A k \in DOMAIN e : e[k].alias \in t.used
    BY DEF TableSound, e
  <1>8. u \subseteq 1 .. t.max /\ u \in SUBSET Aliases
    BY <1>1 DEF TableSound, AliasSendType
  <1>9. \A j \in DOMAIN n : n[j].alias \in u
    BY <1>5, <1>7
  <1> HIDE DEF u
  <1>10. [t EXCEPT !.used = u, !.entries = n] \in AliasSendType
    BY <1>5, <1>8, Zenon DEF AliasSendType, E
  <1>11. /\ [t EXCEPT !.used = u, !.entries = n].used = u
         /\ [t EXCEPT !.used = u, !.entries = n].entries = n
         /\ [t EXCEPT !.used = u, !.entries = n].max = t.max
    BY DEF AliasSendType
  <1> QED BY <1>5, <1>6, <1>8, <1>9, <1>10, <1>11 DEF TableSound

\* get_lru_alias() returns an alias in the range of the table.
LEMMA LruInRange ==
  ASSUME NEW t \in AliasSendType, TableSound(t), t.max # 0
  PROVE  GetLruAlias(t) \in 1 .. t.max
  <1> DEFINE vacant == (1 .. t.max) \ t.used
  <1>1. t.max \in Nat /\ t.max > 0
    BY Bounds DEF AliasSendType
  <1>2. CASE vacant # {}
    <2>4. vacant \subseteq Nat
      BY <1>1
    <2>1. \E a \in vacant : \A b \in vacant : a <= b
      <3> HIDE DEF vacant
      <3> QED BY <1>2, <2>4, Least, Zenon
    <2>2. GetLruAlias(t) = CHOOSE a \in vacant : \A b \in vacant : a <= b
      BY <1>2 DEF GetLruAlias
    <2>3. GetLruAlias(t) \in vacant
      <3> HIDE DEF vacant
      <3> QED BY <2>1, <2>2
    <2> QED BY <2>3
  <1>3. CASE vacant = {}
    <2>1. t.used # {}
      BY <1>1, <1>3
    <2>2. t.entries # <<>> /\ t.entries \in Seq([topic : Topics, alias : Aliases])
      BY <2>1 DEF TableSound, AliasSendType
    <2>3. 1 \in DOMAIN t.entries /\ Head(t.entries) = t.entries[1]
      BY <2>2
    <2>4. GetLruAlias(t) = t.entries[1].alias
      BY <1>3, <2>3 DEF GetLruAlias
    <2> QED BY <2>3, <2>4 DEF TableSound
  <1> QED BY <1>2, <1>3

-----------------------------------------------------------------------------
(***************************************************************************)
(* The packet store                                                        *)
(***************************************************************************)
\* f lists the set S of positions in ascending order.
Lists(f, S) ==
  /\ f \in [1 .. Cardinality(S) -> S]
  /\ \A j, k \in DOMAIN f : j < k => f[j] < f[k]
  /\ \A i \in S : \E k \in DOMAIN f : f[k] = i

\* Adding the highest position to those that are listed.
LEMMA ListsExtended ==
  ASSUME NEW n \in Nat, NEW S, S \subseteq 1 .. n, NEW f, Lists(f, S)
  PROVE  \E g : Lists(g, S \cup {n + 1})
  <1> DEFINE c == Cardinality(S)
             T == S \cup {n + 1}
             g == [k \in 1 .. c + 1 |-> IF k = c + 1 THEN n + 1 ELSE f[k]]
  <1>1. IsFiniteSet(S) /\ c \in Nat
    <2>1. IsFiniteSet(1 .. n)
      BY FS_Interval
    <2> QED BY <2>1, FS_Subset, FS_CardinalityType, Zenon
  <1>2. Cardinality(T) = c + 1
    BY <1>1, FS_AddElement
  <1>3. /\ f \in [1 .. c -> S] /\ \A j, k \in 1 .. c : j < k => f[j] < f[k]
        /\ \A i \in S : \E k \in 1 .. c : f[k] = i
    BY DEF Lists
  <1> HIDE DEF c
  <1>4. g \in [1 .. c + 1 -> T]
    BY <1>1, <1>3
  <1>5. ASSUME NEW j \in 1 .. c + 1, NEW k \in 1 .. c + 1, j < k
        PROVE  g[j] < g[k]
    <2>1. j \in 1 .. c
      BY <1>1, <1>5
    <2>2. f[j] \in S
      BY <1>3, <2>1
    <2>3. \A i \in S : i < n + 1
      OBVIOUS
    <2>4. f[j] < n + 1
      BY <2>2, <2>3, Zenon
    <2>5. g[j] = f[j] /\ g[k] = IF k = c + 1 THEN n + 1 ELSE f[k]
      BY <1>1, <2>1
    <2>6. k # c + 1 => k \in 1 .. c
      BY <1>1
    <2> HIDE DEF g
    <2> QED BY <1>3, <1>5, <2>1, <2>4, <2>5, <2>6, Zenon
  <1>6. ASSUME NEW i \in T PROVE \E k \in 1 .. c + 1 : g[k] = i
    <2>1. CASE i = n + 1
      BY <1>1, <2>1
    <2>2. CASE i \in S
      BY <1>1, <1>3, <2>2
    <2> QED BY <2>1, <2>2
  <1>7. DOMAIN g = 1 .. c + 1
    OBVIOUS
  <1> HIDE DEF g
  <1>8. Lists(g, T)
    BY <1>2, <1>4, <1>5, <1>6, <1>7, Zenon DEF Lists
  <1> QED BY <1>8

\* Every set of positions can be listed in ascending order.
LEMMA Listed == \A n \in Nat : \A S \in SUBSET (1 .. n) : \E f : Lists(f, S)
  <1> DEFINE bad == {n \in Nat : \E S \in SUBSET (1 .. n) : \A f : ~ Lists(f, S)}
  <1>1. SUFFICES ASSUME bad # {} PROVE FALSE
    OBVIOUS
  <1>2. PICK n \in bad : \A m \in bad : n <= m
    <2>1. bad \subseteq Nat
      OBVIOUS
    <2> HIDE DEF bad
    <2> QED BY <1>1, <2>1, Least, Zenon
  <1>3. PICK S \in SUBSET (1 .. n) : \A f : ~ Lists(f, S)
    OBVIOUS
  <1>4. n \in Nat
    OBVIOUS
  <1>5. n # 0
    <2>1. SUFFICES ASSUME n = 0 PROVE FALSE
      OBVIOUS
    <2>2. S = {}
      <3> HIDE DEF bad
      <3> QED BY <2>1
    <2>3. Lists([k \in 1 .. 0 |-> 0], {})
      BY FS_EmptySet DEF Lists
    <2> QED BY <1>3, <2>2, <2>3
  <1>6. n - 1 \in Nat /\ n - 1 \notin bad
    <2>1. n - 1 \in Nat /\ ~ (n <= n - 1)
      BY <1>4, <1>5
    <2> HIDE DEF bad
    <2> QED BY <1>2, <2>1
  <1>7. \A T \in SUBSET (1 .. n - 1) : \E f : Lists(f, T)
    BY <1>6
  <1> HIDE DEF bad
  <1>8. S \ {n} \in SUBSET (1 .. n - 1)
    BY <1>4
  <1>9. PICK f : Lists(f, S \ {n})
    BY <1>7, <1>8
  <1>10. CASE n \in S
    <2>1. (S \ {n}) \cup {(n - 1) + 1} = S
      BY <1>4, <1>10
    <2>2. \E g : Lists(g, (S \ {n}) \cup {(n - 1) + 1})
      BY <1>6, <1>8, <1>9, ListsExtended
    <2> QED BY <1>3, <2>1, <2>2
  <1>11. CASE n \notin S
    <2>1. S \ {n} = S
      BY <1>11
    <2> QED BY <1>3, <1>9, <2>1
  <1> QED BY <1>10, <1>11

\* The packets of e are packets of st, in the order they have there.
Within(e, st) ==
  \E f \in [DOMAIN e -> DOMAIN st] :
    /\ \A j, k \in DOMAIN e : j < k => f[j] < f[k]
    /\ \A k \in DOMAIN e : e[k] = st[f[k]]

\* What Pick returns: the packets at the positions, and no others, in their order.
LEMMA PickSound ==
  ASSUME NEW T, NEW st \in Seq(T), NEW S \in SUBSET DOMAIN st
  PROVE  /\ Pick(st, S) \in Seq(T)
         /\ Within(Pick(st, S), st)
         /\ \A i \in S : \E k \in DOMAIN Pick(st, S) : Pick(st, S)[k] = st[i]
         /\ \A k \in DOMAIN Pick(st, S) : \E i \in S : Pick(st, S)[k] = st[i]
  <1>1. CASE S = DOMAIN st
    <2>1. Pick(st, S) = st
      BY <1>1 DEF Pick
    <2>2. Within(st, st)
      <3> DEFINE f == [k \in DOMAIN st |-> k]
      <3>1. f \in [DOMAIN st -> DOMAIN st] /\ \A k \in DOMAIN st : f[k] = k
        OBVIOUS
      <3> HIDE DEF f
      <3> QED BY <3>1 DEF Within
    <2> QED BY <1>1, <2>1, <2>2
  <1>2. CASE S # DOMAIN st
    <2> DEFINE f == Ascending(S)
               c == Cardinality(S)
               e == [k \in 1 .. c |-> st[f[k]]]
    <2>1. Pick(st, S) = e
      BY <1>2 DEF Pick
    <2>2. S \in SUBSET (1 .. Len(st)) /\ Len(st) \in Nat
      OBVIOUS
    <2>3. \E g : Lists(g, S)
      BY <2>2, Listed, Zenon
    <2>4. Lists(f, S)
      BY <2>3, Zenon DEF Lists, Ascending
    <2>5. c \in Nat
      <3>1. IsFiniteSet(1 .. Len(st))
        BY <2>2, FS_Interval
      <3> QED BY <2>2, <3>1, FS_Subset, FS_CardinalityType
    <2>6. /\ f \in [1 .. c -> S] /\ \A j, k \in 1 .. c : j < k => f[j] < f[k]
          /\ \A i \in S : \E k \in 1 .. c : f[k] = i
      BY <2>4 DEF Lists
    <2> HIDE DEF f, c
    <2>7. /\ e \in Seq(T) /\ DOMAIN e = 1 .. c
          /\ \A k \in 1 .. c : e[k] = st[f[k]]
      BY <2>5, <2>6
    <2> HIDE DEF e
    <2>8. Within(e, st)
      <3>1. f \in [DOMAIN e -> DOMAIN st]
        BY <2>6, <2>7
      <3> QED BY <3>1, <2>6, <2>7, Zenon DEF Within
    <2> QED BY <2>1, <2>6, <2>7, <2>8
  <1> QED BY <1>1, <1>2
\* No two packets of the store wait for the same answer.
KeysUnique(st) ==
  \A i, j \in DOMAIN st :
    ResponseTo(st[i]) = ResponseTo(st[j]) /\ st[i].pid = st[j].pid => i = j

\* Packets that two stores have in common are in the same order in both.
SameOrder(old, new) ==
  \A i, j \in DOMAIN old, k, l \in DOMAIN new :
    i < j /\ old[i] = new[k] /\ old[j] = new[l] => k < l

\* A part of a store keeps its order and its unique keys.
LEMMA WithinSound ==
  ASSUME NEW T, NEW st \in Seq(T), NEW e \in Seq(T), Within(e, st), KeysUnique(st)
  PROVE  KeysUnique(e) /\ SameOrder(st, e) /\ SameOrder(e, st)
  <1>1. PICK f \in [DOMAIN e -> DOMAIN st] :
          /\ \A j, k \in DOMAIN e : j < k => f[j] < f[k]
          /\ \A k \in DOMAIN e : e[k] = st[f[k]]
    BY DEF Within
  <1>2. \A k \in DOMAIN e : k \in Nat /\ f[k] \in Nat /\ f[k] \in DOMAIN st
    <2>1. \A k \in DOMAIN e : k \in Nat
      OBVIOUS
    <2>2. \A k \in DOMAIN st : k \in Nat
      OBVIOUS
    <2> QED BY <1>1, <2>1, <2>2, Zenon
  <1>3. \A j, k \in DOMAIN e : f[j] = f[k] => j = k
    BY <1>1, <1>2
  <1>4. KeysUnique(e)
    <2>1. SUFFICES ASSUME NEW j \in DOMAIN e, NEW k \in DOMAIN e,
                          ResponseTo(e[j]) = ResponseTo(e[k]), e[j].pid = e[k].pid
                   PROVE  j = k
      BY DEF KeysUnique
    <2>2. e[j] = st[f[j]] /\ e[k] = st[f[k]] /\ f[j] \in DOMAIN st /\ f[k] \in DOMAIN st
      BY <1>1, <1>2, Zenon
    <2>3. f[j] = f[k]
      BY <2>1, <2>2, Zenon DEF KeysUnique
    <2> QED BY <1>3, <2>3
  <1>5. ASSUME NEW i \in DOMAIN st, NEW k \in DOMAIN e, st[i] = e[k]
        PROVE  f[k] = i
    BY <1>1, <1>2, <1>5, Zenon DEF KeysUnique
  <1>6. SameOrder(st, e)
    <2>1. SUFFICES ASSUME NEW i \in DOMAIN st, NEW j \in DOMAIN st,
                          NEW k \in DOMAIN e, NEW l \in DOMAIN e,
                          i < j, st[i] = e[k], st[j] = e[l]
                   PROVE  k < l
      BY DEF SameOrder
    <2>2. f[k] = i /\ f[l] = j
      BY <1>5, <2>1, Zenon
    <2> QED BY <1>1, <1>2, <2>1, <2>2
  <1>7. SameOrder(e, st)
    <2>1. SUFFICES ASSUME NEW i \in DOMAIN st, NEW j \in DOMAIN st,
                          NEW k \in DOMAIN e, NEW l \in DOMAIN e,
                          k < l, e[k] = st[i], e[l] = st[j]
                   PROVE  i < j
      BY DEF SameOrder
    <2>2. f[k] = i /\ f[l] = j
      BY <1>5, <2>1, Zenon
    <2> QED BY <1>1, <2>1, <2>2
  <1> QED BY <1>4, <1>6, <1>7

\* A sequence is part of the one that has another element at its end,
LEMMA AppendWithin ==
  ASSUME NEW T, NEW st \in Seq(T), NEW x \in T
  PROVE  Within(st, Append(st, x))
  <1> DEFINE f == [k \in DOMAIN st |-> k]
             a == Append(st, x)
  <1>1. f \in [DOMAIN st -> DOMAIN a] /\ \A k \in DOMAIN st : f[k] = k /\ a[k] = st[k]
    OBVIOUS
  <1> HIDE DEF f, a
  <1> QED BY <1>1 DEF Within, a

\* and one without an element is part of the one with it.
LEMMA RemoveWithin ==
  ASSUME NEW T, NEW st \in Seq(T), NEW i \in DOMAIN st
  PROVE  /\ Within(RemoveAt(st, i), st)
         /\ \A k \in DOMAIN RemoveAt(st, i) :
              \E j \in DOMAIN st : j # i /\ RemoveAt(st, i)[k] = st[j]
         /\ \A j \in DOMAIN st : j # i =>
              \E k \in DOMAIN RemoveAt(st, i) : RemoveAt(st, i)[k] = st[j]
  <1> DEFINE r == RemoveAt(st, i)
             f == [k \in 1 .. Len(st) - 1 |-> IF k < i THEN k ELSE k + 1]
  <1>1. /\ r \in Seq(T) /\ DOMAIN r = 1 .. Len(st) - 1
        /\ \A j \in 1 .. Len(st) - 1 : r[j] = IF j < i THEN st[j] ELSE st[j + 1]
    <2>1. /\ r \in Seq(T) /\ Len(r) = Len(st) - 1
          /\ \A j \in 1 .. Len(st) - 1 : r[j] = IF j < i THEN st[j] ELSE st[j + 1]
      BY RemoveAtSeq, Zenon
    <2> HIDE DEF r
    <2> QED BY <2>1
  <1> HIDE DEF r
  <1>2. /\ f \in [DOMAIN r -> DOMAIN st]
        /\ \A k \in DOMAIN r : f[k] # i /\ r[k] = st[f[k]]
        /\ \A j, k \in DOMAIN r : j < k => f[j] < f[k]
    BY <1>1
  <1>3. ASSUME NEW j \in DOMAIN st, j # i PROVE \E k \in DOMAIN r : r[k] = st[j]
    <2>1. CASE j < i
      <3>1. j \in DOMAIN r /\ r[j] = st[j]
        BY <1>1, <2>1
      <3> QED BY <3>1
    <2>2. CASE j > i
      <3>1. j - 1 \in DOMAIN r /\ r[j - 1] = st[j]
        BY <1>1, <2>2
      <3> QED BY <3>1
    <2> QED BY <1>3, <2>1, <2>2
  <1> HIDE DEF f
  <1>4. Within(r, st)
    BY <1>2 DEF Within
  <1>5. \A k \in DOMAIN r : \E j \in DOMAIN st : j # i /\ r[k] = st[j]
    BY <1>2
  <1> QED BY <1>3, <1>4, <1>5 DEF r

\* add(): the store is unchanged, or the packet is the last one and its key is new.
LEMMA AddSound ==
  ASSUME NEW st \in Seq(StorePackets), KeysUnique(st), NEW p \in StorePackets
  PROVE  LET a == StoreAdd(st, p)
         IN /\ a \in Seq(StorePackets) /\ KeysUnique(a)
            /\ \/ a = st
               \/ a = Append(st, p) /\ \A i \in DOMAIN st :
                    ~ (ResponseTo(st[i]) = ResponseTo(p) /\ st[i].pid = p.pid)
            /\ SameOrder(st, a)
            /\ \A i \in DOMAIN st : \E k \in DOMAIN a : a[k] = st[i]
            /\ \A k \in DOMAIN a : a[k] = p \/ \E i \in DOMAIN st : a[k] = st[i]
  <1> DEFINE a == StoreAdd(st, p)
  <1>1. CASE StoreFind(st, ResponseTo(p), p.pid) # {}
    <2>1. a = st
      BY <1>1 DEF StoreAdd
    <2>2. SameOrder(st, st)
      <3>1. \A i, j \in DOMAIN st : st[i] = st[j] => i = j
        BY Zenon DEF KeysUnique
      <3>2. \A i, j, k, l \in DOMAIN st : i < j /\ st[i] = st[k] /\ st[j] = st[l] => k < l
        BY <3>1, Zenon
      <3> QED BY <3>2 DEF SameOrder
    <2> QED BY <2>1, <2>2, Zenon
  <1>2. CASE StoreFind(st, ResponseTo(p), p.pid) = {}
    <2>1. a = Append(st, p)
      BY <1>2 DEF StoreAdd
    <2>2. \A i \in DOMAIN st : ~ (ResponseTo(st[i]) = ResponseTo(p) /\ st[i].pid = p.pid)
      BY <1>2 DEF StoreFind
    <2> HIDE DEF a
    <2>3. /\ a \in Seq(StorePackets)
          /\ \A k \in DOMAIN a : \/ k \in DOMAIN st /\ a[k] = st[k]
                                 \/ k = Len(st) + 1 /\ a[k] = p
          /\ \A i \in DOMAIN st : i \in DOMAIN a /\ a[i] = st[i]
      <3> HIDE DEF StorePackets
      <3> QED BY <2>1
    <2>4. KeysUnique(a)
      BY <2>2, <2>3, ZenonT(30) DEF KeysUnique
    <2>5. Within(st, a)
      BY <2>1, AppendWithin
    <2>6. SameOrder(st, a)
      BY <2>3, <2>4, <2>5, WithinSound
    <2> QED BY <2>1, <2>2, <2>3, <2>4, <2>6, Zenon DEF a
  <1> QED BY <1>1, <1>2

\* erase(): the packet with the key, and no other, is gone.
LEMMA EraseSound ==
  ASSUME NEW st \in Seq(StorePackets), KeysUnique(st), NEW response, NEW pid
  PROVE  LET e == StoreErase(st, response, pid)
         IN /\ e \in Seq(StorePackets) /\ KeysUnique(e) /\ SameOrder(st, e)
            /\ \A k \in DOMAIN e :
                 /\ ~ (ResponseTo(e[k]) = response /\ e[k].pid = pid)
                 /\ \E i \in DOMAIN st : e[k] = st[i]
            /\ \A i \in DOMAIN st :
                 \/ ResponseTo(st[i]) = response /\ st[i].pid = pid
                 \/ \E k \in DOMAIN e : e[k] = st[i]
  <1> DEFINE e == StoreErase(st, response, pid)
             found == StoreFind(st, response, pid)
  <1>1. found = {i \in DOMAIN st : ResponseTo(st[i]) = response /\ st[i].pid = pid}
    BY DEF StoreFind
  <1>2. CASE found = {}
    <2>1. e = st
      BY <1>2 DEF StoreErase
    <2>2. \A i, j \in DOMAIN st : st[i] = st[j] => i = j
      BY Zenon DEF KeysUnique
    <2>3. \A i, j, k, l \in DOMAIN st : i < j /\ st[i] = st[k] /\ st[j] = st[l] => k < l
      BY <2>2, Zenon
    <2>4. SameOrder(st, st)
      BY <2>3 DEF SameOrder
    <2> QED BY <1>1, <1>2, <2>1, <2>4, Zenon
  <1>3. CASE found # {}
    <2> DEFINE x == CHOOSE i \in found : TRUE
               r == RemoveAt(st, x)
    <2>1. e = r
      BY <1>3 DEF StoreErase
    <2>2. x \in found
      BY <1>3, Zenon
    <2> HIDE DEF x, found, e
    <2>3. x \in DOMAIN st /\ ResponseTo(st[x]) = response /\ st[x].pid = pid
      BY <1>1, <2>2, Zenon
    <2>4. r \in Seq(StorePackets)
      BY <2>3, RemoveAtSeq
    <2>5. /\ Within(r, st)
          /\ \A k \in DOMAIN r : \E j \in DOMAIN st : j # x /\ r[k] = st[j]
          /\ \A j \in DOMAIN st : j # x => \E k \in DOMAIN r : r[k] = st[j]
      BY <2>3, RemoveWithin
    <2> HIDE DEF r
    <2>6. KeysUnique(r) /\ SameOrder(st, r)
      BY <2>4, <2>5, WithinSound
    <2>7. \A k \in DOMAIN r : ~ (ResponseTo(r[k]) = response /\ r[k].pid = pid)
      BY <2>3, <2>5, Zenon DEF KeysUnique
    <2> QED BY <2>1, <2>3, <2>4, <2>5, <2>6, <2>7, Zenon DEF e
  <1> QED BY <1>2, <1>3

-----------------------------------------------------------------------------
\* A store whose packets wait for different answers and can be sent on a network
\* connection without topic aliases.
StoreSound(st) ==
  /\ st \in Seq(StorePackets) /\ KeysUnique(st)
  /\ \A i \in DOMAIN st : st[i].type = "publish" => st[i].topic # NoTopic /\ st[i].alias = NoAlias

\* The empty store is sound, and so is what is left of a sound one.
LEMMA PickedStore ==
  /\ StoreSound(<<>>)
  /\ \A st : StoreSound(st) => \A S \in SUBSET DOMAIN st : StoreSound(Pick(st, S))
  <1>1. StoreSound(<<>>)
    BY DEF StoreSound, KeysUnique
  <1>2. ASSUME NEW st, StoreSound(st), NEW S \in SUBSET DOMAIN st
        PROVE  StoreSound(Pick(st, S))
    <2> DEFINE e == Pick(st, S)
    <2>1. st \in Seq(StorePackets) /\ KeysUnique(st)
      BY <1>2 DEF StoreSound
    <2>2. /\ e \in Seq(StorePackets) /\ Within(e, st)
          /\ \A k \in DOMAIN e : \E i \in S : e[k] = st[i]
      BY <2>1, PickSound
    <2> HIDE DEF e
    <2>3. KeysUnique(e)
      BY <2>1, <2>2, WithinSound
    <2>4. StoreSound(e)
      BY <1>2, <2>2, <2>3, Zenon DEF StoreSound
    <2> QED BY <2>4 DEF e
  <1> QED BY <1>1, <1>2

\* add() keeps a store sound when the packet has its topic name and no alias,
LEMMA AddedStore ==
  ASSUME NEW st, StoreSound(st), NEW p \in StorePackets,
         p.type = "publish" => p.topic # NoTopic /\ p.alias = NoAlias
  PROVE  StoreSound(StoreAdd(st, p))
  <1> DEFINE a == StoreAdd(st, p)
  <1>1. /\ a \in Seq(StorePackets) /\ KeysUnique(a)
        /\ \A k \in DOMAIN a : a[k] = p \/ \E i \in DOMAIN st : a[k] = st[i]
    BY AddSound DEF StoreSound
  <1> HIDE DEF a
  <1>2. StoreSound(a)
    BY <1>1, Zenon DEF StoreSound
  <1> QED BY <1>2 DEF a

\* and erase() always does.
LEMMA ErasedStore ==
  ASSUME NEW st, StoreSound(st), NEW response, NEW pid
  PROVE  StoreSound(StoreErase(st, response, pid))
  <1> DEFINE e == StoreErase(st, response, pid)
  <1>1. /\ e \in Seq(StorePackets) /\ KeysUnique(e)
        /\ \A k \in DOMAIN e : \E i \in DOMAIN st : e[k] = st[i]
    BY EraseSound DEF StoreSound
  <1> HIDE DEF e
  <1>2. StoreSound(e)
    BY <1>1, Zenon DEF StoreSound
  <1> QED BY <1>2 DEF e
-----------------------------------------------------------------------------
(***************************************************************************)
(* Steps that touch neither the packet identifiers, the store, the limits  *)
(* nor the sending table of topic aliases                                  *)
(***************************************************************************)
\* What TimersFollowStatus says of a connection.
TimersSound(s) ==
  /\ s.timer["pingreq_recv"] # 0 => s.status # "disconnected"
  /\ s.timer["pingresp_recv"] # 0 => s.status = "connected"

Quiet(s, t) ==
  /\ t \in ConnectionType
  /\ t.role = s.role /\ t.protocol_version = s.protocol_version
  /\ t.status = s.status \/ t.status = "disconnected"
  /\ t.need_store = s.need_store /\ t.store = s.store /\ t.pid_man = s.pid_man
  /\ t.pid_suback = s.pid_suback /\ t.pid_unsuback = s.pid_unsuback
  /\ t.pid_puback = s.pid_puback /\ t.pid_pubrec = s.pid_pubrec
  /\ t.pid_pubcomp = s.pid_pubcomp
  /\ t.maximum_packet_size_send = s.maximum_packet_size_send
  /\ t.topic_alias_send = s.topic_alias_send
  /\ t.publish_send_max = s.publish_send_max /\ t.publish_send_count = s.publish_send_count
  /\ TimersSound(s) => TimersSound(t)

\* A step that changes nothing is quiet.
LEMMA QuietRefl == \A s \in ConnectionType : Quiet(s, s)
  BY DEF Quiet

\* Quiet steps compose.
LEMMA QuietTrans == \A s, t, u : Quiet(s, t) /\ Quiet(t, u) => Quiet(s, u)
  BY DEF Quiet

\* What is reached quietly is a connection.
LEMMA QuietType == \A s, t : Quiet(s, t) => t \in ConnectionType
  BY Zenon DEF Quiet

\* The elements of a sequence.
LEMMA ElementsOf ==
  /\ \A S : \A s \in Seq(S) : \A i \in DOMAIN s : s[i] \in S
  /\ \A S, T : S \subseteq T => Seq(S) \subseteq Seq(T)
  OBVIOUS

\* on_send() is quiet.
LEMMA QuietOnSend ==
  ASSUME NEW s \in ConnectionType, NEW p \in Packet
  PROVE  Quiet(s, OnSend(s, p))
  <1>1. Append(s.sent, p) \in Seq(Packet)
    BY DEF ConnectionType
  <1> HIDE DEF Packet
  <1> QED BY <1>1, ZenonT(40) DEF ConnectionType, Quiet, OnSend, TimersSound

\* on_receive() is quiet.
LEMMA QuietOnReceive ==
  ASSUME NEW s \in ConnectionType, NEW p \in Packet
  PROVE  Quiet(s, OnReceive(s, p))
  <1>1. Append(s.received, p) \in Seq(Packet)
    BY DEF ConnectionType
  <1> QED BY <1>1, ZenonT(40) DEF ConnectionType, Quiet, OnReceive, TimersSound

\* on_close() is quiet.
LEMMA QuietOnClose ==
  ASSUME NEW s \in ConnectionType
  PROVE  Quiet(s, OnClose(s))
  BY ZenonT(40) DEF ConnectionType, Quiet, OnClose, TimersSound

\* cancel_timers() is quiet.
LEMMA QuietCancelTimers ==
  ASSUME NEW s \in ConnectionType
  PROVE  Quiet(s, CancelTimers(s))
  <1> DEFINE f == [k \in Timers |-> 0]
  <1>1. /\ f \in [Timers -> Nat] /\ f["pingreq_recv"] = 0 /\ f["pingresp_recv"] = 0
        /\ CancelTimers(s) = [s EXCEPT !.timer = f]
    BY DEF CancelTimers, Timers
  <1> HIDE DEF f
  <1> QED BY <1>1, ZenonT(200) DEF ConnectionType, Quiet, TimersSound

\* Leaving the connected status, with all timers cancelled, is quiet.
LEMMA QuietEnded ==
  ASSUME NEW s \in ConnectionType
  PROVE  /\ Quiet(s, CancelTimers([s EXCEPT !.status = "disconnected"]))
         /\ CancelTimers([s EXCEPT !.status = "disconnected"]).status = "disconnected"
  <1> DEFINE f == [k \in Timers |-> 0]
             t == [s EXCEPT !.status = "disconnected"]
  <1>1. /\ f \in [Timers -> Nat] /\ f["pingreq_recv"] = 0 /\ f["pingresp_recv"] = 0
        /\ CancelTimers(t) = [t EXCEPT !.timer = f]
    BY DEF CancelTimers, Timers
  <1> HIDE DEF f
  <1> QED BY <1>1, ZenonT(200) DEF ConnectionType, Statuses, Quiet, TimersSound

\* on_timer_op() is quiet when the status allows the timer.
LEMMA QuietResetTimer ==
  ASSUME NEW s \in ConnectionType, NEW kind \in Timers, NEW duration \in Nat,
         \/ duration = 0 \/ kind = "pingreq_send" \/ s.status = "connected"
         \/ kind = "pingreq_recv" /\ s.status # "disconnected"
  PROVE  Quiet(s, ResetTimer(s, kind, duration))
  <1> DEFINE f == [s.timer EXCEPT ![kind] = duration]
             t == [s EXCEPT !.timer = f]
  <1>1. f \in [Timers -> Nat]
    BY DEF ConnectionType
  <1>2. ResetTimer(s, kind, duration) = t
    BY DEF ResetTimer
  <1>3. Quiet(s, t)
    <2>1. /\ f["pingreq_recv"] # 0 => s.timer["pingreq_recv"] # 0 \/ s.status # "disconnected"
          /\ f["pingresp_recv"] # 0 => s.timer["pingresp_recv"] # 0 \/ s.status = "connected"
      BY DEF ConnectionType, Timers
    <2> HIDE DEF f
    <2> QED BY <1>1, <2>1, ZenonT(40) DEF ConnectionType, Quiet, TimersSound
  <1> QED BY <1>2, <1>3

\* pingreq_recv_op is quiet.
LEMMA QuietPingreqRecvOp ==
  ASSUME NEW s \in ConnectionType
  PROVE  Quiet(s, PingreqRecvOp(s))
  <1>1. /\ "pingreq_recv" \in Timers /\ s.pingreq_recv_timeout \in Nat
    BY DEF ConnectionType, Timers
  <1>2. /\ Quiet(s, ResetTimer(s, "pingreq_recv", 0))
        /\ s.status # "disconnected" =>
             Quiet(s, ResetTimer(s, "pingreq_recv", s.pingreq_recv_timeout))
    BY <1>1, QuietResetTimer
  <1> QED BY <1>2, QuietRefl DEF PingreqRecvOp, CancelTimer

\* The end of most receive handlers is quiet.
LEMMA QuietReceived ==
  ASSUME NEW s \in ConnectionType, NEW p \in Packet
  PROVE  Quiet(s, Received(s, p))
  <1>1. PingreqRecvOp(s) \in ConnectionType
    BY QuietPingreqRecvOp DEF Quiet
  <1> QED BY <1>1, QuietPingreqRecvOp, QuietOnReceive, QuietTrans DEF Received

\* publish_send_count_ stays in its width.
LEMMA CountWidth == \A n \in Int : n % (ReceiveMaximumMax + 1) \in 0 .. ReceiveMaximumMax
  BY Bounds

\* Counting PUBLISH packets up and down changes publish_send_count_ only.
LEMMA Counts ==
  ASSUME NEW s \in ConnectionType, NEW p
  PROVE  /\ \E n \in 0 .. ReceiveMaximumMax : CountDown(s) = [s EXCEPT !.publish_send_count = n]
         /\ \E n \in 0 .. ReceiveMaximumMax : CountUp(s, p) = [s EXCEPT !.publish_send_count = n]
  <1>1. s.publish_send_count \in 0 .. ReceiveMaximumMax
    BY DEF ConnectionType
  <1>2. /\ (s.publish_send_count - 1) % (ReceiveMaximumMax + 1) \in 0 .. ReceiveMaximumMax
        /\ (s.publish_send_count + 1) % (ReceiveMaximumMax + 1) \in 0 .. ReceiveMaximumMax
    BY <1>1, CountWidth
  <1>3. s = [s EXCEPT !.publish_send_count = s.publish_send_count]
    BY DEF ConnectionType
  <1> QED BY <1>1, <1>2, <1>3, Zenon DEF CountDown, CountUp

\* The end of send() is quiet.
LEMMA QuietPostProcess ==
  ASSUME NEW s \in ConnectionType
  PROVE  Quiet(s, PostProcess(s))
  <1>1. "pingreq_send" \in Timers /\ s.pingreq_send_interval \in Nat
    BY DEF ConnectionType, Timers
  <1>2. Quiet(s, ResetTimer(s, "pingreq_send", s.pingreq_send_interval))
    BY <1>1, QuietResetTimer
  <1> QED BY <1>2, QuietRefl DEF PostProcess

\* Sending DISCONNECT is quiet.
LEMMA QuietProcessDisconnect ==
  ASSUME NEW s \in ConnectionType, NEW p \in Packet
  PROVE  Quiet(s, ProcessDisconnect(s, p))
  <1> DEFINE b == CancelTimers([s EXCEPT !.status = "disconnected"])
             c == OnSend(b, p)
  <1>2. Quiet(s, b) /\ b \in ConnectionType
    BY QuietEnded DEF Quiet
  <1> HIDE DEF b
  <1>3. Quiet(b, c) /\ c \in ConnectionType
    BY <1>2, QuietOnSend DEF Quiet
  <1> HIDE DEF c
  <1>4. Quiet(c, OnClose(c))
    BY <1>3, QuietOnClose
  <1>5. Quiet(s, OnClose(c))
    BY <1>2, <1>3, <1>4, QuietTrans
  <1> QED BY <1>5 DEF ProcessDisconnect, b, c

\* Freeing a slot of the Receive Maximum for the peer is quiet.
LEMMA QuietProcessAnswer ==
  ASSUME NEW s \in ConnectionType, NEW p
  PROVE  Quiet(s, ProcessAnswer(s, p))
  BY ZenonT(40) DEF ConnectionType, Quiet, ProcessAnswer, TimersSound

\* The packets whose sending is a quiet step.
QuietTypes == {"puback", "pubrec", "pubcomp", "pingreq", "pingresp", "disconnect", "auth"}

\* send() of these packets is quiet.
LEMMA QuietSend ==
  ASSUME NEW s \in ConnectionType, NEW p \in Packet, p.type \in QuietTypes
  PROVE  Quiet(s, SendPacket(s, p))
  <1>1. TooLarge(s, p) = s
    BY DEF TooLarge, OwnPacketId, QuietTypes
  <1>2. Sendable(s, p) => Quiet(s, Process(s, p))
    <2> SUFFICES ASSUME Sendable(s, p) PROVE Quiet(s, Process(s, p))
      OBVIOUS
    <2>1. CASE p.type = "disconnect"
      BY <2>1, QuietProcessDisconnect DEF Process
    <2>2. CASE p.type \in {"puback", "pubrec", "pubcomp"} /\ s.protocol_version = "v5"
      <3>1. Process(s, p) = OnSend(ProcessAnswer(s, p), p)
        BY <2>2 DEF Process
      <3>2. Quiet(s, ProcessAnswer(s, p)) /\ ProcessAnswer(s, p) \in ConnectionType
        BY QuietProcessAnswer DEF Quiet
      <3> QED BY <3>1, <3>2, QuietOnSend, QuietTrans
    <2>3. CASE p.type = "pingreq" /\ s.pingresp_recv_timeout # 0
      <3>1. Process(s, p) = ResetTimer(OnSend(s, p), "pingresp_recv", s.pingresp_recv_timeout)
        BY <2>3 DEF Process
      <3>2. Quiet(s, OnSend(s, p)) /\ OnSend(s, p) \in ConnectionType
        BY QuietOnSend DEF Quiet
      <3>3. /\ "pingresp_recv" \in Timers /\ s.pingresp_recv_timeout \in Nat
            /\ s.status = "connected" /\ OnSend(s, p).status = s.status
        BY <2>3 DEF ConnectionType, Timers, Sendable, OnSend
      <3> QED BY <3>1, <3>2, <3>3, QuietResetTimer, QuietTrans
    <2>4. CASE ~ (\/ p.type = "disconnect"
                  \/ p.type \in {"puback", "pubrec", "pubcomp"} /\ s.protocol_version = "v5"
                  \/ p.type = "pingreq" /\ s.pingresp_recv_timeout # 0)
      <3>1. Process(s, p) = OnSend(s, p)
        BY <2>4 DEF Process, QuietTypes
      <3> QED BY <3>1, QuietOnSend
    <2> QED BY <2>1, <2>2, <2>3, <2>4
  <1>4. Sendable(s, p) => Quiet(s, PostProcess(Process(s, p)))
    <2>1. SUFFICES ASSUME Sendable(s, p) PROVE Quiet(s, PostProcess(Process(s, p)))
      OBVIOUS
    <2>2. Quiet(s, Process(s, p)) /\ Process(s, p) \in ConnectionType
      BY <1>2, <2>1 DEF Quiet
    <2> QED BY <2>2, QuietPostProcess, QuietTrans
  <1> QED BY <1>1, <1>4, QuietRefl DEF SendPacket

\* The packets the connection sends by itself are packets.
LEMMA OwnPackets ==
  /\ \A type \in {"pingreq", "pingresp", "disconnect", "auth"} :
       Plain(type) \in Packet /\ Plain(type).type = type
  /\ \A type \in {"puback", "pubrec"}, pid \in PacketIds, ok \in BOOLEAN :
       Answer(type, pid, ok) \in Packet /\ Answer(type, pid, ok).type = type
  /\ \A type \in {"pubrel", "pubcomp", "subscribe", "suback", "unsubscribe", "unsuback"},
        pid \in PacketIds :
       /\ WithId(type, pid) \in Packet /\ WithId(type, pid).type = type
       /\ WithId(type, pid).pid = pid
  BY DEF Plain, Answer, WithId, Packet, PlainPackets, AnswerPackets, IdPackets

\* So is the DISCONNECT the connection sends by itself,
LEMMA QuietSendDisconnect ==
  ASSUME NEW s \in ConnectionType
  PROVE  Quiet(s, SendDisconnect(s))
  BY OwnPackets, QuietSend DEF SendDisconnect, QuietTypes

\* and the reaction to an answer nothing waits for.
LEMMA QuietProtocolError ==
  ASSUME NEW s \in ConnectionType
  PROVE  Quiet(s, ProtocolError(s))
  BY QuietSendDisconnect, QuietOnClose DEF ProtocolError

-----------------------------------------------------------------------------
(***************************************************************************)
(* Sound connections                                                       *)
(***************************************************************************)
\* A connection whose members have their types and agree with each other: the
\* invariant of every use of a connection.
Sound(s) ==
  /\ s \in ConnectionType
  /\ TableSound(s.topic_alias_send) /\ StoreSound(s.store) /\ TimersSound(s)

\* Quiet steps keep a connection sound.
LEMMA QuietSound == \A s, t : Sound(s) /\ Quiet(s, t) => Sound(t)
  BY DEF Sound, Quiet

\* A table of topic aliases as its constructor leaves it is sound.
LEMMA EmptyTables ==
  \A n \in 0 .. MaxAlias : /\ AliasSend(n) \in AliasSendType /\ AliasRecv(n) \in AliasRecvType
                           /\ TableSound(AliasSend(n))
  BY DEF AliasSend, AliasRecv, AliasSendType, AliasRecvType, TableSound, Distinct

\* So is the absent table; the absent maximum is in its range.
LEMMA NoTables ==
  /\ AliasSend(0) \in AliasSendType /\ AliasRecv(0) \in AliasRecvType
  /\ TableSound(AliasSend(0))
  /\ NoMaximum \in 0 .. ReceiveMaximumMax /\ 0 \in 0 .. ReceiveMaximumMax
  <1>1. 0 \in 0 .. MaxAlias
    BY Bounds
  <1>2. NoMaximum \in 0 .. ReceiveMaximumMax /\ 0 \in 0 .. ReceiveMaximumMax
    BY Bounds DEF NoMaximum
  <1> QED BY <1>1, <1>2, EmptyTables

\* packet_size_no_limit is a number.
LEMMA NoLimitIsNat == NoLimit \in Nat
  BY SMTT(40) DEF NoLimit

\* A new connection is sound.
LEMMA NewSound ==
  ASSUME NEW role \in Roles, NEW ver \in Versions \cup {"undetermined"}
  PROVE  Sound(NewConnection(role, ver))
  <1> DEFINE n == NewConnection(role, ver)
  <1>1. /\ "disconnected" \in Statuses /\ TRUE \in BOOLEAN /\ FALSE \in BOOLEAN
        /\ <<>> \in Seq(StorePackets) /\ <<>> \in Seq(Packet)
        /\ {} \in SUBSET PacketIds /\ {} \in SUBSET Options /\ 0 \in Nat
    BY DEF Statuses
  <1>2. [k \in Timers |-> 0] \in [Timers -> Nat]
    OBVIOUS
  <1>3. n \in ConnectionType
    BY <1>1, <1>2, NoTables, NoLimitIsNat, ZenonT(40) DEF ConnectionType, NewConnection
  <1>4. n.topic_alias_send = AliasSend(0) /\ n.store = <<>> /\ TimersSound(n)
    BY DEF NewConnection, TimersSound, Timers
  <1> QED BY <1>3, <1>4, NoTables, PickedStore DEF Sound

\* initialize() keeps a connection sound,
LEMMA InitializeSound ==
  ASSUME NEW s, Sound(s), NEW b \in BOOLEAN
  PROVE  Sound(Initialize(s, b))
  BY NoTables, ZenonT(40) DEF Sound, ConnectionType, Initialize, TimersSound

\* so does clearing the session,
LEMMA ForgetSound ==
  ASSUME NEW s, Sound(s)
  PROVE  Sound(ForgetAwaited(s)) /\ Sound(ForgetSession(s))
  <1>1. ASSUME NEW t, Sound(t) PROVE Sound(ForgetAwaited(t))
    BY <1>1, ZenonT(40) DEF Sound, ConnectionType, ForgetAwaited, TimersSound
  <1>2. ASSUME NEW st \in Seq(StorePackets), StoreSound(st)
        PROVE  Sound([s EXCEPT !.pid_man = {}, !.store = st])
    BY <1>2, ZenonT(40) DEF Sound, ConnectionType, TimersSound
  <1>3. <<>> \in Seq(StorePackets) /\ StoreSound(<<>>)
    BY PickedStore
  <1> QED BY <1>1, <1>2, <1>3, ZenonT(40) DEF ForgetSession

\* releasing identifiers,
LEMMA ReleaseSound ==
  ASSUME NEW s, Sound(s), NEW S
  PROVE  Sound(ReleaseIds(s, S))
  BY ZenonT(120) DEF Sound, ConnectionType, ReleaseIds, TimersSound

\* counting,
LEMMA CountsSound ==
  ASSUME NEW s, Sound(s), NEW p
  PROVE  Sound(CountDown(s)) /\ Sound(CountUp(s, p))
  <1>1. \A n \in 0 .. ReceiveMaximumMax : Sound([s EXCEPT !.publish_send_count = n])
    BY ZenonT(40) DEF Sound, ConnectionType, TimersSound
  <1>2. s \in ConnectionType
    BY DEF Sound
  <1> QED BY <1>1, <1>2, Counts

\* and taking over the limits of a CONNECT or CONNACK packet.
LEMMA LimitsSound ==
  ASSUME NEW s, Sound(s), NEW p, p.tam \in 0 .. MaxAlias,
         p.rmax \in 0 .. ReceiveMaximumMax, p.mps \in Nat
  PROVE  Sound(LimitsForSend(s, p)) /\ Sound(LimitsForRecv(s, p))
  <1>1. /\ AliasSend(p.tam) \in AliasSendType /\ AliasRecv(p.tam) \in AliasRecvType
        /\ TableSound(AliasSend(p.tam))
    BY EmptyTables
  <1>2. Sound(LimitsForSend(s, p))
    BY <1>1, ZenonT(200) DEF Sound, ConnectionType, LimitsForSend, TimersSound
  <1>3. Sound(LimitsForRecv(s, p))
    BY <1>1, ZenonT(200) DEF Sound, ConnectionType, LimitsForRecv, TimersSound
  <1> QED BY <1>2, <1>3

\* No packet is larger than packet_size_no_limit.
LEMMA SizeWithinNoLimit == \A p : Size(p) <= NoLimit /\ Size(p) \in Nat
  BY SMT DEF Size, NoLimit, ControlSize, TopicSize, AliasSize

\* What the store holds can be sent.
LEMMA StoredArePackets == StorePackets \subseteq Packet
  BY DEF StorePackets, Packet, PubrelPackets, IdPackets

\* send_stored() keeps a connection sound, whatever it finds too large,
LEMMA SendStoredSound ==
  ASSUME NEW s, Sound(s)
  PROVE  Sound(SendStored(s))
  <1> DEFINE S == DOMAIN s.store \ Oversize(s)
             kept == Pick(s.store, S)
             ids == {s.store[i].pid : i \in Oversize(s)}
             r == ReleaseIds(s, ids)
             out == IF "publish" \in Observed THEN r.sent \o kept ELSE r.sent
  <1>1. s.store \in Seq(StorePackets) /\ S \in SUBSET DOMAIN s.store
    BY DEF Sound, ConnectionType
  <1> HIDE DEF S
  <1>2. kept \in Seq(StorePackets) /\ StoreSound(kept)
    BY <1>1, PickedStore DEF Sound, StoreSound
  <1> HIDE DEF ids, kept
  <1>3. Sound(r)
    BY ReleaseSound
  <1>4. out \in Seq(Packet)
    <2>1. r.sent \in Seq(Packet)
      BY <1>3, Zenon DEF Sound, ConnectionType
    <2>2. kept \in Seq(Packet)
      BY <1>2, StoredArePackets, ElementsOf, Zenon
    <2> HIDE DEF r
    <2> QED BY <2>1, <2>2
  <1>5. SendStored(s) = [r EXCEPT !.store = kept, !.sent = out]
    BY DEF SendStored, kept, S, ids
  <1> HIDE DEF r, out
  <1> QED BY <1>2, <1>3, <1>4, <1>5, ZenonT(120) DEF Sound, ConnectionType, TimersSound

\* and without a Maximum Packet Size it sends every packet and keeps it.
LEMMA QuietSendStored ==
  ASSUME NEW s, Sound(s), s.maximum_packet_size_send = NoLimit
  PROVE  Quiet(s, SendStored(s))
  <1>1. Oversize(s) = {}
    <2>1. \A i \in DOMAIN s.store : ~ (Size(s.store[i]) > NoLimit)
      BY SizeWithinNoLimit, NoLimitIsNat
    <2> QED BY <2>1 DEF Oversize
  <1>2. Pick(s.store, DOMAIN s.store \ Oversize(s)) = s.store
    BY <1>1 DEF Pick
  <1>3. s.sent \in Seq(Packet) /\ s.store \in Seq(Packet)
    BY StoredArePackets DEF Sound, ConnectionType
  <1>4. s.sent \o s.store \in Seq(Packet)
    BY <1>3
  <1>5. SendStored(s) = [ReleaseIds(s, {}) EXCEPT
          !.store = s.store, !.sent = IF "publish" \in Observed THEN @ \o s.store ELSE @]
    BY <1>1, <1>2, Zenon DEF SendStored
  <1>6. ReleaseIds(s, {}) = [s EXCEPT !.pid_man = s.pid_man]
    BY DEF ReleaseIds
  <1>7. ReleaseIds(s, {}) = s
    BY <1>6 DEF Sound, ConnectionType
  <1>8. SendStored(s) = [s EXCEPT
          !.store = s.store, !.sent = IF "publish" \in Observed THEN @ \o s.store ELSE @]
    BY <1>5, <1>7, Zenon
  <1>9. Quiet(s, [s EXCEPT !.store = s.store,
                           !.sent = IF "publish" \in Observed THEN @ \o s.store ELSE @])
    BY <1>4, ZenonT(40) DEF ConnectionType, Quiet, Sound, TimersSound
  <1> QED BY <1>8, <1>9

\* The type of a packet determines its fields.
LEMMA Kinds ==
  ASSUME NEW p \in Packet
  PROVE  /\ p.type = "connect" => p \in ConnectPackets
         /\ p.type = "connack" => p \in ConnackPackets
         /\ p.type = "publish" => p \in PublishPackets
         /\ p.type \in {"puback", "pubrec"} => p \in AnswerPackets
         /\ p.type \in {"pubrel", "pubcomp", "subscribe", "suback", "unsubscribe", "unsuback"}
              => p \in IdPackets
         /\ p.type \in {"connect", "connack", "publish", "puback", "pubrec", "pubrel",
                        "pubcomp", "subscribe", "suback", "unsubscribe", "unsuback",
                        "pingreq", "pingresp", "disconnect", "auth"}
  BY DEF Packet, PlainPackets, IdPackets, AnswerPackets, PublishPackets, ConnectPackets,
         ConnackPackets

\* Sending CONNECT keeps a connection sound,
LEMMA ConnectSound ==
  ASSUME NEW s, Sound(s), s.status = "disconnected", NEW p \in ConnectPackets
  PROVE  Sound(ProcessConnect(s, p))
  <1> DEFINE i == Initialize(s, TRUE)
             interval == IF i.pingreq_send_interval = 0 THEN p.keep_alive
                         ELSE i.pingreq_send_interval
             keep == IF s.protocol_version = "v5" THEN p.expiry ELSE ~ p.clean
             t == [i EXCEPT !.status = "connecting", !.pingreq_send_interval = interval,
                            !.need_store = keep]
             u == IF p.clean THEN ForgetSession(t) ELSE t
  <1>1. p.keep_alive \in Nat /\ p.expiry \in BOOLEAN /\ p.clean \in BOOLEAN
        /\ p.tam \in 0 .. MaxAlias /\ p.rmax \in 0 .. ReceiveMaximumMax /\ p.mps \in Nat
    BY DEF ConnectPackets
  <1>2. Sound(i) /\ i.status = "disconnected"
    BY InitializeSound, ZenonT(40) DEF Sound, ConnectionType, Initialize
  <1> HIDE DEF i
  <1>3. Sound(t)
    <2>1. interval \in Nat
      BY <1>1, <1>2 DEF Sound, ConnectionType
    <2>2. keep \in BOOLEAN
      BY <1>1, Zenon
    <2> HIDE DEF interval, keep
    <2> QED BY <1>2, <2>1, <2>2, ZenonT(40) DEF Sound, ConnectionType, Statuses, TimersSound
  <1> HIDE DEF t
  <1>4. Sound(u)
    BY <1>3, ForgetSound
  <1> HIDE DEF u
  <1>5. Sound(LimitsForRecv(u, p))
    BY <1>1, <1>4, LimitsSound
  <1> QED BY <1>5 DEF ProcessConnect, i, t, u

\* so does sending CONNACK,
LEMMA ConnackSound ==
  ASSUME NEW s, Sound(s), NEW p \in ConnackPackets
  PROVE  Sound(ProcessConnack(s, p))
  <1>1. p.tam \in 0 .. MaxAlias /\ p.rmax \in 0 .. ReceiveMaximumMax /\ p.mps \in Nat
    BY DEF ConnackPackets
  <1>2. Sound([s EXCEPT !.status = "connected"])
    BY ZenonT(40) DEF Sound, ConnectionType, Statuses, TimersSound
  <1>3. Sound(LimitsForRecv([s EXCEPT !.status = "connected"], p))
    BY <1>1, <1>2, LimitsSound
  <1>5. Sound(CancelTimers([s EXCEPT !.status = "disconnected"]))
    BY QuietEnded, QuietSound DEF Sound
  <1> QED BY <1>3, <1>5 DEF ProcessConnack

\* and sending PUBREL.
LEMMA PubrelSound ==
  ASSUME NEW s, Sound(s), NEW p \in IdPackets, p.type = "pubrel"
  PROVE  Sound(ProcessPubrel(s, p))
  <1>1. p \in StorePackets /\ p.pid \in PacketIds
    BY DEF IdPackets, StorePackets, PubrelPackets
  <1>2. StoreAdd(s.store, p) \in Seq(StorePackets) /\ StoreSound(StoreAdd(s.store, p))
    BY <1>1, AddedStore DEF Sound, StoreSound
  <1> QED BY <1>1, <1>2, ZenonT(40) DEF Sound, ConnectionType, ProcessPubrel, TimersSound

\* send() of a packet that is no PUBLISH.
LEMMA SendSound ==
  ASSUME NEW s, Sound(s), NEW p \in Packet
  PROVE  Sound(SendPacket(s, p))
  <1>1. ASSUME NEW t, Sound(t) PROVE Sound(OnSend(t, p))
    BY <1>1, QuietOnSend, QuietSound, SMTT(20) DEF Sound
  <1>2. ASSUME NEW t, Sound(t) PROVE Sound(PostProcess(t))
    BY <1>2, QuietPostProcess, QuietSound, SMTT(20) DEF Sound
  <1>3. Sound(TooLarge(s, p))
    BY ReleaseSound DEF TooLarge
  <1>4. Sendable(s, p) => Sound(Process(s, p))
    <2> SUFFICES ASSUME Sendable(s, p) PROVE Sound(Process(s, p))
      OBVIOUS
    <2>1. CASE p.type = "connect"
      <3>1. s.status = "disconnected"
        BY <2>1 DEF Sendable
      <3> QED BY <1>1, <2>1, <3>1, ConnectSound, Kinds DEF Process
    <2>2. CASE p.type = "connack"
      <3>1. Sound(ProcessConnack(s, p))
        BY <2>2, ConnackSound, Kinds
      <3>2. Sound(OnSend(ProcessConnack(s, p), p))
        BY <1>1, <3>1
      <3> QED BY <2>2, <3>2, SendStoredSound DEF Process
    <2>3. CASE p.type = "pubrel"
      BY <1>1, <2>3, PubrelSound, Kinds DEF Process
    <2>4. CASE p.type = "subscribe"
      <3>1. p.pid \in PacketIds
        BY <2>4, Kinds DEF IdPackets
      <3>2. Sound([s EXCEPT !.pid_suback = @ \cup {p.pid}])
        BY <3>1, ZenonT(40) DEF Sound, ConnectionType, TimersSound
      <3> QED BY <1>1, <2>4, <3>2 DEF Process
    <2>5. CASE p.type = "unsubscribe"
      <3>1. p.pid \in PacketIds
        BY <2>5, Kinds DEF IdPackets
      <3>2. Sound([s EXCEPT !.pid_unsuback = @ \cup {p.pid}])
        BY <3>1, ZenonT(40) DEF Sound, ConnectionType, TimersSound
      <3> QED BY <1>1, <2>5, <3>2 DEF Process
    <2>6. CASE p.type \in {"suback", "unsuback", "publish"}
      <3>1. Process(s, p) = OnSend(s, p)
        BY <2>6 DEF Process
      <3> QED BY <1>1, <3>1
    <2>7. CASE p.type \in {"puback", "pubrec", "pubcomp"}
      <3>1. s \in ConnectionType
        BY DEF Sound
      <3>2. ProcessAnswer(s, p) \in ConnectionType /\ Sound(ProcessAnswer(s, p))
        BY <3>1, QuietProcessAnswer, QuietSound DEF Quiet
      <3>3. Process(s, p) = OnSend(ProcessAnswer(s, p), p) \/ Process(s, p) = OnSend(s, p)
        BY <2>7 DEF Process
      <3> QED BY <1>1, <3>2, <3>3
    <2>8. CASE p.type = "disconnect"
      BY <2>8, QuietProcessDisconnect, QuietSound DEF Process, Sound
    <2>9. CASE p.type \in {"pingreq", "pingresp", "auth"}
      <3>1. \/ Process(s, p) = OnSend(s, p)
            \/ /\ s.status = "connected"
               /\ Process(s, p) = ResetTimer(OnSend(s, p), "pingresp_recv", s.pingresp_recv_timeout)
        BY <2>9 DEF Process, Sendable
      <3>2. /\ "pingresp_recv" \in Timers /\ s.pingresp_recv_timeout \in Nat
            /\ OnSend(s, p).status = s.status
        BY DEF ConnectionType, Timers, Sound, OnSend
      <3>3. Sound(OnSend(s, p)) /\ OnSend(s, p) \in ConnectionType
        BY <1>1 DEF Sound
      <3>4. s.status = "connected" => Sound(ResetTimer(OnSend(s, p), "pingresp_recv", s.pingresp_recv_timeout))
        BY <3>2, <3>3, QuietResetTimer, QuietSound
      <3> QED BY <3>1, <3>3, <3>4, SMTT(20)
    <2> QED BY <2>1, <2>2, <2>3, <2>4, <2>5, <2>6, <2>7, <2>8, <2>9, Kinds
  <1> QED BY <1>2, <1>3, <1>4 DEF SendPacket

-----------------------------------------------------------------------------
(***************************************************************************)
(* send() of a PUBLISH packet                                              *)
(***************************************************************************)
\* The two forms of a PUBLISH packet, stored and sent, are PUBLISH packets, and
\* an alias the connection chose is in the range of the table.
LEMMA FormSound ==
  ASSUME NEW s, Sound(s), NEW p \in PublishPackets
  PROVE  /\ AliasForm(s, p) \in PublishPackets
         /\ StoreForm(s, p) \in PublishPackets
         /\ StoreForm(s, p).qos = p.qos /\ StoreForm(s, p).pid = p.pid
         /\ StoreForm(s, p).alias = NoAlias
         /\ p.topic # NoTopic \/ AliasKnown(s, p.alias) => StoreForm(s, p).topic # NoTopic
         /\ AliasForm(s, p).alias \in 1 .. s.topic_alias_send.max \/ AliasForm(s, p) = p
  <1> DEFINE t == s.topic_alias_send
             topic == FindTopic(t, p.alias)
             found == FindAlias(t, p.topic)
             lru == GetLruAlias(t)
  <1>1. t \in AliasSendType /\ TableSound(t)
    BY DEF Sound, ConnectionType
  <1>2. topic \in Topics \cup {NoTopic} /\ found \in 0 .. t.max /\ t.max \in 0 .. MaxAlias
    BY <1>1, EntryFound
  <1>3. t.max # 0 => lru \in 1 .. t.max
    BY <1>1, LruInRange
  <1> HIDE DEF t, topic, found, lru
  <1>4. \A tt \in Topics \cup {NoTopic}, a \in 0 .. MaxAlias :
          /\ [p EXCEPT !.topic = tt, !.alias = a] \in PublishPackets
          /\ [p EXCEPT !.topic = tt, !.alias = a].alias = a
    BY Zenon DEF PublishPackets
  <1>5. /\ [p EXCEPT !.alias = lru] = [p EXCEPT !.topic = p.topic, !.alias = lru]
        /\ p.topic \in Topics \cup {NoTopic} /\ NoTopic \in Topics \cup {NoTopic}
    BY Zenon DEF PublishPackets
  <1>6. \/ AliasForm(s, p) = p
        \/ AliasForm(s, p) = [p EXCEPT !.topic = NoTopic, !.alias = found] /\ found # NoAlias
        \/ AliasForm(s, p) = [p EXCEPT !.alias = lru] /\ t.max # 0
    BY DEF AliasForm, t, found, lru
  <1>7. /\ found # NoAlias => found \in 1 .. t.max /\ found \in 0 .. MaxAlias
        /\ t.max # 0 => lru \in 0 .. MaxAlias
    BY <1>2, <1>3, Bounds DEF NoAlias
  <1>8. AliasForm(s, p) \in PublishPackets
        /\ (AliasForm(s, p).alias \in 1 .. t.max \/ AliasForm(s, p) = p)
    <2>1. CASE AliasForm(s, p) = p
      BY <2>1, SMTT(20)
    <2>2. CASE AliasForm(s, p) = [p EXCEPT !.topic = NoTopic, !.alias = found] /\ found # NoAlias
      BY <1>4, <1>5, <1>7, <2>2, ZenonT(40)
    <2>3. CASE AliasForm(s, p) = [p EXCEPT !.alias = lru] /\ t.max # 0
      <3>1. /\ [p EXCEPT !.topic = p.topic, !.alias = lru] \in PublishPackets
            /\ [p EXCEPT !.topic = p.topic, !.alias = lru].alias = lru
        BY <1>4, <1>5, <1>7, <2>3, ZenonT(40)
      <3> QED BY <1>3, <1>5, <2>3, <3>1
    <2> QED BY <1>6, <2>1, <2>2, <2>3
  <1>9. StoreForm(s, p) \in PublishPackets /\ StoreForm(s, p).qos = p.qos
        /\ StoreForm(s, p).pid = p.pid /\ StoreForm(s, p).alias = NoAlias
        /\ (p.topic # NoTopic \/ AliasKnown(s, p.alias) => StoreForm(s, p).topic # NoTopic)
    <2> DEFINE name == IF p.topic = NoTopic THEN topic ELSE p.topic
    <2>1. name \in Topics \cup {NoTopic} /\ 0 \in 0 .. MaxAlias
      BY <1>2, <1>5, Bounds
    <2>2. StoreForm(s, p) = [p EXCEPT !.topic = name, !.alias = 0, !.dup = TRUE]
      BY DEF StoreForm, NoAlias, topic, t
    <2>3. p.topic # NoTopic \/ AliasKnown(s, p.alias) => name # NoTopic
      BY DEF AliasKnown, topic, t
    <2> HIDE DEF name
    <2> QED BY <2>1, <2>2, <2>3, ZenonT(40) DEF PublishPackets, NoAlias
  <1> QED BY <1>8, <1>9, SMTT(20) DEF t

\* Storing a PUBLISH packet and awaiting its answer keeps a connection sound.
LEMMA RecordSound ==
  ASSUME NEW s, Sound(s), NEW p \in PublishPackets, p.qos > 0 => p.pid # NoId,
         Storing(s, p) /\ p.topic = NoTopic => AliasKnown(s, p.alias)
  PROVE  Sound(Record(s, p))
  <1>1. p.qos \in 0 .. 2 /\ (p.qos > 0 => p.pid \in PacketIds)
    BY DEF PublishPackets
  <1>2. p.qos > 0 => StoreForm(s, p) \in StorePackets
    BY FormSound DEF StorePackets
  <1>3. s.store \in Seq(StorePackets)
    BY DEF Sound, ConnectionType
  <1> DEFINE st == IF Storing(s, p) THEN StoreAdd(s.store, StoreForm(s, p)) ELSE s.store
             add(S, q) == IF p.qos = q THEN S \cup {p.pid} ELSE S
             a == add(s.pid_puback, 1)
             b == add(s.pid_pubrec, 2)
             c == add(s.qos2_publish_processing, 2)
  <1>4. st \in Seq(StorePackets) /\ StoreSound(st)
    <2>1. CASE Storing(s, p)
      <3> DEFINE q == StoreForm(s, p)
      <3>1. q \in StorePackets /\ q.topic # NoTopic /\ q.alias = NoAlias
        BY <1>2, <2>1, FormSound DEF Storing
      <3> HIDE DEF q
      <3>2. StoreSound(StoreAdd(s.store, q))
        BY <3>1, AddedStore DEF Sound
      <3> QED BY <2>1, <3>2 DEF StoreSound, q
    <2>2. CASE ~ Storing(s, p)
      BY <1>3, <2>2 DEF Sound
    <2> QED BY <2>1, <2>2
  <1>5. a \in SUBSET PacketIds /\ b \in SUBSET PacketIds /\ c \in SUBSET PacketIds
    BY <1>1 DEF Sound, ConnectionType
  <1>6. Record(s, p) = [s EXCEPT !.store = st, !.pid_puback = a, !.pid_pubrec = b,
                                 !.qos2_publish_processing = c]
    BY DEF Record
  <1> HIDE DEF st, a, b, c
  <1>7. [s EXCEPT !.store = st, !.pid_puback = a, !.pid_pubrec = b,
                  !.qos2_publish_processing = c] \in ConnectionType
    BY <1>4, <1>5, Zenon DEF Sound, ConnectionType
  <1> QED BY <1>4, <1>6, <1>7, ZenonT(200) DEF Sound, ConnectionType, TimersSound

\* So does replacing its sending table by another sound one,
LEMMA TableReplaced ==
  ASSUME NEW s, Sound(s), NEW t \in AliasSendType, TableSound(t)
  PROVE  Sound([s EXCEPT !.topic_alias_send = t])
  BY ZenonT(40) DEF Sound, ConnectionType, TimersSound

\* touching an entry,
LEMMA TouchAliasSound ==
  ASSUME NEW s, Sound(s), NEW p \in PublishPackets
  PROVE  Sound(TouchAlias(s, p))
         /\ TouchAlias(s, p).topic_alias_send.max = s.topic_alias_send.max
  <1> DEFINE t == Touch(s.topic_alias_send, p.alias)
  <1>1. t \in AliasSendType /\ TableSound(t) /\ t.max = s.topic_alias_send.max
    BY TouchSound DEF Sound, ConnectionType
  <1> HIDE DEF t
  <1>2. Sound([s EXCEPT !.topic_alias_send = t])
    BY <1>1, TableReplaced
  <1>3. [s EXCEPT !.topic_alias_send = t].topic_alias_send = t
    BY DEF Sound, ConnectionType
  <1> QED BY <1>1, <1>2, <1>3 DEF TouchAlias, t

\* and registering an alias that is in range.
LEMMA AliasSound ==
  ASSUME NEW s, Sound(s), NEW p \in PublishPackets,
         p.topic # NoTopic /\ p.alias # NoAlias => AliasInRange(s, p.alias)
  PROVE  Sound(Alias(s, p))
  <1> DEFINE u == TouchAlias(s, p)
             f == AliasForm(s, p)
             t == u.topic_alias_send
             m == MapAlias(t, f)
  <1>1. Sound(u) /\ t.max = s.topic_alias_send.max
    BY TouchAliasSound
  <1>2. f \in PublishPackets /\ (f.alias \in 1 .. s.topic_alias_send.max \/ f = p)
    BY FormSound
  <1>3. f.topic # NoTopic /\ f.alias # NoAlias => f.alias \in 1 .. t.max
    BY <1>1, <1>2 DEF AliasInRange
  <1>4. f.topic # NoTopic => f.topic \in Topics
    BY <1>2, SMTT(20) DEF PublishPackets
  <1>5. t \in AliasSendType /\ TableSound(t)
    BY <1>1, Zenon DEF Sound, ConnectionType
  <1>6. Alias(s, p) = [u EXCEPT !.topic_alias_send = m]
    BY DEF Alias
  <1> HIDE DEF u, f
  <1>7. m \in AliasSendType /\ TableSound(m)
    <2> HIDE DEF t
    <2> QED BY <1>3, <1>4, <1>5, InsertSound DEF MapAlias
  <1> HIDE DEF m
  <1> QED BY <1>1, <1>6, <1>7, TableReplaced

\* send() of a PUBLISH packet, whatever the verdict.
LEMMA PublishSound ==
  ASSUME Sound(con), NEW p \in PublishPackets, p.qos > 0 => p.pid # NoId, SendPublish(p)
  PROVE  Sound(con')
  <1> DEFINE verdict == PublishVerdict(con, p)
             recorded == Record(con, p)
             aliased == Alias(recorded, p)
             counted == CountUp(aliased, p)
  <1>1. verdict \in {"alias_refused", "receive_maximum_exceeded", "not_connected", "kept", "sent"}
          => Sound(recorded)
    <2>1. verdict \in {"alias_refused", "receive_maximum_exceeded", "not_connected", "kept", "sent"}
            => (Storing(con, p) /\ p.topic = NoTopic => AliasKnown(con, p.alias))
      BY DEF PublishVerdict
    <2> HIDE DEF verdict
    <2> QED BY <2>1, RecordSound
  <1>2. recorded.topic_alias_send = con.topic_alias_send
    BY DEF Record, Sound, ConnectionType
  <1>3. verdict \in {"receive_maximum_exceeded", "not_connected", "kept", "sent"}
          => (p.topic # NoTopic /\ p.alias # NoAlias => AliasInRange(con, p.alias))
    BY DEF PublishVerdict
  <1>4. AliasForm(con, p) \in Packet
    BY FormSound DEF Packet
  <1>5. Sound(TouchAlias(con, p))
    BY TouchAliasSound
  <1>6. verdict \in {"receive_maximum_exceeded", "not_connected", "kept", "sent"}
          => Sound(aliased)
    <2> HIDE DEF recorded, verdict
    <2> QED BY <1>1, <1>2, <1>3, AliasSound DEF AliasInRange
  <1>7. Sound(aliased) => Sound(counted)
    <2> HIDE DEF aliased
    <2> QED BY CountsSound
  <1>8. \/ verdict \in {"not_sendable", "not_allocated"} /\ con' = con
        \/ con' = ReleaseIds(con, {p.pid})
        \/ con' = ReleaseIds(TouchAlias(con, p), {p.pid})
        \/ verdict = "alias_refused" /\ con' = ReleaseIds(recorded, {p.pid})
        \/ verdict = "receive_maximum_exceeded" /\ con' = ReleaseIds(aliased, {p.pid})
        \/ verdict = "not_connected" /\ con' = ReleaseIds(counted, {p.pid})
        \/ verdict = "kept" /\ con' = PostProcess(counted)
        \/ verdict = "sent" /\ con' = PostProcess(OnSend(counted, AliasForm(con, p)))
    BY DEF SendPublish
  <1> HIDE DEF verdict, recorded, aliased, counted
  <1>9. Sound(counted) => Sound(PostProcess(counted))
    BY QuietPostProcess, QuietSound, SMTT(20) DEF Sound
  <1>10. Sound(counted) => Sound(PostProcess(OnSend(counted, AliasForm(con, p))))
    <2>1. SUFFICES ASSUME Sound(counted)
                   PROVE  Sound(PostProcess(OnSend(counted, AliasForm(con, p))))
      OBVIOUS
    <2>2. Sound(OnSend(counted, AliasForm(con, p)))
      BY <1>4, <2>1, QuietOnSend, QuietSound DEF Sound
    <2> QED BY <2>2, QuietPostProcess, QuietSound DEF Sound
  <1> QED BY <1>1, <1>5, <1>6, <1>7, <1>8, <1>9, <1>10, ReleaseSound
-----------------------------------------------------------------------------
(***************************************************************************)
(* recv()                                                                  *)
(***************************************************************************)
\* The common parts of the receive handlers keep a connection sound.
LEMMA ReceivedSound ==
  ASSUME NEW s, Sound(s), NEW p \in Packet
  PROVE  Sound(Received(s, p)) /\ Sound(OnReceive(s, p)) /\ Sound(PingreqRecvOp(s))
         /\ Sound(SendDisconnect(s)) /\ Sound(ProtocolError(s)) /\ Sound(OnClose(s))
         /\ Sound(CountDown(s)) /\ Sound(CancelTimers(s))
         /\ Sound(CancelTimers([s EXCEPT !.status = "disconnected"]))
  <1>1. s \in ConnectionType
    BY DEF Sound
  <1>2. /\ Quiet(s, Received(s, p)) /\ Quiet(s, OnReceive(s, p)) /\ Quiet(s, PingreqRecvOp(s))
        /\ Quiet(s, SendDisconnect(s)) /\ Quiet(s, ProtocolError(s)) /\ Quiet(s, OnClose(s))
        /\ Quiet(s, CancelTimers(s))
        /\ Quiet(s, CancelTimers([s EXCEPT !.status = "disconnected"]))
    BY <1>1, QuietReceived, QuietOnReceive, QuietPingreqRecvOp, QuietSendDisconnect,
       QuietProtocolError, QuietOnClose, QuietCancelTimers, QuietEnded
  <1> QED BY <1>2, QuietSound, CountsSound

\* The handler of CONNECT.
LEMMA RecvConnectSound ==
  ASSUME Sound(con), con.status = "disconnected", NEW p \in ConnectPackets, RecvConnect(p)
  PROVE  Sound(con')
  <1> DEFINE i == Initialize(con, FALSE)
             timeout == IF p.keep_alive = 0 THEN i.pingreq_recv_timeout
                        ELSE (p.keep_alive * 3) \div 2
             keep == IF p.ver = "v5" THEN p.expiry ELSE ~ p.clean
             t == [i EXCEPT !.protocol_version = p.ver, !.status = "connecting",
                            !.pingreq_recv_timeout = timeout, !.need_store = keep]
             u == IF p.clean THEN ForgetAwaited(t) ELSE t
  <1>1. p.keep_alive \in Nat /\ p.expiry \in BOOLEAN /\ p.clean \in BOOLEAN /\ p.ver \in Versions
        /\ p.tam \in 0 .. MaxAlias /\ p.rmax \in 0 .. ReceiveMaximumMax /\ p.mps \in Nat
    BY DEF ConnectPackets
  <1>2. Sound(i) /\ i.status = "disconnected"
    BY InitializeSound, ZenonT(40) DEF Sound, ConnectionType, Initialize
  <1>3. con' = Received(LimitsForSend(u, p), p)
    BY DEF RecvConnect
  <1> HIDE DEF i
  <1>4. Sound(t)
    <2>1. timeout \in Nat
      <3>1. (p.keep_alive * 3) \div 2 \in Nat
        BY <1>1
      <3> QED BY <1>2, <3>1 DEF Sound, ConnectionType
    <2>2. keep \in BOOLEAN
      BY <1>1, Zenon
    <2> HIDE DEF timeout, keep
    <2> QED BY <1>1, <1>2, <2>1, <2>2, ZenonT(40) DEF Sound, ConnectionType, Statuses, TimersSound
  <1> HIDE DEF t
  <1>5. Sound(u)
    BY <1>4, ForgetSound
  <1> HIDE DEF u
  <1>6. Sound(LimitsForSend(u, p))
    BY <1>1, <1>5, LimitsSound
  <1>7. p \in Packet
    BY DEF Packet
  <1> QED BY <1>3, <1>6, <1>7, ReceivedSound, Zenon

\* set_pingreq_send_interval().
LEMMA IntervalSound ==
  ASSUME NEW s, Sound(s), NEW duration \in Nat
  PROVE  Sound(SetPingreqSendInterval(s, duration))
  <1>1. Sound([s EXCEPT !.pingreq_send_interval = duration]) /\ "pingreq_send" \in Timers
    BY ZenonT(40) DEF Sound, ConnectionType, Timers, TimersSound
  <1> QED BY <1>1, QuietResetTimer, QuietSound, Zenon DEF SetPingreqSendInterval, Sound

\* The handler of CONNACK.
LEMMA RecvConnackSound ==
  ASSUME Sound(con), NEW p \in ConnackPackets, RecvConnack(p)
  PROVE  Sound(con')
  <1> DEFINE a == [con EXCEPT !.status = "connected"]
             b == LimitsForSend(a, p)
             s == ServerKeepAlive(b, p)
  <1>1. p.tam \in 0 .. MaxAlias /\ p.rmax \in 0 .. ReceiveMaximumMax /\ p.mps \in Nat /\ p \in Packet
        /\ (p.server_keep_alive # NoKeepAlive => p.server_keep_alive \in Nat)
    BY DEF ConnackPackets, Packet
  <1>2. Sound(a)
    BY ZenonT(40) DEF Sound, ConnectionType, Statuses, TimersSound
  <1>3. \/ con' = OnReceive(con, p)
        \/ con' = OnReceive(SendStored(s), p)
        \/ con' = OnReceive(ForgetSession(s), p)
    BY DEF RecvConnack
  <1> HIDE DEF a
  <1>4. Sound(b)
    BY <1>1, <1>2, LimitsSound
  <1> HIDE DEF b
  <1>5. Sound(s)
    BY <1>1, <1>4, IntervalSound DEF ServerKeepAlive
  <1> HIDE DEF s
  <1>6. Sound(SendStored(s)) /\ Sound(ForgetSession(s))
    BY <1>5, SendStoredSound, ForgetSound
  <1> QED BY <1>1, <1>3, <1>6, ReceivedSound, ZenonT(40)

\* The handler of PUBLISH.
LEMMA RecvPublishSound ==
  ASSUME Sound(con), NEW p \in PublishPackets, p.qos > 0 => p.pid # NoId, RecvPublish(p)
  PROVE  Sound(con')
  <1> DEFINE handled == p.qos = 2 /\ p.pid \in con.qos2_publish_handled
             topic == RecvTopic(con, p)
             respond == (p.qos > 0 /\ IsSet(con, "auto_pub_response")) \/ handled
             taken == [con EXCEPT
                        !.publish_recv = IF p.qos > 0 /\ con.protocol_version = "v5"
                                         THEN @ \cup {p.pid} ELSE @,
                        !.qos2_publish_handled = IF p.qos = 2 THEN @ \cup {p.pid} ELSE @]
             mapped == IF p.topic # NoTopic /\ p.alias # NoAlias
                       THEN [taken EXCEPT !.topic_alias_recv = Register(@, p.topic, p.alias)]
                       ELSE taken
             answer == Answer(IF p.qos = 1 THEN "puback" ELSE "pubrec", p.pid, TRUE)
             sent == IF respond THEN SendPacket(mapped, answer) ELSE mapped
             answered == PingreqRecvOp(sent)
  <1>1. \/ con' = SendDisconnect(con)
        \/ con' = SendDisconnect(taken)
        \/ topic # NoTopic /\ con' = answered
        \/ topic # NoTopic /\ con' = OnReceive(answered, [p EXCEPT !.topic = topic])
    BY Zenon DEF RecvPublish
  <1>2. p \in Packet /\ p.qos \in 0 .. 2 /\ p.alias \in 0 .. MaxAlias
        /\ p.topic \in Topics \cup {NoTopic} /\ (p.qos > 0 => p.pid \in PacketIds)
    BY DEF Packet, PublishPackets
  <1>3. Sound(taken) /\ taken.topic_alias_recv = con.topic_alias_recv
    <2> DEFINE a == IF p.qos > 0 /\ con.protocol_version = "v5"
                    THEN con.publish_recv \cup {p.pid} ELSE con.publish_recv
               b == IF p.qos = 2 THEN con.qos2_publish_handled \cup {p.pid}
                    ELSE con.qos2_publish_handled
    <2>1. a \in SUBSET PacketIds /\ b \in SUBSET PacketIds
      BY <1>2 DEF Sound, ConnectionType
    <2>2. taken = [con EXCEPT !.publish_recv = a, !.qos2_publish_handled = b]
      OBVIOUS
    <2> HIDE DEF a, b, taken
    <2> QED BY <2>1, <2>2, ZenonT(40) DEF Sound, ConnectionType, TimersSound
  <1>4. con.topic_alias_recv \in AliasRecvType
    BY DEF Sound, ConnectionType
  <1>5. p.alias # NoAlias => p.alias \in Aliases
    BY <1>2, Bounds DEF NoAlias, Aliases
  <1>6. [p EXCEPT !.topic = topic] \in Packet
    <2>1. topic \in Topics \cup {NoTopic}
      BY <1>2, <1>4, <1>5, Zenon DEF RecvTopic, AliasRecvType
    <2> HIDE DEF topic
    <2> QED BY <2>1 DEF Packet, PublishPackets
  <1> HIDE DEF taken
  <1>7. Sound(mapped)
    <2>1. CASE p.topic # NoTopic /\ p.alias # NoAlias
      <3> DEFINE r == Register(con.topic_alias_recv, p.topic, p.alias)
      <3>1. r \in AliasRecvType
        BY <1>2, <1>4, <1>5, <2>1 DEF Register, AliasRecvType
      <3>2. mapped = [taken EXCEPT !.topic_alias_recv = r]
        BY <1>3, <2>1
      <3> HIDE DEF r
      <3> QED BY <1>3, <3>1, <3>2, ZenonT(40) DEF Sound, ConnectionType, TimersSound
    <2> QED BY <1>3, <2>1
  <1> HIDE DEF mapped
  <1>8. respond => answer \in Packet /\ answer.type \in {"puback", "pubrec"}
    <2> DEFINE type == IF p.qos = 1 THEN "puback" ELSE "pubrec"
    <2>0. p.qos \in 0 .. 2 /\ (p.qos = 2 => p.qos > 0) /\ (p.qos > 0 => p.pid \in PacketIds)
      BY <1>2
    <2>1. type \in {"puback", "pubrec"} /\ (respond => p.pid \in PacketIds)
      BY <2>0, Zenon
    <2>2. answer = Answer(type, p.pid, TRUE)
      OBVIOUS
    <2> HIDE DEF type, answer
    <2>3. ASSUME NEW pid \in PacketIds
          PROVE  Answer(type, pid, TRUE) \in Packet /\ Answer(type, pid, TRUE).type = type
      BY <2>1 DEF Answer, Packet, AnswerPackets
    <2> QED BY <2>1, <2>2, <2>3, Zenon
  <1> HIDE DEF answer
  <1>9. Sound(sent)
    BY <1>7, <1>8, SendSound
  <1> HIDE DEF sent
  <1>10. Sound(answered)
    BY <1>2, <1>9, ReceivedSound, ZenonT(40)
  <1> HIDE DEF answered, topic
  <1> QED BY <1>1, <1>2, <1>3, <1>6, <1>10, ReceivedSound, Zenon

\* The answers to the connection's own packets.
LEMMA RecvAnswerSound ==
  ASSUME Sound(con), NEW p \in Packet,
         \/ p.type = "puback" /\ RecvPuback(p)
         \/ p.type = "pubrec" /\ RecvPubrec(p)
         \/ p.type = "pubcomp" /\ RecvPubcomp(p)
         \/ p.type = "suback" /\ RecvSuback(p)
         \/ p.type = "unsuback" /\ RecvUnsuback(p)
  PROVE  Sound(con')
  <1>1. ASSUME NEW response
        PROVE  /\ StoreErase(con.store, response, p.pid) \in Seq(StorePackets)
               /\ StoreSound(StoreErase(con.store, response, p.pid))
    <2>1. StoreSound(con.store)
      BY Zenon DEF Sound
    <2>2. StoreSound(StoreErase(con.store, response, p.pid))
      BY <2>1, ErasedStore, Zenon
    <2> QED BY <2>2, Zenon DEF StoreSound
  <1>2. CASE p.type = "puback" /\ RecvPuback(p)
    <2> DEFINE st == StoreErase(con.store, "puback", p.pid)
               s == [con EXCEPT !.pid_puback = @ \ {p.pid}, !.store = st]
    <2>1. con' = Received(CountDown(ReleaseIds(s, {p.pid})), p) \/ con' = ProtocolError(con)
      BY <1>2 DEF RecvPuback
    <2>2. st \in Seq(StorePackets) /\ StoreSound(st)
      BY <1>1
    <2> HIDE DEF st
    <2>3. Sound(s)
      BY <2>2, ZenonT(40) DEF Sound, ConnectionType, TimersSound
    <2> HIDE DEF s
    <2>4. Sound(CountDown(ReleaseIds(s, {p.pid})))
      BY <2>3, ReleaseSound, ReceivedSound, Zenon
    <2> QED BY <2>1, <2>4, ReceivedSound, Zenon
  <1>3. CASE p.type = "pubrec" /\ RecvPubrec(p)
    <2> DEFINE st == StoreErase(con.store, "pubrec", p.pid)
               s == [con EXCEPT !.pid_pubrec = @ \ {p.pid}, !.store = st]
               t == [ReleaseIds(s, {p.pid}) EXCEPT !.qos2_publish_processing = @ \ {p.pid}]
    <2>1. \/ con' = Received(CountDown(t), p)
          \/ con' = Received(SendPacket(s, WithId("pubrel", p.pid)), p)
          \/ con' = Received(s, p)
          \/ con' = ProtocolError(con)
      BY <1>3 DEF RecvPubrec, PublishRefused
    <2>2. st \in Seq(StorePackets) /\ StoreSound(st)
      BY <1>1
    <2> HIDE DEF st
    <2>3. Sound(s)
      BY <2>2, ZenonT(40) DEF Sound, ConnectionType, TimersSound
    <2> HIDE DEF s
    <2>4. Sound(ReleaseIds(s, {p.pid}))
      BY <2>3, ReleaseSound
    <2>5. Sound(t)
      BY <2>4, ZenonT(40) DEF Sound, ConnectionType, TimersSound
    <2> HIDE DEF t
    <2>6. WithId("pubrel", p.pid) \in Packet /\ WithId("pubrel", p.pid).type = "pubrel"
      BY <1>3, Kinds, OwnPackets DEF AnswerPackets
    <2>7. Sound(CountDown(t)) /\ Sound(SendPacket(s, WithId("pubrel", p.pid)))
      BY <2>3, <2>5, <2>6, ReceivedSound, SendSound, ZenonT(40)
    <2> QED BY <2>1, <2>3, <2>7, ReceivedSound, Zenon
  <1>4. CASE p.type = "pubcomp" /\ RecvPubcomp(p)
    <2> DEFINE st == StoreErase(con.store, "pubcomp", p.pid)
               s == [con EXCEPT !.pid_pubcomp = @ \ {p.pid}, !.store = st,
                                !.qos2_publish_processing = @ \ {p.pid}]
    <2>1. con' = Received(CountDown(ReleaseIds(s, {p.pid})), p) \/ con' = ProtocolError(con)
      BY <1>4, SMTT(20) DEF RecvPubcomp
    <2>2. st \in Seq(StorePackets) /\ StoreSound(st)
      BY <1>1, SMTT(20)
    <2> HIDE DEF st
    <2>3. Sound(s)
      BY <2>2, ZenonT(40) DEF Sound, ConnectionType, TimersSound
    <2> HIDE DEF s
    <2>4. Sound(CountDown(ReleaseIds(s, {p.pid})))
      BY <2>3, ReleaseSound, ReceivedSound, Zenon
    <2> QED BY <2>1, <2>4, ReceivedSound, Zenon
  <1>5. CASE \/ p.type = "suback" /\ RecvSuback(p)
             \/ p.type = "unsuback" /\ RecvUnsuback(p)
    <2> DEFINE a == [con EXCEPT !.pid_suback = @ \ {p.pid}]
               b == [con EXCEPT !.pid_unsuback = @ \ {p.pid}]
    <2>1. \/ con' = Received(ReleaseIds(a, {p.pid}), p)
          \/ con' = Received(ReleaseIds(b, {p.pid}), p)
          \/ con' = ProtocolError(con)
      BY <1>5 DEF RecvSuback, RecvUnsuback
    <2>2. Sound(a) /\ Sound(b)
      BY ZenonT(40) DEF Sound, ConnectionType, TimersSound
    <2> HIDE DEF a, b
    <2>3. Sound(ReleaseIds(a, {p.pid})) /\ Sound(ReleaseIds(b, {p.pid}))
      BY <2>2, ReleaseSound
    <2> QED BY <2>1, <2>3, ReceivedSound, ZenonT(40)
  <1> QED BY <1>2, <1>3, <1>4, <1>5

\* recv() of any packet.
LEMMA RecvSound ==
  ASSUME Sound(con), NEW p \in Packet, Recv(p),
         p.type = "publish" /\ p.qos > 0 => p.pid # NoId
  PROVE  Sound(con')
  <1>1. CASE RecvTooLarge(p) \/ RecvOutOfPlace(p)
    BY <1>1, ReceivedSound, ZenonT(40) DEF RecvTooLarge, RecvOutOfPlace
  <1>2. CASE con.status = "disconnected" /\ p.type = "connect" /\ RecvConnect(p)
    BY <1>2, Kinds, RecvConnectSound
  <1>3. CASE p.type = "connack" /\ RecvConnack(p)
    BY <1>3, Kinds, RecvConnackSound
  <1>4. CASE p.type = "publish" /\ RecvPublish(p)
    BY <1>4, Kinds, RecvPublishSound, SMTT(20)
  <1>5. CASE \/ p.type = "puback" /\ RecvPuback(p)
             \/ p.type = "pubrec" /\ RecvPubrec(p)
             \/ p.type = "pubcomp" /\ RecvPubcomp(p)
             \/ p.type = "suback" /\ RecvSuback(p)
             \/ p.type = "unsuback" /\ RecvUnsuback(p)
    BY <1>5, RecvAnswerSound
  <1>6. CASE p.type = "pubrel" /\ RecvPubrel(p)
    <2> DEFINE s == [con EXCEPT !.qos2_publish_handled = @ \ {p.pid}]
    <2>1. con' = Received(SendPacket(s, WithId("pubcomp", p.pid)), p) \/ con' = Received(s, p)
      BY <1>6 DEF RecvPubrel
    <2>2. Sound(s)
      BY ZenonT(40) DEF Sound, ConnectionType, TimersSound
    <2> HIDE DEF s
    <2>3. WithId("pubcomp", p.pid) \in Packet /\ WithId("pubcomp", p.pid).type = "pubcomp"
      BY <1>6, Kinds, OwnPackets DEF IdPackets
    <2>4. Sound(SendPacket(s, WithId("pubcomp", p.pid)))
      BY <2>2, <2>3, SendSound
    <2> QED BY <2>1, <2>2, <2>4, ReceivedSound, Zenon
  <1>7. CASE p.type = "pingreq" /\ RecvPingreq(p)
    <2>1. con' = Received(SendPacket(con, Plain("pingresp")), p) \/ con' = Received(con, p)
      BY <1>7 DEF RecvPingreq
    <2>2. Plain("pingresp") \in Packet /\ Plain("pingresp").type = "pingresp"
      BY OwnPackets
    <2>3. Sound(SendPacket(con, Plain("pingresp")))
      BY <2>2, SendSound
    <2> QED BY <2>1, <2>3, ReceivedSound, Zenon
  <1>8. CASE p.type = "pingresp" /\ RecvPingresp(p)
    <2>1. "pingresp_recv" \in Timers /\ con \in ConnectionType
      BY DEF Timers, Sound
    <2>2. Sound(CancelTimer(con, "pingresp_recv"))
      BY <2>1, QuietResetTimer, QuietSound, SMTT(20) DEF CancelTimer
    <2> QED BY <1>8, <2>2, ReceivedSound, Zenon DEF RecvPingresp
  <1>9. CASE p.type = "disconnect" /\ RecvDisconnect(p)
    <2>1. Sound(CancelTimers([con EXCEPT !.status = "disconnected"]))
      BY ReceivedSound
    <2> QED BY <1>9, <2>1, ReceivedSound, Zenon DEF RecvDisconnect
  <1>10. CASE RecvOther(p)
    BY <1>10, ReceivedSound, Zenon DEF RecvOther
  <1> QED BY <1>1, <1>2, <1>3, <1>4, <1>5, <1>6, <1>7, <1>8, <1>9, <1>10
          DEF Recv, RecvHandled, ProtocolSatisfied

-----------------------------------------------------------------------------
(***************************************************************************)
(* The other calls                                                         *)
(***************************************************************************)
\* recv() of what is no packet.
LEMMA MalformedSound ==
  ASSUME Sound(con),
         \/ RecvMalformed(TRUE) \/ RecvMalformed(FALSE) \/ RecvUnframed
  PROVE  Sound(con')
  <1> DEFINE s == [con EXCEPT !.status = "connecting"]
             d == CancelTimers([con EXCEPT !.status = "disconnected"])
  <1>1. \/ con.status = "disconnected" /\ con' = SendPacket(s, RefusingConnack)
        \/ con' = SendDisconnect(con)
        \/ con' = OnClose(con)
        \/ con' = OnClose(d)
    BY DEF RecvMalformed, RecvUnframed
  <1>2. con.status = "disconnected" => Sound(s)
    BY ZenonT(40) DEF Sound, ConnectionType, Statuses, TimersSound
  <1>3. RefusingConnack \in Packet
    <2>1. 0 \in 0 .. MaxAlias /\ NoMaximum \in 0 .. ReceiveMaximumMax /\ NoMaximum \in Nat
      BY Bounds DEF NoMaximum
    <2>2. RefusingConnack \in ConnackPackets
      BY <2>1, Zenon DEF RefusingConnack, ConnackPackets
    <2> QED BY <2>2, Zenon DEF Packet
  <1>4. Plain("pingreq") \in Packet
    BY OwnPackets
  <1>5. Sound(d)
    BY <1>4, ReceivedSound
  <1> HIDE DEF s, d
  <1>6. Sound(s) => Sound(SendPacket(s, RefusingConnack))
    BY <1>3, SendSound
  <1>7. Sound(OnClose(d)) /\ Sound(OnClose(con)) /\ Sound(SendDisconnect(con))
    BY <1>4, <1>5, ReceivedSound, Zenon
  <1> QED BY <1>1, <1>2, <1>6, <1>7

\* notify_timer_fired().
LEMMA TimerSound ==
  ASSUME Sound(con), NEW kind \in Timers, NotifyTimerFired(kind)
  PROVE  Sound(con')
  <1> DEFINE s == CancelTimer(con, kind)
  <1>1. Sound(s)
    BY QuietResetTimer, QuietSound DEF Sound, CancelTimer
  <1>2. con' \in {s, OnClose(s), SendDisconnect(s), SendPacket(s, Plain("pingreq"))}
    BY DEF NotifyTimerFired
  <1> HIDE DEF s
  <1>3. Plain("pingreq") \in Packet /\ Plain("pingreq").type = "pingreq"
    BY OwnPackets
  <1>4. Sound(SendPacket(s, Plain("pingreq")))
    BY <1>1, <1>3, SendSound
  <1> QED BY <1>1, <1>2, <1>3, <1>4, ReceivedSound, ZenonT(40)

\* notify_closed().
LEMMA ClosedSound ==
  ASSUME Sound(con), NotifyClosed
  PROVE  Sound(con')
  <1> DEFINE s == [con EXCEPT !.maximum_packet_size_send = NoLimit,
                              !.maximum_packet_size_recv = NoLimit,
                              !.status = "disconnected",
                              !.topic_alias_send = AliasSend(0),
                              !.topic_alias_recv = AliasRecv(0),
                              !.closed = FALSE]
             r == ReleaseIds(s, s.pid_suback \cup s.pid_unsuback)
             t == [r EXCEPT !.pid_suback = {}, !.pid_unsuback = {}]
             v == ForgetAwaited(ReleaseIds(t, t.pid_puback \cup t.pid_pubrec \cup t.pid_pubcomp))
             w == [v EXCEPT !.qos2_publish_processing = {}, !.qos2_publish_handled = {}]
             e == IF t.need_store THEN t ELSE w
  <1>1. con' = CancelTimers(e)
    BY DEF NotifyClosed, ReleaseExchanges, ReleaseSubscriptions
  <1> DEFINE As(u) == /\ u \in ConnectionType /\ u.store = con.store
                      /\ u.topic_alias_send = AliasSend(0) /\ u.status = "disconnected"
  <1>2. As(s)
    <2>1. "disconnected" \in Statuses /\ FALSE \in BOOLEAN /\ NoLimit \in Nat
      BY NoLimitIsNat DEF Statuses
    <2> QED BY <2>1, NoTables, ZenonT(40) DEF Sound, ConnectionType
  <1> HIDE DEF s
  <1>3. As(r)
    BY <1>2, ZenonT(40) DEF ConnectionType, ReleaseIds
  <1> HIDE DEF r
  <1>4. As(t)
    BY <1>3, ZenonT(40) DEF ConnectionType
  <1> HIDE DEF t
  <1>5. As(v)
    <2> DEFINE x == ReleaseIds(t, t.pid_puback \cup t.pid_pubrec \cup t.pid_pubcomp)
    <2>1. As(x)
      BY <1>4, ZenonT(40) DEF ConnectionType, ReleaseIds
    <2> HIDE DEF x
    <2>2. As(ForgetAwaited(x))
      BY <2>1, ZenonT(40) DEF ConnectionType, ForgetAwaited
    <2> QED BY <2>2 DEF x
  <1> HIDE DEF v
  <1>6. As(w)
    BY <1>5, ZenonT(40) DEF ConnectionType
  <1> HIDE DEF w
  <1>7. As(e)
    BY <1>4, <1>6
  <1> HIDE DEF e
  <1> DEFINE f == [k \in Timers |-> 0]
  <1>8. /\ f \in [Timers -> Nat] /\ f["pingreq_recv"] = 0 /\ f["pingresp_recv"] = 0
        /\ con' = [e EXCEPT !.timer = f]
    BY <1>1 DEF CancelTimers, Timers
  <1> HIDE DEF f
  <1>9. con' \in ConnectionType /\ TimersSound(con')
        /\ con'.topic_alias_send = AliasSend(0) /\ con'.store = con.store
    BY <1>7, <1>8, ZenonT(40) DEF ConnectionType, TimersSound
  <1> QED BY <1>9, NoTables DEF Sound

\* The packet identifier functions.
LEMMA IdSound ==
  ASSUME Sound(con), NEW pid \in PacketIds,
         AcquireUniquePacketId(pid) \/ RegisterPacketId(pid) \/ ReleasePacketId(pid)
  PROVE  Sound(con')
  <1>1. Sound([con EXCEPT !.pid_man = @ \cup {pid}])
    BY ZenonT(40) DEF Sound, ConnectionType, TimersSound
  <1> QED BY <1>1, ReleaseSound DEF AcquireUniquePacketId, RegisterPacketId, ReleasePacketId

\* A session restored before anything is sent is taken over as it is.
LEMMA RestoredAll ==
  ASSUME con.pid_man = {}, con.store = <<>>, NEW pvs \in Restorable, RestorePackets(pvs)
  PROVE  con' = [con EXCEPT
           !.pid_man = @ \cup {pvs[i].pid : i \in DOMAIN pvs},
           !.pid_puback = @ \cup IdsAnsweredBy(pvs, "puback"),
           !.pid_pubrec = @ \cup IdsAnsweredBy(pvs, "pubrec"),
           !.pid_pubcomp = @ \cup IdsAnsweredBy(pvs, "pubcomp"),
           !.store = @ \o pvs]
  <1> DEFINE new == {i \in DOMAIN pvs :
                       /\ pvs[i].pid \notin con.pid_man
                       /\ \A j \in 1 .. i - 1 : pvs[j].pid # pvs[i].pid
                       /\ StoreFind(con.store, ResponseTo(pvs[i]), pvs[i].pid) = {}}
  <1>1. pvs \in Seq(StorePackets) /\ \A i, j \in DOMAIN pvs : pvs[i].pid = pvs[j].pid => i = j
    BY UseAssumption
  <1>2. \A i \in DOMAIN pvs : \A j \in 1 .. i - 1 : j \in DOMAIN pvs /\ j # i
    BY <1>1
  <1>3. \A r, q : StoreFind(con.store, r, q) = {}
    BY DEF StoreFind
  <1>4. new = DOMAIN pvs
    BY <1>1, <1>2, <1>3, Zenon
  <1>5. Pick(pvs, new) = pvs
    BY <1>4 DEF Pick
  <1> QED BY <1>5, Zenon DEF RestorePackets

\* restore_packets().
LEMMA RestoreSound ==
  ASSUME Sound(con), con.pid_man = {}, con.store = <<>>, NEW pvs \in Restorable,
         RestorePackets(pvs)
  PROVE  Sound(con')
  <1> DEFINE a == con.pid_man \cup {pvs[i].pid : i \in DOMAIN pvs}
             b == con.pid_puback \cup IdsAnsweredBy(pvs, "puback")
             c == con.pid_pubrec \cup IdsAnsweredBy(pvs, "pubrec")
             d == con.pid_pubcomp \cup IdsAnsweredBy(pvs, "pubcomp")
             st == con.store \o pvs
             t == [con EXCEPT !.pid_man = a, !.pid_puback = b, !.pid_pubrec = c,
                              !.pid_pubcomp = d, !.store = st]
  <1>1. con' = t
    BY RestoredAll, Zenon
  <1>2. pvs \in Seq(StorePackets) /\ StoreSound(pvs)
    BY UseAssumption, Zenon DEF StoreSound, KeysUnique
  <1>3. \A i \in DOMAIN pvs : pvs[i].pid \in PacketIds
    <2>1. \A p \in StorePackets : p.pid \in PacketIds
      BY SMTT(20) DEF StorePackets, PublishPackets, PubrelPackets
    <2> QED BY <1>2, <2>1, ElementsOf, Zenon
  <1>4. /\ a \in SUBSET PacketIds /\ b \in SUBSET PacketIds /\ c \in SUBSET PacketIds
        /\ d \in SUBSET PacketIds
    <2>1. /\ con.pid_man \in SUBSET PacketIds /\ con.pid_puback \in SUBSET PacketIds
          /\ con.pid_pubrec \in SUBSET PacketIds /\ con.pid_pubcomp \in SUBSET PacketIds
      BY Zenon DEF Sound, ConnectionType
    <2>2. {pvs[i].pid : i \in DOMAIN pvs} \in SUBSET PacketIds
      BY <1>3, Zenon
    <2>3. \A r : IdsAnsweredBy(pvs, r) \in SUBSET PacketIds
      BY <1>3, Zenon DEF IdsAnsweredBy
    <2>4. \A S, T \in SUBSET PacketIds : S \cup T \in SUBSET PacketIds
      BY Zenon
    <2> QED BY <2>1, <2>2, <2>3, <2>4, Zenon
  <1>5. st \in Seq(StorePackets) /\ StoreSound(st)
    <2>1. st = pvs
      BY <1>2
    <2> QED BY <1>2, <2>1
  <1> HIDE DEF a, b, c, d, st
  <1>6. t \in ConnectionType
    BY <1>4, <1>5, ZenonT(40) DEF Sound, ConnectionType, TimersSound
  <1> QED BY <1>1, <1>5, <1>6, ZenonT(40) DEF Sound, ConnectionType, TimersSound

-----------------------------------------------------------------------------
(***************************************************************************)
(* The application and the peer                                            *)
(***************************************************************************)
TypeInv == TypeOK /\ Sound(con)

\* The CONNECT and CONNACK packets, and those the peer sends, are packets.
LEMMA UsedPackets ==
  /\ \A p \in Connects : p \in Packet /\ p.type = "connect"
  /\ \A p \in UsedConnacks : p \in Packet /\ p.type = "connack"
  /\ \A p \in PeerPackets :
       /\ p \in Packet /\ p.type \notin {"connect", "connack"}
       /\ p.type = "publish" /\ p.qos > 0 => p.pid # NoId
  <1>1. \A p \in Connects : p \in Packet /\ p.type = "connect"
    BY UseAssumption DEF Packet, ConnectPackets
  <1>2. \A p \in UsedConnacks : p \in Packet /\ p.type = "connack"
    BY UseAssumption DEF Packet, ConnackPackets, UsedConnacks
  <1>3. \A p \in PeerPublish : p \in PublishPackets
    <2>1. \A qos \in UsedQos, pid \in PeerIds \cup {NoId}, topic \in Topics \cup {NoTopic},
             alias \in UsedAliases, payload \in Payloads :
            PublishPacket(qos, pid, topic, alias, payload) \in PublishPackets
      BY UseAssumption, Zenon DEF PublishPacket, PublishPackets
    <2>2. SUFFICES ASSUME NEW p \in PeerPublish PROVE p \in PublishPackets
      OBVIOUS
    <2>3. PICK qos \in UsedQos, pid \in PeerIds \cup {NoId}, topic \in Topics \cup {NoTopic},
               alias \in UsedAliases, payload \in Payloads :
                 p = PublishPacket(qos, pid, topic, alias, payload)
      BY SMT DEF PeerPublish
    <2> QED BY <2>1, <2>3, Zenon
  <1>4. \A p \in PublishPackets : p \in Packet /\ p.type = "publish"
    BY DEF Packet, PublishPackets
  <1>5. \A type \in UsedIdPackets : type \in {"subscribe", "unsubscribe"}
    BY UseAssumption
  <1>6. \A pid \in PeerIds : pid \in PacketIds
    BY UseAssumption, Zenon
  <1>7. ASSUME NEW p \in PeerPackets
        PROVE  \/ p \in PeerPublish /\ (p.qos = 0 <=> p.pid = NoId)
               \/ \E type \in {"puback", "pubrec"}, pid \in PacketIds, ok \in BOOLEAN :
                    p = Answer(type, pid, ok)
               \/ \E type \in {"pubrel", "pubcomp", "suback", "unsuback", "subscribe", "unsubscribe"},
                     pid \in PacketIds : p = WithId(type, pid)
               \/ \E type \in {"auth", "disconnect", "pingresp", "pingreq"} : p = Plain(type)
    <2>1. CASE p \in PeerAnswers
      <3>1. Outcomes \subseteq BOOLEAN
        BY Zenon DEF Outcomes
      <3> QED BY <2>1, <3>1 DEF PeerAnswers
    <2>2. CASE p \in PeerIdPackets
      BY <1>5, <1>6, <2>2, SMTT(20) DEF PeerIdPackets
    <2>3. CASE p \in PeerPlain
      BY <2>3, SMTT(20) DEF PeerPlain
    <2> QED BY <2>1, <2>2, <2>3 DEF PeerPackets
  <1>8. ASSUME NEW p \in PeerPackets
        PROVE  /\ p \in Packet /\ p.type \notin {"connect", "connack"}
               /\ p.type = "publish" /\ p.qos > 0 => p.pid # NoId
    <2>1. CASE p \in PeerPublish /\ (p.qos = 0 <=> p.pid = NoId)
      BY <1>3, <1>4, <2>1
    <2>2. CASE \E type \in {"puback", "pubrec"}, pid \in PacketIds, ok \in BOOLEAN :
                 p = Answer(type, pid, ok)
      BY <2>2, OwnPackets, SMTT(20)
    <2>3. CASE \E type \in {"pubrel", "pubcomp", "suback", "unsuback", "subscribe", "unsubscribe"},
                  pid \in PacketIds : p = WithId(type, pid)
      BY <2>3, OwnPackets, SMTT(20)
    <2>4. CASE \E type \in {"auth", "disconnect", "pingresp", "pingreq"} : p = Plain(type)
      BY <2>4, OwnPackets, SMTT(20)
    <2> QED BY <1>7, <2>1, <2>2, <2>3, <2>4, SMTT(20)
  <1> QED BY <1>1, <1>2, <1>8

\* The number of exchanges in flight is an integer.
LEMMA ResumedInt ==
  ASSUME NEW s \in ConnectionType, NEW r \in SUBSET PacketIds
  PROVE  Resumed(s, r) \in Int
  <1>1. IsFiniteSet(PacketIds)
    BY Bounds, FS_Interval, SMTT(20) DEF PacketIds
  <1>2. InFlight(s, r) \subseteq PacketIds
    BY DEF InFlight, ConnectionType
  <1>3. IsFiniteSet(InFlight(s, r))
    BY <1>1, <1>2, FS_Subset
  <1>4. Cardinality(InFlight(s, r)) \in Nat
    BY <1>3, FS_CardinalityType, SMTT(20)
  <1>5. s.publish_send_count \in Int
    BY DEF ConnectionType
  <1> QED BY <1>4, <1>5 DEF Resumed

\* A constructed connection is sound.
LEMMA InitSound == Init => TypeInv
  <1>1. SUFFICES ASSUME Init PROVE TypeInv
    OBVIOUS
  <1>2. \A s \in Setups : s[1] \in Roles /\ s[2] \in Versions \cup {"undetermined"}
    BY UseAssumption
  <1>3. Sound(con)
    BY <1>1, <1>2, NewSound DEF Init
  <1> QED BY <1>1, <1>3 DEF Init, TypeInv, TypeOK, Sound

\* A PUBLISH of the application carries an identifier that it may use.
LEMMA PublishCalls ==
  ASSUME Publish
  PROVE  \E qos \in UsedQos, pid \in PacketIds \cup {NoId}, topic \in Topics \cup {NoTopic},
            alias \in UsedAliases, payload \in Payloads :
           /\ qos # 0 => pid \in PacketIds \ rec \/ pid \in held
           /\ SendPublish(PublishPacket(qos, pid, topic, alias, payload))
           /\ held' = held \ {pid} /\ UNCHANGED <<link, rec, resumed>>
  <1>1. PICK qos \in UsedQos, pid \in PacketIds \cup {NoId}, topic \in Topics \cup {NoTopic},
             alias \in UsedAliases, payload \in Payloads :
          LET p == PublishPacket(qos, pid, topic, alias, payload)
              verdict == PublishVerdict(con, p)
          IN /\ con.protocol_version \in Versions
             /\ topic = NoTopic => alias # NoAlias
             /\ alias # NoAlias => V5
             /\ IF qos = 0 THEN pid = NoId
                ELSE pid \in IF "not_allocated" \in Careless THEN PacketIds \ rec ELSE held
             /\ verdict \in Risky => verdict \in Careless
             /\ SendPublish(p)
             /\ held' = held \ {pid} /\ UNCHANGED <<link, rec, resumed>>
    BY Zenon DEF Publish
  <1>2. qos # 0 => pid \in PacketIds \ rec \/ pid \in held
    BY <1>1, Zenon
  <1> QED BY <1>1, <1>2, Zenon

\* The calls of the application, of the peer and of time keep the type.
LEMMA NextSound == TypeInv /\ [Next]_vars => TypeInv'
  <1>1. SUFFICES ASSUME TypeInv, [Next]_vars PROVE TypeInv'
    OBVIOUS
  <1>2. /\ Sound(con) /\ con \in ConnectionType /\ link \in {"down", "fresh", "up"}
        /\ held \in SUBSET PacketIds /\ rec \in SUBSET PacketIds /\ resumed \in Int
    BY <1>1 DEF TypeInv, TypeOK
  <1>3. SUFFICES /\ Sound(con') /\ link' \in {"down", "fresh", "up"}
                 /\ held' \in SUBSET PacketIds /\ rec' \in SUBSET PacketIds /\ resumed' \in Int
    BY DEF TypeInv, TypeOK, Sound
  <1> DEFINE Others == /\ link' \in {"down", "fresh", "up"}
                       /\ held' \in SUBSET PacketIds /\ rec' \in SUBSET PacketIds
                       /\ resumed' \in Int
  <1>4. CASE UNCHANGED vars
    BY <1>2, <1>4 DEF vars
  <1>5. CASE LinkUp
    <2>1. Others
      BY <1>2, <1>5, SMTT(20) DEF LinkUp
    <2>2. CASE ~ IsClient
      <3>1. PICK s \in Setups : con' = [NewConnection(s[1], s[2]) EXCEPT !.option = con.option]
        BY <1>5, <2>2 DEF LinkUp
      <3>2. Sound(NewConnection(s[1], s[2]))
        <4>1. s[1] \in Roles /\ s[2] \in Versions \cup {"undetermined"}
          BY UseAssumption, Zenon
        <4> QED BY <4>1, NewSound, Zenon
      <3> QED BY <1>2, <2>1, <3>1, <3>2, ZenonT(40) DEF Sound, ConnectionType, TimersSound
    <2> QED BY <1>2, <1>5, <2>1, <2>2 DEF LinkUp
  <1>6. CASE LinkDown
    BY <1>2, <1>6, ClosedSound, SMTT(20) DEF LinkDown
  <1>7. CASE Acquire \/ Register_ \/ Release
    <2>1. PICK pid \in PacketIds :
            /\ AcquireUniquePacketId(pid) \/ RegisterPacketId(pid) \/ ReleasePacketId(pid)
            /\ held' = held \cup {pid} \/ held' = held \ {pid}
      BY <1>2, <1>7, SMTT(20) DEF Acquire, Register_, Release
    <2>2. Others
      BY <1>2, <1>7, <2>1 DEF Acquire, Register_, Release
    <2> QED BY <1>2, <2>1, <2>2, IdSound
  <1>8. CASE Restore
    BY <1>2, <1>8, RestoreSound DEF Restore
  <1>9. CASE RestoreHandled
    <2>1. PICK pids \in SUBSET PacketIds : con' = [con EXCEPT !.qos2_publish_handled = pids]
      BY <1>9, UseAssumption, Zenon DEF RestoreHandled, RestoreQos2PublishHandledPids
    <2>2. Sound(con')
      BY <1>2, <2>1, ZenonT(40) DEF Sound, ConnectionType, TimersSound
    <2> QED BY <1>2, <1>9, <2>2 DEF RestoreHandled
  <1>10. CASE Configure
    <2>1. Others
      BY <1>2, <1>10 DEF Configure
    <2>2. CASE \E o \in UsedOptions, val \in BOOLEAN : SetOption(o, val)
      <3>1. PICK o \in Options : \/ con' = [con EXCEPT !.option = con.option \cup {o}]
                                 \/ con' = [con EXCEPT !.option = con.option \ {o}]
        BY <2>2, UseAssumption, Zenon DEF SetOption
      <3>2. con.option \cup {o} \in SUBSET Options /\ con.option \ {o} \in SUBSET Options
        BY <1>2 DEF ConnectionType
      <3>3. \A O \in SUBSET Options : Sound([con EXCEPT !.option = O])
        BY <1>2, ZenonT(40) DEF Sound, ConnectionType, TimersSound
      <3> QED BY <2>1, <3>1, <3>2, <3>3
    <2>3. CASE \E d \in PingreqIntervals : SetPingreqInterval(d)
      <3>1. PICK d \in PingreqIntervals : SetPingreqInterval(d)
        BY <2>3, Zenon
      <3>2. con' = SetPingreqSendInterval(con, d)
        BY <3>1, Zenon DEF SetPingreqInterval
      <3>3. d \in Nat
        BY UseAssumption, Zenon
      <3>4. Sound(con')
        BY <1>2, <3>2, <3>3, IntervalSound, Zenon
      <3> QED BY <2>1, <3>4, Zenon
    <2>4. CASE \E d \in PingrespTimeouts : SetPingrespRecvTimeout(d)
      <3>1. PICK d \in Nat : con' = [con EXCEPT !.pingresp_recv_timeout = d]
        BY <2>4, UseAssumption DEF SetPingrespRecvTimeout
      <3> QED BY <1>2, <2>1, <3>1, ZenonT(40) DEF Sound, ConnectionType, TimersSound
    <2> QED BY <1>10, <2>2, <2>3, <2>4 DEF Configure
  <1>11. CASE SendConnect
    <2>1. PICK p \in Connects : Send(p) /\ held' = (IF p.clean THEN {} ELSE held)
                                /\ rec' = (IF p.clean THEN {} ELSE rec)
      BY <1>11, Zenon DEF SendConnect
    <2>2. Others
      BY <1>2, <1>11, <2>1 DEF SendConnect
    <2> QED BY <1>2, <2>1, <2>2, UsedPackets, SendSound DEF Send
  <1>12. CASE SendConnack
    <2>1. Sound(con')
      BY <1>2, <1>12, UsedPackets, SendSound DEF SendConnack, Send
    <2>2. Resumed(con', rec) \in Int
      BY <1>2, <2>1, ResumedInt, SMTT(20) DEF Sound
    <2> QED BY <1>2, <1>12, <2>1, <2>2, SMTT(20) DEF SendConnack
  <1>13. CASE Publish
    <2>1. PICK qos \in UsedQos, pid \in PacketIds \cup {NoId}, topic \in Topics \cup {NoTopic},
               alias \in UsedAliases, payload \in Payloads :
            /\ qos # 0 => pid \in PacketIds \ rec \/ pid \in held
            /\ SendPublish(PublishPacket(qos, pid, topic, alias, payload))
            /\ held' = held \ {pid} /\ UNCHANGED <<link, rec, resumed>>
      BY <1>13, PublishCalls, Zenon
    <2> DEFINE p == PublishPacket(qos, pid, topic, alias, payload)
    <2>2. p \in PublishPackets /\ p.qos = qos /\ p.pid = pid
      BY UseAssumption, Zenon DEF PublishPacket, PublishPackets
    <2>3. qos # 0 => pid \in PacketIds
      BY <1>2, <2>1, SMTT(20)
    <2>4. qos \in 0 .. 2 /\ NoId \notin PacketIds
      <3>1. UsedQos \subseteq 0 .. 2
        BY UseAssumption, Zenon
      <3>2. NoId \notin PacketIds
        BY Bounds DEF PacketIds, NoId
      <3> QED BY <2>1, <3>1, <3>2
    <2> HIDE DEF p
    <2>5. SendPublish(p)
      BY <2>1 DEF p
    <2>6. p.qos > 0 => p.pid # NoId
      <3>1. qos > 0 => qos # 0
        BY <2>4
      <3> QED BY <2>2, <2>3, <2>4, <3>1, Zenon
    <2>7. Sound(con')
      BY <1>2, <2>2, <2>5, <2>6, PublishSound
    <2> QED BY <1>2, <2>1, <2>7, SMTT(20)
  <1>14. CASE SendWithId \/ SendError
    <2>1. PICK type \in UsedIdPackets, pid \in held :
            \/ con' = SendPacket(con, WithId(type, pid))
            \/ con' = ReleaseIds(SendPacket(con, WithId(type, pid)), {pid})
      BY <1>14, Zenon DEF SendWithId, SendError, Send
    <2>2. type \in {"subscribe", "unsubscribe"} /\ pid \in PacketIds
      BY <1>2, UseAssumption
    <2>3. WithId(type, pid) \in Packet /\ WithId(type, pid).type = type
      BY <2>2, OwnPackets, SMTT(20)
    <2>4. Sound(SendPacket(con, WithId(type, pid)))
      BY <1>2, <2>2, <2>3, SendSound
    <2>5. Others
      BY <1>2, <1>14, ZenonT(40) DEF SendWithId, SendError
    <2> QED BY <2>1, <2>4, <2>5, ReleaseSound
  <1>15. CASE SendPubrel
    <2>1. PICK pid \in rec : con' = SendPacket(con, WithId("pubrel", pid))
      BY <1>15 DEF SendPubrel, Send
    <2>2. WithId("pubrel", pid) \in Packet /\ WithId("pubrel", pid).type = "pubrel"
      BY <1>2, OwnPackets
    <2>3. Others
      BY <1>2, <1>15, SMTT(20) DEF SendPubrel
    <2> QED BY <1>2, <2>1, <2>2, <2>3, SendSound
  <1>16. CASE SendAnswer
    <2>1. PICK pid \in PeerIds, ok \in BOOLEAN :
            \/ \E type \in {"puback", "pubrec"} : con' = SendPacket(con, Answer(type, pid, ok))
            \/ con' = SendPacket(con, WithId("pubcomp", pid))
      BY <1>16 DEF SendAnswer, Send
    <2>2. pid \in PacketIds
      BY UseAssumption
    <2>3. PICK p \in Packet : p.type \notin {"connect", "connack"} /\ con' = SendPacket(con, p)
      BY <2>1, <2>2, OwnPackets
    <2> QED BY <1>2, <1>16, <2>3, SendSound, SMTT(20) DEF SendAnswer
  <1>17. CASE SendPlain
    <2>1. PICK type \in {"pingreq", "pingresp", "auth", "disconnect"} :
            con' = SendPacket(con, Plain(type))
      BY <1>17 DEF SendPlain, Send
    <2>2. Plain(type) \in Packet /\ Plain(type).type = type
      BY OwnPackets
    <2> QED BY <1>2, <1>17, <2>1, <2>2, SendSound DEF SendPlain
  <1>18. CASE Tick
    <2> DEFINE f == [k \in Timers |-> IF con.timer[k] = 0 THEN 0 ELSE con.timer[k] - 1]
    <2>1. con' = [con EXCEPT !.timer = f]
      BY <1>18 DEF Tick
    <2>2. \A k \in Timers : con.timer[k] \in Nat
      BY <1>2 DEF ConnectionType
    <2>3. /\ f \in [Timers -> Nat]
          /\ \A k \in Timers : f[k] # 0 => con.timer[k] # 0
      <3>1. \A n \in Nat : n = 0 \/ n - 1 \in Nat
        OBVIOUS
      <3>2. 0 \in Nat
        OBVIOUS
      <3>3. \A k \in Timers : (IF con.timer[k] = 0 THEN 0 ELSE con.timer[k] - 1) \in Nat
        BY <2>2, <3>1, <3>2, Zenon
      <3> QED BY <3>3, Zenon
    <2>4. "pingreq_recv" \in Timers /\ "pingresp_recv" \in Timers
      BY DEF Timers
    <2> HIDE DEF f
    <2>5. Sound(con')
      BY <1>2, <2>1, <2>3, <2>4, ZenonT(40) DEF Sound, ConnectionType, TimersSound
    <2> QED BY <1>2, <1>18, <2>5 DEF Tick
  <1>19. CASE \E kind \in Timers : TimerFires(kind)
    BY <1>2, <1>19, TimerSound DEF TimerFires
  <1>20. CASE ReceiveConnect
    BY <1>2, <1>20, UsedPackets, RecvSound DEF ReceiveConnect
  <1>21. CASE ReceiveBadConnect \/ ReceiveBad
    BY <1>2, <1>21, MalformedSound, ZenonT(40) DEF ReceiveBadConnect, ReceiveBad
  <1>22. CASE ReceiveConnack
    <2>1. Sound(con') /\ link' \in {"down", "fresh", "up"}
      BY <1>2, <1>22, UsedPackets, RecvSound DEF ReceiveConnack
    <2>2. held' \in SUBSET PacketIds /\ rec' \in SUBSET PacketIds
      BY <1>2, <1>22 DEF ReceiveConnack
    <2>3. Resumed(con', rec') \in Int
      BY <2>1, <2>2, ResumedInt DEF Sound
    <2> QED BY <1>2, <1>22, <2>1, <2>2, <2>3 DEF ReceiveConnack
  <1>23. CASE Receive
    <2>1. PICK p \in PeerPackets : Recv(p) /\ (rec' = rec \/ (p.type = "pubrec" /\ rec' = rec \cup {p.pid}))
      BY <1>23 DEF Receive
    <2>2. Sound(con')
      BY <1>2, <2>1, UsedPackets, RecvSound
    <2>3. p.type = "pubrec" => p.pid \in PacketIds
      BY UsedPackets, Kinds DEF AnswerPackets
    <2>4. rec' \in SUBSET PacketIds
      BY <1>2, <2>1, <2>3
    <2>5. link' = link /\ held' = held /\ resumed' = resumed
      BY <1>23 DEF Receive
    <2> QED BY <1>2, <2>2, <2>4, <2>5, Zenon
  <1> QED BY ZenonT(40),
             <1>1, <1>4, <1>5, <1>6, <1>7, <1>8, <1>9, <1>10, <1>11, <1>12, <1>13, <1>14, <1>15,
             <1>16, <1>17, <1>18, <1>19, <1>20, <1>21, <1>22, <1>23 DEF Next

\* Type correctness: in every reachable state the members of the connection hold
\* values of their types; in particular publish_send_count_, which is decremented
\* for answers to PUBLISH packets that were never counted, stays in its width.
THEOREM TypeCorrect == Spec => []TypeOK
  <1>1. Init => TypeInv
    BY InitSound
  <1>2. TypeInv /\ [Next]_vars => TypeInv'
    BY NextSound
  <1>3. TypeInv => TypeOK
    BY DEF TypeInv
  <1> QED BY <1>1, <1>2, <1>3, PTL DEF Spec

\* The sending table of topic aliases stays sound however the application maps
\* aliases by hand and the connection maps and replaces them automatically.
THEOREM AliasTableAlwaysSound == Spec => []AliasTableSound
  <1>1. Init => TypeInv
    BY InitSound
  <1>2. TypeInv /\ [Next]_vars => TypeInv'
    BY NextSound
  <1>3. TypeInv => AliasTableSound
    BY DEF TypeInv, Sound, AliasTableSound
  <1> QED BY <1>1, <1>2, <1>3, PTL DEF Spec

\* No keep alive timer outlives the connection it watches, in whatever order calls,
\* packets and timers come: every way a connection ends cancels its timers, and a
\* timer set by the handler of a packet is set after the status is known.
THEOREM TimersAlwaysFollowStatus == Spec => []TimersFollowStatus
  <1>1. Init => TypeInv
    BY InitSound
  <1>2. TypeInv /\ [Next]_vars => TypeInv'
    BY NextSound
  <1>3. TypeInv => TimersFollowStatus
    BY DEF TypeInv, Sound, TimersSound, TimersFollowStatus
  <1> QED BY <1>1, <1>2, <1>3, PTL DEF Spec

\* Every stored PUBLISH can be sent on a later network connection: the alias it was
\* sent with has been replaced by the topic name, for every sequence of manual and
\* automatic aliases and of limits the peer sets.
THEOREM StoredAlwaysHasTopic == Spec => []StoredHasTopic
  <1>1. Init => TypeInv
    BY InitSound
  <1>2. TypeInv /\ [Next]_vars => TypeInv'
    BY NextSound
  <1>3. TypeInv => StoredHasTopic
    BY DEF TypeInv, Sound, StoreSound, StoredHasTopic
  <1> QED BY <1>1, <1>2, <1>3, PTL DEF Spec
-----------------------------------------------------------------------------
(***************************************************************************)
(* Calls that are quiet                                                    *)
(***************************************************************************)
\* Changing what only the receiving side, the setters and the application look at
\* is quiet.
LEMMA QuietFields ==
  ASSUME NEW s \in ConnectionType
  PROVE  /\ \A S \in SUBSET PacketIds : Quiet(s, [s EXCEPT !.qos2_publish_handled = S])
         /\ \A S, R \in SUBSET PacketIds :
              Quiet(s, [s EXCEPT !.publish_recv = S, !.qos2_publish_handled = R])
         /\ \A t \in AliasRecvType : Quiet(s, [s EXCEPT !.topic_alias_recv = t])
         /\ \A O \in SUBSET Options : Quiet(s, [s EXCEPT !.option = O])
         /\ \A d \in Nat : /\ Quiet(s, [s EXCEPT !.pingresp_recv_timeout = d])
                           /\ Quiet(s, [s EXCEPT !.pingreq_send_interval = d])
  <1>1. \A S \in SUBSET PacketIds : Quiet(s, [s EXCEPT !.qos2_publish_handled = S])
    BY ZenonT(40) DEF ConnectionType, Quiet, TimersSound
  <1>2. \A S, R \in SUBSET PacketIds :
          Quiet(s, [s EXCEPT !.publish_recv = S, !.qos2_publish_handled = R])
    BY ZenonT(200) DEF ConnectionType, Quiet, TimersSound
  <1>3. \A t \in AliasRecvType : Quiet(s, [s EXCEPT !.topic_alias_recv = t])
    BY ZenonT(40) DEF ConnectionType, Quiet, TimersSound
  <1>4. \A O \in SUBSET Options : Quiet(s, [s EXCEPT !.option = O])
    BY ZenonT(40) DEF ConnectionType, Quiet, TimersSound
  <1>5. \A d \in Nat : Quiet(s, [s EXCEPT !.pingresp_recv_timeout = d])
    BY ZenonT(40) DEF ConnectionType, Quiet, TimersSound
  <1>6. \A d \in Nat : Quiet(s, [s EXCEPT !.pingreq_send_interval = d])
    BY ZenonT(40) DEF ConnectionType, Quiet, TimersSound
  <1> QED BY <1>1, <1>2, <1>3, <1>4, <1>5, <1>6, Zenon

\* Receiving PUBLISH is quiet, the answer sent for it included.
LEMMA QuietRecvPublish ==
  ASSUME con \in ConnectionType, NEW p \in PublishPackets, p.qos > 0 => p.pid # NoId,
         RecvPublish(p)
  PROVE  Quiet(con, con')
  <1> DEFINE handled == p.qos = 2 /\ p.pid \in con.qos2_publish_handled
             topic == RecvTopic(con, p)
             respond == (p.qos > 0 /\ IsSet(con, "auto_pub_response")) \/ handled
             a == IF p.qos > 0 /\ con.protocol_version = "v5"
                  THEN con.publish_recv \cup {p.pid} ELSE con.publish_recv
             b == IF p.qos = 2 THEN con.qos2_publish_handled \cup {p.pid}
                  ELSE con.qos2_publish_handled
             taken == [con EXCEPT !.publish_recv = a, !.qos2_publish_handled = b]
             mapped == IF p.topic # NoTopic /\ p.alias # NoAlias
                       THEN [taken EXCEPT !.topic_alias_recv =
                               Register(taken.topic_alias_recv, p.topic, p.alias)]
                       ELSE taken
             answer == Answer(IF p.qos = 1 THEN "puback" ELSE "pubrec", p.pid, TRUE)
             sent == IF respond THEN SendPacket(mapped, answer) ELSE mapped
             answered == PingreqRecvOp(sent)
  <1>1. \/ con' = SendDisconnect(con)
        \/ con' = SendDisconnect(taken)
        \/ topic # NoTopic /\ con' = answered
        \/ topic # NoTopic /\ con' = OnReceive(answered, [p EXCEPT !.topic = topic])
    BY Zenon DEF RecvPublish
  <1>2. p \in Packet /\ p.qos \in 0 .. 2 /\ p.alias \in 0 .. MaxAlias
        /\ p.topic \in Topics \cup {NoTopic} /\ (p.qos > 0 => p.pid \in PacketIds)
    BY DEF Packet, PublishPackets
  <1>3. Quiet(con, taken) /\ taken \in ConnectionType
    <2>1. a \in SUBSET PacketIds /\ b \in SUBSET PacketIds
      <3>1. con.publish_recv \in SUBSET PacketIds /\ con.qos2_publish_handled \in SUBSET PacketIds
        BY Zenon DEF ConnectionType
      <3>2. p.qos > 0 => \A S \in SUBSET PacketIds : S \cup {p.pid} \in SUBSET PacketIds
        BY <1>2, Zenon
      <3>3. p.qos = 2 => p.qos > 0
        BY <1>2
      <3> QED BY <3>1, <3>2, <3>3, Zenon
    <2> HIDE DEF a, b
    <2>2. Quiet(con, taken)
      BY <2>1, QuietFields, Zenon
    <2> QED BY <2>2 DEF Quiet
  <1>4. con.topic_alias_recv \in AliasRecvType
    BY DEF ConnectionType
  <1>5. p.alias # NoAlias => p.alias \in Aliases
    BY <1>2, Bounds DEF NoAlias, Aliases
  <1>6. [p EXCEPT !.topic = topic] \in Packet
    <2>1. topic \in Topics \cup {NoTopic}
      BY <1>2, <1>4, <1>5, Zenon DEF RecvTopic, AliasRecvType
    <2> HIDE DEF topic
    <2> QED BY <2>1 DEF Packet, PublishPackets
  <1> HIDE DEF taken
  <1>7. Quiet(con, mapped) /\ mapped \in ConnectionType
    <2>1. CASE p.topic # NoTopic /\ p.alias # NoAlias
      <3> DEFINE r == Register(taken.topic_alias_recv, p.topic, p.alias)
      <3>1. taken.topic_alias_recv \in AliasRecvType
        BY <1>3 DEF ConnectionType
      <3>2. r \in AliasRecvType
        BY <1>2, <1>5, <2>1, <3>1 DEF Register, AliasRecvType
      <3>3. mapped = [taken EXCEPT !.topic_alias_recv = r]
        BY <2>1
      <3> HIDE DEF r, mapped
      <3>4. Quiet(taken, mapped)
        BY <1>3, <3>2, <3>3, QuietFields, Zenon
      <3> QED BY <1>3, <3>4, QuietTrans DEF Quiet
    <2> QED BY <1>3, <2>1
  <1> HIDE DEF mapped
  <1>8. respond => answer \in Packet /\ answer.type \in QuietTypes
    <2> DEFINE type == IF p.qos = 1 THEN "puback" ELSE "pubrec"
    <2>0. p.qos \in 0 .. 2 /\ (p.qos = 2 => p.qos > 0) /\ (p.qos > 0 => p.pid \in PacketIds)
      BY <1>2
    <2>1. type \in {"puback", "pubrec"} /\ (respond => p.pid \in PacketIds)
      BY <2>0, Zenon
    <2>2. answer = Answer(type, p.pid, TRUE)
      OBVIOUS
    <2> HIDE DEF type, answer
    <2>3. ASSUME NEW pid \in PacketIds
          PROVE  /\ Answer(type, pid, TRUE) \in Packet
                 /\ Answer(type, pid, TRUE).type \in {"puback", "pubrec"}
      BY <2>1 DEF Answer, Packet, AnswerPackets
    <2>4. {"puback", "pubrec"} \subseteq QuietTypes
      BY DEF QuietTypes
    <2> QED BY <2>1, <2>2, <2>3, <2>4, ZenonT(40)
  <1> HIDE DEF answer
  <1>9. Quiet(con, sent) /\ sent \in ConnectionType
    <2>1. respond => Quiet(mapped, SendPacket(mapped, answer))
      BY <1>7, <1>8, QuietSend, ZenonT(40)
    <2> QED BY <1>7, <2>1, QuietTrans, ZenonT(40) DEF Quiet
  <1> HIDE DEF sent
  <1>10. Quiet(con, answered) /\ answered \in ConnectionType
    BY <1>9, QuietPingreqRecvOp, QuietTrans, Zenon DEF Quiet
  <1> HIDE DEF answered, topic
  <1>11. /\ Quiet(con, SendDisconnect(con)) /\ Quiet(taken, SendDisconnect(taken))
         /\ Quiet(answered, OnReceive(answered, [p EXCEPT !.topic = topic]))
    BY <1>3, <1>6, <1>10, QuietSendDisconnect, QuietOnReceive
  <1> QED BY <1>1, <1>3, <1>10, <1>11, QuietTrans

\* The packets that end no exchange and are no CONNECT or CONNACK.
LEMMA QuietRecv ==
  ASSUME con \in ConnectionType, NEW p \in Packet, Recv(p),
         p.type = "publish" /\ p.qos > 0 => p.pid # NoId,
         \/ p.type \in {"publish", "pubrel", "pingreq", "pingresp", "disconnect",
                        "subscribe", "unsubscribe", "auth"}
         \/ ~ RecvHandled(p)
         \/ p.type = "puback" /\ p.pid \notin con.pid_puback
         \/ p.type = "pubrec" /\ p.pid \notin con.pid_pubrec
         \/ p.type = "pubcomp" /\ p.pid \notin con.pid_pubcomp
         \/ p.type = "suback" /\ p.pid \notin con.pid_suback
         \/ p.type = "unsuback" /\ p.pid \notin con.pid_unsuback
  PROVE  Quiet(con, con')
  <1>1. CASE RecvTooLarge(p) \/ RecvOutOfPlace(p)
    BY <1>1, QuietSendDisconnect, QuietRefl, ZenonT(40) DEF RecvTooLarge, RecvOutOfPlace
  <1>2. CASE p.type = "publish" /\ RecvPublish(p)
    <2>1. p \in PublishPackets /\ RecvPublish(p)
      BY <1>2, Kinds, Zenon
    <2>2. p.qos > 0 => p.pid # NoId
      BY <1>2, Zenon
    <2> QED BY <2>1, <2>2, QuietRecvPublish, Zenon
  <1>3. CASE con' = ProtocolError(con)
    BY <1>3, QuietProtocolError
  <1>4. CASE p.type = "pubrel" /\ RecvPubrel(p)
    <2> DEFINE s == [con EXCEPT !.qos2_publish_handled = con.qos2_publish_handled \ {p.pid}]
               q == WithId("pubcomp", p.pid)
    <2>1. con' = Received(SendPacket(s, q), p) \/ con' = Received(s, p)
      BY <1>4 DEF RecvPubrel
    <2>2. Quiet(con, s) /\ s \in ConnectionType
      <3>1. con.qos2_publish_handled \ {p.pid} \in SUBSET PacketIds
        BY DEF ConnectionType
      <3>2. Quiet(con, s)
        BY <3>1, QuietFields, Zenon
      <3> QED BY <3>2 DEF Quiet
    <2>3. q \in Packet /\ q.type \in QuietTypes
      <3>1. p \in IdPackets
        BY <1>4, Kinds, Zenon
      <3>2. p.pid \in PacketIds
        BY <3>1 DEF IdPackets
      <3>3. q \in Packet /\ q.type = "pubcomp"
        BY <3>2, OwnPackets, Zenon
      <3> QED BY <3>3, Zenon DEF QuietTypes
    <2> HIDE DEF s, q
    <2>4. Quiet(s, SendPacket(s, q)) /\ SendPacket(s, q) \in ConnectionType
      BY <2>2, <2>3, QuietSend, ZenonT(40) DEF Quiet
    <2>5. Quiet(s, Received(s, p)) /\ Quiet(SendPacket(s, q), Received(SendPacket(s, q), p))
      BY <2>2, <2>4, QuietReceived
    <2>6. Quiet(con, Received(s, p))
      BY <2>2, <2>5, QuietTrans, Zenon
    <2>7. Quiet(con, SendPacket(s, q))
      BY <2>2, <2>4, QuietTrans, Zenon
    <2>8. Quiet(con, Received(SendPacket(s, q), p))
      BY <2>5, <2>7, QuietTrans, Zenon
    <2> QED BY <2>1, <2>6, <2>8, Zenon
  <1>5. CASE p.type = "pingreq" /\ RecvPingreq(p)
    <2> DEFINE q == Plain("pingresp")
    <2>1. con' = Received(SendPacket(con, q), p) \/ con' = Received(con, p)
      BY <1>5 DEF RecvPingreq
    <2>2. q \in Packet /\ q.type \in QuietTypes
      BY OwnPackets DEF QuietTypes
    <2> HIDE DEF q
    <2>3. Quiet(con, SendPacket(con, q)) /\ SendPacket(con, q) \in ConnectionType
      BY <2>2, QuietSend, ZenonT(40) DEF Quiet
    <2>4. Quiet(con, Received(con, p)) /\ Quiet(SendPacket(con, q), Received(SendPacket(con, q), p))
      BY <2>3, QuietReceived, Zenon
    <2>5. Quiet(con, Received(SendPacket(con, q), p))
      BY <2>3, <2>4, QuietTrans, Zenon
    <2> QED BY <2>1, <2>4, <2>5, Zenon
  <1>6. CASE p.type = "pingresp" /\ RecvPingresp(p)
    <2> DEFINE t == CancelTimer(con, "pingresp_recv")
    <2>1. "pingresp_recv" \in Timers /\ con' = OnReceive(t, p)
      BY <1>6, ZenonT(40) DEF Timers, RecvPingresp
    <2>2. Quiet(con, t)
      <3>1. Quiet(con, ResetTimer(con, "pingresp_recv", 0))
        BY <2>1, QuietResetTimer
      <3> QED BY <3>1, Zenon DEF CancelTimer
    <2> HIDE DEF t
    <2>3. t \in ConnectionType
      BY <2>2, Zenon DEF Quiet
    <2> QED BY <2>1, <2>2, <2>3, QuietOnReceive, QuietTrans, ZenonT(40)
  <1>7. CASE p.type = "disconnect" /\ RecvDisconnect(p)
    <2> DEFINE t == CancelTimers([con EXCEPT !.status = "disconnected"])
    <2>1. con' = OnReceive(t, p)
      BY <1>7 DEF RecvDisconnect
    <2>2. Quiet(con, t) /\ t \in ConnectionType
      BY QuietEnded DEF Quiet
    <2> HIDE DEF t
    <2> QED BY <2>1, <2>2, QuietOnReceive, QuietTrans
  <1>8. CASE RecvOther(p)
    BY <1>8, QuietReceived DEF RecvOther
  <1> QED BY <1>1, <1>2, <1>3, <1>4, <1>5, <1>6, <1>7, <1>8
          DEF Recv, RecvHandled, RecvPuback, RecvPubrec, RecvPubcomp, RecvSuback, RecvUnsuback

\* The peer set no Maximum Packet Size.
Unlimited(s) == s.maximum_packet_size_send = NoLimit

\* Then every packet fits.
LEMMA AlwaysFits == \A s, p : Unlimited(s) => Fits(s, p)
  BY SizeWithinNoLimit DEF Unlimited, Fits

\* The calls of the application and of time that leave store and identifiers alone,
\* and bytes from the peer that are no packet.
LEMMA QuietCalls ==
  ASSUME con \in ConnectionType,
         \/ SendAnswer \/ SendPlain \/ Configure \/ RestoreHandled \/ ReceiveBad
         \/ Tick \/ \E kind \in Timers : TimerFires(kind)
  PROVE  Quiet(con, con') /\ UNCHANGED <<link, held, rec, resumed>>
  <1>1. ASSUME NEW p \in Packet, p.type \in QuietTypes, con' = SendPacket(con, p)
        PROVE  Quiet(con, con')
    BY <1>1, QuietSend
  <1>2. CASE SendAnswer
    <2>1. PICK pid \in PeerIds, ok \in BOOLEAN :
            \/ \E type \in {"puback", "pubrec"} : con' = SendPacket(con, Answer(type, pid, ok))
            \/ con' = SendPacket(con, WithId("pubcomp", pid))
      BY <1>2 DEF SendAnswer, Send
    <2>2. pid \in PacketIds
      BY UseAssumption
    <2>3. PICK p \in Packet : p.type \in QuietTypes /\ con' = SendPacket(con, p)
      <3>1. ASSUME NEW type \in {"puback", "pubrec"}, con' = SendPacket(con, Answer(type, pid, ok))
            PROVE  \E p \in Packet : p.type \in QuietTypes /\ con' = SendPacket(con, p)
        <4>1. Answer(type, pid, ok) \in Packet /\ Answer(type, pid, ok).type = type
          BY <2>2, <3>1, OwnPackets
        <4>2. type \in QuietTypes
          BY <3>1, Zenon DEF QuietTypes
        <4> QED BY <3>1, <4>1, <4>2, Zenon
      <3>2. ASSUME con' = SendPacket(con, WithId("pubcomp", pid))
            PROVE  \E p \in Packet : p.type \in QuietTypes /\ con' = SendPacket(con, p)
        <4>1. WithId("pubcomp", pid) \in Packet /\ WithId("pubcomp", pid).type = "pubcomp"
          BY <2>2, OwnPackets, Zenon
        <4>2. "pubcomp" \in QuietTypes
          BY Zenon DEF QuietTypes
        <4> QED BY <3>2, <4>1, <4>2, Zenon
      <3> QED BY <2>1, <3>1, <3>2, Zenon
    <2> QED BY <1>1, <1>2, <2>3 DEF SendAnswer
  <1>3. CASE SendPlain
    <2>1. PICK type \in {"pingreq", "pingresp", "auth", "disconnect"} :
            con' = SendPacket(con, Plain(type))
      BY <1>3 DEF SendPlain, Send
    <2>2. Plain(type) \in Packet /\ Plain(type).type \in QuietTypes
      BY OwnPackets DEF QuietTypes
    <2> QED BY <1>1, <1>3, <2>1, <2>2 DEF SendPlain
  <1>4. CASE Configure
    <2>1. UNCHANGED <<link, held, rec, resumed>>
      BY <1>4 DEF Configure
    <2>2. CASE \E o \in UsedOptions, val \in BOOLEAN : SetOption(o, val)
      <3>1. PICK o \in Options : \/ con' = [con EXCEPT !.option = con.option \cup {o}]
                                 \/ con' = [con EXCEPT !.option = con.option \ {o}]
        BY <2>2, UseAssumption, Zenon DEF SetOption
      <3>2. con.option \cup {o} \in SUBSET Options /\ con.option \ {o} \in SUBSET Options
        BY DEF ConnectionType
      <3> QED BY <2>1, <3>1, <3>2, QuietFields, Zenon
    <2>3. CASE \E d \in PingreqIntervals : SetPingreqInterval(d)
      <3>1. PICK d \in Nat : con' = SetPingreqSendInterval(con, d)
        BY <2>3, UseAssumption DEF SetPingreqInterval
      <3> DEFINE t == [con EXCEPT !.pingreq_send_interval = d]
      <3>2. Quiet(con, t) /\ t \in ConnectionType /\ "pingreq_send" \in Timers
        <4>1. Quiet(con, t)
          BY QuietFields, Zenon
        <4>2. t \in ConnectionType
          BY <4>1, Zenon DEF Quiet
        <4> QED BY <4>1, <4>2 DEF Timers
      <3>3. con' = ResetTimer(t, "pingreq_send", d)
        BY <3>1 DEF SetPingreqSendInterval
      <3> HIDE DEF t
      <3>4. Quiet(t, con')
        BY <3>2, <3>3, QuietResetTimer
      <3> QED BY <2>1, <3>2, <3>4, QuietTrans
    <2>4. CASE \E d \in PingrespTimeouts : SetPingrespRecvTimeout(d)
      <3>1. PICK d \in Nat : con' = [con EXCEPT !.pingresp_recv_timeout = d]
        BY <2>4, UseAssumption DEF SetPingrespRecvTimeout
      <3> QED BY <2>1, <3>1, QuietFields, Zenon
    <2> QED BY <1>4, <2>2, <2>3, <2>4 DEF Configure
  <1>5. CASE RestoreHandled
    <2>1. PICK pids \in SUBSET PacketIds : con' = [con EXCEPT !.qos2_publish_handled = pids]
      BY <1>5, UseAssumption, Zenon DEF RestoreHandled, RestoreQos2PublishHandledPids
    <2> QED BY <1>5, <2>1, QuietFields, Zenon DEF RestoreHandled
  <1>6. CASE ReceiveBad
    <2> DEFINE t == CancelTimers([con EXCEPT !.status = "disconnected"])
    <2>1. con' = SendDisconnect(con) \/ con' = OnClose(con) \/ con' = OnClose(t)
      BY <1>6 DEF ReceiveBad, RecvMalformed, RecvUnframed
    <2>2. Quiet(con, t) /\ t \in ConnectionType
      BY QuietEnded DEF Quiet
    <2> HIDE DEF t
    <2>3. Quiet(t, OnClose(t)) /\ Quiet(con, OnClose(con)) /\ Quiet(con, SendDisconnect(con))
      BY <2>2, QuietOnClose, QuietSendDisconnect
    <2>4. Quiet(con, OnClose(t))
      BY <2>2, <2>3, QuietTrans, Zenon
    <2> QED BY <1>6, <2>1, <2>3, <2>4, Zenon DEF ReceiveBad
  <1>7. CASE Tick
    <2> DEFINE f == [k \in Timers |-> IF con.timer[k] = 0 THEN 0 ELSE con.timer[k] - 1]
    <2>1. con' = [con EXCEPT !.timer = f]
      BY <1>7 DEF Tick
    <2>2. \A k \in Timers : con.timer[k] \in Nat
      BY DEF ConnectionType
    <2>3. /\ f \in [Timers -> Nat]
          /\ \A k \in Timers : f[k] # 0 => con.timer[k] # 0
      <3>1. \A n \in Nat : n = 0 \/ n - 1 \in Nat
        OBVIOUS
      <3>2. 0 \in Nat
        OBVIOUS
      <3>3. \A k \in Timers : (IF con.timer[k] = 0 THEN 0 ELSE con.timer[k] - 1) \in Nat
        BY <2>2, <3>1, <3>2, Zenon
      <3> QED BY <3>3, Zenon
    <2>4. "pingreq_recv" \in Timers /\ "pingresp_recv" \in Timers
      BY DEF Timers
    <2> HIDE DEF f
    <2>5. Quiet(con, con')
      BY <2>1, <2>3, <2>4, ZenonT(40) DEF Quiet, ConnectionType, TimersSound
    <2> QED BY <1>7, <2>5 DEF Tick
  <1>8. CASE \E kind \in Timers : TimerFires(kind)
    <2>1. PICK kind \in Timers : NotifyTimerFired(kind) /\ UNCHANGED <<link, held, rec, resumed>>
      BY <1>8 DEF TimerFires
    <2> DEFINE s == CancelTimer(con, kind)
    <2>2. Quiet(con, s) /\ s \in ConnectionType
      <3>1. 0 \in Nat
        OBVIOUS
      <3>2. Quiet(con, s)
        BY <3>1, QuietResetTimer, Zenon DEF CancelTimer
      <3> QED BY <3>2, QuietType, Zenon
    <2>3. con' \in {s, OnClose(s), SendDisconnect(s), SendPacket(s, Plain("pingreq"))}
      BY <2>1 DEF NotifyTimerFired
    <2> HIDE DEF s
    <2>4. Plain("pingreq") \in Packet /\ Plain("pingreq").type \in QuietTypes
      BY OwnPackets DEF QuietTypes
    <2>5. /\ Quiet(s, OnClose(s)) /\ Quiet(s, SendDisconnect(s)) /\ Quiet(s, s)
          /\ Quiet(s, SendPacket(s, Plain("pingreq")))
      BY <2>2, <2>4, QuietOnClose, QuietSendDisconnect, QuietSend, QuietRefl
    <2> QED BY <2>1, <2>2, <2>3, <2>5, QuietTrans
  <1> QED BY <1>2, <1>3, <1>4, <1>5, <1>6, <1>7, <1>8

-----------------------------------------------------------------------------
(***************************************************************************)
(* The effects of the other calls, each up to quiet steps                  *)
(***************************************************************************)
\* The limits of a CONNECT or CONNACK packet that is sent are quiet.
LEMMA QuietLimits ==
  ASSUME NEW s \in ConnectionType, NEW p, p.tam \in 0 .. MaxAlias,
         p.rmax \in 0 .. ReceiveMaximumMax, p.mps \in Nat
  PROVE  Quiet(s, LimitsForRecv(s, p))
  <1>1. AliasRecv(p.tam) \in AliasRecvType
    BY EmptyTables
  <1> QED BY <1>1, ZenonT(40) DEF ConnectionType, Quiet, LimitsForRecv, TimersSound

\* send() of CONNECT: the session is cleared or kept.
ConnectSent(s, p) ==
  LET i == [Initialize(s, TRUE) EXCEPT
              !.status = "connecting",
              !.pingreq_send_interval = IF @ = 0 THEN p.keep_alive ELSE @,
              !.need_store = IF s.protocol_version = "v5" THEN p.expiry ELSE ~ p.clean]
  IN IF p.clean THEN ForgetSession(i) ELSE i

LEMMA ConnectSentEffect ==
  ASSUME Sound(con), Unlimited(con), NEW p \in ConnectPackets, Send(p)
  PROVE  IF Sendable(con, p) THEN Quiet(ConnectSent(con, p), con') ELSE con' = con
  <1> DEFINE i == Initialize(con, TRUE)
             interval == IF i.pingreq_send_interval = 0 THEN p.keep_alive
                         ELSE i.pingreq_send_interval
             keep == IF con.protocol_version = "v5" THEN p.expiry ELSE ~ p.clean
             t == [i EXCEPT !.status = "connecting", !.pingreq_send_interval = interval,
                            !.need_store = keep]
             u == IF p.clean THEN ForgetSession(t) ELSE t
  <1>1. /\ p.keep_alive \in Nat /\ p.expiry \in BOOLEAN /\ p.clean \in BOOLEAN
        /\ p.tam \in 0 .. MaxAlias /\ p.rmax \in 0 .. ReceiveMaximumMax /\ p.mps \in Nat
        /\ p \in Packet /\ p.type = "connect"
    BY DEF ConnectPackets, Packet
  <1>2. u = ConnectSent(con, p) /\ ProcessConnect(con, p) = LimitsForRecv(u, p)
    BY DEF ConnectSent, ProcessConnect
  <1>3. IF Sendable(con, p) THEN con' = PostProcess(OnSend(LimitsForRecv(u, p), p)) ELSE con' = con
    BY <1>1, <1>2, AlwaysFits DEF Send, SendPacket, Process
  <1>4. SUFFICES ASSUME Sendable(con, p), con' = PostProcess(OnSend(LimitsForRecv(u, p), p))
                 PROVE  Quiet(u, con')
    BY <1>2, <1>3
  <1>5. con.status = "disconnected"
    BY <1>1, <1>4 DEF Sendable
  <1>6. Sound(i) /\ i.status = "disconnected"
    BY <1>5, InitializeSound, ZenonT(40) DEF Sound, ConnectionType, Initialize
  <1> HIDE DEF i
  <1>7. Sound(t)
    <2>1. interval \in Nat
      BY <1>1, <1>6, Zenon DEF Sound, ConnectionType
    <2>2. keep \in BOOLEAN
      BY <1>1, Zenon
    <2> HIDE DEF interval, keep
    <2> QED BY <1>6, <2>1, <2>2, ZenonT(40) DEF Sound, ConnectionType, Statuses, TimersSound
  <1> HIDE DEF t
  <1>8. u \in ConnectionType
    BY <1>7, ForgetSound DEF Sound
  <1> HIDE DEF u
  <1> DEFINE v == LimitsForRecv(u, p)
             w == OnSend(v, p)
  <1>9. Quiet(u, v) /\ v \in ConnectionType
    <2>1. Quiet(u, v)
      BY <1>1, <1>8, QuietLimits, Zenon
    <2> QED BY <2>1, QuietType, Zenon
  <1> HIDE DEF v
  <1>10. Quiet(v, w) /\ w \in ConnectionType
    BY <1>1, <1>9, QuietOnSend DEF Quiet
  <1> HIDE DEF w
  <1>11. con' = PostProcess(w)
    BY <1>4 DEF v, w
  <1>12. Quiet(w, con')
    BY <1>10, <1>11, QuietPostProcess
  <1> QED BY <1>9, <1>10, <1>12, QuietTrans

\* send() of CONNACK: the connection is established, unless it is refused.
LEMMA ConnackSentEffect ==
  ASSUME NEW s, Sound(s), Unlimited(s), NEW p \in ConnackPackets
  PROVE  \/ SendPacket(s, p) = s
         \/ /\ s.protocol_version \in Versions
            /\ IF p.ok THEN Quiet([s EXCEPT !.status = "connected"], SendPacket(s, p))
               ELSE Quiet(s, SendPacket(s, p)) /\ SendPacket(s, p).status = "disconnected"
  <1> DEFINE a == [s EXCEPT !.status = "connected"]
             b == ProcessConnack(s, p)
             c == OnSend(b, p)
             d == SendStored(c)
  <1>1. /\ p.tam \in 0 .. MaxAlias /\ p.rmax \in 0 .. ReceiveMaximumMax /\ p.mps \in Nat
        /\ p \in Packet /\ p.type = "connack" /\ p.ok \in BOOLEAN
    BY DEF ConnackPackets, Packet
  <1>2. SendPacket(s, p) = s
        \/ (s.protocol_version \in Versions /\ SendPacket(s, p) = PostProcess(d))
    BY <1>1, AlwaysFits DEF SendPacket, Process, Sendable
  <1>3. s \in ConnectionType
    BY DEF Sound
  <1>4. Sound(b)
    BY ConnackSound
  <1>5. IF p.ok THEN Quiet(a, b) ELSE Quiet(s, b) /\ b.status = "disconnected"
    <2>1. CASE p.ok
      <3>1. a \in ConnectionType
        BY <1>3, ZenonT(40) DEF ConnectionType, Statuses
      <3>2. Quiet(a, LimitsForRecv(a, p))
        <4> HIDE DEF a
        <4> QED BY <1>1, <3>1, QuietLimits
      <3> QED BY <2>1, <3>2 DEF ProcessConnack
    <2>2. CASE ~ p.ok
      BY <1>3, <2>2, QuietEnded DEF ProcessConnack
    <2> QED BY <2>1, <2>2
  <1>6. Unlimited(a)
    BY DEF Sound, ConnectionType, Unlimited
  <1>7. Unlimited(b)
    BY <1>5, <1>6, Zenon DEF Quiet, Unlimited
  <1> HIDE DEF a, b
  <1>8. b \in ConnectionType
    BY <1>4 DEF Sound
  <1>9. Quiet(b, c) /\ Sound(c) /\ Unlimited(c)
    BY <1>1, <1>4, <1>7, <1>8, QuietOnSend, QuietSound DEF Quiet, Unlimited
  <1> HIDE DEF c
  <1>10. Quiet(c, d) /\ d \in ConnectionType
    BY <1>9, QuietSendStored DEF Unlimited, Quiet
  <1> HIDE DEF d
  <1>11. Quiet(d, PostProcess(d))
    BY <1>10, QuietPostProcess
  <1>12. Quiet(b, PostProcess(d))
    BY <1>9, <1>10, <1>11, QuietTrans
  <1>13. b.status = "disconnected" => PostProcess(d).status = "disconnected"
    BY <1>12 DEF Quiet
  <1> QED BY <1>2, <1>5, <1>12, <1>13, QuietTrans DEF a

\* send() of PUBREL, SUBSCRIBE and UNSUBSCRIBE: the answer is awaited.
Handed(s, p) ==
  IF p.type = "pubrel" THEN ProcessPubrel(s, p)
  ELSE IF p.type = "subscribe" THEN [s EXCEPT !.pid_suback = s.pid_suback \cup {p.pid}]
  ELSE [s EXCEPT !.pid_unsuback = s.pid_unsuback \cup {p.pid}]

LEMMA HandedSound ==
  ASSUME NEW s, Sound(s), NEW p \in IdPackets, p.type \in {"pubrel", "subscribe", "unsubscribe"}
  PROVE  Sound(Handed(s, p))
  <1>1. CASE p.type = "pubrel"
    BY <1>1, PubrelSound DEF Handed
  <1>2. CASE p.type = "subscribe"
    <2>1. s.pid_suback \cup {p.pid} \in SUBSET PacketIds
      BY DEF IdPackets, Sound, ConnectionType
    <2> DEFINE S == s.pid_suback \cup {p.pid}
    <2>2. Handed(s, p) = [s EXCEPT !.pid_suback = S]
      BY <1>2 DEF Handed
    <2> HIDE DEF S
    <2> QED BY <2>1, <2>2, ZenonT(120) DEF S, Sound, ConnectionType, TimersSound
  <1>3. CASE p.type = "unsubscribe"
    <2>1. s.pid_unsuback \cup {p.pid} \in SUBSET PacketIds
      BY DEF IdPackets, Sound, ConnectionType
    <2> DEFINE S == s.pid_unsuback \cup {p.pid}
    <2>2. Handed(s, p) = [s EXCEPT !.pid_unsuback = S]
      BY <1>3 DEF Handed
    <2> HIDE DEF S
    <2> QED BY <2>1, <2>2, ZenonT(200) DEF S, Sound, ConnectionType, TimersSound
  <1> QED BY <1>1, <1>2, <1>3

LEMMA HandedEffect ==
  ASSUME NEW s, Sound(s), Unlimited(s), NEW p \in IdPackets,
         p.type \in {"pubrel", "subscribe", "unsubscribe"}
  PROVE  IF Sendable(s, p) THEN Quiet(Handed(s, p), SendPacket(s, p))
         ELSE SendPacket(s, p) = s
  <1>1. SUFFICES ASSUME Sendable(s, p)
                 PROVE  Quiet(Handed(s, p), SendPacket(s, p))
    BY DEF SendPacket
  <1> DEFINE a == Handed(s, p)
             b == OnSend(a, p)
  <1>2. SendPacket(s, p) = PostProcess(b)
    BY <1>1, AlwaysFits DEF SendPacket, Process, Handed
  <1>3. a \in ConnectionType /\ p \in Packet
    BY HandedSound DEF Sound, Packet
  <1> HIDE DEF a
  <1>4. Quiet(a, b) /\ b \in ConnectionType
    BY <1>3, QuietOnSend DEF Quiet
  <1> HIDE DEF b
  <1>5. Quiet(b, PostProcess(b))
    BY <1>4, QuietPostProcess
  <1> QED BY <1>2, <1>4, <1>5, QuietTrans DEF a

\* recv() of the answers of the peer: the exchange ends, or goes on with PUBREL.
Acknowledged(s, pid) ==
  [s EXCEPT !.pid_puback = s.pid_puback \ {pid},
            !.store = StoreErase(s.store, "puback", pid)]
Completed(s, pid) ==
  [s EXCEPT !.pid_pubcomp = s.pid_pubcomp \ {pid},
            !.store = StoreErase(s.store, "pubcomp", pid),
            !.qos2_publish_processing = s.qos2_publish_processing \ {pid}]
Half(s, pid) ==
  [s EXCEPT !.pid_pubrec = s.pid_pubrec \ {pid},
            !.store = StoreErase(s.store, "pubrec", pid)]

LEMMA AnsweredSound ==
  ASSUME NEW s, Sound(s), NEW pid
  PROVE  Sound(Acknowledged(s, pid)) /\ Sound(Completed(s, pid)) /\ Sound(Half(s, pid))
  <1>1. /\ s.pid_puback \ {pid} \in SUBSET PacketIds /\ s.pid_pubrec \ {pid} \in SUBSET PacketIds
        /\ s.pid_pubcomp \ {pid} \in SUBSET PacketIds
        /\ s.qos2_publish_processing \ {pid} \in SUBSET PacketIds
    BY DEF Sound, ConnectionType
  <1>2. \A response : /\ StoreSound(StoreErase(s.store, response, pid))
                      /\ StoreErase(s.store, response, pid) \in Seq(StorePackets)
    <2>1. StoreSound(s.store)
      BY Zenon DEF Sound
    <2>2. \A response : StoreSound(StoreErase(s.store, response, pid))
      BY <2>1, ErasedStore, Zenon
    <2> QED BY <2>2, Zenon DEF StoreSound
  <1>3. Sound(Acknowledged(s, pid))
    BY <1>1, <1>2, ZenonT(40) DEF Acknowledged, Sound, ConnectionType, TimersSound
  <1>4. Sound(Completed(s, pid))
    BY <1>1, <1>2, ZenonT(40) DEF Completed, Sound, ConnectionType, TimersSound
  <1>5. Sound(Half(s, pid))
    BY <1>1, <1>2, ZenonT(40) DEF Half, Sound, ConnectionType, TimersSound
  <1> QED BY <1>3, <1>4, <1>5

\* The state after an answer that was awaited, up to a quiet step.
Ended(s, p) ==
  CASE p.type = "puback" -> CountDown(ReleaseIds(Acknowledged(s, p.pid), {p.pid}))
    [] p.type = "pubrec" -> IF ~ p.ok THEN PublishRefused(Half(s, p.pid), p.pid)
                            ELSE IF IsSet(s, "auto_pub_response")
                            THEN SendPacket(Half(s, p.pid), WithId("pubrel", p.pid))
                            ELSE Half(s, p.pid)
    [] p.type = "pubcomp" -> CountDown(ReleaseIds(Completed(s, p.pid), {p.pid}))
    [] p.type = "suback" ->
         ReleaseIds([s EXCEPT !.pid_suback = s.pid_suback \ {p.pid}], {p.pid})
    [] OTHER -> ReleaseIds([s EXCEPT !.pid_unsuback = s.pid_unsuback \ {p.pid}], {p.pid})

\* The identifiers whose answer of a type is awaited.
AwaitedBy(s, type) ==
  CASE type = "puback" -> s.pid_puback [] type = "pubrec" -> s.pid_pubrec
    [] type = "pubcomp" -> s.pid_pubcomp [] type = "suback" -> s.pid_suback
    [] OTHER -> s.pid_unsuback

\* The identifiers an exchange ends with go back to pid_man_.
LEMMA SubscriptionsSound ==
  ASSUME NEW s, Sound(s), NEW pid
  PROVE  /\ Sound([s EXCEPT !.pid_suback = s.pid_suback \ {pid}])
         /\ Sound([s EXCEPT !.pid_unsuback = s.pid_unsuback \ {pid}])
  <1>1. s.pid_suback \ {pid} \in SUBSET PacketIds /\ s.pid_unsuback \ {pid} \in SUBSET PacketIds
    BY DEF Sound, ConnectionType
  <1> QED BY <1>1, ZenonT(40) DEF Sound, ConnectionType, TimersSound

\* A refusing PUBREC releases the identifier and counts down.
LEMMA RefusedSound ==
  ASSUME NEW s, Sound(s), NEW pid
  PROVE  Sound([ReleaseIds(s, {pid}) EXCEPT
                  !.qos2_publish_processing = s.qos2_publish_processing \ {pid}])
         /\ PublishRefused(s, pid) =
              CountDown([ReleaseIds(s, {pid}) EXCEPT
                  !.qos2_publish_processing = s.qos2_publish_processing \ {pid}])
         /\ Sound(PublishRefused(s, pid))
  <1> DEFINE r == ReleaseIds(s, {pid})
             S == s.qos2_publish_processing \ {pid}
             t == [r EXCEPT !.qos2_publish_processing = S]
  <1>1. Sound(r) /\ r.qos2_publish_processing = s.qos2_publish_processing
    <2>1. Sound(r)
      BY ReleaseSound, Zenon
    <2>2. r.qos2_publish_processing = s.qos2_publish_processing
      BY Zenon DEF ReleaseIds, Sound, ConnectionType
    <2> QED BY <2>1, <2>2
  <1>2. S \in SUBSET PacketIds
    BY DEF Sound, ConnectionType
  <1>3. PublishRefused(s, pid) = CountDown(t)
    BY <1>1 DEF PublishRefused
  <1> HIDE DEF r, S
  <1>4. Sound(t)
    BY <1>1, <1>2, ZenonT(40) DEF Sound, ConnectionType, TimersSound
  <1> HIDE DEF t
  <1>5. Sound(CountDown(t))
    BY <1>4, CountsSound
  <1> QED BY <1>3, <1>4, <1>5 DEF t, r, S

LEMMA AnswerEffect ==
  ASSUME Sound(con), NEW p \in Packet, RecvHandled(p), p.pid \in AwaitedBy(con, p.type),
         p.type \in {"puback", "pubrec", "pubcomp", "suback", "unsuback"}
  PROVE  Sound(Ended(con, p)) /\ Quiet(Ended(con, p), con')
  <1>1. con' = Received(Ended(con, p), p)
    <2>1. CASE p.type = "puback"
      BY <2>1, Zenon DEF RecvHandled, RecvPuback, Ended, Acknowledged, AwaitedBy
    <2>2. CASE p.type = "pubrec"
      BY <2>2, Zenon DEF RecvHandled, RecvPubrec, Ended, Half, AwaitedBy
    <2>3. CASE p.type = "pubcomp"
      BY <2>3, Zenon DEF RecvHandled, RecvPubcomp, Ended, Completed, AwaitedBy
    <2>4. CASE p.type = "suback"
      BY <2>4, Zenon DEF RecvHandled, RecvSuback, Ended, AwaitedBy
    <2>5. CASE p.type = "unsuback"
      BY <2>5, Zenon DEF RecvHandled, RecvUnsuback, Ended, AwaitedBy
    <2> QED BY <2>1, <2>2, <2>3, <2>4, <2>5
  <1>2. Sound(Ended(con, p))
    <2>1. CASE p.type = "puback"
      BY <2>1, AnsweredSound, ReleaseSound, CountsSound DEF Ended
    <2>2. CASE p.type = "pubrec"
      <3> DEFINE h == Half(con, p.pid)
                 q == WithId("pubrel", p.pid)
      <3>1. Sound(h)
        BY AnsweredSound
      <3>2. q \in Packet
        BY <2>2, Kinds, OwnPackets DEF AnswerPackets
      <3> HIDE DEF h, q
      <3>3. Sound(PublishRefused(h, p.pid)) /\ Sound(SendPacket(h, q))
        BY <3>1, <3>2, RefusedSound, SendSound, Zenon
      <3>4. Ended(con, p) \in {PublishRefused(h, p.pid), SendPacket(h, q), h}
        BY <2>2 DEF Ended, h, q
      <3> QED BY <3>1, <3>3, <3>4
    <2>3. CASE p.type = "pubcomp"
      BY <2>3, AnsweredSound, ReleaseSound, CountsSound DEF Ended
    <2>4. CASE p.type = "suback"
      BY <2>4, SubscriptionsSound, ReleaseSound, Zenon DEF Ended
    <2>5. CASE p.type = "unsuback"
      BY <2>5, SubscriptionsSound, ReleaseSound, Zenon DEF Ended
    <2> QED BY <2>1, <2>2, <2>3, <2>4, <2>5
  <1> QED BY <1>1, <1>2, QuietReceived DEF Sound
=============================================================================
