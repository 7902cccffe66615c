----------------------------- MODULE TopicAlias -----------------------------
(***************************************************************************)
(* util/topic_alias_send.hpp and util/topic_alias_recv.hpp: the two ends   *)
(* of the topic alias mapping of one direction of a v5 connection.  A      *)
(* table with max 0 is the absent table (std::nullopt).  The order of the  *)
(* entries of the sending table is that of their time points, oldest       *)
(* first: every touch takes a later one.                                   *)
(***************************************************************************)
EXTENDS Packets

AliasSend(max) == [max |-> max, used |-> {}, entries |-> <<>>]
AliasRecv(max) == [max |-> max, topic |-> [a \in Aliases |-> NoTopic]]

Entry(topic, alias) == [topic |-> topic, alias |-> alias]

AliasSendType ==
  [max : 0 .. MaxAlias, used : SUBSET Aliases,
   entries : Seq([topic : Topics, alias : Aliases])]
AliasRecvType ==
  [max : 0 .. MaxAlias, topic : [Aliases -> Topics \cup {NoTopic}]]

\* Positions of the entries with an alias, with a topic name.
AtAlias(t, alias) == {i \in DOMAIN t.entries : t.entries[i].alias = alias}
AtTopic(t, topic) == {i \in DOMAIN t.entries : t.entries[i].topic = topic}
The(found) == CHOOSE i \in found : TRUE

\* find(alias), without its touch: the topic name, empty when there is none.
FindTopic(t, alias) ==
  LET found == AtAlias(t, alias)
  IN IF found = {} THEN NoTopic ELSE t.entries[The(found)].topic

\* The touch of find(alias).
Touch(t, alias) ==
  LET i == The(AtAlias(t, alias))
  IN IF AtAlias(t, alias) = {} THEN t
     ELSE [t EXCEPT !.entries = Append(RemoveAt(t.entries, i), t.entries[i])]

\* find(topic): the alias, 0 when there is none.  It does not touch the entry.
FindAlias(t, topic) ==
  LET found == AtTopic(t, topic)
  IN IF found = {} THEN NoAlias ELSE t.entries[The(found)].alias

\* Mutant of InsertOrUpdate: an entry of another alias keeps the topic name.
InsertOrUpdateTwice(t, topic, alias) ==
  LET here == AtAlias(t, alias)
      rest == IF here = {} THEN t.entries ELSE RemoveAt(t.entries, The(here))
  IN [t EXCEPT !.used = @ \cup {alias}, !.entries = Append(rest, Entry(topic, alias))]

\* insert_or_update().  Topic names are a unique key of the container: an
\* insertion that collides with another entry is rejected, and a modification
\* that does leaves the container without the modified entry (its rollback,
\* which asserts in a debug build, restores nothing).
InsertOrUpdate(t, topic, alias) ==
  LET here == AtAlias(t, alias)
      rest == IF here = {} THEN t.entries ELSE RemoveAt(t.entries, The(here))
      other == AtTopic(t, topic) \ here
  IN [t EXCEPT !.used = @ \cup {alias},
               !.entries = IF other = {} THEN Append(rest, Entry(topic, alias))
                           ELSE rest]

\* get_lru_alias(): the first vacant alias, or the one of the oldest entry.
GetLruAlias(t) ==
  LET vacant == (1 .. t.max) \ t.used
  IN IF vacant # {} THEN CHOOSE a \in vacant : \A b \in vacant : a <= b
     ELSE Head(t.entries).alias

\* Entries of which no two have the alias or the topic name in common.
Distinct(e) ==
  \A i, j \in DOMAIN e : (e[i].alias = e[j].alias \/ e[i].topic = e[j].topic) => i = j

\* The entries are distinct, and there is one as soon as an alias is used.
TableSound(t) ==
  /\ Distinct(t.entries)
  /\ \A i \in DOMAIN t.entries : t.entries[i].alias \in t.used
  /\ t.used \subseteq 1 .. t.max
  /\ t.used # {} => t.entries # <<>>

\* topic_alias_recv: insert_or_update().
Register(r, topic, alias) == [r EXCEPT !.topic[alias] = topic]
=============================================================================
