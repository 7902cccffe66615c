----------------------------- MODULE TopicMaps -----------------------------
(***************************************************************************)
(* tool/include/broker/subscription_map.hpp and retained_topic_map.hpp:    *)
(* the tree of topic filters a topic is looked up in, and the tree of      *)
(* topics a filter is looked up in.  A filter or a topic is the sequence   *)
(* of its levels, what topic_filter_tokenizer makes of the text.  A node   *)
(* id is a number not used before; here the least one that nothing refers  *)
(* to any more, which no operation can tell apart.                         *)
(***************************************************************************)
EXTENDS Integers, Sequences, FiniteSets, SequencesExt, FiniteSetsExt, Functions, TLC

None == <<>>

System(level) == level \in {"$SYS"}

Unused(ids) == Min((1 .. Cardinality(ids) + 1) \ ids)

(***************************************************************************)
(* subscription_map_base and multiple_subscription_map.                    *)
(***************************************************************************)
root_node_id == 1
root_key == <<2, "">>

count_storage == [value |-> 1, plus |-> FALSE, hash |-> FALSE]
increase_count_storage(count) == [count EXCEPT !.value = @ + 1]
decrease_count_storage(count) == [count EXCEPT !.value = @ - 1]

path_entry(id, parent) == [id |-> id, parent |-> parent, count |-> count_storage, value |-> None]

subscription_map ==
  [map |-> root_key :> path_entry(root_node_id, <<0, "">>), map_size |-> 0, invalid_handle |-> FALSE]

\* The id of a new node; held are the handles kept outside of the map.
generate_node_id(t, held) ==
  Unused({1, 2} \cup {t.map[k].id : k \in DOMAIN t.map} \cup {k[1] : k \in DOMAIN t.map \cup held})

\* The keys of the nodes of a filter, none when one of them is missing.
find_topic_filter(t, filter) ==
  LET walked == FoldLeft(LAMBDA path, level :
                           IF Last(path) \notin DOMAIN t.map THEN path
                           ELSE Append(path, <<t.map[Last(path)].id, level>>), <<root_key>>, filter)
  IN IF Len(walked) = Len(filter) + 1 /\ Last(walked) \in DOMAIN t.map THEN Tail(walked) ELSE None

\* create_topic_filter that does not count at the nodes that exist.
create_topic_filter_uncounted(t, filter, held) ==
  FoldLeft(LAMBDA r, level :
             LET parent == Last(r.path)
                 key == <<r.map[parent].id, level>>
             IN IF key \in DOMAIN r.map THEN [r EXCEPT !.path = Append(@, key)]
                ELSE [map |-> key :> path_entry(generate_node_id(r, held), parent)
                              @@ [r.map EXCEPT ![parent].count.plus = @ \/ level = "+",
                                               ![parent].count.hash = @ \/ level = "#"],
                      path |-> Append(r.path, key)],
           [map |-> t.map, path |-> <<root_key>>], filter)

create_topic_filter(t, filter, held) ==
  FoldLeft(LAMBDA r, level :
             LET parent == Last(r.path)
                 key == <<r.map[parent].id, level>>
             IN IF key \in DOMAIN r.map
                THEN [map |-> [r.map EXCEPT ![key].count = increase_count_storage(@)], path |-> Append(r.path, key)]
                ELSE [map |-> key :> path_entry(generate_node_id(r, held), parent)
                              @@ [r.map EXCEPT ![parent].count.plus = @ \/ level = "+",
                                               ![parent].count.hash = @ \/ level = "#"],
                      path |-> Append(r.path, key)],
           [map |-> t.map, path |-> <<root_key>>], filter)

\* One node less at every node of a path, from the leaf up; a node without
\* subscriptions goes, and its parent forgets that it has a wildcard child.
remove_topic_filter(t, path) ==
  LET Forget(map, key, gone) ==
        [map EXCEPT ![key].count.plus = @ /\ gone # "+", ![key].count.hash = @ /\ gone # "#"]
      r == FoldRight(LAMBDA key, s :
                       LET map == [Forget(s.map, key, s.gone) EXCEPT ![key].count = decrease_count_storage(@)]
                       IN IF map[key].count.value # 0 THEN [map |-> map, gone |-> ""]
                          ELSE [map |-> Restrict(map, DOMAIN map \ {key}), gone |-> key[2]],
                     path, [map |-> t.map, gone |-> ""])
  IN Forget(r.map, root_key, r.gone)

\* The nodes whose filters match a topic, in the order of the calls back.
find_match(t, topic) ==
  LET Next(key, level) ==
        LET e == t.map[key]
            usual == e.id # root_node_id \/ ~ System(level)
            At(name) == <<e.id, name>>
        IN [entries |-> SelectSeq(<<At(level)>> \o (IF e.count.plus /\ usual THEN <<At("+")>> ELSE <<>>),
                                  LAMBDA k : k \in DOMAIN t.map),
            hashes |-> IF e.count.hash /\ usual /\ At("#") \in DOMAIN t.map THEN <<At("#")>> ELSE <<>>]
      r == FoldLeft(LAMBDA s, level :
                      LET found == [i \in DOMAIN s.entries |-> Next(s.entries[i], level)]
                      IN [entries |-> FlattenSeq([i \in DOMAIN found |-> found[i].entries]),
                          out |-> s.out \o FlattenSeq([i \in DOMAIN found |-> found[i].hashes])],
                    [entries |-> <<root_key>>, out |-> <<>>], topic)
  IN r.out \o r.entries

lookup(t, filter) == LET path == find_topic_filter(t, filter) IN IF path = None THEN None ELSE Last(path)

\* The keys from a node up to, and without, the root.
RECURSIVE handle_to_iterators(_, _)
handle_to_iterators(t, h) ==
  IF h = root_key THEN <<>> ELSE Append(handle_to_iterators(t, t.map[h].parent), h)

increase_subscriptions(t, path) ==
  FoldLeft(LAMBDA map, key : [map EXCEPT ![key].count = increase_count_storage(@)], t.map, path)

\* The map, the handle, and whether the key is new at that filter.
insert_or_assign(t, filter, key, value, held) ==
  LET path == find_topic_filter(t, filter)
      created == create_topic_filter(t, filter, held)
      at == IF path = None THEN Last(created.path) ELSE Last(path)
      inserted == path = None \/ key \notin DOMAIN t.map[at].value
      map == CASE path = None -> created.map
               [] path # None /\ inserted -> increase_subscriptions(t, path)
               [] OTHER -> t.map
  IN [t |-> [t EXCEPT !.map = [map EXCEPT ![at].value = (key :> value) @@ @],
                      !.map_size = @ + (IF inserted THEN 1 ELSE 0)],
      handle |-> at, inserted |-> inserted]

\* erase with a handle; invalid_handle records the throw for one without node.
erase(t, h, key) ==
  CASE h \notin DOMAIN t.map -> [t EXCEPT !.invalid_handle = TRUE]
    [] h \in DOMAIN t.map /\ key \in DOMAIN t.map[h].value ->
         [t EXCEPT !.map = remove_topic_filter(
                             [t EXCEPT !.map[h].value = Restrict(@, DOMAIN @ \ {key})],
                             handle_to_iterators(t, h)),
                   !.map_size = @ - 1]
    [] OTHER -> t

(***************************************************************************)
(* retained_topic_map: the entries in the order of their insertion, which  *)
(* is the order of the wildcard index below one parent.                    *)
(***************************************************************************)
retained_entry(parent_id, name, id) ==
  [parent_id |-> parent_id, name |-> name, id |-> id, count |-> 1, value |-> None]

retained_topic_map == [map |-> <<retained_entry(0, "", 1)>>, map_size |-> 0]

Below(t, parent_id) == SelectSeq([i \in DOMAIN t.map |-> i], LAMBDA i : t.map[i].parent_id = parent_id)

\* The positions of the entries of a topic, none when one of them is missing.
find_topic(t, topic) ==
  LET walked == FoldLeft(LAMBDA path, level :
                           path \o SelectSeq(Below(t, t.map[Last(path)].id),
                                             LAMBDA i : t.map[i].name = level), <<1>>, topic)
      \* A level that is missing leaves the path as it is, and shorter.
      complete == Len(walked) = Len(topic) + 1
  IN IF complete THEN Tail(walked) ELSE None

create_topic(t, topic) ==
  FoldLeft(LAMBDA r, level :
             LET parent_id == r.map[r.at].id
                 found == SelectSeq(Below(r, parent_id), LAMBDA i : r.map[i].name = level)
             IN IF found # <<>>
                THEN [map |-> [r.map EXCEPT ![found[1]].count = @ + 1], at |-> found[1]]
                ELSE [map |-> Append(r.map, retained_entry(parent_id, level,
                                              Unused({r.map[i].id : i \in DOMAIN r.map}))),
                      at |-> Len(r.map) + 1],
           [map |-> t.map, at |-> 1], topic)

\* insert_or_assign of a topic whose node exists, but has no value, that
\* counts nothing.
retain_or_assign_uncounted(t, topic, value) ==
  LET path == find_topic(t, topic)
      created == create_topic(t, topic)
  IN IF path = None
     THEN [map |-> [created.map EXCEPT ![created.at].value = value], map_size |-> t.map_size + 1]
     ELSE [t EXCEPT !.map[Last(path)].value = value]

\* insert_or_assign
retain_or_assign(t, topic, value) ==
  LET path == find_topic(t, topic)
      created == create_topic(t, topic)
      counted == [i \in DOMAIN t.map |->
                    IF Contains(path, i) THEN [t.map[i] EXCEPT !.count = @ + 1] ELSE t.map[i]]
  IN CASE path = None ->
            [map |-> [created.map EXCEPT ![created.at].value = value], map_size |-> t.map_size + 1]
       [] path # None /\ t.map[Last(path)].value = None ->
            [map |-> [counted EXCEPT ![Last(path)].value = value], map_size |-> t.map_size + 1]
       [] OTHER -> [t EXCEPT !.map[Last(path)].value = value]

\* erase
retain_erase(t, topic) ==
  LET path == find_topic(t, topic)
      counted == [i \in DOMAIN t.map |->
                    IF Contains(path, i) THEN [t.map[i] EXCEPT !.count = @ - 1] ELSE t.map[i]]
  IN IF path = None \/ t.map[Last(path)].value = None THEN t
     ELSE [map |-> SelectSeq([counted EXCEPT ![Last(path)].value = None], LAMBDA e : e.count # 0),
           map_size |-> t.map_size - 1]

\* Everything below a node, level by level; at the root without what begins
\* with a $.
RECURSIVE match_hash_entries(_, _, _)
match_hash_entries(t, parents, ignore_system) ==
  IF parents = <<>> THEN <<>>
  ELSE LET found == SelectSeq(FlattenSeq([i \in DOMAIN parents |-> Below(t, t.map[parents[i]].id)]),
                              LAMBDA i : ~ ignore_system \/ ~ System(t.map[i].name))
       IN found \o match_hash_entries(t, found, FALSE)

\* The children of a node that a + stands for: at the root the loop ends at
\* the first one that begins with a $.
PlusEntries(t, at) ==
  LET below == Below(t, t.map[at].id)
      stop == IF t.map[at].id # 1 THEN 0 ELSE SelectInSeq(below, LAMBDA i : System(t.map[i].name))
  IN IF stop = 0 THEN below ELSE SubSeq(below, 1, stop - 1)

\* find: the positions of the topics a filter matches, in the order of the
\* calls back.  A # takes what is below the first of the nodes it is looked up
\* at, and ends the walk; the nodes themselves are reported as well.
retain_find(t, filter) ==
  LET Next(at, level) ==
        IF level = "+" THEN PlusEntries(t, at)
        ELSE SelectSeq(Below(t, t.map[at].id), LAMBDA i : t.map[i].name = level)
      r == FoldLeft(LAMBDA s, level :
                      IF s.entries = <<>> THEN s
                      ELSE IF level = "#"
                      THEN [s EXCEPT !.out = match_hash_entries(t, <<s.entries[1]>>, s.entries[1] = 1)]
                      ELSE [s EXCEPT !.entries = FlattenSeq([i \in DOMAIN @ |-> Next(@[i], level)])],
                    [entries |-> <<1>>, out |-> <<>>], filter)
  IN SelectSeq(r.out \o r.entries, LAMBDA i : t.map[i].value # None)
=============================================================================
