---------------------------- MODULE PacketStore ----------------------------
(***************************************************************************)
(* protocol/impl/store.hpp: packets in the order they were added, at most  *)
(* one for each pair of response and packet identifier.                    *)
(***************************************************************************)
EXTENDS Packets

\* The positions of the packet a response with that identifier answers.
StoreFind(st, response, pid) ==
  {i \in DOMAIN st : ResponseTo(st[i]) = response /\ st[i].pid = pid}

\* A set of positions in ascending order.
Ascending(S) ==
  CHOOSE f \in [1 .. Cardinality(S) -> S] :
    /\ \A j, k \in DOMAIN f : j < k => f[j] < f[k]
    /\ \A i \in S : \E k \in DOMAIN f : f[k] = i

\* The packets at some of the positions, in their order.
Pick(st, S) == IF S = DOMAIN st THEN st ELSE [k \in 1 .. Cardinality(S) |-> st[Ascending(S)[k]]]

\* elems_.emplace_back: rejected when the key is taken.
StoreAdd(st, p) ==
  IF StoreFind(st, ResponseTo(p), p.pid) = {} THEN Append(st, p) ELSE st

\* Mutant of StoreErase: a PUBLISH of QoS 2 is kept until the exchange ends.
StoreEraseCompleted(st, response, pid) ==
  LET found == StoreFind(st, response, pid)
  IN IF found = {} \/ response = "pubrec" THEN st ELSE RemoveAt(st, CHOOSE i \in found : TRUE)

StoreErase(st, response, pid) ==
  LET found == StoreFind(st, response, pid)
  IN IF found = {} THEN st ELSE RemoveAt(st, CHOOSE i \in found : TRUE)
=============================================================================
