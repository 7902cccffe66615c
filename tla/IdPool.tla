------------------------------- MODULE IdPool -------------------------------
(***************************************************************************)
(* What a value allocator promises, whatever it keeps its free values in:  *)
(* a set of used values, the lowest free value handed out first, and an    *)
(* answer to every call.  packet_id_manager.hpp relies on exactly this for *)
(* packet identifiers and topic_alias_send.hpp for topic aliases.          *)
(***************************************************************************)
EXTENDS Integers

CONSTANTS Lowest, Highest

VARIABLES used,   \* the values handed out and not given back
          answer  \* the last call and what it returned

vars == <<used, answer>>

Values == Lowest .. Highest

\* std::nullopt of allocate(), and false of use().
Refused == -1

Init == used = {} /\ answer = <<"construct", Refused>>

Allocate ==
  \/ \E v \in Values \ used :
       /\ \A w \in Values \ used : v <= w
       /\ used' = used \cup {v}
       /\ answer' = <<"allocate", v>>
  \/ /\ Values \subseteq used
     /\ answer' = <<"allocate", Refused>>
     /\ UNCHANGED used

Use(v) ==
  \/ /\ v \notin used
     /\ used' = used \cup {v}
     /\ answer' = <<"use", v>>
  \/ /\ v \in used
     /\ answer' = <<"use", Refused>>
     /\ UNCHANGED used

Deallocate(v) ==
  /\ used' = used \ {v}
  /\ answer' = <<"deallocate", v>>

Clear ==
  /\ used' = {}
  /\ answer' = <<"clear", Refused>>

Next ==
  \/ Allocate
  \/ Clear
  \/ \E v \in Values : Use(v) \/ Deallocate(v)

Spec == Init /\ [][Next]_vars
=============================================================================
