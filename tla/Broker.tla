------------------------------- MODULE Broker -------------------------------
(***************************************************************************)
(* tool/include/broker: the sessions of the clients, their subscriptions,  *)
(* the retained messages and the wills, over the connections of the        *)
(* clients.  A session_state object is named after the connection that     *)
(* created it.  The state is one record b that a handler maps to the next: *)
(*   sessions  the objects in sessions_, at most one per client;           *)
(*   ss        the session_state objects that are alive;                   *)
(*   con       the server side endpoints: the stored packets, the packet   *)
(*             ids in use and the QoS 2 ids handled, as Connection has it, *)
(*             and whether its status_ is connected;                       *)
(*   strand    what has been posted to the strand of a connection;         *)
(*   closing   the close_proc_no_lock_op that are not done, in the order   *)
(*             of their calls; asked is FALSE before async_close;          *)
(*   subs_map, targets (shared_targets_, least recently served first),     *)
(*   retains   the maps of TopicMaps;                                      *)
(*   flight    the QoS 2 message each client is sending;                   *)
(*   owed, wills, routed, used, latest, served                             *)
(*             history: the messages that were sent to a client or are     *)
(*             pending and that it has not acknowledged, the connections   *)
(*             whose will was sent, the QoS 2 messages given to            *)
(*             do_publish, the messages published, the message last        *)
(*             retained for each topic, and the members that shared        *)
(*             subscriptions were last served to.                          *)
(***************************************************************************)
EXTENDS TopicMaps

CONSTANTS
  Conns, Clients, Pids,
  Topics, Filters,      \* the topics and the filters that the properties try
  Setups                \* what the clients do, see below

Idle == [state |-> "new", it |-> 0, cid |-> "", version |-> "v5", need_store |-> FALSE, connected |-> FALSE,
         recv |-> FALSE, pids |-> {}, store |-> <<>>, handled |-> {}]

Empty == [sessions |-> {}, ss |-> [c \in Conns |-> None], con |-> [c \in Conns |-> Idle],
          strand |-> [c \in Conns |-> <<>>], closing |-> <<>>,
          subs_map |-> subscription_map, targets |-> <<>>, retains |-> retained_topic_map,
          flight |-> [k \in Clients |-> None],
          owed |-> {}, wills |-> <<>>, routed |-> <<>>, used |-> {},
          latest |-> <<>>, served |-> <<>>]

Objects(b) == {s \in Conns : b.ss[s] # None}

\* epwp_.lock(): what still refers to the endpoint.
lock(b, c) ==
  \/ b.con[c].recv
  \/ b.con[c].state \in {"connecting", "connack"}
  \/ b.strand[c] # <<>>
  \/ \E op \in ToSet(b.closing) : op.con = c

\* sessions_.get<tag_con>().find(epsp): empty or one object.
find_con(b, c) == {s \in b.sessions : b.ss[s].epwp = c}

(***************************************************************************)
(* The server side endpoint: external to the broker, see Connection.       *)
(***************************************************************************)
acquire_unique_packet_id(b, c) ==
  LET free == Pids \ b.con[c].pids IN IF free = {} THEN 0 ELSE Min(free)

Owed(b, cid, p) == [b EXCEPT !.owed = IF p.qos > 0 THEN @ \cup {<<cid, p.m>>} ELSE @]

\* async_send of a PUBLISH or PUBREL: it is in flight, and stored if the session is
\* to be kept.  A connection that is not connected, between the DISCONNECT packet or
\* the error and the end of the close as well, refuses a PUBLISH and releases its id;
\* the broker only logs the error.  Nothing is sent while status_ is connecting: the
\* session is given the endpoint in the handler that sends CONNACK.
async_send(b, c, packet) ==
  LET sent == [b EXCEPT !.con[c].store = Append(@, packet)]
  IN CASE packet.kind = "pubrel" -> sent
       [] packet.kind = "publish" /\ b.con[c].connected -> Owed(sent, b.con[c].cid, packet.p)
       [] OTHER -> [b EXCEPT !.con[c].pids = @ \ {packet.pid}]

get_stored_packets(b, c) == IF b.con[c].need_store THEN b.con[c].store ELSE <<>>

Without(store, kind, pid) == SelectSeq(store, LAMBDA e : e.kind # kind \/ e.pid # pid)

(***************************************************************************)
(* session_state: delivery.                                                *)
(***************************************************************************)
push_back(b, s, p) == Owed([b EXCEPT !.ss[s].offline = Append(@, p)], b.ss[s].cid, p)

publish(b, s, c, p) ==
  CASE b.ss[s].offline # <<>> -> push_back(b, s, p)
    [] b.ss[s].offline = <<>> /\ p.qos > 0 ->
         [b EXCEPT !.strand[c] = Append(@, [kind |-> "publish", ss |-> s, p |-> p])]
    [] OTHER -> b

\* send_publish that does not look at the error of the acquisition.
send_publish_unchecked(b, c, s, p) ==
  LET pid == acquire_unique_packet_id(b, c)
  IN async_send([b EXCEPT !.con[c].pids = @ \cup {pid}], c, [kind |-> "publish", pid |-> pid, p |-> p])

\* What the posted async_acquire_unique_packet_id goes on with.
send_publish(b, c, s, p) ==
  LET pid == acquire_unique_packet_id(b, c)
  IN IF pid = 0 THEN b
     ELSE IF b.ss[s] = None THEN [b EXCEPT !.con[c].pids = @ \cup {pid}]
     ELSE async_send([b EXCEPT !.con[c].pids = @ \cup {pid}], c,
                     [kind |-> "publish", pid |-> pid, p |-> p])

deliver(b, s, p) ==
  IF lock(b, b.ss[s].epwp) THEN publish(b, s, b.ss[s].epwp, p) ELSE push_back(b, s, p)

\* offline_messages::send_until_fail
send_all_offline_messages(b, s, c) ==
  FoldLeft(LAMBDA r, p :
             LET pid == acquire_unique_packet_id(r, c)
             IN IF r.ss[s].offline = <<>> \/ Head(r.ss[s].offline) # p \/ (p.qos > 0 /\ pid = 0) THEN r
                ELSE LET sent == [r EXCEPT !.ss[s].offline = Tail(@)]
                     IN IF p.qos = 0 THEN sent
                        ELSE async_send([sent EXCEPT !.con[c].pids = @ \cup {pid}], c,
                                        [kind |-> "publish", pid |-> pid, p |-> p]),
           b, b.ss[s].offline)

\* The packets are sent again, with their packet ids; they stay in the
\* session until they are acknowledged.
send_inflight_messages(b, s, c) ==
  FoldLeft(LAMBDA r, e : async_send([r EXCEPT !.con[c].pids = @ \cup {e.pid}], c, e),
           b, b.ss[s].inflight)

(***************************************************************************)
(* shared_target: [share, cid, ss, tf] where tf maps the topic filters to  *)
(* the subscriptions, the least recently served first.                     *)
(***************************************************************************)
shared_insert(targets, s, cid, sub) ==
  LET at == SelectInSeq(targets, LAMBDA e : e.cid = cid /\ e.share = sub.share)
  IN IF at = 0
     THEN Append(targets, [share |-> sub.share, cid |-> cid, ss |-> s, tf |-> sub.topic :> sub])
     ELSE [targets EXCEPT ![at].tf = @ @@ (sub.topic :> sub)]

shared_erase(targets, cid, share, filter) ==
  SelectSeq([i \in DOMAIN targets |->
               IF targets[i].cid = cid /\ targets[i].share = share
               THEN [targets[i] EXCEPT !.tf = Restrict(@, DOMAIN @ \ {filter})] ELSE targets[i]],
            LAMBDA e : e.tf # <<>>)

shared_erase_all(targets, cid) == SelectSeq(targets, LAMBDA e : e.cid # cid)

\* get_target that leaves the time stamp of the member it takes.
get_target_unstamped(targets, share, filter) ==
  LET at == SelectInSeq(targets, LAMBDA e : e.share = share /\ filter \in DOMAIN e.tf)
  IN [at |-> at, targets |-> targets]

\* The position of the target, 0 if there is none, and the new order.
get_target(targets, share, filter) ==
  LET at == SelectInSeq(targets, LAMBDA e : e.share = share /\ filter \in DOMAIN e.tf)
  IN [at |-> at, targets |-> IF at = 0 THEN targets ELSE Append(RemoveAt(targets, at), targets[at])]

(***************************************************************************)
(* do_publish of a message p = [topic, m, qos, retain, expires] by the     *)
(* session of the client cid; m = 0 is an empty payload.                   *)
(***************************************************************************)
DeliverTo(b, sub, p) ==
  deliver(b, sub.ss, [p EXCEPT !.qos = Min({@, sub.qos}), !.retain = @ /\ sub.rap])

ToSubscriber(r, sub, cid, p) ==
  IF sub.share = ""
  THEN IF sub.nl /\ r.b.ss[sub.ss].cid = cid THEN r ELSE [r EXCEPT !.b = DeliverTo(@, sub, p)]
  ELSE IF <<sub.share, sub.topic>> \in r.sent THEN r
  ELSE LET t == get_target(r.b.targets, sub.share, sub.topic)
           served == [r EXCEPT !.sent = @ \cup {<<sub.share, sub.topic>>}, !.b.targets = t.targets]
       IN IF t.at = 0 THEN served
          ELSE [served EXCEPT !.b = [DeliverTo(@, r.b.targets[t.at].tf[sub.topic], p) EXCEPT
                                       !.served = <<r.b.targets[t.at].cid>> \o SubSeq(@, 1, Min({1, Len(@)}))]]

retain(b, p) ==
  CASE ~ p.retain -> b
    [] p.retain /\ p.m = 0 ->
         [b EXCEPT !.retains = retain_erase(@, p.topic), !.latest = Restrict(@, DOMAIN @ \ {p.topic})]
    [] OTHER ->
         [b EXCEPT !.retains = retain_or_assign(@, p.topic, p), !.latest = (p.topic :> p) @@ @]

do_publish(b, cid, p) ==
  LET nodes == find_match(b.subs_map, p.topic)
      subs == FlattenSeq([i \in DOMAIN nodes |->
                LET value == b.subs_map.map[nodes[i]].value
                    keys == SetToSeq(DOMAIN value)
                IN [j \in DOMAIN keys |-> value[keys[j]]]])
  IN retain(FoldLeft(LAMBDA r, sub : ToSubscriber(r, sub, cid, p), [b |-> b, sent |-> {}], subs).b, p)

(***************************************************************************)
(* session_state: the will, the subscriptions, and its end.                *)
(***************************************************************************)
\* send_will_impl that does not move the will out.
send_will_impl_copied(b, s) ==
  LET will == b.ss[s].will
  IN IF will = None THEN b
     ELSE do_publish([b EXCEPT !.wills = Append(@, will.from)], b.ss[s].cid, will.p)

send_will_impl(b, s) ==
  LET will == b.ss[s].will
  IN IF will = None THEN b
     ELSE do_publish([b EXCEPT !.ss[s].will = None, !.wills = Append(@, will.from)],
                     b.ss[s].cid, will.p)

update_will(b, s, will) == [b EXCEPT !.ss[s].will = will]

clear_will(b, s) == [b EXCEPT !.ss[s].will = None]

send_will(b, s) ==
  LET ss == b.ss[s]
  IN IF ss.will # None /\ ss.remain /\ ss.will.delay THEN [b EXCEPT !.ss[s].will_delay = TRUE]
     ELSE send_will_impl(b, s)

unsubscribe_all(b, s) ==
  [b EXCEPT !.subs_map = FoldSet(LAMBDA h, t : erase(t, h, b.ss[s].cid), @, b.ss[s].handles),
            !.ss[s].handles = {}]

\* clean that leaves the shared targets.
clean_unshared(b, s) ==
  [unsubscribe_all(b, s) EXCEPT !.ss[s].will = None, !.ss[s].will_delay = FALSE,
               !.ss[s].inflight = <<>>, !.ss[s].offline = <<>>,
               !.ss[s].expiry = "none", !.ss[s].timer = FALSE, !.ss[s].handled = {},
               !.ss[s].wants = {}, !.served = <<>>,
               !.owed = {o \in @ : o[1] # b.ss[s].cid}]

\* What the session owed its client is discarded with it.
clean(b, s) ==
  LET u == unsubscribe_all(b, s)
  IN [u EXCEPT !.targets = shared_erase_all(@, b.ss[s].cid),
               !.ss[s].will = None, !.ss[s].will_delay = FALSE,
               !.ss[s].inflight = <<>>, !.ss[s].offline = <<>>,
               !.ss[s].expiry = "none", !.ss[s].timer = FALSE, !.ss[s].handled = {},
               !.ss[s].wants = {}, !.served = <<>>,
               !.owed = {o \in @ : o[1] # b.ss[s].cid}]

\* ~session_state
destroy(b, s) == [clean(send_will_impl(b, s), s) EXCEPT !.ss[s] = None]

\* The last reference to an object that left sessions_ goes.
Release(b, s) ==
  IF s \in b.sessions \/ b.ss[s] = None \/ \E op \in ToSet(b.closing) : op.ss = s THEN b ELSE destroy(b, s)

\* retains_.find, and publish of what it found.
DeliverRetained(b, s, c, e) ==
  FoldLeft(LAMBDA r, i :
             LET p == b.retains.map[i].value
             IN publish(r, s, c, [p EXCEPT !.qos = Min({@, e.qos}), !.retain = TRUE]),
           b, retain_find(b.retains, e.topic))

subscribe(b, s, c, e) ==
  LET cid == b.ss[s].cid
      sub == [ss |-> s, share |-> e.share, topic |-> e.topic, qos |-> e.qos, nl |-> e.nl, rap |-> e.rap]
      r == insert_or_assign(b.subs_map, e.topic, cid, sub, UNION {b.ss[o].handles : o \in Objects(b)})
      done == [b EXCEPT !.targets = IF e.share = "" THEN @ ELSE shared_insert(@, s, cid, sub),
                        !.subs_map = r.t,
                        !.ss[s].handles = IF r.inserted THEN @ \cup {r.handle} ELSE @,
                        !.ss[s].wants = @ \cup {<<e.share, e.topic>>},
                        !.served = IF e.share = "" THEN @ ELSE <<>>]
  IN IF e.rh = "send" \/ (e.rh = "new" /\ r.inserted) THEN DeliverRetained(done, s, c, e) ELSE done

unsubscribe(b, s, e) ==
  LET h == lookup(b.subs_map, e.topic)
      shared == [b EXCEPT !.targets = IF e.share = "" THEN @
                                      ELSE shared_erase(@, b.ss[s].cid, e.share, e.topic),
                          !.ss[s].wants = @ \ {<<e.share, e.topic>>},
                          !.served = IF e.share = "" THEN @ ELSE <<>>]
  IN IF h = None THEN shared
     ELSE [shared EXCEPT !.ss[s].handles = @ \ {h}, !.subs_map = erase(@, h, b.ss[s].cid)]

(***************************************************************************)
(* Sessions begin, go on, and close.  A CONNECT is                         *)
(* r = [cid, version, clean, expiry, will, login], its expiry "none", "finite" or *)
(* "never"; the will of the connection c is [from, p, delay, expires].     *)
(***************************************************************************)
session_state(c, r) ==
  [cid |-> r.cid, epwp |-> c, version |-> r.version,
   remain |-> IF r.version = "v3_1_1" THEN ~ r.clean ELSE r.expiry # "none",
   expiry |-> r.expiry, timer |-> FALSE, will |-> r.will, will_delay |-> FALSE,
   inflight |-> <<>>, offline |-> <<>>, handles |-> {}, handled |-> {}, wants |-> {}]

\* The CONNACK is sent, and the next packet read, with or without error.  A
\* client forgets what it was sending when there is no session.
Answered(b, c) ==
  [b EXCEPT !.con[c].state = "online", !.con[c].recv = TRUE, !.con[c].connected = TRUE,
            !.flight[b.con[c].cid] = None]

\* The CONNACK with session present, whose completion goes on with it.
Resuming(b, s, c) ==
  [b EXCEPT !.con[c].state = "connack", !.con[c].it = s, !.con[c].connected = TRUE]

\* An emplace that finds the client in sessions_ leaves the new object to its
\* destructor.
NewSession(b, c, r) ==
  LET made == [b EXCEPT !.ss[c] = session_state(c, r)]
  IN IF \E s \in b.sessions : b.ss[s].cid = r.cid THEN Answered(destroy(made, c), c)
     ELSE Answered([made EXCEPT !.sessions = @ \cup {c}], c)

\* clean() has reset the expiry interval when remain_after_close_ is computed.
renew(b, s, c, r) ==
  LET e == clean(b, s)
  IN [update_will(e, s, r.will) EXCEPT
        !.ss[s].epwp = c,
        !.ss[s].remain = IF r.version = "v3_1_1" THEN ~ r.clean ELSE e.ss[s].expiry # "none",
        !.ss[s].expiry = r.expiry]

\* inherit that does not give the handled QoS 2 ids to the new connection.
inherit_unrestored(b, s, c, r) ==
  [update_will(b, s, r.will) EXCEPT
     !.ss[s].epwp = c,
     !.ss[s].remain = r.version = "v3_1_1" \/ b.ss[s].expiry # "none",
     !.ss[s].will_delay = FALSE, !.ss[s].expiry = r.expiry]

inherit(b, s, c, r) ==
  [update_will(b, s, r.will) EXCEPT
     !.ss[s].epwp = c,
     !.ss[s].remain = r.version = "v3_1_1" \/ b.ss[s].expiry # "none",
     !.ss[s].will_delay = FALSE, !.ss[s].expiry = r.expiry,
     !.con[c].handled = b.ss[s].handled]

\* The dispatch of inherit runs at once in the strand of the connection.
offline_to_online(b, s, c, r, in_strand) ==
  CASE r.clean -> Answered(renew(b, s, c, r), c)
    [] ~ r.clean /\ in_strand -> Resuming(inherit(b, s, c, r), s, c)
    [] OTHER -> [b EXCEPT !.strand[c] = Append(@, [kind |-> "inherit", ss |-> s, r |-> r])]

\* close_proc_no_lock_op up to async_close; then is the CONNECT that takes the session
\* over, as <<c, r>>, or None.  A take-over runs in another strand: the DISCONNECT
\* packet that comes before async_close for v5 is posted to the one of c.
close_proc(b, c, with_will, then) ==
  LET found == find_con(b, c)
      Will(x, s) == IF with_will THEN send_will(x, s) ELSE clear_will(x, s)
      Posts(s) == then # None /\ b.ss[s].version = "v5"
      Op(s) == [con |-> c, ss |-> s, keep |-> b.ss[s].remain, then |-> then, asked |-> ~ Posts(s)]
      Leave(x, s) == IF b.ss[s].remain THEN x ELSE [x EXCEPT !.sessions = @ \ {s}]
  IN IF found = {} THEN b
     ELSE LET s == CHOOSE x \in found : TRUE
          IN Will([Leave(b, s) EXCEPT !.closing = Append(@, Op(s)),
                                      !.strand[c] = IF Posts(s) THEN Append(@, [kind |-> "disconnect"]) ELSE @], s)

\* A packet whose id is in the session already is not inserted again.
insert_inflight_messages(inflight, packets) ==
  FoldLeft(LAMBDA q, e : IF \E i \in DOMAIN q : q[i].pid = e.pid THEN q ELSE Append(q, e),
           inflight, packets)

\* become_offline that only takes the stored packets of a session without any.
become_offline_once(b, s, c) ==
  [b EXCEPT !.ss[s].inflight = IF @ = <<>> THEN get_stored_packets(b, c) ELSE @,
            !.ss[s].handled = b.con[c].handled,
            !.ss[s].timer = @ \/ b.ss[s].expiry = "finite"]

become_offline(b, s, c) ==
  [b EXCEPT !.ss[s].inflight = insert_inflight_messages(@, get_stored_packets(b, c)),
            !.ss[s].handled = b.con[c].handled,
            !.ss[s].timer = @ \/ b.ss[s].expiry = "finite"]

\* The completion that goes on with a CONNECT only for a session that is kept.
closed_if_kept(b, op) ==
  LET off == IF op.keep THEN become_offline(b, op.ss, op.con) ELSE b
  IN Release(IF op.then # None /\ op.keep
             THEN offline_to_online(off, op.ss, op.then[1], op.then[2], FALSE) ELSE off, op.ss)

\* The completion of close_proc_no_lock_op, with what a CONNECT waits for.
closed(b, op) ==
  LET off == IF op.keep THEN become_offline(b, op.ss, op.con) ELSE b
      next == CASE op.then = None -> off
                [] op.then # None /\ op.keep ->
                     offline_to_online(off, op.ss, op.then[1], op.then[2], FALSE)
                [] OTHER -> NewSession(off, op.then[1], op.then[2])
  IN Release(next, op.ss)

\* connect_handler that does not close the old connection.
connect_handler_beside(b, c, r) ==
  LET at == [b EXCEPT !.con[c] = [Idle EXCEPT !.state = "connecting", !.cid = r.cid,
                                    !.version = r.version]]
      found == {s \in b.sessions : b.ss[s].cid = r.cid}
  IN IF found = {} THEN NewSession(at, c, r)
     ELSE offline_to_online(at, CHOOSE x \in found : TRUE, c, r, TRUE)

\* connect_handler, the client id being given or generated.
connect_handler(b, c, r) ==
  LET at == [b EXCEPT !.con[c] = [Idle EXCEPT !.state = "connecting", !.cid = r.cid,
                                    !.version = r.version,
                                    !.need_store = IF r.version = "v3_1_1" THEN ~ r.clean
                                                   ELSE r.expiry # "none"]]
      found == {s \in b.sessions : b.ss[s].cid = r.cid}
  IN IF found = {} THEN NewSession(at, c, r)
     ELSE LET s == CHOOSE x \in found : TRUE
          IN IF lock(b, b.ss[s].epwp)
             THEN close_proc(at, b.ss[s].epwp, TRUE, <<c, r>>)
             ELSE offline_to_online(at, s, c, r, TRUE)

(***************************************************************************)
(* The handlers of the packets of a client.  What the endpoint does with a *)
(* packet comes first; a connection without session changes nothing else.  *)
(***************************************************************************)
publish_handler(b, c, p) ==
  LET found == find_con(b, c)
      at == [b EXCEPT !.used = @ \cup {p.m}, !.routed = IF p.qos = 2 THEN Append(@, p.m) ELSE @]
  IN IF found = {} THEN b ELSE do_publish(at, b.con[c].cid, p)

\* A QoS 2 PUBLISH that was handled before is not given to the broker again.
RecvPublish(b, c, p) ==
  CASE p.qos < 2 -> publish_handler(b, c, p)
    [] p.qos = 2 /\ 1 \in b.con[c].handled -> b
    [] OTHER -> publish_handler([b EXCEPT !.con[c].handled = @ \cup {1}], c, p)

erase_inflight_message_by_packet_id(b, s, pid) ==
  [b EXCEPT !.ss[s].inflight = SelectSeq(@, LAMBDA e : e.pid # pid)]

\* PUBACK and PUBCOMP.
Acknowledged(b, c, kind, pid) ==
  LET at == [b EXCEPT !.con[c].store = Without(@, kind, pid), !.con[c].pids = @ \ {pid}]
      found == find_con(b, c)
  IN IF found = {} THEN at
     ELSE LET s == CHOOSE x \in found : TRUE
          IN send_all_offline_messages(erase_inflight_message_by_packet_id(at, s, pid), s, c)

pubrec_handler(b, c, pid, success) ==
  LET at == [b EXCEPT !.con[c].store = Without(@, "publish", pid),
                      !.con[c].pids = IF success THEN @ ELSE @ \ {pid}]
      found == find_con(b, c)
  IN IF found = {} \/ ~ success THEN at
     ELSE async_send(erase_inflight_message_by_packet_id(at, CHOOSE x \in found : TRUE, pid), c,
                     [kind |-> "pubrel", pid |-> pid, p |-> None])

subscribe_handler(b, c, e) ==
  IF find_con(b, c) = {} THEN b ELSE subscribe(b, CHOOSE s \in find_con(b, c) : TRUE, c, e)

unsubscribe_handler(b, c, e) ==
  IF find_con(b, c) = {} THEN b ELSE unsubscribe(b, CHOOSE s \in find_con(b, c) : TRUE, e)

(***************************************************************************)
(* The clients and the network, as a setup lets them behave: the CONNECTs  *)
(* of each connection, the entries of SUBSCRIBE and UNSUBSCRIBE, the       *)
(* messages published, the ends of connections and the races of setup.     *)
(***************************************************************************)
VARIABLES setup, b

vars == <<setup, b>>

ClosesOf(c) == SelectSeq(b.closing, LAMBDA op : op.con = c)
AskedOf(c) == SelectSeq(ClosesOf(c), LAMBDA op : op.asked)

Reads(c) == b.con[c].state = "online" /\ b.con[c].recv /\ b.con[c].connected

\* Nothing is delivered to a session between its inherit and its CONNACK.
Calm == "publish_before_connack" \in setup.races \/ \A c \in Conns : b.con[c].state # "connack"

CalmWills == Calm \/ \A s \in Objects(b) : b.ss[s].will = None

\* The client has no other CONNECT waiting, no session that is being closed and
\* that is not kept, and no session that is to expire.
Reconnects(cid) ==
  /\ "second_take_over" \in setup.races
       \/ \A c \in Conns : b.con[c].cid = cid => b.con[c].state \notin {"connecting", "connack"}
  /\ "reconnect_while_closing" \in setup.races \/ \A s \in Objects(b) \ b.sessions : b.ss[s].cid # cid
  /\ "reconnect_before_expiry" \in setup.races \/ \A s \in Objects(b) : b.ss[s].cid = cid => b.ss[s].expiry # "finite"

\* The client id handle_empty_client_id generates.
Given(r) == IF r.cid = "" THEN [r EXCEPT !.cid = "generated"] ELSE r

\* Whether security_ finds a user for the certificate, the user name and password, or
\* without any.
LogsIn(r) == r.login

NextConnection(c) == b.con[c].state = "new" /\ \A d \in Conns : d < c => b.con[d].state # "new"

Connect(c) ==
  /\ NextConnection(c) /\ CalmWills
  /\ \E r \in setup.requests[c] :
       /\ LogsIn(r)
       /\ r.cid # "" \/ r.version = "v5" \/ r.clean
       /\ Reconnects(Given(r).cid)
       /\ b' = connect_handler(b, c, Given(r))
  /\ UNCHANGED setup

\* A client that fails to log in is told so and disconnected; nothing else changes.
RefuseLogin(c) ==
  /\ NextConnection(c)
  /\ \E r \in setup.requests[c] : ~ LogsIn(r)
  /\ b' = [b EXCEPT !.con[c].state = "gone"]
  /\ UNCHANGED setup

\* A client without id and without clean session.
RefuseConnect(c) ==
  /\ NextConnection(c)
  /\ \E r \in setup.requests[c] : LogsIn(r) /\ r.cid = "" /\ r.version = "v3_1_1" /\ ~ r.clean
  /\ b' = [b EXCEPT !.con[c].state = "gone"]
  /\ UNCHANGED setup

\* The CONNACK of a session that goes on has been written.
ConnackSent(c) ==
  /\ b.con[c].state = "connack"
  /\ \E on \in {[b EXCEPT !.con[c].state = "online", !.con[c].recv = TRUE]} :
       LET s == b.con[c].it
       IN b' = IF s \notin b.sessions \/ ~ lock(b, b.ss[s].epwp) THEN on
               ELSE send_all_offline_messages(send_inflight_messages(on, s, b.ss[s].epwp),
                                              s, b.ss[s].epwp)
  /\ UNCHANGED setup

\* It could not be written: the handler returns, and the endpoint goes.
ConnackFailed(c) ==
  /\ b.con[c].state = "connack" /\ c \in setup.drops
  /\ b' = [b EXCEPT !.con[c].state = "gone", !.con[c].connected = FALSE]
  /\ UNCHANGED setup

Subscribe(c) ==
  /\ Reads(c)
  /\ \E e \in setup.entries[c] : b' = subscribe_handler(b, c, e)
  /\ UNCHANGED setup

Unsubscribe(c) ==
  /\ Reads(c) /\ setup.unsubscribe
  /\ \E e \in setup.entries[c] : b' = unsubscribe_handler(b, c, e)
  /\ UNCHANGED setup

Publish(c) ==
  /\ Reads(c) /\ Calm
  /\ \E p \in setup.pubs[c] :
       /\ p.qos = 0 \/ p.m \notin b.used
       /\ p.qos = 2 => b.flight[b.con[c].cid] = None
       /\ b' = RecvPublish(IF p.qos = 2 THEN [b EXCEPT !.flight[b.con[c].cid] = [con |-> c, p |-> p]]
                           ELSE b, c, p)
  /\ UNCHANGED setup

\* A client sends again what it has no PUBREC for, once on each connection.
Resend(c) ==
  /\ Reads(c) /\ Calm
  /\ \E f \in {b.flight[b.con[c].cid]} :
       /\ f # None /\ f.con # c
       /\ b' = RecvPublish([b EXCEPT !.flight[b.con[c].cid].con = c], c, f.p)
  /\ UNCHANGED setup

\* pubrel_handler: the endpoint has released the id, the broker answers.
Pubrel(c) ==
  /\ Reads(c)
  /\ \E f \in {b.flight[b.con[c].cid]} :
       /\ f # None /\ f.con = c
       /\ b' = [b EXCEPT !.con[c].handled = @ \ {1}, !.flight[b.con[c].cid] = None]
  /\ UNCHANGED setup

InFlight(c, kind, qos) == {e \in ToSet(b.con[c].store) : e.kind = kind /\ (kind = "publish" => e.p.qos = qos)}

Settled(x, c, p) == [x EXCEPT !.owed = @ \ {<<b.con[c].cid, p.m>>}]

Puback(c) ==
  /\ Reads(c)
  /\ \E e \in InFlight(c, "publish", 1) : b' = Settled(Acknowledged(b, c, "publish", e.pid), c, e.p)
  /\ UNCHANGED setup

\* A v5 client may refuse a message; the session keeps one it has sent before.
Pubrec(c) ==
  /\ Reads(c)
  /\ \E e \in InFlight(c, "publish", 2), success \in {TRUE, b.con[c].version = "v3_1_1"} :
       /\ \/ success \/ "refuse_resent" \in setup.races
          \/ \A s \in find_con(b, c) : \A i \in DOMAIN b.ss[s].inflight : b.ss[s].inflight[i].pid # e.pid
       /\ b' = Settled(pubrec_handler(b, c, e.pid, success), c, e.p)
  /\ UNCHANGED setup

Pubcomp(c) ==
  /\ Reads(c)
  /\ \E e \in InFlight(c, "pubrel", 2) : b' = Acknowledged(b, c, "pubrel", e.pid)
  /\ UNCHANGED setup

\* The endpoint is no longer connected when it has received the packet.
Disconnect(c) ==
  /\ Reads(c) /\ CalmWills /\ c \in setup.drops
  /\ \E with_will \in BOOLEAN :
       b' = close_proc([b EXCEPT !.con[c].state = IF with_will \/ ClosesOf(c) # <<>> THEN "gone" ELSE "left",
                                 !.con[c].recv = FALSE, !.con[c].connected = FALSE], c, with_will, None)
  /\ UNCHANGED setup

\* The operations leave closing, and complete: those that waited for the one
\* that closed the stream come before it.
Complete(x, ops) ==
  FoldLeft(LAMBDA y, op : closed([y EXCEPT !.closing = Remove(@, op)], op), x, Tail(ops) \o <<Head(ops)>>)

\* The client is gone, or sends more after the broker's DISCONNECT packet, or the broker
\* has closed the connection.  The endpoint has closed before it reports the error,
\* unless it is being closed.
RecvError(c) ==
  /\ b.con[c].state = "online" /\ b.con[c].recv /\ CalmWills
  /\ c \in setup.drops \/ ~ b.con[c].connected
  /\ \E x \in {close_proc([b EXCEPT !.con[c].state = "gone", !.con[c].recv = FALSE, !.con[c].connected = FALSE],
                           c, TRUE, None)} :
       b' = IF AskedOf(c) # <<>> \/ x.closing = b.closing THEN x ELSE Complete(x, <<Last(x.closing)>>)
  /\ UNCHANGED setup

\* The stream is closed; the completion of async_close is posted.
CloseDone(c) ==
  /\ AskedOf(c) # <<>> /\ \A t \in ToSet(b.strand[c]) : t.kind # "closed"
  /\ b' = [b EXCEPT !.strand[c] = Append(@, [kind |-> "closed"])]
  /\ UNCHANGED setup

\* The next handler of a strand.
Posted(c, kind) == b.strand[c] # <<>> /\ Head(b.strand[c]).kind = kind

RunPublish(c) ==
  /\ Posted(c, "publish")
  /\ \E t \in {Head(b.strand[c])} :
       b' = send_publish([b EXCEPT !.strand[c] = Tail(@)], c, t.ss, t.p)
  /\ UNCHANGED setup

RunInherit(c) ==
  /\ Posted(c, "inherit")
  /\ \E t \in {Head(b.strand[c])} :
       LET at == [b EXCEPT !.strand[c] = Tail(@)]
       IN b' = IF t.ss \in b.sessions THEN Resuming(inherit(at, t.ss, c, t.r), t.ss, c) ELSE at
  /\ UNCHANGED setup

\* disconnect_and_close_op: the DISCONNECT packet is sent, or refused; async_close is next.
RunDisconnect(c) ==
  /\ Posted(c, "disconnect")
  /\ b' = [b EXCEPT !.strand[c] = Tail(@), !.con[c].connected = FALSE,
                    !.closing[SelectInSeq(b.closing, LAMBDA op : op.con = c /\ ~ op.asked)].asked = TRUE]
  /\ UNCHANGED setup

RunClosed(c) ==
  /\ Posted(c, "closed")
  /\ b' = Complete([b EXCEPT !.strand[c] = Tail(@), !.con[c].connected = FALSE], AskedOf(c))
  /\ UNCHANGED setup

(***************************************************************************)
(* The timers.  The order of the index by tim_session_expiry_ is not kept  *)
(* when become_offline stores a timer, so with several sessions the erase  *)
(* by timer can take any of them, or none.                                 *)
(***************************************************************************)
SessionExpires(s) ==
  /\ s \in b.sessions /\ b.ss[s].timer /\ CalmWills
  /\ \E gone \in IF b.sessions = {s} THEN {{s}} ELSE SUBSET b.sessions :
       b' = FoldSet(LAMBDA g, x : Release([x EXCEPT !.sessions = @ \ {g}], g),
                    [b EXCEPT !.ss[s].timer = FALSE], gone)
  /\ UNCHANGED setup

WillDelayPasses(s) ==
  /\ s \in Objects(b) /\ b.ss[s].will_delay /\ CalmWills
  /\ b' = send_will_impl([b EXCEPT !.ss[s].will_delay = FALSE], s)
  /\ UNCHANGED setup

WillExpires(s) ==
  /\ s \in Objects(b) /\ b.ss[s].will # None /\ b.ss[s].will.expires
  /\ b' = clear_will(b, s)
  /\ UNCHANGED setup

\* The timers of the messages that wait for their client.
OfflineExpires(s) ==
  /\ s \in Objects(b)
  /\ \E i \in DOMAIN b.ss[s].offline :
       /\ b.ss[s].offline[i].expires
       /\ b' = [b EXCEPT !.ss[s].offline = RemoveAt(@, i),
                         !.owed = @ \ {<<b.ss[s].cid, b.ss[s].offline[i].m>>}]
  /\ UNCHANGED setup

InflightExpires(s) ==
  /\ s \in Objects(b)
  /\ \E i \in DOMAIN b.ss[s].inflight :
       /\ b.ss[s].inflight[i].kind = "publish" /\ b.ss[s].inflight[i].p.expires
       /\ b' = [b EXCEPT !.ss[s].inflight = RemoveAt(@, i),
                         !.owed = @ \ {<<b.ss[s].cid, b.ss[s].inflight[i].p.m>>}]
  /\ UNCHANGED setup

\* The timer of a retained message, which erases its topic.
RetainedExpires ==
  /\ \E i \in DOMAIN b.retains.map :
       /\ b.retains.map[i].value # None /\ b.retains.map[i].value.expires
       /\ b' = [b EXCEPT !.retains = retain_erase(@, b.retains.map[i].value.topic),
                         !.latest = Restrict(@, DOMAIN @ \ {b.retains.map[i].value.topic})]
  /\ UNCHANGED setup

Step(c) ==
  \/ Connect(c) \/ RefuseLogin(c) \/ RefuseConnect(c) \/ ConnackSent(c) \/ ConnackFailed(c)
  \/ Subscribe(c) \/ Unsubscribe(c)
  \/ Publish(c) \/ Resend(c) \/ Pubrel(c) \/ Puback(c) \/ Pubrec(c) \/ Pubcomp(c)
  \/ Disconnect(c) \/ RecvError(c)
  \/ CloseDone(c) \/ RunPublish(c) \/ RunInherit(c) \/ RunDisconnect(c) \/ RunClosed(c)
  \/ SessionExpires(c) \/ WillDelayPasses(c) \/ WillExpires(c)
  \/ OfflineExpires(c) \/ InflightExpires(c)

Init == setup \in Setups /\ b = FoldLeft(LAMBDA x, k : connect_handler(x, k[1], k[2]), Empty, setup.online)

Next == RetainedExpires \/ \E c \in Conns : Step(c)

\* The io_context runs every handler that is posted and completes every close;
\* a client posts finitely many, so that a strand and the closes of a connection
\* are done with again and again.
Fairness == \A c \in Conns : []<>(b.strand[c] = <<>> /\ ClosesOf(c) = <<>>)

Spec == Init /\ [][Next]_vars /\ Fairness

(***************************************************************************)
(* What the broker promises.                                               *)
(***************************************************************************)
Online(c) ==
  /\ b.con[c].state = "online" /\ b.con[c].recv /\ b.con[c].connected
  /\ ClosesOf(c) = <<>>

\* A session is in sessions_ once per client and its object is alive, packet ids come
\* from the endpoint's, and what a connection stores has one.
TypeOK ==
  /\ b.sessions \subseteq Objects(b)
  /\ \A s, o \in b.sessions : b.ss[s].cid = b.ss[o].cid => s = o
  /\ \A s \in Objects(b) : b.ss[s].epwp \in Conns /\ b.ss[s].expiry \in {"none", "finite", "never"}
  /\ \A c \in Conns : /\ b.con[c].pids \subseteq Pids
                      /\ \A i \in DOMAIN b.con[c].store : b.con[c].store[i].pid \in Pids

\* A client that has been told it is connected has its session, and so at most
\* one of its connections is served: connect_handler closes the connection it
\* takes a session over from before it answers.
OnlineHasSession ==
  \A c \in Conns : Online(c) => \E s \in b.sessions : b.ss[s].epwp = c /\ b.ss[s].cid = b.con[c].cid

\* A + takes one level, a # the levels that are left, at least one; neither a
\* first level that begins with a $.
Matches(filter, topic) ==
  LET n == Len(filter)
      hash == Last(filter) = "#"
      m == IF hash THEN n - 1 ELSE n
  IN /\ IF hash THEN Len(topic) > m ELSE Len(topic) = m
     /\ \A i \in 1 .. m : filter[i] = "+" \/ filter[i] = topic[i]
     /\ System(topic[1]) => filter[1] \notin {"+", "#"}

Found(s, topic) ==
  LET values == {b.subs_map.map[n].value : n \in ToSet(find_match(b.subs_map, topic))}
  IN UNION {{<<v[k].share, v[k].topic>> : k \in {x \in DOMAIN v : v[x].ss = s}} : v \in values}

\* A message finds, in the tree the sessions share, exactly the filters that
\* match it among those its client has subscribed to and not unsubscribed, and
\* a shared one has the client among its targets: SUBSCRIBE, UNSUBSCRIBE and
\* the end of other sessions leave no filter too many and none too few.
SubscriptionsRouted ==
  \A s \in b.sessions :
    /\ \A topic \in Topics : Found(s, topic) = {w \in b.ss[s].wants : Matches(w[2], topic)}
    /\ \A w \in b.ss[s].wants :
         w[1] # "" => \E i \in DOMAIN b.targets : /\ b.targets[i].ss = s /\ b.targets[i].share = w[1]
                                                  /\ w[2] \in DOMAIN b.targets[i].tf

\* "The element of sessions_ must have longer lifetime than corresponding
\* subscription": no subscription refers to a session_state that is gone, and
\* no session_state erases a node that is not there.
SubscriptionsAlive ==
  /\ ~ b.subs_map.invalid_handle
  /\ \A n \in DOMAIN b.subs_map.map : \A k \in DOMAIN b.subs_map.map[n].value :
       LET sub == b.subs_map.map[n].value[k] IN b.ss[sub.ss] # None /\ b.ss[sub.ss].cid = k
  /\ \A i \in DOMAIN b.targets : b.ss[b.targets[i].ss] # None /\ b.ss[b.targets[i].ss].cid = b.targets[i].cid

RetainedFor(filter) ==
  LET at == retain_find(b.retains, filter) IN [i \in DOMAIN at |-> b.retains.map[at[i]].value]

RetainedMatch(filter, topic) == Matches(filter, topic) \/ filter = Append(topic, "#")

\* A new subscription finds every retained message whose topic it matches, once
\* and as it was published last.
RetainedFound ==
  \A filter \in Filters :
    LET found == RetainedFor(filter)
    IN /\ ToSet(found) = {b.latest[t] : t \in {u \in DOMAIN b.latest : RetainedMatch(filter, u)}}
       /\ Len(found) = Cardinality(ToSet(found))

\* What is kept for the client cid: in its session, or in the store of a connection
\* that is not gone.
Held(cid) ==
  LET Messages(q) == {q[i].p.m : i \in {j \in DOMAIN q : q[j].kind = "publish"}}
      mine == {s \in Objects(b) : b.ss[s].cid = cid}
  IN UNION {{p.m : p \in ToSet(b.ss[s].offline)} \cup Messages(b.ss[s].inflight) : s \in mine}
     \cup UNION {Messages(b.con[c].store) : c \in {d \in Conns : b.con[d].cid = cid /\ lock(b, d)}}

\* "QoS 1 and QoS 2 messages which have been sent to the Client, but have not
\* been completely acknowledged" and those "pending transmission" belong to the
\* session: until the client has acknowledged it, or its session or its time is
\* over, such a message is in the session or in the endpoint that the session will
\* take it from, whichever of the closes, take-overs, lost connections and resent
\* packets come in between.
MessagesKept ==
  \A o \in b.owed : (\E s \in b.sessions : b.ss[s].cid = o[1]) => o[2] \in Held(o[1])

\* A QoS 2 message is routed once, whatever the client sends again on other
\* connections: the handled packet ids go with the session.
RoutedOnce == \A i, j \in DOMAIN b.routed : b.routed[i] = b.routed[j] => i = j

\* The will of a connection is published at most once, not while the connection
\* is served and not after a DISCONNECT without will, whichever of the end of
\* the connection, the delay, a take-over and the destructor comes first.
WillsOnce ==
  \A i \in DOMAIN b.wills :
    /\ ~ Online(b.wills[i]) /\ b.con[b.wills[i]].state # "left"
    /\ \A j \in DOMAIN b.wills : b.wills[i] = b.wills[j] => i = j

\* Two members of a shared subscription take turns.
SharedInTurn ==
  Cardinality({b.targets[i].cid : i \in DOMAIN b.targets}) = 2 /\ Len(b.served) = 2 =>
    b.served[1] # b.served[2]

\* A CONNECT that waits for another connection to close is answered.
ConnectAnswered == \A c \in Conns : b.con[c].state = "connecting" ~> b.con[c].state # "connecting"
=============================================================================
