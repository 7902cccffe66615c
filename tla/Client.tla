------------------------------- MODULE Client -------------------------------
(***************************************************************************)
(* asio_bind/impl/client_*: the client, which sends a request, keeps it    *)
(* until its receive loop finds the answer, and queues the packets that    *)
(* async_recv() returns.                                                   *)
(*   cl   col is pid_tim_pv_res_col_: for the identifier of a request that *)
(*        was sent (0 for CONNECT) the call it belongs to, which stands    *)
(*        for its timer, and the answers found; recvq and inserted are     *)
(*        recv_queue_ and recv_queue_inserted_, waiter the async_recv()    *)
(*        that waits for tim_notify_publish_recv_, and loop says that      *)
(*        recv_loop() runs, missed that an answer did not find its request *)
(*        (history);                                                       *)
(*   app  the application, which makes the calls of setup.calls one after  *)
(*        the other, each once the calls it depends on have completed:     *)
(*        next is the number of calls made, res what they completed with,  *)
(*        id the identifiers that it holds.  The argument of a call is the *)
(*        QoS of a publish, the identifier to register, and the call whose *)
(*        identifier to release.                                           *)
(***************************************************************************)
EXTENDS Endpoint

CONSTANT Setups

CallKinds == {"handshake", "start", "publish", "subscribe", "unsubscribe", "disconnect", "auth", "close", "recv",
              "acquire", "register", "release", "get_stored", "restore",
              "acquire_now", "register_now", "release_now", "interval", "end"}

ASSUME SetupsAssumption ==
  \A s \in Setups : /\ s.calls \in Seq([kind : CallKinds, arg : Int, after : SUBSET Nat])
                    /\ s.layers \in Seq({"ws", "ssl", "tcp"})

VARIABLES cl, app

vars == <<setup, ex, strm, net, con, ep, cl, app>>
clientVars == <<cl, app>>

NewClient ==
  [col |-> <<>>, recvq |-> <<>>, inserted |-> FALSE, waiter |-> <<>>, loop |-> FALSE, missed |-> FALSE]

Init ==
  /\ setup \in Setups
  /\ EndpointInit
  /\ cl = NewClient
  /\ app = [next |-> 0, res |-> [i \in DOMAIN setup.calls |-> "none"],
            id |-> [i \in DOMAIN setup.calls |-> 0], saved |-> setup.restored]

Calls == DOMAIN setup.calls
Kind(i) == setup.calls[i].kind

\* An operation on call i: acquired, sent, answered and done name its next step.
request(i, state, id) == [fn |-> "request", state |-> state, i |-> i, id |-> id, ec |-> "ok"]

PacketOf(i, id) ==
  [Packet(IF Kind(i) = "start" THEN "connect" ELSE Kind(i), id)
     EXCEPT !.qos = setup.calls[i].arg, !.i = i]

\* The operation begins: if the packet could not be constructed it completes with
\* the error and nothing else.
begin(i, id, ec) ==
  IF ec # "ok" THEN [request(i, "done", id) EXCEPT !.ec = ec]
  ELSE send(request(i, "sent", id), PacketOf(i, id))

start_op(i, ec) == begin(i, 0, ec)
publish_op(i, id, ec) == begin(i, id, ec)
subscribe_op(i, id, ec) == begin(i, id, ec)
unsubscribe_op(i, id, ec) == begin(i, id, ec)
disconnect_op(i, ec) == begin(i, 0, ec)
auth_op(i, ec) == begin(i, 0, ec)

\* The constructor of the packet may throw.
Constructed(i) == IF i \in setup.bad THEN "malformed" ELSE "ok"

async_start(i) == start_op(i, Constructed(i))
async_publish(i, id) == publish_op(i, id, Constructed(i))
async_subscribe(i, id) == subscribe_op(i, id, Constructed(i))
async_unsubscribe(i, id) == unsubscribe_op(i, id, Constructed(i))
async_disconnect(i) == disconnect_op(i, Constructed(i))
async_auth(i) == auth_op(i, Constructed(i))
async_close(i) == close(request(i, "done", 0))
async_recv(i) == [fn |-> "client_recv", i |-> i, ec |-> "ok"]
async_underlying_handshake(i) == underlying_handshake(request(i, "done", 0))
async_acquire_unique_packet_id_wait_until(i) == acquire(request(i, "acquired", 0))
async_acquire_unique_packet_id(i) == acquire_now(request(i, "done", 0))
async_register_packet_id(i, id) == register(request(i, "done", 0), id)
async_release_packet_id(i, id) == release(request(i, "done", 0), id)
async_get_stored_packets(i) == get_stored(request(i, "done", 0))
async_restore_packets(i) == restore(request(i, "done", 0), app.saved)

recv_loop == [fn |-> "recv_loop", ec |-> "ok", pkt |-> NoPacket]

NeedsId(i) == Kind(i) \in {"subscribe", "unsubscribe"} \/ (Kind(i) = "publish" /\ setup.calls[i].arg > 0)

\* The application acquires an identifier for the packets that have one.
Entry(i) ==
  CASE NeedsId(i) -> async_acquire_unique_packet_id_wait_until(i)
    [] Kind(i) = "handshake" -> async_underlying_handshake(i)
    [] Kind(i) = "start" -> async_start(i)
    [] Kind(i) = "publish" /\ ~ NeedsId(i) -> async_publish(i, 0)
    [] Kind(i) = "disconnect" -> async_disconnect(i)
    [] Kind(i) = "auth" -> async_auth(i)
    [] Kind(i) = "close" -> async_close(i)
    [] Kind(i) = "acquire" -> async_acquire_unique_packet_id(i)
    [] Kind(i) = "register" -> async_register_packet_id(i, setup.calls[i].arg)
    [] Kind(i) = "release" -> async_release_packet_id(i, app.id[setup.calls[i].arg])
    [] Kind(i) = "get_stored" -> async_get_stored_packets(i)
    [] Kind(i) = "restore" -> async_restore_packets(i)
    [] Kind(i) = "recv" -> async_recv(i)

Completed(i) == app.res[i] \notin {"none", "pending"}

Immediate == {"acquire_now", "register_now", "release_now", "interval", "end"}

\* The application may make its next call, from a handler of its own.
NextCall == app.next + 1
MayCall ==
  /\ Waiting
  /\ app.next < Len(setup.calls)
  /\ \A j \in setup.calls[NextCall].after : Completed(j)

Call ==
  /\ MayCall
  /\ Kind(NextCall) \notin Immediate
  /\ app' = [app EXCEPT !.next = NextCall, !.res[NextCall] = "pending"]
  /\ ex' = [ex EXCEPT !.now = <<Entry(NextCall)>>]
  /\ UNCHANGED <<setup, strm, net, con, ep, cl>>

(***************************************************************************)
(* The calls without async_ have taken effect when they return.            *)
(***************************************************************************)
Calling(kind) == MayCall /\ Kind(NextCall) = kind
Returns(ec, id) == app' = [app EXCEPT !.next = NextCall, !.res[NextCall] = ec, !.id[NextCall] = id]

AcquireNow ==
  /\ Calling("acquire_now")
  /\ IF Ids \subseteq con.used THEN Returns("fully_used", 0) /\ UNCHANGED con
     ELSE /\ Returns("ok", Min(Ids \ con.used))
          /\ con' = [con EXCEPT !.used = @ \cup {Min(Ids \ @)}]
  /\ UNCHANGED <<setup, ex, strm, net, ep, cl>>

RegisterNow ==
  /\ Calling("register_now")
  /\ LET id == setup.calls[NextCall].arg
     IN IF id \in con.used THEN Returns("id_conflict", 0) /\ UNCHANGED con
        ELSE Returns("ok", id) /\ con' = [con EXCEPT !.used = @ \cup {id}]
  /\ UNCHANGED <<setup, ex, strm, net, ep, cl>>

\* The event of the release is dropped: no waiter is told.
ReleaseNow ==
  /\ Calling("release_now")
  /\ Returns("ok", 0)
  /\ LET id == app.id[setup.calls[NextCall].arg]
     IN /\ con' = [con EXCEPT !.used = @ \ {id}]
        /\ ep' = [ep EXCEPT !.dropped = @ \/ id \in con.used]
  /\ UNCHANGED <<setup, ex, strm, net, cl>>

SetPingreqSendInterval ==
  /\ Calling("interval")
  /\ Returns("ok", 0)
  /\ PingreqSendInterval(setup.calls[NextCall].arg > 0)
  /\ UNCHANGED <<setup, ex, strm, net, cl>>

\* The process ends, and another one begins with what was saved.
ProcessEnds ==
  /\ Calling("end")
  /\ ex' = NewExecutor /\ strm' = NewStream /\ con' = NewConnection /\ cl' = NewClient
  /\ ep' = [NewEndpoint EXCEPT !.fires = ep.fires]
  /\ net' = [net EXCEPT !.link = FALSE, !.inbox = <<>>]
  /\ app' = [app EXCEPT !.next = NextCall, !.id = [i \in Calls |-> 0],
                        !.res = [i \in Calls |-> IF i = NextCall THEN "ok"
                                                  ELSE IF @[i] = "pending" THEN "lost" ELSE @[i]]]
  /\ UNCHANGED setup

\* The handler of call i is invoked.
Complete(i, ec, then) ==
  /\ app' = [app EXCEPT !.res[i] = ec]
  /\ ex' = Then(then)

RequestAt(state) == Running("request") /\ self.state = state
RequestOf(kind, state) == RequestAt(state) /\ Kind(self.i) = kind

\* handshake, close, the identifiers of the application, and what could not be
\* constructed
RequestDone ==
  /\ RequestAt("done")
  /\ app' = [app EXCEPT !.res[self.i] = self.ec, !.id[self.i] = self.id]
  /\ ex' = Then(<<>>)
  /\ UNCHANGED <<setup, strm, net, con, ep, cl>>

Saved ==
  /\ Running("stored")
  /\ app' = [app EXCEPT !.res[self.k.i] = "ok", !.saved = self.pvs]
  /\ ex' = Then(<<>>)
  /\ UNCHANGED <<setup, strm, net, con, ep, cl>>

RequestAcquired ==
  /\ RequestAt("acquired")
  /\ IF self.ec # "ok" THEN Complete(self.i, self.ec, <<>>)
     ELSE /\ ex' = Then(<<CASE Kind(self.i) = "publish" -> async_publish(self.i, self.id)
                            [] Kind(self.i) = "subscribe" -> async_subscribe(self.i, self.id)
                            [] Kind(self.i) = "unsubscribe" -> async_unsubscribe(self.i, self.id)>>)
          /\ UNCHANGED app
  /\ UNCHANGED <<setup, strm, net, con, ep, cl>>
-----------------------------------------------------------------------------
(***************************************************************************)
(* async_send() completed.  A request that has an answer is inserted,      *)
(* unless its identifier is there; late says that no receive loop will     *)
(* look for the answer (history).                                          *)
(***************************************************************************)
emplace(col, i, id) ==
  IF id \in DOMAIN col THEN col
  ELSE [x \in DOMAIN col \cup {id} |->
          IF x = id THEN [i |-> i, found |-> {}, late |-> ~ cl.loop /\ id # 0] ELSE col[x]]

\* The request waits for its timer, unless the packet was not sent.
Await(hs) ==
  /\ IF self.ec # "ok" THEN Complete(self.i, self.ec, <<>>) /\ UNCHANGED cl
     ELSE /\ cl' = [cl EXCEPT !.col = emplace(@, self.i, self.id), !.loop = @ \/ hs # <<>>]
          /\ ex' = Then(hs)
          /\ UNCHANGED app
  /\ UNCHANGED <<setup, strm, net, con, ep>>

\* There is nothing to wait for.
NoAnswer ==
  /\ Complete(self.i, self.ec, <<>>)
  /\ UNCHANGED <<setup, strm, net, con, ep, cl>>

StartSent == RequestOf("start", "sent") /\ Await(<<recv(recv_loop)>>)
PublishSent == RequestOf("publish", "sent") /\ IF self.id = 0 THEN NoAnswer ELSE Await(<<>>)
SubscribeSent == RequestOf("subscribe", "sent") /\ Await(<<>>)
UnsubscribeSent == RequestOf("unsubscribe", "sent") /\ Await(<<>>)
DisconnectSent == RequestOf("disconnect", "sent") /\ NoAnswer
AuthSent == RequestOf("auth", "sent") /\ NoAnswer
-----------------------------------------------------------------------------
(***************************************************************************)
(* The timer of a request was cancelled: what its entry holds decides.     *)
(***************************************************************************)
Found(found, t) == {p \in found : p.t = t}

StartVerdict(found) ==
  IF \E p \in Found(found, "connack") : p.id = 0 THEN "ok"
  ELSE IF Found(found, "connack") # {} THEN "refused" ELSE "protocol_error"

PublishVerdict(found) ==
  CASE Found(found, "puback") # {} -> IF \E p \in Found(found, "puback") : p.qos = 0 THEN "ok" ELSE "refused"
    [] \E p \in Found(found, "pubrec") : p.qos # 0 -> "refused"
    [] Found(found, "pubrec") # {} /\ Found(found, "pubcomp") # {} -> "ok"
    [] OTHER -> "protocol_error"

\* The reason codes of the entries, one of each kind of answer.
EntriesVerdict(found, t) ==
  IF Found(found, t) = {} THEN "protocol_error"
  ELSE LET p == CHOOSE q \in Found(found, t) : TRUE
       IN CASE p.qos = 0 -> "ok" [] p.qos = 1 -> "partial_error" [] p.qos = 2 -> "all_error"

SubscribeVerdict(found) == EntriesVerdict(found, "suback")
UnsubscribeVerdict(found) == EntriesVerdict(found, "unsuback")

Verdict(kind, found) ==
  CASE kind = "start" -> StartVerdict(found)
    [] kind = "publish" -> PublishVerdict(found)
    [] kind = "subscribe" -> SubscribeVerdict(found)
    [] kind = "unsubscribe" -> UnsubscribeVerdict(found)

Finish ==
  /\ LET mine == {id \in DOMAIN cl.col : cl.col[id].i = self.i}
     IN IF mine = {} THEN Complete(self.i, "aborted", <<>>) /\ UNCHANGED cl
        ELSE \E id \in mine :
               /\ Complete(self.i, Verdict(Kind(self.i), cl.col[id].found), <<>>)
               /\ cl' = [cl EXCEPT !.col = [x \in DOMAIN @ \ {id} |-> @[x]]]
  /\ UNCHANGED <<setup, strm, net, con, ep>>

StartAnswered == RequestOf("start", "answered") /\ Finish

\* Mutant of PublishAnswered: the entry stays.
PublishAnsweredKept ==
  /\ RequestOf("publish", "answered")
  /\ LET mine == {id \in DOMAIN cl.col : cl.col[id].i = self.i}
     IN Complete(self.i, IF mine = {} THEN "aborted" ELSE PublishVerdict(cl.col[Min(mine)].found), <<>>)
  /\ UNCHANGED <<setup, strm, net, con, ep, cl>>

PublishAnswered == RequestOf("publish", "answered") /\ Finish
SubscribeAnswered == RequestOf("subscribe", "answered") /\ Finish
UnsubscribeAnswered == RequestOf("unsubscribe", "answered") /\ Finish
-----------------------------------------------------------------------------
(***************************************************************************)
(* recv_loop.                                                              *)
(***************************************************************************)
\* recv_queue_.emplace_back() and tim_notify_publish_recv_.cancel().
Inserted(c, ec) == [c EXCEPT !.recvq = Append(@, ec), !.inserted = TRUE, !.waiter = <<>>]
Notifies(c) == [j \in DOMAIN c.waiter |-> Resume(c.waiter[j], "aborted")]

\* The timer of the request was not cancelled before.
Waits(e) == \A p \in e.found : p.t = "pubrec" /\ p.qos = 0

\* Mutant of RecvLoopError: the requests are left waiting.
RecvLoopErrorOnly ==
  /\ Running("recv_loop")
  /\ self.ec # "ok"
  /\ cl' = [Inserted(cl, self.ec) EXCEPT !.loop = FALSE]
  /\ ex' = ThenPost(<<>>, Notifies(cl))
  /\ UNCHANGED <<setup, strm, net, con, ep, app>>

RecvLoopError ==
  /\ Running("recv_loop")
  /\ self.ec # "ok"
  /\ cl' = [Inserted(cl, self.ec) EXCEPT !.col = <<>>, !.loop = FALSE]
  /\ LET ids == {id \in DOMAIN cl.col : Waits(cl.col[id])}
         waiting == CHOOSE f \in Bijection(1 .. Cardinality(ids), ids) : TRUE
     IN ex' = ThenPost(<<>>, Notifies(cl)
                               \o [j \in DOMAIN waiting |-> request(cl.col[waiting[j]].i, "answered", 0)])
  /\ UNCHANGED <<setup, strm, net, con, ep, app>>

KeyOf(p) == IF p.t = "connack" THEN 0 ELSE p.id

\* The pending calls that the server was last sent the identifier for.
Senders(key) ==
  LET sent == {j \in DOMAIN net.wire : net.wire[j].p.i > 0 /\ net.wire[j].p.id = key
                                          /\ (key = 0 => net.wire[j].p.t = "connect")}
  IN {i \in {net.wire[j].p.i : j \in {x \in sent : \A y \in sent : y <= x}} : app.res[i] = "pending"}

RecvLoopAnswer ==
  /\ Running("recv_loop")
  /\ self.ec = "ok"
  /\ self.pkt.t \in {"connack", "suback", "unsuback", "puback", "pubrec", "pubcomp"}
  /\ LET key == KeyOf(self.pkt)
         missed == Senders(key) # (IF key \in DOMAIN cl.col THEN {cl.col[key].i} ELSE {})
     IN IF key \in DOMAIN cl.col
        THEN /\ cl' = [cl EXCEPT !.col[key].found = @ \cup {self.pkt}, !.missed = @ \/ missed]
             /\ ex' = ThenPost(<<recv(recv_loop)>>,
                               IF Waits(cl.col[key]) /\ ~ (self.pkt.t = "pubrec" /\ self.pkt.qos = 0)
                               THEN <<request(cl.col[key].i, "answered", 0)>> ELSE <<>>)
        ELSE cl' = [cl EXCEPT !.missed = @ \/ missed] /\ ex' = Then(<<recv(recv_loop)>>)
  /\ UNCHANGED <<setup, strm, net, con, ep, app>>

RecvLoopQueued ==
  /\ Running("recv_loop")
  /\ self.ec = "ok"
  /\ self.pkt.t \in {"publish", "disconnect", "auth"}
  /\ cl' = Inserted(cl, "ok")
  /\ ex' = ThenPost(<<recv(recv_loop)>>, Notifies(cl))
  /\ UNCHANGED <<setup, strm, net, con, ep, app>>

RecvLoopIgnored ==
  /\ Running("recv_loop")
  /\ self.ec = "ok"
  /\ self.pkt.t = "pingresp"
  /\ ex' = Then(<<recv(recv_loop)>>)
  /\ UNCHANGED <<setup, strm, net, con, ep, cl, app>>

ClientRecv ==
  /\ Running("client_recv")
  /\ self.ec = "ok"
  /\ IF cl.recvq = <<>>
     THEN /\ cl' = [cl EXCEPT !.inserted = FALSE, !.waiter = <<self>>]
          /\ ex' = Then(<<>>)
          /\ UNCHANGED app
     ELSE /\ Complete(self.i, Head(cl.recvq), <<>>)
          /\ cl' = [cl EXCEPT !.recvq = Tail(@)]
  /\ UNCHANGED <<setup, strm, net, con, ep>>

\* tim_notify_publish_recv_ was cancelled.
ClientRecvNotified ==
  /\ Running("client_recv")
  /\ self.ec = "aborted"
  /\ IF cl.inserted
     THEN /\ Complete(self.i, Head(cl.recvq), <<>>)
          /\ cl' = [cl EXCEPT !.recvq = Tail(@)]
     ELSE Complete(self.i, "aborted", <<>>) /\ UNCHANGED cl
  /\ UNCHANGED <<setup, strm, net, con, ep>>

Progress ==
  \/ EndpointNext /\ UNCHANGED clientVars
  \/ Call \/ AcquireNow \/ RegisterNow \/ ReleaseNow \/ SetPingreqSendInterval \/ ProcessEnds \/ Saved
  \/ RequestAcquired \/ RequestDone
  \/ StartSent \/ PublishSent \/ SubscribeSent \/ UnsubscribeSent \/ DisconnectSent \/ AuthSent
  \/ StartAnswered \/ PublishAnswered \/ SubscribeAnswered \/ UnsubscribeAnswered
  \/ RecvLoopError \/ RecvLoopAnswer \/ RecvLoopQueued \/ RecvLoopIgnored
  \/ ClientRecv \/ ClientRecvNotified

\* The rest may never happen.
Next ==
  \/ Progress
  \/ LinkLost /\ UNCHANGED <<con, ep, cl, app>>
  \/ TimerExpires /\ UNCHANGED clientVars

Spec == Init /\ [][Next]_vars

\* Handlers that were posted run, what the layers have begun they complete, the
\* server answers, and the application makes its calls.
FairSpec == Spec /\ WF_vars(Progress)
-----------------------------------------------------------------------------
Completions == {"none", "pending", "lost", "ok", "reset", "aborted", "refused", "enqueued", "not_allowed",
                "fully_used", "id_conflict", "malformed", "partial_error", "all_error", "id_invalid",
                "protocol_error", "receive_maximum"}

\* The members have their types: the layers do one write, one read, one close and one
\* handshake at a time, and the Receive Maximum is never exceeded in the count, but for
\* a kept session, whose stored packets are sent again without being counted.
TypeOK ==
  /\ \A i \in Calls : app.res[i] \in Completions
  /\ ep.status \in {"open", "closing", "closed"}
  /\ con.status \in {"disconnected", "connecting", "connected"}
  /\ con.used \subseteq Ids
  /\ con.ack \cup con.rec \cup con.comp \cup con.sub \subseteq Ids
  /\ con.count \in 0 .. (IF setup.keep THEN CountSize - 1 ELSE con.max)
  /\ ep.timer \subseteq {"pingreq_send", "pingresp_recv"}
  /\ \A s \in {strm.flight, strm.reading, strm.closing, strm.connecting, cl.waiter} : Len(s) <= 1
  /\ DOMAIN cl.col \subseteq {0} \cup Ids

\* Whatever is queued, stored and sent in bulk, the packets arrive in the order of
\* the calls of async_write_packet(), and none arrives twice.  (A packet that is stored
\* while the socket is closed stays in storing_cbs_ when its operation fails, and goes
\* out with the packets of the next connection.)
WritesInOrder ==
  net.stale \/ \A j, k \in DOMAIN net.wire : j < k => net.wire[j].n < net.wire[k].n

\* A buffer that the layers read is owned by an operation that has not completed
\* (sending_cbs_ and storing_cbs_ only point into the packets), with the same exception.
BuffersOwned ==
  LET owned == {w.p.n : w \in Range(strm.queue)} \cup {f.w.p.n : f \in Range(strm.flight)}
  IN \/ net.stale
     \/ /\ \A f \in Range(strm.flight) : \A b \in Range(f.bufs) : b.n \in owned
        /\ \A b \in Range(strm.storing) : b.n \in owned

\* A publish or another request that completed with success was sent.  (In bulk mode
\* the operations behind a batch that failed complete with success as well: this says
\* nothing of bulk mode after the only connection ended, or if there are several.)
SuccessWasSent ==
  \A i \in Calls : Kind(i) \in {"start", "publish", "subscribe", "unsubscribe", "disconnect", "auth"} =>
    (app.res[i] = "ok" =>
       \/ i \in net.got
       \/ setup.bulk /\ (~ net.link \/ Cardinality({j \in Calls : Kind(j) = "handshake"}) > 1))

\* The answer that recv_loop() finds belongs to the request that waits under its
\* identifier, and no request that waits is missed.  (In bulk mode the answer to a
\* packet of a batch may come before its operation completes.)
AnswersFindRequests == ~ setup.bulk => ~ cl.missed

\* A request whose write completed before recv_loop() ended, while its handler ran
\* after: nobody looks for its answer.
Stranded(i) == \E id \in DOMAIN cl.col : cl.col[id].i = i /\ cl.col[id].late

\* Every call of the application but async_recv() completes, whatever is lost,
\* closed, queued or waited for, unless a request is stranded or missed, or a waiter
\* was not told of an identifier (see NoLostWakeup).
CallsEnd == <>(\/ \A i \in Calls : Kind(i) # "recv" => Completed(i)
               \/ \E i \in Calls : Stranded(i)
               \/ cl.missed
               \/ ep.dropped /\ ep.retry # <<>>)

\* The server never holds more unanswered PUBLISH packets than its Receive Maximum, but
\* for a kept session: what send_stored() sends again is not counted.
WithinReceiveMaximum ==
  setup.rmax > 0 /\ ~ setup.keep =>
    Cardinality({j \in DOMAIN net.wire : net.wire[j].p.t = "publish" /\ net.wire[j].p.qos > 0})
      <= setup.rmax + net.acks

\* The calls that take an identifier.
TakesId(i) == NeedsId(i) \/ Kind(i) \in {"acquire", "acquire_now", "register", "register_now"}

\* When nobody has to wait for an identifier, PUBLISH packets of QoS 1 and 2 are sent in
\* the order of the calls, also when some of them wait in publish_queue_ for the Receive
\* Maximum.  (A waiter that is woken and finds no identifier sleeps behind the others.
\* A packet of a kept session that is refused for the Receive Maximum is stored as well
\* as queued, and goes out twice on the next connection.)
PublishedInOrder ==
  /\ Cardinality({i \in Calls : TakesId(i)}) + Len(setup.restored) <= setup.ids
  /\ ~ setup.keep \/ setup.rmax = 0
  =>
  \A j, k \in {x \in DOMAIN net.wire : net.wire[x].p.t = "publish" /\ net.wire[x].p.qos > 0} :
    j < k => net.wire[j].p.i < net.wire[k].p.i

\* When a session is resumed, after a reconnection or by a process that restored what
\* an earlier one saved, all that is stored has been sent on the new connection once
\* nothing is left to be written: nothing waits for an answer that nobody was asked for.
StoredAreSent ==
  /\ Waiting /\ ex.ready = <<>> /\ ep.events = <<>> /\ strm.queue = <<>> /\ strm.flight = <<>>
  /\ net.link /\ con.status = "connected" /\ setup.rmax = 0
  => \A p \in Range(con.store) : \E w \in Range(net.wire) : w.p.t = p.t /\ w.p.id = p.id

\* No waiter sleeps while no identifier is in use, whose release would wake it, unless
\* identifiers were given back without telling anybody: by send_op after a write error,
\* by release_packet_id(), and by CONNECT and CONNACK packets that begin a session.  (A
\* waiter that came after a release and before the waiter that it woke may sleep while
\* one is free.)
NoLostWakeup ==
  Waiting /\ ex.ready = <<>> /\ ep.retry # <<>> /\ ~ ep.dropped => con.used # {}


\* What the documentation says of set_pingresp_recv_timeout(): "If a PINGRESP packet
\* is received from the broker, the timer is canceled."
PingrespCancelsTimer ==
  Waiting /\ ex.ready = <<>> /\ "pingresp_recv" \in ep.timer => con.pong

\* What the documentation says of the Receive Maximum: "When the receive count
\* decreases, the queued PUBLISH packets are sent."
QueuedAreSent == ep.pubq # <<>> ~> ep.pubq = <<>>
=============================================================================
