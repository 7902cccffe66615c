------------------------------ MODULE Endpoint ------------------------------
(***************************************************************************)
(* asio_bind/impl/endpoint_*: a v5 client endpoint, its operations as the  *)
(* handlers they are made of, on the stream of module Stream.              *)
(*   con  what the operations see of basic_connection (module Connection   *)
(*        models all of it): status, the identifiers in use, the Receive   *)
(*        Maximum of the peer (0: none) and the count against it, the      *)
(*        store, and the identifiers that wait for each kind of answer     *)
(*        (sub: pid_suback_ and pid_unsuback_);                            *)
(*        ping and pong are pingreq_send_set_ and pingresp_recv_set_, and  *)
(*        interval says that pingreq_send_interval_ms_ has a value;        *)
(*   ep   the members of basic_endpoint_impl, the timers that are set      *)
(*        (timer), the sends that wait for duration_close_by_disconnect_   *)
(*        (delayed), how often timers expired, and whether identifiers     *)
(*        were given back without an event (dropped, history).             *)
(* A packet is a record of its type t, its identifier id (0: none), its    *)
(* qos, and of the request i of the application it belongs to.             *)
(***************************************************************************)
EXTENDS Stream

VARIABLES con, ep

epVars == <<con, ep>>

Packet(t, id) == [t |-> t, id |-> id, qos |-> 0, i |-> 0]

send_ev(p, rel) == [e |-> "send", p |-> p, rel |-> rel]
error_ev(ec) == [e |-> "error", ec |-> ec]
released_ev(id) == [e |-> "released", id |-> id]
received_ev(p) == [e |-> "received", p |-> p]
timer_ev(op, kind) == [e |-> "timer", op |-> op, kind |-> kind]
close_ev == [e |-> "close"]

\* op is applied to the elements of s one after the other.
InTurn(op(_, _), base, s) == MapThenFoldSet(LAMBDA x, y : op(y, x), base, LAMBDA j : s[j], Max, DOMAIN s)

NewConnection ==
  [status |-> "disconnected", used |-> {}, max |-> 0, count |-> 0, store |-> <<>>, ack |-> {}, rec |-> {},
   comp |-> {}, sub |-> {}, ping |-> FALSE, pong |-> FALSE, interval |-> FALSE]
NewEndpoint ==
  [status |-> "closed", buf |-> <<>>, events |-> <<>>, pubq |-> <<>>, closeq |-> <<>>, retry |-> <<>>,
   released |-> FALSE, timer |-> {}, delayed |-> <<>>, fires |-> 0, dropped |-> FALSE]

EndpointInit == StreamInit /\ con = NewConnection /\ ep = NewEndpoint
-----------------------------------------------------------------------------
(***************************************************************************)
(* The connection: the new con and the events of a call.                   *)
(***************************************************************************)
Result(c, evs) == [con |-> c, evs |-> evs]

cancel_timers(c) ==
  Result([c EXCEPT !.ping = FALSE, !.pong = FALSE],
         (IF c.ping THEN <<timer_ev("cancel", "pingreq_send")>> ELSE <<>>)
           \o (IF c.pong THEN <<timer_ev("cancel", "pingresp_recv")>> ELSE <<>>))

\* What send() does after process_send_packet() returned true.
post_process(r) ==
  IF r.con.interval
  THEN Result([r.con EXCEPT !.ping = TRUE], Append(r.evs, timer_ev("reset", "pingreq_send")))
  ELSE r

send_connect(c, p) ==
  IF c.status # "disconnected" THEN Result(c, <<error_ev("not_allowed")>>)
  ELSE LET begun == [c EXCEPT !.status = "connecting", !.max = 0, !.count = 0, !.sub = {},
                               !.interval = @ \/ setup.interval]
       IN post_process(
            Result(IF setup.keep THEN begun
                   ELSE [begun EXCEPT !.used = {}, !.store = <<>>, !.ack = {}, !.rec = {}, !.comp = {}],
                   <<send_ev(p, 0)>>))

\* Mutant of Stored: the newest first.
StoredFirst(c, p) ==
  IF \E j \in DOMAIN c.store : c.store[j].id = p.id THEN c.store ELSE <<p>> \o c.store

Stored(c, p) ==
  IF \E j \in DOMAIN c.store : c.store[j].id = p.id THEN c.store ELSE Append(c.store, p)
Unstored(c, id) == SelectSeq(c.store, LAMBDA p : p.id # id)

\* publish_send_count_ is a 16-bit number.
CountSize == 65536

\* Mutant of AtMaximum: one packet too many.
PastMaximum(c) == c.max > 0 /\ c.count > c.max

AtMaximum(c) == c.max > 0 /\ c.count = c.max

send_publish(c, p) ==
  IF p.qos > 0 /\ p.id \notin c.used THEN Result(c, <<error_ev("id_invalid")>>)
  ELSE LET stores == setup.keep /\ c.status # "disconnected"
           kept == IF p.qos = 0 THEN c
                   ELSE [c EXCEPT !.store = IF stores THEN Stored(c, p) ELSE @,
                                  !.ack = IF p.qos = 1 THEN @ \cup {p.id} ELSE @,
                                  !.rec = IF p.qos = 2 THEN @ \cup {p.id} ELSE @]
           counted == IF p.qos > 0 /\ c.max > 0 THEN [kept EXCEPT !.count = (@ + 1) % CountSize] ELSE kept
           Refused(d, ec) == Result([d EXCEPT !.used = @ \ {p.id}],
                                    <<error_ev(ec)>> \o (IF p.id = 0 THEN <<>> ELSE <<released_ev(p.id)>>))
       IN IF p.qos > 0 /\ AtMaximum(c) THEN Refused(kept, "receive_maximum")
          ELSE IF c.status # "connected" THEN Refused(counted, "not_allowed")
          ELSE post_process(Result(counted, <<send_ev(p, IF stores THEN 0 ELSE p.id)>>))

\* SUBSCRIBE and UNSUBSCRIBE.
send_request(c, p) ==
  IF c.status # "connected" THEN Result(c, <<error_ev("not_allowed")>>)
  ELSE post_process(Result([c EXCEPT !.sub = @ \cup {p.id}], <<send_ev(p, p.id)>>))

send_pingreq(c) ==
  IF c.status # "connected" THEN Result(c, <<error_ev("not_allowed")>>)
  ELSE post_process(
         IF setup.timeout
         THEN Result([c EXCEPT !.pong = TRUE],
                     <<send_ev(Packet("pingreq", 0), 0), timer_ev("reset", "pingresp_recv")>>)
         ELSE Result(c, <<send_ev(Packet("pingreq", 0), 0)>>))

send_disconnect(c, p) ==
  IF c.status # "connected" THEN Result(c, <<error_ev("not_allowed")>>)
  ELSE LET r == cancel_timers([c EXCEPT !.status = "disconnected"])
       IN Result(r.con, r.evs \o <<send_ev(p, 0), close_ev>>)

send_auth(c, p) ==
  IF c.status = "disconnected" THEN Result(c, <<error_ev("not_allowed")>>)
  ELSE post_process(Result(c, <<send_ev(p, 0)>>))

con_send(c, p) ==
  CASE p.t = "connect" -> send_connect(c, p)
    [] p.t = "publish" -> send_publish(c, p)
    [] p.t \in {"subscribe", "unsubscribe"} -> send_request(c, p)
    [] p.t = "disconnect" -> send_disconnect(c, p)
    [] p.t = "auth" -> send_auth(c, p)

protocol_error(c) ==
  LET r == send_disconnect(c, [Packet("disconnect", 0) EXCEPT !.i = -1])
  IN Result(r.con, Append(r.evs, error_ev("protocol_error")))

\* Mutant of Answered: the count is taken down although there is no Receive Maximum.
AnsweredUncounted(c, id) ==
  [c EXCEPT !.used = @ \ {id}, !.store = Unstored(c, id), !.count = (@ - 1) % CountSize]

\* The identifier is free again, and the packet no longer counts.  (A packet that is
\* sent again was not counted on this connection: the count wraps.)
Answered(c, id) ==
  [c EXCEPT !.used = @ \ {id}, !.store = Unstored(c, id),
            !.count = IF c.max > 0 THEN (@ - 1) % CountSize ELSE @]

\* Mutant of recv_connack: only PUBLISH packets are sent again.
recv_connack_publishes(c, p) ==
  IF p.id # 0 THEN Result(c, <<received_ev(p)>>)
  ELSE LET up == [c EXCEPT !.status = "connected", !.max = setup.rmax]
           publishes == SelectSeq(c.store, LAMBDA q : q.t = "publish")
       IN IF p.qos = 1
          THEN Result(up, [j \in DOMAIN publishes |-> send_ev(publishes[j], 0)] \o <<received_ev(p)>>)
          ELSE Result([up EXCEPT !.used = {}, !.store = <<>>, !.ack = {}, !.rec = {}, !.comp = {}],
                      <<received_ev(p)>>)

recv_connack(c, p) ==
  IF p.id # 0 THEN Result(c, <<received_ev(p)>>)
  ELSE LET up == [c EXCEPT !.status = "connected", !.max = setup.rmax]
       IN IF p.qos = 1
          THEN Result(up, [j \in DOMAIN c.store |-> send_ev(c.store[j], 0)] \o <<received_ev(p)>>)
          ELSE Result([up EXCEPT !.used = {}, !.store = <<>>, !.ack = {}, !.rec = {}, !.comp = {}],
                      <<received_ev(p)>>)

recv_puback(c, p) ==
  IF p.id \notin c.ack THEN protocol_error(c)
  ELSE Result([Answered(c, p.id) EXCEPT !.ack = @ \ {p.id}], <<released_ev(p.id), received_ev(p)>>)

\* qos 1: the reason code is an error.
recv_pubrec(c, p) ==
  IF p.id \notin c.rec THEN protocol_error(c)
  ELSE IF p.qos = 1
  THEN Result([Answered(c, p.id) EXCEPT !.rec = @ \ {p.id}], <<released_ev(p.id), received_ev(p)>>)
  ELSE LET rel == Packet("pubrel", p.id)
           d == [c EXCEPT !.rec = @ \ {p.id}, !.store = Unstored(c, p.id)]
           r == post_process(Result([d EXCEPT !.comp = @ \cup {p.id},
                                              !.store = IF setup.keep THEN Append(@, rel) ELSE @],
                                    <<send_ev(rel, 0)>>))
       IN Result(r.con, Append(r.evs, received_ev(p)))

recv_pubcomp(c, p) ==
  IF p.id \notin c.comp THEN protocol_error(c)
  ELSE Result([Answered(c, p.id) EXCEPT !.comp = @ \ {p.id}], <<released_ev(p.id), received_ev(p)>>)

recv_suback(c, p) ==
  IF p.id \notin c.sub THEN protocol_error(c)
  ELSE Result([c EXCEPT !.sub = @ \ {p.id}, !.used = @ \ {p.id}], <<released_ev(p.id), received_ev(p)>>)

recv_publish(c, p) ==
  IF p.qos = 0 THEN Result(c, <<received_ev(p)>>)
  ELSE LET r == post_process(Result(c, <<send_ev(Packet("puback", p.id), 0)>>))
       IN Result(r.con, Append(r.evs, received_ev(p)))

recv_pingresp(c, p) ==
  Result([c EXCEPT !.pong = FALSE], <<timer_ev("cancel", "pingresp_recv"), received_ev(p)>>)

recv_disconnect(c, p) ==
  LET r == cancel_timers([c EXCEPT !.status = "disconnected"])
  IN Result(r.con, Append(r.evs, received_ev(p)))

recv_auth(c, p) == Result(c, <<received_ev(p)>>)

\* process_recv_packet(): the status decides whether the packet may come.
Expected(c, p) ==
  CASE p.t = "connack" -> c.status = "connecting"
    [] p.t = "auth" -> c.status # "disconnected"
    [] OTHER -> c.status = "connected"

con_recv(c, p) ==
  CASE ~ Expected(c, p) -> Result(c, <<error_ev("protocol_error")>>)
    [] p.t = "connack" -> recv_connack(c, p)
    [] p.t = "puback" -> recv_puback(c, p)
    [] p.t = "pubrec" -> recv_pubrec(c, p)
    [] p.t = "pubcomp" -> recv_pubcomp(c, p)
    [] p.t \in {"suback", "unsuback"} -> recv_suback(c, p)
    [] p.t = "publish" -> recv_publish(c, p)
    [] p.t = "pingresp" -> recv_pingresp(c, p)
    [] p.t = "disconnect" -> recv_disconnect(c, p)
    [] p.t = "auth" -> recv_auth(c, p)

\* release_packet_id() tells of an identifier only if it is in use.
notify_closed(c) ==
  LET ids == (c.sub \cup (IF setup.keep THEN {} ELSE c.ack \cup c.rec \cup c.comp)) \cap c.used
      d == [c EXCEPT !.status = "disconnected", !.sub = {}, !.used = @ \ ids]
      r == cancel_timers(IF setup.keep THEN d ELSE [d EXCEPT !.ack = {}, !.rec = {}, !.comp = {}])
  IN [con |-> r.con, evs |-> r.evs, ids |-> ids]
-----------------------------------------------------------------------------
(***************************************************************************)
(* Waiting for a packet identifier.                                        *)
(***************************************************************************)
Ids == 1 .. setup.ids

acquire(k) == [fn |-> "acquire", k |-> k, ec |-> "ok"]

\* The waiters that were not notified yet.
Sleeping(retry) == {j \in DOMAIN retry : ~ retry[j].cancelled}

\* Mutant of Notified: nobody is told while an earlier release is not consumed.
NotifiedOnce(e) ==
  IF e.released \/ Sleeping(e.retry) = {} THEN [ep |-> [e EXCEPT !.released = TRUE], posted |-> <<>>]
  ELSE [ep |-> [e EXCEPT !.released = TRUE, !.retry[Min(Sleeping(e.retry))].cancelled = TRUE],
        posted |-> <<Resume(e.retry[Min(Sleeping(e.retry))].h, "aborted")>>]

\* notify_release_pid(): the timer of the first waiter that was not notified before
\* is cancelled.
Notified(e) ==
  IF Sleeping(e.retry) = {} THEN [ep |-> [e EXCEPT !.released = TRUE], posted |-> <<>>]
  ELSE [ep |-> [e EXCEPT !.released = TRUE, !.retry[Min(Sleeping(e.retry))].cancelled = TRUE],
        posted |-> <<Resume(e.retry[Min(Sleeping(e.retry))].h, "aborted")>>]


\* acq_proc: the smallest identifier that is free, or the end of the queue.
AcqProc(e) ==
  IF Ids \subseteq con.used
  THEN /\ ep' = [e EXCEPT !.released = FALSE, !.retry = Append(@, [h |-> self, cancelled |-> FALSE])]
       /\ ex' = Then(<<>>)
       /\ UNCHANGED con
  ELSE LET id == Min(Ids \ con.used)
       IN /\ con' = [con EXCEPT !.used = @ \cup {id}]
          /\ ep' = e
          /\ ex' = Then(<<[Resume(self.k, "ok") EXCEPT !.id = id]>>)

AcquireWaitUntil ==
  /\ Running("acquire")
  /\ self.ec = "ok"
  /\ IF ep.retry # <<>>
     THEN /\ ep' = [ep EXCEPT !.retry = Append(@, [h |-> self, cancelled |-> FALSE])]
          /\ ex' = Then(<<>>)
          /\ UNCHANGED con
     ELSE AcqProc(ep)
  /\ UNCHANGED <<setup, strm, net>>

\* The waiter is erased from the queue, if it is there.
Erased(retry, k) ==
  LET at == {j \in DOMAIN retry : retry[j].h.k = k}
  IN IF at = {} THEN retry ELSE SubSeq(retry, 1, Min(at) - 1) \o SubSeq(retry, Min(at) + 1, Len(retry))

complete_retry_one(retry) == IF retry = <<>> THEN retry ELSE Tail(retry)

\* add_retry_op completes with operation_aborted.
AcquireRetried ==
  /\ Running("acquire")
  /\ self.ec = "aborted"
  /\ IF ep.released THEN AcqProc([ep EXCEPT !.retry = complete_retry_one(@)])
     ELSE /\ ep' = [ep EXCEPT !.retry = Erased(@, self.k)]
          /\ ex' = Then(<<[Resume(self.k, "aborted") EXCEPT !.id = 0]>>)
          /\ UNCHANGED con
  /\ UNCHANGED <<setup, strm, net>>

\* async_acquire_unique_packet_id(), async_register_packet_id() and
\* async_release_packet_id() of the application.
acquire_now(k) == [fn |-> "acquire_now", k |-> k]
register(k, id) == [fn |-> "register", k |-> k, id |-> id]
release(k, id) == [fn |-> "release", k |-> k, id |-> id]

AcquireUnique ==
  /\ Running("acquire_now")
  /\ IF Ids \subseteq con.used
     THEN /\ ex' = Then(<<Resume(self.k, "fully_used")>>)
          /\ UNCHANGED con
     ELSE /\ con' = [con EXCEPT !.used = @ \cup {Min(Ids \ @)}]
          /\ ex' = Then(<<[Resume(self.k, "ok") EXCEPT !.id = Min(Ids \ con.used)]>>)
  /\ UNCHANGED <<setup, strm, net, ep>>

RegisterPacketId ==
  /\ Running("register")
  /\ IF self.id \in con.used
     THEN /\ ex' = Then(<<Resume(self.k, "id_conflict")>>)
          /\ UNCHANGED con
     ELSE /\ con' = [con EXCEPT !.used = @ \cup {self.id}]
          /\ ex' = Then(<<[Resume(self.k, "ok") EXCEPT !.id = self.id]>>)
  /\ UNCHANGED <<setup, strm, net, ep>>

ReleasePacketId ==
  /\ Running("release")
  /\ LET n == IF self.id \in con.used THEN Notified(ep) ELSE [ep |-> ep, posted |-> <<>>]
     IN /\ ep' = n.ep
        /\ ex' = ThenPost(<<self.k>>, n.posted)
  /\ con' = [con EXCEPT !.used = @ \ {self.id}]
  /\ UNCHANGED <<setup, strm, net>>
-----------------------------------------------------------------------------
(***************************************************************************)
(* What a process stored before it ended is given to the endpoint of the   *)
(* next.                                                                   *)
(***************************************************************************)
get_stored(k) == [fn |-> "get_stored", k |-> k]
restore(k, pvs) == [fn |-> "restore", k |-> k, pvs |-> pvs]

GetStoredPackets ==
  /\ Running("get_stored")
  /\ ex' = Then(<<[fn |-> "stored", k |-> self.k, pvs |-> con.store]>>)
  /\ UNCHANGED <<setup, strm, net, con, ep>>

Restored(c, p) ==
  LET known == [c EXCEPT !.ack = IF p.t = "publish" /\ p.qos = 1 THEN @ \cup {p.id} ELSE @,
                         !.rec = IF p.t = "publish" /\ p.qos = 2 THEN @ \cup {p.id} ELSE @,
                         !.comp = IF p.t = "pubrel" THEN @ \cup {p.id} ELSE @]
  IN IF p.id \in c.used THEN known
     ELSE [known EXCEPT !.used = @ \cup {p.id}, !.store = Append(@, p)]

RestorePackets ==
  /\ Running("restore")
  /\ con' = InTurn(Restored, con, self.pvs)
  /\ ex' = Then(<<self.k>>)
  /\ UNCHANGED <<setup, strm, net, ep>>
-----------------------------------------------------------------------------
(***************************************************************************)
(* Timers.                                                                 *)
(***************************************************************************)
TimerSet(timer, ev) == IF ev.op = "reset" THEN timer \cup {ev.kind} ELSE timer \ {ev.kind}

TimerOp(e, ev) == [e EXCEPT !.timer = TimerSet(@, ev)]

\* The timer events of evs, one after the other.
TimerOps(e, evs) ==
  [e EXCEPT !.timer = InTurn(LAMBDA timer, ev : IF ev.e = "timer" THEN TimerSet(timer, ev) ELSE timer, @, evs)]

\* A timer event of send_op: it asserts that no event cancels pingresp_recv; where
\* assertions are off, the event that DISCONNECT brings about is ignored.
SendTimerOp(e, ev) == IF ev = timer_ev("cancel", "pingresp_recv") THEN e ELSE TimerOp(e, ev)

\* A timer event of recv_op: for the cancellation of pingresp_recv it calls
\* reset_pingresp_recv_timer() without a duration, which does nothing.
RecvTimerOp(e, ev) == IF ev.kind = "pingresp_recv" THEN e ELSE TimerOp(e, ev)

\* set_pingreq_send_interval(), on or off.
PingreqSendInterval(on) ==
  /\ con' = [con EXCEPT !.interval = on, !.ping = on]
  /\ ep' = TimerOp(ep, timer_ev(IF on THEN "reset" ELSE "cancel", "pingreq_send"))

TimerExpires ==
  /\ Waiting
  /\ ep.fires < setup.fires
  /\ \E kind \in ep.timer :
       /\ ep' = [ep EXCEPT !.timer = @ \ {kind}, !.fires = @ + 1]
       /\ ex' = Posted(<<[fn |-> "timer", kind |-> kind]>>)
  /\ UNCHANGED <<setup, strm, net, con>>

close(k) == [fn |-> "close", k |-> k, ec |-> "ok"]

\* The handler that reset_pingreq_send_timer() gave async_wait().
PingreqSendFired ==
  /\ Running("timer")
  /\ self.kind = "pingreq_send"
  /\ LET c == [con EXCEPT !.ping = FALSE]
         r == send_pingreq(c)
     IN IF con.status = "connected"
        THEN /\ con' = r.con
             /\ ep' = TimerOps(ep, r.evs)
             /\ ex' = Then(<<write_packet(detached, Head(r.evs).p)>>)
        ELSE con' = c /\ ex' = Then(<<>>) /\ UNCHANGED ep
  /\ UNCHANGED <<setup, strm, net>>

PingrespRecvFired ==
  /\ Running("timer")
  /\ self.kind = "pingresp_recv"
  /\ LET c == [con EXCEPT !.pong = FALSE]
         r == send_disconnect(c, [Packet("disconnect", 0) EXCEPT !.i = -2])
     IN IF con.status = "connected"
        THEN /\ con' = r.con
             /\ ep' = TimerOps(ep, r.evs)
             /\ ex' = Then(<<write_packet(close(detached), [Packet("disconnect", 0) EXCEPT !.i = -2])>>)
        ELSE con' = c /\ ex' = Then(<<>>) /\ UNCHANGED ep
  /\ UNCHANGED <<setup, strm, net>>
-----------------------------------------------------------------------------
(***************************************************************************)
(* close_op.                                                               *)
(***************************************************************************)
CloseStart ==
  /\ Running("close")
  /\ \/ /\ ep.status = "open"
        /\ ep' = [ep EXCEPT !.status = "closing"]
        /\ ex' = Then(<<stream_close([fn |-> "close_complete", k |-> self.k])>>)
     \/ /\ ep.status = "closing"
        /\ ep' = [ep EXCEPT !.closeq = Append(@, self)]
        /\ ex' = Then(<<>>)
     \/ /\ ep.status = "closed"
        /\ ex' = Then(<<self.k>>)
        /\ UNCHANGED ep
  /\ UNCHANGED <<setup, strm, net, con>>

CloseComplete ==
  /\ Running("close_complete")
  /\ LET r == notify_closed(con)
     IN /\ con' = r.con
        /\ ep' = TimerOps([ep EXCEPT !.status = "closed", !.closeq = <<>>], r.evs)
        /\ ex' = Then(<<[fn |-> "notify", ids |-> r.ids]>> \o ep.closeq \o <<self.k>>)
  /\ UNCHANGED <<setup, strm, net>>

\* notify_release_pid() for each identifier that notify_closed() released: a round of
\* the loop of close_op, before anything else that was dispatched runs.
CloseNotifies ==
  /\ Running("notify")
  /\ IF self.ids = {} THEN ex' = Then(<<>>) /\ UNCHANGED ep
     ELSE /\ ep' = Notified(ep).ep
          /\ ex' = ThenPost(<<[self EXCEPT !.ids = @ \ {Min(@)}]>>, Notified(ep).posted)
  /\ UNCHANGED <<setup, strm, net, con>>
-----------------------------------------------------------------------------
(***************************************************************************)
(* send_op.                                                                *)
(***************************************************************************)
send(k, p) ==
  [fn |-> "send", state |-> "write", k |-> k, p |-> p, ec |-> "ok", evs |-> <<>>, err |-> "ok",
   disc |-> FALSE, rel |-> 0]

\* Mutant of SendError: the operation completes with what was decided before.
SendErrorDecided ==
  /\ Running("send")
  /\ self.ec # "ok"
  /\ con' = [con EXCEPT !.used = @ \ {self.rel}]
  /\ ep' = [ep EXCEPT !.dropped = @ \/ self.rel \in con.used]
  /\ ex' = Then(<<Resume(self.k, self.err)>>)
  /\ UNCHANGED <<setup, strm, net>>

\* con_.release_packet_id(); the event it returns is dropped.
SendError ==
  /\ Running("send")
  /\ self.ec # "ok"
  /\ con' = [con EXCEPT !.used = @ \ {self.rel}]
  /\ ep' = [ep EXCEPT !.dropped = @ \/ self.rel \in con.used]
  /\ ex' = Then(<<Resume(self.k, self.ec)>>)
  /\ UNCHANGED <<setup, strm, net>>

\* pid_man_.clear() of CONNECT and CONNACK packets: there is no event of it.
Clears(p, c) == p.t \in {"connect", "connack"} /\ c.used # con.used

SendWrite ==
  /\ Running("send")
  /\ self.state = "write"
  /\ self.ec = "ok"
  /\ LET r == con_send(con, self.p)
     IN /\ con' = r.con
        /\ ep' = [ep EXCEPT !.dropped = @ \/ Clears(self.p, r.con)]
        /\ ex' = Then(<<[self EXCEPT !.state = "sent", !.evs = r.evs]>>)
  /\ UNCHANGED <<setup, strm, net>>

NextEvent(h) == [h EXCEPT !.evs = Tail(@)]

enqueue_publish(e, p) ==
  IF (con.max > 0 /\ con.max = con.count) \/ e.pubq # <<>> THEN [e EXCEPT !.pubq = Append(@, p)] ELSE e

\* process_one_event()
SendEvent ==
  /\ Running("send")
  /\ self.state = "sent"
  /\ self.ec = "ok"
  /\ self.evs # <<>>
  /\ LET ev == Head(self.evs)
         rest == NextEvent(self)
     IN \/ /\ ev.e = "error" /\ ev.ec = "receive_maximum"
           /\ con' = [con EXCEPT !.used = @ \cup {self.p.id}]
           /\ ep' = enqueue_publish(ep, self.p)
           /\ ex' = Then(<<[rest EXCEPT !.err = "enqueued"]>>)
        \/ /\ ev.e = "error" /\ ev.ec # "receive_maximum"
           /\ ex' = Then(<<[rest EXCEPT !.err = ev.ec]>>)
           /\ UNCHANGED <<con, ep>>
        \/ /\ ev.e = "timer"
           /\ ep' = SendTimerOp(ep, ev)
           /\ ex' = Then(<<rest>>)
           /\ UNCHANGED con
        \/ /\ ev.e = "released"
           /\ ep' = Notified(ep).ep
           /\ ex' = ThenPost(<<rest>>, Notified(ep).posted)
           /\ UNCHANGED con
        \/ /\ ev.e = "send"
           /\ ex' = Then(<<write_packet([rest EXCEPT !.rel = ev.rel, !.disc = ev.p.t = "disconnect"], ev.p)>>)
           /\ UNCHANGED <<con, ep>>
        \/ /\ ev.e = "close" /\ ~ (self.disc /\ setup.delay)
           /\ ex' = ThenPost(<<>>, <<close([self EXCEPT !.evs = <<>>])>>)
           /\ UNCHANGED <<con, ep>>
        \/ /\ ev.e = "close" /\ self.disc /\ setup.delay
           /\ ep' = [ep EXCEPT !.delayed = Append(@, close([self EXCEPT !.evs = <<>>]))]
           /\ ex' = Then(<<>>)
           /\ UNCHANGED con
  /\ UNCHANGED <<setup, strm, net>>

SendComplete ==
  /\ Running("send")
  /\ self.state = "sent"
  /\ self.ec = "ok"
  /\ self.evs = <<>>
  /\ ex' = Then(<<Resume(self.k, self.err)>>)
  /\ UNCHANGED <<setup, strm, net, con, ep>>

\* tim_close_by_disconnect_ expires.
DelayExpires ==
  /\ Waiting
  /\ ep.delayed # <<>>
  /\ ep' = [ep EXCEPT !.delayed = Tail(@)]
  /\ ex' = Posted(<<Head(ep.delayed)>>)
  /\ UNCHANGED <<setup, strm, net, con>>
-----------------------------------------------------------------------------
(***************************************************************************)
(* recv_op.  A packet arrives in one piece (module Wire is about pieces).  *)
(***************************************************************************)
NoPacket == Packet("none", 0)

recv(k) ==
  [fn |-> "recv", state |-> "check_buf", k |-> k, ec |-> "ok", data |-> <<>>, err |-> "ok",
   pkt |-> NoPacket, resend |-> FALSE]

RecvAt(state) == Running("recv") /\ self.ec = "ok" /\ self.state = state

RecvError ==
  /\ Running("recv")
  /\ self.ec # "ok"
  /\ ex' = IF self.ec = "aborted"
           THEN Then(<<Resume(self.k, self.ec)>>)
           ELSE Then(<<close([self EXCEPT !.ec = "ok", !.err = self.ec, !.state = "complete"])>>)
  /\ UNCHANGED <<setup, strm, net, con, ep>>

RecvCheckBuf ==
  /\ RecvAt("check_buf")
  /\ ex' = IF ep.buf = <<>>
           THEN Then(<<read_some([self EXCEPT !.state = "read_istream"])>>)
           ELSE ThenPost(<<>>, <<[self EXCEPT !.state = "read_istream"]>>)
  /\ UNCHANGED <<setup, strm, net, con, ep>>

\* finish_read and read_istream
RecvReadIstream ==
  /\ RecvAt("read_istream")
  /\ LET buf == ep.buf \o self.data
         r == con_recv(con, Head(buf))
     IN /\ con' = r.con
        /\ ep' = [ep EXCEPT !.buf = Tail(buf), !.events = @ \o r.evs, !.dropped = @ \/ Clears(Head(buf), r.con)]
  /\ ex' = Then(<<[self EXCEPT !.data = <<>>, !.state = "process"]>>)
  /\ UNCHANGED <<setup, strm, net>>

\* process_one_event()
RecvEvent ==
  /\ RecvAt("process")
  /\ ep.events # <<>>
  /\ LET ev == Head(ep.events)
         e == [ep EXCEPT !.events = Tail(@)]
     IN \/ /\ ev.e = "error"
           /\ ep' = e
           /\ ex' = Then(<<[self EXCEPT !.err = ev.ec]>>)
        \/ /\ ev.e = "send"
           /\ ep' = e
           /\ ex' = Then(<<write_packet(self, ev.p)>>)
        \/ /\ ev.e = "released"
           /\ ep' = Notified(e).ep
           /\ ex' = ThenPost(<<[self EXCEPT !.resend = TRUE]>>, Notified(e).posted)
        \/ /\ ev.e = "received"
           /\ ep' = e
           /\ ex' = Then(<<[self EXCEPT !.pkt = ev.p]>>)
        \/ /\ ev.e = "timer"
           /\ ep' = RecvTimerOp(e, ev)
           /\ ex' = Then(<<self>>)
        \/ /\ ev.e = "close"
           /\ ep' = e
           /\ ex' = Then(<<close(self)>>)
  /\ UNCHANGED <<setup, strm, net, con>>

RecvProcessed ==
  /\ RecvAt("process")
  /\ ep.events = <<>>
  /\ ex' = Then(<<[self EXCEPT !.state = IF self.err = "ok" /\ self.pkt = NoPacket
                                         THEN "check_buf" ELSE "complete"]>>)
  /\ UNCHANGED <<setup, strm, net, con, ep>>

RecvComplete ==
  /\ RecvAt("complete")
  /\ ex' = IF self.err # "ok"
           THEN Then(<<[Resume(self.k, self.err) EXCEPT !.pkt = NoPacket]>>)
           ELSE Then((IF self.resend THEN <<[fn |-> "from_queue"]>> ELSE <<>>)
                       \o <<[Resume(self.k, "ok") EXCEPT !.pkt = self.pkt]>>)
  /\ UNCHANGED <<setup, strm, net, con, ep>>

\* send_publish_from_queue(): the vacancy is read once, before the loop.
SendPublishFromQueue ==
  /\ Running("from_queue")
  /\ ex' = IF ep.status = "open" /\ (con.max = 0 \/ con.max # con.count)
           THEN Then(<<[fn |-> "queue_loop"]>>)
           ELSE Then(<<>>)
  /\ UNCHANGED <<setup, strm, net, con, ep>>

QueueLoop ==
  /\ Running("queue_loop")
  /\ ex' = IF ep.pubq = <<>> THEN Then(<<>>)
           ELSE Then(<<send(detached, Head(ep.pubq)), [fn |-> "queue_pop"], self>>)
  /\ UNCHANGED <<setup, strm, net, con, ep>>

QueuePop ==
  /\ Running("queue_pop")
  /\ ep' = [ep EXCEPT !.pubq = Tail(@)]
  /\ ex' = Then(<<>>)
  /\ UNCHANGED <<setup, strm, net, con>>
-----------------------------------------------------------------------------
(***************************************************************************)
(* underlying_handshake_op.                                                *)
(***************************************************************************)
underlying_handshake(k) == handshake([fn |-> "handshaken", k |-> k, ec |-> "ok"])

Handshaken ==
  /\ Running("handshaken")
  /\ ep' = IF self.ec = "ok" THEN [ep EXCEPT !.status = "open"] ELSE ep
  /\ ex' = Then(<<Resume(self.k, self.ec)>>)
  /\ UNCHANGED <<setup, strm, net, con>>
-----------------------------------------------------------------------------
(***************************************************************************)
(* The peer: a server that answers what it gets, in order, and sends       *)
(* PUBLISH and DISCONNECT packets of its own (setup.incoming).             *)
(* A CONNACK has id 1 if it refuses, and qos 1 if a session is present; in *)
(* the other answers qos is 0 unless a reason code is an error, and 2 if   *)
(* each of several is.                                                     *)
(***************************************************************************)
Reasons(t, id, worst) ==
  {[Packet(t, id) EXCEPT !.qos = reason] : reason \in IF setup.refuse THEN 0 .. worst ELSE {0}}

Answers(p) ==
  CASE p.t = "connect" -> {[Packet("connack", 0) EXCEPT !.qos = IF setup.keep /\ net.session THEN 1 ELSE 0]}
                            \cup (IF setup.refuse THEN {Packet("connack", 1)} ELSE {})
    [] p.t = "publish" /\ p.qos = 1 -> Reasons("puback", p.id, 1)
    [] p.t = "publish" /\ p.qos = 2 -> Reasons("pubrec", p.id, 1)
    [] p.t = "pubrel" -> {Packet("pubcomp", p.id)}
    [] p.t = "subscribe" -> Reasons("suback", p.id, 2)
    [] p.t = "unsubscribe" -> Reasons("unsuback", p.id, 2)
    [] p.t = "pingreq" -> {Packet("pingresp", 0)}
    [] OTHER -> {}

\* The answer with which the peer takes a PUBLISH packet off its count.
EndsPublish(p) == p.t \in {"puback", "pubcomp"} \/ (p.t = "pubrec" /\ p.qos = 1)

PeerAnswers ==
  /\ Waiting
  /\ net.link
  /\ net.seen < Len(net.wire)
  /\ LET p == net.wire[net.seen + 1].p
         seen == [net EXCEPT !.seen = @ + 1]
     IN IF Answers(p) = {}
        THEN net' = IF p.t = "disconnect" THEN [seen EXCEPT !.link = FALSE] ELSE seen
        ELSE \E a \in Answers(p) :
               net' = [seen EXCEPT !.inbox = Append(@, a),
                                   !.acks = IF EndsPublish(a) THEN @ + 1 ELSE @,
                                   !.session = @ \/ a.t = "connack",
                                   !.link = ~ (a.t = "connack" /\ a.id # 0)]
  /\ UNCHANGED <<setup, ex, strm, con, ep>>

PeerSends ==
  /\ Waiting
  /\ net.link
  /\ net.seen > 0
  /\ net.sent < Len(setup.incoming)
  /\ net' = [net EXCEPT !.inbox = Append(@, setup.incoming[net.sent + 1]), !.sent = @ + 1,
                       !.link = setup.incoming[net.sent + 1].t # "disconnect"]
  /\ UNCHANGED <<setup, ex, strm, con, ep>>

EndpointNext ==
  \/ StreamNext /\ UNCHANGED epVars
  \/ AcquireWaitUntil \/ AcquireRetried
  \/ AcquireUnique \/ RegisterPacketId \/ ReleasePacketId \/ GetStoredPackets \/ RestorePackets
  \/ PingreqSendFired \/ PingrespRecvFired
  \/ CloseStart \/ CloseComplete \/ CloseNotifies
  \/ SendError \/ SendWrite \/ SendEvent \/ SendComplete \/ DelayExpires
  \/ RecvError \/ RecvCheckBuf \/ RecvReadIstream \/ RecvEvent \/ RecvProcessed \/ RecvComplete
  \/ SendPublishFromQueue \/ QueueLoop \/ QueuePop
  \/ Handshaken
  \/ PeerAnswers \/ PeerSends
=============================================================================
