------------------------------ MODULE MCClient ------------------------------
(***************************************************************************)
(* Applications of module Client, and what happens around them.            *)
(***************************************************************************)
EXTENDS Client

Tcp == <<"tcp">>
Tls == <<"ssl", "tcp">>
WsTls == <<"ws", "ssl", "tcp">>

C(kind, arg, after) == [kind |-> kind, arg |-> arg, after |-> after]

Plain(calls) ==
  [bulk |-> FALSE, layers |-> Tcp, loss |-> FALSE, keep |-> FALSE, rmax |-> 0, ids |-> 2,
   interval |-> FALSE, timeout |-> FALSE, fires |-> 0, delay |-> FALSE, refuse |-> FALSE, bad |-> {},
   incoming |-> <<>>, restored |-> <<>>, calls |-> <<C("handshake", 0, {}), C("start", 0, {1})>> \o calls]

\* Requests of each kind, and a close, while the connection may be lost.
Requests ==
  {[Plain(<<C("publish", 1, {2}), C("publish", 2, {2}), C("subscribe", 0, {2}), C("close", 0, {2})>>)
      EXCEPT !.ids = 3, !.layers = Tls, !.loss = TRUE]}

\* More requests than identifiers.
Waiters ==
  {[Plain(<<C("publish", 1, {2}), C("subscribe", 0, {2}), C("unsubscribe", 0, {2}), C("publish", 1, {2}), last>>)
      EXCEPT !.ids = 2] : last \in {C("disconnect", 0, {3}), C("publish", 2, {2})}}

\* Waiters, and writes that fail.
FailingWaiters ==
  {[Plain(<<C("publish", 1, {2}), C("publish", 1, {2})>>) EXCEPT !.ids = 1, !.loss = TRUE]}

\* A close gives several identifiers back.
ClosedWaiters ==
  {[Plain(<<C("publish", 1, {2}), C("subscribe", 0, {2}), C("unsubscribe", 0, {2}), C("publish", 2, {2}), C("close", 0, {2})>>)
      EXCEPT !.ids = 2, !.layers = Tls]}

\* Packets are sent in bulk.
Bulk ==
  {[Plain(<<C("publish", 0, {2}), C("publish", 0, {2}), C("publish", 1, {2}), C("publish", 0, {2}), C("close", 0, {2})>>)
      EXCEPT !.bulk = TRUE, !.loss = lost] : lost \in BOOLEAN}

\* At most one packet waits for the Receive Maximum.
Queue ==
  {[Plain(<<C("publish", 1, {2}), C("publish", 2, {2}), C("publish", 0, {2}), C("publish", 1, {3}), C("disconnect", 0, {3})>>)
      EXCEPT !.rmax = 1, !.ids = 3, !.refuse = TRUE]}

\* A packet is queued, and its identifier is given back and taken again, while
\* others wait for one.
QueueAndWaiters ==
  {[Plain(<<C("publish", 1, {2}), C("publish", 2, {2}), C("publish", 1, {2}), C("subscribe", 0, {2})>>)
      EXCEPT !.rmax = 1, !.ids = 2]}

\* A session is resumed on a second connection.
Resumed ==
  {[Plain(<<C("publish", 1, {2}), C("publish", 1, {2}), C("close", 0, {2}),
            C("handshake", 0, 2 .. 5), C("start", 0, {6}), C("publish", 2, {7})>>)
      EXCEPT !.keep = k, !.loss = k, !.ids = 3, !.rmax = r] : k \in BOOLEAN, r \in {0, 1}}

\* A PUBREL packet cannot be written, and the events behind it are left for the next
\* connection.
LeftOver ==
  {[Plain(<<C("publish", 2, {2}), C("close", 0, {2}), C("handshake", 0, 3 .. 4), C("start", 0, {5}), C("publish", q, {6})>>)
      EXCEPT !.keep = k, !.loss = TRUE, !.ids = 3] : k \in BOOLEAN, q \in {1, 2}}

\* The timers fire, and a DISCONNECT packet is given time to arrive.
Timed ==
  {[Plain(<<C("publish", 1, {2}), C("disconnect", 0, {2})>>)
      EXCEPT !.interval = TRUE, !.timeout = TRUE, !.fires = IF ls = Tcp THEN 2 ELSE 1, !.delay = TRUE, !.layers = ls] : ls \in {Tcp, Tls}}

\* The server sends packets of its own.
Inbound(ls) ==
  [Plain(<<C("recv", 0, {2}), C("recv", 0, {3}), C("recv", 0, {4}), C("publish", 0, {2}), C("close", 0, {3})>>)
      EXCEPT !.incoming = <<Packet("publish", 0), [Packet("publish", 1) EXCEPT !.qos = 1], Packet("disconnect", 0)>>,
             !.layers = ls]

\* The server answers what it was not asked.
Unexpected ==
  {[Plain(<<C("recv", 0, {2}), C("publish", 1, {2}), C("publish", 1, {2}), C("disconnect", 0, {4})>>)
      EXCEPT !.incoming = <<Packet("puback", 3)>>, !.layers = ls] : ls \in {Tcp, Tls}}

\* AUTH packets, and packets that cannot be constructed.
Auth ==
  {[Plain(<<C("auth", 0, {1}), C("recv", 0, {1}), C("subscribe", 0, {2}), C("publish", 0, {2}), C("disconnect", 0, {2})>>)
      EXCEPT !.incoming = <<Packet("auth", 0)>>, !.bad = bad, !.refuse = TRUE] : bad \in {{5}, {3, 6, 7}}}

\* Three layers, any of which may fail.
Layered == {[Plain(<<C("publish", 1, {2}), C("close", 0, {2})>>) EXCEPT !.layers = WsTls, !.loss = TRUE]}

\* The application takes identifiers of its own.
OwnIds ==
  {[Plain(<<C("register", 2, {2}), C("publish", 1, {2}), C("publish", 1, {2}), C("acquire", 0, {2}),
            C("release", 3, {3}), C("release", 6, {6}), C("subscribe", 0, {2})>>) EXCEPT !.loss = lost] : lost \in BOOLEAN}

\* A process that ended had published these packets.
Restarted ==
  {[Plain(<<>>) EXCEPT !.keep = TRUE, !.ids = 3, !.restored = stored,
      !.calls = <<C("handshake", 0, {}), C("restore", 0, {}), C("start", 0, 1 .. 2), C("publish", 1, {3})>>] :
     stored \in {<<[Packet("publish", 1) EXCEPT !.qos = 1]>>,
                 <<[Packet("publish", 2) EXCEPT !.qos = 2], Packet("pubrel", 1), Packet("pubrel", 2)>>}}

\* A process saves what is stored and ends; another one restores it.
Ended ==
  {[Plain(<<C("publish", 1, {2}), C("publish", 2, {2}), C("get_stored", 0, {2}), C("end", 0, {5}),
            C("handshake", 0, {6}), C("restore", 0, {6}), C("start", 0, 7 .. 8), C("publish", 1, {9})>>)
      EXCEPT !.keep = TRUE, !.ids = 3]}

\* In bulk mode the connection is closed while stored packets are sent again.
ClosedResending ==
  {[Plain(<<>>) EXCEPT !.bulk = TRUE, !.keep = TRUE,
      !.restored = <<[Packet("publish", 1) EXCEPT !.qos = 1], Packet("pubrel", 2)>>,
      !.calls = <<C("handshake", 0, {}), C("restore", 0, {}), C("start", 0, 1 .. 2), C("close", 0, 1 .. 2)>>]}

\* Calls that take effect at once.
Immediately ==
  {[Plain(<<C("register_now", 2, {}), C("acquire_now", 0, {3}), C("acquire_now", 0, {3}), C("register_now", 2, {4}),
            C("publish", 1, {5}), C("release_now", 3, {5}), C("interval", 1, {2}), C("publish", 1, {9}),
            C("release_now", 4, {9}), C("interval", 0, {9})>>) EXCEPT !.fires = 1, !.ids = 3]}

\* Two waiters are woken, and others take the identifiers ahead of them.
TakenAhead ==
  {[Plain(<<>>) EXCEPT !.calls =
      <<C("acquire_now", 0, {}), C("acquire_now", 0, {}), C("publish", 1, {}), C("publish", 1, {}), C("release", 1, {}),
        C("release", 2, {}), C("acquire", 0, {}), C("acquire", 0, {}), C(last, 7, {})>>] :
     last \in {"release", "release_now"}}

MCSetups ==
  UNION {Requests, Waiters, FailingWaiters, ClosedWaiters, Bulk, Queue, QueueAndWaiters, Resumed, LeftOver, Timed,
         {Inbound(Tcp), Inbound(WsTls)}, Unexpected, Auth, Layered, OwnIds, Restarted, Ended, ClosedResending,
         Immediately, TakenAhead}

\* A PINGREQ packet is answered.
PingSetups == {[Plain(<<C("publish", 0, {2})>>) EXCEPT !.interval = TRUE, !.timeout = TRUE, !.fires = 1]}

\* Two packets wait for the Receive Maximum.
QueueSetups ==
  {[Plain(<<C("publish", 1, {2}), C("publish", 1, {2}), C("publish", 1, {2})>>) EXCEPT !.rmax = 1, !.ids = 3]}
=============================================================================
