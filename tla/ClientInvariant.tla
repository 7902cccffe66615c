--------------------------- MODULE ClientInvariant --------------------------
(***************************************************************************)
(* What the proofs about modules Stream, Endpoint and Client know of the   *)
(* write queue and of the handlers: the inductive invariant that packets   *)
(* are written one after the other, in the order of the calls, from        *)
(* buffers that are still owned.                                           *)
(***************************************************************************)
EXTENDS Client

\* A handler that continues the write queue.
WriteStep(h) == h.fn \in {"poll_one", "written"}
NoWriteStep(s) == \A i \in DOMAIN s : ~ WriteStep(s[i])

\* At most one of them is posted or runs, and none while the layers write; none while
\* the queue is not working, but for the one that begins to work.
OneWriter ==
  /\ \A i \in DOMAIN ex.now : i > 1 => ~ WriteStep(ex.now[i])
  /\ \A i, j \in DOMAIN ex.ready : WriteStep(ex.ready[i]) /\ WriteStep(ex.ready[j]) => i = j
  /\ ~ NoWriteStep(ex.ready) => strm.flight = <<>> /\ strm.working
  /\ ex.now # <<>> /\ WriteStep(self) =>
       /\ NoWriteStep(ex.ready)
       /\ strm.flight = <<>>
       /\ strm.working \/ (self.fn = "poll_one" /\ strm.queue # <<>>)
  /\ strm.flight # <<>> => Len(strm.flight) = 1 /\ strm.open /\ strm.working
  /\ ~ strm.working /\ strm.queue # <<>> => Len(strm.queue) = 1 /\ Running("poll_one")

Increasing(s) == \A i, j \in DOMAIN s : i < j => s[i].n < s[j].n
UpTo(s, n) == \A i \in DOMAIN s : s[i].n <= n
Before(s, t) == \A i \in DOMAIN s, j \in DOMAIN t : s[i].n < t[j].n
\* Before the packets of a queue that are written on their own.
BeforeQueue(s, q) == \A i \in DOMAIN s, j \in DOMAIN q : ~ q[j].bulk => s[i].n < q[j].p.n
QueueOrdered(q, n) ==
  /\ \A i, j \in DOMAIN q : i < j => q[i].p.n < q[j].p.n
  /\ \A i \in DOMAIN q : q[i].p.n <= n

Bufs == IF strm.flight = <<>> THEN <<>> ELSE strm.flight[1].bufs

\* The packets on the wire, in the buffers b of the layers, stored and queued are in order,
\* and those that are nearer to the peer are older.  n packets were issued.
Ordered(wire, b, stored, q, n, open) ==
  /\ Increasing(wire) /\ Increasing(stored) /\ Increasing(b) /\ QueueOrdered(q, n)
  /\ UpTo(stored, n) /\ UpTo(b, n)
  /\ Before(b, stored) /\ BeforeQueue(b, q)
  /\ open => UpTo(wire, n) /\ Before(wire, b) /\ Before(wire, stored) /\ BeforeQueue(wire, q)

InOrder == Ordered(net.wire, Bufs, strm.storing, strm.queue, strm.issued, strm.open)

\* What is stored belongs to operations in the queue; a packet that is written on its
\* own in bulk mode is alone.  p is the packet of the operation that is being written.
Belongs(p, b, stored, q, open, working, bulk) ==
  /\ ~ open => stored = <<>>
  /\ ~ bulk => \A j \in DOMAIN q : ~ q[j].bulk
  /\ bulk => \A j \in DOMAIN q : q[j].bulk \/ ~ working
  /\ \A i \in DOMAIN stored : \E j \in DOMAIN q : q[j].bulk /\ q[j].p = stored[i]
  /\ \A i \in DOMAIN b : b[i] = p \/ \E j \in DOMAIN q : q[j].p = b[i]

Stores == Belongs(strm.flight[1].w.p, Bufs, strm.storing, strm.queue, strm.open, strm.working, setup.bulk)

Order == net.stale \/ (InOrder /\ Stores)
-----------------------------------------------------------------------------
(***************************************************************************)
(* The handlers.  H is a set of handlers other than the steps of the write *)
(* queue that is closed under continuations, A a set of packets.           *)
(***************************************************************************)
PlainFns == {"detached", "request", "client_recv", "recv_loop", "timer", "from_queue", "queue_loop", "queue_pop",
             "stored", "notify"}
\* They complete with k.
ContFns == {"write_packet", "read_some", "stream_close", "handshake", "handshaken", "acquire", "acquire_now",
            "register", "release", "get_stored", "restore", "close", "close_complete", "send", "recv"}

Fits(h, H) ==
  /\ "fn" \in DOMAIN h
  /\ h.fn \in PlainFns \cup ContFns
  /\ h.fn \in ContFns => "k" \in DOMAIN h /\ h.k \in H
  /\ h.fn = "request" => /\ {"state", "i"} \subseteq DOMAIN h
                         /\ h.state = "acquired" => Kind(h.i) \in {"publish", "subscribe", "unsubscribe"}

Closed(H) == \A h \in H : Fits(h, H)

WirePackets(A) == [p : A, n : Nat]
Writes(H, A) == [k : H, p : WirePackets(A), bulk : BOOLEAN]
WriteSteps(H, A) == {poll_one} \cup [fn : {"written"}, w : Writes(H, A), ec : {"ok", "reset", "aborted"}]
Handlers(H, A) == H \cup WriteSteps(H, A)

StreamType(H, A) ==
  [open : BOOLEAN, working : BOOLEAN, queue : Seq(Writes(H, A)), storing : Seq(WirePackets(A)),
   sending : Seq(WirePackets(A)), flight : Seq([w : Writes(H, A), bufs : Seq(WirePackets(A))]),
   reading : Seq(H), closing : Seq(H), connecting : Seq([k : H, at : Int]), issued : Nat]

ExType(H, A) == [now : Seq(Handlers(H, A)), ready : Seq(Handlers(H, A))]

NetHeld(n, A) == {"wire", "stale"} \subseteq DOMAIN n /\ n.wire \in Seq(WirePackets(A)) /\ n.stale \in BOOLEAN
EpHeld(e, H) ==
  /\ {"retry", "closeq", "delayed"} \subseteq DOMAIN e
  /\ e.retry \in Seq([h : H, cancelled : BOOLEAN])
  /\ e.closeq \in Seq(H) /\ e.delayed \in Seq(H)
ClHeld(c, H) == {"col", "waiter"} \subseteq DOMAIN c /\ IsFiniteSet(DOMAIN c.col) /\ c.waiter \in Seq(H)
AppHeld(a) == "next" \in DOMAIN a /\ a.next \in Nat

Held(H, A) ==
  /\ setup \in Setups
  /\ ex \in ExType(H, A) /\ strm \in StreamType(H, A)
  /\ NetHeld(net, A) /\ EpHeld(ep, H) /\ ClHeld(cl, H) /\ AppHeld(app)

Typed == \E H, A : Closed(H) /\ Held(H, A)

\* The invariant, and a state with its handlers and its packets.
Inv == Typed /\ OneWriter /\ Order
State(H, A) == Closed(H) /\ Held(H, A) /\ OneWriter /\ Order
=============================================================================
