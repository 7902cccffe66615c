-------------------------- MODULE ClientSentLemmas --------------------------
(***************************************************************************)
(* Lemmas for ClientSentProofs: when packets are written one by one, a     *)
(* request that completes with success was sent.  The invariant says of    *)
(* each handler, wherever it waits, what is known about the packet of the  *)
(* request that it continues.  U is the set of the calls that must not     *)
(* succeed yet.  The steps of the stream and the client keep it, and those *)
(* of the endpoint that wake nobody.                                       *)
(***************************************************************************)
EXTENDS ClientInvariant, TLAPS

SendKinds == {"start", "publish", "subscribe", "unsubscribe", "disconnect", "auth"}

SendTypes == {"connect", "publish", "subscribe", "unsubscribe", "disconnect", "auth"}

\* The calls that send a packet which the peer did not get so far.
Unsent == {i \in Calls : Kind(i) \in SendKinds /\ i \notin net.got}

IsRequest(r) == {"fn", "state", "i", "ec"} \subseteq DOMAIN r /\ r.fn = "request"

\* The events of send() for packet p: it is the only packet they send, they tell of
\* no error that is none, and the close is the last.
EventsOf(evs, p) ==
  /\ evs \in Seq(Range(evs))
  /\ \A j \in DOMAIN evs : /\ evs[j].e = "send" => evs[j].p.i = p.i
                           /\ evs[j].e = "error" => evs[j].ec # "ok"
                           /\ evs[j].e = "close" => j = Len(evs)

\* An event will decide whether the packet is sent.
Undecided(evs) == \E j \in DOMAIN evs : evs[j].e \in {"send", "error"}

IsSend(s) == {"fn", "state", "k", "p", "ec", "evs", "err", "rel", "disc"} \subseteq DOMAIN s /\ s.fn = "send"

\* A send_op on behalf of a request.
Tracked(s) ==
  /\ IsRequest(s.k) /\ s.k.state = "sent" /\ s.k.i = s.p.i
  /\ s.p.t \in SendTypes
  /\ s.state \in {"write", "sent"} /\ EventsOf(s.evs, s.p)

\* It does not complete with success unless the packet is sent.
Justified(s, U) == s.state = "write" \/ s.err # "ok" \/ s.p.i \notin U \/ Undecided(s.evs)

SendOk(s) == IsSend(s) /\ (s.k = detached \/ Tracked(s))

\* What the other operations complete with.
DoneCont(k, U) == IsRequest(k) /\ k.state = "done" /\ k.i \notin U

RecvOk(k) == {"fn", "k", "ec"} \subseteq DOMAIN k /\ k.fn = "recv" /\ "fn" \in DOMAIN k.k /\ k.k.fn = "recv_loop"

CloseCont(k, U) ==
  \/ k = detached
  \/ RecvOk(k)
  \/ DoneCont(k, U)
  \/ SendOk(k) /\ (k.k = detached \/ Justified(k, U))

WriteCont(k, p, U) ==
  \/ k = detached
  \/ RecvOk(k)
  \/ {"fn", "k"} \subseteq DOMAIN k /\ k.fn = "close" /\ CloseCont(k.k, U)
  \/ SendOk(k) /\ (k.k = detached \/ k.p.i = p.i)

RequestReady(h, U) ==
  /\ IsRequest(h)
  /\ h.state \in {"sent", "done"} => h.ec # "ok" \/ h.i \notin U

SendReady(h, U) == SendOk(h) /\ (h.k = detached \/ h.ec # "ok" \/ Justified(h, U))

WrittenReady(h, U) == WriteCont(h.w.k, h.w.p.p, U) /\ (h.ec = "ok" => h.w.p.p.i \notin U)

\* A handler that runs, or is posted.
Ready(h, U) ==
  /\ "fn" \in DOMAIN h /\ (h.fn \in ContFns => "k" \in DOMAIN h)
  /\ h.fn = "request" => RequestReady(h, U)
  /\ h.fn = "send" => SendReady(h, U)
  /\ h.fn = "write_packet" => WriteCont(h.k, h.p, U)
  /\ h.fn = "written" => WrittenReady(h, U)
  /\ h.fn = "recv" => RecvOk(h)
  /\ h.fn = "read_some" => RecvOk(h.k)
  /\ h.fn \in {"close", "close_complete"} => CloseCont(h.k, U)
  /\ h.fn = "stream_close" => h.k.fn = "close_complete" /\ CloseCont(h.k.k, U)
  /\ h.fn = "handshake" => h.k.fn = "handshaken" /\ "fn" \in DOMAIN h.k /\ DoneCont(h.k.k, U)
  /\ h.fn \in {"handshaken", "acquire_now", "register", "release", "restore", "get_stored"} => DoneCont(h.k, U)
  /\ h.fn = "acquire" => IsRequest(h.k) /\ h.k.state = "acquired"
  /\ h.fn = "stored" => h.k.i \notin U
  /\ h.fn = "client_recv" => "i" \in DOMAIN h /\ h.i \notin U

\* A handler of operation fn that waits for something.
Awaits(h, fn, U) == h.fn = fn /\ Ready(h, U)

Executing(U) ==
  /\ \A j \in DOMAIN ex.now : Ready(ex.now[j], U)
  /\ \A j \in DOMAIN ex.ready : Ready(ex.ready[j], U)

StreamSent(U) ==
  /\ \A j \in DOMAIN strm.queue : WriteCont(strm.queue[j].k, strm.queue[j].p.p, U) /\ ~ strm.queue[j].bulk
  /\ \A j \in DOMAIN strm.flight : /\ WriteCont(strm.flight[j].w.k, strm.flight[j].w.p.p, U)
                                   /\ strm.flight[j].bufs = <<strm.flight[j].w.p>>
  /\ \A j \in DOMAIN strm.reading : Awaits(strm.reading[j], "recv", U)
  /\ \A j \in DOMAIN strm.closing : Awaits(strm.closing[j], "stream_close", U)
  /\ \A j \in DOMAIN strm.connecting : Awaits(strm.connecting[j].k, "handshaken", U)

EpSent(e, U) ==
  /\ \A j \in DOMAIN e.retry : Awaits(e.retry[j].h, "acquire", U)
  /\ \A j \in DOMAIN e.closeq : Awaits(e.closeq[j], "close", U)
  /\ \A j \in DOMAIN e.delayed : Awaits(e.delayed[j], "close", U)

EndpointSent(U) == EpSent(ep, U)

\* A request that waits for its answer was sent, and so was what succeeded.
ClientSent(U) ==
  /\ \A j \in DOMAIN cl.waiter : Awaits(cl.waiter[j], "client_recv", U)
  /\ \A id \in DOMAIN cl.col : "i" \in DOMAIN cl.col[id] /\ cl.col[id].i \notin U

AppSent(U) ==
  /\ {"res", "id", "next", "saved"} \subseteq DOMAIN app /\ DOMAIN app.res = Calls
  /\ \A i \in DOMAIN app.res : app.res[i] = "ok" => i \notin U

SentWith(U) ==
  /\ "got" \in DOMAIN net /\ ~ setup.bulk /\ U = Unsent
  /\ Executing(U) /\ StreamSent(U) /\ EndpointSent(U) /\ ClientSent(U) /\ AppSent(U)

Sent == \E U : SentWith(U)
-----------------------------------------------------------------------------
(***************************************************************************)
(* When another packet was sent, what held before still holds.             *)
(***************************************************************************)
\* The continuations,
LEMMA ContGrows ==
  ASSUME NEW U, NEW V, V \subseteq U
  PROVE  /\ \A s : Justified(s, U) => Justified(s, V)
         /\ \A k : DoneCont(k, U) => DoneCont(k, V)
         /\ \A k : CloseCont(k, U) => CloseCont(k, V)
         /\ \A k, p : WriteCont(k, p, U) => WriteCont(k, p, V)
<1>1. \A s : Justified(s, U) => Justified(s, V)
  BY Zenon DEF Justified
<1>2. \A k : DoneCont(k, U) => DoneCont(k, V)
  BY Zenon DEF DoneCont
<1>3. \A k : CloseCont(k, U) => CloseCont(k, V)
  BY <1>1, <1>2, Zenon DEF CloseCont
<1>4. \A k, p : WriteCont(k, p, U) => WriteCont(k, p, V)
  BY <1>3, Zenon DEF WriteCont
<1> QED
  BY <1>1, <1>2, <1>3, <1>4, Zenon

\* the handlers,
LEMMA ReadyGrows ==
  ASSUME NEW U, NEW V, V \subseteq U
  PROVE  /\ \A h : Ready(h, U) => Ready(h, V)
         /\ \A h, fn : Awaits(h, fn, U) => Awaits(h, fn, V)
<1>1. \A h : RequestReady(h, U) => RequestReady(h, V)
  BY Zenon DEF RequestReady
<1>2. \A h : SendReady(h, U) => SendReady(h, V)
  BY ContGrows, Zenon DEF SendReady
<1>3. \A h : WrittenReady(h, U) => WrittenReady(h, V)
  <2>1. \A k, p : WriteCont(k, p, U) => WriteCont(k, p, V)
    BY ContGrows
  <2> QED
    BY <2>1, Zenon DEF WrittenReady
<1>4. \A k : k \notin U => k \notin V
  OBVIOUS
<1>5. ASSUME NEW h, Ready(h, U)
      PROVE  Ready(h, V)
  BY <1>1, <1>2, <1>3, <1>4, <1>5, ContGrows, Zenon DEF Ready
<1> QED
  BY <1>5, Zenon DEF Awaits

\* and the members that hold them.
LEMMA SentGrows ==
  ASSUME NEW U, NEW V, V \subseteq U
  PROVE  /\ Executing(U) => Executing(V)
         /\ StreamSent(U) => StreamSent(V)
         /\ EndpointSent(U) => EndpointSent(V)
         /\ ClientSent(U) => ClientSent(V)
         /\ AppSent(U) => AppSent(V)
<1>1. Executing(U) => Executing(V)
  BY ReadyGrows, Zenon DEF Executing
<1>2. StreamSent(U) => StreamSent(V)
  <2>1. \A k, p : WriteCont(k, p, U) => WriteCont(k, p, V)
    BY ContGrows
  <2>2. \A h, fn : Awaits(h, fn, U) => Awaits(h, fn, V)
    BY ReadyGrows
  <2> QED
    BY <2>1, <2>2, Zenon DEF StreamSent
<1>3. EndpointSent(U) => EndpointSent(V)
  BY ReadyGrows, ZenonT(40) DEF EndpointSent, EpSent
<1>4. ClientSent(U) => ClientSent(V)
  BY ReadyGrows, Zenon DEF ClientSent
<1>5. AppSent(U) => AppSent(V)
  BY Zenon DEF AppSent
<1> QED
  BY <1>1, <1>2, <1>3, <1>4, <1>5, Zenon
-----------------------------------------------------------------------------
(***************************************************************************)
(* The executor.                                                           *)
(***************************************************************************)
\* The elements of a sequence.
LEMMA Elements ==
  ASSUME NEW S, NEW s \in Seq(S)
  PROVE  /\ \A i \in DOMAIN s : s[i] \in S
         /\ s # <<>> => /\ 1 \in DOMAIN s /\ Head(s) = s[1] /\ Head(s) \in S /\ Tail(s) \in Seq(S)
                        /\ \A i \in DOMAIN Tail(s) : i + 1 \in DOMAIN s /\ Tail(s)[i] = s[i + 1]
OBVIOUS

\* The handler that runs, unless it is a step of the write queue, and its continuation.
LEMMA RunningFits ==
  ASSUME Inv, NEW fn, Running(fn), fn \notin {"poll_one", "written"}
  PROVE  \E H : Fits(self, H) /\ self.fn = fn /\ (fn \in ContFns => Fits(self.k, H))
<1>1. PICK H, A : Closed(H) /\ Held(H, A)
  BY DEF Inv, Typed
<1>2. ex.now \in Seq(Handlers(H, A)) /\ ex.now # <<>> /\ self.fn = fn
  BY <1>1 DEF Held, ExType, Running
<1>3. self \in Handlers(H, A)
  BY <1>2 DEF self
<1>4. self \in H
  BY <1>2, <1>3 DEF Handlers, WriteSteps, poll_one
<1> QED
  BY <1>1, <1>2, <1>4 DEF Closed, Fits

\* The elements of two sequences that are concatenated.
LEMMA ReadyConcat ==
  ASSUME NEW U, NEW S, NEW T, NEW s \in Seq(S), NEW t \in Seq(T),
         \A j \in DOMAIN s : Ready(s[j], U), \A j \in DOMAIN t : Ready(t[j], U)
  PROVE  \A j \in DOMAIN (s \o t) : Ready((s \o t)[j], U)
<1>1. \A i \in DOMAIN (s \o t) : \/ i \in DOMAIN s /\ (s \o t)[i] = s[i]
                                 \/ i - Len(s) \in DOMAIN t /\ (s \o t)[i] = t[i - Len(s)]
  <2>1. /\ Len(s) \in Nat /\ Len(t) \in Nat /\ DOMAIN s = 1 .. Len(s) /\ DOMAIN t = 1 .. Len(t)
        /\ DOMAIN (s \o t) = 1 .. (Len(s) + Len(t))
    OBVIOUS
  <2>2. \A i \in 1 .. (Len(s) + Len(t)) : (s \o t)[i] = IF i <= Len(s) THEN s[i] ELSE t[i - Len(s)]
    OBVIOUS
  <2> QED
    BY <2>1, <2>2
<1> QED
  BY <1>1, Zenon

\* The handlers that are dispatched and posted are ready.
LEMMA ExecutingTurn ==
  ASSUME Inv, NEW U, Executing(U), NEW S, \A h \in S : Ready(h, U), NEW hs \in Seq(S), NEW ps \in Seq(S),
         \/ ~ Waiting /\ (ex' = ThenPost(hs, ps) \/ ex' = Then(hs))
         \/ Waiting /\ (ex' = Posted(ps) \/ ex' = [ex EXCEPT !.now = hs] \/ ex' = ex)
  PROVE  Executing(U)'
<1>1. PICK H, A : Held(H, A)
  BY DEF Inv, Typed
<1> DEFINE E == Handlers(H, A)
<1>2. ex \in [now : Seq(E), ready : Seq(E)]
  BY <1>1 DEF Held, ExType
<1> HIDE DEF E
<1>3. ex.now \in Seq(E) /\ ex.ready \in Seq(E) /\ ex = [now |-> ex.now, ready |-> ex.ready]
  BY <1>2
<1>4. (\A j \in DOMAIN hs : Ready(hs[j], U)) /\ (\A j \in DOMAIN ps : Ready(ps[j], U))
  BY Elements, Zenon
<1>5. \A j \in DOMAIN (ex.ready \o ps) : Ready((ex.ready \o ps)[j], U)
  BY <1>3, <1>4, ReadyConcat DEF Executing
<1>6. CASE ~ Waiting
  <2>1. Tail(ex.now) \in Seq(E) /\ \A j \in DOMAIN Tail(ex.now) : j + 1 \in DOMAIN ex.now /\ Tail(ex.now)[j] = ex.now[j + 1]
    BY <1>3, <1>6, Elements DEF Waiting
  <2>2. \A j \in DOMAIN Tail(ex.now) : Ready(Tail(ex.now)[j], U)
    BY <2>1, Zenon DEF Executing
  <2>3. \A j \in DOMAIN (hs \o Tail(ex.now)) : Ready((hs \o Tail(ex.now))[j], U)
    BY <1>4, <2>1, <2>2, ReadyConcat
  <2>4. ex'.now = hs \o Tail(ex.now) /\ (ex'.ready = ex.ready \o ps \/ ex'.ready = ex.ready)
    BY <1>3, <1>6 DEF ThenPost, Then
  <2> QED
    BY <1>5, <2>3, <2>4, Zenon DEF Executing
<1>7. CASE Waiting
  <2>1. (ex'.now = hs \/ ex'.now = ex.now) /\ (ex'.ready = ex.ready \o ps \/ ex'.ready = ex.ready)
    BY <1>3, <1>7, Zenon DEF Posted
  <2> QED
    BY <1>4, <1>5, <2>1, Zenon DEF Executing
<1> QED
  BY <1>6, <1>7

\* The handler that runs is ready.
LEMMA SelfReady ==
  ASSUME Inv, NEW U, SentWith(U), NEW fn, Running(fn)
  PROVE  Ready(self, U) /\ self.fn = fn /\ ~ Waiting
<1>1. PICK H, A : Held(H, A)
  BY DEF Inv, Typed
<1> DEFINE E == Handlers(H, A)
<1>2. ex.now \in Seq(E)
  BY <1>1 DEF Held, ExType
<1> HIDE DEF E
<1>3. ex.now # <<>> /\ self.fn = fn
  BY DEF Running
<1>4. 1 \in DOMAIN ex.now /\ self = ex.now[1]
  BY <1>2, <1>3, Elements DEF self
<1> QED
  BY <1>3, <1>4 DEF SentWith, Executing, Waiting

\* No packet arrives.
LEMMA UnsentSame ==
  ASSUME NEW U, SentWith(U), setup' = setup, net'.got = net.got
  PROVE  U = Unsent'
BY DEF SentWith, Unsent, Calls, Kind

\* The members that a step leaves alone.
LEMMA MembersSame ==
  ASSUME NEW U
  PROVE  /\ StreamSent(U) /\ strm' = strm => StreamSent(U)'
         /\ EndpointSent(U) /\ ep'.retry = ep.retry /\ ep'.closeq = ep.closeq /\ ep'.delayed = ep.delayed => EndpointSent(U)'
         /\ ClientSent(U) /\ cl'.waiter = cl.waiter /\ cl'.col = cl.col => ClientSent(U)'
         /\ AppSent(U) /\ app' = app /\ setup' = setup => AppSent(U)'
<1>1. StreamSent(U) /\ strm' = strm => StreamSent(U)'
  BY Zenon DEF StreamSent
<1>2. EndpointSent(U) /\ ep'.retry = ep.retry /\ ep'.closeq = ep.closeq /\ ep'.delayed = ep.delayed => EndpointSent(U)'
  BY Zenon DEF EndpointSent, EpSent
<1>3. ClientSent(U) /\ cl'.waiter = cl.waiter /\ cl'.col = cl.col => ClientSent(U)'
  BY Zenon DEF ClientSent
<1>4. AppSent(U) /\ app' = app /\ setup' = setup => AppSent(U)'
  BY Zenon DEF AppSent, Calls
<1> QED
  BY <1>1, <1>2, <1>3, <1>4

\* A step in which no packet arrives.
LEMMA TurnSent ==
  ASSUME Inv, NEW U, SentWith(U), NEW S, \A h \in S : Ready(h, U), NEW hs \in Seq(S), NEW ps \in Seq(S),
         \/ ~ Waiting /\ (ex' = ThenPost(hs, ps) \/ ex' = Then(hs))
         \/ Waiting /\ (ex' = Posted(ps) \/ ex' = [ex EXCEPT !.now = hs] \/ ex' = ex),
         setup' = setup, "got" \in DOMAIN net', net'.got = net.got,
         StreamSent(U)', EndpointSent(U)', ClientSent(U)', AppSent(U)'
  PROVE  Sent'
<1>1. Executing(U)'
  BY ExecutingTurn DEF SentWith
<1>2. U = Unsent'
  BY UnsentSame
<1>3. ~ setup'.bulk
  BY DEF SentWith
<1> QED
  BY <1>1, <1>2, <1>3, Zenon DEF Sent, SentWith

\* One handler is dispatched, and the stream and the network are left alone.
LEMMA DispatchSent ==
  ASSUME Inv, NEW U, SentWith(U), ~ Waiting, NEW g, Ready(g, U), ex' = Then(<<g>>), UNCHANGED <<setup, strm, net>>,
         EndpointSent(U)', ClientSent(U)', AppSent(U)'
  PROVE  Sent'
<1>1. <<g>> \in Seq({g}) /\ <<>> \in Seq({g}) /\ \A h \in {g} : Ready(h, U)
  OBVIOUS
<1>2. StreamSent(U)' /\ "got" \in DOMAIN net'
  BY MembersSame DEF SentWith
<1> QED
  BY <1>1, <1>2, TurnSent, Zenon

\* The operation ends.
LEMMA EndSent ==
  ASSUME Inv, NEW U, SentWith(U), ~ Waiting, ex' = Then(<<>>), UNCHANGED <<setup, strm, net>>,
         EndpointSent(U)', ClientSent(U)', AppSent(U)'
  PROVE  Sent'
<1>1. <<>> \in Seq({}) /\ \A h \in {} : Ready(h, U)
  OBVIOUS
<1>2. StreamSent(U)' /\ "got" \in DOMAIN net'
  BY MembersSame DEF SentWith
<1> QED
  BY <1>1, <1>2, TurnSent, Zenon

\* One handler is posted while none runs.
LEMMA PostSent ==
  ASSUME Inv, NEW U, SentWith(U), Waiting, NEW g, Ready(g, U), ex' = Posted(<<g>>) \/ ex' = ex,
         setup' = setup, "got" \in DOMAIN net', net'.got = net.got, StreamSent(U)', EndpointSent(U)', UNCHANGED <<cl, app>>
  PROVE  Sent'
<1>1. <<g>> \in Seq({g}) /\ <<>> \in Seq({g}) /\ \A h \in {g} : Ready(h, U)
  OBVIOUS
<1>2. ClientSent(U)' /\ AppSent(U)'
  BY MembersSame DEF SentWith
<1> QED
  BY <1>1, <1>2, TurnSent, Zenon
-----------------------------------------------------------------------------
(***************************************************************************)
(* The handlers that operations are continued with.                        *)
(***************************************************************************)
\* Another member than the continuation and the call of a handler can be set.
LEMMA ReadyVariant ==
  ASSUME NEW U, NEW h, Ready(h, U), h.fn \notin {"request", "send", "write_packet", "written", "stored"},
         NEW f, f \notin {"fn", "k", "i"}, NEW v
  PROVE  Ready([h EXCEPT ![f] = v], U) /\ [h EXCEPT ![f] = v].fn = h.fn
<1> DEFINE g == [h EXCEPT ![f] = v]
<1>1. DOMAIN g = DOMAIN h
  OBVIOUS
<1>2. \A x \in DOMAIN h : x # f => g[x] = h[x]
  OBVIOUS
<1> HIDE DEF g
<1>3. g.fn = h.fn /\ ("k" \in DOMAIN h => g.k = h.k) /\ ("i" \in DOMAIN h => g.i = h.i)
  BY <1>2 DEF Ready
<1>4. h.fn \in ContFns => g.k = h.k
  BY <1>3 DEF Ready
<1>5. h.fn = "recv" => RecvOk(g)
  BY <1>1, <1>3 DEF Ready, RecvOk
<1>6. h.fn = "client_recv" => "i" \in DOMAIN g /\ g.i \notin U
  BY <1>1, <1>3 DEF Ready
<1>7. Ready(g, U)
  BY <1>1, <1>3, <1>4, <1>5, <1>6, Zenon DEF Ready, ContFns
<1> QED
  BY <1>3, <1>7 DEF g

\* A request is resumed.
LEMMA RequestResumed ==
  ASSUME NEW r, IsRequest(r), NEW ec
  PROVE  /\ IsRequest(Resume(r, ec)) /\ Resume(r, ec).ec = ec
         /\ Resume(r, ec).state = r.state /\ Resume(r, ec).i = r.i
<1> DEFINE g == Resume(r, ec)
<1>1. DOMAIN g = DOMAIN r /\ g.ec = ec /\ g.fn = r.fn /\ g.state = r.state /\ g.i = r.i
  BY DEF IsRequest, Resume
<1>2. IsRequest(g)
  BY <1>1 DEF IsRequest
<1> QED
  BY <1>1, <1>2

\* A request is resumed with an identifier.
LEMMA RequestVariant ==
  ASSUME NEW r, IsRequest(r), NEW ec, NEW id
  PROVE  /\ IsRequest([Resume(r, ec) EXCEPT !.id = id]) /\ [Resume(r, ec) EXCEPT !.id = id].ec = ec
         /\ [Resume(r, ec) EXCEPT !.id = id].state = r.state /\ [Resume(r, ec) EXCEPT !.id = id].i = r.i
<1> DEFINE g == Resume(r, ec)
           f == [g EXCEPT !.id = id]
<1>1. IsRequest(g) /\ g.ec = ec /\ g.state = r.state /\ g.i = r.i
  BY RequestResumed
<1> HIDE DEF g
<1>2. DOMAIN f = DOMAIN g /\ f.ec = g.ec /\ f.fn = g.fn /\ f.state = g.state /\ f.i = g.i
  BY <1>1 DEF IsRequest
<1>3. IsRequest(f)
  BY <1>1, <1>2 DEF IsRequest
<1> QED
  BY <1>1, <1>2, <1>3 DEF g

\* A request that is not to be sent, or was, may complete.
LEMMA RequestIsReady ==
  ASSUME NEW U, NEW r, IsRequest(r), r.state \in {"sent", "done"} => r.ec # "ok" \/ r.i \notin U
  PROVE  Ready(r, U)
<1>1. r.fn = "request" /\ "fn" \in DOMAIN r /\ RequestReady(r, U)
  BY DEF IsRequest, RequestReady
<1> QED
  BY <1>1, Zenon DEF Ready, ContFns

\* The completion of an operation that sends nothing.
LEMMA DoneReady ==
  ASSUME NEW U, NEW k, DoneCont(k, U), NEW ec, NEW id
  PROVE  Ready(k, U) /\ Ready(Resume(k, ec), U) /\ Ready([Resume(k, ec) EXCEPT !.id = id], U)
<1>1. IsRequest(k) /\ k.i \notin U
  BY DEF DoneCont
<1> DEFINE g == Resume(k, ec)
           f == [Resume(k, ec) EXCEPT !.id = id]
<1>2. IsRequest(g) /\ g.i = k.i
  BY <1>1, RequestResumed
<1>3. IsRequest(f) /\ f.i = k.i
  BY <1>1, RequestVariant
<1> HIDE DEF g, f
<1>4. Ready(k, U) /\ Ready(g, U) /\ Ready(f, U)
  BY <1>1, <1>2, <1>3, RequestIsReady
<1> QED
  BY <1>4 DEF g, f

\* The completion of the wait for an identifier.
LEMMA AcquiredReady ==
  ASSUME NEW U, NEW k, IsRequest(k), k.state = "acquired", NEW ec, NEW id
  PROVE  Ready([Resume(k, ec) EXCEPT !.id = id], U)
<1> DEFINE g == [Resume(k, ec) EXCEPT !.id = id]
<1>1. IsRequest(g) /\ g.state = "acquired"
  BY RequestVariant
<1> HIDE DEF g
<1> QED
  BY <1>1, RequestIsReady, Zenon DEF g

\* A send_op is resumed.
LEMMA SendVariant ==
  ASSUME NEW s, IsSend(s), NEW ec
  PROVE  /\ IsSend(Resume(s, ec)) /\ Resume(s, ec).ec = ec
         /\ \A f \in {"fn", "state", "k", "p", "evs", "err", "rel", "disc"} : Resume(s, ec)[f] = s[f]
         /\ SendOk(s) => SendOk(Resume(s, ec))
         /\ \A U : Justified(s, U) => Justified(Resume(s, ec), U)
<1> DEFINE g == Resume(s, ec)
<1>1. DOMAIN g = DOMAIN s /\ g.ec = ec
  BY DEF IsSend, Resume
<1>2. \A f \in {"fn", "state", "k", "p", "evs", "err", "rel", "disc"} : g[f] = s[f]
  BY DEF IsSend, Resume
<1> HIDE DEF g
<1>3. g.fn = s.fn /\ g.state = s.state /\ g.k = s.k /\ g.p = s.p /\ g.evs = s.evs /\ g.err = s.err
  BY <1>2
<1>4. IsSend(g)
  BY <1>1, <1>3 DEF IsSend
<1>5. SendOk(s) => SendOk(g)
  BY <1>3, <1>4 DEF SendOk, Tracked
<1>6. \A U : Justified(s, U) => Justified(g, U)
  BY <1>3 DEF Justified
<1> QED
  BY <1>1, <1>2, <1>4, <1>5, <1>6 DEF g

\* A send_op that can go on.
LEMMA SendIsReady ==
  ASSUME NEW U, NEW s, SendOk(s), s.k = detached \/ s.ec # "ok" \/ Justified(s, U)
  PROVE  Ready(s, U)
<1>1. s.fn = "send" /\ {"fn", "k"} \subseteq DOMAIN s
  BY DEF SendOk, IsSend
<1>2. SendReady(s, U)
  BY DEF SendReady
<1> QED
  BY <1>1, <1>2, Zenon DEF Ready

\* The receive loop, and the operation it waits for.
LEMMA RecvIsReady ==
  ASSUME NEW U, NEW k, RecvOk(k)
  PROVE  Ready(k, U)
<1>1. k.fn = "recv" /\ {"fn", "k"} \subseteq DOMAIN k
  BY DEF RecvOk
<1> QED
  BY <1>1, Zenon DEF Ready

\* A handler without anything to say.
LEMMA PlainIsReady ==
  ASSUME NEW U, NEW h, "fn" \in DOMAIN h,
         h.fn \in {"detached", "recv_loop", "timer", "from_queue", "queue_loop", "queue_pop", "notify", "poll_one"}
  PROVE  Ready(h, U)
BY Zenon DEF Ready, ContFns

\* What closes is continued as it is.
LEMMA CloseReady ==
  ASSUME NEW U, NEW k, CloseCont(k, U)
  PROVE  Ready(k, U)
<1>1. CASE k = detached
  <2>1. "fn" \in DOMAIN k /\ k.fn = "detached"
    BY <1>1 DEF detached
  <2> QED
    BY <2>1, PlainIsReady
<1>2. CASE RecvOk(k)
  BY <1>2, RecvIsReady
<1>3. CASE DoneCont(k, U)
  BY <1>3, DoneReady, Zenon
<1>4. CASE SendOk(k) /\ (k.k = detached \/ Justified(k, U))
  BY <1>4, SendIsReady
<1> QED
  BY <1>1, <1>2, <1>3, <1>4 DEF CloseCont

\* What writes is continued with what became of the packet.
LEMMA WriteReady ==
  ASSUME NEW U, NEW k, NEW p, WriteCont(k, p, U), NEW ec, ec = "ok" => p.i \notin U
  PROVE  Ready(Resume(k, ec), U)
<1>1. CASE k = detached
  <2>1. "fn" \in DOMAIN Resume(k, ec) /\ Resume(k, ec).fn = "detached"
    BY <1>1 DEF detached, Resume
  <2> QED
    BY <2>1, PlainIsReady
<1>2. CASE RecvOk(k)
  <2>1. Ready(k, U) /\ k.fn = "recv"
    BY <1>2, RecvIsReady DEF RecvOk
  <2> QED
    BY <2>1, ReadyVariant DEF Resume
<1>3. CASE {"fn", "k"} \subseteq DOMAIN k /\ k.fn = "close" /\ CloseCont(k.k, U)
  <2>1. Ready(k, U)
    BY <1>3, Zenon DEF Ready
  <2> QED
    BY <1>3, <2>1, ReadyVariant DEF Resume
<1>4. CASE SendOk(k) /\ (k.k = detached \/ k.p.i = p.i)
  <2> DEFINE g == Resume(k, ec)
  <2>1. IsSend(k)
    BY <1>4 DEF SendOk
  <2>2. g.k = k.k /\ g.ec = ec /\ SendOk(g)
    BY <1>4, <2>1, SendVariant
  <2>3. k.p.i = p.i /\ ec = "ok" => Justified(g, U)
    BY <2>1, SendVariant DEF Justified
  <2> HIDE DEF g
  <2> QED
    BY <1>4, <2>2, <2>3, SendIsReady DEF g
<1> QED
  BY <1>1, <1>2, <1>3, <1>4 DEF WriteCont
-----------------------------------------------------------------------------
(***************************************************************************)
(* The steps of the stream.                                                *)
(***************************************************************************)
\* The members of the stream that do not change or are emptied.
LEMMA StreamStays ==
  ASSUME NEW U, StreamSent(U), strm'.queue = strm.queue, strm'.flight \in {strm.flight, <<>>},
         strm'.reading \in {strm.reading, <<>>}, strm'.closing \in {strm.closing, <<>>},
         strm'.connecting \in {strm.connecting, <<>>}
  PROVE  StreamSent(U)'
<1>1. \A j \in DOMAIN <<>> : FALSE
  OBVIOUS
<1> QED
  BY <1>1, Zenon DEF StreamSent

\* The types of a state, with the members of the stream.
LEMMA StreamTyped ==
  ASSUME Inv
  PROVE  \E H, A : /\ State(H, A) /\ Closed(H) /\ Held(H, A) /\ strm \in StreamType(H, A)
                   /\ strm.queue \in Seq(Writes(H, A)) /\ strm.flight \in Seq([w : Writes(H, A), bufs : Seq(WirePackets(A))])
                   /\ strm.reading \in Seq(H) /\ strm.closing \in Seq(H) /\ strm.connecting \in Seq([k : H, at : Int])
<1>1. PICK H, A : State(H, A)
  BY DEF Inv, Typed, State
<1>2. Closed(H) /\ Held(H, A) /\ strm \in StreamType(H, A)
  BY <1>1 DEF State, Held
<1>3. /\ strm.queue \in Seq(Writes(H, A)) /\ strm.flight \in Seq([w : Writes(H, A), bufs : Seq(WirePackets(A))])
      /\ strm.reading \in Seq(H) /\ strm.closing \in Seq(H) /\ strm.connecting \in Seq([k : H, at : Int])
  BY <1>2, Zenon DEF StreamType
<1> QED
  BY <1>1, <1>2, <1>3, Zenon

\* The endpoint and the client are left alone.
LEMMA OthersStay ==
  ASSUME NEW U, SentWith(U), setup' = setup, UNCHANGED <<ep, cl, app>>
  PROVE  EndpointSent(U)' /\ ClientSent(U)' /\ AppSent(U)'
BY MembersSame DEF SentWith

\* The next handler that was posted runs.
LEMMA RunOneSent ==
  ASSUME Inv, Sent, RunOne, UNCHANGED <<con, ep, cl, app>>
  PROVE  Sent'
<1>1. PICK U : SentWith(U)
  BY DEF Sent
<1>2. PICK H, A : Held(H, A)
  BY DEF Inv, Typed
<1> DEFINE E == Handlers(H, A)
<1>3. ex.ready \in Seq(E) /\ ex.ready # <<>>
  BY <1>2 DEF Held, ExType, RunOne
<1> HIDE DEF E
<1>4. ex'.now = <<Head(ex.ready)>> /\ ex'.ready = Tail(ex.ready) /\ UNCHANGED <<setup, strm, net>>
  BY DEF RunOne
<1>5. /\ 1 \in DOMAIN ex.ready /\ Head(ex.ready) = ex.ready[1]
      /\ \A j \in DOMAIN Tail(ex.ready) : j + 1 \in DOMAIN ex.ready /\ Tail(ex.ready)[j] = ex.ready[j + 1]
  BY <1>3, Elements
<1>6. \A j \in DOMAIN ex'.now : ex'.now[j] = Head(ex.ready)
  BY <1>4
<1>7. Executing(U)'
  BY <1>1, <1>4, <1>5, <1>6, Zenon DEF SentWith, Executing
<1>8. StreamSent(U)' /\ "got" \in DOMAIN net' /\ ~ setup'.bulk
  BY <1>1, <1>4, MembersSame DEF SentWith
<1>9. U = Unsent'
  BY <1>1, <1>4, UnsentSame
<1> QED
  BY <1>1, <1>4, <1>7, <1>8, <1>9, OthersStay, Zenon DEF Sent, SentWith

\* The handler of an operation that nobody waits for.
LEMMA DetachedSent ==
  ASSUME Inv, Sent, Detached, UNCHANGED <<con, ep, cl, app>>
  PROVE  Sent'
<1>1. PICK U : SentWith(U)
  BY DEF Sent
<1>2. ex' = Then(<<>>) /\ ~ Waiting /\ UNCHANGED <<setup, strm, net>>
  BY DEF Detached, Running, Waiting
<1> QED
  BY <1>1, <1>2, OthersStay, EndSent

\* async_write_packet(): a packet is never queued for a batch.
LEMMA WriteStartsSent ==
  ASSUME Inv, Sent, async_write_packet, UNCHANGED <<con, ep, cl, app>>
  PROVE  Sent'
<1>1. PICK U : SentWith(U)
  BY DEF Sent
<1>2. PICK H, A : /\ strm \in StreamType(H, A) /\ strm.queue \in Seq(Writes(H, A)) /\ Held(H, A)
  BY StreamTyped, Zenon
<1>3. Ready(self, U) /\ self.fn = "write_packet" /\ ~ Waiting
  BY <1>1, SelfReady DEF async_write_packet
<1> DEFINE w == [k |-> self.k, p |-> [p |-> self.p, n |-> strm.issued + 1], bulk |-> FALSE]
<1>4. WriteCont(w.k, w.p.p, U) /\ ~ w.bulk
  BY <1>3 DEF Ready
<1>5. ~ setup.bulk
  BY <1>1 DEF SentWith
<1>6. strm' = [strm EXCEPT !.queue = Append(@, w), !.storing = @, !.issued = @ + 1]
  BY <1>5, Zenon DEF async_write_packet
<1> HIDE DEF w
<1>7. /\ strm'.queue = Append(strm.queue, w) /\ strm'.flight = strm.flight /\ strm'.reading = strm.reading
      /\ strm'.closing = strm.closing /\ strm'.connecting = strm.connecting
  BY <1>2, <1>6, Zenon DEF StreamType
<1>8. StreamSent(U)'
  <2> DEFINE W == Writes(H, A)
  <2> HIDE DEF W
  <2>1. strm.queue \in Seq(W)
    BY <1>2 DEF W
  <2>2. \A j \in DOMAIN strm'.queue : strm'.queue[j] = w \/ (j \in DOMAIN strm.queue /\ strm'.queue[j] = strm.queue[j])
    BY <1>7, <2>1
  <2> QED
    BY <1>1, <1>4, <1>7, <2>2, Zenon DEF SentWith, StreamSent
<1>9. net'.got = net.got /\ "got" \in DOMAIN net' /\ setup' = setup
  <2>1. \E s : net' = [net EXCEPT !.stale = s]
    BY Zenon DEF async_write_packet
  <2>2. "got" \in DOMAIN net
    BY <1>1 DEF SentWith
  <2> QED
    BY <2>1, <2>2, Zenon DEF async_write_packet
<1>10. \A h \in {poll_one} : Ready(h, U)
  BY PlainIsReady DEF poll_one
<1>11. \E hs \in Seq({poll_one}) : ex' = Then(hs)
  <2>1. <<>> \in Seq({poll_one}) /\ <<poll_one>> \in Seq({poll_one})
    OBVIOUS
  <2> QED
    BY <2>1, Zenon DEF async_write_packet
<1>12. <<>> \in Seq({poll_one})
  OBVIOUS
<1> QED
  BY <1>1, <1>3, <1>8, <1>9, <1>10, <1>11, <1>12, OthersStay, TurnSent

\* The queue has nothing to write.
LEMMA PollEmptySent ==
  ASSUME Inv, Sent, PollEmpty, UNCHANGED <<con, ep, cl, app>>
  PROVE  Sent'
<1>1. PICK U : SentWith(U)
  BY DEF Sent
<1>2. PICK H, A : strm \in StreamType(H, A)
  BY StreamTyped, Zenon
<1>3. ex' = Then(<<>>) /\ ~ Waiting /\ UNCHANGED <<setup, net>> /\ strm' = [strm EXCEPT !.working = FALSE]
  BY DEF PollEmpty, Running, Waiting
<1>4. /\ strm'.queue = strm.queue /\ strm'.flight = strm.flight /\ strm'.reading = strm.reading
      /\ strm'.closing = strm.closing /\ strm'.connecting = strm.connecting
  BY <1>2, <1>3, Zenon DEF StreamType
<1>5. StreamSent(U)' /\ "got" \in DOMAIN net' /\ net'.got = net.got
  BY <1>1, <1>3, <1>4, StreamStays DEF SentWith
<1>6. <<>> \in Seq({}) /\ \A h \in {} : Ready(h, U)
  OBVIOUS
<1> QED
  BY <1>1, <1>3, <1>5, <1>6, OthersStay, TurnSent, Zenon

\* The completion of a write knows what became of the packet.
LEMMA WrittenIsReady ==
  ASSUME NEW U, NEW w, WriteCont(w.k, w.p.p, U), NEW ec, ec = "ok" => w.p.p.i \notin U
  PROVE  Ready(written(w, ec), U)
<1> DEFINE g == written(w, ec)
<1>1. "fn" \in DOMAIN g /\ g.fn = "written" /\ g.w = w /\ g.ec = ec
  BY DEF written
<1> HIDE DEF g
<1>2. WrittenReady(g, U)
  BY <1>1, Zenon DEF WrittenReady
<1>3. Ready(g, U)
  BY <1>1, <1>2, Zenon DEF Ready, ContFns
<1> QED
  BY <1>3 DEF g

\* A write that fails says nothing of the packet.
LEMMA WrittenFails ==
  ASSUME NEW U, NEW w, WriteCont(w.k, w.p.p, U), NEW ec, ec # "ok"
  PROVE  Ready(written(w, ec), U)
<1>1. ec = "ok" => w.p.p.i \notin U
  OBVIOUS
<1> QED
  BY <1>1, WrittenIsReady, Zenon

\* The members that hold handlers, after another packet was sent.
LEMMA SentGrowsNext ==
  ASSUME NEW U, NEW V, V \subseteq U
  PROVE  /\ StreamSent(U)' => StreamSent(V)'
         /\ EndpointSent(U)' => EndpointSent(V)'
         /\ ClientSent(U)' => ClientSent(V)'
         /\ AppSent(U)' => AppSent(V)'
<1>1. \A k, p : WriteCont(k, p, U) => WriteCont(k, p, V)
  BY ContGrows
<1>2. \A h, fn : Awaits(h, fn, U) => Awaits(h, fn, V)
  BY ReadyGrows
<1>3. StreamSent(U)' => StreamSent(V)'
  BY <1>1, <1>2, Zenon DEF StreamSent
<1>4. EndpointSent(U)' => EndpointSent(V)'
  BY <1>2, Zenon DEF EndpointSent, EpSent
<1>5. ClientSent(U)' => ClientSent(V)'
  BY <1>2, Zenon DEF ClientSent
<1>6. AppSent(U)' => AppSent(V)'
  BY Zenon DEF AppSent
<1> QED
  BY <1>3, <1>4, <1>5, <1>6, Zenon

\* The operation at the head of the queue writes its own packet.
LEMMA PollWriteSent ==
  ASSUME Inv, Sent, PollWrite, UNCHANGED <<con, ep, cl, app>>
  PROVE  Sent'
<1>1. PICK U : SentWith(U)
  BY DEF Sent
<1>2. PICK H, A : strm \in StreamType(H, A) /\ strm.queue \in Seq(Writes(H, A)) /\ Held(H, A)
  BY StreamTyped, Zenon
<1> DEFINE w == Head(strm.queue)
           W == Writes(H, A)
           s == [strm EXCEPT !.working = TRUE, !.queue = Tail(@)]
<1> HIDE DEF W
<1>3. strm.queue \in Seq(W) /\ strm.queue # <<>> /\ ~ Waiting /\ UNCHANGED <<setup, net>>
  BY <1>2 DEF PollWrite, Running, Waiting, W
<1>4. /\ 1 \in DOMAIN strm.queue /\ w = strm.queue[1]
      /\ \A j \in DOMAIN Tail(strm.queue) : j + 1 \in DOMAIN strm.queue /\ Tail(strm.queue)[j] = strm.queue[j + 1]
  BY <1>3, Elements
<1>5. WriteCont(w.k, w.p.p, U) /\ ~ w.bulk
  BY <1>1, <1>4, Zenon DEF SentWith, StreamSent
<1>6. /\ s.queue = Tail(strm.queue) /\ s.flight = strm.flight /\ s.reading = strm.reading
      /\ s.closing = strm.closing /\ s.connecting = strm.connecting /\ DOMAIN s = DOMAIN strm
  BY <1>2, Zenon DEF StreamType
<1>7. \/ strm' = s /\ ex' = Then(<<written(w, "reset")>>)
      \/ strm' = [s EXCEPT !.flight = <<[w |-> w, bufs |-> <<w.p>>]>>] /\ ex' = Then(<<>>)
  BY <1>5 DEF PollWrite
<1> HIDE DEF w, s
<1> DEFINE fl == [w |-> w, bufs |-> <<w.p>>]
<1>8. fl.w = w /\ fl.bufs = <<w.p>>
  OBVIOUS
<1> HIDE DEF fl
<1>9. /\ strm'.queue = Tail(strm.queue) /\ strm'.reading = strm.reading
      /\ strm'.closing = strm.closing /\ strm'.connecting = strm.connecting
      /\ strm'.flight = strm.flight \/ strm'.flight = <<fl>>
  <2>1. "flight" \in DOMAIN s
    BY <1>2, <1>6, Zenon DEF StreamType
  <2>2. CASE strm' = s
    BY <1>6, <2>2
  <2>3. CASE strm' = [s EXCEPT !.flight = <<fl>>]
    BY <1>6, <2>1, <2>3
  <2> QED
    BY <1>7, <2>2, <2>3 DEF fl
<1>10. StreamSent(U)'
  <2>1. \A j \in DOMAIN <<fl>> : <<fl>>[j] = fl
    OBVIOUS
  <2>2. \A j \in DOMAIN strm'.queue : WriteCont(strm'.queue[j].k, strm'.queue[j].p.p, U) /\ ~ strm'.queue[j].bulk
    BY <1>1, <1>4, <1>9, ZenonT(40) DEF SentWith, StreamSent
  <2>3. \A j \in DOMAIN strm'.flight : /\ WriteCont(strm'.flight[j].w.k, strm'.flight[j].w.p.p, U)
                                       /\ strm'.flight[j].bufs = <<strm'.flight[j].w.p>>
    BY <1>1, <1>5, <1>8, <1>9, <2>1 DEF SentWith, StreamSent
  <2> QED
    BY <1>1, <1>9, <2>2, <2>3, Zenon DEF SentWith, StreamSent
<1>11. Ready(written(w, "reset"), U)
  BY <1>5, WrittenFails
<1> DEFINE g == written(w, "reset")
<1> HIDE DEF g
<1>12. Ready(g, U) /\ (ex' = Then(<<g>>) \/ ex' = Then(<<>>))
  BY <1>7, <1>11 DEF g
<1>13. <<g>> \in Seq({g}) /\ <<>> \in Seq({g}) /\ (\A h \in {g} : Ready(h, U)) /\ "got" \in DOMAIN net'
  BY <1>1, <1>3, <1>12 DEF SentWith
<1> QED
  BY <1>1, <1>3, <1>10, <1>12, <1>13, OthersStay, TurnSent, Zenon

\* The operation is completed with what became of its packet.
LEMMA WrittenSent ==
  ASSUME Inv, Sent, Written, UNCHANGED <<con, ep, cl, app>>
  PROVE  Sent'
<1>1. PICK U : SentWith(U)
  BY DEF Sent
<1>2. PICK H, A : strm \in StreamType(H, A)
  BY StreamTyped, Zenon
<1>3. Ready(self, U) /\ self.fn = "written" /\ ~ Waiting
  BY <1>1, SelfReady DEF Written
<1>4. WriteCont(self.w.k, self.w.p.p, U) /\ (self.ec = "ok" => self.w.p.p.i \notin U)
  BY <1>3, Zenon DEF Ready, WrittenReady
<1> DEFINE g == Resume(self.w.k, self.ec)
<1>5. Ready(g, U)
  BY <1>4, WriteReady
<1>6. ex' = ThenPost(<<g>>, <<poll_one>>) /\ UNCHANGED <<setup, net>>
  BY DEF Written
<1>7. \E b : strm' = [strm EXCEPT !.sending = b]
  BY Zenon DEF Written
<1> HIDE DEF g
<1>8. /\ strm'.queue = strm.queue /\ strm'.flight = strm.flight /\ strm'.reading = strm.reading
      /\ strm'.closing = strm.closing /\ strm'.connecting = strm.connecting
  BY <1>2, <1>7, Zenon DEF StreamType
<1>9. StreamSent(U)' /\ "got" \in DOMAIN net' /\ net'.got = net.got
  BY <1>1, <1>6, <1>8, StreamStays DEF SentWith
<1>10. Ready(poll_one, U)
  BY PlainIsReady DEF poll_one
<1>11. <<g>> \in Seq({g, poll_one}) /\ <<poll_one>> \in Seq({g, poll_one}) /\ \A h \in {g, poll_one} : Ready(h, U)
  BY <1>5, <1>10
<1> QED
  BY <1>1, <1>3, <1>6, <1>9, <1>11, OthersStay, TurnSent, Zenon

\* A packet that the peer got was sent.
LEMMA WriteDoneSent ==
  ASSUME Inv, Sent, AsyncWriteDone, UNCHANGED <<con, ep, cl, app>>
  PROVE  Sent'
<1>1. PICK U : SentWith(U)
  BY DEF Sent
<1>2. PICK H, A : strm \in StreamType(H, A) /\ strm.flight \in Seq([w : Writes(H, A), bufs : Seq(WirePackets(A))])
  BY StreamTyped, Zenon
<1> DEFINE f == strm.flight[1]
           F == [w : Writes(H, A), bufs : Seq(WirePackets(A))]
<1> HIDE DEF F
<1>3. strm.flight \in Seq(F) /\ strm.flight # <<>> /\ Waiting /\ setup' = setup
  BY <1>2 DEF AsyncWriteDone, F
<1>4. 1 \in DOMAIN strm.flight
  BY <1>3, Elements
<1>5. WriteCont(f.w.k, f.w.p.p, U) /\ f.bufs = <<f.w.p>>
  BY <1>1, <1>4, Zenon DEF SentWith, StreamSent
<1>6. strm' = [strm EXCEPT !.flight = <<>>]
  BY DEF AsyncWriteDone
<1>7. /\ strm'.queue = strm.queue /\ strm'.flight = <<>> /\ strm'.reading = strm.reading
      /\ strm'.closing = strm.closing /\ strm'.connecting = strm.connecting
  BY <1>2, <1>6, Zenon DEF StreamType
<1>8. StreamSent(U)'
  BY <1>1, <1>7, StreamStays DEF SentWith
<1>9. CASE net' = net /\ ex' = Posted(<<written(f.w, "reset")>>)
  <2>1. Ready(written(f.w, "reset"), U)
    BY <1>5, WrittenFails
  <2>2. "got" \in DOMAIN net' /\ net'.got = net.got
    BY <1>1, <1>9 DEF SentWith
  <2>3. EndpointSent(U)'
    BY <1>1, OthersStay, <1>3
  <2> HIDE DEF f
  <2> QED
    BY <1>1, <1>3, <1>8, <1>9, <2>1, <2>2, <2>3, PostSent
<1>10. CASE /\ net' = [net EXCEPT !.wire = @ \o f.bufs, !.got = @ \cup {b.p.i : b \in Range(f.bufs)}]
            /\ ex' = Posted(<<written(f.w, "ok")>>)
  <2> DEFINE V == Unsent'
  <2>1. "got" \in DOMAIN net /\ U = Unsent
    BY <1>1 DEF SentWith
  <2>2. "got" \in DOMAIN net' /\ net'.got = net.got \cup {b.p.i : b \in Range(f.bufs)}
    BY <1>10, <2>1, Zenon
  <2>3. f.w.p.p.i \in net'.got
    <3>1. f.w.p \in Range(f.bufs)
      BY <1>5 DEF Range
    <3> QED
      BY <2>2, <3>1
  <2> HIDE DEF f
  <2>4. V \subseteq U /\ f.w.p.p.i \notin V
    BY <1>3, <2>1, <2>2, <2>3 DEF Unsent, Calls, Kind
  <2>5. /\ EndpointSent(U)' /\ ClientSent(U)' /\ AppSent(U)' /\ Executing(U)
    BY <1>1, <1>3, OthersStay DEF SentWith
  <2>6. PICK Z : Z = V
    OBVIOUS
  <2>7. Executing(Z) /\ StreamSent(Z)' /\ EndpointSent(Z)' /\ ClientSent(Z)' /\ AppSent(Z)'
    <3>1. Z \subseteq U
      BY <2>4, <2>6
    <3>2. Executing(Z)
      BY <2>5, <3>1, SentGrows
    <3> QED
      BY <1>8, <2>5, <3>1, <3>2, SentGrowsNext
  <2>8. WriteCont(f.w.k, f.w.p.p, Z) /\ f.w.p.p.i \notin Z
    BY <1>5, <2>4, <2>6, ContGrows
  <2>9. Ready(written(f.w, "ok"), Z)
    BY <2>8, WrittenIsReady
  <2> DEFINE g == written(f.w, "ok")
  <2>10. ex' = Posted(<<g>>) /\ Ready(g, Z)
    BY <1>10, <2>9
  <2> HIDE DEF g
  <2>11. <<g>> \in Seq({g}) /\ \A h \in {g} : Ready(h, Z)
    BY <2>10
  <2>12. Executing(Z)'
    BY <1>3, <2>7, <2>10, <2>11, ExecutingTurn, Zenon
  <2>13. ~ setup'.bulk
    BY <1>1, <1>3 DEF SentWith
  <2> QED
    BY <2>2, <2>6, <2>7, <2>12, <2>13, Zenon DEF Sent, SentWith
<1> QED
  BY <1>9, <1>10 DEF AsyncWriteDone

\* A read starts, or fails at once.
LEMMA ReadSent ==
  ASSUME Inv, Sent, async_read_some, UNCHANGED <<con, ep, cl, app>>
  PROVE  Sent'
<1>1. PICK U : SentWith(U)
  BY DEF Sent
<1>2. PICK H, A : strm \in StreamType(H, A)
  BY StreamTyped, Zenon
<1>3. Ready(self, U) /\ self.fn = "read_some" /\ ~ Waiting
  BY <1>1, SelfReady DEF async_read_some
<1>4. RecvOk(self.k)
  BY <1>3 DEF Ready
<1>5. Ready(self.k, U) /\ self.k.fn = "recv"
  BY <1>4, RecvIsReady DEF RecvOk
<1> DEFINE g == Resume(self.k, "reset")
<1>6. Ready(g, U)
  BY <1>5, ReadyVariant DEF Resume
<1>7. UNCHANGED <<setup, net>>
  BY DEF async_read_some
<1>8. \/ strm' = [strm EXCEPT !.reading = <<self.k>>] /\ ex' = Then(<<>>)
      \/ strm' = strm /\ ex' = ThenPost(<<>>, <<g>>)
  BY DEF async_read_some
<1> HIDE DEF g
<1>9. StreamSent(U)'
  <2>1. CASE strm' = [strm EXCEPT !.reading = <<self.k>>]
    <3>1. /\ strm'.queue = strm.queue /\ strm'.flight = strm.flight /\ strm'.reading = <<self.k>>
          /\ strm'.closing = strm.closing /\ strm'.connecting = strm.connecting
      BY <1>2, <2>1, Zenon DEF StreamType
    <3>2. \A j \in DOMAIN <<self.k>> : <<self.k>>[j] = self.k
      OBVIOUS
    <3>3. Awaits(self.k, "recv", U)
      BY <1>5 DEF Awaits
    <3> QED
      BY <1>1, <3>1, <3>2, <3>3, Zenon DEF SentWith, StreamSent
  <2>2. CASE strm' = strm
    BY <1>1, <2>2, MembersSame DEF SentWith
  <2> QED
    BY <1>8, <2>1, <2>2
<1>10. <<>> \in Seq({g}) /\ <<g>> \in Seq({g}) /\ (\A h \in {g} : Ready(h, U)) /\ "got" \in DOMAIN net'
  BY <1>1, <1>6, <1>7 DEF SentWith
<1> QED
  BY <1>1, <1>3, <1>7, <1>8, <1>9, <1>10, OthersStay, TurnSent, Zenon

\* The read completes.
LEMMA ReadDoneSent ==
  ASSUME Inv, Sent, AsyncReadDone, UNCHANGED <<con, ep, cl, app>>
  PROVE  Sent'
<1>1. PICK U : SentWith(U)
  BY DEF Sent
<1>2. PICK H, A : strm \in StreamType(H, A) /\ strm.reading \in Seq(H)
  BY StreamTyped, Zenon
<1> DEFINE k == strm.reading[1]
<1>3. strm.reading # <<>> /\ Waiting /\ setup' = setup
  BY DEF AsyncReadDone
<1>4. 1 \in DOMAIN strm.reading
  BY <1>2, <1>3, Elements
<1>5. Ready(k, U) /\ k.fn = "recv"
  BY <1>1, <1>4, Zenon DEF SentWith, StreamSent, Awaits
<1>6. \E g : Ready(g, U) /\ ex' = Posted(<<g>>)
  <2>1. Ready(Resume(k, "reset"), U) /\ Ready(Resume(k, "ok"), U) /\ Resume(k, "ok").fn = "recv"
    BY <1>5, ReadyVariant DEF Resume
  <2> DEFINE m == Resume(k, "ok")
             g == [m EXCEPT !.data = net.inbox]
  <2> HIDE DEF m
  <2>2. Ready(m, U) /\ m.fn = "recv"
    BY <2>1 DEF m
  <2>3. Ready(g, U)
    BY <2>2, ReadyVariant
  <2>4. ex' = Posted(<<g>>) \/ ex' = Posted(<<Resume(k, "reset")>>)
    BY DEF AsyncReadDone, m
  <2> HIDE DEF g
  <2> QED
    BY <2>1, <2>3, <2>4
<1> HIDE DEF k
<1>7. PICK g : Ready(g, U) /\ ex' = Posted(<<g>>)
  BY <1>6
<1>8. strm' = [strm EXCEPT !.reading = <<>>] /\ net' = [net EXCEPT !.inbox = <<>>]
  BY DEF AsyncReadDone
<1>9. /\ strm'.queue = strm.queue /\ strm'.flight = strm.flight /\ strm'.reading = <<>>
      /\ strm'.closing = strm.closing /\ strm'.connecting = strm.connecting
  BY <1>2, <1>8, Zenon DEF StreamType
<1>10. StreamSent(U)' /\ EndpointSent(U)'
  BY <1>1, <1>3, <1>9, StreamStays, OthersStay DEF SentWith
<1>11. "got" \in DOMAIN net' /\ net'.got = net.got
  BY <1>1, <1>8 DEF SentWith
<1> QED
  BY <1>1, <1>3, <1>7, <1>10, <1>11, PostSent

\* A layer starts to close,
LEMMA StreamCloseSent ==
  ASSUME Inv, Sent, StreamClose, UNCHANGED <<con, ep, cl, app>>
  PROVE  Sent'
<1>1. PICK U : SentWith(U)
  BY DEF Sent
<1>2. PICK H, A : strm \in StreamType(H, A)
  BY StreamTyped, Zenon
<1>3. Running("stream_close")
  BY DEF StreamClose, Closes
<1>4. Ready(self, U) /\ self.fn = "stream_close" /\ ~ Waiting
  BY <1>1, <1>3, SelfReady
<1>5. UNCHANGED <<setup, net>> /\ ex' = Then(<<>>) /\ strm' = [strm EXCEPT !.closing = <<self>>]
  BY DEF StreamClose
<1>6. /\ strm'.queue = strm.queue /\ strm'.flight = strm.flight /\ strm'.reading = strm.reading
      /\ strm'.closing = <<self>> /\ strm'.connecting = strm.connecting
  BY <1>2, <1>5, Zenon DEF StreamType
<1>7. \A j \in DOMAIN <<self>> : <<self>>[j] = self
  OBVIOUS
<1>8. Awaits(self, "stream_close", U)
  BY <1>4 DEF Awaits
<1>9. StreamSent(U)'
  BY <1>1, <1>6, <1>7, <1>8, Zenon DEF SentWith, StreamSent
<1>10. <<>> \in Seq({}) /\ (\A h \in {} : Ready(h, U)) /\ "got" \in DOMAIN net'
  BY <1>1, <1>5 DEF SentWith
<1> QED
  BY <1>1, <1>4, <1>5, <1>9, <1>10, OthersStay, TurnSent, Zenon

\* and is closed.
LEMMA LayerClosedSent ==
  ASSUME Inv, Sent, NEW layer, LayerClosed(layer), UNCHANGED <<con, ep, cl, app>>
  PROVE  Sent'
<1>1. PICK U : SentWith(U)
  BY DEF Sent
<1>2. PICK H, A : strm \in StreamType(H, A) /\ strm.closing \in Seq(H)
  BY StreamTyped, Zenon
<1>3. PICK c \in Range(strm.closing) : ex' = Posted(<<[c EXCEPT !.at = @ + 1]>>)
  BY Zenon DEF LayerClosed
<1>4. PICK j \in DOMAIN strm.closing : c = strm.closing[j]
  BY <1>3, Zenon DEF Range
<1>5. Ready(c, U) /\ c.fn = "stream_close"
  BY <1>1, <1>4, Zenon DEF SentWith, StreamSent, Awaits
<1> DEFINE at == c.at + 1
           g == [c EXCEPT !.at = at]
<1>6. ex' = Posted(<<g>>)
  BY <1>3
<1> HIDE DEF at
<1>7. Ready(g, U)
  BY <1>5, ReadyVariant
<1> HIDE DEF g
<1>8. /\ Waiting /\ setup' = setup
      /\ strm' = [strm EXCEPT !.closing = <<>>] /\ net' = [net EXCEPT !.link = FALSE]
  BY DEF LayerClosed
<1>9. /\ strm'.queue = strm.queue /\ strm'.flight = strm.flight /\ strm'.reading = strm.reading
      /\ strm'.closing = <<>> /\ strm'.connecting = strm.connecting
  BY <1>2, <1>8, Zenon DEF StreamType
<1>10. StreamSent(U)' /\ EndpointSent(U)'
  BY <1>1, <1>8, <1>9, StreamStays, OthersStay DEF SentWith
<1>11. "got" \in DOMAIN net' /\ net'.got = net.got
  BY <1>1, <1>8 DEF SentWith
<1> QED
  BY <1>1, <1>6, <1>7, <1>8, <1>10, <1>11, PostSent

\* The socket closes, and what it was doing is aborted.
LEMMA TcpCloseSent ==
  ASSUME Inv, Sent, TcpClose, UNCHANGED <<con, ep, cl, app>>
  PROVE  Sent'
<1>1. PICK U : SentWith(U)
  BY DEF Sent
<1>2. PICK H, A : /\ strm \in StreamType(H, A) /\ strm.reading \in Seq(H)
                  /\ strm.flight \in Seq([w : Writes(H, A), bufs : Seq(WirePackets(A))])
  BY StreamTyped, Zenon
<1>3. Running("stream_close")
  BY DEF TcpClose, Closes
<1>4. Ready(self, U) /\ self.fn = "stream_close" /\ ~ Waiting
  BY <1>1, <1>3, SelfReady
<1>5. self.k.fn = "close_complete" /\ CloseCont(self.k.k, U)
  BY <1>4, Zenon DEF Ready
<1>6. Ready(self.k, U)
  <2>1. "fn" \in DOMAIN self.k /\ (self.k.fn \in ContFns => "k" \in DOMAIN self.k)
    BY <1>3, RunningFits, Zenon DEF Fits, ContFns
  <2> QED
    BY <1>5, <2>1, Zenon DEF Ready
<1> DEFINE f == strm.flight[1]
           F == [w : Writes(H, A), bufs : Seq(WirePackets(A))]
           a == written(f.w, "aborted")
           r == strm.reading[1]
           b == Resume(r, "aborted")
<1>7. strm.flight = <<>> \/ Ready(a, U)
  <2> HIDE DEF F
  <2>1. strm.flight = <<>> \/ 1 \in DOMAIN strm.flight
    <3>1. strm.flight \in Seq(F)
      BY <1>2 DEF F
    <3> QED
      BY <3>1, Elements
  <2>2. 1 \in DOMAIN strm.flight => WriteCont(f.w.k, f.w.p.p, U)
    BY <1>1, Zenon DEF SentWith, StreamSent
  <2> HIDE DEF f
  <2>3. WriteCont(f.w.k, f.w.p.p, U) => Ready(a, U)
    BY WrittenFails
  <2> QED
    BY <2>1, <2>2, <2>3
<1>8. strm.reading = <<>> \/ Ready(b, U)
  <2>1. strm.reading = <<>> \/ 1 \in DOMAIN strm.reading
    BY <1>2, Elements
  <2>2. 1 \in DOMAIN strm.reading => Ready(r, U) /\ r.fn = "recv"
    BY <1>1, Zenon DEF SentWith, StreamSent, Awaits
  <2> HIDE DEF r
  <2>3. Ready(r, U) /\ r.fn = "recv" => Ready(b, U)
    BY ReadyVariant DEF Resume
  <2> QED
    BY <2>1, <2>2, <2>3
<1> DEFINE ps == (IF strm.flight = <<>> THEN <<>> ELSE <<a>>) \o (IF strm.reading = <<>> THEN <<>> ELSE <<b>>)
<1>9. ex' = ThenPost(<<self.k>>, ps) /\ setup' = setup
  BY DEF TcpClose
<1> HIDE DEF a, b
<1> DEFINE S == {h \in {self.k, a, b} : Ready(h, U)}
<1>10. <<self.k>> \in Seq(S) /\ ps \in Seq(S) /\ \A h \in S : Ready(h, U)
  <2>1. self.k \in S /\ (strm.flight = <<>> \/ a \in S) /\ (strm.reading = <<>> \/ b \in S)
    BY <1>6, <1>7, <1>8, Zenon
  <2>2. \A h \in S : Ready(h, U)
    BY Zenon
  <2> HIDE DEF S
  <2> QED
    BY <2>1, <2>2
<1> HIDE DEF ps, S
<1>11. /\ strm' = [strm EXCEPT !.open = FALSE, !.flight = <<>>, !.reading = <<>>, !.storing = <<>>, !.sending = <<>>]
       /\ net' = [net EXCEPT !.link = FALSE, !.inbox = <<>>]
  BY DEF TcpClose
<1>12. /\ strm'.queue = strm.queue /\ strm'.flight = <<>> /\ strm'.reading = <<>>
       /\ strm'.closing = strm.closing /\ strm'.connecting = strm.connecting
  BY <1>2, <1>11, Zenon DEF StreamType
<1>13. StreamSent(U)' /\ EndpointSent(U)' /\ ClientSent(U)' /\ AppSent(U)'
  BY <1>1, <1>9, <1>12, StreamStays, OthersStay DEF SentWith
<1>14. "got" \in DOMAIN net' /\ net'.got = net.got
  BY <1>1, <1>11, Zenon DEF SentWith
<1> QED
  BY <1>1, <1>4, <1>9, <1>10, <1>13, <1>14, TurnSent, Zenon

\* The client connects,
LEMMA AsyncHandshakeSent ==
  ASSUME Inv, Sent, AsyncHandshake, UNCHANGED <<con, ep, cl, app>>
  PROVE  Sent'
<1>1. PICK U : SentWith(U)
  BY DEF Sent
<1>2. PICK H, A : strm \in StreamType(H, A)
  BY StreamTyped, Zenon
<1>3. Running("handshake")
  BY DEF AsyncHandshake
<1>4. Ready(self, U) /\ self.fn = "handshake" /\ ~ Waiting
  BY <1>1, <1>3, SelfReady
<1>5. self.k.fn = "handshaken" /\ DoneCont(self.k.k, U)
  BY <1>4, Zenon DEF Ready
<1>6. Awaits(self.k, "handshaken", U)
  <2>1. "fn" \in DOMAIN self.k /\ (self.k.fn \in ContFns => "k" \in DOMAIN self.k)
    BY <1>3, RunningFits, Zenon DEF Fits, ContFns
  <2> QED
    BY <1>5, <2>1, Zenon DEF Awaits, Ready
<1> DEFINE c == [k |-> self.k, at |-> Len(setup.layers)]
<1>7. c.k = self.k
  OBVIOUS
<1>8. /\ strm' = [strm EXCEPT !.open = TRUE, !.connecting = <<c>>]
      /\ net' = [net EXCEPT !.wire = <<>>, !.seen = 0, !.acks = 0] /\ ex' = Then(<<>>) /\ setup' = setup
  BY DEF AsyncHandshake
<1> HIDE DEF c
<1>9. /\ strm'.queue = strm.queue /\ strm'.flight = strm.flight /\ strm'.reading = strm.reading
      /\ strm'.closing = strm.closing /\ strm'.connecting = <<c>>
  BY <1>2, <1>8, Zenon DEF StreamType
<1>10. \A j \in DOMAIN <<c>> : <<c>>[j] = c
  OBVIOUS
<1>11. StreamSent(U)'
  BY <1>1, <1>6, <1>7, <1>9, <1>10, Zenon DEF SentWith, StreamSent
<1>12. "got" \in DOMAIN net' /\ net'.got = net.got
  BY <1>1, <1>8, Zenon DEF SentWith
<1>13. <<>> \in Seq({}) /\ (\A h \in {} : Ready(h, U))
  OBVIOUS
<1>14. EndpointSent(U)' /\ ClientSent(U)' /\ AppSent(U)'
  BY <1>1, <1>8, OthersStay
<1> QED
  BY <1>1, <1>4, <1>8, <1>11, <1>12, <1>13, <1>14, TurnSent, Zenon

\* layer by layer.
LEMMA LayerUpSent ==
  ASSUME Inv, Sent, NEW layer, NEW may, NEW fails, LayerUp(layer, may, fails), UNCHANGED <<con, ep, cl, app>>
  PROVE  Sent'
<1>1. PICK U : SentWith(U)
  BY DEF Sent
<1>2. PICK H, A : strm \in StreamType(H, A)
  BY StreamTyped, Zenon
<1>3. PICK c \in Range(strm.connecting) :
        \/ /\ net' = [net EXCEPT !.link = TRUE]
           /\ strm' = [strm EXCEPT !.connecting = IF c.at = 1 THEN <<>> ELSE <<[c EXCEPT !.at = @ - 1]>>]
           /\ ex' = IF c.at = 1 THEN Posted(<<Resume(c.k, "ok")>>) ELSE ex
        \/ /\ strm' = [strm EXCEPT !.connecting = <<>>]
           /\ ex' = Posted(<<Resume(c.k, "reset")>>)
           /\ UNCHANGED net
  BY Zenon DEF LayerUp
<1>4. PICK j \in DOMAIN strm.connecting : c = strm.connecting[j]
  BY <1>3, Zenon DEF Range
<1>5. Awaits(c.k, "handshaken", U) /\ Waiting /\ setup' = setup
  BY <1>1, <1>4, Zenon DEF SentWith, StreamSent, LayerUp
<1>6. Ready(Resume(c.k, "ok"), U) /\ Ready(Resume(c.k, "reset"), U)
  BY <1>5, ReadyVariant DEF Resume, Awaits
<1>7. \E g : Ready(g, U) /\ (ex' = Posted(<<g>>) \/ ex' = ex)
  BY <1>3, <1>6
<1> DEFINE d == [c EXCEPT !.at = @ - 1]
<1>8. "got" \in DOMAIN net' /\ net'.got = net.got
  BY <1>1, <1>3 DEF SentWith
<1>9. strm' = [strm EXCEPT !.connecting = <<>>] \/ strm' = [strm EXCEPT !.connecting = <<d>>]
  BY <1>3
<1>10. d.k = c.k
  OBVIOUS
<1> HIDE DEF d
<1>11. /\ strm'.queue = strm.queue /\ strm'.flight = strm.flight /\ strm'.reading = strm.reading
       /\ strm'.closing = strm.closing /\ (strm'.connecting = <<>> \/ strm'.connecting = <<d>>)
  BY <1>2, <1>9, Zenon DEF StreamType
<1>12. (\A i \in DOMAIN <<d>> : <<d>>[i] = d) /\ (\A i \in DOMAIN <<>> : FALSE)
  OBVIOUS
<1>13. StreamSent(U)'
  BY <1>1, <1>5, <1>10, <1>11, <1>12, Zenon DEF SentWith, StreamSent
<1>14. EndpointSent(U)'
  BY <1>1, <1>5, OthersStay
<1> QED
  BY <1>1, <1>5, <1>7, <1>8, <1>13, <1>14, PostSent

\* The peer is lost.
LEMMA LinkLostSent ==
  ASSUME Inv, Sent, LinkLost, UNCHANGED <<con, ep, cl, app>>
  PROVE  Sent'
<1>1. PICK U : SentWith(U)
  BY DEF Sent
<1>2. net' = [net EXCEPT !.link = FALSE] /\ UNCHANGED <<setup, ex, strm>> /\ Waiting
  BY DEF LinkLost
<1>3. "got" \in DOMAIN net' /\ net'.got = net.got
  BY <1>1, <1>2 DEF SentWith
<1>4. StreamSent(U)' /\ EndpointSent(U)' /\ Ready(poll_one, U)
  BY <1>1, <1>2, MembersSame, PlainIsReady DEF SentWith, poll_one
<1> QED
  BY <1>1, <1>2, <1>3, <1>4, PostSent
-----------------------------------------------------------------------------
(***************************************************************************)
(* The steps of the endpoint.                                              *)
(***************************************************************************)
\* The handlers that the endpoint holds are sequences.
LEMMA EpTyped ==
  ASSUME Inv
  PROVE  \E H : EpHeld(ep, H)
BY Zenon DEF Inv, Typed, Held

\* Members that hold no handler can be set.
LEMMA EpVariant ==
  ASSUME NEW e, NEW H, EpHeld(e, H), NEW U, EpSent(e, U), NEW f, f \notin {"retry", "closeq", "delayed"}, NEW v
  PROVE  EpSent([e EXCEPT ![f] = v], U) /\ EpHeld([e EXCEPT ![f] = v], H)
<1> DEFINE g == [e EXCEPT ![f] = v]
<1>1. DOMAIN g = DOMAIN e /\ g.retry = e.retry /\ g.closeq = e.closeq /\ g.delayed = e.delayed
  BY DEF EpHeld
<1> HIDE DEF g
<1>2. EpSent(g, U) /\ EpHeld(g, H)
  BY <1>1, Zenon DEF EpSent, EpHeld
<1> QED
  BY <1>2 DEF g

\* A step of the endpoint.
LEMMA EndpointTurn ==
  ASSUME Inv, NEW U, SentWith(U), ~ Waiting, NEW S, \A h \in S : Ready(h, U), NEW hs \in Seq(S), NEW ps \in Seq(S),
         ex' = ThenPost(hs, ps) \/ ex' = Then(hs), UNCHANGED <<setup, strm, net, cl, app>>, EpSent(ep', U)
  PROVE  Sent'
<1>1. StreamSent(U)' /\ ClientSent(U)' /\ AppSent(U)' /\ "got" \in DOMAIN net' /\ net'.got = net.got
  BY MembersSame DEF SentWith
<1>2. EndpointSent(U)'
  BY DEF EndpointSent
<1> QED
  BY <1>1, <1>2, TurnSent

\* It dispatches a handler, or none.
LEMMA EndpointOne ==
  ASSUME Inv, NEW U, SentWith(U), ~ Waiting, NEW g, Ready(g, U), ex' \in {Then(<<g>>), Then(<<>>), ThenPost(<<>>, <<g>>)},
         UNCHANGED <<setup, strm, net, cl, app>>, EpSent(ep', U)
  PROVE  Sent'
<1>1. <<g>> \in Seq({g}) /\ <<>> \in Seq({g}) /\ \A h \in {g} : Ready(h, U)
  OBVIOUS
<1> QED
  BY <1>1, EndpointTurn, Zenon

\* One more handler waits.
LEMMA AppendAwaits ==
  ASSUME NEW S, NEW s \in Seq(S), NEW h
  PROVE  \A j \in DOMAIN Append(s, h) : Append(s, h)[j] = h \/ (j \in DOMAIN s /\ Append(s, h)[j] = s[j])
OBVIOUS

\* One more operation waits for an identifier.
LEMMA RetryAppends ==
  ASSUME NEW e, NEW H, EpHeld(e, H), NEW U, EpSent(e, U), NEW w, Awaits(w.h, "acquire", U), NEW d,
         d = [e EXCEPT !.retry = Append(@, w)] \/ d = [e EXCEPT !.released = FALSE, !.retry = Append(@, w)]
  PROVE  EpSent(d, U)
<1> DEFINE R == [h : H, cancelled : BOOLEAN]
<1>1. e.retry \in Seq(R)
  BY DEF EpHeld
<1> HIDE DEF R
<1>2. d.closeq = e.closeq /\ d.delayed = e.delayed /\ d.retry = Append(e.retry, w)
  BY Zenon DEF EpHeld
<1>3. \A j \in DOMAIN d.retry : d.retry[j] = w \/ (j \in DOMAIN e.retry /\ d.retry[j] = e.retry[j])
  BY <1>1, <1>2, AppendAwaits
<1> QED
  BY <1>2, <1>3, Zenon DEF EpSent

\* acq_proc
LEMMA AcqProcSent ==
  ASSUME Inv, NEW U, SentWith(U), Running("acquire"), NEW e, NEW H, EpHeld(e, H), EpSent(e, U), AcqProc(e),
         UNCHANGED <<setup, strm, net, cl, app>>
  PROVE  Sent'
<1>1. Ready(self, U) /\ self.fn = "acquire" /\ ~ Waiting
  BY SelfReady
<1>2. IsRequest(self.k) /\ self.k.state = "acquired"
  BY <1>1, Zenon DEF Ready
<1>3. CASE Ids \subseteq con.used
  <2> DEFINE w == [h |-> self, cancelled |-> FALSE]
  <2>1. ep' = [e EXCEPT !.released = FALSE, !.retry = Append(@, w)] /\ ex' = Then(<<>>)
    BY <1>3 DEF AcqProc
  <2>2. w.h = self /\ Awaits(self, "acquire", U)
    BY <1>1 DEF Awaits
  <2> HIDE DEF w
  <2>3. EpSent(ep', U)
    BY <2>1, <2>2, RetryAppends, Zenon
  <2> QED
    BY <1>1, <2>1, <2>3, EndpointOne
<1>4. CASE ~ (Ids \subseteq con.used)
  <2> DEFINE g == [Resume(self.k, "ok") EXCEPT !.id = Min(Ids \ con.used)]
  <2>1. ep' = e /\ ex' = Then(<<g>>)
    BY <1>4 DEF AcqProc
  <2>2. Ready(g, U)
    BY <1>2, AcquiredReady
  <2> HIDE DEF g
  <2> QED
    BY <1>1, <2>1, <2>2, EndpointOne
<1> QED
  BY <1>3, <1>4

\* async_acquire_unique_packet_id_wait_until(): the application waits for an identifier,
LEMMA AcquireSent ==
  ASSUME Inv, Sent, AcquireWaitUntil, UNCHANGED <<cl, app>>
  PROVE  Sent'
<1>1. PICK U : SentWith(U)
  BY DEF Sent
<1>2. PICK H : EpHeld(ep, H)
  BY EpTyped
<1>3. Running("acquire") /\ UNCHANGED <<setup, strm, net>>
  BY DEF AcquireWaitUntil
<1>4. EpSent(ep, U)
  BY <1>1 DEF SentWith, EndpointSent
<1>5. CASE ep.retry # <<>>
  <2> DEFINE w == [h |-> self, cancelled |-> FALSE]
  <2>1. ep' = [ep EXCEPT !.retry = Append(@, w)] /\ ex' = Then(<<>>)
    BY <1>5 DEF AcquireWaitUntil
  <2>2. Ready(self, U) /\ self.fn = "acquire" /\ ~ Waiting
    BY <1>1, <1>3, SelfReady
  <2>3. Awaits(w.h, "acquire", U)
    BY <2>2 DEF Awaits
  <2> HIDE DEF w
  <2>4. EpSent(ep', U)
    BY <1>2, <1>4, <2>1, <2>3, RetryAppends, Zenon
  <2> QED
    BY <1>1, <1>3, <2>1, <2>2, <2>4, EndpointOne
<1>6. CASE ep.retry = <<>>
  <2>1. AcqProc(ep)
    BY <1>6 DEF AcquireWaitUntil
  <2> QED
    BY <1>1, <1>2, <1>3, <1>4, <2>1, AcqProcSent
<1> QED
  BY <1>5, <1>6

\* A sequence whose elements are of a set.
LEMMA SeqOf ==
  ASSUME NEW S, NEW s \in Seq(S), NEW T, \A j \in DOMAIN s : s[j] \in T
  PROVE  s \in Seq(T)
OBVIOUS

\* The other operations on identifiers and stored packets, which send nothing.
LEMMA IdSent ==
  ASSUME Inv, Sent, AcquireUnique \/ RegisterPacketId \/ GetStoredPackets \/ RestorePackets, UNCHANGED <<cl, app>>
  PROVE  Sent'
<1>1. PICK U : SentWith(U)
  BY DEF Sent
<1>2. PICK fn \in {"acquire_now", "register", "get_stored", "restore"} : Running(fn)
  BY DEF AcquireUnique, RegisterPacketId, GetStoredPackets, RestorePackets
<1>3. Ready(self, U) /\ self.fn = fn /\ ~ Waiting
  BY <1>1, <1>2, SelfReady
<1>4. DoneCont(self.k, U)
  BY <1>2, <1>3, Zenon DEF Ready
<1> DEFINE st == [fn |-> "stored", k |-> self.k, pvs |-> con.store]
<1>5. Ready(st, U)
  <2>1. "fn" \in DOMAIN st /\ st.fn = "stored" /\ st.k = self.k
    OBVIOUS
  <2> HIDE DEF st
  <2>2. st.k.i \notin U
    BY <1>4, <2>1 DEF DoneCont
  <2> QED
    BY <2>1, <2>2, Zenon DEF Ready, ContFns
<1>6. UNCHANGED <<setup, strm, net, ep>>
  BY DEF AcquireUnique, RegisterPacketId, GetStoredPackets, RestorePackets
<1>7. \/ ex' = Then(<<Resume(self.k, "fully_used")>>)
      \/ ex' = Then(<<Resume(self.k, "id_conflict")>>)
      \/ \E id : ex' = Then(<<[Resume(self.k, "ok") EXCEPT !.id = id]>>)
      \/ ex' = Then(<<self.k>>)
      \/ ex' = Then(<<st>>)
  BY Zenon DEF AcquireUnique, RegisterPacketId, GetStoredPackets, RestorePackets
<1> HIDE DEF st
<1>8. \A ec, id : Ready(self.k, U) /\ Ready(Resume(self.k, ec), U) /\ Ready([Resume(self.k, ec) EXCEPT !.id = id], U)
  BY <1>4, DoneReady
<1>9. \E g : Ready(g, U) /\ ex' = Then(<<g>>)
  BY <1>5, <1>7, <1>8, Zenon
<1>10. EpSent(ep', U)
  BY <1>1, <1>6 DEF SentWith, EndpointSent
<1> QED
  BY <1>1, <1>3, <1>6, <1>9, <1>10, EndpointOne

\* A write of the endpoint itself.
LEMMA WritePacketReady ==
  ASSUME NEW U, NEW k, NEW p, WriteCont(k, p, U)
  PROVE  Ready(write_packet(k, p), U)
<1> DEFINE g == write_packet(k, p)
<1>1. {"fn", "k"} \subseteq DOMAIN g /\ g.fn = "write_packet" /\ g.k = k /\ g.p = p
  BY DEF write_packet
<1> HIDE DEF g
<1>2. Ready(g, U)
  BY <1>1, Zenon DEF Ready
<1> QED
  BY <1>2 DEF g

\* A close_op.
LEMMA CloseIsReady ==
  ASSUME NEW U, NEW k, CloseCont(k, U)
  PROVE  Awaits(close(k), "close", U) /\ close(k).k = k /\ {"fn", "k"} \subseteq DOMAIN close(k)
<1> DEFINE g == close(k)
<1>1. {"fn", "k"} \subseteq DOMAIN g /\ g.fn = "close" /\ g.k = k
  BY DEF close
<1> HIDE DEF g
<1>2. Awaits(g, "close", U)
  BY <1>1, Zenon DEF Ready, Awaits
<1> QED
  BY <1>1, <1>2 DEF g

\* A timer fires: what it writes, nobody waits for.
LEMMA FiredSent ==
  ASSUME Inv, Sent, PingreqSendFired \/ PingrespRecvFired, UNCHANGED <<cl, app>>
  PROVE  Sent'
<1>1. PICK U : SentWith(U)
  BY DEF Sent
<1>2. PICK H : EpHeld(ep, H)
  BY EpTyped
<1>3. ~ Waiting /\ UNCHANGED <<setup, strm, net>>
  BY DEF PingreqSendFired, PingrespRecvFired, Running, Waiting
<1>4. \E evs, k, p : /\ k = detached \/ k = close(detached)
                     /\ ex' = Then(<<write_packet(k, p)>>) \/ ex' = Then(<<>>)
                     /\ ep' = TimerOps(ep, evs) \/ ep' = ep
  BY Zenon DEF PingreqSendFired, PingrespRecvFired
<1>5. PICK evs, k, p : /\ k = detached \/ k = close(detached)
                       /\ ex' = Then(<<write_packet(k, p)>>) \/ ex' = Then(<<>>)
                       /\ ep' = TimerOps(ep, evs) \/ ep' = ep
  BY <1>4
<1>6. WriteCont(k, p, U)
  <2>1. CASE k = detached
    BY <2>1 DEF WriteCont
  <2>2. CASE k = close(detached)
    <3>1. CloseCont(detached, U)
      BY DEF CloseCont
    <3>2. k.k = detached /\ k.fn = "close" /\ {"fn", "k"} \subseteq DOMAIN k
      BY <2>2 DEF close
    <3> QED
      BY <3>1, <3>2 DEF WriteCont
  <2> QED
    BY <1>5, <2>1, <2>2
<1>7. Ready(write_packet(k, p), U)
  BY <1>6, WritePacketReady
<1>8. EpSent(ep', U)
  <2>1. EpSent(ep, U)
    BY <1>1 DEF SentWith, EndpointSent
  <2>2. EpSent(TimerOps(ep, evs), U)
    BY <1>2, <2>1, EpVariant, Zenon DEF TimerOps
  <2> QED
    BY <1>5, <2>1, <2>2
<1> QED
  BY <1>1, <1>3, <1>5, <1>7, <1>8, EndpointOne

\* close_op starts.
LEMMA CloseStartSent ==
  ASSUME Inv, Sent, CloseStart, UNCHANGED <<cl, app>>
  PROVE  Sent'
<1>1. PICK U : SentWith(U)
  BY DEF Sent
<1>2. PICK H : EpHeld(ep, H)
  BY EpTyped
<1>3. Running("close") /\ UNCHANGED <<setup, strm, net>>
  BY DEF CloseStart
<1>4. Ready(self, U) /\ self.fn = "close" /\ ~ Waiting
  BY <1>1, <1>3, SelfReady
<1>5. CloseCont(self.k, U) /\ EpSent(ep, U)
  BY <1>1, <1>4, Zenon DEF Ready, SentWith, EndpointSent
<1> DEFINE cc == [fn |-> "close_complete", k |-> self.k]
           g == stream_close(cc)
<1>6. CASE ep' = [ep EXCEPT !.status = "closing"] /\ ex' = Then(<<g>>)
  <2>1. EpSent(ep', U)
    BY <1>2, <1>5, <1>6, EpVariant
  <2>2. cc.fn = "close_complete" /\ cc.k = self.k
    OBVIOUS
  <2> HIDE DEF cc
  <2>3. {"fn", "k"} \subseteq DOMAIN g /\ g.fn = "stream_close" /\ g.k = cc
    BY DEF stream_close
  <2> HIDE DEF g
  <2>4. Ready(g, U)
    BY <1>5, <2>2, <2>3, Zenon DEF Ready
  <2> QED
    BY <1>1, <1>3, <1>4, <1>6, <2>1, <2>4, EndpointOne
<1>7. CASE ep' = [ep EXCEPT !.closeq = Append(@, self)] /\ ex' = Then(<<>>)
  <2>1. /\ ep'.closeq = Append(ep.closeq, self) /\ ep'.retry = ep.retry /\ ep'.delayed = ep.delayed
        /\ ep.closeq \in Seq(H)
    BY <1>2, <1>7, Zenon DEF EpHeld
  <2>2. \A j \in DOMAIN ep'.closeq : ep'.closeq[j] = self \/ (j \in DOMAIN ep.closeq /\ ep'.closeq[j] = ep.closeq[j])
    BY <2>1, AppendAwaits
  <2>3. Awaits(self, "close", U)
    BY <1>4 DEF Awaits
  <2>4. EpSent(ep', U)
    BY <1>5, <2>1, <2>2, <2>3, Zenon DEF EpSent
  <2> QED
    BY <1>1, <1>3, <1>4, <1>7, <2>4, EndpointOne, Zenon
<1>8. CASE ep' = ep /\ ex' = Then(<<self.k>>)
  <2>1. Ready(self.k, U)
    BY <1>5, CloseReady
  <2> QED
    BY <1>1, <1>3, <1>4, <1>5, <1>8, <2>1, EndpointOne
<1> QED
  BY <1>6, <1>7, <1>8 DEF CloseStart

\* The handlers of a sequence that are ready.
LEMMA ReadySeq ==
  ASSUME NEW H, NEW s \in Seq(H), NEW U, NEW fn, \A j \in DOMAIN s : Awaits(s[j], fn, U), NEW g
  PROVE  /\ s \in Seq({h \in H \cup {g} : Ready(h, U)})
         /\ \A h \in {x \in H \cup {g} : Ready(x, U)} : Ready(h, U)
         /\ Ready(g, U) => g \in {h \in H \cup {g} : Ready(h, U)}
<1> DEFINE S == {h \in H \cup {g} : Ready(h, U)}
<1>1. \A j \in DOMAIN s : s[j] \in S
  BY Elements, Zenon DEF Awaits
<1>2. (\A h \in S : Ready(h, U)) /\ (Ready(g, U) => g \in S)
  BY Zenon
<1> HIDE DEF S
<1>3. s \in Seq(S)
  BY <1>1, SeqOf
<1> QED
  BY <1>2, <1>3 DEF S

\* It is complete, and so are those that were queued.
LEMMA CloseCompleteSent ==
  ASSUME Inv, Sent, CloseComplete, UNCHANGED <<cl, app>>
  PROVE  Sent'
<1>1. PICK U : SentWith(U)
  BY DEF Sent
<1>2. PICK H : EpHeld(ep, H)
  BY EpTyped
<1>3. Running("close_complete") /\ UNCHANGED <<setup, strm, net>>
  BY DEF CloseComplete
<1>4. Ready(self, U) /\ self.fn = "close_complete" /\ ~ Waiting
  BY <1>1, <1>3, SelfReady
<1>5. CloseCont(self.k, U) /\ EpSent(ep, U)
  BY <1>1, <1>4, Zenon DEF Ready, SentWith, EndpointSent
<1>6. Ready(self.k, U)
  BY <1>5, CloseReady
<1> DEFINE ids == notify_closed(con).ids
           n == [fn |-> "notify", ids |-> ids]
           e == [ep EXCEPT !.status = "closed", !.closeq = <<>>]
<1>7. \E evs : ep' = TimerOps(e, evs)
  BY DEF CloseComplete
<1>8. ex' = Then(<<n>> \o ep.closeq \o <<self.k>>)
  BY DEF CloseComplete
<1> HIDE DEF ids
<1>9. "fn" \in DOMAIN n /\ n.fn = "notify"
  OBVIOUS
<1>10. Ready(n, U)
  BY <1>9, PlainIsReady
<1> HIDE DEF n
<1>11. DOMAIN e = DOMAIN ep /\ e.retry = ep.retry /\ e.delayed = ep.delayed /\ e.closeq = <<>>
  BY <1>2, Zenon DEF EpHeld
<1> HIDE DEF e
<1>12. EpSent(e, U) /\ EpHeld(e, H)
  <2>1. <<>> \in Seq(H) /\ \A j \in DOMAIN <<>> : FALSE
    OBVIOUS
  <2> QED
    BY <1>2, <1>5, <1>11, <2>1, Zenon DEF EpSent, EpHeld
<1>13. EpSent(ep', U)
  <2>1. PICK evs : ep' = TimerOps(e, evs)
    BY <1>7
  <2>2. EpSent(TimerOps(e, evs), U)
    BY <1>12, EpVariant, Zenon DEF TimerOps
  <2> QED
    BY <2>1, <2>2
<1> DEFINE S == {h \in H \cup {n} : Ready(h, U)}
           T == S \cup {self.k}
<1>14. ep.closeq \in Seq(S) /\ n \in S /\ \A h \in S : Ready(h, U)
  <2>1. ep.closeq \in Seq(H) /\ \A j \in DOMAIN ep.closeq : Awaits(ep.closeq[j], "close", U)
    BY <1>2, <1>5 DEF EpHeld, EpSent
  <2> QED
    BY <1>10, <2>1, ReadySeq, Zenon
<1> HIDE DEF S
<1>15. <<n>> \o ep.closeq \o <<self.k>> \in Seq(T) /\ <<>> \in Seq(T)
  BY <1>14
<1>16. \A h \in T : Ready(h, U)
  BY <1>6, <1>14
<1> HIDE DEF T
<1> DEFINE hs == <<n>> \o ep.closeq \o <<self.k>>
<1>17. ex' = Then(hs) /\ hs \in Seq(T) /\ <<>> \in Seq(T)
  BY <1>8, <1>15
<1> HIDE DEF hs
<1> QED
  BY <1>1, <1>3, <1>4, <1>13, <1>16, <1>17, EndpointTurn

\* A send_op that nobody waits for.
LEMMA DetachedSendReady ==
  ASSUME NEW U, NEW p
  PROVE  Ready(send(detached, p), U)
<1> DEFINE g == send(detached, p)
<1>1. IsSend(g) /\ g.k = detached
  BY DEF send, IsSend
<1> HIDE DEF g
<1>2. Ready(g, U)
  BY <1>1, SendIsReady DEF SendOk
<1> QED
  BY <1>2 DEF g

\* A timer expires.
LEMMA ExpiresSent ==
  ASSUME Inv, Sent, TimerExpires \/ DelayExpires, UNCHANGED <<cl, app>>
  PROVE  Sent'
<1>1. PICK U : SentWith(U)
  BY DEF Sent
<1>2. PICK H : EpHeld(ep, H)
  BY EpTyped
<1>3. Waiting /\ UNCHANGED <<setup, strm, net>>
  BY Zenon DEF TimerExpires, DelayExpires
<1>4. EpSent(ep, U)
  BY <1>1 DEF SentWith, EndpointSent
<1>5. StreamSent(U)' /\ "got" \in DOMAIN net' /\ net'.got = net.got
  BY <1>1, <1>3, MembersSame DEF SentWith
<1>6. CASE TimerExpires
  <2>1. PICK kind : /\ ep' = [ep EXCEPT !.timer = @ \ {kind}, !.fires = @ + 1]
                    /\ ex' = Posted(<<[fn |-> "timer", kind |-> kind]>>)
    BY <1>6, Zenon DEF TimerExpires
  <2>2. ep'.retry = ep.retry /\ ep'.closeq = ep.closeq /\ ep'.delayed = ep.delayed
    BY <1>2, <2>1, Zenon DEF EpHeld
  <2>3. EndpointSent(U)'
    BY <1>1, <2>2, MembersSame DEF SentWith
  <2> DEFINE g == [fn |-> "timer", kind |-> kind]
  <2>4. "fn" \in DOMAIN g /\ g.fn = "timer" /\ ex' = Posted(<<g>>)
    BY <2>1
  <2> HIDE DEF g
  <2>5. Ready(g, U)
    BY <2>4, PlainIsReady
  <2> QED
    BY <1>1, <1>3, <1>5, <2>3, <2>4, <2>5, PostSent
<1>7. CASE DelayExpires
  <2>1. ep.delayed \in Seq(H) /\ ep.delayed # <<>>
    BY <1>2, <1>7 DEF EpHeld, DelayExpires
  <2>2. ep' = [ep EXCEPT !.delayed = Tail(@)] /\ ex' = Posted(<<Head(ep.delayed)>>)
    BY <1>7 DEF DelayExpires
  <2>3. ep'.retry = ep.retry /\ ep'.closeq = ep.closeq /\ ep'.delayed = Tail(ep.delayed)
    BY <1>2, <2>2, Zenon DEF EpHeld
  <2>4. /\ \A j \in DOMAIN Tail(ep.delayed) : j + 1 \in DOMAIN ep.delayed /\ Tail(ep.delayed)[j] = ep.delayed[j + 1]
        /\ 1 \in DOMAIN ep.delayed /\ Head(ep.delayed) = ep.delayed[1]
    BY <2>1, Elements
  <2>5. EndpointSent(U)'
    BY <1>4, <2>3, <2>4, Zenon DEF EpSent, EndpointSent
  <2>6. Ready(Head(ep.delayed), U)
    BY <1>4, <2>4, Zenon DEF EpSent, Awaits
  <2> QED
    BY <1>1, <1>3, <1>5, <2>2, <2>5, <2>6, PostSent
<1> QED
  BY <1>6, <1>7

\* underlying_handshake_op is complete.
LEMMA HandshakenSent ==
  ASSUME Inv, Sent, Handshaken, UNCHANGED <<cl, app>>
  PROVE  Sent'
<1>1. PICK U : SentWith(U)
  BY DEF Sent
<1>2. PICK H : EpHeld(ep, H)
  BY EpTyped
<1>3. Running("handshaken") /\ UNCHANGED <<setup, strm, net>>
  BY DEF Handshaken
<1>4. Ready(self, U) /\ self.fn = "handshaken" /\ ~ Waiting
  BY <1>1, <1>3, SelfReady
<1>5. DoneCont(self.k, U) /\ EpSent(ep, U)
  BY <1>1, <1>4, Zenon DEF Ready, SentWith, EndpointSent
<1>6. Ready(Resume(self.k, self.ec), U)
  BY <1>5, DoneReady, Zenon
<1>7. EpSent(ep', U)
  <2>1. EpSent([ep EXCEPT !.status = "open"], U)
    BY <1>2, <1>5, EpVariant
  <2> QED
    BY <1>5, <2>1 DEF Handshaken
<1>8. ex' = Then(<<Resume(self.k, self.ec)>>)
  BY DEF Handshaken
<1> QED
  BY <1>1, <1>3, <1>4, <1>6, <1>7, <1>8, EndpointOne

\* The peer answers or sends.
LEMMA PeerSent ==
  ASSUME Inv, Sent, PeerAnswers \/ PeerSends, UNCHANGED <<cl, app>>
  PROVE  Sent'
<1>1. PICK U : SentWith(U)
  BY DEF Sent
<1>2. Waiting /\ UNCHANGED <<setup, ex, strm, ep>>
  BY Zenon DEF PeerAnswers, PeerSends
<1>3. "got" \in DOMAIN net
  BY <1>1 DEF SentWith
<1>4. "got" \in DOMAIN net' /\ net'.got = net.got
  <2>1. CASE PeerAnswers
    <3> DEFINE seen == [net EXCEPT !.seen = @ + 1]
    <3>1. "got" \in DOMAIN seen /\ seen.got = net.got
      BY <1>3
    <3> DEFINE p == net.wire[net.seen + 1].p
    <3>2. CASE Answers(p) = {}
      <4>1. net' = seen \/ net' = [seen EXCEPT !.link = FALSE]
        BY <2>1, <3>2 DEF PeerAnswers
      <4> HIDE DEF seen
      <4> QED
        BY <3>1, <4>1, Zenon
    <3>3. CASE Answers(p) # {}
      <4>1. PICK a : net' = [seen EXCEPT !.inbox = Append(@, a),
                                         !.acks = IF EndsPublish(a) THEN @ + 1 ELSE @,
                                         !.session = @ \/ a.t = "connack",
                                         !.link = ~ (a.t = "connack" /\ a.id # 0)]
        BY <2>1, <3>3, Zenon DEF PeerAnswers
      <4> HIDE DEF seen
      <4> QED
        BY <3>1, <4>1, Zenon
    <3> QED
      BY <3>2, <3>3
  <2>2. CASE PeerSends
    BY <1>3, <2>2 DEF PeerSends
  <2> QED
    BY <2>1, <2>2
<1>5. StreamSent(U)' /\ EndpointSent(U)' /\ Ready(poll_one, U)
  BY <1>1, <1>2, MembersSame, PlainIsReady DEF SentWith, poll_one
<1> QED
  BY <1>1, <1>2, <1>4, <1>5, PostSent

\* send_publish_from_queue(): nobody waits for what it sends.
LEMMA QueueSent ==
  ASSUME Inv, Sent, SendPublishFromQueue \/ QueueLoop \/ QueuePop, UNCHANGED <<cl, app>>
  PROVE  Sent'
<1>1. PICK U : SentWith(U)
  BY DEF Sent
<1>2. PICK H : EpHeld(ep, H)
  BY EpTyped
<1>3. UNCHANGED <<setup, strm, net>>
  BY DEF SendPublishFromQueue, QueueLoop, QueuePop
<1>4. EpSent(ep, U)
  BY <1>1 DEF SentWith, EndpointSent
<1>5. EpSent(ep', U)
  <2>1. \A q : EpSent([ep EXCEPT !.pubq = q], U)
    BY <1>2, <1>4, EpVariant
  <2> QED
    BY <1>4, <2>1 DEF SendPublishFromQueue, QueueLoop, QueuePop
<1> DEFINE l == [fn |-> "queue_loop"]
           q == [fn |-> "queue_pop"]
           s == send(detached, Head(ep.pubq))
           S == {l, q, s, self}
<1>6. Ready(l, U) /\ Ready(q, U)
  BY PlainIsReady
<1>7. Ready(s, U)
  BY DetachedSendReady
<1>8. PICK fn \in {"from_queue", "queue_loop", "queue_pop"} : Running(fn)
  BY DEF SendPublishFromQueue, QueueLoop, QueuePop
<1>9. Ready(self, U) /\ ~ Waiting
  BY <1>1, <1>8, SelfReady
<1>10. ex' \in {Then(<<l>>), Then(<<>>), Then(<<s, q, self>>)}
  BY Zenon DEF SendPublishFromQueue, QueueLoop, QueuePop
<1> HIDE DEF l, q, s
<1>11. \A h \in S : Ready(h, U)
  BY <1>6, <1>7, <1>9
<1>12. <<l>> \in Seq(S) /\ <<>> \in Seq(S) /\ <<s, q, self>> \in Seq(S)
  OBVIOUS
<1> HIDE DEF S
<1> QED
  BY <1>1, <1>3, <1>5, <1>9, <1>10, <1>11, <1>12, EndpointTurn, Zenon

\* A recv_op whose other members change.
LEMMA RecvVariant ==
  ASSUME NEW h, RecvOk(h), NEW f, f \notin {"fn", "k"}, NEW v
  PROVE  RecvOk([h EXCEPT ![f] = v]) /\ [h EXCEPT ![f] = v].k = h.k
<1> DEFINE g == [h EXCEPT ![f] = v]
<1>1. DOMAIN g = DOMAIN h /\ g.fn = h.fn /\ g.k = h.k
  BY DEF RecvOk
<1> HIDE DEF g
<1>2. RecvOk(g)
  BY <1>1 DEF RecvOk
<1> QED
  BY <1>1, <1>2 DEF g

\* The receive loop goes on.
LEMMA LoopReady ==
  ASSUME NEW U, NEW h, RecvOk(h), NEW ec, NEW p
  PROVE  Ready(Resume(h.k, ec), U) /\ Ready([Resume(h.k, ec) EXCEPT !.pkt = p], U)
<1> DEFINE g == Resume(h.k, ec)
           f == [g EXCEPT !.pkt = p]
<1>1. "fn" \in DOMAIN g /\ g.fn = "recv_loop"
  BY DEF RecvOk, Resume
<1> HIDE DEF g
<1>2. "fn" \in DOMAIN f /\ f.fn = "recv_loop"
  BY <1>1
<1> HIDE DEF f
<1>3. Ready(g, U) /\ Ready(f, U)
  BY <1>1, <1>2, PlainIsReady
<1> QED
  BY <1>3 DEF f, g

\* What recv_op starts.
LEMMA RecvStarts ==
  ASSUME NEW U, NEW h, RecvOk(h)
  PROVE  /\ Ready(h, U) /\ Ready(close(h), U) /\ Ready(read_some(h), U)
         /\ \A p : Ready(write_packet(h, p), U)
<1>1. Ready(h, U)
  BY RecvIsReady
<1>2. CloseCont(h, U) /\ \A p : WriteCont(h, p, U)
  BY DEF CloseCont, WriteCont
<1>3. Ready(close(h), U)
  BY <1>2, CloseIsReady DEF Awaits
<1>4. \A p : Ready(write_packet(h, p), U)
  BY <1>2, WritePacketReady
<1> DEFINE g == read_some(h)
<1>5. {"fn", "k"} \subseteq DOMAIN g /\ g.fn = "read_some" /\ g.k = h
  BY DEF read_some
<1> HIDE DEF g
<1>6. Ready(g, U)
  BY <1>5, Zenon DEF Ready
<1> QED
  BY <1>1, <1>3, <1>4, <1>6 DEF g

\* The states of recv_op in which it handles no event.
LEMMA RecvSent ==
  ASSUME Inv, Sent, RecvError \/ RecvCheckBuf \/ RecvReadIstream \/ RecvProcessed, UNCHANGED <<cl, app>>
  PROVE  Sent'
<1>1. PICK U : SentWith(U)
  BY DEF Sent
<1>2. PICK H : EpHeld(ep, H)
  BY EpTyped
<1>3. Running("recv") /\ UNCHANGED <<setup, strm, net>>
  BY Zenon DEF RecvError, RecvCheckBuf, RecvReadIstream, RecvProcessed, RecvAt
<1>4. Ready(self, U) /\ self.fn = "recv" /\ ~ Waiting
  BY <1>1, <1>3, SelfReady
<1>5. RecvOk(self) /\ EpSent(ep, U)
  BY <1>1, <1>4, Zenon DEF Ready, SentWith, EndpointSent
<1>7. EpSent(ep', U)
  <2>1. CASE RecvReadIstream
    <3>1. \E b, v, d : ep' = [ep EXCEPT !.buf = b, !.events = v, !.dropped = d]
      BY <2>1, Zenon DEF RecvReadIstream
    <3>2. ep'.retry = ep.retry /\ ep'.closeq = ep.closeq /\ ep'.delayed = ep.delayed
      BY <1>2, <3>1, Zenon DEF EpHeld
    <3> QED
      BY <1>5, <3>2, Zenon DEF EpSent
  <2>2. CASE RecvError \/ RecvCheckBuf \/ RecvProcessed
    BY <1>5, <2>2 DEF RecvError, RecvCheckBuf, RecvProcessed
  <2> QED
    BY <2>1, <2>2
<1>8. CASE RecvError
  <2> DEFINE a == [self EXCEPT !.ec = "ok"]
             b == [a EXCEPT !.err = self.ec]
             c == [b EXCEPT !.state = "complete"]
  <2>1. RecvOk(a)
    BY <1>5, RecvVariant
  <2>2. c = [self EXCEPT !.ec = "ok", !.err = self.ec, !.state = "complete"]
    BY Zenon
  <2> HIDE DEF a
  <2>3. RecvOk(b)
    BY <2>1, RecvVariant
  <2> HIDE DEF b
  <2>4. RecvOk(c)
    BY <2>3, RecvVariant
  <2>5. ex' = Then(<<Resume(self.k, self.ec)>>) \/ ex' = Then(<<close(c)>>)
    BY <1>8, <2>2 DEF RecvError
  <2> HIDE DEF c
  <2>6. Ready(close(c), U) /\ Ready(Resume(self.k, self.ec), U)
    BY <1>5, <2>4, RecvStarts, LoopReady, Zenon
  <2> QED
    BY <1>1, <1>3, <1>4, <1>7, <2>5, <2>6, EndpointOne
<1>9. CASE RecvCheckBuf
  <2> DEFINE c == [self EXCEPT !.state = "read_istream"]
  <2>1. RecvOk(c)
    BY <1>5, RecvVariant
  <2>2. ex' = Then(<<read_some(c)>>) \/ ex' = ThenPost(<<>>, <<c>>)
    BY <1>9 DEF RecvCheckBuf
  <2> HIDE DEF c
  <2>3. Ready(c, U) /\ Ready(read_some(c), U)
    BY <2>1, RecvStarts
  <2> QED
    BY <1>1, <1>3, <1>4, <1>7, <2>2, <2>3, EndpointOne
<1>10. CASE RecvReadIstream
  <2> DEFINE a == [self EXCEPT !.data = <<>>]
             b == [a EXCEPT !.state = "process"]
  <2>1. RecvOk(a)
    BY <1>5, RecvVariant, Zenon
  <2>2. b = [self EXCEPT !.data = <<>>, !.state = "process"]
    BY Zenon
  <2> HIDE DEF a
  <2>3. RecvOk(b)
    BY <2>1, RecvVariant
  <2>4. ex' = Then(<<b>>)
    BY <1>10, <2>2 DEF RecvReadIstream
  <2> HIDE DEF b
  <2>5. Ready(b, U)
    BY <2>3, RecvStarts
  <2> QED
    BY <1>1, <1>3, <1>4, <1>7, <2>4, <2>5, EndpointOne
<1>11. CASE RecvProcessed
  <2>1. PICK s : ex' = Then(<<[self EXCEPT !.state = s]>>)
    BY <1>11, Zenon DEF RecvProcessed
  <2> DEFINE c == [self EXCEPT !.state = s]
  <2>2. RecvOk(c)
    BY <1>5, RecvVariant
  <2>3. ex' = Then(<<c>>)
    BY <2>1
  <2> HIDE DEF c
  <2>4. Ready(c, U)
    BY <2>2, RecvStarts
  <2> QED
    BY <1>1, <1>3, <1>4, <1>7, <2>3, <2>4, EndpointOne
<1> QED
  BY <1>8, <1>9, <1>10, <1>11

\* recv_op completes.
LEMMA RecvCompleteSent ==
  ASSUME Inv, Sent, RecvComplete, UNCHANGED <<cl, app>>
  PROVE  Sent'
<1>1. PICK U : SentWith(U)
  BY DEF Sent
<1>2. Running("recv") /\ UNCHANGED <<setup, strm, net, ep>>
  BY DEF RecvComplete, RecvAt
<1>3. Ready(self, U) /\ self.fn = "recv" /\ ~ Waiting
  BY <1>1, <1>2, SelfReady
<1>4. RecvOk(self) /\ EpSent(ep, U)
  BY <1>1, <1>3, Zenon DEF Ready, SentWith, EndpointSent
<1> DEFINE a == [Resume(self.k, self.err) EXCEPT !.pkt = NoPacket]
           b == [Resume(self.k, "ok") EXCEPT !.pkt = self.pkt]
           q == [fn |-> "from_queue"]
           S == {a, b, q}
<1>5. Ready(a, U) /\ Ready(b, U) /\ Ready(q, U)
  BY <1>4, LoopReady, PlainIsReady, Zenon
<1>6. ex' = Then(<<a>>) \/ ex' = Then(<<q>> \o <<b>>) \/ ex' = Then(<<>> \o <<b>>)
  BY Zenon DEF RecvComplete
<1> HIDE DEF a, b, q
<1>7. \A h \in S : Ready(h, U)
  BY <1>5
<1>8. <<a>> \in Seq(S) /\ <<>> \in Seq(S) /\ <<q>> \o <<b>> \in Seq(S) /\ <<>> \o <<b>> \in Seq(S)
  OBVIOUS
<1> HIDE DEF S
<1>9. \E hs \in Seq(S) : ex' = Then(hs)
  BY <1>6, <1>8, Zenon
<1> QED
  BY <1>1, <1>2, <1>3, <1>4, <1>7, <1>8, <1>9, EndpointTurn
-----------------------------------------------------------------------------
(***************************************************************************)
(* send_op.                                                                *)
(***************************************************************************)
\* The events of a packet, one by one.
LEMMA EventsAre ==
  ASSUME NEW S, NEW evs \in Seq(S), NEW p,
         \A j \in DOMAIN evs : /\ evs[j].e = "send" => evs[j].p.i = p.i
                               /\ evs[j].e = "error" => evs[j].ec # "ok"
                               /\ evs[j].e = "close" => j = Len(evs)
  PROVE  EventsOf(evs, p)
<1>1. evs \in Seq(Range(evs))
  BY SeqOf, Zenon DEF Range
<1> QED
  BY <1>1, Zenon DEF EventsOf

\* The events that are left after the first.
LEMMA EventsLeft ==
  ASSUME NEW evs, NEW p, EventsOf(evs, p), evs # <<>>
  PROVE  EventsOf(Tail(evs), p)
<1> DEFINE S == Range(evs)
<1>1. evs \in Seq(S)
  BY DEF EventsOf
<1> HIDE DEF S
<1>2. /\ Tail(evs) \in Seq(S) /\ Len(Tail(evs)) = Len(evs) - 1 /\ Len(evs) \in Nat
      /\ \A j \in DOMAIN Tail(evs) : j \in Int /\ j + 1 \in DOMAIN evs /\ Tail(evs)[j] = evs[j + 1]
  BY <1>1
<1>3. ASSUME NEW j \in DOMAIN Tail(evs)
      PROVE  /\ Tail(evs)[j].e = "send" => Tail(evs)[j].p.i = p.i
             /\ Tail(evs)[j].e = "error" => Tail(evs)[j].ec # "ok"
             /\ Tail(evs)[j].e = "close" => j + 1 = Len(evs)
  BY <1>2, <1>3, Zenon DEF EventsOf
<1>4. \A j \in DOMAIN Tail(evs) : j + 1 = Len(evs) => j = Len(Tail(evs))
  BY <1>2
<1>5. \A j \in DOMAIN Tail(evs) : /\ Tail(evs)[j].e = "send" => Tail(evs)[j].p.i = p.i
                                  /\ Tail(evs)[j].e = "error" => Tail(evs)[j].ec # "ok"
                                  /\ Tail(evs)[j].e = "close" => j = Len(Tail(evs))
  BY <1>3, <1>4, Zenon
<1> QED
  BY <1>2, <1>5, EventsAre, Zenon

\* The kinds of events.
LEMMA EventKinds ==
  /\ \A ec : error_ev(ec).e = "error" /\ error_ev(ec).ec = ec
  /\ \A id : released_ev(id).e = "released"
  /\ \A p, r : send_ev(p, r).e = "send" /\ send_ev(p, r).p = p
  /\ \A op, kind : timer_ev(op, kind).e = "timer"
  /\ close_ev.e = "close"
BY DEF error_ev, released_ev, send_ev, timer_ev, close_ev

\* Event a, perhaps followed by b, decides.
Decided(evs, a, b, p) ==
  /\ b.e \in {"released", "timer"}
  /\ (a.e = "error" /\ a.ec # "ok") \/ (a.e = "send" /\ a.p = p)
  /\ evs \in {<<a>>, <<a>> \o <<>>, <<a>> \o <<b>>, Append(<<a>>, b)}

\* The first event decides.
LEMMA FirstDecides ==
  ASSUME NEW p, NEW a, NEW b, NEW evs, Decided(evs, a, b, p)
  PROVE  EventsOf(evs, p) /\ Undecided(evs)
<1>1. <<a>> \in Seq({a, b}) /\ 1 \in DOMAIN <<a>> /\ <<a>>[1] = a
  OBVIOUS
<1>2. (<<a>> \o <<>>) \in Seq({a, b}) /\ 1 \in DOMAIN (<<a>> \o <<>>) /\ (<<a>> \o <<>>)[1] = a
  OBVIOUS
<1>3. (<<a>> \o <<b>>) \in Seq({a, b}) /\ 1 \in DOMAIN (<<a>> \o <<b>>) /\ (<<a>> \o <<b>>)[1] = a
  OBVIOUS
<1>4. Append(<<a>>, b) \in Seq({a, b}) /\ 1 \in DOMAIN Append(<<a>>, b) /\ Append(<<a>>, b)[1] = a
  OBVIOUS
<1>5. evs \in Seq({a, b}) /\ 1 \in DOMAIN evs /\ evs[1] = a
  BY <1>1, <1>2, <1>3, <1>4, Zenon DEF Decided
<1>6. \A j \in DOMAIN evs : evs[j] \in {a, b}
  BY <1>5, Elements
<1>7. \A j \in DOMAIN evs : /\ evs[j].e = "send" => evs[j].p.i = p.i
                            /\ evs[j].e = "error" => evs[j].ec # "ok"
                            /\ evs[j].e = "close" => j = Len(evs)
  BY <1>6 DEF Decided
<1>8. EventsOf(evs, p)
  BY <1>5, <1>7, EventsAre
<1>9. Undecided(evs)
  BY <1>5 DEF Undecided, Decided
<1> QED
  BY <1>8, <1>9

\* The packet is refused,
LEMMA RefusedEvents ==
  ASSUME NEW p, NEW ec, ec # "ok", NEW id, NEW evs,
         evs \in {<<error_ev(ec)>>, <<error_ev(ec)>> \o <<>>, <<error_ev(ec)>> \o <<released_ev(id)>>}
  PROVE  EventsOf(evs, p) /\ Undecided(evs)
<1> DEFINE a == error_ev(ec)
           b == released_ev(id)
<1>1. a.e = "error" /\ a.ec # "ok" /\ b.e = "released"
  BY EventKinds
<1>2. evs \in {<<a>>, <<a>> \o <<>>, <<a>> \o <<b>>}
  OBVIOUS
<1> HIDE DEF a, b
<1>3. Decided(evs, a, b, p)
  BY <1>1, <1>2, Zenon DEF Decided
<1> QED
  BY <1>3, FirstDecides

\* or sent,
LEMMA AcceptedEvents ==
  ASSUME NEW p, NEW r, NEW c
  PROVE  LET evs == post_process(Result(c, <<send_ev(p, r)>>)).evs IN EventsOf(evs, p) /\ Undecided(evs)
<1> DEFINE a == send_ev(p, r)
           b == timer_ev("reset", "pingreq_send")
           evs == post_process(Result(c, <<a>>)).evs
<1>1. a.e = "send" /\ a.p = p /\ b.e = "timer"
  BY EventKinds
<1>2. evs = <<a>> \/ evs = Append(<<a>>, b)
  BY DEF post_process, Result
<1> HIDE DEF a, b, evs
<1>3. Decided(evs, a, b, p)
  BY <1>1, <1>2, Zenon DEF Decided
<1>4. EventsOf(evs, p) /\ Undecided(evs)
  BY <1>3, FirstDecides
<1> QED
  BY <1>4 DEF evs, a

\* or sent before the connection is closed.
LEMMA DisconnectEvents ==
  ASSUME NEW p, NEW c
  PROVE  LET evs == cancel_timers(c).evs \o <<send_ev(p, 0), close_ev>> IN EventsOf(evs, p) /\ Undecided(evs)
<1> DEFINE a == send_ev(p, 0)
           t == timer_ev("cancel", "pingreq_send")
           u == timer_ev("cancel", "pingresp_recv")
           z == close_ev
           ts == cancel_timers(c).evs
           evs == ts \o <<a, z>>
<1>1. a.e = "send" /\ a.p = p /\ t.e = "timer" /\ u.e = "timer" /\ z.e = "close"
  BY EventKinds
<1>2. ts \in {<<>> \o <<>>, <<>> \o <<u>>, <<t>> \o <<>>, <<t>> \o <<u>>}
  BY Zenon DEF cancel_timers, Result
<1> HIDE DEF a, t, u, z, ts
<1>3. ts \in Seq({t, u}) /\ Len(ts) \in Nat /\ \A j \in DOMAIN ts : ts[j] \in {t, u}
  <2>1. <<>> \o <<>> \in Seq({t, u}) /\ <<>> \o <<u>> \in Seq({t, u})
    OBVIOUS
  <2>2. <<t>> \o <<>> \in Seq({t, u}) /\ <<t>> \o <<u>> \in Seq({t, u})
    OBVIOUS
  <2>3. ts \in Seq({t, u})
    BY <1>2, <2>1, <2>2, Zenon
  <2> QED
    BY <2>3, Elements
<1>4. /\ evs \in Seq({t, u, a, z}) /\ Len(evs) = Len(ts) + 2
      /\ \A j \in DOMAIN evs : \/ j \in DOMAIN ts /\ evs[j] = ts[j]
                               \/ j = Len(ts) + 1 /\ evs[j] = a
                               \/ j = Len(ts) + 2 /\ evs[j] = z
      /\ Len(ts) + 1 \in DOMAIN evs /\ evs[Len(ts) + 1] = a
  BY <1>3
<1> HIDE DEF evs
<1>5. EventsOf(evs, p)
  <2>1. \A j \in DOMAIN evs : evs[j] \in {t, u, a} \/ (evs[j] = z /\ j = Len(evs))
    BY <1>3, <1>4
  <2>2. \A j \in DOMAIN evs : /\ evs[j].e = "send" => evs[j].p.i = p.i
                              /\ evs[j].e = "error" => evs[j].ec # "ok"
                              /\ evs[j].e = "close" => j = Len(evs)
    BY <1>1, <2>1
  <2> QED
    BY <1>4, <2>2, EventsAre
<1>6. Undecided(evs)
  BY <1>1, <1>4, Zenon DEF Undecided
<1> QED
  BY <1>5, <1>6 DEF evs, ts, a, z

\* What send() returns for a packet of a request decides whether it is sent.
LEMMA SendEvents ==
  ASSUME NEW c, NEW p, p.t \in SendTypes
  PROVE  EventsOf(con_send(c, p).evs, p) /\ Undecided(con_send(c, p).evs)
<1> DEFINE Decides(r) == EventsOf(r.evs, p) /\ Undecided(r.evs)
<1>1. \A d, ec : ec # "ok" => Decides(Result(d, <<error_ev(ec)>>))
  <2> SUFFICES ASSUME NEW d, NEW ec, ec # "ok" PROVE Decides(Result(d, <<error_ev(ec)>>))
    OBVIOUS
  <2>1. Result(d, <<error_ev(ec)>>).evs = <<error_ev(ec)>>
    BY DEF Result
  <2> QED
    BY <2>1, RefusedEvents, Zenon
<1>2. \A d, r : Decides(post_process(Result(d, <<send_ev(p, r)>>)))
  BY AcceptedEvents
<1>3. CASE p.t = "connect"
  <2>1. con_send(c, p) = send_connect(c, p)
    BY <1>3 DEF con_send
  <2>2. Decides(send_connect(c, p))
    <3>1. CASE c.status # "disconnected"
      <4>1. send_connect(c, p) = Result(c, <<error_ev("not_allowed")>>)
        BY <3>1 DEF send_connect
      <4> HIDE DEF Decides
      <4> QED
        BY <1>1, <4>1
    <3>2. CASE c.status = "disconnected"
      <4>1. \E d : send_connect(c, p) = post_process(Result(d, <<send_ev(p, 0)>>))
        BY <3>2 DEF send_connect
      <4> HIDE DEF Decides
      <4> QED
        BY <1>2, <4>1
    <3> QED
      BY <3>1, <3>2
  <2> QED
    BY <2>1, <2>2
<1>4. CASE p.t = "publish"
  <2>1. con_send(c, p) = send_publish(c, p)
    BY <1>4 DEF con_send
  <2>2. Decides(send_publish(c, p))
    <3>1. \/ send_publish(c, p) = Result(c, <<error_ev("id_invalid")>>)
          \/ \E d, r : send_publish(c, p) = post_process(Result(d, <<send_ev(p, r)>>))
          \/ \E d, ec : /\ ec \in {"receive_maximum", "not_allowed"}
                        /\ send_publish(c, p) = Result(d, <<error_ev(ec)>> \o (IF p.id = 0 THEN <<>> ELSE <<released_ev(p.id)>>))
      BY Zenon DEF send_publish
    <3>2. ASSUME NEW d, NEW ec, ec \in {"receive_maximum", "not_allowed"}
          PROVE  Decides(Result(d, <<error_ev(ec)>> \o (IF p.id = 0 THEN <<>> ELSE <<released_ev(p.id)>>)))
      <4> DEFINE evs == <<error_ev(ec)>> \o (IF p.id = 0 THEN <<>> ELSE <<released_ev(p.id)>>)
      <4>1. evs \in {<<error_ev(ec)>> \o <<>>, <<error_ev(ec)>> \o <<released_ev(p.id)>>}
        BY Zenon
      <4>2. Result(d, evs).evs = evs
        BY DEF Result
      <4> HIDE DEF evs
      <4>3. EventsOf(evs, p) /\ Undecided(evs)
        BY <3>2, <4>1, RefusedEvents, Zenon
      <4>4. Decides(Result(d, evs))
        BY <4>2, <4>3
      <4> QED
        BY <4>4 DEF evs
    <3> HIDE DEF Decides
    <3> QED
      BY <1>1, <1>2, <3>1, <3>2, Zenon
  <2> QED
    BY <2>1, <2>2
<1>5. CASE p.t \in {"subscribe", "unsubscribe"}
  <2>1. con_send(c, p) = send_request(c, p)
    BY <1>5 DEF con_send
  <2>2. \/ send_request(c, p) = Result(c, <<error_ev("not_allowed")>>)
        \/ \E d : send_request(c, p) = post_process(Result(d, <<send_ev(p, p.id)>>))
    BY Zenon DEF send_request
  <2>3. Decides(send_request(c, p))
    <3> HIDE DEF Decides
    <3> QED
      BY <1>1, <1>2, <2>2
  <2> QED
    BY <2>1, <2>3
<1>6. CASE p.t = "disconnect"
  <2>1. con_send(c, p) = send_disconnect(c, p)
    BY <1>6 DEF con_send
  <2>2. Decides(send_disconnect(c, p))
    <3>1. CASE c.status # "connected"
      <4>1. send_disconnect(c, p) = Result(c, <<error_ev("not_allowed")>>)
        BY <3>1 DEF send_disconnect
      <4> HIDE DEF Decides
      <4> QED
        BY <1>1, <4>1
    <3>2. CASE c.status = "connected"
      <4> DEFINE d == [c EXCEPT !.status = "disconnected"]
                 evs == cancel_timers(d).evs \o <<send_ev(p, 0), close_ev>>
      <4>1. send_disconnect(c, p).evs = evs
        BY <3>2 DEF send_disconnect, Result
      <4> HIDE DEF d
      <4>2. EventsOf(evs, p) /\ Undecided(evs)
        BY DisconnectEvents
      <4> HIDE DEF evs
      <4> QED
        BY <4>1, <4>2
    <3> QED
      BY <3>1, <3>2
  <2> QED
    BY <2>1, <2>2
<1>7. CASE p.t = "auth"
  <2>1. con_send(c, p) = send_auth(c, p)
    BY <1>7 DEF con_send
  <2>2. \/ send_auth(c, p) = Result(c, <<error_ev("not_allowed")>>)
        \/ send_auth(c, p) = post_process(Result(c, <<send_ev(p, 0)>>))
    BY Zenon DEF send_auth
  <2>3. Decides(send_auth(c, p))
    <3> HIDE DEF Decides
    <3> QED
      BY <1>1, <1>2, <2>2
  <2> QED
    BY <2>1, <2>3
<1> QED
  BY <1>3, <1>4, <1>5, <1>6, <1>7 DEF SendTypes

\* A send_op that differs in its state and its events.
LEMMA SendLike ==
  ASSUME NEW s, SendOk(s), NEW g, DOMAIN g = DOMAIN s, g.fn = s.fn, g.k = s.k, g.p = s.p,
         s.k = detached \/ (g.state \in {"write", "sent"} /\ EventsOf(g.evs, s.p))
  PROVE  SendOk(g)
BY Zenon DEF SendOk, IsSend, Tracked

\* It completes with an error, or its packet was sent.
LEMMA SendResumes ==
  ASSUME NEW U, NEW s, SendOk(s), NEW ec, s.k = detached \/ ec # "ok" \/ s.p.i \notin U
  PROVE  Ready(Resume(s.k, ec), U)
<1>1. CASE s.k = detached
  <2>1. "fn" \in DOMAIN Resume(s.k, ec) /\ Resume(s.k, ec).fn = "detached"
    BY <1>1 DEF detached, Resume
  <2> QED
    BY <2>1, PlainIsReady
<1>2. CASE s.k # detached
  <2>1. IsRequest(s.k) /\ s.k.i = s.p.i
    BY <1>2 DEF SendOk, Tracked
  <2> DEFINE g == Resume(s.k, ec)
  <2>2. IsRequest(g) /\ g.ec = ec /\ g.i = s.p.i
    BY <2>1, RequestResumed
  <2> HIDE DEF g
  <2>3. Ready(g, U)
    BY <1>2, <2>2, RequestIsReady
  <2> QED
    BY <2>3 DEF g
<1> QED
  BY <1>1, <1>2

\* The handler that runs is a send_op.
LEMMA SendRuns ==
  ASSUME Inv, NEW U, SentWith(U), Running("send")
  PROVE  /\ ~ Waiting /\ SendOk(self) /\ IsSend(self) /\ EpSent(ep, U)
         /\ self.k = detached \/ self.ec # "ok" \/ Justified(self, U)
         /\ self.k # detached => self.p.t \in SendTypes /\ EventsOf(self.evs, self.p)
<1>1. Ready(self, U) /\ self.fn = "send" /\ ~ Waiting
  BY SelfReady
<1>2. SendReady(self, U)
  BY <1>1 DEF Ready
<1>3. EpSent(ep, U)
  BY DEF SentWith, EndpointSent
<1> QED
  BY <1>1, <1>2, <1>3 DEF SendReady, SendOk, Tracked

\* send_op before and after it handles events.
LEMMA SendSent ==
  ASSUME Inv, Sent, SendError \/ SendWrite \/ SendComplete, UNCHANGED <<cl, app>>
  PROVE  Sent'
<1>1. PICK U : SentWith(U)
  BY DEF Sent
<1>2. PICK H : EpHeld(ep, H)
  BY EpTyped
<1>3. Running("send") /\ UNCHANGED <<setup, strm, net>>
  BY DEF SendError, SendWrite, SendComplete
<1>4. /\ ~ Waiting /\ SendOk(self) /\ IsSend(self) /\ EpSent(ep, U)
      /\ self.k = detached \/ self.ec # "ok" \/ Justified(self, U)
      /\ self.k # detached => self.p.t \in SendTypes /\ EventsOf(self.evs, self.p)
  BY <1>1, <1>3, SendRuns
<1>5. EpSent(ep', U)
  <2>1. \A d : EpSent([ep EXCEPT !.dropped = d], U)
    BY <1>2, <1>4, EpVariant
  <2>2. ep' = ep \/ \E d : ep' = [ep EXCEPT !.dropped = d]
    BY DEF SendError, SendWrite, SendComplete
  <2> QED
    BY <1>4, <2>1, <2>2
<1>6. CASE SendError
  <2>1. ex' = Then(<<Resume(self.k, self.ec)>>) /\ self.ec # "ok"
    BY <1>6 DEF SendError
  <2>2. Ready(Resume(self.k, self.ec), U)
    BY <1>4, <2>1, SendResumes, Zenon
  <2> QED
    BY <1>1, <1>3, <1>4, <1>5, <2>1, <2>2, EndpointOne
<1>7. CASE SendWrite
  <2> DEFINE evs == con_send(con, self.p).evs
             g == [self EXCEPT !.state = "sent", !.evs = evs]
  <2>1. ex' = Then(<<g>>)
    BY <1>7 DEF SendWrite
  <2>2. self.k # detached => EventsOf(evs, self.p) /\ Undecided(evs)
    BY <1>4, SendEvents
  <2> HIDE DEF evs
  <2>3. DOMAIN g = DOMAIN self /\ g.fn = self.fn /\ g.k = self.k /\ g.p = self.p /\ g.state = "sent" /\ g.evs = evs
    BY <1>4, Zenon DEF IsSend
  <2> HIDE DEF g
  <2>4. SendOk(g)
    BY <1>4, <2>2, <2>3, SendLike
  <2>5. g.k = detached \/ Justified(g, U)
    BY <2>2, <2>3 DEF Justified
  <2>6. Ready(g, U)
    BY <2>4, <2>5, SendIsReady
  <2> QED
    BY <1>1, <1>3, <1>4, <1>5, <2>1, <2>6, EndpointOne
<1>8. CASE SendComplete
  <2>1. ex' = Then(<<Resume(self.k, self.err)>>) /\ self.evs = <<>> /\ self.state = "sent" /\ self.ec = "ok"
    BY <1>8 DEF SendComplete
  <2>2. ~ Undecided(self.evs)
    <3>1. \A j \in DOMAIN <<>> : FALSE
      OBVIOUS
    <3> QED
      BY <2>1, <3>1, Zenon DEF Undecided
  <2>3. self.k = detached \/ self.err # "ok" \/ self.p.i \notin U
    BY <1>4, <2>1, <2>2 DEF Justified
  <2>4. Ready(Resume(self.k, self.err), U)
    BY <1>4, <2>3, SendResumes, Zenon
  <2> QED
    BY <1>1, <1>3, <1>4, <1>5, <2>1, <2>4, EndpointOne
<1> QED
  BY <1>6, <1>7, <1>8
-----------------------------------------------------------------------------
(***************************************************************************)
(* The steps of the client and of the application.                         *)
(***************************************************************************)
\* A result is noted: success is not, for a packet that was not sent.
LEMMA ResultNoted ==
  ASSUME NEW U, AppSent(U), setup' = setup, NEW i, NEW ec, ec = "ok" => i \notin U,
         \/ app' = [app EXCEPT !.res[i] = ec]
         \/ \E id : app' = [app EXCEPT !.res[i] = ec, !.id[i] = id]
         \/ \E pvs : app' = [app EXCEPT !.res[i] = ec, !.saved = pvs]
         \/ \E n : app' = [app EXCEPT !.next = n, !.res[i] = ec]
         \/ \E n, id : app' = [app EXCEPT !.next = n, !.res[i] = ec, !.id[i] = id]
  PROVE  AppSent(U)'
<1> DEFINE r == [app.res EXCEPT ![i] = ec]
<1>1. DOMAIN r = DOMAIN app.res /\ \A x \in DOMAIN app.res : r[x] = app.res[x] \/ (x = i /\ r[x] = ec)
  BY Zenon
<1>2. app'.res = r /\ DOMAIN app' = DOMAIN app
  BY Zenon DEF AppSent
<1> HIDE DEF r
<1> QED
  BY <1>1, <1>2, ZenonT(40) DEF AppSent, Calls

\* The types of a state, with the members of the client.
LEMMA ClTyped ==
  ASSUME Inv
  PROVE  \E H : ClHeld(cl, H)
BY DEF Inv, Typed, Held

\* A call that completes.
LEMMA CompletesSent ==
  ASSUME Inv, NEW U, SentWith(U), ~ Waiting, NEW i, NEW ec, Complete(i, ec, <<>>), ec = "ok" => i \notin U,
         UNCHANGED <<setup, strm, net, ep>>, ClientSent(U)'
  PROVE  Sent'
<1>1. app' = [app EXCEPT !.res[i] = ec] /\ ex' = Then(<<>>)
  BY DEF Complete
<1>2. AppSent(U)'
  <2>1. AppSent(U)
    BY DEF SentWith
  <2> QED
    BY <1>1, <2>1, ResultNoted, Zenon
<1>3. EndpointSent(U)'
  BY MembersSame DEF SentWith
<1> QED
  BY <1>1, <1>2, <1>3, EndSent

\* A call that ends.
LEMMA DoneSent ==
  ASSUME Inv, Sent, RequestDone \/ Saved
  PROVE  Sent'
<1>1. PICK U : SentWith(U)
  BY DEF Sent
<1>2. UNCHANGED <<setup, strm, net, ep, cl>> /\ ex' = Then(<<>>)
  BY DEF RequestDone, Saved
<1>3. ~ Waiting /\ AppSent(U) /\ EndpointSent(U)' /\ ClientSent(U)'
  BY <1>1, <1>2, MembersSame DEF SentWith, RequestDone, RequestAt, Saved, Running, Waiting
<1>4. AppSent(U)'
  <2>1. CASE RequestDone
    <3>1. Ready(self, U) /\ self.fn = "request" /\ self.state = "done"
      BY <1>1, <2>1, SelfReady DEF RequestDone, RequestAt
    <3>2. self.ec = "ok" => self.i \notin U
      BY <3>1 DEF Ready, RequestReady
    <3>3. app' = [app EXCEPT !.res[self.i] = self.ec, !.id[self.i] = self.id]
      BY <2>1 DEF RequestDone
    <3> QED
      BY <1>2, <1>3, <3>2, <3>3, ResultNoted, Zenon
  <2>2. CASE Saved
    <3>1. Ready(self, U) /\ self.fn = "stored"
      BY <1>1, <2>2, SelfReady DEF Saved
    <3>2. self.k.i \notin U
      BY <3>1 DEF Ready
    <3>3. app' = [app EXCEPT !.res[self.k.i] = "ok", !.saved = self.pvs]
      BY <2>2 DEF Saved
    <3> QED
      BY <1>2, <1>3, <3>2, <3>3, ResultNoted, Zenon
  <2> QED
    BY <2>1, <2>2
<1> QED
  BY <1>1, <1>2, <1>3, <1>4, EndSent

\* The operation of a packet begins.
LEMMA BeginReady ==
  ASSUME NEW U, NEW i, Kind(i) \in SendKinds, NEW id, NEW ec
  PROVE  Ready(begin(i, id, ec), U)
<1>1. CASE ec # "ok"
  <2> DEFINE r == [request(i, "done", id) EXCEPT !.ec = ec]
  <2>1. IsRequest(r) /\ r.ec = ec
    BY DEF IsRequest, request
  <2> HIDE DEF r
  <2>2. Ready(r, U)
    BY <1>1, <2>1, RequestIsReady
  <2> QED
    BY <1>1, <2>2 DEF begin, r
<1>2. CASE ec = "ok"
  <2> DEFINE k == request(i, "sent", id)
             p == PacketOf(i, id)
             s == send(k, p)
  <2>1. IsRequest(k) /\ k.state = "sent" /\ k.i = i
    BY DEF IsRequest, request
  <2>2. p.i = i /\ p.t \in SendTypes
    BY DEF PacketOf, Packet, SendKinds, SendTypes
  <2> HIDE DEF k, p
  <2>3. IsSend(s) /\ s.k = k /\ s.p = p /\ s.state = "write" /\ s.evs = <<>>
    BY DEF send, IsSend
  <2>4. EventsOf(<<>>, p)
    BY DEF EventsOf, Range
  <2> HIDE DEF s
  <2>5. SendOk(s) /\ Justified(s, U)
    BY <2>1, <2>2, <2>3, <2>4, Zenon DEF SendOk, Tracked, Justified
  <2>6. Ready(s, U)
    BY <2>5, SendIsReady
  <2> QED
    BY <1>2, <2>6 DEF begin, s, k, p
<1> QED
  BY <1>1, <1>2

\* The identifier was acquired, or not.
LEMMA AcquiredSent ==
  ASSUME Inv, Sent, RequestAcquired
  PROVE  Sent'
<1>1. PICK U : SentWith(U)
  BY DEF Sent
<1>2. UNCHANGED <<setup, strm, net, ep, cl>>
  BY DEF RequestAcquired
<1>3. ~ Waiting /\ EndpointSent(U)' /\ ClientSent(U)'
  BY <1>1, <1>2, MembersSame DEF SentWith, RequestAcquired, RequestAt, Running, Waiting
<1>4. CASE self.ec # "ok"
  <2>1. Complete(self.i, self.ec, <<>>)
    BY <1>4 DEF RequestAcquired
  <2> QED
    BY <1>1, <1>2, <1>3, <1>4, <2>1, CompletesSent
<1>5. CASE self.ec = "ok"
  <2>1. Kind(self.i) \in {"publish", "subscribe", "unsubscribe"}
    <3>1. \E H : Fits(self, H) /\ self.fn = "request"
      BY RunningFits DEF RequestAcquired, RequestAt
    <3> QED
      BY <3>1 DEF Fits, RequestAcquired, RequestAt
  <2> DEFINE g == begin(self.i, self.id, Constructed(self.i))
  <2>2. ex' = Then(<<g>>) /\ app' = app
    BY <1>5, <2>1 DEF RequestAcquired, async_publish, async_subscribe, async_unsubscribe, publish_op, subscribe_op,
                      unsubscribe_op
  <2>3. Ready(g, U)
    BY <2>1, BeginReady DEF SendKinds
  <2> HIDE DEF g
  <2>4. AppSent(U)'
    BY <1>1, <1>2, <2>2, MembersSame DEF SentWith
  <2> QED
    BY <1>1, <1>2, <1>3, <2>2, <2>3, <2>4, DispatchSent
<1> QED
  BY <1>4, <1>5

\* recv_loop() receives.
LEMMA LoopReceives ==
  ASSUME NEW U
  PROVE  Ready(recv(recv_loop), U)
<1> DEFINE g == recv(recv_loop)
<1>1. RecvOk(g)
  BY DEF RecvOk, recv, recv_loop
<1> HIDE DEF g
<1> QED
  BY <1>1, RecvIsReady DEF g

\* async_send() completed: only the request of a packet that was sent waits for its
\* answer.
LEMMA AwaitSent ==
  ASSUME Inv, Sent, RequestAt("sent"), NEW hs, hs = <<>> \/ hs = <<recv(recv_loop)>>, Await(hs)
  PROVE  Sent'
<1>1. PICK U : SentWith(U)
  BY DEF Sent
<1>2. UNCHANGED <<setup, strm, net, ep>>
  BY DEF Await
<1>3. Ready(self, U) /\ self.fn = "request" /\ self.state = "sent" /\ ~ Waiting
  BY <1>1, SelfReady DEF RequestAt
<1>4. ClientSent(U) /\ EndpointSent(U)'
  BY <1>1, <1>2, MembersSame DEF SentWith
<1>5. CASE self.ec # "ok"
  <2>1. Complete(self.i, self.ec, <<>>) /\ cl' = cl
    BY <1>5 DEF Await
  <2>2. ClientSent(U)'
    BY <1>4, <2>1, MembersSame
  <2> QED
    BY <1>1, <1>2, <1>3, <1>5, <2>1, <2>2, CompletesSent
<1>6. CASE self.ec = "ok"
  <2>1. self.i \notin U
    BY <1>3, <1>6 DEF Ready, RequestReady
  <2> DEFINE col == emplace(cl.col, self.i, self.id)
  <2>2. \E l : cl' = [cl EXCEPT !.col = col, !.loop = l]
    BY <1>6, Zenon DEF Await
  <2>3. ex' = Then(hs) /\ app' = app
    BY <1>6 DEF Await
  <2>4. \A x \in DOMAIN col : \/ x \in DOMAIN cl.col /\ col[x] = cl.col[x]
                              \/ "i" \in DOMAIN col[x] /\ col[x].i = self.i
    BY Zenon DEF emplace
  <2> HIDE DEF col
  <2>5. cl'.col = col /\ cl'.waiter = cl.waiter
    BY <2>2, ClTyped, Zenon DEF ClHeld
  <2>6. ClientSent(U)'
    BY <1>4, <2>1, <2>4, <2>5, ZenonT(40) DEF ClientSent
  <2>7. AppSent(U)'
    BY <1>1, <1>2, <2>3, MembersSame DEF SentWith
  <2>8. CASE hs = <<>>
    BY <1>1, <1>2, <1>3, <1>4, <2>3, <2>6, <2>7, <2>8, EndSent
  <2>9. CASE hs = <<recv(recv_loop)>>
    <3> DEFINE g == recv(recv_loop)
    <3>1. Ready(g, U)
      BY LoopReceives
    <3> HIDE DEF g
    <3>2. ex' = Then(<<g>>)
      BY <2>3, <2>9 DEF g
    <3> QED
      BY <1>1, <1>2, <1>3, <1>4, <2>6, <2>7, <3>1, <3>2, DispatchSent
  <2> QED
    BY <2>8, <2>9
<1> QED
  BY <1>5, <1>6

\* async_send() completed.
LEMMA RequestSent ==
  ASSUME Inv, Sent, StartSent \/ PublishSent \/ SubscribeSent \/ UnsubscribeSent \/ DisconnectSent \/ AuthSent
  PROVE  Sent'
<1>1. RequestAt("sent") /\ (NoAnswer \/ \E hs : (hs = <<>> \/ hs = <<recv(recv_loop)>>) /\ Await(hs))
  BY DEF StartSent, PublishSent, SubscribeSent, UnsubscribeSent, DisconnectSent, AuthSent, RequestOf
<1>2. CASE NoAnswer
  <2>1. PICK U : SentWith(U)
    BY DEF Sent
  <2>2. UNCHANGED <<setup, strm, net, ep, cl>> /\ Complete(self.i, self.ec, <<>>)
    BY <1>2 DEF NoAnswer
  <2>3. Ready(self, U) /\ self.fn = "request" /\ self.state = "sent" /\ ~ Waiting
    BY <1>1, <2>1, SelfReady DEF RequestAt
  <2>4. self.ec = "ok" => self.i \notin U
    BY <2>3 DEF Ready, RequestReady
  <2>5. ClientSent(U)'
    BY <2>1, <2>2, MembersSame DEF SentWith
  <2> QED
    BY <2>1, <2>2, <2>3, <2>4, <2>5, CompletesSent
<1> QED
  BY <1>1, <1>2, AwaitSent

\* The timer of a request was cancelled: with an entry of its own it was sent, and
\* without one it does not succeed.
LEMMA AnsweredSent ==
  ASSUME Inv, Sent, StartAnswered \/ PublishAnswered \/ SubscribeAnswered \/ UnsubscribeAnswered
  PROVE  Sent'
<1>1. PICK U : SentWith(U)
  BY DEF Sent
<1>2. Running("request") /\ Finish
  BY DEF StartAnswered, PublishAnswered, SubscribeAnswered, UnsubscribeAnswered, RequestOf, RequestAt
<1>3. ~ Waiting /\ UNCHANGED <<setup, strm, net, ep>> /\ ClientSent(U)
  BY <1>1, <1>2 DEF Running, Waiting, Finish, SentWith
<1> DEFINE mine == {id \in DOMAIN cl.col : cl.col[id].i = self.i}
<1>4. CASE mine = {}
  <2>1. Complete(self.i, "aborted", <<>>) /\ cl' = cl
    BY <1>2, <1>4 DEF Finish
  <2>2. ClientSent(U)'
    BY <1>3, <2>1, MembersSame
  <2>3. \A i : "aborted" = "ok" => i \notin U
    OBVIOUS
  <2> QED
    BY <1>1, <1>3, <2>1, <2>2, <2>3, CompletesSent
<1>5. CASE mine # {}
  <2>1. PICK id \in mine : /\ Complete(self.i, Verdict(Kind(self.i), cl.col[id].found), <<>>)
                           /\ cl' = [cl EXCEPT !.col = [x \in DOMAIN @ \ {id} |-> @[x]]]
    BY <1>2, <1>5, Zenon DEF Finish
  <2>2. self.i \notin U
    BY <1>3, <2>1 DEF ClientSent
  <2>3. cl'.col = [x \in DOMAIN cl.col \ {id} |-> cl.col[x]] /\ cl'.waiter = cl.waiter
    BY <2>1, ClTyped, Zenon DEF ClHeld
  <2>4. \A x \in DOMAIN cl'.col : x \in DOMAIN cl.col /\ cl'.col[x] = cl.col[x]
    BY <2>3
  <2>5. ClientSent(U)'
    BY <1>3, <2>3, <2>4, Zenon DEF ClientSent
  <2> HIDE DEF mine
  <2>6. \E ec : Complete(self.i, ec, <<>>)
    BY <2>1
  <2> QED
    BY <1>1, <1>3, <2>2, <2>5, <2>6, CompletesSent
<1> QED
  BY <1>4, <1>5

\* A receive of the application goes on or ends; it sends nothing.
LEMMA ClientRecvSent ==
  ASSUME Inv, Sent, ClientRecv \/ ClientRecvNotified
  PROVE  Sent'
<1>1. PICK U : SentWith(U)
  BY DEF Sent
<1>2. Ready(self, U) /\ self.fn = "client_recv" /\ ~ Waiting
  BY <1>1, SelfReady DEF ClientRecv, ClientRecvNotified
<1>3. self.i \notin U
  BY <1>2 DEF Ready
<1>4. UNCHANGED <<setup, strm, net, ep>> /\ ClientSent(U)
  BY <1>1 DEF ClientRecv, ClientRecvNotified, SentWith
<1>5. \/ \E n : cl' = [cl EXCEPT !.inserted = n, !.waiter = <<self>>] /\ ex' = Then(<<>>) /\ app' = app
      \/ (\E ec : Complete(self.i, ec, <<>>)) /\ (cl' = cl \/ \E q : cl' = [cl EXCEPT !.recvq = q])
  BY Zenon DEF ClientRecv, ClientRecvNotified
<1>6. ASSUME NEW n, cl' = [cl EXCEPT !.inserted = n, !.waiter = <<self>>], ex' = Then(<<>>), app' = app
      PROVE  Sent'
  <2>1. cl'.col = cl.col /\ cl'.waiter = <<self>>
    BY <1>6, ClTyped, Zenon DEF ClHeld
  <2>2. \A j \in DOMAIN cl'.waiter : cl'.waiter[j] = self
    BY <2>1
  <2>3. ClientSent(U)'
    BY <1>2, <1>4, <2>1, <2>2, Zenon DEF ClientSent, Awaits
  <2>4. EndpointSent(U)' /\ AppSent(U)'
    BY <1>1, <1>4, <1>6, MembersSame DEF SentWith
  <2> QED
    BY <1>1, <1>2, <1>4, <1>6, <2>3, <2>4, EndSent
<1>7. ASSUME NEW ec, Complete(self.i, ec, <<>>), cl' = cl \/ \E q : cl' = [cl EXCEPT !.recvq = q]
      PROVE  Sent'
  <2>1. cl'.col = cl.col /\ cl'.waiter = cl.waiter
    BY <1>7, ClTyped, Zenon DEF ClHeld
  <2>2. ClientSent(U)'
    BY <1>4, <2>1, MembersSame
  <2> QED
    BY <1>1, <1>2, <1>3, <1>4, <1>7, <2>2, CompletesSent
<1> QED
  BY <1>5, <1>6, <1>7, Zenon

\* A request that is told to look for its answer.
LEMMA AnsweredReady ==
  ASSUME NEW U, NEW i
  PROVE  Ready(request(i, "answered", 0), U)
<1> DEFINE r == request(i, "answered", 0)
<1>1. IsRequest(r) /\ r.state = "answered"
  BY DEF IsRequest, request
<1> HIDE DEF r
<1> QED
  BY <1>1, RequestIsReady DEF r

\* The waiter that is notified.
LEMMA NotifiesReady ==
  ASSUME Inv, NEW U, ClientSent(U)
  PROVE  \E N : (\A g \in N : Ready(g, U)) /\ Notifies(cl) \in Seq(N)
<1>1. PICK H : cl.waiter \in Seq(H)
  BY ClTyped DEF ClHeld
<1> DEFINE N == {Resume(cl.waiter[j], "aborted") : j \in DOMAIN cl.waiter}
<1>2. \A g \in N : Ready(g, U)
  <2>1. ASSUME NEW j \in DOMAIN cl.waiter
        PROVE  Ready(Resume(cl.waiter[j], "aborted"), U)
    <3>1. Ready(cl.waiter[j], U) /\ cl.waiter[j].fn = "client_recv"
      BY DEF ClientSent, Awaits
    <3> QED
      BY <3>1, ReadyVariant DEF Resume
  <2> QED
    BY <2>1, Zenon
<1>3. DOMAIN cl.waiter = 1 .. Len(cl.waiter) /\ Len(cl.waiter) \in Nat
  BY <1>1
<1>4. Notifies(cl) \in [DOMAIN cl.waiter -> N]
  BY Zenon DEF Notifies
<1> HIDE DEF N
<1>5. Notifies(cl) \in Seq(N)
  BY <1>3, <1>4
<1> QED
  BY <1>2, <1>5, Zenon

\* recv_loop() dispatches and posts, and the entries keep their requests.
LEMMA LoopTurn ==
  ASSUME Inv, NEW U, SentWith(U), ~ Waiting, NEW N, \A g \in N : Ready(g, U), NEW ps \in Seq(N), NEW hs,
         hs = <<>> \/ hs = <<recv(recv_loop)>>, ex' = ThenPost(hs, ps) \/ ex' = Then(hs),
         UNCHANGED <<setup, strm, net, ep, app>>, ClientSent(U)'
  PROVE  Sent'
<1> DEFINE r == recv(recv_loop)
           M == N \cup {r}
<1>1. Ready(r, U)
  BY LoopReceives
<1>2. hs = <<>> \/ hs = <<r>>
  OBVIOUS
<1> HIDE DEF r
<1>3. \A g \in M : Ready(g, U)
  BY <1>1
<1>4. N \subseteq M /\ r \in M
  OBVIOUS
<1> HIDE DEF M
<1>5. hs \in Seq(M) /\ ps \in Seq(M)
  <2>1. <<>> \in Seq(M) /\ <<r>> \in Seq(M)
    BY <1>4
  <2>2. hs \in Seq(M)
    BY <1>2, <2>1, Zenon
  <2>3. ps \in Seq(M)
    BY <1>4
  <2> QED
    BY <2>2, <2>3
<1>6. StreamSent(U)' /\ EndpointSent(U)' /\ AppSent(U)' /\ "got" \in DOMAIN net' /\ net'.got = net.got
  BY MembersSame DEF SentWith
<1> QED
  BY <1>3, <1>5, <1>6, TurnSent

\* The members of the client when the loop inserts a result and cancels the timer.
LEMMA InsertedClient ==
  ASSUME Inv, NEW U, ClientSent(U), NEW ec
  PROVE  /\ cl' = Inserted(cl, ec) => ClientSent(U)'
         /\ cl' = [Inserted(cl, ec) EXCEPT !.col = <<>>, !.loop = FALSE] => ClientSent(U)'
<1>1. DOMAIN <<>> = {}
  OBVIOUS
<1>2. {"waiter", "col"} \subseteq DOMAIN cl
  BY ClTyped, Zenon DEF ClHeld
<1> DEFINE c == Inserted(cl, ec)
<1>3. DOMAIN c = DOMAIN cl /\ c.waiter = <<>> /\ c.col = cl.col
  BY <1>2, Zenon DEF Inserted
<1> HIDE DEF c
<1>4. cl' = c => ClientSent(U)'
  BY <1>1, <1>3, Zenon DEF ClientSent
<1>5. cl' = [c EXCEPT !.col = <<>>, !.loop = FALSE] => cl'.waiter = <<>> /\ cl'.col = <<>>
  BY <1>2, <1>3, Zenon
<1>6. cl' = [c EXCEPT !.col = <<>>, !.loop = FALSE] => ClientSent(U)'
  BY <1>1, <1>5, Zenon DEF ClientSent
<1> QED
  BY <1>4, <1>6 DEF c

\* recv_loop() receives a packet, and goes on.
LEMMA LoopSent ==
  ASSUME Inv, Sent, RecvLoopAnswer \/ RecvLoopQueued \/ RecvLoopIgnored
  PROVE  Sent'
<1>1. PICK U : SentWith(U)
  BY DEF Sent
<1>2. ~ Waiting /\ UNCHANGED <<setup, strm, net, ep, app>> /\ ClientSent(U)
  BY <1>1 DEF RecvLoopAnswer, RecvLoopQueued, RecvLoopIgnored, Running, Waiting, SentWith
<1> DEFINE hs == <<recv(recv_loop)>>
<1>3. <<>> \in Seq({}) /\ \A g \in {} : Ready(g, U)
  OBVIOUS
<1>4. CASE RecvLoopAnswer
  <2> DEFINE key == KeyOf(self.pkt)
  <2>1. \/ \E m : cl' = [cl EXCEPT !.missed = m]
        \/ \E v, m : key \in DOMAIN cl.col /\ cl' = [cl EXCEPT !.col[key].found = v, !.missed = m]
    BY <1>4, Zenon DEF RecvLoopAnswer
  <2>2. \/ ex' = ThenPost(hs, <<>>) \/ ex' = Then(hs)
        \/ \E i : ex' = ThenPost(hs, <<request(i, "answered", 0)>>)
    BY <1>4 DEF RecvLoopAnswer
  <2> HIDE DEF key
  <2>3. ASSUME NEW v, NEW m, cl' = [cl EXCEPT !.col[key].found = v, !.missed = m]
        PROVE  ClientSent(U)'
    <3> DEFINE c == [cl.col EXCEPT ![key].found = v]
    <3>1. DOMAIN c = DOMAIN cl.col
      OBVIOUS
    <3>2. \A x \in DOMAIN c : "i" \in DOMAIN cl.col[x] => "i" \in DOMAIN c[x] /\ c[x].i = cl.col[x].i
      OBVIOUS
    <3>3. cl' = [cl EXCEPT !.col = c, !.missed = m]
      BY <2>3
    <3> HIDE DEF c
    <3>4. cl'.col = c /\ cl'.waiter = cl.waiter
      BY <3>3, ClTyped, Zenon DEF ClHeld
    <3> QED
      BY <1>2, <3>1, <3>2, <3>4, Zenon DEF ClientSent
  <2>4. ClientSent(U)'
    <3>1. ASSUME NEW m, cl' = [cl EXCEPT !.missed = m]
          PROVE  ClientSent(U)'
      <4>1. cl'.col = cl.col /\ cl'.waiter = cl.waiter
        BY <3>1, ClTyped, Zenon DEF ClHeld
      <4> QED
        BY <1>2, <4>1, MembersSame
    <3> QED
      BY <2>1, <2>3, <3>1, Zenon
  <2>5. ASSUME NEW i, ex' = ThenPost(hs, <<request(i, "answered", 0)>>)
        PROVE  Sent'
    <3> DEFINE q == request(i, "answered", 0)
    <3>1. Ready(q, U)
      BY AnsweredReady
    <3> HIDE DEF q
    <3>2. (\A g \in {q} : Ready(g, U)) /\ <<q>> \in Seq({q}) /\ ex' = ThenPost(hs, <<q>>)
      BY <2>5, <3>1 DEF q
    <3> QED
      BY <1>1, <1>2, <2>4, <3>2, LoopTurn, Zenon
  <2> QED
    BY <1>1, <1>2, <1>3, <2>2, <2>4, <2>5, LoopTurn, Zenon
<1>5. CASE RecvLoopQueued
  <2>1. ex' = ThenPost(hs, Notifies(cl)) /\ cl' = Inserted(cl, "ok")
    BY <1>5 DEF RecvLoopQueued
  <2>2. PICK N : (\A g \in N : Ready(g, U)) /\ Notifies(cl) \in Seq(N)
    BY <1>2, NotifiesReady
  <2>3. ClientSent(U)'
    BY <1>2, <2>1, InsertedClient, Zenon
  <2> QED
    BY <1>1, <1>2, <2>1, <2>2, <2>3, LoopTurn
<1>6. CASE RecvLoopIgnored
  <2>1. ex' = Then(hs) /\ cl' = cl
    BY <1>6 DEF RecvLoopIgnored
  <2>2. ClientSent(U)'
    BY <1>2, <2>1, MembersSame
  <2> QED
    BY <1>1, <1>2, <1>3, <2>1, <2>2, LoopTurn, Zenon
<1> QED
  BY <1>4, <1>5, <1>6

\* The handler that a call begins with; U holds only calls that send.
LEMMA EntryReady ==
  ASSUME NEW U, NEW i, Kind(i) \in CallKinds \ Immediate, Kind(i) \notin SendKinds => i \notin U
  PROVE  Ready(Entry(i), U)
<1> DEFINE d == request(i, "done", 0)
           a == request(i, "acquired", 0)
<1>1. CASE NeedsId(i)
  <2>1. Entry(i) = acquire(a)
    BY <1>1 DEF Entry, NeedsId, async_acquire_unique_packet_id_wait_until
  <2>2. IsRequest(a) /\ a.state = "acquired"
    BY DEF IsRequest, request
  <2> HIDE DEF a
  <2>3. Ready(acquire(a), U)
    BY <2>2 DEF acquire, Ready
  <2> QED
    BY <2>1, <2>3
<1>2. CASE ~ NeedsId(i) /\ Kind(i) \in {"start", "publish", "disconnect", "auth"}
  <2>1. Entry(i) = begin(i, 0, Constructed(i))
    BY <1>2 DEF Entry, NeedsId, async_start, async_publish, async_disconnect, async_auth, start_op, publish_op,
                disconnect_op, auth_op
  <2>2. Kind(i) \in SendKinds
    BY <1>2 DEF SendKinds
  <2> QED
    BY <2>1, <2>2, BeginReady
<1>3. CASE Kind(i) = "recv"
  <2>1. Entry(i) = async_recv(i) /\ i \notin U
    BY <1>3 DEF Entry, NeedsId, SendKinds
  <2>2. Ready(async_recv(i), U)
    BY <2>1 DEF Ready, async_recv, ContFns
  <2> QED
    BY <2>1, <2>2
<1>4. Kind(i) \notin SendKinds => DoneCont(d, U)
  BY DEF DoneCont, IsRequest, request
<1>5. CASE Kind(i) = "handshake"
  <2> DEFINE h == [fn |-> "handshaken", k |-> d, ec |-> "ok"]
  <2>1. Entry(i) = handshake(h)
    BY <1>5 DEF Entry, NeedsId, async_underlying_handshake, underlying_handshake
  <2>2. DoneCont(d, U)
    BY <1>4, <1>5 DEF SendKinds
  <2> HIDE DEF d
  <2>3. h.fn = "handshaken" /\ "fn" \in DOMAIN h /\ DoneCont(h.k, U)
    BY <2>2
  <2> HIDE DEF h
  <2>4. Ready(handshake(h), U)
    BY <2>3 DEF handshake, Ready
  <2> QED
    BY <2>1, <2>4
<1>6. CASE Kind(i) \in {"close", "acquire", "register", "release", "get_stored", "restore"}
  <2>1. \/ Entry(i) = close(d) \/ Entry(i) = acquire_now(d) \/ Entry(i) = get_stored(d)
        \/ \E id : Entry(i) = register(d, id) \/ Entry(i) = release(d, id)
        \/ \E pvs : Entry(i) = restore(d, pvs)
    BY <1>6, Zenon DEF Entry, NeedsId, async_close, async_acquire_unique_packet_id, async_register_packet_id,
                async_release_packet_id, async_get_stored_packets, async_restore_packets
  <2>2. DoneCont(d, U)
    BY <1>4, <1>6 DEF SendKinds
  <2> HIDE DEF d
  <2>3. CloseCont(d, U)
    BY <2>2 DEF CloseCont
  <2>4. Ready(close(d), U)
    BY <2>3, CloseIsReady DEF Awaits
  <2>5. Ready(acquire_now(d), U) /\ Ready(get_stored(d), U)
    BY <2>2, Zenon DEF Ready, acquire_now, get_stored
  <2>6. \A id : Ready(register(d, id), U) /\ Ready(release(d, id), U)
    BY <2>2, Zenon DEF Ready, register, release
  <2>7. \A pvs : Ready(restore(d, pvs), U)
    BY <2>2, Zenon DEF Ready, restore
  <2> QED
    BY <2>1, <2>4, <2>5, <2>6, <2>7, Zenon
<1>7. Kind(i) \in {"subscribe", "unsubscribe"} => NeedsId(i)
  BY DEF NeedsId
<1> QED
  BY <1>1, <1>2, <1>3, <1>5, <1>6, <1>7 DEF CallKinds, Immediate

\* A call that sends nothing may succeed.
LEMMA OthersMaySucceed ==
  ASSUME NEW U, SentWith(U), NEW i, Kind(i) \notin SendKinds
  PROVE  i \notin U
BY DEF SentWith, Unsent

\* The application makes a call.
LEMMA CallSent ==
  ASSUME Inv, Sent, Call
  PROVE  Sent'
<1>1. PICK U : SentWith(U)
  BY DEF Sent
<1>2. /\ Waiting /\ UNCHANGED <<setup, strm, net, ep, cl>> /\ ex' = [ex EXCEPT !.now = <<Entry(NextCall)>>]
      /\ app' = [app EXCEPT !.next = NextCall, !.res[NextCall] = "pending"]
  BY DEF Call, MayCall
<1>3. setup \in Setups /\ AppHeld(app)
  BY DEF Inv, Typed, Held
<1>4. Kind(NextCall) \in CallKinds \ Immediate
  <2>1. setup.calls \in Seq([kind : CallKinds, arg : Int, after : SUBSET Nat])
    BY <1>3, SetupsAssumption, Zenon
  <2>2. NextCall \in DOMAIN setup.calls
    BY <1>3, <2>1 DEF Call, MayCall, NextCall, AppHeld
  <2>3. setup.calls[NextCall].kind \in CallKinds
    <3>1. setup.calls[NextCall] \in [kind : CallKinds, arg : Int, after : SUBSET Nat]
      BY <2>1, <2>2, Elements, Zenon
    <3> QED
      BY <3>1
  <2> QED
    BY <2>3 DEF Call, Kind
<1>5. Kind(NextCall) \notin SendKinds => NextCall \notin U
  BY <1>1, OthersMaySucceed
<1> DEFINE g == Entry(NextCall)
<1>6. Ready(g, U)
  BY <1>4, <1>5, EntryReady
<1>7. AppSent(U)'
  <2>1. AppSent(U)
    BY <1>1 DEF SentWith
  <2> DEFINE ec == "pending"
  <2>2. ec = "ok" => NextCall \notin U
    OBVIOUS
  <2>3. app' = [app EXCEPT !.next = NextCall, !.res[NextCall] = ec]
    BY <1>2
  <2> HIDE DEF ec
  <2> QED
    BY <1>2, <2>1, <2>2, <2>3, ResultNoted, Zenon
<1>8. /\ StreamSent(U)' /\ EndpointSent(U)' /\ ClientSent(U)' /\ "got" \in DOMAIN net' /\ net'.got = net.got
      /\ setup' = setup
  BY <1>1, <1>2, MembersSame DEF SentWith
<1>9. ex' = [ex EXCEPT !.now = <<g>>]
  BY <1>2
<1> HIDE DEF g
<1>10. <<g>> \in Seq({g}) /\ <<>> \in Seq({g}) /\ \A h \in {g} : Ready(h, U)
  BY <1>6
<1> QED
  BY <1>1, <1>2, <1>7, <1>8, <1>9, <1>10, TurnSent, Zenon

\* A call that has taken effect when it returns.
LEMMA NowSent ==
  ASSUME Inv, Sent, AcquireNow \/ RegisterNow \/ ReleaseNow \/ SetPingreqSendInterval
  PROVE  Sent'
<1>1. PICK U : SentWith(U)
  BY DEF Sent
<1>2. Waiting /\ UNCHANGED <<setup, ex, strm, net, cl>>
  BY DEF AcquireNow, RegisterNow, ReleaseNow, SetPingreqSendInterval, Calling, MayCall
<1>3. PICK H : EpHeld(ep, H)
  BY DEF Inv, Typed, Held
<1>4. NextCall \notin U
  <2>1. Kind(NextCall) \in {"acquire_now", "register_now", "release_now", "interval"}
    BY DEF AcquireNow, RegisterNow, ReleaseNow, SetPingreqSendInterval, Calling
  <2>2. Kind(NextCall) \notin SendKinds
    BY <2>1 DEF SendKinds
  <2> QED
    BY <1>1, <2>2, OthersMaySucceed
<1>5. AppSent(U)'
  <2>1. \E ec, id : app' = [app EXCEPT !.next = NextCall, !.res[NextCall] = ec, !.id[NextCall] = id]
    BY Zenon DEF AcquireNow, RegisterNow, ReleaseNow, SetPingreqSendInterval, Returns
  <2>2. AppSent(U)
    BY <1>1 DEF SentWith
  <2> QED
    BY <1>2, <1>4, <2>1, <2>2, ResultNoted, Zenon
<1>6. ep'.retry = ep.retry /\ ep'.closeq = ep.closeq /\ ep'.delayed = ep.delayed
  <2>1. ep' = ep \/ (\E d : ep' = [ep EXCEPT !.dropped = d]) \/ (\E ev : ep' = TimerOp(ep, ev))
    BY DEF AcquireNow, RegisterNow, ReleaseNow, SetPingreqSendInterval, PingreqSendInterval
  <2> QED
    BY <1>3, <2>1, Zenon DEF EpHeld, TimerOp
<1>7. /\ StreamSent(U)' /\ EndpointSent(U)' /\ ClientSent(U)' /\ "got" \in DOMAIN net' /\ net'.got = net.got
      /\ setup' = setup
  BY <1>1, <1>2, <1>6, MembersSame DEF SentWith
<1>8. <<>> \in Seq({}) /\ \A h \in {} : Ready(h, U)
  OBVIOUS
<1> QED
  BY <1>1, <1>2, <1>5, <1>7, <1>8, TurnSent, Zenon

\* A new process has nothing that runs or waits.
LEMMA NewSent ==
  ASSUME NEW U, ex = NewExecutor, strm = NewStream, cl = NewClient,
         ep = NewEndpoint \/ \E f : ep = [NewEndpoint EXCEPT !.fires = f]
  PROVE  Executing(U) /\ StreamSent(U) /\ EndpointSent(U) /\ ClientSent(U)
<1>1. DOMAIN <<>> = {}
  OBVIOUS
<1>2. ex.now = <<>> /\ ex.ready = <<>>
  BY DEF NewExecutor
<1>3. /\ strm.queue = <<>> /\ strm.flight = <<>> /\ strm.reading = <<>> /\ strm.closing = <<>>
      /\ strm.connecting = <<>>
  BY DEF NewStream
<1>4. cl.waiter = <<>> /\ cl.col = <<>>
  BY DEF NewClient
<1>5. ep.retry = <<>> /\ ep.closeq = <<>> /\ ep.delayed = <<>>
  BY DEF NewEndpoint
<1> QED
  BY <1>1, <1>2, <1>3, <1>4, <1>5, Zenon DEF Executing, StreamSent, EndpointSent, EpSent, ClientSent

\* The process ends, and another begins.
LEMMA EndsSent ==
  ASSUME Inv, Sent, ProcessEnds
  PROVE  Sent'
<1>1. PICK U : SentWith(U)
  BY DEF Sent
<1>2. /\ ex' = NewExecutor /\ strm' = NewStream /\ cl' = NewClient /\ setup' = setup
      /\ ep' = [NewEndpoint EXCEPT !.fires = ep.fires]
      /\ net' = [net EXCEPT !.link = FALSE, !.inbox = <<>>]
  BY DEF ProcessEnds
<1>3. "got" \in DOMAIN net' /\ net'.got = net.got
  BY <1>1, <1>2, Zenon DEF SentWith
<1>4. U = Unsent' /\ ~ setup'.bulk
  BY <1>1, <1>2, <1>3, UnsentSame DEF SentWith
<1>5. Executing(U)' /\ StreamSent(U)' /\ EndpointSent(U)' /\ ClientSent(U)'
  <2>1. DOMAIN <<>> = {}
    OBVIOUS
  <2>2. ex'.now = <<>> /\ ex'.ready = <<>>
    BY <1>2 DEF NewExecutor
  <2>3. /\ strm'.queue = <<>> /\ strm'.flight = <<>> /\ strm'.reading = <<>> /\ strm'.closing = <<>>
        /\ strm'.connecting = <<>>
    BY <1>2 DEF NewStream
  <2>4. cl'.waiter = <<>> /\ cl'.col = <<>>
    BY <1>2 DEF NewClient
  <2>5. ep'.retry = <<>> /\ ep'.closeq = <<>> /\ ep'.delayed = <<>>
    BY <1>2 DEF NewEndpoint
  <2> QED
    BY <2>1, <2>2, <2>3, <2>4, <2>5, Zenon DEF Executing, StreamSent, EndpointSent, EpSent, ClientSent
<1>6. AppSent(U)'
  <2>1. NextCall \notin U
    <3>1. Kind(NextCall) \notin SendKinds
      BY DEF ProcessEnds, Calling, SendKinds
    <3> QED
      BY <1>1, <3>1, OthersMaySucceed
  <2>2. AppSent(U)
    BY <1>1 DEF SentWith
  <2> DEFINE r == [i \in Calls |-> IF i = NextCall THEN "ok" ELSE IF app.res[i] = "pending" THEN "lost" ELSE app.res[i]]
             d == [i \in Calls |-> 0]
  <2>3. app' = [app EXCEPT !.next = NextCall, !.id = d, !.res = r]
    BY DEF ProcessEnds
  <2>4. DOMAIN r = Calls /\ \A i \in Calls : r[i] = "ok" => i = NextCall \/ app.res[i] = "ok"
    OBVIOUS
  <2> HIDE DEF r, d
  <2>5. app'.res = r /\ DOMAIN app' = DOMAIN app
    BY <2>2, <2>3, Zenon DEF AppSent
  <2>6. Calls' = Calls
    BY <1>2 DEF Calls
  <2> QED
    BY <2>1, <2>2, <2>4, <2>5, <2>6, Zenon DEF AppSent
<1> QED
  BY <1>3, <1>4, <1>5, <1>6, Zenon DEF Sent, SentWith
-----------------------------------------------------------------------------
(***************************************************************************)
(* Where the invariant begins and what it says.                            *)
(***************************************************************************)
\* Nothing was sent when the program begins, and nothing succeeded.
LEMMA InitSent ==
  ASSUME Init
  PROVE  ~ setup.bulk => Sent
<1> SUFFICES ASSUME ~ setup.bulk
             PROVE  Sent
  OBVIOUS
<1>1. ex = NewExecutor /\ strm = NewStream /\ cl = NewClient /\ ep = NewEndpoint /\ "got" \in DOMAIN net
  BY DEF Init, EndpointInit, StreamInit
<1> DEFINE U == Unsent
<1> HIDE DEF U
<1>2. Executing(U) /\ StreamSent(U) /\ EndpointSent(U) /\ ClientSent(U)
  BY <1>1, NewSent
<1>3. {"res", "id", "next", "saved"} \subseteq DOMAIN app /\ app.res = [i \in Calls |-> "none"]
  BY DEF Init, Calls
<1>4. AppSent(U)
  BY <1>3 DEF AppSent
<1> QED
  BY <1>1, <1>2, <1>4, Zenon DEF Sent, SentWith, U

\* The invariant is about the variables.
LEMMA StutterSent ==
  ASSUME Sent, UNCHANGED vars
  PROVE  Sent'
<1>1. PICK U : SentWith(U)
  BY DEF Sent
<1>2. UNCHANGED <<setup, ex, strm, net, ep, cl, app>>
  BY DEF vars
<1>3. StreamSent(U)' /\ EndpointSent(U)' /\ ClientSent(U)' /\ AppSent(U)' /\ "got" \in DOMAIN net' /\ ~ setup'.bulk
  BY <1>1, <1>2, MembersSame DEF SentWith
<1>4. Executing(U)'
  BY <1>1, <1>2, Zenon DEF SentWith, Executing
<1>5. U = Unsent'
  BY <1>1, <1>2, UnsentSame
<1> QED
  BY <1>3, <1>4, <1>5, Zenon DEF Sent, SentWith

\* No step changes the mode.
LEMMA ModeStays ==
  ASSUME [Next]_vars
  PROVE  setup' = setup
<1>1. StreamNext => setup' = setup
  <2>1. RunOne \/ Detached \/ async_write_packet \/ PollEmpty \/ PollWrite \/ Written \/ AsyncWriteDone => setup' = setup
    BY DEF RunOne, Detached, async_write_packet, PollEmpty, PollWrite, Written, AsyncWriteDone
  <2>2. async_read_some \/ AsyncReadDone \/ StreamClose \/ WsClosed \/ SslClosed \/ TcpClose => setup' = setup
    BY DEF async_read_some, AsyncReadDone, StreamClose, WsClosed, SslClosed, LayerClosed, TcpClose
  <2>3. AsyncHandshake \/ TcpConnected \/ SslHandshaken \/ WsHandshaken => setup' = setup
    BY DEF AsyncHandshake, TcpConnected, SslHandshaken, WsHandshaken, LayerUp
  <2> QED
    BY <2>1, <2>2, <2>3, Zenon DEF StreamNext
<1>2. EndpointNext => setup' = setup
  <2>1. AcquireWaitUntil \/ AcquireRetried \/ AcquireUnique \/ RegisterPacketId \/ GetStoredPackets => setup' = setup
    BY DEF AcquireWaitUntil, AcquireRetried, AcquireUnique, RegisterPacketId, GetStoredPackets
  <2>2. RestorePackets \/ ReleasePacketId \/ PingreqSendFired \/ PingrespRecvFired \/ CloseStart => setup' = setup
    BY DEF RestorePackets, ReleasePacketId, PingreqSendFired, PingrespRecvFired, CloseStart
  <2>3. CloseComplete \/ CloseNotifies \/ SendError \/ SendWrite \/ SendComplete \/ SendEvent => setup' = setup
    BY DEF CloseComplete, CloseNotifies, SendError, SendWrite, SendComplete, SendEvent
  <2>4. DelayExpires \/ RecvError \/ RecvCheckBuf \/ RecvReadIstream \/ RecvProcessed \/ RecvEvent => setup' = setup
    BY Zenon DEF DelayExpires, RecvError, RecvCheckBuf, RecvReadIstream, RecvProcessed, RecvEvent
  <2>5. RecvComplete \/ SendPublishFromQueue \/ QueueLoop \/ QueuePop \/ Handshaken => setup' = setup
    BY DEF RecvComplete, SendPublishFromQueue, QueueLoop, QueuePop, Handshaken
  <2>6. PeerAnswers \/ PeerSends => setup' = setup
    BY Zenon DEF PeerAnswers, PeerSends
  <2> QED
    BY <1>1, <2>1, <2>2, <2>3, <2>4, <2>5, <2>6, Zenon DEF EndpointNext
<1>3. Call \/ AcquireNow \/ RegisterNow \/ ReleaseNow \/ SetPingreqSendInterval \/ ProcessEnds => setup' = setup
  BY DEF Call, AcquireNow, RegisterNow, ReleaseNow, SetPingreqSendInterval, ProcessEnds
<1>4. Saved \/ RequestDone \/ RequestAcquired => setup' = setup
  BY DEF Saved, RequestDone, RequestAcquired
<1>5. /\ StartSent \/ PublishSent \/ SubscribeSent \/ UnsubscribeSent => setup' = setup
      /\ DisconnectSent \/ AuthSent => setup' = setup
  BY DEF StartSent, PublishSent, SubscribeSent, UnsubscribeSent, DisconnectSent, AuthSent, Await, NoAnswer
<1>6. StartAnswered \/ PublishAnswered \/ SubscribeAnswered \/ UnsubscribeAnswered => setup' = setup
  BY DEF StartAnswered, PublishAnswered, SubscribeAnswered, UnsubscribeAnswered, Finish
<1>7. /\ RecvLoopError \/ RecvLoopAnswer \/ RecvLoopQueued \/ RecvLoopIgnored => setup' = setup
      /\ ClientRecv \/ ClientRecvNotified => setup' = setup
  BY DEF RecvLoopError, RecvLoopAnswer, RecvLoopQueued, RecvLoopIgnored, ClientRecv, ClientRecvNotified
<1>8. LinkLost \/ TimerExpires \/ UNCHANGED vars => setup' = setup
  BY Zenon DEF LinkLost, TimerExpires, vars
<1> QED
  BY <1>2, <1>3, <1>4, <1>5, <1>6, <1>7, <1>8, Zenon DEF Next, Progress

\* What the invariant says of the results.
LEMMA SentSucceeds ==
  ASSUME Sent
  PROVE  SuccessWasSent
<1>1. PICK U : SentWith(U)
  BY DEF Sent
<1>2. DOMAIN app.res = Calls /\ \A i \in Calls : app.res[i] = "ok" => i \notin Unsent
  BY <1>1, Zenon DEF SentWith, AppSent
<1> QED
  BY <1>2, Zenon DEF Unsent, SuccessWasSent, SendKinds

\* A request that waits for its answer in pid_tim_pv_res_col_ was sent.
AwaitedWereSent ==
  \A id \in DOMAIN cl.col : \A i \in Calls :
    cl.col[id].i = i /\ Kind(i) \in SendKinds => i \in net.got

\* The invariant says so of each entry.
LEMMA SentAwaited ==
  ASSUME Sent
  PROVE  AwaitedWereSent
<1>1. PICK U : SentWith(U)
  BY DEF Sent
<1>2. \A id \in DOMAIN cl.col : cl.col[id].i \notin Unsent
  BY <1>1, Zenon DEF SentWith, ClientSent
<1> QED
  BY <1>2, Zenon DEF Unsent, AwaitedWereSent
=============================================================================
