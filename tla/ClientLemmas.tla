---------------------------- MODULE ClientLemmas ----------------------------
(***************************************************************************)
(* Lemmas for ClientProofs: the handlers that operations dispatch and      *)
(* post, and the steps of the stream and the endpoint, keep the invariant  *)
(* of the write queue.                                                     *)
(***************************************************************************)
EXTENDS ClientInvariant, TLAPS
-----------------------------------------------------------------------------
(***************************************************************************)
(* The handlers.                                                           *)
(***************************************************************************)
\* A field that says neither what a handler is nor how it goes on can be set.
LEMMA FitsVariant ==
  ASSUME NEW H, NEW h, NEW f, NEW v, Fits(h, H), f \notin {"fn", "k"}, h.fn = "request" => f \notin {"state", "i"}
  PROVE  Fits([h EXCEPT ![f] = v], H) /\ [h EXCEPT ![f] = v].fn = h.fn
<1> DEFINE g == [h EXCEPT ![f] = v]
<1>1. DOMAIN g = DOMAIN h
  OBVIOUS
<1>2. \A x \in DOMAIN h : x # f => g[x] = h[x]
  OBVIOUS
<1>3. g.fn = h.fn /\ ("k" \in DOMAIN h => g.k = h.k)
  BY <1>2 DEF Fits
<1>4. h.fn = "request" => g.state = h.state /\ g.i = h.i
  BY <1>2 DEF Fits
<1> HIDE DEF g
<1>5. Fits(g, H)
  BY <1>1, <1>3, <1>4 DEF Fits
<1> QED
  BY <1>3, <1>5 DEF g

\* Handlers that fit can be added.
LEMMA AddHandlers ==
  ASSUME NEW H, Closed(H), NEW N, \A g \in N : Fits(g, H)
  PROVE  Closed(H \cup N) /\ \A x : Fits(x, H) => Fits(x, H \cup N)
<1>1. \A x : Fits(x, H) => Fits(x, H \cup N)
  BY DEF Fits
<1> QED
  BY <1>1 DEF Closed

\* More handlers do no harm to the members of the endpoint and the client,
LEMMA MembersGrow ==
  ASSUME NEW H, NEW H2, H \subseteq H2
  PROVE  /\ \A e : EpHeld(e, H) => EpHeld(e, H2)
         /\ \A c : ClHeld(c, H) => ClHeld(c, H2)
<1>1. [h : H, cancelled : BOOLEAN] \subseteq [h : H2, cancelled : BOOLEAN]
  OBVIOUS
<1>2. Seq([h : H, cancelled : BOOLEAN]) \subseteq Seq([h : H2, cancelled : BOOLEAN]) /\ Seq(H) \subseteq Seq(H2)
  <2>1. \A S, T : S \subseteq T => Seq(S) \subseteq Seq(T)
    OBVIOUS
  <2> QED
    BY <1>1, <2>1, Zenon
<1> QED
  BY <1>2, Zenon DEF EpHeld, ClHeld

\* and of the stream,
LEMMA StreamGrows ==
  ASSUME NEW H, NEW A, NEW H2, NEW A2, H \subseteq H2, A \subseteq A2
  PROVE  StreamType(H, A) \subseteq StreamType(H2, A2)
<1> DEFINE W == Writes(H, A) W2 == Writes(H2, A2) P == WirePackets(A) P2 == WirePackets(A2)
           F == [w : W, bufs : Seq(P)] F2 == [w : W2, bufs : Seq(P2)] C == [k : H, at : Int] C2 == [k : H2, at : Int]
<1>1. P \subseteq P2
  BY DEF WirePackets
<1>2. W \subseteq W2
  BY <1>1 DEF Writes
<1>3. Seq(P) \subseteq Seq(P2)
  BY <1>1
<1>4. F \subseteq F2
  BY <1>2, <1>3
<1>5. C \subseteq C2
  OBVIOUS
<1>6. Seq(W) \subseteq Seq(W2) /\ Seq(F) \subseteq Seq(F2) /\ Seq(C) \subseteq Seq(C2) /\ Seq(H) \subseteq Seq(H2)
  <2> HIDE DEF W, W2, P, P2, F, F2, C, C2
  <2> QED
    BY <1>2, <1>4, <1>5
<1> SUFFICES ASSUME NEW s \in [open : BOOLEAN, working : BOOLEAN, queue : Seq(W), storing : Seq(P), sending : Seq(P),
                               flight : Seq(F), reading : Seq(H), closing : Seq(H), connecting : Seq(C), issued : Nat]
             PROVE  s \in [open : BOOLEAN, working : BOOLEAN, queue : Seq(W2), storing : Seq(P2), sending : Seq(P2),
                           flight : Seq(F2), reading : Seq(H2), closing : Seq(H2), connecting : Seq(C2), issued : Nat]
  BY Zenon DEF StreamType
<1> HIDE DEF W, W2, P, P2, F, F2, C, C2
<1> QED
  BY <1>3, <1>6

\* hence to the state.
LEMMA HeldGrows ==
  ASSUME NEW H, NEW A, NEW H2, NEW A2, H \subseteq H2, A \subseteq A2, Held(H, A)
  PROVE  Held(H2, A2)
<1>1. WirePackets(A) \subseteq WirePackets(A2)
  BY DEF WirePackets
<1>2. Writes(H, A) \subseteq Writes(H2, A2)
  BY <1>1 DEF Writes
<1>3. Handlers(H, A) \subseteq Handlers(H2, A2)
  BY <1>2 DEF Handlers, WriteSteps
<1>4. ex \in ExType(H2, A2)
  BY <1>3 DEF Held, ExType
<1>5. NetHeld(net, A2)
  BY <1>1 DEF Held, NetHeld
<1> QED
  BY <1>4, <1>5, MembersGrow, StreamGrows, Zenon DEF Held
-----------------------------------------------------------------------------
(***************************************************************************)
(* A turn of the executor in which no step of the write queue takes part:  *)
(* the handler that runs, if one does, dispatches hs and ps are posted.    *)
(***************************************************************************)
Turn(H) ==
  \E hs, ps \in Seq(H) :
    \/ Waiting /\ ex' = [now |-> hs, ready |-> ex.ready \o ps]
    \/ ~ Waiting /\ ~ WriteStep(self) /\ ex' = [now |-> hs \o Tail(ex.now), ready |-> ex.ready \o ps]

\* The elements of a sequence.
LEMMA SeqElement ==
  ASSUME NEW S, NEW s \in Seq(S)
  PROVE  /\ \A i \in DOMAIN s : s[i] \in S
         /\ s # <<>> => /\ 1 \in DOMAIN s /\ Head(s) = s[1] /\ Head(s) \in S /\ Tail(s) \in Seq(S)
                        /\ Len(Tail(s)) = Len(s) - 1 /\ \A i \in DOMAIN Tail(s) : i + 1 \in DOMAIN s /\ Tail(s)[i] = s[i + 1]
OBVIOUS

\* The elements of a concatenation.
LEMMA ConcatElements ==
  ASSUME NEW S, NEW T, NEW s \in Seq(S), NEW t \in Seq(T)
  PROVE  /\ s \o t \in Seq(S \cup T) /\ Len(s \o t) = Len(s) + Len(t)
         /\ \A i \in DOMAIN (s \o t) : \/ i \in DOMAIN s /\ (s \o t)[i] = s[i]
                                       \/ i - Len(s) \in DOMAIN t /\ (s \o t)[i] = t[i - Len(s)]
<1>1. s \in Seq(S \cup T) /\ t \in Seq(S \cup T)
  OBVIOUS
<1>2. s \o t \in Seq(S \cup T) /\ Len(s \o t) = Len(s) + Len(t) /\ Len(s) \in Nat /\ Len(t) \in Nat
  BY <1>1
<1>3. ASSUME NEW i \in DOMAIN (s \o t)
      PROVE  \/ i \in DOMAIN s /\ (s \o t)[i] = s[i]
             \/ i - Len(s) \in DOMAIN t /\ (s \o t)[i] = t[i - Len(s)]
  <2>1. i \in 1 .. (Len(s) + Len(t))
    BY <1>2
  <2>2. (s \o t)[i] = IF i <= Len(s) THEN s[i] ELSE t[i - Len(s)]
    BY <1>1, <2>1
  <2>3. (i <= Len(s) /\ i \in DOMAIN s) \/ (~ i <= Len(s) /\ i - Len(s) \in DOMAIN t)
    BY <1>2, <2>1
  <2> QED
    BY <2>2, <2>3, Zenon
<1> QED
  BY <1>2, <1>3, Zenon

\* The handler that runs is one of H, unless it is a step of the write queue.
LEMMA SelfHeld ==
  ASSUME NEW H, NEW A, Closed(H), Held(H, A), NEW fn, Running(fn), fn \notin {"poll_one", "written"}
  PROVE  /\ self \in H /\ Fits(self, H) /\ self.fn = fn
         /\ ~ Waiting /\ ~ WriteStep(self)
         /\ fn \in ContFns => self.k \in H /\ Fits(self.k, H)
<1>1. ex.now \in Seq(Handlers(H, A)) /\ ex.now # <<>> /\ self.fn = fn
  BY DEF Held, ExType, Running
<1>2. self \in Handlers(H, A)
  BY <1>1 DEF self
<1>3. self \in H
  BY <1>1, <1>2 DEF Handlers, WriteSteps, poll_one
<1> QED
  BY <1>1, <1>3 DEF Closed, Fits, Waiting, WriteStep

\* What ThenPost, Then and Posted make is a turn.
LEMMA TurnForms ==
  ASSUME NEW H, NEW A, Held(H, A), NEW hs \in Seq(H), NEW ps \in Seq(H),
         \/ ~ Waiting /\ ~ WriteStep(self) /\ (ex' = ThenPost(hs, ps) \/ ex' = Then(hs))
         \/ Waiting /\ (ex' = Posted(ps) \/ ex' = [ex EXCEPT !.now = hs] \/ ex' = ex)
  PROVE  Turn(H)
<1> DEFINE E == Handlers(H, A)
<1>1. ex \in [now : Seq(E), ready : Seq(E)]
  BY DEF Held, ExType
<1>2. ex = [now |-> ex.now, ready |-> ex.ready]
  BY <1>1
<1>3. ex.now \in Seq(E) /\ ex.ready \in Seq(E) /\ ex.ready \o <<>> = ex.ready /\ <<>> \in Seq(H)
  BY <1>1
<1> HIDE DEF E
<1>4. CASE ~ Waiting /\ ~ WriteStep(self) /\ ex' = ThenPost(hs, ps)
  BY <1>4, Zenon DEF Turn, ThenPost
<1>5. CASE ~ Waiting /\ ~ WriteStep(self) /\ ex' = Then(hs)
  <2>1. ex' = [now |-> hs \o Tail(ex.now), ready |-> ex.ready \o <<>>]
    BY <1>2, <1>3, <1>5, Zenon DEF Then
  <2> QED
    BY <1>3, <1>5, <2>1, Zenon DEF Turn
<1>6. CASE Waiting /\ ex' = Posted(ps)
  <2>1. ex' = [now |-> <<>>, ready |-> ex.ready \o ps]
    BY <1>2, <1>6, Zenon DEF Posted, Waiting
  <2> QED
    BY <1>3, <1>6, <2>1, Zenon DEF Turn
<1>7. CASE Waiting /\ ex' = [ex EXCEPT !.now = hs]
  <2>1. ex' = [now |-> hs, ready |-> ex.ready \o <<>>]
    BY <1>2, <1>3, <1>7
  <2> QED
    BY <1>3, <1>7, <2>1, Zenon DEF Turn
<1>8. CASE Waiting /\ ex' = ex
  <2>1. ex' = [now |-> <<>>, ready |-> ex.ready \o <<>>]
    BY <1>2, <1>3, <1>8 DEF Waiting
  <2> QED
    BY <1>3, <1>8, <2>1, Zenon DEF Turn
<1> QED
  BY <1>4, <1>5, <1>6, <1>7, <1>8

\* A turn leaves the executor with handlers of H.
LEMMA TurnHeld ==
  ASSUME NEW H, NEW A, Held(H, A), Turn(H)
  PROVE  ex' \in ExType(H, A)
<1> DEFINE E == Handlers(H, A)
<1>1. ex.now \in Seq(E) /\ ex.ready \in Seq(E)
  BY DEF Held, ExType
<1>2. H \subseteq E
  BY DEF Handlers
<1> HIDE DEF E
<1>3. PICK hs \in Seq(H), ps \in Seq(H) :
        \/ Waiting /\ ex' = [now |-> hs, ready |-> ex.ready \o ps]
        \/ ~ Waiting /\ ~ WriteStep(self) /\ ex' = [now |-> hs \o Tail(ex.now), ready |-> ex.ready \o ps]
  BY Zenon DEF Turn
<1>4. hs \in Seq(E) /\ ps \in Seq(E)
  BY <1>2
<1>5. ~ Waiting => Tail(ex.now) \in Seq(E)
  BY <1>1 DEF Waiting
<1>6. ex' \in [now : Seq(E), ready : Seq(E)]
  <2>1. ex.ready \o ps \in Seq(E)
    BY <1>1, <1>4
  <2>2. CASE Waiting
    <3>1. ex' = [now |-> hs, ready |-> ex.ready \o ps]
      BY <1>3, <2>2
    <3> QED
      BY <1>4, <2>1, <3>1, Zenon
  <2>3. CASE ~ Waiting
    <3>1. hs \o Tail(ex.now) \in Seq(E)
      BY <1>4, <1>5, <2>3
    <3>2. ex' = [now |-> hs \o Tail(ex.now), ready |-> ex.ready \o ps]
      BY <1>3, <2>3
    <3> QED
      BY <2>1, <3>1, <3>2, Zenon
  <2> QED
    BY <2>2, <2>3
<1> QED
  BY <1>6 DEF ExType, E

\* Members of stream_impl that a turn does not touch.
SameWriting ==
  /\ strm'.queue = strm.queue /\ strm'.working = strm.working /\ strm'.flight = strm.flight
  /\ strm.open => strm'.open

\* It adds no step of the write queue.
LEMMA TurnOneWriter ==
  ASSUME NEW H, NEW A, Closed(H), Held(H, A), Turn(H), OneWriter, SameWriting
  PROVE  OneWriter'
<1> DEFINE E == Handlers(H, A)
<1>1. ex.now \in Seq(E) /\ ex.ready \in Seq(E)
  BY DEF Held, ExType
<1>2. \A h \in H : ~ WriteStep(h)
  BY DEF Closed, Fits, WriteStep, PlainFns, ContFns
<1> HIDE DEF E
<1>3. PICK hs \in Seq(H), ps \in Seq(H) :
        \/ Waiting /\ ex' = [now |-> hs, ready |-> ex.ready \o ps]
        \/ ~ Waiting /\ ~ WriteStep(self) /\ ex' = [now |-> hs \o Tail(ex.now), ready |-> ex.ready \o ps]
  BY Zenon DEF Turn
<1>4. ex'.ready = ex.ready \o ps
  BY <1>3
<1>5. \A i \in DOMAIN ex'.ready : WriteStep(ex'.ready[i]) => i \in DOMAIN ex.ready /\ ex'.ready[i] = ex.ready[i]
  BY <1>1, <1>2, <1>4
<1>6. \A i \in DOMAIN ex'.now : ~ WriteStep(ex'.now[i])
  <2>1. CASE Waiting
    BY <1>2, <1>3, <2>1
  <2>2. CASE ~ Waiting
    <3>1. ex.now # <<>> /\ ex'.now = hs \o Tail(ex.now)
      BY <1>3, <2>2 DEF Waiting
    <3>2. \A i \in DOMAIN Tail(ex.now) : ~ WriteStep(Tail(ex.now)[i])
      <4>1. \A i \in DOMAIN Tail(ex.now) : i + 1 \in DOMAIN ex.now /\ i + 1 > 1 /\ Tail(ex.now)[i] = ex.now[i + 1]
        BY <1>1, <3>1
      <4> QED
        BY <4>1, Zenon DEF OneWriter
    <3>3. Tail(ex.now) \in Seq(E)
      BY <1>1, <3>1
    <3>4. \A i \in DOMAIN hs : ~ WriteStep(hs[i])
      BY <1>2
    <3>5. \A i \in DOMAIN (hs \o Tail(ex.now)) :
            \/ i \in DOMAIN hs /\ (hs \o Tail(ex.now))[i] = hs[i]
            \/ i - Len(hs) \in DOMAIN Tail(ex.now) /\ (hs \o Tail(ex.now))[i] = Tail(ex.now)[i - Len(hs)]
      BY <3>3, ConcatElements
    <3> QED
      BY <3>1, <3>2, <3>4, <3>5, Zenon
  <2> QED
    BY <2>1, <2>2
<1>7. ~ (~ strm.working /\ strm.queue # <<>>)
  BY <1>3 DEF OneWriter, Running, Waiting, WriteStep
<1>8. ex'.now # <<>> => ~ WriteStep(self')
  <2>1. ex'.now \in Seq(Handlers(H, A))
    BY TurnHeld DEF ExType
  <2>2. ex'.now # <<>> => 1 \in DOMAIN ex'.now /\ Head(ex'.now) = ex'.now[1]
    BY <2>1
  <2> QED
    BY <1>6, <2>2 DEF self
<1>9. ~ NoWriteStep(ex'.ready) => strm'.flight = <<>> /\ strm'.working
  BY <1>5 DEF NoWriteStep, OneWriter, SameWriting
<1>10. \A i, j \in DOMAIN ex'.ready : WriteStep(ex'.ready[i]) /\ WriteStep(ex'.ready[j]) => i = j
  BY <1>5 DEF OneWriter
<1> QED
  BY <1>6, <1>7, <1>8, <1>9, <1>10 DEF OneWriter, SameWriting, WriteStep, NoWriteStep
-----------------------------------------------------------------------------
(***************************************************************************)
(* Steps that do not concern the write queue.                              *)
(***************************************************************************)
\* Nothing that Order is about changes.
SameOrder ==
  /\ strm'.storing = strm.storing /\ strm'.issued = strm.issued /\ strm'.open = strm.open
  /\ strm'.queue = strm.queue /\ strm'.working = strm.working /\ strm'.flight = strm.flight
  /\ net'.wire = net.wire /\ net'.stale = net.stale /\ setup' = setup

\* Closed is about handlers, and the setup never changes.
LEMMA ClosedSame ==
  ASSUME NEW H, Closed(H), setup' = setup
  PROVE  Closed(H)'
BY DEF Closed, Fits, Kind

\* Order is about the members that do not change.
LEMMA OrderSame ==
  ASSUME Order, SameOrder
  PROVE  Order'
<1>1. Bufs' = Bufs
  BY DEF SameOrder, Bufs
<1>2. InOrder => InOrder'
  BY <1>1, Zenon DEF SameOrder, InOrder
<1>3. Stores => Stores'
  BY <1>1, Zenon DEF SameOrder, Stores
<1> QED
  BY <1>2, <1>3 DEF Order, SameOrder

\* Handlers that fit are dispatched or posted, and the write queue is left alone.
LEMMA Ordinary ==
  ASSUME NEW H, NEW A, State(H, A), NEW N, \A g \in N : Fits(g, H),
         NEW hs \in Seq(H \cup N), NEW ps \in Seq(H \cup N),
         \/ ~ Waiting /\ ~ WriteStep(self) /\ (ex' = ThenPost(hs, ps) \/ ex' = Then(hs))
         \/ Waiting /\ (ex' = Posted(ps) \/ ex' = [ex EXCEPT !.now = hs] \/ ex' = ex),
         SameOrder, strm' \in StreamType(H \cup N, A), NetHeld(net', A),
         EpHeld(ep', H \cup N), ClHeld(cl', H \cup N), AppHeld(app')
  PROVE  Inv'
<1> DEFINE G == H \cup N
<1>1. Closed(G) /\ Held(G, A) /\ OneWriter /\ Order
  <2>1. Closed(H) /\ Held(H, A) /\ OneWriter /\ Order
    BY DEF State
  <2>2. Closed(H \cup N)
    BY <2>1, AddHandlers, Zenon
  <2>3. H \subseteq H \cup N /\ A \subseteq A
    OBVIOUS
  <2>4. Held(H \cup N, A)
    BY <2>1, <2>3, HeldGrows
  <2> QED
    BY <2>1, <2>2, <2>4
<1> HIDE DEF G
<1>2. hs \in Seq(G) /\ ps \in Seq(G) /\ strm' \in StreamType(G, A) /\ EpHeld(ep', G) /\ ClHeld(cl', G)
  BY DEF G
<1>3. Turn(G)
  BY <1>1, <1>2, TurnForms
<1>4. ex' \in ExType(G, A)
  BY <1>1, <1>3, TurnHeld
<1>5. OneWriter'
  <2>1. SameWriting
    BY DEF SameOrder, SameWriting
  <2> QED
    BY <1>1, <1>3, <2>1, TurnOneWriter
<1>6. Order'
  BY <1>1, OrderSame
<1>7. Closed(G)' /\ Held(G, A)'
  <2>1. Closed(G)'
    BY <1>1, ClosedSame DEF SameOrder
  <2>2. setup' \in Setups
    BY <1>1 DEF Held, SameOrder
  <2>3. Held(G, A)'
    BY <1>2, <1>4, <2>2 DEF Held, ExType, StreamType, Handlers, Writes, WriteSteps, WirePackets, poll_one, NetHeld, EpHeld, ClHeld, AppHeld
  <2> QED
    BY <2>1, <2>3
<1> QED
  BY <1>5, <1>6, <1>7 DEF Inv, Typed

\* A handler that fits can be counted among those of the state.
LEMMA Grow ==
  ASSUME NEW H, NEW A, State(H, A), NEW g, Fits(g, H)
  PROVE  State(H \cup {g}, A) /\ \A x : Fits(x, H) => Fits(x, H \cup {g})
<1>1. Closed(H) /\ Held(H, A) /\ OneWriter /\ Order
  BY DEF State
<1>2. Closed(H \cup {g}) /\ \A x : Fits(x, H) => Fits(x, H \cup {g})
  <2>1. \A x \in {g} : Fits(x, H)
    OBVIOUS
  <2> QED
    BY <1>1, <2>1, AddHandlers, Zenon
<1>3. H \subseteq H \cup {g} /\ A \subseteq A
  OBVIOUS
<1>4. Held(H \cup {g}, A)
  BY <1>1, <1>3, HeldGrows
<1> QED
  BY <1>1, <1>2, <1>4 DEF State

\* The steps of the endpoint and the client leave the stream alone.
LEMMA Dispatch ==
  ASSUME NEW H, NEW A, State(H, A), ~ Waiting, ~ WriteStep(self), NEW N, \A g \in N : Fits(g, H),
         NEW hs \in Seq(H \cup N), NEW ps \in Seq(H \cup N), ex' = ThenPost(hs, ps) \/ ex' = Then(hs),
         UNCHANGED <<setup, strm, net>>, EpHeld(ep', H), ClHeld(cl', H), AppHeld(app')
  PROVE  Inv'
<1>1. SameOrder
  BY DEF SameOrder
<1>2. H \subseteq H \cup N /\ A \subseteq A
  OBVIOUS
<1>3. strm' \in StreamType(H \cup N, A) /\ NetHeld(net', A)
  BY <1>2, StreamGrows, Zenon DEF State, Held
<1>4. EpHeld(ep', H \cup N) /\ ClHeld(cl', H \cup N)
  BY <1>2, MembersGrow, Zenon
<1> QED
  BY <1>1, <1>3, <1>4, Ordinary, Zenon

\* One handler is dispatched,
LEMMA DispatchOne ==
  ASSUME NEW H, NEW A, State(H, A), ~ Waiting, ~ WriteStep(self), NEW g, Fits(g, H), ex' = Then(<<g>>),
         UNCHANGED <<setup, strm, net>>, EpHeld(ep', H), ClHeld(cl', H), AppHeld(app')
  PROVE  Inv'
<1>1. <<g>> \in Seq(H \cup {g}) /\ <<>> \in Seq(H \cup {g}) /\ \A x \in {g} : Fits(x, H)
  OBVIOUS
<1> QED
  BY <1>1, Dispatch, Zenon

\* or none is.
LEMMA DispatchNone ==
  ASSUME NEW H, NEW A, State(H, A), ~ Waiting, ~ WriteStep(self), ex' = Then(<<>>),
         UNCHANGED <<setup, strm, net>>, EpHeld(ep', H), ClHeld(cl', H), AppHeld(app')
  PROVE  Inv'
<1>1. <<>> \in Seq(H \cup {}) /\ \A x \in {} : Fits(x, H)
  OBVIOUS
<1> QED
  BY <1>1, Dispatch, Zenon

\* The handlers of a state in which a handler runs that is no step of the write queue.
LEMMA Runs ==
  ASSUME Inv, NEW fn, Running(fn), fn \notin {"poll_one", "written"}
  PROVE  \E H, A : /\ State(H, A) /\ ~ Waiting /\ ~ WriteStep(self)
                   /\ self \in H /\ Fits(self, H) /\ self.fn = fn
                   /\ fn \in ContFns => self.k \in H /\ Fits(self.k, H)
                   /\ EpHeld(ep, H) /\ ClHeld(cl, H) /\ AppHeld(app)
<1>1. PICK H, A : State(H, A)
  BY DEF Inv, Typed, State
<1>2. Closed(H) /\ Held(H, A)
  BY <1>1 DEF State
<1>3. /\ self \in H /\ Fits(self, H) /\ self.fn = fn
      /\ ~ Waiting /\ ~ WriteStep(self)
      /\ fn \in ContFns => self.k \in H /\ Fits(self.k, H)
  BY <1>2, SelfHeld
<1>4. EpHeld(ep, H) /\ ClHeld(cl, H) /\ AppHeld(app)
  BY <1>2 DEF Held
<1> QED
  BY <1>1, <1>3, <1>4, Zenon
-----------------------------------------------------------------------------
(***************************************************************************)
(* The steps of the stream that are about reading, opening and closing.    *)
(***************************************************************************)
\* Resuming a handler.
LEMMA ResumeFits ==
  ASSUME NEW H, NEW k, Fits(k, H), NEW ec
  PROVE  Fits(Resume(k, ec), H) /\ Resume(k, ec).fn = k.fn
BY FitsVariant DEF Resume

\* A step of the layers, when no handler runs: it posts at most one handler.
LEMMA LayersStep ==
  ASSUME NEW H, NEW A, State(H, A), Waiting, NEW g, Fits(g, H), ex' = Posted(<<g>>) \/ ex' = ex,
         SameOrder, strm' \in StreamType(H, A), NetHeld(net', A), UNCHANGED <<ep, cl, app>>
  PROVE  Inv'
<1>1. <<g>> \in Seq(H \cup {g}) /\ <<>> \in Seq(H \cup {g}) /\ \A x \in {g} : Fits(x, H)
  OBVIOUS
<1>2. H \subseteq H \cup {g} /\ A \subseteq A
  OBVIOUS
<1>3. strm' \in StreamType(H \cup {g}, A)
  BY <1>2, StreamGrows, Zenon
<1>4. EpHeld(ep', H \cup {g}) /\ ClHeld(cl', H \cup {g}) /\ AppHeld(app')
  BY <1>2, MembersGrow, Zenon DEF State, Held
<1> QED
  BY <1>1, <1>3, <1>4, Ordinary, Zenon

\* The handler of an operation that nobody waits for.
LEMMA DetachedStep ==
  ASSUME Inv, Detached, UNCHANGED <<con, ep, cl, app>>
  PROVE  Inv'
<1>1. PICK H, A : State(H, A) /\ ~ Waiting /\ ~ WriteStep(self) /\ EpHeld(ep, H) /\ ClHeld(cl, H) /\ AppHeld(app)
  BY Runs DEF Detached
<1> QED
  BY <1>1, DispatchNone DEF Detached

\* async_read_some of the layers.
LEMMA ReadStep ==
  ASSUME Inv, async_read_some, UNCHANGED <<con, ep, cl, app>>
  PROVE  Inv'
<1>1. PICK H, A : /\ State(H, A) /\ ~ Waiting /\ ~ WriteStep(self) /\ self.k \in H /\ Fits(self.k, H)
                  /\ EpHeld(ep, H) /\ ClHeld(cl, H) /\ AppHeld(app)
  BY Runs DEF async_read_some, ContFns
<1>2. CASE ~ strm.open
  <2> DEFINE g == Resume(self.k, "reset")
  <2>1. Fits(g, H)
    BY <1>1, ResumeFits
  <2>2. ex' = ThenPost(<<>>, <<g>>) /\ UNCHANGED <<setup, strm, net>>
    BY <1>2 DEF async_read_some
  <2> HIDE DEF g
  <2>3. <<>> \in Seq(H \cup {g}) /\ <<g>> \in Seq(H \cup {g}) /\ \A x \in {g} : Fits(x, H)
    BY <2>1
  <2> QED
    BY <1>1, <2>2, <2>3, Dispatch, Zenon
<1>3. CASE strm.open
  <2>1. strm \in StreamType(H, A) /\ NetHeld(net, A)
    BY <1>1 DEF State, Held
  <2>2. strm' = [strm EXCEPT !.reading = <<self.k>>] /\ ex' = Then(<<>>) /\ UNCHANGED <<setup, net>>
    BY <1>3 DEF async_read_some
  <2>3. strm' \in StreamType(H, A) /\ SameOrder
    <3>1. <<self.k>> \in Seq(H)
      BY <1>1
    <3> QED
      BY <2>1, <2>2, <3>1, Zenon DEF StreamType, SameOrder
  <2>4. H \cup {} = H /\ <<>> \in Seq(H) /\ \A x \in {} : Fits(x, H)
    OBVIOUS
  <2> QED
    BY <1>1, <2>1, <2>2, <2>3, <2>4, Ordinary, Zenon
<1> QED
  BY <1>2, <1>3

\* The data that was read, or an error.
LEMMA ReadDoneStep ==
  ASSUME Inv, AsyncReadDone, UNCHANGED <<con, ep, cl, app>>
  PROVE  Inv'
<1>1. PICK H, A : State(H, A)
  BY DEF Inv, Typed, State
<1>2. Closed(H) /\ strm \in StreamType(H, A) /\ NetHeld(net, A)
  BY <1>1 DEF State, Held
<1>3. strm.reading \in Seq(H) /\ strm.reading # <<>>
  BY <1>2 DEF StreamType, AsyncReadDone
<1> DEFINE k == strm.reading[1]
<1>4. Fits(k, H)
  BY <1>2, <1>3 DEF Closed
<1> HIDE DEF k
<1>5. \E g : Fits(g, H) /\ ex' = Posted(<<g>>)
  <2>1. Fits(Resume(k, "ok"), H) /\ Fits(Resume(k, "reset"), H)
    BY <1>4, ResumeFits
  <2>2. Fits([Resume(k, "ok") EXCEPT !.data = net.inbox], H)
    BY <2>1, FitsVariant
  <2> QED
    BY <2>1, <2>2, Zenon DEF AsyncReadDone, k
<1>6. strm' = [strm EXCEPT !.reading = <<>>] /\ net' = [net EXCEPT !.inbox = <<>>] /\ Waiting /\ setup' = setup
  BY DEF AsyncReadDone
<1>7. NetHeld(net', A) /\ net'.wire = net.wire /\ net'.stale = net.stale
  BY <1>2, <1>6, Zenon DEF NetHeld
<1>8. strm' \in StreamType(H, A) /\ SameOrder
  <2>1. <<>> \in Seq(H)
    OBVIOUS
  <2> QED
    BY <1>2, <1>6, <1>7, <2>1, Zenon DEF StreamType, SameOrder
<1> QED
  BY <1>1, <1>5, <1>6, <1>7, <1>8, LayersStep

\* async_close of a layer begins.
LEMMA StreamCloseStep ==
  ASSUME Inv, StreamClose, UNCHANGED <<con, ep, cl, app>>
  PROVE  Inv'
<1>1. PICK H, A : /\ State(H, A) /\ ~ Waiting /\ ~ WriteStep(self) /\ self \in H
                  /\ EpHeld(ep, H) /\ ClHeld(cl, H) /\ AppHeld(app)
  BY Runs DEF StreamClose, Closes
<1>2. strm \in StreamType(H, A) /\ NetHeld(net, A)
  BY <1>1 DEF State, Held
<1>3. strm' = [strm EXCEPT !.closing = <<self>>] /\ ex' = Then(<<>>) /\ UNCHANGED <<setup, net>>
  BY DEF StreamClose
<1>4. strm' \in StreamType(H, A) /\ SameOrder
  <2>1. <<self>> \in Seq(H)
    BY <1>1
  <2> QED
    BY <1>2, <1>3, <2>1, Zenon DEF StreamType, SameOrder
<1>5. H \cup {} = H /\ <<>> \in Seq(H) /\ \A x \in {} : Fits(x, H)
  OBVIOUS
<1> QED
  BY <1>1, <1>2, <1>3, <1>4, <1>5, Ordinary, Zenon

\* async_close of a layer ends.
LEMMA LayerClosedStep ==
  ASSUME Inv, NEW layer, LayerClosed(layer), UNCHANGED <<con, ep, cl, app>>
  PROVE  Inv'
<1>1. PICK H, A : State(H, A)
  BY DEF Inv, Typed, State
<1>2. Closed(H) /\ strm \in StreamType(H, A) /\ NetHeld(net, A)
  BY <1>1 DEF State, Held
<1>3. PICK c \in Range(strm.closing) : ex' = Posted(<<[c EXCEPT !.at = @ + 1]>>)
  BY Zenon DEF LayerClosed
<1>4. Fits([c EXCEPT !.at = @ + 1], H)
  <2>1. c \in H
    BY <1>2, <1>3 DEF StreamType, Range
  <2> QED
    BY <1>2, <2>1, FitsVariant DEF Closed
<1>5. strm' = [strm EXCEPT !.closing = <<>>] /\ net' = [net EXCEPT !.link = FALSE] /\ Waiting /\ setup' = setup
  BY DEF LayerClosed
<1>6. NetHeld(net', A) /\ net'.wire = net.wire /\ net'.stale = net.stale
  BY <1>2, <1>5, Zenon DEF NetHeld
<1>7. strm' \in StreamType(H, A) /\ SameOrder
  <2>1. <<>> \in Seq(H)
    OBVIOUS
  <2> QED
    BY <1>2, <1>5, <1>6, <2>1, Zenon DEF StreamType, SameOrder
<1> QED
  BY <1>1, <1>3, <1>4, <1>5, <1>6, <1>7, LayersStep, Zenon

\* The handshake of a layer ends.
LEMMA LayerUpStep ==
  ASSUME Inv, NEW layer, NEW may, NEW fails, LayerUp(layer, may, fails), UNCHANGED <<con, ep, cl, app>>
  PROVE  Inv'
<1>1. PICK H, A : State(H, A)
  BY DEF Inv, Typed, State
<1>2. Closed(H) /\ strm \in StreamType(H, A) /\ NetHeld(net, A)
  BY <1>1 DEF State, Held
<1>3. PICK c \in Range(strm.connecting) :
        \/ /\ net' = [net EXCEPT !.link = TRUE]
           /\ strm' = [strm EXCEPT !.connecting = IF c.at = 1 THEN <<>> ELSE <<[c EXCEPT !.at = @ - 1]>>]
           /\ ex' = IF c.at = 1 THEN Posted(<<Resume(c.k, "ok")>>) ELSE ex
        \/ /\ strm' = [strm EXCEPT !.connecting = <<>>]
           /\ ex' = Posted(<<Resume(c.k, "reset")>>)
           /\ UNCHANGED net
  BY Zenon DEF LayerUp
<1>4. c \in [k : H, at : Int] /\ c.k \in H /\ c.at \in Int
  <2>1. strm.connecting \in Seq([k : H, at : Int])
    BY <1>2 DEF StreamType
  <2>2. PICK i \in DOMAIN strm.connecting : c = strm.connecting[i]
    BY <1>3 DEF Range
  <2>3. c \in [k : H, at : Int]
    BY <2>1, <2>2, SeqElement, Zenon
  <2> QED
    BY <2>3
<1>5. Fits(Resume(c.k, "ok"), H) /\ Fits(Resume(c.k, "reset"), H)
  BY <1>2, <1>4, ResumeFits DEF Closed
<1>6. NetHeld(net', A) /\ net'.wire = net.wire /\ net'.stale = net.stale
  BY <1>2, <1>3, Zenon DEF NetHeld
<1>7. \E s \in Seq([k : H, at : Int]) : strm' = [strm EXCEPT !.connecting = s]
  <2>1. [c EXCEPT !.at = @ - 1] \in [k : H, at : Int]
    BY <1>4
  <2> DEFINE d == [c EXCEPT !.at = @ - 1]
  <2> HIDE DEF d
  <2>2. <<>> \in Seq([k : H, at : Int]) /\ <<d>> \in Seq([k : H, at : Int])
    BY <2>1 DEF d
  <2> QED
    BY <1>3, <2>2, Zenon DEF d
<1>8. strm' \in StreamType(H, A) /\ SameOrder
  <2>1. setup' = setup
    BY DEF LayerUp
  <2> QED
    BY <1>2, <1>6, <1>7, <2>1, Zenon DEF StreamType, SameOrder
<1>9. Waiting /\ \E g : Fits(g, H) /\ (ex' = Posted(<<g>>) \/ ex' = ex)
  BY <1>3, <1>5, Zenon DEF LayerUp
<1> QED
  BY <1>1, <1>6, <1>8, <1>9, LayersStep

\* The link or the peer, in which the stream and the endpoint have no part.
LEMMA PeerStep ==
  ASSUME Inv, \/ LinkLost /\ UNCHANGED <<con, ep, cl, app>>
              \/ (PeerAnswers \/ PeerSends) /\ UNCHANGED <<cl, app>>
  PROVE  Inv'
<1>1. PICK H, A : State(H, A)
  BY DEF Inv, Typed, State
<1>2. NetHeld(net, A) /\ strm \in StreamType(H, A)
  BY <1>1 DEF State, Held
<1>3. Waiting /\ ex' = ex /\ UNCHANGED <<setup, strm, ep, cl, app>>
  BY Zenon DEF LinkLost, PeerAnswers, PeerSends
<1>4. NetHeld(net', A) /\ net'.wire = net.wire /\ net'.stale = net.stale
  <2>1. CASE LinkLost
    BY <1>2, <2>1, Zenon DEF LinkLost, NetHeld
  <2>2. CASE PeerSends
    BY <1>2, <2>2, Zenon DEF PeerSends, NetHeld
  <2>3. CASE PeerAnswers
    <3> DEFINE seen == [net EXCEPT !.seen = @ + 1]
    <3>1. NetHeld(seen, A) /\ seen.wire = net.wire /\ seen.stale = net.stale
      BY <1>2, Zenon DEF NetHeld
    <3> DEFINE p == net.wire[net.seen + 1].p
    <3>2. CASE Answers(p) = {}
      <4>1. net' = seen \/ net' = [seen EXCEPT !.link = FALSE]
        BY <2>3, <3>2 DEF PeerAnswers
      <4> HIDE DEF seen
      <4> QED
        BY <3>1, <4>1, Zenon DEF NetHeld
    <3>3. CASE Answers(p) # {}
      <4>1. PICK a : net' = [seen EXCEPT !.inbox = Append(@, a),
                                         !.acks = IF EndsPublish(a) THEN @ + 1 ELSE @,
                                         !.session = @ \/ a.t = "connack",
                                         !.link = ~ (a.t = "connack" /\ a.id # 0)]
        BY <2>3, <3>3, Zenon DEF PeerAnswers
      <4> HIDE DEF seen
      <4> QED
        BY <3>1, <4>1, Zenon DEF NetHeld
    <3> QED
      BY <3>2, <3>3
  <2> QED
    BY <2>1, <2>2, <2>3
<1>5. SameOrder
  BY <1>3, <1>4 DEF SameOrder
<1>6. Fits(detached, H)
  BY DEF Fits, detached, PlainFns, ContFns
<1> QED
  BY <1>1, <1>2, <1>3, <1>4, <1>5, <1>6, LayersStep

\* A timer expires and its handler is posted.
LEMMA TimerStep ==
  ASSUME Inv, TimerExpires \/ DelayExpires, UNCHANGED <<cl, app>>
  PROVE  Inv'
<1>1. PICK H, A : State(H, A)
  BY DEF Inv, Typed, State
<1>2. Closed(H) /\ NetHeld(net, A) /\ strm \in StreamType(H, A) /\ EpHeld(ep, H) /\ ClHeld(cl, H) /\ AppHeld(app)
  BY <1>1 DEF State, Held
<1>3. Waiting /\ UNCHANGED <<setup, strm, net, cl, app>>
  BY Zenon DEF TimerExpires, DelayExpires
<1>4. SameOrder
  BY <1>3 DEF SameOrder
<1>5. PICK g : Fits(g, H) /\ ex' = Posted(<<g>>) /\ EpHeld(ep', H)
  <2>1. CASE TimerExpires
    <3>1. PICK kind \in ep.timer : /\ ep' = [ep EXCEPT !.timer = @ \ {kind}, !.fires = @ + 1]
                                   /\ ex' = Posted(<<[fn |-> "timer", kind |-> kind]>>)
      BY <2>1, Zenon DEF TimerExpires
    <3>2. EpHeld(ep', H)
      BY <1>2, <3>1, Zenon DEF EpHeld
    <3>3. Fits([fn |-> "timer", kind |-> kind], H)
      BY DEF Fits, PlainFns, ContFns
    <3> QED
      BY <3>1, <3>2, <3>3
  <2>2. CASE DelayExpires
    <3>1. ep.delayed \in Seq(H) /\ ep.delayed # <<>> /\ ep' = [ep EXCEPT !.delayed = Tail(@)] /\ ex' = Posted(<<Head(ep.delayed)>>)
      BY <1>2, <2>2 DEF EpHeld, DelayExpires
    <3>2. Head(ep.delayed) \in H /\ Tail(ep.delayed) \in Seq(H)
      BY <3>1, SeqElement
    <3>3. EpHeld(ep', H)
      BY <1>2, <3>1, <3>2, Zenon DEF EpHeld
    <3> QED
      BY <1>2, <3>1, <3>2, <3>3 DEF Closed
  <2> QED
    BY <2>1, <2>2, Zenon
<1>6. <<g>> \in Seq(H \cup {g}) /\ <<>> \in Seq(H \cup {g}) /\ \A x \in {g} : Fits(x, H)
  BY <1>5
<1>7. H \subseteq H \cup {g} /\ A \subseteq A
  OBVIOUS
<1>8. strm' \in StreamType(H \cup {g}, A)
  BY <1>2, <1>3, <1>7, StreamGrows, Zenon
<1>9. EpHeld(ep', H \cup {g}) /\ ClHeld(cl', H \cup {g}) /\ AppHeld(app') /\ NetHeld(net', A)
  BY <1>2, <1>3, <1>5, <1>7, MembersGrow, Zenon
<1> QED
  BY <1>1, <1>3, <1>4, <1>5, <1>6, <1>8, <1>9, Ordinary, Zenon
-----------------------------------------------------------------------------
(***************************************************************************)
(* The endpoint.                                                           *)
(***************************************************************************)
\* The handlers that the operations are begun with fit.
LEMMA ConstructorsFit ==
  ASSUME NEW H, NEW k \in H
  PROVE  /\ \A p : Fits(write_packet(k, p), H) /\ Fits(send(k, p), H) /\ Fits(restore(k, p), H)
         /\ \A id : Fits(register(k, id), H) /\ Fits(release(k, id), H)
         /\ Fits(read_some(k), H) /\ Fits(recv(k), H) /\ Fits(close(k), H) /\ Fits(stream_close(k), H)
         /\ Fits([fn |-> "close_complete", k |-> k], H) /\ Fits([fn |-> "handshaken", k |-> k, ec |-> "ok"], H)
         /\ Fits(handshake(k), H) /\ Fits(acquire(k), H) /\ Fits(acquire_now(k), H) /\ Fits(get_stored(k), H)
<1>1. \A p : Fits(write_packet(k, p), H)
  BY DEF Fits, PlainFns, ContFns, write_packet
<1>2. \A p : Fits(send(k, p), H)
  BY DEF Fits, PlainFns, ContFns, send
<1>3. \A p : Fits(restore(k, p), H)
  BY DEF Fits, PlainFns, ContFns, restore
<1>4. \A id : Fits(register(k, id), H) /\ Fits(release(k, id), H)
  BY DEF Fits, PlainFns, ContFns, register, release
<1>5. Fits(read_some(k), H) /\ Fits(close(k), H) /\ Fits(stream_close(k), H)
  BY DEF Fits, PlainFns, ContFns, read_some, close, stream_close
<1>6. Fits(recv(k), H)
  BY DEF Fits, PlainFns, ContFns, recv
<1>7. Fits([fn |-> "close_complete", k |-> k], H) /\ Fits([fn |-> "handshaken", k |-> k, ec |-> "ok"], H)
  BY DEF Fits, PlainFns, ContFns
<1>8. Fits(handshake(k), H) /\ Fits(acquire(k), H) /\ Fits(acquire_now(k), H) /\ Fits(get_stored(k), H)
  BY DEF Fits, PlainFns, ContFns, handshake, acquire, acquire_now, get_stored
<1> QED
  BY <1>1, <1>2, <1>3, <1>4, <1>5, <1>6, <1>7, <1>8

\* and so do those without a continuation.
LEMMA PlainFit ==
  ASSUME NEW H
  PROVE  /\ Fits(detached, H) /\ Fits(recv_loop, H) /\ Fits([fn |-> "from_queue"], H) /\ Fits([fn |-> "queue_loop"], H)
         /\ Fits([fn |-> "queue_pop"], H)
         /\ \A i : Fits(async_recv(i), H)
         /\ \A ids : Fits([fn |-> "notify", ids |-> ids], H)
         /\ \A k, pvs : Fits([fn |-> "stored", k |-> k, pvs |-> pvs], H)
         /\ \A i, state, id : state # "acquired" => Fits(request(i, state, id), H)
<1>1. Fits(detached, H) /\ Fits(recv_loop, H)
  BY DEF Fits, PlainFns, ContFns, detached, recv_loop
<1>2. Fits([fn |-> "from_queue"], H) /\ Fits([fn |-> "queue_loop"], H) /\ Fits([fn |-> "queue_pop"], H)
  BY DEF Fits, PlainFns, ContFns
<1>3. \A i : Fits(async_recv(i), H)
  BY DEF Fits, PlainFns, ContFns, async_recv
<1>4. \A ids : Fits([fn |-> "notify", ids |-> ids], H)
  BY DEF Fits, PlainFns, ContFns
<1>5. \A k, pvs : Fits([fn |-> "stored", k |-> k, pvs |-> pvs], H)
  BY DEF Fits, PlainFns, ContFns
<1>6. \A i, state, id : state # "acquired" => Fits(request(i, state, id), H)
  BY DEF Fits, PlainFns, ContFns, request
<1> QED
  BY <1>1, <1>2, <1>3, <1>4, <1>5, <1>6

\* acq_proc
LEMMA AcqProcStep ==
  ASSUME NEW H, NEW A, State(H, A), ~ Waiting, ~ WriteStep(self), self \in H, Fits(self.k, H),
         NEW e, EpHeld(e, H), ClHeld(cl, H), AppHeld(app), AcqProc(e), UNCHANGED <<setup, strm, net, cl, app>>
  PROVE  Inv'
<1>1. CASE Ids \subseteq con.used
  <2>1. ep' = [e EXCEPT !.released = FALSE, !.retry = Append(@, [h |-> self, cancelled |-> FALSE])] /\ ex' = Then(<<>>)
    BY <1>1 DEF AcqProc
  <2>2. EpHeld(ep', H)
    <3> DEFINE R == [h : H, cancelled : BOOLEAN]
    <3>1. [h |-> self, cancelled |-> FALSE] \in R
      OBVIOUS
    <3>2. e.retry \in Seq(R)
      BY DEF EpHeld
    <3>3. Append(e.retry, [h |-> self, cancelled |-> FALSE]) \in Seq(R)
      <4> HIDE DEF R
      <4> QED
        BY <3>1, <3>2
    <3> QED
      BY <2>1, <3>3, Zenon DEF EpHeld
  <2> QED
    BY <2>1, <2>2, DispatchNone
<1>2. CASE ~ (Ids \subseteq con.used)
  <2>1. PICK id : ep' = e /\ ex' = Then(<<[Resume(self.k, "ok") EXCEPT !.id = id]>>)
    BY <1>2, Zenon DEF AcqProc
  <2>2. Fits([Resume(self.k, "ok") EXCEPT !.id = id], H)
    BY ResumeFits, FitsVariant
  <2> QED
    BY <2>1, <2>2, DispatchOne
<1> QED
  BY <1>1, <1>2

\* async_acquire_unique_packet_id_wait_until() begins.
LEMMA AcquireStep ==
  ASSUME Inv, AcquireWaitUntil, UNCHANGED clientVars
  PROVE  Inv'
<1>1. PICK H, A : /\ State(H, A) /\ ~ Waiting /\ ~ WriteStep(self) /\ self \in H /\ Fits(self.k, H)
                  /\ EpHeld(ep, H) /\ ClHeld(cl, H) /\ AppHeld(app)
  BY Runs DEF AcquireWaitUntil, ContFns
<1>2. UNCHANGED <<setup, strm, net, cl, app>>
  BY DEF AcquireWaitUntil, clientVars
<1>3. CASE ep.retry # <<>>
  <2>1. ep' = [ep EXCEPT !.retry = Append(@, [h |-> self, cancelled |-> FALSE])] /\ ex' = Then(<<>>)
    BY <1>3 DEF AcquireWaitUntil
  <2>2. EpHeld(ep', H)
    <3> DEFINE R == [h : H, cancelled : BOOLEAN]
    <3>1. [h |-> self, cancelled |-> FALSE] \in R
      BY <1>1
    <3>2. ep.retry \in Seq(R)
      BY <1>1 DEF EpHeld
    <3>3. Append(ep.retry, [h |-> self, cancelled |-> FALSE]) \in Seq(R)
      <4> HIDE DEF R
      <4> QED
        BY <3>1, <3>2
    <3> QED
      BY <1>1, <2>1, <3>3, Zenon DEF EpHeld
  <2> QED
    BY <1>1, <1>2, <2>1, <2>2, DispatchNone
<1>4. CASE ep.retry = <<>>
  <2>1. AcqProc(ep)
    BY <1>4 DEF AcquireWaitUntil
  <2> QED
    BY <1>1, <1>2, <2>1, AcqProcStep
<1> QED
  BY <1>3, <1>4

\* The calls about identifiers and stored packets.
LEMMA IdStep ==
  ASSUME Inv, AcquireUnique \/ RegisterPacketId \/ GetStoredPackets \/ RestorePackets, UNCHANGED clientVars
  PROVE  Inv'
<1>1. PICK H, A : /\ State(H, A) /\ ~ Waiting /\ ~ WriteStep(self) /\ Fits(self.k, H)
                  /\ EpHeld(ep, H) /\ ClHeld(cl, H) /\ AppHeld(app)
  BY Runs DEF AcquireUnique, RegisterPacketId, GetStoredPackets, RestorePackets, ContFns
<1>2. UNCHANGED <<setup, strm, net, ep, cl, app>>
  BY DEF AcquireUnique, RegisterPacketId, GetStoredPackets, RestorePackets, clientVars
<1>3. \E g : Fits(g, H) /\ ex' = Then(<<g>>)
  <2>1. CASE AcquireUnique
    <3>1. \/ ex' = Then(<<Resume(self.k, "fully_used")>>)
          \/ ex' = Then(<<[Resume(self.k, "ok") EXCEPT !.id = Min(Ids \ con.used)]>>)
      BY <2>1 DEF AcquireUnique
    <3>2. Fits(Resume(self.k, "fully_used"), H) /\ Fits([Resume(self.k, "ok") EXCEPT !.id = Min(Ids \ con.used)], H)
      BY <1>1, ResumeFits, FitsVariant
    <3> QED
      BY <3>1, <3>2
  <2>2. CASE RegisterPacketId
    <3>1. \/ ex' = Then(<<Resume(self.k, "id_conflict")>>)
          \/ ex' = Then(<<[Resume(self.k, "ok") EXCEPT !.id = self.id]>>)
      BY <2>2 DEF RegisterPacketId
    <3>2. Fits(Resume(self.k, "id_conflict"), H) /\ Fits([Resume(self.k, "ok") EXCEPT !.id = self.id], H)
      BY <1>1, ResumeFits, FitsVariant
    <3> QED
      BY <3>1, <3>2
  <2>3. CASE GetStoredPackets
    BY <2>3, PlainFit DEF GetStoredPackets
  <2>4. CASE RestorePackets
    BY <1>1, <2>4 DEF RestorePackets
  <2> QED
    BY <2>1, <2>2, <2>3, <2>4, Zenon
<1> QED
  BY <1>1, <1>2, <1>3, DispatchOne

\* The handlers of the timers.
LEMMA FiredStep ==
  ASSUME Inv, PingreqSendFired \/ PingrespRecvFired, UNCHANGED clientVars
  PROVE  Inv'
<1>1. PICK H, A : /\ State(H, A) /\ ~ Waiting /\ ~ WriteStep(self)
                  /\ EpHeld(ep, H) /\ ClHeld(cl, H) /\ AppHeld(app)
  BY Runs DEF PingreqSendFired, PingrespRecvFired
<1>2. UNCHANGED <<setup, strm, net, cl, app>>
  BY DEF PingreqSendFired, PingrespRecvFired, clientVars
<1> DEFINE G == H \cup {detached}
           G2 == G \cup {close(detached)}
<1>3. State(G, A) /\ detached \in G
  BY <1>1, Grow, PlainFit, Zenon
<1>4. State(G2, A) /\ detached \in G2 /\ close(detached) \in G2 /\ H \subseteq G2
  <2> HIDE DEF G
  <2>1. State(G \cup {close(detached)}, A)
    BY <1>3, Grow, ConstructorsFit, Zenon
  <2> QED
    BY <1>3, <2>1 DEF G
<1> HIDE DEF G, G2
<1>5. EpHeld(ep', G2) /\ ClHeld(cl', G2) /\ AppHeld(app')
  <2>1. ep' = ep \/ \E evs : ep' = TimerOps(ep, evs)
    BY DEF PingreqSendFired, PingrespRecvFired
  <2>2. EpHeld(ep', H)
    BY <1>1, <2>1, Zenon DEF EpHeld, TimerOps
  <2> QED
    BY <1>1, <1>2, <1>4, <2>2, MembersGrow, Zenon
<1>6. ex' = Then(<<>>) \/ \E g : Fits(g, G2) /\ ex' = Then(<<g>>)
  <2>1. \/ ex' = Then(<<>>)
        \/ \E p : ex' = Then(<<write_packet(detached, p)>>) \/ ex' = Then(<<write_packet(close(detached), p)>>)
    BY DEF PingreqSendFired, PingrespRecvFired
  <2>2. \A p : Fits(write_packet(detached, p), G2) /\ Fits(write_packet(close(detached), p), G2)
    BY <1>4, ConstructorsFit, Zenon
  <2> QED
    BY <2>1, <2>2, Zenon
<1> QED
  BY <1>1, <1>2, <1>4, <1>5, <1>6, DispatchOne, DispatchNone, Zenon

\* close_op begins.
LEMMA CloseStep ==
  ASSUME Inv, CloseStart, UNCHANGED clientVars
  PROVE  Inv'
<1>1. PICK H, A : /\ State(H, A) /\ ~ Waiting /\ ~ WriteStep(self) /\ self \in H /\ self.k \in H /\ Fits(self.k, H)
                  /\ EpHeld(ep, H) /\ ClHeld(cl, H) /\ AppHeld(app)
  BY Runs DEF CloseStart, ContFns
<1>2. UNCHANGED <<setup, strm, net, cl, app>>
  BY DEF CloseStart, clientVars
<1>3. CASE ep' = [ep EXCEPT !.status = "closing"] /\ ex' = Then(<<stream_close([fn |-> "close_complete", k |-> self.k])>>)
  <2> DEFINE c == [fn |-> "close_complete", k |-> self.k]
             G == H \cup {c}
  <2>1. Fits(c, H)
    BY <1>1, ConstructorsFit, Zenon
  <2> HIDE DEF c
  <2>2. State(G, A) /\ c \in G /\ H \subseteq G
    BY <1>1, <2>1, Grow
  <2> HIDE DEF G
  <2>3. Fits(stream_close(c), G) /\ ex' = Then(<<stream_close(c)>>)
    BY <1>3, <2>2, ConstructorsFit, Zenon DEF c
  <2>4. EpHeld(ep', H)
    BY <1>1, <1>3, Zenon DEF EpHeld
  <2>5. EpHeld(ep', G) /\ ClHeld(cl', G) /\ AppHeld(app')
    BY <1>1, <1>2, <2>2, <2>4, MembersGrow, Zenon
  <2> QED
    BY <1>1, <1>2, <2>2, <2>3, <2>5, DispatchOne
<1>4. CASE ep' = [ep EXCEPT !.closeq = Append(@, self)] /\ ex' = Then(<<>>)
  <2>1. Append(ep.closeq, self) \in Seq(H)
    BY <1>1 DEF EpHeld
  <2>2. EpHeld(ep', H)
    BY <1>1, <1>4, <2>1, Zenon DEF EpHeld
  <2> QED
    BY <1>1, <1>2, <1>4, <2>2, DispatchNone, Zenon
<1>5. CASE ex' = Then(<<self.k>>) /\ UNCHANGED ep
  BY <1>1, <1>2, <1>5, DispatchOne
<1> QED
  BY <1>3, <1>4, <1>5 DEF CloseStart

\* It completes: the identifiers that are released are told, then the closes that wait.
LEMMA CloseCompleteStep ==
  ASSUME Inv, CloseComplete, UNCHANGED clientVars
  PROVE  Inv'
<1>1. PICK H, A : /\ State(H, A) /\ ~ Waiting /\ ~ WriteStep(self) /\ self.k \in H
                  /\ EpHeld(ep, H) /\ ClHeld(cl, H) /\ AppHeld(app)
  BY Runs DEF CloseComplete, ContFns
<1>2. UNCHANGED <<setup, strm, net, cl, app>>
  BY DEF CloseComplete, clientVars
<1>3. PICK ids, evs : /\ ep' = TimerOps([ep EXCEPT !.status = "closed", !.closeq = <<>>], evs)
                      /\ ex' = Then(<<[fn |-> "notify", ids |-> ids]>> \o ep.closeq \o <<self.k>>)
  BY Zenon DEF CloseComplete
<1> DEFINE n == [fn |-> "notify", ids |-> ids]
           e == [ep EXCEPT !.status = "closed", !.closeq = <<>>]
<1>4. Fits(n, H)
  BY PlainFit
<1> HIDE DEF n
<1>5. <<n>> \o ep.closeq \o <<self.k>> \in Seq(H \cup {n}) /\ <<>> \in Seq(H \cup {n}) /\ \A g \in {n} : Fits(g, H)
  BY <1>1, <1>4 DEF EpHeld
<1>6. EpHeld(ep', H)
  <2>1. <<>> \in Seq(H)
    OBVIOUS
  <2>2. EpHeld(e, H)
    BY <1>1, <2>1, Zenon DEF EpHeld
  <2> HIDE DEF e
  <2>3. EpHeld(TimerOps(e, evs), H)
    BY <2>2, Zenon DEF EpHeld, TimerOps
  <2> QED
    BY <1>3, <2>3 DEF e
<1>7. ex' = Then(<<n>> \o ep.closeq \o <<self.k>>)
  BY <1>3 DEF n
<1> QED
  BY <1>1, <1>2, <1>5, <1>6, <1>7, Dispatch, Zenon

\* underlying_handshake_op
LEMMA HandshakenStep ==
  ASSUME Inv, Handshaken, UNCHANGED clientVars
  PROVE  Inv'
<1>1. PICK H, A : /\ State(H, A) /\ ~ Waiting /\ ~ WriteStep(self) /\ Fits(self.k, H)
                  /\ EpHeld(ep, H) /\ ClHeld(cl, H) /\ AppHeld(app)
  BY Runs DEF Handshaken, ContFns
<1>2. UNCHANGED <<setup, strm, net, cl, app>> /\ ex' = Then(<<Resume(self.k, self.ec)>>)
  BY DEF Handshaken, clientVars
<1>3. EpHeld(ep', H)
  <2>1. ep' = ep \/ ep' = [ep EXCEPT !.status = "open"]
    BY DEF Handshaken
  <2> QED
    BY <1>1, <2>1, Zenon DEF EpHeld
<1>4. Fits(Resume(self.k, self.ec), H)
  BY <1>1, ResumeFits
<1> QED
  BY <1>1, <1>2, <1>3, <1>4, DispatchOne

\* send_op but for the events.
LEMMA SendStep ==
  ASSUME Inv, SendError \/ SendWrite \/ SendComplete, UNCHANGED clientVars
  PROVE  Inv'
<1>1. PICK H, A : /\ State(H, A) /\ ~ Waiting /\ ~ WriteStep(self) /\ Fits(self, H) /\ self.fn = "send" /\ Fits(self.k, H)
                  /\ EpHeld(ep, H) /\ ClHeld(cl, H) /\ AppHeld(app)
  BY Runs DEF SendError, SendWrite, SendComplete, ContFns
<1>2. UNCHANGED <<setup, strm, net, cl, app>>
  BY DEF SendError, SendWrite, SendComplete, clientVars
<1>3. EpHeld(ep', H)
  <2>1. ep' = ep \/ \E d : ep' = [ep EXCEPT !.dropped = d]
    BY DEF SendError, SendWrite, SendComplete
  <2> QED
    BY <1>1, <2>1, Zenon DEF EpHeld
<1>4. \E g : Fits(g, H) /\ ex' = Then(<<g>>)
  <2>1. CASE SendError \/ SendComplete
    <3>1. \E ec : ex' = Then(<<Resume(self.k, ec)>>)
      BY <2>1 DEF SendError, SendComplete
    <3> QED
      BY <1>1, <3>1, ResumeFits
  <2>2. CASE SendWrite
    <3>1. PICK evs : ex' = Then(<<[self EXCEPT !.state = "sent", !.evs = evs]>>)
      BY <2>2, Zenon DEF SendWrite
    <3>2. Fits([self EXCEPT !.state = "sent"], H) /\ [self EXCEPT !.state = "sent"].fn = "send"
      BY <1>1, FitsVariant
    <3>3. Fits([[self EXCEPT !.state = "sent"] EXCEPT !.evs = evs], H)
      BY <3>2, FitsVariant, Zenon
    <3> QED
      BY <3>1, <3>3
  <2> QED
    BY <2>1, <2>2, Zenon
<1> QED
  BY <1>1, <1>2, <1>3, <1>4, DispatchOne

\* recv_op but for the events.
LEMMA RecvStep ==
  ASSUME Inv, RecvError \/ RecvReadIstream \/ RecvProcessed, UNCHANGED clientVars
  PROVE  Inv'
<1>1. PICK H, A : /\ State(H, A) /\ ~ Waiting /\ ~ WriteStep(self) /\ Fits(self, H) /\ self.fn = "recv" /\ Fits(self.k, H)
                  /\ EpHeld(ep, H) /\ ClHeld(cl, H) /\ AppHeld(app)
  BY Runs, Zenon DEF RecvError, RecvReadIstream, RecvProcessed, RecvAt, ContFns
<1>2. UNCHANGED <<setup, strm, net, cl, app>>
  BY Zenon DEF RecvError, RecvReadIstream, RecvProcessed, clientVars
<1>3. EpHeld(ep', H)
  <2>1. ep' = ep \/ \E b, evs, d : ep' = [ep EXCEPT !.buf = b, !.events = evs, !.dropped = d]
    BY Zenon DEF RecvError, RecvReadIstream, RecvProcessed
  <2> QED
    BY <1>1, <2>1, Zenon DEF EpHeld
<1>4. CASE RecvError /\ self.ec # "aborted"
  <2> DEFINE c == [self EXCEPT !.ec = "ok", !.err = self.ec, !.state = "complete"]
             G == H \cup {c}
  <2>1. Fits(c, H)
    <3> DEFINE a == [self EXCEPT !.ec = "ok"]
               b == [a EXCEPT !.err = self.ec]
    <3>1. Fits(a, H) /\ a.fn = "recv"
      BY <1>1, FitsVariant
    <3> HIDE DEF a
    <3>2. Fits(b, H) /\ b.fn = "recv"
      BY <3>1, FitsVariant
    <3> HIDE DEF b
    <3>3. Fits([b EXCEPT !.state = "complete"], H)
      BY <3>2, FitsVariant
    <3>4. c = [b EXCEPT !.state = "complete"]
      BY DEF a, b
    <3> HIDE DEF c
    <3> QED
      BY <3>3, <3>4
  <2>2. ex' = Then(<<close(c)>>)
    BY <1>4 DEF RecvError
  <2> HIDE DEF c
  <2>3. State(G, A) /\ c \in G /\ H \subseteq G
    BY <1>1, <2>1, Grow
  <2> HIDE DEF G
  <2>4. Fits(close(c), G)
    BY <2>3, ConstructorsFit, Zenon
  <2>5. EpHeld(ep', G) /\ ClHeld(cl', G) /\ AppHeld(app')
    BY <1>1, <1>2, <1>3, <2>3, MembersGrow, Zenon
  <2> QED
    BY <1>1, <1>2, <2>2, <2>3, <2>4, <2>5, DispatchOne
<1>5. CASE ~ (RecvError /\ self.ec # "aborted")
  <2>1. \E g : Fits(g, H) /\ ex' = Then(<<g>>)
    <3>1. \/ \E ec : ex' = Then(<<Resume(self.k, ec)>>)
          \/ \E d, s : ex' = Then(<<[self EXCEPT !.data = d, !.state = s]>>)
          \/ \E s : ex' = Then(<<[self EXCEPT !.state = s]>>)
      BY <1>5, Zenon DEF RecvError, RecvReadIstream, RecvProcessed
    <3>2. \A s : Fits([self EXCEPT !.state = s], H)
      BY <1>1, FitsVariant
    <3>3. ASSUME NEW d, NEW s
          PROVE  Fits([self EXCEPT !.data = d, !.state = s], H)
      <4>1. Fits([self EXCEPT !.data = d], H) /\ [self EXCEPT !.data = d].fn = "recv"
        BY <1>1, FitsVariant
      <4> QED
        BY <4>1, FitsVariant, Zenon
    <3>4. \A ec : Fits(Resume(self.k, ec), H)
      BY <1>1, ResumeFits
    <3> QED
      BY <3>1, <3>2, <3>3, <3>4, Zenon
  <2> QED
    BY <1>1, <1>2, <1>3, <2>1, DispatchOne
<1> QED
  BY <1>4, <1>5

\* recv_op looks at the buffer.
LEMMA CheckBufStep ==
  ASSUME Inv, RecvCheckBuf, UNCHANGED clientVars
  PROVE  Inv'
<1>1. PICK H, A : /\ State(H, A) /\ ~ Waiting /\ ~ WriteStep(self) /\ Fits(self, H) /\ self.fn = "recv"
                  /\ EpHeld(ep, H) /\ ClHeld(cl, H) /\ AppHeld(app)
  BY Runs DEF RecvCheckBuf, RecvAt, ContFns
<1>2. UNCHANGED <<setup, strm, net, ep, cl, app>>
  BY DEF RecvCheckBuf, clientVars
<1> DEFINE c == [self EXCEPT !.state = "read_istream"]
           G == H \cup {c}
<1>3. Fits(c, H)
  BY <1>1, FitsVariant
<1>4. ex' = Then(<<read_some(c)>>) \/ ex' = ThenPost(<<>>, <<c>>)
  BY DEF RecvCheckBuf
<1> HIDE DEF c
<1>5. State(G, A) /\ c \in G /\ H \subseteq G
  BY <1>1, <1>3, Grow
<1> HIDE DEF G
<1>6. EpHeld(ep', G) /\ ClHeld(cl', G) /\ AppHeld(app')
  BY <1>1, <1>2, <1>5, MembersGrow, Zenon
<1>7. CASE ex' = Then(<<read_some(c)>>)
  <2>1. Fits(read_some(c), G)
    BY <1>5, ConstructorsFit, Zenon
  <2> QED
    BY <1>1, <1>2, <1>5, <1>6, <1>7, <2>1, DispatchOne
<1>8. CASE ex' = ThenPost(<<>>, <<c>>)
  <2>1. <<>> \in Seq(G \cup {}) /\ <<c>> \in Seq(G \cup {}) /\ \A x \in {} : Fits(x, G)
    BY <1>5
  <2> QED
    BY <1>1, <1>2, <1>5, <1>6, <1>8, <2>1, Dispatch, Zenon
<1> QED
  BY <1>4, <1>7, <1>8

\* recv_op completes.
LEMMA RecvCompleteStep ==
  ASSUME Inv, RecvComplete, UNCHANGED clientVars
  PROVE  Inv'
<1>1. PICK H, A : /\ State(H, A) /\ ~ Waiting /\ ~ WriteStep(self) /\ Fits(self.k, H)
                  /\ EpHeld(ep, H) /\ ClHeld(cl, H) /\ AppHeld(app)
  BY Runs DEF RecvComplete, RecvAt, ContFns
<1>2. UNCHANGED <<setup, strm, net, ep, cl, app>>
  BY DEF RecvComplete, clientVars
<1> DEFINE G(ec, p) == [Resume(self.k, ec) EXCEPT !.pkt = p]
<1>3. \A ec, p : Fits(G(ec, p), H)
  BY <1>1, ResumeFits, FitsVariant
<1>4. \E g, q : Fits(g, H) /\ q \in {<<>>, <<[fn |-> "from_queue"]>>} /\ (ex' = Then(<<g>>) \/ ex' = Then(q \o <<g>>))
  <2>1. CASE self.err # "ok"
    <3>1. ex' = Then(<<G(self.err, NoPacket)>>)
      BY <2>1 DEF RecvComplete
    <3> QED
      BY <1>3, <3>1, Zenon
  <2>2. CASE ~ (self.err # "ok")
    <3>1. ex' = Then((IF self.resend THEN <<[fn |-> "from_queue"]>> ELSE <<>>) \o <<G("ok", self.pkt)>>)
      BY <2>2 DEF RecvComplete
    <3> HIDE DEF G
    <3> QED
      BY <1>3, <3>1
  <2> QED
    BY <2>1, <2>2
<1>5. PICK g, q : Fits(g, H) /\ q \in {<<>>, <<[fn |-> "from_queue"]>>} /\ (ex' = Then(<<g>>) \/ ex' = Then(q \o <<g>>))
  BY <1>4
<1> DEFINE f == [fn |-> "from_queue"]
           N == {g, f}
<1>6. \A x \in N : Fits(x, H)
  BY <1>5, PlainFit
<1>7. q \in {<<>>, <<f>>}
  BY <1>5
<1> HIDE DEF f
<1>8. <<g>> \in Seq(H \cup N) /\ q \o <<g>> \in Seq(H \cup N) /\ <<>> \in Seq(H \cup N)
  <2>1. g \in H \cup N /\ f \in H \cup N
    OBVIOUS
  <2> DEFINE S == H \cup N
  <2>2. g \in S /\ f \in S
    BY <2>1
  <2> HIDE DEF S
  <2>3. <<g>> \in Seq(S) /\ <<f>> \in Seq(S) /\ <<>> \in Seq(S)
    BY <2>2
  <2>4. q \o <<g>> \in Seq(S)
    <3>1. q \in Seq(S)
      BY <1>7, <2>3, Zenon
    <3> QED
      BY <2>3, <3>1
  <2> QED
    BY <2>3, <2>4 DEF S
<1> HIDE DEF N
<1> QED
  BY <1>1, <1>2, <1>5, <1>6, <1>8, Dispatch, Zenon

\* send_publish_from_queue()
LEMMA FromQueueStep ==
  ASSUME Inv, SendPublishFromQueue \/ QueuePop, UNCHANGED clientVars
  PROVE  Inv'
<1>1. PICK H, A : /\ State(H, A) /\ ~ Waiting /\ ~ WriteStep(self)
                  /\ EpHeld(ep, H) /\ ClHeld(cl, H) /\ AppHeld(app)
  BY Runs DEF SendPublishFromQueue, QueuePop
<1>2. UNCHANGED <<setup, strm, net, cl, app>>
  BY DEF SendPublishFromQueue, QueuePop, clientVars
<1>3. EpHeld(ep', H)
  <2>1. ep' = ep \/ ep' = [ep EXCEPT !.pubq = Tail(@)]
    BY DEF SendPublishFromQueue, QueuePop
  <2> QED
    BY <1>1, <2>1, Zenon DEF EpHeld
<1>4. ex' = Then(<<>>) \/ ex' = Then(<<[fn |-> "queue_loop"]>>)
  BY DEF SendPublishFromQueue, QueuePop
<1>5. Fits([fn |-> "queue_loop"], H)
  BY PlainFit
<1> QED
  BY <1>1, <1>2, <1>3, <1>4, <1>5, DispatchOne, DispatchNone

\* Its loop sends the packets of the queue.
LEMMA QueueLoopStep ==
  ASSUME Inv, QueueLoop, UNCHANGED clientVars
  PROVE  Inv'
<1>1. PICK H, A : /\ State(H, A) /\ ~ Waiting /\ ~ WriteStep(self) /\ self \in H
                  /\ EpHeld(ep, H) /\ ClHeld(cl, H) /\ AppHeld(app)
  BY Runs DEF QueueLoop
<1>2. UNCHANGED <<setup, strm, net, ep, cl, app>>
  BY DEF QueueLoop, clientVars
<1> DEFINE G == H \cup {detached}
           s == send(detached, Head(ep.pubq))
           f == [fn |-> "queue_pop"]
           N == {s, f}
<1>3. State(G, A) /\ detached \in G /\ H \subseteq G
  BY <1>1, Grow, PlainFit, Zenon
<1> HIDE DEF G
<1>4. EpHeld(ep', G) /\ ClHeld(cl', G) /\ AppHeld(app')
  BY <1>1, <1>2, <1>3, MembersGrow, Zenon
<1>5. \A x \in N : Fits(x, G)
  BY <1>3, PlainFit, ConstructorsFit, Zenon
<1>6. ex' = Then(<<>>) \/ ex' = Then(<<s, f, self>>)
  BY DEF QueueLoop
<1> HIDE DEF s, f
<1>7. <<>> \in Seq(G \cup N) /\ <<s, f, self>> \in Seq(G \cup N)
  BY <1>1, <1>3
<1> HIDE DEF N
<1> QED
  BY <1>1, <1>2, <1>3, <1>4, <1>5, <1>6, <1>7, Dispatch, Zenon
-----------------------------------------------------------------------------
(***************************************************************************)
(* The steps of the write queue.                                           *)
(***************************************************************************)
\* The handlers and the packets of the next state.
LEMMA Conclude ==
  ASSUME NEW H, NEW A, Closed(H), setup \in Setups, setup' = setup, ex' \in ExType(H, A), strm' \in StreamType(H, A),
         NetHeld(net', A), EpHeld(ep', H), ClHeld(cl', H), AppHeld(app'), OneWriter', Order'
  PROVE  Inv'
<1>1. Closed(H)'
  BY ClosedSame
<1>2. Held(H, A)'
  BY DEF Held, ExType, StreamType, Handlers, Writes, WriteSteps, WirePackets, poll_one, NetHeld, EpHeld, ClHeld, AppHeld
<1> QED
  BY <1>1, <1>2 DEF Inv, Typed

\* What the members of the stream hold.
LEMMA Numbered ==
  ASSUME NEW H, NEW A, strm \in StreamType(H, A), NetHeld(net, A)
  PROVE  /\ strm.queue \in Seq(Writes(H, A)) /\ strm.storing \in Seq(WirePackets(A)) /\ net.wire \in Seq(WirePackets(A))
         /\ Bufs \in Seq(WirePackets(A))
         /\ strm.flight # <<>> => strm.flight[1].w \in Writes(H, A) /\ strm.flight[1].bufs = Bufs
         /\ \A i \in DOMAIN strm.queue : /\ strm.queue[i] \in Writes(H, A) /\ strm.queue[i].p \in WirePackets(A)
                                         /\ strm.queue[i].p.n \in Nat /\ strm.queue[i].bulk \in BOOLEAN
         /\ \A i \in DOMAIN strm.storing : strm.storing[i].n \in Nat
         /\ \A i \in DOMAIN net.wire : net.wire[i].n \in Nat
         /\ \A i \in DOMAIN Bufs : Bufs[i].n \in Nat
         /\ strm.issued \in Nat /\ strm.open \in BOOLEAN /\ strm.working \in BOOLEAN
<1> DEFINE W == Writes(H, A) P == WirePackets(A) F == [w : W, bufs : Seq(P)]
<1>1. /\ strm.queue \in Seq(W) /\ strm.storing \in Seq(P) /\ net.wire \in Seq(P) /\ strm.flight \in Seq(F)
      /\ strm.issued \in Nat /\ strm.open \in BOOLEAN /\ strm.working \in BOOLEAN
  BY DEF StreamType, NetHeld
<1>2. \A p \in P : p.n \in Nat
  BY DEF WirePackets
<1>3. \A w \in W : w.p \in P /\ w.bulk \in BOOLEAN
  BY DEF Writes
<1>4. \A f \in F : f.w \in W /\ f.bufs \in Seq(P)
  OBVIOUS
<1> HIDE DEF W, P, F
<1>5. strm.flight # <<>> => strm.flight[1].w \in W /\ strm.flight[1].bufs \in Seq(P)
  BY <1>1, <1>4, SeqElement
<1>6. Bufs \in Seq(P)
  BY <1>5 DEF Bufs
<1>7. \A s \in Seq(P) : \A i \in DOMAIN s : s[i].n \in Nat
  BY <1>2, SeqElement
<1>8. \A i \in DOMAIN strm.queue : strm.queue[i] \in W
  BY <1>1, SeqElement
<1> QED
  BY <1>1, <1>2, <1>3, <1>5, <1>6, <1>7, <1>8, Zenon DEF W, P, Bufs

\* run_one: what runs was posted.
LEMMA RunOneStep ==
  ASSUME Inv, RunOne, UNCHANGED <<con, ep, cl, app>>
  PROVE  Inv'
<1>1. PICK H, A : State(H, A)
  BY DEF Inv, Typed, State
<1>2. Closed(H) /\ Held(H, A) /\ OneWriter /\ Order
  BY <1>1 DEF State
<1> DEFINE E == Handlers(H, A)
<1>3. ex.ready \in Seq(E) /\ ex.ready # <<>> /\ Waiting
  BY <1>2 DEF Held, ExType, RunOne
<1> HIDE DEF E
<1>4. ex' = [now |-> <<Head(ex.ready)>>, ready |-> Tail(ex.ready)] /\ UNCHANGED <<setup, strm, net>>
  BY DEF RunOne
<1>5. /\ 1 \in DOMAIN ex.ready /\ Head(ex.ready) = ex.ready[1] /\ Head(ex.ready) \in E /\ Tail(ex.ready) \in Seq(E)
      /\ \A i \in DOMAIN Tail(ex.ready) : i \in Nat /\ i # 0 /\ i + 1 \in DOMAIN ex.ready /\ Tail(ex.ready)[i] = ex.ready[i + 1]
  BY <1>3
<1>6. ex' \in ExType(H, A)
  <2>1. <<Head(ex.ready)>> \in Seq(E)
    BY <1>5
  <2> QED
    BY <1>4, <1>5, <2>1, Zenon DEF ExType, E
<1>7. OneWriter'
  <2>1. self' = ex.ready[1] /\ ex'.now = <<ex.ready[1]>> /\ ex'.ready = Tail(ex.ready)
    BY <1>4, <1>5 DEF self
  <2>2. \A i \in DOMAIN ex'.now : i = 1
    BY <2>1
  <2>3. \A i, j \in DOMAIN ex'.ready : WriteStep(ex'.ready[i]) /\ WriteStep(ex'.ready[j]) => i = j
    BY <1>2, <1>5, <2>1 DEF OneWriter
  <2>4. ~ NoWriteStep(ex'.ready) => ~ NoWriteStep(ex.ready)
    BY <1>5, <2>1 DEF NoWriteStep
  <2>5. WriteStep(self') => NoWriteStep(ex'.ready) /\ ~ NoWriteStep(ex.ready)
    <3>1. \A i \in DOMAIN ex'.ready : i + 1 # 1 /\ i + 1 \in DOMAIN ex.ready /\ ex'.ready[i] = ex.ready[i + 1]
      BY <1>5, <2>1
    <3>2. \A i, j \in DOMAIN ex.ready : WriteStep(ex.ready[i]) /\ WriteStep(ex.ready[j]) => i = j
      BY <1>2, Zenon DEF OneWriter
    <3> QED
      BY <1>5, <2>1, <3>1, <3>2, Zenon DEF NoWriteStep
  <2>6. ~ (~ strm.working /\ strm.queue # <<>>)
    BY <1>2, <1>3 DEF OneWriter, Running, Waiting
  <2>7. \A i \in DOMAIN ex'.now : i > 1 => ~ WriteStep(ex'.now[i])
    BY <2>2
  <2>8. /\ ~ NoWriteStep(ex.ready) => strm.flight = <<>> /\ strm.working
        /\ strm.flight # <<>> => Len(strm.flight) = 1 /\ strm.open /\ strm.working
    BY <1>2, Zenon DEF OneWriter
  <2>9. strm' = strm
    BY <1>4, Zenon
  <2> QED
    BY <2>3, <2>4, <2>5, <2>6, <2>7, <2>8, <2>9, Zenon DEF OneWriter, WriteStep, NoWriteStep
<1>8. Order'
  BY <1>2, <1>4, OrderSame DEF SameOrder
<1>9. strm' \in StreamType(H, A) /\ NetHeld(net', A) /\ EpHeld(ep', H) /\ ClHeld(cl', H) /\ AppHeld(app') /\ setup \in Setups
  BY <1>2, <1>4, Zenon DEF Held
<1> QED
  BY <1>2, <1>4, <1>6, <1>7, <1>8, <1>9, Conclude, Zenon

\* An executor on which no handler continues the write queue.
LEMMA NoWriter ==
  ASSUME NEW H, NEW A, Closed(H), Held(H, A), OneWriter, ~ Waiting, NEW hs \in Seq(H), ex'.now = hs \o Tail(ex.now)
  PROVE  \A i \in DOMAIN ex'.now : ~ WriteStep(ex'.now[i])
<1> DEFINE E == Handlers(H, A)
<1>1. ex.now \in Seq(E) /\ ex.now # <<>>
  BY DEF Held, ExType, Waiting
<1>2. \A h \in H : ~ WriteStep(h)
  BY DEF Closed, Fits, WriteStep, PlainFns, ContFns
<1> HIDE DEF E
<1>3. \A i \in DOMAIN Tail(ex.now) : ~ WriteStep(Tail(ex.now)[i])
  <2>1. \A i \in DOMAIN Tail(ex.now) : i + 1 \in DOMAIN ex.now /\ i + 1 > 1 /\ Tail(ex.now)[i] = ex.now[i + 1]
    BY <1>1
  <2> QED
    BY <2>1, Zenon DEF OneWriter
<1>4. Tail(ex.now) \in Seq(E)
  BY <1>1
<1>5. \A i \in DOMAIN hs : ~ WriteStep(hs[i])
  BY <1>2
<1>6. \A i \in DOMAIN (hs \o Tail(ex.now)) :
        \/ i \in DOMAIN hs /\ (hs \o Tail(ex.now))[i] = hs[i]
        \/ i - Len(hs) \in DOMAIN Tail(ex.now) /\ (hs \o Tail(ex.now))[i] = Tail(ex.now)[i - Len(hs)]
  BY <1>4, ConcatElements
<1> QED
  BY <1>3, <1>5, <1>6, Zenon

\* A handler that continues the write queue is put first.
LEMMA FirstWriter ==
  ASSUME NEW H, NEW A, Closed(H), Held(H, A), OneWriter, ~ Waiting, NEW h \in WriteSteps(H, A), ex'.now = <<h>> \o Tail(ex.now)
  PROVE  /\ ex'.now # <<>> /\ self' = h
         /\ \A i \in DOMAIN ex'.now : i > 1 => ~ WriteStep(ex'.now[i])
<1> DEFINE E == Handlers(H, A)
<1>1. ex.now \in Seq(E) /\ ex.now # <<>>
  BY DEF Held, ExType, Waiting
<1> HIDE DEF E
<1>2. /\ ex'.now # <<>> /\ Head(ex'.now) = h
      /\ \A i \in DOMAIN ex'.now : i > 1 => i \in DOMAIN ex.now /\ ex'.now[i] = ex.now[i]
  BY <1>1
<1> QED
  BY <1>2 DEF self, OneWriter

\* The end of a turn of the executor.
LEMMA NowType ==
  ASSUME NEW H, NEW A, Held(H, A), ~ Waiting, NEW hs \in Seq(Handlers(H, A)), NEW ps \in Seq(Handlers(H, A)),
         ex' = ThenPost(hs, ps) \/ (ex' = Then(hs) /\ ps = <<>>)
  PROVE  ex' \in ExType(H, A) /\ ex'.now = hs \o Tail(ex.now) /\ ex'.ready = ex.ready \o ps
<1> DEFINE E == Handlers(H, A)
<1>1. ex \in [now : Seq(E), ready : Seq(E)] /\ ex.now # <<>>
  BY DEF Held, ExType, Waiting
<1> HIDE DEF E
<1>2. hs \o Tail(ex.now) \in Seq(E) /\ ex.ready \o ps \in Seq(E) /\ ex.ready \o <<>> = ex.ready
  BY <1>1 DEF E
<1>3. ex' = [now |-> hs \o Tail(ex.now), ready |-> ex.ready \o ps]
  <2>1. ex = [now |-> ex.now, ready |-> ex.ready]
    BY <1>1
  <2> QED
    BY <1>2, <2>1, Zenon DEF ThenPost, Then
<1> QED
  BY <1>2, <1>3, Zenon DEF ExType, E

\* An element more.
LEMMA AppendElements ==
  ASSUME NEW S, NEW s \in Seq(S), NEW x
  PROVE  /\ Len(s) \in Nat /\ DOMAIN s = 1 .. Len(s)
         /\ Len(s) + 1 \in DOMAIN Append(s, x) /\ Append(s, x)[Len(s) + 1] = x
         /\ \A i \in DOMAIN s : i \in DOMAIN Append(s, x) /\ Append(s, x)[i] = s[i]
         /\ \A i \in DOMAIN Append(s, x) :
              /\ i \in Nat
              /\ (i \in DOMAIN s /\ Append(s, x)[i] = s[i]) \/ (i = Len(s) + 1 /\ Append(s, x)[i] = x)
OBVIOUS

\* The elements of a sequence joined with one element.
LEMMA JoinElements ==
  ASSUME NEW S, NEW s \in Seq(S), NEW x \in S
  PROVE  \A i \in DOMAIN (s \o <<x>>) : (i \in DOMAIN s /\ (s \o <<x>>)[i] = s[i]) \/ i = Len(s) + 1
OBVIOUS

\* The empty sequence is in order with every other.
LEMMA EmptyOrdered ==
  /\ Increasing(<<>>)
  /\ \A s : /\ UpTo(<<>>, s) /\ Before(<<>>, s) /\ Before(s, <<>>) /\ BeforeQueue(<<>>, s) /\ BeforeQueue(s, <<>>)
            /\ QueueOrdered(<<>>, s)
<1>1. DOMAIN <<>> = {}
  OBVIOUS
<1> QED
  BY <1>1, Zenon DEF Increasing, UpTo, Before, BeforeQueue, QueueOrdered

\* A packet that is the latest is put last.
LEMMA LaterPacket ==
  ASSUME NEW P, NEW s \in Seq(P), NEW n \in Nat, NEW p, p.n = n + 1,
         \A i \in DOMAIN s : s[i].n \in Nat, Increasing(s), UpTo(s, n)
  PROVE  /\ Increasing(Append(s, p)) /\ UpTo(Append(s, p), n + 1)
         /\ \A u : (\A i \in DOMAIN u : u[i].n \in Nat) /\ UpTo(u, n) /\ Before(u, s) => Before(u, Append(s, p))
<1> DEFINE t == Append(s, p)
<1>1. /\ Len(s) \in Nat /\ DOMAIN s = 1 .. Len(s)
      /\ \A i \in DOMAIN t : i \in Nat /\ ((i \in DOMAIN s /\ t[i] = s[i]) \/ (i = Len(s) + 1 /\ t[i] = p))
  BY AppendElements, Zenon
<1> HIDE DEF t
<1>2. Increasing(t)
  <2> SUFFICES ASSUME NEW i \in DOMAIN t, NEW j \in DOMAIN t, i < j
               PROVE  t[i].n < t[j].n
    BY Zenon DEF Increasing
  <2>1. i \in DOMAIN s /\ t[i] = s[i] /\ s[i].n \in Nat /\ s[i].n <= n
    BY <1>1 DEF UpTo
  <2>2. CASE j \in DOMAIN s /\ t[j] = s[j]
    BY <2>1, <2>2, Zenon DEF Increasing
  <2>3. CASE t[j] = p
    BY <2>1, <2>3
  <2> QED
    BY <1>1, <2>2, <2>3, Zenon
<1>3. UpTo(t, n + 1)
  BY <1>1 DEF UpTo
<1>4. ASSUME NEW u, \A i \in DOMAIN u : u[i].n \in Nat, UpTo(u, n), Before(u, s)
      PROVE  Before(u, t)
  <2>1. \A i \in DOMAIN u : u[i].n < p.n
    BY <1>4 DEF UpTo
  <2> QED
    BY <1>1, <1>4, <2>1, Zenon DEF Before
<1> QED
  BY <1>2, <1>3, <1>4, Zenon DEF t

\* A write operation whose packet is the latest is queued.
LEMMA LaterWrite ==
  ASSUME NEW W, NEW q \in Seq(W), NEW n \in Nat, NEW w, w.p.n = n + 1,
         \A i \in DOMAIN q : q[i].p.n \in Nat, QueueOrdered(q, n)
  PROVE  /\ QueueOrdered(Append(q, w), n + 1)
         /\ \A u : (\A i \in DOMAIN u : u[i].n \in Nat) /\ UpTo(u, n) /\ BeforeQueue(u, q) => BeforeQueue(u, Append(q, w))
<1> DEFINE t == Append(q, w)
<1>1. /\ Len(q) \in Nat /\ DOMAIN q = 1 .. Len(q)
      /\ \A i \in DOMAIN t : i \in Nat /\ ((i \in DOMAIN q /\ t[i] = q[i]) \/ (i = Len(q) + 1 /\ t[i] = w))
  BY AppendElements, Zenon
<1> HIDE DEF t
<1>2. \A i, j \in DOMAIN t : i < j => t[i].p.n < t[j].p.n
  <2> SUFFICES ASSUME NEW i \in DOMAIN t, NEW j \in DOMAIN t, i < j
               PROVE  t[i].p.n < t[j].p.n
    BY Zenon
  <2>1. i \in DOMAIN q /\ t[i] = q[i] /\ q[i].p.n \in Nat /\ q[i].p.n <= n
    BY <1>1 DEF QueueOrdered
  <2>2. CASE j \in DOMAIN q /\ t[j] = q[j]
    BY <2>1, <2>2, Zenon DEF QueueOrdered
  <2>3. CASE t[j] = w
    BY <2>1, <2>3
  <2> QED
    BY <1>1, <2>2, <2>3, Zenon
<1>3. \A i \in DOMAIN t : t[i].p.n <= n + 1
  BY <1>1 DEF QueueOrdered
<1>4. ASSUME NEW u, \A i \in DOMAIN u : u[i].n \in Nat, UpTo(u, n), BeforeQueue(u, q)
      PROVE  BeforeQueue(u, t)
  <2>1. \A i \in DOMAIN u : u[i].n < w.p.n
    BY <1>4 DEF UpTo
  <2> QED
    BY <1>1, <1>4, <2>1, Zenon DEF BeforeQueue
<1> QED
  BY <1>2, <1>3, <1>4, Zenon DEF t, QueueOrdered

Numbers(u, b, st, q) ==
  /\ \A i \in DOMAIN u : u[i].n \in Nat
  /\ \A i \in DOMAIN b : b[i].n \in Nat
  /\ \A i \in DOMAIN st : st[i].n \in Nat
  /\ \A i \in DOMAIN q : q[i].p.n \in Nat

\* The packet of a write operation comes last wherever it is kept.
LEMMA AppendOrdered ==
  ASSUME NEW P, NEW W, NEW u, NEW b, NEW st \in Seq(P), NEW q \in Seq(W), NEW n \in Nat, NEW open, NEW w, w.p.n = n + 1,
         Numbers(u, b, st, q), Ordered(u, b, st, q, n, open)
  PROVE  /\ Ordered(u, b, st, Append(q, w), n + 1, open)
         /\ Ordered(u, b, Append(st, w.p), Append(q, w), n + 1, open)
<1> DEFINE q2 == Append(q, w) st2 == Append(st, w.p)
<1>1. QueueOrdered(q, n) /\ Increasing(st) /\ UpTo(st, n)
  BY Zenon DEF Ordered
<1>2. /\ QueueOrdered(q2, n + 1)
      /\ UpTo(b, n) /\ BeforeQueue(b, q) => BeforeQueue(b, q2)
      /\ UpTo(u, n) /\ BeforeQueue(u, q) => BeforeQueue(u, q2)
  BY <1>1, LaterWrite, Zenon DEF Numbers
<1>3. /\ Increasing(st2) /\ UpTo(st2, n + 1)
      /\ UpTo(b, n) /\ Before(b, st) => Before(b, st2)
      /\ UpTo(u, n) /\ Before(u, st) => Before(u, st2)
  BY <1>1, LaterPacket, Zenon DEF Numbers
<1> HIDE DEF q2, st2
<1>4. /\ UpTo(st, n) => UpTo(st, n + 1)
      /\ UpTo(b, n) => UpTo(b, n + 1)
      /\ UpTo(u, n) => UpTo(u, n + 1)
  BY DEF UpTo, Numbers
<1>5. Ordered(u, b, st, q2, n + 1, open)
  BY <1>2, <1>4, Zenon DEF Ordered
<1>6. Ordered(u, b, st2, q2, n + 1, open)
  BY <1>2, <1>3, <1>4, Zenon DEF Ordered
<1> QED
  BY <1>5, <1>6 DEF q2, st2

\* So it does in the list of what is stored and queued.
LEMMA AppendBelongs ==
  ASSUME NEW P, NEW W, NEW p, NEW b, NEW st \in Seq(P), NEW q \in Seq(W), NEW open, NEW working, NEW bulk, NEW w,
         Belongs(p, b, st, q, open, working, bulk)
  PROVE  /\ ~ w.bulk /\ (~ bulk \/ ~ working) => Belongs(p, b, st, Append(q, w), open, working, bulk)
         /\ w.bulk /\ bulk /\ open => Belongs(p, b, Append(st, w.p), Append(q, w), open, working, bulk)
<1> DEFINE q2 == Append(q, w) st2 == Append(st, w.p)
<1>1. /\ Len(q) + 1 \in DOMAIN q2 /\ q2[Len(q) + 1] = w
      /\ \A j \in DOMAIN q : j \in DOMAIN q2 /\ q2[j] = q[j]
  OBVIOUS
<1>2. \A j \in DOMAIN q2 : (j \in DOMAIN q /\ q2[j] = q[j]) \/ q2[j] = w
  OBVIOUS
<1>3. \A i \in DOMAIN st2 : (i \in DOMAIN st /\ st2[i] = st[i]) \/ st2[i] = w.p
  OBVIOUS
<1> HIDE DEF q2, st2
<1>4. \A i \in DOMAIN st : \E j \in DOMAIN q2 : q2[j].bulk /\ q2[j].p = st[i]
  <2> TAKE i \in DOMAIN st
  <2>1. PICK j \in DOMAIN q : q[j].bulk /\ q[j].p = st[i]
    BY Zenon DEF Belongs
  <2> QED
    BY <1>1, <2>1, Zenon
<1>5. \A i \in DOMAIN b : b[i] = p \/ \E j \in DOMAIN q2 : q2[j].p = b[i]
  <2> TAKE i \in DOMAIN b
  <2>1. CASE b[i] = p
    BY <2>1, Zenon
  <2>2. CASE \E j \in DOMAIN q : q[j].p = b[i]
    BY <1>1, <2>2, Zenon
  <2> QED
    BY <2>1, <2>2, Zenon DEF Belongs
<1>6. ~ w.bulk /\ (~ bulk \/ ~ working) => Belongs(p, b, st, q2, open, working, bulk)
  <2> SUFFICES ASSUME ~ w.bulk, ~ bulk \/ ~ working PROVE Belongs(p, b, st, q2, open, working, bulk)
    BY Zenon
  <2>1. ~ open => st = <<>>
    BY Zenon DEF Belongs
  <2>2. ~ bulk => \A j \in DOMAIN q2 : ~ q2[j].bulk
    BY <1>2, Zenon DEF Belongs
  <2>3. bulk => \A j \in DOMAIN q2 : q2[j].bulk \/ ~ working
    BY Zenon
  <2> QED
    BY <1>4, <1>5, <2>1, <2>2, <2>3, Zenon DEF Belongs
<1>7. w.bulk /\ bulk /\ open => Belongs(p, b, st2, q2, open, working, bulk)
  <2> SUFFICES ASSUME w.bulk, bulk, open PROVE Belongs(p, b, st2, q2, open, working, bulk)
    BY Zenon
  <2>1. \A j \in DOMAIN q2 : q2[j].bulk \/ ~ working
    BY <1>2, Zenon DEF Belongs
  <2>2. \A i \in DOMAIN st2 : \E j \in DOMAIN q2 : q2[j].bulk /\ q2[j].p = st2[i]
    BY <1>1, <1>3, <1>4, Zenon
  <2> QED
    BY <1>5, <2>1, <2>2, Zenon DEF Belongs
<1> QED
  BY <1>6, <1>7, Zenon DEF q2, st2

\* With the packets of the client in order, the next packet comes last.
LEMMA NextOrdered ==
  ASSUME NEW H, NEW A, strm \in StreamType(H, A), NetHeld(net, A), InOrder, NEW w, w.p.n = strm.issued + 1
  PROVE  /\ Ordered(net.wire, Bufs, strm.storing, Append(strm.queue, w), strm.issued + 1, strm.open)
         /\ Ordered(net.wire, Bufs, Append(strm.storing, w.p), Append(strm.queue, w), strm.issued + 1, strm.open)
<1>1. /\ strm.queue \in Seq(Writes(H, A)) /\ strm.storing \in Seq(WirePackets(A)) /\ strm.issued \in Nat
      /\ Numbers(net.wire, Bufs, strm.storing, strm.queue)
  BY Numbered, Zenon DEF Numbers
<1> QED
  BY <1>1, AppendOrdered, Zenon DEF InOrder

\* The packet comes last wherever it is kept.
LEMMA AppendedOrder ==
  ASSUME NEW H, NEW A, strm \in StreamType(H, A), NetHeld(net, A), Order, NEW w, NEW bulk \in BOOLEAN,
         w.bulk = bulk, w.p.n = strm.issued + 1, bulk => setup.bulk /\ strm.working, ~ bulk => ~ setup.bulk \/ ~ strm.working,
         strm'.queue = Append(strm.queue, w), strm'.storing = IF bulk THEN Append(strm.storing, w.p) ELSE strm.storing,
         strm'.issued = strm.issued + 1, strm'.open = strm.open, strm'.working = strm.working, strm'.flight = strm.flight,
         net'.wire = net.wire, net'.stale = (net.stale \/ (bulk /\ ~ strm.open)), setup' = setup
  PROVE  Order'
<1> SUFFICES ASSUME ~ net'.stale PROVE InOrder' /\ Stores'
  BY Zenon DEF Order
<1>1. InOrder /\ Stores /\ (bulk => strm.open)
  BY Zenon DEF Order
<1>2. Bufs' = Bufs
  BY Zenon DEF Bufs
<1> DEFINE q == strm.queue st == strm.storing W == Writes(H, A) P == WirePackets(A)
<1>3. q \in Seq(W) /\ st \in Seq(P)
  BY Numbered, Zenon
<1>4. /\ Ordered(net.wire, Bufs, st, Append(q, w), strm.issued + 1, strm.open)
      /\ Ordered(net.wire, Bufs, Append(st, w.p), Append(q, w), strm.issued + 1, strm.open)
  BY <1>1, NextOrdered, Zenon
<1>5. InOrder'
  BY <1>2, <1>4, Zenon DEF InOrder
<1> DEFINE p == strm.flight[1].w.p
<1>6. /\ ~ w.bulk /\ (~ setup.bulk \/ ~ strm.working) =>
           Belongs(p, Bufs, st, Append(q, w), strm.open, strm.working, setup.bulk)
      /\ w.bulk /\ setup.bulk /\ strm.open =>
           Belongs(p, Bufs, Append(st, w.p), Append(q, w), strm.open, strm.working, setup.bulk)
  BY <1>1, <1>3, AppendBelongs, Zenon DEF Stores
<1>7. Stores'
  BY <1>1, <1>2, <1>6, Zenon DEF Stores
<1> QED
  BY <1>5, <1>7

\* The handler that runs next is the first.
LEMMA FirstNow ==
  ASSUME NEW H, NEW A, ex' \in ExType(H, A), ex'.now # <<>>
  PROVE  1 \in DOMAIN ex'.now /\ self' = ex'.now[1]
<1> DEFINE E == Handlers(H, A)
<1>1. ex'.now \in Seq(E)
  BY DEF ExType
<1> HIDE DEF E
<1> QED
  BY <1>1 DEF self

\* The packets that may be on their way.
LEMMA MorePackets ==
  ASSUME NEW H, NEW A, State(H, A), NEW p
  PROVE  State(H, A \cup {p})
<1>1. H \subseteq H /\ A \subseteq A \cup {p}
  OBVIOUS
<1> QED
  BY <1>1, HeldGrows DEF State

\* async_write_packet(): the operation is queued, and the queue begins to work if it did not.
LEMMA WriteStarts ==
  ASSUME Inv, async_write_packet, UNCHANGED <<con, ep, cl, app>>
  PROVE  Inv'
<1>1. PICK H, B : /\ State(H, B) /\ ~ Waiting /\ ~ WriteStep(self) /\ self.k \in H
                  /\ EpHeld(ep, H) /\ ClHeld(cl, H) /\ AppHeld(app)
  BY Runs DEF async_write_packet, ContFns
<1> DEFINE A == B \cup {self.p}
<1>2. Closed(H) /\ Held(H, A) /\ OneWriter /\ Order /\ self.p \in A
  BY <1>1, MorePackets, Zenon DEF State
<1> HIDE DEF A
<1>3. strm \in StreamType(H, A) /\ NetHeld(net, A) /\ setup \in Setups
  BY <1>2 DEF Held
<1> DEFINE bulk == setup.bulk /\ ~ immediate_executable
           p == [p |-> self.p, n |-> strm.issued + 1]
           w == [k |-> self.k, p |-> p, bulk |-> bulk]
           storing == IF bulk THEN Append(strm.storing, p) ELSE strm.storing
<1>4. strm' = [strm EXCEPT !.queue = Append(@, w), !.storing = storing, !.issued = @ + 1]
  BY DEF async_write_packet
<1>5. net' = [net EXCEPT !.stale = @ \/ (bulk /\ ~ strm.open)] /\ setup' = setup
  BY DEF async_write_packet
<1>6. ex' = Then(IF strm.working THEN <<>> ELSE <<poll_one>>)
  BY <1>3 DEF async_write_packet, immediate_executable, StreamType
<1>7. strm.working \in BOOLEAN /\ (bulk => setup.bulk /\ strm.working) /\ (~ bulk => ~ setup.bulk \/ ~ strm.working) /\ bulk \in BOOLEAN
  BY <1>3 DEF immediate_executable, StreamType
<1> HIDE DEF bulk
<1>8. strm' \in StreamType(H, A)
  <2>1. p \in WirePackets(A)
    BY <1>2, <1>3 DEF WirePackets, StreamType
  <2>2. w \in Writes(H, A)
    BY <1>1, <1>7, <2>1 DEF Writes
  <2>3. Append(strm.queue, w) \in Seq(Writes(H, A)) /\ storing \in Seq(WirePackets(A)) /\ strm.issued + 1 \in Nat
    <3> HIDE DEF w, p
    <3>1. strm.queue \in Seq(Writes(H, A)) /\ strm.storing \in Seq(WirePackets(A)) /\ strm.issued \in Nat
      BY <1>3, Numbered, Zenon
    <3>2. ASSUME NEW S, NEW s \in Seq(S), NEW x \in S PROVE Append(s, x) \in Seq(S)
      BY <3>2
    <3>3. Append(strm.queue, w) \in Seq(Writes(H, A)) /\ Append(strm.storing, p) \in Seq(WirePackets(A))
      BY <2>1, <2>2, <3>1, <3>2, Zenon
    <3>4. strm.issued + 1 \in Nat
      BY <3>1
    <3> QED
      BY <3>1, <3>3, <3>4, Zenon
  <2> HIDE DEF w, p, storing
  <2> QED
    BY <1>3, <1>4, <2>3, Zenon DEF StreamType
<1>9. /\ NetHeld(net', A) /\ net'.wire = net.wire /\ net'.stale = (net.stale \/ (bulk /\ ~ strm.open))
  BY <1>3, <1>5, <1>7, Zenon DEF NetHeld
<1>10. /\ strm'.queue = Append(strm.queue, w) /\ strm'.storing = storing /\ strm'.issued = strm.issued + 1
       /\ strm'.open = strm.open /\ strm'.working = strm.working /\ strm'.flight = strm.flight
  <2> HIDE DEF w, p, storing
  <2> QED
    BY <1>3, <1>4, Zenon DEF StreamType
<1>11. Order'
  <2>1. w.bulk = bulk /\ w.p = p /\ w.p.n = strm.issued + 1
    OBVIOUS
  <2> HIDE DEF w, p
  <2> QED
    BY <1>2, <1>3, <1>5, <1>7, <1>9, <1>10, <2>1, AppendedOrder
<1> DEFINE hs == IF strm.working THEN <<>> ELSE <<poll_one>>
<1>12. ex' \in ExType(H, A) /\ ex'.now = hs \o Tail(ex.now) /\ ex'.ready = ex.ready
  <2>1. hs \in Seq(Handlers(H, A)) /\ <<>> \in Seq(Handlers(H, A))
    <3>1. poll_one \in Handlers(H, A)
      BY DEF Handlers, WriteSteps
    <3> QED
      BY <3>1
  <2>2. ex.ready \o <<>> = ex.ready
    BY <1>2 DEF Held, ExType
  <2> HIDE DEF hs
  <2> QED
    BY <1>1, <1>2, <1>6, <2>1, <2>2, NowType, Zenon DEF hs
<1>13. OneWriter'
  <2>1. CASE strm.working
    <3>1. <<>> \in Seq(H) /\ ex'.now = <<>> \o Tail(ex.now)
      BY <1>12, <2>1
    <3>2. \A i \in DOMAIN ex'.now : ~ WriteStep(ex'.now[i])
      BY <1>1, <1>2, <3>1, NoWriter, Zenon
    <3>3. ex'.now # <<>> => ~ WriteStep(self')
      BY <1>12, <3>2, FirstNow, Zenon
    <3> QED
      BY <1>2, <1>10, <1>12, <2>1, <3>2, <3>3 DEF OneWriter, WriteStep, NoWriteStep
  <2>2. CASE ~ strm.working
    <3>1. ex'.now = <<poll_one>> \o Tail(ex.now) /\ poll_one \in WriteSteps(H, A)
      BY <1>12, <2>2 DEF WriteSteps
    <3>2. ex'.now # <<>> /\ self' = poll_one /\ \A i \in DOMAIN ex'.now : i > 1 => ~ WriteStep(ex'.now[i])
      BY <1>1, <1>2, <3>1, FirstWriter
    <3>3. strm.queue = <<>> /\ strm.flight = <<>> /\ NoWriteStep(ex.ready)
      BY <1>1, <1>2, <2>2 DEF OneWriter, Running, WriteStep
    <3>4. strm'.queue = <<w>>
      <4>1. \A x : Append(<<>>, x) = <<x>>
        OBVIOUS
      <4> QED
        BY <1>10, <3>3, <4>1, Zenon
    <3>5. strm'.queue # <<>> /\ Len(strm'.queue) = 1
      BY <3>4
    <3> QED
      BY <1>2, <1>10, <1>12, <2>2, <3>2, <3>3, <3>5 DEF OneWriter, WriteStep, NoWriteStep, Running, poll_one
  <2> QED
    BY <1>7, <2>1, <2>2
<1> QED
  BY <1>1, <1>2, <1>3, <1>5, <1>8, <1>9, <1>11, <1>12, <1>13, Conclude, Zenon

\* The handlers of a state in which the write queue goes on.
LEMMA WriterRuns ==
  ASSUME Inv, NEW fn, Running(fn), fn \in {"poll_one", "written"}
  PROVE  \E H, A : /\ State(H, A) /\ ~ Waiting /\ WriteStep(self) /\ self \in WriteSteps(H, A) /\ self.fn = fn
                   /\ NoWriteStep(ex.ready) /\ strm.flight = <<>> /\ Bufs = <<>>
                   /\ strm.working \/ (fn = "poll_one" /\ strm.queue # <<>>)
                   /\ ~ strm.working /\ strm.queue # <<>> => Len(strm.queue) = 1
<1>1. PICK H, A : State(H, A)
  BY DEF Inv, Typed, State
<1>2. Closed(H) /\ Held(H, A) /\ OneWriter
  BY <1>1 DEF State
<1>3. ex.now \in Seq(Handlers(H, A)) /\ ex.now # <<>> /\ self.fn = fn /\ WriteStep(self) /\ ~ Waiting
  BY <1>2 DEF Held, ExType, Running, WriteStep, Waiting
<1>4. self \in Handlers(H, A)
  BY <1>3, SeqElement DEF self
<1>5. self \in WriteSteps(H, A)
  BY <1>2, <1>3, <1>4 DEF Handlers, Closed, Fits, WriteStep, PlainFns, ContFns
<1>6. /\ NoWriteStep(ex.ready) /\ strm.flight = <<>> /\ (strm.working \/ (fn = "poll_one" /\ strm.queue # <<>>))
      /\ ~ strm.working /\ strm.queue # <<>> => Len(strm.queue) = 1
  BY <1>2, <1>3 DEF OneWriter
<1>7. Bufs = <<>>
  BY <1>6 DEF Bufs
<1> QED
  BY <1>1, <1>3, <1>5, <1>6, <1>7, Zenon

\* The members that no step of the write queue touches.
LEMMA OthersHeld ==
  ASSUME NEW H, NEW A, NEW G, NEW B, H \subseteq G, A \subseteq B, Held(H, A), UNCHANGED <<setup, ep, cl, app>>
  PROVE  setup \in Setups /\ EpHeld(ep', G) /\ ClHeld(cl', G) /\ AppHeld(app')
BY MembersGrow, Zenon DEF Held

\* A sequence without its head.
LEMMA TailElements ==
  ASSUME NEW S, NEW s \in Seq(S), s # <<>>
  PROVE  /\ \A j \in DOMAIN Tail(s) : j \in Int /\ j > 0 /\ j + 1 \in DOMAIN s /\ Tail(s)[j] = s[j + 1]
         /\ \A j \in DOMAIN s : j \in Int /\ (j = 1 \/ (j - 1 \in DOMAIN Tail(s) /\ Tail(s)[j - 1] = s[j]))
         /\ 1 \in DOMAIN s /\ Head(s) = s[1]
         /\ Len(s) = 1 => \A j \in DOMAIN Tail(s) : FALSE
<1>1. /\ Len(s) \in Nat /\ Len(s) > 0 /\ DOMAIN s = 1 .. Len(s) /\ DOMAIN Tail(s) = 1 .. (Len(s) - 1)
      /\ \A j \in 1 .. (Len(s) - 1) : Tail(s)[j] = s[j + 1]
      /\ Head(s) = s[1]
  OBVIOUS
<1>2. \A j \in DOMAIN s : j = 1 \/ (j - 1 \in DOMAIN Tail(s) /\ Tail(s)[j - 1] = s[j])
  BY <1>1
<1>3. \A j \in DOMAIN Tail(s) : j \in Int /\ j > 0 /\ j + 1 \in DOMAIN s /\ Tail(s)[j] = s[j + 1]
  BY <1>1
<1> QED
  BY <1>1, <1>2, <1>3

\* The queue without its head: nothing that is in order gets out of it.
LEMMA DropOrdered ==
  ASSUME NEW W, NEW q \in Seq(W), q # <<>>, NEW u, NEW b, NEW st, NEW n, NEW open, Ordered(u, b, st, q, n, open)
  PROVE  /\ Ordered(u, b, st, Tail(q), n, open) /\ q[1].p.n <= n
         /\ \A j \in DOMAIN Tail(q) : q[1].p.n < Tail(q)[j].p.n
<1> DEFINE t == Tail(q)
<1>1. /\ \A j \in DOMAIN t : j \in Int /\ j > 0 /\ j + 1 \in DOMAIN q /\ t[j] = q[j + 1]
      /\ 1 \in DOMAIN q
  BY TailElements, Zenon
<1> HIDE DEF t
<1>2. QueueOrdered(q, n)
  BY Zenon DEF Ordered
<1>3. \A i \in DOMAIN t : t[i].p.n <= n /\ q[1].p.n < t[i].p.n
  BY <1>1, <1>2 DEF QueueOrdered
<1>4. \A i, j \in DOMAIN t : i < j => t[i].p.n < t[j].p.n
  <2> SUFFICES ASSUME NEW i \in DOMAIN t, NEW j \in DOMAIN t, i < j
               PROVE  t[i].p.n < t[j].p.n
    BY Zenon
  <2>1. i + 1 < j + 1 /\ i + 1 \in DOMAIN q /\ j + 1 \in DOMAIN q /\ t[i] = q[i + 1] /\ t[j] = q[j + 1]
    BY <1>1
  <2> QED
    BY <1>2, <2>1, Zenon DEF QueueOrdered
<1>5. \A s : BeforeQueue(s, q) => BeforeQueue(s, t)
  BY <1>1, Zenon DEF BeforeQueue
<1>6. Ordered(u, b, st, t, n, open)
  <2>1. QueueOrdered(t, n)
    BY <1>3, <1>4, Zenon DEF QueueOrdered
  <2> QED
    BY <1>5, <2>1, Zenon DEF Ordered
<1>7. q[1].p.n <= n
  BY <1>1, <1>2, Zenon DEF QueueOrdered
<1> QED
  BY <1>3, <1>6, <1>7, Zenon DEF t

\* The rest of the queue, and what is stored.
Dropped(st, q, bulk) ==
  /\ ~ bulk => \A j \in DOMAIN Tail(q) : ~ Tail(q)[j].bulk
  /\ bulk => \A j \in DOMAIN Tail(q) : Tail(q)[j].bulk
  /\ q[1].bulk => bulk
  /\ ~ q[1].bulk => \A i \in DOMAIN st : \E j \in DOMAIN Tail(q) : Tail(q)[j].bulk /\ Tail(q)[j].p = st[i]
  /\ \A i \in DOMAIN st : st[i] = q[1].p \/ \E j \in DOMAIN Tail(q) : Tail(q)[j].p = st[i]

\* What is stored belongs to the rest of the queue when the head is a packet on its own.
LEMMA DropBelongs ==
  ASSUME NEW W, NEW q \in Seq(W), q # <<>>, NEW p, NEW b, NEW st, NEW open, NEW working, NEW bulk,
         working \/ Len(q) = 1, Belongs(p, b, st, q, open, working, bulk)
  PROVE  Dropped(st, q, bulk)
<1> DEFINE t == Tail(q)
<1>1. /\ \A j \in DOMAIN t : j + 1 \in DOMAIN q /\ t[j] = q[j + 1]
      /\ Len(q) = 1 => \A j \in DOMAIN t : FALSE
      /\ 1 \in DOMAIN q
  BY TailElements, Zenon
<1>2. \A j \in DOMAIN q : j = 1 \/ (j - 1 \in DOMAIN t /\ t[j - 1] = q[j])
  BY TailElements, Zenon
<1> HIDE DEF t
<1>3. /\ ~ bulk => \A j \in DOMAIN q : ~ q[j].bulk
      /\ bulk => \A j \in DOMAIN q : q[j].bulk \/ ~ working
      /\ \A i \in DOMAIN st : \E j \in DOMAIN q : q[j].bulk /\ q[j].p = st[i]
  BY Zenon DEF Belongs
<1>4. /\ ~ bulk => \A j \in DOMAIN t : ~ t[j].bulk
      /\ q[1].bulk => bulk
  BY <1>1, <1>3, Zenon
<1>5. bulk => \A j \in DOMAIN t : t[j].bulk
  BY <1>1, <1>3, Zenon
<1>6. ASSUME NEW i \in DOMAIN st
      PROVE  /\ ~ q[1].bulk => \E j \in DOMAIN t : t[j].bulk /\ t[j].p = st[i]
             /\ st[i] = q[1].p \/ \E j \in DOMAIN t : t[j].p = st[i]
  <2>1. PICK j \in DOMAIN q : q[j].bulk /\ q[j].p = st[i]
    BY <1>3, Zenon
  <2> QED
    BY <1>2, <2>1, Zenon
<1> QED
  BY <1>4, <1>5, <1>6, Zenon DEF t, Dropped

\* The packet of the head is written on its own.
LEMMA AloneOrdered ==
  ASSUME NEW W, NEW q \in Seq(W), q # <<>>, NEW u, NEW st, NEW n, NEW open, Ordered(u, <<>>, st, q, n, open), ~ q[1].bulk,
         \A i \in DOMAIN st : \E j \in DOMAIN Tail(q) : Tail(q)[j].p = st[i]
  PROVE  Ordered(u, <<q[1].p>>, st, Tail(q), n, open)
<1> DEFINE t == Tail(q) p == q[1].p b == <<p>>
<1>1. /\ Ordered(u, <<>>, st, t, n, open) /\ p.n <= n
      /\ \A j \in DOMAIN t : p.n < t[j].p.n
  BY DropOrdered, Zenon
<1>2. DOMAIN b = {1} /\ b[1] = p
  OBVIOUS
<1>3. 1 \in DOMAIN q
  BY TailElements, Zenon
<1>4. \A i \in DOMAIN st : \E j \in DOMAIN t : t[j].p = st[i]
  BY Zenon
<1> HIDE DEF t, b
<1>5. Before(b, st)
  BY <1>1, <1>2, <1>4, Zenon DEF Before
<1>6. UpTo(b, n) /\ BeforeQueue(b, t)
  BY <1>1, <1>2, Zenon DEF UpTo, BeforeQueue
<1>7. Increasing(b)
  BY <1>2 DEF Increasing
<1>8. BeforeQueue(u, q) => Before(u, b)
  BY <1>2, <1>3, Zenon DEF BeforeQueue, Before
<1>9. open => Before(u, b)
  BY <1>8, Zenon DEF Ordered
<1>10. Ordered(u, b, st, t, n, open)
  BY <1>1, <1>5, <1>6, <1>7, <1>9, Zenon DEF Ordered
<1> QED
  BY <1>10, Zenon DEF t, b

\* All that is stored is written; no operation that is left has a packet on its own.
LEMMA BulkOrdered ==
  ASSUME NEW W, NEW q \in Seq(W), q # <<>>, NEW u, NEW st, NEW n, NEW open, Ordered(u, <<>>, st, q, n, open),
         \A j \in DOMAIN Tail(q) : Tail(q)[j].bulk
  PROVE  Ordered(u, st, <<>>, Tail(q), n, open)
<1> DEFINE t == Tail(q)
<1>1. Ordered(u, <<>>, st, t, n, open) /\ \A j \in DOMAIN t : t[j].bulk
  BY DropOrdered, Zenon
<1> HIDE DEF t
<1>2. BeforeQueue(st, t)
  BY <1>1, Zenon DEF BeforeQueue
<1>3. Ordered(u, st, <<>>, t, n, open)
  BY <1>1, <1>2, EmptyOrdered, Zenon DEF Ordered
<1> QED
  BY <1>3, Zenon DEF t

\* An operation that is completed without writing: nothing is on its way, and what is stored
\* belongs to others.
LEMMA SkippedOrder ==
  ASSUME NEW H, NEW A, strm \in StreamType(H, A), NetHeld(net, A), Order, strm.queue # <<>>, strm.flight = <<>>,
         strm.working \/ Len(strm.queue) = 1, strm'.queue = Tail(strm.queue), strm.storing = <<>> \/ ~ strm.open,
         strm'.storing = strm.storing, strm'.flight = strm.flight, strm'.open = strm.open, strm'.issued = strm.issued,
         UNCHANGED <<setup, net>>
  PROVE  Order'
<1> SUFFICES ASSUME ~ net.stale PROVE InOrder' /\ Stores'
  BY Zenon DEF Order
<1>1. InOrder /\ Stores /\ strm.queue \in Seq(Writes(H, A))
  BY Numbered, Zenon DEF Order
<1>2. Bufs = <<>> /\ Bufs' = <<>> /\ strm.storing = <<>>
  BY <1>1, Zenon DEF Bufs, Stores, Belongs
<1>3. Ordered(net.wire, Bufs, strm.storing, Tail(strm.queue), strm.issued, strm.open)
  BY <1>1, DropOrdered, Zenon DEF InOrder
<1>4. InOrder'
  BY <1>2, <1>3, Zenon DEF InOrder
<1>5. Dropped(strm.storing, strm.queue, setup.bulk)
  BY <1>1, DropBelongs, Zenon DEF Stores
<1>6. DOMAIN <<>> = {}
  OBVIOUS
<1>7. Stores'
  BY <1>2, <1>5, <1>6, Zenon DEF Stores, Belongs, Dropped
<1> QED
  BY <1>4, <1>7, Zenon

\* A packet is written on its own.
LEMMA AloneOrder ==
  ASSUME NEW H, NEW A, strm \in StreamType(H, A), NetHeld(net, A), Order, strm.queue # <<>>, strm.flight = <<>>,
         strm.working \/ Len(strm.queue) = 1, strm'.queue = Tail(strm.queue), ~ Head(strm.queue).bulk,
         strm'.flight # <<>>, strm'.flight[1].w = Head(strm.queue), strm'.flight[1].bufs = <<Head(strm.queue).p>>,
         strm'.storing = strm.storing, strm'.open = strm.open, strm'.issued = strm.issued, UNCHANGED <<setup, net>>
  PROVE  Order'
<1> SUFFICES ASSUME ~ net.stale PROVE InOrder' /\ Stores'
  BY Zenon DEF Order
<1> DEFINE q == strm.queue w == q[1]
<1>1. InOrder /\ Stores /\ q \in Seq(Writes(H, A))
  BY Numbered, Zenon DEF Order
<1>2. Head(q) = w
  BY <1>1, TailElements, Zenon
<1>3. Bufs = <<>> /\ Bufs' = <<w.p>> /\ strm'.flight[1].w.p = w.p
  BY <1>2, Zenon DEF Bufs
<1>4. Dropped(strm.storing, q, setup.bulk)
  BY <1>1, DropBelongs, Zenon DEF Stores
<1>5. ~ w.bulk
  BY <1>2, Zenon
<1>6. Ordered(net.wire, <<>>, strm.storing, q, strm.issued, strm.open)
  BY <1>1, <1>3, Zenon DEF InOrder
<1>7. \A i \in DOMAIN strm.storing : \E j \in DOMAIN Tail(q) : Tail(q)[j].p = strm.storing[i]
  BY <1>4, <1>5, Zenon DEF Dropped
<1>8. Ordered(net.wire, <<w.p>>, strm.storing, Tail(q), strm.issued, strm.open)
  BY <1>1, <1>5, <1>6, <1>7, AloneOrdered, Zenon
<1>9. InOrder'
  BY <1>3, <1>8, Zenon DEF InOrder
<1>10. DOMAIN <<w.p>> = {1} /\ <<w.p>>[1] = w.p
  OBVIOUS
<1>11. ~ strm.open => strm.storing = <<>>
  BY <1>1, Zenon DEF Stores, Belongs
<1>12. Belongs(w.p, <<w.p>>, strm.storing, Tail(q), strm.open, strm'.working, setup.bulk)
  BY <1>4, <1>5, <1>10, <1>11, Zenon DEF Belongs, Dropped
<1>13. Stores'
  BY <1>3, <1>12, Zenon DEF Stores
<1> QED
  BY <1>9, <1>13, Zenon

\* All that is stored is written.
LEMMA BulkOrder ==
  ASSUME NEW H, NEW A, strm \in StreamType(H, A), NetHeld(net, A), Order, strm.queue # <<>>, strm.flight = <<>>,
         strm.working \/ Len(strm.queue) = 1, strm'.queue = Tail(strm.queue), Head(strm.queue).bulk,
         strm'.flight # <<>>, strm'.flight[1].w = Head(strm.queue), strm'.flight[1].bufs = strm.storing, strm'.storing = <<>>,
         strm'.open = strm.open, strm'.issued = strm.issued, UNCHANGED <<setup, net>>
  PROVE  Order'
<1> SUFFICES ASSUME ~ net.stale PROVE InOrder' /\ Stores'
  BY Zenon DEF Order
<1> DEFINE q == strm.queue w == q[1]
<1>1. InOrder /\ Stores /\ q \in Seq(Writes(H, A))
  BY Numbered, Zenon DEF Order
<1>2. Head(q) = w
  BY <1>1, TailElements, Zenon
<1>3. Bufs = <<>> /\ Bufs' = strm.storing /\ strm'.flight[1].w.p = w.p
  BY <1>2, Zenon DEF Bufs
<1>4. Dropped(strm.storing, q, setup.bulk)
  BY <1>1, DropBelongs, Zenon DEF Stores
<1>5. setup.bulk /\ \A j \in DOMAIN Tail(q) : Tail(q)[j].bulk
  BY <1>2, <1>4, Zenon DEF Dropped
<1>6. Ordered(net.wire, <<>>, strm.storing, q, strm.issued, strm.open)
  BY <1>1, <1>3, Zenon DEF InOrder
<1>7. Ordered(net.wire, strm.storing, <<>>, Tail(q), strm.issued, strm.open)
  BY <1>1, <1>5, <1>6, BulkOrdered, Zenon
<1>8. InOrder'
  BY <1>3, <1>7, Zenon DEF InOrder
<1>9. DOMAIN <<>> = {}
  OBVIOUS
<1>10. Belongs(w.p, strm.storing, <<>>, Tail(q), strm.open, strm'.working, setup.bulk)
  BY <1>4, <1>5, <1>9, Zenon DEF Belongs, Dropped
<1>11. Stores'
  BY <1>3, <1>10, Zenon DEF Stores
<1> QED
  BY <1>8, <1>11, Zenon

\* The step of the write queue that runs ends without another.
LEMMA WriterGone ==
  ASSUME NEW H, NEW A, Closed(H), Held(H, A), OneWriter, ~ Waiting, ex' = Then(<<>>)
  PROVE  /\ ex' \in ExType(H, A) /\ ex'.ready = ex.ready
         /\ \A i \in DOMAIN ex'.now : ~ WriteStep(ex'.now[i])
         /\ ex'.now # <<>> => ~ WriteStep(self')
<1>1. <<>> \in Seq(H) /\ <<>> \in Seq(Handlers(H, A)) /\ ex.ready \o <<>> = ex.ready
  BY DEF Held, ExType
<1>2. ex' \in ExType(H, A) /\ ex'.now = <<>> \o Tail(ex.now) /\ ex'.ready = ex.ready
  BY <1>1, NowType, Zenon
<1>3. \A i \in DOMAIN ex'.now : ~ WriteStep(ex'.now[i])
  BY <1>1, <1>2, NoWriter, Zenon
<1> QED
  BY <1>2, <1>3, FirstNow

\* The queue is empty, and stops.
LEMMA PollEmptyStep ==
  ASSUME Inv, PollEmpty, UNCHANGED <<con, ep, cl, app>>
  PROVE  Inv'
<1>1. PICK H, A : State(H, A) /\ ~ Waiting /\ NoWriteStep(ex.ready) /\ strm.flight = <<>>
  BY WriterRuns DEF PollEmpty
<1>2. Closed(H) /\ Held(H, A) /\ OneWriter /\ Order
  BY <1>1 DEF State
<1>3. strm' = [strm EXCEPT !.working = FALSE] /\ strm.queue = <<>> /\ ex' = Then(<<>>) /\ UNCHANGED <<setup, net>>
  BY DEF PollEmpty
<1>4. strm \in StreamType(H, A) /\ NetHeld(net, A)
  BY <1>2 DEF Held
<1>5. strm' \in StreamType(H, A)
  BY <1>3, <1>4, Zenon DEF StreamType
<1>6. /\ strm'.queue = <<>> /\ strm'.flight = <<>> /\ strm'.storing = strm.storing /\ strm'.issued = strm.issued
      /\ strm'.open = strm.open
  BY <1>1, <1>3, <1>4, Zenon DEF StreamType
<1>7. /\ ex' \in ExType(H, A) /\ ex'.ready = ex.ready
      /\ \A i \in DOMAIN ex'.now : ~ WriteStep(ex'.now[i])
      /\ ex'.now # <<>> => ~ WriteStep(self')
  BY <1>1, <1>2, <1>3, WriterGone
<1>8. OneWriter'
  BY <1>1, <1>6, <1>7 DEF OneWriter, WriteStep, NoWriteStep
<1>9. Order'
  <2>1. Bufs' = Bufs /\ Bufs = <<>>
    BY <1>1, <1>6, Zenon DEF Bufs
  <2>2. InOrder => InOrder'
    BY <1>3, <1>6, <2>1, Zenon DEF InOrder
  <2>3. DOMAIN <<>> = {}
    OBVIOUS
  <2>4. Stores => Stores'
    BY <1>3, <1>6, <2>1, <2>3, Zenon DEF Stores, Belongs
  <2> QED
    BY <1>2, <1>3, <2>2, <2>4, Zenon DEF Order
<1>10. setup \in Setups /\ EpHeld(ep', H) /\ ClHeld(cl', H) /\ AppHeld(app')
  BY <1>2, <1>3, OthersHeld, Zenon
<1> QED
  BY <1>2, <1>3, <1>4, <1>5, <1>7, <1>8, <1>9, <1>10, Conclude, Zenon

\* The head of the queue is taken: its packet is written, or all that is stored, or nothing.
LEMMA PollWriteStep ==
  ASSUME Inv, PollWrite, UNCHANGED <<con, ep, cl, app>>
  PROVE  Inv'
<1>1. PICK H, A : /\ State(H, A) /\ ~ Waiting /\ NoWriteStep(ex.ready) /\ strm.flight = <<>>
                  /\ ~ strm.working /\ strm.queue # <<>> => Len(strm.queue) = 1
  BY WriterRuns DEF PollWrite
<1>2. Closed(H) /\ Held(H, A) /\ OneWriter /\ Order
  BY <1>1 DEF State
<1>3. strm \in StreamType(H, A) /\ NetHeld(net, A) /\ strm.queue # <<>> /\ UNCHANGED <<setup, net>>
  BY <1>2 DEF Held, PollWrite
<1> DEFINE w == Head(strm.queue)
<1>4. w \in Writes(H, A) /\ w.p \in WirePackets(A) /\ w.bulk \in BOOLEAN /\ Tail(strm.queue) \in Seq(Writes(H, A))
  <2>1. strm.queue \in Seq(Writes(H, A))
    BY <1>3, Numbered
  <2>2. w \in Writes(H, A) /\ Tail(strm.queue) \in Seq(Writes(H, A))
    BY <1>3, <2>1, SeqElement
  <2> QED
    BY <2>2 DEF Writes
<1>5. strm.working \/ Len(strm.queue) = 1
  BY <1>1, <1>3
<1> HIDE DEF w
<1>6. setup \in Setups /\ EpHeld(ep', H) /\ ClHeld(cl', H) /\ AppHeld(app')
  BY <1>2, <1>3, OthersHeld, Zenon
<1>7. ASSUME NEW ec \in {"ok", "reset"}, strm.storing = <<>> \/ ~ strm.open,
             strm' = [strm EXCEPT !.working = TRUE, !.queue = Tail(@)], ex' = Then(<<written(w, ec)>>)
      PROVE  Inv'
  <2>1. strm' \in StreamType(H, A)
    BY <1>3, <1>4, <1>7, Zenon DEF StreamType
  <2>2. /\ strm'.working /\ strm'.queue = Tail(strm.queue) /\ strm'.storing = strm.storing /\ strm'.flight = strm.flight
        /\ strm'.open = strm.open /\ strm'.issued = strm.issued
    BY <1>3, <1>7, Zenon DEF StreamType
  <2>3. Order'
    BY <1>1, <1>2, <1>3, <1>5, <1>7, <2>2, SkippedOrder
  <2> DEFINE h == written(w, ec)
  <2>4. h \in WriteSteps(H, A) /\ h.fn = "written"
    BY <1>4, <1>7 DEF WriteSteps, written
  <2> HIDE DEF h
  <2>5. <<h>> \in Seq(Handlers(H, A)) /\ <<>> \in Seq(Handlers(H, A)) /\ ex.ready \o <<>> = ex.ready
    BY <1>2, <2>4 DEF Held, ExType, Handlers
  <2>6. ex' \in ExType(H, A) /\ ex'.now = <<h>> \o Tail(ex.now) /\ ex'.ready = ex.ready
    BY <1>1, <1>2, <1>7, <2>5, NowType, Zenon DEF h
  <2>7. ex'.now # <<>> /\ self' = h /\ \A i \in DOMAIN ex'.now : i > 1 => ~ WriteStep(ex'.now[i])
    BY <1>1, <1>2, <2>4, <2>6, FirstWriter
  <2>8. OneWriter'
    BY <1>1, <1>2, <2>2, <2>4, <2>6, <2>7 DEF OneWriter, WriteStep, NoWriteStep
  <2> QED
    BY <1>2, <1>3, <1>6, <2>1, <2>3, <2>6, <2>8, Conclude, Zenon
<1>8. ASSUME strm.open, ex' = Then(<<>>), strm' \in StreamType(H, A), strm'.working, strm'.open, Len(strm'.flight) = 1, Order'
      PROVE  Inv'
  <2>1. /\ ex' \in ExType(H, A) /\ ex'.ready = ex.ready
        /\ \A i \in DOMAIN ex'.now : ~ WriteStep(ex'.now[i])
        /\ ex'.now # <<>> => ~ WriteStep(self')
    BY <1>1, <1>2, <1>8, WriterGone
  <2>2. OneWriter'
    BY <1>1, <1>8, <2>1 DEF OneWriter, WriteStep, NoWriteStep
  <2> QED
    BY <1>2, <1>3, <1>6, <1>8, <2>1, <2>2, Conclude, Zenon
<1>9. CASE /\ strm.open /\ ~ w.bulk /\ ex' = Then(<<>>)
           /\ strm' = [[strm EXCEPT !.working = TRUE, !.queue = Tail(@)] EXCEPT !.flight = <<[w |-> w, bufs |-> <<w.p>>]>>]
  <2> DEFINE fl == <<[w |-> w, bufs |-> <<w.p>>]>>
  <2>1. /\ fl \in Seq([w : Writes(H, A), bufs : Seq(WirePackets(A))]) /\ Len(fl) = 1
        /\ fl # <<>> /\ fl[1].w = w /\ fl[1].bufs = <<w.p>>
    BY <1>4
  <2> HIDE DEF fl
  <2>2. strm' = [[strm EXCEPT !.working = TRUE, !.queue = Tail(@)] EXCEPT !.flight = fl]
    BY <1>9 DEF fl
  <2>3. strm' \in StreamType(H, A)
    BY <1>3, <1>4, <2>1, <2>2, Zenon DEF StreamType
  <2>4. /\ strm'.working /\ strm'.queue = Tail(strm.queue) /\ strm'.storing = strm.storing /\ strm'.flight = fl
        /\ strm'.open = strm.open /\ strm'.issued = strm.issued
    BY <1>3, <2>2, Zenon DEF StreamType
  <2>5. Order'
    BY <1>1, <1>2, <1>3, <1>5, <1>9, <2>1, <2>4, AloneOrder, Zenon DEF w
  <2> QED
    BY <1>8, <1>9, <2>1, <2>3, <2>4, <2>5
<1>10. CASE /\ strm.open /\ w.bulk /\ ex' = Then(<<>>)
            /\ strm' = [[strm EXCEPT !.working = TRUE, !.queue = Tail(@)]
                          EXCEPT !.sending = strm.storing, !.storing = <<>>, !.flight = <<[w |-> w, bufs |-> strm.storing]>>]
  <2> DEFINE fl == <<[w |-> w, bufs |-> strm.storing]>>
  <2>1. /\ fl \in Seq([w : Writes(H, A), bufs : Seq(WirePackets(A))]) /\ Len(fl) = 1 /\ <<>> \in Seq(WirePackets(A))
        /\ fl # <<>> /\ fl[1].w = w /\ fl[1].bufs = strm.storing
    <3>1. strm.storing \in Seq(WirePackets(A))
      BY <1>3, Numbered
    <3> QED
      BY <1>4, <3>1
  <2> HIDE DEF fl
  <2>2. strm' = [[strm EXCEPT !.working = TRUE, !.queue = Tail(@)]
                   EXCEPT !.sending = strm.storing, !.storing = <<>>, !.flight = fl]
    BY <1>10 DEF fl
  <2>3. strm' \in StreamType(H, A)
    BY <1>3, <1>4, <2>1, <2>2, Zenon DEF StreamType
  <2>4. /\ strm'.working /\ strm'.queue = Tail(strm.queue) /\ strm'.storing = <<>> /\ strm'.flight = fl
        /\ strm'.open = strm.open /\ strm'.issued = strm.issued
    BY <1>3, <2>2, Zenon DEF StreamType
  <2>5. Order'
    BY <1>1, <1>2, <1>3, <1>5, <1>10, <2>1, <2>4, BulkOrder, Zenon DEF w
  <2> QED
    BY <1>8, <1>10, <2>1, <2>3, <2>4, <2>5
<1> QED
  BY <1>7, <1>9, <1>10, Zenon DEF PollWrite, w

\* A write operation completes, and the queue goes on.
LEMMA WrittenStep ==
  ASSUME Inv, Written, UNCHANGED <<con, ep, cl, app>>
  PROVE  Inv'
<1>1. PICK H, A : /\ State(H, A) /\ ~ Waiting /\ self \in WriteSteps(H, A) /\ self.fn = "written"
                  /\ NoWriteStep(ex.ready) /\ strm.flight = <<>> /\ strm.working
  BY WriterRuns DEF Written
<1>2. self.w.k \in H /\ self.ec \in {"ok", "reset", "aborted"}
  <2>1. poll_one.fn = "poll_one" /\ "poll_one" # "written"
    BY DEF poll_one
  <2>2. self \in [fn : {"written"}, w : Writes(H, A), ec : {"ok", "reset", "aborted"}]
    BY <1>1, <2>1, Zenon DEF WriteSteps
  <2>3. self.w \in Writes(H, A) /\ self.ec \in {"ok", "reset", "aborted"}
    BY <2>2, Zenon
  <2> QED
    BY <2>3, Zenon DEF Writes
<1> DEFINE g == Resume(self.w.k, self.ec)
           G == H \cup {g}
<1>3. Fits(g, H)
  BY <1>1, <1>2, ResumeFits DEF State, Closed
<1> HIDE DEF g
<1>4. State(G, A) /\ g \in G
  BY <1>1, <1>3, Grow
<1> HIDE DEF G
<1>5. Closed(G) /\ Held(G, A) /\ OneWriter /\ Order
  BY <1>4 DEF State
<1>6. strm \in StreamType(G, A) /\ NetHeld(net, A)
  BY <1>5 DEF Held
<1>7. /\ strm' = [strm EXCEPT !.sending = IF self.ec = "ok" THEN <<>> ELSE @]
      /\ ex' = ThenPost(<<g>>, <<poll_one>>) /\ UNCHANGED <<setup, net>>
  BY DEF Written, g
<1>8. strm' \in StreamType(G, A) /\ SameOrder
  <2>1. <<>> \in Seq(WirePackets(A))
    OBVIOUS
  <2> QED
    BY <1>6, <1>7, <2>1, Zenon DEF StreamType, SameOrder
<1>9. <<g>> \in Seq(G) /\ <<g>> \in Seq(Handlers(G, A)) /\ <<poll_one>> \in Seq(Handlers(G, A))
  <2>1. poll_one \in Handlers(G, A) /\ g \in Handlers(G, A)
    BY <1>4, Zenon DEF Handlers, WriteSteps
  <2>2. ASSUME NEW S, NEW x \in S PROVE <<x>> \in Seq(S)
    OBVIOUS
  <2> QED
    BY <1>4, <2>1, <2>2, Zenon
<1>10. ex' \in ExType(G, A) /\ ex'.now = <<g>> \o Tail(ex.now) /\ ex'.ready = ex.ready \o <<poll_one>>
  <2>1. Held(G, A) /\ ~ Waiting /\ ex' = ThenPost(<<g>>, <<poll_one>>)
    BY <1>1, <1>5, <1>7
  <2> QED
    BY <1>9, <2>1, NowType, Zenon
<1>11. OneWriter'
  <2>1. \A i \in DOMAIN ex'.now : ~ WriteStep(ex'.now[i])
    BY <1>1, <1>5, <1>9, <1>10, NoWriter, Zenon
  <2>2. ex'.now # <<>> => ~ WriteStep(self')
    BY <1>10, <2>1, FirstNow
  <2>3. \A i \in DOMAIN ex'.ready : WriteStep(ex'.ready[i]) => i = Len(ex.ready) + 1
    <3> DEFINE E == Handlers(G, A)
    <3>1. ex.ready \in Seq(E)
      BY <1>5, Zenon DEF Held, ExType
    <3>2. poll_one \in E
      BY <1>4, Zenon DEF Handlers, WriteSteps
    <3> HIDE DEF E
    <3>3. \A i \in DOMAIN ex'.ready :
            (i \in DOMAIN ex.ready /\ ex'.ready[i] = ex.ready[i]) \/ i = Len(ex.ready) + 1
      BY <1>10, <3>1, <3>2, JoinElements, Zenon
    <3> QED
      BY <1>1, <3>3, Zenon DEF NoWriteStep
  <2> QED
    BY <1>1, <1>5, <1>8, <2>1, <2>2, <2>3 DEF OneWriter, SameOrder, WriteStep, NoWriteStep
<1>12. Order'
  BY <1>5, <1>8, OrderSame
<1>13. setup \in Setups /\ EpHeld(ep', G) /\ ClHeld(cl', G) /\ AppHeld(app')
  BY <1>5, <1>7, OthersHeld, Zenon
<1> QED
  BY <1>5, <1>6, <1>7, <1>8, <1>10, <1>11, <1>12, <1>13, Conclude, Zenon

\* One sequence after another, in order.
LEMMA ConcatOrdered ==
  ASSUME NEW P, NEW u \in Seq(P), NEW v \in Seq(P), NEW n, Increasing(u), Increasing(v), Before(u, v),
         UpTo(u, n), UpTo(v, n)
  PROVE  /\ Increasing(u \o v) /\ UpTo(u \o v, n)
         /\ \A s : Before(u, s) /\ Before(v, s) => Before(u \o v, s)
         /\ \A q : BeforeQueue(u, q) /\ BeforeQueue(v, q) => BeforeQueue(u \o v, q)
<1> DEFINE t == u \o v
<1>1. \A i \in DOMAIN t : \/ i \in DOMAIN u /\ t[i] = u[i]
                          \/ i - Len(u) \in DOMAIN v /\ t[i] = v[i - Len(u)]
  BY ConcatElements
<1>2. Len(u) \in Nat /\ DOMAIN u = 1 .. Len(u) /\ DOMAIN v \subseteq Nat \ {0} /\ DOMAIN t \subseteq Nat
  OBVIOUS
<1> HIDE DEF t
<1>3. Increasing(t)
  <2> SUFFICES ASSUME NEW i \in DOMAIN t, NEW j \in DOMAIN t, i < j
               PROVE  t[i].n < t[j].n
    BY Zenon DEF Increasing
  <2>1. CASE i \in DOMAIN u /\ t[i] = u[i]
    <3>1. CASE j \in DOMAIN u /\ t[j] = u[j]
      BY <2>1, <3>1, Zenon DEF Increasing
    <3>2. CASE j - Len(u) \in DOMAIN v /\ t[j] = v[j - Len(u)]
      BY <2>1, <3>2, Zenon DEF Before
    <3> QED
      BY <1>1, <3>1, <3>2, Zenon
  <2>2. CASE ~ (i \in DOMAIN u /\ t[i] = u[i])
    <3>1. i - Len(u) \in DOMAIN v /\ t[i] = v[i - Len(u)]
      BY <1>1, <2>2, Zenon
    <3>2. j \notin DOMAIN u /\ i - Len(u) < j - Len(u)
      BY <1>2, <3>1
    <3>3. j - Len(u) \in DOMAIN v /\ t[j] = v[j - Len(u)]
      BY <1>1, <3>2, Zenon
    <3> QED
      BY <3>1, <3>2, <3>3, Zenon DEF Increasing
  <2> QED
    BY <2>1, <2>2, Zenon
<1>4. UpTo(t, n)
  BY <1>1, Zenon DEF UpTo
<1>5. \A s : Before(u, s) /\ Before(v, s) => Before(t, s)
  BY <1>1, Zenon DEF Before
<1>6. \A q : BeforeQueue(u, q) /\ BeforeQueue(v, q) => BeforeQueue(t, q)
  BY <1>1, Zenon DEF BeforeQueue
<1> QED
  BY <1>3, <1>4, <1>5, <1>6, Zenon DEF t

\* The buffers arrive, or are lost; the socket is closed, or connected.
LEMMA LandOrdered ==
  ASSUME NEW P, NEW u \in Seq(P), NEW b \in Seq(P), NEW st, NEW q, NEW n, NEW open, Ordered(u, b, st, q, n, open)
  PROVE  /\ open => Ordered(u \o b, <<>>, st, q, n, open)
         /\ Ordered(u, <<>>, st, q, n, open)
         /\ Ordered(u, <<>>, <<>>, q, n, FALSE)
         /\ Ordered(<<>>, b, st, q, n, TRUE)
<1>1. open => /\ Increasing(u \o b) /\ UpTo(u \o b, n)
              /\ Before(u \o b, st) /\ BeforeQueue(u \o b, q)
  <2> SUFFICES ASSUME open
               PROVE  Increasing(u \o b) /\ UpTo(u \o b, n) /\ Before(u \o b, st) /\ BeforeQueue(u \o b, q)
    BY Zenon
  <2>1. /\ Increasing(u) /\ Increasing(b) /\ Before(u, b) /\ UpTo(u, n) /\ UpTo(b, n)
        /\ Before(u, st) /\ Before(b, st) /\ BeforeQueue(u, q) /\ BeforeQueue(b, q)
    BY Zenon DEF Ordered
  <2> QED
    BY <2>1, ConcatOrdered, Zenon
<1> DEFINE t == u \o b
<1> HIDE DEF t
<1>2. open => Ordered(t, <<>>, st, q, n, open)
  BY <1>1, EmptyOrdered, Zenon DEF Ordered, t
<1>3. Ordered(u, <<>>, st, q, n, open)
  BY EmptyOrdered, Zenon DEF Ordered
<1>4. Ordered(u, <<>>, <<>>, q, n, FALSE)
  BY EmptyOrdered, Zenon DEF Ordered
<1>5. Ordered(<<>>, b, st, q, n, TRUE)
  BY EmptyOrdered, Zenon DEF Ordered
<1> QED
  BY <1>2, <1>3, <1>4, <1>5, Zenon DEF t

\* What is on its way arrives, or is lost: nothing is in flight.
LEMMA LandedOrder ==
  ASSUME NEW H, NEW A, strm \in StreamType(H, A), NetHeld(net, A), Order, strm.open,
         strm'.flight = <<>>, strm'.queue = strm.queue, strm'.storing = strm.storing, strm'.open = strm.open,
         strm'.working = strm.working, strm'.issued = strm.issued, net'.stale = net.stale, setup' = setup,
         net'.wire = net.wire \/ net'.wire = net.wire \o Bufs
  PROVE  Order'
<1> SUFFICES ASSUME ~ net.stale PROVE InOrder' /\ Stores'
  BY Zenon DEF Order
<1>1. InOrder /\ Stores /\ net.wire \in Seq(WirePackets(A)) /\ Bufs \in Seq(WirePackets(A))
  BY Numbered, Zenon DEF Order
<1>2. Bufs' = <<>>
  BY Zenon DEF Bufs
<1>3. /\ Ordered(net.wire \o Bufs, <<>>, strm.storing, strm.queue, strm.issued, strm.open)
      /\ Ordered(net.wire, <<>>, strm.storing, strm.queue, strm.issued, strm.open)
  BY <1>1, LandOrdered, Zenon DEF InOrder
<1>4. InOrder'
  BY <1>2, <1>3, Zenon DEF InOrder
<1>5. Belongs(strm'.flight[1].w.p, <<>>, strm.storing, strm.queue, strm.open, strm.working, setup.bulk)
  <2>1. Belongs(strm.flight[1].w.p, Bufs, strm.storing, strm.queue, strm.open, strm.working, setup.bulk)
    BY <1>1, Zenon DEF Stores
  <2>2. DOMAIN <<>> = {}
    OBVIOUS
  <2> QED
    BY <2>1, <2>2, Zenon DEF Belongs
<1>6. Stores'
  BY <1>2, <1>5, Zenon DEF Stores
<1> QED
  BY <1>4, <1>6, Zenon

\* The socket is closed: the buffers are forgotten.
LEMMA ClosedOrder ==
  ASSUME NEW H, NEW A, strm \in StreamType(H, A), NetHeld(net, A), Order,
         strm'.open = FALSE, strm'.flight = <<>>, strm'.storing = <<>>, strm'.queue = strm.queue, strm'.working = strm.working,
         strm'.issued = strm.issued, net'.wire = net.wire, net'.stale = net.stale, setup' = setup
  PROVE  Order'
<1> SUFFICES ASSUME ~ net.stale PROVE InOrder' /\ Stores'
  BY Zenon DEF Order
<1>1. InOrder /\ Stores /\ net.wire \in Seq(WirePackets(A)) /\ Bufs \in Seq(WirePackets(A))
  BY Numbered, Zenon DEF Order
<1>2. Bufs' = <<>>
  BY Zenon DEF Bufs
<1>3. Ordered(net.wire, <<>>, <<>>, strm.queue, strm.issued, FALSE)
  BY <1>1, LandOrdered, Zenon DEF InOrder
<1>4. InOrder'
  BY <1>2, <1>3, Zenon DEF InOrder
<1>5. Belongs(strm'.flight[1].w.p, <<>>, <<>>, strm.queue, FALSE, strm.working, setup.bulk)
  <2>1. Belongs(strm.flight[1].w.p, Bufs, strm.storing, strm.queue, strm.open, strm.working, setup.bulk)
    BY <1>1, Zenon DEF Stores
  <2>2. DOMAIN <<>> = {}
    OBVIOUS
  <2> QED
    BY <2>1, <2>2, Zenon DEF Belongs
<1>6. Stores'
  BY <1>2, <1>5, Zenon DEF Stores
<1> QED
  BY <1>4, <1>6, Zenon

\* The socket is connected: nothing is on the wire.
LEMMA ConnectedOrder ==
  ASSUME NEW H, NEW A, strm \in StreamType(H, A), NetHeld(net, A), Order,
         strm'.open = TRUE, strm'.flight = strm.flight, strm'.storing = strm.storing, strm'.queue = strm.queue,
         strm'.working = strm.working, strm'.issued = strm.issued, net'.wire = <<>>, net'.stale = net.stale, setup' = setup
  PROVE  Order'
<1> SUFFICES ASSUME ~ net.stale PROVE InOrder' /\ Stores'
  BY Zenon DEF Order
<1>1. InOrder /\ Stores /\ net.wire \in Seq(WirePackets(A)) /\ Bufs \in Seq(WirePackets(A))
  BY Numbered, Zenon DEF Order
<1>2. Bufs' = Bufs
  BY Zenon DEF Bufs
<1>3. Ordered(<<>>, Bufs, strm.storing, strm.queue, strm.issued, TRUE)
  BY <1>1, LandOrdered, Zenon DEF InOrder
<1>4. InOrder'
  BY <1>2, <1>3, Zenon DEF InOrder
<1>5. Belongs(strm.flight[1].w.p, Bufs, strm.storing, strm.queue, TRUE, strm.working, setup.bulk)
  <2>1. Belongs(strm.flight[1].w.p, Bufs, strm.storing, strm.queue, strm.open, strm.working, setup.bulk)
    BY <1>1, Zenon DEF Stores
  <2> QED
    BY <2>1, Zenon DEF Belongs
<1>6. Stores'
  BY <1>2, <1>5, Zenon DEF Stores
<1> QED
  BY <1>4, <1>6, Zenon

\* Only the first of the handlers that are posted continues the write queue.
LEMMA WriterFirst ==
  ASSUME NEW E, NEW s \in Seq(E), NEW t \in Seq(E), NoWriteStep(s), \A i \in DOMAIN t : WriteStep(t[i]) => i = 1
  PROVE  \A i \in DOMAIN (s \o t) : WriteStep((s \o t)[i]) => i = Len(s) + 1
<1> DEFINE u == s \o t
<1>1. \A i \in DOMAIN u : (i \in DOMAIN s /\ u[i] = s[i]) \/ (i - Len(s) \in DOMAIN t /\ u[i] = t[i - Len(s)])
  BY ConcatElements
<1>2. Len(s) \in Nat /\ DOMAIN u \subseteq Nat
  OBVIOUS
<1> HIDE DEF u
<1>3. \A i \in DOMAIN u : WriteStep(u[i]) => i - Len(s) = 1
  BY <1>1, Zenon DEF NoWriteStep
<1>4. \A i \in DOMAIN u : WriteStep(u[i]) => i = Len(s) + 1
  BY <1>2, <1>3
<1> QED
  BY <1>4, Zenon DEF u

\* A handler that continues the write queue is posted.
LEMMA WriterPosted ==
  ASSUME NEW H, NEW A, Held(H, A), NoWriteStep(ex.ready), NEW h \in WriteSteps(H, A), NEW ps \in Seq(H), Closed(H)
  PROVE  /\ \A i, j \in DOMAIN (ex.ready \o (<<h>> \o ps)) :
              WriteStep((ex.ready \o (<<h>> \o ps))[i]) /\ WriteStep((ex.ready \o (<<h>> \o ps))[j]) => i = j
         /\ <<h>> \o ps \in Seq(Handlers(H, A)) /\ ex.ready \o (<<h>> \o ps) \in Seq(Handlers(H, A))
<1> DEFINE E == Handlers(H, A)
<1>1. ex.ready \in Seq(E) /\ h \in E /\ H \subseteq E
  BY DEF Held, ExType, Handlers
<1>2. \A g \in H : ~ WriteStep(g)
  BY DEF Closed, Fits, WriteStep, PlainFns, ContFns
<1> HIDE DEF E
<1>3. <<h>> \o ps \in Seq(E) /\ ps \in Seq(E) /\ <<h>> \in Seq(E)
  BY <1>1
<1>4. \A i \in DOMAIN (<<h>> \o ps) : WriteStep((<<h>> \o ps)[i]) => i = 1
  BY <1>2
<1>5. \A i \in DOMAIN (ex.ready \o (<<h>> \o ps)) : WriteStep((ex.ready \o (<<h>> \o ps))[i]) => i = Len(ex.ready) + 1
  <2> DEFINE t == <<h>> \o ps
  <2> HIDE DEF t
  <2>1. t \in Seq(E) /\ (\A i \in DOMAIN t : WriteStep(t[i]) => i = 1)
    BY <1>3, <1>4, Zenon DEF t
  <2> QED
    BY <1>1, <2>1, WriterFirst, Zenon DEF t
<1>6. ex.ready \o (<<h>> \o ps) \in Seq(E)
  BY <1>1, <1>3
<1> QED
  BY <1>3, <1>5, <1>6, Zenon DEF E

\* async_write of the layers ends.
LEMMA WriteDoneStep ==
  ASSUME Inv, AsyncWriteDone, UNCHANGED <<con, ep, cl, app>>
  PROVE  Inv'
<1>1. PICK H, A : State(H, A)
  BY DEF Inv, Typed, State
<1>2. Closed(H) /\ Held(H, A) /\ OneWriter /\ Order /\ Waiting /\ strm.flight # <<>>
  BY <1>1 DEF State, AsyncWriteDone
<1>3. strm \in StreamType(H, A) /\ NetHeld(net, A)
  BY <1>2 DEF Held
<1>4. strm.open /\ strm.working /\ NoWriteStep(ex.ready)
  BY <1>2 DEF OneWriter
<1> DEFINE w == strm.flight[1].w
<1>5. w \in Writes(H, A) /\ strm.flight[1].bufs = Bufs /\ Bufs \in Seq(WirePackets(A)) /\ net.wire \in Seq(WirePackets(A))
  BY <1>2, <1>3, Numbered
<1> HIDE DEF w
<1>6. PICK ec \in {"ok", "reset"} :
        /\ ex' = Posted(<<written(w, ec)>>)
        /\ \/ \E got : net' = [net EXCEPT !.wire = @ \o Bufs, !.got = got]
           \/ net' = net
  BY <1>5, Zenon DEF AsyncWriteDone, w
<1>7. strm' = [strm EXCEPT !.flight = <<>>] /\ setup' = setup
  BY DEF AsyncWriteDone
<1>8. strm' \in StreamType(H, A)
  <2>1. <<>> \in Seq([w : Writes(H, A), bufs : Seq(WirePackets(A))])
    OBVIOUS
  <2> QED
    BY <1>3, <1>7, <2>1, Zenon DEF StreamType
<1>9. /\ strm'.flight = <<>> /\ strm'.queue = strm.queue /\ strm'.storing = strm.storing /\ strm'.open = strm.open
      /\ strm'.working = strm.working /\ strm'.issued = strm.issued
  BY <1>3, <1>7, Zenon DEF StreamType
<1>10. NetHeld(net', A) /\ net'.stale = net.stale /\ (net'.wire = net.wire \/ net'.wire = net.wire \o Bufs)
  <2>1. net.wire \o Bufs \in Seq(WirePackets(A))
    BY <1>5
  <2> QED
    BY <1>3, <1>6, <2>1, Zenon DEF NetHeld
<1>11. Order'
  BY <1>2, <1>3, <1>4, <1>7, <1>9, <1>10, LandedOrder, Zenon
<1> DEFINE h == written(w, ec)
<1>12. h \in WriteSteps(H, A)
  BY <1>5, <1>6, Zenon DEF WriteSteps, written
<1> HIDE DEF h
<1>13. ex'.now = <<>> /\ ex'.ready = ex.ready \o (<<h>> \o <<>>) /\ ex' = [now |-> ex'.now, ready |-> ex'.ready]
  <2>1. ex \in [now : Seq(Handlers(H, A)), ready : Seq(Handlers(H, A))] /\ ex.now = <<>>
    BY <1>2 DEF Held, ExType, Waiting
  <2>2. ex' = [ex EXCEPT !.ready = @ \o <<h>>]
    BY <1>6, Zenon DEF Posted, h
  <2>3. ex' = [now |-> <<>>, ready |-> ex.ready \o <<h>>]
    BY <2>1, <2>2, Zenon
  <2>4. <<h>> \o <<>> = <<h>>
    OBVIOUS
  <2> QED
    BY <2>3, <2>4
<1>14. /\ \A i, j \in DOMAIN ex'.ready : WriteStep(ex'.ready[i]) /\ WriteStep(ex'.ready[j]) => i = j
       /\ ex'.ready \in Seq(Handlers(H, A))
  <2>1. <<>> \in Seq(H)
    OBVIOUS
  <2>2. /\ \A i, j \in DOMAIN (ex.ready \o (<<h>> \o <<>>)) :
             WriteStep((ex.ready \o (<<h>> \o <<>>))[i]) /\ WriteStep((ex.ready \o (<<h>> \o <<>>))[j]) => i = j
        /\ ex.ready \o (<<h>> \o <<>>) \in Seq(Handlers(H, A))
    BY <1>2, <1>4, <1>12, <2>1, WriterPosted, Zenon
  <2> QED
    BY <1>13, <2>2, Zenon
<1>15. ex' \in ExType(H, A)
  <2>1. ex'.now \in Seq(Handlers(H, A))
    BY <1>13
  <2> QED
    BY <1>13, <1>14, <2>1, Zenon DEF ExType
<1>16. OneWriter'
  <2>1. \A i \in DOMAIN ex'.now : FALSE
    BY <1>13
  <2> QED
    BY <1>4, <1>9, <1>13, <1>14, <2>1, Zenon DEF OneWriter
<1>17. setup \in Setups /\ EpHeld(ep', H) /\ ClHeld(cl', H) /\ AppHeld(app')
  BY <1>2, <1>7, OthersHeld, Zenon
<1> QED
  BY <1>2, <1>7, <1>8, <1>10, <1>11, <1>15, <1>16, <1>17, Conclude, Zenon

\* The socket is closed: what the layers did is cancelled, and the buffers are forgotten.
LEMMA TcpCloseStep ==
  ASSUME Inv, TcpClose, UNCHANGED <<con, ep, cl, app>>
  PROVE  Inv'
<1>1. PICK H, A : State(H, A) /\ ~ Waiting /\ ~ WriteStep(self) /\ self.k \in H /\ Fits(self.k, H)
  BY Runs DEF TcpClose, Closes, ContFns
<1>2. Closed(H) /\ Held(H, A) /\ OneWriter /\ strm.reading \in Seq(H)
  BY <1>1, Zenon DEF State, Held, StreamType
<1> DEFINE g == IF strm.reading = <<>> THEN self.k ELSE Resume(strm.reading[1], "aborted")
           G == H \cup {g}
<1>3. Fits(g, H)
  <2>1. strm.reading # <<>> => Fits(strm.reading[1], H)
    BY <1>2, SeqElement DEF Closed
  <2> QED
    BY <1>1, <2>1, ResumeFits
<1> HIDE DEF g
<1>4. State(G, A) /\ g \in G /\ self.k \in G
  BY <1>1, <1>3, Grow
<1> HIDE DEF G
<1>5. Closed(G) /\ Held(G, A) /\ OneWriter /\ Order
  BY <1>4 DEF State
<1>6. strm \in StreamType(G, A) /\ NetHeld(net, A)
  BY <1>5 DEF Held
<1> DEFINE rs == IF strm.reading = <<>> THEN <<>> ELSE <<g>>
           h == written(strm.flight[1].w, "aborted")
           ps == (IF strm.flight = <<>> THEN <<>> ELSE <<h>>) \o rs
<1>7. /\ strm' = [strm EXCEPT !.open = FALSE, !.flight = <<>>, !.reading = <<>>, !.storing = <<>>, !.sending = <<>>]
      /\ ex' = ThenPost(<<self.k>>, ps)
      /\ net' = [net EXCEPT !.link = FALSE, !.inbox = <<>>] /\ setup' = setup
  <2>1. rs = IF strm.reading = <<>> THEN <<>> ELSE <<Resume(strm.reading[1], "aborted")>>
    BY DEF g
  <2> QED
    BY <2>1, Zenon DEF TcpClose
<1>8. rs \in Seq(G)
  BY <1>4
<1>9. strm' \in StreamType(G, A)
  <2>1. /\ <<>> \in Seq([w : Writes(G, A), bufs : Seq(WirePackets(A))])
        /\ <<>> \in Seq(G) /\ <<>> \in Seq(WirePackets(A))
    OBVIOUS
  <2> QED
    BY <1>6, <1>7, <2>1, Zenon DEF StreamType
<1>10. /\ strm'.open = FALSE /\ strm'.flight = <<>> /\ strm'.storing = <<>> /\ strm'.queue = strm.queue
       /\ strm'.working = strm.working /\ strm'.issued = strm.issued
  BY <1>6, <1>7, Zenon DEF StreamType
<1>11. NetHeld(net', A) /\ net'.wire = net.wire /\ net'.stale = net.stale
  BY <1>6, <1>7, Zenon DEF NetHeld
<1>12. Order'
  BY <1>5, <1>6, <1>7, <1>10, <1>11, ClosedOrder, Zenon
<1>13. <<self.k>> \in Seq(G) /\ <<self.k>> \in Seq(Handlers(G, A))
  BY <1>4 DEF Handlers
<1>14. /\ ps \in Seq(Handlers(G, A))
       /\ \A i, j \in DOMAIN (ex.ready \o ps) : WriteStep((ex.ready \o ps)[i]) /\ WriteStep((ex.ready \o ps)[j]) => i = j
       /\ (\E i \in DOMAIN (ex.ready \o ps) : WriteStep((ex.ready \o ps)[i])) => strm.working
  <2> HIDE DEF rs
  <2>1. CASE strm.flight # <<>>
    <3>1. NoWriteStep(ex.ready) /\ strm.working /\ strm.flight[1].w \in Writes(G, A)
      BY <1>5, <1>6, <2>1, Numbered, Zenon DEF OneWriter
    <3>2. h \in WriteSteps(G, A)
      BY <3>1, Zenon DEF WriteSteps, written
    <3>3. ps = <<h>> \o rs
      BY <2>1
    <3> HIDE DEF h, ps
    <3>4. /\ \A i, j \in DOMAIN (ex.ready \o (<<h>> \o rs)) :
               WriteStep((ex.ready \o (<<h>> \o rs))[i]) /\ WriteStep((ex.ready \o (<<h>> \o rs))[j]) => i = j
          /\ <<h>> \o rs \in Seq(Handlers(G, A))
      BY <1>5, <1>8, <3>1, <3>2, WriterPosted, Zenon
    <3> QED
      BY <3>1, <3>3, <3>4, Zenon
  <2>2. CASE strm.flight = <<>>
    <3>1. ps = rs
      BY <1>8, <2>2
    <3> HIDE DEF ps
    <3> DEFINE E == Handlers(G, A)
    <3>2. ex.ready \in Seq(E) /\ rs \in Seq(E)
      BY <1>5, <1>8 DEF Held, ExType, Handlers
    <3>3. \A x \in G : ~ WriteStep(x)
      BY <1>5 DEF Closed, Fits, WriteStep, PlainFns, ContFns
    <3> HIDE DEF E
    <3>4. \A i \in DOMAIN (ex.ready \o rs) : WriteStep((ex.ready \o rs)[i]) => i \in DOMAIN ex.ready /\ (ex.ready \o rs)[i] = ex.ready[i]
      BY <1>8, <3>2, <3>3
    <3>5. \A i, j \in DOMAIN (ex.ready \o rs) : WriteStep((ex.ready \o rs)[i]) /\ WriteStep((ex.ready \o rs)[j]) => i = j
      BY <1>5, <3>4, Zenon DEF OneWriter
    <3>6. (\E i \in DOMAIN (ex.ready \o rs) : WriteStep((ex.ready \o rs)[i])) => strm.working
      BY <1>5, <3>4, Zenon DEF OneWriter, NoWriteStep
    <3> QED
      BY <3>1, <3>2, <3>5, <3>6, Zenon DEF E
  <2> QED
    BY <2>1, <2>2, Zenon
<1> HIDE DEF ps
<1>15. ex' \in ExType(G, A) /\ ex'.now = <<self.k>> \o Tail(ex.now) /\ ex'.ready = ex.ready \o ps
  BY <1>1, <1>5, <1>7, <1>13, <1>14, NowType, Zenon
<1>16. OneWriter'
  <2>1. \A i \in DOMAIN ex'.now : ~ WriteStep(ex'.now[i])
    BY <1>1, <1>5, <1>13, <1>15, NoWriter, Zenon
  <2>2. ex'.now # <<>> => ~ WriteStep(self')
    BY <1>15, <2>1, FirstNow
  <2>3. ~ (~ strm.working /\ strm.queue # <<>>)
    BY <1>1, <1>5 DEF OneWriter, Running, WriteStep
  <2> QED
    BY <1>10, <1>14, <1>15, <2>1, <2>2, <2>3 DEF OneWriter, WriteStep, NoWriteStep
<1>17. setup \in Setups /\ EpHeld(ep', G) /\ ClHeld(cl', G) /\ AppHeld(app')
  BY <1>5, <1>7, OthersHeld, Zenon
<1> QED
  BY <1>5, <1>7, <1>9, <1>11, <1>12, <1>15, <1>16, <1>17, Conclude, Zenon

\* async_connect: nothing has arrived on the new connection.
LEMMA AsyncHandshakeStep ==
  ASSUME Inv, AsyncHandshake, UNCHANGED <<con, ep, cl, app>>
  PROVE  Inv'
<1>1. PICK H, A : State(H, A) /\ ~ Waiting /\ ~ WriteStep(self) /\ self.k \in H
  BY Runs DEF AsyncHandshake, ContFns
<1>2. Closed(H) /\ Held(H, A) /\ OneWriter /\ Order
  BY <1>1 DEF State
<1>3. strm \in StreamType(H, A) /\ NetHeld(net, A) /\ setup \in Setups
  BY <1>2 DEF Held
<1> DEFINE c == <<[k |-> self.k, at |-> Len(setup.layers)]>>
<1>4. /\ strm' = [strm EXCEPT !.open = TRUE, !.connecting = c]
      /\ net' = [net EXCEPT !.wire = <<>>, !.seen = 0, !.acks = 0] /\ ex' = Then(<<>>) /\ setup' = setup
  BY DEF AsyncHandshake
<1>5. c \in Seq([k : H, at : Int])
  <2>1. Len(setup.layers) \in Int
    BY <1>3, SetupsAssumption
  <2> QED
    BY <1>1, <2>1
<1> HIDE DEF c
<1>6. strm' \in StreamType(H, A)
  BY <1>3, <1>4, <1>5, Zenon DEF StreamType
<1>7. /\ strm'.open = TRUE /\ strm'.flight = strm.flight /\ strm'.storing = strm.storing /\ strm'.queue = strm.queue
      /\ strm'.working = strm.working /\ strm'.issued = strm.issued
  BY <1>3, <1>4, Zenon DEF StreamType
<1>8. NetHeld(net', A) /\ net'.wire = <<>> /\ net'.stale = net.stale
  <2>1. <<>> \in Seq(WirePackets(A))
    OBVIOUS
  <2> QED
    BY <1>3, <1>4, <2>1, Zenon DEF NetHeld
<1>9. Order'
  BY <1>2, <1>3, <1>4, <1>7, <1>8, ConnectedOrder, Zenon
<1>10. <<>> \in Seq(H)
  OBVIOUS
<1>11. Turn(H)
  BY <1>1, <1>2, <1>4, <1>10, TurnForms, Zenon
<1>12. ex' \in ExType(H, A)
  BY <1>2, <1>11, TurnHeld
<1>13. OneWriter'
  BY <1>2, <1>7, <1>11, TurnOneWriter DEF SameWriting
<1>14. EpHeld(ep', H) /\ ClHeld(cl', H) /\ AppHeld(app')
  BY <1>2, <1>4, OthersHeld, Zenon
<1> QED
  BY <1>2, <1>3, <1>4, <1>6, <1>8, <1>9, <1>12, <1>13, <1>14, Conclude, Zenon
=============================================================================
