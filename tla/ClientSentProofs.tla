-------------------------- MODULE ClientSentProofs --------------------------
(***************************************************************************)
(* Proofs about modules Stream, Endpoint and Client: when packets are      *)
(* written one by one, a request that completes with success was sent, and *)
(* so was one that waits for its answer.                                   *)
(***************************************************************************)
EXTENDS ClientSentLemmas, ClientProofs
-----------------------------------------------------------------------------
(***************************************************************************)
(* The steps of the endpoint that wake those who wait for an identifier.   *)
(***************************************************************************)
\* An identifier was released: a handler that waits for one is posted.
LEMMA NotifiedSent ==
  ASSUME NEW H, NEW e, EpHeld(e, H), NEW U, EpSent(e, U)
  PROVE  /\ EpSent(Notified(e).ep, U)
         /\ \E S : (\A g \in S : Ready(g, U)) /\ Notified(e).posted \in Seq(S)
<1>1. e.retry \in Seq([h : H, cancelled : BOOLEAN])
  BY DEF EpHeld
<1>2. CASE Sleeping(e.retry) = {}
  <2>1. Notified(e) = [ep |-> [e EXCEPT !.released = TRUE], posted |-> <<>>]
    BY <1>2 DEF Notified
  <2>2. EpSent([e EXCEPT !.released = TRUE], U)
    BY EpVariant
  <2>3. <<>> \in Seq({}) /\ \A g \in {} : Ready(g, U)
    OBVIOUS
  <2>4. Notified(e).ep = [e EXCEPT !.released = TRUE] /\ Notified(e).posted = <<>>
    BY <2>1
  <2> QED
    BY <2>2, <2>3, <2>4, Zenon
<1>3. CASE Sleeping(e.retry) # {}
  <2> DEFINE m == Min(Sleeping(e.retry))
  <2>1. m \in DOMAIN e.retry
    <3>1. Sleeping(e.retry) \subseteq Nat /\ Sleeping(e.retry) \subseteq DOMAIN e.retry
      BY <1>1 DEF Sleeping
    <3> QED
      BY <1>3, <3>1, MinElement
  <2> DEFINE d == [e EXCEPT !.released = TRUE, !.retry[m].cancelled = TRUE]
             g == Resume(e.retry[m].h, "aborted")
  <2>2. Notified(e) = [ep |-> d, posted |-> <<g>>]
    BY <1>3 DEF Notified
  <2> HIDE DEF m
  <2>3. Ready(g, U)
    <3>1. Awaits(e.retry[m].h, "acquire", U)
      BY <2>1 DEF EpSent
    <3> QED
      BY <3>1, ReadyVariant DEF Awaits, Resume
  <2>4. EpSent(d, U)
    <3>1. d.closeq = e.closeq /\ d.delayed = e.delayed /\ d.retry = [e.retry EXCEPT ![m].cancelled = TRUE]
      BY DEF EpHeld
    <3> DEFINE r == [e.retry EXCEPT ![m].cancelled = TRUE]
    <3>2. DOMAIN r = DOMAIN e.retry /\ \A j \in DOMAIN e.retry : j # m => r[j] = e.retry[j]
      OBVIOUS
    <3>3. r[m].h = e.retry[m].h
      <4>1. r[m] = [e.retry[m] EXCEPT !.cancelled = TRUE]
        BY <2>1
      <4>2. e.retry[m] \in [h : H, cancelled : BOOLEAN]
        BY <1>1, <2>1, Elements, Zenon
      <4> QED
        BY <4>1, <4>2
    <3> HIDE DEF r
    <3>4. \A j \in DOMAIN r : r[j].h = e.retry[j].h
      BY <3>2, <3>3
    <3> HIDE DEF d
    <3> QED
      BY <3>1, <3>2, <3>4, Zenon DEF EpSent, r
  <2>5. <<g>> \in Seq({g}) /\ \A x \in {g} : Ready(x, U)
    BY <2>3
  <2>6. Notified(e).ep = d /\ Notified(e).posted = <<g>>
    BY <2>2
  <2> QED
    BY <2>4, <2>5, <2>6, Zenon
<1> QED
  BY <1>2, <1>3

\* A step of the endpoint that releases an identifier.
LEMMA EndpointNotifies ==
  ASSUME Inv, NEW U, SentWith(U), ~ Waiting, NEW g, Ready(g, U), NEW H, NEW e, EpHeld(e, H), EpSent(e, U),
         ep' = Notified(e).ep, ex' = ThenPost(<<g>>, Notified(e).posted), UNCHANGED <<setup, strm, net, cl, app>>
  PROVE  Sent'
<1>1. PICK S : (\A h \in S : Ready(h, U)) /\ Notified(e).posted \in Seq(S)
  BY NotifiedSent
<1>2. EpSent(ep', U)
  BY NotifiedSent
<1> DEFINE T == S \cup {g}
           ps == Notified(e).posted
<1>3. \A h \in T : Ready(h, U)
  BY <1>1
<1> HIDE DEF ps
<1>4. <<g>> \in Seq(T) /\ ps \in Seq(T)
  BY <1>1 DEF ps
<1> HIDE DEF T
<1>5. ex' = ThenPost(<<g>>, ps)
  BY DEF ps
<1> QED
  BY <1>2, <1>3, <1>4, <1>5, EndpointTurn, Zenon

\* The waiters that are left when one is erased.
LEMMA ErasedSeq ==
  ASSUME NEW S, NEW s \in Seq(S), NEW k
  PROVE  Erased(s, k) \in Seq(S) /\ complete_retry_one(s) \in Seq(S)
<1> DEFINE at == {j \in DOMAIN s : s[j].h.k = k}
<1>1. at = {} => Erased(s, k) \in Seq(S)
  BY DEF Erased
<1>2. ASSUME at # {}
      PROVE  Erased(s, k) \in Seq(S)
  <2>1. at \subseteq Nat
    OBVIOUS
  <2>2. Min(at) \in DOMAIN s
    BY <1>2, <2>1, MinElement, Zenon
  <2>3. Erased(s, k) = SubSeq(s, 1, Min(at) - 1) \o SubSeq(s, Min(at) + 1, Len(s))
    BY <1>2, Zenon DEF Erased
  <2> QED
    BY <2>2, <2>3, RemoveElement, Zenon
<1>3. complete_retry_one(s) \in Seq(S)
  BY DEF complete_retry_one
<1> QED
  BY <1>1, <1>2, <1>3

\* and goes on when one is released or the wait is over.
LEMMA RetrySent ==
  ASSUME Inv, Sent, AcquireRetried, UNCHANGED <<cl, app>>
  PROVE  Sent'
<1>1. PICK U : SentWith(U)
  BY DEF Sent
<1>2. PICK H : EpHeld(ep, H)
  BY EpTyped
<1>3. Running("acquire") /\ UNCHANGED <<setup, strm, net>>
  BY DEF AcquireRetried
<1>4. EpSent(ep, U)
  BY <1>1 DEF SentWith, EndpointSent
<1> DEFINE R == [h : H, cancelled : BOOLEAN]
           T == {r \in R : Awaits(r.h, "acquire", U)}
<1>5. ep.retry \in Seq(T)
  <2>1. ep.retry \in Seq(R)
    BY <1>2 DEF EpHeld
  <2> HIDE DEF R
  <2>2. \A j \in DOMAIN ep.retry : ep.retry[j] \in T
    BY <1>4, <2>1, Elements, Zenon DEF EpSent
  <2> HIDE DEF T
  <2> QED
    BY <2>1, <2>2, SeqOf
<1>6. ASSUME NEW r \in Seq(T)
      PROVE  EpSent([ep EXCEPT !.retry = r], U) /\ EpHeld([ep EXCEPT !.retry = r], H)
  <2> DEFINE d == [ep EXCEPT !.retry = r]
  <2>1. DOMAIN d = DOMAIN ep /\ d.retry = r /\ d.closeq = ep.closeq /\ d.delayed = ep.delayed
    BY <1>2, Zenon DEF EpHeld
  <2> HIDE DEF d
  <2>2. \A j \in DOMAIN r : r[j] \in T
    <3> HIDE DEF T
    <3> QED
      BY Elements
  <2>3. r \in Seq(R)
    <3> HIDE DEF R
    <3> QED
      BY <2>2, SeqOf
  <2>4. EpSent(d, U)
    BY <1>4, <2>1, <2>2, Zenon DEF EpSent
  <2>5. EpHeld(d, H)
    BY <1>2, <2>1, <2>3, Zenon DEF EpHeld
  <2> QED
    BY <2>4, <2>5 DEF d
<1>7. Erased(ep.retry, self.k) \in Seq(T) /\ complete_retry_one(ep.retry) \in Seq(T)
  <2> HIDE DEF T
  <2> QED
    BY <1>5, ErasedSeq, Zenon
<1> HIDE DEF T
<1>8. CASE ep.released
  <2> DEFINE e == [ep EXCEPT !.retry = complete_retry_one(@)]
  <2>1. AcqProc(e)
    BY <1>8 DEF AcquireRetried
  <2>2. EpSent(e, U) /\ EpHeld(e, H)
    BY <1>6, <1>7
  <2> HIDE DEF e
  <2> QED
    BY <1>1, <1>3, <2>1, <2>2, AcqProcSent
<1>9. CASE ~ ep.released
  <2> DEFINE g == [Resume(self.k, "aborted") EXCEPT !.id = 0]
  <2>1. ep' = [ep EXCEPT !.retry = Erased(@, self.k)] /\ ex' = Then(<<g>>)
    BY <1>9 DEF AcquireRetried
  <2>2. EpSent(ep', U)
    BY <1>6, <1>7, <2>1
  <2>3. Ready(self, U) /\ self.fn = "acquire" /\ ~ Waiting
    BY <1>1, <1>3, SelfReady
  <2>4. IsRequest(self.k) /\ self.k.state = "acquired"
    BY <2>3, Zenon DEF Ready
  <2>5. Ready(g, U)
    BY <2>4, AcquiredReady
  <2> HIDE DEF g
  <2> QED
    BY <1>1, <1>3, <2>1, <2>2, <2>3, <2>5, EndpointOne
<1> QED
  BY <1>8, <1>9

\* release_packet_id()
LEMMA ReleaseSent ==
  ASSUME Inv, Sent, ReleasePacketId, UNCHANGED <<cl, app>>
  PROVE  Sent'
<1>1. PICK U : SentWith(U)
  BY DEF Sent
<1>2. PICK H : EpHeld(ep, H)
  BY EpTyped
<1>3. Running("release") /\ UNCHANGED <<setup, strm, net>>
  BY DEF ReleasePacketId
<1>4. Ready(self, U) /\ self.fn = "release" /\ ~ Waiting
  BY <1>1, <1>3, SelfReady
<1>5. DoneCont(self.k, U)
  BY <1>4, Zenon DEF Ready
<1>6. Ready(self.k, U)
  BY <1>5, DoneReady, Zenon
<1>7. EpSent(ep, U)
  BY <1>1 DEF SentWith, EndpointSent
<1>8. CASE self.id \in con.used
  <2>1. ep' = Notified(ep).ep /\ ex' = ThenPost(<<self.k>>, Notified(ep).posted)
    BY <1>8 DEF ReleasePacketId
  <2> QED
    BY <1>1, <1>2, <1>3, <1>4, <1>6, <1>7, <2>1, EndpointNotifies
<1>9. CASE self.id \notin con.used
  <2>1. ep' = ep /\ ex' = ThenPost(<<self.k>>, <<>>)
    BY <1>9 DEF ReleasePacketId
  <2>2. <<self.k>> \in Seq({self.k}) /\ <<>> \in Seq({self.k}) /\ \A h \in {self.k} : Ready(h, U)
    BY <1>6
  <2> QED
    BY <1>1, <1>3, <1>4, <1>7, <2>1, <2>2, EndpointTurn, Zenon
<1> QED
  BY <1>8, <1>9

\* A round of its loop over the identifiers that were released.
LEMMA NotifySent ==
  ASSUME Inv, Sent, CloseNotifies, UNCHANGED <<cl, app>>
  PROVE  Sent'
<1>1. PICK U : SentWith(U)
  BY DEF Sent
<1>2. PICK H : EpHeld(ep, H)
  BY EpTyped
<1>3. Running("notify") /\ UNCHANGED <<setup, strm, net>>
  BY DEF CloseNotifies
<1>4. Ready(self, U) /\ self.fn = "notify" /\ ~ Waiting
  BY <1>1, <1>3, SelfReady
<1>5. EpSent(ep, U)
  BY <1>1 DEF SentWith, EndpointSent
<1>6. CASE self.ids = {}
  <2>1. ep' = ep /\ ex' = Then(<<>>)
    BY <1>6 DEF CloseNotifies
  <2> QED
    BY <1>1, <1>3, <1>4, <1>5, <2>1, EndpointOne
<1>7. CASE self.ids # {}
  <2> DEFINE ids == self.ids \ {Min(self.ids)}
             g == [self EXCEPT !.ids = ids]
  <2>1. ep' = Notified(ep).ep /\ ex' = ThenPost(<<g>>, Notified(ep).posted)
    BY <1>7 DEF CloseNotifies
  <2> HIDE DEF ids
  <2>2. Ready(g, U)
    BY <1>4, ReadyVariant
  <2> HIDE DEF g
  <2> QED
    BY <1>1, <1>2, <1>3, <1>4, <1>5, <2>1, <2>2, EndpointNotifies
<1> QED
  BY <1>6, <1>7

\* process_one_event() of recv_op.
LEMMA RecvEventSent ==
  ASSUME Inv, Sent, RecvEvent, UNCHANGED <<cl, app>>
  PROVE  Sent'
<1>1. PICK U : SentWith(U)
  BY DEF Sent
<1>2. PICK H : EpHeld(ep, H)
  BY EpTyped
<1>3. Running("recv") /\ UNCHANGED <<setup, strm, net>>
  BY DEF RecvEvent, RecvAt
<1>4. Ready(self, U) /\ self.fn = "recv" /\ ~ Waiting
  BY <1>1, <1>3, SelfReady
<1>5. RecvOk(self) /\ EpSent(ep, U)
  BY <1>1, <1>4, Zenon DEF Ready, SentWith, EndpointSent
<1> DEFINE ev == Head(ep.events)
           e == [ep EXCEPT !.events = Tail(@)]
           a == [self EXCEPT !.err = ev.ec]
           r == [self EXCEPT !.resend = TRUE]
           p == [self EXCEPT !.pkt = ev.p]
<1>6. EpSent(e, U) /\ EpHeld(e, H)
  BY <1>2, <1>5, EpVariant, Zenon
<1>7. Ready(a, U) /\ Ready(r, U) /\ Ready(p, U)
  BY <1>4, ReadyVariant, Zenon
<1>8. Ready(close(self), U) /\ Ready(write_packet(self, ev.p), U)
  BY <1>5, RecvStarts
<1>9. \/ ep' = e /\ ex' \in {Then(<<a>>), Then(<<p>>), Then(<<write_packet(self, ev.p)>>), Then(<<close(self)>>)}
      \/ ep' = Notified(e).ep /\ ex' = ThenPost(<<r>>, Notified(e).posted)
      \/ ep' = RecvTimerOp(e, ev) /\ ex' = Then(<<self>>)
  BY Zenon DEF RecvEvent
<1> HIDE DEF a, r, p, e, ev
<1>10. CASE ep' = e /\ ex' \in {Then(<<a>>), Then(<<p>>), Then(<<write_packet(self, ev.p)>>), Then(<<close(self)>>)}
  <2>1. \E g : Ready(g, U) /\ ex' = Then(<<g>>)
    BY <1>7, <1>8, <1>10
  <2> QED
    BY <1>1, <1>3, <1>4, <1>6, <1>10, <2>1, EndpointOne
<1>11. CASE ep' = Notified(e).ep /\ ex' = ThenPost(<<r>>, Notified(e).posted)
  BY <1>1, <1>3, <1>4, <1>6, <1>7, <1>11, EndpointNotifies
<1>12. CASE ep' = RecvTimerOp(e, ev) /\ ex' = Then(<<self>>)
  <2>1. EpSent(TimerOp(e, ev), U)
    BY <1>6, EpVariant DEF TimerOp
  <2>2. EpSent(ep', U)
    BY <1>6, <1>12, <2>1 DEF RecvTimerOp
  <2> QED
    BY <1>1, <1>3, <1>4, <1>12, <2>2, EndpointOne
<1> QED
  BY <1>9, <1>10, <1>11, <1>12

\* process_one_event() of send_op.
LEMMA SendEventSent ==
  ASSUME Inv, Sent, SendEvent, UNCHANGED <<cl, app>>
  PROVE  Sent'
<1>1. PICK U : SentWith(U)
  BY DEF Sent
<1>2. PICK H : EpHeld(ep, H)
  BY EpTyped
<1>3. /\ Running("send") /\ UNCHANGED <<setup, strm, net>>
      /\ self.state = "sent" /\ self.ec = "ok" /\ self.evs # <<>>
  BY DEF SendEvent
<1>4. /\ ~ Waiting /\ SendOk(self) /\ IsSend(self) /\ EpSent(ep, U)
      /\ self.k = detached \/ self.ec # "ok" \/ Justified(self, U)
      /\ self.k # detached => self.p.t \in SendTypes /\ EventsOf(self.evs, self.p)
  BY <1>1, <1>3, SendRuns
<1> DEFINE ev == Head(self.evs)
           rest == NextEvent(self)
           last == [self EXCEPT !.evs = <<>>]
<1>5. /\ DOMAIN rest = DOMAIN self /\ rest.fn = self.fn /\ rest.k = self.k /\ rest.p = self.p
      /\ rest.state = self.state /\ rest.evs = Tail(self.evs) /\ rest.err = self.err
  BY <1>4, Zenon DEF IsSend, NextEvent
<1>6. /\ DOMAIN last = DOMAIN self /\ last.fn = self.fn /\ last.k = self.k /\ last.p = self.p
      /\ last.state = self.state /\ last.evs = <<>> /\ last.err = self.err
  BY <1>4, Zenon DEF IsSend
<1>7. self.k # detached => EventsOf(Tail(self.evs), self.p) /\ EventsOf(<<>>, self.p)
  <2>1. EventsOf(<<>>, self.p)
    <3>1. <<>> \in Seq({}) /\ \A j \in DOMAIN <<>> : FALSE
      OBVIOUS
    <3> QED
      BY <3>1, EventsAre, Zenon
  <2> QED
    BY <1>3, <1>4, <2>1, EventsLeft
<1>8. ASSUME self.k # detached
      PROVE  /\ ev.e = "send" => ev.p.i = self.p.i
             /\ ev.e = "error" => ev.ec # "ok"
             /\ ev.e \notin {"send", "error"} => (Undecided(self.evs) => Undecided(Tail(self.evs)))
             /\ ev.e = "close" => ~ Undecided(self.evs)
  <2> DEFINE S == Range(self.evs)
  <2>1. self.evs \in Seq(S)
    BY <1>4, <1>8 DEF EventsOf
  <2> HIDE DEF S
  <2>2. /\ 1 \in DOMAIN self.evs /\ ev = self.evs[1]
        /\ \A j \in DOMAIN self.evs : j = 1 \/ (j - 1 \in DOMAIN Tail(self.evs) /\ Tail(self.evs)[j - 1] = self.evs[j])
    BY <1>3, <2>1
  <2>3. (ev.e = "send" => ev.p.i = self.p.i) /\ (ev.e = "error" => ev.ec # "ok") /\ (ev.e = "close" => Len(self.evs) = 1)
    BY <1>4, <1>8, <2>2, Zenon DEF EventsOf
  <2>4. ev.e \notin {"send", "error"} => (Undecided(self.evs) => Undecided(Tail(self.evs)))
    BY <2>2, Zenon DEF Undecided
  <2>5. Len(self.evs) = 1 => \A j \in DOMAIN self.evs : j = 1
    BY <2>1
  <2>6. ev.e = "close" => ~ Undecided(self.evs)
    BY <2>2, <2>3, <2>5 DEF Undecided
  <2> QED
    BY <2>3, <2>4, <2>6
<1>9. SendOk(rest) /\ SendOk(last)
  <2>1. SendOk(rest)
    <3> HIDE DEF rest
    <3> QED
      BY <1>3, <1>4, <1>5, <1>7, SendLike
  <2>2. SendOk(last)
    <3> HIDE DEF last
    <3> QED
      BY <1>3, <1>4, <1>6, <1>7, SendLike
  <2> QED
    BY <2>1, <2>2
<1>10. ev.e \notin {"send", "error"} => Ready(rest, U)
  <2>1. ev.e \notin {"send", "error"} => rest.k = detached \/ Justified(rest, U)
    BY <1>3, <1>4, <1>5, <1>8 DEF Justified
  <2> HIDE DEF rest
  <2> QED
    BY <1>9, <2>1, SendIsReady
<1>11. ev.e = "close" => CloseCont(last, U)
  <2>1. ev.e = "close" => last.k = detached \/ Justified(last, U)
    BY <1>3, <1>4, <1>6, <1>8 DEF Justified
  <2> HIDE DEF last
  <2> QED
    BY <1>9, <2>1 DEF CloseCont
<1>12. \A ec : self.k = detached \/ ec # "ok" => Ready([rest EXCEPT !.err = ec], U)
  <2> SUFFICES ASSUME NEW ec, self.k = detached \/ ec # "ok" PROVE Ready([rest EXCEPT !.err = ec], U)
    OBVIOUS
  <2> DEFINE g == [rest EXCEPT !.err = ec]
  <2> HIDE DEF rest
  <2>1. "err" \in DOMAIN rest /\ {"fn", "k", "p", "state", "evs"} \subseteq DOMAIN rest
    BY <1>9 DEF SendOk, IsSend
  <2>2. /\ DOMAIN g = DOMAIN rest /\ g.fn = rest.fn /\ g.k = rest.k /\ g.p = rest.p
        /\ g.state = rest.state /\ g.evs = rest.evs /\ g.err = ec
    BY <2>1, Zenon
  <2> HIDE DEF g
  <2>3. SendOk(g)
    BY <1>3, <1>5, <1>7, <1>9, <2>2, SendLike
  <2>4. g.k = detached \/ Justified(g, U)
    BY <1>5, <2>2 DEF Justified
  <2>5. Ready(g, U)
    BY <2>3, <2>4, SendIsReady
  <2> QED
    BY <2>5 DEF g
<1>13. ev.e = "send" => \A r, d : Ready(write_packet([rest EXCEPT !.rel = r, !.disc = d], ev.p), U)
  <2> SUFFICES ASSUME ev.e = "send", NEW r, NEW d PROVE Ready(write_packet([rest EXCEPT !.rel = r, !.disc = d], ev.p), U)
    BY Zenon
  <2> DEFINE g == [rest EXCEPT !.rel = r, !.disc = d]
  <2> HIDE DEF rest
  <2>1. {"fn", "k", "p", "state", "evs"} \subseteq DOMAIN rest
    BY <1>9 DEF SendOk, IsSend
  <2>2. /\ DOMAIN g = DOMAIN rest /\ g.fn = rest.fn /\ g.k = rest.k /\ g.p = rest.p
        /\ g.state = rest.state /\ g.evs = rest.evs
    BY <2>1, Zenon
  <2> HIDE DEF g
  <2>3. SendOk(g)
    BY <1>3, <1>5, <1>7, <1>9, <2>2, SendLike
  <2>4. g.k = detached \/ g.p.i = ev.p.i
    BY <1>5, <1>8, <2>2
  <2> HIDE DEF ev
  <2>5. WriteCont(g, ev.p, U)
    BY <2>3, <2>4 DEF WriteCont
  <2>6. Ready(write_packet(g, ev.p), U)
    BY <2>5, WritePacketReady
  <2> QED
    BY <2>6 DEF g
<1>14. CASE /\ ev.e = "error" /\ ev.ec = "receive_maximum" /\ ep' = enqueue_publish(ep, self.p)
            /\ ex' = Then(<<[rest EXCEPT !.err = "enqueued"]>>)
  <2>1. EpSent(ep', U)
    <3>1. \A q : EpSent([ep EXCEPT !.pubq = q], U)
      BY <1>2, <1>4, EpVariant
    <3> QED
      BY <1>4, <1>14, <3>1, Zenon DEF enqueue_publish
  <2>2. Ready([rest EXCEPT !.err = "enqueued"], U)
    BY <1>12
  <2> QED
    BY <1>1, <1>3, <1>4, <1>14, <2>1, <2>2, EndpointOne
<1>15. CASE ev.e = "error" /\ ep' = ep /\ ex' = Then(<<[rest EXCEPT !.err = ev.ec]>>)
  <2>1. Ready([rest EXCEPT !.err = ev.ec], U)
    BY <1>8, <1>12, <1>15
  <2> QED
    BY <1>1, <1>3, <1>4, <1>15, <2>1, EndpointOne
<1>16. CASE ev.e = "timer" /\ ep' = SendTimerOp(ep, ev) /\ ex' = Then(<<rest>>)
  <2>1. EpSent(TimerOp(ep, ev), U)
    BY <1>2, <1>4, EpVariant DEF TimerOp
  <2>2. EpSent(ep', U)
    BY <1>4, <1>16, <2>1 DEF SendTimerOp
  <2>3. Ready(rest, U)
    BY <1>10, <1>16
  <2> QED
    BY <1>1, <1>3, <1>4, <1>16, <2>2, <2>3, EndpointOne
<1>17. CASE ev.e = "released" /\ ep' = Notified(ep).ep /\ ex' = ThenPost(<<rest>>, Notified(ep).posted)
  <2>1. Ready(rest, U)
    BY <1>10, <1>17
  <2> HIDE DEF rest
  <2> QED
    BY <1>1, <1>2, <1>3, <1>4, <1>17, <2>1, EndpointNotifies
<1>18. CASE /\ ev.e = "send" /\ ep' = ep
            /\ ex' = Then(<<write_packet([rest EXCEPT !.rel = ev.rel, !.disc = ev.p.t = "disconnect"], ev.p)>>)
  <2> DEFINE d == ev.p.t = "disconnect"
             g == write_packet([rest EXCEPT !.rel = ev.rel, !.disc = d], ev.p)
  <2>1. ex' = Then(<<g>>)
    BY <1>18
  <2> HIDE DEF d
  <2>2. Ready(g, U)
    BY <1>13, <1>18, Zenon
  <2> HIDE DEF g
  <2> QED
    BY <1>1, <1>3, <1>4, <1>18, <2>1, <2>2, EndpointOne, Zenon
<1>19. CASE ev.e = "close" /\ ep' = ep /\ ex' = ThenPost(<<>>, <<close(last)>>)
  <2> HIDE DEF last
  <2>1. Ready(close(last), U)
    BY <1>11, <1>19, CloseIsReady DEF Awaits
  <2> QED
    BY <1>1, <1>3, <1>4, <1>19, <2>1, EndpointOne
<1>20. CASE ev.e = "close" /\ ep' = [ep EXCEPT !.delayed = Append(@, close(last))] /\ ex' = Then(<<>>)
  <2> DEFINE g == close(last)
  <2> HIDE DEF last
  <2>1. Awaits(g, "close", U)
    BY <1>11, <1>20, CloseIsReady
  <2> HIDE DEF g
  <2>2. /\ ep'.delayed = Append(ep.delayed, g) /\ ep'.retry = ep.retry /\ ep'.closeq = ep.closeq
        /\ ep.delayed \in Seq(H)
    BY <1>2, <1>20, Zenon DEF EpHeld, g
  <2>3. \A j \in DOMAIN ep'.delayed : ep'.delayed[j] = g \/ (j \in DOMAIN ep.delayed /\ ep'.delayed[j] = ep.delayed[j])
    BY <2>2, AppendAwaits
  <2>4. EpSent(ep', U)
    BY <1>4, <2>1, <2>2, <2>3, Zenon DEF EpSent
  <2>5. Ready(g, U)
    BY <2>1 DEF Awaits
  <2> QED
    BY <1>1, <1>3, <1>4, <1>20, <2>4, <2>5, EndpointOne
<1> HIDE DEF last
<1> QED
  BY <1>14, <1>15, <1>16, <1>17, <1>18, <1>19, <1>20, Zenon DEF SendEvent, last
-----------------------------------------------------------------------------
(***************************************************************************)
(* The end of the receiving loop.                                          *)
(***************************************************************************)
\* recv_loop() ends, and the requests that wait are told.
LEMMA LoopErrorSent ==
  ASSUME Inv, Sent, RecvLoopError
  PROVE  Sent'
<1>1. PICK U : SentWith(U)
  BY DEF Sent
<1>2. PICK H : ClHeld(cl, H)
  BY ClTyped
<1>3. ~ Waiting /\ UNCHANGED <<setup, strm, net, ep, app>> /\ ClientSent(U)
  BY <1>1 DEF RecvLoopError, Running, Waiting, SentWith
<1> DEFINE ids == {id \in DOMAIN cl.col : Waits(cl.col[id])}
           f == CHOOSE g \in Bijection(1 .. Cardinality(ids), ids) : TRUE
           s == [j \in DOMAIN f |-> request(cl.col[f[j]].i, "answered", 0)]
<1>4. ex' = ThenPost(<<>>, Notifies(cl) \o s) /\ cl' = [Inserted(cl, self.ec) EXCEPT !.col = <<>>, !.loop = FALSE]
  BY DEF RecvLoopError
<1>5. PICK N : (\A g \in N : Ready(g, U)) /\ s \in Seq(N)
  <2> DEFINE n == Cardinality(ids)
             N == {request(cl.col[f[j]].i, "answered", 0) : j \in 1 .. n}
  <2>1. IsFiniteSet(ids)
    BY <1>2, FS_Subset DEF ClHeld
  <2> HIDE DEF ids
  <2>2. n \in Nat /\ ExistsBijection(1 .. n, ids)
    BY <2>1, FS_CardinalityType
  <2>3. f \in Bijection(1 .. n, ids)
    BY <2>2, Zenon DEF ExistsBijection
  <2>4. DOMAIN f = 1 .. n
    BY <2>3, Zenon DEF Bijection, Injection, IsInjective, Surjection
  <2> HIDE DEF f, n
  <2>5. s \in [1 .. n -> N]
    BY <2>4, Zenon
  <2>6. \A g \in N : Ready(g, U)
    BY AnsweredReady, Zenon
  <2> HIDE DEF s, N
  <2>7. s \in Seq(N)
    BY <2>2, <2>5, FunctionIsSeq
  <2> QED
    BY <2>6, <2>7, Zenon
<1> HIDE DEF s
<1>6. PICK M : (\A g \in M : Ready(g, U)) /\ Notifies(cl) \in Seq(M)
  BY <1>3, NotifiesReady
<1> DEFINE B == M \cup N
           ps == Notifies(cl) \o s
<1>7. ps \in Seq(B)
  <2>1. M \subseteq B /\ N \subseteq B
    OBVIOUS
  <2> HIDE DEF B
  <2>2. Notifies(cl) \in Seq(B) /\ s \in Seq(B)
    BY <1>5, <1>6, <2>1
  <2> QED
    BY <2>2
<1>8. \A g \in B : Ready(g, U)
  BY <1>5, <1>6
<1>9. ClientSent(U)'
  BY <1>3, <1>4, InsertedClient, Zenon
<1>10. ex' = ThenPost(<<>>, ps)
  BY <1>4
<1> HIDE DEF B, ps
<1> QED
  BY <1>1, <1>3, <1>7, <1>8, <1>9, <1>10, LoopTurn
-----------------------------------------------------------------------------
(***************************************************************************)
(* Every step keeps the invariant.                                         *)
(***************************************************************************)
\* The steps of the stream.
LEMMA StreamStepSent ==
  ASSUME Inv, Sent, StreamNext, UNCHANGED <<con, ep, cl, app>>
  PROVE  Sent'
<1>1. CASE RunOne
  BY <1>1, RunOneSent
<1>2. CASE Detached
  BY <1>2, DetachedSent
<1>3. CASE async_write_packet
  BY <1>3, WriteStartsSent
<1>4. CASE PollEmpty
  BY <1>4, PollEmptySent
<1>5. CASE PollWrite
  BY <1>5, PollWriteSent
<1>6. CASE Written
  BY <1>6, WrittenSent
<1>7. CASE AsyncWriteDone
  BY <1>7, WriteDoneSent
<1>8. CASE async_read_some
  BY <1>8, ReadSent
<1>9. CASE AsyncReadDone
  BY <1>9, ReadDoneSent
<1>10. CASE StreamClose
  BY <1>10, StreamCloseSent
<1>11. CASE WsClosed \/ SslClosed
  BY <1>11, LayerClosedSent DEF WsClosed, SslClosed
<1>12. CASE TcpClose
  BY <1>12, TcpCloseSent
<1>13. CASE AsyncHandshake
  BY <1>13, AsyncHandshakeSent
<1>14. CASE TcpConnected
  BY <1>14, LayerUpSent, Zenon DEF TcpConnected
<1>15. CASE SslHandshaken \/ WsHandshaken
  BY <1>15, LayerUpSent DEF SslHandshaken, WsHandshaken
<1> QED
  BY <1>1, <1>2, <1>3, <1>4, <1>5, <1>6, <1>7, <1>8, <1>9, <1>10, <1>11, <1>12, <1>13, <1>14, <1>15, Zenon
     DEF StreamNext

\* The steps of the endpoint.
LEMMA EndpointStepSent ==
  ASSUME Inv, Sent, EndpointNext, UNCHANGED clientVars
  PROVE  Sent'
<1>1. UNCHANGED <<cl, app>>
  BY DEF clientVars
<1>2. CASE StreamNext /\ UNCHANGED epVars
  <2>1. UNCHANGED <<con, ep, cl, app>>
    BY <1>1, <1>2 DEF epVars
  <2> QED
    BY <1>2, <2>1, StreamStepSent
<1>3. CASE AcquireWaitUntil
  BY <1>1, <1>3, AcquireSent
<1>4. CASE AcquireRetried
  BY <1>1, <1>4, RetrySent
<1>5. CASE AcquireUnique \/ RegisterPacketId \/ GetStoredPackets \/ RestorePackets
  BY <1>1, <1>5, IdSent
<1>6. CASE ReleasePacketId
  BY <1>1, <1>6, ReleaseSent
<1>7. CASE PingreqSendFired \/ PingrespRecvFired
  BY <1>1, <1>7, FiredSent
<1>8. CASE CloseStart
  BY <1>1, <1>8, CloseStartSent
<1>9. CASE CloseComplete
  BY <1>1, <1>9, CloseCompleteSent
<1>10. CASE CloseNotifies
  BY <1>1, <1>10, NotifySent
<1>11. CASE SendError \/ SendWrite \/ SendComplete
  BY <1>1, <1>11, SendSent
<1>12. CASE SendEvent
  BY <1>1, <1>12, SendEventSent
<1>13. CASE DelayExpires
  BY <1>1, <1>13, ExpiresSent
<1>14. CASE RecvError \/ RecvCheckBuf \/ RecvReadIstream \/ RecvProcessed
  BY <1>1, <1>14, RecvSent
<1>15. CASE RecvEvent
  BY <1>1, <1>15, RecvEventSent
<1>16. CASE RecvComplete
  BY <1>1, <1>16, RecvCompleteSent
<1>17. CASE SendPublishFromQueue \/ QueueLoop \/ QueuePop
  BY <1>1, <1>17, QueueSent
<1>18. CASE Handshaken
  BY <1>1, <1>18, HandshakenSent
<1>19. CASE PeerAnswers \/ PeerSends
  BY <1>1, <1>19, PeerSent
<1> QED
  BY <1>2, <1>3, <1>4, <1>5, <1>6, <1>7, <1>8, <1>9, <1>10, <1>11, <1>12, <1>13, <1>14, <1>15, <1>16, <1>17, <1>18,
     <1>19, Zenon DEF EndpointNext

\* Every step.
LEMMA NextSent ==
  ASSUME Inv, Sent, [Next]_vars
  PROVE  Sent'
<1>1. CASE EndpointNext /\ UNCHANGED clientVars
  BY <1>1, EndpointStepSent
<1>2. CASE Call
  BY <1>2, CallSent
<1>3. CASE AcquireNow \/ RegisterNow \/ ReleaseNow \/ SetPingreqSendInterval
  BY <1>3, NowSent
<1>4. CASE ProcessEnds
  BY <1>4, EndsSent
<1>5. CASE Saved \/ RequestDone
  BY <1>5, DoneSent
<1>6. CASE RequestAcquired
  BY <1>6, AcquiredSent
<1>7. CASE StartSent \/ PublishSent \/ SubscribeSent \/ UnsubscribeSent \/ DisconnectSent \/ AuthSent
  BY <1>7, RequestSent
<1>8. CASE StartAnswered \/ PublishAnswered \/ SubscribeAnswered \/ UnsubscribeAnswered
  BY <1>8, AnsweredSent
<1>9. CASE RecvLoopError
  BY <1>9, LoopErrorSent
<1>10. CASE RecvLoopAnswer \/ RecvLoopQueued \/ RecvLoopIgnored
  BY <1>10, LoopSent
<1>11. CASE ClientRecv \/ ClientRecvNotified
  BY <1>11, ClientRecvSent
<1>12. CASE LinkLost /\ UNCHANGED <<con, ep, cl, app>>
  BY <1>12, LinkLostSent
<1>13. CASE TimerExpires /\ UNCHANGED clientVars
  BY <1>13, ExpiresSent DEF clientVars
<1>14. CASE UNCHANGED vars
  BY <1>14, StutterSent
<1> QED
  BY <1>1, <1>2, <1>3, <1>4, <1>5, <1>6, <1>7, <1>8, <1>9, <1>10, <1>11, <1>12, <1>13, <1>14, Zenon DEF Next, Progress

\* When packets are written one by one: whatever the layers, the calls, the losses, the
\* closes and the answers are, a request that completes with success was sent.
THEOREM SuccessAlwaysSent == Spec => [](~ setup.bulk => SuccessWasSent)
<1> DEFINE IInv == Inv /\ (~ setup.bulk => Sent)
<1>1. Init => IInv
  BY InitInv, InitSent
<1>2. IInv /\ [Next]_vars => IInv'
  BY NextInv, NextSent, ModeStays
<1>3. IInv => (~ setup.bulk => SuccessWasSent)
  BY SentSucceeds
<1> HIDE DEF IInv
<1> QED
  BY <1>1, <1>2, <1>3, PTL DEF Spec

\* Under the same condition a request is recorded as waiting for its answer only after its
\* packet was sent, so that nothing waits for an answer that nobody was asked for.
THEOREM AwaitedAlwaysSent == Spec => [](~ setup.bulk => AwaitedWereSent)
<1> DEFINE IInv == Inv /\ (~ setup.bulk => Sent)
<1>1. Init => IInv
  BY InitInv, InitSent
<1>2. IInv /\ [Next]_vars => IInv'
  BY NextInv, NextSent, ModeStays
<1>3. IInv => (~ setup.bulk => AwaitedWereSent)
  BY SentAwaited
<1> HIDE DEF IInv
<1> QED
  BY <1>1, <1>2, <1>3, PTL DEF Spec
=============================================================================
