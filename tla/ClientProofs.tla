---------------------------- MODULE ClientProofs ----------------------------
(***************************************************************************)
(* Proofs about modules Stream, Endpoint and Client: packets are written   *)
(* one after the other, in the order of the calls, from buffers that are   *)
(* still owned.                                                            *)
(***************************************************************************)
EXTENDS ClientLemmas, FiniteSetTheorems
-----------------------------------------------------------------------------
(***************************************************************************)
(* Sequences and numbers.                                                  *)
(***************************************************************************)
\* The least of a set of natural numbers is one of them.
LEMMA MinElement ==
  ASSUME NEW S, S \subseteq Nat, S # {}
  PROVE  Min(S) \in S
<1> DEFINE R == {ss \in Nat \X Nat : ss[1] < ss[2]}
<1>1. IsWellFoundedOn(R, Nat)
  BY NatLessThanWellFounded DEF OpToRel
<1>2. \A x, y \in Nat : y < x => <<y, x>> \in R
  OBVIOUS
<1> HIDE DEF R
<1>3. PICK x \in S : \A y \in S : ~ (<<y, x>> \in R)
  BY <1>1, WFMin, Zenon
<1>4. \A y \in S : ~ (y < x)
  BY <1>2, <1>3, Zenon
<1>5. \E a \in S : \A b \in S : a <= b
  BY <1>4
<1> QED
  BY <1>5, Zenon DEF Min

\* A sequence without one of its elements.
LEMMA RemoveElement ==
  ASSUME NEW S, NEW s \in Seq(S), NEW i \in DOMAIN s
  PROVE  SubSeq(s, 1, i - 1) \o SubSeq(s, i + 1, Len(s)) \in Seq(S)
<1>1. i \in 1 .. Len(s) /\ Len(s) \in Nat
  OBVIOUS
<1>2. SubSeq(s, 1, i - 1) \in Seq(S) /\ SubSeq(s, i + 1, Len(s)) \in Seq(S)
  BY <1>1
<1> QED
  BY <1>2

\* A function on 1 .. n is a sequence.
LEMMA FunctionIsSeq ==
  ASSUME NEW n \in Nat, NEW S, NEW f \in [1 .. n -> S]
  PROVE  f \in Seq(S)
OBVIOUS
-----------------------------------------------------------------------------
(***************************************************************************)
(* The endpoint.                                                           *)
(***************************************************************************)
\* notify_release_pid(): one waiter is resumed, if one sleeps.
LEMMA NotifiedHeld ==
  ASSUME NEW H, Closed(H), NEW e, EpHeld(e, H)
  PROVE  /\ EpHeld(Notified(e).ep, H)
         /\ \E N : (\A g \in N : Fits(g, H)) /\ Notified(e).posted \in Seq(N)
<1>1. e.retry \in Seq([h : H, cancelled : BOOLEAN])
  BY DEF EpHeld
<1>2. CASE Sleeping(e.retry) = {}
  <2>1. Notified(e) = [ep |-> [e EXCEPT !.released = TRUE], posted |-> <<>>]
    BY <1>2 DEF Notified
  <2>2. EpHeld([e EXCEPT !.released = TRUE], H)
    BY Zenon DEF EpHeld
  <2>3. <<>> \in Seq({}) /\ \A g \in {} : Fits(g, H)
    OBVIOUS
  <2>4. Notified(e).ep = [e EXCEPT !.released = TRUE] /\ Notified(e).posted = <<>>
    BY <2>1
  <2> QED
    BY <2>2, <2>3, <2>4, Zenon
<1>3. CASE Sleeping(e.retry) # {}
  <2> DEFINE m == Min(Sleeping(e.retry))
  <2>1. m \in DOMAIN e.retry
    <3>1. Sleeping(e.retry) \subseteq Nat /\ Sleeping(e.retry) \subseteq DOMAIN e.retry
      BY <1>1 DEF Sleeping
    <3> QED
      BY <1>3, <3>1, MinElement
  <2>2. Notified(e) = [ep |-> [e EXCEPT !.released = TRUE, !.retry[m].cancelled = TRUE],
                       posted |-> <<Resume(e.retry[m].h, "aborted")>>]
    BY <1>3 DEF Notified
  <2> HIDE DEF m
  <2>3. e.retry[m] \in [h : H, cancelled : BOOLEAN]
    BY <1>1, <2>1, SeqElement, Zenon
  <2>4. e.retry[m].h \in H
    BY <2>3
  <2> DEFINE g == Resume(e.retry[m].h, "aborted")
  <2>5. Fits(g, H)
    BY <2>4, ResumeFits DEF Closed
  <2>6. EpHeld([e EXCEPT !.released = TRUE, !.retry[m].cancelled = TRUE], H)
    <3> DEFINE r == [e.retry EXCEPT ![m].cancelled = TRUE] R == [h : H, cancelled : BOOLEAN]
    <3>1. r = [e.retry EXCEPT ![m] = [@ EXCEPT !.cancelled = TRUE]]
      BY Zenon
    <3>2. [e.retry[m] EXCEPT !.cancelled = TRUE] \in R
      BY <2>3, Zenon
    <3>3. r \in Seq(R)
      <4> HIDE DEF R
      <4>1. \A s \in Seq(R) : \A i \in DOMAIN s, v \in R : [s EXCEPT ![i] = v] \in Seq(R)
        OBVIOUS
      <4>2. e.retry \in Seq(R)
        BY <1>1 DEF R
      <4> QED
        BY <2>1, <3>2, <4>1, <4>2, Zenon
    <3> HIDE DEF r, R
    <3>4. [e EXCEPT !.released = TRUE, !.retry[m].cancelled = TRUE] = [e EXCEPT !.released = TRUE, !.retry = r]
      BY Zenon DEF r, EpHeld
    <3> QED
      BY <3>3, <3>4, Zenon DEF EpHeld, R
  <2>7. <<g>> \in Seq({g}) /\ \A x \in {g} : Fits(x, H)
    BY <2>5
  <2>8. /\ Notified(e).ep = [e EXCEPT !.released = TRUE, !.retry[m].cancelled = TRUE]
        /\ Notified(e).posted = <<g>>
    BY <2>2
  <2> HIDE DEF g
  <2> QED
    BY <2>6, <2>7, <2>8, Zenon
<1> QED
  BY <1>2, <1>3

\* It goes on after it waited.
LEMMA RetryStep ==
  ASSUME Inv, AcquireRetried, UNCHANGED clientVars
  PROVE  Inv'
<1>1. PICK H, A : /\ State(H, A) /\ ~ Waiting /\ ~ WriteStep(self) /\ self \in H /\ Fits(self.k, H)
                  /\ EpHeld(ep, H) /\ ClHeld(cl, H) /\ AppHeld(app)
  BY Runs DEF AcquireRetried, ContFns
<1>2. UNCHANGED <<setup, strm, net, cl, app>>
  BY DEF AcquireRetried, clientVars
<1> DEFINE R == [h : H, cancelled : BOOLEAN]
<1>3. ep.retry \in Seq(R)
  BY <1>1 DEF EpHeld
<1>4. CASE ep.released
  <2>1. AcqProc([ep EXCEPT !.retry = complete_retry_one(@)])
    BY <1>4 DEF AcquireRetried
  <2>2. complete_retry_one(ep.retry) \in Seq(R)
    <3> HIDE DEF R
    <3> QED
      BY <1>3 DEF complete_retry_one
  <2>3. EpHeld([ep EXCEPT !.retry = complete_retry_one(@)], H)
    BY <1>1, <2>2, Zenon DEF EpHeld
  <2> QED
    BY <1>1, <1>2, <2>1, <2>3, AcqProcStep
<1>5. CASE ~ ep.released
  <2>1. ep' = [ep EXCEPT !.retry = Erased(@, self.k)] /\ ex' = Then(<<[Resume(self.k, "aborted") EXCEPT !.id = 0]>>)
    BY <1>5 DEF AcquireRetried
  <2>2. Erased(ep.retry, self.k) \in Seq(R)
    <3> HIDE DEF R
    <3> DEFINE at == {j \in DOMAIN ep.retry : ep.retry[j].h.k = self.k}
    <3>1. CASE at = {}
      BY <1>3, <3>1 DEF Erased
    <3>2. CASE at # {}
      <4>1. at \subseteq Nat
        BY <1>3
      <4>2. Min(at) \in DOMAIN ep.retry
        BY <3>2, <4>1, MinElement
      <4>3. Erased(ep.retry, self.k) = SubSeq(ep.retry, 1, Min(at) - 1) \o SubSeq(ep.retry, Min(at) + 1, Len(ep.retry))
        BY <3>2, Zenon DEF Erased
      <4> QED
        BY <1>3, <4>2, <4>3, RemoveElement, Zenon
    <3> QED
      BY <3>1, <3>2
  <2>3. EpHeld(ep', H)
    BY <1>1, <2>1, <2>2, Zenon DEF EpHeld
  <2>4. Fits([Resume(self.k, "aborted") EXCEPT !.id = 0], H)
    BY <1>1, ResumeFits, FitsVariant
  <2> QED
    BY <1>1, <1>2, <2>1, <2>3, <2>4, DispatchOne
<1> QED
  BY <1>4, <1>5

\* async_release_packet_id()
LEMMA ReleaseStep ==
  ASSUME Inv, ReleasePacketId, UNCHANGED clientVars
  PROVE  Inv'
<1>1. PICK H, A : /\ State(H, A) /\ ~ Waiting /\ ~ WriteStep(self) /\ self.k \in H
                  /\ EpHeld(ep, H) /\ ClHeld(cl, H) /\ AppHeld(app)
  BY Runs DEF ReleasePacketId, ContFns
<1>2. UNCHANGED <<setup, strm, net, cl, app>> /\ Closed(H)
  BY <1>1 DEF ReleasePacketId, clientVars, State
<1>3. PICK N : (\A g \in N : Fits(g, H)) /\ Notified(ep).posted \in Seq(N)
  BY <1>1, <1>2, NotifiedHeld
<1>4. \E ps \in Seq(H \cup N) : ex' = ThenPost(<<self.k>>, ps)
  <2>1. ex' = ThenPost(<<self.k>>, Notified(ep).posted) \/ ex' = ThenPost(<<self.k>>, <<>>)
    BY DEF ReleasePacketId
  <2>2. <<>> \in Seq(H \cup N) /\ Notified(ep).posted \in Seq(H \cup N)
    BY <1>3
  <2> QED
    BY <2>1, <2>2, Zenon
<1>5. EpHeld(ep', H)
  <2>1. ep' = Notified(ep).ep \/ ep' = ep
    BY DEF ReleasePacketId
  <2> QED
    BY <1>1, <1>2, <2>1, NotifiedHeld
<1>6. <<self.k>> \in Seq(H \cup N)
  BY <1>1
<1> QED
  BY <1>1, <1>2, <1>3, <1>4, <1>5, <1>6, Dispatch, Zenon

\* notify_release_pid() for an identifier.
LEMMA NotifyStep ==
  ASSUME Inv, CloseNotifies, UNCHANGED clientVars
  PROVE  Inv'
<1>1. PICK H, A : /\ State(H, A) /\ ~ Waiting /\ ~ WriteStep(self) /\ Fits(self, H) /\ self.fn = "notify"
                  /\ EpHeld(ep, H) /\ ClHeld(cl, H) /\ AppHeld(app)
  BY Runs DEF CloseNotifies
<1>2. UNCHANGED <<setup, strm, net, cl, app>> /\ Closed(H)
  BY <1>1 DEF CloseNotifies, clientVars, State
<1>3. CASE ex' = Then(<<>>) /\ UNCHANGED ep
  BY <1>1, <1>2, <1>3, DispatchNone
<1>4. CASE ep' = Notified(ep).ep /\ \E ids : ex' = ThenPost(<<[self EXCEPT !.ids = ids]>>, Notified(ep).posted)
  <2>1. PICK ids : ex' = ThenPost(<<[self EXCEPT !.ids = ids]>>, Notified(ep).posted)
    BY <1>4, Zenon
  <2> DEFINE g == [self EXCEPT !.ids = ids]
  <2>2. Fits(g, H)
    BY <1>1, FitsVariant
  <2> HIDE DEF g
  <2>3. PICK N : (\A x \in N : Fits(x, H)) /\ Notified(ep).posted \in Seq(N)
    BY <1>1, <1>2, NotifiedHeld
  <2> DEFINE M == N \cup {g}
  <2>4. <<g>> \in Seq(H \cup M) /\ Notified(ep).posted \in Seq(H \cup M) /\ \A x \in M : Fits(x, H)
    BY <2>2, <2>3
  <2>5. EpHeld(ep', H)
    BY <1>1, <1>2, <1>4, NotifiedHeld
  <2>6. ex' = ThenPost(<<g>>, Notified(ep).posted)
    BY <2>1 DEF g
  <2> HIDE DEF M
  <2> QED
    BY <1>1, <1>2, <2>4, <2>5, <2>6, Dispatch, Zenon
<1> QED
  BY <1>3, <1>4, Zenon DEF CloseNotifies
-----------------------------------------------------------------------------
(***************************************************************************)
(* The steps of send_op and recv_op.                                       *)
(***************************************************************************)
\* An event of send_op.
LEMMA SendEventStep ==
  ASSUME Inv, SendEvent, UNCHANGED clientVars
  PROVE  Inv'
<1>1. PICK H, A : /\ State(H, A) /\ ~ Waiting /\ ~ WriteStep(self) /\ Fits(self, H) /\ self.fn = "send"
                  /\ EpHeld(ep, H) /\ ClHeld(cl, H) /\ AppHeld(app)
  BY Runs DEF SendEvent, ContFns
<1>2. UNCHANGED <<setup, strm, net, cl, app>> /\ Closed(H)
  BY <1>1 DEF SendEvent, clientVars, State
<1> DEFINE ev == Head(self.evs)
           rest == NextEvent(self)
           closed == [self EXCEPT !.evs = <<>>]
<1>3. Fits(rest, H) /\ rest.fn = "send" /\ Fits(closed, H)
  <2>1. \A v : Fits([self EXCEPT !.evs = v], H) /\ [self EXCEPT !.evs = v].fn = "send"
    BY <1>1, FitsVariant
  <2> QED
    BY <2>1, Zenon DEF NextEvent
<1>4. \/ ex' = Then(<<[rest EXCEPT !.err = "enqueued"]>>) /\ ep' = enqueue_publish(ep, self.p)
      \/ ex' = Then(<<[rest EXCEPT !.err = ev.ec]>>) /\ ep' = ep
      \/ ex' = Then(<<rest>>) /\ ep' = SendTimerOp(ep, ev)
      \/ ex' = ThenPost(<<rest>>, Notified(ep).posted) /\ ep' = Notified(ep).ep
      \/ ex' = Then(<<write_packet([rest EXCEPT !.rel = ev.rel, !.disc = ev.p.t = "disconnect"], ev.p)>>) /\ ep' = ep
      \/ ex' = ThenPost(<<>>, <<close(closed)>>) /\ ep' = ep
      \/ ex' = Then(<<>>) /\ ep' = [ep EXCEPT !.delayed = Append(@, close(closed))]
  BY DEF SendEvent
<1> HIDE DEF ev, rest, closed
<1>5. ASSUME NEW e, ex' = Then(<<[rest EXCEPT !.err = e]>>), ep' = ep \/ ep' = enqueue_publish(ep, self.p)
      PROVE  Inv'
  <2>1. Fits([rest EXCEPT !.err = e], H)
    BY <1>3, FitsVariant
  <2>2. EpHeld(ep', H)
    BY <1>1, <1>5, Zenon DEF EpHeld, enqueue_publish
  <2> QED
    BY <1>1, <1>2, <1>5, <2>1, <2>2, DispatchOne
<1>6. CASE ex' = Then(<<rest>>) /\ ep' = SendTimerOp(ep, ev)
  <2>1. EpHeld(ep', H)
    BY <1>1, <1>6, Zenon DEF EpHeld, SendTimerOp, TimerOp
  <2> QED
    BY <1>1, <1>2, <1>3, <1>6, <2>1, DispatchOne
<1>7. CASE ex' = ThenPost(<<rest>>, Notified(ep).posted) /\ ep' = Notified(ep).ep
  <2>1. PICK N : (\A x \in N : Fits(x, H)) /\ Notified(ep).posted \in Seq(N)
    BY <1>1, <1>2, NotifiedHeld
  <2> DEFINE M == N \cup {rest}
  <2>2. <<rest>> \in Seq(H \cup M) /\ Notified(ep).posted \in Seq(H \cup M) /\ \A x \in M : Fits(x, H)
    BY <1>3, <2>1
  <2>3. EpHeld(ep', H)
    BY <1>1, <1>2, <1>7, NotifiedHeld
  <2> HIDE DEF M
  <2> QED
    BY <1>1, <1>2, <1>7, <2>2, <2>3, Dispatch, Zenon
<1>8. ASSUME NEW rel, NEW disc, NEW p, ex' = Then(<<write_packet([rest EXCEPT !.rel = rel, !.disc = disc], p)>>), ep' = ep
      PROVE  Inv'
  <2> DEFINE c == [rest EXCEPT !.rel = rel, !.disc = disc]
             G == H \cup {c}
  <2>1. Fits(c, H)
    <3>1. Fits([rest EXCEPT !.rel = rel], H) /\ [rest EXCEPT !.rel = rel].fn = "send"
      BY <1>3, FitsVariant
    <3> QED
      BY <3>1, FitsVariant, Zenon
  <2> HIDE DEF c
  <2>2. State(G, A) /\ c \in G /\ H \subseteq G
    BY <1>1, <2>1, Grow
  <2> HIDE DEF G
  <2>3. Fits(write_packet(c, p), G) /\ ex' = Then(<<write_packet(c, p)>>)
    BY <1>8, <2>2, ConstructorsFit, Zenon DEF c
  <2>4. EpHeld(ep', G) /\ ClHeld(cl', G) /\ AppHeld(app')
    BY <1>1, <1>2, <1>8, <2>2, MembersGrow, Zenon
  <2> QED
    BY <1>1, <1>2, <2>2, <2>3, <2>4, DispatchOne
<1>9. CASE \/ ex' = ThenPost(<<>>, <<close(closed)>>) /\ ep' = ep
           \/ ex' = Then(<<>>) /\ ep' = [ep EXCEPT !.delayed = Append(@, close(closed))]
  <2> DEFINE G == H \cup {closed}
             K == G \cup {close(closed)}
  <2>1. State(G, A) /\ closed \in G /\ H \subseteq G
    BY <1>1, <1>3, Grow
  <2> HIDE DEF G
  <2>2. State(K, A) /\ close(closed) \in K /\ H \subseteq K
    BY <2>1, ConstructorsFit, Grow, Zenon
  <2> HIDE DEF K
  <2>3. EpHeld(ep, K) /\ ClHeld(cl', K) /\ AppHeld(app')
    BY <1>1, <1>2, <2>2, MembersGrow, Zenon
  <2>4. EpHeld(ep', K)
    <3>1. ep.delayed \in Seq(K)
      BY <2>3 DEF EpHeld
    <3>2. Append(ep.delayed, close(closed)) \in Seq(K)
      BY <2>2, <3>1
    <3> QED
      BY <1>9, <2>3, <3>2, Zenon DEF EpHeld
  <2>5. <<>> \in Seq(K \cup {}) /\ <<close(closed)>> \in Seq(K \cup {}) /\ \A x \in {} : Fits(x, K)
    BY <2>2
  <2> QED
    BY <1>1, <1>2, <1>9, <2>2, <2>3, <2>4, <2>5, Dispatch, Zenon
<1>10. CASE ex' = Then(<<[rest EXCEPT !.err = "enqueued"]>>) /\ ep' = enqueue_publish(ep, self.p)
  BY <1>5, <1>10
<1>11. CASE ex' = Then(<<[rest EXCEPT !.err = ev.ec]>>) /\ ep' = ep
  BY <1>5, <1>11
<1>12. CASE ex' = Then(<<write_packet([rest EXCEPT !.rel = ev.rel, !.disc = ev.p.t = "disconnect"], ev.p)>>) /\ ep' = ep
  BY <1>8, <1>12, Zenon
<1> QED
  BY <1>4, <1>6, <1>7, <1>9, <1>10, <1>11, <1>12, Zenon

\* An event of recv_op.
LEMMA RecvEventStep ==
  ASSUME Inv, RecvEvent, UNCHANGED clientVars
  PROVE  Inv'
<1>1. PICK H, A : /\ State(H, A) /\ ~ Waiting /\ ~ WriteStep(self) /\ self \in H /\ Fits(self, H) /\ self.fn = "recv"
                  /\ EpHeld(ep, H) /\ ClHeld(cl, H) /\ AppHeld(app)
  BY Runs DEF RecvEvent, RecvAt, ContFns
<1>2. UNCHANGED <<setup, strm, net, cl, app>> /\ Closed(H)
  BY <1>1 DEF RecvEvent, clientVars, State
<1> DEFINE ev == Head(ep.events)
           e == [ep EXCEPT !.events = Tail(@)]
<1>3. EpHeld(e, H)
  BY <1>1, Zenon DEF EpHeld
<1>4. \/ ep' = e /\ \/ ex' = Then(<<[self EXCEPT !.err = ev.ec]>>)
                    \/ ex' = Then(<<[self EXCEPT !.pkt = ev.p]>>)
                    \/ ex' = Then(<<write_packet(self, ev.p)>>)
                    \/ ex' = Then(<<close(self)>>)
      \/ ep' = RecvTimerOp(e, ev) /\ ex' = Then(<<self>>)
      \/ ep' = Notified(e).ep /\ ex' = ThenPost(<<[self EXCEPT !.resend = TRUE]>>, Notified(e).posted)
  BY DEF RecvEvent
<1> HIDE DEF ev, e
<1>5. ASSUME NEW g, Fits(g, H), ex' = Then(<<g>>), ep' = e \/ ep' = RecvTimerOp(e, ev)
      PROVE  Inv'
  <2>1. EpHeld(ep', H)
    BY <1>3, <1>5, Zenon DEF EpHeld, RecvTimerOp, TimerOp
  <2> QED
    BY <1>1, <1>2, <1>5, <2>1, DispatchOne
<1>6. CASE ep' = Notified(e).ep /\ ex' = ThenPost(<<[self EXCEPT !.resend = TRUE]>>, Notified(e).posted)
  <2> DEFINE g == [self EXCEPT !.resend = TRUE]
  <2>1. Fits(g, H)
    BY <1>1, FitsVariant
  <2>2. ex' = ThenPost(<<g>>, Notified(e).posted)
    BY <1>6
  <2> HIDE DEF g
  <2>3. PICK N : (\A x \in N : Fits(x, H)) /\ Notified(e).posted \in Seq(N)
    BY <1>2, <1>3, NotifiedHeld
  <2> DEFINE M == N \cup {g}
  <2>4. <<g>> \in Seq(H \cup M) /\ Notified(e).posted \in Seq(H \cup M) /\ \A x \in M : Fits(x, H)
    BY <2>1, <2>3
  <2>5. EpHeld(ep', H)
    BY <1>2, <1>3, <1>6, NotifiedHeld
  <2> HIDE DEF M
  <2> QED
    BY <1>1, <1>2, <2>2, <2>4, <2>5, Dispatch, Zenon
<1>7. Fits(write_packet(self, ev.p), H) /\ Fits(close(self), H)
  BY <1>1, ConstructorsFit, Zenon
<1>8. Fits([self EXCEPT !.err = ev.ec], H) /\ Fits([self EXCEPT !.pkt = ev.p], H)
  BY <1>1, FitsVariant, Zenon
<1> QED
  BY <1>1, <1>4, <1>5, <1>6, <1>7, <1>8, Zenon
-----------------------------------------------------------------------------
(***************************************************************************)
(* The steps of the client and the application.                            *)
(***************************************************************************)
\* What a handler of the application does to its variable.
LEMMA AppStays ==
  ASSUME AppHeld(app), NEW i,
         \/ app' = app
         \/ \E ec : app' = [app EXCEPT !.res[i] = ec]
         \/ \E ec, id : app' = [app EXCEPT !.res[i] = ec, !.id[i] = id]
         \/ \E ec, pvs : app' = [app EXCEPT !.res[i] = ec, !.saved = pvs]
  PROVE  AppHeld(app')
<1>1. \A r : AppHeld([app EXCEPT !.res = r])
  BY Zenon DEF AppHeld
<1>2. \A r, x : AppHeld([app EXCEPT !.res = r, !.id = x]) /\ AppHeld([app EXCEPT !.res = r, !.saved = x])
  BY Zenon DEF AppHeld
<1>3. \A ec : [app EXCEPT !.res[i] = ec] = [app EXCEPT !.res = [app.res EXCEPT ![i] = ec]]
  BY Zenon
<1>4. CASE \E ec : app' = [app EXCEPT !.res[i] = ec]
  BY <1>1, <1>3, <1>4, Zenon
<1>5. CASE \E ec, id : app' = [app EXCEPT !.res[i] = ec, !.id[i] = id]
  <2>1. PICK ec, id : app' = [app EXCEPT !.res[i] = ec, !.id[i] = id]
    BY <1>5, Zenon
  <2>2. app' = [app EXCEPT !.res = [app.res EXCEPT ![i] = ec], !.id = [app.id EXCEPT ![i] = id]]
    BY <2>1, Zenon
  <2> QED
    BY <1>2, <2>2, Zenon
<1>6. CASE \E ec, pvs : app' = [app EXCEPT !.res[i] = ec, !.saved = pvs]
  <2>1. PICK ec, pvs : app' = [app EXCEPT !.res[i] = ec, !.saved = pvs]
    BY <1>6, Zenon
  <2>2. app' = [app EXCEPT !.res = [app.res EXCEPT ![i] = ec], !.saved = pvs]
    BY <2>1, Zenon
  <2> QED
    BY <1>2, <2>2, Zenon
<1> QED
  BY <1>4, <1>5, <1>6, Zenon

\* A call that ends, or goes on with nothing else.
LEMMA DoneStep ==
  ASSUME Inv, RequestDone \/ Saved
  PROVE  Inv'
<1>1. PICK H, A : State(H, A) /\ ~ Waiting /\ ~ WriteStep(self) /\ EpHeld(ep, H) /\ ClHeld(cl, H) /\ AppHeld(app)
  BY Runs DEF RequestDone, RequestAt, Saved
<1>2. UNCHANGED <<setup, strm, net, ep, cl>> /\ ex' = Then(<<>>)
  BY DEF RequestDone, Saved
<1>3. AppHeld(app')
  <2>1. \/ app' = [app EXCEPT !.res[self.i] = self.ec, !.id[self.i] = self.id]
        \/ app' = [app EXCEPT !.res[self.k.i] = "ok", !.saved = self.pvs]
    BY DEF RequestDone, Saved
  <2> QED
    BY <1>1, <2>1, AppStays, Zenon
<1> QED
  BY <1>1, <1>2, <1>3, DispatchNone

\* The operation of a packet begins.
LEMMA BeginFits ==
  ASSUME NEW H, NEW i, NEW id, NEW ec
  PROVE  \E k : Fits(k, H) /\ Fits(begin(i, id, ec), H \cup {k})
<1>1. CASE ec # "ok"
  <2>1. Fits(request(i, "done", id), H) /\ Fits(request(i, "done", id), H \cup {request(i, "done", id)})
    BY PlainFit
  <2>2. Fits([request(i, "done", id) EXCEPT !.ec = ec], H \cup {request(i, "done", id)})
    BY <2>1, FitsVariant
  <2>3. begin(i, id, ec) = [request(i, "done", id) EXCEPT !.ec = ec]
    BY <1>1 DEF begin
  <2> QED
    BY <2>1, <2>2, <2>3, Zenon
<1>2. CASE ec = "ok"
  <2> DEFINE k == request(i, "sent", id)
  <2>1. Fits(k, H)
    BY PlainFit
  <2>2. begin(i, id, ec) = send(k, PacketOf(i, id))
    BY <1>2 DEF begin
  <2> HIDE DEF k
  <2>3. k \in H \cup {k}
    OBVIOUS
  <2>4. Fits(send(k, PacketOf(i, id)), H \cup {k})
    BY <2>3, ConstructorsFit, Zenon
  <2> QED
    BY <2>1, <2>2, <2>4, Zenon
<1> QED
  BY <1>1, <1>2

\* A handler that needs one more.
LEMMA DispatchTwo ==
  ASSUME NEW H, NEW A, State(H, A), NEW k, NEW g, Fits(k, H), Fits(g, H \cup {k}),
         (~ Waiting /\ ~ WriteStep(self) /\ ex' = Then(<<g>>)) \/ (Waiting /\ ex' = [ex EXCEPT !.now = <<g>>]),
         UNCHANGED <<setup, strm, net>>, EpHeld(ep', H), ClHeld(cl', H), AppHeld(app')
  PROVE  Inv'
<1> DEFINE G == H \cup {k}
<1>1. State(G, A) /\ H \subseteq G /\ A \subseteq A /\ G \subseteq G \cup {g}
  BY Grow
<1> HIDE DEF G
<1>2. \A x \in {g} : Fits(x, G)
  BY DEF G
<1>3. <<g>> \in Seq(G \cup {g}) /\ <<>> \in Seq(G \cup {g})
  OBVIOUS
<1>4. SameOrder
  BY DEF SameOrder
<1>5. strm' \in StreamType(G \cup {g}, A) /\ NetHeld(net', A)
  <2>1. strm \in StreamType(G, A) /\ NetHeld(net, A)
    BY <1>1 DEF State, Held
  <2> QED
    BY <1>1, <2>1, StreamGrows, Zenon
<1>6. EpHeld(ep', G \cup {g}) /\ ClHeld(cl', G \cup {g})
  BY <1>1, MembersGrow, Zenon
<1> QED
  BY <1>1, <1>2, <1>3, <1>4, <1>5, <1>6, Ordinary, Zenon

\* The identifier was acquired, or not.
LEMMA AcquiredStep ==
  ASSUME Inv, RequestAcquired
  PROVE  Inv'
<1>1. PICK H, A : /\ State(H, A) /\ ~ Waiting /\ ~ WriteStep(self) /\ Fits(self, H) /\ self.fn = "request"
                  /\ EpHeld(ep, H) /\ ClHeld(cl, H) /\ AppHeld(app)
  BY Runs DEF RequestAcquired, RequestAt
<1>2. UNCHANGED <<setup, strm, net, ep, cl>>
  BY DEF RequestAcquired
<1>3. CASE self.ec # "ok"
  <2>1. app' = [app EXCEPT !.res[self.i] = self.ec] /\ ex' = Then(<<>>)
    BY <1>3 DEF RequestAcquired, Complete
  <2>2. AppHeld(app')
    BY <1>1, <2>1, AppStays, Zenon
  <2> QED
    BY <1>1, <1>2, <2>1, <2>2, DispatchNone
<1>4. CASE self.ec = "ok"
  <2>1. Kind(self.i) \in {"publish", "subscribe", "unsubscribe"}
    BY <1>1 DEF Fits, RequestAcquired, RequestAt
  <2>2. ex' = Then(<<begin(self.i, self.id, Constructed(self.i))>>) /\ app' = app
    BY <1>4, <2>1 DEF RequestAcquired, async_publish, async_subscribe, async_unsubscribe, publish_op, subscribe_op,
                      unsubscribe_op
  <2>3. PICK k : Fits(k, H) /\ Fits(begin(self.i, self.id, Constructed(self.i)), H \cup {k})
    BY BeginFits, Zenon
  <2> QED
    BY <1>1, <1>2, <2>2, <2>3, DispatchTwo, Zenon
<1> QED
  BY <1>3, <1>4

\* A request that completes and leaves the members of the client alone.
LEMMA CompleteStep ==
  ASSUME NEW H, NEW A, State(H, A), ~ Waiting, ~ WriteStep(self), EpHeld(ep, H), AppHeld(app), ClHeld(cl', H),
         NEW i, NEW ec, Complete(i, ec, <<>>), UNCHANGED <<setup, strm, net, ep>>
  PROVE  Inv'
<1>1. app' = [app EXCEPT !.res[i] = ec] /\ ex' = Then(<<>>)
  BY DEF Complete
<1>2. AppHeld(app')
  BY <1>1, AppStays, Zenon
<1> QED
  BY <1>1, <1>2, DispatchNone

\* async_send() completed, and the request waits for its answer.
LEMMA AwaitStep ==
  ASSUME Inv, Running("request"), NEW hs, hs = <<>> \/ hs = <<recv(recv_loop)>>, Await(hs)
  PROVE  Inv'
<1>1. PICK H, A : State(H, A) /\ ~ Waiting /\ ~ WriteStep(self) /\ EpHeld(ep, H) /\ ClHeld(cl, H) /\ AppHeld(app)
  BY Runs
<1>2. UNCHANGED <<setup, strm, net, ep>>
  BY DEF Await
<1>3. CASE self.ec # "ok"
  <2>1. Complete(self.i, self.ec, <<>>) /\ cl' = cl
    BY <1>3 DEF Await
  <2> QED
    BY <1>1, <1>2, <2>1, CompleteStep
<1>4. CASE self.ec = "ok"
  <2> DEFINE c == emplace(cl.col, self.i, self.id)
  <2>1. /\ cl' = [cl EXCEPT !.col = c, !.loop = @ \/ hs # <<>>]
        /\ ex' = Then(hs) /\ app' = app
    BY <1>4, Zenon DEF Await
  <2>2. IsFiniteSet(DOMAIN c)
    <3>1. IsFiniteSet(DOMAIN cl.col) /\ IsFiniteSet(DOMAIN cl.col \cup {self.id})
      BY <1>1, FS_AddElement, Zenon DEF ClHeld
    <3>2. DOMAIN c = DOMAIN cl.col \/ DOMAIN c = DOMAIN cl.col \cup {self.id}
      BY DEF emplace
    <3> QED
      BY <3>1, <3>2, Zenon
  <2> HIDE DEF c
  <2>3. ClHeld(cl', H)
    BY <1>1, <2>1, <2>2, Zenon DEF ClHeld
  <2>4. CASE hs = <<>>
    BY <1>1, <1>2, <2>1, <2>3, <2>4, DispatchNone
  <2>5. CASE hs = <<recv(recv_loop)>>
    <3>1. Fits(recv_loop, H)
      BY PlainFit
    <3>2. recv_loop \in H \cup {recv_loop}
      OBVIOUS
    <3>3. Fits(recv(recv_loop), H \cup {recv_loop})
      BY <3>2, ConstructorsFit, Zenon
    <3> QED
      BY <1>1, <1>2, <2>1, <2>3, <2>5, <3>1, <3>3, DispatchTwo, Zenon
  <2> QED
    BY <2>4, <2>5
<1> QED
  BY <1>3, <1>4

\* async_send() of a request completed.
LEMMA SentStep ==
  ASSUME Inv, StartSent \/ PublishSent \/ SubscribeSent \/ UnsubscribeSent \/ DisconnectSent \/ AuthSent
  PROVE  Inv'
<1>1. Running("request")
  BY DEF StartSent, PublishSent, SubscribeSent, UnsubscribeSent, DisconnectSent, AuthSent, RequestOf, RequestAt
<1>2. NoAnswer \/ Await(<<>>) \/ Await(<<recv(recv_loop)>>)
  BY DEF StartSent, PublishSent, SubscribeSent, UnsubscribeSent, DisconnectSent, AuthSent
<1>3. CASE NoAnswer
  <2>1. PICK H, A : State(H, A) /\ ~ Waiting /\ ~ WriteStep(self) /\ EpHeld(ep, H) /\ ClHeld(cl, H) /\ AppHeld(app)
    BY <1>1, Runs
  <2>2. Complete(self.i, self.ec, <<>>) /\ UNCHANGED <<setup, strm, net, ep, cl>>
    BY <1>3 DEF NoAnswer
  <2> QED
    BY <2>1, <2>2, CompleteStep
<1>4. CASE Await(<<>>)
  BY <1>1, <1>4, AwaitStep
<1>5. CASE Await(<<recv(recv_loop)>>)
  BY <1>1, <1>5, AwaitStep
<1> QED
  BY <1>2, <1>3, <1>4, <1>5

\* The timer of a request was cancelled.
LEMMA AnsweredStep ==
  ASSUME Inv, StartAnswered \/ PublishAnswered \/ SubscribeAnswered \/ UnsubscribeAnswered
  PROVE  Inv'
<1>1. Running("request") /\ Finish
  BY DEF StartAnswered, PublishAnswered, SubscribeAnswered, UnsubscribeAnswered, RequestOf, RequestAt
<1>2. PICK H, A : State(H, A) /\ ~ Waiting /\ ~ WriteStep(self) /\ EpHeld(ep, H) /\ ClHeld(cl, H) /\ AppHeld(app)
  BY <1>1, Runs
<1>3. UNCHANGED <<setup, strm, net, ep>>
  BY <1>1 DEF Finish
<1>4. \E ec : /\ Complete(self.i, ec, <<>>)
              /\ cl' = cl \/ \E id : cl' = [cl EXCEPT !.col = [x \in DOMAIN @ \ {id} |-> @[x]]]
  BY <1>1, Zenon DEF Finish
<1>5. ClHeld(cl', H)
  <2>1. ASSUME NEW id
        PROVE  ClHeld([cl EXCEPT !.col = [x \in DOMAIN @ \ {id} |-> @[x]]], H)
    <3> DEFINE c == [x \in DOMAIN cl.col \ {id} |-> cl.col[x]]
    <3>1. IsFiniteSet(DOMAIN cl.col \ {id})
      BY <1>2, FS_RemoveElement DEF ClHeld
    <3>2. DOMAIN c = DOMAIN cl.col \ {id}
      OBVIOUS
    <3>3. IsFiniteSet(DOMAIN c)
      BY <3>1, <3>2
    <3> HIDE DEF c
    <3>4. ClHeld([cl EXCEPT !.col = c], H)
      BY <1>2, <3>3, Zenon DEF ClHeld
    <3> QED
      BY <3>4 DEF c
  <2> QED
    BY <1>2, <1>4, <2>1, Zenon
<1> QED
  BY <1>2, <1>3, <1>4, <1>5, CompleteStep, Zenon

\* client recv_op
LEMMA ClientRecvStep ==
  ASSUME Inv, ClientRecv \/ ClientRecvNotified
  PROVE  Inv'
<1>1. PICK H, A : /\ State(H, A) /\ ~ Waiting /\ ~ WriteStep(self) /\ self \in H
                  /\ EpHeld(ep, H) /\ ClHeld(cl, H) /\ AppHeld(app)
  BY Runs DEF ClientRecv, ClientRecvNotified
<1>2. UNCHANGED <<setup, strm, net, ep>>
  BY DEF ClientRecv, ClientRecvNotified
<1>3. \/ cl' = [cl EXCEPT !.inserted = FALSE, !.waiter = <<self>>] /\ ex' = Then(<<>>) /\ app' = app
      \/ /\ cl' = cl \/ cl' = [cl EXCEPT !.recvq = Tail(@)]
         /\ \E ec : Complete(self.i, ec, <<>>)
  BY DEF ClientRecv, ClientRecvNotified
<1>4. ClHeld(cl', H)
  <2>1. <<self>> \in Seq(H)
    BY <1>1
  <2> QED
    BY <1>1, <1>3, <2>1, Zenon DEF ClHeld
<1>5. CASE ex' = Then(<<>>) /\ app' = app
  BY <1>1, <1>2, <1>4, <1>5, DispatchNone
<1>6. CASE \E ec : Complete(self.i, ec, <<>>)
  BY <1>1, <1>2, <1>4, <1>6, CompleteStep
<1> QED
  BY <1>3, <1>5, <1>6

\* The waiter that is notified.
LEMMA NotifiesFit ==
  ASSUME NEW H, NEW c, Closed(H), ClHeld(c, H)
  PROVE  \E N : (\A g \in N : Fits(g, H)) /\ Notifies(c) \in Seq(N)
<1>1. c.waiter \in Seq(H)
  BY DEF ClHeld
<1> DEFINE N == {Resume(c.waiter[j], "aborted") : j \in DOMAIN c.waiter}
<1>2. \A g \in N : Fits(g, H)
  <2>1. ASSUME NEW j \in DOMAIN c.waiter
        PROVE  Fits(Resume(c.waiter[j], "aborted"), H)
    <3>1. Fits(c.waiter[j], H)
      BY <1>1, SeqElement DEF Closed
    <3> QED
      BY <3>1, ResumeFits
  <2> QED
    BY <2>1, Zenon
<1>3. DOMAIN c.waiter = 1 .. Len(c.waiter) /\ Len(c.waiter) \in Nat
  BY <1>1
<1>4. Notifies(c) \in [DOMAIN c.waiter -> N]
  BY Zenon DEF Notifies
<1> HIDE DEF N
<1>5. Notifies(c) \in Seq(N)
  BY <1>3, <1>4, FunctionIsSeq
<1> QED
  BY <1>2, <1>5, Zenon

\* The requests that are told that recv_loop() ended.
LEMMA RequestsFit ==
  ASSUME NEW H, NEW n \in Nat, NEW r
  PROVE  \E N : (\A g \in N : Fits(g, H)) /\ [j \in 1 .. n |-> request(r[j], "answered", 0)] \in Seq(N)
<1> DEFINE s == [j \in 1 .. n |-> request(r[j], "answered", 0)]
           N == {request(r[j], "answered", 0) : j \in 1 .. n}
<1>1. \A g \in N : Fits(g, H)
  <2>1. \A j \in 1 .. n : Fits(request(r[j], "answered", 0), H)
    BY PlainFit
  <2> QED
    BY <2>1, Zenon
<1>2. s \in [1 .. n -> N]
  BY Zenon
<1> HIDE DEF N, s
<1>3. s \in Seq(N)
  BY <1>2, FunctionIsSeq
<1> QED
  BY <1>1, <1>3, Zenon DEF s

\* recv_loop() ends.
LEMMA LoopErrorStep ==
  ASSUME Inv, RecvLoopError
  PROVE  Inv'
<1>1. PICK H, A : State(H, A) /\ ~ Waiting /\ ~ WriteStep(self) /\ EpHeld(ep, H) /\ ClHeld(cl, H) /\ AppHeld(app)
  BY Runs DEF RecvLoopError
<1>2. UNCHANGED <<setup, strm, net, ep, app>> /\ Closed(H)
  BY <1>1 DEF RecvLoopError, State
<1> DEFINE ids == {id \in DOMAIN cl.col : Waits(cl.col[id])}
           f == CHOOSE g \in Bijection(1 .. Cardinality(ids), ids) : TRUE
           s == [j \in DOMAIN f |-> request(cl.col[f[j]].i, "answered", 0)]
<1>3. ex' = ThenPost(<<>>, Notifies(cl) \o s) /\ cl' = [Inserted(cl, self.ec) EXCEPT !.col = <<>>, !.loop = FALSE]
  BY DEF RecvLoopError
<1>4. PICK N : (\A g \in N : Fits(g, H)) /\ s \in Seq(N)
  <2> DEFINE n == Cardinality(ids)
             r == [j \in 1 .. n |-> cl.col[f[j]].i]
  <2>1. IsFiniteSet(ids)
    BY <1>1, FS_Subset DEF ClHeld
  <2> HIDE DEF ids
  <2>2. n \in Nat /\ ExistsBijection(1 .. n, ids)
    BY <2>1, FS_CardinalityType
  <2>3. f \in Bijection(1 .. n, ids)
    BY <2>2, Zenon DEF ExistsBijection
  <2>4. DOMAIN f = 1 .. n
    BY <2>3, Zenon DEF Bijection, Injection, IsInjective, Surjection
  <2>5. s = [j \in 1 .. n |-> request(r[j], "answered", 0)]
    <3>1. \A j \in 1 .. n : r[j] = cl.col[f[j]].i
      OBVIOUS
    <3> HIDE DEF f, n, r
    <3> QED
      BY <2>4, <3>1
  <2> HIDE DEF f, s, n, r
  <2>6. \E N : (\A g \in N : Fits(g, H)) /\ [j \in 1 .. n |-> request(r[j], "answered", 0)] \in Seq(N)
    BY <2>2, RequestsFit, Zenon
  <2> QED
    BY <2>5, <2>6, Zenon
<1> HIDE DEF s
<1>5. PICK M : (\A g \in M : Fits(g, H)) /\ Notifies(cl) \in Seq(M)
  BY <1>1, <1>2, NotifiesFit
<1> DEFINE B == M \cup N
<1>6. \A g \in B : Fits(g, H)
  BY <1>4, <1>5
<1>7. Notifies(cl) \o s \in Seq(H \cup B) /\ <<>> \in Seq(H \cup B)
  <2> DEFINE S == H \cup B
  <2>1. M \subseteq S /\ N \subseteq S
    OBVIOUS
  <2> HIDE DEF S
  <2>2. Notifies(cl) \in Seq(S) /\ s \in Seq(S)
    BY <1>4, <1>5, <2>1
  <2>3. Notifies(cl) \o s \in Seq(S) /\ <<>> \in Seq(S)
    BY <2>2
  <2> QED
    BY <2>3 DEF S
<1>8. ClHeld(cl', H)
  <2>1. <<>> \in Seq(H) /\ DOMAIN <<>> = {}
    OBVIOUS
  <2>2. IsFiniteSet(DOMAIN <<>>)
    BY <2>1, FS_EmptySet
  <2> QED
    BY <1>1, <1>3, <2>1, <2>2, Zenon DEF ClHeld, Inserted
<1> HIDE DEF B
<1> QED
  BY <1>1, <1>2, <1>3, <1>6, <1>7, <1>8, Dispatch, Zenon

\* recv_loop() receives a packet, and goes on.
LEMMA LoopStep ==
  ASSUME Inv, RecvLoopAnswer \/ RecvLoopQueued \/ RecvLoopIgnored
  PROVE  Inv'
<1>1. PICK H, A : State(H, A) /\ ~ Waiting /\ ~ WriteStep(self) /\ EpHeld(ep, H) /\ ClHeld(cl, H) /\ AppHeld(app)
  BY Runs DEF RecvLoopAnswer, RecvLoopQueued, RecvLoopIgnored
<1>2. UNCHANGED <<setup, strm, net, ep, app>> /\ Closed(H)
  BY <1>1 DEF RecvLoopAnswer, RecvLoopQueued, RecvLoopIgnored, State
<1> DEFINE G == H \cup {recv_loop}
           r == recv(recv_loop)
<1>3. State(G, A) /\ recv_loop \in G /\ H \subseteq G
  BY <1>1, Grow, PlainFit
<1> HIDE DEF G
<1>4. Fits(r, G)
  BY <1>3, ConstructorsFit, Zenon
<1>5. Closed(G) /\ ClHeld(cl, G) /\ EpHeld(ep', G) /\ AppHeld(app')
  BY <1>1, <1>2, <1>3, MembersGrow, Zenon DEF State
<1>6. \E ps, N : (\A g \in N : Fits(g, G)) /\ ps \in Seq(N) /\ (ex' = ThenPost(<<r>>, ps) \/ ex' = Then(<<r>>))
  <2>1. <<>> \in Seq(G) /\ \A g \in G : Fits(g, G)
    BY <1>5 DEF Closed
  <2>2. CASE RecvLoopAnswer
    <3>1. \/ ex' = ThenPost(<<r>>, <<>>) \/ ex' = Then(<<r>>)
          \/ \E i : ex' = ThenPost(<<r>>, <<request(i, "answered", 0)>>)
      BY <2>2 DEF RecvLoopAnswer
    <3>2. CASE \E i : ex' = ThenPost(<<r>>, <<request(i, "answered", 0)>>)
      <4>1. PICK i : ex' = ThenPost(<<r>>, <<request(i, "answered", 0)>>)
        BY <3>2
      <4> DEFINE q == request(i, "answered", 0)
      <4>2. Fits(q, G)
        BY PlainFit
      <4> HIDE DEF q
      <4>3. (\A g \in {q} : Fits(g, G)) /\ <<q>> \in Seq({q})
        BY <4>2
      <4>4. ex' = ThenPost(<<r>>, <<q>>)
        BY <4>1 DEF q
      <4> WITNESS <<q>>, {q}
      <4> QED
        BY <4>3, <4>4, Zenon
    <3>3. CASE ex' = ThenPost(<<r>>, <<>>) \/ ex' = Then(<<r>>)
      <4> WITNESS <<>>, G
      <4> QED
        BY <2>1, <3>3, Zenon
    <3> QED
      BY <3>1, <3>2, <3>3, Zenon
  <2>3. CASE RecvLoopQueued
    <3>1. ex' = ThenPost(<<r>>, Notifies(cl))
      BY <2>3 DEF RecvLoopQueued
    <3> QED
      BY <1>5, <3>1, NotifiesFit, Zenon
  <2>4. CASE RecvLoopIgnored
    <3>1. ex' = Then(<<r>>)
      BY <2>4 DEF RecvLoopIgnored
    <3> WITNESS <<>>, G
    <3> QED
      BY <2>1, <3>1, Zenon
  <2> QED
    BY <2>2, <2>3, <2>4, Zenon
<1>7. ClHeld(cl', G)
  <2>1. CASE RecvLoopAnswer
    <3> DEFINE key == KeyOf(self.pkt)
    <3>1. \/ \E m : cl' = [cl EXCEPT !.missed = m]
          \/ \E v, m : cl' = [cl EXCEPT !.col[key].found = v, !.missed = m]
      BY <2>1, Zenon DEF RecvLoopAnswer
    <3> HIDE DEF key
    <3>2. ASSUME NEW v, NEW m
          PROVE  ClHeld([cl EXCEPT !.col[key].found = v, !.missed = m], G)
      <4> DEFINE c == [cl.col EXCEPT ![key].found = v]
      <4>1. DOMAIN c = DOMAIN cl.col
        OBVIOUS
      <4>2. [cl EXCEPT !.col[key].found = v, !.missed = m] = [cl EXCEPT !.col = c, !.missed = m]
        OBVIOUS
      <4> HIDE DEF c
      <4>3. ClHeld([cl EXCEPT !.col = c, !.missed = m], G)
        BY <1>5, <4>1, Zenon DEF ClHeld
      <4> QED
        BY <4>2, <4>3, Zenon
    <3>3. ASSUME NEW m
          PROVE  ClHeld([cl EXCEPT !.missed = m], G)
      BY <1>5, Zenon DEF ClHeld
    <3>4. CASE \E m : cl' = [cl EXCEPT !.missed = m]
      BY <3>3, <3>4
    <3>5. CASE \E v, m : cl' = [cl EXCEPT !.col[key].found = v, !.missed = m]
      <4>1. PICK v, m : cl' = [cl EXCEPT !.col[key].found = v, !.missed = m]
        BY <3>5, Zenon
      <4>2. ClHeld([cl EXCEPT !.col[key].found = v, !.missed = m], G)
        BY <3>2, Zenon
      <4> QED
        BY <4>1, <4>2, Zenon
    <3> QED
      BY <3>1, <3>4, <3>5, Zenon
  <2>2. CASE RecvLoopQueued
    <3>1. cl' = Inserted(cl, "ok")
      BY <2>2 DEF RecvLoopQueued
    <3>2. <<>> \in Seq(G)
      OBVIOUS
    <3> QED
      BY <1>5, <3>1, <3>2, Zenon DEF ClHeld, Inserted
  <2>3. CASE RecvLoopIgnored
    BY <1>5, <2>3 DEF RecvLoopIgnored
  <2> QED
    BY <2>1, <2>2, <2>3
<1>8. PICK ps, N : (\A g \in N : Fits(g, G)) /\ ps \in Seq(N) /\ (ex' = ThenPost(<<r>>, ps) \/ ex' = Then(<<r>>))
  BY <1>6
<1> HIDE DEF r
<1> DEFINE M == N \cup {r}
<1>9. (\A g \in M : Fits(g, G)) /\ <<r>> \in Seq(G \cup M) /\ ps \in Seq(G \cup M)
  BY <1>4, <1>8
<1> HIDE DEF M
<1> QED
  BY <1>1, <1>2, <1>3, <1>5, <1>7, <1>8, <1>9, Dispatch, Zenon
-----------------------------------------------------------------------------
(***************************************************************************)
(* The calls of the application.                                           *)
(***************************************************************************)
\* The handler that a call begins with fits, given its continuation.
LEMMA EntryFits ==
  ASSUME NEW H, NEW i, Kind(i) \in CallKinds \ Immediate
  PROVE  \E k, x : Fits(k, H) /\ Fits(x, H \cup {k}) /\ Fits(Entry(i), (H \cup {k}) \cup {x})
<1> DEFINE d == request(i, "done", 0)
           a == request(i, "acquired", 0)
<1>1. ASSUME NEW k, Fits(k, H), Fits(Entry(i), H \cup {k})
      PROVE  \E y, x : Fits(y, H) /\ Fits(x, H \cup {y}) /\ Fits(Entry(i), (H \cup {y}) \cup {x})
  <2>1. Fits(k, H \cup {k})
    BY <1>1 DEF Fits
  <2>2. (H \cup {k}) \cup {k} = H \cup {k}
    OBVIOUS
  <2> WITNESS k, k
  <2> QED
    BY <1>1, <2>1, <2>2
<1>2. ASSUME NEW ec, Entry(i) = begin(i, 0, ec)
      PROVE  \E y, x : Fits(y, H) /\ Fits(x, H \cup {y}) /\ Fits(Entry(i), (H \cup {y}) \cup {x})
  <2>1. PICK k : Fits(k, H) /\ Fits(begin(i, 0, ec), H \cup {k})
    BY BeginFits, Zenon
  <2> QED
    BY <1>1, <1>2, <2>1, Zenon
<1>3. Fits(d, H)
  BY PlainFit
<1>4. NeedsId(i) => Fits(a, H)
  BY DEF Fits, PlainFns, ContFns, request, NeedsId
<1>5. CASE NeedsId(i)
  <2>1. Entry(i) = acquire(a)
    BY <1>5 DEF Entry, NeedsId, async_acquire_unique_packet_id_wait_until
  <2> HIDE DEF a
  <2>2. a \in H \cup {a}
    OBVIOUS
  <2>3. Fits(acquire(a), H \cup {a})
    BY <2>2, ConstructorsFit, Zenon
  <2> QED
    BY <1>1, <1>4, <1>5, <2>1, <2>3, Zenon
<1>6. CASE ~ NeedsId(i) /\ Kind(i) \in {"start", "publish", "disconnect", "auth"}
  <2>1. Entry(i) = begin(i, 0, Constructed(i))
    BY <1>6 DEF Entry, NeedsId, async_start, async_publish, async_disconnect, async_auth, start_op, publish_op,
                disconnect_op, auth_op
  <2> QED
    BY <1>2, <2>1, ZenonT(40)
<1>7. CASE Kind(i) = "recv"
  <2>1. Entry(i) = async_recv(i)
    BY <1>7 DEF Entry, NeedsId
  <2>2. Fits(async_recv(i), H \cup {d})
    BY PlainFit
  <2> HIDE DEF d
  <2> QED
    BY <1>1, <1>3, <2>1, <2>2, Zenon
<1>8. CASE Kind(i) = "handshake"
  <2> DEFINE h == [fn |-> "handshaken", k |-> d, ec |-> "ok"]
  <2>1. Entry(i) = handshake(h)
    BY <1>8 DEF Entry, NeedsId, async_underlying_handshake, underlying_handshake
  <2> DEFINE G == H \cup {d}
  <2>2. d \in G
    OBVIOUS
  <2>3. Fits(h, G)
    BY <2>2, ConstructorsFit, Zenon
  <2> HIDE DEF h
  <2>4. h \in G \cup {h}
    OBVIOUS
  <2>5. Fits(handshake(h), G \cup {h})
    BY <2>4, ConstructorsFit, Zenon
  <2> HIDE DEF d
  <2> WITNESS d, h
  <2> QED
    BY <1>3, <2>1, <2>3, <2>5
<1>9. CASE Kind(i) \in {"close", "acquire", "register", "release", "get_stored", "restore"}
  <2>1. \/ Entry(i) = close(d) \/ Entry(i) = acquire_now(d) \/ Entry(i) = get_stored(d)
        \/ \E id : Entry(i) = register(d, id) \/ Entry(i) = release(d, id)
        \/ \E pvs : Entry(i) = restore(d, pvs)
    BY <1>9, Zenon DEF Entry, NeedsId, async_close, async_acquire_unique_packet_id, async_register_packet_id,
                async_release_packet_id, async_get_stored_packets, async_restore_packets
  <2> HIDE DEF d
  <2>2. d \in H \cup {d}
    OBVIOUS
  <2>3. Fits(Entry(i), H \cup {d})
    BY <2>1, <2>2, ConstructorsFit, Zenon
  <2> QED
    BY <1>1, <1>3, <2>3, Zenon
<1>10. Kind(i) \in {"subscribe", "unsubscribe"} => NeedsId(i)
  BY DEF NeedsId
<1> QED
  BY <1>5, <1>6, <1>7, <1>8, <1>9, <1>10, Zenon DEF CallKinds, Immediate

\* The number of the next call.
LEMMA NextCallType ==
  ASSUME AppHeld(app)
  PROVE  NextCall \in Nat
BY DEF AppHeld, NextCall

\* The members of the application after a call was made.
LEMMA AppCalls ==
  ASSUME AppHeld(app), NEW i,
         \/ \E ec : app' = [app EXCEPT !.next = NextCall, !.res[i] = ec]
         \/ \E ec, id : app' = [app EXCEPT !.next = NextCall, !.res[i] = ec, !.id[i] = id]
         \/ \E r, id : app' = [app EXCEPT !.next = NextCall, !.id = id, !.res = r]
  PROVE  AppHeld(app')
<1>1. NextCall \in Nat
  BY NextCallType, Zenon
<1> DEFINE b == [app EXCEPT !.next = NextCall]
<1>2. AppHeld(b)
  BY <1>1, Zenon DEF AppHeld
<1> HIDE DEF b
<1>3. \A r : AppHeld([b EXCEPT !.res = r])
  BY <1>2, Zenon DEF AppHeld
<1>4. \A r, x : AppHeld([b EXCEPT !.res = r, !.id = x]) /\ AppHeld([b EXCEPT !.id = x, !.res = r])
  BY <1>2, Zenon DEF AppHeld
<1>5. CASE \E ec : app' = [app EXCEPT !.next = NextCall, !.res[i] = ec]
  <2>1. PICK ec : app' = [app EXCEPT !.next = NextCall, !.res[i] = ec]
    BY <1>5, Zenon
  <2>2. app' = [b EXCEPT !.res = [b.res EXCEPT ![i] = ec]]
    BY <2>1, Zenon DEF b
  <2> QED
    BY <1>3, <2>2, Zenon
<1>6. CASE \E ec, id : app' = [app EXCEPT !.next = NextCall, !.res[i] = ec, !.id[i] = id]
  <2>1. PICK ec, id : app' = [app EXCEPT !.next = NextCall, !.res[i] = ec, !.id[i] = id]
    BY <1>6, Zenon
  <2>2. app' = [b EXCEPT !.res = [b.res EXCEPT ![i] = ec], !.id = [b.id EXCEPT ![i] = id]]
    BY <2>1, Zenon DEF b
  <2> QED
    BY <1>4, <2>2, Zenon
<1>7. CASE \E r, id : app' = [app EXCEPT !.next = NextCall, !.id = id, !.res = r]
  <2>1. PICK r, id : app' = [app EXCEPT !.next = NextCall, !.id = id, !.res = r]
    BY <1>7, Zenon
  <2>2. app' = [b EXCEPT !.id = id, !.res = r]
    BY <2>1, Zenon DEF b
  <2> QED
    BY <1>4, <2>2, Zenon
<1> QED
  BY <1>5, <1>6, <1>7, Zenon

\* A call of one of the functions that begin with async_.
LEMMA CallStep ==
  ASSUME Inv, Call
  PROVE  Inv'
<1>1. PICK H, A : State(H, A)
  BY DEF Inv, Typed, State
<1>2. setup \in Setups /\ EpHeld(ep, H) /\ ClHeld(cl, H) /\ AppHeld(app)
  BY <1>1 DEF State, Held
<1>3. /\ Waiting /\ UNCHANGED <<setup, strm, net, ep, cl>> /\ ex' = [ex EXCEPT !.now = <<Entry(NextCall)>>]
      /\ app' = [app EXCEPT !.next = NextCall, !.res[NextCall] = "pending"]
  BY DEF Call, MayCall
<1>4. AppHeld(app')
  BY <1>2, <1>3, AppCalls, Zenon
<1>5. Kind(NextCall) \in CallKinds \ Immediate
  <2>1. setup.calls \in Seq([kind : CallKinds, arg : Int, after : SUBSET Nat])
    BY <1>2, SetupsAssumption, Zenon
  <2>2. NextCall \in DOMAIN setup.calls
    BY <1>2, <2>1 DEF Call, MayCall, NextCall, AppHeld
  <2>3. setup.calls[NextCall].kind \in CallKinds
    <3>1. setup.calls[NextCall] \in [kind : CallKinds, arg : Int, after : SUBSET Nat]
      BY <2>1, <2>2, SeqElement, Zenon
    <3> QED
      BY <3>1
  <2> QED
    BY <2>3 DEF Call, Kind
<1>6. PICK k, x : Fits(k, H) /\ Fits(x, H \cup {k}) /\ Fits(Entry(NextCall), (H \cup {k}) \cup {x})
  BY <1>5, EntryFits, Zenon
<1> DEFINE G == H \cup {k}
<1>7. State(G, A) /\ H \subseteq G
  BY <1>1, <1>6, Grow
<1>8. Fits(x, G) /\ Fits(Entry(NextCall), G \cup {x})
  BY <1>6
<1> HIDE DEF G
<1>9. EpHeld(ep', G) /\ ClHeld(cl', G)
  BY <1>2, <1>3, <1>7, MembersGrow, Zenon
<1> QED
  BY <1>3, <1>4, <1>7, <1>8, <1>9, DispatchTwo

\* A call that has taken effect when it returns.
LEMMA NowStep ==
  ASSUME Inv, AcquireNow \/ RegisterNow \/ ReleaseNow \/ SetPingreqSendInterval
  PROVE  Inv'
<1>1. PICK H, A : State(H, A)
  BY DEF Inv, Typed, State
<1>2. /\ EpHeld(ep, H) /\ ClHeld(cl, H) /\ AppHeld(app) /\ strm \in StreamType(H, A) /\ NetHeld(net, A)
      /\ H \cup {} = H
  BY <1>1 DEF State, Held
<1>3. Waiting /\ UNCHANGED <<setup, ex, strm, net, cl>>
  BY DEF AcquireNow, RegisterNow, ReleaseNow, SetPingreqSendInterval, Calling, MayCall
<1>4. AppHeld(app')
  <2>1. \E ec, id : app' = [app EXCEPT !.next = NextCall, !.res[NextCall] = ec, !.id[NextCall] = id]
    BY Zenon DEF AcquireNow, RegisterNow, ReleaseNow, SetPingreqSendInterval, Returns
  <2> QED
    BY <1>2, <2>1, AppCalls, Zenon
<1>5. EpHeld(ep', H)
  <2>1. ep' = ep \/ (\E d : ep' = [ep EXCEPT !.dropped = d]) \/ (\E ev : ep' = TimerOp(ep, ev))
    BY DEF AcquireNow, RegisterNow, ReleaseNow, SetPingreqSendInterval, PingreqSendInterval
  <2> QED
    BY <1>2, <2>1, ZenonT(40) DEF EpHeld, TimerOp
<1>6. SameOrder /\ <<>> \in Seq(H) /\ \A x \in {} : Fits(x, H)
  BY <1>3 DEF SameOrder
<1> QED
  BY <1>1, <1>2, <1>3, <1>4, <1>5, <1>6, Ordinary, Zenon

\* The members of a new process hold no handlers.
LEMMA NewHeld ==
  ASSUME NEW H, NEW A
  PROVE  /\ NewExecutor \in ExType(H, A) /\ NewStream \in StreamType(H, A) /\ ClHeld(NewClient, H)
         /\ \A e : e = NewEndpoint \/ (\E f : e = [NewEndpoint EXCEPT !.fires = f]) => EpHeld(e, H)
<1>1. \A S : <<>> \in Seq(S)
  OBVIOUS
<1>2. NewExecutor \in ExType(H, A)
  BY <1>1, Zenon DEF NewExecutor, ExType
<1>3. NewStream \in StreamType(H, A)
  BY <1>1 DEF NewStream, StreamType
<1>4. ClHeld(NewClient, H)
  <2>1. DOMAIN <<>> = {}
    OBVIOUS
  <2>2. IsFiniteSet(DOMAIN <<>>)
    BY <2>1, FS_EmptySet
  <2> QED
    BY <1>1, <2>2 DEF NewClient, ClHeld
<1>5. EpHeld(NewEndpoint, H)
  BY <1>1 DEF NewEndpoint, EpHeld
<1>6. \A f : EpHeld([NewEndpoint EXCEPT !.fires = f], H)
  BY <1>5, Zenon DEF EpHeld
<1> QED
  BY <1>2, <1>3, <1>4, <1>5, <1>6, Zenon

\* With a new stream, only what arrived can be out of order.
LEMMA NewOrder ==
  ASSUME ex = NewExecutor, strm = NewStream, net.stale \/ Increasing(net.wire)
  PROVE  OneWriter /\ Order
<1>1. /\ ex.now = <<>> /\ ex.ready = <<>> /\ strm.queue = <<>> /\ strm.storing = <<>> /\ strm.flight = <<>>
      /\ ~ strm.open
  BY DEF NewExecutor, NewStream
<1>2. Bufs = <<>> /\ DOMAIN <<>> = {}
  BY <1>1 DEF Bufs
<1>3. OneWriter
  BY <1>1, <1>2 DEF OneWriter, NoWriteStep
<1>4. Increasing(net.wire) => InOrder
  BY <1>1, <1>2, EmptyOrdered, Zenon DEF InOrder, Ordered
<1>5. Stores
  BY <1>1, <1>2, Zenon DEF Stores, Belongs
<1> QED
  BY <1>3, <1>4, <1>5 DEF Order

\* The process ends, and another begins.
LEMMA EndStep ==
  ASSUME Inv, ProcessEnds
  PROVE  Inv'
<1>1. PICK H, A : State(H, A)
  BY DEF Inv, Typed, State
<1>2. Closed(H) /\ setup \in Setups /\ AppHeld(app) /\ NetHeld(net, A) /\ Order
  BY <1>1 DEF State, Held
<1>3. /\ ex' = NewExecutor /\ strm' = NewStream /\ cl' = NewClient /\ setup' = setup
      /\ ep' = [NewEndpoint EXCEPT !.fires = ep.fires]
      /\ net' = [net EXCEPT !.link = FALSE, !.inbox = <<>>]
  BY DEF ProcessEnds
<1>4. NetHeld(net', A) /\ net'.wire = net.wire /\ net'.stale = net.stale
  BY <1>2, <1>3, Zenon DEF NetHeld
<1>5. AppHeld(app')
  <2>1. \E r, id : app' = [app EXCEPT !.next = NextCall, !.id = id, !.res = r]
    BY Zenon DEF ProcessEnds
  <2> QED
    BY <1>2, <2>1, AppCalls, Zenon
<1>6. ex' \in ExType(H, A) /\ strm' \in StreamType(H, A) /\ ClHeld(cl', H) /\ EpHeld(ep', H)
  BY <1>3, NewHeld, Zenon
<1>7. /\ ex'.now = <<>> /\ ex'.ready = <<>> /\ strm'.queue = <<>> /\ strm'.storing = <<>> /\ strm'.flight = <<>>
      /\ ~ strm'.open
  BY <1>3 DEF NewExecutor, NewStream
<1>8. Bufs' = <<>> /\ DOMAIN <<>> = {}
  BY <1>7 DEF Bufs
<1>9. OneWriter'
  BY <1>7, <1>8 DEF OneWriter, NoWriteStep
<1>10. Order'
  <2>1. InOrder => InOrder'
    BY <1>4, <1>7, <1>8, EmptyOrdered, Zenon DEF InOrder, Ordered
  <2>2. Stores'
    BY <1>7, <1>8, Zenon DEF Stores, Belongs
  <2> QED
    BY <1>2, <1>4, <2>1, <2>2 DEF Order
<1> QED
  BY <1>2, <1>3, <1>4, <1>5, <1>6, <1>9, <1>10, Conclude
-----------------------------------------------------------------------------
(***************************************************************************)
(* The invariant, and what follows from it.                                *)
(***************************************************************************)
\* Nothing was written when the program begins.
LEMMA InitInv ==
  ASSUME Init
  PROVE  Inv
<1>1. /\ ex = NewExecutor /\ strm = NewStream /\ cl = NewClient /\ ep = NewEndpoint /\ setup \in Setups
      /\ net.wire = <<>> /\ net.stale = FALSE /\ {"wire", "stale"} \subseteq DOMAIN net
      /\ "next" \in DOMAIN app /\ app.next = 0
  BY DEF Init, EndpointInit, StreamInit
<1>2. NetHeld(net, {}) /\ AppHeld(app)
  <2>1. <<>> \in Seq(WirePackets({})) /\ 0 \in Nat
    OBVIOUS
  <2> QED
    BY <1>1, <2>1, Zenon DEF NetHeld, AppHeld
<1>3. ex \in ExType({}, {}) /\ strm \in StreamType({}, {}) /\ ClHeld(cl, {}) /\ EpHeld(ep, {})
  BY <1>1, NewHeld, Zenon
<1>4. Held({}, {}) /\ Closed({})
  <2>1. Held({}, {})
    BY <1>1, <1>2, <1>3, Zenon DEF Held
  <2> QED
    BY <2>1, Zenon DEF Closed
<1>5. Increasing(net.wire)
  <2>1. DOMAIN <<>> = {}
    OBVIOUS
  <2> QED
    BY <1>1, <2>1, Zenon DEF Increasing
<1>6. OneWriter /\ Order
  BY <1>1, <1>5, NewOrder
<1> QED
  BY <1>4, <1>6, Zenon DEF Inv, Typed

\* The steps of the stream.
LEMMA StreamInv ==
  ASSUME Inv, StreamNext, UNCHANGED <<con, ep, cl, app>>
  PROVE  Inv'
<1>1. CASE RunOne
  BY <1>1, RunOneStep
<1>2. CASE Detached
  BY <1>2, DetachedStep
<1>3. CASE async_write_packet
  BY <1>3, WriteStarts
<1>4. CASE PollEmpty
  BY <1>4, PollEmptyStep
<1>5. CASE PollWrite
  BY <1>5, PollWriteStep
<1>6. CASE Written
  BY <1>6, WrittenStep
<1>7. CASE AsyncWriteDone
  BY <1>7, WriteDoneStep
<1>8. CASE async_read_some
  BY <1>8, ReadStep
<1>9. CASE AsyncReadDone
  BY <1>9, ReadDoneStep
<1>10. CASE StreamClose
  BY <1>10, StreamCloseStep
<1>11. CASE WsClosed \/ SslClosed
  BY <1>11, LayerClosedStep DEF WsClosed, SslClosed
<1>12. CASE TcpClose
  BY <1>12, TcpCloseStep
<1>13. CASE AsyncHandshake
  BY <1>13, AsyncHandshakeStep
<1>14. CASE TcpConnected
  BY <1>14, LayerUpStep, Zenon DEF TcpConnected
<1>15. CASE SslHandshaken \/ WsHandshaken
  BY <1>15, LayerUpStep DEF SslHandshaken, WsHandshaken
<1> QED
  BY <1>1, <1>2, <1>3, <1>4, <1>5, <1>6, <1>7, <1>8, <1>9, <1>10, <1>11, <1>12, <1>13, <1>14, <1>15, Zenon
     DEF StreamNext

\* The steps of the endpoint.
LEMMA EndpointInv ==
  ASSUME Inv, EndpointNext, UNCHANGED clientVars
  PROVE  Inv'
<1>1. UNCHANGED <<cl, app>>
  BY DEF clientVars
<1>2. CASE StreamNext /\ UNCHANGED epVars
  <2>1. UNCHANGED <<con, ep, cl, app>>
    BY <1>1, <1>2 DEF epVars
  <2> QED
    BY <1>2, <2>1, StreamInv
<1>3. CASE AcquireWaitUntil
  BY <1>3, AcquireStep
<1>4. CASE AcquireRetried
  BY <1>4, RetryStep
<1>5. CASE AcquireUnique \/ RegisterPacketId \/ GetStoredPackets \/ RestorePackets
  BY <1>5, IdStep
<1>6. CASE ReleasePacketId
  BY <1>6, ReleaseStep
<1>7. CASE PingreqSendFired \/ PingrespRecvFired
  BY <1>7, FiredStep
<1>8. CASE CloseStart
  BY <1>8, CloseStep
<1>9. CASE CloseComplete
  BY <1>9, CloseCompleteStep
<1>10. CASE CloseNotifies
  BY <1>10, NotifyStep
<1>11. CASE SendError \/ SendWrite \/ SendComplete
  BY <1>11, SendStep
<1>12. CASE SendEvent
  BY <1>12, SendEventStep
<1>13. CASE DelayExpires
  BY <1>1, <1>13, TimerStep
<1>14. CASE RecvError \/ RecvReadIstream \/ RecvProcessed
  BY <1>14, RecvStep
<1>15. CASE RecvCheckBuf
  BY <1>15, CheckBufStep
<1>16. CASE RecvEvent
  BY <1>16, RecvEventStep
<1>17. CASE RecvComplete
  BY <1>17, RecvCompleteStep
<1>18. CASE SendPublishFromQueue \/ QueuePop
  BY <1>18, FromQueueStep
<1>19. CASE QueueLoop
  BY <1>19, QueueLoopStep
<1>20. CASE Handshaken
  BY <1>20, HandshakenStep
<1>21. CASE PeerAnswers \/ PeerSends
  BY <1>1, <1>21, PeerStep
<1> QED
  BY <1>2, <1>3, <1>4, <1>5, <1>6, <1>7, <1>8, <1>9, <1>10, <1>11, <1>12, <1>13, <1>14, <1>15, <1>16, <1>17, <1>18,
     <1>19, <1>20, <1>21, Zenon DEF EndpointNext

\* The invariant is about the variables.
LEMMA StutterInv ==
  ASSUME Inv, UNCHANGED vars
  PROVE  Inv'
<1>1. PICK H, A : State(H, A)
  BY DEF Inv, Typed, State
<1>2. Closed(H) /\ Held(H, A) /\ OneWriter /\ Order
  BY <1>1 DEF State
<1>3. UNCHANGED <<setup, ex, strm, net, ep, cl, app>>
  BY DEF vars
<1>4. OneWriter'
  BY <1>2, <1>3 DEF OneWriter, self, Running
<1>5. Order'
  BY <1>2, <1>3, OrderSame DEF SameOrder
<1> QED
  BY <1>2, <1>3, <1>4, <1>5, Conclude DEF Held

\* Every step keeps the invariant.
LEMMA NextInv ==
  ASSUME Inv, [Next]_vars
  PROVE  Inv'
<1>1. CASE EndpointNext /\ UNCHANGED clientVars
  BY <1>1, EndpointInv
<1>2. CASE Call
  BY <1>2, CallStep
<1>3. CASE AcquireNow \/ RegisterNow \/ ReleaseNow \/ SetPingreqSendInterval
  BY <1>3, NowStep
<1>4. CASE ProcessEnds
  BY <1>4, EndStep
<1>5. CASE Saved \/ RequestDone
  BY <1>5, DoneStep
<1>6. CASE RequestAcquired
  BY <1>6, AcquiredStep
<1>7. CASE StartSent \/ PublishSent \/ SubscribeSent \/ UnsubscribeSent \/ DisconnectSent \/ AuthSent
  BY <1>7, SentStep
<1>8. CASE StartAnswered \/ PublishAnswered \/ SubscribeAnswered \/ UnsubscribeAnswered
  BY <1>8, AnsweredStep
<1>9. CASE RecvLoopError
  BY <1>9, LoopErrorStep
<1>10. CASE RecvLoopAnswer \/ RecvLoopQueued \/ RecvLoopIgnored
  BY <1>10, LoopStep
<1>11. CASE ClientRecv \/ ClientRecvNotified
  BY <1>11, ClientRecvStep
<1>12. CASE LinkLost /\ UNCHANGED <<con, ep, cl, app>>
  BY <1>12, PeerStep
<1>13. CASE TimerExpires /\ UNCHANGED clientVars
  BY <1>13, TimerStep DEF clientVars
<1>14. CASE UNCHANGED vars
  BY <1>14, StutterInv
<1> QED
  BY <1>1, <1>2, <1>3, <1>4, <1>5, <1>6, <1>7, <1>8, <1>9, <1>10, <1>11, <1>12, <1>13, <1>14, Zenon DEF Next, Progress

\* The order of the packets that arrived is part of the invariant.
LEMMA InvWrites ==
  ASSUME Inv
  PROVE  WritesInOrder
BY DEF Inv, Order, InOrder, Ordered, Increasing, WritesInOrder

\* What is stored or written belongs to an operation in the queue, or to the one that
\* writes.
LEMMA InvBuffers ==
  ASSUME Inv
  PROVE  BuffersOwned
<1> SUFFICES ASSUME ~ net.stale
             PROVE  BuffersOwned
  BY DEF BuffersOwned
<1>1. PICK H, A : Held(H, A)
  BY DEF Inv, Typed
<1>2. strm \in StreamType(H, A) /\ OneWriter /\ Stores
  BY <1>1 DEF Held, Inv, Order
<1> DEFINE owned == {w.p.n : w \in Range(strm.queue)} \cup {f.w.p.n : f \in Range(strm.flight)}
<1>3. \A j \in DOMAIN strm.queue : strm.queue[j].p.n \in owned
  BY Zenon DEF Range
<1>4. \A j \in DOMAIN strm.flight : strm.flight[j].w.p.n \in owned
  BY Zenon DEF Range
<1> HIDE DEF owned
<1>5. ASSUME NEW b \in Range(strm.storing)
      PROVE  b.n \in owned
  <2>1. PICK i \in DOMAIN strm.storing : b = strm.storing[i]
    BY <1>5 DEF Range
  <2>2. PICK j \in DOMAIN strm.queue : strm.queue[j].p = b
    BY <1>2, <2>1, Zenon DEF Stores, Belongs
  <2> QED
    BY <1>3, <2>2
<1>6. ASSUME NEW f \in Range(strm.flight), NEW b \in Range(f.bufs)
      PROVE  b.n \in owned
  <2>1. PICK j \in DOMAIN strm.flight : f = strm.flight[j]
    BY <1>6 DEF Range
  <2>2. strm.flight \in Seq([w : Writes(H, A), bufs : Seq(WirePackets(A))])
    BY <1>2 DEF StreamType
  <2>3. strm.flight # <<>> /\ j = 1
    BY <1>2, <2>1, <2>2 DEF OneWriter
  <2>4. PICK i \in DOMAIN Bufs : b = Bufs[i]
    BY <1>6, <2>1, <2>3 DEF Range, Bufs
  <2> QED
    BY <1>2, <1>3, <1>4, <2>1, <2>3, <2>4, Zenon DEF Stores, Belongs
<1> QED
  BY <1>5, <1>6, Zenon DEF BuffersOwned, owned

\* For all layers, calls, losses, closes and answers, in both modes: unless a packet was
\* stored while the socket was closed, the packets arrive in the order of the calls of
\* async_write_packet(), and none arrives twice.
THEOREM WritesAlwaysInOrder == Spec => []WritesInOrder
<1>1. Init => Inv
  BY InitInv
<1>2. Inv /\ [Next]_vars => Inv'
  BY NextInv
<1>3. Inv => WritesInOrder
  BY InvWrites
<1> QED
  BY <1>1, <1>2, <1>3, PTL DEF Spec

\* With the same exception: a buffer that the layers read, or will read, is owned by an
\* operation that has not completed.
THEOREM BuffersAlwaysOwned == Spec => []BuffersOwned
<1>1. Init => Inv
  BY InitInv
<1>2. Inv /\ [Next]_vars => Inv'
  BY NextInv
<1>3. Inv => BuffersOwned
  BY InvBuffers
<1> QED
  BY <1>1, <1>2, <1>3, PTL DEF Spec
=============================================================================
