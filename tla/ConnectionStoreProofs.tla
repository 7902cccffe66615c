----------------------- MODULE ConnectionStoreProofs ------------------------
(***************************************************************************)
(* The store and the sets of identifiers that every call leaves, field by  *)
(* field.  With it, no packet leaves the store unanswered.                 *)
(*                                                                         *)
(* The second half begins the argument of ConnectionIdProofs, for a        *)
(* connection that is used with care: its inductive invariant Careful, the *)
(* counters, the sets of identifiers that wait for an answer, and what the *)
(* calls that begin and end a connection do to them.                       *)
(***************************************************************************)
EXTENDS ConnectionTypeProofs
-----------------------------------------------------------------------------
\* send() of PUBLISH: what changes besides the topic alias table and the count.
SameIds(s, t) ==
  /\ t \in ConnectionType
  /\ t.role = s.role /\ t.protocol_version = s.protocol_version
  /\ t.status = s.status \/ t.status = "disconnected"
  /\ t.need_store = s.need_store /\ t.store = s.store /\ t.pid_man = s.pid_man
  /\ t.pid_suback = s.pid_suback /\ t.pid_unsuback = s.pid_unsuback
  /\ t.pid_puback = s.pid_puback /\ t.pid_pubrec = s.pid_pubrec
  /\ t.pid_pubcomp = s.pid_pubcomp
  /\ t.maximum_packet_size_send = s.maximum_packet_size_send
  /\ t.publish_send_max = s.publish_send_max

LEMMA SameTrans == \A s, t, u : SameIds(s, t) /\ SameIds(t, u) => SameIds(s, u)
  BY DEF SameIds

LEMMA QuietSame == \A s, t : Quiet(s, t) => SameIds(s, t)
  BY DEF SameIds, Quiet

\* Releasing identifiers afterwards or before is the same.
LEMMA ReleasedSame ==
  ASSUME NEW s \in ConnectionType, NEW t \in ConnectionType, SameIds(s, t), NEW S
  PROVE  /\ SameIds(ReleaseIds(s, S), ReleaseIds(t, S))
         /\ ReleaseIds(t, S).publish_send_count = t.publish_send_count
  <1>1. s.pid_man \ S \in SUBSET PacketIds /\ t.pid_man \ S = s.pid_man \ S
    BY DEF ConnectionType, SameIds
  <1> QED BY <1>1, ZenonT(40) DEF ConnectionType, SameIds, ReleaseIds

\* The topic alias functions change the table alone,
LEMMA AliasSame ==
  ASSUME NEW s, Sound(s), NEW p \in PublishPackets
  PROVE  /\ SameIds(s, TouchAlias(s, p))
         /\ TouchAlias(s, p).publish_send_count = s.publish_send_count
         /\ Sound(Alias(s, p)) => /\ SameIds(s, Alias(s, p))
                                  /\ Alias(s, p).publish_send_count = s.publish_send_count
  <1> DEFINE u == TouchAlias(s, p)
             t == Touch(s.topic_alias_send, p.alias)
             m == MapAlias(u.topic_alias_send, AliasForm(s, p))
  <1>1. Sound(u)
    BY TouchAliasSound
  <1>2. SameIds(s, u) /\ u.publish_send_count = s.publish_send_count
    <2>1. u = s \/ u = [s EXCEPT !.topic_alias_send = t]
      BY DEF TouchAlias
    <2> HIDE DEF t, u
    <2> QED BY <1>1, <2>1, ZenonT(40) DEF SameIds, Sound, ConnectionType
  <1>3. Alias(s, p) = [u EXCEPT !.topic_alias_send = m]
    BY DEF Alias
  <1>4. Sound(Alias(s, p)) => /\ SameIds(u, Alias(s, p))
                              /\ Alias(s, p).publish_send_count = u.publish_send_count
    <2> HIDE DEF u, m
    <2> QED BY <1>1, <1>3, ZenonT(40) DEF SameIds, Sound, ConnectionType
  <1> QED BY <1>2, <1>4, SameTrans DEF u

\* and counting the count.
LEMMA CountSame ==
  ASSUME NEW s \in ConnectionType, NEW p
  PROVE  SameIds(s, CountUp(s, p)) /\ SameIds(s, CountDown(s))
         /\ CountUp(s, p) \in ConnectionType
         /\ CountUp(s, p).publish_send_count =
              (IF p.qos = 0 \/ s.publish_send_max = NoMaximum THEN s.publish_send_count
               ELSE (s.publish_send_count + 1) % (ReceiveMaximumMax + 1))
         /\ CountDown(s).publish_send_count =
              (IF s.publish_send_max = NoMaximum THEN s.publish_send_count
               ELSE (s.publish_send_count - 1) % (ReceiveMaximumMax + 1))
  <1>1. ASSUME NEW n \in 0 .. ReceiveMaximumMax
        PROVE  SameIds(s, [s EXCEPT !.publish_send_count = n])
    BY ZenonT(40) DEF SameIds, ConnectionType
  <1>2. SameIds(s, CountUp(s, p)) /\ SameIds(s, CountDown(s))
    BY <1>1, Counts
  <1>3. CountUp(s, p) \in ConnectionType
    BY <1>2 DEF SameIds
  <1>4. /\ CountUp(s, p).publish_send_count =
              (IF p.qos = 0 \/ s.publish_send_max = NoMaximum THEN s.publish_send_count
               ELSE (s.publish_send_count + 1) % (ReceiveMaximumMax + 1))
        /\ CountDown(s).publish_send_count =
              (IF s.publish_send_max = NoMaximum THEN s.publish_send_count
               ELSE (s.publish_send_count - 1) % (ReceiveMaximumMax + 1))
    BY Zenon DEF ConnectionType, CountUp, CountDown
  <1> QED BY <1>2, <1>3, <1>4

\* The verdicts of send() that give the identifier back at once, those that give it
\* back although its answer is awaited, and those that keep it.
GivenBack == {"too_large", "offline_alias", "not_storable"}
GivenBackLate == {"alias_refused", "receive_maximum_exceeded", "not_connected"}
Accepted == {"kept", "sent"}

LEMMA PublishEffect ==
  ASSUME Sound(con), NEW p \in PublishPackets, p.qos > 0 => p.pid # NoId, SendPublish(p),
         NEW verdict, verdict = PublishVerdict(con, p)
  PROVE  \/ verdict \in {"not_sendable", "not_allocated"} /\ con' = con
         \/ /\ verdict \in GivenBack /\ SameIds(ReleaseIds(con, {p.pid}), con')
            /\ con'.publish_send_count = con.publish_send_count
         \/ /\ verdict \in GivenBackLate \cup Accepted /\ Sound(Record(con, p))
            /\ IF verdict \in GivenBackLate
               THEN SameIds(ReleaseIds(Record(con, p), {p.pid}), con')
               ELSE /\ SameIds(Record(con, p), con')
                    /\ con'.publish_send_count = CountUp(Record(con, p), p).publish_send_count
  <1> DEFINE recorded == Record(con, p)
             aliased == Alias(recorded, p)
             counted == CountUp(aliased, p)
             released == ReleaseIds(con, {p.pid})
             touched == TouchAlias(con, p)
  <1>1. verdict \in GivenBackLate \cup Accepted => Sound(recorded)
    <2>1. verdict \in GivenBackLate \cup Accepted
            => (Storing(con, p) /\ p.topic = NoTopic => AliasKnown(con, p.alias))
      BY DEF PublishVerdict, GivenBackLate, Accepted
    <2> QED BY <2>1, RecordSound
  <1>2. recorded.topic_alias_send = con.topic_alias_send
    BY DEF Record, Sound, ConnectionType
  <1>3. verdict \in {"receive_maximum_exceeded", "not_connected", "kept", "sent"}
          => (p.topic # NoTopic /\ p.alias # NoAlias => AliasInRange(con, p.alias))
    BY DEF PublishVerdict
  <1>4. AliasForm(con, p) \in Packet
    BY FormSound DEF Packet
  <1>5. \/ verdict \in {"not_sendable", "not_allocated"} /\ con' = con
        \/ verdict \in GivenBack /\ (con' = released \/ con' = ReleaseIds(touched, {p.pid}))
        \/ verdict = "alias_refused" /\ con' = ReleaseIds(recorded, {p.pid})
        \/ verdict = "receive_maximum_exceeded" /\ con' = ReleaseIds(aliased, {p.pid})
        \/ verdict = "not_connected" /\ con' = ReleaseIds(counted, {p.pid})
        \/ verdict = "kept" /\ con' = PostProcess(counted)
        \/ verdict = "sent" /\ con' = PostProcess(OnSend(counted, AliasForm(con, p)))
    BY Zenon DEF SendPublish, GivenBack
  <1>6. con \in ConnectionType /\ SameIds(con, con)
    BY QuietRefl, QuietSame DEF Sound
  <1>7. Sound(touched) /\ SameIds(con, touched)
        /\ touched.publish_send_count = con.publish_send_count
    BY TouchAliasSound, AliasSame
  <1>8. CASE verdict \in GivenBack /\ (con' = released \/ con' = ReleaseIds(touched, {p.pid}))
    <2> HIDE DEF touched
    <2>1. /\ SameIds(released, ReleaseIds(con, {p.pid}))
          /\ ReleaseIds(con, {p.pid}).publish_send_count = con.publish_send_count
      BY <1>6, ReleasedSame
    <2>2. /\ SameIds(released, ReleaseIds(touched, {p.pid}))
          /\ ReleaseIds(touched, {p.pid}).publish_send_count = touched.publish_send_count
      BY <1>6, <1>7, ReleasedSame DEF Sound
    <2> QED BY <1>7, <1>8, <2>1, <2>2
  <1>9. CASE verdict \in {"receive_maximum_exceeded", "not_connected", "kept", "sent"}
    <2>1. Sound(recorded)
      BY <1>1, <1>9 DEF GivenBackLate, Accepted
    <2> HIDE DEF recorded
    <2>2. Sound(aliased) /\ SameIds(recorded, aliased)
          /\ aliased.publish_send_count = recorded.publish_send_count
      BY <1>2, <1>3, <1>9, <2>1, AliasSound, AliasSame DEF AliasInRange
    <2> HIDE DEF aliased
    <2>3. SameIds(aliased, counted) /\ Sound(counted)
      BY <2>2, CountSame, CountsSound, Zenon DEF Sound
    <2>4. counted.publish_send_count = CountUp(recorded, p).publish_send_count
      <3>1. aliased \in ConnectionType /\ recorded \in ConnectionType
            /\ aliased.publish_send_max = recorded.publish_send_max
        BY <2>1, <2>2 DEF Sound, SameIds
      <3> QED BY <2>2, <3>1, CountSame, Zenon
    <2> HIDE DEF counted
    <2>5. SameIds(recorded, counted)
      BY <2>2, <2>3, SameTrans
    <2>6. /\ SameIds(ReleaseIds(recorded, {p.pid}), ReleaseIds(aliased, {p.pid}))
          /\ SameIds(ReleaseIds(recorded, {p.pid}), ReleaseIds(counted, {p.pid}))
      BY <2>1, <2>2, <2>3, <2>5, ReleasedSame DEF Sound
    <2>7. \A o : Quiet(counted, o) => SameIds(recorded, o)
                   /\ o.publish_send_count = CountUp(recorded, p).publish_send_count
      BY <2>4, <2>5, QuietSame, SameTrans DEF Quiet
    <2>8. Quiet(counted, PostProcess(counted))
      BY <2>3, QuietPostProcess DEF Sound
    <2>9. Quiet(counted, PostProcess(OnSend(counted, AliasForm(con, p))))
      <3> DEFINE o == OnSend(counted, AliasForm(con, p))
      <3>1. Quiet(counted, o) /\ o \in ConnectionType
        BY <1>4, <2>3, QuietOnSend DEF Sound, Quiet
      <3> HIDE DEF o
      <3>2. Quiet(o, PostProcess(o))
        BY <3>1, QuietPostProcess
      <3> QED BY <3>1, <3>2, QuietTrans DEF o
    <2>10. CASE verdict \in {"receive_maximum_exceeded", "not_connected"}
      BY <1>5, <2>1, <2>6, <2>10 DEF GivenBack, GivenBackLate, Accepted, recorded
    <2>11. CASE verdict \in Accepted
      BY <1>5, <2>1, <2>7, <2>8, <2>9, <2>11 DEF GivenBack, GivenBackLate, Accepted, recorded
    <2> QED BY <1>9, <2>10, <2>11 DEF Accepted
  <1>10. CASE verdict = "alias_refused" /\ con' = ReleaseIds(recorded, {p.pid})
    <2>1. Sound(recorded)
      BY <1>1, <1>10 DEF GivenBackLate
    <2> HIDE DEF recorded
    <2>2. SameIds(ReleaseIds(recorded, {p.pid}), ReleaseIds(recorded, {p.pid}))
      BY <2>1, QuietRefl, QuietSame, ReleasedSame DEF Sound
    <2> QED BY <1>10, <2>1, <2>2 DEF GivenBackLate, recorded
  <1> HIDE DEF recorded, aliased, counted, released, touched
  <1> QED BY <1>5, <1>8, <1>9, <1>10

-----------------------------------------------------------------------------
(***************************************************************************)
(* The fields each call leaves                                             *)
(***************************************************************************)
\* The calls within a session, by the fields they leave.
Becomes(s, t, store, man, suback, unsuback, puback, pubrec, pubcomp) ==
  /\ t.role = s.role /\ t.protocol_version = s.protocol_version
  /\ t.status = s.status \/ t.status = "disconnected"
  /\ t.need_store = s.need_store /\ t.publish_send_max = s.publish_send_max
  /\ t.maximum_packet_size_send = s.maximum_packet_size_send
  /\ t.store = store /\ t.pid_man = man
  /\ t.pid_suback = suback /\ t.pid_unsuback = unsuback
  /\ t.pid_puback = puback /\ t.pid_pubrec = pubrec /\ t.pid_pubcomp = pubcomp

LEMMA BecomesSame ==
  \A s, t, u, store, man, suback, unsuback, puback, pubrec, pubcomp :
    /\ Becomes(s, t, store, man, suback, unsuback, puback, pubrec, pubcomp)
    /\ SameIds(t, u)
    => Becomes(s, u, store, man, suback, unsuback, puback, pubrec, pubcomp)
  BY DEF Becomes, SameIds

\* A release at the end.
LEMMA BecomesReleased ==
  ASSUME NEW s, NEW t \in ConnectionType, NEW store, NEW man, NEW suback, NEW unsuback,
         NEW puback, NEW pubrec, NEW pubcomp, NEW S,
         Becomes(s, t, store, man, suback, unsuback, puback, pubrec, pubcomp)
  PROVE  /\ Becomes(s, ReleaseIds(t, S), store, man \ S, suback, unsuback, puback, pubrec, pubcomp)
         /\ ReleaseIds(t, S).publish_send_count = t.publish_send_count
  BY ZenonT(40) DEF Becomes, ConnectionType, ReleaseIds

\* Packets with an identifier of their own.
LEMMA HandedFields ==
  ASSUME NEW s, Sound(s), Unlimited(s), NEW p \in IdPackets, Sendable(s, p),
         p.type \in {"pubrel", "subscribe", "unsubscribe"}
  PROVE  LET t == SendPacket(s, p)
         IN /\ t.publish_send_count = s.publish_send_count
            /\ p.type = "pubrel" =>
                 Becomes(s, t, IF s.need_store THEN StoreAdd(s.store, p) ELSE s.store, s.pid_man,
                         s.pid_suback, s.pid_unsuback, s.pid_puback, s.pid_pubrec,
                         s.pid_pubcomp \cup {p.pid})
            /\ p.type = "subscribe" =>
                 Becomes(s, t, s.store, s.pid_man, s.pid_suback \cup {p.pid}, s.pid_unsuback,
                         s.pid_puback, s.pid_pubrec, s.pid_pubcomp)
            /\ p.type = "unsubscribe" =>
                 Becomes(s, t, s.store, s.pid_man, s.pid_suback, s.pid_unsuback \cup {p.pid},
                         s.pid_puback, s.pid_pubrec, s.pid_pubcomp)
  <1> DEFINE h == Handed(s, p)
             t == SendPacket(s, p)
  <1>1. Quiet(h, t)
    BY HandedEffect
  <1>2. SameIds(h, t) /\ t.publish_send_count = h.publish_send_count
    BY <1>1, QuietSame DEF Quiet
  <1>3. /\ h.publish_send_count = s.publish_send_count
        /\ p.type = "pubrel" =>
             Becomes(s, h, IF s.need_store THEN StoreAdd(s.store, p) ELSE s.store, s.pid_man,
                     s.pid_suback, s.pid_unsuback, s.pid_puback, s.pid_pubrec,
                     s.pid_pubcomp \cup {p.pid})
    BY ZenonT(40) DEF Handed, ProcessPubrel, Becomes, Sound, ConnectionType
  <1>4. p.type = "subscribe" =>
          Becomes(s, h, s.store, s.pid_man, s.pid_suback \cup {p.pid}, s.pid_unsuback,
                  s.pid_puback, s.pid_pubrec, s.pid_pubcomp)
    BY ZenonT(40) DEF Handed, Becomes, Sound, ConnectionType
  <1>5. p.type = "unsubscribe" =>
          Becomes(s, h, s.store, s.pid_man, s.pid_suback, s.pid_unsuback \cup {p.pid},
                  s.pid_puback, s.pid_pubrec, s.pid_pubcomp)
    BY ZenonT(40) DEF Handed, Becomes, Sound, ConnectionType
  <1> HIDE DEF h, t
  <1> QED BY <1>2, <1>3, <1>4, <1>5, BecomesSame, Zenon DEF t

\* The count after an exchange ended.
CountedDown(s) ==
  IF s.publish_send_max = NoMaximum THEN s.publish_send_count
  ELSE (s.publish_send_count - 1) % (ReceiveMaximumMax + 1)

\* PUBACK, SUBACK and UNSUBACK.
LEMMA AckFields ==
  ASSUME Sound(con), NEW p \in Packet, RecvHandled(p), p.pid \in AwaitedBy(con, p.type)
  PROVE  /\ p.type = "puback" =>
              /\ Becomes(con, con', StoreErase(con.store, "puback", p.pid), con.pid_man \ {p.pid},
                         con.pid_suback, con.pid_unsuback, con.pid_puback \ {p.pid},
                         con.pid_pubrec, con.pid_pubcomp)
              /\ con'.publish_send_count = CountedDown(con)
         /\ p.type = "suback" =>
              /\ Becomes(con, con', con.store, con.pid_man \ {p.pid},
                         con.pid_suback \ {p.pid}, con.pid_unsuback, con.pid_puback,
                         con.pid_pubrec, con.pid_pubcomp)
              /\ con'.publish_send_count = con.publish_send_count
         /\ p.type = "unsuback" =>
              /\ Becomes(con, con', con.store, con.pid_man \ {p.pid},
                         con.pid_suback, con.pid_unsuback \ {p.pid}, con.pid_puback,
                         con.pid_pubrec, con.pid_pubcomp)
              /\ con'.publish_send_count = con.publish_send_count
  <1>1. ASSUME NEW b, SameIds(b, Ended(con, p)),
               p.type \in {"puback", "pubrec", "pubcomp", "suback", "unsuback"}
        PROVE  SameIds(b, con') /\ con'.publish_send_count = Ended(con, p).publish_send_count
    BY <1>1, AnswerEffect, QuietSame, SameTrans DEF Quiet
  <1>2. CASE p.type = "puback"
    <2> DEFINE a == Acknowledged(con, p.pid)
               r == ReleaseIds(a, {p.pid})
    <2>1. a \in ConnectionType /\ r \in ConnectionType
      BY AnsweredSound, ReleaseSound DEF Sound
    <2>2. /\ Becomes(con, a, StoreErase(con.store, "puback", p.pid), con.pid_man,
                     con.pid_suback, con.pid_unsuback, con.pid_puback \ {p.pid},
                     con.pid_pubrec, con.pid_pubcomp)
          /\ a.publish_send_count = con.publish_send_count
      BY ZenonT(40) DEF Acknowledged, Becomes, Sound, ConnectionType
    <2> HIDE DEF a
    <2>3. /\ Becomes(con, r, StoreErase(con.store, "puback", p.pid), con.pid_man \ {p.pid},
                     con.pid_suback, con.pid_unsuback, con.pid_puback \ {p.pid},
                     con.pid_pubrec, con.pid_pubcomp)
          /\ r.publish_send_count = con.publish_send_count
      BY <2>1, <2>2, BecomesReleased
    <2> HIDE DEF r
    <2>4. Ended(con, p) = CountDown(r)
      BY <1>2 DEF Ended, a, r
    <2>5. SameIds(r, CountDown(r)) /\ CountDown(r).publish_send_count = CountedDown(r)
      BY <2>1, CountSame DEF CountedDown
    <2>6. SameIds(r, con') /\ con'.publish_send_count = CountedDown(r)
      BY <1>1, <1>2, <2>4, <2>5
    <2>7. CountedDown(r) = CountedDown(con)
      BY <2>3 DEF CountedDown, Becomes
    <2> QED BY <1>2, <2>3, <2>6, <2>7, BecomesSame, Zenon
  <1>3. CASE p.type = "suback"
    <2> DEFINE a == [con EXCEPT !.pid_suback = con.pid_suback \ {p.pid}]
               r == ReleaseIds(a, {p.pid})
    <2>1. a \in ConnectionType /\ r \in ConnectionType
      BY SubscriptionsSound, ReleaseSound, Zenon DEF Sound
    <2>2. /\ Becomes(con, a, con.store, con.pid_man, con.pid_suback \ {p.pid}, con.pid_unsuback,
                     con.pid_puback, con.pid_pubrec, con.pid_pubcomp)
          /\ a.publish_send_count = con.publish_send_count
      BY ZenonT(40) DEF Becomes, Sound, ConnectionType
    <2>3. r = Ended(con, p)
      BY <1>3, Zenon DEF Ended
    <2> HIDE DEF a
    <2>4. /\ Becomes(con, r, con.store, con.pid_man \ {p.pid}, con.pid_suback \ {p.pid},
                     con.pid_unsuback, con.pid_puback, con.pid_pubrec, con.pid_pubcomp)
          /\ r.publish_send_count = con.publish_send_count
      BY <2>1, <2>2, BecomesReleased
    <2> HIDE DEF r
    <2>5. SameIds(r, con') /\ con'.publish_send_count = r.publish_send_count
      BY <1>1, <1>3, <2>1, <2>3, QuietRefl, QuietSame
    <2> QED BY <1>3, <2>4, <2>5, BecomesSame, Zenon
  <1>4. CASE p.type = "unsuback"
    <2> DEFINE a == [con EXCEPT !.pid_unsuback = con.pid_unsuback \ {p.pid}]
               r == ReleaseIds(a, {p.pid})
    <2>1. a \in ConnectionType /\ r \in ConnectionType
      BY SubscriptionsSound, ReleaseSound, Zenon DEF Sound
    <2>2. /\ Becomes(con, a, con.store, con.pid_man, con.pid_suback, con.pid_unsuback \ {p.pid},
                     con.pid_puback, con.pid_pubrec, con.pid_pubcomp)
          /\ a.publish_send_count = con.publish_send_count
      BY ZenonT(40) DEF Becomes, Sound, ConnectionType
    <2>3. r = Ended(con, p)
      BY <1>4, Zenon DEF Ended
    <2> HIDE DEF a
    <2>4. /\ Becomes(con, r, con.store, con.pid_man \ {p.pid}, con.pid_suback,
                     con.pid_unsuback \ {p.pid}, con.pid_puback, con.pid_pubrec, con.pid_pubcomp)
          /\ r.publish_send_count = con.publish_send_count
      BY <2>1, <2>2, BecomesReleased
    <2> HIDE DEF r
    <2>5. SameIds(r, con') /\ con'.publish_send_count = r.publish_send_count
      BY <1>1, <1>4, <2>1, <2>3, QuietRefl, QuietSame
    <2> QED BY <1>4, <2>4, <2>5, BecomesSame, Zenon
  <1> QED BY <1>2, <1>3, <1>4, Zenon

\* PUBCOMP.
LEMMA PubcompFields ==
  ASSUME Sound(con), NEW p \in Packet, RecvHandled(p), p.type = "pubcomp",
         p.pid \in con.pid_pubcomp
  PROVE  /\ Becomes(con, con', StoreErase(con.store, "pubcomp", p.pid), con.pid_man \ {p.pid},
                    con.pid_suback, con.pid_unsuback, con.pid_puback,
                    con.pid_pubrec, con.pid_pubcomp \ {p.pid})
         /\ con'.publish_send_count = CountedDown(con)
  <1> DEFINE a == Completed(con, p.pid)
             r == ReleaseIds(a, {p.pid})
  <1>1. a \in ConnectionType /\ r \in ConnectionType
    BY AnsweredSound, ReleaseSound DEF Sound
  <1>2. /\ Becomes(con, a, StoreErase(con.store, "pubcomp", p.pid), con.pid_man,
                   con.pid_suback, con.pid_unsuback, con.pid_puback,
                   con.pid_pubrec, con.pid_pubcomp \ {p.pid})
        /\ a.publish_send_count = con.publish_send_count
    BY ZenonT(40) DEF Completed, Becomes, Sound, ConnectionType
  <1> HIDE DEF a
  <1>3. /\ Becomes(con, r, StoreErase(con.store, "pubcomp", p.pid), con.pid_man \ {p.pid},
                   con.pid_suback, con.pid_unsuback, con.pid_puback,
                   con.pid_pubrec, con.pid_pubcomp \ {p.pid})
        /\ r.publish_send_count = con.publish_send_count
    BY <1>1, <1>2, BecomesReleased
  <1> HIDE DEF r
  <1>4. Ended(con, p) = CountDown(r)
    BY DEF Ended, a, r
  <1>5. SameIds(r, CountDown(r)) /\ CountDown(r).publish_send_count = CountedDown(r)
    BY <1>1, CountSame DEF CountedDown
  <1>6. Quiet(Ended(con, p), con')
    BY AnswerEffect DEF AwaitedBy
  <1>7. SameIds(r, con') /\ con'.publish_send_count = CountedDown(r)
    BY <1>4, <1>5, <1>6, QuietSame, SameTrans DEF Quiet
  <1>8. CountedDown(r) = CountedDown(con)
    BY <1>3 DEF CountedDown, Becomes
  <1> QED BY <1>3, <1>7, <1>8, BecomesSame, Zenon

\* PUBREC: it refuses, is answered with PUBREL, or is left to the application.
LEMMA PubrecFields ==
  ASSUME Sound(con), Unlimited(con), con.protocol_version \in Versions,
         NEW p \in Packet, RecvHandled(p), p.type = "pubrec", p.pid \in con.pid_pubrec
  PROVE  LET erased == StoreErase(con.store, "pubrec", p.pid)
         IN /\ ~ p.ok =>
                 /\ Becomes(con, con', erased, con.pid_man \ {p.pid},
                            con.pid_suback, con.pid_unsuback, con.pid_puback,
                            con.pid_pubrec \ {p.pid}, con.pid_pubcomp)
                 /\ con'.publish_send_count = CountedDown(con)
            /\ p.ok /\ ~ IsSet(con, "auto_pub_response") =>
                 /\ Becomes(con, con', erased, con.pid_man, con.pid_suback, con.pid_unsuback,
                            con.pid_puback, con.pid_pubrec \ {p.pid}, con.pid_pubcomp)
                 /\ con'.publish_send_count = con.publish_send_count
            /\ p.ok /\ IsSet(con, "auto_pub_response") =>
                 /\ Becomes(con, con', IF con.need_store
                                       THEN StoreAdd(erased, WithId("pubrel", p.pid)) ELSE erased,
                            con.pid_man, con.pid_suback, con.pid_unsuback, con.pid_puback,
                            con.pid_pubrec \ {p.pid}, con.pid_pubcomp \cup {p.pid})
                 /\ con'.publish_send_count = con.publish_send_count
  <1> DEFINE erased == StoreErase(con.store, "pubrec", p.pid)
             h == Half(con, p.pid)
             q == WithId("pubrel", p.pid)
  <1>1. Quiet(Ended(con, p), con')
    BY AnswerEffect DEF AwaitedBy
  <1>2. Sound(h) /\ h \in ConnectionType
    BY AnsweredSound, Zenon DEF Sound
  <1>3. /\ Becomes(con, h, erased, con.pid_man, con.pid_suback, con.pid_unsuback,
                   con.pid_puback, con.pid_pubrec \ {p.pid}, con.pid_pubcomp)
        /\ h.publish_send_count = con.publish_send_count /\ h.status = con.status
    BY ZenonT(40) DEF Half, Becomes, Sound, ConnectionType
  <1>4. con.status = "connected"
    BY DEF RecvHandled, ProtocolSatisfied
  <1>5. ASSUME NEW b, SameIds(b, Ended(con, p))
        PROVE  SameIds(b, con') /\ con'.publish_send_count = Ended(con, p).publish_send_count
    BY <1>1, <1>5, QuietSame, SameTrans DEF Quiet
  <1>6. CASE ~ p.ok
    <2> DEFINE r == ReleaseIds(h, {p.pid})
               S == h.qos2_publish_processing \ {p.pid}
               v == [r EXCEPT !.qos2_publish_processing = S]
    <2>1. Sound(v) /\ Ended(con, p) = CountDown(v) /\ r \in ConnectionType
      BY <1>2, <1>6, RefusedSound, ReleaseSound, Zenon DEF Ended, Sound
    <2>2. /\ Becomes(con, r, erased, con.pid_man \ {p.pid}, con.pid_suback, con.pid_unsuback,
                     con.pid_puback, con.pid_pubrec \ {p.pid}, con.pid_pubcomp)
          /\ r.publish_send_count = con.publish_send_count
      <3> HIDE DEF h, erased
      <3> QED BY <1>2, <1>3, BecomesReleased
    <2> HIDE DEF r, S
    <2>3. /\ Becomes(con, v, erased, con.pid_man \ {p.pid}, con.pid_suback, con.pid_unsuback,
                     con.pid_puback, con.pid_pubrec \ {p.pid}, con.pid_pubcomp)
          /\ v.publish_send_count = con.publish_send_count /\ v \in ConnectionType
      BY <2>1, <2>2, ZenonT(40) DEF Becomes, Sound, ConnectionType
    <2> HIDE DEF v, erased
    <2>4. SameIds(v, CountDown(v)) /\ CountDown(v).publish_send_count = CountedDown(v)
      BY <2>3, CountSame, Zenon DEF CountedDown
    <2>5. SameIds(v, con') /\ con'.publish_send_count = CountedDown(v)
      BY <1>5, <2>1, <2>4
    <2>6. CountedDown(v) = CountedDown(con)
      BY <2>3 DEF CountedDown, Becomes
    <2>7. Becomes(con, con', erased, con.pid_man \ {p.pid}, con.pid_suback, con.pid_unsuback,
                  con.pid_puback, con.pid_pubrec \ {p.pid}, con.pid_pubcomp)
      BY <2>3, <2>5, BecomesSame, Zenon
    <2> QED BY <1>6, <2>5, <2>6, <2>7, Zenon DEF erased
  <1>7. CASE p.ok /\ ~ IsSet(con, "auto_pub_response")
    <2>1. Ended(con, p) = h
      BY <1>7 DEF Ended
    <2> HIDE DEF h, erased
    <2>2. SameIds(h, con') /\ con'.publish_send_count = h.publish_send_count
      BY <1>2, <1>5, <2>1, QuietRefl, QuietSame
    <2>3. Becomes(con, con', erased, con.pid_man, con.pid_suback, con.pid_unsuback,
                  con.pid_puback, con.pid_pubrec \ {p.pid}, con.pid_pubcomp)
      BY <1>3, <2>2, BecomesSame, Zenon
    <2> QED BY <1>3, <1>7, <2>2, <2>3, Zenon DEF erased
  <1>8. CASE p.ok /\ IsSet(con, "auto_pub_response")
    <2>1. Ended(con, p) = SendPacket(h, q)
      BY <1>8 DEF Ended
    <2>2. q \in IdPackets /\ q.type = "pubrel" /\ q.pid = p.pid
      BY Kinds DEF AnswerPackets, IdPackets, WithId
    <2> HIDE DEF h, erased, q
    <2>3. Unlimited(h) /\ Sendable(h, q)
      <3>1. /\ h.role \in Roles /\ h.protocol_version \in Versions /\ h.status = "connected"
            /\ Unlimited(h)
        BY <1>2, <1>3, <1>4 DEF Becomes, Unlimited, ConnectionType
      <3>2. ClientSendable(q.type) /\ ServerSendable(h.protocol_version, q.type)
        BY <2>2 DEF ClientSendable, ServerSendable
      <3>3. h.role # "server" \/ h.role # "client"
        BY <3>1
      <3> QED BY <2>2, <3>1, <3>2, <3>3 DEF Sendable
    <2> DEFINE t == SendPacket(h, q)
    <2>4. /\ t.publish_send_count = h.publish_send_count
          /\ Becomes(h, t, IF h.need_store THEN StoreAdd(h.store, q) ELSE h.store, h.pid_man,
                     h.pid_suback, h.pid_unsuback, h.pid_puback, h.pid_pubrec,
                     h.pid_pubcomp \cup {p.pid})
      BY <1>2, <2>2, <2>3, HandedFields, Zenon
    <2>5. t \in ConnectionType
      BY <1>2, <2>2, SendSound DEF Sound, Packet
    <2> HIDE DEF t
    <2>6. /\ Becomes(con, t, IF con.need_store THEN StoreAdd(erased, q) ELSE erased,
                     con.pid_man, con.pid_suback, con.pid_unsuback, con.pid_puback,
                     con.pid_pubrec \ {p.pid}, con.pid_pubcomp \cup {p.pid})
          /\ t.publish_send_count = con.publish_send_count
      BY <1>3, <2>4 DEF Becomes
    <2>7. SameIds(t, con') /\ con'.publish_send_count = t.publish_send_count
      BY <1>5, <2>1, <2>5, QuietRefl, QuietSame DEF t
    <2>8. Becomes(con, con', IF con.need_store THEN StoreAdd(erased, q) ELSE erased,
                  con.pid_man, con.pid_suback, con.pid_unsuback, con.pid_puback,
                  con.pid_pubrec \ {p.pid}, con.pid_pubcomp \cup {p.pid})
      BY <2>6, <2>7, BecomesSame, Zenon
    <2> QED BY <1>8, <2>6, <2>7, <2>8, Zenon DEF erased, q
  <1> QED BY <1>6, <1>7, <1>8, Zenon
-----------------------------------------------------------------------------
(***************************************************************************)
(* The calls that begin or end a session or a network connection, by the   *)
(* fields they leave                                                       *)
(***************************************************************************)
\* The identifiers whose answer is awaited, as they were.
SameAwaited(s, t) ==
  t.pid_puback = s.pid_puback /\ t.pid_pubrec = s.pid_pubrec /\ t.pid_pubcomp = s.pid_pubcomp

NoneAwaited(t) == t.pid_puback = {} /\ t.pid_pubrec = {} /\ t.pid_pubcomp = {}
NoSubscriptions(t) == t.pid_suback = {} /\ t.pid_unsuback = {}
SessionCleared(t) == NoneAwaited(t) /\ t.pid_man = {} /\ t.store = <<>>

SameSession(s, t) == SameAwaited(s, t) /\ t.pid_man = s.pid_man /\ t.store = s.store

\* CONNECT sent.
LEMMA ConnectSentFields ==
  ASSUME NEW s, Sound(s), NEW p \in ConnectPackets
  PROVE  LET t == ConnectSent(s, p)
         IN /\ t.role = s.role /\ t.protocol_version = s.protocol_version
            /\ t.status = "connecting" /\ NoSubscriptions(t)
            /\ t.need_store = (IF s.protocol_version = "v5" THEN p.expiry ELSE ~ p.clean)
            /\ t.maximum_packet_size_send = s.maximum_packet_size_send
            /\ IF p.clean THEN SessionCleared(t) ELSE SameSession(s, t)
  <1> DEFINE i == Initialize(s, TRUE)
             interval == IF i.pingreq_send_interval = 0 THEN p.keep_alive
                         ELSE i.pingreq_send_interval
             keep == IF s.protocol_version = "v5" THEN p.expiry ELSE ~ p.clean
             u == [i EXCEPT !.status = "connecting", !.pingreq_send_interval = interval,
                            !.need_store = keep]
  <1>1. ConnectSent(s, p) = IF p.clean THEN ForgetSession(u) ELSE u
    BY DEF ConnectSent
  <1>2. /\ i \in ConnectionType /\ i.role = s.role /\ i.protocol_version = s.protocol_version
        /\ NoSubscriptions(i) /\ i.maximum_packet_size_send = s.maximum_packet_size_send
        /\ SameSession(s, i)
    <2>1. i \in ConnectionType
      BY InitializeSound, Zenon DEF Sound
    <2>2. /\ i.role = s.role /\ i.protocol_version = s.protocol_version
          /\ NoSubscriptions(i) /\ i.maximum_packet_size_send = s.maximum_packet_size_send
          /\ SameSession(s, i)
      BY ZenonT(40) DEF Sound, ConnectionType, Initialize, NoSubscriptions, SameSession, SameAwaited
    <2> QED BY <2>1, <2>2, Zenon
  <1> HIDE DEF i, interval, keep
  <1>3. /\ u.role = s.role /\ u.protocol_version = s.protocol_version
        /\ u.status = "connecting" /\ NoSubscriptions(u) /\ u.need_store = keep
        /\ u.maximum_packet_size_send = s.maximum_packet_size_send
        /\ SameSession(s, u) /\ DOMAIN u = DOMAIN i
    BY <1>2, ZenonT(40) DEF ConnectionType, NoSubscriptions, SameSession, SameAwaited
  <1>4. LET t == ForgetSession(u)
        IN /\ t.role = u.role /\ t.protocol_version = u.protocol_version
           /\ t.status = u.status /\ t.need_store = u.need_store
           /\ t.pid_suback = u.pid_suback /\ t.pid_unsuback = u.pid_unsuback
           /\ t.maximum_packet_size_send = u.maximum_packet_size_send
           /\ SessionCleared(t)
    BY <1>2, ZenonT(40) DEF ConnectionType, ForgetSession, ForgetAwaited, SessionCleared, NoneAwaited
  <1> HIDE DEF u
  <1> QED BY <1>1, <1>3, <1>4 DEF keep, NoSubscriptions

\* The limits of the peer.
LEMMA LimitsFields ==
  ASSUME NEW s, Sound(s), NEW p, p.mps = NoMaximum
  PROVE  LET t == LimitsForSend(s, p)
         IN /\ t.role = s.role /\ t.protocol_version = s.protocol_version /\ t.status = s.status
            /\ t.need_store = s.need_store /\ SameSession(s, t)
            /\ t.pid_suback = s.pid_suback /\ t.pid_unsuback = s.pid_unsuback
            /\ t.maximum_packet_size_send = s.maximum_packet_size_send
            /\ t.publish_send_count = s.publish_send_count
  <1> DEFINE a == IF p.tam = 0 THEN s.topic_alias_send ELSE AliasSend(p.tam)
             b == IF p.rmax = NoMaximum THEN s.publish_send_max ELSE p.rmax
  <1>1. LimitsForSend(s, p) = [s EXCEPT !.topic_alias_send = a, !.publish_send_max = b,
                              !.maximum_packet_size_send = s.maximum_packet_size_send]
    BY DEF LimitsForSend
  <1> HIDE DEF a, b
  <1> QED BY <1>1, ZenonT(40) DEF Sound, ConnectionType, SameSession, SameAwaited

\* CONNECT received.
LEMMA ConnectTakenFields ==
  ASSUME Sound(con), con.status = "disconnected", NEW p \in ConnectPackets, RecvConnect(p),
         p.mps = NoMaximum
  PROVE  /\ con'.role = con.role /\ con'.protocol_version = p.ver
         /\ con'.status # "connected" /\ NoSubscriptions(con')
         /\ con'.need_store = (IF p.ver = "v5" THEN p.expiry ELSE ~ p.clean)
         /\ con'.maximum_packet_size_send = con.maximum_packet_size_send
         /\ con'.pid_man = con.pid_man /\ con'.store = con.store
         /\ IF p.clean THEN NoneAwaited(con') ELSE SameAwaited(con, con')
  <1> DEFINE i == Initialize(con, FALSE)
             timeout == IF p.keep_alive = 0 THEN i.pingreq_recv_timeout
                        ELSE (p.keep_alive * 3) \div 2
             keep == IF p.ver = "v5" THEN p.expiry ELSE ~ p.clean
             t == [i EXCEPT !.protocol_version = p.ver, !.status = "connecting",
                            !.pingreq_recv_timeout = timeout, !.need_store = keep]
             u == IF p.clean THEN ForgetAwaited(t) ELSE t
             v == LimitsForSend(u, p)
  <1>1. p.keep_alive \in Nat /\ p.expiry \in BOOLEAN /\ p.clean \in BOOLEAN /\ p.ver \in Versions
        /\ p.tam \in 0 .. MaxAlias /\ p.rmax \in 0 .. ReceiveMaximumMax /\ p.mps \in Nat
        /\ p \in Packet
    BY DEF ConnectPackets, Packet
  <1>2. /\ Sound(i) /\ i.status = "disconnected" /\ i.role = con.role /\ NoSubscriptions(i)
        /\ i.maximum_packet_size_send = con.maximum_packet_size_send /\ SameSession(con, i)
    <2>1. Sound(i)
      BY InitializeSound, Zenon
    <2>2. /\ i.status = "disconnected" /\ i.role = con.role /\ NoSubscriptions(i)
          /\ i.maximum_packet_size_send = con.maximum_packet_size_send /\ SameSession(con, i)
      BY ZenonT(40) DEF Sound, ConnectionType, Initialize, NoSubscriptions, SameSession, SameAwaited
    <2> QED BY <2>1, <2>2, Zenon
  <1>3. con' = Received(v, p)
    BY DEF RecvConnect
  <1> HIDE DEF i
  <1>4. timeout \in Nat /\ keep \in BOOLEAN
    <2>1. (p.keep_alive * 3) \div 2 \in Nat
      BY <1>1
    <2>2. timeout \in Nat
      BY <1>2, <2>1, Zenon DEF Sound, ConnectionType
    <2> QED BY <1>1, <2>2, Zenon
  <1> HIDE DEF timeout, keep
  <1>5. Sound(t)
    BY <1>1, <1>2, <1>4, ZenonT(40) DEF Sound, ConnectionType, Statuses, TimersSound
  <1>6. /\ t.role = con.role /\ t.protocol_version = p.ver /\ t.status = "connecting"
        /\ NoSubscriptions(t) /\ t.need_store = keep
        /\ t.maximum_packet_size_send = con.maximum_packet_size_send /\ SameSession(con, t)
    BY <1>2, ZenonT(40) DEF Sound, ConnectionType, NoSubscriptions, SameSession, SameAwaited
  <1> HIDE DEF t
  <1>7. /\ Sound(u) /\ u.role = con.role /\ u.protocol_version = p.ver /\ u.status = "connecting"
        /\ NoSubscriptions(u) /\ u.need_store = keep
        /\ u.maximum_packet_size_send = con.maximum_packet_size_send
        /\ u.pid_man = con.pid_man /\ u.store = con.store
        /\ IF p.clean THEN NoneAwaited(u) ELSE SameAwaited(con, u)
    <2>1. CASE p.clean
      <3>1. Sound(u)
        BY <1>5, ForgetSound
      <3>2. u = [t EXCEPT !.pid_puback = {}, !.pid_pubrec = {}, !.pid_pubcomp = {}]
        BY <2>1 DEF ForgetAwaited
      <3> HIDE DEF u
      <3> QED BY <1>5, <1>6, <2>1, <3>1, <3>2, ZenonT(40)
              DEF Sound, ConnectionType, NoSubscriptions, SameSession, NoneAwaited
    <2>2. CASE ~ p.clean
      BY <1>5, <1>6, <2>2 DEF SameSession
    <2> QED BY <2>1, <2>2, Zenon
  <1> HIDE DEF u
  <1>8. /\ v \in ConnectionType /\ v.role = u.role /\ v.protocol_version = u.protocol_version
        /\ v.status = u.status /\ v.need_store = u.need_store /\ SameSession(u, v)
        /\ v.pid_suback = u.pid_suback /\ v.pid_unsuback = u.pid_unsuback
        /\ v.maximum_packet_size_send = u.maximum_packet_size_send
    BY <1>1, <1>7, LimitsSound, LimitsFields, Zenon DEF Sound
  <1> HIDE DEF v
  <1>9. Quiet(v, con')
    BY <1>1, <1>3, <1>8, QuietReceived
  <1> QED BY <1>7, <1>8, <1>9
          DEF Quiet, NoSubscriptions, SameSession, SameAwaited, NoneAwaited, keep

\* Clearing the session after or before a quiet step is the same.
LEMMA ForgetQuiet ==
  ASSUME NEW s \in ConnectionType, NEW t \in ConnectionType, Quiet(s, t)
  PROVE  SessionCleared(ForgetSession(t))
         /\ LET u == ForgetSession(t)
            IN /\ u \in ConnectionType /\ u.role = s.role
               /\ u.protocol_version = s.protocol_version
               /\ u.status = s.status \/ u.status = "disconnected"
               /\ u.need_store = s.need_store
               /\ u.pid_suback = s.pid_suback /\ u.pid_unsuback = s.pid_unsuback
               /\ u.maximum_packet_size_send = s.maximum_packet_size_send
               /\ u.publish_send_count = s.publish_send_count
  <1>1. <<>> \in Seq(StorePackets) /\ {} \in SUBSET PacketIds
    OBVIOUS
  <1> QED BY <1>1, ZenonT(40)
          DEF Quiet, ConnectionType, ForgetSession, ForgetAwaited, SessionCleared, NoneAwaited

\* CONNACK received: refused, or the network connection is established and the
\* session kept or cleared.
LEMMA ConnackTakenFields ==
  ASSUME Sound(con), Unlimited(con), NEW p \in ConnackPackets, RecvConnack(p), p.mps = NoMaximum
  PROVE  IF ~ p.ok THEN Quiet(con, con')
         ELSE /\ con'.role = con.role /\ con'.protocol_version = con.protocol_version
              /\ con'.status \in {"connected", "disconnected"}
              /\ con'.need_store = con.need_store
              /\ con'.pid_suback = con.pid_suback /\ con'.pid_unsuback = con.pid_unsuback
              /\ con'.maximum_packet_size_send = con.maximum_packet_size_send
              /\ IF p.sp THEN SameSession(con, con') ELSE SessionCleared(con')
  <1> DEFINE a == [con EXCEPT !.status = "connected"]
             b == LimitsForSend(a, p)
             s == ServerKeepAlive(b, p)
  <1>1. /\ p.tam \in 0 .. MaxAlias /\ p.rmax \in 0 .. ReceiveMaximumMax /\ p.mps \in Nat
        /\ p \in Packet /\ (p.server_keep_alive # NoKeepAlive => p.server_keep_alive \in Nat)
    BY DEF ConnackPackets, Packet
  <1>2. /\ Sound(a) /\ a.status = "connected" /\ a.role = con.role
        /\ a.protocol_version = con.protocol_version /\ a.need_store = con.need_store
        /\ a.pid_suback = con.pid_suback /\ a.pid_unsuback = con.pid_unsuback
        /\ a.maximum_packet_size_send = con.maximum_packet_size_send /\ SameSession(con, a)
    BY ZenonT(40) DEF Sound, ConnectionType, Statuses, TimersSound, SameSession, SameAwaited
  <1>3. \/ ~ p.ok /\ con' = OnReceive(con, p)
        \/ p.ok /\ p.sp /\ con' = OnReceive(SendStored(s), p)
        \/ p.ok /\ ~ p.sp /\ con' = OnReceive(ForgetSession(s), p)
    BY DEF RecvConnack
  <1> HIDE DEF a
  <1>4. /\ Sound(b) /\ b.role = a.role /\ b.protocol_version = a.protocol_version
        /\ b.status = a.status /\ b.need_store = a.need_store /\ SameSession(a, b)
        /\ b.pid_suback = a.pid_suback /\ b.pid_unsuback = a.pid_unsuback
        /\ b.maximum_packet_size_send = a.maximum_packet_size_send
    BY <1>1, <1>2, LimitsSound, LimitsFields
  <1> HIDE DEF b
  <1>5. Quiet(b, s) /\ Sound(s)
    <2> DEFINE d == p.server_keep_alive
               u == [b EXCEPT !.pingreq_send_interval = d]
    <2>1. s = b \/ (d \in Nat /\ s = ResetTimer(u, "pingreq_send", d))
      BY <1>1 DEF ServerKeepAlive, SetPingreqSendInterval
    <2>2. Quiet(b, b) /\ "pingreq_send" \in Timers
      BY <1>4, QuietRefl DEF Sound, Timers
    <2>3. d \in Nat => Quiet(b, u)
      BY <1>4, QuietFields, Zenon DEF Sound
    <2>4. d \in Nat => u \in ConnectionType
      BY <2>3, Zenon DEF Quiet
    <2> HIDE DEF u, d
    <2>5. d \in Nat => Quiet(u, ResetTimer(u, "pingreq_send", d))
      BY <2>2, <2>4, QuietResetTimer
    <2> HIDE DEF s
    <2>6. Quiet(b, s)
      BY <2>1, <2>2, <2>3, <2>5, QuietTrans
    <2> QED BY <1>4, <2>6, QuietSound
  <1> HIDE DEF s
  <1>6. s.maximum_packet_size_send = NoLimit
    BY <1>2, <1>4, <1>5 DEF Quiet, Unlimited
  <1>7. CASE ~ p.ok
    BY <1>1, <1>3, <1>7, QuietOnReceive DEF Sound
  <1>8. CASE p.ok /\ p.sp
    <2>1. Quiet(s, SendStored(s)) /\ SendStored(s) \in ConnectionType
      BY <1>5, <1>6, QuietSendStored DEF Quiet
    <2>2. Quiet(SendStored(s), con')
      BY <1>1, <1>3, <1>8, <2>1, QuietOnReceive
    <2>3. Quiet(b, con')
      BY <1>5, <2>1, <2>2, QuietTrans
    <2> QED BY <1>2, <1>4, <1>8, <2>3 DEF Quiet, SameSession, SameAwaited
  <1>9. CASE p.ok /\ ~ p.sp
    <2> DEFINE u == ForgetSession(s)
    <2>1. /\ SessionCleared(u) /\ u \in ConnectionType /\ u.role = b.role
          /\ u.protocol_version = b.protocol_version
          /\ u.status = b.status \/ u.status = "disconnected"
          /\ u.need_store = b.need_store
          /\ u.pid_suback = b.pid_suback /\ u.pid_unsuback = b.pid_unsuback
          /\ u.maximum_packet_size_send = b.maximum_packet_size_send
      BY <1>4, <1>5, ForgetQuiet, Zenon DEF Sound
    <2> HIDE DEF u
    <2>2. con' = OnReceive(u, p)
      BY <1>3, <1>9 DEF u
    <2>3. Quiet(u, con')
      BY <1>1, <2>1, <2>2, QuietOnReceive
    <2>4. /\ con'.role = u.role /\ con'.protocol_version = u.protocol_version
          /\ con'.status = u.status \/ con'.status = "disconnected"
          /\ con'.need_store = u.need_store
          /\ con'.pid_suback = u.pid_suback /\ con'.pid_unsuback = u.pid_unsuback
          /\ con'.maximum_packet_size_send = u.maximum_packet_size_send
          /\ con'.pid_puback = u.pid_puback /\ con'.pid_pubrec = u.pid_pubrec
          /\ con'.pid_pubcomp = u.pid_pubcomp /\ con'.pid_man = u.pid_man
          /\ con'.store = u.store
      BY <2>3, Zenon DEF Quiet
    <2>5. SessionCleared(con')
      BY <2>1, <2>4, Zenon DEF SessionCleared, NoneAwaited
    <2>6. /\ b.role = con.role /\ b.protocol_version = con.protocol_version
          /\ b.status = "connected" \/ b.status = "disconnected"
          /\ b.need_store = con.need_store
          /\ b.pid_suback = con.pid_suback /\ b.pid_unsuback = con.pid_unsuback
          /\ b.maximum_packet_size_send = con.maximum_packet_size_send
      BY <1>2, <1>4, Zenon DEF Quiet
    <2>7. con'.status \in {"connected", "disconnected"}
      BY <2>1, <2>4, <2>6
    <2> QED BY <1>9, <2>1, <2>4, <2>5, <2>6, <2>7, Zenon
  <1> QED BY <1>7, <1>8, <1>9

\* A CONNECT that cannot be parsed.
LEMMA BadConnectFields ==
  ASSUME Sound(con), Unlimited(con), RecvMalformed(TRUE)
  PROVE  /\ con'.role = con.role /\ con'.protocol_version = con.protocol_version
         /\ \/ con'.status = con.status \/ con'.status = "disconnected"
            \/ con.status = "disconnected" /\ con'.status = "connecting"
         /\ con'.need_store = con.need_store /\ SameSession(con, con')
         /\ con'.pid_suback = con.pid_suback /\ con'.pid_unsuback = con.pid_unsuback
         /\ con'.maximum_packet_size_send = con.maximum_packet_size_send
         /\ con'.publish_send_max = con.publish_send_max
         /\ con'.publish_send_count = con.publish_send_count
  <1> DEFINE s == [con EXCEPT !.status = "connecting"]
             t == SendPacket(s, RefusingConnack)
  <1>1. \/ con.status = "disconnected" /\ con' = t
        \/ con' = SendDisconnect(con) \/ con' = OnClose(con)
    BY DEF RecvMalformed
  <1>2. Quiet(con, SendDisconnect(con)) /\ Quiet(con, OnClose(con))
    BY QuietSendDisconnect, QuietOnClose DEF Sound
  <1>3. CASE Quiet(con, con')
    BY <1>3 DEF Quiet, SameSession, SameAwaited
  <1>4. CASE con.status = "disconnected" /\ con' = t
    <2>1. /\ Sound(s) /\ s.status = "connecting" /\ s.role = con.role
          /\ s.protocol_version = con.protocol_version /\ s.need_store = con.need_store
          /\ s.pid_suback = con.pid_suback /\ s.pid_unsuback = con.pid_unsuback
          /\ s.maximum_packet_size_send = con.maximum_packet_size_send /\ SameSession(con, s)
          /\ s.publish_send_max = con.publish_send_max
          /\ s.publish_send_count = con.publish_send_count
      BY <1>4, ZenonT(40) DEF Sound, ConnectionType, Statuses, TimersSound, SameSession, SameAwaited
    <2>2. RefusingConnack \in ConnackPackets /\ RefusingConnack.ok = FALSE
      BY Bounds DEF RefusingConnack, ConnackPackets, NoMaximum
    <2> HIDE DEF s
    <2>3. t = s \/ Quiet(s, t)
      BY <2>1, <2>2, ConnackSentEffect, Zenon DEF Unlimited
    <2> QED BY <1>4, <2>1, <2>3 DEF Quiet, SameSession, SameAwaited
  <1> QED BY <1>1, <1>2, <1>3, <1>4

\* notify_closed().
LEMMA ClosedFields ==
  ASSUME Sound(con), NotifyClosed
  PROVE  LET subs == con.pid_suback \cup con.pid_unsuback
             pubs == con.pid_puback \cup con.pid_pubrec \cup con.pid_pubcomp
         IN /\ con'.role = con.role /\ con'.protocol_version = con.protocol_version
            /\ con'.status = "disconnected" /\ con'.need_store = con.need_store
            /\ con'.store = con.store /\ NoSubscriptions(con') /\ Unlimited(con')
            /\ IF con.need_store
               THEN SameAwaited(con, con') /\ con'.pid_man = con.pid_man \ subs
               ELSE NoneAwaited(con') /\ con'.pid_man = con.pid_man \ (subs \cup pubs)
  <1> DEFINE subs == con.pid_suback \cup con.pid_unsuback
             pubs == con.pid_puback \cup con.pid_pubrec \cup con.pid_pubcomp
             s == [con EXCEPT !.maximum_packet_size_send = NoLimit,
                              !.maximum_packet_size_recv = NoLimit,
                              !.status = "disconnected",
                              !.topic_alias_send = AliasSend(0),
                              !.topic_alias_recv = AliasRecv(0),
                              !.closed = FALSE]
             r == ReleaseIds(s, s.pid_suback \cup s.pid_unsuback)
             t == [r EXCEPT !.pid_suback = {}, !.pid_unsuback = {}]
             x == ReleaseIds(t, t.pid_puback \cup t.pid_pubrec \cup t.pid_pubcomp)
             v == ForgetAwaited(x)
             w == [v EXCEPT !.qos2_publish_processing = {}, !.qos2_publish_handled = {}]
             e == IF t.need_store THEN t ELSE w
             Dom(u) == DOMAIN u = DOMAIN con
             As(u) == /\ u.role = con.role /\ u.protocol_version = con.protocol_version
                      /\ u.status = "disconnected" /\ u.need_store = con.need_store
                      /\ u.store = con.store /\ Unlimited(u)
  <1>1. con' = CancelTimers(e)
    BY DEF NotifyClosed, ReleaseExchanges, ReleaseSubscriptions
  <1>2. /\ Dom(s) /\ As(s) /\ SameAwaited(con, s) /\ s.pid_man = con.pid_man
        /\ s.pid_suback = con.pid_suback /\ s.pid_unsuback = con.pid_unsuback
    BY ZenonT(40) DEF Sound, ConnectionType, SameAwaited, Unlimited
  <1>3. DOMAIN con = {"role", "protocol_version", "is_client", "status", "need_store", "store",
          "pid_man", "pid_suback", "pid_unsuback", "pid_puback", "pid_pubrec", "pid_pubcomp",
          "qos2_publish_handled", "qos2_publish_processing", "publish_send_max",
          "publish_recv_max", "publish_send_count", "publish_recv", "maximum_packet_size_send",
          "maximum_packet_size_recv", "topic_alias_send", "topic_alias_recv",
          "pingreq_send_interval", "pingreq_recv_timeout", "pingresp_recv_timeout", "timer",
          "option", "sent", "received", "closed"}
    BY ZenonT(40) DEF Sound, ConnectionType
  <1> HIDE DEF s
  <1>4. /\ Dom(r) /\ As(r) /\ SameAwaited(con, r) /\ r.pid_man = con.pid_man \ subs
    BY <1>2, <1>3, ZenonT(40) DEF ReleaseIds, SameAwaited, Unlimited
  <1> HIDE DEF r
  <1>5. /\ Dom(t) /\ As(t) /\ SameAwaited(con, t) /\ t.pid_man = con.pid_man \ subs
        /\ NoSubscriptions(t)
    BY <1>3, <1>4, ZenonT(40) DEF SameAwaited, NoSubscriptions, Unlimited
  <1> HIDE DEF t
  <1>6. /\ Dom(x) /\ As(x) /\ x.pid_man = (con.pid_man \ subs) \ pubs /\ NoSubscriptions(x)
    BY <1>3, <1>5, ZenonT(40) DEF ReleaseIds, SameAwaited, NoSubscriptions, Unlimited
  <1> HIDE DEF x
  <1>7. /\ Dom(v) /\ As(v) /\ NoneAwaited(v) /\ v.pid_man = x.pid_man /\ NoSubscriptions(v)
    BY <1>3, <1>6, ZenonT(40) DEF ForgetAwaited, NoneAwaited, NoSubscriptions, Unlimited
  <1> HIDE DEF v
  <1>8. /\ Dom(w) /\ As(w) /\ NoneAwaited(w) /\ w.pid_man = x.pid_man /\ NoSubscriptions(w)
    BY <1>3, <1>7, ZenonT(40) DEF NoneAwaited, NoSubscriptions, Unlimited
  <1> HIDE DEF w
  <1>9. con'.pid_man = e.pid_man /\ As(con') /\ SameAwaited(e, con')
        /\ (NoSubscriptions(e) => NoSubscriptions(con'))
    <2>1. Dom(e) /\ As(e)
      BY <1>5, <1>8
    <2> HIDE DEF e
    <2> QED BY <1>1, <1>3, <2>1, ZenonT(40) DEF CancelTimers, SameAwaited, NoSubscriptions, Unlimited
  <1>10. CASE con.need_store
    BY <1>5, <1>9, <1>10 DEF SameAwaited
  <1>11. CASE ~ con.need_store
    <2>1. e = w /\ NoSubscriptions(e)
      BY <1>5, <1>8, <1>11
    <2>2. (con.pid_man \ subs) \ pubs = con.pid_man \ (subs \cup pubs)
      OBVIOUS
    <2> HIDE DEF e, subs, pubs
    <2>3. NoneAwaited(con')
      BY <1>8, <1>9, <2>1 DEF NoneAwaited, SameAwaited
    <2> QED BY <1>6, <1>8, <1>9, <1>11, <2>1, <2>2, <2>3 DEF subs, pubs
  <1> QED BY <1>10, <1>11
-----------------------------------------------------------------------------
(***************************************************************************)
(* No packet leaves the store unanswered                                   *)
(***************************************************************************)
\* What StoreKeepsUnanswered says of a step.
Kept(s, t) ==
  \/ t.store = <<>> /\ t.pid_man = {}
  \/ /\ \A i \in DOMAIN s.store :
          \/ \E j \in DOMAIN t.store : t.store[j] = s.store[i]
          \/ <<ResponseTo(s.store[i]), s.store[i].pid>> \notin AwaitedAnswers(t)
     /\ SameOrder(s.store, t.store)

\* The answers awaited, by their type.
LEMMA Awaiting ==
  ASSUME NEW s, NEW pid
  PROVE  /\ <<"puback", pid>> \in AwaitedAnswers(s) <=> pid \in s.pid_puback
         /\ <<"pubrec", pid>> \in AwaitedAnswers(s) <=> pid \in s.pid_pubrec
         /\ <<"pubcomp", pid>> \in AwaitedAnswers(s) <=> pid \in s.pid_pubcomp
  BY DEF AwaitedAnswers

\* The elements of a store with one more packet.
LEMMA AppendedPacket ==
  \A e \in Seq(StorePackets), q \in StorePackets : \A n \in DOMAIN Append(e, q) :
    \/ n \in DOMAIN e /\ Append(e, q)[n] = e[n]
    \/ n = Len(e) + 1 /\ Append(e, q)[n] = q
  OBVIOUS

\* The store stays as it is,
LEMMA KeptSame ==
  ASSUME NEW s, NEW t, StoreSound(s.store), t.store = s.store
  PROVE  Kept(s, t)
  <1>1. SameOrder(s.store, s.store)
    BY SMTT(20) DEF StoreSound, KeysUnique, SameOrder
  <1> QED BY <1>1 DEF Kept

\* gains a packet,
LEMMA KeptAdded ==
  ASSUME NEW s, NEW t, StoreSound(s.store), NEW p \in StorePackets,
         t.store = StoreAdd(s.store, p)
  PROVE  Kept(s, t)
  <1>1. s.store \in Seq(StorePackets) /\ KeysUnique(s.store)
    BY Zenon DEF StoreSound
  <1> QED BY <1>1, AddSound DEF Kept

\* loses the one whose answer arrived,
LEMMA KeptErased ==
  ASSUME NEW s, NEW t, StoreSound(s.store), NEW response, NEW pid,
         t.store = StoreErase(s.store, response, pid),
         <<response, pid>> \notin AwaitedAnswers(t)
  PROVE  Kept(s, t)
  <1> DEFINE e == StoreErase(s.store, response, pid)
  <1>1. /\ SameOrder(s.store, e)
        /\ \A i \in DOMAIN s.store :
             \/ ResponseTo(s.store[i]) = response /\ s.store[i].pid = pid
             \/ \E k \in DOMAIN e : e[k] = s.store[i]
    <2>1. s.store \in Seq(StorePackets) /\ KeysUnique(s.store)
      BY Zenon DEF StoreSound
    <2> QED BY <2>1, EraseSound
  <1> HIDE DEF e
  <1> QED BY <1>1 DEF Kept, e

\* or has a PUBLISH of QoS 2 replaced by its PUBREL.
LEMMA KeptMoved ==
  ASSUME NEW s, NEW t, StoreSound(s.store), NEW pid \in PacketIds,
         t.store = StoreAdd(StoreErase(s.store, "pubrec", pid), WithId("pubrel", pid)),
         <<"pubrec", pid>> \notin AwaitedAnswers(t)
  PROVE  Kept(s, t)
  <1> DEFINE st == s.store
             e == StoreErase(st, "pubrec", pid)
             q == WithId("pubrel", pid)
             a == StoreAdd(e, q)
  <1>1. q \in StorePackets /\ ResponseTo(q) = "pubcomp" /\ q.pid = pid
    BY DEF WithId, StorePackets, PubrelPackets, ResponseTo
  <1>2. /\ e \in Seq(StorePackets) /\ KeysUnique(e) /\ SameOrder(st, e)
        /\ \A k \in DOMAIN e : \E i \in DOMAIN st : e[k] = st[i]
        /\ \A i \in DOMAIN st :
             \/ ResponseTo(st[i]) = "pubrec" /\ st[i].pid = pid
             \/ \E k \in DOMAIN e : e[k] = st[i]
        /\ st \in Seq(StorePackets) /\ KeysUnique(st)
    <2>1. st \in Seq(StorePackets) /\ KeysUnique(st)
      BY Zenon DEF StoreSound
    <2> QED BY <2>1, EraseSound
  <1> HIDE DEF e, q, st
  <1>3. /\ \/ a = e
           \/ a = Append(e, q) /\ \A i \in DOMAIN e :
                ~ (ResponseTo(e[i]) = "pubcomp" /\ e[i].pid = pid)
        /\ \A i \in DOMAIN e : \E k \in DOMAIN a : a[k] = e[i]
    <2>1. e \in Seq(StorePackets) /\ KeysUnique(e) /\ q \in StorePackets
      BY <1>1, <1>2
    <2>2. \/ a = e
          \/ a = Append(e, q) /\ \A i \in DOMAIN e :
               ~ (ResponseTo(e[i]) = ResponseTo(q) /\ e[i].pid = q.pid)
      BY <2>1, AddSound, Zenon
    <2>3. \A i \in DOMAIN e : \E k \in DOMAIN a : a[k] = e[i]
      BY <2>1, AddSound
    <2> HIDE DEF a
    <2> QED BY <1>1, <2>2, <2>3
  <1> HIDE DEF a
  <1>4. SameOrder(st, a)
    <2>1. CASE a = e
      BY <1>2, <2>1
    <2>2. CASE a = Append(e, q) /\ \A i \in DOMAIN e :
                 ~ (ResponseTo(e[i]) = "pubcomp" /\ e[i].pid = pid)
      <3>1. SUFFICES ASSUME NEW i \in DOMAIN st, NEW j \in DOMAIN st,
                            NEW k \in DOMAIN a, NEW l \in DOMAIN a,
                            i < j, st[i] = a[k], st[j] = a[l]
                     PROVE  k < l
        BY DEF SameOrder
      <3>2. \A n \in DOMAIN a : (n \in DOMAIN e /\ a[n] = e[n]) \/ (n = Len(e) + 1 /\ a[n] = q)
        BY <1>1, <1>2, <2>2, AppendedPacket, Zenon
      <3>3. \A n \in DOMAIN st : st[n] # q
        <4>1. SUFFICES ASSUME NEW n \in DOMAIN st, st[n] = q
                       PROVE  FALSE
          OBVIOUS
        <4>2. PICK m \in DOMAIN e : e[m] = st[n]
          BY <1>1, <1>2, <4>1, Zenon
        <4> QED BY <1>1, <2>2, <4>1, <4>2
      <3>4. k \in DOMAIN e /\ l \in DOMAIN e /\ a[k] = e[k] /\ a[l] = e[l]
        BY <3>1, <3>2, <3>3
      <3> QED BY <1>2, <3>1, <3>4 DEF SameOrder
    <2> QED BY <1>3, <2>1, <2>2
  <1>5. \A i \in DOMAIN st : \/ \E j \in DOMAIN a : a[j] = st[i]
                             \/ ResponseTo(st[i]) = "pubrec" /\ st[i].pid = pid
    BY <1>2, <1>3
  <1>6. t.store = a
    BY DEF a, e, q, st
  <1> QED BY <1>4, <1>5, <1>6 DEF Kept, st

\* No peer sets a Maximum Packet Size: it would make send_stored() drop what it finds
\* too large, answered or not.
NoSizeLimits == \A p \in Connects \cup Connacks : p.mps = NoMaximum

\* Packets with an identifier of their own: SUBSCRIBE, UNSUBSCRIBE and PUBREL.
LEMMA KeptHanded ==
  ASSUME NEW s, Sound(s), Unlimited(s), NEW p \in IdPackets,
         p.type \in {"pubrel", "subscribe", "unsubscribe"}
  PROVE  Kept(s, SendPacket(s, p)) /\ Unlimited(SendPacket(s, p))
  <1> DEFINE t == Handed(s, p)
             u == SendPacket(s, p)
  <1>1. u = s \/ Quiet(t, u)
    BY HandedEffect
  <1>2. Kept(s, s)
    BY KeptSame DEF Sound
  <1>3. /\ Unlimited(t)
        /\ \/ t.store = s.store
           \/ p.type = "pubrel" /\ t.store = StoreAdd(s.store, p)
    BY ZenonT(40) DEF Sound, ConnectionType, Handed, ProcessPubrel, Unlimited
  <1>4. p.type = "pubrel" => p \in StorePackets
    BY DEF IdPackets, StorePackets, PubrelPackets
  <1> HIDE DEF t, u
  <1>5. Quiet(t, u) => u.store = t.store /\ Unlimited(u)
    BY <1>3 DEF Quiet, Unlimited
  <1>6. Quiet(t, u) => Kept(s, u)
    BY <1>3, <1>4, <1>5, KeptSame, KeptAdded DEF Sound
  <1> QED BY <1>1, <1>2, <1>5, <1>6 DEF u

\* PUBLISH.
LEMMA KeptPublish ==
  ASSUME Sound(con), Unlimited(con), NEW p \in PublishPackets, p.qos > 0 => p.pid # NoId,
         SendPublish(p)
  PROVE  Kept(con, con') /\ Unlimited(con')
  <1> DEFINE verdict == PublishVerdict(con, p)
             r == Record(con, p)
             f == StoreForm(con, p)
  <1>1. \/ con' = con
        \/ SameIds(ReleaseIds(con, {p.pid}), con')
        \/ Sound(r) /\ SameIds(ReleaseIds(r, {p.pid}), con')
        \/ Sound(r) /\ SameIds(r, con')
    BY PublishEffect
  <1>2. /\ Unlimited(r)
        /\ r.store = con.store \/ (p.qos > 0 /\ r.store = StoreAdd(con.store, f))
    BY ZenonT(40) DEF Sound, ConnectionType, Record, Unlimited, Storing
  <1>3. p.qos > 0 => f \in StorePackets
    BY FormSound DEF StorePackets
  <1>4. \A s : s \in ConnectionType => /\ ReleaseIds(s, {p.pid}).store = s.store
                                       /\ Unlimited(s) => Unlimited(ReleaseIds(s, {p.pid}))
    BY ZenonT(40) DEF ConnectionType, ReleaseIds, Unlimited
  <1> HIDE DEF r, f
  <1>5. /\ con' = con \/ con'.store = con.store \/ con'.store = r.store
        /\ Unlimited(con')
    <2>1. con \in ConnectionType /\ (Sound(r) => r \in ConnectionType)
      BY DEF Sound
    <2> QED BY <1>1, <1>2, <1>4, <2>1, Zenon DEF SameIds, Unlimited
  <1> QED BY <1>2, <1>3, <1>5, KeptSame, KeptAdded DEF Sound

\* The answers of the peer.
LEMMA KeptAnswered ==
  ASSUME Sound(con), Unlimited(con), con.protocol_version \in Versions, NEW p \in Packet,
         Recv(p), p.type = "publish" /\ p.qos > 0 => p.pid # NoId,
         p.type \notin {"connect", "connack"}
  PROVE  Kept(con, con') /\ Unlimited(con')
  <1> DEFINE Answers == {"puback", "pubrec", "pubcomp", "suback", "unsuback"}
  <1>1. CASE Quiet(con, con')
    BY <1>1, KeptSame DEF Quiet, Unlimited, Sound
  <1>2. CASE RecvHandled(p) /\ p.type \in Answers /\ p.pid \in AwaitedBy(con, p.type)
    <2>1. CASE p.type = "puback"
      <3>1. /\ con'.store = StoreErase(con.store, "puback", p.pid) /\ Unlimited(con')
            /\ p.pid \notin con'.pid_puback
        BY <1>2, <2>1, AckFields, Zenon DEF Becomes, Unlimited
      <3>2. <<"puback", p.pid>> \notin AwaitedAnswers(con')
        BY <3>1, Awaiting, Zenon
      <3> QED BY <3>1, <3>2, KeptErased DEF Sound
    <2>2. CASE p.type = "pubcomp"
      <3>1. /\ con'.store = StoreErase(con.store, "pubcomp", p.pid) /\ Unlimited(con')
            /\ p.pid \notin con'.pid_pubcomp
        BY <1>2, <2>2, PubcompFields DEF Becomes, Unlimited, AwaitedBy
      <3>2. <<"pubcomp", p.pid>> \notin AwaitedAnswers(con')
        BY <3>1, Awaiting, Zenon
      <3> QED BY <3>1, <3>2, KeptErased DEF Sound
    <2>3. CASE p.type = "pubrec"
      <3> DEFINE erased == StoreErase(con.store, "pubrec", p.pid)
                 q == WithId("pubrel", p.pid)
      <3>1. /\ con'.store = erased \/ con'.store = StoreAdd(erased, q)
            /\ Unlimited(con') /\ p.pid \notin con'.pid_pubrec
        BY <1>2, <2>3, PubrecFields DEF Becomes, Unlimited, AwaitedBy
      <3>2. <<"pubrec", p.pid>> \notin AwaitedAnswers(con')
        BY <3>1, Awaiting, Zenon
      <3>3. p.pid \in PacketIds
        BY <2>3, Kinds DEF AnswerPackets
      <3> QED BY <3>1, <3>2, <3>3, KeptErased, KeptMoved DEF Sound
    <2>4. CASE p.type \in {"suback", "unsuback"}
      <3>1. con'.store = con.store /\ Unlimited(con')
        BY <1>2, <2>4, AckFields, Zenon DEF Becomes, Unlimited
      <3> QED BY <3>1, KeptSame DEF Sound
    <2> QED BY <1>2, <2>1, <2>2, <2>3, <2>4
  <1>3. ~ (RecvHandled(p) /\ p.type \in Answers /\ p.pid \in AwaitedBy(con, p.type))
          => Quiet(con, con')
    <2>1. SUFFICES ASSUME ~ (RecvHandled(p) /\ p.type \in Answers
                               /\ p.pid \in AwaitedBy(con, p.type))
                   PROVE  Quiet(con, con')
      OBVIOUS
    <2>2. p.type \in {"publish", "puback", "pubrec", "pubrel", "pubcomp", "subscribe", "suback",
                      "unsubscribe", "unsuback", "pingreq", "pingresp", "disconnect", "auth"}
      BY Kinds
    <2>3. \/ p.type \in {"publish", "pubrel", "pingreq", "pingresp", "disconnect",
                         "subscribe", "unsubscribe", "auth"}
          \/ ~ RecvHandled(p)
          \/ p.type \in Answers /\ p.pid \notin AwaitedBy(con, p.type)
      BY <2>1, <2>2
    <2> QED BY <2>3, QuietRecv DEF AwaitedBy, Sound
  <1> QED BY <1>1, <1>2, <1>3

\* Every step.
LEMMA StepKept ==
  ASSUME TypeInv, Unlimited(con), NoSizeLimits, Next
  PROVE  Kept(con, con') /\ Unlimited(con')
  <1>1. Sound(con) /\ StoreSound(con.store) /\ con \in ConnectionType
    BY DEF TypeInv, Sound
  <1>2. ASSUME con'.store = con.store, con'.maximum_packet_size_send = con.maximum_packet_size_send
        PROVE  Kept(con, con') /\ Unlimited(con')
    BY <1>1, <1>2, KeptSame DEF Unlimited
  <1>3. \A p \in Connects : p \in ConnectPackets /\ p.mps = NoMaximum
    BY UseAssumption DEF NoSizeLimits
  <1>4. \A p \in UsedConnacks : p \in ConnackPackets /\ p.mps = NoMaximum
    BY UseAssumption DEF NoSizeLimits, UsedConnacks
  <1>5. CASE LinkUp
    <2>1. CASE con' = con
      BY <1>2, <2>1
    <2>2. CASE \E s \in Setups : con' = [NewConnection(s[1], s[2]) EXCEPT !.option = con.option]
      <3>1. con'.store = <<>> /\ con'.pid_man = {} /\ Unlimited(con')
        BY <2>2 DEF NewConnection, Unlimited
      <3> QED BY <3>1 DEF Kept
    <2> QED BY <1>5, <2>1, <2>2 DEF LinkUp
  <1>6. CASE LinkDown
    <2>1. con'.store = con.store /\ Unlimited(con')
      BY <1>1, <1>6, ClosedFields DEF LinkDown
    <2> QED BY <1>1, <2>1, KeptSame
  <1>7. CASE Acquire \/ Register_ \/ Release
    <2>1. PICK S : con' = [con EXCEPT !.pid_man = S]
      BY <1>7 DEF Acquire, Register_, Release, AcquireUniquePacketId, RegisterPacketId,
                  ReleasePacketId, ReleaseIds
    <2> QED BY <1>1, <1>2, <2>1 DEF ConnectionType
  <1>8. CASE Restore
    <2>1. /\ \A i \in DOMAIN con.store : FALSE
          /\ con'.maximum_packet_size_send = con.maximum_packet_size_send
      BY <1>1, <1>8 DEF Restore, RestorePackets, ConnectionType
    <2> QED BY <2>1 DEF Kept, SameOrder, Unlimited
  <1>9. CASE \/ SendAnswer \/ SendPlain \/ Configure \/ RestoreHandled \/ ReceiveBad
             \/ Tick \/ \E kind \in Timers : TimerFires(kind)
    BY <1>1, <1>2, <1>9, QuietCalls DEF Quiet
  <1>10. CASE SendConnect
    <2>1. PICK p \in Connects : Send(p)
      BY <1>10 DEF SendConnect
    <2>2. con' = con \/ Quiet(ConnectSent(con, p), con')
      BY <1>1, <1>3, <2>1, ConnectSentEffect
    <2> DEFINE t == ConnectSent(con, p)
    <2>3. /\ t.maximum_packet_size_send = con.maximum_packet_size_send
          /\ (t.store = <<>> /\ t.pid_man = {}) \/ t.store = con.store
      BY <1>1, <1>3, ConnectSentFields, ZenonT(40) DEF SessionCleared, SameSession
    <2> HIDE DEF t
    <2>4. CASE Quiet(t, con')
      BY <1>2, <2>3, <2>4 DEF Quiet, Kept, Unlimited
    <2> QED BY <1>2, <2>2, <2>4 DEF t
  <1>11. CASE SendConnack
    <2>1. PICK p \in UsedConnacks : con' = SendPacket(con, p)
      BY <1>11 DEF SendConnack, Send
    <2> DEFINE a == [con EXCEPT !.status = "connected"]
    <2>2. con' = con \/ Quiet(a, con') \/ Quiet(con, con')
      BY <1>1, <1>4, <2>1, ConnackSentEffect
    <2>3. a.store = con.store /\ a.maximum_packet_size_send = con.maximum_packet_size_send
      BY <1>1 DEF ConnectionType
    <2> HIDE DEF a
    <2> QED BY <1>2, <2>2, <2>3 DEF Quiet
  <1>12. CASE Publish
    <2>1. PICK qos \in UsedQos, pid \in PacketIds \cup {NoId}, topic \in Topics \cup {NoTopic},
               alias \in UsedAliases, payload \in Payloads :
            /\ SendPublish(PublishPacket(qos, pid, topic, alias, payload))
            /\ qos = 0 \/ pid \in PacketIds
      BY <1>12 DEF Publish, TypeInv, TypeOK
    <2> DEFINE p == PublishPacket(qos, pid, topic, alias, payload)
    <2>2. p \in PublishPackets /\ (p.qos > 0 => p.pid # NoId)
      <3>1. qos \in 0 .. 2 /\ alias \in 0 .. MaxAlias
        BY UseAssumption
      <3> QED BY <2>1, <3>1, Bounds DEF PublishPacket, PublishPackets, PacketIds, NoId
    <2> HIDE DEF p
    <2>3. SendPublish(p)
      BY <2>1 DEF p
    <2> QED BY <1>1, <2>2, <2>3, KeptPublish
  <1>13. ASSUME NEW type \in {"pubrel", "subscribe", "unsubscribe"}, NEW pid \in PacketIds
         PROVE  WithId(type, pid) \in IdPackets /\ WithId(type, pid).type = type
    BY DEF WithId, IdPackets
  <1>14. \A type \in UsedIdPackets, pid \in held :
           type \in {"pubrel", "subscribe", "unsubscribe"} /\ pid \in PacketIds
    BY UseAssumption DEF TypeInv, TypeOK
  <1>15. CASE SendWithId
    <2>1. PICK type \in UsedIdPackets, pid \in held : con' = SendPacket(con, WithId(type, pid))
      BY <1>15 DEF SendWithId, Send
    <2> QED BY <1>1, <1>13, <1>14, <2>1, KeptHanded
  <1>16. CASE SendPubrel
    <2>1. PICK pid \in rec : con' = SendPacket(con, WithId("pubrel", pid))
      BY <1>16 DEF SendPubrel, Send
    <2>2. pid \in PacketIds
      BY DEF TypeInv, TypeOK
    <2> QED BY <1>1, <1>13, <2>1, <2>2, KeptHanded
  <1>17. CASE SendError
    <2>1. PICK type \in UsedIdPackets, pid \in held :
            con' = ReleaseIds(SendPacket(con, WithId(type, pid)), {pid})
      BY <1>17 DEF SendError
    <2> DEFINE t == SendPacket(con, WithId(type, pid))
    <2>2. type \in {"subscribe", "unsubscribe"} /\ pid \in PacketIds
      BY UseAssumption DEF TypeInv, TypeOK
    <2>3. WithId(type, pid) \in IdPackets /\ WithId(type, pid).type = type
      BY <1>13, <2>2
    <2>4. t \in ConnectionType /\ Unlimited(t) /\ t.store = con.store
      <3> DEFINE p == WithId(type, pid)
      <3>1. p \in IdPackets /\ p.type \in {"subscribe", "unsubscribe"}
        BY <2>2, <2>3
      <3> HIDE DEF p
      <3>2. SendPacket(con, p) \in ConnectionType
        BY <1>1, <3>1, SendSound DEF Sound, Packet
      <3>3. CASE Sendable(con, p)
        BY <1>1, <3>1, <3>2, <3>3, HandedFields, Zenon DEF Becomes, Unlimited, p
      <3>4. CASE ~ Sendable(con, p)
        BY <1>1, <3>1, <3>4, HandedEffect DEF p
      <3> QED BY <3>3, <3>4
    <2> HIDE DEF t
    <2>5. con'.store = t.store /\ con'.maximum_packet_size_send = t.maximum_packet_size_send
      BY <2>1, <2>4 DEF ReleaseIds, ConnectionType, t
    <2> QED BY <1>2, <2>4, <2>5 DEF Unlimited
  <1>18. CASE ReceiveConnect
    <2>1. PICK p \in Connects : Recv(p)
      BY <1>18 DEF ReceiveConnect
    <2>2. p \in ConnectPackets /\ p \in Packet /\ p.type = "connect" /\ p.mps = NoMaximum
      BY <1>3, UsedPackets
    <2>3. CASE RecvHandled(p)
      <3>1. RecvConnect(p) /\ con.status = "disconnected"
        BY <2>2, <2>3 DEF RecvHandled, ProtocolSatisfied
      <3> QED BY <1>1, <1>2, <2>2, <3>1, ConnectTakenFields
    <2>4. CASE ~ RecvHandled(p)
      BY <1>1, <1>2, <2>1, <2>2, <2>4, QuietRecv DEF Quiet
    <2> QED BY <2>3, <2>4
  <1>19. CASE ReceiveBadConnect
    BY <1>1, <1>2, <1>19, BadConnectFields DEF ReceiveBadConnect, SameSession
  <1>20. CASE ReceiveConnack
    <2>1. PICK p \in UsedConnacks : Recv(p)
      BY <1>20 DEF ReceiveConnack
    <2>2. p \in ConnackPackets /\ p \in Packet /\ p.type = "connack" /\ p.mps = NoMaximum
      BY <1>4, UsedPackets
    <2>3. CASE RecvHandled(p)
      <3>1. RecvConnack(p)
        BY <2>2, <2>3 DEF RecvHandled
      <3>2. \/ Quiet(con, con')
            \/ /\ con'.maximum_packet_size_send = con.maximum_packet_size_send
               /\ SameSession(con, con') \/ SessionCleared(con')
        BY <1>1, <2>2, <3>1, ConnackTakenFields
      <3> QED BY <1>2, <3>2 DEF Quiet, SameSession, SessionCleared, Kept, Unlimited
    <2>4. CASE ~ RecvHandled(p)
      BY <1>1, <1>2, <2>1, <2>2, <2>4, QuietRecv DEF Quiet
    <2> QED BY <2>3, <2>4
  <1>21. CASE Receive
    <2>1. PICK p \in PeerPackets : Recv(p)
      BY <1>21 DEF Receive
    <2> QED BY <1>1, <1>21, <2>1, UsedPackets, KeptAnswered, Zenon DEF Receive
  <1> QED BY <1>5, <1>6, <1>7, <1>8, <1>9, <1>10, <1>11, <1>12, <1>15, <1>16, <1>17, <1>18,
             <1>19, <1>20, <1>21 DEF Next

\* A new connection has no limit on the size of a packet.
LEMMA InitUnlimited == Init => Unlimited(con)
  <1>1. \A role, ver : NewConnection(role, ver).maximum_packet_size_send = NoLimit
    BY DEF NewConnection
  <1> QED BY <1>1, Zenon DEF Init, Unlimited

\* A packet leaves the store only with the answer it waits for or with the whole
\* session, and those that stay keep their order, whatever the application and the
\* peer do and however many network connections a session spans, as long as no
\* Maximum Packet Size is set.
THEOREM StoreAlwaysKeepsUnanswered == NoSizeLimits /\ Spec => StoreKeepsUnanswered
  <1> DEFINE Inv == TypeInv /\ Unlimited(con)
             Step == \/ con'.store = <<>> /\ con'.pid_man = {}
                     \/ /\ \A i \in DOMAIN con.store :
                             \/ \E j \in DOMAIN con'.store : con'.store[j] = con.store[i]
                             \/ <<ResponseTo(con.store[i]), con.store[i].pid>>
                                  \notin AwaitedAnswers(con')
                        /\ \A i, j \in DOMAIN con.store, k, l \in DOMAIN con'.store :
                             (/\ i < j /\ con.store[i] = con'.store[k]
                              /\ con.store[j] = con'.store[l]) => k < l
  <1>0. SUFFICES ASSUME NoSizeLimits
                 PROVE  Spec => StoreKeepsUnanswered
    OBVIOUS
  <1>1. Init => Inv
    BY InitUnlimited, InitSound, Zenon
  <1>2. Inv /\ [Next]_vars => Inv'
    <2>0. SUFFICES ASSUME Inv, [Next]_vars
                   PROVE  Inv'
      OBVIOUS
    <2>1. TypeInv'
      BY <2>0, NextSound
    <2>2. Unlimited(con)'
      <3>1. CASE Next
        BY <1>0, <2>0, <3>1, StepKept
      <3>2. CASE UNCHANGED vars
        BY <2>0, <3>2 DEF vars
      <3> QED BY <2>0, <3>1, <3>2
    <2> QED BY <2>1, <2>2
  <1>3. Inv /\ [Next]_vars => [Step]_vars
    <2>0. SUFFICES ASSUME Inv, [Next]_vars
                   PROVE  [Step]_vars
      OBVIOUS
    <2>1. CASE Next
      <3>1. Kept(con, con')
        BY <1>0, <2>0, <2>1, StepKept
      <3> QED BY <3>1 DEF Kept, SameOrder
    <2> QED BY <2>0, <2>1
  <1>4. StoreKeepsUnanswered <=> [][Step]_vars
    BY DEF StoreKeepsUnanswered
  <1> HIDE DEF Inv, Step
  <1> QED BY <1>1, <1>2, <1>3, <1>4, PTL DEF Spec
-----------------------------------------------------------------------------
(***************************************************************************)
(* Unsigned counters                                                       *)
(***************************************************************************)
\* The remainder is determined by the division.
LEMMA Wraps ==
  ASSUME NEW n \in Nat \ {0}, NEW a \in Int, NEW m \in 0 .. n - 1, NEW k \in Int, a = n * k + m
  PROVE  a % n = m
  <1> DEFINE d == a \div n
             e == a % n
  <1>1. d \in Int /\ e \in 0 .. n - 1 /\ a = n * d + e
    OBVIOUS
  <1> HIDE DEF d, e
  <1>2. n * (d - k) = m - e
    BY <1>1
  <1>3. d - k \in Int
    BY <1>1
  <1>4. \A c \in Int : (c >= 1 => n * c >= n) /\ (c <= -1 => n * c <= -n)
    OBVIOUS
  <1>5. ~ (d - k >= 1) /\ ~ (d - k <= -1)
    <2>1. m - e < n /\ m - e > -n
      BY <1>1
    <2> QED BY <1>2, <1>3, <1>4, <2>1
  <1>6. d - k = 0
    BY <1>3, <1>5
  <1>7. n * (d - k) = 0
    BY <1>6
  <1> QED BY <1>1, <1>2, <1>7 DEF e

\* Counting an unsigned counter up or down is counting modulo its width.
LEMMA CountsModulo ==
  ASSUME NEW n \in Nat \ {0}, NEW a \in Int
  PROVE  /\ ((a % n) + 1) % n = (a + 1) % n
         /\ ((a % n) - 1) % n = (a - 1) % n
         /\ a \in 0 .. n - 1 => a % n = a
  <1> DEFINE d == a \div n
             m == a % n
  <1>1. d \in Int /\ m \in 0 .. n - 1 /\ a = n * d + m
    OBVIOUS
  <1> HIDE DEF d, m
  <1>2. (m + 1) % n = (a + 1) % n
    <2>1. CASE m + 1 < n
      <3>1. m + 1 \in 0 .. n - 1 /\ a + 1 = n * d + (m + 1) /\ m + 1 = n * 0 + (m + 1)
        BY <1>1, <2>1
      <3>2. (a + 1) % n = m + 1
        BY <1>1, <3>1, Wraps
      <3>3. (m + 1) % n = m + 1
        BY <1>1, <3>1, Wraps
      <3> QED BY <3>2, <3>3
    <2>2. CASE m + 1 = n
      <3>1. 0 \in 0 .. n - 1 /\ a + 1 = n * (d + 1) + 0 /\ m + 1 = n * 1 + 0
        BY <1>1, <2>2
      <3>2. (a + 1) % n = 0
        BY <1>1, <3>1, Wraps
      <3>3. (m + 1) % n = 0
        BY <1>1, <3>1, Wraps
      <3> QED BY <3>2, <3>3
    <2> QED BY <1>1, <2>1, <2>2
  <1>3. (m - 1) % n = (a - 1) % n
    <2>1. CASE m > 0
      <3>1. m - 1 \in 0 .. n - 1 /\ a - 1 = n * d + (m - 1) /\ m - 1 = n * 0 + (m - 1)
        BY <1>1, <2>1
      <3>2. (a - 1) % n = m - 1
        BY <1>1, <3>1, Wraps
      <3>3. (m - 1) % n = m - 1
        BY <1>1, <3>1, Wraps
      <3> QED BY <3>2, <3>3
    <2>2. CASE m = 0
      <3>1. /\ n - 1 \in 0 .. n - 1 /\ a - 1 = n * (d - 1) + (n - 1)
            /\ m - 1 = n * (-1) + (n - 1)
        BY <1>1, <2>2
      <3>2. (a - 1) % n = n - 1
        BY <1>1, <3>1, Wraps
      <3>3. (m - 1) % n = n - 1
        BY <1>1, <3>1, Wraps
      <3> QED BY <3>2, <3>3
    <2> QED BY <1>1, <2>1, <2>2
  <1>4. a \in 0 .. n - 1 => a % n = a
    <2>1. a = n * 0 + a
      OBVIOUS
    <2> QED BY <2>1, Wraps
  <1> QED BY <1>2, <1>3, <1>4 DEF m
-----------------------------------------------------------------------------
(***************************************************************************)
(* The invariant                                                           *)
(***************************************************************************)
\* The use of a connection the theorems of ConnectionIdProofs are about.  No peer sets a
\* Maximum Packet Size, which makes send_stored() release identifiers whose answer is
\* still awaited.  A session is kept or cleared as a whole: a CONNECT of v5 that does
\* neither leaves a store that is no longer filled or emptied.  A server takes the
\* version of the CONNECT packet: with a version of its own it could publish before
\* the CONNECT packet, which then forgets what was awaited.  And the outcomes of
\* send() that release an identifier whose answer is awaited are ruled out.
CarefulUse ==
  /\ NoSizeLimits
  /\ \A p \in Connects : p.ver = "v5" => p.clean \/ p.expiry
  /\ \A s \in Setups : s[1] # "client" => s[2] = "undetermined"
  /\ Careless = {}

\* The identifiers in use, each with one use.
Uses(man, h, r, suback, unsuback, puback, pubrec, pubcomp) ==
  /\ man = h \cup r \cup suback \cup unsuback \cup puback \cup pubrec \cup pubcomp
  /\ \A x \in h : x \notin r \cup suback \cup unsuback \cup puback \cup pubrec \cup pubcomp
  /\ \A x \in r : x \notin suback \cup unsuback \cup puback \cup pubrec \cup pubcomp
  /\ \A x \in suback : x \notin unsuback \cup puback \cup pubrec \cup pubcomp
  /\ \A x \in unsuback : x \notin puback \cup pubrec \cup pubcomp
  /\ \A x \in puback : x \notin pubrec \cup pubcomp
  /\ \A x \in pubrec : x \notin pubcomp

\* Every stored packet waits for its answer.
WaitingFor(store, puback, pubrec, pubcomp) ==
  \A i \in DOMAIN store :
    /\ ResponseTo(store[i]) = "puback" => store[i].pid \in puback
    /\ ResponseTo(store[i]) = "pubrec" => store[i].pid \in pubrec
    /\ ResponseTo(store[i]) = "pubcomp" => store[i].pid \in pubcomp

\* What a connection may be doing in each phase of a network connection.
Phase(s, l, r) ==
  /\ Unlimited(s)
  /\ ~ s.need_store => s.store = <<>>
  /\ s.protocol_version = "undetermined" =>
       ~ s.need_store /\ s.status # "connected" /\ r = {} /\ NoneAwaited(s)
  /\ s.role = "client" => s.protocol_version \in Versions
  /\ l # "up" => s.status = "disconnected"
  /\ l # "up" \/ s.status = "connecting" => NoSubscriptions(s)
  /\ s.role # "client" /\ l = "fresh" => s.protocol_version = "undetermined"

IdsInv(s, l, h, r) ==
  /\ Uses(s.pid_man, h, r, s.pid_suback, s.pid_unsuback,
          s.pid_puback, s.pid_pubrec, s.pid_pubcomp)
  /\ WaitingFor(s.store, s.pid_puback, s.pid_pubrec, s.pid_pubcomp)
  /\ Phase(s, l, r)

Careful == TypeInv /\ IdsInv(con, link, held, rec)
-----------------------------------------------------------------------------
(***************************************************************************)
(* Moving an identifier from one use to the next                           *)
(***************************************************************************)
\* The application takes an identifier or gives it back.
LEMMA HeldMoves ==
  ASSUME NEW m, NEW h, NEW r, NEW su, NEW un, NEW pa, NEW pr, NEW pc, NEW x,
         Uses(m, h, r, su, un, pa, pr, pc)
  PROVE  /\ x \notin m => Uses(m \cup {x}, h \cup {x}, r, su, un, pa, pr, pc)
         /\ x \in h => Uses(m \ {x}, h \ {x}, r, su, un, pa, pr, pc)
         /\ x \notin m => m \ {x} = m /\ h \ {x} = h
  BY DEF Uses

\* It hands an identifier over to the connection.
LEMMA HandedMoves ==
  ASSUME NEW m, NEW h, NEW r, NEW su, NEW un, NEW pa, NEW pr, NEW pc, NEW x,
         Uses(m, h, r, su, un, pa, pr, pc)
  PROVE  /\ x \in h => /\ Uses(m, h \ {x}, r, su \cup {x}, un, pa, pr, pc)
                       /\ Uses(m, h \ {x}, r, su, un \cup {x}, pa, pr, pc)
                       /\ Uses(m, h \ {x}, r, su, un, pa \cup {x}, pr, pc)
                       /\ Uses(m, h \ {x}, r, su, un, pa, pr \cup {x}, pc)
         /\ x \in r => Uses(m, h, r \ {x}, su, un, pa, pr, pc \cup {x})
  <1>1. x \in h => Uses(m, h \ {x}, r, su \cup {x}, un, pa, pr, pc)
    BY DEF Uses
  <1>2. x \in h => Uses(m, h \ {x}, r, su, un \cup {x}, pa, pr, pc)
    BY DEF Uses
  <1>3. x \in h => Uses(m, h \ {x}, r, su, un, pa \cup {x}, pr, pc)
    BY DEF Uses
  <1>4. x \in h => Uses(m, h \ {x}, r, su, un, pa, pr \cup {x}, pc)
    BY DEF Uses
  <1>5. x \in r => Uses(m, h, r \ {x}, su, un, pa, pr, pc \cup {x})
    BY DEF Uses
  <1> QED BY <1>1, <1>2, <1>3, <1>4, <1>5, Zenon

\* An answer ends the use of an identifier or is the middle of an exchange.
LEMMA AnswerMoves ==
  ASSUME NEW m, NEW h, NEW r, NEW su, NEW un, NEW pa, NEW pr, NEW pc, NEW x,
         Uses(m, h, r, su, un, pa, pr, pc)
  PROVE  /\ x \in su => Uses(m \ {x}, h, r, su \ {x}, un, pa, pr, pc)
         /\ x \in un => Uses(m \ {x}, h, r, su, un \ {x}, pa, pr, pc)
         /\ x \in pa => Uses(m \ {x}, h, r, su, un, pa \ {x}, pr, pc)
         /\ x \in pr => /\ Uses(m \ {x}, h, r, su, un, pa, pr \ {x}, pc)
                        /\ Uses(m, h, r \cup {x}, su, un, pa, pr \ {x}, pc)
                        /\ Uses(m, h, r, su, un, pa, pr \ {x}, pc \cup {x})
         /\ x \in pc => Uses(m \ {x}, h, r, su, un, pa, pr, pc \ {x})
  <1>1. x \in su => Uses(m \ {x}, h, r, su \ {x}, un, pa, pr, pc)
    BY DEF Uses
  <1>2. x \in un => Uses(m \ {x}, h, r, su, un \ {x}, pa, pr, pc)
    BY DEF Uses
  <1>3. x \in pa => Uses(m \ {x}, h, r, su, un, pa \ {x}, pr, pc)
    BY DEF Uses
  <1>4. x \in pr => Uses(m \ {x}, h, r, su, un, pa, pr \ {x}, pc)
    BY DEF Uses
  <1>5. x \in pr => Uses(m, h, r \cup {x}, su, un, pa, pr \ {x}, pc)
    BY DEF Uses
  <1>6. x \in pr => Uses(m, h, r, su, un, pa, pr \ {x}, pc \cup {x})
    BY DEF Uses
  <1>7. x \in pc => Uses(m \ {x}, h, r, su, un, pa, pr, pc \ {x})
    BY DEF Uses
  <1> QED BY <1>1, <1>2, <1>3, <1>4, <1>5, <1>6, <1>7, Zenon

\* The end of a network connection and the beginning of a session.
LEMMA SessionMoves ==
  ASSUME NEW m, NEW h, NEW r, NEW su, NEW un, NEW pa, NEW pr, NEW pc,
         Uses(m, h, r, su, un, pa, pr, pc)
  PROVE  /\ Uses(m \ (su \cup un), h, r, {}, {}, pa, pr, pc)
         /\ Uses(m \ ((su \cup un) \cup (pa \cup pr \cup pc)), h, r, {}, {}, {}, {}, {})
         /\ Uses({}, {}, {}, {}, {}, {}, {}, {})
  BY DEF Uses

\* A step of an exchange, as the count of exchanges sees it.
LEMMA ExchangeMoves ==
  ASSUME NEW m, NEW h, NEW r, NEW su, NEW un, NEW pa, NEW pr, NEW pc, NEW x,
         Uses(m, h, r, su, un, pa, pr, pc)
  PROVE  LET all == pa \cup pr \cup pc \cup r
         IN /\ x \in h => /\ x \notin all
                          /\ (pa \cup {x}) \cup pr \cup pc \cup r = all \cup {x}
                          /\ pa \cup (pr \cup {x}) \cup pc \cup r = all \cup {x}
            /\ x \in pa => (pa \ {x}) \cup pr \cup pc \cup r = all \ {x}
            /\ x \in pc => pa \cup pr \cup (pc \ {x}) \cup r = all \ {x}
            /\ x \in pr => /\ pa \cup (pr \ {x}) \cup pc \cup r = all \ {x}
                           /\ pa \cup (pr \ {x}) \cup pc \cup (r \cup {x}) = all
                           /\ pa \cup (pr \ {x}) \cup (pc \cup {x}) \cup r = all
            /\ x \in r => pa \cup pr \cup (pc \cup {x}) \cup (r \ {x}) = all
  BY DEF Uses
-----------------------------------------------------------------------------
(***************************************************************************)
(* The stored packets                                                      *)
(***************************************************************************)
\* An empty store waits for nothing, and more may be awaited.
LEMMA WaitingMore ==
  ASSUME NEW st, NEW pa, NEW pr, NEW pc, NEW pa2, NEW pr2, NEW pc2
  PROVE  /\ WaitingFor(<<>>, pa, pr, pc)
         /\ WaitingFor(st, pa, pr, pc) /\ pa \subseteq pa2 /\ pr \subseteq pr2 /\ pc \subseteq pc2
              => WaitingFor(st, pa2, pr2, pc2)
  <1>1. WaitingFor(<<>>, pa, pr, pc)
    BY DEF WaitingFor
  <1>2. ASSUME WaitingFor(st, pa, pr, pc), pa \subseteq pa2, pr \subseteq pr2, pc \subseteq pc2
        PROVE  WaitingFor(st, pa2, pr2, pc2)
    BY <1>2, Zenon DEF WaitingFor
  <1> QED BY <1>1, <1>2

\* A packet is added together with its identifier.
LEMMA WaitingAdded ==
  ASSUME NEW st, StoreSound(st), NEW p \in StorePackets, NEW pa, NEW pr, NEW pc,
         WaitingFor(st, pa, pr, pc),
         ResponseTo(p) = "puback" => p.pid \in pa,
         ResponseTo(p) = "pubrec" => p.pid \in pr,
         ResponseTo(p) = "pubcomp" => p.pid \in pc
  PROVE  WaitingFor(StoreAdd(st, p), pa, pr, pc)
  <1> DEFINE a == StoreAdd(st, p)
  <1>1. \A k \in DOMAIN a : a[k] = p \/ \E i \in DOMAIN st : a[k] = st[i]
    <2>1. st \in Seq(StorePackets) /\ KeysUnique(st)
      BY Zenon DEF StoreSound
    <2> QED BY <2>1, AddSound
  <1> HIDE DEF a
  <1>2. WaitingFor(a, pa, pr, pc)
    BY <1>1 DEF WaitingFor
  <1> QED BY <1>2 DEF a

\* A packet is erased together with its identifier.
LEMMA WaitingErased ==
  ASSUME NEW st, StoreSound(st), NEW pa, NEW pr, NEW pc, WaitingFor(st, pa, pr, pc), NEW x
  PROVE  /\ WaitingFor(StoreErase(st, "puback", x), pa \ {x}, pr, pc)
         /\ WaitingFor(StoreErase(st, "pubrec", x), pa, pr \ {x}, pc)
         /\ WaitingFor(StoreErase(st, "pubcomp", x), pa, pr, pc \ {x})
  <1>1. ASSUME NEW response
        PROVE  \A k \in DOMAIN StoreErase(st, response, x) :
                 /\ ~ (ResponseTo(StoreErase(st, response, x)[k]) = response
                         /\ StoreErase(st, response, x)[k].pid = x)
                 /\ \E i \in DOMAIN st : StoreErase(st, response, x)[k] = st[i]
    <2>1. st \in Seq(StorePackets) /\ KeysUnique(st)
      BY Zenon DEF StoreSound
    <2> QED BY <2>1, EraseSound, SMTT(30)
  <1>2. WaitingFor(StoreErase(st, "puback", x), pa \ {x}, pr, pc)
    <2> DEFINE e == StoreErase(st, "puback", x)
    <2>1. \A k \in DOMAIN e : /\ ~ (ResponseTo(e[k]) = "puback" /\ e[k].pid = x)
                              /\ \E i \in DOMAIN st : e[k] = st[i]
      BY <1>1, Zenon
    <2> HIDE DEF e
    <2>2. WaitingFor(e, pa \ {x}, pr, pc)
      BY <2>1 DEF WaitingFor
    <2> QED BY <2>2 DEF e
  <1>3. WaitingFor(StoreErase(st, "pubrec", x), pa, pr \ {x}, pc)
    <2> DEFINE e == StoreErase(st, "pubrec", x)
    <2>1. \A k \in DOMAIN e : /\ ~ (ResponseTo(e[k]) = "pubrec" /\ e[k].pid = x)
                              /\ \E i \in DOMAIN st : e[k] = st[i]
      BY <1>1, Zenon
    <2> HIDE DEF e
    <2>2. WaitingFor(e, pa, pr \ {x}, pc)
      BY <2>1 DEF WaitingFor
    <2> QED BY <2>2 DEF e
  <1>4. WaitingFor(StoreErase(st, "pubcomp", x), pa, pr, pc \ {x})
    <2> DEFINE e == StoreErase(st, "pubcomp", x)
    <2>1. \A k \in DOMAIN e : /\ ~ (ResponseTo(e[k]) = "pubcomp" /\ e[k].pid = x)
                              /\ \E i \in DOMAIN st : e[k] = st[i]
      BY <1>1, Zenon
    <2> HIDE DEF e
    <2>2. WaitingFor(e, pa, pr, pc \ {x})
      BY <2>1 DEF WaitingFor
    <2> QED BY <2>2 DEF e
  <1> QED BY <1>2, <1>3, <1>4
-----------------------------------------------------------------------------
(***************************************************************************)
(* Every call keeps the invariant                                          *)
(***************************************************************************)
\* Quiet steps, and the first steps of a network connection.
LEMMA QuietIds ==
  ASSUME NEW s, NEW t, NEW l, NEW h, NEW r, IdsInv(s, l, h, r), Quiet(s, t)
  PROVE  IdsInv(t, l, h, r) /\ IdsInv(t, "up", h, r)
  <1>1. Uses(t.pid_man, h, r, t.pid_suback, t.pid_unsuback, t.pid_puback, t.pid_pubrec, t.pid_pubcomp)
    BY DEF IdsInv, Quiet
  <1>2. WaitingFor(t.store, t.pid_puback, t.pid_pubrec, t.pid_pubcomp)
    BY DEF IdsInv, Quiet
  <1>3. Phase(t, l, r) /\ Phase(t, "up", r)
    BY ZenonT(40) DEF IdsInv, Quiet, Phase, Unlimited, NoneAwaited, NoSubscriptions
  <1> QED BY <1>1, <1>2, <1>3 DEF IdsInv

\* Calls within a session, on a network connection whose CONNECT was seen.
LEMMA BecomesIds ==
  ASSUME NEW s, NEW t, NEW h, NEW r, NEW h2, NEW r2, NEW l, IdsInv(s, l, h, r),
         NEW st, NEW m, NEW su, NEW un, NEW pa, NEW pr, NEW pc,
         Becomes(s, t, st, m, su, un, pa, pr, pc),
         Uses(m, h2, r2, su, un, pa, pr, pc), WaitingFor(st, pa, pr, pc),
         s.need_store \/ st = <<>>, s.protocol_version \in Versions,
         s.status = "connected" \/ (su \subseteq s.pid_suback /\ un \subseteq s.pid_unsuback)
  PROVE  IdsInv(t, l, h2, r2)
  <1>1. "undetermined" \notin Versions
    BY DEF Versions
  <1>2. Phase(t, l, r2)
    BY <1>1, Zenon DEF IdsInv, Becomes, Phase, Unlimited, NoneAwaited, NoSubscriptions
  <1> QED BY <1>2 DEF IdsInv, Becomes

\* What a step inside a network connection does to the exchanges and to their count.
CountedUp(s) ==
  IF s.publish_send_max = NoMaximum THEN s.publish_send_count
  ELSE (s.publish_send_count + 1) % (ReceiveMaximumMax + 1)

Tallies(s, r, t, r2) ==
  /\ t.publish_send_max = s.publish_send_max
  /\ t.status = s.status \/ t.status = "disconnected"
  /\ \/ /\ InFlight(t, r2) = InFlight(s, r)
        /\ t.publish_send_count = s.publish_send_count
     \/ \E x \in PacketIds :
          /\ x \notin InFlight(s, r) /\ InFlight(t, r2) = InFlight(s, r) \cup {x}
          /\ t.publish_send_count = CountedUp(s)
     \/ \E x \in InFlight(s, r) :
          /\ InFlight(t, r2) = InFlight(s, r) \ {x}
          /\ t.publish_send_count = CountedDown(s)

\* Network connections begin and end.
LEMMA LinkIds ==
  ASSUME Careful, CarefulUse, LinkUp \/ LinkDown
  PROVE  IdsInv(con, link, held, rec)'
  <1>1. Sound(con) /\ IdsInv(con, link, held, rec)
    BY DEF Careful, TypeInv
  <1>2. CASE LinkUp /\ IsClient
    <2>1. /\ con' = con /\ held' = held /\ rec' = rec /\ link = "down" /\ link' = "fresh"
          /\ con.role = "client"
      BY <1>2 DEF LinkUp, IsClient
    <2>2. Phase(con, "fresh", rec)
      BY <1>1, <2>1 DEF IdsInv, Phase
    <2> QED BY <1>1, <2>1, <2>2 DEF IdsInv
  <1>3. CASE LinkUp /\ ~ IsClient
    <2>1. PICK s \in Setups : s[1] = con.role
                              /\ con' = [NewConnection(s[1], s[2]) EXCEPT !.option = con.option]
      BY <1>3 DEF LinkUp
    <2>2. held' = {} /\ rec' = {} /\ link' = "fresh" /\ s[2] = "undetermined" /\ s[1] # "client"
      BY <1>3, <2>1 DEF LinkUp, IsClient, CarefulUse
    <2>3. /\ con'.pid_man = {} /\ con'.pid_suback = {} /\ con'.pid_unsuback = {}
          /\ con'.pid_puback = {} /\ con'.pid_pubrec = {} /\ con'.pid_pubcomp = {}
          /\ con'.store = <<>> /\ con'.need_store = FALSE /\ con'.status = "disconnected"
          /\ con'.protocol_version = "undetermined" /\ con'.role # "client"
          /\ con'.maximum_packet_size_send = NoLimit
      BY <2>1, <2>2, ZenonT(40) DEF NewConnection
    <2>4. Phase(con', "fresh", {})
      BY <2>3 DEF Phase, Unlimited, NoneAwaited, NoSubscriptions
    <2>5. WaitingFor(<<>>, {}, {}, {}) /\ Uses({}, {}, {}, {}, {}, {}, {}, {})
      BY WaitingMore DEF Uses
    <2> QED BY <2>2, <2>3, <2>4, <2>5 DEF IdsInv
  <1>4. CASE LinkDown
    <2> DEFINE subs == con.pid_suback \cup con.pid_unsuback
               pubs == con.pid_puback \cup con.pid_pubrec \cup con.pid_pubcomp
    <2>1. link' = "down" /\ held' = held /\ rec' = rec /\ NotifyClosed
      BY <1>4 DEF LinkDown
    <2>2. /\ con'.role = con.role /\ con'.protocol_version = con.protocol_version
          /\ con'.status = "disconnected" /\ con'.need_store = con.need_store
          /\ con'.store = con.store /\ NoSubscriptions(con') /\ Unlimited(con')
          /\ IF con.need_store
             THEN SameAwaited(con, con') /\ con'.pid_man = con.pid_man \ subs
             ELSE NoneAwaited(con') /\ con'.pid_man = con.pid_man \ (subs \cup pubs)
      BY <1>1, <2>1, ClosedFields
    <2>3. /\ Uses(con.pid_man \ subs, held, rec, {}, {},
                  con.pid_puback, con.pid_pubrec, con.pid_pubcomp)
          /\ Uses(con.pid_man \ (subs \cup pubs), held, rec, {}, {}, {}, {}, {})
      BY <1>1, SessionMoves DEF IdsInv
    <2> HIDE DEF subs, pubs
    <2>4. Phase(con', "down", rec)
      BY <1>1, <2>2, ZenonT(40) DEF IdsInv, Phase, NoneAwaited, SameAwaited
    <2>5. CASE con.need_store
      BY <1>1, <2>1, <2>2, <2>3, <2>4, <2>5, Zenon DEF IdsInv, SameAwaited, NoSubscriptions
    <2>6. CASE ~ con.need_store
      <3>1. con'.store = <<>>
        BY <1>1, <2>2, <2>6, Zenon DEF IdsInv, Phase
      <3>2. WaitingFor(<<>>, {}, {}, {})
        BY WaitingMore
      <3> QED BY <2>1, <2>2, <2>3, <2>4, <2>6, <3>1, <3>2, Zenon
              DEF IdsInv, NoneAwaited, NoSubscriptions
    <2> QED BY <2>5, <2>6
  <1> QED BY <1>2, <1>3, <1>4

\* The packet identifier functions.
LEMMA HeldIds ==
  ASSUME Careful, Acquire \/ Register_ \/ Release
  PROVE  IdsInv(con, link, held, rec)'
  <1>1. con \in ConnectionType /\ IdsInv(con, link, held, rec)
    BY DEF Careful, TypeInv, Sound
  <1>2. ASSUME NEW S, NEW h, con' = [con EXCEPT !.pid_man = S], held' = h,
               Uses(S, h, rec, con.pid_suback, con.pid_unsuback,
                    con.pid_puback, con.pid_pubrec, con.pid_pubcomp),
               UNCHANGED <<link, rec>>
        PROVE  IdsInv(con, link, held, rec)'
    <2>1. /\ con'.pid_man = S /\ con'.store = con.store /\ con'.need_store = con.need_store
          /\ con'.pid_suback = con.pid_suback /\ con'.pid_unsuback = con.pid_unsuback
          /\ SameAwaited(con, con') /\ con'.role = con.role /\ con'.status = con.status
          /\ con'.protocol_version = con.protocol_version
          /\ con'.maximum_packet_size_send = con.maximum_packet_size_send
      BY <1>1, <1>2, ZenonT(40) DEF ConnectionType, SameAwaited
    <2>2. Phase(con', link, rec)
      BY <1>1, <2>1 DEF IdsInv, Phase, SameAwaited, NoneAwaited, NoSubscriptions, Unlimited
    <2> QED BY <1>1, <1>2, <2>1, <2>2 DEF IdsInv, SameAwaited
  <1>3. CASE Acquire \/ Register_
    <2>1. PICK pid \in PacketIds : /\ pid \notin con.pid_man
                                   /\ con' = [con EXCEPT !.pid_man = con.pid_man \cup {pid}]
                                   /\ held' = held \cup {pid}
      BY <1>3 DEF Acquire, Register_, AcquireUniquePacketId, RegisterPacketId, Vacant
    <2>2. UNCHANGED <<link, rec>>
      BY <1>3 DEF Acquire, Register_
    <2>3. Uses(con.pid_man \cup {pid}, held \cup {pid}, rec, con.pid_suback, con.pid_unsuback,
               con.pid_puback, con.pid_pubrec, con.pid_pubcomp)
      BY <1>1, <2>1, HeldMoves, Zenon DEF IdsInv
    <2> QED BY <1>2, <2>1, <2>2, <2>3
  <1>4. CASE Release
    <2>1. PICK pid \in held : /\ con' = [con EXCEPT !.pid_man = con.pid_man \ {pid}]
                              /\ held' = held \ {pid}
      BY <1>4 DEF Release, ReleasePacketId, ReleaseIds
    <2>2. UNCHANGED <<link, rec>>
      BY <1>4 DEF Release
    <2>3. Uses(con.pid_man \ {pid}, held \ {pid}, rec, con.pid_suback, con.pid_unsuback,
               con.pid_puback, con.pid_pubrec, con.pid_pubcomp)
      BY <1>1, <2>1, HeldMoves, Zenon DEF IdsInv
    <2> QED BY <1>2, <2>1, <2>2, <2>3
  <1> QED BY <1>3, <1>4

\* The packets that open a network connection, sent by a client
LEMMA ConnectIds ==
  ASSUME Careful, CarefulUse, SendConnect
  PROVE  IdsInv(con, link, held, rec)'
  <1>1. Sound(con) /\ IdsInv(con, link, held, rec) /\ Unlimited(con)
    BY DEF Careful, TypeInv, IdsInv, Phase
  <1>2. PICK p \in Connects :
          /\ p.ver = con.protocol_version /\ Send(p)
          /\ held' = IF p.clean THEN {} ELSE held
          /\ rec' = IF p.clean THEN {} ELSE rec
    BY DEF SendConnect
  <1>3. p \in ConnectPackets /\ p.type = "connect"
        /\ (p.ver = "v5" => p.clean \/ p.expiry)
    BY UseAssumption, UsedPackets DEF CarefulUse
  <1>4. con.role = "client" /\ link = "fresh" /\ link' = "up"
    BY DEF SendConnect, IsClient
  <1>5. con.protocol_version \in Versions /\ con.status = "disconnected"
    BY <1>1, <1>4 DEF IdsInv, Phase
  <1>6. Sendable(con, p)
    BY <1>3, <1>4, <1>5 DEF Sendable, ClientSendable
  <1> DEFINE t == ConnectSent(con, p)
  <1>7. Quiet(t, con')
    BY <1>1, <1>2, <1>3, <1>6, ConnectSentEffect
  <1>8. /\ t.role = con.role /\ t.protocol_version = con.protocol_version
        /\ t.status = "connecting" /\ NoSubscriptions(t)
        /\ t.need_store = (IF con.protocol_version = "v5" THEN p.expiry ELSE ~ p.clean)
        /\ t.maximum_packet_size_send = con.maximum_packet_size_send
        /\ IF p.clean THEN SessionCleared(t) ELSE SameSession(con, t)
    BY <1>1, <1>3, ConnectSentFields, Zenon
  <1> HIDE DEF t
  <1>9. "undetermined" \notin Versions
    BY DEF Versions
  <1>10. IdsInv(t, "up", held', rec')
    <2>1. CASE p.clean
      <3>1. WaitingFor(<<>>, {}, {}, {}) /\ Uses({}, {}, {}, {}, {}, {}, {}, {})
        BY WaitingMore DEF Uses
      <3>2. held' = {} /\ rec' = {}
        BY <1>2, <2>1
      <3>3. Phase(t, "up", rec')
        BY <1>1, <1>4, <1>5, <1>8, <1>9, <2>1, Zenon DEF Phase, Unlimited, SessionCleared
      <3> QED BY <1>8, <2>1, <3>1, <3>2, <3>3, Zenon
              DEF IdsInv, SessionCleared, NoneAwaited, NoSubscriptions
    <2>2. CASE ~ p.clean
      <3>1. t.need_store = TRUE
        BY <1>2, <1>3, <1>8, <2>2, Zenon DEF ConnectPackets
      <3>2. Phase(t, "up", rec)
        BY <1>1, <1>4, <1>5, <1>8, <1>9, <3>1 DEF Phase, Unlimited
      <3>3. con.pid_suback = {} /\ con.pid_unsuback = {}
        BY <1>1, <1>4 DEF IdsInv, Phase, NoSubscriptions
      <3> QED BY <1>1, <1>2, <1>8, <2>2, <3>2, <3>3, Zenon
              DEF IdsInv, SameSession, SameAwaited, NoSubscriptions
    <2> QED BY <2>1, <2>2
  <1> QED BY <1>4, <1>7, <1>10, QuietIds

\* and received by a server, which knows nothing of the session yet,
LEMMA ReceiveConnectIds ==
  ASSUME Careful, CarefulUse, ReceiveConnect \/ ReceiveBadConnect
  PROVE  IdsInv(con, link, held, rec)'
  <1>1. Sound(con) /\ IdsInv(con, link, held, rec) /\ Unlimited(con) /\ con \in ConnectionType
    BY Zenon DEF Careful, TypeInv, IdsInv, Phase, Sound
  <1>2. con.role # "client" /\ link = "fresh" /\ link' = "up" /\ held' = held /\ rec' = rec
    BY ZenonT(40) DEF ReceiveConnect, ReceiveBadConnect, IsClient
  <1>3. /\ con.protocol_version = "undetermined" /\ con.status = "disconnected"
        /\ ~ con.need_store /\ con.store = <<>> /\ rec = {} /\ NoneAwaited(con)
        /\ NoSubscriptions(con)
    BY <1>1, <1>2 DEF IdsInv, Phase
  <1>4. "undetermined" \notin Versions
    BY DEF Versions
  <1>5. CASE ReceiveBadConnect
    <2>1. /\ con'.role = con.role /\ con'.protocol_version = con.protocol_version
          /\ con'.status # "connected"
          /\ con'.need_store = con.need_store /\ SameSession(con, con')
          /\ con'.pid_suback = con.pid_suback /\ con'.pid_unsuback = con.pid_unsuback
          /\ con'.maximum_packet_size_send = con.maximum_packet_size_send
      BY <1>1, <1>3, <1>5, BadConnectFields, ZenonT(40) DEF ReceiveBadConnect
    <2>2. Phase(con', "up", rec)
      BY <1>1, <1>2, <1>3, <2>1
         DEF Phase, Unlimited, NoneAwaited, NoSubscriptions, SameSession, SameAwaited
    <2> QED BY <1>1, <1>2, <2>1, <2>2 DEF IdsInv, SameSession, SameAwaited
  <1>6. CASE ReceiveConnect
    <2>1. PICK p \in Connects : Recv(p)
      BY <1>6 DEF ReceiveConnect
    <2>2. p \in ConnectPackets /\ p \in Packet /\ p.type = "connect" /\ p.mps = NoMaximum
          /\ p.ver \in Versions
      BY UseAssumption, UsedPackets DEF CarefulUse, NoSizeLimits, ConnectPackets
    <2>3. CASE RecvHandled(p)
      <3>1. RecvConnect(p)
        BY <2>2, <2>3 DEF RecvHandled
      <3>2. /\ con'.role = con.role /\ con'.protocol_version = p.ver
            /\ con'.status # "connected" /\ NoSubscriptions(con')
            /\ con'.maximum_packet_size_send = con.maximum_packet_size_send
            /\ con'.pid_man = con.pid_man /\ con'.store = con.store
            /\ IF p.clean THEN NoneAwaited(con') ELSE SameAwaited(con, con')
        BY <1>1, <1>3, <2>2, <3>1, ConnectTakenFields, Zenon
      <3>3. NoneAwaited(con')
        BY <1>3, <3>2 DEF NoneAwaited, SameAwaited
      <3>4. Phase(con', "up", rec)
        BY <1>1, <1>2, <1>3, <1>4, <2>2, <3>2, Zenon DEF Phase, Unlimited
      <3> QED BY <1>1, <1>2, <1>3, <3>2, <3>3, <3>4, Zenon DEF IdsInv, NoneAwaited, NoSubscriptions
    <2>4. CASE ~ RecvHandled(p)
      <3>1. Quiet(con, con')
        BY <1>1, <2>1, <2>2, <2>4, QuietRecv, Zenon
      <3> QED BY <1>1, <1>2, <3>1, QuietIds
    <2> QED BY <2>3, <2>4
  <1> QED BY <1>5, <1>6

\* and the answers to them.
LEMMA ConnackIds ==
  ASSUME Careful, CarefulUse, SendConnack \/ ReceiveConnack
  PROVE  IdsInv(con, link, held, rec)'
  <1>1. Sound(con) /\ IdsInv(con, link, held, rec) /\ Unlimited(con) /\ con \in ConnectionType
    BY Zenon DEF Careful, TypeInv, IdsInv, Phase, Sound
  <1>2. \A p \in UsedConnacks : p \in ConnackPackets /\ p \in Packet /\ p.type = "connack"
                                /\ p.mps = NoMaximum
    BY UseAssumption, UsedPackets DEF CarefulUse, NoSizeLimits, UsedConnacks
  <1>3. "undetermined" \notin Versions
    BY DEF Versions
  <1>4. CASE SendConnack
    <2>1. PICK p \in UsedConnacks : con' = SendPacket(con, p)
      BY <1>4 DEF SendConnack, Send
    <2>2. con.status = "connecting" /\ link' = link /\ held' = held /\ rec' = rec
      BY <1>4 DEF SendConnack
    <2>3. link = "up"
      BY <1>1, <2>2, Zenon DEF IdsInv, Phase
    <2> DEFINE a == [con EXCEPT !.status = "connected"]
    <2>4. con' = con \/ Quiet(con, con') \/ (con.protocol_version \in Versions /\ Quiet(a, con'))
      BY <1>1, <1>2, <2>1, ConnackSentEffect
    <2>5. /\ a.status = "connected" /\ a.role = con.role
          /\ a.protocol_version = con.protocol_version /\ a.need_store = con.need_store
          /\ a.pid_suback = con.pid_suback /\ a.pid_unsuback = con.pid_unsuback
          /\ a.maximum_packet_size_send = con.maximum_packet_size_send /\ SameSession(con, a)
      BY <1>1, ZenonT(40) DEF ConnectionType, SameSession, SameAwaited
    <2> HIDE DEF a
    <2>6. con.protocol_version \in Versions => IdsInv(a, "up", held, rec)
      <3>1. con.protocol_version \in Versions => Phase(a, "up", rec)
        BY <1>1, <1>3, <2>5, Zenon DEF IdsInv, Phase, Unlimited, SameSession
      <3> QED BY <1>1, <2>5, <3>1 DEF IdsInv, SameSession, SameAwaited
    <2> QED BY <1>1, <2>2, <2>3, <2>4, <2>6, QuietIds
  <1>5. CASE ReceiveConnack
    <2>1. PICK p \in UsedConnacks :
            /\ Recv(p)
            /\ held' = IF Handled(p) /\ p.ok /\ ~ p.sp THEN {} ELSE held
            /\ rec' = IF Handled(p) /\ p.ok /\ ~ p.sp THEN {} ELSE rec
      BY <1>5 DEF ReceiveConnack
    <2>2. link = "up" /\ link' = "up" /\ con.role = "client" /\ con.protocol_version \in Versions
      BY <1>1, <1>5, Zenon DEF ReceiveConnack, IsClient, IdsInv, Phase
    <2>3. CASE ~ Handled(p)
      <3>1. ~ RecvHandled(p)
        BY <2>3 DEF RecvHandled, Handled
      <3>2. Quiet(con, con')
        BY <1>1, <1>2, <2>1, <3>1, QuietRecv, Zenon
      <3> QED BY <1>1, <2>1, <2>2, <2>3, <3>2, QuietIds
    <2>4. CASE Handled(p)
      <3>1. Size(p) <= con.maximum_packet_size_recv /\ con.status = "connecting"
        BY <1>2, <2>4 DEF Handled, ProtocolSatisfied
      <3>2. ~ RecvTooLarge(p)
        BY <1>1, <3>1, SizeWithinNoLimit DEF RecvTooLarge, ConnectionType
      <3>3. RecvConnack(p)
        BY <1>2, <2>1, <2>4, <3>2 DEF Recv, RecvOutOfPlace, RecvHandled, Handled
      <3>4. IF ~ p.ok THEN Quiet(con, con')
            ELSE /\ con'.role = con.role /\ con'.protocol_version = con.protocol_version
                 /\ con'.status \in {"connected", "disconnected"}
                 /\ con'.need_store = con.need_store
                 /\ con'.pid_suback = con.pid_suback /\ con'.pid_unsuback = con.pid_unsuback
                 /\ con'.maximum_packet_size_send = con.maximum_packet_size_send
                 /\ IF p.sp THEN SameSession(con, con') ELSE SessionCleared(con')
        BY <1>1, <1>2, <3>3, ConnackTakenFields
      <3>5. CASE ~ p.ok
        BY <1>1, <2>1, <2>2, <3>4, <3>5, QuietIds
      <3>6. CASE p.ok /\ p.sp
        <4>1. Phase(con', "up", rec)
          BY <1>1, <1>3, <2>2, <3>4, <3>6, Zenon DEF IdsInv, Phase, Unlimited, SameSession
        <4> QED BY <1>1, <2>1, <2>2, <3>4, <3>6, <4>1 DEF IdsInv, SameSession, SameAwaited
      <3>7. CASE p.ok /\ ~ p.sp
        <4>1. Phase(con', "up", {})
          BY <1>1, <1>3, <2>2, <3>4, <3>7, Zenon DEF IdsInv, Phase, Unlimited, SessionCleared
        <4>2. held' = {} /\ rec' = {}
          BY <2>1, <2>4, <3>7
        <4>3. con.pid_suback = {} /\ con.pid_unsuback = {}
          BY <1>1, <3>1, Zenon DEF IdsInv, Phase, NoSubscriptions
        <4>4. WaitingFor(<<>>, {}, {}, {}) /\ Uses({}, {}, {}, {}, {}, {}, {}, {})
          BY WaitingMore DEF Uses
        <4> QED BY <2>2, <3>4, <3>7, <4>1, <4>2, <4>3, <4>4, Zenon DEF IdsInv, SessionCleared, NoneAwaited
      <3> QED BY <3>5, <3>6, <3>7
    <2> QED BY <2>3, <2>4
  <1> QED BY <1>4, <1>5
=============================================================================
