------------------------- MODULE ConnectionIdProofs -------------------------
(***************************************************************************)
(* What holds of the packet identifiers of a connection that is used with  *)
(* care (CarefulUse): none leaks and none has two uses (IdsAccounted), the *)
(* stored packets are those in flight (StoredIsInFlight), and the count    *)
(* that the Receive Maximum is compared with is the number of exchanges    *)
(* begun and not completed (CountIsInFlight).                              *)
(*                                                                         *)
(* The inductive invariant is Careful.  Its parts Uses and WaitingFor are  *)
(* about sets and a sequence, so that what a call does to them is a lemma  *)
(* of set theory; which sets a call leaves is what ConnectionStoreProofs   *)
(* shows.                                                                  *)
(***************************************************************************)
EXTENDS ConnectionStoreProofs

\* A server continues a stored session.
LEMMA RestoreIds ==
  ASSUME Careful, Restore
  PROVE  IdsInv(con, link, held, rec)'
  <1>1. Sound(con) /\ IdsInv(con, link, held, rec) /\ con \in ConnectionType
    BY DEF Careful, TypeInv, Sound
  <1>2. PICK pvs \in Restorable : RestorePackets(pvs)
    BY DEF Restore
  <1>3. /\ con.pid_man = {} /\ con.store = <<>> /\ con.need_store /\ con.status = "connecting"
        /\ link' = link /\ held' = held /\ rec' = rec
    BY DEF Restore
  <1>4. /\ held = {} /\ rec = {} /\ con.pid_suback = {} /\ con.pid_unsuback = {}
        /\ con.pid_puback = {} /\ con.pid_pubrec = {} /\ con.pid_pubcomp = {}
    BY <1>1, <1>3 DEF IdsInv, Uses
  <1> DEFINE all == {pvs[i].pid : i \in DOMAIN pvs}
             pa == IdsAnsweredBy(pvs, "puback")
             pr == IdsAnsweredBy(pvs, "pubrec")
             pc == IdsAnsweredBy(pvs, "pubcomp")
  <1>5. con' = [con EXCEPT !.pid_man = @ \cup all, !.pid_puback = @ \cup pa,
                           !.pid_pubrec = @ \cup pr, !.pid_pubcomp = @ \cup pc,
                           !.store = @ \o pvs]
    BY <1>2, <1>3, RestoredAll, Zenon
  <1>6. pvs \in Seq(StorePackets) /\ \A i, j \in DOMAIN pvs : pvs[i].pid = pvs[j].pid => i = j
    BY UseAssumption
  <1>7. \A i \in DOMAIN pvs : ResponseTo(pvs[i]) \in {"puback", "pubrec", "pubcomp"}
    BY DEF ResponseTo
  <1>8. WaitingFor(pvs, pa, pr, pc)
    BY <1>6 DEF WaitingFor, IdsAnsweredBy
  <1>9. Uses(all, {}, {}, {}, {}, pa, pr, pc)
    <2>1. all = pa \cup pr \cup pc
      <3>1. ASSUME NEW x \in all
            PROVE  x \in pa \cup pr \cup pc
        <4>1. PICK i \in DOMAIN pvs : x = pvs[i].pid
          OBVIOUS
        <4> QED BY <1>7, <4>1 DEF IdsAnsweredBy
      <3>2. pa \subseteq all /\ pr \subseteq all /\ pc \subseteq all
        BY DEF IdsAnsweredBy
      <3> QED BY <3>1, <3>2
    <2>2. ASSUME NEW x, NEW a, NEW b, x \in IdsAnsweredBy(pvs, a), x \in IdsAnsweredBy(pvs, b)
          PROVE  a = b
      <3>1. PICK i \in DOMAIN pvs : ResponseTo(pvs[i]) = a /\ x = pvs[i].pid
        BY <2>2 DEF IdsAnsweredBy
      <3>2. PICK j \in DOMAIN pvs : ResponseTo(pvs[j]) = b /\ x = pvs[j].pid
        BY <2>2 DEF IdsAnsweredBy
      <3> QED BY <1>6, <3>1, <3>2, Zenon
    <2>3. /\ \A x \in pa : x \notin pr /\ x \notin pc
          /\ \A x \in pr : x \notin pc
      BY <2>2
    <2> HIDE DEF all, pa, pr, pc
    <2> QED BY <2>1, <2>3 DEF Uses
  <1> HIDE DEF all, pa, pr, pc
  <1>10. /\ con'.pid_man = all /\ con'.pid_puback = pa /\ con'.pid_pubrec = pr
         /\ con'.pid_pubcomp = pc /\ con'.store = pvs
    <2>1. /\ con'.pid_man = con.pid_man \cup all /\ con'.pid_puback = con.pid_puback \cup pa
          /\ con'.pid_pubrec = con.pid_pubrec \cup pr
          /\ con'.pid_pubcomp = con.pid_pubcomp \cup pc /\ con'.store = con.store \o pvs
      BY <1>1, <1>5, ZenonT(40) DEF ConnectionType
    <2>2. <<>> \o pvs = pvs
      BY <1>6
    <2> QED BY <1>3, <1>4, <2>1, <2>2
  <1>11. /\ con'.pid_suback = con.pid_suback /\ con'.pid_unsuback = con.pid_unsuback
         /\ con'.role = con.role /\ con'.protocol_version = con.protocol_version
         /\ con'.status = con.status /\ con'.need_store = con.need_store
         /\ con'.maximum_packet_size_send = con.maximum_packet_size_send
    BY <1>1, <1>5, ZenonT(40) DEF ConnectionType
  <1>12. Phase(con', link, rec)
    BY <1>1, <1>3, <1>11 DEF IdsInv, Phase, Unlimited, NoSubscriptions
  <1> QED BY <1>3, <1>4, <1>8, <1>9, <1>10, <1>11, <1>12 DEF IdsInv

\* SUBSCRIBE, UNSUBSCRIBE and PUBREL.
LEMMA HandedIds ==
  ASSUME Careful, SendWithId \/ SendPubrel
  PROVE  IdsInv(con, link, held, rec)' /\ Tallies(con, rec, con', rec')
  <1>1. /\ Sound(con) /\ IdsInv(con, link, held, rec) /\ con \in ConnectionType /\ Unlimited(con)
        /\ held \subseteq PacketIds /\ rec \subseteq PacketIds
    BY DEF Careful, TypeInv, TypeOK, Sound, IdsInv, Phase
  <1>2. con.status = "connected" /\ link' = link
    BY DEF SendWithId, SendPubrel
  <1>3. CASE SendWithId
    <2>1. PICK type \in UsedIdPackets, pid \in held :
            con' = SendPacket(con, WithId(type, pid)) /\ held' = held \ {pid}
      BY <1>3 DEF SendWithId, Send
    <2> DEFINE p == WithId(type, pid)
    <2>2. /\ p \in IdPackets /\ p.type = type /\ p.pid = pid
          /\ type \in {"subscribe", "unsubscribe"}
      BY <1>1, UseAssumption DEF WithId, IdPackets
    <2>3. con.role = "client" /\ con.protocol_version \in Versions /\ rec' = rec
      BY <1>1, <1>3 DEF SendWithId, IsClient, IdsInv, Phase
    <2>4. con' = SendPacket(con, p)
      BY <2>1
    <2> HIDE DEF p
    <2>5. Sendable(con, p)
      BY <1>2, <2>2, <2>3 DEF Sendable, ClientSendable
    <2>6. /\ con'.publish_send_count = con.publish_send_count
          /\ type = "subscribe" =>
               Becomes(con, con', con.store, con.pid_man, con.pid_suback \cup {pid},
                       con.pid_unsuback, con.pid_puback, con.pid_pubrec, con.pid_pubcomp)
          /\ type = "unsubscribe" =>
               Becomes(con, con', con.store, con.pid_man, con.pid_suback,
                       con.pid_unsuback \cup {pid}, con.pid_puback, con.pid_pubrec, con.pid_pubcomp)
      BY <1>1, <2>2, <2>4, <2>5, HandedFields, Zenon
    <2>7. /\ Uses(con.pid_man, held \ {pid}, rec, con.pid_suback \cup {pid}, con.pid_unsuback,
                  con.pid_puback, con.pid_pubrec, con.pid_pubcomp)
          /\ Uses(con.pid_man, held \ {pid}, rec, con.pid_suback, con.pid_unsuback \cup {pid},
                  con.pid_puback, con.pid_pubrec, con.pid_pubcomp)
      BY <1>1, HandedMoves, Zenon DEF IdsInv
    <2>8. /\ WaitingFor(con.store, con.pid_puback, con.pid_pubrec, con.pid_pubcomp)
          /\ con.need_store \/ con.store = <<>>
      BY <1>1 DEF IdsInv, Phase
    <2>9. IdsInv(con', link, held \ {pid}, rec)
      BY <1>1, <1>2, <2>2, <2>3, <2>6, <2>7, <2>8, BecomesIds, Zenon
    <2>10. Tallies(con, rec, con', rec)
      BY <2>2, <2>6 DEF Becomes, Tallies, InFlight
    <2> QED BY <1>2, <2>1, <2>3, <2>9, <2>10
  <1>4. CASE SendPubrel
    <2>1. PICK pid \in rec : con' = SendPacket(con, WithId("pubrel", pid)) /\ rec' = rec \ {pid}
      BY <1>4 DEF SendPubrel, Send
    <2> DEFINE p == WithId("pubrel", pid)
    <2>2. /\ p \in IdPackets /\ p.type = "pubrel" /\ p.pid = pid /\ p \in StorePackets
          /\ ResponseTo(p) = "pubcomp"
      BY <1>1, UseAssumption DEF WithId, IdPackets, StorePackets, PubrelPackets, ResponseTo
    <2>3. con.protocol_version \in Versions /\ held' = held
      BY <1>1, <1>4 DEF SendPubrel, IdsInv, Phase, ConnectionType
    <2>4. con' = SendPacket(con, p)
      BY <2>1
    <2> HIDE DEF p
    <2>5. Sendable(con, p)
      <3>1. con.role # "server" \/ con.role # "client"
        BY <1>1
      <3> QED BY <1>2, <2>2, <2>3, <3>1 DEF Sendable, ClientSendable, ServerSendable
    <2> DEFINE st == IF con.need_store THEN StoreAdd(con.store, p) ELSE con.store
    <2>6. /\ Becomes(con, con', st, con.pid_man, con.pid_suback, con.pid_unsuback,
                     con.pid_puback, con.pid_pubrec, con.pid_pubcomp \cup {pid})
          /\ con'.publish_send_count = con.publish_send_count
      BY <1>1, <2>2, <2>4, <2>5, HandedFields, Zenon
    <2>7. Uses(con.pid_man, held, rec \ {pid}, con.pid_suback, con.pid_unsuback, con.pid_puback,
               con.pid_pubrec, con.pid_pubcomp \cup {pid})
      BY <1>1, HandedMoves, Zenon DEF IdsInv
    <2>8. WaitingFor(con.store, con.pid_puback, con.pid_pubrec, con.pid_pubcomp \cup {pid})
      BY <1>1, WaitingMore DEF IdsInv
    <2>9. WaitingFor(StoreAdd(con.store, p), con.pid_puback, con.pid_pubrec,
                     con.pid_pubcomp \cup {pid})
      BY <1>1, <2>2, <2>8, WaitingAdded DEF Sound
    <2>10. /\ WaitingFor(st, con.pid_puback, con.pid_pubrec, con.pid_pubcomp \cup {pid})
           /\ con.need_store \/ st = <<>>
      BY <1>1, <2>8, <2>9 DEF IdsInv, Phase
    <2> HIDE DEF st
    <2>11. IdsInv(con', link, held, rec \ {pid})
      BY <1>1, <1>2, <2>3, <2>6, <2>7, <2>10, BecomesIds, Zenon
    <2>12. Tallies(con, rec, con', rec \ {pid})
      <3>1. con.pid_puback \cup con.pid_pubrec \cup (con.pid_pubcomp \cup {pid}) \cup (rec \ {pid})
              = InFlight(con, rec)
        BY DEF InFlight
      <3> QED BY <2>6, <3>1 DEF Becomes, Tallies, InFlight
    <2> QED BY <1>2, <2>1, <2>3, <2>11, <2>12
  <1> QED BY <1>3, <1>4

\* PUBLISH.
LEMMA PublishIds ==
  ASSUME Careful, CarefulUse, Publish
  PROVE  IdsInv(con, link, held, rec)' /\ Tallies(con, rec, con', rec')
  <1>1. /\ Sound(con) /\ IdsInv(con, link, held, rec) /\ con \in ConnectionType
        /\ held \subseteq PacketIds /\ StoreSound(con.store)
    BY DEF Careful, TypeInv, TypeOK, Sound
  <1>2. PICK qos \in UsedQos, pid \in PacketIds \cup {NoId}, topic \in Topics \cup {NoTopic},
             alias \in UsedAliases, payload \in Payloads :
          LET p == PublishPacket(qos, pid, topic, alias, payload)
          IN /\ con.protocol_version \in Versions
             /\ IF qos = 0 THEN pid = NoId ELSE pid \in held
             /\ PublishVerdict(con, p) \notin Risky
             /\ SendPublish(p)
             /\ held' = held \ {pid}
             /\ link' = link /\ rec' = rec
    BY DEF Publish, CarefulUse
  <1> DEFINE p == PublishPacket(qos, pid, topic, alias, payload)
             verdict == PublishVerdict(con, p)
             f == StoreForm(con, p)
             st == IF Storing(con, p) THEN StoreAdd(con.store, f) ELSE con.store
             pa == IF qos = 1 THEN con.pid_puback \cup {pid} ELSE con.pid_puback
             pr == IF qos = 2 THEN con.pid_pubrec \cup {pid} ELSE con.pid_pubrec
  <1>3. /\ p \in PublishPackets /\ p.type = "publish" /\ p.qos = qos /\ p.pid = pid
        /\ NoId \notin PacketIds
    <2>1. NoId = 0 /\ UsedQos \subseteq 0 .. 2 /\ UsedAliases \subseteq 0 .. MaxAlias
      BY UseAssumption DEF NoId
    <2> QED BY <1>2, <2>1, Bounds DEF PublishPacket, PublishPackets, PacketIds, NoId
  <1>4. SendPublish(p) /\ verdict \notin Risky
    BY <1>2
  <1>5. qos \in 0 .. 2 /\ (qos > 0 => pid \in held)
    <2>1. UsedQos \subseteq 0 .. 2
      BY UseAssumption
    <2>2. qos \in UsedQos /\ IF qos = 0 THEN pid = NoId ELSE pid \in held
      BY <1>2, Zenon
    <2> QED BY <2>1, <2>2
  <1>6. verdict \notin {"not_sendable", "not_allocated"}
    <2>1. Sendable(con, p)
      BY <1>1, <1>2, <1>3 DEF Sendable, ClientSendable, ServerSendable, ConnectionType, Roles
    <2> HIDE DEF p
    <2> QED BY <1>4, <2>1, Zenon DEF Risky, PublishVerdict
  <1> HIDE DEF p
  <1>7. \/ SameIds(ReleaseIds(con, {p.pid}), con')
           /\ con'.publish_send_count = con.publish_send_count
        \/ /\ SameIds(Record(con, p), con')
           /\ con'.publish_send_count = CountUp(Record(con, p), p).publish_send_count
    <2>1. p.qos > 0 => p.pid # NoId
      BY <1>1, <1>3, <1>5
    <2> HIDE DEF verdict
    <2>2. verdict \notin GivenBackLate
      BY <1>4 DEF GivenBackLate, Risky
    <2> QED BY <1>1, <1>3, <1>4, <1>6, <2>1, <2>2, PublishEffect, Zenon DEF verdict
  <1>8. Uses(con.pid_man, held, rec, con.pid_suback, con.pid_unsuback, con.pid_puback,
             con.pid_pubrec, con.pid_pubcomp)
    BY <1>1 DEF IdsInv
  <1>9. CASE /\ SameIds(ReleaseIds(con, {p.pid}), con')
             /\ con'.publish_send_count = con.publish_send_count
    <2>1. Becomes(con, ReleaseIds(con, {p.pid}), con.store, con.pid_man \ {pid}, con.pid_suback,
                  con.pid_unsuback, con.pid_puback, con.pid_pubrec, con.pid_pubcomp)
      BY <1>1, <1>3, ZenonT(40) DEF ReleaseIds, Becomes, ConnectionType
    <2>2. Becomes(con, con', con.store, con.pid_man \ {pid}, con.pid_suback,
                  con.pid_unsuback, con.pid_puback, con.pid_pubrec, con.pid_pubcomp)
      BY <1>9, <2>1, BecomesSame
    <2>3. pid \in held \/ pid \notin con.pid_man
      BY <1>1, <1>2, <1>3, Zenon DEF ConnectionType
    <2>4. Uses(con.pid_man \ {pid}, held \ {pid}, rec, con.pid_suback, con.pid_unsuback,
               con.pid_puback, con.pid_pubrec, con.pid_pubcomp)
      BY <1>8, <2>3, HeldMoves, Zenon
    <2>5. /\ WaitingFor(con.store, con.pid_puback, con.pid_pubrec, con.pid_pubcomp)
          /\ con.need_store \/ con.store = <<>>
      BY <1>1 DEF IdsInv, Phase
    <2>6. IdsInv(con', link, held \ {pid}, rec)
      BY <1>1, <1>2, <2>2, <2>4, <2>5, BecomesIds, Zenon
    <2>7. Tallies(con, rec, con', rec)
      BY <1>9, <2>2 DEF Becomes, Tallies, InFlight
    <2> QED BY <1>2, <2>6, <2>7
  <1>10. CASE /\ SameIds(Record(con, p), con')
              /\ con'.publish_send_count = CountUp(Record(con, p), p).publish_send_count
    <2>1. /\ Becomes(con, Record(con, p), st, con.pid_man, con.pid_suback, con.pid_unsuback,
                     pa, pr, con.pid_pubcomp)
          /\ Record(con, p).publish_send_count = con.publish_send_count
          /\ Record(con, p).publish_send_max = con.publish_send_max
      BY <1>1, <1>3, ZenonT(40) DEF Record, Becomes, ConnectionType
    <2>2. Becomes(con, con', st, con.pid_man, con.pid_suback, con.pid_unsuback, pa, pr,
                  con.pid_pubcomp)
      BY <1>10, <2>1, BecomesSame, Zenon
    <2>3. con'.publish_send_count = IF qos = 0 THEN con.publish_send_count ELSE CountedUp(con)
      <3>1. CASE qos = 0 \/ con.publish_send_max = NoMaximum
        BY <1>3, <1>10, <2>1, <3>1 DEF CountUp, CountedUp
      <3>2. CASE ~ (qos = 0 \/ con.publish_send_max = NoMaximum)
        BY <1>1, <1>3, <1>10, <2>1, <3>2 DEF CountUp, CountedUp, Record, ConnectionType
      <3> QED BY <3>1, <3>2
    <2>4. Uses(con.pid_man, held \ {pid}, rec, con.pid_suback, con.pid_unsuback, pa, pr,
               con.pid_pubcomp)
      <3>1. CASE qos = 0
        <4>1. held \ {pid} = held
          BY <1>1, <1>2, <1>3, <3>1
        <4> QED BY <1>8, <3>1, <4>1
      <3>2. CASE qos > 0
        <4>1. /\ Uses(con.pid_man, held \ {pid}, rec, con.pid_suback, con.pid_unsuback,
                      con.pid_puback \cup {pid}, con.pid_pubrec, con.pid_pubcomp)
              /\ Uses(con.pid_man, held \ {pid}, rec, con.pid_suback, con.pid_unsuback,
                      con.pid_puback, con.pid_pubrec \cup {pid}, con.pid_pubcomp)
          BY <1>5, <1>8, <3>2, HandedMoves, Zenon
        <4>2. CASE qos = 1
          BY <4>1, <4>2
        <4>3. CASE qos = 2
          BY <4>1, <4>3
        <4> QED BY <1>5, <3>2, <4>2, <4>3
      <3> QED BY <1>5, <3>1, <3>2
    <2>5. WaitingFor(con.store, pa, pr, con.pid_pubcomp)
      BY <1>1, WaitingMore DEF IdsInv
    <2>6. ASSUME Storing(con, p) PROVE WaitingFor(StoreAdd(con.store, f), pa, pr, con.pid_pubcomp)
      <3>1. qos > 0 /\ con.need_store
        BY <1>3, <2>6 DEF Storing
      <3>2. f \in PublishPackets /\ f.qos = qos /\ f.pid = pid
        BY <1>1, <1>3, FormSound
      <3> HIDE DEF f
      <3>3. f \in StorePackets /\ f.type = "publish"
        BY <1>1, <1>3, <1>5, <3>1, <3>2 DEF StorePackets, PublishPackets
      <3>4. /\ ResponseTo(f) = "puback" => f.pid \in pa
            /\ ResponseTo(f) = "pubrec" => f.pid \in pr
            /\ ResponseTo(f) # "pubcomp"
        BY <1>5, <3>1, <3>2, <3>3 DEF ResponseTo
      <3> HIDE DEF pa, pr
      <3> QED BY <1>1, <2>5, <3>3, <3>4, WaitingAdded
    <2>7. WaitingFor(st, pa, pr, con.pid_pubcomp)
      BY <2>5, <2>6
    <2>8. con.need_store \/ st = <<>>
      BY <1>1 DEF IdsInv, Phase, Storing
    <2>9. Tallies(con, rec, con', rec)
      <3>1. CASE qos = 0
        BY <2>2, <2>3, <3>1 DEF Becomes, Tallies, InFlight
      <3>2. CASE qos > 0
        <4>1. pid \in held /\ pid \in PacketIds
          BY <1>1, <1>5, <3>2
        <4>2. pid \notin InFlight(con, rec) /\ InFlight(con', rec) = InFlight(con, rec) \cup {pid}
          <5>1. InFlight(con', rec) = pa \cup pr \cup con.pid_pubcomp \cup rec
            BY <2>2, Zenon DEF Becomes, InFlight
          <5>2. pid \notin InFlight(con, rec)
            BY <1>8, <4>1 DEF Uses, InFlight
          <5>3. pa \cup pr = con.pid_puback \cup con.pid_pubrec \cup {pid}
            BY <1>5, <3>2
          <5> HIDE DEF pa, pr
          <5> QED BY <5>1, <5>2, <5>3 DEF InFlight
        <4> QED BY <2>2, <2>3, <3>2, <4>1, <4>2 DEF Becomes, Tallies
      <3> QED BY <1>5, <3>1, <3>2
    <2> HIDE DEF st, pa, pr
    <2>10. IdsInv(con', link, held \ {pid}, rec)
      BY <1>1, <1>2, <2>2, <2>4, <2>7, <2>8, BecomesIds, Zenon
    <2> QED BY <1>2, <2>9, <2>10
  <1> QED BY <1>7, <1>9, <1>10

\* What the peer sends.
LEMMA ReceiveIds ==
  ASSUME Careful, Receive
  PROVE  IdsInv(con, link, held, rec)' /\ Tallies(con, rec, con', rec')
  <1>1. /\ Sound(con) /\ IdsInv(con, link, held, rec) /\ con \in ConnectionType /\ Unlimited(con)
        /\ StoreSound(con.store) /\ link' = link /\ held' = held
        /\ con.protocol_version \in Versions
    BY DEF Careful, TypeInv, Sound, IdsInv, Phase, Receive
  <1>2. PICK p \in PeerPackets :
          /\ Recv(p)
          /\ rec' = IF /\ Handled(p)
                       /\ p.type = "pubrec" /\ p.ok /\ p.pid \in con.pid_pubrec
                       /\ ~ IsSet(con, "auto_pub_response")
                    THEN rec \cup {p.pid} ELSE rec
    BY DEF Receive
  <1>3. /\ p \in Packet /\ (p.type = "publish" /\ p.qos > 0 => p.pid # NoId)
        /\ p.type \notin {"connect", "connack"}
    BY <1>1, <1>2, UsedPackets
  <1>4. RecvHandled(p) <=> Handled(p)
    <2>1. RecvHandled(p) => Handled(p)
      BY DEF RecvHandled, Handled
    <2>2. Handled(p) => ~ RecvTooLarge(p)
      <3>1. Size(p) \in Nat /\ con.maximum_packet_size_recv \in Nat
        BY <1>1, SizeWithinNoLimit DEF ConnectionType
      <3> QED BY <3>1 DEF Handled, RecvTooLarge
    <2>3. Handled(p) => ~ RecvOutOfPlace(p)
      BY DEF Handled, RecvOutOfPlace
    <2> QED BY <1>2, <2>1, <2>2, <2>3 DEF Recv
  <1> DEFINE x == p.pid
             Answers == {"puback", "pubrec", "pubcomp", "suback", "unsuback"}
             Awaited == RecvHandled(p) /\ p.type \in Answers /\ x \in AwaitedBy(con, p.type)
             Goal == IdsInv(con', link, held, rec') /\ Tallies(con, rec, con', rec')
  <1>5. /\ Uses(con.pid_man, held, rec, con.pid_suback, con.pid_unsuback, con.pid_puback,
                con.pid_pubrec, con.pid_pubcomp)
        /\ WaitingFor(con.store, con.pid_puback, con.pid_pubrec, con.pid_pubcomp)
        /\ con.need_store \/ con.store = <<>>
    BY <1>1 DEF IdsInv, Phase
  <1>6. \A response : con.need_store \/ StoreErase(con.store, response, x) = <<>>
    BY <1>5 DEF StoreErase, StoreFind
  <1>7. CASE ~ Awaited
    <2>1. \/ p.type \in {"publish", "pubrel", "pingreq", "pingresp", "disconnect",
                         "subscribe", "unsubscribe", "auth"}
          \/ ~ RecvHandled(p)
          \/ p.type \in Answers /\ x \notin AwaitedBy(con, p.type)
      BY <1>3, <1>7, Kinds
    <2>2. Quiet(con, con')
      BY <1>1, <1>2, <1>3, <2>1, QuietRecv DEF AwaitedBy
    <2>3. rec' = rec
      BY <1>2, <1>4, <1>7 DEF AwaitedBy
    <2>4. IdsInv(con', link, held, rec)
      BY <1>1, <2>2, QuietIds
    <2>5. Tallies(con, rec, con', rec)
      BY <2>2 DEF Quiet, Tallies, InFlight
    <2> QED BY <1>1, <2>3, <2>4, <2>5
  <1>8. ASSUME NEW st, NEW m, NEW su, NEW un, NEW pa, NEW pr, NEW pc,
               Becomes(con, con', st, m, su, un, pa, pr, pc),
               Uses(m, held, rec', su, un, pa, pr, pc), WaitingFor(st, pa, pr, pc),
               con.need_store \/ st = <<>>,
               su \subseteq con.pid_suback, un \subseteq con.pid_unsuback
        PROVE  IdsInv(con', link, held, rec')
    BY <1>1, <1>8, BecomesIds, ZenonT(40)
  <1>9. CASE Awaited /\ p.type = "puback"
    <2>1. /\ Becomes(con, con', StoreErase(con.store, "puback", x), con.pid_man \ {x},
                     con.pid_suback, con.pid_unsuback, con.pid_puback \ {x},
                     con.pid_pubrec, con.pid_pubcomp)
          /\ con'.publish_send_count = CountedDown(con)
      BY <1>1, <1>3, <1>9, AckFields, Zenon
    <2>2. x \in con.pid_puback /\ rec' = rec
      BY <1>2, <1>9 DEF AwaitedBy
    <2>3. Uses(con.pid_man \ {x}, held, rec, con.pid_suback, con.pid_unsuback,
               con.pid_puback \ {x}, con.pid_pubrec, con.pid_pubcomp)
      BY <1>5, <2>2, AnswerMoves, Zenon
    <2>4. WaitingFor(StoreErase(con.store, "puback", x), con.pid_puback \ {x},
                     con.pid_pubrec, con.pid_pubcomp)
      BY <1>1, <1>5, WaitingErased, Zenon
    <2>5. IdsInv(con', link, held, rec')
      BY <1>6, <1>8, <2>1, <2>2, <2>3, <2>4
    <2>6. x \in InFlight(con, rec) /\ InFlight(con', rec) = InFlight(con, rec) \ {x}
      <3>1. (con.pid_puback \ {x}) \cup con.pid_pubrec \cup con.pid_pubcomp \cup rec
              = InFlight(con, rec) \ {x}
        BY <1>5, <2>2 DEF InFlight, Uses
      <3> QED BY <2>1, <2>2, <3>1 DEF Becomes, InFlight
    <2> QED BY <1>1, <2>1, <2>2, <2>5, <2>6 DEF Becomes, Tallies
  <1>10. CASE Awaited /\ p.type = "pubcomp"
    <2>1. x \in con.pid_pubcomp /\ rec' = rec
      BY <1>2, <1>10 DEF AwaitedBy
    <2>2. /\ Becomes(con, con', StoreErase(con.store, "pubcomp", x), con.pid_man \ {x},
                     con.pid_suback, con.pid_unsuback, con.pid_puback,
                     con.pid_pubrec, con.pid_pubcomp \ {x})
          /\ con'.publish_send_count = CountedDown(con)
      BY <1>1, <1>3, <1>10, <2>1, PubcompFields
    <2>3. Uses(con.pid_man \ {x}, held, rec, con.pid_suback, con.pid_unsuback,
               con.pid_puback, con.pid_pubrec, con.pid_pubcomp \ {x})
      BY <1>5, <2>1, AnswerMoves, Zenon
    <2>4. WaitingFor(StoreErase(con.store, "pubcomp", x), con.pid_puback,
                     con.pid_pubrec, con.pid_pubcomp \ {x})
      BY <1>1, <1>5, WaitingErased, ZenonT(40)
    <2>5. IdsInv(con', link, held, rec')
      BY <1>6, <1>8, <2>1, <2>2, <2>3, <2>4
    <2>6. x \in InFlight(con, rec) /\ InFlight(con', rec) = InFlight(con, rec) \ {x}
      <3>1. con.pid_puback \cup con.pid_pubrec \cup (con.pid_pubcomp \ {x}) \cup rec
              = InFlight(con, rec) \ {x}
        BY <1>5, <2>1 DEF InFlight, Uses
      <3> QED BY <2>2, <2>1, <3>1 DEF Becomes, InFlight
    <2> QED BY <1>1, <2>1, <2>2, <2>5, <2>6 DEF Becomes, Tallies
  <1>11. CASE Awaited /\ p.type = "suback"
    <2>1. /\ Becomes(con, con', con.store, con.pid_man \ {x}, con.pid_suback \ {x},
                     con.pid_unsuback, con.pid_puback, con.pid_pubrec, con.pid_pubcomp)
          /\ con'.publish_send_count = con.publish_send_count
      BY <1>1, <1>3, <1>11, AckFields, Zenon
    <2>2. x \in con.pid_suback /\ rec' = rec
      BY <1>2, <1>11 DEF AwaitedBy
    <2>3. Uses(con.pid_man \ {x}, held, rec, con.pid_suback \ {x}, con.pid_unsuback,
               con.pid_puback, con.pid_pubrec, con.pid_pubcomp)
      BY <1>5, <2>2, AnswerMoves, Zenon
    <2>4. Uses(con.pid_man \ {x}, held, rec', con.pid_suback \ {x}, con.pid_unsuback,
               con.pid_puback, con.pid_pubrec, con.pid_pubcomp)
      BY <2>2, <2>3, Zenon
    <2>5. con.pid_suback \ {x} \subseteq con.pid_suback
      BY Zenon
    <2>6. IdsInv(con', link, held, rec')
      BY <1>5, <1>8, <2>1, <2>4, <2>5, Zenon
    <2> QED BY <1>1, <2>1, <2>2, <2>6 DEF Becomes, Tallies, InFlight
  <1>12. CASE Awaited /\ p.type = "unsuback"
    <2>1. /\ Becomes(con, con', con.store, con.pid_man \ {x}, con.pid_suback,
                     con.pid_unsuback \ {x}, con.pid_puback, con.pid_pubrec, con.pid_pubcomp)
          /\ con'.publish_send_count = con.publish_send_count
      BY <1>1, <1>3, <1>12, AckFields, Zenon
    <2>2. x \in con.pid_unsuback /\ rec' = rec
      BY <1>2, <1>12 DEF AwaitedBy
    <2>3. Uses(con.pid_man \ {x}, held, rec, con.pid_suback, con.pid_unsuback \ {x},
               con.pid_puback, con.pid_pubrec, con.pid_pubcomp)
      BY <1>5, <2>2, AnswerMoves, Zenon
    <2>4. Uses(con.pid_man \ {x}, held, rec', con.pid_suback, con.pid_unsuback \ {x},
               con.pid_puback, con.pid_pubrec, con.pid_pubcomp)
      BY <2>2, <2>3, Zenon
    <2>5. con.pid_unsuback \ {x} \subseteq con.pid_unsuback
      BY Zenon
    <2>6. IdsInv(con', link, held, rec')
      BY <1>5, <1>8, <2>1, <2>4, <2>5, Zenon
    <2> QED BY <1>1, <2>1, <2>2, <2>6 DEF Becomes, Tallies, InFlight
  <1>13. CASE Awaited /\ p.type = "pubrec"
    <2> DEFINE erased == StoreErase(con.store, "pubrec", x)
    <2>1. x \in con.pid_pubrec /\ RecvHandled(p) /\ p.type = "pubrec"
      BY <1>13 DEF AwaitedBy
    <2>2. WaitingFor(erased, con.pid_puback, con.pid_pubrec \ {x}, con.pid_pubcomp)
      BY <1>1, <1>5, WaitingErased, Zenon
    <2>3. StoreSound(erased) /\ x \in PacketIds
      BY <1>1, <1>3, <2>1, ErasedStore, Kinds DEF AnswerPackets
    <2>4. CASE ~ p.ok
      <3>1. /\ Becomes(con, con', erased, con.pid_man \ {x}, con.pid_suback, con.pid_unsuback,
                       con.pid_puback, con.pid_pubrec \ {x}, con.pid_pubcomp)
            /\ con'.publish_send_count = CountedDown(con)
        BY <1>1, <1>3, <2>1, <2>4, PubrecFields, Zenon
      <3>2. rec' = rec
        BY <1>2, <2>4
      <3>3. Uses(con.pid_man \ {x}, held, rec, con.pid_suback, con.pid_unsuback,
                 con.pid_puback, con.pid_pubrec \ {x}, con.pid_pubcomp)
        BY <1>5, <2>1, AnswerMoves, ZenonT(40)
      <3>4. IdsInv(con', link, held, rec')
        BY <1>6, <1>8, <2>2, <3>1, <3>2, <3>3
      <3>5. x \in InFlight(con, rec) /\ InFlight(con', rec) = InFlight(con, rec) \ {x}
        <4>1. con.pid_puback \cup (con.pid_pubrec \ {x}) \cup con.pid_pubcomp \cup rec
                = InFlight(con, rec) \ {x}
          <5>1. x \in con.pid_pubrec /\ x \notin con.pid_puback \cup con.pid_pubcomp \cup rec
            BY <1>5, <2>1 DEF Uses
          <5> QED BY <5>1 DEF InFlight
        <4> QED BY <2>1, <3>1, <4>1 DEF Becomes, InFlight
      <3> QED BY <1>1, <3>1, <3>2, <3>4, <3>5 DEF Becomes, Tallies
    <2>5. CASE p.ok /\ ~ IsSet(con, "auto_pub_response")
      <3>1. /\ Becomes(con, con', erased, con.pid_man, con.pid_suback, con.pid_unsuback,
                       con.pid_puback, con.pid_pubrec \ {x}, con.pid_pubcomp)
            /\ con'.publish_send_count = con.publish_send_count
        BY <1>1, <1>3, <2>1, <2>5, PubrecFields, Zenon
      <3>2. rec' = rec \cup {x}
        BY <1>2, <1>4, <2>1, <2>5
      <3>3. Uses(con.pid_man, held, rec \cup {x}, con.pid_suback, con.pid_unsuback,
                 con.pid_puback, con.pid_pubrec \ {x}, con.pid_pubcomp)
        BY <1>5, <2>1, AnswerMoves, Zenon
      <3>4. IdsInv(con', link, held, rec')
        BY <1>6, <1>8, <2>2, <3>1, <3>2, <3>3, Zenon
      <3>5. InFlight(con', rec \cup {x}) = InFlight(con, rec)
        <4>1. con.pid_puback \cup (con.pid_pubrec \ {x}) \cup con.pid_pubcomp \cup (rec \cup {x})
                = con.pid_puback \cup con.pid_pubrec \cup con.pid_pubcomp \cup rec
          BY <2>1
        <4>2. /\ con'.pid_puback = con.pid_puback /\ con'.pid_pubrec = con.pid_pubrec \ {x}
              /\ con'.pid_pubcomp = con.pid_pubcomp
          BY <3>1, Zenon DEF Becomes
        <4> QED BY <4>1, <4>2, Zenon DEF InFlight
      <3> QED BY <1>1, <3>1, <3>2, <3>4, <3>5 DEF Becomes, Tallies
    <2>6. CASE p.ok /\ IsSet(con, "auto_pub_response")
      <3> DEFINE q == WithId("pubrel", x)
                 st == IF con.need_store THEN StoreAdd(erased, q) ELSE erased
      <3>1. /\ Becomes(con, con', st, con.pid_man, con.pid_suback, con.pid_unsuback,
                       con.pid_puback, con.pid_pubrec \ {x}, con.pid_pubcomp \cup {x})
            /\ con'.publish_send_count = con.publish_send_count
        BY <1>1, <1>3, <2>1, <2>6, PubrecFields, Zenon
      <3>2. rec' = rec
        BY <1>2, <2>6
      <3>3. Uses(con.pid_man, held, rec, con.pid_suback, con.pid_unsuback,
                 con.pid_puback, con.pid_pubrec \ {x}, con.pid_pubcomp \cup {x})
        BY <1>5, <2>1, AnswerMoves, Zenon
      <3>4. q \in StorePackets /\ ResponseTo(q) = "pubcomp" /\ q.pid = x
        BY <2>3 DEF WithId, StorePackets, PubrelPackets, ResponseTo
      <3>5. WaitingFor(erased, con.pid_puback, con.pid_pubrec \ {x}, con.pid_pubcomp \cup {x})
        BY <2>2, WaitingMore
      <3> HIDE DEF q, erased
      <3>6. WaitingFor(StoreAdd(erased, q), con.pid_puback, con.pid_pubrec \ {x},
                       con.pid_pubcomp \cup {x})
        BY <2>3, <3>4, <3>5, WaitingAdded
      <3>7. /\ WaitingFor(st, con.pid_puback, con.pid_pubrec \ {x}, con.pid_pubcomp \cup {x})
            /\ con.need_store \/ st = <<>>
        BY <1>6, <3>5, <3>6 DEF erased
      <3> HIDE DEF st
      <3>8. IdsInv(con', link, held, rec')
        BY <1>8, <3>1, <3>2, <3>3, <3>7, Zenon
      <3>9. InFlight(con', rec) = InFlight(con, rec)
        <4>1. con.pid_puback \cup (con.pid_pubrec \ {x}) \cup (con.pid_pubcomp \cup {x}) \cup rec
                = con.pid_puback \cup con.pid_pubrec \cup con.pid_pubcomp \cup rec
          BY <2>1
        <4>2. /\ con'.pid_puback = con.pid_puback /\ con'.pid_pubrec = con.pid_pubrec \ {x}
              /\ con'.pid_pubcomp = con.pid_pubcomp \cup {x}
          BY <3>1, Zenon DEF Becomes
        <4> QED BY <4>1, <4>2, Zenon DEF InFlight
      <3> QED BY <1>1, <3>1, <3>2, <3>8, <3>9 DEF Becomes, Tallies
    <2> QED BY <2>4, <2>5, <2>6
  <1> QED BY <1>7, <1>9, <1>10, <1>11, <1>12, <1>13

-----------------------------------------------------------------------------
(***************************************************************************)
(* The theorems                                                            *)
(***************************************************************************)
\* A connection begins with no identifier in use.
LEMMA InitCareful == CarefulUse /\ Init => Careful
  <1>1. SUFFICES ASSUME CarefulUse, Init PROVE IdsInv(con, link, held, rec)
    BY InitSound DEF Careful
  <1>2. PICK s \in Setups : con = NewConnection(s[1], s[2])
    BY <1>1 DEF Init
  <1>3. /\ s[1] # "client" => s[2] = "undetermined"
        /\ s[1] = "client" => s[2] \in Versions
    BY <1>1, UseAssumption DEF CarefulUse
  <1>4. /\ con.pid_man = {} /\ con.pid_suback = {} /\ con.pid_unsuback = {}
        /\ con.pid_puback = {} /\ con.pid_pubrec = {} /\ con.pid_pubcomp = {}
        /\ con.store = <<>> /\ con.need_store = FALSE /\ con.status = "disconnected"
        /\ con.protocol_version = s[2] /\ con.role = s[1]
        /\ con.maximum_packet_size_send = NoLimit
    BY <1>2, ZenonT(40) DEF NewConnection
  <1>5. held = {} /\ rec = {} /\ link = "down"
    BY <1>1 DEF Init
  <1>6. Phase(con, link, rec)
    BY <1>3, <1>4, <1>5 DEF Phase, Unlimited, NoneAwaited, NoSubscriptions
  <1>7. WaitingFor(<<>>, {}, {}, {}) /\ Uses({}, {}, {}, {}, {}, {}, {}, {})
    BY WaitingMore DEF Uses
  <1> QED BY <1>4, <1>5, <1>6, <1>7 DEF IdsInv

\* Every step keeps the invariant.
LEMMA NextCareful ==
  ASSUME Careful, CarefulUse, [Next]_vars
  PROVE  Careful'
  <1>1. TypeInv'
    BY NextSound DEF Careful
  <1>2. SUFFICES IdsInv(con, link, held, rec)'
    BY <1>1 DEF Careful
  <1>3. IdsInv(con, link, held, rec) /\ con \in ConnectionType
    BY DEF Careful, TypeInv, Sound
  <1>4. CASE UNCHANGED vars
    BY <1>3, <1>4 DEF vars
  <1>5. CASE LinkUp \/ LinkDown
    BY <1>5, LinkIds
  <1>6. CASE Acquire \/ Register_ \/ Release
    BY <1>6, HeldIds
  <1>7. CASE Restore
    BY <1>7, RestoreIds
  <1>8. CASE \/ SendAnswer \/ SendPlain \/ Configure \/ RestoreHandled \/ ReceiveBad
             \/ Tick \/ \E kind \in Timers : TimerFires(kind)
    <2>1. Quiet(con, con') /\ UNCHANGED <<link, held, rec, resumed>>
      BY <1>3, <1>8, QuietCalls
    <2> QED BY <1>3, <2>1, QuietIds
  <1>9. CASE SendConnect
    BY <1>9, ConnectIds
  <1>10. CASE SendConnack \/ ReceiveConnack
    BY <1>10, ConnackIds
  <1>11. CASE Publish
    BY <1>11, PublishIds
  <1>12. CASE SendWithId \/ SendPubrel
    BY <1>12, HandedIds
  <1>13. CASE SendError
    BY <1>13 DEF SendError, CarefulUse
  <1>14. CASE ReceiveConnect \/ ReceiveBadConnect
    BY <1>14, ReceiveConnectIds
  <1>15. CASE Receive
    BY <1>15, ReceiveIds
  <1> QED BY <1>4, <1>5, <1>6, <1>7, <1>8, <1>9, <1>10, <1>11, <1>12, <1>13, <1>14, <1>15
          DEF Next

\* The identifiers pid_man_ holds are those the application holds and those an answer
\* is awaited for, each for one purpose: whatever is sent, answered, refused, resumed
\* or cut off, no identifier leaks and none is reused while something waits for it.
THEOREM IdsAlwaysAccounted == CarefulUse /\ Spec => []IdsAccounted
  <1>0. SUFFICES ASSUME CarefulUse PROVE Spec => []IdsAccounted
    OBVIOUS
  <1>1. Init => Careful
    BY <1>0, InitCareful
  <1>2. Careful /\ [Next]_vars => Careful'
    BY <1>0, NextCareful
  <1>3. Careful => IdsAccounted
    <2> SUFFICES ASSUME Careful PROVE IdsAccounted
      OBVIOUS
    <2> DEFINE uses == <<held, rec, con.pid_suback, con.pid_unsuback, con.pid_puback,
                         con.pid_pubrec, con.pid_pubcomp>>
    <2>1. Uses(con.pid_man, held, rec, con.pid_suback, con.pid_unsuback,
               con.pid_puback, con.pid_pubrec, con.pid_pubcomp)
      BY DEF Careful, IdsInv
    <2>2. /\ uses[1] = held /\ uses[2] = rec /\ uses[3] = con.pid_suback
          /\ uses[4] = con.pid_unsuback /\ uses[5] = con.pid_puback
          /\ uses[6] = con.pid_pubrec /\ uses[7] = con.pid_pubcomp
      OBVIOUS
    <2>3. \A i \in 1 .. 7 : i = 1 \/ i = 2 \/ i = 3 \/ i = 4 \/ i = 5 \/ i = 6 \/ i = 7
      OBVIOUS
    <2>4. 1 \in 1 .. 7 /\ 2 \in 1 .. 7 /\ 3 \in 1 .. 7 /\ 4 \in 1 .. 7 /\ 5 \in 1 .. 7
          /\ 6 \in 1 .. 7 /\ 7 \in 1 .. 7
      OBVIOUS
    <2> HIDE DEF uses
    <2>5. con.pid_man = UNION {uses[i] : i \in 1 .. 7}
      <3>1. ASSUME NEW x \in con.pid_man
            PROVE  \E i \in 1 .. 7 : x \in uses[i]
        BY <2>1, <2>2, <2>4 DEF Uses
      <3>2. ASSUME NEW i \in 1 .. 7, NEW x \in uses[i]
            PROVE  x \in con.pid_man
        BY <2>1, <2>2, <2>3 DEF Uses
      <3> QED BY <3>1, <3>2
    <2>6. ASSUME NEW i \in 1 .. 7, NEW j \in 1 .. 7, NEW x, x \in uses[i], x \in uses[j], i < j
          PROVE  FALSE
      BY <2>1, <2>2, <2>3, <2>6 DEF Uses
    <2>7. \A i, j \in 1 .. 7 : i # j => uses[i] \cap uses[j] = {}
      <3>1. \A i, j \in 1 .. 7 : i # j => i < j \/ j < i
        OBVIOUS
      <3> QED BY <2>6, <3>1
    <2> QED BY <2>5, <2>7 DEF IdsAccounted, uses
  <1> QED BY <1>1, <1>2, <1>3, PTL DEF Spec

\* "sotred packets mean inflight packets": every packet get_stored_packets() returns
\* and send_stored() sends again is waiting for its answer, under an identifier that is
\* in use, across every number of network connections.
THEOREM StoredAlwaysInFlight == CarefulUse /\ Spec => []StoredIsInFlight
  <1>0. SUFFICES ASSUME CarefulUse PROVE Spec => []StoredIsInFlight
    OBVIOUS
  <1>1. Init => Careful
    BY <1>0, InitCareful
  <1>2. Careful /\ [Next]_vars => Careful'
    BY <1>0, NextCareful
  <1>3. Careful => StoredIsInFlight
    <2> SUFFICES ASSUME Careful PROVE StoredIsInFlight
      OBVIOUS
    <2>1. /\ Uses(con.pid_man, held, rec, con.pid_suback, con.pid_unsuback,
                  con.pid_puback, con.pid_pubrec, con.pid_pubcomp)
          /\ WaitingFor(con.store, con.pid_puback, con.pid_pubrec, con.pid_pubcomp)
      BY DEF Careful, IdsInv
    <2>2. ASSUME NEW i \in DOMAIN con.store
          PROVE  /\ <<ResponseTo(con.store[i]), con.store[i].pid>> \in AwaitedAnswers(con)
                 /\ con.store[i].pid \in con.pid_man
      <3>1. ResponseTo(con.store[i]) \in {"puback", "pubrec", "pubcomp"}
        BY DEF ResponseTo
      <3> QED BY <2>1, <3>1 DEF WaitingFor, Uses, AwaitedAnswers
    <2> QED BY <2>2, Zenon DEF StoredIsInFlight, StoredAnswers
  <1> QED BY <1>1, <1>2, <1>3, PTL DEF Spec

\* The exchanges are finitely many.
LEMMA Exchanges ==
  ASSUME NEW s \in ConnectionType, NEW r \in SUBSET PacketIds
  PROVE  IsFiniteSet(InFlight(s, r)) /\ Cardinality(InFlight(s, r)) \in Nat
  <1>1. InFlight(s, r) \in SUBSET PacketIds
    BY DEF InFlight, ConnectionType
  <1>2. IsFiniteSet(PacketIds)
    BY Bounds, FS_Interval DEF PacketIds
  <1> QED BY <1>1, <1>2, FS_Subset, FS_CardinalityType

\* A step inside a network connection keeps the count right.
LEMMA TalliesCount ==
  ASSUME TypeInv, CountIsInFlight, Tallies(con, rec, con', rec'), resumed' = resumed
  PROVE  CountIsInFlight'
  <1> DEFINE n == ReceiveMaximumMax + 1
             F == InFlight(con, rec)
             a == Cardinality(F) - resumed
  <1>1. /\ n \in Nat \ {0} /\ con \in ConnectionType /\ rec \in SUBSET PacketIds
        /\ resumed \in Int
    BY Bounds DEF TypeInv, TypeOK
  <1>2. IsFiniteSet(F) /\ Cardinality(F) \in Nat /\ a \in Int
    BY <1>1, Exchanges
  <1>3. SUFFICES ASSUME con'.status = "connected", con'.publish_send_max # NoMaximum
                 PROVE  con'.publish_send_count = (Cardinality(InFlight(con', rec')) - resumed) % n
    BY DEF CountIsInFlight
  <1>4. con.status = "connected" /\ con.publish_send_max # NoMaximum
    BY <1>3 DEF Tallies
  <1>5. con.publish_send_count = a % n
    BY <1>4 DEF CountIsInFlight
  <1>6. /\ ((a % n) + 1) % n = (a + 1) % n
        /\ ((a % n) - 1) % n = (a - 1) % n
    BY <1>1, <1>2, CountsModulo, Zenon
  <1>7. CASE /\ InFlight(con', rec') = F
             /\ con'.publish_send_count = con.publish_send_count
    BY <1>5, <1>7
  <1>8. ASSUME NEW x, x \notin F, InFlight(con', rec') = F \cup {x},
               con'.publish_send_count = CountedUp(con)
        PROVE  con'.publish_send_count = (Cardinality(InFlight(con', rec')) - resumed) % n
    <2>1. Cardinality(InFlight(con', rec')) = Cardinality(F) + 1
      BY <1>2, <1>8, FS_AddElement
    <2>2. Cardinality(InFlight(con', rec')) - resumed = a + 1
      BY <1>1, <1>2, <2>1
    <2>3. con'.publish_send_count = ((a % n) + 1) % n
      BY <1>4, <1>5, <1>8 DEF CountedUp
    <2> QED BY <1>6, <2>2, <2>3
  <1>9. ASSUME NEW x \in F, InFlight(con', rec') = F \ {x},
               con'.publish_send_count = CountedDown(con)
        PROVE  con'.publish_send_count = (Cardinality(InFlight(con', rec')) - resumed) % n
    <2>1. Cardinality(InFlight(con', rec')) = Cardinality(F) - 1
      BY <1>2, <1>9, FS_RemoveElement
    <2>2. Cardinality(InFlight(con', rec')) - resumed = a - 1
      BY <1>1, <1>2, <2>1
    <2>3. con'.publish_send_count = ((a % n) - 1) % n
      BY <1>4, <1>5, <1>9 DEF CountedDown
    <2> QED BY <1>6, <2>2, <2>3
  <1> QED BY <1>7, <1>8, <1>9 DEF Tallies

\* So does every other step: it leaves the connection not connected, or begins the
\* count of a network connection.
LEMMA StepCount ==
  ASSUME Careful, CarefulUse, CountIsInFlight, [Next]_vars
  PROVE  CountIsInFlight'
  <1>1. /\ TypeInv /\ Sound(con) /\ con \in ConnectionType /\ IdsInv(con, link, held, rec)
        /\ Unlimited(con) /\ (link # "up" => con.status = "disconnected")
    BY DEF Careful, TypeInv, Sound, IdsInv, Phase
  <1>2. ASSUME con'.status # "connected"
        PROVE  CountIsInFlight'
    BY <1>2 DEF CountIsInFlight
  <1>3. ASSUME con'.publish_send_max = con.publish_send_max, con'.status = con.status,
               con'.publish_send_count = con.publish_send_count, SameAwaited(con, con'),
               rec' = rec, resumed' = resumed
        PROVE  CountIsInFlight'
    BY <1>3 DEF CountIsInFlight, InFlight, SameAwaited
  <1>4. ASSUME Quiet(con, con'), rec' = rec, resumed' = resumed
        PROVE  CountIsInFlight'
    BY <1>2, <1>3, <1>4 DEF Quiet, SameAwaited
  <1>5. ASSUME resumed' = Resumed(con', rec')
        PROVE  CountIsInFlight'
    <2>1. con' \in ConnectionType /\ rec' \in SUBSET PacketIds
      BY <1>1, NextSound DEF TypeInv, TypeOK
    <2>2. Cardinality(InFlight(con', rec')) \in Nat
      BY <2>1, Exchanges
    <2> DEFINE c == con'.publish_send_count
               n == ReceiveMaximumMax + 1
    <2>3. c \in 0 .. n - 1 /\ n \in Nat \ {0}
      BY <2>1, Bounds DEF ConnectionType
    <2>4. Cardinality(InFlight(con', rec')) - resumed' = c
      BY <1>5, <2>2, <2>3 DEF Resumed
    <2> HIDE DEF c, n
    <2>5. c \in Int
      BY <2>3
    <2>6. c % n = c
      BY <2>3, <2>5, CountsModulo
    <2> QED BY <2>4, <2>6 DEF CountIsInFlight, c, n
  <1>6. CASE UNCHANGED vars
    BY <1>3, <1>6 DEF vars, SameAwaited
  <1>7. CASE LinkUp
    <2>1. CASE IsClient
      BY <1>1, <1>2, <1>7, <2>1 DEF LinkUp
    <2>2. CASE ~ IsClient
      BY <1>2, <1>7, <2>2, Zenon DEF LinkUp, NewConnection
    <2> QED BY <2>1, <2>2
  <1>8. CASE LinkDown
    BY <1>1, <1>2, <1>8, ClosedFields DEF LinkDown
  <1>9. CASE Acquire \/ Register_ \/ Release
    <2>1. PICK S : con' = [con EXCEPT !.pid_man = S]
      BY <1>9 DEF Acquire, Register_, Release, AcquireUniquePacketId, RegisterPacketId,
                  ReleasePacketId, ReleaseIds
    <2>2. /\ con'.publish_send_max = con.publish_send_max /\ con'.status = con.status
          /\ con'.publish_send_count = con.publish_send_count /\ SameAwaited(con, con')
      BY <1>1, <2>1 DEF ConnectionType, SameAwaited
    <2>3. rec' = rec /\ resumed' = resumed
      BY <1>9 DEF Acquire, Register_, Release
    <2> QED BY <1>3, <2>2, <2>3
  <1>10. CASE Restore
    <2>1. con'.status = con.status /\ con.status = "connecting"
      BY <1>1, <1>10 DEF Restore, RestorePackets, ConnectionType
    <2> QED BY <1>2, <2>1
  <1>11. CASE \/ SendAnswer \/ SendPlain \/ Configure \/ RestoreHandled \/ ReceiveBad
              \/ Tick \/ \E kind \in Timers : TimerFires(kind)
    <2>1. Quiet(con, con') /\ UNCHANGED <<link, held, rec, resumed>>
      BY <1>1, <1>11, QuietCalls
    <2> QED BY <1>4, <2>1
  <1>12. CASE SendConnect
    <2>1. PICK p \in Connects : Send(p)
      BY <1>12 DEF SendConnect
    <2>2. p \in ConnectPackets
      BY UseAssumption
    <2>3. IF Sendable(con, p) THEN Quiet(ConnectSent(con, p), con') ELSE con' = con
      BY <1>1, <2>1, <2>2, ConnectSentEffect
    <2>4. ConnectSent(con, p).status = "connecting" /\ con.status = "disconnected"
      BY <1>1, <1>12, <2>2, ConnectSentFields, Zenon DEF SendConnect
    <2> QED BY <1>2, <2>3, <2>4 DEF Quiet
  <1>13. CASE SendConnack
    BY <1>5, <1>13 DEF SendConnack
  <1>14. CASE ReceiveConnack
    <2>1. CASE con.status = "connecting"
      BY <1>5, <1>14, <2>1 DEF ReceiveConnack
    <2>2. CASE con.status # "connecting"
      <3>1. PICK p \in UsedConnacks :
              Recv(p) /\ rec' = IF Handled(p) /\ p.ok /\ ~ p.sp THEN {} ELSE rec
        BY <1>14 DEF ReceiveConnack
      <3>2. p \in Packet /\ p.type = "connack"
        BY <3>1, UseAssumption, UsedPackets DEF UsedConnacks
      <3>3. ~ Handled(p) /\ ~ RecvHandled(p)
        BY <2>2, <3>2 DEF Handled, RecvHandled, ProtocolSatisfied
      <3>4. Quiet(con, con')
        BY <1>1, <3>1, <3>2, <3>3, QuietRecv
      <3> QED BY <1>4, <1>14, <2>2, <3>1, <3>3, <3>4 DEF ReceiveConnack
    <2> QED BY <2>1, <2>2
  <1>15. CASE Publish
    <2>1. Tallies(con, rec, con', rec')
      BY <1>1, <1>15, PublishIds, Zenon
    <2>2. resumed' = resumed
      BY <1>15, PublishCalls
    <2> QED BY <1>1, <2>1, <2>2, TalliesCount
  <1>16. CASE SendWithId \/ SendPubrel
    <2>1. Tallies(con, rec, con', rec') /\ resumed' = resumed
      BY <1>16, HandedIds DEF SendWithId, SendPubrel
    <2> QED BY <1>1, <2>1, TalliesCount
  <1>17. CASE SendError
    BY <1>17 DEF SendError, CarefulUse
  <1>18. CASE ReceiveConnect
    <2>1. PICK p \in Connects : Recv(p)
      BY <1>18 DEF ReceiveConnect
    <2>2. p \in ConnectPackets /\ p \in Packet /\ p.type = "connect" /\ p.mps = NoMaximum
      BY UseAssumption, UsedPackets DEF CarefulUse, NoSizeLimits, ConnectPackets
    <2>3. con.status = "disconnected"
      BY <1>1, <1>18 DEF ReceiveConnect
    <2>4. CASE RecvHandled(p)
      <3>1. RecvConnect(p)
        BY <2>2, <2>4 DEF RecvHandled
      <3> QED BY <1>1, <1>2, <2>2, <2>3, <3>1, ConnectTakenFields
    <2>5. CASE ~ RecvHandled(p)
      BY <1>1, <1>2, <2>1, <2>2, <2>3, <2>5, QuietRecv DEF Quiet
    <2> QED BY <2>4, <2>5
  <1>19. CASE ReceiveBadConnect
    BY <1>1, <1>2, <1>19, BadConnectFields DEF ReceiveBadConnect
  <1>20. CASE Receive
    <2>1. Tallies(con, rec, con', rec') /\ resumed' = resumed
      BY <1>20, ReceiveIds DEF Receive
    <2> QED BY <1>1, <2>1, TalliesCount
  <1> QED BY <1>6, <1>7, <1>8, <1>9, <1>10, <1>11, <1>12, <1>13, <1>14, <1>15, <1>16, <1>17,
             <1>18, <1>19, <1>20 DEF Next

\* publish_send_count_, which the peer's Receive Maximum is compared with, is the number
\* of exchanges begun on the network connection and not completed, less the continued
\* ones completed on it, as an unsigned counter has it: no answer is counted twice or
\* missed, in whatever order acknowledgements come.
THEOREM CountAlwaysInFlight == CarefulUse /\ Spec => []CountIsInFlight
  <1>0. SUFFICES ASSUME CarefulUse PROVE Spec => []CountIsInFlight
    OBVIOUS
  <1> DEFINE Inv == Careful /\ CountIsInFlight
  <1>1. Init => Inv
    <2>1. Init => con.status # "connected"
      <3>1. \A role, ver : NewConnection(role, ver).status = "disconnected"
        BY DEF NewConnection
      <3> QED BY <3>1 DEF Init
    <2> QED BY <1>0, <2>1, InitCareful DEF CountIsInFlight
  <1>2. Inv /\ [Next]_vars => Inv'
    BY <1>0, NextCareful, StepCount
  <1>3. Inv => CountIsInFlight
    OBVIOUS
  <1> QED BY <1>1, <1>2, <1>3, PTL DEF Spec
=============================================================================
