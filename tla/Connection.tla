----------------------------- MODULE Connection -----------------------------
(***************************************************************************)
(* protocol/impl/connection_impl.{hpp,ipp} and connection_send.ipp: the    *)
(* MQTT connection, a state machine without I/O.  Its state is one record  *)
(* whose fields are the members of basic_connection_impl; it is changed by *)
(* the calls send(), recv(), notify_timer_fired(), notify_closed(), the    *)
(* packet identifier functions and the setters, each of which is an action *)
(* of this module.  What a call does outside the object is recorded in     *)
(* three more fields: sent holds the packets passed to on_send(), received *)
(* those passed to on_receive(), closed says that on_close() was called.   *)
(* on_error() and on_packet_id_release() change nothing here.              *)
(***************************************************************************)
EXTENDS PacketStore, TopicAlias

CONSTANT Observed  \* the packet types whose passing is recorded in sent, received

\* PUBLISH and PUBREL, the packets of the store, are recorded together.
ASSUME ConnectionAssumption == "publish" \in Observed <=> "pubrel" \in Observed

VARIABLE con

Roles == {"client", "server", "any"}
Statuses == {"disconnected", "connecting", "connected"}
Timers == {"pingreq_send", "pingreq_recv", "pingresp_recv"}
Options == {"offline_publish", "auto_pub_response", "auto_ping_response",
            "auto_map_topic_alias_send", "auto_replace_topic_alias_send"}

\* A connection as its constructor leaves it.
NewConnection(role, ver) ==
  [role |-> role, protocol_version |-> ver, is_client |-> TRUE,
   status |-> "disconnected", need_store |-> FALSE, store |-> <<>>,
   pid_man |-> {}, pid_suback |-> {}, pid_unsuback |-> {},
   pid_puback |-> {}, pid_pubrec |-> {}, pid_pubcomp |-> {},
   qos2_publish_handled |-> {}, qos2_publish_processing |-> {},
   publish_send_max |-> NoMaximum, publish_recv_max |-> NoMaximum,
   publish_send_count |-> 0, publish_recv |-> {},
   maximum_packet_size_send |-> NoLimit, maximum_packet_size_recv |-> NoLimit,
   topic_alias_send |-> AliasSend(0), topic_alias_recv |-> AliasRecv(0),
   pingreq_send_interval |-> 0, pingreq_recv_timeout |-> 0, pingresp_recv_timeout |-> 0,
   timer |-> [k \in Timers |-> 0], option |-> {},
   sent |-> <<>>, received |-> <<>>, closed |-> FALSE]

ConnectionType ==
  [role : Roles, protocol_version : Versions \cup {"undetermined"}, is_client : BOOLEAN,
   status : Statuses, need_store : BOOLEAN, store : Seq(StorePackets),
   pid_man : SUBSET PacketIds, pid_suback : SUBSET PacketIds,
   pid_unsuback : SUBSET PacketIds, pid_puback : SUBSET PacketIds,
   pid_pubrec : SUBSET PacketIds, pid_pubcomp : SUBSET PacketIds,
   qos2_publish_handled : SUBSET PacketIds, qos2_publish_processing : SUBSET PacketIds,
   publish_send_max : 0 .. ReceiveMaximumMax, publish_recv_max : 0 .. ReceiveMaximumMax,
   publish_send_count : 0 .. ReceiveMaximumMax, publish_recv : SUBSET PacketIds,
   maximum_packet_size_send : Nat, maximum_packet_size_recv : Nat,
   topic_alias_send : AliasSendType, topic_alias_recv : AliasRecvType,
   pingreq_send_interval : Nat, pingreq_recv_timeout : Nat, pingresp_recv_timeout : Nat,
   timer : [Timers -> Nat], option : SUBSET Options,
   sent : Seq(Packet), received : Seq(Packet), closed : BOOLEAN]
-----------------------------------------------------------------------------
(***************************************************************************)
(* Steps that several calls have in common                                 *)
(***************************************************************************)
OnSend(s, p) == IF p.type \in Observed THEN [s EXCEPT !.sent = Append(@, p)] ELSE s
OnReceive(s, p) == IF p.type \in Observed THEN [s EXCEPT !.received = Append(@, p)] ELSE s
OnClose(s) == [s EXCEPT !.closed = TRUE]

\* pid_man_.release_id() and on_packet_id_release().
ReleaseIds(s, pids) == [s EXCEPT !.pid_man = @ \ pids]

\* on_timer_op(): timer[kind] is the time left, 0 when the timer is not set.
CancelTimers(s) == [s EXCEPT !.timer = [k \in Timers |-> 0]]
ResetTimer(s, kind, duration) == [s EXCEPT !.timer[kind] = duration]
CancelTimer(s, kind) == ResetTimer(s, kind, 0)

Initialize(s, is_client) ==
  [s EXCEPT !.publish_send_max = NoMaximum, !.publish_recv_max = NoMaximum,
            !.publish_send_count = 0, !.publish_recv = {},
            !.topic_alias_send = AliasSend(0), !.topic_alias_recv = AliasRecv(0),
            !.qos2_publish_processing = {}, !.need_store = FALSE,
            !.pid_suback = {}, !.pid_unsuback = {}, !.is_client = is_client]

ForgetAwaited(s) == [s EXCEPT !.pid_puback = {}, !.pid_pubrec = {}, !.pid_pubcomp = {}]
ForgetSession(s) == ForgetAwaited([s EXCEPT !.pid_man = {}, !.store = <<>>])

\* The packets send_stored() finds too large for the peer.
Oversize(s) == {i \in DOMAIN s.store : Size(s.store[i]) > s.maximum_packet_size_send}

\* Mutant of SendStored: what was sent again is no longer kept.
SendStoredOnce(s) ==
  [ReleaseIds(s, {s.store[i].pid : i \in Oversize(s)}) EXCEPT
     !.store = <<>>, !.sent = IF "publish" \in Observed THEN @ \o s.store ELSE @]

SendStored(s) ==
  LET kept == Pick(s.store, DOMAIN s.store \ Oversize(s))
  IN [ReleaseIds(s, {s.store[i].pid : i \in Oversize(s)})
        EXCEPT !.store = kept,
               !.sent = IF "publish" \in Observed THEN @ \o kept ELSE @]

SetPingreqSendInterval(s, duration) ==
  ResetTimer([s EXCEPT !.pingreq_send_interval = duration], "pingreq_send", duration)

\* pingreq_recv_op of process_recv_packet().
PingreqRecvOp(s) ==
  IF s.pingreq_recv_timeout = 0 THEN s
  ELSE IF s.status = "disconnected" THEN CancelTimer(s, "pingreq_recv")
  ELSE ResetTimer(s, "pingreq_recv", s.pingreq_recv_timeout)

\* Mutant of CountDown: a signed count.
CountDownSigned(s) ==
  IF s.publish_send_max = NoMaximum THEN s
  ELSE [s EXCEPT !.publish_send_count = @ - 1]

\* --publish_send_count_, an unsigned integer.
CountDown(s) ==
  IF s.publish_send_max = NoMaximum THEN s
  ELSE [s EXCEPT !.publish_send_count = (@ - 1) % (ReceiveMaximumMax + 1)]

\* A peer's Receive Maximum, Topic Alias Maximum and Maximum Packet Size, from
\* a CONNECT or CONNACK packet received; an absent property changes nothing.
LimitsForSend(s, p) ==
  [s EXCEPT !.topic_alias_send = IF p.tam = 0 THEN @ ELSE AliasSend(p.tam),
            !.publish_send_max = IF p.rmax = NoMaximum THEN @ ELSE p.rmax,
            !.maximum_packet_size_send = IF p.mps = NoMaximum THEN @ ELSE p.mps]

\* The same for the packet sent.
LimitsForRecv(s, p) ==
  [s EXCEPT !.topic_alias_recv = IF p.tam = 0 THEN @ ELSE AliasRecv(p.tam),
            !.publish_recv_max = IF p.rmax = NoMaximum THEN @ ELSE p.rmax,
            !.maximum_packet_size_recv = IF p.mps = NoMaximum THEN @ ELSE p.mps]
-----------------------------------------------------------------------------
(***************************************************************************)
(* send()                                                                  *)
(***************************************************************************)
\* The checks of process_send_packet() that only call on_error().
Sendable(s, p) ==
  /\ \/ s.role # "server" /\ ClientSendable(p.type)
     \/ s.role # "client" /\ ServerSendable(s.protocol_version, p.type)
  /\ s.protocol_version \in Versions
  /\ CASE p.type = "connect" -> s.status = "disconnected"
       [] p.type = "connack" -> s.status = "connecting"
       [] p.type = "auth" -> s.status # "disconnected"
       [] p.type = "publish" -> TRUE
       [] OTHER -> s.status = "connected"

Fits(s, p) == Size(p) <= s.maximum_packet_size_send

\* The end of send(): every packet sent by a client defers the next PINGREQ.
PostProcess(s) ==
  IF s.role # "server" /\ s.is_client /\ s.pingreq_send_interval # 0
       /\ s.status # "disconnected"
  THEN ResetTimer(s, "pingreq_send", s.pingreq_send_interval) ELSE s

ProcessConnect(s, p) ==
  LET i == [Initialize(s, TRUE) EXCEPT
              !.status = "connecting",
              !.pingreq_send_interval = IF @ = 0 THEN p.keep_alive ELSE @,
              !.need_store = IF s.protocol_version = "v5" THEN p.expiry ELSE ~ p.clean]
  IN LimitsForRecv(IF p.clean THEN ForgetSession(i) ELSE i, p)

ProcessConnack(s, p) ==
  IF p.ok THEN LimitsForRecv([s EXCEPT !.status = "connected"], p)
  ELSE CancelTimers([s EXCEPT !.status = "disconnected"])

ProcessPubrel(s, p) ==
  [s EXCEPT !.store = IF s.need_store THEN StoreAdd(@, p) ELSE @,
            !.pid_pubcomp = @ \cup {p.pid}]

\* v5 only: a PUBACK, a refusing PUBREC and a PUBCOMP free a slot of the
\* Receive Maximum; a refusing PUBREC also ends the QoS 2 exchange.
ProcessAnswer(s, p) ==
  LET ends == p.type # "pubrec" \/ ~ p.ok
  IN [s EXCEPT !.publish_recv = IF ends THEN @ \ {p.pid} ELSE @,
               !.qos2_publish_handled = IF p.type = "pubrec" /\ ends THEN @ \ {p.pid} ELSE @]

ProcessDisconnect(s, p) ==
  OnClose(OnSend(CancelTimers([s EXCEPT !.status = "disconnected"]), p))

\* process_send_packet() after its checks, for all packets but PUBLISH.
Process(s, p) ==
  CASE p.type = "connect" -> OnSend(ProcessConnect(s, p), p)
    [] p.type = "connack" -> SendStored(OnSend(ProcessConnack(s, p), p))
    [] p.type = "pubrel" -> OnSend(ProcessPubrel(s, p), p)
    [] p.type \in {"puback", "pubrec", "pubcomp"} /\ s.protocol_version = "v5" ->
         OnSend(ProcessAnswer(s, p), p)
    [] p.type = "subscribe" -> OnSend([s EXCEPT !.pid_suback = @ \cup {p.pid}], p)
    [] p.type = "unsubscribe" -> OnSend([s EXCEPT !.pid_unsuback = @ \cup {p.pid}], p)
    [] p.type = "pingreq" /\ s.pingresp_recv_timeout # 0 ->
         ResetTimer(OnSend(s, p), "pingresp_recv", s.pingresp_recv_timeout)
    [] p.type = "disconnect" -> ProcessDisconnect(s, p)
    [] OTHER -> OnSend(s, p)

\* A packet larger than the peer takes gives its packet identifier back.
TooLarge(s, p) == IF OwnPacketId(p) THEN ReleaseIds(s, {p.pid}) ELSE s

SendPacket(s, p) ==
  IF ~ Sendable(s, p) THEN s
  ELSE IF Fits(s, p) THEN PostProcess(Process(s, p))
  ELSE TooLarge(s, p)

\* send() of a packet that is no PUBLISH.
Send(p) == con' = SendPacket(con, p)

SendDisconnect(s) == SendPacket(s, Plain("disconnect"))
-----------------------------------------------------------------------------
\* send() of a PUBLISH packet.
AliasInRange(s, alias) == alias \in 1 .. s.topic_alias_send.max
AliasKnown(s, alias) ==
  AliasInRange(s, alias) /\ FindTopic(s.topic_alias_send, alias) # NoTopic

Storing(s, p) ==
  p.qos > 0 /\ s.need_store /\ (s.status # "disconnected" \/ "offline_publish" \in s.option)

\* Mutant of StoreForm: the alias is left in the packet.
StoreFormKeepsAlias(s, p) ==
  [p EXCEPT !.topic = IF @ = NoTopic THEN FindTopic(s.topic_alias_send, p.alias) ELSE @,
            !.dup = TRUE]

\* The packet put into the store: a topic name and no alias.
StoreForm(s, p) ==
  [p EXCEPT !.topic = IF @ = NoTopic THEN FindTopic(s.topic_alias_send, p.alias) ELSE @,
            !.alias = NoAlias, !.dup = TRUE]

\* The packet handed to on_send(), after the automatic topic alias functions.
AliasForm(s, p) ==
  LET found == FindAlias(s.topic_alias_send, p.topic)
  IN IF \/ p.topic = NoTopic \/ p.alias # NoAlias
        \/ s.status # "connected" \/ s.topic_alias_send.max = 0
     THEN p
     ELSE IF found # NoAlias /\ ({"auto_map_topic_alias_send",
                                  "auto_replace_topic_alias_send"} \cap s.option # {})
          THEN [p EXCEPT !.topic = NoTopic, !.alias = found]
          ELSE IF "auto_map_topic_alias_send" \in s.option
               THEN [p EXCEPT !.alias = GetLruAlias(s.topic_alias_send)]
               ELSE p

\* The sending table after a packet has been given its final form.
MapAlias(t, p) ==
  IF p.topic = NoTopic THEN t
  ELSE IF p.alias = NoAlias THEN t ELSE InsertOrUpdate(t, p.topic, p.alias)

\* The outcome of the checks of process_send_packet(), in their order.
PublishVerdict(s, p) ==
  IF ~ Sendable(s, p) THEN "not_sendable"
  ELSE IF ~ Fits(s, p) THEN "too_large"
  ELSE IF s.status # "connected" /\ p.alias # NoAlias THEN "offline_alias"
  ELSE IF p.qos > 0 /\ p.pid \notin s.pid_man THEN "not_allocated"
  ELSE IF Storing(s, p) /\ p.topic = NoTopic
            /\ (~ AliasKnown(s, p.alias) \/ ~ Fits(s, StoreForm(s, p)))
       THEN "not_storable"
  ELSE IF \/ p.topic = NoTopic /\ ~ AliasKnown(s, p.alias)
          \/ p.topic # NoTopic /\ p.alias # NoAlias /\ ~ AliasInRange(s, p.alias)
       THEN "alias_refused"
  ELSE IF p.qos > 0 /\ s.publish_send_max # NoMaximum
            /\ s.publish_send_count = s.publish_send_max
       THEN "receive_maximum_exceeded"
  ELSE IF s.status = "connected" THEN "sent"
  ELSE IF "offline_publish" \in s.option THEN "kept" ELSE "not_connected"

\* find(alias) of the sending table touches the entry.
TouchAlias(s, p) ==
  IF p.topic = NoTopic
  THEN [s EXCEPT !.topic_alias_send = Touch(@, p.alias)] ELSE s

\* The packet is put into the store and its answer awaited.
Record(s, p) ==
  [s EXCEPT !.store = IF Storing(s, p) THEN StoreAdd(@, StoreForm(s, p)) ELSE @,
            !.pid_puback = IF p.qos = 1 THEN @ \cup {p.pid} ELSE @,
            !.pid_pubrec = IF p.qos = 2 THEN @ \cup {p.pid} ELSE @,
            !.qos2_publish_processing = IF p.qos = 2 THEN @ \cup {p.pid} ELSE @]

\* The topic alias is registered.
Alias(s, p) ==
  [TouchAlias(s, p) EXCEPT !.topic_alias_send = MapAlias(@, AliasForm(s, p))]

\* ++publish_send_count_.
CountUp(s, p) ==
  IF p.qos = 0 \/ s.publish_send_max = NoMaximum THEN s
  ELSE [s EXCEPT !.publish_send_count = (@ + 1) % (ReceiveMaximumMax + 1)]

SendPublish(p) ==
  LET verdict == PublishVerdict(con, p)
      recorded == Record(con, p)
      aliased == Alias(recorded, p)
      counted == CountUp(aliased, p)
  IN \/ /\ verdict \in {"not_sendable", "not_allocated"}
        /\ UNCHANGED con
     \/ /\ verdict \in {"too_large", "offline_alias"}
        /\ con' = ReleaseIds(con, {p.pid})
     \/ /\ verdict = "not_storable"
        /\ con' = ReleaseIds(TouchAlias(con, p), {p.pid})
     \/ /\ verdict = "alias_refused"
        /\ con' = ReleaseIds(recorded, {p.pid})
     \/ /\ verdict = "receive_maximum_exceeded"
        /\ con' = ReleaseIds(aliased, {p.pid})
     \/ /\ verdict = "not_connected"
        /\ con' = ReleaseIds(counted, {p.pid})
     \/ /\ verdict = "kept"
        /\ con' = PostProcess(counted)
     \/ /\ verdict = "sent"
        /\ con' = PostProcess(OnSend(counted, AliasForm(con, p)))
-----------------------------------------------------------------------------
(***************************************************************************)
(* recv(): the handler of each packet, run when its status check holds     *)
(***************************************************************************)
IsSet(s, option) == option \in s.option

Received(s, p) == OnReceive(PingreqRecvOp(s), p)

\* A packet that answers nothing: on_close() or DISCONNECT, and on_error().
ProtocolError(s) == IF s.protocol_version = "v5" THEN SendDisconnect(s) ELSE OnClose(s)

RecvConnect(p) ==
  LET i == [Initialize(con, FALSE) EXCEPT
              !.protocol_version = p.ver,
              !.status = "connecting",
              !.pingreq_recv_timeout = IF p.keep_alive = 0 THEN @
                                         ELSE (p.keep_alive * 3) \div 2,
              !.need_store = IF p.ver = "v5" THEN p.expiry ELSE ~ p.clean]
      s == IF p.clean THEN ForgetAwaited(i) ELSE i
  IN con' = Received(LimitsForSend(s, p), p)

\* The Server Keep Alive property of a CONNACK replaces the interval.
ServerKeepAlive(s, p) ==
  IF s.role = "server" \/ p.server_keep_alive = NoKeepAlive THEN s
  ELSE SetPingreqSendInterval(s, p.server_keep_alive)

RecvConnack(p) ==
  LET s == ServerKeepAlive(LimitsForSend([con EXCEPT !.status = "connected"], p), p)
  IN \/ ~ p.ok /\ con' = OnReceive(con, p)
     \/ p.ok /\ p.sp /\ con' = OnReceive(SendStored(s), p)
     \/ p.ok /\ ~ p.sp /\ con' = OnReceive(ForgetSession(s), p)

RecvMaximumExceeded(s, p) ==
  /\ p.qos > 0 /\ s.publish_recv_max # NoMaximum
  /\ Cardinality(s.publish_recv) = s.publish_recv_max

\* The topic name of a PUBLISH received, empty when its alias is not valid.
RecvTopic(s, p) ==
  IF p.alias = NoAlias THEN p.topic
  ELSE IF p.alias > s.topic_alias_recv.max THEN NoTopic
  ELSE IF p.topic = NoTopic THEN s.topic_alias_recv.topic[p.alias] ELSE p.topic

RecvPublish(p) ==
  LET handled == p.qos = 2 /\ p.pid \in con.qos2_publish_handled
      topic == RecvTopic(con, p)
      respond == \/ p.qos > 0 /\ IsSet(con, "auto_pub_response")
                 \/ handled
      taken == [con EXCEPT
                 !.publish_recv = IF p.qos > 0 /\ con.protocol_version = "v5"
                                  THEN @ \cup {p.pid} ELSE @,
                 !.qos2_publish_handled = IF p.qos = 2 THEN @ \cup {p.pid} ELSE @]
      mapped == IF p.topic # NoTopic /\ p.alias # NoAlias
                THEN [taken EXCEPT !.topic_alias_recv = Register(@, p.topic, p.alias)]
                ELSE taken
      answer == Answer(IF p.qos = 1 THEN "puback" ELSE "pubrec", p.pid, TRUE)
      answered == PingreqRecvOp(IF respond THEN SendPacket(mapped, answer) ELSE mapped)
  IN \/ /\ RecvMaximumExceeded(con, p)
        /\ con' = SendDisconnect(con)
     \/ /\ ~ RecvMaximumExceeded(con, p) /\ topic = NoTopic
        /\ con' = SendDisconnect(taken)
     \/ /\ ~ RecvMaximumExceeded(con, p) /\ topic # NoTopic
        /\ con' = IF handled THEN answered
                  ELSE OnReceive(answered, [p EXCEPT !.topic = topic])

RecvPuback(p) ==
  LET s == [con EXCEPT !.pid_puback = @ \ {p.pid}, !.store = StoreErase(@, "puback", p.pid)]
  IN \/ /\ p.pid \in con.pid_puback
        /\ con' = Received(CountDown(ReleaseIds(s, {p.pid})), p)
     \/ /\ p.pid \notin con.pid_puback
        /\ con' = ProtocolError(con)

\* Mutant of PublishRefused: the slot of the Receive Maximum is not freed.
PublishRefusedKeepsSlot(s, pid) ==
  [ReleaseIds(s, {pid}) EXCEPT !.qos2_publish_processing = @ \ {pid}]

\* A PUBREC with an error ends the exchange.
PublishRefused(s, pid) ==
  CountDown([ReleaseIds(s, {pid}) EXCEPT !.qos2_publish_processing = @ \ {pid}])

RecvPubrec(p) ==
  LET s == [con EXCEPT !.pid_pubrec = @ \ {p.pid}, !.store = StoreErase(@, "pubrec", p.pid)]
  IN \/ /\ p.pid \in con.pid_pubrec /\ ~ p.ok
        /\ con' = Received(PublishRefused(s, p.pid), p)
     \/ /\ p.pid \in con.pid_pubrec /\ p.ok
        /\ con' = Received(IF IsSet(con, "auto_pub_response")
                           THEN SendPacket(s, WithId("pubrel", p.pid)) ELSE s, p)
     \/ /\ p.pid \notin con.pid_pubrec
        /\ con' = ProtocolError(con)

RecvPubrel(p) ==
  LET s == [con EXCEPT !.qos2_publish_handled = @ \ {p.pid}]
  IN con' = Received(IF IsSet(con, "auto_pub_response")
                     THEN SendPacket(s, WithId("pubcomp", p.pid)) ELSE s, p)

RecvPubcomp(p) ==
  LET s == [con EXCEPT !.pid_pubcomp = @ \ {p.pid}, !.store = StoreErase(@, "pubcomp", p.pid),
                       !.qos2_publish_processing = @ \ {p.pid}]
  IN \/ /\ p.pid \in con.pid_pubcomp
        /\ con' = Received(CountDown(ReleaseIds(s, {p.pid})), p)
     \/ /\ p.pid \notin con.pid_pubcomp
        /\ con' = ProtocolError(con)

RecvSuback(p) ==
  \/ /\ p.pid \in con.pid_suback
     /\ con' = Received(ReleaseIds([con EXCEPT !.pid_suback = @ \ {p.pid}], {p.pid}), p)
  \/ /\ p.pid \notin con.pid_suback
     /\ con' = ProtocolError(con)

RecvUnsuback(p) ==
  \/ /\ p.pid \in con.pid_unsuback
     /\ con' = Received(ReleaseIds([con EXCEPT !.pid_unsuback = @ \ {p.pid}], {p.pid}), p)
  \/ /\ p.pid \notin con.pid_unsuback
     /\ con' = ProtocolError(con)

RecvPingreq(p) ==
  con' = Received(IF con.role # "client" /\ IsSet(con, "auto_ping_response")
                  THEN SendPacket(con, Plain("pingresp")) ELSE con, p)

\* Mutant of RecvPingresp: every timer is cancelled.
RecvPingrespCancelsAll(p) == con' = OnReceive(CancelTimers(con), p)

RecvPingresp(p) ==
  con' = OnReceive(CancelTimer(con, "pingresp_recv"), p)

\* Mutant of RecvDisconnect: the timers are not cancelled.
RecvDisconnectKeepsTimers(p) ==
  con' = OnReceive([con EXCEPT !.status = "disconnected"], p)

RecvDisconnect(p) ==
  con' = OnReceive(CancelTimers([con EXCEPT !.status = "disconnected"]), p)

\* SUBSCRIBE, UNSUBSCRIBE and AUTH.
RecvOther(p) == con' = Received(con, p)
-----------------------------------------------------------------------------
\* protocol_satisfied of process_recv_packet().
ProtocolSatisfied(s, p) ==
  CASE p.type = "connect" -> s.status = "disconnected"
    [] p.type = "connack" -> s.status = "connecting"
    [] p.type = "auth" -> s.status # "disconnected"
    [] OTHER -> s.status = "connected"

RecvTooLarge(p) ==
  /\ Size(p) > con.maximum_packet_size_recv
  /\ con' = SendDisconnect(con)

\* The packet is dropped with on_error().
RecvOutOfPlace(p) ==
  /\ Size(p) <= con.maximum_packet_size_recv /\ ~ ProtocolSatisfied(con, p)
  /\ UNCHANGED con

RecvHandled(p) ==
  /\ Size(p) <= con.maximum_packet_size_recv /\ ProtocolSatisfied(con, p)
  /\ \/ p.type = "connect" /\ RecvConnect(p)
     \/ p.type = "connack" /\ RecvConnack(p)
     \/ p.type = "publish" /\ RecvPublish(p)
     \/ p.type = "puback" /\ RecvPuback(p)
     \/ p.type = "pubrec" /\ RecvPubrec(p)
     \/ p.type = "pubrel" /\ RecvPubrel(p)
     \/ p.type = "pubcomp" /\ RecvPubcomp(p)
     \/ p.type = "suback" /\ RecvSuback(p)
     \/ p.type = "unsuback" /\ RecvUnsuback(p)
     \/ p.type = "pingreq" /\ RecvPingreq(p)
     \/ p.type = "pingresp" /\ RecvPingresp(p)
     \/ p.type = "disconnect" /\ RecvDisconnect(p)
     \/ p.type \in {"subscribe", "unsubscribe", "auth"} /\ RecvOther(p)

\* recv() of a well-formed packet of the connection's protocol version.
Recv(p) == RecvTooLarge(p) \/ RecvOutOfPlace(p) \/ RecvHandled(p)

\* recv() of bytes that are no packet: recv_packet_builder reports an error.
RecvUnframed ==
  con' = OnClose(CancelTimers([con EXCEPT !.status = "disconnected"]))

\* recv() of a packet buffer_to_basic_packet_variant() rejects.  A CONNECT, and
\* only that, is rejected with a connect reason code, which is answered.
RefusingConnack ==
  [type |-> "connack", ok |-> FALSE, sp |-> FALSE, tam |-> 0, rmax |-> NoMaximum,
   mps |-> NoMaximum, server_keep_alive |-> NoKeepAlive]

RecvMalformed(is_connect) ==
  \/ /\ is_connect /\ con.status = "disconnected"
     /\ con' = SendPacket([con EXCEPT !.status = "connecting"], RefusingConnack)
  \/ /\ ~ (is_connect /\ con.status = "disconnected")
     /\ con' = IF con.status = "connected" /\ con.protocol_version = "v5"
               THEN SendDisconnect(con) ELSE OnClose(con)
-----------------------------------------------------------------------------
(***************************************************************************)
(* The other calls                                                         *)
(***************************************************************************)
\* Mutant of NotifyTimerFired: v3.1.1 is ended like v5, with a DISCONNECT, which
\* a server of v3.1.1 cannot send.
NotifyTimerFiredDisconnects(kind) ==
  LET s == CancelTimer(con, kind)
  IN con' = IF s.status # "connected" THEN s
            ELSE IF kind = "pingreq_send" THEN SendPacket(s, Plain("pingreq"))
            ELSE SendDisconnect(s)

NotifyTimerFired(kind) ==
  LET s == CancelTimer(con, kind)
  IN con' = IF kind = "pingreq_send"
            THEN IF s.status = "connected" THEN SendPacket(s, Plain("pingreq")) ELSE s
            ELSE IF s.protocol_version = "v3_1_1" THEN OnClose(s)
            ELSE IF s.status = "connected" THEN SendDisconnect(s) ELSE s

\* Mutant of ReleaseSubscriptions: the identifiers are forgotten, not released.
ForgetSubscriptions(s) == [s EXCEPT !.pid_suback = {}, !.pid_unsuback = {}]

\* SUBSCRIBE and UNSUBSCRIBE are not continued on another network connection.
ReleaseSubscriptions(s) ==
  [ReleaseIds(s, s.pid_suback \cup s.pid_unsuback) EXCEPT
     !.pid_suback = {}, !.pid_unsuback = {}]

\* Nor are PUBLISH exchanges, unless the session is kept.
ReleaseExchanges(s) ==
  IF s.need_store THEN s
  ELSE [ForgetAwaited(ReleaseIds(s, s.pid_puback \cup s.pid_pubrec \cup s.pid_pubcomp))
          EXCEPT !.qos2_publish_processing = {}, !.qos2_publish_handled = {}]

NotifyClosed ==
  LET s == [con EXCEPT !.maximum_packet_size_send = NoLimit,
                       !.maximum_packet_size_recv = NoLimit,
                       !.status = "disconnected",
                       !.topic_alias_send = AliasSend(0),
                       !.topic_alias_recv = AliasRecv(0),
                       !.closed = FALSE]
  IN con' = CancelTimers(ReleaseExchanges(ReleaseSubscriptions(s)))

\* A value allocator gives the lowest vacant identifier: see module IdPool.
Vacant == PacketIds \ con.pid_man

AcquireUniquePacketId(pid) ==
  /\ pid \in Vacant /\ \A q \in Vacant : pid <= q
  /\ con' = [con EXCEPT !.pid_man = @ \cup {pid}]

RegisterPacketId(pid) ==
  /\ pid \in Vacant
  /\ con' = [con EXCEPT !.pid_man = @ \cup {pid}]

ReleasePacketId(pid) == con' = ReleaseIds(con, {pid})

\* The identifiers of the packets a response answers.
IdsAnsweredBy(pvs, response) ==
  {pvs[i].pid : i \in {j \in DOMAIN pvs : ResponseTo(pvs[j]) = response}}

\* restore_packets(): a packet whose identifier is taken, be it by a packet before
\* it, is not stored, although its answer is awaited.
RestorePackets(pvs) ==
  LET new == {i \in DOMAIN pvs :
                /\ pvs[i].pid \notin con.pid_man
                /\ \A j \in 1 .. i - 1 : pvs[j].pid # pvs[i].pid
                /\ StoreFind(con.store, ResponseTo(pvs[i]), pvs[i].pid) = {}}
  IN con' = [con EXCEPT
       !.pid_man = @ \cup {pvs[i].pid : i \in DOMAIN pvs},
       !.pid_puback = @ \cup IdsAnsweredBy(pvs, "puback"),
       !.pid_pubrec = @ \cup IdsAnsweredBy(pvs, "pubrec"),
       !.pid_pubcomp = @ \cup IdsAnsweredBy(pvs, "pubcomp"),
       !.store = @ \o Pick(pvs, new)]

RestoreQos2PublishHandledPids(pids) == con' = [con EXCEPT !.qos2_publish_handled = pids]

SetOption(option, val) ==
  con' = [con EXCEPT !.option = IF val THEN @ \cup {option} ELSE @ \ {option}]

SetPingreqInterval(duration) == con' = SetPingreqSendInterval(con, duration)
SetPingrespRecvTimeout(duration) == con' = [con EXCEPT !.pingresp_recv_timeout = duration]
=============================================================================
