----------------------------- MODULE PacketsV3 ------------------------------
(***************************************************************************)
(* The packets of MQTT v3.1.1: what their constructors store, the buffers  *)
(* they are written as, and how they are decoded.  A packet is the record  *)
(* of the members of its class; a constructor answers with the packet and  *)
(* the error it throws.  Optional arguments are sequences of at most one.  *)
(***************************************************************************)
EXTENDS Properties

CONSTANT PacketIdBytes      \* 2, or 4 for the extension of the broker cluster

V3(type) == [type |-> type, ver |-> "v3_1_1"]

\* "MQTT" and its length, followed by the protocol level.
ProtocolName(level) == <<0, 4, 77, 81, 84, 84, level>>

(***************************************************************************)
(* Packets kept as one array of bytes.                                     *)
(***************************************************************************)
Whole(type, bytes) ==
  Made(V3(type) @@ [all |-> <<make_fixed_header(type, ReservedBits(type))>> \o bytes], None)

\* A fixed header, a length byte, and exactly that many bytes.
WholeDecode(buf, type, len) ==
  LET hd == Check(Number(FixedHeader(buf, V3(type)), "len", 1),
                  LAMBDA r : r.v.len = len /\ Len(r.buf) = len, Malformed)
  IN [hd EXCEPT !.v = V3(type) @@ [all |-> buf]]

v3_puback(pid) == Whole("puback", <<PacketIdBytes>> \o endian_store(pid, PacketIdBytes))
v3_pubrec(pid) == Whole("pubrec", <<PacketIdBytes>> \o endian_store(pid, PacketIdBytes))
v3_pubrel(pid) == Whole("pubrel", <<PacketIdBytes>> \o endian_store(pid, PacketIdBytes))
v3_pubcomp(pid) == Whole("pubcomp", <<PacketIdBytes>> \o endian_store(pid, PacketIdBytes))
v3_unsuback(pid) == Whole("unsuback", <<PacketIdBytes>> \o endian_store(pid, PacketIdBytes))
v3_puback_decode(buf) == WholeDecode(buf, "puback", PacketIdBytes)
v3_pubrec_decode(buf) == WholeDecode(buf, "pubrec", PacketIdBytes)
v3_pubrel_decode(buf) == WholeDecode(buf, "pubrel", PacketIdBytes)
v3_pubcomp_decode(buf) == WholeDecode(buf, "pubcomp", PacketIdBytes)
v3_unsuback_decode(buf) == WholeDecode(buf, "unsuback", PacketIdBytes)

v3_connack(sp, code) == Whole("connack", <<2, If(sp, 1), code>>)
v3_connack_decode(buf) ==
  Check(WholeDecode(buf, "connack", 2),
        LAMBDA r : r.v.all[3] \in {0, 1} /\ r.v.all[4] <= 5, Malformed)

\* The length byte must be 0; what follows it is not looked at.
EmptyDecode(buf, v) ==
  LET r == Check(Number(FixedHeader(buf, v), "len", 1), LAMBDA q : q.v.len = 0, Malformed)
  IN [r EXCEPT !.v = v @@ [all |-> SubSeq(buf, 1, 2)]]

v3_pingreq == Whole("pingreq", <<0>>)
v3_pingresp == Whole("pingresp", <<0>>)
v3_disconnect == Whole("disconnect", <<0>>)
v3_pingreq_decode(buf) == EmptyDecode(buf, V3("pingreq"))
v3_pingresp_decode(buf) == EmptyDecode(buf, V3("pingresp"))
v3_disconnect_decode(buf) == EmptyDecode(buf, V3("disconnect"))

(***************************************************************************)
(* CONNECT.  w is an optional will [topic, message, qos, retain].          *)
(***************************************************************************)
WillFlag(o) == Bit(o.connect_flags, 4)
WillQos(o) == (o.connect_flags \div 8) % 4
WillRetain(o) == Bit(o.connect_flags, 32)
PasswordFlag(o) == Bit(o.connect_flags, 64)
UserNameFlag(o) == Bit(o.connect_flags, 128)

NoWill == [topic |-> <<>>, message |-> <<>>, qos |-> 0, retain |-> FALSE, props |-> <<>>]

ConnectFlags(clean, w, user_name, password) ==
  LET will == ValueOr(w, NoWill)
  IN If(clean, 2) + If(w # <<>>, 4) + 8 * will.qos + If(will.retain, 32)
     + If(password # <<>>, 64) + If(user_name # <<>>, 128)

NoConnectV3 ==
  V3("connect") @@ [will_topic |-> <<>>, will_message |-> <<>>, user_name |-> <<>>,
                    password |-> <<>>]

v3_connect(clean, keep_alive, client_id, w, user_name, password) ==
  LET will == ValueOr(w, NoWill)
      user == ValueOr(user_name, <<>>)
      pass == ValueOr(password, <<>>)
  IN Made([fixed_header |-> make_fixed_header("connect", 0),
           protocol_name_and_level |-> ProtocolName(4),
           connect_flags |-> ConnectFlags(clean, w, user_name, password),
           keep_alive |-> keep_alive, client_id |-> client_id,
           will_topic |-> will.topic, will_message |-> will.message,
           user_name |-> user, password |-> pass,
           remaining_length |->
             2 + 4 + 1 + 1 + 2 + 2 + Len(client_id)
             + If(user_name # <<>>, 2 + Len(user)) + If(password # <<>>, 2 + Len(pass))
             + If(w # <<>>, 2 + Len(will.topic) + 2 + Len(will.message))] @@ NoConnectV3,
          MalformedIf(\E s \in {client_id, user, will.topic} : ~ utf8string_check(s)))

v3_connect_buffers(o) ==
  HeaderBuffers(o)
  \o <<o.protocol_name_and_level, <<o.connect_flags>>, endian_store(o.keep_alive, 2)>>
  \o Counted(o.client_id)
  \o Optional(WillFlag(o), Counted(o.will_topic) \o Counted(o.will_message))
  \o Optional(UserNameFlag(o), Counted(o.user_name))
  \o Optional(PasswordFlag(o), Counted(o.password))

v3_connect_num(o) ==
  7 + If(WillFlag(o), 4) + If(UserNameFlag(o), 2) + If(PasswordFlag(o), 2)

\* The protocol name and level, the flags and the keep alive.
ConnectHead(r, level) ==
  LET name == Check(insert_advance(r, "protocol_name_and_level", 7),
                    LAMBDA q : q.v.protocol_name_and_level = ProtocolName(level),
                    "unsupported_protocol_version")
      flags == Check(Number(name, "connect_flags", 1),
                     LAMBDA q : ~ Bit(q.v.connect_flags, 1), Malformed)
  IN Number(flags, "keep_alive", 2)

\* User name and password; a password must end the packet.
ConnectTail(r) ==
  LET User(q) == IF UserNameFlag(q.v) THEN Lengthed(q, "user_name", TRUE) ELSE q
      Pass(q) == IF PasswordFlag(q.v)
                 THEN Check(Lengthed(q, "password", FALSE), AtEnd, Malformed) ELSE q
  IN Then(Then(r, User), Pass)

NoWillBits(r) == ~ WillRetain(r.v) /\ WillQos(r.v) = 0

v3_connect_decode(buf) ==
  LET Will(q) ==
        IF WillFlag(q.v)
        THEN Lengthed(Lengthed(Check(q, LAMBDA r : WillQos(r.v) < 3, Malformed),
                               "will_topic", TRUE), "will_message", FALSE)
        ELSE Check(q, NoWillBits, Malformed)
  IN ConnectTail(Then(Lengthed(ConnectHead(FrameHeader(buf, NoConnectV3), 4),
                               "client_id", TRUE), Will))

(***************************************************************************)
(* PUBLISH.                                                                *)
(***************************************************************************)
pub_opts(dup, qos, retain) == If(dup, 8) + 2 * qos + If(retain, 1)
get_qos(fixed_header) == (fixed_header \div 2) % 4
QosOf(o) == get_qos(o.fixed_header)
PidLength(qos) == If(qos \in {1, 2}, PacketIdBytes)

\* The packet identifier of a QoS: 0, or not 0.
WrongPid(qos, pid) == (qos = 0) # (pid = 0)

\* The identifier after the topic name, and the payload.
ReadPid(r) ==
  Then(r, LAMBDA q : CASE QosOf(q.v) = 0 -> Set(q, "packet_id", 0)
                       [] QosOf(q.v) = 3 -> Fail(q, Malformed)
                       [] OTHER -> Number(q, "packet_id", PacketIdBytes))

ReadPayload(r) ==
  Then(r, LAMBDA q : Set(q, "payloads", Optional(~ AtEnd(q), <<q.buf>>)))

v3_publish(pid, topic, payloads, dup, qos, retain) ==
  Made([fixed_header |-> make_fixed_header("publish", pub_opts(dup, qos, retain)),
        topic_name |-> topic, packet_id |-> pid, payloads |-> payloads,
        remaining_length |->
          2 + Len(topic) + PidLength(qos) + Sum(Each(Len, payloads))] @@ V3("publish"),
       MalformedIf(~ utf8string_check(topic) \/ WrongPid(qos, pid)))

v3_publish_buffers(o) ==
  HeaderBuffers(o) \o Counted(o.topic_name)
  \o Optional(o.packet_id # 0, <<endian_store(o.packet_id, PacketIdBytes)>>) \o o.payloads

v3_publish_num(o) == 1 + 1 + 2 + If(o.packet_id # 0, 1) + Len(o.payloads)

v3_publish_decode(buf) ==
  ReadPayload(ReadPid(Lengthed(FrameHeader(buf, V3("publish")), "topic_name", TRUE)))

(***************************************************************************)
(* SUBSCRIBE, UNSUBSCRIBE and SUBACK.                                      *)
(***************************************************************************)
AddEntry(r, e) == Set(r, "entries", Append(r.v.entries, e))

ReadTopic(r) == Then(Lengthed(r, "topic", TRUE), LAMBDA q : AddEntry(q, q.v.topic))

\* A topic filter and its options, refused if Bad.
ReadTopicOpts(r, Bad(_)) ==
  LET Add(q, e) == IF Bad(e) # None THEN Fail(q, Bad(e)) ELSE AddEntry(q, e)
  IN Then(Number(Lengthed(r, "topic", TRUE), "opts", 1),
          LAMBDA q : Add(q, [topic |-> q.v.topic, opts |-> q.v.opts]))

\* The object read: without the last entry's parts.
Entries(r) == [r EXCEPT !.v = Restrict(@, DOMAIN @ \ {"topic", "opts", "code"})]

EntryTopic(e) == e.topic
TopicsUtf8(topics) == \A i \in DOMAIN topics : utf8string_check(topics[i])

\* Reserved bits and QoS 3.
v3_opts_error(e) == MalformedIf(e.opts > 2)

v3_subscribe(pid, entries) ==
  Made([fixed_header |-> make_fixed_header("subscribe", 2), packet_id |-> pid,
        entries |-> entries,
        remaining_length |->
          PacketIdBytes + Sum(Each(LAMBDA e : 2 + Len(e.topic) + 1, entries))]
         @@ V3("subscribe"),
       IF entries = <<>> THEN ProtocolError
       ELSE MalformedIf(\/ \E i \in DOMAIN entries : v3_opts_error(entries[i]) # None
                        \/ ~ TopicsUtf8(Each(EntryTopic, entries))))

PidBuffers(o) == HeaderBuffers(o) \o <<endian_store(o.packet_id, PacketIdBytes)>>
TopicOptsBuffers(e) == Counted(e.topic) \o <<<<e.opts>>>>

v3_subscribe_buffers(o) == PidBuffers(o) \o FlattenSeq(Each(TopicOptsBuffers, o.entries))
v3_subscribe_num(o) == 1 + 1 + 1 + 3 * Len(o.entries)

PidHeader(buf, v) ==
  Number(FrameHeader(buf, v @@ [entries |-> <<>>]), "packet_id", PacketIdBytes)

v3_subscribe_decode(buf) ==
  Entries(ReadEntries(PidHeader(buf, V3("subscribe")),
                      LAMBDA r : ReadTopicOpts(r, v3_opts_error)))

v3_unsubscribe(pid, topics) ==
  Made([fixed_header |-> make_fixed_header("unsubscribe", 2), packet_id |-> pid,
        entries |-> topics,
        remaining_length |-> PacketIdBytes + Sum(Each(LAMBDA t : 2 + Len(t), topics))]
         @@ V3("unsubscribe"),
       MalformedIf(~ TopicsUtf8(topics)))

v3_unsubscribe_buffers(o) == PidBuffers(o) \o FlattenSeq(Each(Counted, o.entries))
v3_unsubscribe_num(o) == 1 + 1 + 1 + 2 * Len(o.entries)
v3_unsubscribe_decode(buf) ==
  Entries(ReadEntries(PidHeader(buf, V3("unsubscribe")), ReadTopic))

ReadCode(r, codes) ==
  Then(Check(Number(r, "code", 1), LAMBDA q : q.v.code \in codes, Malformed),
       LAMBDA q : AddEntry(q, q.v.code))

v3_suback(pid, codes) ==
  Made([fixed_header |-> make_fixed_header("suback", 0), packet_id |-> pid,
        entries |-> codes, remaining_length |-> PacketIdBytes + Len(codes)]
         @@ V3("suback"), None)

v3_suback_buffers(o) == PidBuffers(o) \o <<o.entries>>
v3_suback_num(o) == 1 + 1 + 1 + 1
v3_suback_decode(buf) ==
  Entries(ReadEntries(PidHeader(buf, V3("suback")),
                      LAMBDA r : ReadCode(r, {0, 1, 2, 128})))
=============================================================================
