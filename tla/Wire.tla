-------------------------------- MODULE Wire --------------------------------
(***************************************************************************)
(* One direction of a connection at the level of bytes: the peer writes    *)
(* packets, the transport hands them over in chunks of any size, and the   *)
(* receiver rebuilds frames (recv_packet_builder) and decodes them.        *)
(***************************************************************************)
EXTENDS PacketsV5

CONSTANTS
  Messages,       \* results of packet constructors: what the peer may send first
  Later,          \* and after that, also on the next connection
  MaxSent,        \* bound on the packets sent on one connection
  Chunks,         \* how many bytes one read may return
  MaxLosses,      \* bound on the losses of the transport
  LossMidFrame    \* whether the transport may be lost within a frame

ASSUME WireAssumption ==
  /\ PacketIdBytes \in {2, 4} /\ MaxSent \in Nat /\ MaxLosses \in Nat
  /\ Chunks \subseteq Nat \ {0} /\ LossMidFrame \in BOOLEAN

VARIABLES
  peer,           \* the protocol version the peer speaks
  version,        \* protocol_version_ of the receiver
  sent,           \* packets written on this connection
  refused,        \* the packet whose constructor threw last, until one is sent
  wire,           \* bytes written and not read
  read_buf,       \* bytes read and not yet taken by the builder
  rpb,            \* the builder
  delivered,      \* results of decoding on this connection
  losses

vars == <<peer, version, sent, refused, wire, read_buf, rpb, delivered, losses>>

(***************************************************************************)
(* Dispatch on the class of a packet.                                      *)
(***************************************************************************)
const_buffer_sequence(o) ==
  LET v3 == o.ver = "v3_1_1"
  IN CASE "all" \in DOMAIN o -> <<o.all>>
       [] o.type = "connect" -> IF v3 THEN v3_connect_buffers(o) ELSE v5_connect_buffers(o)
       [] o.type = "connack" -> v5_connack_buffers(o)
       [] o.type = "publish" -> IF v3 THEN v3_publish_buffers(o) ELSE v5_publish_buffers(o)
       [] o.type = "puback" -> v5_puback_buffers(o)
       [] o.type = "pubrec" -> v5_pubrec_buffers(o)
       [] o.type = "pubrel" -> v5_pubrel_buffers(o)
       [] o.type = "pubcomp" -> v5_pubcomp_buffers(o)
       [] o.type = "subscribe" -> IF v3 THEN v3_subscribe_buffers(o) ELSE v5_subscribe_buffers(o)
       [] o.type = "suback" -> IF v3 THEN v3_suback_buffers(o) ELSE v5_suback_buffers(o)
       [] o.type = "unsubscribe" -> IF v3 THEN v3_unsubscribe_buffers(o) ELSE v5_unsubscribe_buffers(o)
       [] o.type = "unsuback" -> v5_unsuback_buffers(o)
       [] o.type = "disconnect" -> v5_disconnect_buffers(o)
       [] o.type = "auth" -> v5_auth_buffers(o)

num_of_const_buffer_sequence(o) ==
  LET v3 == o.ver = "v3_1_1"
  IN CASE "all" \in DOMAIN o -> 1
       [] o.type = "connect" -> IF v3 THEN v3_connect_num(o) ELSE v5_connect_num(o)
       [] o.type = "connack" -> v5_connack_num(o)
       [] o.type = "publish" -> IF v3 THEN v3_publish_num(o) ELSE v5_publish_num(o)
       [] o.type = "puback" -> v5_puback_num(o)
       [] o.type = "pubrec" -> v5_pubrec_num(o)
       [] o.type = "pubrel" -> v5_pubrel_num(o)
       [] o.type = "pubcomp" -> v5_pubcomp_num(o)
       [] o.type = "subscribe" -> IF v3 THEN v3_subscribe_num(o) ELSE v5_subscribe_num(o)
       [] o.type = "suback" -> IF v3 THEN v3_suback_num(o) ELSE v5_suback_num(o)
       [] o.type = "unsubscribe" -> IF v3 THEN v3_unsubscribe_num(o) ELSE v5_unsubscribe_num(o)
       [] o.type = "unsuback" -> v5_unsuback_num(o)
       [] o.type = "disconnect" -> v5_disconnect_num(o)
       [] o.type = "auth" -> v5_auth_num(o)

size(o) ==
  CASE "all" \in DOMAIN o -> Len(o.all)
    [] o.type = "publish" /\ o.ver = "v5" -> v5_publish_size(o)
    [] OTHER -> SizeOf(o)

Written(o) == FlattenSeq(const_buffer_sequence(o))

\* The protocol level of a CONNECT, looked for behind the protocol name.  (A
\* CONNECT of six bytes, whose seventh the code reads, is never written.)
get_protocol_version(buf) ==
  LET r == insert_advance_variable_length(Left(Reader(buf, [type |-> "connect"]), 1), "len")
  IN IF Failed(r) \/ Len(r.buf) < 7 THEN "undetermined"
     ELSE CASE r.buf[7] = 4 -> "v3_1_1" [] r.buf[7] = 5 -> "v5" [] OTHER -> "undetermined"

DecodeV3(type, buf) ==
  CASE type = 1 -> v3_connect_decode(buf) [] type = 2 -> v3_connack_decode(buf)
    [] type = 3 -> v3_publish_decode(buf) [] type = 4 -> v3_puback_decode(buf)
    [] type = 5 -> v3_pubrec_decode(buf) [] type = 6 -> v3_pubrel_decode(buf)
    [] type = 7 -> v3_pubcomp_decode(buf) [] type = 8 -> v3_subscribe_decode(buf)
    [] type = 9 -> v3_suback_decode(buf) [] type = 10 -> v3_unsubscribe_decode(buf)
    [] type = 11 -> v3_unsuback_decode(buf) [] type = 12 -> v3_pingreq_decode(buf)
    [] type = 13 -> v3_pingresp_decode(buf) [] type = 14 -> v3_disconnect_decode(buf)
    [] OTHER -> Fail(Reader(buf, <<>>), ProtocolError)

DecodeV5(type, buf) ==
  CASE type = 1 -> v5_connect_decode(buf) [] type = 2 -> v5_connack_decode(buf)
    [] type = 3 -> v5_publish_decode(buf) [] type = 4 -> v5_puback_decode(buf)
    [] type = 5 -> v5_pubrec_decode(buf) [] type = 6 -> v5_pubrel_decode(buf)
    [] type = 7 -> v5_pubcomp_decode(buf) [] type = 8 -> v5_subscribe_decode(buf)
    [] type = 9 -> v5_suback_decode(buf) [] type = 10 -> v5_unsubscribe_decode(buf)
    [] type = 11 -> v5_unsuback_decode(buf) [] type = 12 -> v5_pingreq_decode(buf)
    [] type = 13 -> v5_pingresp_decode(buf) [] type = 14 -> v5_disconnect_decode(buf)
    [] OTHER -> v5_auth_decode(buf)

buffer_to_packet_variant(buf, ver) ==
  LET type == get_control_packet_type(buf[1])
      actual == IF ver = "undetermined" /\ type = 1 THEN get_protocol_version(buf) ELSE ver
  IN IF type = 0 THEN Fail(Reader(buf, <<>>), Malformed)
     ELSE CASE actual = "v3_1_1" -> DecodeV3(type, buf)
            [] actual = "v5" -> DecodeV5(type, buf)
            [] OTHER -> Fail(Reader(buf, <<>>),
                             IF type = 1 THEN "unsupported_protocol_version" ELSE ProtocolError)

(***************************************************************************)
(* recv_packet_builder.                                                    *)
(***************************************************************************)
RpbInit ==
  [read_state |-> "fixed_header", header_remaining_length_buf |-> <<>>,
   remaining_length |-> 0, multiplier |-> 1, raw_buf |-> <<>>]

\* initialize that leaves the header of the frame before.
initialize_but_header(b) ==
  [RpbInit EXCEPT !.header_remaining_length_buf = b.header_remaining_length_buf]

initialize(b) == RpbInit

\* PayloadComplete that waits for a byte beyond the frame.
PayloadCompleteLate(b, is) == Len(is) > b.remaining_length

PayloadComplete(b, is) == Len(is) >= b.remaining_length

\* What one call of recv leaves: the builder, the rest of the stream, and at
\* most one result, a frame or an error.
Built(b, is, read_packet) == [rpb |-> b, is |-> is, read_packet |-> read_packet]

RECURSIVE rpb_recv(_, _)
rpb_recv(b, is) ==
  LET header == Append(b.header_remaining_length_buf, is[1])
      length == b.remaining_length + (is[1] % 128) * b.multiplier
      next == [b EXCEPT !.header_remaining_length_buf = header,
                        !.remaining_length = length, !.multiplier = @ * 128]
  IN CASE is = <<>> -> Built(b, is, <<>>)
       [] is # <<>> /\ b.read_state = "fixed_header" ->
            rpb_recv([b EXCEPT !.header_remaining_length_buf = header,
                               !.read_state = "remaining_length"], Tail(is))
       [] is # <<>> /\ b.read_state = "remaining_length" ->
            CASE is[1] < 128 /\ length = 0 ->
                   Built(initialize(next), Tail(is), <<[ec |-> None, buf |-> header]>>)
              [] is[1] < 128 /\ length # 0 ->
                   rpb_recv([next EXCEPT !.read_state = "payload", !.raw_buf = header], Tail(is))
              [] is[1] >= 128 /\ next.multiplier = 128 ^ 4 ->
                   Built(initialize(next), Tail(is), <<[ec |-> "packet_too_large", buf |-> <<>>]>>)
              [] OTHER -> rpb_recv(next, Tail(is))
       [] OTHER ->
            LET copied == Min({Len(is), b.remaining_length})
                frame == b.raw_buf \o SubSeq(is, 1, copied)
            IN IF PayloadComplete(b, is)
               THEN Built(initialize(b), SubSeq(is, b.remaining_length + 1, Len(is)),
                          <<[ec |-> None, buf |-> frame]>>)
               ELSE Built([b EXCEPT !.raw_buf = frame, !.remaining_length = @ - copied],
                          <<>>, <<>>)

(***************************************************************************)
(* The connection.                                                         *)
(***************************************************************************)
Init ==
  /\ peer \in {"v3_1_1", "v5"}
  /\ version \in {peer, "undetermined"}
  /\ sent = <<>> /\ refused = <<>> /\ wire = <<>> /\ read_buf = <<>>
  /\ rpb = RpbInit /\ delivered = <<>> /\ losses = 0

\* Changes of a v5 PUBLISH on its way: the automatic mapping and replacing of
\* topics, what makes it independent of aliases for the store, the topic an
\* alias stands for, and the time left of a message the broker kept.
Edits(o) ==
  LET aliased == \E i \in DOMAIN o.props : o.props[i].id = "topic_alias"
  IN (IF o.topic_name # <<>> /\ ~ aliased
      THEN {remove_topic_add_topic_alias(o, 1), add_topic_alias(o, 1)} ELSE {})
     \cup (IF o.topic_name # <<>> /\ aliased THEN {remove_topic_alias(o)} ELSE {})
     \cup (IF o.topic_name = <<>>
           THEN {add_topic(o, <<116>>), remove_topic_alias_add_topic(o, <<116>>)} ELSE {})
     \cup {update_message_expiry_interval(o, <<0, 0, 0, 9>>)}

Edited(o) ==
  IF o.type = "publish" /\ o.ver = "v5"
  THEN {o} \cup Edits(o) \cup UNION {Edits(e) : e \in Edits(o)} ELSE {o}

\* A server that takes its version from the CONNECT must get one first.
MayBeSent(o) ==
  o.ver = peer /\ (version = "undetermined" /\ sent = <<>> => o.type = "connect")

\* The properties of a packet, and whether their constructors throw.
PropsOf(o) ==
  UNION {IF f \in DOMAIN o THEN ToSet(o[f]) ELSE {} : f \in {"props", "will_props"}}

Constructible(m) == m.ec = None /\ \A p \in PropsOf(m.v) : ConstructError(p) = None

Send ==
  /\ Len(sent) < MaxSent
  /\ \E m \in IF sent = <<>> /\ losses = 0 THEN Messages ELSE Later :
       /\ Constructible(m) /\ MayBeSent(m.v)
       /\ \E o \in IF sent = <<>> THEN Edited(m.v) ELSE {m.v} :
            /\ sent' = Append(sent, o)
            /\ wire' = wire \o Written(o)
  /\ refused' = <<>>
  /\ UNCHANGED <<peer, version, read_buf, rpb, delivered, losses>>

\* The constructor of a packet or of a property throws.
Refuse ==
  /\ sent = <<>> /\ refused = <<>>
  /\ \E m \in Messages : ~ Constructible(m) /\ m.v.ver = peer /\ refused' = <<m.v>>
  /\ UNCHANGED <<peer, version, sent, wire, read_buf, rpb, delivered, losses>>

\* A read from the transport completes; it is only started with read_buf empty.
Read ==
  /\ read_buf = <<>> /\ wire # <<>>
  /\ \E n \in Chunks :
       /\ read_buf' = SubSeq(wire, 1, Min({n, Len(wire)}))
       /\ wire' = SubSeq(wire, Min({n, Len(wire)}) + 1, Len(wire))
  /\ UNCHANGED <<peer, version, sent, refused, rpb, delivered, losses>>

\* A result of the builder, decoded.
Decoded(frame) ==
  IF frame.ec # None THEN Fail(Reader(<<>>, <<>>), frame.ec)
  ELSE buffer_to_packet_variant(frame.buf, version)

\* read_istream: at most one frame of what was read, decoded.  A CONNECT sets
\* a version that was not given.
Recv ==
  /\ read_buf # <<>>
  /\ \E got \in {rpb_recv(rpb, read_buf)} :
       /\ rpb' = got.rpb
       /\ read_buf' = got.is
       /\ \/ /\ got.read_packet = <<>>
             /\ UNCHANGED <<delivered, version>>
          \/ /\ got.read_packet # <<>>
             /\ \E p \in {Decoded(got.read_packet[1])} :
                  /\ delivered' = Append(delivered, [ec |-> p.ec, v |-> p.v])
                  /\ version' = IF version = "undetermined" /\ ~ Failed(p)
                                THEN p.v.ver ELSE version
  /\ UNCHANGED <<peer, sent, refused, wire, losses>>

\* The transport is lost, which a read tells (one is started with read_buf
\* empty), and the client connects again with the same endpoint.  Neither
\* read_buf nor the builder is cleared.
Reconnect ==
  /\ losses < MaxLosses /\ version # "undetermined" /\ sent # <<>>
  /\ read_buf = <<>> /\ (LossMidFrame \/ rpb = RpbInit)
  /\ wire' = <<>> /\ sent' = <<>> /\ delivered' = <<>>
  /\ losses' = losses + 1
  /\ UNCHANGED <<peer, version, refused, read_buf, rpb>>

Next == Send \/ Refuse \/ Read \/ Recv \/ Reconnect

\* The peer's bytes arrive, and the application keeps a receive pending: weak
\* fairness of Read and of Recv, written out.  (Read is enabled until read_buf
\* has bytes, Recv until it has taken the last of them.)
Spec ==
  /\ Init /\ [][Next]_vars
  /\ []<>(read_buf # <<>> \/ wire = <<>>)
  /\ []<>(read_buf = <<>>)

(***************************************************************************)
(* Properties.                                                             *)
(***************************************************************************)
TypeOK ==
  /\ peer \in {"v3_1_1", "v5"} /\ version \in {peer, "undetermined"}
  /\ wire \in Seq(Byte) /\ read_buf \in Seq(Byte)
  /\ rpb.read_state \in {"fixed_header", "remaining_length", "payload"}

\* The payload buffers of a PUBLISH arrive as one.
Joined(o) ==
  IF "payloads" \in DOMAIN o /\ o.payloads # <<>>
  THEN [o EXCEPT !.payloads = LET all == FlattenSeq(@) IN Optional(all # <<>>, <<all>>)] ELSE o

\* Whatever the chunks the transport cuts the bytes into, the packets that
\* recv_packet_builder and the decoding constructors deliver are those the
\* peer's constructors and const_buffer_sequence wrote, member for member and
\* in order, no frame the library writes is refused by the library, and the
\* values of the properties make the same properties again when the packet is
\* forwarded.
DeliveredAsSent ==
  /\ Len(delivered) <= Len(sent)
  /\ \A i \in DOMAIN delivered :
       /\ delivered[i].ec = None /\ delivered[i].v = Joined(sent[i])
       /\ \A p \in PropsOf(delivered[i].v) : Construct(p.id, Value(p)) = p

\* size() is the number of bytes of const_buffer_sequence() and
\* num_of_const_buffer_sequence() the number of its buffers, also after a
\* PUBLISH was edited: the endpoint reserves the one and compares the other
\* with the Maximum Packet Size.
LengthsAgree ==
  \A i \in DOMAIN sent :
    /\ size(sent[i]) = Len(Written(sent[i]))
    /\ num_of_const_buffer_sequence(sent[i]) = Len(const_buffer_sequence(sent[i]))

\* A reference for UTF-8 as MQTT has it: the shortest encodings of the code
\* points but control characters, surrogates and the last two of each plane.
Encoding(c) ==
  CASE c \in 0 .. 127 -> <<c>>
    [] c \in 128 .. 2047 -> <<192 + c \div 64, 128 + (c % 64)>>
    [] c \in 2048 .. 65535 -> <<224 + c \div 4096, 128 + ((c \div 64) % 64), 128 + (c % 64)>>
    [] OTHER -> <<240 + c \div 262144, 128 + ((c \div 4096) % 64),
                  128 + ((c \div 64) % 64), 128 + (c % 64)>>

MqttCharacter(c) ==
  /\ c \in 32 .. 126 \/ c \in 160 .. 55295 \/ c \in 57344 .. 1114111
  /\ c % 65536 < 65534

CodePoint(s) ==
  FoldLeftDomain(LAMBDA sum, i : 64 * sum + (s[i] - (IF i = 1 THEN <<0, 192, 224, 240>>[Len(s)]
                                                     ELSE 128)), 0, s)

RECURSIVE MqttText(_)
MqttText(s) ==
  \/ s = <<>>
  \/ \E n \in 1 .. Min({4, Len(s)}) :
       LET c == CodePoint(SubSeq(s, 1, n))
       IN /\ MqttCharacter(c) /\ Encoding(c) = SubSeq(s, 1, n)
          /\ MqttText(SubSeq(s, n + 1, Len(s)))

\* A PUBLISH is constructed exactly when utf8string_check, which tests bit
\* patterns, sees a topic that is the encoding of characters MQTT allows.
TopicsAreText ==
  /\ \A i \in DOMAIN sent : sent[i].type = "publish" => MqttText(sent[i].topic_name)
  /\ \A i \in DOMAIN refused :
       LET o == refused[i]
       IN o.type = "publish" /\ o.ver = "v3_1_1" /\ QosOf(o) = 0 => ~ MqttText(o.topic_name)

\* Every packet sent is delivered in the end: no frame waits in read_buf_ or
\* in the builder for bytes of the next one.
AllDelivered == []<>(Len(delivered) = Len(sent))
=============================================================================
