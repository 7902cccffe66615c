----------------------------- MODULE PacketsV5 ------------------------------
(***************************************************************************)
(* The packets of MQTT v5, as PacketsV3 has those of v3.1.1.  The length   *)
(* of the properties is kept as the bytes written (property_length_buf);   *)
(* PUBLISH, which is edited after its construction, also keeps the bytes   *)
(* of its remaining length.                                                *)
(***************************************************************************)
EXTENDS PacketsV3

V5(type) == [type |-> type, ver |-> "v5"]

LengthBuf(props) == val_to_variable_bytes(PropertiesSize(props))
Allowed(props, ids) == \A i \in DOMAIN props : props[i].id \in ids
PropsBuffers(o) == <<o.property_length_buf>> \o PropertiesBuffers(o.props)
PropsLength(props) == Len(LengthBuf(props)) + PropertiesSize(props)

(***************************************************************************)
(* CONNECT and CONNACK.                                                    *)
(***************************************************************************)
NoConnectV5 ==
  V5("connect") @@ [will_topic |-> <<>>, will_message |-> <<>>, user_name |-> <<>>,
                    password |-> <<>>, will_props |-> <<>>, will_property_length_buf |-> <<>>]

v5_connect(clean, keep_alive, client_id, w, user_name, password, props) ==
  LET will == ValueOr(w, NoWill)
      user == ValueOr(user_name, <<>>)
      pass == ValueOr(password, <<>>)
  IN Made([fixed_header |-> make_fixed_header("connect", 0),
           protocol_name_and_level |-> ProtocolName(5),
           connect_flags |-> ConnectFlags(clean, w, user_name, password),
           keep_alive |-> keep_alive, client_id |-> client_id,
           property_length_buf |-> LengthBuf(props), props |-> props,
           will_topic |-> will.topic, will_message |-> will.message,
           will_props |-> will.props,
           will_property_length_buf |-> Optional(w # <<>>, LengthBuf(will.props)),
           user_name |-> user, password |-> pass,
           remaining_length |->
             2 + 4 + 1 + 1 + 2 + 2 + Len(client_id)
             + If(user_name # <<>>, 2 + Len(user)) + If(password # <<>>, 2 + Len(pass))
             + PropsLength(props)
             + If(w # <<>>, PropsLength(will.props) + 2 + Len(will.topic)
                              + 2 + Len(will.message))] @@ NoConnectV5,
          MalformedIf(\/ \E s \in {client_id, user, will.topic} : ~ utf8string_check(s)
                      \/ ~ Allowed(props, ConnectProperties)
                      \/ ~ Allowed(will.props, WillProperties)))

v5_connect_buffers(o) ==
  HeaderBuffers(o)
  \o <<o.protocol_name_and_level, <<o.connect_flags>>, endian_store(o.keep_alive, 2)>>
  \o PropsBuffers(o) \o Counted(o.client_id)
  \o Optional(WillFlag(o), <<o.will_property_length_buf>> \o PropertiesBuffers(o.will_props)
                             \o Counted(o.will_topic) \o Counted(o.will_message))
  \o Optional(UserNameFlag(o), Counted(o.user_name))
  \o Optional(PasswordFlag(o), Counted(o.password))

v5_connect_num(o) ==
  6 + PropertiesNum(o.props) + 2 + If(WillFlag(o), 1 + PropertiesNum(o.will_props) + 2 + 2)
  + If(UserNameFlag(o), 2) + If(PasswordFlag(o), 2)

\* Up to the client identifier.
v5_connect_head(buf) ==
  Lengthed(ReadProperties(ConnectHead(FrameHeader(buf, NoConnectV5), 5),
                          "props", "property_length_buf", ConnectProperties),
           "client_id", TRUE)

v5_connect_will(r) ==
  IF WillFlag(r.v)
  THEN Lengthed(Lengthed(ReadProperties(Check(r, LAMBDA q : WillQos(q.v) < 3, Malformed),
                                        "will_props", "will_property_length_buf",
                                        WillProperties),
                         "will_topic", TRUE), "will_message", FALSE)
  ELSE Check(r, NoWillBits, Malformed)

v5_connect_tail(r) == ConnectTail(r)

v5_connect_decode(buf) == v5_connect_tail(Then(v5_connect_head(buf), v5_connect_will))

v5_connack(sp, code, props) ==
  Made([fixed_header |-> make_fixed_header("connack", 0),
        connect_acknowledge_flags |-> If(sp, 1), reason_code |-> code,
        property_length_buf |-> LengthBuf(props), props |-> props,
        remaining_length |-> 1 + 1 + PropsLength(props)] @@ V5("connack"),
       MalformedIf(~ Allowed(props, ConnackProperties)))

v5_connack_buffers(o) ==
  HeaderBuffers(o) \o <<<<o.connect_acknowledge_flags>>, <<o.reason_code>>>> \o PropsBuffers(o)
v5_connack_num(o) == 1 + 1 + 1 + 1 + 1 + PropertiesNum(o.props)

ConnectReasonCodes == {0} \cup 128 .. 138 \cup {140, 144, 149, 151} \cup 153 .. 157 \cup {159}

v5_connack_decode(buf) ==
  LET flags == Check(Number(FrameHeader(buf, V5("connack")), "connect_acknowledge_flags", 1),
                     LAMBDA r : r.v.connect_acknowledge_flags \in {0, 1}, Malformed)
      code == Check(Number(flags, "reason_code", 1),
                    LAMBDA r : r.v.reason_code \in ConnectReasonCodes, Malformed)
  IN Check(ReadProperties(code, "props", "property_length_buf", ConnackProperties),
           AtEnd, Malformed)

(***************************************************************************)
(* PUBLISH.                                                                *)
(***************************************************************************)
update_remaining_length_buf(o) ==
  [o EXCEPT !.remaining_length_buf = val_to_variable_bytes(o.remaining_length)]

update_property_length_buf(o) ==
  [o EXCEPT !.property_length_buf = val_to_variable_bytes(o.property_length)]

v5_publish(pid, topic, payloads, dup, qos, retain, props) ==
  LET n == 2 + Len(topic) + PidLength(qos) + Sum(Each(Len, payloads)) + PropsLength(props)
  IN Made([fixed_header |-> make_fixed_header("publish", pub_opts(dup, qos, retain)),
           topic_name |-> topic, packet_id |-> pid, payloads |-> payloads,
           property_length |-> PropertiesSize(props),
           property_length_buf |-> LengthBuf(props), props |-> props,
           remaining_length |-> n, remaining_length_buf |-> val_to_variable_bytes(n)]
            @@ V5("publish"),
          IF ~ utf8string_check(topic) \/ ~ Allowed(props, PublishProperties)
          THEN Malformed
          ELSE IF WrongPid(qos, pid) THEN ProtocolError ELSE None)

v5_publish_buffers(o) ==
  <<<<o.fixed_header>>, o.remaining_length_buf>> \o Counted(o.topic_name)
  \o Optional(o.packet_id # 0, <<endian_store(o.packet_id, PacketIdBytes)>>)
  \o PropsBuffers(o) \o o.payloads

v5_publish_size(o) == 1 + Len(o.remaining_length_buf) + o.remaining_length

v5_publish_num(o) ==
  1 + 1 + 2 + If(o.packet_id # 0, 1) + 1 + PropertiesNum(o.props) + Len(o.payloads)

\* Neither the type nor the remaining length is checked.
v5_publish_decode(buf) ==
  LET Length(r) == Set(r, "remaining_length_buf", SubSeq(buf, 2, Len(buf) - Len(r.buf)))
      PropertyLength(r) ==
        Set(r, "property_length", variable_bytes_to_val(r.v.property_length_buf).val)
      head == Then(insert_advance_variable_length(
                     Number(Reader(buf, V5("publish")), "fixed_header", 1),
                     "remaining_length"), Length)
      props == ReadProperties(ReadPid(Lengthed(head, "topic_name", TRUE)),
                              "props", "property_length_buf", PublishProperties)
  IN ReadPayload(Then(props, PropertyLength))

\* WithLengths with the bytes of the property length taken to keep their number.
WithLengthsFixed(old, new, delta) ==
  update_remaining_length_buf(
    [update_property_length_buf(new) EXCEPT !.remaining_length = @ + delta])

\* Change of the property length, of its bytes, and with delta of the remaining length.
WithLengths(old, new, delta) ==
  LET buf == update_property_length_buf(new)
  IN update_remaining_length_buf(
       [buf EXCEPT !.remaining_length =
          @ + delta + (Len(buf.property_length_buf) - Len(old.property_length_buf))])

TopicAliasProp(alias) == Prop("topic_alias", endian_store(alias, 2))
PushAlias(o, alias) ==
  [o EXCEPT !.property_length = @ + PropertySize(TopicAliasProp(alias)),
            !.props = Append(@, TopicAliasProp(alias))]

remove_topic_add_topic_alias(o, alias) ==
  WithLengths(o, [PushAlias(o, alias) EXCEPT !.topic_name = <<>>],
              PropertySize(TopicAliasProp(alias)) - Len(o.topic_name))

add_topic_alias(o, alias) ==
  WithLengths(o, PushAlias(o, alias), PropertySize(TopicAliasProp(alias)))

add_topic_impl(o, topic) == [o EXCEPT !.topic_name = topic]

add_topic(o, topic) ==
  update_remaining_length_buf(
    [add_topic_impl(o, topic) EXCEPT !.remaining_length = @ + Len(topic)])

AliasSize(o) == PropertiesSize(SelectSeq(o.props, LAMBDA p : p.id = "topic_alias"))
remove_topic_alias_impl(o) ==
  [o EXCEPT !.props = SelectSeq(@, LAMBDA p : p.id # "topic_alias"),
            !.property_length = @ - AliasSize(o)]

remove_topic_alias(o) == WithLengths(o, remove_topic_alias_impl(o), - AliasSize(o))

remove_topic_alias_add_topic(o, topic) ==
  WithLengths(o, add_topic_impl(remove_topic_alias_impl(o), topic),
              Len(topic) - AliasSize(o))

\* The first Message Expiry Interval only.
update_message_expiry_interval(o, bytes) ==
  LET at == {i \in DOMAIN o.props : o.props[i].id = "message_expiry_interval"}
      first == CHOOSE i \in at : \A j \in at : i <= j
  IN IF at = {} THEN o ELSE [o EXCEPT !.props[first].val = bytes]

(***************************************************************************)
(* Packets of an optional reason code and, only with one, properties:      *)
(* PUBACK, PUBREC, PUBREL and PUBCOMP after an identifier, DISCONNECT and  *)
(* AUTH without.                                                           *)
(***************************************************************************)
Reasoned(type, head, reason, props, allowed) ==
  LET with == reason # <<>> /\ PropertiesSize(props) # 0
  IN Made([fixed_header |-> make_fixed_header(type, ReservedBits(type)), head |-> head,
           reason_code |-> reason, props |-> props,
           property_length_buf |-> Optional(with, LengthBuf(props)),
           remaining_length |->
             Len(head) + If(reason # <<>>, 1) + If(with, PropsLength(props))] @@ V5(type),
          MalformedIf(with /\ ~ Allowed(props, allowed)))

ReasonedBuffers(o) ==
  HeaderBuffers(o) \o Optional(o.head # <<>>, <<o.head>>)
  \o Optional(o.reason_code # <<>>,
              <<o.reason_code>> \o Optional(o.property_length_buf # <<>>, PropsBuffers(o)))

ReasonedNum(o) ==
  1 + 1 + If(o.head # <<>>, 1)
  + If(o.reason_code # <<>>,
       1 + If(o.property_length_buf # <<>>, 1 + PropertiesNum(o.props)))

\* short is the remaining length up to the reason code, which the decoders of
\* packets with an identifier have as the literal 3.
ReasonedDecode(buf, type, n, short, codes, allowed) ==
  LET Props(r) == IF r.v.remaining_length = short THEN r
                  ELSE ReadProperties(r, "props", "property_length_buf", allowed)
      len == insert_advance_variable_length(
               Number(Reader(buf, V5(type) @@ [reason_code |-> <<>>, props |-> <<>>,
                                               property_length_buf |-> <<>>, head |-> <<>>]),
                      "fixed_header", 1), "remaining_length")
      Code(r) == IF r.v.remaining_length = n THEN r
                 ELSE Then(Check(insert_advance(r, "reason_code", 1),
                                 LAMBDA q : q.v.reason_code[1] \in codes, Malformed), Props)
  IN Check(Then(insert_advance(len, "head", n), Code), AtEnd, Malformed)

PubReasonCodes == {0, 16, 128, 131, 135, 144, 145, 151, 153}
FoundCodes == {0, 146}
AuthCodes == {0, 24, 25}
DisconnectReasonCodes ==
  {0, 4, 135, 137, 139} \cup 128 .. 131 \cup 141 .. 144 \cup 147 .. 162

PidBytes(pid) == endian_store(pid, PacketIdBytes)
IdDecode(buf, type, codes) ==
  ReasonedDecode(buf, type, PacketIdBytes, 3, codes, AnswerProperties)

v5_puback(pid, reason, props) == Reasoned("puback", PidBytes(pid), reason, props, AnswerProperties)
v5_puback_buffers(o) == ReasonedBuffers(o)
v5_puback_num(o) == ReasonedNum(o)
v5_puback_decode(buf) == IdDecode(buf, "puback", PubReasonCodes)
v5_pubrec(pid, reason, props) == Reasoned("pubrec", PidBytes(pid), reason, props, AnswerProperties)
v5_pubrec_buffers(o) == ReasonedBuffers(o)
v5_pubrec_num(o) == ReasonedNum(o)
v5_pubrec_decode(buf) == IdDecode(buf, "pubrec", PubReasonCodes)
v5_pubrel(pid, reason, props) == Reasoned("pubrel", PidBytes(pid), reason, props, AnswerProperties)
v5_pubrel_buffers(o) == ReasonedBuffers(o)
v5_pubrel_num(o) == ReasonedNum(o)
v5_pubrel_decode(buf) == IdDecode(buf, "pubrel", FoundCodes)
v5_pubcomp(pid, reason, props) == Reasoned("pubcomp", PidBytes(pid), reason, props, AnswerProperties)
v5_pubcomp_buffers(o) == ReasonedBuffers(o)
v5_pubcomp_num(o) == ReasonedNum(o)
v5_pubcomp_decode(buf) == IdDecode(buf, "pubcomp", FoundCodes)
v5_disconnect(reason, props) == Reasoned("disconnect", <<>>, reason, props, DisconnectProperties)
v5_disconnect_buffers(o) == ReasonedBuffers(o)
v5_disconnect_num(o) == ReasonedNum(o)
v5_disconnect_decode(buf) ==
  ReasonedDecode(buf, "disconnect", 0, 1, DisconnectReasonCodes, DisconnectProperties)
v5_auth(reason, props) == Reasoned("auth", <<>>, reason, props, AuthProperties)
v5_auth_buffers(o) == ReasonedBuffers(o)
v5_auth_num(o) == ReasonedNum(o)
v5_auth_decode(buf) == ReasonedDecode(buf, "auth", 0, 1, AuthCodes, AuthProperties)

(***************************************************************************)
(* SUBSCRIBE, UNSUBSCRIBE, SUBACK and UNSUBACK.  Empty lists of entries    *)
(* are constructed and refused by the decoders.                            *)
(***************************************************************************)
\* "$share/": whatever follows it gives a share name that is not empty.
SharePrefix == <<36, 115, 104, 97, 114, 101, 47>>
HasSharename(topic) == IsPrefix(SharePrefix, topic) /\ topic # SharePrefix

\* The options of a subscription, and what is read from their byte.
sub_opts(retain_handling, rap, nl, qos) == 16 * retain_handling + If(rap, 8) + If(nl, 4) + qos
get_retain_handling(opts) == (opts \div 16) % 4
get_nl(opts) == Bit(opts, 4)
get_sub_qos(opts) == opts % 4

\* Reserved bits, QoS 3, Retain Handling 3; No Local on a shared subscription.
v5_opts_error(e) ==
  IF e.opts > 63 \/ get_sub_qos(e.opts) = 3 \/ get_retain_handling(e.opts) = 3 THEN Malformed
  ELSE IF get_nl(e.opts) /\ HasSharename(e.topic) THEN ProtocolError ELSE None

Listed(type, pid, entries, n, props, error) ==
  Made([fixed_header |-> make_fixed_header(type, ReservedBits(type)), packet_id |-> pid,
        entries |-> entries, props |-> props, property_length_buf |-> LengthBuf(props),
        remaining_length |-> PacketIdBytes + n + PropsLength(props)] @@ V5(type), error)

\* The first entry refused decides the error.
FirstError(entries) ==
  LET Error(e) == IF v5_opts_error(e) # None THEN v5_opts_error(e)
                  ELSE MalformedIf(~ utf8string_check(e.topic))
  IN FoldLeft(LAMBDA ec, e : IF ec # None THEN ec ELSE Error(e), None, entries)

v5_subscribe(pid, entries, props) ==
  Listed("subscribe", pid, entries, Sum(Each(LAMBDA e : 2 + Len(e.topic) + 1, entries)), props,
         IF Allowed(props, SubscribeProperties) THEN FirstError(entries) ELSE Malformed)

v5_subscribe_buffers(o) ==
  PidBuffers(o) \o PropsBuffers(o) \o FlattenSeq(Each(TopicOptsBuffers, o.entries))
ListedNum(o) == 1 + 1 + 1 + If(o.property_length_buf # <<>>, 1 + PropertiesNum(o.props))
v5_subscribe_num(o) == ListedNum(o) + 3 * Len(o.entries)

ListedHeader(buf, type, allowed) ==
  ReadProperties(PidHeader(buf, V5(type)), "props", "property_length_buf", allowed)

v5_subscribe_decode(buf) ==
  Entries(ReadEntries(ListedHeader(buf, "subscribe", SubscribeProperties),
                      LAMBDA r : ReadTopicOpts(r, v5_opts_error)))

v5_unsubscribe(pid, topics, props) ==
  Listed("unsubscribe", pid, topics, Sum(Each(LAMBDA t : 2 + Len(t), topics)), props,
         MalformedIf(~ Allowed(props, UnsubscribeProperties) \/ ~ TopicsUtf8(topics)))

v5_unsubscribe_buffers(o) ==
  PidBuffers(o) \o PropsBuffers(o) \o FlattenSeq(Each(Counted, o.entries))
v5_unsubscribe_num(o) == ListedNum(o) + 2 * Len(o.entries)
v5_unsubscribe_decode(buf) ==
  Entries(ReadEntries(ListedHeader(buf, "unsubscribe", UnsubscribeProperties), ReadTopic))

SubackReasonCodes == {0, 1, 2, 128, 131, 135, 143, 145, 151, 158, 161, 162}
UnsubackReasonCodes == {0, 17, 128, 131, 135, 143, 145}

v5_suback(pid, codes, props) ==
  Listed("suback", pid, codes, Len(codes), props, MalformedIf(~ Allowed(props, AnswerProperties)))
v5_suback_buffers(o) == PidBuffers(o) \o PropsBuffers(o) \o <<o.entries>>
v5_suback_num(o) == ListedNum(o) + 1
v5_suback_decode(buf) ==
  Entries(ReadEntries(ListedHeader(buf, "suback", AnswerProperties),
                      LAMBDA r : ReadCode(r, SubackReasonCodes)))

v5_unsuback(pid, codes, props) ==
  Listed("unsuback", pid, codes, Len(codes), props, MalformedIf(~ Allowed(props, AnswerProperties)))
v5_unsuback_buffers(o) == PidBuffers(o) \o PropsBuffers(o) \o <<o.entries>>
v5_unsuback_num(o) == ListedNum(o) + 1
v5_unsuback_decode(buf) ==
  Entries(ReadEntries(ListedHeader(buf, "unsuback", AnswerProperties),
                      LAMBDA r : ReadCode(r, UnsubackReasonCodes)))

(***************************************************************************)
(* PINGREQ and PINGRESP.                                                   *)
(***************************************************************************)
v5_pingreq == Made(V5("pingreq") @@ [all |-> <<make_fixed_header("pingreq", 0), 0>>], None)
v5_pingresp == Made(V5("pingresp") @@ [all |-> <<make_fixed_header("pingresp", 0), 0>>], None)
v5_pingreq_decode(buf) == EmptyDecode(buf, V5("pingreq"))
v5_pingresp_decode(buf) == EmptyDecode(buf, V5("pingresp"))
=============================================================================
