------------------------------- MODULE MCWire -------------------------------
(***************************************************************************)
(* Packets for Wire: every class, every property in every location it is   *)
(* allowed in, every reason code, and the lengths where an encoding grows. *)
(***************************************************************************)
EXTENDS Wire

Str(n) == [i \in 1 .. n |-> 97]
A == Str(1)

\* Values for a property, among them some that its constructor refuses.
Values(id) ==
  LET class == property_id[id]
  IN CASE class.as = "format" -> {"binary", "string"}
       [] class.as = "flag" -> BOOLEAN
       [] class.as = "number" /\ class.width = 1 -> 0 .. 2
       [] class.as = "number" /\ class.width = 2 -> {0, 1, 258}
       [] class.as = "number" /\ class.width = 4 -> {0, 1, 16909060}
       [] class.kind = "text" -> {A, <<128>>}
       [] class.kind = "binary" -> {<<0, 255>>}
       [] class.kind = "variable" -> {0, 128}
       [] OTHER -> {[key |-> A, val |-> <<98, 99>>], [key |-> A, val |-> <<128>>]}
Samples(ids) == UNION {{<<Construct(id, v)>> : v \in Values(id)} : id \in ids}
User(n) == Prop("user_property", [key |-> A, val |-> Str(n)])
Numbers == {1, 127, 128, 16383, 16384, 2097151, 2097152, MaxVariable}
Identifier(n) == Prop("subscription_identifier", n)

Will(qos, props) ==
  [topic |-> A, message |-> <<0, 1>>, qos |-> qos, retain |-> qos = 1, props |-> props]
Wills == {<<>>} \cup {<<Will(q, <<>>)>> : q \in 0 .. 2}
Opt(s) == {<<>>, <<s>>}

V3Connects ==
  {v3_connect(w = <<>>, 300, A, w, u, p) : w \in Wills, u \in Opt(A), p \in Opt(<<1, 2>>)}
V3Publishes ==
  {v3_publish(If(q > 0, 256), A, p, q = 2, q, q = 1) :
     q \in 0 .. 2, p \in {<<>>, <<<<>>>>, <<Str(2), <<7>>>>}}
  \cup {v3_publish(0, Str(2), <<Str(n)>>, FALSE, 0, FALSE) : n \in {123, 124}}
V3Others ==
  {v3_connack(sp, c) : sp \in BOOLEAN, c \in {0, 5}}
  \cup UNION {{v3_puback(i), v3_pubrec(i), v3_pubrel(i), v3_pubcomp(i), v3_unsuback(i)} :
              i \in {1, 65535}}
  \cup {v3_subscribe(1, <<[topic |-> A, opts |-> q]>>) : q \in 0 .. 3}
  \cup {v3_subscribe(1, <<[topic |-> A, opts |-> 1], [topic |-> Str(3), opts |-> 0]>>),
        v3_unsubscribe(258, <<A>>), v3_unsubscribe(258, <<A, Str(2)>>),
        v3_suback(1, <<0, 1, 2, 128>>), v3_pingreq, v3_pingresp, v3_disconnect}

\* Strings at the boundaries of the UTF-8 check.
Texts ==
  {<<a>> : a \in {0, 31, 32, 126, 127, 128, 191, 192, 255}}
  \cup {<<a, b>> : a \in {192, 193, 194, 195, 223}, b \in {127, 128, 159, 160, 191, 192}}
  \cup {<<a, b, c>> : a \in {224, 225, 236, 237, 238, 239},
                      b \in {127, 128, 159, 160, 190, 191, 192}, c \in {127, 189, 190, 191}}
  \cup {<<a, b, c, d>> : a \in {240, 241, 244, 245, 248},
                         b \in {128, 143, 144, 159, 191}, c \in {190, 191}, d \in {189, 190, 192}}
  \cup {<<97, 194>>, <<194, 160, 97>>, <<97, 226, 130>>, <<240, 144, 128>>, <<97, 0>>}
TextPublishes == {v3_publish(0, s, <<>>, FALSE, 0, FALSE) : s \in Texts}

V5Connects ==
  {v5_connect(FALSE, 0, <<>>, w, u, p, <<>>) : w \in Wills, u \in Opt(A), p \in Opt(<<1, 2>>)}
  \cup {v5_connect(TRUE, 1, A, <<>>, <<>>, <<>>, ps) : ps \in Samples(ConnectProperties)}
  \cup {v5_connect(TRUE, 1, A, <<Will(1, ps)>>, <<A>>, <<>>, <<User(2)>>) :
          ps \in Samples(WillProperties \cup {"topic_alias"})}
V5Connacks ==
  {v5_connack(TRUE, 0, ps) : ps \in Samples(ConnackProperties)}
  \cup {v5_connack(FALSE, c, <<>>) : c \in ConnectReasonCodes}
V5Publishes ==
  {v5_publish(If(q > 0, 1), A, p, FALSE, q, TRUE, <<>>) :
     q \in 0 .. 2, p \in {<<>>, <<Str(2), <<7>>>>}}
  \cup {v5_publish(0, A, <<A>>, FALSE, 0, FALSE, ps) :
          ps \in Samples(PublishProperties \cup {"maximum_qos"})}
  \cup {v5_publish(0, A, <<>>, FALSE, 0, FALSE, <<Identifier(n), User(1)>>) : n \in Numbers}
  \cup {v5_publish(0, Str(t), <<>>, FALSE, 0, FALSE, <<User(n)>>) :
          t \in {0, 1}, n \in {112, 115, 118, 121, 122}}
  \cup {v5_publish(3, <<>>, <<>>, TRUE, 1, FALSE, <<TopicAliasProp(2), User(118)>>),
        v5_publish(0, A, <<>>, FALSE, 1, FALSE, <<>>)}
Answers(make(_, _, _), codes) ==
  {make(i, <<>>, <<>>) : i \in {1, 65535}} \cup {make(1, <<c>>, <<>>) : c \in codes}
  \cup {make(1, <<0>>, ps) : ps \in Samples(AnswerProperties) \cup {<<User(121)>>, <<User(122)>>}}
V5Others ==
  Answers(v5_puback, PubReasonCodes) \cup Answers(v5_pubrec, PubReasonCodes)
  \cup Answers(v5_pubrel, FoundCodes) \cup Answers(v5_pubcomp, FoundCodes)
  \cup {v5_disconnect(<<>>, <<>>), v5_auth(<<>>, <<>>)}
  \cup {v5_disconnect(<<c>>, <<>>) : c \in DisconnectReasonCodes}
  \cup {v5_disconnect(<<0>>, ps) : ps \in Samples(DisconnectProperties)}
  \cup {v5_auth(<<c>>, <<>>) : c \in AuthCodes}
  \cup {v5_auth(<<24>>, ps) : ps \in Samples(AuthProperties)}
  \cup {v5_pingreq, v5_pingresp}
V5Lists ==
  {v5_subscribe(1, <<[topic |-> t, opts |-> o]>>, <<>>) :
     t \in {A, SharePrefix \o <<103, 47, 97>>}, o \in {sub_opts(r, FALSE, FALSE, q) : r \in {0, 3}, q \in {0, 3}}
                                               \cup {1, 2, 4, 8, 16, 32, 64}}
  \cup {v5_subscribe(1, <<[topic |-> A, opts |-> 0], [topic |-> Str(2), opts |-> sub_opts(2, TRUE, TRUE, 2)]>>, ps) :
          ps \in Samples(SubscribeProperties) \cup {<<Identifier(n)>> : n \in Numbers}}
  \cup {v5_unsubscribe(1, ts, ps) : ts \in {<<A>>, <<A, Str(2)>>}, ps \in {<<>>, <<User(2)>>}}
  \cup {v5_suback(1, <<c, 0>>, <<>>) : c \in SubackReasonCodes}
  \cup {v5_unsuback(1, <<c, 0>>, <<>>) : c \in UnsubackReasonCodes}
  \cup {f : f \in {v5_suback(1, <<0>>, ps) : ps \in Samples(AnswerProperties)}}
  \cup {f : f \in {v5_unsuback(1, <<0>>, ps) : ps \in Samples(AnswerProperties)}}

AllMessages ==
  V3Connects \cup V3Publishes \cup V3Others \cup TextPublishes \cup V5Connects \cup V5Connacks
  \cup V5Publishes \cup V5Others \cup V5Lists

LaterMessages == {v3_connack(FALSE, 0), v5_connack(FALSE, 0, <<>>)}

\* For the loss of a connection: a long packet, and the answer to CONNECT.
FewMessages == {v3_connack(FALSE, 0), v3_publish(0, A, <<Str(3)>>, FALSE, 0, FALSE)}
=============================================================================
