----------------------------- MODULE Properties -----------------------------
(***************************************************************************)
(* The properties of v5 packets: their layout on the wire, the locations   *)
(* they may occur in, and their decoding.  A property is a record of its   *)
(* id and its value: the bytes of a fixed width, binary or string value,   *)
(* the number of a variable byte integer, or the key and value of a        *)
(* user_property.                                                          *)
(***************************************************************************)
EXTENDS Bytes

Prop(id, val) == [id |-> id, val |-> val]

(***************************************************************************)
(* The classes: code and layout on the wire, what the application sees of  *)
(* the value, and the errors for a value of zero or above one.             *)
(***************************************************************************)
Class(code, kind, width, as) ==
  [code |-> code, kind |-> kind, width |-> width, as |-> as, zero |-> None, above |-> None]
n_bytes_property(code, width, as) == Class(code, "fixed", width, as)
string_property(code) == Class(code, "text", 2, "buffer")
binary_property(code) == Class(code, "binary", 2, "buffer")
variable_property(code) == Class(code, "variable", 0, "buffer")

NonZero(class) == [class EXCEPT !.zero = ProtocolError]
AtMostOne(class, ec) == [class EXCEPT !.above = ec]

payload_format_indicator == AtMostOne(n_bytes_property(1, 1, "format"), Malformed)
message_expiry_interval == n_bytes_property(2, 4, "number")
content_type == string_property(3)
response_topic == string_property(8)
correlation_data == binary_property(9)
subscription_identifier == NonZero(variable_property(11))
session_expiry_interval == n_bytes_property(17, 4, "number")
assigned_client_identifier == string_property(18)
server_keep_alive == n_bytes_property(19, 2, "number")
authentication_method == string_property(21)
authentication_data == binary_property(22)
request_problem_information == n_bytes_property(23, 1, "flag")
will_delay_interval == n_bytes_property(24, 4, "number")
request_response_information == n_bytes_property(25, 1, "flag")
response_information == string_property(26)
server_reference == string_property(28)
reason_string == string_property(31)
receive_maximum == NonZero(n_bytes_property(33, 2, "number"))
topic_alias_maximum == n_bytes_property(34, 2, "number")
topic_alias == n_bytes_property(35, 2, "number")
maximum_qos == AtMostOne(n_bytes_property(36, 1, "number"), ProtocolError)
retain_available == n_bytes_property(37, 1, "flag")
user_property == Class(38, "pair", 0, "buffer")
maximum_packet_size == NonZero(n_bytes_property(39, 4, "number"))
wildcard_subscription_available == n_bytes_property(40, 1, "flag")
subscription_identifier_available == n_bytes_property(41, 1, "flag")
shared_subscription_available == n_bytes_property(42, 1, "flag")

property_id ==
  [payload_format_indicator |-> payload_format_indicator,
   message_expiry_interval |-> message_expiry_interval, content_type |-> content_type,
   response_topic |-> response_topic, correlation_data |-> correlation_data,
   subscription_identifier |-> subscription_identifier,
   session_expiry_interval |-> session_expiry_interval,
   assigned_client_identifier |-> assigned_client_identifier,
   server_keep_alive |-> server_keep_alive,
   authentication_method |-> authentication_method,
   authentication_data |-> authentication_data,
   request_problem_information |-> request_problem_information,
   will_delay_interval |-> will_delay_interval,
   request_response_information |-> request_response_information,
   response_information |-> response_information, server_reference |-> server_reference,
   reason_string |-> reason_string, receive_maximum |-> receive_maximum,
   topic_alias_maximum |-> topic_alias_maximum, topic_alias |-> topic_alias,
   maximum_qos |-> maximum_qos, retain_available |-> retain_available,
   user_property |-> user_property, maximum_packet_size |-> maximum_packet_size,
   wildcard_subscription_available |-> wildcard_subscription_available,
   subscription_identifier_available |-> subscription_identifier_available,
   shared_subscription_available |-> shared_subscription_available]

PropertyIds == DOMAIN property_id

(***************************************************************************)
(* Which properties a location allows.                                     *)
(***************************************************************************)
ConnectProperties ==
  {"session_expiry_interval", "authentication_method", "authentication_data",
   "request_problem_information", "request_response_information", "receive_maximum",
   "topic_alias_maximum", "user_property", "maximum_packet_size"}
WillProperties ==
  {"payload_format_indicator", "message_expiry_interval", "content_type",
   "response_topic", "correlation_data", "will_delay_interval", "user_property"}
ConnackProperties ==
  {"session_expiry_interval", "assigned_client_identifier", "server_keep_alive",
   "authentication_method", "authentication_data", "response_information",
   "server_reference", "reason_string", "receive_maximum", "topic_alias_maximum",
   "maximum_qos", "retain_available", "user_property", "maximum_packet_size",
   "wildcard_subscription_available", "subscription_identifier_available",
   "shared_subscription_available"}
PublishProperties ==
  {"payload_format_indicator", "message_expiry_interval", "content_type",
   "response_topic", "correlation_data", "subscription_identifier", "topic_alias",
   "user_property"}
AnswerProperties == {"reason_string", "user_property"}
SubscribeProperties == {"subscription_identifier", "user_property"}
UnsubscribeProperties == {"user_property"}
DisconnectProperties ==
  {"session_expiry_interval", "server_reference", "reason_string", "user_property"}
AuthProperties ==
  {"authentication_method", "authentication_data", "reason_string", "user_property"}

(***************************************************************************)
(* Writing.                                                                *)
(***************************************************************************)
PropertyBuffers(p) ==
  LET t == property_id[p.id]
  IN <<<<t.code>>>> \o
     CASE t.kind = "fixed" -> <<p.val>>
       [] t.kind \in {"text", "binary"} -> Counted(p.val)
       [] t.kind = "variable" -> <<val_to_variable_bytes(p.val)>>
       [] OTHER -> Counted(p.val.key) \o Counted(p.val.val)

PropertySize(p) ==
  LET t == property_id[p.id]
  IN CASE t.kind = "fixed" -> 1 + t.width
       [] t.kind \in {"text", "binary"} -> 1 + 2 + Len(p.val)
       [] t.kind = "variable" -> 1 + Len(val_to_variable_bytes(p.val))
       [] OTHER -> 1 + 2 + Len(p.val.key) + 2 + Len(p.val.val)

PropertyNum(p) ==
  CASE property_id[p.id].kind \in {"fixed", "variable"} -> 2
    [] property_id[p.id].kind \in {"text", "binary"} -> 3
    [] OTHER -> 5

Sum(s) == FoldLeft(+, 0, s)
Each(f(_), s) == [i \in DOMAIN s |-> f(s[i])]

PropertiesBuffers(ps) == FlattenSeq(Each(PropertyBuffers, ps))
PropertiesSize(ps) == Sum(Each(PropertySize, ps))
PropertiesNum(ps) == Sum(Each(PropertyNum, ps))

(***************************************************************************)
(* Reading.                                                                *)
(***************************************************************************)
IsZero(p) ==
  IF property_id[p.id].kind = "variable" THEN p.val = 0 ELSE \A i \in DOMAIN p.val : p.val[i] = 0

\* What both constructors of a property refuse beyond its layout.
PropertyError(p) ==
  LET class == property_id[p.id]
  IN CASE class.zero # None /\ IsZero(p) -> class.zero
       [] class.above # None /\ p.val[1] > 1 -> class.above
       [] OTHER -> None

\* The constructors for applications also refuse what is not text, where that of
\* user_property(buffer, buffer, error_code&) drops the result of the check.
TextsOf(p) ==
  CASE property_id[p.id].kind = "text" -> {p.val}
    [] property_id[p.id].kind = "pair" -> {p.val.key, p.val.val}
    [] OTHER -> {}

ConstructError(p) ==
  IF \A s \in TextsOf(p) : utf8string_check(s) THEN PropertyError(p) ELSE Malformed

\* What the constructor makes of a value, and what val() makes of the bytes.
Construct(id, v) ==
  Prop(id, CASE property_id[id].as = "format" -> <<If(v # "binary", 1)>>
             [] property_id[id].as = "flag" -> <<If(v, 1)>>
             [] property_id[id].as = "number" -> endian_store(v, property_id[id].width)
             [] OTHER -> v)

Value(p) ==
  CASE property_id[p.id].as = "format" -> IF p.val[1] = 0 THEN "binary" ELSE "string"
    [] property_id[p.id].as = "flag" -> p.val[1] = 1
    [] property_id[p.id].as = "number" -> endian_load(p.val)
    [] OTHER -> p.val

\* The values of one property id each: a fixed number of bytes, a counted string or
\* binary value, and the two counted strings of a user_property.
ReadFixed(r, t) == insert_advance(r, "val", t.width)
ReadCounted(r, t) == Lengthed(r, "val", t.kind = "text")
ReadPair(r) ==
  Then(Lengthed(Lengthed(r, "key", FALSE), "val", FALSE),
       LAMBDA q : Set(q, "val", [key |-> q.v.key, val |-> q.v.val]))

ReadValue(r, t) ==
  CASE t.kind = "fixed" -> ReadFixed(r, t)
    [] t.kind \in {"text", "binary"} -> ReadCounted(r, t)
    [] t.kind = "variable" -> insert_advance_variable_length(r, "val")
    [] OTHER -> ReadPair(r)

\* The list of properties so far with one more, or its error.
AddProperty(r, name, p) ==
  IF PropertyError(p) # None THEN Fail(r, PropertyError(p))
  ELSE Set(r, name, Append(r.v[name], p))

\* One property.  The check of the two strings of a user_property is made and
\* its result dropped.
make_property_variant(r, name, allowed) ==
  IF \E id \in allowed : property_id[id].code = r.buf[1]
  THEN LET id == CHOOSE i \in allowed : property_id[i].code = r.buf[1]
       IN Then(ReadValue(Left(r, 1), property_id[id]),
               LAMBDA q : AddProperty([r EXCEPT !.buf = q.buf], name, Prop(id, q.v.val)))
  ELSE Fail(r, Malformed)

RECURSIVE make_properties(_, _, _)
make_properties(r, name, allowed) ==
  IF Failed(r) \/ r.buf = <<>> THEN r
  ELSE make_properties(make_property_variant(r, name, allowed), name, allowed)

\* A property length, kept as buf_name, and the properties of that many bytes.
ReadPropertiesOf(r, n, name, allowed) ==
  IF n > Len(r.buf) THEN Fail(r, Malformed)
  ELSE [make_properties(Set([r EXCEPT !.buf = SubSeq(@, 1, n)], name, <<>>), name, allowed)
          EXCEPT !.buf = SubSeq(r.buf, n + 1, Len(r.buf))]

ReadProperties(r, name, buf_name, allowed) ==
  Then(insert_advance_variable_length(r, name),
       LAMBDA q : ReadPropertiesOf(
                    Set(q, buf_name, SubSeq(r.buf, 1, Len(r.buf) - Len(q.buf))),
                    q.v[name], name, allowed))
=============================================================================
