------------------------------ MODULE Packets ------------------------------
(***************************************************************************)
(* The MQTT control packets as the connection looks at them.  Topics and   *)
(* payloads are opaque; of the properties of v5 only those that change the *)
(* state of a connection are kept.  Lengths are kept as far as the Maximum *)
(* Packet Size tells packets apart: a control packet has length            *)
(* ControlSize, a PUBLISH packet its payload plus what a topic name and a  *)
(* Topic Alias property add to it.                                         *)
(***************************************************************************)
EXTENDS Integers, Sequences, FiniteSets

CONSTANTS MaxPacketId,        \* the highest packet identifier
          ReceiveMaximumMax,  \* the highest Receive Maximum
          MaxAlias,           \* the highest topic alias
          Topics,             \* non-empty topic names
          Payloads            \* payloads

ASSUME PacketsAssumption ==
  /\ MaxPacketId \in Nat \ {0}
  /\ ReceiveMaximumMax \in Nat \ {0}
  /\ MaxAlias \in Nat
  /\ "" \notin Topics

PacketIds == 1 .. MaxPacketId
Aliases == 1 .. MaxAlias
Versions == {"v3_1_1", "v5"}

\* An absent topic name, packet identifier, alias or maximum.
NoTopic == ""
NoId == 0
NoAlias == 0
NoMaximum == 0
NoKeepAlive == -1

\* packet_size_no_limit: 1 + 4 + 128^4 bytes.
NoLimit == 268435461

ControlSize == 2
TopicSize == 2
AliasSize == 1

\* A packet without variable header fields the connection looks at.
Plain(type) == [type |-> type]
PlainPackets == [type : {"pingreq", "pingresp", "disconnect", "auth"}]

WithId(type, pid) == [type |-> type, pid |-> pid]
IdPackets ==
  [type : {"pubrel", "pubcomp", "subscribe", "suback", "unsubscribe", "unsuback"},
   pid : PacketIds]

\* PUBACK and PUBREC: ok is "no error in the reason code".
Answer(type, pid, ok) == [type |-> type, pid |-> pid, ok |-> ok]
AnswerPackets == [type : {"puback", "pubrec"}, pid : PacketIds, ok : BOOLEAN]

\* CONNECT and CONNACK.  expiry says whether the Session Expiry Interval is not 0;
\* keep_alive is in ticks, 0 for none, server_keep_alive -1 when absent;
\* tam, rmax and mps are the Topic Alias Maximum, the Receive Maximum and the
\* Maximum Packet Size, 0 when absent; sp is Session Present.
ConnectPackets ==
  [type : {"connect"}, ver : Versions, clean : BOOLEAN, expiry : BOOLEAN,
   keep_alive : Nat, tam : 0 .. MaxAlias, rmax : 0 .. ReceiveMaximumMax, mps : Nat]
ConnackPackets ==
  [type : {"connack"}, ok : BOOLEAN, sp : BOOLEAN, tam : 0 .. MaxAlias,
   rmax : 0 .. ReceiveMaximumMax, mps : Nat,
   server_keep_alive : Nat \cup {NoKeepAlive}]

\* CONNECT and CONNACK packets of v3.1.1 have no properties.
WithoutProperties(p) == p.tam = 0 /\ p.rmax = NoMaximum /\ p.mps = NoMaximum

PublishPacket(qos, pid, topic, alias, payload) ==
  [type |-> "publish", qos |-> qos, pid |-> pid, topic |-> topic,
   alias |-> alias, payload |-> payload, dup |-> FALSE]

PublishPackets ==
  [type : {"publish"}, qos : 0 .. 2, pid : PacketIds \cup {NoId},
   topic : Topics \cup {NoTopic}, alias : 0 .. MaxAlias, payload : Payloads,
   dup : BOOLEAN]
PubrelPackets == [type : {"pubrel"}, pid : PacketIds]

Packet == PlainPackets \cup IdPackets \cup AnswerPackets \cup PublishPackets
            \cup ConnectPackets \cup ConnackPackets

\* What the store of a connection holds: PUBLISH of QoS 1 and 2, and PUBREL.
StorePackets ==
  {p \in PublishPackets : p.qos > 0 /\ p.pid # NoId} \cup PubrelPackets

\* Length of a packet.  Every payload has length 1.
Size(p) ==
  IF p.type # "publish" THEN ControlSize
  ELSE ControlSize + 1
         + (IF p.topic = NoTopic THEN 0 ELSE TopicSize)
         + (IF p.alias = NoAlias THEN 0 ELSE AliasSize)

\* packet_traits.hpp, for a packet of the given protocol version.
ClientSendable(type) == type \notin {"connack", "pingresp", "suback", "unsuback"}
ServerSendable(ver, type) ==
  /\ type \notin {"connect", "pingreq", "subscribe", "unsubscribe"}
  /\ type = "disconnect" => ver = "v5"
OwnPacketId(p) == p.type \in {"publish", "pubrel", "subscribe", "unsubscribe"}

\* The packet that answers a stored packet: response_packet_type().
ResponseTo(p) == IF p.type = "pubrel" THEN "pubcomp"
                 ELSE IF p.qos = 1 THEN "puback" ELSE "pubrec"

\* A sequence without its element at position i.
RemoveAt(s, i) == [j \in 1 .. Len(s) - 1 |-> IF j < i THEN s[j] ELSE s[j + 1]]
=============================================================================
