--------------------------- MODULE ConnectionUse ---------------------------
(***************************************************************************)
(* One connection object between an application and a network peer.        *)
(*                                                                         *)
(* The application calls the connection the way the tests and asio_bind    *)
(* do: a client object is kept over reconnections, a server object lives   *)
(* for one network connection; notify_closed() ends a network connection   *)
(* before the next one begins, and each carries one CONNECT.  A packet     *)
(* identifier belongs to the application (held) from acquire or register   *)
(* until it passes it to send(), and again (rec) between a PUBREC that is  *)
(* not answered automatically and the PUBREL it sends.  Careless names the *)
(* outcomes of send() that a careful application and I/O layer rule out    *)
(* beforehand.                                                             *)
(*                                                                         *)
(* The peer sends any packet its role may send, at any time.               *)
(***************************************************************************)
EXTENDS Connection

CONSTANTS
  Setups,          \* <<role, protocol version>> a connection is constructed with
  UsedOptions,     \* options the application sets and resets
  UsedQos,         \* QoS of the PUBLISH packets sent and received
  UsedAliases,     \* topic aliases in PUBLISH packets, 0 for none
  UsedIdPackets,   \* which of SUBSCRIBE and UNSUBSCRIBE are used
  Connects,        \* CONNECT packets
  Connacks,        \* CONNACK packets
  PeerIds,         \* packet identifiers the peer uses for its own packets
  Restorable,      \* sessions a server may restore, as get_stored_packets() gave them
  PingreqIntervals, PingrespTimeouts,  \* arguments of the two duration setters
  Careless

Risky == {"not_allocated", "alias_refused", "receive_maximum_exceeded", "not_connected",
          "send_error"}

ASSUME UseAssumption ==
  /\ Setups \subseteq Roles \X (Versions \cup {"undetermined"})
  /\ \A s \in Setups : s[1] = "client" => s[2] \in Versions
  /\ UsedOptions \subseteq Options
  /\ UsedQos \subseteq 0 .. 2
  /\ UsedAliases \subseteq 0 .. MaxAlias
  /\ UsedIdPackets \subseteq {"subscribe", "unsubscribe"}
  /\ Connects \subseteq ConnectPackets
  /\ \A p \in Connects : p.ver = "v3_1_1" => ~ p.expiry /\ WithoutProperties(p)
  /\ Connacks \subseteq ConnackPackets
  /\ PeerIds \subseteq PacketIds
  /\ Restorable \subseteq Seq(StorePackets)
  /\ \A pvs \in Restorable : \A i, j \in DOMAIN pvs : pvs[i].pid = pvs[j].pid => i = j
  /\ \A pvs \in Restorable : \A i \in DOMAIN pvs : pvs[i].type = "publish" =>
       pvs[i].topic # NoTopic /\ pvs[i].alias = NoAlias
  /\ PingreqIntervals \subseteq Nat /\ PingrespTimeouts \subseteq Nat
  /\ Careless \subseteq Risky

VARIABLES link,  \* "down", "fresh" before the CONNECT packet, "up" after it
          held, rec,
          resumed  \* how many exchanges the network connection continued

vars == <<con, link, held, rec, resumed>>

\* The PUBLISH exchanges begun and not completed.
InFlight(s, r) == s.pid_puback \cup s.pid_pubrec \cup s.pid_pubcomp \cup r

\* Those begun before: a server counts PUBLISH packets from the CONNECT packet on.
Resumed(s, r) == Cardinality(InFlight(s, r)) - s.publish_send_count

Init ==
  /\ \E s \in Setups : con = NewConnection(s[1], s[2])
  /\ link = "down" /\ held = {} /\ rec = {} /\ resumed = 0

TypeOK ==
  /\ con \in ConnectionType
  /\ link \in {"down", "fresh", "up"}
  /\ held \subseteq PacketIds /\ rec \subseteq PacketIds
  /\ resumed \in Int
-----------------------------------------------------------------------------
IsClient == con.role = "client"
V5 == con.protocol_version = "v5"

\* A server constructs a connection for every network connection.
LinkUp ==
  /\ link = "down" /\ link' = "fresh" /\ UNCHANGED resumed
  /\ \/ IsClient /\ UNCHANGED <<con, held, rec>>
     \/ /\ ~ IsClient
        /\ \E s \in Setups : s[1] = con.role
             /\ con' = [NewConnection(s[1], s[2]) EXCEPT !.option = con.option]
        /\ held' = {} /\ rec' = {}

LinkDown ==
  /\ link # "down" /\ link' = "down"
  /\ NotifyClosed
  /\ UNCHANGED <<held, rec, resumed>>

\* Packet identifiers.
Acquire ==
  /\ \E pid \in PacketIds : AcquireUniquePacketId(pid) /\ held' = held \cup {pid}
  /\ UNCHANGED <<link, rec, resumed>>

Register_ ==
  /\ \E pid \in PacketIds : RegisterPacketId(pid) /\ held' = held \cup {pid}
  /\ UNCHANGED <<link, rec, resumed>>

Release ==
  /\ \E pid \in held : ReleasePacketId(pid) /\ held' = held \ {pid}
  /\ UNCHANGED <<link, rec, resumed>>

\* A server continues a session that is to be kept before it sends anything.
Restore ==
  /\ ~ IsClient /\ con.status = "connecting" /\ con.need_store
  /\ con.pid_man = {} /\ con.store = <<>>
  /\ \E pvs \in Restorable : RestorePackets(pvs)
  /\ UNCHANGED <<link, held, rec, resumed>>

RestoreHandled ==
  /\ ~ IsClient /\ con.status = "connecting"
  /\ \E pids \in SUBSET PeerIds : RestoreQos2PublishHandledPids(pids)
  /\ UNCHANGED <<link, held, rec, resumed>>

\* Setters.
Configure ==
  /\ \/ \E o \in UsedOptions, val \in BOOLEAN : SetOption(o, val)
     \/ \E d \in PingreqIntervals : SetPingreqInterval(d)
     \/ \E d \in PingrespTimeouts : SetPingrespRecvTimeout(d)
  /\ UNCHANGED <<link, held, rec, resumed>>

\* The CONNACK packets of the protocol version.
UsedConnacks ==
  {p \in Connacks : V5 \/ (WithoutProperties(p) /\ p.server_keep_alive = NoKeepAlive)}

\* A clean CONNECT takes all packet identifiers from the application.
SendConnect ==
  /\ IsClient /\ link = "fresh" /\ link' = "up"
  /\ \E p \in Connects :
       /\ p.ver = con.protocol_version /\ Send(p)
       /\ held' = IF p.clean THEN {} ELSE held
       /\ rec' = IF p.clean THEN {} ELSE rec
  /\ UNCHANGED resumed

SendConnack ==
  /\ ~ IsClient /\ con.status = "connecting"
  /\ \E p \in UsedConnacks : Send(p)
  /\ resumed' = Resumed(con', rec)
  /\ UNCHANGED <<link, held, rec>>

\* A PUBLISH of QoS 1 or 2 hands its packet identifier over.
Publish ==
  \E qos \in UsedQos, pid \in PacketIds \cup {NoId},
     topic \in Topics \cup {NoTopic}, alias \in UsedAliases, payload \in Payloads :
    LET p == PublishPacket(qos, pid, topic, alias, payload)
        verdict == PublishVerdict(con, p)
    IN /\ con.protocol_version \in Versions
       /\ topic = NoTopic => alias # NoAlias
       /\ alias # NoAlias => V5
       /\ IF qos = 0 THEN pid = NoId
          ELSE pid \in IF "not_allocated" \in Careless THEN PacketIds \ rec ELSE held
       /\ verdict \in Risky => verdict \in Careless
       /\ SendPublish(p)
       /\ held' = held \ {pid}
       /\ UNCHANGED <<link, rec, resumed>>

SendWithId ==
  /\ IsClient /\ con.status = "connected"
  /\ \E type \in UsedIdPackets, pid \in held :
       Send(WithId(type, pid)) /\ held' = held \ {pid}
  /\ UNCHANGED <<link, rec, resumed>>

SendPubrel ==
  /\ con.status = "connected"
  /\ \E pid \in rec : Send(WithId("pubrel", pid)) /\ rec' = rec \ {pid}
  /\ UNCHANGED <<link, held, resumed>>

\* The application answers the peer.
SendAnswer ==
  /\ con.status = "connected"
  /\ \E pid \in PeerIds, ok \in BOOLEAN :
       /\ ok \/ V5
       /\ \/ \E type \in {"puback", "pubrec"} : Send(Answer(type, pid, ok))
          \/ ok /\ Send(WithId("pubcomp", pid))
  /\ UNCHANGED <<link, held, rec, resumed>>

\* The packets without a packet identifier.
SendPlain ==
  /\ con.status = "connected"
  /\ \E type \in {"pingreq", "pingresp", "auth", "disconnect"} :
       /\ type = "auth" => V5
       /\ Send(Plain(type))
  /\ UNCHANGED <<link, held, rec, resumed>>

\* The I/O layer cannot write the packet and calls release_packet_id() with its
\* identifier, as on_send() asks it to.
SendError ==
  /\ "send_error" \in Careless /\ IsClient /\ con.status = "connected"
  /\ \E type \in UsedIdPackets, pid \in held :
       /\ con' = ReleaseIds(SendPacket(con, WithId(type, pid)), {pid})
       /\ held' = held \ {pid}
  /\ UNCHANGED <<link, rec, resumed>>

\* A timer that is set fires in its last tick.
TimerFires(kind) ==
  /\ con.protocol_version \in Versions
  /\ con.timer[kind] = 1
  /\ NotifyTimerFired(kind)
  /\ UNCHANGED <<link, held, rec, resumed>>

\* Time passes, but no timer that is due is passed over.
Tick ==
  /\ \A k \in Timers : con.timer[k] # 1
  /\ \E k \in Timers : con.timer[k] # 0
  /\ con' = [con EXCEPT !.timer = [k \in Timers |-> IF @[k] = 0 THEN 0 ELSE @[k] - 1]]
  /\ UNCHANGED <<link, held, rec, resumed>>
-----------------------------------------------------------------------------
\* What the peer may send, in the protocol version of the connection.
PeerPublish ==
  {PublishPacket(qos, pid, topic, alias, payload) :
     qos \in UsedQos, pid \in PeerIds \cup {NoId}, topic \in Topics \cup {NoTopic},
     alias \in UsedAliases, payload \in Payloads}

Outcomes == IF V5 THEN BOOLEAN ELSE {TRUE}
PeerAnswers ==
  {Answer(type, pid, ok) : type \in {"puback", "pubrec"}, pid \in PacketIds, ok \in Outcomes}
PeerIdPackets ==
  {WithId(type, pid) : type \in {"pubcomp"} \cup IF IsClient THEN {"suback", "unsuback"} ELSE {},
                       pid \in PacketIds}
    \cup {WithId(type, pid) : type \in {"pubrel"} \cup IF IsClient THEN {} ELSE UsedIdPackets,
                              pid \in PeerIds}
PeerPlain ==
  {Plain(type) : type \in (IF V5 THEN {"auth", "disconnect"} ELSE {})
                             \cup IF IsClient THEN {"pingresp"} ELSE {"pingreq", "disconnect"}}

PeerPackets ==
  {p \in PeerPublish : /\ p.qos = 0 <=> p.pid = NoId
                       /\ ~ V5 => p.alias = NoAlias /\ p.topic # NoTopic}
    \cup PeerAnswers \cup PeerIdPackets \cup PeerPlain

\* A server takes the version of the first CONNECT when it has none.
ReceiveConnect ==
  /\ ~ IsClient /\ link = "fresh" /\ link' = "up"
  /\ \E p \in Connects :
       con.protocol_version \in {p.ver, "undetermined"} /\ Recv(p)
  /\ UNCHANGED <<held, rec, resumed>>

\* The first CONNECT cannot be parsed.
ReceiveBadConnect ==
  /\ ~ IsClient /\ link = "fresh" /\ link' = "up"
  /\ RecvMalformed(TRUE)
  /\ UNCHANGED <<held, rec, resumed>>

\* recv() passes the packet to its handler.
Handled(p) == Size(p) <= con.maximum_packet_size_recv /\ ProtocolSatisfied(con, p)

\* A CONNACK without Session Present takes all identifiers from the application.
ReceiveConnack ==
  /\ IsClient /\ link = "up"
  /\ \E p \in UsedConnacks :
       LET cleared == Handled(p) /\ p.ok /\ ~ p.sp
       IN /\ Recv(p)
          /\ held' = IF cleared THEN {} ELSE held
          /\ rec' = IF cleared THEN {} ELSE rec
  /\ resumed' = IF con.status = "connecting" THEN Resumed(con', rec') ELSE resumed
  /\ UNCHANGED link

\* A PUBREC that is not answered automatically gives the identifier to the
\* application.
Receive ==
  /\ link = "up" /\ con.protocol_version \in Versions
  /\ \E p \in PeerPackets :
       /\ Recv(p)
       /\ rec' = IF /\ Handled(p)
                    /\ p.type = "pubrec" /\ p.ok /\ p.pid \in con.pid_pubrec
                    /\ ~ IsSet(con, "auto_pub_response")
                 THEN rec \cup {p.pid} ELSE rec
  /\ UNCHANGED <<link, held, resumed>>

ReceiveBad ==
  /\ link # "down"
  /\ RecvMalformed(FALSE) \/ RecvUnframed
  /\ UNCHANGED <<link, held, rec, resumed>>

Next ==
  \/ LinkUp \/ LinkDown
  \/ Acquire \/ Register_ \/ Release \/ Restore \/ RestoreHandled \/ Configure
  \/ SendConnect \/ SendConnack \/ Publish \/ SendWithId \/ SendPubrel \/ SendAnswer
  \/ SendPlain \/ SendError \/ Tick \/ \E kind \in Timers : TimerFires(kind)
  \/ ReceiveConnect \/ ReceiveBadConnect \/ ReceiveConnack \/ Receive \/ ReceiveBad

Spec == Init /\ [][Next]_vars
-----------------------------------------------------------------------------
(***************************************************************************)
(* Properties                                                              *)
(***************************************************************************)
\* The identifiers pid_man_ holds are those the application holds and those an
\* answer is awaited for, and no identifier has two of these uses: none leaks,
\* and none is free or reused while something still waits for it.
IdsAccounted ==
  LET uses == <<held, rec, con.pid_suback, con.pid_unsuback, con.pid_puback,
                con.pid_pubrec, con.pid_pubcomp>>
  IN /\ con.pid_man = UNION {uses[i] : i \in 1 .. 7}
     /\ \A i, j \in 1 .. 7 : i # j => uses[i] \cap uses[j] = {}

\* The answers the stored packets wait for, and those the connection accepts.
StoredAnswers(s) == {<<ResponseTo(s.store[i]), s.store[i].pid>> : i \in DOMAIN s.store}
AwaitedAnswers(s) == ({"puback"} \X s.pid_puback) \cup ({"pubrec"} \X s.pid_pubrec)
                       \cup ({"pubcomp"} \X s.pid_pubcomp)

\* "sotred packets mean inflight packets": what get_stored_packets() returns,
\* and send_stored() sends again, is waiting for its answer under an identifier
\* that is in use.
StoredIsInFlight ==
  /\ StoredAnswers(con) \subseteq AwaitedAnswers(con)
  /\ \A i \in DOMAIN con.store : con.store[i].pid \in con.pid_man

\* A stored packet leaves the store only with the answer it waits for or with
\* the whole session, and those that stay keep their order.
StoreKeepsUnanswered ==
  [][ \/ con'.store = <<>> /\ con'.pid_man = {}
      \/ /\ \A i \in DOMAIN con.store :
              \/ \E j \in DOMAIN con'.store : con'.store[j] = con.store[i]
              \/ <<ResponseTo(con.store[i]), con.store[i].pid>> \notin AwaitedAnswers(con')
         /\ \A i, j \in DOMAIN con.store, k, l \in DOMAIN con'.store :
              (/\ i < j /\ con.store[i] = con'.store[k]
               /\ con.store[j] = con'.store[l]) => k < l ]_vars

\* A stored PUBLISH can be sent on a later network connection, whose topic alias
\* tables are new: it has its topic name and no alias.
StoredHasTopic ==
  \A i \in DOMAIN con.store :
    con.store[i].type = "publish" => con.store[i].topic # NoTopic /\ con.store[i].alias = NoAlias

\* publish_send_count_ is the number of exchanges begun on this network
\* connection and not completed, less the continued ones completed on it: the
\* packets send_stored() sends again are not counted, their answers are.
CountIsInFlight ==
  con.status = "connected" /\ con.publish_send_max # NoMaximum =>
    con.publish_send_count =
      (Cardinality(InFlight(con, rec)) - resumed) % (ReceiveMaximumMax + 1)

\* The sending table of topic aliases: an alias has one topic name and a topic
\* name one alias, and get_lru_alias() always has an entry to return.
AliasTableSound == TableSound(con.topic_alias_send)

\* No keep alive timer of an ended connection stays set: pingreq_recv needs a
\* CONNECT and pingresp_recv a CONNACK, and each end cancels them.
TimersFollowStatus ==
  /\ con.timer["pingreq_recv"] # 0 => con.status # "disconnected"
  /\ con.timer["pingresp_recv"] # 0 => con.status = "connected"

\* Timers fire, time goes on whatever the application does, and the I/O layer
\* closes the network connection once on_close() was called.
Fairness ==
  /\ SF_vars(Tick)
  /\ \A k \in Timers : WF_vars(TimerFires(k))
  /\ WF_vars(con.closed /\ LinkDown)

FairSpec == Spec /\ Fairness

\* From some time on nothing arrives.  A step that a timer can take as well is
\* taken for the timer's, or an automatic packet would break this premise.
PeerSilent ==
  <>[][(Receive \/ ReceiveConnect \/ ReceiveConnack \/ ReceiveBad \/ ReceiveBadConnect)
         => \E k \in Timers : TimerFires(k)]_vars

\* A server whose pingreq_recv timer is set while it is connected ends the
\* connection to a client that fell silent.
ArmedKeepAliveEnforced ==
  PeerSilent => ((con.timer["pingreq_recv"] # 0 /\ con.status = "connected")
                   ~> con.status = "disconnected")

\* From some time on the application neither sends anything itself, which would
\* defer the next PINGREQ or set the pingresp_recv timer again, nor sets a timer.
\* Steps of a timer are excepted as in PeerSilent.
ApplicationQuiet ==
  <>[][(SendPlain \/ SendAnswer \/ SendPubrel \/ SendWithId \/ Publish \/ Configure)
         => \E k \in Timers : TimerFires(k)]_vars

TimeoutBelowInterval ==
  0 < con.pingresp_recv_timeout /\ con.pingresp_recv_timeout < con.pingreq_send_interval

\* A client whose next PINGREQ is scheduled ends the connection to a server that
\* fell silent, however many PINGREQ packets were answered before, if it waits
\* less long for a PINGRESP than between two PINGREQ packets.
LostServerNoticed ==
  PeerSilent /\ ApplicationQuiet /\ <>[]TimeoutBelowInterval =>
    ((IsClient /\ con.status = "connected" /\ con.timer["pingreq_send"] # 0)
       ~> con.status = "disconnected")

\* "Acquire a unique packet_id": an identifier the application holds stays in
\* use until the application gives it away.
HeldIsInUse == held \subseteq con.pid_man
=============================================================================
