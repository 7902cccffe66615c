------------------------------ MODULE MCBroker ------------------------------
(***************************************************************************)
(* What the clients of a run of Broker do.                                 *)
(***************************************************************************)
EXTENDS Broker

Request(cid, version, is_clean, expiry, will) ==
  [cid |-> cid, version |-> version, clean |-> is_clean, expiry |-> expiry, will |-> will,
   login |-> TRUE]
V3(cid, is_clean) == Request(cid, "v3_1_1", is_clean, "none", None)
V5(cid, is_clean, expiry) == Request(cid, "v5", is_clean, expiry, None)
Willed(r, c, delay, expires) ==
  [r EXCEPT !.will = [from |-> c, delay |-> delay, expires |-> expires,
                      p |-> [topic |-> <<"x">>, m |-> 9, qos |-> 1, retain |-> FALSE, expires |-> FALSE]]]

Entry(share, topic, qos, rh) ==
  [share |-> share, topic |-> topic, qos |-> qos, nl |-> FALSE, rap |-> FALSE, rh |-> rh]
Message(topic, m, qos, retained, expires) ==
  [topic |-> topic, m |-> m, qos |-> qos, retain |-> retained, expires |-> expires]

\* f gives the connections that are not left out their sets.
PerConn(f) == [c \in Conns |-> IF c \in DOMAIN f THEN f[c] ELSE {}]

Setup(online, requests, entries, pubs, drops) ==
  [online |-> online, requests |-> PerConn(requests), entries |-> PerConn(entries),
   unsubscribe |-> FALSE, pubs |-> PerConn(pubs), drops |-> drops, races |-> {}]

MCTopics == {<<"a">>, <<"b">>, <<"a", "b">>, <<"b", "b">>, <<"a", "b", "c">>, <<"$SYS">>, <<"$SYS", "b">>}
MCFilters == {<<"a">>, <<"#">>, <<"a", "#">>, <<"a", "b">>, <<"a", "+">>, <<"a", "+", "c">>, <<"$SYS", "#">>,
              <<"a", "b", "#">>, <<"$SYS", "+">>}

Both == <<<<1, V5("A", TRUE, "none")>>, <<2, V5("B", TRUE, "none")>>>>

\* Filters of two clients come and go, one by one and with their session.
Filtering ==
  [Setup(Both, <<>>,
         (1 :> {Entry("", f, 0, "never") : f \in {<<"a", "b">>, <<"a", "#">>}})
           @@ (2 :> {Entry("", <<"+", "b">>, 0, "never"), Entry("", <<"#">>, 0, "never"),
                     Entry("g", <<"a", "b">>, 0, "never")}),
         <<>>, {2}) EXCEPT !.unsubscribe = TRUE]

\* Messages are retained, replaced, erased and expire.
Retaining ==
  Setup(Both, <<>>, <<>>,
        (1 :> {Message(t, m, 0, TRUE, FALSE) : t \in {<<"a">>, <<"a", "b">>, <<"$SYS", "b">>}, m \in {0, 1}})
          @@ (2 :> {Message(t, 2, 0, TRUE, t = <<"a", "b">>) : t \in {<<"a">>, <<"a", "b">>, <<"a", "b", "c">>}}),
        {})

\* Two members share a subscription.
Sharing ==
  [Setup(Both, <<>>, [c \in {1, 2} |-> {Entry("g", <<"a">>, 0, "never")}],
         1 :> {Message(<<"a">>, 1, 0, FALSE, FALSE)}, {2}) EXCEPT !.unsubscribe = TRUE]

\* A client keeps its session, or not, over three connections, and another one
\* publishes to it.
Keeping(last, r, pubs) ==
  Setup(<<<<1, V5("B", TRUE, "none")>>>>, [c \in 2 .. last |-> r],
        [c \in 2 .. last |-> {Entry("", <<"a">>, 2, "new")}], 1 :> pubs, 2 .. last)

\* A client keeps its session, sends QoS 2 messages, and sends them again.
Sending ==
  Setup(<<>>, [c \in {1, 2, 3} |-> {V5("A", FALSE, "never"), V5("A", TRUE, "never")}], <<>>,
        [c \in {1, 2, 3} |-> {Message(<<"a">>, m, 2, FALSE, FALSE) : m \in {1, 2}}], {1, 2})

\* Wills at once, after a delay, and that expire, over three connections.
Willing ==
  Setup(<<<<1, V5("B", TRUE, "none")>>>>,
        [c \in {2, 3, 4} |-> {Willed(V5("A", is_clean, expiry), c, delay, FALSE) :
                                is_clean \in BOOLEAN, expiry \in {"never"}, delay \in BOOLEAN}
                               \cup {Willed(V5("A", TRUE, "never"), c, TRUE, TRUE)}],
        1 :> {Entry("", <<"x">>, 1, "new")}, <<>>, {2, 3, 4})

\* A session that expires, with a will that is delayed or not.
Expiring ==
  Setup(<<>>, (1 :> {Willed(V5("A", FALSE, "finite"), 1, delay, FALSE) : delay \in BOOLEAN})
                @@ [c \in {2, 3} |-> {V5("A", FALSE, "finite"), V5("A", TRUE, "none")}],
        [c \in {1, 2} |-> {Entry("", <<"a">>, 1, "new")}], <<>>, {1, 2})

\* A client without id, refused or given one; another one that is refused when it
\* wants to take a session over.
Anonymous ==
  Setup(<<>>, (1 :> {V3("", TRUE), V3("", FALSE), V5("", FALSE, "none")}) @@ (2 :> {V5("B", TRUE, "none")})
                @@ (3 :> {[V5("B", TRUE, "none") EXCEPT !.login = FALSE]}),
        1 :> {Entry("", <<"a">>, 1, "new")}, 2 :> {Message(<<"a">>, 1, 1, FALSE, FALSE)}, {1})

MCSetups ==
  {Filtering, Retaining, Sharing, Sending, Willing, Expiring, Anonymous,
   Keeping(3, {V3("A", FALSE), V3("A", TRUE)},
           {Message(<<"a">>, 1, 1, FALSE, FALSE), Message(<<"a">>, 2, 2, FALSE, TRUE)}),
   Keeping(4, {V5("A", FALSE, "never"), V5("A", TRUE, "never")}, {Message(<<"a">>, 2, 2, FALSE, FALSE)}),
   Keeping(4, {V5("A", FALSE, "none")}, {Message(<<"a">>, 1, 1, TRUE, TRUE)})}

\* The client is back before its session expires.
ExpirySetups ==
  {[Setup(<<>>, [c \in {1, 2} |-> {V5("A", FALSE, "finite")}], <<>>, <<>>, {1})
      EXCEPT !.races = {"reconnect_before_expiry"}]}
=============================================================================
