---------------------------- MODULE MCConnection ----------------------------
(***************************************************************************)
(* Values of the constants of ConnectionUse for its runs.                  *)
(***************************************************************************)
EXTENDS ConnectionUse

V3Connect(clean, keep_alive) ==
  [type |-> "connect", ver |-> "v3_1_1", clean |-> clean, expiry |-> FALSE,
   keep_alive |-> keep_alive, tam |-> 0, rmax |-> 0, mps |-> 0]
V5Connect(clean, expiry, keep_alive, tam, rmax, mps) ==
  [type |-> "connect", ver |-> "v5", clean |-> clean, expiry |-> expiry,
   keep_alive |-> keep_alive, tam |-> tam, rmax |-> rmax, mps |-> mps]
Connack(ok, sp, tam, rmax, mps, ka) ==
  [type |-> "connack", ok |-> ok, sp |-> sp, tam |-> tam, rmax |-> rmax,
   mps |-> mps, server_keep_alive |-> ka]

\* Packet identifiers: sessions that are kept or cleared as a whole.
IdsConnects ==
  {V3Connect(c, 0) : c \in BOOLEAN}
    \cup {V5Connect(ce[1], ce[2], 0, 0, 1, 0) :
            ce \in {<<TRUE, FALSE>>, <<TRUE, TRUE>>, <<FALSE, TRUE>>}}
IdsConnacks == {Connack(TRUE, sp, 0, 0, 0, NoKeepAlive) : sp \in BOOLEAN}
                 \cup {Connack(TRUE, TRUE, 0, 1, 0, NoKeepAlive), Connack(FALSE, FALSE, 0, 0, 0, NoKeepAlive)}
IdsRestorable ==
  LET stored(q, pid) == [PublishPacket(q, pid, "t1", 0, "x") EXCEPT !.dup = TRUE]
  IN {<<stored(1, 2)>>, <<stored(2, 1), WithId("pubrel", 2)>>}
IdsSetups == {<<"client", "v5">>, <<"server", "undetermined">>}
AllSetups == {<<"client", "v3_1_1">>, <<"client", "v5">>, <<"server", "undetermined">>}

\* Limits of v5: every verdict of send(PUBLISH) happens.
V5Setups == {<<"client", "v5">>, <<"server", "v5">>}
LimitsConnects == {V5Connect(TRUE, TRUE, 0, 0, 0, 0), V5Connect(FALSE, TRUE, 0, 2, 1, 5)}
LimitsConnacks == {Connack(TRUE, FALSE, 0, 0, 0, NoKeepAlive),
                   Connack(TRUE, TRUE, 2, 1, 4, NoKeepAlive),
                   Connack(TRUE, FALSE, 2, 0, 0, NoKeepAlive)}

\* Keep alive.
TimedConnects == {V3Connect(TRUE, ka) : ka \in {0, 4}}
                   \cup {V5Connect(TRUE, FALSE, ka, 0, 0, 0) : ka \in {0, 4}}
TimedConnacks == {Connack(TRUE, FALSE, 0, 0, 0, ka) : ka \in {NoKeepAlive, 0, 4}}
                   \cup {Connack(FALSE, FALSE, 0, 0, 0, NoKeepAlive)}
=============================================================================
