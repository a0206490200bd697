---------------------------- MODULE MCHandshake ----------------------------
(***************************************************************************)
(* Handshake with keep-alives and limits varied one group at a time.       *)
(***************************************************************************)
EXTENDS Handshake

\* No keep-alive, the largest and the smallest one, and some in between.
KeepAliveTimes == {0, 1, 2, 4, U16_MAX}

MCClientOptions ==
    ConnectorV3(KeepAliveTimes, {2}, {0}) \cup ConnectorV5(KeepAliveTimes, {0}, {0})
    \cup ConnectorV5({2}, {1}, {0, 6, 8, 60}) \cup ConnectorV5({2}, {0, 5}, {60})

\* The two timeouts of the server's handshake are set together.
MCServerOptions == {o \in
    Server({{"v3", "v5"}}, ServerV5({0}, {0}) \cup ServerV5({6, 50}, {4}), ServerV3({0}, {2}))
    \cup Server({{"v3"}}, ServerV5({0}, {4}), ServerV3({6, 50}, {2}))
    \cup Server({{"v5"}}, ServerV5({0}, {4}), ServerV3({50}, {2})) :
        o.detect_timeout = o.connect_timeout}

MCChanges == {[receive_max |-> 1, max_packet_size |-> 40, server_keepalive_sec |-> 0],
              [receive_max |-> 6, max_packet_size |-> 40, server_keepalive_sec |-> 4]}
=============================================================================
