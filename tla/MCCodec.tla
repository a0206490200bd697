------------------------------ MODULE MCCodec ------------------------------
(***************************************************************************)
(* Packets for Codec: lengths on both sides of the steps of a variable     *)
(* length integer, answers with diagnostics that fit or do not fit into    *)
(* what the client takes, and frames of other implementations.             *)
(***************************************************************************)
EXTENDS Codec, TLC

\* A packet with some of its properties set.
Set(p, f) == [p EXCEPT !.props = f @@ p.props]

ConnectIds == V5!ConnectOnce \cup {V5!USER}
Connect(client_id, f) ==
    Set([V5!Connect_default EXCEPT !.clean_start = 1, !.keep_alive = 30, !.client_id = client_id], f)

Will(f) == Set(V5!WithDefaults([type |-> "Will", qos |-> 1, retain |-> 1, topic |-> 3, message |-> 10],
                               V5!WillOnce, {V5!USER}), f)

\* One value of every property, and what a value that is not the default looks like.
One(id) == IF id \in V5!Flags THEN <<IF id \in {V5!REQ_PROB_INFO, V5!RETAIN_AVAIL, V5!WILDCARD_SUB_AVAIL,
                                                V5!SUB_IDS_AVAIL, V5!SHARED_SUB_AVAIL} THEN 0 ELSE 1>>
           ELSE <<7>>
Only(id) == id :> One(id)
All(ids) == [id \in ids |-> IF id = V5!USER THEN <<2, 3>> ELSE One(id)]
Except(f, id) == [x \in DOMAIN f \ {id} |-> f[x]]

\* The connections further packets are sent on: a limit and a wish for no diagnostics.
Limits == {<<>>, <<9>>, <<10>>, <<11>>, <<13>>, <<40>>, <<140>>, <<16400>>}
Base(max, info) == Connect(1, V5!PACKET_SIZE_MAX :> max @@ V5!REQ_PROB_INFO :> info)
Base5 == {Base(max, <<1>>) : max \in Limits} \cup {Base(<<>>, <<0>>), Base(<<40>>, <<0>>)}

Connects5 ==
    Base5
    \cup {Connect(2, Only(id)) : id \in ConnectIds}
    \cup {Connect(2, All(ConnectIds))}
    \cup {[Connect(2, <<>>) EXCEPT !.last_will = <<Will(f)>>] :
              f \in {Only(id) : id \in V5!WillOnce \cup {V5!USER}} \cup {All(V5!WillOnce \cup {V5!USER})}}
    \cup {[Connect(id, V5!USER :> u) EXCEPT !.username = name, !.password = word, !.last_will = will] :
              id \in {0, 115}, u \in {<<>>, <<122>>, <<123>>}, name \in {<<>>, <<4>>}, word \in {<<>>, <<5>>},
              will \in {<<>>, <<Will(<<>>)>>}}

Connect3(id, will, name, word) ==
    [type |-> "Connect", clean_session |-> 1, keep_alive |-> 30, client_id |-> id, last_will |-> will,
     username |-> name, password |-> word]
Connects3 ==
    {Connect3(id, will, name, word) : id \in {0, 1, 115, 116}, name \in {<<>>, <<4>>}, word \in {<<>>, <<5>>},
         will \in {<<>>, <<[qos |-> 2, retain |-> 0, topic |-> 3, message |-> 10]>>}}

----------------------------------------------------------------------------
\* Answers with diagnostics.
Diagnostics == {V5!USER :> us @@ V5!REASON_STRING :> r :
                    us \in {<<>>, <<1>>, <<122>>, <<123>>, <<20, 60>>, <<16379>>},
                    r \in {<<>>, <<5>>, <<124>>}}

Ack(type, f) == Set(V5!PublishAck_default(type), f)
Status(type, f, n) ==
    Set(V5!WithDefaults([type |-> type, packet_id |-> 1, status |-> [i \in 1..n |-> IF i = 1 THEN 0 ELSE 128]],
                        {V5!REASON_STRING}, {V5!USER}), f)
ConnectAckIds == V5!ConnectAckOnce \cup {V5!USER}
ConnectAck(f) == Set([V5!ConnectAck_default EXCEPT !.session_present = 1], f)
Disconnect(f) == Set(V5!Disconnect_default, f)
Auth(f) == Set(V5!Auth_default, f)

Answers5 ==
    UNION {{Ack("PublishAck", f), Ack("PublishRelease", f), Status("SubscribeAck", f, 2),
            Status("UnsubscribeAck", f, 1), ConnectAck(f),
            Disconnect(f @@ Only(V5!SERVER_REF)), Auth(f)} : f \in Diagnostics}
    \cup {Ack("PublishReceived", <<>>), Ack("PublishComplete", <<>>), [type |-> "PingResponse"],
          ConnectAck(Except(All(ConnectAckIds), V5!PACKET_SIZE_MAX)),
          Disconnect(All(V5!DisconnectOnce \cup {V5!USER})), Auth(All(V5!AuthOnce \cup {V5!USER}))}
    \cup {ConnectAck(Only(id)) : id \in ConnectAckIds} \cup {ConnectAck(V5!PACKET_SIZE_MAX :> <<20>>)}

----------------------------------------------------------------------------
\* What a client sends.
Options == [qos : {0, 2}, no_local : {0, 1}, retain_as_published : {0, 1}, retain_handling : {0, 2}]
Filter(o) == [filter |-> 3, opts |-> o]

PublishIds == V5!PublishOnce \cup {V5!SUB_ID, V5!USER}
Publish(qos, topic, payload, f) ==
    Set(V5!WithDefaults([type |-> "Publish", qos |-> qos, dup |-> 0, retain |-> 1, topic |-> topic,
                         payload |-> payload, packet_id |-> IF qos = 0 THEN <<>> ELSE <<1>>],
                        V5!PublishOnce, {V5!SUB_ID, V5!USER}), f)
\* A topic that is too long, an id where none may be, and none where one must be.
Broken == {Publish(0, 65536, 0, <<>>), [Publish(0, 1, 0, <<>>) EXCEPT !.packet_id = <<1>>],
           [Publish(1, 1, 0, <<>>) EXCEPT !.packet_id = <<>>]}

Publishes ==
    {Publish(qos, 3, payload, <<>>) : qos \in {0, 1, 2},
         payload \in {0, 119, 120, 121, 122, 123, 16373, 16375, 16377, 16378,
                      MAX_PACKET_SIZE - 6, MAX_PACKET_SIZE - 5}}
    \cup {Publish(1, 3, 5, Only(id)) : id \in PublishIds}
    \cup {Publish(1, 3, 5, All(PublishIds) @@ V5!SUB_ID :> <<1, 128, 16384>>)}
    \cup {Publish(1, 3, 5, V5!USER :> <<n>>) : n \in {122, 123, 16377, 16378, 16379}}
    \cup {Publish(1, 3, 5, V5!SUB_ID :> <<1, 127, 128, 16383, 16384>>)}

Requests5 ==
    Publishes \cup Broken \cup {[type |-> "PingRequest"]}
    \cup {Set(V5!WithDefaults([type |-> "Subscribe", packet_id |-> 1, topic_filters |-> fs],
                               {V5!SUB_ID}, {V5!USER}), f) :
              fs \in {<<Filter(o)>> : o \in Options} \cup {<<>>, <<[Filter(CHOOSE o \in Options : TRUE) EXCEPT !.filter = 120],
                                                                  Filter(CHOOSE o \in Options : TRUE)>>},
              f \in {<<>>, V5!SUB_ID :> <<128>>, V5!USER :> <<1, 122>>}}
    \cup {Set(V5!WithDefaults([type |-> "Unsubscribe", packet_id |-> 1, topic_filters |-> fs],
                               {}, {V5!USER}), f) :
              fs \in {<<>>, <<3>>, <<3, 120>>}, f \in {<<>>, V5!USER :> <<1, 122>>}}

Requests3 ==
    {[type |-> "Publish", qos |-> qos, dup |-> 1, retain |-> 0, topic |-> 3, payload |-> payload,
      packet_id |-> id] : qos \in {0, 1, 2}, id \in {<<>>, <<1>>},
                          payload \in {0, 120, 121, 122, 123, 16377, 16378, 16379}}
    \cup {[type |-> "Subscribe", packet_id |-> 1, topic_filters |-> fs] :
              fs \in {<<>>, <<[filter |-> 3, qos |-> 1]>>, <<[filter |-> 120, qos |-> 2], [filter |-> 3, qos |-> 0]>>}}
    \cup {[type |-> "Unsubscribe", packet_id |-> 1, topic_filters |-> fs] : fs \in {<<>>, <<3>>, <<3, 120>>}}
    \cup {[type |-> t] : t \in {"PingRequest", "Disconnect"}}

Answers3 ==
    {[type |-> t, packet_id |-> 1] : t \in V3!Acks}
    \cup {[type |-> "SubscribeAck", packet_id |-> 1, status |-> s] : s \in {<<>>, <<0, 128>>}}
    \cup {[type |-> "ConnectAck", session_present |-> s, return_code |-> c] : s \in {0, 1}, c \in {0, 5}}
    \cup {[type |-> "PingResponse"]}

\* A connection of the base kind carries one more packet and then a short one, or
\* publishes around the limit of a CONNACK; a codec with an inbound limit is tried
\* with the plain one.
MCOffers(ver, e, l) ==
    IF l = <<>> THEN IF e = "server" THEN {} ELSE IF ver = "v5" THEN Connects5 ELSE Connects3
    ELSE IF Len(l) = 1 /\ l[1].packet.client_id = 1
            /\ (ver = "v5" /\ l[1].codec.max_in_size # 0 => l[1].packet = Base(<<>>, <<1>>))
    THEN IF ver = "v3" THEN IF e = "client" THEN Requests3 ELSE Answers3
         ELSE IF e = "server" THEN Answers5
         ELSE IF l[1].packet.props[V5!PACKET_SIZE_MAX] = <<>> THEN Requests5 ELSE {}
    ELSE IF Len(l) = 2 /\ l[2].from = e
    THEN {[type |-> IF e = "client" THEN "PingRequest" ELSE "PingResponse"]}
    ELSE IF Len(l) = 2 /\ l[2].packet = ConnectAck(V5!PACKET_SIZE_MAX :> <<20>>)
    THEN {Publish(1, 3, n, <<>>) : n \in 6..10}
    ELSE {}

----------------------------------------------------------------------------
\* Frames of other implementations: parts that may be left out, defaults that
\* are spelled out, properties in another order or twice.
Frame5(first, body, means) == [first |-> first, body |-> body, means |-> means]
Malformed == [type |-> "malformed"]

MCForeign(ver, l) ==
    IF Len(l) # 1 \/ l[1].packet.client_id # 1 THEN {}
    ELSE IF ver = "v3" THEN {Frame5(64, <<u16(0)>>, Malformed)}
    ELSE {Frame5(64, <<u16(1)>>, Ack("PublishAck", <<>>)),
          Frame5(64, <<u16(1), u8(0)>>, Ack("PublishAck", <<>>)),
          Frame5(224, <<>>, Disconnect(<<>>)),
          Frame5(224, <<u8(0)>>, Disconnect(<<>>)),
          Frame5(48, <<string(3), u8(2), u8(V5!UTF8_PAYLOAD), u8(0)>>,
                 [Publish(0, 3, 0, <<>>) EXCEPT !.retain = 0]),
          Frame5(64, <<u16(1), u8(0), u8(10), u8(V5!REASON_STRING), string(1), u8(V5!USER), pair(1)>>,
                 Ack("PublishAck", V5!USER :> <<1>> @@ V5!REASON_STRING :> <<1>>)),
          Frame5(64, <<u16(1), u8(0), u8(8), u8(V5!REASON_STRING), string(1),
                       u8(V5!REASON_STRING), string(1)>>, Malformed),
          Frame5(64, <<u16(0)>>, Malformed),
          Frame5(64, <<u16(1), u8(1)>>, Malformed),
          Frame5(0, <<>>, Malformed)}
=============================================================================
