------------------------------ MODULE PacketsV3 ------------------------------
(***************************************************************************)
(* The packets of MQTT 3.1.1 on the wire (src/src/v3/codec): the size that *)
(* goes into the fixed header, the content encode writes, and what         *)
(* decode_packet reads back.                                               *)
(***************************************************************************)
EXTENDS Wire

MQTT_LEVEL_3 == 4

Acks == {"PublishAck", "PublishReceived", "PublishRelease", "PublishComplete", "UnsubscribeAck"}
Empty == {"PingRequest", "PingResponse", "Disconnect"}

----------------------------------------------------------------------------
\* The structs.  An Option is a sequence of at most one value; a text is its length.
Option(S) == {s \in Seq(S) : Len(s) <= 1}
Bit == {0, 1}
Id == 1..65535
QoS == 0..2
ConnectAckReason == 0..6
SubscribeReturnCode == QoS \cup {128}

LastWill == [qos : QoS, retain : Bit, topic : Nat, message : Nat]
Connect == [type : {"Connect"}, clean_session : Bit, keep_alive : 0..65535, client_id : Nat,
            last_will : Option(LastWill), username : Option(Nat), password : Option(Nat)]
Publish == [type : {"Publish"}, dup : Bit, retain : Bit, qos : QoS, topic : Nat, payload : Nat,
            packet_id : Option(Id)]
ConnectAck == [type : {"ConnectAck"}, return_code : ConnectAckReason, session_present : Bit]

IsPacket(p) ==
    CASE p.type = "Connect" -> p \in Connect
      [] p.type = "ConnectAck" -> p \in ConnectAck
      [] p.type = "Publish" -> p \in Publish
      [] p.type = "Subscribe" ->
            p \in [type : {"Subscribe"}, packet_id : Id, topic_filters : Seq([filter : Nat, qos : QoS])]
      [] p.type = "SubscribeAck" ->
            p \in [type : {"SubscribeAck"}, packet_id : Id, status : Seq(SubscribeReturnCode)]
      [] p.type = "Unsubscribe" ->
            p \in [type : {"Unsubscribe"}, packet_id : Id, topic_filters : Seq(Nat)]
      [] p.type \in Empty -> p \in [type : Empty]
      [] OTHER -> p \in [type : Acks, packet_id : Id]

----------------------------------------------------------------------------
get_encoded_publish_size(p) == (IF p.qos \in {1, 2} THEN 4 ELSE 2) + p.topic + p.payload

get_encoded_subscribe_size(topic_filters) ==
    2 + Total([i \in DOMAIN topic_filters |-> 2 + topic_filters[i].filter + 1])

get_encoded_unsubscribe_size(topic_filters) == 
    2 + Total([i \in DOMAIN topic_filters |-> 2 + topic_filters[i]])

Some(o) == IF o = <<>> THEN 0 ELSE 2 + o[1]

get_encoded_size(p) ==
    CASE p.type = "Connect" ->
            10 + 2 + p.client_id + Some(p.username) + Some(p.password)
            + (IF p.last_will = <<>> THEN 0
               ELSE 2 + p.last_will[1].topic + 2 + p.last_will[1].message)
      [] p.type = "Publish" -> get_encoded_publish_size(p)
      [] p.type = "Subscribe" -> get_encoded_subscribe_size(p.topic_filters)
      [] p.type = "SubscribeAck" -> 2 + Len(p.status)
      [] p.type = "Unsubscribe" -> get_encoded_unsubscribe_size(p.topic_filters)
      [] p.type \in Empty -> 0
      [] OTHER -> 2

----------------------------------------------------------------------------
encode_connect(p) ==
    <<string(4), u8(MQTT_LEVEL_3),
      u8(128 * Len(p.username) + 64 * Len(p.password) + 2 * p.clean_session
         + (IF p.last_will = <<>> THEN 0
            ELSE 4 + 32 * p.last_will[1].retain + 8 * p.last_will[1].qos)),
      u16(p.keep_alive), string(p.client_id)>>
    \o (IF p.last_will = <<>> THEN <<>>
        ELSE <<string(p.last_will[1].topic), string(p.last_will[1].message)>>)
    \o [i \in DOMAIN p.username |-> string(p.username[i])]
    \o [i \in DOMAIN p.password |-> string(p.password[i])]

PublishId(p) ==
    IF p.qos = 0 THEN IF p.packet_id # <<>> THEN <<MalformedPacket>> ELSE <<>>
    ELSE IF p.packet_id = <<>> THEN <<PacketIdRequired>> ELSE <<u16(p.packet_id[1])>>

content(p) ==
    CASE p.type = "Connect" -> encode_connect(p)
      [] p.type = "ConnectAck" -> <<u8(p.session_present), u8(p.return_code)>>
      [] p.type = "Publish" -> <<string(p.topic)>> \o PublishId(p)
                               \o (IF p.payload = 0 THEN <<>> ELSE <<Tok(p.payload, p.payload)>>)
      [] p.type = "Subscribe" ->
            <<u16(p.packet_id)>> \o FlattenSeq([i \in DOMAIN p.topic_filters |->
                <<string(p.topic_filters[i].filter), u8(p.topic_filters[i].qos)>>])
      [] p.type = "SubscribeAck" -> <<u16(p.packet_id)>> \o [i \in DOMAIN p.status |-> u8(p.status[i])]
      [] p.type = "Unsubscribe" ->
            <<u16(p.packet_id)>> \o [i \in DOMAIN p.topic_filters |-> string(p.topic_filters[i])]
      [] p.type \in Empty -> <<>>
      [] p.type \in Acks -> <<u16(p.packet_id)>>

packet_type(p) ==
    CASE p.type = "Connect" -> 16
      [] p.type = "ConnectAck" -> 32
      [] p.type = "Publish" -> 48 + 2 * p.qos + 8 * p.dup + p.retain
      [] p.type = "PublishAck" -> 64
      [] p.type = "PublishReceived" -> 80
      [] p.type = "PublishRelease" -> 98
      [] p.type = "PublishComplete" -> 112
      [] p.type = "Subscribe" -> 130
      [] p.type = "SubscribeAck" -> 144
      [] p.type = "Unsubscribe" -> 162
      [] p.type = "UnsubscribeAck" -> 176
      [] p.type = "PingRequest" -> 192
      [] p.type = "PingResponse" -> 208
      [] p.type = "Disconnect" -> 224

encode_packet(p, content_size) ==
    <<u8(packet_type(p))>> \o write_variable_length(content_size) \o content(p)

----------------------------------------------------------------------------
Refused == Err("MalformedPacket")
Packet(p) == [err |-> "none", packet |-> p]
After(src, i) == SubSeq(src, i + 1, Len(src))

decode_ack(type, src) ==
    IF ReadsAs(src, <<"u16">>) /\ src[1].v # 0 /\ Len(src) = 1
    THEN Packet([type |-> type, packet_id |-> src[1].v]) ELSE Refused

decode_connect_packet(src) ==
    LET flags == src[3].v
        clean == (flags \div 2) % 2
        will == (flags \div 4) % 2
        user == flags \div 128
        password == (flags \div 64) % 2
        rest == After(src, 5 + 2 * will)
    IN  IF \/ Bytes(src) < 10
           \/ ~ReadsAs(src, <<"string", "u8", "u8", "u16", "string">>)
           \/ src[1].v # 4 \/ src[2].v # MQTT_LEVEL_3 \/ flags % 2 = 1
           \/ src[5].v = 0 /\ clean = 0
           \/ ~ReadsAs(After(src, 5), [i \in 1..(2 * will + user + password) |-> "string"])
           \/ will = 1 /\ (flags \div 8) % 4 = 3
        THEN Refused
        ELSE Packet([type |-> "Connect", clean_session |-> clean, keep_alive |-> src[4].v,
                     client_id |-> src[5].v,
                     last_will |-> [i \in 1..will |->
                         [qos |-> (flags \div 8) % 4, retain |-> (flags \div 32) % 2,
                          topic |-> src[6].v, message |-> src[7].v]],
                     username |-> [i \in 1..user |-> rest[i].v],
                     password |-> [i \in 1..password |-> rest[user + i].v]])

decode_connect_ack_packet(src) ==
    IF ~ReadsAs(src, <<"u8", "u8">>) \/ src[1].v > 1 \/ src[2].v \notin ConnectAckReason THEN Refused
    ELSE Packet([type |-> "ConnectAck", session_present |-> src[1].v, return_code |-> src[2].v])

decode_publish_packet(src, flags) ==
    LET qos == (flags \div 2) % 4
        id == IF qos = 0 THEN <<>> ELSE <<src[2].v>>
    IN  IF \/ ~ReadsAs(src, IF qos = 0 THEN <<"string">> ELSE <<"string", "u16">>)
           \/ qos = 3 \/ id = <<0>>
        THEN Refused
        ELSE Packet([type |-> "Publish", qos |-> qos, dup |-> flags \div 8, retain |-> flags % 2,
                     packet_id |-> id, topic |-> src[1].v,
                     payload |-> Bytes(After(src, 1 + Len(id)))])

decode_subscribe_packet(src) ==
    LET rest == After(src, 1)
    IN  IF \/ ~ReadsAs(src, <<"u16">>) \/ src[1].v = 0 \/ Len(rest) % 2 = 1
           \/ ~ReadsAs(rest, [i \in 1..Len(rest) |-> IF i % 2 = 1 THEN "string" ELSE "u8"])
           \/ \E i \in 1..(Len(rest) \div 2) : rest[2 * i].v % 4 = 3
        THEN Refused
        ELSE Packet([type |-> "Subscribe", packet_id |-> src[1].v,
                     topic_filters |-> [i \in 1..(Len(rest) \div 2) |->
                         [filter |-> rest[2 * i - 1].v, qos |-> rest[2 * i].v % 4]]])

decode_subscribe_ack_packet(src) ==
    LET rest == After(src, 1)
    IN  IF \/ ~ReadsAs(src, <<"u16">>) \/ src[1].v = 0
           \/ \E i \in DOMAIN rest : rest[i].v \notin SubscribeReturnCode
        THEN Refused
        ELSE Packet([type |-> "SubscribeAck", packet_id |-> src[1].v,
                     status |-> [i \in DOMAIN rest |-> rest[i].v]])

decode_unsubscribe_packet(src) ==
    LET rest == After(src, 1)
    IN  IF \/ ~ReadsAs(src, <<"u16">>) \/ src[1].v = 0
           \/ ~ReadsAs(rest, [i \in DOMAIN rest |-> "string"])
        THEN Refused
        ELSE Packet([type |-> "Unsubscribe", packet_id |-> src[1].v,
                     topic_filters |-> [i \in DOMAIN rest |-> rest[i].v]])

decode_packet(src, first_byte) ==
    CASE first_byte = 16 -> decode_connect_packet(src)
      [] first_byte = 32 -> decode_connect_ack_packet(src)
      [] first_byte \in 48..63 -> decode_publish_packet(src, first_byte - 48)
      [] first_byte = 64 -> decode_ack("PublishAck", src)
      [] first_byte = 80 -> decode_ack("PublishReceived", src)
      [] first_byte = 98 -> decode_ack("PublishRelease", src)
      [] first_byte = 112 -> decode_ack("PublishComplete", src)
      [] first_byte = 130 -> decode_subscribe_packet(src)
      [] first_byte = 144 -> decode_subscribe_ack_packet(src)
      [] first_byte = 162 -> decode_unsubscribe_packet(src)
      [] first_byte = 176 -> decode_ack("UnsubscribeAck", src)
      [] first_byte = 192 -> Packet([type |-> "PingRequest"])
      [] first_byte = 208 -> Packet([type |-> "PingResponse"])
      [] first_byte = 224 -> Packet([type |-> "Disconnect"])
      [] OTHER -> Err("UnsupportedPacketType")
=============================================================================
