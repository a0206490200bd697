------------------------------ MODULE PacketsV5 ------------------------------
(***************************************************************************)
(* The packets of MQTT 5 on the wire (src/src/v5/codec): what every        *)
(* packet's encoded_size announces, what its encode writes, and what its   *)
(* decode reads back.  The three are separate pieces of code that have to  *)
(* agree on every byte.                                                    *)
(*                                                                         *)
(* A packet is a record; `props` maps the property type to the sequence of *)
(* the property's values, at most one for an Option.  `limit` is the       *)
(* largest content the peer takes: user properties and the reason string   *)
(* of an answer are left out where they do not fit.                        *)
(***************************************************************************)
EXTENDS Wire

----------------------------------------------------------------------------
\* Property types.
UTF8_PAYLOAD == 1
MSG_EXPIRY_INT == 2
CONTENT_TYPE == 3
RESP_TOPIC == 8
CORR_DATA == 9
SUB_ID == 11
SESS_EXPIRY_INT == 17
ASSND_CLIENT_ID == 18
SERVER_KA == 19
AUTH_METHOD == 21
AUTH_DATA == 22
REQ_PROB_INFO == 23
WILL_DELAY_INT == 24
REQ_RESP_INFO == 25
RESP_INFO == 26
SERVER_REF == 28
REASON_STRING == 31
RECEIVE_MAX == 33
TOPIC_ALIAS_MAX == 34
TOPIC_ALIAS == 35
MAX_QOS == 36
RETAIN_AVAIL == 37
USER == 38
PACKET_SIZE_MAX == 39   \* pt::MAX_PACKET_SIZE
WILDCARD_SUB_AVAIL == 40
SUB_IDS_AVAIL == 41
SHARED_SUB_AVAIL == 42

Flags == {UTF8_PAYLOAD, REQ_PROB_INFO, REQ_RESP_INFO, MAX_QOS, RETAIN_AVAIL,
          WILDCARD_SUB_AVAIL, SUB_IDS_AVAIL, SHARED_SUB_AVAIL}
Shorts == {SERVER_KA, RECEIVE_MAX, TOPIC_ALIAS_MAX, TOPIC_ALIAS}
Longs == {MSG_EXPIRY_INT, SESS_EXPIRY_INT, WILL_DELAY_INT, PACKET_SIZE_MAX}

\* The value of a property, encoded by its type's Encode.
value(id, v) ==
    CASE id \in Flags -> u8(v)
      [] id \in Shorts -> u16(v)
      [] id \in Longs -> u32(v)
      [] id = SUB_ID -> Tok(var_int_len(v), v)
      [] id = USER -> pair(v)
      [] OTHER -> string(v)

\* What the size functions count: a string that is too long still counts.
value_size(id, v) ==
    IF id = USER THEN 4 + v
    ELSE IF id \in Flags \cup Shorts \cup Longs \cup {SUB_ID} THEN value(id, v).n
    ELSE 2 + v

\* Values that decode to a NonZero type; zero is malformed.
NonZero == {MSG_EXPIRY_INT, RECEIVE_MAX, TOPIC_ALIAS, SUB_ID}

\* Properties that are left out when they have their default value.
ConnectDefault == SESS_EXPIRY_INT :> 0 @@ REQ_PROB_INFO :> 1 @@ REQ_RESP_INFO :> 0
                  @@ TOPIC_ALIAS_MAX :> 0
ConnectAckDefault == RECEIVE_MAX :> 65535 @@ MAX_QOS :> 2 @@ RETAIN_AVAIL :> 1 @@ TOPIC_ALIAS_MAX :> 0
                     @@ WILDCARD_SUB_AVAIL :> 1 @@ SUB_IDS_AVAIL :> 1 @@ SHARED_SUB_AVAIL :> 1
PublishDefault == UTF8_PAYLOAD :> 0
Default(p) ==
    CASE p.type = "Connect" -> ConnectDefault
      [] p.type = "ConnectAck" -> ConnectAckDefault
      [] p.type = "Publish" -> PublishDefault
      [] OTHER -> <<>>

\* The values of a property that are put on the wire.
Values(p, id) ==
    IF id \in DOMAIN Default(p) /\ p.props[id] = <<Default(p)[id]>> THEN <<>> ELSE p.props[id]

----------------------------------------------------------------------------
\* Reason codes; another byte is malformed.
PublishAckReason == {0, 16, 128, 131, 135, 144, 145, 151, 153}
PublishAck2Reason == {0, 146}
SubscribeAckReason == {0, 1, 2, 128, 131, 135, 143, 145, 151, 158, 161, 162}
UnsubscribeAckReason == {0, 17, 128, 131, 135, 143, 145}
DisconnectReasonCode == {0, 4, 128, 129, 130, 131, 135, 137} \cup 139..144 \cup 147..162
ConnectAckReason == {0, 140, 144, 149, 151, 159} \cup 128..138 \cup 153..157
AuthReasonCode == {0, 24, 25}
RetainHandling == 0..2
QoS == 0..2

\* The structs.  An Option is a sequence of at most one value; a text is its length.
Option(S) == {s \in Seq(S) : Len(s) <= 1}
Bit == {0, 1}
Id == 1..65535
Properties(once, many) ==
    {f \in [once \cup many -> Seq(Nat)] : \A id \in once : Len(f[id]) <= 1}

PublishOnce == {TOPIC_ALIAS, CORR_DATA, MSG_EXPIRY_INT, CONTENT_TYPE, UTF8_PAYLOAD, RESP_TOPIC}
ConnectOnce == {SESS_EXPIRY_INT, AUTH_METHOD, AUTH_DATA, REQ_PROB_INFO, REQ_RESP_INFO, RECEIVE_MAX,
                TOPIC_ALIAS_MAX, PACKET_SIZE_MAX}
WillOnce == {WILL_DELAY_INT, CORR_DATA, MSG_EXPIRY_INT, CONTENT_TYPE, UTF8_PAYLOAD, RESP_TOPIC}
ConnectAckOnce == {SESS_EXPIRY_INT, RECEIVE_MAX, MAX_QOS, RETAIN_AVAIL, PACKET_SIZE_MAX,
                   ASSND_CLIENT_ID, TOPIC_ALIAS_MAX, REASON_STRING, WILDCARD_SUB_AVAIL, SUB_IDS_AVAIL,
                   SHARED_SUB_AVAIL, SERVER_KA, RESP_INFO, SERVER_REF, AUTH_METHOD, AUTH_DATA}
DisconnectOnce == {SESS_EXPIRY_INT, REASON_STRING, SERVER_REF}
AuthOnce == {AUTH_METHOD, AUTH_DATA, REASON_STRING}

PublishAck == [type : {"PublishAck", "PublishReceived"}, packet_id : Id,
               reason_code : PublishAckReason, props : Properties({REASON_STRING}, {USER})]
PublishAck2 == [type : {"PublishRelease", "PublishComplete"}, packet_id : Id,
                reason_code : PublishAck2Reason, props : Properties({REASON_STRING}, {USER})]
SubscriptionOptions == [qos : QoS, no_local : Bit, retain_as_published : Bit,
                        retain_handling : RetainHandling]
Subscribe == [type : {"Subscribe"}, packet_id : Id, props : Properties({SUB_ID}, {USER}),
              topic_filters : Seq([filter : Nat, opts : SubscriptionOptions])]
SubscribeAck == [type : {"SubscribeAck"}, packet_id : Id, props : Properties({REASON_STRING}, {USER}),
                 status : Seq(SubscribeAckReason)]
Unsubscribe == [type : {"Unsubscribe"}, packet_id : Id, props : Properties({}, {USER}),
                topic_filters : Seq(Nat)]
UnsubscribeAck == [type : {"UnsubscribeAck"}, packet_id : Id,
                   props : Properties({REASON_STRING}, {USER}), status : Seq(UnsubscribeAckReason)]
Disconnect == [type : {"Disconnect"}, reason_code : DisconnectReasonCode,
               props : Properties(DisconnectOnce, {USER})]
Auth == [type : {"Auth"}, reason_code : AuthReasonCode, props : Properties(AuthOnce, {USER})]
ConnectAck == [type : {"ConnectAck"}, session_present : Bit, reason_code : ConnectAckReason,
               props : Properties(ConnectAckOnce, {USER})]
Publish == [type : {"Publish"}, dup : Bit, retain : Bit, qos : QoS, topic : Nat, payload : Nat,
            packet_id : Option(Id), props : Properties(PublishOnce, {SUB_ID, USER})]
LastWill == [type : {"Will"}, qos : QoS, retain : Bit, topic : Nat, message : Nat,
             props : Properties(WillOnce, {USER})]
Connect == [type : {"Connect"}, clean_start : Bit, keep_alive : 0..65535, client_id : Nat,
            last_will : Option(LastWill), username : Option(Nat), password : Option(Nat),
            props : Properties(ConnectOnce, {USER})]
Ping == [type : {"PingRequest", "PingResponse"}]

\* Default: the values a packet has when nothing is set.
WithDefaults(p, once, many) ==
    p @@ [props |-> [x \in once \cup many |-> IF x \in DOMAIN Default(p) THEN <<Default(p)[x]>> ELSE <<>>]]
PublishAck_default(type) ==
    WithDefaults([type |-> type, packet_id |-> 1, reason_code |-> 0], {REASON_STRING}, {USER})
PublishAck2_default(type) ==
    WithDefaults([type |-> type, packet_id |-> 1, reason_code |-> 0], {REASON_STRING}, {USER})
Disconnect_default == WithDefaults([type |-> "Disconnect", reason_code |-> 0], DisconnectOnce, {USER})
Auth_default == WithDefaults([type |-> "Auth", reason_code |-> 0], AuthOnce, {USER})
ConnectAck_default ==
    WithDefaults([type |-> "ConnectAck", session_present |-> 0, reason_code |-> 0], ConnectAckOnce, {USER})
Connect_default ==
    WithDefaults([type |-> "Connect", clean_start |-> 0, keep_alive |-> 0, client_id |-> 0,
                  last_will |-> <<>>, username |-> <<>>, password |-> <<>>], ConnectOnce, {USER})

----------------------------------------------------------------------------
\* encoded_property_size and encoded_property_size_default, summed over ids.
encoded_property_size(p, id) ==
    LET vs == Values(p, id) IN Total([i \in DOMAIN vs |-> 1 + value_size(id, vs[i])])
encoded_properties_size(p, ids) ==
    Total([i \in DOMAIN ids |-> encoded_property_size(p, ids[i])])

\* encode_property and encode_property_default, one after the other for ids.
encode_property(p, id) ==
    LET vs == Values(p, id)
    IN  [i \in 1..(2 * Len(vs)) |-> IF i % 2 = 1 THEN u8(id) ELSE value(id, vs[i \div 2])]
encode_properties(p, ids) == FlattenSeq([i \in DOMAIN ids |-> encode_property(p, ids[i])])

\* Length and content of a property section.
with_len(len) == var_int_len(len) + len

----------------------------------------------------------------------------
\* How many user properties fit into limit: the first that does not fit ends it.
UserSize(us, k) == Total([i \in 1..k |-> 1 + 4 + us[i]])
Fitting(us, limit) == Max({k \in 0..Len(us) : UserSize(us, k) <= limit})

\* ... the reason is counted whether or not it fits.
encoded_size_opt_props_unlimited(p, limit) ==
    LET us == p.props[USER]
        k == Fitting(us, limit)
        len == UserSize(us, k)
        reason == p.props[REASON_STRING]
    IN  IF k = Len(us) /\ reason # <<>> THEN len + 1 + 2 + reason[1] ELSE len

encoded_size_opt_props(p, limit) ==
    LET us == p.props[USER]
        k == Fitting(us, limit)
        len == UserSize(us, k)
        reason == p.props[REASON_STRING]
    IN  IF k = Len(us) /\ reason # <<>> /\ 1 + 2 + reason[1] <= limit - len
        THEN len + 1 + 2 + reason[1] ELSE len

encode_opt_props(p, size) ==
    LET us == p.props[USER]
        k == Fitting(us, size)
        reason == p.props[REASON_STRING]
        left == size - UserSize(us, k)
    IN  encode_property([p EXCEPT !.props[USER] = SubSeq(us, 1, k)], USER)
        \o IF k = Len(us) /\ reason # <<>> /\ reason[1] < left
           THEN encode_property(p, REASON_STRING) ELSE <<>>

\* u32 subtraction in a release build: below zero it wraps to a number larger than any
\* size (a debug build panics).
Wrapped == 2147483647
sub(a, b) == IF b <= a THEN a - b ELSE Wrapped

reduce_limit(limit, reduction) == IF reduction > limit THEN 0 ELSE limit - reduction

ack_props_encoded_size(p, limit) ==
    IF limit < 4 THEN 1 ELSE with_len(encoded_size_opt_props(p, limit - 4))

ack_props_encode(p, size) ==
    IF size = 1 THEN <<u8(0)>>
    ELSE LET len == var_int_len_from_size(size)
         IN  write_variable_length(len) \o encode_opt_props(p, len)

----------------------------------------------------------------------------
\* Reading properties: the loop over a property section, with the properties read
\* once (Option::read_value) and the repeated ones.
Bad == Err("MalformedPacket")
Ok(p) == [err |-> "none", packet |-> p]

Parsed(toks, once, many, nonzero) ==
    LET n == Len(toks) \div 2
        id(i) == toks[2 * i - 1].v
        v(i) == toks[2 * i].v
        at(x) == SelectSeq([i \in 1..n |-> i], LAMBDA i : id(i) = x)
    IN  IF \/ Len(toks) % 2 = 1
           \/ \E i \in 1..n : \/ toks[2 * i - 1].n # 1
                              \/ id(i) \notin once \cup many
                              \/ toks[2 * i].n # value_size(id(i), v(i))
                              \/ id(i) \in nonzero /\ v(i) = 0
                              \/ id(i) \in Flags /\ v(i) > (IF id(i) = MAX_QOS THEN 2 ELSE 1)
           \/ \E x \in once : Len(at(x)) > 1
        THEN Bad
        ELSE [err |-> "none",
              props |-> [x \in once \cup many |-> [i \in 1..Len(at(x)) |-> v(at(x)[i])]]]

\* take_properties and the loop over what it took.
ParsedSection(t, once, many, nonzero) ==
    LET r == Parsed(t.head, once, many, nonzero)
    IN  IF t.err # "none" \/ r.err # "none" THEN Bad ELSE r @@ [rest |-> t.rest]
decode_properties(src, once, many, nonzero) == ParsedSection(take_properties(src), once, many, nonzero)

\* The properties of a packet that has none.
Absent(ids) == [err |-> "none", props |-> [x \in ids |-> <<>>], rest |-> <<>>]

\* unwrap_or of the properties that have a default.
unwrap_or(p) ==
    [p EXCEPT !.props = [x \in DOMAIN p.props |->
        IF x \in DOMAIN Default(p) /\ p.props[x] = <<>> THEN <<Default(p)[x]>> ELSE p.props[x]]]

ack_props_decode(src) == decode_properties(src, {REASON_STRING}, {USER}, {})

From(src, i) == SubSeq(src, i, Len(src))

----------------------------------------------------------------------------
\* PUBACK, PUBREC, PUBREL and PUBCOMP.
PublishAck_encoded_size(p, limit) == 3 + ack_props_encoded_size(p, sub(sub(limit, 3), 4))

PublishAck_encode(p, size) ==
    <<u16(p.packet_id), u8(p.reason_code)>> \o ack_props_encode(p, size - 3)

\* The reason code and the properties may be left out.  Any code will do:
PublishAck_decode_any(type, src) ==
    LET r == IF Len(src) > 2 THEN ack_props_decode(From(src, 3))
             ELSE Absent({REASON_STRING, USER})
    IN  IF ~ReadsAs(src, <<"u16">>) \/ src[1].v = 0 \/ r.err # "none" \/ r.rest # <<>> THEN Bad
        ELSE Ok([type |-> type, packet_id |-> src[1].v, props |-> r.props,
                 reason_code |-> IF Len(src) > 1 THEN src[2].v ELSE 0])

PublishAck_decode(type, src) ==
    LET r == IF Len(src) > 2 THEN ack_props_decode(From(src, 3))
             ELSE Absent({REASON_STRING, USER})
        default == PublishAck_default(type)
    IN  IF \/ ~ReadsAs(src, <<"u16">>) \/ src[1].v = 0
           \/ Len(src) > 1 /\ src[2].v \notin PublishAckReason
           \/ r.err # "none" \/ r.rest # <<>>
        THEN Bad
        ELSE Ok([default EXCEPT !.packet_id = src[1].v, !.props = r.props,
                                !.reason_code = IF Len(src) > 1 THEN src[2].v ELSE @])

PublishAck2_encoded_size(p, limit) == 3 + ack_props_encoded_size(p, sub(sub(limit, 3), 4))

PublishAck2_encode(p, size) ==
    <<u16(p.packet_id), u8(p.reason_code)>> \o ack_props_encode(p, size - 3)

PublishAck2_decode(type, src) ==
    LET r == IF Len(src) > 2 THEN ack_props_decode(From(src, 3))
             ELSE Absent({REASON_STRING, USER})
        default == PublishAck2_default(type)
    IN  IF \/ ~ReadsAs(src, <<"u16">>) \/ src[1].v = 0
           \/ Len(src) > 1 /\ src[2].v \notin PublishAck2Reason
           \/ r.err # "none" \/ r.rest # <<>>
        THEN Bad
        ELSE Ok([default EXCEPT !.packet_id = src[1].v, !.props = r.props,
                                !.reason_code = IF Len(src) > 1 THEN src[2].v ELSE @])

----------------------------------------------------------------------------
\* SUBACK and UNSUBACK: status is one reason code for every filter.
SubscribeAck_encoded_size(p, limit) ==
    2 + ack_props_encoded_size(p, sub(sub(limit, 2), Len(p.status))) + Len(p.status)

SubscribeAck_encode(p, size) ==
    <<u16(p.packet_id)>> \o ack_props_encode(p, size - 2 - Len(p.status))
    \o [i \in DOMAIN p.status |-> u8(p.status[i])]

SubscribeAck_decode(src) ==
    LET r == ack_props_decode(From(src, 2))
    IN  IF \/ ~ReadsAs(src, <<"u16">>) \/ src[1].v = 0 \/ r.err # "none"
           \/ \E i \in DOMAIN r.rest : r.rest[i].v \notin SubscribeAckReason
        THEN Bad
        ELSE Ok([type |-> "SubscribeAck", packet_id |-> src[1].v, props |-> r.props,
                 status |-> [i \in DOMAIN r.rest |-> r.rest[i].v]])

UnsubscribeAck_encoded_size(p, limit) ==
    2 + Len(p.status) + ack_props_encoded_size(p, reduce_limit(limit, 2 + Len(p.status)))

UnsubscribeAck_encode(p, size) == SubscribeAck_encode(p, size)

UnsubscribeAck_decode(src) ==
    LET r == ack_props_decode(From(src, 2))
    IN  IF \/ ~ReadsAs(src, <<"u16">>) \/ src[1].v = 0 \/ r.err # "none"
           \/ \E i \in DOMAIN r.rest : r.rest[i].v \notin UnsubscribeAckReason
        THEN Bad
        ELSE Ok([type |-> "UnsubscribeAck", packet_id |-> src[1].v, props |-> r.props,
                 status |-> [i \in DOMAIN r.rest |-> r.rest[i].v]])

----------------------------------------------------------------------------
\* DISCONNECT and AUTH: a reason code, two properties of their own, diagnostics.
Disconnect_encoded_size(p, limit) ==
    LET prop_len == encoded_properties_size(p, <<SESS_EXPIRY_INT, SERVER_REF>>)
        diag_len == encoded_size_opt_props(p, reduce_limit(limit, prop_len + 1 + 4))
    IN  1 + with_len(prop_len + diag_len)

Disconnect_encode(p, size) ==
    LET own == encode_properties(p, <<SESS_EXPIRY_INT, SERVER_REF>>)
        head == <<u8(p.reason_code)>> \o write_variable_length(var_int_len_from_size(size - 1)) \o own
    IN  head \o encode_opt_props(p, size - Bytes(head))

Disconnect_decode(src) ==
    LET r == IF Len(src) > 1 THEN decode_properties(Tail(src), DisconnectOnce, {USER}, {})
             ELSE Absent(DisconnectOnce \cup {USER})
    IN  IF \/ src # <<>> /\ src[1].v \notin DisconnectReasonCode
           \/ r.err # "none" \/ r.rest # <<>>
        THEN Bad
        ELSE Ok([Disconnect_default EXCEPT !.props = r.props,
                                   !.reason_code = IF src = <<>> THEN @ ELSE src[1].v])

Auth_encoded_size(p, limit) ==
    LET prop_len == encoded_properties_size(p, <<AUTH_METHOD, AUTH_DATA>>)
        diag_len == encoded_size_opt_props(p, reduce_limit(limit, prop_len + 1 + 4))
    IN  1 + with_len(prop_len + diag_len)

Auth_encode(p, size) ==
    LET own == encode_properties(p, <<AUTH_METHOD, AUTH_DATA>>)
        head == <<u8(p.reason_code)>> \o write_variable_length(var_int_len_from_size(size - 1)) \o own
    IN  head \o encode_opt_props(p, size - Bytes(head))

Auth_decode(src) ==
    LET r == IF Len(src) > 1 THEN decode_properties(Tail(src), AuthOnce, {USER}, {})
             ELSE Absent(AuthOnce \cup {USER})
    IN  IF \/ src # <<>> /\ src[1].v \notin AuthReasonCode
           \/ r.err # "none" \/ r.rest # <<>>
        THEN Bad
        ELSE Ok([Auth_default EXCEPT !.props = r.props,
                                   !.reason_code = IF src = <<>> THEN @ ELSE src[1].v])

----------------------------------------------------------------------------
\* CONNACK.
ConnectAck_encoded_size(p, limit) ==
    LET prop_len == encoded_properties_size(p,
            <<SESS_EXPIRY_INT, RECEIVE_MAX, MAX_QOS, PACKET_SIZE_MAX, ASSND_CLIENT_ID, RETAIN_AVAIL,
             WILDCARD_SUB_AVAIL, SUB_IDS_AVAIL, SHARED_SUB_AVAIL, SERVER_KA, RESP_INFO, SERVER_REF,
             AUTH_METHOD, AUTH_DATA, TOPIC_ALIAS_MAX>>)
        diag_len == encoded_size_opt_props(p, reduce_limit(limit, 2 + 4 + prop_len))
    IN  2 + with_len(prop_len + diag_len)

ConnectAck_encode(p, size) ==
    LET own == encode_properties(p,
            <<SESS_EXPIRY_INT, RECEIVE_MAX, MAX_QOS, RETAIN_AVAIL, PACKET_SIZE_MAX, ASSND_CLIENT_ID,
              TOPIC_ALIAS_MAX, WILDCARD_SUB_AVAIL, SUB_IDS_AVAIL, SHARED_SUB_AVAIL, SERVER_KA,
              RESP_INFO, SERVER_REF, AUTH_METHOD, AUTH_DATA>>)
        head == <<u8(p.session_present), u8(p.reason_code)>>
                \o write_variable_length(var_int_len_from_size(size - 2)) \o own
    IN  head \o encode_opt_props(p, size - Bytes(head))

ConnectAck_decode(src) ==
    LET r == decode_properties(From(src, 3), ConnectAckOnce, {USER}, NonZero)
    IN  IF \/ ~ReadsAs(src, <<"u8", "u8">>) \/ src[1].v > 1 \/ src[2].v \notin ConnectAckReason
           \/ r.err # "none" \/ r.rest # <<>>
        THEN Bad
        ELSE Ok(unwrap_or([type |-> "ConnectAck", session_present |-> src[1].v,
                           reason_code |-> src[2].v, props |-> r.props]))

----------------------------------------------------------------------------
\* PUBLISH.

PublishProperties_encoded_size(p) ==
    with_len(encoded_properties_size(p,
        <<TOPIC_ALIAS, CORR_DATA, MSG_EXPIRY_INT, CONTENT_TYPE, UTF8_PAYLOAD, RESP_TOPIC, SUB_ID, USER>>))

PublishProperties_encode(p, size) ==
    write_variable_length(var_int_len_from_size(size))
    \o encode_properties(p, <<TOPIC_ALIAS, CORR_DATA, MSG_EXPIRY_INT, CONTENT_TYPE, UTF8_PAYLOAD,
                              RESP_TOPIC, SUB_ID, USER>>)

parse_publish_properties(src) == decode_properties(src, PublishOnce, {SUB_ID, USER}, NonZero)

Publish_encoded_size(p) ==
    2 + p.topic + (IF p.qos = 0 THEN 0 ELSE 2) + PublishProperties_encoded_size(p) + p.payload

\* The payload is put as it is, without a length.
Payload(n) == IF n = 0 THEN <<>> ELSE <<Tok(n, n)>>

Publish_encode(p, size) ==
    LET id == IF p.qos = 0 THEN IF p.packet_id # <<>> THEN <<MalformedPacket>> ELSE <<>>
              ELSE IF p.packet_id = <<>> THEN <<PacketIdRequired>> ELSE <<u16(p.packet_id[1])>>
        head == <<string(p.topic)>> \o id
    IN  head \o PublishProperties_encode(p, size - (Bytes(head) + p.payload)) \o Payload(p.payload)

\* The low bits of the first byte are the flags.
Publish_decode(src, flags) ==
    LET qos == (flags \div 2) % 4
        id == IF qos = 0 THEN <<>> ELSE <<src[2].v>>
        r == parse_publish_properties(From(src, 2 + Len(id)))
    IN  IF \/ ~ReadsAs(src, IF qos = 0 THEN <<"string">> ELSE <<"string", "u16">>)
           \/ qos = 3 \/ id = <<0>> \/ r.err # "none"
        THEN Bad
        ELSE Ok(unwrap_or([type |-> "Publish", qos |-> qos, dup |-> flags \div 8,
                           retain |-> flags % 2, packet_id |-> id, topic |-> src[1].v,
                           props |-> r.props, payload |-> Bytes(r.rest)]))

----------------------------------------------------------------------------
\* SUBSCRIBE and UNSUBSCRIBE: a filter is its length and, to subscribe, its options.
SubscriptionOptions_encode(o) == u8(o.qos + 4 * o.no_local + 8 * o.retain_as_published
                                    + 16 * o.retain_handling)

SubscriptionOptions_decode(t) ==
    [qos |-> t.v % 4, no_local |-> (t.v \div 4) % 2, retain_as_published |-> (t.v \div 8) % 2,
     retain_handling |-> (t.v \div 16) % 4]

Subscribe_encoded_size(p) ==
    2 + with_len(encoded_properties_size(p, <<SUB_ID, USER>>))
    + Total([i \in DOMAIN p.topic_filters |-> 2 + p.topic_filters[i].filter + 1])

Subscribe_encode(p) ==
    <<u16(p.packet_id)>> \o write_variable_length(encoded_properties_size(p, <<SUB_ID, USER>>))
    \o encode_properties(p, <<SUB_ID, USER>>)
    \o FlattenSeq([i \in DOMAIN p.topic_filters |->
           <<string(p.topic_filters[i].filter), SubscriptionOptions_encode(p.topic_filters[i].opts)>>])

Subscribe_decode(src) ==
    LET r == decode_properties(From(src, 2), {SUB_ID}, {USER}, NonZero)
        n == Len(r.rest) \div 2
        opts(i) == SubscriptionOptions_decode(r.rest[2 * i])
    IN  IF \/ ~ReadsAs(src, <<"u16">>) \/ src[1].v = 0 \/ r.err # "none"
           \/ ~ReadsAs(r.rest, [i \in 1..Len(r.rest) |-> IF i % 2 = 1 THEN "string" ELSE "u8"])
           \/ Len(r.rest) % 2 = 1
           \/ \E i \in 1..n : opts(i).qos = 3 \/ opts(i).retain_handling = 3
        THEN Bad
        ELSE Ok([type |-> "Subscribe", packet_id |-> src[1].v, props |-> r.props,
                 topic_filters |-> [i \in 1..n |-> [filter |-> r.rest[2 * i - 1].v, opts |-> opts(i)]]])

Unsubscribe_encoded_size(p) ==
    2 + with_len(encoded_properties_size(p, <<USER>>))
    + Total([i \in DOMAIN p.topic_filters |-> 2 + p.topic_filters[i]])

Unsubscribe_encode(p) ==
    <<u16(p.packet_id)>> \o write_variable_length(encoded_properties_size(p, <<USER>>))
    \o encode_property(p, USER) \o [i \in DOMAIN p.topic_filters |-> string(p.topic_filters[i])]

Unsubscribe_decode(src) ==
    LET r == decode_properties(From(src, 2), {}, {USER}, {})
    IN  IF \/ ~ReadsAs(src, <<"u16">>) \/ src[1].v = 0 \/ r.err # "none"
           \/ ~ReadsAs(r.rest, [i \in DOMAIN r.rest |-> "string"])
        THEN Bad
        ELSE Ok([type |-> "Unsubscribe", packet_id |-> src[1].v, props |-> r.props,
                 topic_filters |-> [i \in DOMAIN r.rest |-> r.rest[i].v]])

----------------------------------------------------------------------------
\* CONNECT.

MQTT_LEVEL_5 == 5

properties_len(p) ==
    encoded_properties_size(p, <<AUTH_METHOD, AUTH_DATA, SESS_EXPIRY_INT, REQ_PROB_INFO,
                                REQ_RESP_INFO, RECEIVE_MAX, PACKET_SIZE_MAX, TOPIC_ALIAS_MAX, USER>>)

will_properties_len(will) ==
    encoded_properties_size(will, <<WILL_DELAY_INT, CORR_DATA, MSG_EXPIRY_INT, CONTENT_TYPE,
                                   UTF8_PAYLOAD, RESP_TOPIC, USER>>)

OptionSize(o) == IF o = <<>> THEN 0 ELSE 2 + o[1]

Connect_encoded_size(p) ==
    6 + 1 + 1 + 2 + with_len(properties_len(p)) + 2 + p.client_id
    + (IF p.last_will = <<>> THEN 0
       ELSE with_len(will_properties_len(p.last_will[1]))
            + 2 + p.last_will[1].topic + 2 + p.last_will[1].message)
    + OptionSize(p.username) + OptionSize(p.password)

ConnectFlags(p, clean) ==
    128 * Len(p.username) + 64 * Len(p.password) + 2 * clean
    + (IF p.last_will = <<>> THEN 0
       ELSE 4 + 32 * p.last_will[1].retain + 8 * p.last_will[1].qos)

Will_encode(will) ==
    write_variable_length(will_properties_len(will))
    \o encode_properties(will, <<WILL_DELAY_INT, UTF8_PAYLOAD, MSG_EXPIRY_INT, CONTENT_TYPE, RESP_TOPIC,
                                 CORR_DATA, USER>>)
    \o <<string(will.topic), string(will.message)>>

Connect_encode(p) ==
    <<string(4), u8(MQTT_LEVEL_5), u8(ConnectFlags(p, p.clean_start)), u16(p.keep_alive)>>
    \o write_variable_length(properties_len(p))
    \o encode_properties(p, <<SESS_EXPIRY_INT, AUTH_METHOD, AUTH_DATA, REQ_PROB_INFO, REQ_RESP_INFO,
                              RECEIVE_MAX, PACKET_SIZE_MAX, TOPIC_ALIAS_MAX, USER>>)
    \o <<string(p.client_id)>>
    \o (IF p.last_will = <<>> THEN <<>> ELSE Will_encode(p.last_will[1]))
    \o [i \in DOMAIN p.username |-> string(p.username[i])]
    \o [i \in DOMAIN p.password |-> string(p.password[i])]

\* The strings the flags announce, in their order.
Announced(flags) == (flags \div 128) + ((flags \div 64) % 2)

decode_last_will(src, flags) ==
    LET r == decode_properties(src, WillOnce, {USER}, NonZero)
        qos == (flags \div 8) % 4
    IN  IF r.err # "none" \/ ~ReadsAs(r.rest, <<"string", "string">>) \/ qos = 3 THEN Bad
        ELSE [err |-> "none", rest |-> From(r.rest, 3),
              will |-> <<[type |-> "Will", qos |-> qos, retain |-> (flags \div 32) % 2,
                          topic |-> r.rest[1].v, message |-> r.rest[2].v, props |-> r.props]>>]

Connect_decode(src) ==
    LET flags == src[3].v
        clean == (flags \div 2) % 2
        r == decode_properties(From(src, 5), ConnectOnce, {USER}, NonZero \cup {PACKET_SIZE_MAX})
        client_id == r.rest[1].v
        w == IF (flags \div 4) % 2 = 1 THEN decode_last_will(Tail(r.rest), flags)
             ELSE [err |-> "none", rest |-> Tail(r.rest), will |-> <<>>]
        user == flags \div 128
        password == (flags \div 64) % 2
    IN  IF \/ Bytes(src) < 10 \/ ~ReadsAs(src, <<"string", "u8", "u8", "u16">>)
           \/ src[1].v # 4 \/ src[2].v # MQTT_LEVEL_5 \/ flags % 2 = 1
           \/ r.err # "none" \/ ~ReadsAs(r.rest, <<"string">>)
           \/ client_id = 0 /\ clean = 0
           \/ w.err # "none"
           \/ ~ReadsAs(w.rest, [i \in 1..Announced(flags) |-> "string"])
        THEN Bad
        ELSE Ok(unwrap_or([type |-> "Connect", clean_start |-> clean, keep_alive |-> src[4].v,
                           client_id |-> client_id, last_will |-> w.will, props |-> r.props,
                           username |-> [i \in 1..user |-> w.rest[i].v],
                           password |-> [i \in 1..password |-> w.rest[user + i].v]]))

----------------------------------------------------------------------------
\* A whole packet.
IsPacket(p) ==
    CASE p.type = "Connect" -> p \in Connect
      [] p.type = "ConnectAck" -> p \in ConnectAck
      [] p.type = "Publish" -> p \in Publish
      [] p.type \in {"PublishAck", "PublishReceived"} -> p \in PublishAck
      [] p.type \in {"PublishRelease", "PublishComplete"} -> p \in PublishAck2
      [] p.type = "Subscribe" -> p \in Subscribe
      [] p.type = "SubscribeAck" -> p \in SubscribeAck
      [] p.type = "Unsubscribe" -> p \in Unsubscribe
      [] p.type = "UnsubscribeAck" -> p \in UnsubscribeAck
      [] p.type = "Disconnect" -> p \in Disconnect
      [] p.type = "Auth" -> p \in Auth
      [] OTHER -> p \in Ping

packet_type(p) ==
    CASE p.type = "Connect" -> 16
      [] p.type = "ConnectAck" -> 32
      [] p.type = "Publish" -> 48 + 2 * p.qos + 8 * p.dup + p.retain
      [] p.type = "PublishAck" -> 64
      [] p.type = "PublishReceived" -> 80
      [] p.type = "PublishRelease" -> 98
      [] p.type = "PublishComplete" -> 112
      [] p.type = "Subscribe" -> 130
      [] p.type = "SubscribeAck" -> 144
      [] p.type = "Unsubscribe" -> 162
      [] p.type = "UnsubscribeAck" -> 176
      [] p.type = "PingRequest" -> 192
      [] p.type = "PingResponse" -> 208
      [] p.type = "Disconnect" -> 224
      [] p.type = "Auth" -> 240

encoded_size(p, limit) ==
    CASE p.type = "Connect" -> Connect_encoded_size(p)
      [] p.type = "Publish" -> Publish_encoded_size(p)
      [] p.type = "ConnectAck" -> ConnectAck_encoded_size(p, limit)
      [] p.type \in {"PublishAck", "PublishReceived"} -> PublishAck_encoded_size(p, limit)
      [] p.type \in {"PublishRelease", "PublishComplete"} -> PublishAck2_encoded_size(p, limit)
      [] p.type = "Subscribe" -> Subscribe_encoded_size(p)
      [] p.type = "SubscribeAck" -> SubscribeAck_encoded_size(p, limit)
      [] p.type = "Unsubscribe" -> Unsubscribe_encoded_size(p)
      [] p.type = "UnsubscribeAck" -> UnsubscribeAck_encoded_size(p, limit)
      [] p.type \in {"PingRequest", "PingResponse"} -> 0
      [] p.type = "Disconnect" -> Disconnect_encoded_size(p, limit)
      [] p.type = "Auth" -> Auth_encoded_size(p, limit)

Content(p, size) ==
    CASE p.type = "Connect" -> Connect_encode(p)
      [] p.type = "ConnectAck" -> ConnectAck_encode(p, size)
      [] p.type = "Publish" -> Publish_encode(p, size)
      [] p.type \in {"PublishAck", "PublishReceived"} -> PublishAck_encode(p, size)
      [] p.type \in {"PublishRelease", "PublishComplete"} -> PublishAck2_encode(p, size)
      [] p.type = "Subscribe" -> Subscribe_encode(p)
      [] p.type = "SubscribeAck" -> SubscribeAck_encode(p, size)
      [] p.type = "Unsubscribe" -> Unsubscribe_encode(p)
      [] p.type = "UnsubscribeAck" -> UnsubscribeAck_encode(p, size)
      [] p.type \in {"PingRequest", "PingResponse"} -> <<>>
      [] p.type = "Disconnect" -> Disconnect_encode(p, size)
      [] p.type = "Auth" -> Auth_encode(p, size)

\* EncodeLtd::encode for Packet: the fixed header and the content.
encode_packet(p, size) ==
    <<u8(packet_type(p))>> \o write_variable_length(size) \o Content(p, size)

decode_packet(src, first_byte) ==
    CASE first_byte \in 48..63 -> Publish_decode(src, first_byte - 48)
      [] first_byte = 64 -> PublishAck_decode("PublishAck", src)
      [] first_byte = 192 -> Ok([type |-> "PingRequest"])
      [] first_byte = 208 -> Ok([type |-> "PingResponse"])
      [] first_byte = 130 -> Subscribe_decode(src)
      [] first_byte = 144 -> SubscribeAck_decode(src)
      [] first_byte = 162 -> Unsubscribe_decode(src)
      [] first_byte = 176 -> UnsubscribeAck_decode(src)
      [] first_byte = 16 -> Connect_decode(src)
      [] first_byte = 32 -> ConnectAck_decode(src)
      [] first_byte = 224 -> Disconnect_decode(src)
      [] first_byte = 240 -> Auth_decode(src)
      [] first_byte = 80 -> PublishAck_decode("PublishReceived", src)
      [] first_byte = 98 -> PublishAck2_decode("PublishRelease", src)
      [] first_byte = 112 -> PublishAck2_decode("PublishComplete", src)
      [] OTHER -> Err("UnsupportedPacketType")
=============================================================================
