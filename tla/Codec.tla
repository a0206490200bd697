------------------------------- MODULE Codec -------------------------------
(***************************************************************************)
(* The codecs of a client and a server at the two ends of a connection     *)
(* (src/src/v5/codec/codec.rs, src/src/v3/codec/codec.rs), with the        *)
(* version detection of src/src/version.rs in front of the server's.  What *)
(* an endpoint encodes reaches the other in pieces of any size; decode is  *)
(* called on whatever has arrived.  The client's first packet is its       *)
(* CONNECT; either side sends more once the server has decoded it, within  *)
(* the Maximum Packet Size it announced.                                   *)
(***************************************************************************)
EXTENDS Wire, FiniteSets

CONSTANTS
    Versions,      \* the protocol versions a client may speak
    MaxInbound,    \* what set_max_inbound_size may set, 0 for no limit
    Offers(_, _, _),  \* packets an endpoint may send, by version and what was sent
    Foreign(_, _)  \* content another implementation may send to the server, by version

V5 == INSTANCE PacketsV5
V3 == INSTANCE PacketsV3

VARIABLES
    version,    \* the version the client speaks
    detected,   \* what the server's VersionCodec found
    codec,      \* codec[e]: the cells of e's Codec
    wire,       \* wire[e]: bytes on their way to e
    src,        \* src[e]: bytes that arrived at e and are not decoded
    log,        \* every call of encode, with its outcome
    got,        \* got[e]: the packets e decoded
    failed      \* failed[e]: e's decoder returned an error

vars == <<version, detected, codec, wire, src, log, got, failed>>

Ends == {"client", "server"}
Peer(e) == IF e = "client" THEN "server" ELSE "client"

FrameHeader == [stage |-> "header"]
Frame(first_byte, remaining_length) ==
    [stage |-> "frame", first_byte |-> first_byte, remaining_length |-> remaining_length]

\* Codec::new and set_max_inbound_size; limit is the peer's Maximum Packet Size.
new_codec(max_in_size) ==
    [state |-> FrameHeader, max_in_size |-> max_in_size, max_out_size |-> 0,
     limit |-> 0, no_problem_info |-> FALSE]

Init ==
    /\ version \in Versions
    /\ detected = "none"
    /\ \E size \in MaxInbound : codec = [e \in Ends |-> new_codec(size)]
    /\ wire = [e \in Ends |-> <<>>]
    /\ src = [e \in Ends |-> <<>>]
    /\ log = <<>>
    /\ got = [e \in Ends |-> <<>>]
    /\ failed = [e \in Ends |-> FALSE]

----------------------------------------------------------------------------
\* Encoding.

\* [MQTT 3.1.2.11.7]: a client that asked for no problem information gets none.
Stripped(p) ==
    IF p.type \in {"PublishAck", "PublishReceived", "PublishRelease", "PublishComplete",
                   "SubscribeAck", "UnsubscribeAck", "Auth"}
    THEN [p EXCEPT !.props[V5!USER] = <<>>, !.props[V5!REASON_STRING] = <<>>]
    ELSE IF p.type \in {"Subscribe", "Unsubscribe"} THEN [p EXCEPT !.props[V5!USER] = <<>>]
    ELSE p

encode_v5(c, item) ==
    LET p == IF c.no_problem_info THEN Stripped(item) ELSE item
        max_size == IF c.max_out_size # 0 THEN c.max_out_size ELSE MAX_PACKET_SIZE
        content_size == V5!encoded_size(p, max_size)
    IN  IF content_size > max_size THEN [toks |-> <<>>, refused |-> TRUE, size |-> 0]
        ELSE [toks |-> V5!encode_packet(p, content_size), refused |-> FALSE, size |-> content_size]

\* A publish of a higher QoS without an id is refused before anything is written.
encode_v3(item) ==
    IF item.type = "Publish" /\ item.qos \in {1, 2} /\ item.packet_id = <<>>
    THEN [toks |-> <<>>, refused |-> TRUE, size |-> 0]
    ELSE LET content_size == V3!get_encoded_size(item)
         IN  [toks |-> V3!encode_packet(item, content_size), refused |-> FALSE, size |-> content_size]

\* An encoder that fails in the middle of a packet leaves what it has written.
Encode(e) ==
    \E p \in Offers(version, e, log) :
      \E out \in {IF version = "v5" THEN encode_v5(codec[e], p) ELSE encode_v3(p)} :
        LET outcome == IF out.refused THEN "refused" ELSE IF Fails(out.toks) THEN "torn" ELSE "sent"
        IN  /\ (e = "client" /\ log = <<>>) \/ got["server"] # <<>>
            /\ wire' = [wire EXCEPT ![Peer(e)] = @ \o Written(out.toks)]
            /\ log' = Append(log, [from |-> e, packet |-> p, outcome |-> outcome, codec |-> codec[e],
                                   size |-> out.size, frame |-> Bytes(Written(out.toks))])
            /\ UNCHANGED <<version, detected, codec, src, got, failed>>

\* Another implementation of the client sends a frame of its own making.
ForeignFrame ==
    /\ got["server"] # <<>>
    /\ \E f \in Foreign(version, log) :
          /\ wire' = [wire EXCEPT !["server"] =
                         @ \o <<u8(f.first)>> \o write_variable_length(Bytes(f.body)) \o f.body]
          /\ log' = Append(log, [from |-> "client", packet |-> f.means, codec |-> codec["client"],
                                 outcome |-> IF f.means.type = "malformed" THEN "torn" ELSE "foreign",
                                 size |-> Bytes(f.body), frame |-> 1 + V5!with_len(Bytes(f.body))])
    /\ UNCHANGED <<version, detected, codec, src, got, failed>>

\* Any part of what is on its way arrives.
Arrive(e) ==
    \E k \in 1..Len(wire[e]) :
        /\ src' = [src EXCEPT ![e] = @ \o SubSeq(wire[e], 1, k)]
        /\ wire' = [wire EXCEPT ![e] = SubSeq(@, k + 1, Len(@))]
        /\ UNCHANGED <<version, detected, codec, log, got, failed>>

----------------------------------------------------------------------------
\* Version detection: VersionCodec looks at the buffer and takes nothing from it.

\* ... as soon as the protocol name is there.
version_decode_early(s) ==
    LET r == decode_variable_length(Tail(s))
    IN  IF Bytes(s) < 2 \/ r.err = "incomplete" \/ Bytes(s) < r.used + 7 THEN "none"
        ELSE IF r.err # "none" \/ s[1].v # 16 \/ Bytes(s) <= r.used + 7 THEN "error"
        ELSE IF s[r.used + 3].v = V3!MQTT_LEVEL_3 THEN "v3" ELSE "v5"

version_decode(s) ==
    LET r == decode_variable_length(Tail(s))
        consumed == r.used + 1
    IN  IF Bytes(s) < 2 THEN "none"
        ELSE IF r.err = "incomplete" THEN "none"
        ELSE IF r.err # "none" THEN "error"
        ELSE IF s[1].v # 16 THEN "error"
        ELSE IF Bytes(s) <= consumed + 6 THEN "none"
        ELSE IF s[consumed + 1] # string(4) THEN "error"
        ELSE IF s[consumed + 2].v = V3!MQTT_LEVEL_3 THEN "v3"
        ELSE IF s[consumed + 2].v = V5!MQTT_LEVEL_5 THEN "v5" ELSE "error"

DetectVersion ==
    /\ detected = "none"
    /\ detected' = version_decode(src["server"])
    /\ detected' # "none"
    /\ UNCHANGED <<version, codec, wire, src, log, got, failed>>

----------------------------------------------------------------------------
\* Decoding: one call of decode on the buffer s, with the codec of the version.
Speaks(e) == IF e = "server" THEN detected ELSE version

decode_packet(ver, body, first_byte) ==
    IF ver = "v5" THEN V5!decode_packet(body, first_byte) ELSE V3!decode_packet(body, first_byte)

\* The error of a packet leaves the state; the body is gone.
decoded_frame(fixed, rest, r) ==
    IF r.err # "none" THEN [state |-> fixed, src |-> rest, err |-> r.err]
    ELSE [state |-> FrameHeader, src |-> rest, err |-> "none", packet |-> r.packet]

\* ... with the next frame read by the header of this one.
decode_frame_stuck(ver, fixed, s) ==
    IF Bytes(s) < fixed.remaining_length THEN [state |-> fixed, src |-> s, err |-> "incomplete"]
    ELSE IF ~CanSplit(s, fixed.remaining_length) THEN [state |-> fixed, src |-> s, err |-> "desync"]
    ELSE LET b == split_to(s, fixed.remaining_length)
         IN  decode_packet(ver, b.head, fixed.first_byte) @@ [state |-> fixed, src |-> b.rest]

\* DecodeState::Frame.
decode_frame(ver, fixed, s) ==
    IF Bytes(s) < fixed.remaining_length THEN [state |-> fixed, src |-> s, err |-> "incomplete"]
    ELSE IF ~CanSplit(s, fixed.remaining_length) THEN [state |-> fixed, src |-> s, err |-> "desync"]
    ELSE LET b == split_to(s, fixed.remaining_length)
         IN  decoded_frame(fixed, b.rest, decode_packet(ver, b.head, fixed.first_byte))

\* DecodeState::FrameHeader.
decode_header(c, s) ==
    LET r == decode_variable_length(Tail(s))
    IN  IF Bytes(s) < 2 THEN [state |-> c.state, src |-> s, err |-> "incomplete"]
        ELSE IF r.err # "none" THEN [state |-> c.state, src |-> s, err |-> r.err]
        ELSE IF c.max_in_size # 0 /\ c.max_in_size < r.v
        THEN [state |-> c.state, src |-> s, err |-> "MaxSizeExceeded"]
        ELSE [state |-> Frame(s[1].v, r.v), src |-> SubSeq(s, r.used + 2, Len(s)), err |-> "none"]

\* The loop of decode: the header unless it was read before, then the frame.
decode(c, ver, s) ==
    LET h == IF c.state = FrameHeader THEN decode_header(c, s)
             ELSE [state |-> c.state, src |-> s, err |-> "none"]
    IN  IF h.err # "none" THEN h ELSE decode_frame(ver, h.state, h.src)

\* ... of the content, and not of the frame.
set_max_outbound_size_whole(size) == size

\* The fixed header takes at most five bytes of what the peer accepts.
set_max_outbound_size(size) == IF size > 5 THEN size - 5 ELSE size

\* What a decoded packet does to the codec: a CONNECT sets NO_PROBLEM_INFO, and the
\* handshake takes over the Maximum Packet Size of a CONNECT or a CONNACK.
noted(c, ver, p) ==
    IF ver = "v3" \/ p.type \notin {"Connect", "ConnectAck"} THEN c
    ELSE LET max == p.props[V5!PACKET_SIZE_MAX]
             limited == IF max = <<>> THEN c
                        ELSE [c EXCEPT !.limit = max[1], !.max_out_size = set_max_outbound_size(max[1])]
         IN  IF p.type = "Connect"
             THEN [limited EXCEPT !.no_problem_info = p.props[V5!REQ_PROB_INFO] = <<0>>]
             ELSE limited

Decode(e) ==
    /\ Speaks(e) \in {"v3", "v5"} /\ ~failed[e]
    /\ src[e] # <<>>
    /\ \E r \in {decode(codec[e], Speaks(e), src[e])} :
        LET c == [codec[e] EXCEPT !.state = r.state] IN
        /\ r.err # "incomplete" \/ r.state # codec[e].state
        /\ src' = [src EXCEPT ![e] = r.src]
        /\ codec' = [codec EXCEPT ![e] = IF r.err = "none" THEN noted(c, Speaks(e), r.packet) ELSE c]
        /\ got' = IF r.err = "none" THEN [got EXCEPT ![e] = Append(@, r.packet)] ELSE got
        /\ failed' = [failed EXCEPT ![e] = r.err \notin {"none", "incomplete"}]
        /\ UNCHANGED <<version, detected, wire, log>>

Next ==
    \/ \E e \in Ends : Encode(e) \/ Arrive(e) \/ Decode(e)
    \/ ForeignFrame
    \/ DetectVersion

Spec == Init /\ [][Next]_vars

----------------------------------------------------------------------------
\* What e is to receive, up to the first frame that is not a whole packet.
Sent(e) ==
    LET from == SelectSeq(log, LAMBDA l : l.from = Peer(e) /\ l.outcome # "refused")
        torn == {i \in DOMAIN from : from[i].outcome = "torn"}
    IN  IF torn = {} THEN from ELSE SubSeq(from, 1, Min(torn) - 1)
Torn(e) == \E i \in DOMAIN log : log[i].from = Peer(e) /\ log[i].outcome = "torn"

Answers == {"ConnectAck", "PublishAck", "PublishReceived", "PublishRelease", "PublishComplete",
            "SubscribeAck", "UnsubscribeAck", "Disconnect", "Auth"}

\* What a codec means to send, and the same packet apart from diagnostics left out.
Meant(l) == IF l.codec.no_problem_info THEN Stripped(l.packet) ELSE l.packet
Bare(p) == IF p.type \in Answers
           THEN [p EXCEPT !.props[V5!USER] = <<>>, !.props[V5!REASON_STRING] = <<>>] ELSE p
Received(ver, l, q) ==
    IF ver = "v3" \/ l.packet.type \notin Answers THEN q = (IF ver = "v3" THEN l.packet ELSE Meant(l))
    ELSE /\ q.type = l.packet.type
         /\ Bare(q) = Bare(l.packet)
         /\ IsPrefix(q.props[V5!USER], Meant(l).props[V5!USER])
         /\ q.props[V5!REASON_STRING] \in {<<>>, Meant(l).props[V5!REASON_STRING]}

\* What a decoder returns is a packet of the structs: every id is non-zero, every
\* reason code one of the enum's, every single property there at most once.
WellFormed ==
    \A e \in Ends : \A i \in DOMAIN got[e] :
        IF version = "v5" THEN V5!IsPacket(got[e][i]) ELSE V3!IsPacket(got[e][i])

\* However the bytes are cut into pieces, an endpoint decodes the packets the other
\* encoded, each once and in their order (but for diagnostics left out); it fails
\* only at a broken frame or one over its inbound limit, and when all bytes
\* have arrived it waits for none of them.
InSync ==
    \A e \in Ends :
        LET sent == Sent(e)
            waiting == Speaks(e) \in {"v3", "v5"} /\ decode(codec[e], Speaks(e), src[e]).err = "incomplete"
            over == {i \in DOMAIN sent : codec[e].max_in_size # 0 /\ sent[i].size > codec[e].max_in_size}
        IN  /\ ~Torn(e) => Len(got[e]) <= Len(sent)
            /\ \A i \in DOMAIN got[e] : i <= Len(sent) => Received(version, sent[i], got[e][i])
            /\ failed[e] => Torn(e) \/ Len(got[e]) + 1 \in over
            /\ wire[e] = <<>> /\ waiting /\ ~failed[e] /\ ~Torn(e)
               => src[e] = <<>> /\ Len(got[e]) = Len(sent)

\* No frame, whole or not, is larger than the Maximum Packet Size its receiver
\* announced in CONNECT or CONNACK (from six bytes on: below that
\* set_max_outbound_size leaves no room for the fixed header).
WithinPeerLimit ==
    \A i \in DOMAIN log : log[i].codec.limit > 5 => log[i].frame <= log[i].codec.limit

\* The answers whose limit is reduced without a check, and the bytes it is reduced by.
Unchecked(p) ==
    IF p.type \in {"PublishAck", "PublishReceived", "PublishRelease", "PublishComplete"} THEN 7
    ELSE IF p.type = "SubscribeAck" THEN 2 + Len(p.status) ELSE 0

\* Diagnostics are left out of an answer only when the whole of it, with the eight
\* bytes that are set aside for lengths, does not fit, and an answer is refused only when
\* it does not fit without them.  Where the peer takes less than the bytes the limit is
\* reduced by, the unsigned difference wraps in a release build: there an answer
\* that fits with its diagnostics is sent whole, and one that fits only without them
\* may be refused.
DiagnosticsKept ==
    \A i \in DOMAIN log :
        LET l == log[i]
            max == l.codec.max_out_size
            size == IF max = 0 THEN MAX_PACKET_SIZE ELSE max
        IN  version = "v5" /\ l.packet.type \in Answers /\ l.outcome # "foreign" =>
            LET full == V5!encoded_size(Meant(l), MAX_PACKET_SIZE)
                bare == V5!encoded_size(Bare(l.packet), MAX_PACKET_SIZE)
                wraps == size < Unchecked(l.packet)
            IN  /\ full + (IF wraps THEN 0 ELSE 8) <= size
                   => l.outcome = "sent" /\ l.frame = 1 + V5!with_len(full)
                /\ l.outcome = "refused" => (IF wraps THEN full ELSE bare) > size

\* The version the server detects is the client's, and a CONNECT that has arrived is
\* enough to detect it.
VersionDetected ==
    /\ detected \in {"none", version}
    /\ log # <<>> /\ wire["server"] = <<>> /\ detected = "none" => version_decode(src["server"]) # "none"
=============================================================================
