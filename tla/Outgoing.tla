------------------------------- MODULE Outgoing -------------------------------
(* The packets a client writes: what each call checks against the server's  *)
(* configuration, the fields its encoder writes one after the other, and a  *)
(* connection on which a write can fail or be given up half way.  What a    *)
(* call does to the session is in module Client.                            *)
EXTENDS Encoding, Topics

CONSTANTS Texts,            \* lengths of optional texts, Absent among them
          Messages,         \* lengths of messages
          Identifiers,      \* subscription identifiers, Absent among them
          RECEIVE_MAXIMA,   \* values of the const parameter RECEIVE_MAXIMUM
          Connacks,         \* CONNACK: [limit, granted, denied]
          FilterChars       \* longest topic filter after "$share", in characters

Features == {"QoS1", "QoS2", "Retain", "Alias", "Wildcard", "SubscriptionIdentifier", "Shared"}

ASSUME OutgoingAssumption ==
    /\ \A n \in Texts : n = Absent \/ (n \in Nat /\ n <= MAX_LENGTH)
    /\ \A n \in Messages : n \in Nat /\ n <= MAX_ENCODABLE
    /\ \A n \in Identifiers : n = Absent \/ (n \in Nat /\ n <= MAX_ENCODABLE)
    /\ \A n \in RECEIVE_MAXIMA : n \in Nat /\ n <= 65535
    /\ \A c \in Connacks : c.limit \in Nat /\ c.limit <= Unlimited /\ c.granted \subseteq Features
    /\ FilterChars \in Nat /\ 6 + FilterChars <= MAX_LENGTH

VARIABLES net,            \* NetState: "Ok", "Faulted" or "Terminated"
          call,           \* "Idle", or "Connack" while connect awaits it
          expiry,         \* client_config.session_expiry_interval is not zero
          server_config,  \* [limit, supports]
          filter,         \* a topic filter the user has made: [s, valid]
          outgoing,       \* the packet last written, in whole or in part
          torn,           \* the connection carries a part of a packet
          cancelled,      \* on this connection a call was dropped before its end
          server          \* what the server was told and has told: [limit, supports, expiry]

outgoingVars == <<net, call, expiry, server_config, filter, outgoing, torn, cancelled, server>>

(* Config::default, and what MQTT 5 takes an absent CONNACK property to mean *)
Defaults == Features \ {"Alias"}

NoFilter == [valid |-> FALSE]
NoPacket == [type |-> "None", announced |-> Nothing, written |-> Nothing,
             needs |-> {}, whole |-> FALSE]

OutgoingInit ==
    /\ net = "Terminated"
    /\ call = "Idle"
    /\ expiry = FALSE
    /\ server_config = [limit |-> Unlimited, supports |-> Defaults]
    /\ filter = NoFilter
    /\ outgoing = NoPacket
    /\ torn = FALSE
    /\ cancelled = FALSE
    /\ server = [limit |-> Unlimited, supports |-> Defaults, expiry |-> FALSE]

-----------------------------------------------------------------------------
Written(p, needs) ==
    [type |-> p.type, needs |-> needs, whole |-> TRUE,
     announced |-> Lengths(remaining_len(p), properties_length(p),
                     IF p.type = "Connect" /\ p.with_will THEN WillPropertiesLength(p.will) ELSE 0),
     written |-> send(p)]

Wrong_handle_tx == net' = "Faulted"     \* as if receiving had failed

(* handle_tx: nothing more is written on this connection.                   *)
handle_tx == net' = "Terminated"

(* raw.send and raw.flush on a connection that is Ok.  The packet is        *)
(* written in whole, after which the connection is in state `after` or the  *)
(* flush fails; a write fails; or the user drops the future.                *)
Transmit(p, needs, after) ==
    LET packet == Written(p, needs)
    IN  \/ /\ outgoing' = packet
           /\ net' = after \/ handle_tx
           /\ UNCHANGED <<torn, cancelled>>
        \/ /\ outgoing' = [packet EXCEPT !.whole = FALSE]
           /\ torn' = TRUE
           /\ handle_tx
           /\ UNCHANGED cancelled
        \/ /\ outgoing' = [packet EXCEPT !.whole = FALSE]
           /\ torn' = TRUE
           /\ cancelled' = TRUE
           /\ UNCHANGED net

(* One call at a time: connect takes a connection that is not Ok, the other *)
(* calls one that is.                                                       *)
Free == call = "Idle" /\ outgoing = NoPacket
Ready == Free /\ net = "Ok"

Wrong_fits(p) == remaining_len(p) <= server_config.limit     \* forgets the fixed header

(* encoded_len against server_config.maximum_packet_size                    *)
fits(p) == encoded_len(p) <= server_config.limit

Wrong_encodable(p) == TRUE

(* VarByteInt::try_from in PublishPacket::new, or TooLargeToEncode          *)
encodable(p) == remaining_len(p) <= MAX_ENCODABLE

-----------------------------------------------------------------------------
(* The options of the calls: every list of properties with the rest fixed,  *)
(* and every choice of the rest with no properties.                         *)
UserCounts == 0..MAX_USER_PROPERTIES
Names == {NumBytes(s) : s \in {t \in Strings(1) : is_valid_name(t)}}

Wills == [delay : BOOLEAN, indicator : BOOLEAN, expiry : BOOLEAN, content_type : Texts,
          response_topic : Texts, correlation_data : Texts, users : UserCounts,
          topic : {1}, message : {2}]

ConnectPackets ==
    [type : {"Connect"}, expiry : BOOLEAN, receive_maximum : RECEIVE_MAXIMA, limited : BOOLEAN,
     request_response : BOOLEAN, request_problem : BOOLEAN, users : UserCounts,
     client_identifier : {0}, with_will : {FALSE}, user_name : Texts, password : Texts]
    \cup
    [type : {"Connect"}, expiry : BOOLEAN, receive_maximum : {1}, limited : {FALSE},
     request_response : {FALSE}, request_problem : {TRUE}, users : {0},
     client_identifier : {3}, with_will : {TRUE}, will : Wills,
     user_name : {Absent}, password : {Absent}]

PublishPackets ==
    {p \in [type : {"Publish"}, topic : Names \cup {Absent}, alias : BOOLEAN, qos : 0..2,
            retain : BOOLEAN, indicator : {FALSE}, expiry : {FALSE}, response_topic : {Absent},
            correlation_data : {Absent}, users : {0}, content_type : {Absent},
            message : Messages] : p.topic = Absent => p.alias}
    \cup
    [type : {"Publish"}, topic : {1}, alias : BOOLEAN, qos : {1}, retain : {FALSE},
     indicator : BOOLEAN, expiry : BOOLEAN, response_topic : Texts, correlation_data : Texts,
     users : UserCounts, content_type : Texts, message : {1}]

AckPackets == [type : {"Ack"}, reason_string : Texts, users : UserCounts]
MinimalAck == [type |-> "Ack", reason_string |-> Absent, users |-> 0]

DisconnectPackets ==
    {p \in [type : {"Disconnect"}, expiry : BOOLEAN, nonzero : BOOLEAN, reason_string : Texts,
            users : UserCounts] : p.nonzero => p.expiry}
MinimalDisconnect ==
    [type |-> "Disconnect", expiry |-> FALSE, nonzero |-> FALSE, reason_string |-> Absent,
     users |-> 0]

-----------------------------------------------------------------------------
(* connect, as far as the CONNECT packet: it is not subject to any limit.   *)
Connect(c) ==
    /\ expiry' = c.expiry
    /\ server' = [limit |-> Unlimited, supports |-> Defaults, expiry |-> c.expiry]
    /\ LET packet == Written(c, {})
       IN  \/ /\ outgoing' = packet
              /\ torn' = FALSE /\ cancelled' = FALSE
              /\ \/ net' = "Ok" /\ call' = "Connack"
                 \/ handle_tx /\ UNCHANGED call
           \/ /\ outgoing' = [packet EXCEPT !.whole = FALSE]
              /\ torn' = TRUE
              /\ \/ handle_tx /\ cancelled' = FALSE
                 \/ net' = "Ok" /\ cancelled' = TRUE
              /\ UNCHANGED call
    /\ UNCHANGED <<server_config, filter>>

(* A successful CONNACK: a property that is absent leaves its entry of      *)
(* server_config as an earlier connection set it.                           *)
Connack ==
    /\ call = "Connack"
    /\ \E c \in Connacks :
         /\ server_config' = [limit |-> IF c.limit = Unlimited THEN server_config.limit ELSE c.limit,
                              supports |-> (server_config.supports \cup c.granted) \ c.denied]
         /\ server' = [server EXCEPT !.limit = c.limit,
                                     !.supports = (Defaults \cup c.granted) \ c.denied]
    /\ call' = "Idle"
    /\ outgoing' = NoPacket
    /\ UNCHANGED <<net, expiry, filter, torn, cancelled>>

Wrong_ConnectEnds ==    \* connect is not over once the connection is
    /\ call = "Connack"
    /\ outgoing' = NoPacket
    /\ \/ net' \in {"Terminated", "Faulted"} /\ UNCHANGED <<call, cancelled>>
       \/ call' = "Idle" /\ cancelled' = TRUE /\ UNCHANGED net
    /\ UNCHANGED <<expiry, server_config, filter, torn, server>>

(* connect ends otherwise: the server refuses or the transport fails, what  *)
(* arrives is faulty, or the user drops the call.                           *)
ConnectEnds ==
    /\ call = "Connack"
    /\ call' = "Idle"
    /\ outgoing' = NoPacket
    /\ \/ net' \in {"Terminated", "Faulted"} /\ UNCHANGED cancelled
       \/ cancelled' = TRUE /\ UNCHANGED net
    /\ UNCHANGED <<expiry, server_config, filter, torn, server>>

-----------------------------------------------------------------------------
(* publish and republish                                                    *)
Publish(p) ==
    LET needs == {f \in {"QoS1"} : p.qos >= 1} \cup {f \in {"QoS2"} : p.qos = 2}
                   \cup {f \in {"Retain"} : p.retain} \cup {f \in {"Alias"} : p.alias}
    IN  /\ needs \subseteq server_config.supports
        /\ encodable(p) /\ fits(p)
        /\ Transmit(p, needs, "Ok")
        /\ UNCHANGED <<call, expiry, server_config, filter, server>>

(* manual_acknowledge, manual_receive, manual_release and manual_complete   *)
Acknowledge(p) ==
    /\ fits(p)
    /\ Transmit(p, {}, "Ok")
    /\ UNCHANGED <<call, expiry, server_config, filter, server>>

(* What poll, rerelease and ping send without looking at the limit.         *)
Unchecked ==
    /\ \E p \in {MinimalAck, [type |-> "Pingreq"]} : Transmit(p, {}, "Ok")
    /\ UNCHANGED <<call, expiry, server_config, filter, server>>

(* disconnect: a session must have been asked for to be prolonged.          *)
Disconnect(p) ==
    /\ p.nonzero => expiry
    /\ fits(p)
    /\ Transmit(p, {f \in {"Expiry"} : p.nonzero}, "Terminated")
    /\ UNCHANGED <<call, expiry, server_config, filter, server>>

(* abort after poll_header or poll_body has found a fault: a DISCONNECT     *)
(* that is not flushed, and the end of the connection, sent or not.         *)
Abort ==
    /\ net = "Faulted"
    /\ \/ /\ outgoing' = Written(MinimalDisconnect, {})
          /\ UNCHANGED torn
       \/ /\ outgoing' = [Written(MinimalDisconnect, {}) EXCEPT !.whole = FALSE]
          /\ torn' = TRUE
    /\ net' = "Terminated"
    /\ UNCHANGED <<call, expiry, server_config, filter, cancelled, server>>

(* TopicFilter::new                                                         *)
NewFilter(s) ==
    /\ filter' = [s |-> s, valid |-> is_valid_filter(s)]
    /\ UNCHANGED <<net, call, expiry, server_config, outgoing, torn, cancelled, server>>

(* subscribe: the guards go by has_wildcard and is_shared; what the filter  *)
(* asks of the server goes by its characters.                               *)
Subscribe(identifier, users, no_local) ==
    LET s == filter.s
        asks == {f \in {"Wildcard"} : has_wildcard(s)} \cup {f \in {"Shared"} : is_shared(s)}
        needs == {f \in {"Wildcard"} : \E i \in DOMAIN s.rest : s.rest[i] \in Wildcards}
                   \cup {f \in {"Shared"} : s.share /\ s.rest[1] = "/"}
        option == {f \in {"SubscriptionIdentifier"} : identifier # Absent}
        p == [type |-> "Subscribe", identifier |-> identifier, users |-> users,
              filter |-> NumBytes(s)]
    IN  /\ filter.valid
        /\ asks \cup option \subseteq server_config.supports
        /\ ~(no_local /\ is_shared(s))
        /\ fits(p)
        /\ Transmit(p, needs \cup option, "Ok")
        /\ filter' = NoFilter
        /\ UNCHANGED <<call, expiry, server_config, server>>

Unsubscribe(users) ==
    LET p == [type |-> "Unsubscribe", users |-> users, filter |-> NumBytes(filter.s)]
    IN  /\ filter.valid
        /\ fits(p)
        /\ Transmit(p, {}, "Ok")
        /\ filter' = NoFilter
        /\ UNCHANGED <<call, expiry, server_config, server>>

(* The call returns; the user lets go of a filter; receiving finds a fault. *)
Return ==
    /\ outgoing # NoPacket /\ call = "Idle"
    /\ outgoing' = NoPacket
    /\ UNCHANGED <<net, call, expiry, server_config, filter, torn, cancelled, server>>

DropFilter ==
    /\ filter' = NoFilter
    /\ UNCHANGED <<net, call, expiry, server_config, outgoing, torn, cancelled, server>>

Fault ==
    /\ net' = "Faulted"
    /\ UNCHANGED <<call, expiry, server_config, filter, outgoing, torn, cancelled, server>>

OutgoingNext ==
    \/ /\ Free /\ net # "Ok"
       /\ Abort \/ \E c \in ConnectPackets : Connect(c)
    \/ Connack \/ ConnectEnds
    \/ /\ Ready /\ filter = NoFilter
       /\ \/ \E p \in PublishPackets : Publish(p)
          \/ \E p \in AckPackets : Acknowledge(p)
          \/ \E p \in DisconnectPackets : Disconnect(p)
          \/ \E s \in Strings(FilterChars) : NewFilter(s)
          \/ Unchecked \/ Fault
    \/ /\ Ready /\ filter # NoFilter
       /\ \/ \E id \in Identifiers, users \in UserCounts, no_local \in BOOLEAN :
               Subscribe(id, users, no_local)
          \/ \E users \in UserCounts : Unsubscribe(users)
          \/ DropFilter
    \/ Return

OutgoingSpec == OutgoingInit /\ [][OutgoingNext]_outgoingVars

-----------------------------------------------------------------------------
(* The states of a connection, the configuration and the packet at hand.    *)
OutgoingTypeOK ==
    /\ net \in {"Ok", "Faulted", "Terminated"}
    /\ call \in {"Idle", "Connack"}
    /\ call = "Connack" => net = "Ok" /\ ~torn /\ filter = NoFilter
    /\ server_config.supports \subseteq Features
    /\ server_config.limit \in {c.limit : c \in Connacks} \cup {Unlimited}
    /\ outgoing.whole => outgoing # NoPacket
    /\ torn \in BOOLEAN /\ cancelled \in BOOLEAN /\ expiry \in BOOLEAN

(* TxPacket::send: a packet written in whole has as many bytes as the       *)
(* remaining length in its header says, and each property list, the will's  *)
(* among them, as many as its length field says.  The server would take     *)
(* anything else for the beginning of the next packet or property.          *)
WritesAnnounced == outgoing.whole => outgoing.written = outgoing.announced

(* VarByteInt::new_unchecked in the encoders: every length they pass to it  *)
(* can be encoded.                                                          *)
Encodable == \A l \in {"body", "list", "will"} : outgoing.announced[l] <= MAX_ENCODABLE

(* ServerMaximumPacketSizeExceeded: nothing longer than the server accepts  *)
(* on this connection is written after the CONNECT, but for the packets of  *)
(* at most 6 bytes that go unchecked.                                       *)
WithinServerLimit ==
    ~cancelled /\ outgoing.type \notin {"None", "Connect"} =>
      \/ EncodedLen(outgoing.announced.body) <= server.limit
      \/ EncodedLen(outgoing.announced.body) <= 6

(* UnsupportedByServer and IllegalDisconnectSessionExpiryInterval: no       *)
(* packet asks for what this connection's CONNECT and CONNACK rule out,     *)
(* however the earlier ones of the client went.  The one exception is a     *)
(* topic alias: it may go by the maximum of an earlier connection, although *)
(* a CONNACK without one means zero.                                        *)
NothingUnsupported ==
    ~cancelled => outgoing.needs \ (server.supports \cup {"Alias"})
                    \subseteq {f \in {"Expiry"} : server.expiry}

(* handle_tx: unless the user dropped a call, nothing follows a packet that *)
(* was written in part.                                                     *)
TornIsAbandoned == torn /\ ~cancelled => net = "Terminated"

(* TopicFilter::new accepts what MQTT 5 calls a topic filter or a shared    *)
(* subscription and nothing else, with two exceptions: "$share/" followed   *)
(* by a share name alone is accepted, and a filter that merely begins with  *)
(* "$share" is not.                                                         *)
FilterVerdict ==
    filter # NoFilter =>
      LET s == filter.s
      IN  filter.valid <=> IF s.share THEN WellFormedShared(s.rest) \/ NameOnly(s.rest)
                                     ELSE WellFormed(s.rest)
===============================================================================
