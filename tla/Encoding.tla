------------------------------- MODULE Encoding -------------------------------
(* What the packets the client sends announce, the property length and the   *)
(* remaining length, and what their encoders then write.  A packet is the    *)
(* record of its options.  A text or binary is its length, Absent if it is   *)
(* left out; an option without a length of its own is a BOOLEAN.             *)
EXTENDS Sizes

CONSTANTS MAX_USER_PROPERTIES,  \* properties the client's lists can hold
          UserLen               \* bytes of the name and value of a user property

ASSUME EncodingAssumption ==
    /\ MAX_USER_PROPERTIES \in Nat /\ MAX_USER_PROPERTIES <= 1021
    /\ UserLen \in Nat /\ UserLen <= 2 * 65535

Absent == -1
MAX_LENGTH == 65535     \* of MqttString and MqttBinary

Text(n) == 2 + n                                 \* a length prefix and the bytes
OptionalText(n) == IF n = Absent THEN 0 ELSE Text(n)
Property(n) == IF n = Absent THEN 0 ELSE 1 + Text(n)   \* the identifier, then a text
If(b, n) == IF b THEN n ELSE 0
Users(n) == n * (5 + UserLen)                    \* identifier and two prefixes each

(* The length field of a property list and the list.                         *)
List(n) == VarLen(n) + n

-----------------------------------------------------------------------------
WillPropertiesLength(w) ==
    If(w.delay, 5) + If(w.indicator, 2) + If(w.expiry, 5) + Property(w.content_type)
      + Property(w.response_topic) + Property(w.correlation_data) + Users(w.users)

WillLen(w) == List(WillPropertiesLength(w)) + Text(w.topic) + Text(w.message)

(* ReceiveMaximum, MaximumPacketSize and a session expiry interval of zero   *)
(* are left out when they state the default.  Topic alias maximum and        *)
(* authentication are always None.                                           *)
ConnectPropertiesLength(c) ==
    If(c.expiry, 5) + If(c.receive_maximum # 65535, 3) + If(c.limited, 5)
      + If(c.request_response, 2) + If(~c.request_problem, 2) + Users(c.users)

ConnectRemainingLen(c) ==
    7 + 1 + 2 + List(ConnectPropertiesLength(c)) + Text(c.client_identifier)
      + If(c.with_will, WillLen(c.will)) + OptionalText(c.user_name) + OptionalText(c.password)

PublishPropertiesLength(p) ==
    If(p.indicator, 2) + If(p.expiry, 5) + If(p.alias, 3) + Property(p.response_topic)
      + Property(p.correlation_data) + Users(p.users) + Property(p.content_type)

TopicLen(p) == IF p.topic = Absent THEN 0 ELSE p.topic

(* remaining_len_raw, before try_from refuses what cannot be encoded         *)
PublishRemainingLen(p) ==
    Text(TopicLen(p)) + If(p.qos > 0, 2) + List(PublishPropertiesLength(p)) + p.message

AckPropertiesLength(p) == Property(p.reason_string) + Users(p.users)
AckRemainingLen(p) == 2 + 1 + List(AckPropertiesLength(p))

DisconnectPropertiesLength(p) ==
    If(p.expiry, 5) + Property(p.reason_string) + Users(p.users)
DisconnectRemainingLen(p) == 1 + List(DisconnectPropertiesLength(p))

SubscribePropertiesLength(p) ==
    (IF p.identifier = Absent THEN 0 ELSE 1 + VarLen(p.identifier)) + Users(p.users)
SubscribeRemainingLen(p) == 2 + List(SubscribePropertiesLength(p)) + Text(p.filter) + 1

UnsubscribeRemainingLen(p) == 2 + List(Users(p.users)) + Text(p.filter)

(* The properties and the remaining length a packet announces.               *)
properties_length(p) ==
    CASE p.type = "Connect" -> ConnectPropertiesLength(p)
      [] p.type = "Publish" -> PublishPropertiesLength(p)
      [] p.type = "Ack" -> AckPropertiesLength(p)
      [] p.type = "Disconnect" -> DisconnectPropertiesLength(p)
      [] p.type = "Subscribe" -> SubscribePropertiesLength(p)
      [] p.type = "Unsubscribe" -> Users(p.users)
      [] p.type = "Pingreq" -> 0

remaining_len(p) ==
    CASE p.type = "Connect" -> ConnectRemainingLen(p)
      [] p.type = "Publish" -> PublishRemainingLen(p)
      [] p.type = "Ack" -> AckRemainingLen(p)
      [] p.type = "Disconnect" -> DisconnectRemainingLen(p)
      [] p.type = "Subscribe" -> SubscribeRemainingLen(p)
      [] p.type = "Unsubscribe" -> UnsubscribeRemainingLen(p)
      [] p.type = "Pingreq" -> 0

encoded_len(p) == EncodedLen(remaining_len(p))

-----------------------------------------------------------------------------
(* The encoders: what the writes of TxPacket::send add up to after the       *)
(* fixed header, in all, in the property list and in the will's.             *)

WriteVarByteInt(part, n) == Raw(part, Turns(n))

WriteText(n) == Raw("body", 2) ++ Raw("body", n)
WriteOptionalText(n) == IF n = Absent THEN Nothing ELSE WriteText(n)

WriteProperty(part, n) ==
    IF n = Absent THEN Nothing ELSE Raw(part, 1) ++ Raw(part, 2) ++ Raw(part, n)
WriteFixed(part, present, n) == IF present THEN Raw(part, 1) ++ Raw(part, n) ELSE Nothing
WriteUsers(part, n) == Raw(part, n * (1 + 2 + 2 + UserLen))

WriteWill(w) ==
    WriteVarByteInt("body", WillPropertiesLength(w))
      ++ WriteFixed("will", w.delay, 4) ++ WriteFixed("will", w.indicator, 1)
      ++ WriteFixed("will", w.expiry, 4) ++ WriteProperty("will", w.content_type)
      ++ WriteProperty("will", w.response_topic) ++ WriteProperty("will", w.correlation_data)
      ++ WriteUsers("will", w.users) ++ WriteText(w.topic) ++ WriteText(w.message)

WriteConnect(c) ==
    Raw("body", 7) ++ Raw("body", 1) ++ Raw("body", 2)
      ++ WriteVarByteInt("body", ConnectPropertiesLength(c)) ++ WriteFixed("list", c.expiry, 4)
      ++ WriteFixed("list", c.receive_maximum < 65535, 2) ++ WriteFixed("list", c.limited, 4)
      ++ WriteFixed("list", c.request_response, 1) ++ WriteFixed("list", ~c.request_problem, 1)
      ++ WriteUsers("list", c.users) ++ WriteText(c.client_identifier)
      ++ (IF c.with_will THEN WriteWill(c.will) ELSE Nothing)
      ++ WriteOptionalText(c.user_name) ++ WriteOptionalText(c.password)

WritePublish(p) ==
    WriteText(TopicLen(p)) ++ (IF p.qos > 0 THEN Raw("body", 2) ELSE Nothing)
      ++ WriteVarByteInt("body", PublishPropertiesLength(p)) ++ WriteFixed("list", p.indicator, 1)
      ++ WriteFixed("list", p.expiry, 4) ++ WriteFixed("list", p.alias, 2)
      ++ WriteProperty("list", p.response_topic) ++ WriteProperty("list", p.correlation_data)
      ++ WriteUsers("list", p.users) ++ WriteProperty("list", p.content_type)
      ++ Raw("body", p.message)

WriteAck(p) ==
    Raw("body", 2) ++ Raw("body", 1) ++ WriteVarByteInt("body", AckPropertiesLength(p))
      ++ WriteProperty("list", p.reason_string) ++ WriteUsers("list", p.users)

Wrong_WriteDisconnect(p) ==      \* an expiry interval of zero is skipped, as in CONNECT
    Raw("body", 1) ++ WriteVarByteInt("body", DisconnectPropertiesLength(p))
      ++ WriteFixed("list", p.expiry /\ p.nonzero, 4) ++ WriteProperty("list", p.reason_string)
      ++ WriteUsers("list", p.users)

WriteDisconnect(p) ==
    Raw("body", 1) ++ WriteVarByteInt("body", DisconnectPropertiesLength(p))
      ++ WriteFixed("list", p.expiry, 4) ++ WriteProperty("list", p.reason_string)
      ++ WriteUsers("list", p.users)

WriteSubscribe(p) ==
    Raw("body", 2) ++ WriteVarByteInt("body", SubscribePropertiesLength(p))
      ++ (IF p.identifier = Absent THEN Nothing
          ELSE Raw("list", 1) ++ WriteVarByteInt("list", p.identifier))
      ++ WriteUsers("list", p.users) ++ WriteText(p.filter) ++ Raw("body", 1)

WriteUnsubscribe(p) ==
    Raw("body", 2) ++ WriteVarByteInt("body", Users(p.users))
      ++ WriteUsers("list", p.users) ++ WriteText(p.filter)

send(p) ==
    CASE p.type = "Connect" -> WriteConnect(p)
      [] p.type = "Publish" -> WritePublish(p)
      [] p.type = "Ack" -> WriteAck(p)
      [] p.type = "Disconnect" -> WriteDisconnect(p)
      [] p.type = "Subscribe" -> WriteSubscribe(p)
      [] p.type = "Unsubscribe" -> WriteUnsubscribe(p)
      [] p.type = "Pingreq" -> Nothing
===============================================================================
