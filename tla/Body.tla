--------------------------------- MODULE Body ---------------------------------
(* Receiving a packet after its fixed header: poll_header's checks,         *)
(* Raw::recv_body with its BodyReader, the receive of every packet the      *)
(* server sends, the buffer the fields are stored in, and the checks of     *)
(* poll_body on the decoded packet.  A step reads one field.  The bytes are *)
(* whatever the server sent: lengths and values are chosen as they are      *)
(* read, and a value stands for what the code tells apart.  PUBACK, PUBREC, *)
(* PUBREL and PUBCOMP are the type Ack, SUBACK and UNSUBACK the type        *)
(* Suback; Unexpected is a type the server must not send, Invalid one that  *)
(* does not exist.                                                          *)
EXTENDS Sizes

CONSTANTS Capacity,             \* length of the BumpBuffer
          MAX_USER_PROPERTIES,
          Lens,                 \* remaining lengths a fixed header announces
          StrLens,              \* lengths of strings and binary data
          PropLens,             \* property lengths announced
          VarLens,              \* bytes of a variable byte integer that is read
          Names,                \* property identifiers that occur
          Limits                \* options.maximum_packet_size

ASSUME BodyAssumption ==
    /\ Capacity \in Nat /\ MAX_USER_PROPERTIES \in Nat
    /\ \A n \in Lens : n \in Nat /\ n <= MAX_ENCODABLE
    /\ StrLens \subseteq Nat /\ PropLens \subseteq Nat
    /\ VarLens \subseteq 1..4
    /\ \A l \in Limits : l \in Nat /\ 2 <= l /\ l <= Unlimited

VARIABLES net,               \* "Ok", "Terminated", or the code it is Faulted with
          connection,        \* what connect has set, and is it still waiting?
          phase,             \* the field to read next
          packet,            \* the fixed header and what is decoded of the body
          remaining_len,     \* BodyReader::remaining_len
          properties_length, \* as counted down by PUBLISH and SUBACK
          index,             \* BumpBuffer::index
          result,            \* how the last packet ended
          unread,            \* bytes of the body that are still in the stream
          listed,            \* bytes of the property list still in the stream
          base,              \* index when the body began
          astray,            \* has a body ended elsewhere than at its end?
          excused            \* has the server or the user done on this connection
                             \* what MQTT or the documentation rules out?

readerVars == <<phase, packet, remaining_len, properties_length, unread, listed, base>>
bodyVars == <<net, connection, index, result, astray, excused, readerVars>>

Header(type, len, flags) ==
    [type |-> type, len |-> len, flags |-> flags, topic |-> FALSE,
     properties |-> {}, users |-> 0, codes |-> 0, padded |-> FALSE]

BodyInit ==
    /\ net = "Terminated"
    /\ connection = [connecting |-> FALSE, limit |-> Unlimited, requests |-> {}]
    /\ phase = "Idle"
    /\ packet = Header("Pingresp", 0, 0)
    /\ remaining_len = 0
    /\ properties_length = 0
    /\ index = 0
    /\ result = "None"
    /\ unread = 0
    /\ listed = 0
    /\ base = 0
    /\ astray = FALSE
    /\ excused = FALSE

-----------------------------------------------------------------------------
(* The property identifiers a packet may carry, and how each is read.       *)
Allowed ==
    [Connack    |-> {"SessionExpiryInterval", "ReceiveMaximum", "MaximumQoS", "RetainAvailable",
                     "MaximumPacketSize", "AssignedClientIdentifier", "TopicAliasMaximum",
                     "ReasonString", "UserProperty", "WildcardSubscriptionAvailable",
                     "SubscriptionIdentifierAvailable", "SharedSubscriptionAvailable",
                     "ServerKeepAlive", "ResponseInformation", "ServerReference",
                     "AuthenticationMethod", "AuthenticationData"},
     Publish    |-> {"PayloadFormatIndicator", "MessageExpiryInterval", "TopicAlias",
                     "ResponseTopic", "CorrelationData", "UserProperty",
                     "SubscriptionIdentifier", "ContentType"},
     Ack        |-> {"ReasonString", "UserProperty"},
     Suback     |-> {"ReasonString", "UserProperty"},
     Disconnect |-> {"ReasonString", "UserProperty", "ServerReference"}]

Flag == {"PayloadFormatIndicator", "MaximumQoS", "RetainAvailable",
         "WildcardSubscriptionAvailable", "SubscriptionIdentifierAvailable",
         "SharedSubscriptionAvailable"}
NonZero == {"TopicAlias", "ReceiveMaximum", "MaximumPacketSize"}
Two == {"TopicAlias", "ReceiveMaximum", "TopicAliasMaximum", "ServerKeepAlive"}
Four == {"MessageExpiryInterval", "SessionExpiryInterval", "MaximumPacketSize"}
Text == {"ResponseTopic", "ContentType", "AssignedClientIdentifier", "ReasonString",
         "ResponseInformation", "ServerReference"}
Skipped == {"AuthenticationMethod", "AuthenticationData"}

FixedLen(name) == IF name \in Flag THEN 1 ELSE IF name \in Two THEN 2 ELSE 4

(* The errors a value of n bytes can be refused with: a boolean or QoS out  *)
(* of range, a zero, bytes that are no string, a string that is no topic.   *)
BadValue(name, n) ==
    {rc \in {"MalformedPacket"} : name \in Flag \/ (name \in Text /\ n > 0)}
    \cup {rc \in {"ProtocolError"} : name \in NonZero}
    \cup {rc \in {"TopicNameInvalid"} : name = "ResponseTopic"}

-----------------------------------------------------------------------------
(* handle_rx: the connection is faulted with rc.  What the failing read has *)
(* taken from the buffer stays taken.                                       *)
FailAfter(taken, rc) ==
    /\ net' = rc
    /\ phase' = "Returned"
    /\ result' = rc
    /\ index' = index + taken
    /\ UNCHANGED <<connection, packet, remaining_len, properties_length, unread, listed,
                   base, astray, excused>>

Fail(rc) == FailAfter(0, rc)

Wrong_advance(n, stored) ==      \* provide_buffer hands out all that is left
    /\ remaining_len' = remaining_len - n
    /\ unread' = unread - n
    /\ index' = IF stored = 0 THEN index ELSE Capacity

(* BodyReader takes n bytes from the stream, stored of them to the buffer.  *)
Advance(n, stored) ==
    /\ remaining_len' = remaining_len - n
    /\ unread' = unread - n
    /\ index' = index + stored

(* A field of n bytes, which may have a value that is refused with one of   *)
(* the codes bad, is read; then Then.                                       *)
Field(n, bad, Then) ==
    \/ remaining_len < n /\ Fail("MalformedPacket")
    \/ remaining_len >= n /\ \E rc \in bad : Fail(rc)
    \/ remaining_len >= n /\ Advance(n, 0) /\ Then

Wrong_store_error(rest, from, n) ==              \* the buffer's end is not checked
    IF rest < 2 + n THEN "MalformedPacket" ELSE "None"

(* read_and_store of a length and n bytes, with rest left of the body and   *)
(* the buffer used up to from                                               *)
StoreError(rest, from, n) ==
    IF rest < 2 + n THEN "MalformedPacket"
    ELSE IF Capacity - from < n THEN "ImplementationSpecificError" ELSE "None"

(* BodyReader::skip(len) with len beyond the end of the body: the           *)
(* subtraction overflows, which panics or wraps around, depending on the    *)
(* build; it then reads into the next packet.                               *)
Overrun ==
    /\ phase' \in {"Panicked", "Astray"}
    /\ astray' = TRUE
    /\ excused' = TRUE
    /\ UNCHANGED <<net, connection, packet, remaining_len, properties_length, index, result,
                   unread, listed, base>>

-----------------------------------------------------------------------------
(* connect: a new connection, whatever became of the last one.              *)
Open ==
    /\ phase = "Idle"
    /\ net # "Ok"
    /\ net' = "Ok"
    /\ \E l \in Limits, requests \in SUBSET {"Problem", "Response"} :
         connection' = [connecting |-> TRUE, limit |-> l, requests |-> requests]
    /\ astray' = FALSE
    /\ excused' = FALSE
    /\ UNCHANGED <<index, result, readerVars>>

(* disconnect or abort                                                      *)
Close ==
    /\ phase = "Idle"
    /\ net # "Terminated"
    /\ net' = "Terminated"
    /\ UNCHANGED <<connection, index, result, astray, excused, readerVars>>

(* The user resets the buffer, holding nothing that lives in it.            *)
Reset ==
    /\ phase = "Idle"
    /\ index > 0
    /\ index' = 0
    /\ UNCHANGED <<net, connection, result, astray, excused, readerVars>>

FirstPhase(type, len) ==
    CASE type \in {"Ack", "Suback"} -> "Pid"
      [] type = "Publish" -> "Topic"
      [] type = "Pingresp" -> "Done"
      [] type = "Connack" -> "Reason"
      [] type = "Disconnect" -> IF len = 0 THEN "PropLen" ELSE "Reason"

(* The checks on a fixed header, in their order: connect's wait for CONNACK *)
(* or poll_header and the arms of poll_body, then those of receive.  The    *)
(* flags of a PUBLISH are its QoS; 0 stands for the flags any other type    *)
(* requires.                                                                *)
Refusal(h) ==
    IF connection.connecting /\ h.type # "Connack"
      THEN IF h.type = "Invalid" THEN "MalformedPacket" ELSE "ProtocolError"
    ELSE IF h.type = "Invalid" THEN "MalformedPacket"
    ELSE IF /\ ~connection.connecting
            /\ h.len > maximum_accepted_remaining_length(connection.limit)
      THEN "PacketTooLarge"
    ELSE IF h.type = "Unexpected" \/ (h.type = "Connack" /\ ~connection.connecting)
      THEN "ProtocolError"
    ELSE IF (h.type = "Publish" /\ h.flags = 3) \/ (h.type # "Publish" /\ h.flags # 0)
      THEN "MalformedPacket"
    ELSE "None"

Types == {"Connack", "Publish", "Ack", "Suback", "Disconnect", "Pingresp", "Unexpected",
          "Invalid"}

(* A stream that has gone astray is not followed any further.               *)
Begin ==
    /\ phase = "Idle"
    /\ net = "Ok"
    /\ ~astray
    /\ \E type \in Types, len \in Lens, flags \in 0..3 :
         LET h == Header(type, len, flags)
         IN  /\ flags > 1 => type = "Publish"
             /\ packet' = h
             /\ \/ /\ Refusal(h) # "None"
                   /\ net' = Refusal(h)
                   /\ result' = Refusal(h)
                   /\ phase' = "Returned"
                   /\ UNCHANGED excused
                \/ /\ Refusal(h) = "None"
                   /\ phase' = FirstPhase(type, len)
                   /\ excused' = (excused \/ (type = "Pingresp" /\ len > 0))
                   /\ UNCHANGED <<net, result>>
             /\ remaining_len' = len
             /\ unread' = len
    /\ base' = index
    /\ UNCHANGED <<connection, properties_length, index, listed, astray>>

-----------------------------------------------------------------------------
(* receive, field by field.                                                 *)
Kept == UNCHANGED <<net, connection, properties_length, result, listed, base, astray, excused>>

(* PUBLISH: the topic name, which may be empty                              *)
ReadTopic ==
    /\ phase = "Topic"
    /\ \E n \in StrLens :
         LET error == StoreError(remaining_len, index, n)
         IN  \/ error # "None" /\ Fail(error)
             \/ /\ error = "None" /\ n > 0
                /\ \E rc \in {"MalformedPacket", "TopicNameInvalid"} : FailAfter(n, rc)
             \/ /\ error = "None"
                /\ Advance(2 + n, n)
                /\ packet' = [packet EXCEPT !.topic = n > 0]
                /\ phase' = IF packet.flags = 0 THEN "PropLen" ELSE "Pid"
                /\ Kept

ReadPid ==
    /\ phase = "Pid"
    /\ Field(2, {"ProtocolError"},
             /\ phase' = IF packet.type = "Ack" /\ packet.len # 2 THEN "Reason" ELSE "PropLen"
             /\ UNCHANGED packet
             /\ Kept)

(* CONNACK has its flags before the reason code.                            *)
ReasonLen == IF packet.type = "Connack" THEN 2 ELSE 1

ReadReason ==
    /\ phase = "Reason"
    /\ Field(ReasonLen, {"ProtocolError"},
             /\ phase' = "PropLen"
             /\ UNCHANGED packet
             /\ Kept)

Counted == packet.type \in {"Publish", "Suback"}

Wrong_StartList(k, v) ==          \* a SUBACK may consist of its properties
    LET rest == remaining_len - k
    IN  \/ ~Counted /\ rest # v /\ Fail("MalformedPacket")
        \/ packet.type = "Suback" /\ v > rest /\ Fail("MalformedPacket")
        \/ /\ ~Counted => rest = v
           /\ packet.type = "Suback" => v <= rest
           /\ Advance(k, 0)
           /\ properties_length' = v
           /\ listed' = v
           /\ phase' = "Props"
           /\ UNCHANGED <<net, connection, packet, result, base, astray, excused>>

(* The property length v has been read from k bytes.  In a packet without a *)
(* payload the list must fill the body.                                     *)
StartList(k, v) ==
    LET rest == remaining_len - k
    IN  \/ ~Counted /\ rest # v /\ Fail("MalformedPacket")
        \/ packet.type = "Suback" /\ v > rest /\ Fail("MalformedPacket")
        \/ packet.type = "Suback" /\ v = rest /\ Fail("ProtocolError")
        \/ /\ ~Counted => rest = v
           /\ packet.type = "Suback" => v < rest
           /\ Advance(k, 0)
           /\ properties_length' = v
           /\ listed' = v
           /\ phase' = "Props"
           /\ UNCHANGED <<net, connection, packet, result, base, astray, excused>>

(* Short packets leave the property length out.                             *)
ReadPropertyLength ==
    /\ phase = "PropLen"
    /\ LET implicit == \/ packet.type = "Ack" /\ packet.len < 4
                       \/ packet.type = "Disconnect" /\ packet.len < 2
       IN  \/ \E v \in PropLens \cup {0}, k \in VarLens \cup {0} :
                /\ IF implicit THEN v = 0 /\ k = 0 ELSE k >= VarLen(v)
                /\ \/ remaining_len < k /\ Fail("MalformedPacket")
                   \/ remaining_len >= k /\ StartList(k, v)
           \/ ~implicit /\ remaining_len >= 4 /\ Fail("MalformedPacket")

-----------------------------------------------------------------------------
(* The property list.                                                       *)
InList == phase = "Props" /\ (IF Counted THEN properties_length > 0 ELSE remaining_len > 0)

(* An identifier and n bytes of a property have been read, and stored of    *)
(* them stored; what is counted down is the length counted.                 *)
Took(n, counted, stored, p) ==
    /\ Advance(1 + n, stored)
    /\ properties_length' = IF Counted THEN properties_length - 1 - counted
                                       ELSE properties_length
    /\ listed' = listed - 1 - n
    /\ packet' = p
    /\ UNCHANGED <<net, connection, phase, result, base, astray, excused>>

Wrong_take(n, counted, stored, p) ==         \* the length saturates at 0
    LET short == Counted /\ properties_length < 1 + counted
    IN  Took(n, IF short THEN properties_length - 1 ELSE counted, stored, p)

Take(n, counted, stored, p) ==
    \/ /\ Counted /\ properties_length < 1 + counted
       /\ FailAfter(stored, "MalformedPacket")
    \/ /\ Counted => properties_length >= 1 + counted
       /\ Took(n, counted, stored, p)

Fresh(name) == name \in Allowed[packet.type] \ packet.properties
WithProperty(name) == [packet EXCEPT !.properties = @ \cup {name}]

(* An identifier that is cut off, unknown, out of place or repeated         *)
RefuseProperty ==
    /\ InList
    /\ \/ Fail("MalformedPacket")
       \/ /\ remaining_len > 0
          /\ \/ \E name \in Names : name \in packet.properties
             \/ packet.type = "Disconnect" /\ "SessionExpiryInterval" \in Names
          /\ Fail("ProtocolError")

FixedProperty ==
    /\ InList
    /\ \E name \in Names \cap (Flag \cup Two \cup Four) :
         /\ Fresh(name)
         /\ \/ remaining_len < 1 + FixedLen(name) /\ Fail("MalformedPacket")
            \/ /\ remaining_len >= 1 + FixedLen(name)
               /\ \/ \E rc \in BadValue(name, FixedLen(name)) : Fail(rc)
                  \/ Take(FixedLen(name), FixedLen(name), 0, WithProperty(name))

(* Strings, and the binary CorrelationData, which has no bad values         *)
TextProperty ==
    /\ InList
    /\ \E name \in Names \cap (Text \cup {"CorrelationData"}), n \in StrLens :
         LET error == StoreError(remaining_len - 1, index, n)
         IN  /\ Fresh(name)
             /\ \/ error # "None" /\ Fail(error)
                \/ error = "None" /\ \E rc \in BadValue(name, n) : FailAfter(n, rc)
                \/ /\ error = "None"
                   /\ name = "ResponseTopic" => n > 0
                   /\ Take(2 + n, 2 + n, n, WithProperty(name))

(* A user property is stored as long as there is room in the packet ...     *)
UserProperty ==
    /\ InList
    /\ "UserProperty" \in Names
    /\ packet.users < MAX_USER_PROPERTIES
    /\ \E n \in StrLens, m \in StrLens :
         LET name == StoreError(remaining_len - 1, index, n)
             value == StoreError(remaining_len - 3 - n, index + n, m)
         IN  \/ name # "None" /\ Fail(name)
             \/ name = "None" /\ n > 0 /\ FailAfter(n, "MalformedPacket")
             \/ name = "None" /\ value # "None" /\ FailAfter(n, value)
             \/ /\ name = "None" /\ value = "None"
                /\ \/ m > 0 /\ FailAfter(n + m, "MalformedPacket")
                   \/ Take(4 + n + m, 4 + n + m, n + m, [packet EXCEPT !.users = @ + 1])

(* ... and skipped afterwards: the length of either part is trusted.        *)
SkipUserProperty ==
    /\ InList
    /\ "UserProperty" \in Names
    /\ packet.users = MAX_USER_PROPERTIES
    /\ \E n \in StrLens, m \in StrLens :
         LET name_rest == remaining_len - 3
             value_rest == name_rest - n - 2
         IN  \/ name_rest < 0 /\ Fail("MalformedPacket")
             \/ name_rest >= 0 /\ n > name_rest /\ Overrun
             \/ name_rest >= n /\ value_rest < 0 /\ Fail("MalformedPacket")
             \/ value_rest >= 0 /\ m > value_rest /\ Overrun
             \/ value_rest >= m /\ Take(4 + n + m, 4 + n + m, 0, packet)

(* CONNACK's authentication method and data are not stored.                 *)
SkipProperty ==
    /\ InList
    /\ \E name \in Names \cap Skipped, n \in StrLens :
         /\ Fresh(name)
         /\ \/ remaining_len < 3 /\ Fail("MalformedPacket")
            \/ remaining_len >= 3 /\ n > remaining_len - 3 /\ Overrun
            \/ remaining_len >= 3 + n /\ Took(2 + n, 2 + n, 0, WithProperty(name))

(* A variable byte integer in k bytes whose value needs c of them: c is     *)
(* what written_len counts.                                                 *)
SubscriptionIdentifier ==
    /\ InList
    /\ "SubscriptionIdentifier" \in Names \cap Allowed[packet.type]
    /\ \E c \in VarLens, k \in VarLens :
         /\ c <= k
         /\ \/ remaining_len < 1 + k /\ Fail("MalformedPacket")
            \/ remaining_len >= 1 + k /\ Take(k, c, 0, [packet EXCEPT !.padded = @ \/ c < k])

(* A PUBLISH without topic name needs an alias.                             *)
EndOfProperties ==
    /\ phase = "Props" /\ ~InList
    /\ \/ /\ packet.type = "Publish" /\ ~packet.topic /\ "TopicAlias" \notin packet.properties
          /\ Fail("ProtocolError")
       \/ /\ packet.type = "Publish" => packet.topic \/ "TopicAlias" \in packet.properties
          /\ phase' = CASE packet.type = "Publish" -> "Message"
                        [] packet.type = "Suback" -> "Codes"
                        [] OTHER -> "Done"
          /\ UNCHANGED <<packet, remaining_len, unread, index>>
          /\ Kept

Wrong_ReadMessage ==                 \* waits until the rest of the buffer is filled
    /\ phase = "Message"
    /\ \/ Capacity - index < remaining_len /\ Fail("ImplementationSpecificError")
       \/ /\ Capacity - index = remaining_len
          /\ Advance(remaining_len, remaining_len)
          /\ phase' = "Done"
          /\ UNCHANGED packet
          /\ Kept

(* The rest of a PUBLISH is its message.                                    *)
ReadMessage ==
    /\ phase = "Message"
    /\ \/ Capacity - index < remaining_len /\ Fail("ImplementationSpecificError")
       \/ /\ Capacity - index >= remaining_len
          /\ Advance(remaining_len, remaining_len)
          /\ phase' = "Done"
          /\ UNCHANGED packet
          /\ Kept

Wrong_ReadCodes ==                               \* stops after the first code
    /\ phase = "Codes"
    /\ \/ Fail("ProtocolError")
       \/ /\ Advance(1, 0)
          /\ packet' = [packet EXCEPT !.codes = 1]
          /\ phase' = "Done"
          /\ Kept

(* The rest of a SUBACK are reason codes; there is room for one.            *)
ReadCodes ==
    /\ phase = "Codes"
    /\ \/ /\ remaining_len > 0
          /\ \/ Fail("ProtocolError")
             \/ /\ packet.codes = 0
                /\ Advance(1, 0)
                /\ packet' = [packet EXCEPT !.codes = 1]
                /\ UNCHANGED phase
                /\ Kept
       \/ /\ remaining_len = 0
          /\ phase' = "Done"
          /\ UNCHANGED <<packet, remaining_len, unread, index>>
          /\ Kept

-----------------------------------------------------------------------------
(* What the client finds wrong with a decoded packet: information it did    *)
(* not request, or a topic alias, which it never allows.                    *)
Objection ==
    IF /\ packet.type \in {"Ack", "Suback"} /\ "Problem" \notin connection.requests
       /\ "ReasonString" \in packet.properties \/ packet.users > 0
      THEN "ProtocolError"
    ELSE IF packet.type = "Publish" /\ "TopicAlias" \in packet.properties
      THEN "TopicAliasInvalid"
    ELSE IF /\ packet.type = "Connack" /\ "Response" \notin connection.requests
            /\ "ResponseInformation" \in packet.properties
      THEN "ProtocolError"
    ELSE "None"

(* What the session answers to a packet it does not expect, or connect to   *)
(* a CONNACK without session or identifier where it needs one (see Client). *)
SessionRefusals ==
    CASE packet.type = "Publish" -> {"ProtocolError", "QuotaExceeded"}
      [] packet.type \in {"Ack", "Connack"} -> {"ProtocolError"}
      [] OTHER -> {}

(* The body has been decoded.  A DISCONNECT, a CONNACK that rejects the     *)
(* connection, or an answer that cannot be sent closes it.                  *)
Finish ==
    /\ phase = "Done"
    /\ \/ Objection # "None" /\ Fail(Objection)
       \/ Objection = "None" /\ \E rc \in SessionRefusals : Fail(rc)
       \/ /\ Objection = "None"
          /\ phase' = "Returned"
          /\ result' = "Accepted"
          /\ \/ packet.type # "Disconnect" /\ UNCHANGED net
             \/ /\ packet.type \in {"Connack", "Disconnect", "Publish", "Ack"}
                /\ net' = "Terminated"
          /\ connection' = [connection EXCEPT !.connecting = FALSE, !.requests = @ \ {"Response"}]
          /\ astray' = (astray \/ unread # 0)
          /\ UNCHANGED <<packet, remaining_len, properties_length, index, unread, listed,
                         base, excused>>

Reading == phase \notin {"Idle", "Done", "Returned", "Panicked"}

(* A read fails, or the stream ends: what was provided for it stays taken.  *)
TransportFails ==
    /\ Reading
    /\ net' = "Terminated"
    /\ phase' = "Returned"
    /\ result' = "Terminated"
    /\ index' \in {i \in index..Capacity : i <= index + remaining_len}
    /\ UNCHANGED <<connection, packet, remaining_len, properties_length, unread, listed,
                   base, astray, excused>>

(* The user drops the future of poll_body, which is not cancel-safe: the    *)
(* rest of the body is taken for the next header.                           *)
Cancel ==
    /\ Reading
    /\ ~connection.connecting
    /\ phase' = "Returned"
    /\ result' = "Cancelled"
    /\ excused' = (excused \/ unread # 0)
    /\ astray' = (astray \/ unread # 0)
    /\ index' \in {i \in index..Capacity : i <= index + remaining_len}
    /\ UNCHANGED <<net, connection, packet, remaining_len, properties_length, unread, listed,
                   base>>

(* The call has returned; its reader and the packet are dropped.            *)
Drop ==
    /\ phase = "Returned"
    /\ phase' = "Idle"
    /\ packet' = Header("Pingresp", 0, 0)
    /\ remaining_len' = 0 /\ unread' = 0
    /\ properties_length' = 0 /\ listed' = 0
    /\ base' = 0
    /\ result' = "None"
    /\ UNCHANGED <<net, connection, index, astray, excused>>

(* Beyond the body the counter has wrapped around, so no packet ends there. *)
AstrayEnds ==
    /\ phase = "Astray"
    /\ \E rc \in {"MalformedPacket", "ProtocolError", "ImplementationSpecificError"} : Fail(rc)

Decode ==
    \/ ReadTopic \/ ReadPid \/ ReadReason \/ ReadPropertyLength
    \/ RefuseProperty \/ FixedProperty \/ TextProperty \/ UserProperty \/ SkipUserProperty
    \/ SkipProperty \/ SubscriptionIdentifier \/ EndOfProperties
    \/ ReadMessage \/ ReadCodes \/ Finish \/ AstrayEnds

BodyNext == Decode \/ Open \/ Close \/ Reset \/ Begin \/ Drop \/ TransportFails \/ Cancel

BodySpec == BodyInit /\ [][BodyNext]_bodyVars

FairBody == BodySpec /\ WF_bodyVars(Decode)

-----------------------------------------------------------------------------
Codes == {"MalformedPacket", "ProtocolError", "ImplementationSpecificError", "PacketTooLarge",
          "TopicNameInvalid", "TopicAliasInvalid", "QuotaExceeded"}
Phases == {"Idle", "Topic", "Pid", "Reason", "PropLen", "Props", "Message", "Codes", "Done",
           "Returned", "Panicked", "Astray"}

BodyTypeOK ==
    /\ net \in Codes \cup {"Ok", "Terminated"}
    /\ connection \in [connecting : BOOLEAN, limit : Limits \cup {Unlimited},
                       requests : SUBSET {"Problem", "Response"}]
    /\ phase \in Phases
    /\ packet \in [type : Types, len : Lens \cup {0}, flags : 0..3, topic : BOOLEAN,
                   properties : SUBSET Names, users : Nat, codes : 0..1, padded : BOOLEAN]
    /\ remaining_len \in Nat /\ properties_length \in Nat
    /\ index \in 0..Capacity /\ base \in 0..Capacity
    /\ result \in Codes \cup {"None", "Accepted", "Terminated", "Cancelled"}
    /\ unread \in Nat /\ listed \in Int
    /\ astray \in BOOLEAN
    /\ excused \in BOOLEAN

(* recv_body: after every packet the stream stands at the next fixed header *)
(* as long as the user cancels no poll_body, and the server sends no        *)
(* PINGRESP with a body (pings/mod.rs ignores it) and no string longer than *)
(* the body where the client skips (BodyReader::skip subtracts unchecked).  *)
BoundaryKept == net = "Ok" /\ astray => excused

(* receive of PUBLISH and SUBACK: the list of properties ends where its     *)
(* length says, so what follows is read as what it is, unless a             *)
(* subscription identifier is padded (publish.rs counts its minimal form).  *)
ListEndsOnTime == phase \in {"Message", "Codes"} /\ ~packet.padded => listed = 0

(* BufferProvider: the client runs out of buffer only on a packet that is   *)
(* longer than what was free when its body began; a failed or repeated read *)
(* takes nothing twice.                                                     *)
BufferSuffices ==
    result = "ImplementationSpecificError" /\ ~astray => base + packet.len > Capacity

(* connect's mapping and poll_header: a packet within the announced maximum *)
(* packet size is never refused for its size, a longer one is never read.   *)
LimitKept ==
    /\ result = "PacketTooLarge" => EncodedLen(packet.len) > connection.limit
    /\ Reading /\ ~connection.connecting => EncodedLen(packet.len) <= connection.limit

(* What poll_body hands over: a publication has a topic; SUBACK has exactly *)
(* one reason code, so the arm of poll_body for a mismatch is dead.         *)
AcceptedUsable ==
    result = "Accepted" =>
      /\ packet.type = "Publish" => packet.topic
      /\ packet.type = "Suback" => packet.codes = 1

(* poll_body ends on every body, given that the transport delivers or fails *)
(* every read: each turn of its loops consumes input.                       *)
BodyEnds == Reading ~> (phase \in {"Returned", "Panicked"})
===============================================================================
