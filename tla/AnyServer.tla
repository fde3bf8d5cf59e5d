------------------------------ MODULE AnyServer ------------------------------
(* The client in front of a server that may send any packet the client can  *)
(* decode, or one it cannot, at any time, and a user who calls anything at  *)
(* any time.                                                                *)
EXTENDS Client

CONSTANTS MaxQueue,        \* bound on the packets in flight to the server
          ReceiveMaxima,   \* values of the CONNACK's receive maximum, 0 if absent
          Limits           \* does a CONNACK bring a maximum packet size?

(* Queues hold a packet at least; the receive maximum is a u16.             *)
ASSUME OpenAssumption ==
    /\ MaxQueue \in Nat \ {0}
    /\ ReceiveMaxima \subseteq 0..PidMax
    /\ Limits \subseteq BOOLEAN

VARIABLE wire   \* last packet sent on this connection, by direction and pid

openVars == <<clientVars, transportVars, wire>>

NoWire == [k \in {"out", "in"} \X PacketIdentifier |-> "None"]

OpenInit == ClientInit /\ TransportInit /\ wire = NoWire

-----------------------------------------------------------------------------
AnyPacket ==
    {PublishPacket(pid, qos, "msg", FALSE) : pid \in PacketIdentifier, qos \in {1, 2}}
    \cup {Packet(t, pid, rc) : t \in {"Puback", "Pubrec"}, pid \in PacketIdentifier,
                               rc \in AckRecReasonCode}
    \cup {Packet(t, pid, rc) : t \in {"Pubrel", "Pubcomp"}, pid \in PacketIdentifier,
                               rc \in RelCompReasonCode}
    \cup {Packet(t, pid, "Success") : t \in {"Suback", "Unsuback"}, pid \in PacketIdentifier}
    \cup {Packet("Disconnect", 0, "Success"), Packet("Auth", 0, "Success"),
          Packet("Invalid", 0, "MalformedPacket"), Packet("Invalid", 0, "PacketTooLarge")}
    \cup [type : {"Connack"}, rc : {"Success", "NotAuthorized"}, session_present : BOOLEAN,
          receive_maximum : ReceiveMaxima, limited : Limits]

ServerSends ==
    /\ link
    /\ s2c = <<>>
    /\ \E p \in AnyPacket : s2c' = <<p>>
    /\ event' = NoEvent
    /\ UNCHANGED <<sessionVars, net, server_config, call, link, c2s, outages, wire>>

ServerReads ==
    /\ c2s # <<>>
    /\ c2s' = Tail(c2s)
    /\ event' = NoEvent
    /\ UNCHANGED <<sessionVars, net, server_config, call, link, s2c, outages, wire>>

ConnectionLost ==
    /\ Break
    /\ event' = NoEvent
    /\ UNCHANGED <<sessionVars, net, server_config, call, wire>>

-----------------------------------------------------------------------------
(* What a step of the client adds to the connection.                        *)
Sent == IF link /\ link' /\ Len(c2s') = Len(c2s) + 1 THEN {c2s'[Len(c2s')]} ELSE {}

Flow(p) ==
    CASE p.type \in {"Publish", "Pubrel"} -> "out"
      [] p.type \in {"Puback", "Pubrec", "Pubcomp"} -> "in"
      [] OTHER -> "none"

Tapped ==
    wire' = [k \in DOMAIN wire |->
               IF \E p \in Sent : p.pid = k[2] /\ Flow(p) = k[1]
                 THEN (CHOOSE p \in Sent : TRUE).type ELSE wire[k]]

Calls ==
    \/ \E pid \in PacketIdentifier, fits \in BOOLEAN, t \in {"Subscribe", "Unsubscribe"} :
         Request(t, pid, fits)
    \/ \E pid \in PacketIdentifier, qos \in {1, 2} :
         \/ \E mode \in AckMode : Publish(pid, qos, mode, "msg")
         \/ Republish(pid, qos, "msg")
    \/ \E pid \in PacketIdentifier :
         \/ \E rc \in AckRecReasonCode : manual_acknowledge(pid, rc) \/ manual_receive(pid, rc)
         \/ manual_release(pid)
         \/ manual_complete(pid)
    \/ Rerelease

OpenNext ==
    \/ \E clean_start \in BOOLEAN : Connect(clean_start) /\ wire' = NoWire
    \/ Len(c2s) < MaxQueue /\ (Calls \/ Poll \/ Connack \/ Abort \/ Disconnect) /\ Tapped
    \/ Restart /\ UNCHANGED wire
    \/ ServerSends
    \/ ServerReads
    \/ ConnectionLost

OpenSpec == OpenInit /\ [][OpenNext]_openVars

-----------------------------------------------------------------------------
(* The packets a client can send, and the codes of its DISCONNECT.          *)
FaultCode == {"ProtocolError", "QuotaExceeded", "MalformedPacket", "PacketTooLarge"}

ClientPacket ==
    [type : {"Connect"}, clean_start : BOOLEAN]
    \cup [type : {"Publish"}, pid : PacketIdentifier, qos : {1, 2}, msg : {"msg"}, dup : BOOLEAN]
    \cup [type : {"Subscribe", "Unsubscribe", "Puback", "Pubrec", "Pubrel", "Pubcomp"},
          pid : PacketIdentifier, rc : AckRecReasonCode \cup RelCompReasonCode]
    \cup [type : {"Disconnect"}, pid : {0}, rc : {"Success"} \cup FaultCode]

(* The states of a connection and of a call, and the packets in flight.     *)
OpenTypeOK ==
    /\ TypeOK
    /\ net \in {NetOk, Terminated} \cup {Faulted(rc) : rc \in FaultCode}
    /\ server_config \in [receive_maximum : 1..PidMax, limited : BOOLEAN]
    /\ call \in {"Idle", "ConnectClean", "ConnectResume", "Rerelease", "Panicked"}
    /\ net.state # "Ok" => ~Connecting
    /\ net = Terminated => ~link
    /\ outages \in 0..MaxOutages
    /\ c2s \in Seq(ClientPacket) /\ Len(c2s) <= MaxQueue
    /\ s2c \in Seq(AnyPacket) /\ Len(s2c) <= 1
    /\ wire \in [{"out", "in"} \X PacketIdentifier ->
                    {"None", "Publish", "Puback", "Pubrec", "Pubrel", "Pubcomp"}]

(* The session sees nothing of the connections, the server and the user but *)
(* its own operations: whatever they do, each step of the client is an      *)
(* operation of Session, with an identifier and a reason code it allows, or *)
(* leaves the session alone.                                                *)
DrivesSession == Spec

(* Once a call has found the connection unusable, nothing but the one       *)
(* DISCONNECT of abort, with the reason code of the fault, is sent on it,   *)
(* until connect replaces it, and nothing follows a DISCONNECT.             *)
FaultedSendsOnlyDisconnect ==
    [][/\ net.state = "Faulted" /\ net'.state # "Ok" /\ Len(c2s') > Len(c2s) =>
            c2s'[Len(c2s')] = Packet("Disconnect", 0, net.rc)
       /\ \A i \in 1..Len(c2s') - 1 : c2s'[i].type # "Disconnect"]_openVars

(* On a connection that has been established and is up, an entry that       *)
(* awaits an answer stands for a packet sent on this very connection: the   *)
(* server owes the answer, so waiting is not in vain.  This is what the     *)
(* reconnected states are for: the session changes before a packet is sent, *)
(* and a send that fails must not leave an entry waiting on the next        *)
(* connection.                                                              *)
AwaitedAnswersAreOwed ==
    link /\ net.state = "Ok" /\ ~Connecting =>
      /\ \A i \in DOMAIN outbound_publishes :
           LET e == outbound_publishes[i]
           IN  /\ e.state \in {"AwaitAck", "AwaitRec"} => wire[<<"out", e.pid>>] = "Publish"
               /\ e.state = "AwaitComp" => wire[<<"out", e.pid>>] = "Pubrel"
      /\ \A i \in DOMAIN inbound_publishes :
           LET e == inbound_publishes[i]
           IN  e.state = "AwaitRel" => wire[<<"in", e.pid>>] = "Pubrec"

(* republish: a PUBLISH is resent only on a connection on which neither it  *)
(* nor its PUBREL has been sent, whatever the user calls and whatever the   *)
(* server sends.                                                            *)
NoResendOnSameConnection ==
    [][\A p \in Sent : p.type = "Publish" /\ p.dup =>
         wire[<<"out", p.pid>>] = "None"]_openVars

(* poll_body: of all the packets a server can send, at any time, only a     *)
(* PUBCOMP with a reason code other than success reaches an arm that is     *)
(* declared unreachable!().                                                 *)
OnlyPubcompPanics ==
    [][call' = "Panicked" /\ call # "Panicked" =>
         Head(s2c).type = "Pubcomp" /\ is_erroneous(Head(s2c).rc)]_openVars
===============================================================================
