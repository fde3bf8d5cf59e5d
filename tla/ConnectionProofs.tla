--------------------------- MODULE ConnectionProofs ---------------------------
(* The inductive invariant of the client in front of any server, and what   *)
(* the ways of using a connection (sending, closing, faulting, reading,     *)
(* connecting, losing it) do to it, whatever call or packet they belong to. *)
EXTENDS AnyServer, ClientProofs


(* The packets of AnyPacket are those the decoder can produce.              *)
LEMMA HeadDecodable ==
    ASSUME s2c \in Seq(AnyPacket), s2c # <<>>
    PROVE  Head(s2c) \in AnyPacket /\ Decodable(Head(s2c)) /\ Tail(s2c) \in Seq(AnyPacket)
<1>1. Head(s2c) \in AnyPacket /\ Tail(s2c) \in Seq(AnyPacket)
  BY HeadTailProperties
<1>2. ASSUME NEW p \in AnyPacket PROVE Decodable(p)
  BY DEF AnyPacket, Decodable, PublishPacket, Packet
<1>3. QED
  BY <1>1, <1>2

(* A step of the client, the server, the user or the network performs an    *)
(* operation of the session or leaves it alone.                             *)
LEMMA StepDrivesSession ==
    ASSUME OpenTypeOK, [OpenNext]_openVars
    PROVE  [Next]_vars
<1>1. CASE Calls
  <2>1. "Success" \in AckRecReasonCode /\ Automatic \in AckMode /\ 1 \in {1, 2}
    BY DEF AckRecReasonCode, AckMode
  <2>2. ASSUME NEW pid \in PacketIdentifier, NEW fits \in BOOLEAN,
               NEW t \in {"Subscribe", "Unsubscribe"}, Request(t, pid, fits)
        PROVE  Next
    BY <2>1, <2>2, CallsDriveSession
  <2>3. ASSUME NEW pid \in PacketIdentifier, NEW qos \in {1, 2}, NEW mode \in AckMode,
               Publish(pid, qos, mode, "msg")
        PROVE  Next
    BY <2>1, <2>3, CallsDriveSession
  <2>4. ASSUME NEW pid \in PacketIdentifier, NEW qos \in {1, 2}, Republish(pid, qos, "msg")
        PROVE  Next
    BY <2>1, <2>4, CallsDriveSession
  <2>5. ASSUME NEW pid \in PacketIdentifier, NEW rc \in AckRecReasonCode,
               manual_acknowledge(pid, rc) \/ manual_receive(pid, rc)
        PROVE  Next
    BY <2>1, <2>5, CallsDriveSession
  <2>6. ASSUME NEW pid \in PacketIdentifier, manual_release(pid) \/ manual_complete(pid)
        PROVE  Next
    BY <2>1, <2>6, CallsDriveSession
  <2>7. CASE Rerelease
    BY <2>7, RereleaseDrivesSession DEF OpenTypeOK
  <2>8. QED
    BY <1>1, <2>2, <2>3, <2>4, <2>5, <2>6, <2>7 DEF Calls
<1>2. CASE Poll
  BY <1>2, HeadDecodable, PollDrivesSession DEF OpenTypeOK
<1>3. ASSUME NEW clean_start \in BOOLEAN,
             Connect(clean_start) \/ Connack \/ Abort \/ Disconnect \/ Restart
      PROVE  Next \/ UNCHANGED vars
  BY <1>3, ConnectDrivesSession
<1>4. CASE ServerSends \/ ServerReads \/ ConnectionLost
  BY <1>4 DEF ServerSends, ServerReads, ConnectionLost, sessionVars, vars
<1>5. CASE UNCHANGED openVars
  BY <1>5 DEF openVars, clientVars, vars
<1>6. QED
  BY <1>1, <1>2, <1>3, <1>4, <1>5, Zenon DEF OpenNext

-----------------------------------------------------------------------------
(* The connection: what may be in flight in either direction, and that a    *)
(* DISCONNECT is the last packet on it.                                     *)
Connection ==
    /\ net \in {NetOk, Terminated} \cup {Faulted(rc) : rc \in FaultCode}
    /\ net = Terminated => ~link
    /\ outages \in 0..MaxOutages
    /\ c2s \in Seq(ClientPacket) /\ Len(c2s) <= MaxQueue
    /\ s2c \in Seq(AnyPacket) /\ Len(s2c) <= 1
    /\ \A i \in 1..Len(c2s) - 1 : c2s[i].type # "Disconnect"
    /\ net # Terminated => \A i \in 1..Len(c2s) : c2s[i].type # "Disconnect"

(* After a fault, a step adds nothing but the DISCONNECT of abort.          *)
FaultedIsSilent ==
    net.state = "Faulted" /\ net'.state # "Ok" /\ Len(c2s') > Len(c2s) =>
      c2s'[Len(c2s')] = Packet("Disconnect", 0, net.rc)

(* A step that sends nothing but p, and p if it leaves the connection up.   *)
Sends(p) ==
    /\ FaultedIsSilent
    /\ link' /\ net'.state = "Ok" => link /\ net.state = "Ok" /\ c2s' = Append(c2s, p)
    /\ \A x \in Sent : x = p /\ link /\ net.state = "Ok"

(* A step that sends nothing on a connection that stays up, and             *)
(* establishes none.                                                        *)
Quiet ==
    /\ FaultedIsSilent
    /\ link' /\ net'.state = "Ok" => link /\ net.state = "Ok"
    /\ Sent = {}

(* What a lost connection leaves to read is a prefix of what was sent.      *)
LEMMA PrefixProperties ==
    ASSUME NEW E, NEW s \in Seq(E), NEW t \in Prefixes(s)
    PROVE  /\ t \in Seq(E)
           /\ Len(t) <= Len(s)
           /\ \A i \in 1..Len(t) : t[i] = s[i]
<1>1. PICK n \in 0..Len(s) : t = SubSeq(s, 1, n)
  BY DEF Prefixes
<1>2. Len(s) \in Nat /\ n \in Nat /\ n <= Len(s)
  BY <1>1, LenProperties
<1>3. \A i \in 1..n : s[i] \in E
  BY <1>2, ElementOfSeq
<1>4. QED
  BY <1>1, <1>2, <1>3, SubSeqProperties

(* The queue after a write: at most one packet more, at its end.            *)
LEMMA WrittenProperties ==
    ASSUME NEW s \in Seq(ClientPacket), NEW p \in ClientPacket
    PROVE  /\ Written(s, p) \in Seq(ClientPacket)
           /\ Len(Written(s, p)) <= Len(s) + 1
           /\ \A i \in 1..Len(Written(s, p)) : Written(s, p)[i] = IF i <= Len(s) THEN s[i] ELSE p
           /\ Len(Written(s, p)) > Len(s) => Len(Written(s, p)) = Len(s) + 1
  BY LenProperties, AppendProperties DEF Written

(* Closing the connection from the client's end leaves a prefix of what was *)
(* sent.                                                                    *)
LEMMA DropEffect ==
    ASSUME Connection, NEW sent \in Seq(ClientPacket), DropTransport(sent), net' = Terminated,
           Len(sent) <= MaxQueue,
           \A i \in 1..Len(sent) - 1 : sent[i].type # "Disconnect"
    PROVE  Connection' /\ link' = FALSE /\ Sent = {} /\ c2s' \in Prefixes(sent)
<1>1. c2s' \in Prefixes(sent) /\ link' = FALSE /\ s2c' = <<>>
  BY DEF DropTransport
<1>2. /\ c2s' \in Seq(ClientPacket) /\ Len(c2s') <= Len(sent)
      /\ \A i \in 1..Len(c2s') : c2s'[i] = sent[i]
  BY <1>1, PrefixProperties
<1>3. Len(c2s') \in Nat /\ Len(sent) \in Nat
  BY <1>2, LenProperties
<1>4. outages' \in 0..MaxOutages
  BY MaxOutagesAssumption DEF DropTransport, Outage, Connection
<1>5. s2c' \in Seq(AnyPacket) /\ Len(s2c') <= 1
  BY <1>1, EmptySeq
<1>6. Len(c2s') <= MaxQueue
  BY <1>2, <1>3, OpenAssumption
<1>7. \A i \in 1..Len(c2s') - 1 : c2s'[i].type # "Disconnect"
  BY <1>2, <1>3
<1>8. QED
  BY <1>1, <1>2, <1>4, <1>5, <1>6, <1>7 DEF Connection, Sent

(* Raw::send and Raw::flush.                                                *)
LEMMA SendEffect ==
    ASSUME Connection, Len(c2s) < MaxQueue, NEW p \in ClientPacket, p.type # "Disconnect",
           NEW rest \in Seq(AnyPacket), Len(rest) <= 1, NEW sent, Send(p, rest, sent)
    PROVE  Connection' /\ Sends(p)
<1>1. c2s \in Seq(ClientPacket) /\ Len(c2s) \in Nat
  BY LenProperties DEF Connection
<1>2. MaxQueue \in Nat
  BY OpenAssumption
<1>3. /\ Written(c2s, p) \in Seq(ClientPacket)
      /\ Len(Written(c2s, p)) \in Nat
      /\ Len(Written(c2s, p)) <= Len(c2s) + 1
      /\ \A i \in 1..Len(Written(c2s, p)) :
           Written(c2s, p)[i] = IF i <= Len(c2s) THEN c2s[i] ELSE p
  BY <1>1, WrittenProperties, LenProperties
<1>4. CASE /\ net.state = "Ok"
           /\ c2s' = Written(c2s, p) /\ s2c' = rest
           /\ UNCHANGED <<net, link, outages>>
  <2>1. net # Terminated
    BY <1>4 DEF Terminated
  <2>2. \A i \in 1..Len(c2s') : c2s'[i].type # "Disconnect"
    BY <1>1, <1>3, <1>4, <2>1 DEF Connection
  <2>3. Connection'
    BY <1>1, <1>2, <1>3, <1>4, <2>1, <2>2 DEF Connection
  <2>4. FaultedIsSilent
    BY <1>4 DEF FaultedIsSilent
  <2>5. link => c2s' = Append(c2s, p) /\ c2s'[Len(c2s')] = p
    BY <1>1, <1>4, AppendProperties DEF Written
  <2>6. \A x \in Sent : x = p /\ link
    BY <2>5 DEF Sent
  <2>7. link' /\ net'.state = "Ok" => link /\ c2s' = Append(c2s, p)
    BY <1>4, <2>5
  <2>8. QED
    BY <1>4, <2>3, <2>4, <2>6, <2>7 DEF Sends
<1>5. CASE net.state = "Ok" /\ handle_tx(p)
  <2>1. net # Terminated
    BY <1>5 DEF Terminated
  <2>2. \A i \in 1..Len(Written(c2s, p)) - 1 : Written(c2s, p)[i].type # "Disconnect"
    BY <1>1, <1>3, <2>1 DEF Connection
  <2>3. Len(Written(c2s, p)) <= MaxQueue
    BY <1>1, <1>2, <1>3
  <2>4. net' = Terminated /\ DropTransport(Written(c2s, p))
    BY <1>5 DEF handle_tx
  <2>5. Connection' /\ link' = FALSE /\ Sent = {}
    BY <1>3, <2>2, <2>3, <2>4, DropEffect, Zenon
  <2>6. FaultedIsSilent
    BY <1>5 DEF FaultedIsSilent
  <2>7. QED
    BY <2>5, <2>6 DEF Sends
<1>6. CASE net.state # "Ok" /\ s2c' = rest /\ UNCHANGED <<net, link, outages, c2s>>
  <2>1. Connection'
    BY <1>6 DEF Connection
  <2>2. FaultedIsSilent /\ Sent = {}
    BY <1>1, <1>6 DEF FaultedIsSilent, Sent
  <2>3. QED
    BY <1>6, <2>1, <2>2 DEF Sends
<1>7. QED
  BY <1>4, <1>5, <1>6 DEF Send

(* handle_rx, close_with(None) and the drop of the client: nothing is sent. *)
LEMMA CloseEffect ==
    ASSUME Connection, net' = Terminated, DropTransport(c2s)
    PROVE  Connection' /\ Quiet
<1>1. c2s \in Seq(ClientPacket) /\ Len(c2s) <= MaxQueue
      /\ \A i \in 1..Len(c2s) - 1 : c2s[i].type # "Disconnect"
  BY DEF Connection
<1>2. Connection' /\ link' = FALSE /\ Sent = {} /\ c2s' \in Prefixes(c2s)
  BY <1>1, DropEffect, Zenon
<1>3. Len(c2s') <= Len(c2s) /\ Len(c2s') \in Nat /\ Len(c2s) \in Nat
  BY <1>1, <1>2, PrefixProperties, LenProperties
<1>4. FaultedIsSilent
  BY <1>3 DEF FaultedIsSilent
<1>5. QED
  BY <1>2, <1>4 DEF Quiet

(* abort and disconnect: the DISCONNECT may be the last packet to arrive.   *)
LEMMA HangUpEffect ==
    ASSUME Connection, Len(c2s) < MaxQueue, net # Terminated, net' = Terminated,
           NEW rc \in {"Success"} \cup FaultCode, net.state = "Faulted" => rc = net.rc,
           DropTransport(Written(c2s, Packet("Disconnect", 0, rc)))
    PROVE  Connection' /\ Quiet
<1> DEFINE p == Packet("Disconnect", 0, rc)
           w == Written(c2s, p)
<1>1. p \in ClientPacket
  BY DEF ClientPacket, Packet
<1>2. c2s \in Seq(ClientPacket) /\ Len(c2s) \in Nat /\ MaxQueue \in Nat
      /\ \A i \in 1..Len(c2s) : c2s[i].type # "Disconnect"
  BY LenProperties, OpenAssumption DEF Connection
<1>3. DropTransport(w)
  OBVIOUS
<1> HIDE DEF p
<1>4. /\ w \in Seq(ClientPacket) /\ Len(w) \in Nat /\ Len(w) <= Len(c2s) + 1
      /\ \A i \in 1..Len(w) : w[i] = IF i <= Len(c2s) THEN c2s[i] ELSE p
  BY <1>1, <1>2, WrittenProperties, LenProperties
<1> HIDE DEF w
<1>5. Len(w) <= MaxQueue /\ \A i \in 1..Len(w) - 1 : w[i].type # "Disconnect"
  BY <1>2, <1>4
<1>6. Connection' /\ link' = FALSE /\ Sent = {} /\ c2s' \in Prefixes(w)
  BY <1>3, <1>4, <1>5, DropEffect, Zenon
<1>7. /\ Len(c2s') \in Nat /\ Len(c2s') <= Len(w)
      /\ \A i \in 1..Len(c2s') : c2s'[i] = w[i]
  BY <1>4, <1>6, PrefixProperties, LenProperties
<1>8. Len(c2s') > Len(c2s) => c2s'[Len(c2s')] = p
  BY <1>2, <1>4, <1>7
<1>9. FaultedIsSilent
  BY <1>8 DEF FaultedIsSilent, p
<1>10. QED
  BY <1>6, <1>9 DEF Quiet

(* handle_rx and close_with(Some(rc)): the DISCONNECT is only scheduled.    *)
LEMMA FaultEffect ==
    ASSUME Connection, net.state = "Ok", s2c # <<>>, NEW rc \in FaultCode, NEW error,
           Fault(rc, error)
    PROVE  Connection' /\ Quiet /\ net'.state = "Faulted"
<1>1. net' = Faulted(rc) /\ s2c' = Tail(s2c) /\ UNCHANGED <<link, c2s, outages>>
  BY DEF Fault
<1>2. Tail(s2c) \in Seq(AnyPacket) /\ Len(Tail(s2c)) <= 1
  BY LenProperties, HeadTailProperties DEF Connection
<1>3. net # Terminated /\ Faulted(rc) # Terminated
  BY DEF Terminated, Faulted
<1>4. Connection'
  BY <1>1, <1>2, <1>3 DEF Connection
<1>5. Len(c2s) \in Nat
  BY LenProperties DEF Connection
<1>6. Quiet
  BY <1>1, <1>5 DEF Quiet, FaultedIsSilent, Faulted, Sent
<1>7. QED
  BY <1>1, <1>4, <1>6 DEF Faulted

(* A step that at most reads a packet.                                      *)
LEMMA ReadEffect ==
    ASSUME Connection, UNCHANGED <<net, link, c2s, outages>>,
           s2c' = s2c \/ (s2c # <<>> /\ s2c' = Tail(s2c))
    PROVE  Connection' /\ Quiet
<1>1. s2c' \in Seq(AnyPacket) /\ Len(s2c') <= 1
  BY LenProperties, HeadTailProperties DEF Connection
<1>2. Connection'
  BY <1>1 DEF Connection
<1>3. Len(c2s) \in Nat
  BY LenProperties DEF Connection
<1>4. QED
  BY <1>2, <1>3 DEF Quiet, FaultedIsSilent, Sent

(* connect: a fresh connection with the CONNECT packet on it.               *)
LEMMA ConnectEffect ==
    ASSUME Connection, NEW clean_start \in BOOLEAN, Connect(clean_start)
    PROVE  /\ Connection' /\ FaultedIsSilent
           /\ \A x \in Sent : x.type = "Connect"
<1> DEFINE p == [type |-> "Connect", clean_start |-> clean_start]
<1>1. net' = NetOk /\ link' = TRUE /\ c2s' = <<p>> /\ s2c' = <<>>
  BY DEF Connect
<1>2. outages' \in 0..MaxOutages
  BY MaxOutagesAssumption DEF Connect, Outage, Connection
<1>3. p \in ClientPacket /\ p.type = "Connect"
  BY DEF ClientPacket
<1> HIDE DEF p
<1>4. c2s' \in Seq(ClientPacket) /\ Len(c2s') = 1 /\ c2s'[1] = p
  BY <1>1, <1>3
<1>5. s2c' \in Seq(AnyPacket) /\ Len(s2c') <= 1
  BY <1>1, EmptySeq
<1>6. Connection'
  BY <1>1, <1>2, <1>3, <1>4, <1>5, OpenAssumption DEF Connection, NetOk, Terminated
<1>7. QED
  BY <1>1, <1>3, <1>4, <1>6 DEF FaultedIsSilent, NetOk, Sent

(* The server and the network.                                              *)
LEMMA EnvironmentEffect ==
    ASSUME Connection, ServerSends \/ ServerReads \/ ConnectionLost
    PROVE  Connection' /\ Quiet
<1>1. Len(c2s) \in Nat
  BY LenProperties DEF Connection
<1>2. CASE ServerSends
  <2>1. PICK p \in AnyPacket : s2c' = <<p>>
    BY <1>2 DEF ServerSends
  <2>2. s2c' \in Seq(AnyPacket) /\ Len(s2c') <= 1
    BY <2>1
  <2>3. UNCHANGED <<net, link, c2s, outages>>
    BY <1>2 DEF ServerSends
  <2>4. QED
    BY <1>1, <2>2, <2>3 DEF Connection, Quiet, FaultedIsSilent, Sent
<1>3. CASE ServerReads
  <2>1. c2s # <<>> /\ c2s' = Tail(c2s) /\ UNCHANGED <<net, link, s2c, outages>>
    BY <1>3 DEF ServerReads
  <2>2. /\ c2s' \in Seq(ClientPacket) /\ Len(c2s') \in Nat /\ Len(c2s') = Len(c2s) - 1
        /\ \A i \in 1..Len(c2s') : c2s'[i] = c2s[i + 1]
    <3>1. c2s \in Seq(ClientPacket)
      BY DEF Connection
    <3>2. /\ Tail(c2s) \in Seq(ClientPacket) /\ Len(Tail(c2s)) = Len(c2s) - 1
          /\ \A i \in 1..Len(Tail(c2s)) : Tail(c2s)[i] = c2s[i + 1]
      BY <2>1, <3>1, HeadTailProperties
    <3>3. QED
      BY <2>1, <3>2, LenProperties
  <2>3. Connection'
    BY <1>1, <2>1, <2>2, OpenAssumption DEF Connection
  <2>4. ~(Len(c2s') > Len(c2s)) /\ Len(c2s') # Len(c2s) + 1
    BY <1>1, <2>2
  <2>5. QED
    BY <2>1, <2>3, <2>4 DEF Quiet, FaultedIsSilent, Sent
<1>4. CASE ConnectionLost
  <2>1. /\ link' = FALSE /\ net' = net
        /\ c2s' \in Prefixes(c2s) /\ s2c' \in Prefixes(s2c)
    BY <1>4 DEF ConnectionLost, Break
  <2>2. /\ c2s' \in Seq(ClientPacket) /\ Len(c2s') \in Nat /\ Len(c2s') <= Len(c2s)
        /\ \A i \in 1..Len(c2s') : c2s'[i] = c2s[i]
    BY <2>1, PrefixProperties, LenProperties DEF Connection
  <2>3. s2c' \in Seq(AnyPacket) /\ Len(s2c') <= 1
    <3>1. s2c \in Seq(AnyPacket) /\ Len(s2c) <= 1
      BY DEF Connection
    <3>2. s2c' \in Seq(AnyPacket) /\ Len(s2c') <= Len(s2c)
      BY <2>1, <3>1, PrefixProperties
    <3>3. Len(s2c') \in Nat /\ Len(s2c) \in Nat
      BY <3>1, <3>2, LenProperties
    <3>4. QED
      BY <3>1, <3>2, <3>3
  <2>4. outages' \in 0..MaxOutages
    BY <1>4, MaxOutagesAssumption DEF ConnectionLost, Break, Outage, Connection
  <2>5. Len(c2s') <= MaxQueue
    BY <1>1, <2>2, OpenAssumption DEF Connection
  <2>6. /\ \A i \in 1..Len(c2s') - 1 : c2s'[i].type # "Disconnect"
        /\ net # Terminated => \A i \in 1..Len(c2s') : c2s'[i].type # "Disconnect"
    <3>1. /\ 1..Len(c2s') \subseteq 1..Len(c2s)
          /\ 1..Len(c2s') - 1 \subseteq 1..Len(c2s) - 1
          /\ 1..Len(c2s') - 1 \subseteq 1..Len(c2s')
      BY <1>1, <2>2
    <3>2. /\ \A i \in 1..Len(c2s) - 1 : c2s[i].type # "Disconnect"
          /\ net # Terminated => \A i \in 1..Len(c2s) : c2s[i].type # "Disconnect"
      BY DEF Connection
    <3>3. \A i \in 1..Len(c2s') : c2s'[i] = c2s[i]
      BY <2>2
    <3>4. QED
      BY <3>1, <3>2, <3>3
  <2>7. Connection'
    BY <2>1, <2>2, <2>3, <2>4, <2>5, <2>6 DEF Connection
  <2>8. ~(Len(c2s') > Len(c2s))
    BY <1>1, <2>2
  <2>9. QED
    BY <2>1, <2>7, <2>8 DEF Quiet, FaultedIsSilent, Sent
<1>5. QED
  BY <1>2, <1>3, <1>4

-----------------------------------------------------------------------------
(* The last packet sent on the connection, by direction and identifier.     *)
Wired ==
    wire \in [{"out", "in"} \X PacketIdentifier ->
                {"None", "Publish", "Puback", "Pubrec", "Pubrel", "Pubcomp"}]

(* The step notes p as the last packet of its direction and identifier.     *)
Marks(p) ==
    \A flow \in {"out", "in"}, pid \in PacketIdentifier :
      wire'[<<flow, pid>>] =
        IF p.pid = pid /\ Flow(p) = flow THEN p.type ELSE wire[<<flow, pid>>]

(* A step that sends nothing leaves the record alone.                       *)
LEMMA TapQuiet ==
    ASSUME Wired, Tapped, Sent = {}
    PROVE  wire' = wire
<1>1. wire' = [k \in DOMAIN wire |-> wire[k]]
  BY DEF Tapped
<1>2. wire = [k \in DOMAIN wire |-> wire[k]]
  BY DEF Wired
<1>3. QED
  BY <1>1, <1>2

(* A packet that has a direction is a PUBLISH or an acknowledgement.        *)
LEMMA FlowTypes ==
    ASSUME NEW p, Flow(p) \in {"out", "in"}
    PROVE  p.type \in {"Publish", "Puback", "Pubrec", "Pubrel", "Pubcomp"}
  BY DEF Flow

(* A step that sends p notes p, if it leaves the connection up.             *)
LEMMA TapSends ==
    ASSUME Connection, Wired, Tapped, NEW p \in ClientPacket, Sends(p)
    PROVE  /\ Wired'
           /\ link' /\ net'.state = "Ok" => Marks(p)
<1> DEFINE keys == {"out", "in"} \X PacketIdentifier
           new(k) == IF p.pid = k[2] /\ Flow(p) = k[1] THEN p.type ELSE wire[k]
<1>1. DOMAIN wire = keys /\ \A k \in keys :
        wire[k] \in {"None", "Publish", "Puback", "Pubrec", "Pubrel", "Pubcomp"}
  BY DEF Wired
<1>2. \A k \in keys : k[1] \in {"out", "in"} /\ k[2] \in PacketIdentifier
  OBVIOUS
<1>3. \A k \in keys : new(k) \in {"None", "Publish", "Puback", "Pubrec", "Pubrel", "Pubcomp"}
  BY <1>1, <1>2, FlowTypes
<1>4. CASE Sent = {}
  <2>1. wire' = wire
    BY <1>4, TapQuiet
  <2>2. ~(link' /\ net'.state = "Ok")
    <3>1. SUFFICES ASSUME link', net'.state = "Ok" PROVE FALSE
      OBVIOUS
    <3>2. link /\ c2s' = Append(c2s, p)
      BY <3>1 DEF Sends
    <3>3. Len(c2s') = Len(c2s) + 1
      BY <3>2, AppendProperties DEF Connection
    <3>4. QED
      BY <1>4, <3>1, <3>2, <3>3 DEF Sent
  <2>3. QED
    BY <2>1, <2>2 DEF Wired
<1>5. CASE Sent # {}
  <2>1. Sent = {p}
    BY <1>5 DEF Sends
  <2>2. (CHOOSE x \in Sent : TRUE) = p
    BY <2>1
  <2>3. wire' = [k \in keys |-> new(k)]
    BY <1>1, <2>1, <2>2 DEF Tapped
  <2> HIDE DEF new
  <2>4. Wired'
    BY <1>3, <2>3 DEF Wired
  <2>5. \A flow \in {"out", "in"}, pid \in PacketIdentifier :
          wire'[<<flow, pid>>] = new(<<flow, pid>>)
    BY <2>3
  <2>6. Marks(p)
    BY <2>5 DEF Marks, new
  <2>7. QED
    BY <2>4, <2>6
<1>6. QED
  BY <1>4, <1>5

-----------------------------------------------------------------------------
(* The connection is up and established.                                    *)
Live == link /\ net.state = "Ok" /\ ~Connecting

(* What has been sent last on the connection for an entry in this state: an *)
(* entry that awaits an answer has sent what is to be answered, and one     *)
(* whose PUBLISH is due has sent nothing.                                   *)
LocalOwed(state, sent) ==
    /\ state \in {"AwaitAck", "AwaitRec"} => sent = "Publish"
    /\ state = "AwaitComp" => sent = "Pubrel"
    /\ state \in {"DuePublishAtLeastOnce", "DuePublishExactlyOnce"} => sent = "None"
PeerOwed(state, sent) == state = "AwaitRel" => sent = "Pubrec"

LocalOwes(s, w) == \A q \in Pids(s) : LocalOwed(Entry(s, q).state, w[<<"out", q>>])
PeerOwes(s, w) == \A q \in Pids(s) : PeerOwed(Entry(s, q).state, w[<<"in", q>>])
Owed == LocalOwes(outbound_publishes, wire) /\ PeerOwes(inbound_publishes, wire)

(* The same packets have been sent for the other identifiers of the list.   *)
SameElsewhere(flow, s, pid, w, v) == \A q \in Pids(s) \ {pid} : v[<<flow, q>>] = w[<<flow, q>>]

(* A decision about a publication of the client keeps what is owed to the   *)
(* others.                                                                  *)
LEMMA DecidedOwesLocal ==
    ASSUME NEW s, NEW t, NEW pid, NEW d, NEW w, NEW v, Decided(s, t, pid, d),
           LocalOwes(s, w), SameElsewhere("out", s, pid, w, v),
           d.state # Untracked => LocalOwed(d.state, v[<<"out", pid>>])
    PROVE  LocalOwes(t, v)
<1>1. ASSUME NEW q \in Pids(t)
      PROVE  \/ q = pid /\ d.state # Untracked /\ Entry(t, q).state = d.state
             \/ q # pid /\ q \in Pids(s) /\ Entry(t, q) = Entry(s, q)
  BY DEF Decided
<1>2. QED
  BY <1>1, Zenon DEF LocalOwes, SameElsewhere

(* The same for the publications of the server.                             *)
LEMMA DecidedOwesPeer ==
    ASSUME NEW s, NEW t, NEW pid, NEW d, NEW w, NEW v, Decided(s, t, pid, d),
           PeerOwes(s, w), SameElsewhere("in", s, pid, w, v),
           d.state # Untracked => PeerOwed(d.state, v[<<"in", pid>>])
    PROVE  PeerOwes(t, v)
<1>1. ASSUME NEW q \in Pids(t)
      PROVE  \/ q = pid /\ d.state # Untracked /\ Entry(t, q).state = d.state
             \/ q # pid /\ q \in Pids(s) /\ Entry(t, q) = Entry(s, q)
  BY DEF Decided
<1>2. QED
  BY <1>1, Zenon DEF PeerOwes, SameElsewhere

-----------------------------------------------------------------------------
(* The calls in progress and what the server has announced.                 *)
Calling ==
    /\ server_config \in [receive_maximum : 1..PidMax, limited : BOOLEAN]
    /\ call \in {"Idle", "ConnectClean", "ConnectResume", "Rerelease", "Panicked"}

(* The inductive invariant.  connect waits on a connection on which nothing *)
(* but the CONNECT packet has been sent.                                    *)
OpenInv ==
    /\ Inv
    /\ Connection
    /\ Calling
    /\ Wired
    /\ Connecting => net.state = "Ok" /\ wire = NoWire
    /\ Live => Owed

(* What the action properties ask of one step.                              *)
Unresent == \A p \in Sent : p.type = "Publish" /\ p.dup => wire[<<"out", p.pid>>] = "None"
PanicsOnPubcomp ==
    call' = "Panicked" /\ call # "Panicked" =>
      Head(s2c).type = "Pubcomp" /\ is_erroneous(Head(s2c).rc)

(* What a step establishes, the session's own invariant aside.              *)
Good ==
    /\ Connection' /\ Calling' /\ Wired'
    /\ Connecting' => net'.state = "Ok" /\ wire' = NoWire
    /\ Live' => Owed'
    /\ FaultedIsSilent /\ Unresent /\ PanicsOnPubcomp

(* A step that sends nothing and leaves the publications alone is good.     *)
LEMMA QuietStep ==
    ASSUME OpenInv, Connection', Calling', Quiet, wire' = wire \/ Tapped,
           UNCHANGED <<inbound_publishes, outbound_publishes>>,
           Live' => ~Connecting,
           Connecting' => Connecting /\ net' = net,
           call' # "Panicked" \/ call = "Panicked"
    PROVE  Good
<1>1. wire' = wire
  BY TapQuiet DEF OpenInv, Quiet
<1>2. Wired'
  BY <1>1 DEF OpenInv, Wired
<1>3. Connecting' => net'.state = "Ok" /\ wire' = NoWire
  <2>1. NoWire' = NoWire
    BY DEF NoWire, PacketIdentifier
  <2>2. QED
    BY <1>1, <2>1 DEF OpenInv
<1>4. Live' => Owed'
  <2>1. Live' => Live
    BY DEF Live, Quiet
  <2>2. Owed => Owed'
    BY <1>1, SMTT(30) DEF Owed
  <2>3. QED
    BY <2>1, <2>2 DEF OpenInv
<1>5. FaultedIsSilent /\ Unresent /\ PanicsOnPubcomp
  BY DEF Quiet, Unresent, PanicsOnPubcomp
<1>6. QED
  BY <1>2, <1>3, <1>4, <1>5, SMTT(30) DEF Good

(* An operation on a publication of the client keeps what is owed.          *)
LEMMA OutboundOwed ==
    ASSUME OpenInv, ~Connecting, NEW pid \in PacketIdentifier, NEW d, Outbound(pid, d),
           Applicable(outbound_publishes, LocalEntry, SEND_MAXIMUM, pid, d),
           Live' =>
             /\ link /\ net.state = "Ok"
             /\ \A q \in PacketIdentifier : wire'[<<"in", q>>] = wire[<<"in", q>>]
             /\ \A q \in PacketIdentifier \ {pid} : wire'[<<"out", q>>] = wire[<<"out", q>>]
             /\ d.state # Untracked => LocalOwed(d.state, wire'[<<"out", pid>>])
    PROVE  Live' => Owed'
<1>1. SUFFICES ASSUME Live' PROVE Owed'
  OBVIOUS
<1>2. Owed
  BY <1>1, SMTT(30) DEF OpenInv, Live
<1>3. outbound_publishes \in Seq(LocalEntry) /\ Unique(outbound_publishes)
      /\ inbound_publishes \in Seq(PeerEntry)
  BY DEF OpenInv, Inv, TypeOK, UniqueIdentifiers
<1>4. /\ Pids(outbound_publishes) \subseteq PacketIdentifier
      /\ Pids(inbound_publishes) \subseteq PacketIdentifier
  BY <1>3, PidsAreIdentifiers, SMTT(30)
<1>5. /\ outbound_publishes' = Decide(outbound_publishes, pid, d)
      /\ inbound_publishes' = inbound_publishes
  BY SMTT(30) DEF Outbound
<1>6. Decided(outbound_publishes, outbound_publishes', pid, d)
  BY <1>3, <1>5, DecideEntries, SMTT(30) DEF Applicable
<1>7. LocalOwes(outbound_publishes', wire')
  <2>1. SameElsewhere("out", outbound_publishes, pid, wire, wire')
    BY <1>1, <1>4, Zenon DEF SameElsewhere
  <2>2. d.state # Untracked => LocalOwed(d.state, wire'[<<"out", pid>>])
    BY <1>1
  <2>3. QED
    BY <1>2, <1>6, <2>1, <2>2, DecidedOwesLocal DEF Owed
<1>8. PeerOwes(inbound_publishes', wire')
  BY <1>1, <1>2, <1>4, <1>5, Zenon DEF Owed, PeerOwes
<1>9. QED
  BY <1>7, <1>8 DEF Owed

(* An operation on a publication of the server keeps what is owed.          *)
LEMMA InboundOwed ==
    ASSUME OpenInv, ~Connecting, NEW pid \in PacketIdentifier, NEW d, Inbound(pid, d),
           Applicable(inbound_publishes, PeerEntry, RECEIVE_MAXIMUM, pid, d),
           Live' =>
             /\ link /\ net.state = "Ok"
             /\ \A q \in PacketIdentifier : wire'[<<"out", q>>] = wire[<<"out", q>>]
             /\ \A q \in PacketIdentifier \ {pid} : wire'[<<"in", q>>] = wire[<<"in", q>>]
             /\ d.state # Untracked => PeerOwed(d.state, wire'[<<"in", pid>>])
    PROVE  Live' => Owed'
<1>1. SUFFICES ASSUME Live' PROVE Owed'
  OBVIOUS
<1>2. Owed
  BY <1>1, SMTT(30) DEF OpenInv, Live
<1>3. inbound_publishes \in Seq(PeerEntry) /\ Unique(inbound_publishes)
      /\ outbound_publishes \in Seq(LocalEntry)
  BY DEF OpenInv, Inv, TypeOK, UniqueIdentifiers
<1>4. /\ Pids(outbound_publishes) \subseteq PacketIdentifier
      /\ Pids(inbound_publishes) \subseteq PacketIdentifier
  BY <1>3, PidsAreIdentifiers
<1>5. /\ inbound_publishes' = Decide(inbound_publishes, pid, d)
      /\ outbound_publishes' = outbound_publishes
  BY DEF Inbound
<1>6. Decided(inbound_publishes, inbound_publishes', pid, d)
  BY <1>3, <1>5, DecideEntries, SMTT(30) DEF Applicable
<1>7. PeerOwes(inbound_publishes', wire')
  <2>1. SameElsewhere("in", inbound_publishes, pid, wire, wire')
    BY <1>1, <1>4, Zenon DEF SameElsewhere
  <2>2. d.state # Untracked => PeerOwed(d.state, wire'[<<"in", pid>>])
    BY <1>1
  <2>3. QED
    BY <1>2, <1>6, <2>1, <2>2, DecidedOwesPeer DEF Owed
<1>8. LocalOwes(outbound_publishes', wire')
  BY <1>1, <1>2, <1>4, <1>5, Zenon DEF Owed, LocalOwes
<1>9. QED
  BY <1>7, <1>8 DEF Owed

(* Neither side of a resumed session has sent anything yet, and no entry    *)
(* waits for an answer: what is due is sent again.                          *)
LEMMA ResumedOwes ==
    ASSUME Inv
    PROVE  /\ LocalOwes(ReconnectLocal(outbound_publishes), NoWire)
           /\ PeerOwes(ReconnectPeer(inbound_publishes), NoWire)
<1>1. outbound_publishes \in Seq(LocalEntry) /\ inbound_publishes \in Seq(PeerEntry)
  BY DEF Inv, TypeOK
<1>2. ASSUME NEW q \in Pids(ReconnectLocal(outbound_publishes))
      PROVE  LocalOwed(Entry(ReconnectLocal(outbound_publishes), q).state, NoWire[<<"out", q>>])
  <2> DEFINE t == ReconnectLocal(outbound_publishes)
  <2>1. t \in Seq(LocalEntry)
    BY <1>1, ReconnectProperties
  <2>2. q \in PacketIdentifier
    BY <2>1, PidsAreIdentifiers
  <2>3. NoWire[<<"out", q>>] = "None"
    BY <2>2 DEF NoWire
  <2>4. PICK i \in DOMAIN outbound_publishes : Entry(t, q) = LocalReconnected(outbound_publishes[i])
    BY HandleProperties DEF Entry, ReconnectLocal
  <2>5. outbound_publishes[i] \in LocalEntry
    BY <1>1, LenProperties, ElementOfSeq
  <2>6. LocalReconnected(outbound_publishes[i]).state \notin {"AwaitAck", "AwaitRec", "AwaitComp"}
    BY <2>5 DEF LocalReconnected, LocalEntry
  <2>7. QED
    BY <2>3, <2>4, <2>6 DEF LocalOwed
<1>3. ASSUME NEW q \in Pids(ReconnectPeer(inbound_publishes))
      PROVE  PeerOwed(Entry(ReconnectPeer(inbound_publishes), q).state, NoWire[<<"in", q>>])
  <2> DEFINE t == ReconnectPeer(inbound_publishes)
  <2>1. PICK i \in DOMAIN inbound_publishes : Entry(t, q) = PeerReconnected(inbound_publishes[i])
    BY HandleProperties DEF Entry, ReconnectPeer
  <2>2. PeerReconnected(inbound_publishes[i]).state # "AwaitRel"
    BY DEF PeerReconnected
  <2>3. QED
    BY <2>1, <2>2 DEF PeerOwed
<1>4. QED
  BY <1>2, <1>3 DEF LocalOwes, PeerOwes

(* An operation on a publication of the client that sends p is good.        *)
LEMMA OutboundSendStep ==
    ASSUME OpenInv, Len(c2s) < MaxQueue, ~Connecting, ~Connecting', Calling', PanicsOnPubcomp,
           NEW pid \in PacketIdentifier, NEW d, Outbound(pid, d),
           Applicable(outbound_publishes, LocalEntry, SEND_MAXIMUM, pid, d),
           NEW p \in ClientPacket, p.pid = pid, Flow(p) = "out",
           d.state # Untracked => LocalOwed(d.state, p.type),
           p.type = "Publish" /\ p.dup /\ Owed => wire[<<"out", pid>>] = "None",
           NEW rest \in Seq(AnyPacket), Len(rest) <= 1, NEW sent, Send(p, rest, sent), Tapped
    PROVE  Good
<1>1. p.type # "Disconnect"
  BY SMTT(30) DEF Flow
<1>2. Connection' /\ Sends(p)
  BY <1>1, SendEffect, SMTT(30) DEF OpenInv
<1>3. Wired' /\ (link' /\ net'.state = "Ok" => Marks(p))
  BY <1>2, TapSends, SMTT(30) DEF OpenInv
<1>4. Live' => link /\ net.state = "Ok" /\ Marks(p)
  BY <1>2, <1>3, SMTT(30) DEF Sends, Live
<1>5. Marks(p) =>
        /\ \A q \in PacketIdentifier : wire'[<<"in", q>>] = wire[<<"in", q>>]
        /\ \A q \in PacketIdentifier \ {pid} : wire'[<<"out", q>>] = wire[<<"out", q>>]
        /\ wire'[<<"out", pid>>] = p.type
  BY DEF Marks
<1>6. Live' =>
        /\ link /\ net.state = "Ok"
        /\ \A q \in PacketIdentifier : wire'[<<"in", q>>] = wire[<<"in", q>>]
        /\ \A q \in PacketIdentifier \ {pid} : wire'[<<"out", q>>] = wire[<<"out", q>>]
        /\ d.state # Untracked => LocalOwed(d.state, wire'[<<"out", pid>>])
  BY <1>4, <1>5, SMTT(30)
<1>7. Live' => Owed'
  BY <1>6, OutboundOwed, SMTT(30)
<1>8. Unresent
  <2>1. \A x \in Sent : x = p /\ link /\ net.state = "Ok"
    BY <1>2, SMTT(30) DEF Sends
  <2>2. link /\ net.state = "Ok" => Owed
    BY DEF OpenInv, Live
  <2>3. QED
    BY <2>1, <2>2, SMTT(30) DEF Unresent
<1>9. QED
  BY <1>2, <1>3, <1>7, <1>8 DEF Good, Sends

(* An operation on a publication of the server that sends p is good.        *)
LEMMA InboundSendStep ==
    ASSUME OpenInv, Len(c2s) < MaxQueue, ~Connecting, ~Connecting', Calling', PanicsOnPubcomp,
           NEW pid \in PacketIdentifier, NEW d, Inbound(pid, d),
           Applicable(inbound_publishes, PeerEntry, RECEIVE_MAXIMUM, pid, d),
           NEW p \in ClientPacket, p.pid = pid, Flow(p) = "in",
           d.state # Untracked => PeerOwed(d.state, p.type),
           NEW rest \in Seq(AnyPacket), Len(rest) <= 1, NEW sent, Send(p, rest, sent), Tapped
    PROVE  Good
<1>1. p.type \notin {"Disconnect", "Publish"}
  BY DEF Flow
<1>2. Connection' /\ Sends(p)
  BY <1>1, SendEffect DEF OpenInv
<1>3. Wired' /\ (link' /\ net'.state = "Ok" => Marks(p))
  BY <1>2, TapSends DEF OpenInv
<1>4. Live' => link /\ net.state = "Ok" /\ Marks(p)
  BY <1>2, <1>3, SMTT(30) DEF Sends, Live
<1>5. Marks(p) =>
        /\ \A q \in PacketIdentifier : wire'[<<"out", q>>] = wire[<<"out", q>>]
        /\ \A q \in PacketIdentifier \ {pid} : wire'[<<"in", q>>] = wire[<<"in", q>>]
        /\ wire'[<<"in", pid>>] = p.type
  BY DEF Marks
<1>6. Live' =>
        /\ link /\ net.state = "Ok"
        /\ \A q \in PacketIdentifier : wire'[<<"out", q>>] = wire[<<"out", q>>]
        /\ \A q \in PacketIdentifier \ {pid} : wire'[<<"in", q>>] = wire[<<"in", q>>]
        /\ d.state # Untracked => PeerOwed(d.state, wire'[<<"in", pid>>])
  BY <1>4, <1>5, SMTT(30)
<1>7. Live' => Owed'
  BY <1>6, InboundOwed, SMTT(30)
<1>8. Unresent
  BY <1>1, <1>2 DEF Sends, Unresent
<1>9. QED
  BY <1>2, <1>3, <1>7, <1>8 DEF Good, Sends
===============================================================================
