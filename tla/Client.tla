-------------------------------- MODULE Client --------------------------------
(* The client of src/client: its session, the state of its network          *)
(* connection, and one action per call of the user.  The session operations *)
(* a call performs are the actions of Session.  A call runs to completion   *)
(* (&mut self), except connect, which waits for the CONNACK, and rerelease, *)
(* which sends a packet per iteration.  A call that returns an error before *)
(* it changes anything is no step.                                          *)
EXTENDS Session, Transport

VARIABLES net,              \* raw.n, the NetState
          server_config,    \* receive_maximum, and is maximum_packet_size a Limit?
          call,             \* the call in progress
          event             \* what the last step handed to the user

sessionVars == <<subs, unsubs, inbound_publishes, outbound_publishes>>
clientVars == <<subs, unsubs, inbound_publishes, outbound_publishes,
                net, server_config, call, event>>

NetOk == [state |-> "Ok", rc |-> NoCode]
Terminated == [state |-> "Terminated", rc |-> NoCode]
Faulted(rc) == [state |-> "Faulted", rc |-> rc]

Event(name, pid, mode, msg) == [name |-> name, pid |-> pid, mode |-> mode, msg |-> msg]
Plain(name) == Event(name, 0, Automatic, "None")
NoEvent == Plain("None")

DefaultConfig == [receive_maximum |-> PidMax, limited |-> FALSE]

(* Client::new and Client::with_session start without a connection and with *)
(* the default server configuration; new starts with an empty session.      *)
ClientInit ==
    /\ Init
    /\ net = Terminated
    /\ server_config = DefaultConfig
    /\ call = "Idle"
    /\ event = NoEvent

-----------------------------------------------------------------------------
(* A send that fails terminates the connection, whether or not the server   *)
(* gets to see the packet.                                                  *)
handle_tx(p) == net' = Terminated /\ DropTransport(Written(c2s, p))

Wrong_send(p, rest, sent) ==     \* NetState::get also answers when Faulted
    \/ /\ net.state # "Terminated" /\ sent
       /\ c2s' = Written(c2s, p)
       /\ s2c' = rest
       /\ UNCHANGED <<net, link, outages>>
    \/ /\ net.state = "Terminated" /\ ~sent
       /\ s2c' = rest
       /\ UNCHANGED <<net, link, outages, c2s>>

(* Raw::send and Raw::flush of packet p, with rest left to read afterwards. *)
(* A connection that is not Ok refuses (RecoveryRequired).                  *)
Send(p, rest, sent) ==
    \/ /\ net.state = "Ok" /\ sent
       /\ c2s' = Written(c2s, p)
       /\ s2c' = rest
       /\ UNCHANGED <<net, link, outages>>
    \/ net.state = "Ok" /\ ~sent /\ handle_tx(p)
    \/ /\ net.state # "Ok" /\ ~sent
       /\ s2c' = rest
       /\ UNCHANGED <<net, link, outages, c2s>>

(* A call of the user whose packet is p: what it returns.                   *)
SendCall(p, result) ==
    /\ call = "Idle"
    /\ \E sent \in BOOLEAN :
         /\ Send(p, s2c, sent)
         /\ event' = IF sent THEN Plain(result) ELSE Plain("Network")
    /\ UNCHANGED <<server_config, call>>

-----------------------------------------------------------------------------
(* Connections.                                                             *)

(* connect up to the CONNECT packet: set_net replaces a connection that is  *)
(* not Ok, also a faulted one nobody aborted.  The header that Raw keeps is *)
(* the subject of module Header.  A CONNECT that cannot be sent is a        *)
(* connection that breaks before the CONNACK.                               *)
Connect(clean_start) ==
    /\ call = "Idle"
    /\ net.state # "Ok"
    /\ IF link THEN Outage ELSE UNCHANGED outages
    /\ net' = NetOk
    /\ link' = TRUE
    /\ c2s' = <<[type |-> "Connect", clean_start |-> clean_start]>>
    /\ s2c' = <<>>
    /\ call' = IF clean_start THEN "ConnectClean" ELSE "ConnectResume"
    /\ event' = NoEvent
    /\ UNCHANGED <<sessionVars, server_config>>

Connecting == call \in {"ConnectClean", "ConnectResume"}

(* handle_rx and close_with(Some(rc)) on a packet the client refuses        *)
Fault(rc, error) ==
    /\ net' = Faulted(rc)
    /\ s2c' = Tail(s2c)
    /\ event' = Plain(error)
    /\ UNCHANGED <<link, c2s, outages>>

(* close_with(None)                                                         *)
Close(error) ==
    /\ net' = Terminated
    /\ DropTransport(c2s)
    /\ event' = Plain(error)

Receiving(type) == net.state = "Ok" /\ s2c # <<>> /\ Head(s2c).type = type

(* A successful CONNACK resumes or clears the session; the limits it leaves *)
(* out keep their value.                                                    *)
ConnackAccepted ==
    /\ Connecting
    /\ Receiving("Connack")
    /\ Head(s2c).rc = "Success"
    /\ ~(Head(s2c).session_present /\ call = "ConnectClean")
    /\ IF Head(s2c).session_present THEN Reconnect ELSE Clear
    /\ server_config' =
         [receive_maximum |-> IF Head(s2c).receive_maximum = 0
                                THEN server_config.receive_maximum
                                ELSE Head(s2c).receive_maximum,
          limited |-> Head(s2c).limited \/ server_config.limited]
    /\ call' = "Idle"
    /\ event' = Plain("Connected")
    /\ s2c' = Tail(s2c)
    /\ UNCHANGED <<net, link, c2s, outages>>

ConnackRejected ==
    /\ Connecting
    /\ Receiving("Connack")
    /\ Head(s2c).rc # "Success"
    /\ Close("Disconnect")
    /\ call' = "Idle"
    /\ UNCHANGED <<sessionVars, server_config>>

(* A session present despite clean start, a packet other than CONNACK, or   *)
(* one that cannot be decoded                                               *)
ConnackRefused ==
    /\ Connecting
    /\ net.state = "Ok" /\ s2c # <<>>
    /\ \/ /\ Head(s2c).type = "Connack"
          /\ Head(s2c).rc = "Success"
          /\ Head(s2c).session_present /\ call = "ConnectClean"
       \/ Head(s2c).type # "Connack"
    /\ \/ Fault("ProtocolError", "Server")
       \/ Head(s2c).type = "Invalid" /\ Fault("MalformedPacket", "Server")
    /\ call' = "Idle"
    /\ UNCHANGED <<sessionVars, server_config>>

Wrong_receive_fails ==          \* connect goes on without a connection
    /\ call = "Idle" \/ Connecting
    /\ net.state = "Ok" /\ ~link /\ s2c = <<>>
    /\ Close("Network")
    /\ UNCHANGED <<sessionVars, server_config, call>>

(* connect or poll on a connection that is gone: handle_rx terminates it.   *)
ReceiveFails ==
    /\ call = "Idle" \/ Connecting
    /\ net.state = "Ok" /\ ~link /\ s2c = <<>>
    /\ Close("Network")
    /\ call' = "Idle"
    /\ UNCHANGED <<sessionVars, server_config>>

(* abort after an error: a faulted connection is told why.                  *)
Abort ==
    /\ call = "Idle"
    /\ net.state = "Faulted"
    /\ net' = Terminated
    /\ DropTransport(Written(c2s, Packet("Disconnect", 0, net.rc)))
    /\ event' = NoEvent
    /\ UNCHANGED <<sessionVars, server_config, call>>

(* disconnect: the connection is closed also when the send fails.           *)
Disconnect ==
    /\ call = "Idle"
    /\ net.state = "Ok"
    /\ net' = Terminated
    /\ DropTransport(Written(c2s, Packet("Disconnect", 0, "Success")))
    /\ event' = NoEvent
    /\ UNCHANGED <<sessionVars, server_config, call>>

(* The client is dropped, between calls or in the middle of one, and a new  *)
(* one is made of its session (Client::with_session).                       *)
Restart ==
    /\ call # "Panicked"
    /\ net' = Terminated
    /\ DropTransport(c2s)
    /\ server_config' = DefaultConfig
    /\ call' = "Idle"
    /\ event' = NoEvent
    /\ UNCHANGED sessionVars

-----------------------------------------------------------------------------
(* Requests of the user.  The session changes before the packet is sent.    *)

(* subscribe and unsubscribe; a packet that does not fit the server's       *)
(* maximum packet size is refused after its identifier has been tracked.    *)
Request(type, pid, fits) ==
    /\ \/ type = "Subscribe" /\ OutboundSub(pid)
       \/ type = "Unsubscribe" /\ OutboundUnsub(pid)
    /\ \/ fits /\ SendCall(Packet(type, pid, "Success"), "Ok")
       \/ /\ ~fits
          /\ server_config.limited
          /\ call = "Idle"
          /\ event' = Plain("ServerMaximumPacketSizeExceeded")
          /\ UNCHANGED <<net, server_config, call, transportVars>>

(* u16 subtraction, without overflow checks                                 *)
remaining_send_quota ==
    (server_config.receive_maximum + (PidMax + 1) - Len(outbound_publishes)) % (PidMax + 1)

Publish(pid, qos, mode, msg) ==
    /\ remaining_send_quota # 0
    /\ outbound_publish(outbound_publishes, qos, mode).event = "Ok"
    /\ OutboundPublish(pid, qos, mode)
    /\ SendCall(PublishPacket(pid, qos, msg, FALSE), "Ok")

Wrong_republish(pid, qos, msg) ==     \* of an identifier nobody tracks
    /\ pid \notin Pids(outbound_publishes)
    /\ Outbound(pid, outbound_publish(outbound_publishes, qos, Automatic))
    /\ SendCall(PublishPacket(pid, qos, msg, TRUE), "Ok")

Republish(pid, qos, msg) ==
    /\ outbound_republish(outbound_publishes, pid, qos).event = "Ok"
    /\ OutboundRepublish(pid, qos)
    /\ SendCall(PublishPacket(pid, qos, msg, TRUE), "Ok")

(* manual_acknowledge removes the entry whatever the reason code is.        *)
manual_acknowledge(pid, rc) ==
    /\ outbound_puback(inbound_publishes, pid).event = "Ok"
    /\ OutboundPuback(pid)
    /\ SendCall(Packet("Puback", pid, rc), "Ok")

manual_receive(pid, rc) ==
    /\ outbound_pubrec(inbound_publishes, pid, rc).event = "Ok"
    /\ OutboundPubrec(pid, rc)
    /\ SendCall(Packet("Pubrec", pid, rc), "Ok")

manual_release(pid) ==
    /\ outbound_pubrel(outbound_publishes, pid).event = "Ok"
    /\ OutboundPubrel(pid)
    /\ SendCall(Packet("Pubrel", pid, "Success"), "Ok")

manual_complete(pid) ==
    /\ outbound_pubcomp(inbound_publishes, pid).event = "Ok"
    /\ OutboundPubcomp(pid)
    /\ SendCall(Packet("Pubcomp", pid, "Success"), "Ok")

(* rerelease visits the outbound entries in list order.  The next one it    *)
(* acts on is the first that is due: an entry it has acted on no longer is. *)
(* A call that finds none due only flushes, which is no step: when that     *)
(* fails, the connection is lost and found so as by ReceiveFails.           *)
DueRelease == {i \in DOMAIN outbound_publishes :
                  /\ outbound_publishes[i].state = "DueRel"
                  /\ outbound_publishes[i].mode = Automatic}

StartRerelease ==
    /\ call = "Idle"
    /\ DueRelease # {}
    /\ call' = "Rerelease"
    /\ event' = NoEvent
    /\ UNCHANGED <<sessionVars, net, server_config, transportVars>>

ReleaseNext ==
    /\ call = "Rerelease"
    /\ \E i \in DueRelease :
         LET pid == outbound_publishes[i].pid
         IN  /\ \A j \in DueRelease : i <= j
             /\ OutboundPubrel(pid)
             /\ \E sent \in BOOLEAN :
                  /\ Send(Packet("Pubrel", pid, "Success"), s2c, sent)
                  /\ call' = IF sent THEN "Rerelease" ELSE "Idle"
                  /\ event' = IF sent THEN NoEvent ELSE Plain("Network")
    /\ UNCHANGED server_config

(* The flush after the last entry may fail too.                             *)
FinishRerelease ==
    /\ call = "Rerelease"
    /\ DueRelease = {}
    /\ \/ event' = Plain("Ok") /\ UNCHANGED <<net, transportVars>>
       \/ Close("Network")
    /\ call' = "Idle"
    /\ UNCHANGED <<sessionVars, server_config>>

-----------------------------------------------------------------------------
(* poll: one packet, read, applied to the session and answered before the   *)
(* event is returned.                                                       *)

Wrong_pubrec_arm ==
    [Publish |-> {"Publish", "Duplicate", "Ignored"},
     Puback  |-> {"Ignored", "Rejected", "Acknowledged"},
     Pubrec  |-> {"Ignored", "Received"},
     Pubrel  |-> {"Ignored", "Aborted", "Released"},
     Pubcomp |-> {"Ignored", "Completed"}]
Wrong_publish_arm ==
    [Publish |-> {"Publish", "Ignored"},
     Puback  |-> {"Ignored", "Rejected", "Acknowledged"},
     Pubrec  |-> {"Ignored", "Rejected", "Received"},
     Pubrel  |-> {"Ignored", "Aborted", "Released"},
     Pubcomp |-> {"Ignored", "Completed"}]

(* The events each arm of poll_body maps to one for the user; it declares   *)
(* the others unreachable.  ServerError is the error Server.                *)
PollEvents ==
    [Publish |-> {"Publish", "Duplicate", "Ignored"},
     Puback  |-> {"Ignored", "Rejected", "Acknowledged"},
     Pubrec  |-> {"Ignored", "Rejected", "Received"},
     Pubrel  |-> {"Ignored", "Aborted", "Released"},
     Pubcomp |-> {"Ignored", "Completed"}]

AnswerPacket ==
    [Acknowledge |-> "Puback", Receive |-> "Pubrec", Release |-> "Pubrel",
     Complete |-> "Pubcomp"]

(* The answer d of the session to packet p becomes e for the user, unless   *)
(* the arm has no place for it, or the response cannot be sent.             *)
Deliver(p, d, e) ==
    LET returned == IF d.event \in PollEvents[p.type] THEN e ELSE Plain("Panic")
        finish(ok) ==
          /\ event' = IF ok THEN returned ELSE Plain("Network")
          /\ call' = IF ok /\ returned.name = "Panic" THEN "Panicked" ELSE "Idle"
    IN  /\ \/ /\ d.response = "None"
             /\ s2c' = Tail(s2c)
             /\ finish(TRUE)
             /\ UNCHANGED <<net, link, c2s, outages>>
          \/ /\ d.response = "Disconnect"
             /\ Fault(d.rc, "Server")
             /\ call' = "Idle"
          \/ /\ d.response \in DOMAIN AnswerPacket
             /\ \E sent \in BOOLEAN :
                  /\ Send(Packet(AnswerPacket[d.response], p.pid, d.rc), Tail(s2c), sent)
                  /\ finish(sent)
        /\ UNCHANGED server_config

(* mode is what the predicate of ack_manually_when answers for this packet. *)
(* A Duplicate reports the mode of its entry, a Publish that of the         *)
(* predicate.                                                               *)
PollPublish(mode) ==
    /\ call = "Idle"
    /\ Receiving("Publish")
    /\ LET p == Head(s2c)
           d == inbound_publish(inbound_publishes, p.pid, p.qos, mode)
           reported == IF d.event = "Publish" THEN mode ELSE d.mode
       IN  /\ InboundPublish(p.pid, p.qos, mode)
           /\ Deliver(p, d, Event(d.event, p.pid, reported, p.msg))

PollPuback ==
    /\ call = "Idle"
    /\ Receiving("Puback")
    /\ LET p == Head(s2c)
           d == inbound_puback(outbound_publishes, p.pid, p.rc)
       IN  InboundPuback(p.pid, p.rc) /\ Deliver(p, d, Event(d.event, p.pid, Automatic, "None"))

PollPubrec ==
    /\ call = "Idle"
    /\ Receiving("Pubrec")
    /\ LET p == Head(s2c)
           d == inbound_pubrec(outbound_publishes, p.pid, p.rc)
       IN  InboundPubrec(p.pid, p.rc) /\ Deliver(p, d, Event(d.event, p.pid, d.mode, "None"))

PollPubrel ==
    /\ call = "Idle"
    /\ Receiving("Pubrel")
    /\ LET p == Head(s2c)
           d == inbound_pubrel(inbound_publishes, p.pid, p.rc)
       IN  InboundPubrel(p.pid, p.rc) /\ Deliver(p, d, Event(d.event, p.pid, d.mode, "None"))

PollPubcomp ==
    /\ call = "Idle"
    /\ Receiving("Pubcomp")
    /\ LET p == Head(s2c)
           d == inbound_pubcomp(outbound_publishes, p.pid, p.rc)
       IN  InboundPubcomp(p.pid, p.rc) /\ Deliver(p, d, Event(d.event, p.pid, Automatic, "None"))

(* A SUBACK or UNSUBACK without a request in flight is ignored.             *)
PollSuback ==
    /\ call = "Idle"
    /\ Receiving("Suback")
    /\ LET pid == Head(s2c).pid
       IN  \/ pid \in Range(subs) /\ InboundSuback(pid) /\ event' = Plain("Suback")
           \/ pid \notin Range(subs) /\ UNCHANGED sessionVars /\ event' = Plain("Ignored")
    /\ s2c' = Tail(s2c)
    /\ UNCHANGED <<net, server_config, call, link, c2s, outages>>

PollUnsuback ==
    /\ call = "Idle"
    /\ Receiving("Unsuback")
    /\ LET pid == Head(s2c).pid
       IN  \/ pid \in Range(unsubs) /\ InboundUnsuback(pid) /\ event' = Plain("Unsuback")
           \/ pid \notin Range(unsubs) /\ UNCHANGED sessionVars /\ event' = Plain("Ignored")
    /\ s2c' = Tail(s2c)
    /\ UNCHANGED <<net, server_config, call, link, c2s, outages>>

PollDisconnect ==
    /\ call = "Idle"
    /\ Receiving("Disconnect")
    /\ Close("Disconnect")
    /\ UNCHANGED <<sessionVars, server_config, call>>

(* A packet that poll_header, the decoder or the checks before the session  *)
(* refuse, with the reason code of the DISCONNECT this schedules            *)
PollInvalid ==
    /\ call = "Idle"
    /\ Receiving("Invalid")
    /\ Fault(Head(s2c).rc, "Server")
    /\ UNCHANGED <<sessionVars, server_config, call>>

(* A second CONNACK, handled like a packet only a client sends, and AUTH    *)
PollRefused ==
    /\ call = "Idle"
    /\ \/ Receiving("Connack") /\ Fault("ProtocolError", "Server")
       \/ Receiving("Auth") /\ Fault("ProtocolError", "AuthPacketReceived")
    /\ UNCHANGED <<sessionVars, server_config, call>>

Poll ==
    \/ \E mode \in AckMode : PollPublish(mode)
    \/ PollPuback \/ PollPubrec \/ PollPubrel \/ PollPubcomp
    \/ PollSuback \/ PollUnsuback \/ PollDisconnect \/ PollInvalid \/ PollRefused
    \/ ReceiveFails

Connack == ConnackAccepted \/ ConnackRejected \/ ConnackRefused

Rerelease == StartRerelease \/ ReleaseNext \/ FinishRerelease
===============================================================================
