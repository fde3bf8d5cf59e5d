---------------------------- MODULE AnyServerProofs ----------------------------
(* The client in front of any server and under any calls of the user keeps  *)
(* its state well formed, drives its session by the operations of Session   *)
(* only, waits only for answers it is owed, resends nothing twice on a      *)
(* connection and sends nothing but the DISCONNECT after a fault.           *)
EXTENDS ConnectionProofs

(* One lemma per kind of step.                                              *)

(* What a call of the user that sends p leaves alone.                       *)
LEMMA SendCallLeaves ==
    ASSUME OpenInv, NEW p, NEW result, SendCall(p, result)
    PROVE  /\ ~Connecting /\ ~Connecting' /\ Calling' /\ PanicsOnPubcomp
           /\ s2c \in Seq(AnyPacket) /\ Len(s2c) <= 1
           /\ \E sent \in BOOLEAN : Send(p, s2c, sent)
<1>1. call = "Idle" /\ call' = call /\ server_config' = server_config
  BY DEF SendCall
<1>2. QED
  BY <1>1 DEF SendCall, OpenInv, Connection, Calling, Connecting, PanicsOnPubcomp

(* subscribe and unsubscribe.                                               *)
LEMMA RequestGood ==
    ASSUME OpenInv, Len(c2s) < MaxQueue, Tapped, NEW pid \in PacketIdentifier,
           NEW type \in {"Subscribe", "Unsubscribe"}, NEW fits \in BOOLEAN,
           Request(type, pid, fits)
    PROVE  Good
<1> DEFINE p == Packet(type, pid, "Success")
<1>1. UNCHANGED <<inbound_publishes, outbound_publishes>>
  BY DEF Request, OutboundSub, OutboundUnsub
<1>2. p \in ClientPacket /\ Flow(p) = "none" /\ p.type \notin {"Disconnect", "Publish"}
  BY DEF ClientPacket, Packet, Flow, AckRecReasonCode
<1>3. CASE SendCall(p, "Ok")
  <2>1. /\ ~Connecting /\ ~Connecting' /\ Calling' /\ PanicsOnPubcomp
        /\ s2c \in Seq(AnyPacket) /\ Len(s2c) <= 1
        /\ \E sent \in BOOLEAN : Send(p, s2c, sent)
    BY <1>3, SendCallLeaves
  <2> HIDE DEF p
  <2>2. Connection' /\ Sends(p)
    BY <1>2, <2>1, SendEffect DEF OpenInv
  <2>3. Wired' /\ (link' /\ net'.state = "Ok" => Marks(p))
    BY <1>2, <2>2, TapSends DEF OpenInv
  <2>4. Live' => Live /\ Marks(p)
    BY <2>1, <2>2, <2>3 DEF Sends, Live
  <2>5. Marks(p) => \A q \in PacketIdentifier : /\ wire'[<<"out", q>>] = wire[<<"out", q>>]
                                               /\ wire'[<<"in", q>>] = wire[<<"in", q>>]
    BY <1>2, Zenon DEF Marks
  <2>6. /\ Pids(outbound_publishes) \subseteq PacketIdentifier
        /\ Pids(inbound_publishes) \subseteq PacketIdentifier
    BY PidsAreIdentifiers DEF OpenInv, Inv, TypeOK
  <2>7. Live' => Owed'
    BY <1>1, <2>4, <2>5, <2>6, Zenon DEF OpenInv, Owed, LocalOwes, PeerOwes
  <2>8. Unresent
    BY <1>2, <2>2 DEF Sends, Unresent
  <2>9. QED
    BY <2>1, <2>2, <2>3, <2>7, <2>8 DEF Good, Sends
<1>4. CASE call = "Idle" /\ UNCHANGED <<net, server_config, call, transportVars>>
  <2>1. ~Connecting /\ ~Connecting' /\ Calling' /\ call' # "Panicked"
    BY <1>4 DEF Connecting, OpenInv, Calling
  <2>2. Connection' /\ Quiet
    BY <1>4, ReadEffect DEF transportVars, OpenInv
  <2>3. QED
    BY <1>1, <2>1, <2>2, QuietStep
<1>5. QED
  BY <1>3, <1>4 DEF Request

(* The packets of publish and republish.                                    *)
LEMMA PublishPackets ==
    ASSUME NEW pid \in PacketIdentifier, NEW qos \in {1, 2}, NEW dup \in BOOLEAN
    PROVE  LET p == PublishPacket(pid, qos, "msg", dup)
           IN  /\ p \in ClientPacket /\ p.pid = pid /\ Flow(p) = "out"
               /\ p.type = "Publish" /\ p.dup = dup
<1>1. PublishPacket(pid, qos, "msg", dup) \in
        [type : {"Publish"}, pid : PacketIdentifier, qos : {1, 2}, msg : {"msg"}, dup : BOOLEAN]
  BY Zenon DEF PublishPacket
<1>2. PublishPacket(pid, qos, "msg", dup) \in ClientPacket
  BY <1>1 DEF ClientPacket
<1>3. PublishPacket(pid, qos, "msg", dup).pid = pid
  BY DEF PublishPacket
<1>4. PublishPacket(pid, qos, "msg", dup).type = "Publish"
  BY DEF PublishPacket
<1>5. PublishPacket(pid, qos, "msg", dup).dup = dup
  BY DEF PublishPacket
<1>6. QED
  BY <1>2, <1>3, <1>4, <1>5 DEF Flow

(* publish, republish and manual_release.                                   *)
LEMMA OutboundCallGood ==
    ASSUME OpenInv, Len(c2s) < MaxQueue, Tapped, NEW pid \in PacketIdentifier,
           \/ \E qos \in {1, 2}, mode \in AckMode : Publish(pid, qos, mode, "msg")
           \/ \E qos \in {1, 2} : Republish(pid, qos, "msg")
           \/ manual_release(pid)
    PROVE  Good
<1> DEFINE s == outbound_publishes
<1>1. s \in Seq(LocalEntry)
  BY DEF OpenInv, Inv, TypeOK
<1>2. ASSUME NEW qos \in {1, 2}, NEW mode \in AckMode, Publish(pid, qos, mode, "msg")
      PROVE  Good
  <2> DEFINE d == outbound_publish(s, qos, mode)
             p == PublishPacket(pid, qos, "msg", FALSE)
  <2>1. Outbound(pid, d) /\ d.state \in {"AwaitAck", "AwaitRec"} /\ SendCall(p, "Ok")
    BY <1>1, <1>2, PublishIsOutbound, LocalCalls, Zenon DEF Publish
  <2>2. Applicable(s, LocalEntry, SEND_MAXIMUM, pid, d)
    BY <1>1, OutboundDecisions
  <2>3. /\ p \in ClientPacket /\ p.pid = pid /\ Flow(p) = "out"
        /\ p.type = "Publish" /\ p.dup = FALSE
    BY PublishPackets, ZenonT(30)
  <2> HIDE DEF d, p
  <2>4. LocalOwed(d.state, p.type)
    BY <2>1, <2>3 DEF LocalOwed
  <2>5. /\ ~Connecting /\ ~Connecting' /\ Calling' /\ PanicsOnPubcomp
        /\ s2c \in Seq(AnyPacket) /\ Len(s2c) <= 1
        /\ \E sent \in BOOLEAN : Send(p, s2c, sent)
    BY <2>1, SendCallLeaves
  <2>6. p.type = "Publish" /\ p.dup /\ Owed => wire[<<"out", pid>>] = "None"
    BY <2>3
  <2>7. QED
    BY <2>1, <2>2, <2>3, <2>4, <2>5, <2>6, OutboundSendStep, Zenon
<1>3. ASSUME NEW qos \in {1, 2}, Republish(pid, qos, "msg")
      PROVE  Good
  <2> DEFINE d == outbound_republish(s, pid, qos)
             p == PublishPacket(pid, qos, "msg", TRUE)
  <2>1. /\ Outbound(pid, d) /\ d.state \in {"AwaitAck", "AwaitRec"} /\ SendCall(p, "Ok")
        /\ pid \in Pids(s)
        /\ Entry(s, pid).state \in {"DuePublishAtLeastOnce", "DuePublishExactlyOnce"}
    BY <1>1, <1>3, LocalCalls, Zenon DEF Republish, OutboundRepublish
  <2>2. Applicable(s, LocalEntry, SEND_MAXIMUM, pid, d)
    BY <1>1, OutboundDecisions
  <2>3. p \in ClientPacket /\ p.pid = pid /\ Flow(p) = "out" /\ p.type = "Publish"
    BY PublishPackets, ZenonT(30)
  <2> HIDE DEF d, p
  <2>4. LocalOwed(d.state, p.type)
    BY <2>1, <2>3 DEF LocalOwed
  <2>5. Owed => wire[<<"out", pid>>] = "None"
    BY <2>1 DEF Owed, LocalOwes, LocalOwed
  <2>6. /\ ~Connecting /\ ~Connecting' /\ Calling' /\ PanicsOnPubcomp
        /\ s2c \in Seq(AnyPacket) /\ Len(s2c) <= 1
        /\ \E sent \in BOOLEAN : Send(p, s2c, sent)
    BY <2>1, SendCallLeaves
  <2>7. QED
    BY <2>1, <2>2, <2>3, <2>4, <2>5, <2>6, OutboundSendStep, Zenon
<1>4. ASSUME manual_release(pid)
      PROVE  Good
  <2> DEFINE d == outbound_pubrel(s, pid)
             p == Packet("Pubrel", pid, "Success")
  <2>1. Outbound(pid, d) /\ d.state = "AwaitComp" /\ SendCall(p, "Ok")
    BY <1>1, <1>4, LocalCalls DEF manual_release, OutboundPubrel
  <2>2. Applicable(s, LocalEntry, SEND_MAXIMUM, pid, d)
    BY <1>1, OutboundDecisions
  <2>3. p \in ClientPacket /\ p.pid = pid /\ Flow(p) = "out" /\ p.type = "Pubrel"
    BY DEF ClientPacket, Packet, Flow, AckRecReasonCode
  <2> HIDE DEF d, p
  <2>4. LocalOwed(d.state, p.type)
    BY <2>1, <2>3 DEF LocalOwed
  <2>5. QED
    BY <2>1, <2>2, <2>3, <2>4, SendCallLeaves, OutboundSendStep, Zenon
<1>5. QED
  BY <1>2, <1>3, <1>4

(* manual_acknowledge, manual_receive and manual_complete.                  *)
LEMMA InboundCallGood ==
    ASSUME OpenInv, Len(c2s) < MaxQueue, Tapped, NEW pid \in PacketIdentifier,
           NEW rc \in AckRecReasonCode,
           manual_acknowledge(pid, rc) \/ manual_receive(pid, rc) \/ manual_complete(pid)
    PROVE  Good
<1> DEFINE s == inbound_publishes
<1>1. s \in Seq(PeerEntry)
  BY DEF OpenInv, Inv, TypeOK
<1>2. ASSUME NEW d, Applicable(s, PeerEntry, RECEIVE_MAXIMUM, pid, d), Inbound(pid, d),
             NEW type \in {"Puback", "Pubrec", "Pubcomp"},
             d.state = Untracked \/ (d.state = "AwaitRel" /\ type = "Pubrec"),
             NEW code \in AckRecReasonCode, SendCall(Packet(type, pid, code), "Ok")
      PROVE  Good
  <2> DEFINE p == Packet(type, pid, code)
  <2>1. p \in ClientPacket /\ p.pid = pid /\ Flow(p) = "in" /\ p.type = type
    BY DEF ClientPacket, Packet, Flow
  <2>2. SendCall(p, "Ok")
    BY <1>2
  <2> HIDE DEF p
  <2>3. d.state # Untracked => PeerOwed(d.state, p.type)
    BY <1>2, <2>1 DEF PeerOwed
  <2>4. QED
    BY <1>2, <2>1, <2>2, <2>3, SendCallLeaves, InboundSendStep
<1>3. CASE manual_acknowledge(pid, rc)
  <2>1. outbound_puback(s, pid).state = Untracked
    BY <1>1, <1>3, PeerCalls DEF manual_acknowledge
  <2>2. Applicable(s, PeerEntry, RECEIVE_MAXIMUM, pid, outbound_puback(s, pid))
    BY <1>1, InboundDecisions
  <2>3. Inbound(pid, outbound_puback(s, pid)) /\ SendCall(Packet("Puback", pid, rc), "Ok")
    BY <1>3 DEF manual_acknowledge, OutboundPuback
  <2>4. QED
    BY <1>2, <2>1, <2>2, <2>3
<1>4. CASE manual_receive(pid, rc)
  <2>1. outbound_pubrec(s, pid, rc).state \in {Untracked, "AwaitRel"}
    BY <1>1, <1>4, PeerCalls DEF manual_receive
  <2>2. Applicable(s, PeerEntry, RECEIVE_MAXIMUM, pid, outbound_pubrec(s, pid, rc))
    BY <1>1, InboundDecisions
  <2>3. Inbound(pid, outbound_pubrec(s, pid, rc)) /\ SendCall(Packet("Pubrec", pid, rc), "Ok")
    BY <1>4 DEF manual_receive, OutboundPubrec
  <2>4. QED
    BY <1>2, <2>1, <2>2, <2>3
<1>5. CASE manual_complete(pid)
  <2>1. outbound_pubcomp(s, pid).state = Untracked
    BY <1>1, <1>5, PeerCalls DEF manual_complete
  <2>2. Applicable(s, PeerEntry, RECEIVE_MAXIMUM, pid, outbound_pubcomp(s, pid))
    BY <1>1, InboundDecisions
  <2>3. Inbound(pid, outbound_pubcomp(s, pid)) /\ SendCall(Packet("Pubcomp", pid, "Success"), "Ok")
    BY <1>5 DEF manual_complete, OutboundPubcomp
  <2>4. "Success" \in AckRecReasonCode
    BY DEF AckRecReasonCode
  <2>5. QED
    BY <1>2, <2>1, <2>2, <2>3, <2>4
<1>6. QED
  BY <1>3, <1>4, <1>5

-----------------------------------------------------------------------------
(* No arm of poll_body returns a panic.                                     *)
LEMMA ArmsReturn ==
    ASSUME NEW type \in DOMAIN PollEvents, NEW name \in PollEvents[type]
    PROVE  name # "Panic"
  BY DEF PollEvents

(* What a poll that decides d about pid does to the connection and to the   *)
(* call.                                                                    *)
Delivered(pid, d) ==
    /\ ~Connecting /\ ~Connecting' /\ Calling' /\ PanicsOnPubcomp
    /\ Tail(s2c) \in Seq(AnyPacket) /\ Len(Tail(s2c)) <= 1
    /\ \/ d.response = "None" /\ Connection' /\ Quiet
       \/ d.response = "Disconnect" /\ Connection' /\ Quiet /\ net'.state = "Faulted"
       \/ /\ d.response \in DOMAIN AnswerPacket
          /\ \E sent \in BOOLEAN :
               Send(Packet(AnswerPacket[d.response], pid, d.rc), Tail(s2c), sent)

(* The arms of poll_body do no more than that.                              *)
LEMMA DeliverEffect ==
    ASSUME OpenInv, call = "Idle", NEW type \in DOMAIN PollEvents, Receiving(type),
           NEW d, Responds(d), NEW e, e.name = d.event,
           NEW p, p = Head(s2c), Deliver(p, d, e),
           HasArm(type, d) \/ (type = "Pubcomp" /\ is_erroneous(p.rc))
    PROVE  Delivered(p.pid, d)
<1> DEFINE returned == IF d.event \in PollEvents[type] THEN e ELSE Plain("Panic")
<1>1. net.state = "Ok" /\ s2c # <<>> /\ p.type = type
  BY DEF Receiving
<1>2. Tail(s2c) \in Seq(AnyPacket) /\ Len(Tail(s2c)) <= 1
  BY <1>1, LenProperties, HeadTailProperties DEF OpenInv, Connection
<1>3. ~Connecting
  BY DEF Connecting
<1>4. server_config' = server_config
  BY DEF Deliver
<1>5. call' \in {"Idle", "Panicked"}
  BY <1>1 DEF Deliver
<1>6. ~Connecting' /\ Calling'
  BY <1>4, <1>5 DEF Connecting, Calling, OpenInv
<1>7. call' = "Panicked" => d.response # "Disconnect" /\ returned.name = "Panic"
  BY <1>1 DEF Deliver, AnswerPacket
<1>8. PanicsOnPubcomp
  <2>1. SUFFICES ASSUME call' = "Panicked", HasArm(type, d) PROVE FALSE
    BY <1>1 DEF PanicsOnPubcomp
  <2>2. d.event \in PollEvents[type]
    BY <1>7, <2>1 DEF HasArm
  <2>3. returned.name = d.event
    BY <2>2
  <2>4. QED
    BY <1>7, <2>1, <2>2, <2>3, ArmsReturn, SMTT(30)
<1>9. ASSUME d.response = "None", s2c' = Tail(s2c), UNCHANGED <<net, link, c2s, outages>>
      PROVE  Connection' /\ Quiet
  BY <1>1, <1>9, ReadEffect DEF OpenInv
<1>10. ASSUME d.response = "Disconnect", Fault(d.rc, "Server")
       PROVE  Connection' /\ Quiet /\ net'.state = "Faulted"
  <2>1. d.rc \in FaultCode
    BY <1>10 DEF Responds, FaultCode
  <2>2. QED
    BY <1>1, <1>10, <2>1, FaultEffect DEF OpenInv
<1>11. \/ /\ d.response = "None" /\ s2c' = Tail(s2c)
          /\ UNCHANGED <<net, link, c2s, outages>>
       \/ d.response = "Disconnect" /\ Fault(d.rc, "Server")
       \/ /\ d.response \in DOMAIN AnswerPacket
          /\ \E sent \in BOOLEAN :
               Send(Packet(AnswerPacket[d.response], p.pid, d.rc), Tail(s2c), sent)
  BY Zenon DEF Deliver
<1>12. QED
  BY <1>2, <1>3, <1>6, <1>8, <1>9, <1>10, <1>11, Zenon DEF Delivered

(* A poll that sends nothing, or that faults the connection, is good.       *)
LEMMA QuietPoll ==
    ASSUME OpenInv, Tapped, ~Connecting', Calling', PanicsOnPubcomp, Connection', Quiet,
           Live' => Owed'
    PROVE  Good
<1>1. wire' = wire
  BY TapQuiet DEF OpenInv, Quiet
<1>2. Wired'
  BY <1>1 DEF OpenInv, Wired
<1>3. QED
  BY <1>2 DEF Good, Quiet, Unresent

(* PUBACK, PUBREC and PUBCOMP.                                              *)
LEMMA OutboundPollGood ==
    ASSUME OpenInv, Len(c2s) < MaxQueue, Tapped, NEW pid \in PacketIdentifier,
           NEW d, Outbound(pid, d), Responds(d), LocalSettled(d), Delivered(pid, d),
           Applicable(outbound_publishes, LocalEntry, SEND_MAXIMUM, pid, d)
    PROVE  Good
<1> DEFINE p == Packet("Pubrel", pid, d.rc)
<1>1. /\ ~Connecting /\ ~Connecting' /\ Calling' /\ PanicsOnPubcomp
      /\ Tail(s2c) \in Seq(AnyPacket) /\ Len(Tail(s2c)) <= 1
  BY DEF Delivered
<1>2. \/ d.response = "None" /\ Connection' /\ Quiet
      \/ d.response = "Disconnect" /\ Connection' /\ Quiet /\ net'.state = "Faulted"
      \/ /\ d.response \in DOMAIN AnswerPacket
         /\ \E sent \in BOOLEAN :
              Send(Packet(AnswerPacket[d.response], pid, d.rc), Tail(s2c), sent)
  BY DEF Delivered
<1>3. CASE d.response = "None" /\ Connection' /\ Quiet
  <2>1. wire' = wire
    BY <1>3, TapQuiet DEF OpenInv, Quiet
  <2>2. d.state # Untracked => d.state = "DueRel"
    BY <1>3 DEF LocalSettled
  <2>3. Live' => link /\ net.state = "Ok"
    BY <1>3 DEF Live, Quiet
  <2>4. Live' => Owed'
    BY <1>1, <2>1, <2>2, <2>3, OutboundOwed, Zenon DEF LocalOwed
  <2>5. QED
    BY <1>1, <1>3, <2>4, QuietPoll
<1>4. CASE d.response = "Disconnect" /\ Connection' /\ Quiet /\ net'.state = "Faulted"
  <2>1. ~Live'
    BY <1>4 DEF Live
  <2>2. QED
    BY <1>1, <1>4, <2>1, QuietPoll
<1>5. CASE /\ d.response \in DOMAIN AnswerPacket
           /\ \E sent \in BOOLEAN :
                Send(Packet(AnswerPacket[d.response], pid, d.rc), Tail(s2c), sent)
  <2>1. d.response = "Release" /\ AnswerPacket[d.response] = "Pubrel"
    BY <1>5 DEF AnswerPacket, LocalSettled
  <2>2. d.rc \in RelCompReasonCode
    BY <1>5 DEF Responds
  <2>3. d.state # Untracked => LocalOwed(d.state, "Pubrel")
    BY <2>1 DEF LocalSettled, LocalOwed
  <2>4. p \in ClientPacket /\ p.pid = pid /\ Flow(p) = "out" /\ p.type = "Pubrel"
    BY <2>2 DEF ClientPacket, Packet, Flow
  <2>5. PICK sent \in BOOLEAN : Send(p, Tail(s2c), sent)
    BY <1>5, <2>1
  <2> HIDE DEF p
  <2>6. QED
    BY <1>1, <2>3, <2>4, <2>5, OutboundSendStep, Zenon
<1>6. QED
  BY <1>2, <1>3, <1>4, <1>5

(* PUBLISH and PUBREL.                                                      *)
LEMMA InboundPollGood ==
    ASSUME OpenInv, Len(c2s) < MaxQueue, Tapped, NEW pid \in PacketIdentifier,
           NEW d, Inbound(pid, d), Responds(d), PeerSettled(d), Delivered(pid, d),
           Applicable(inbound_publishes, PeerEntry, RECEIVE_MAXIMUM, pid, d)
    PROVE  Good
<1> DEFINE p == Packet(AnswerPacket[d.response], pid, d.rc)
<1>1. /\ ~Connecting /\ ~Connecting' /\ Calling' /\ PanicsOnPubcomp
      /\ Tail(s2c) \in Seq(AnyPacket) /\ Len(Tail(s2c)) <= 1
  BY DEF Delivered
<1>2. \/ d.response = "None" /\ Connection' /\ Quiet
      \/ d.response = "Disconnect" /\ Connection' /\ Quiet /\ net'.state = "Faulted"
      \/ d.response \in DOMAIN AnswerPacket /\ \E sent \in BOOLEAN : Send(p, Tail(s2c), sent)
  BY SMTT(30) DEF Delivered
<1>3. CASE d.response = "None" /\ Connection' /\ Quiet
  <2>1. wire' = wire
    BY <1>3, TapQuiet DEF OpenInv, Quiet
  <2>2. d.state # "AwaitRel"
    BY <1>3 DEF PeerSettled
  <2>3. Live' => link /\ net.state = "Ok"
    BY <1>3 DEF Live, Quiet
  <2>4. Live' => Owed'
    BY <1>1, <2>1, <2>2, <2>3, InboundOwed, Zenon DEF PeerOwed
  <2>5. QED
    BY <1>1, <1>3, <2>4, QuietPoll
<1>4. CASE d.response = "Disconnect" /\ Connection' /\ Quiet /\ net'.state = "Faulted"
  <2>1. ~Live'
    BY <1>4 DEF Live
  <2>2. QED
    BY <1>1, <1>4, <2>1, QuietPoll
<1>5. CASE d.response \in DOMAIN AnswerPacket /\ \E sent \in BOOLEAN : Send(p, Tail(s2c), sent)
  <2>1. /\ AnswerPacket[d.response] \in {"Puback", "Pubrec", "Pubcomp"}
        /\ d.state = "AwaitRel" => AnswerPacket[d.response] = "Pubrec"
    <3>1. /\ d.response \in {"Acknowledge", "Receive", "Complete"}
          /\ d.state = "AwaitRel" => d.response = "Receive"
      BY <1>5 DEF AnswerPacket, PeerSettled
    <3>2. QED
      BY <3>1 DEF AnswerPacket
  <2>2. d.rc \in RelCompReasonCode
    BY <1>5 DEF Responds
  <2>3. d.state # Untracked => PeerOwed(d.state, AnswerPacket[d.response])
    BY <2>1 DEF PeerOwed
  <2>4. /\ p \in ClientPacket /\ p.pid = pid /\ Flow(p) = "in"
        /\ p.type = AnswerPacket[d.response]
    BY <2>1, <2>2 DEF ClientPacket, Packet, Flow
  <2>5. PICK sent \in BOOLEAN : Send(p, Tail(s2c), sent)
    BY <1>5
  <2> HIDE DEF p
  <2>6. QED
    BY <1>1, <2>3, <2>4, <2>5, InboundSendStep, Zenon
<1>6. QED
  BY <1>2, <1>3, <1>4, <1>5, SMTT(30)

(* poll.                                                                    *)
LEMMA PollGood ==
    ASSUME OpenInv, Len(c2s) < MaxQueue, Tapped, Poll
    PROVE  Good
<1>0. PICK p : p = Head(s2c)
  OBVIOUS
<1>1. /\ s2c \in Seq(AnyPacket) /\ Connection
      /\ inbound_publishes \in Seq(PeerEntry) /\ outbound_publishes \in Seq(LocalEntry)
  <2>1. s2c \in Seq(AnyPacket) /\ Connection
    BY DEF OpenInv, Connection
  <2>2. QED
    BY <2>1 DEF OpenInv, Inv, TypeOK
<1>2. ASSUME s2c # <<>> PROVE p \in AnyPacket /\ Decodable(p)
  BY <1>0, <1>1, <1>2, HeadDecodable, SMTT(30)
<1>3. ASSUME NEW mode \in AckMode, PollPublish(mode)
      PROVE  Good
  <2> DEFINE d == inbound_publish(inbound_publishes, p.pid, p.qos, mode)
             e == Event(d.event, p.pid, IF d.event = "Publish" THEN mode ELSE d.mode, p.msg)
  <2>1. call = "Idle" /\ Receiving("Publish") /\ Inbound(p.pid, d) /\ Deliver(p, d, e)
    BY <1>0, <1>3 DEF PollPublish, InboundPublish
  <2>2. p.pid \in PacketIdentifier /\ p.qos \in {1, 2}
    BY <1>0, <1>2, <2>1 DEF Receiving, Decodable
  <2>3. Applicable(inbound_publishes, PeerEntry, RECEIVE_MAXIMUM, p.pid, d)
    BY <1>1, <2>2, InboundDecisions, SMTT(30)
  <2>4. Responds(d) /\ PeerSettled(d) /\ HasArm("Publish", d)
    BY <1>1, <2>2, InboundAnswers
  <2>5. e.name = d.event /\ "Publish" \in DOMAIN PollEvents
    BY DEF Event, PollEvents
  <2> HIDE DEF d, e
  <2>6. Delivered(p.pid, d)
    BY <1>0, <2>1, <2>4, <2>5, DeliverEffect, SMTT(30)
  <2>7. QED
    BY <2>1, <2>2, <2>3, <2>4, <2>6, InboundPollGood, SMTT(30)
<1>4. CASE PollPubrel
  <2> DEFINE d == inbound_pubrel(inbound_publishes, p.pid, p.rc)
             e == Event(d.event, p.pid, d.mode, "None")
  <2>1. call = "Idle" /\ Receiving("Pubrel") /\ Inbound(p.pid, d) /\ Deliver(p, d, e)
    BY <1>0, <1>4 DEF PollPubrel, InboundPubrel
  <2>2. p.pid \in PacketIdentifier /\ p.rc \in RelCompReasonCode
    BY <1>0, <1>2, <2>1 DEF Receiving, Decodable
  <2>3. Applicable(inbound_publishes, PeerEntry, RECEIVE_MAXIMUM, p.pid, d)
    BY <1>1, <2>2, InboundDecisions
  <2>4. Responds(d) /\ PeerSettled(d) /\ HasArm("Pubrel", d)
    BY <1>1, <2>2, InboundAnswers, SMTT(30)
  <2>5. e.name = d.event /\ "Pubrel" \in DOMAIN PollEvents
    BY SMTT(30) DEF Event, PollEvents
  <2> HIDE DEF d, e
  <2>6. Delivered(p.pid, d)
    BY <1>0, <2>1, <2>4, <2>5, DeliverEffect, SMTT(30)
  <2>7. QED
    BY <2>1, <2>2, <2>3, <2>4, <2>6, InboundPollGood, SMTT(30)
<1>5. CASE PollPuback
  <2> DEFINE d == inbound_puback(outbound_publishes, p.pid, p.rc)
             e == Event(d.event, p.pid, Automatic, "None")
  <2>1. call = "Idle" /\ Receiving("Puback") /\ Outbound(p.pid, d) /\ Deliver(p, d, e)
    BY <1>0, <1>5 DEF PollPuback, InboundPuback
  <2>2. p.pid \in PacketIdentifier /\ p.rc \in AckRecReasonCode
    BY <1>0, <1>2, <2>1, SMTT(30) DEF Receiving, Decodable
  <2>3. Applicable(outbound_publishes, LocalEntry, SEND_MAXIMUM, p.pid, d)
    BY <1>1, <2>2, OutboundDecisions
  <2>4. Responds(d) /\ LocalSettled(d) /\ HasArm("Puback", d)
    BY <1>1, <2>2, OutboundAnswers
  <2>5. e.name = d.event /\ "Puback" \in DOMAIN PollEvents
    BY DEF Event, PollEvents
  <2> HIDE DEF d, e
  <2>6. Delivered(p.pid, d)
    BY <1>0, <2>1, <2>4, <2>5, DeliverEffect, SMTT(30)
  <2>7. QED
    BY <2>1, <2>2, <2>3, <2>4, <2>6, OutboundPollGood, SMTT(30)
<1>6. CASE PollPubrec
  <2> DEFINE d == inbound_pubrec(outbound_publishes, p.pid, p.rc)
             e == Event(d.event, p.pid, d.mode, "None")
  <2>1. call = "Idle" /\ Receiving("Pubrec") /\ Outbound(p.pid, d) /\ Deliver(p, d, e)
    BY <1>0, <1>6 DEF PollPubrec, InboundPubrec
  <2>2. p.pid \in PacketIdentifier /\ p.rc \in AckRecReasonCode
    BY <1>0, <1>2, <2>1, SMTT(30) DEF Receiving, Decodable
  <2>3. Applicable(outbound_publishes, LocalEntry, SEND_MAXIMUM, p.pid, d)
    BY <1>1, <2>2, OutboundDecisions
  <2>4. Responds(d) /\ LocalSettled(d) /\ HasArm("Pubrec", d)
    BY <1>1, <2>2, OutboundAnswers, SMTT(30)
  <2>5. e.name = d.event /\ "Pubrec" \in DOMAIN PollEvents
    BY DEF Event, PollEvents
  <2> HIDE DEF d, e
  <2>6. Delivered(p.pid, d)
    BY <1>0, <2>1, <2>4, <2>5, DeliverEffect, SMTT(30)
  <2>7. QED
    BY <2>1, <2>2, <2>3, <2>4, <2>6, OutboundPollGood, SMTT(30)
<1>7. CASE PollPubcomp
  <2> DEFINE d == inbound_pubcomp(outbound_publishes, p.pid, p.rc)
             e == Event(d.event, p.pid, Automatic, "None")
  <2>1. call = "Idle" /\ Receiving("Pubcomp") /\ Outbound(p.pid, d) /\ Deliver(p, d, e)
    BY <1>0, <1>7 DEF PollPubcomp, InboundPubcomp
  <2>2. p.pid \in PacketIdentifier /\ p.rc \in RelCompReasonCode
    BY <1>0, <1>2, <2>1 DEF Receiving, Decodable
  <2>3. Applicable(outbound_publishes, LocalEntry, SEND_MAXIMUM, p.pid, d)
    BY <1>1, <2>2, OutboundDecisions
  <2>4. Responds(d) /\ LocalSettled(d) /\ (~is_erroneous(p.rc) => HasArm("Pubcomp", d))
    BY <1>1, <2>2, OutboundAnswers
  <2>5. e.name = d.event /\ "Pubcomp" \in DOMAIN PollEvents
    BY DEF Event, PollEvents
  <2> HIDE DEF d, e
  <2>6. Delivered(p.pid, d)
    BY <1>0, <2>1, <2>4, <2>5, DeliverEffect
  <2>7. QED
    BY <2>1, <2>2, <2>3, <2>4, <2>6, OutboundPollGood, SMTT(30)
<1>8. CASE PollSuback \/ PollUnsuback
  <2>1. /\ call = "Idle" /\ call' = call /\ server_config' = server_config
        /\ s2c # <<>> /\ s2c' = Tail(s2c) /\ UNCHANGED <<net, link, c2s, outages>>
    BY <1>8 DEF PollSuback, PollUnsuback, Receiving
  <2>2. UNCHANGED <<inbound_publishes, outbound_publishes>>
    BY <1>8 DEF PollSuback, PollUnsuback, InboundSuback, InboundUnsuback, sessionVars
  <2>3. Connection' /\ Quiet
    BY <1>1, <2>1, ReadEffect
  <2>4. ~Connecting /\ ~Connecting' /\ Calling' /\ call' # "Panicked"
    BY <2>1 DEF Connecting, Calling, OpenInv
  <2>5. QED
    BY <2>2, <2>3, <2>4, QuietStep, SMTT(30)
<1>9. CASE PollDisconnect \/ ReceiveFails
  <2>1. /\ net' = Terminated /\ DropTransport(c2s)
        /\ call' = "Idle" /\ server_config' = server_config
    BY <1>9 DEF PollDisconnect, ReceiveFails, Close
  <2>2. UNCHANGED <<inbound_publishes, outbound_publishes>>
    BY <1>9 DEF PollDisconnect, ReceiveFails, sessionVars
  <2>3. Connection' /\ Quiet
    BY <1>1, <2>1, CloseEffect
  <2>4. ~Live' /\ ~Connecting' /\ Calling' /\ call' # "Panicked"
    BY <2>1 DEF Live, Connecting, Calling, OpenInv, Terminated
  <2>5. QED
    BY <2>2, <2>3, <2>4, QuietStep
<1>10. CASE PollInvalid \/ PollRefused
  <2>1. PICK rc \in FaultCode, error \in {"Server", "AuthPacketReceived"} : Fault(rc, error)
    <3>1. CASE PollInvalid
      <4>1. Receiving("Invalid") /\ Fault(p.rc, "Server")
        BY <1>0, <3>1 DEF PollInvalid
      <4>2. p.rc \in FaultCode
        BY <1>0, <1>2, <4>1 DEF Receiving, AnyPacket, PublishPacket, Packet, FaultCode
      <4>3. QED
        BY <4>1, <4>2
    <3>2. CASE PollRefused
      BY <3>2 DEF PollRefused, FaultCode
    <3>3. QED
      BY <1>10, <3>1, <3>2
  <2>2. /\ call = "Idle" /\ call' = call /\ server_config' = server_config
        /\ net.state = "Ok" /\ s2c # <<>>
    BY <1>10 DEF PollInvalid, PollRefused, Receiving
  <2>3. UNCHANGED <<inbound_publishes, outbound_publishes>>
    BY <1>10 DEF PollInvalid, PollRefused, sessionVars
  <2>4. Connection' /\ Quiet
    BY <1>1, <2>1, <2>2, FaultEffect
  <2>5. ~Connecting /\ ~Connecting' /\ Calling' /\ call' # "Panicked"
    BY <2>2 DEF Connecting, Calling, OpenInv
  <2>6. QED
    BY <2>3, <2>4, <2>5, QuietStep
<1>11. QED
  BY <1>3, <1>4, <1>5, <1>6, <1>7, <1>8, <1>9, <1>10, SMTT(30) DEF Poll

(* rerelease.                                                               *)
LEMMA RereleaseGood ==
    ASSUME OpenInv, Len(c2s) < MaxQueue, Tapped, Rerelease
    PROVE  Good
<1>1. Connection /\ outbound_publishes \in Seq(LocalEntry)
  BY DEF OpenInv, Inv, TypeOK
<1>2. CASE StartRerelease
  <2>1. /\ call = "Idle" /\ call' = "Rerelease" /\ server_config' = server_config
        /\ UNCHANGED <<net, link, c2s, s2c, outages>>
        /\ UNCHANGED <<inbound_publishes, outbound_publishes>>
    BY <1>2 DEF StartRerelease, transportVars, sessionVars
  <2>2. Connection' /\ Quiet
    BY <1>1, <2>1, ReadEffect
  <2>3. ~Connecting /\ ~Connecting' /\ Calling' /\ call' # "Panicked"
    BY <2>1 DEF Connecting, Calling, OpenInv
  <2>4. QED
    BY <2>1, <2>2, <2>3, QuietStep
<1>3. CASE FinishRerelease
  <2>1. /\ call = "Rerelease" /\ call' = "Idle" /\ server_config' = server_config
        /\ UNCHANGED <<inbound_publishes, outbound_publishes>>
        /\ \/ UNCHANGED <<net, link, c2s, s2c, outages>>
           \/ net' = Terminated /\ DropTransport(c2s)
    BY <1>3 DEF FinishRerelease, transportVars, sessionVars, Close
  <2>2. Connection' /\ Quiet
    BY <1>1, <2>1, ReadEffect, CloseEffect
  <2>3. ~Connecting /\ ~Connecting' /\ Calling' /\ call' # "Panicked"
    BY <2>1 DEF Connecting, Calling, OpenInv
  <2>4. QED
    BY <2>1, <2>2, <2>3, QuietStep
<1>4. CASE ReleaseNext
  <2>1. PICK i \in DueRelease :
          /\ OutboundPubrel(outbound_publishes[i].pid)
          /\ \E sent \in BOOLEAN :
               /\ Send(Packet("Pubrel", outbound_publishes[i].pid, "Success"), s2c, sent)
               /\ call' = IF sent THEN "Rerelease" ELSE "Idle"
    BY <1>4 DEF ReleaseNext
  <2> DEFINE pid == outbound_publishes[i].pid
             d == outbound_pubrel(outbound_publishes, pid)
             p == Packet("Pubrel", pid, "Success")
  <2>2. /\ i \in DOMAIN outbound_publishes /\ outbound_publishes[i] \in LocalEntry
        /\ outbound_publishes[i].state = "DueRel"
    BY <1>1, LenProperties, ElementOfSeq DEF DueRelease
  <2>3. pid \in PacketIdentifier
    BY <2>2 DEF LocalEntry
  <2>4. d.state = "AwaitComp"
    <3>1. Entry(outbound_publishes, pid) = outbound_publishes[i] /\ pid \in Pids(outbound_publishes)
      BY <1>1, <2>2, UniqueEntry, SMTT(30) DEF OpenInv, Inv, UniqueIdentifiers, Pids
    <3>2. QED
      BY <2>2, <3>1, SMTT(30) DEF outbound_pubrel, h_outbound_pubrel, Ok, Outcome, LocalQoS1, LocalQoS2
  <2>5. Outbound(pid, d) /\ Applicable(outbound_publishes, LocalEntry, SEND_MAXIMUM, pid, d)
    BY <1>1, <2>1, <2>3, OutboundDecisions DEF OutboundPubrel
  <2>6. p \in ClientPacket /\ p.pid = pid /\ Flow(p) = "out" /\ p.type = "Pubrel"
    BY <2>3 DEF ClientPacket, Packet, Flow, AckRecReasonCode
  <2>7. PICK sent \in BOOLEAN : Send(p, s2c, sent) /\ call' \in {"Rerelease", "Idle"}
    BY <2>1
  <2> HIDE DEF pid, d, p
  <2>8. LocalOwed(d.state, p.type)
    BY <2>4, <2>6 DEF LocalOwed
  <2>9. /\ ~Connecting /\ ~Connecting' /\ Calling' /\ PanicsOnPubcomp
        /\ s2c \in Seq(AnyPacket) /\ Len(s2c) <= 1
    BY <1>1, <1>4, <2>7, Zenon DEF ReleaseNext, Connecting, Calling, OpenInv, PanicsOnPubcomp, Connection
  <2>10. QED
    BY <2>3, <2>5, <2>6, <2>7, <2>8, <2>9, OutboundSendStep, Zenon
<1>5. QED
  BY <1>2, <1>3, <1>4 DEF Rerelease

(* connect, from the CONNACK on.                                            *)
LEMMA ConnackGood ==
    ASSUME OpenInv, Tapped, Connack
    PROVE  Good
<1>1. Connection
  BY DEF OpenInv
<1>2. CASE ConnackAccepted
  <2> DEFINE p == Head(s2c)
  <2>1. /\ Connecting /\ net.state = "Ok" /\ s2c # <<>> /\ p.type = "Connack"
        /\ call' = "Idle" /\ s2c' = Tail(s2c) /\ UNCHANGED <<net, link, c2s, outages>>
    BY <1>2, Zenon DEF ConnackAccepted, Receiving
  <2>2. Connection' /\ Quiet
    BY <1>1, <2>1, ReadEffect
  <2>3. wire' = NoWire /\ wire' = wire
    BY <2>1, <2>2, TapQuiet DEF OpenInv, Quiet
  <2>4. Calling'
    <3>1. p \in AnyPacket
      BY <1>1, <2>1, HeadDecodable, SMTT(30) DEF Connection
    <3>2. p.receive_maximum \in ReceiveMaxima /\ p.limited \in Limits
      BY <2>1, <3>1, SMTT(30) DEF AnyPacket, PublishPacket, Packet
    <3>3. server_config' =
            [receive_maximum |-> IF p.receive_maximum = 0 THEN server_config.receive_maximum
                                   ELSE p.receive_maximum,
             limited |-> p.limited \/ server_config.limited]
      BY <1>2 DEF ConnackAccepted
    <3>4. (IF p.receive_maximum = 0 THEN server_config.receive_maximum
             ELSE p.receive_maximum) \in 1..PidMax
      <4>1. p.receive_maximum \in 0..PidMax
        BY <3>2, OpenAssumption, Zenon
      <4>2. server_config.receive_maximum \in 1..PidMax
        BY DEF OpenInv, Calling
      <4>3. QED
        BY <4>1, <4>2, PidMaxAssumption
    <3>5. (p.limited \/ server_config.limited) \in BOOLEAN
      BY Zenon
    <3>6. QED
      BY <2>1, <3>3, <3>4, <3>5, Zenon DEF Calling
  <2>5. Owed'
    <3>1. CASE Reconnect
      BY <2>3, <3>1, ResumedOwes DEF Reconnect, OpenInv, Owed
    <3>2. CASE Clear
      BY <3>2 DEF Clear, Owed, LocalOwes, PeerOwes, Pids
    <3>3. QED
      BY <1>2, <3>1, <3>2 DEF ConnackAccepted
  <2>6. Wired' /\ ~Connecting'
    BY <2>1, <2>3 DEF Connecting, OpenInv, Wired
  <2>7. QED
    BY <2>1, <2>2, <2>4, <2>5, <2>6, Zenon DEF Good, Quiet, Unresent, PanicsOnPubcomp
<1>3. CASE ConnackRejected
  <2>1. /\ net' = Terminated /\ DropTransport(c2s)
        /\ call' = "Idle" /\ server_config' = server_config
        /\ UNCHANGED <<inbound_publishes, outbound_publishes>>
    BY <1>3 DEF ConnackRejected, Close, sessionVars
  <2>2. Connection' /\ Quiet
    BY <1>1, <2>1, CloseEffect
  <2>3. ~Live' /\ ~Connecting' /\ Calling' /\ call' # "Panicked"
    BY <2>1 DEF Live, Connecting, Calling, OpenInv, Terminated
  <2>4. QED
    BY <2>1, <2>2, <2>3, QuietStep
<1>4. CASE ConnackRefused
  <2>1. /\ net.state = "Ok" /\ s2c # <<>>
        /\ call' = "Idle" /\ server_config' = server_config
        /\ UNCHANGED <<inbound_publishes, outbound_publishes>>
    BY <1>4 DEF ConnackRefused, sessionVars
  <2>2. PICK rc \in FaultCode : Fault(rc, "Server")
    BY <1>4 DEF ConnackRefused, FaultCode
  <2>3. Connection' /\ Quiet /\ net'.state = "Faulted"
    BY <1>1, <2>1, <2>2, FaultEffect
  <2>4. ~Live' /\ ~Connecting' /\ Calling' /\ call' # "Panicked"
    BY <2>1, <2>3 DEF Live, Connecting, Calling, OpenInv
  <2>5. QED
    BY <2>1, <2>3, <2>4, QuietStep
<1>5. QED
  BY <1>2, <1>3, <1>4 DEF Connack

(* connect, up to the CONNECT packet.                                       *)
LEMMA ConnectGood ==
    ASSUME OpenInv, NEW clean_start \in BOOLEAN, Connect(clean_start), wire' = NoWire
    PROVE  Good
<1>1. Connection' /\ FaultedIsSilent /\ \A x \in Sent : x.type = "Connect"
  BY ConnectEffect DEF OpenInv
<1>2. /\ call' \in {"ConnectClean", "ConnectResume"} /\ server_config' = server_config
      /\ net' = NetOk
  BY DEF Connect
<1>3. Connecting' /\ ~Live' /\ Calling' /\ net'.state = "Ok"
  BY <1>2 DEF Connecting, Live, Calling, OpenInv, NetOk
<1>4. Wired' /\ NoWire' = NoWire
  BY DEF Wired, NoWire, PacketIdentifier
<1>5. Unresent /\ PanicsOnPubcomp
  BY <1>1, <1>2 DEF Unresent, PanicsOnPubcomp
<1>6. QED
  BY <1>1, <1>3, <1>4, <1>5 DEF Good

(* abort and disconnect.                                                    *)
LEMMA HangUpGood ==
    ASSUME OpenInv, Len(c2s) < MaxQueue, Tapped, Abort \/ Disconnect
    PROVE  Good
<1>1. Connection
  BY DEF OpenInv
<1>2. /\ call = "Idle" /\ call' = call /\ server_config' = server_config
      /\ net' = Terminated
      /\ UNCHANGED <<inbound_publishes, outbound_publishes>>
  BY DEF Abort, Disconnect, sessionVars
<1>3. PICK rc \in {"Success"} \cup FaultCode :
        /\ net.state = "Faulted" => rc = net.rc
        /\ DropTransport(Written(c2s, Packet("Disconnect", 0, rc)))
  <2>1. CASE Disconnect
    BY <2>1 DEF Disconnect
  <2>2. CASE Abort
    <3>1. net.rc \in FaultCode
      BY <1>1, <2>2 DEF Abort, Connection, NetOk, Terminated, Faulted
    <3>2. QED
      BY <2>2, <3>1, Zenon DEF Abort
  <2>3. QED
    BY <2>1, <2>2
<1>4. net # Terminated
  BY DEF Abort, Disconnect, Terminated
<1>5. Connection' /\ Quiet
  BY <1>1, <1>2, <1>3, <1>4, HangUpEffect
<1>6. ~Connecting /\ ~Connecting' /\ Calling' /\ call' # "Panicked"
  BY <1>2 DEF Connecting, Calling, OpenInv
<1>7. QED
  BY <1>2, <1>5, <1>6, QuietStep

(* The client is replaced; the server and the network take a step.          *)
LEMMA OtherGood ==
    ASSUME OpenInv, wire' = wire, Restart \/ ServerSends \/ ServerReads \/ ConnectionLost
    PROVE  Good
<1>1. Connection /\ UNCHANGED <<inbound_publishes, outbound_publishes>>
  BY DEF OpenInv, Restart, ServerSends, ServerReads, ConnectionLost, sessionVars
<1>2. CASE Restart
  <2>1. /\ net' = Terminated /\ DropTransport(c2s)
        /\ call' = "Idle" /\ server_config' = DefaultConfig
    BY <1>2 DEF Restart
  <2>2. Connection' /\ Quiet
    BY <1>1, <2>1, CloseEffect
  <2>3. ~Live' /\ ~Connecting' /\ Calling' /\ call' # "Panicked"
    BY <2>1, PidMaxAssumption DEF Live, Connecting, Calling, DefaultConfig, Terminated
  <2>4. QED
    BY <1>1, <2>2, <2>3, QuietStep
<1>3. CASE ServerSends \/ ServerReads \/ ConnectionLost
  <2>1. Connection' /\ Quiet
    BY <1>1, <1>3, EnvironmentEffect
  <2>2. UNCHANGED <<net, server_config, call>>
    BY <1>3 DEF ServerSends, ServerReads, ConnectionLost
  <2>3. /\ Connecting' = Connecting /\ Calling' /\ (Live' => ~Connecting)
        /\ call' # "Panicked" \/ call = "Panicked"
    BY <2>2 DEF Connecting, Live, Calling, OpenInv
  <2>4. QED
    BY <1>1, <2>1, <2>2, <2>3, QuietStep
<1>4. QED
  BY <1>2, <1>3

-----------------------------------------------------------------------------
(* The calls of the user.                                                   *)
LEMMA CallsGood ==
    ASSUME OpenInv, Len(c2s) < MaxQueue, Tapped, Calls
    PROVE  Good
<1>1. ASSUME NEW pid \in PacketIdentifier, NEW fits \in BOOLEAN,
             NEW t \in {"Subscribe", "Unsubscribe"}, Request(t, pid, fits)
      PROVE  Good
  BY <1>1, RequestGood
<1>2. ASSUME NEW pid \in PacketIdentifier,
             \/ \E qos \in {1, 2}, mode \in AckMode : Publish(pid, qos, mode, "msg")
             \/ \E qos \in {1, 2} : Republish(pid, qos, "msg")
             \/ manual_release(pid)
      PROVE  Good
  BY <1>2, OutboundCallGood
<1>3. ASSUME NEW pid \in PacketIdentifier, NEW rc \in AckRecReasonCode,
             manual_acknowledge(pid, rc) \/ manual_receive(pid, rc) \/ manual_complete(pid)
      PROVE  Good
  BY <1>3, InboundCallGood
<1>4. "Success" \in AckRecReasonCode
  BY DEF AckRecReasonCode
<1>5. CASE Rerelease
  BY <1>5, RereleaseGood
<1>6. QED
  BY <1>1, <1>2, <1>3, <1>4, <1>5, SMTT(30) DEF Calls

(* Every step is good.                                                      *)
LEMMA StepGood ==
    ASSUME OpenInv, OpenNext
    PROVE  Good
<1>1. ASSUME NEW clean_start \in BOOLEAN, Connect(clean_start), wire' = NoWire PROVE Good
  BY <1>1, ConnectGood
<1>2. CASE Len(c2s) < MaxQueue /\ Tapped /\ Calls
  BY <1>2, CallsGood
<1>3. CASE Len(c2s) < MaxQueue /\ Tapped /\ Poll
  BY <1>3, PollGood
<1>4. CASE Len(c2s) < MaxQueue /\ Tapped /\ Connack
  BY <1>4, ConnackGood
<1>5. CASE Len(c2s) < MaxQueue /\ Tapped /\ (Abort \/ Disconnect)
  BY <1>5, HangUpGood, SMTT(30)
<1>6. CASE (Restart /\ wire' = wire) \/ ServerSends \/ ServerReads \/ ConnectionLost
  BY <1>6, OtherGood, SMTT(30) DEF ServerSends, ServerReads, ConnectionLost
<1>7. QED
  BY <1>1, <1>2, <1>3, <1>4, <1>5, <1>6, SMTT(30) DEF OpenNext

(* The invariant says what the properties of AnyServer say.                 *)
LEMMA OpenInvTyped == OpenInv => OpenTypeOK
<1>1. SUFFICES ASSUME OpenInv PROVE OpenTypeOK
  OBVIOUS
<1>2. TypeOK /\ Connection /\ Calling /\ Wired /\ (Connecting => net.state = "Ok")
  BY <1>1 DEF OpenInv, Inv
<1>3. /\ net \in {NetOk, Terminated} \cup {Faulted(rc) : rc \in FaultCode}
      /\ net = Terminated => ~link
      /\ outages \in 0..MaxOutages
      /\ c2s \in Seq(ClientPacket) /\ Len(c2s) <= MaxQueue
      /\ s2c \in Seq(AnyPacket) /\ Len(s2c) <= 1
  BY <1>2 DEF Connection
<1>4. net.state # "Ok" => ~Connecting
  BY <1>2
<1>5. QED
  BY <1>2, <1>3, <1>4, SMTT(30) DEF OpenTypeOK, Calling, Wired

(* An entry's position and its identifier name the same entry.              *)
LEMMA OpenInvOwed == OpenInv => AwaitedAnswersAreOwed
<1>1. SUFFICES ASSUME OpenInv, Live PROVE AwaitedAnswersAreOwed
  BY DEF AwaitedAnswersAreOwed, Live
<1>2. Owed /\ Unique(outbound_publishes) /\ Unique(inbound_publishes)
  BY <1>1 DEF OpenInv, Inv, UniqueIdentifiers
<1>3. ASSUME NEW i \in DOMAIN outbound_publishes
      PROVE  LocalOwed(outbound_publishes[i].state, wire[<<"out", outbound_publishes[i].pid>>])
  <2>1. /\ outbound_publishes[i].pid \in Pids(outbound_publishes)
        /\ Entry(outbound_publishes, outbound_publishes[i].pid) = outbound_publishes[i]
    BY <1>2, UniqueEntry, SMTT(30) DEF Pids
  <2>2. QED
    BY <1>2, <2>1 DEF Owed, LocalOwes
<1>4. ASSUME NEW i \in DOMAIN inbound_publishes
      PROVE  PeerOwed(inbound_publishes[i].state, wire[<<"in", inbound_publishes[i].pid>>])
  <2>1. /\ inbound_publishes[i].pid \in Pids(inbound_publishes)
        /\ Entry(inbound_publishes, inbound_publishes[i].pid) = inbound_publishes[i]
    BY <1>2, UniqueEntry DEF Pids
  <2>2. QED
    BY <1>2, <2>1 DEF Owed, PeerOwes
<1>5. QED
  BY <1>3, <1>4, SMTT(30) DEF AwaitedAnswersAreOwed, LocalOwed, PeerOwed

(* The invariant holds before any connection.                               *)
LEMMA OpenInvInit == OpenInit => OpenInv
<1>1. SUFFICES ASSUME OpenInit PROVE OpenInv
  OBVIOUS
<1>2. Inv
  <2>1. Init
    BY <1>1 DEF OpenInit, ClientInit
  <2>2. QED
    BY <2>1, EmptyLists, CapacityAssumption, PidMaxAssumption, SMTT(30)
       DEF Init, Inv, TypeOK, UniqueIdentifiers
<1>3. Connection
  <2>1. net = Terminated /\ link = FALSE /\ c2s = <<>> /\ s2c = <<>> /\ outages = 0
    BY <1>1 DEF OpenInit, ClientInit, TransportInit
  <2>2. /\ c2s \in Seq(ClientPacket) /\ Len(c2s) = 0
        /\ s2c \in Seq(AnyPacket) /\ Len(s2c) = 0
    BY <2>1, EmptySeq
  <2>3. QED
    BY <2>1, <2>2, OpenAssumption, MaxOutagesAssumption DEF Connection
<1>4. Calling /\ ~Connecting /\ ~Live
  BY <1>1, PidMaxAssumption DEF OpenInit, ClientInit, Calling, Connecting, Live, DefaultConfig,
     Terminated
<1>5. Wired
  BY <1>1 DEF OpenInit, Wired, NoWire
<1>6. QED
  BY <1>2, <1>3, <1>4, <1>5 DEF OpenInv

(* Every step preserves the invariant.                                      *)
LEMMA OpenInvStep ==
    ASSUME OpenInv, [OpenNext]_openVars
    PROVE  OpenInv'
<1>1. Inv'
  <2>1. OpenTypeOK
    BY OpenInvTyped
  <2>2. [Next]_vars
    BY <2>1, StepDrivesSession
  <2>3. QED
    BY <2>2, NextPreservesInv DEF OpenInv
<1>2. CASE OpenNext
  BY <1>1, <1>2, StepGood DEF OpenInv, Good
<1>3. CASE UNCHANGED openVars
  <2>1. /\ UNCHANGED <<net, server_config, call, link, c2s, s2c, outages, wire>>
        /\ UNCHANGED <<inbound_publishes, outbound_publishes>>
    BY <1>3, SMTT(30) DEF openVars, clientVars, transportVars
  <2>2. Connection' /\ Calling' /\ Wired'
    BY <2>1, SMTT(30) DEF OpenInv, Connection, Calling, Wired
  <2>3. Connecting' = Connecting /\ Live' = Live /\ Owed' = Owed /\ NoWire' = NoWire
    BY <2>1 DEF Connecting, Live, Owed, NoWire, PacketIdentifier
  <2>4. QED
    BY <1>1, <2>1, <2>2, <2>3, SMTT(30) DEF OpenInv
<1>4. QED
  BY <1>2, <1>3

(* The invariant holds at every moment, for every number of identifiers,    *)
(* every capacity, every length of the queue and every receive maximum.     *)
THEOREM OpenInvariance == OpenSpec => []OpenInv
<1>1. OpenInit => OpenInv
  BY OpenInvInit
<1>2. OpenInv /\ [OpenNext]_openVars => OpenInv'
  BY OpenInvStep
<1>3. QED
  BY <1>1, <1>2, PTL DEF OpenSpec

(* Whatever the server sends and the user calls, the state of the client is *)
(* well formed, and a connection whose CONNACK is awaited is up for all the *)
(* client knows.                                                            *)
THEOREM OpenTypeCorrect == OpenSpec => []OpenTypeOK
  BY OpenInvariance, OpenInvTyped, PTL

(* On an established connection no entry waits for an answer to a packet    *)
(* that was not sent on that connection.                                    *)
THEOREM WaitingIsNotInVain == OpenSpec => []AwaitedAnswersAreOwed
  BY OpenInvariance, OpenInvOwed, PTL

(* After a fault nothing but the DISCONNECT of abort is sent, and nothing   *)
(* follows a DISCONNECT.                                                    *)
THEOREM FaultedClientIsSilent == OpenSpec => FaultedSendsOnlyDisconnect
<1> DEFINE Step == /\ net.state = "Faulted" /\ net'.state # "Ok" /\ Len(c2s') > Len(c2s) =>
                        c2s'[Len(c2s')] = Packet("Disconnect", 0, net.rc)
                   /\ \A i \in 1..Len(c2s') - 1 : c2s'[i].type # "Disconnect"
<1>1. OpenInv /\ OpenInv' /\ [OpenNext]_openVars => [Step]_openVars
  BY StepGood, Zenon DEF Good, FaultedIsSilent, OpenInv, Connection
<1>2. QED
  BY <1>1, OpenInvariance, PTL DEF OpenSpec, FaultedSendsOnlyDisconnect

(* republish resends a PUBLISH only on a connection on which neither it nor *)
(* its PUBREL has been sent.                                                *)
THEOREM ResendsAreFresh == OpenSpec => NoResendOnSameConnection
<1> DEFINE Step == \A p \in Sent : p.type = "Publish" /\ p.dup => wire[<<"out", p.pid>>] = "None"
<1>1. OpenInv /\ [OpenNext]_openVars => [Step]_openVars
  BY StepGood DEF Good, Unresent
<1>2. QED
  BY <1>1, OpenInvariance, PTL DEF OpenSpec, NoResendOnSameConnection

(* Every unreachable!() of poll_body is unreachable but for an erroneous    *)
(* PUBCOMP.                                                                 *)
THEOREM OnlyPubcompArmPanics == OpenSpec => OnlyPubcompPanics
<1> DEFINE Step == call' = "Panicked" /\ call # "Panicked" =>
                     Head(s2c).type = "Pubcomp" /\ is_erroneous(Head(s2c).rc)
<1>1. OpenInv /\ [OpenNext]_openVars => [Step]_openVars
  BY StepGood DEF Good, PanicsOnPubcomp
<1>2. QED
  BY <1>1, OpenInvariance, PTL DEF OpenSpec, OnlyPubcompPanics

(* The client implements Session: every theorem of SessionProofs holds of   *)
(* the session inside the client.                                           *)
THEOREM ClientDrivesSession == OpenSpec => DrivesSession
<1>1. OpenInit => Init
  BY DEF OpenInit, ClientInit
<1>2. OpenTypeOK /\ [OpenNext]_openVars => [Next]_vars
  BY StepDrivesSession
<1>3. QED
  BY <1>1, <1>2, OpenTypeCorrect, PTL DEF OpenSpec, DrivesSession, Spec

(* The session of a client in front of any server implements Handshakes.    *)
THEOREM ClientImplementsHandshakes == OpenSpec => ImplementsHandshakes
  BY ClientDrivesSession, Refinement DEF DrivesSession
===============================================================================
