----------------------------- MODULE ClientProofs -----------------------------
(* What the steps of the client do to its session, and what they answer,    *)
(* for every server and every user.                                         *)
EXTENDS Client, SessionProofs

(* The next packet to read, if any, is one the decoder can produce: a       *)
(* non-zero identifier, and a reason code its packet type allows.           *)
Decodable(p) ==
    /\ p.type = "Publish" => p.pid \in PacketIdentifier /\ p.qos \in {1, 2}
    /\ p.type \in {"Puback", "Pubrec"} => p.pid \in PacketIdentifier /\ p.rc \in AckRecReasonCode
    /\ p.type \in {"Pubrel", "Pubcomp"} => p.pid \in PacketIdentifier /\ p.rc \in RelCompReasonCode
    /\ p.type \in {"Suback", "Unsuback"} => p.pid \in PacketIdentifier

(* Each call of the user performs one operation of the session.             *)
LEMMA CallsDriveSession ==
    ASSUME NEW pid \in PacketIdentifier, NEW qos \in {1, 2}, NEW mode \in AckMode,
           NEW rc \in AckRecReasonCode, NEW msg, NEW type, NEW fits,
           \/ Request(type, pid, fits)
           \/ Publish(pid, qos, mode, msg)
           \/ Republish(pid, qos, msg)
           \/ manual_acknowledge(pid, rc)
           \/ manual_receive(pid, rc)
           \/ manual_release(pid)
           \/ manual_complete(pid)
    PROVE  Next
<1>1. CASE Request(type, pid, fits)
  BY <1>1 DEF Request, Next
<1>2. CASE Publish(pid, qos, mode, msg)
  BY <1>2 DEF Publish, Next
<1>3. CASE Republish(pid, qos, msg)
  BY <1>3 DEF Republish, Next
<1>4. CASE manual_acknowledge(pid, rc)
  BY <1>4 DEF manual_acknowledge, Next
<1>5. CASE manual_receive(pid, rc)
  BY <1>5 DEF manual_receive, Next
<1>6. CASE manual_release(pid)
  BY <1>6 DEF manual_release, Next
<1>7. CASE manual_complete(pid)
  BY <1>7 DEF manual_complete, Next
<1>8. QED
  BY <1>1, <1>2, <1>3, <1>4, <1>5, <1>6, <1>7, SMTT(30)

(* rerelease performs one operation of the session per packet.              *)
LEMMA RereleaseDrivesSession ==
    ASSUME TypeOK, Rerelease
    PROVE  Next \/ UNCHANGED vars
<1>1. CASE StartRerelease \/ FinishRerelease
  BY <1>1 DEF StartRerelease, FinishRerelease, sessionVars, vars
<1>2. CASE ReleaseNext
  <2>1. PICK i \in DueRelease : OutboundPubrel(outbound_publishes[i].pid)
    BY <1>2 DEF ReleaseNext
  <2>2. outbound_publishes[i].pid \in PacketIdentifier
    BY ElementOfSeq, LenProperties DEF TypeOK, DueRelease, LocalEntry
  <2>3. QED
    BY <2>1, <2>2 DEF Next
<1>3. QED
  BY <1>1, <1>2 DEF Rerelease

(* poll performs at most one operation of the session per packet.           *)
LEMMA PollDrivesSession ==
    ASSUME s2c # <<>> => Decodable(Head(s2c)), Poll
    PROVE  Next \/ UNCHANGED vars
<1>1. ASSUME NEW mode \in AckMode, PollPublish(mode)
      PROVE  Next
  BY <1>1 DEF PollPublish, Receiving, Decodable, Next
<1>2. CASE PollPuback
  BY <1>2 DEF PollPuback, Receiving, Decodable, Next
<1>3. CASE PollPubrec
  BY <1>3 DEF PollPubrec, Receiving, Decodable, Next
<1>4. CASE PollPubrel
  BY <1>4 DEF PollPubrel, Receiving, Decodable, Next
<1>5. CASE PollPubcomp
  BY <1>5 DEF PollPubcomp, Receiving, Decodable, Next
<1>6. CASE PollSuback
  BY <1>6 DEF PollSuback, Receiving, Decodable, Next, sessionVars, vars
<1>7. CASE PollUnsuback
  BY <1>7 DEF PollUnsuback, Receiving, Decodable, Next, sessionVars, vars
<1>8. CASE PollDisconnect \/ PollInvalid \/ PollRefused \/ ReceiveFails
  BY <1>8 DEF PollDisconnect, PollInvalid, PollRefused, ReceiveFails, sessionVars, vars
<1>9. QED
  BY <1>1, <1>2, <1>3, <1>4, <1>5, <1>6, <1>7, <1>8 DEF Poll

(* connect resumes or clears the session, once, or leaves it alone.         *)
LEMMA ConnectDrivesSession ==
    ASSUME NEW clean_start,
           Connect(clean_start) \/ Connack \/ Abort \/ Disconnect \/ Restart
    PROVE  Next \/ UNCHANGED vars
<1>1. CASE ConnackAccepted
  BY <1>1 DEF ConnackAccepted, Next
<1>2. CASE ConnackRejected \/ ConnackRefused
  BY <1>2 DEF ConnackRejected, ConnackRefused, sessionVars, vars
<1>3. CASE Connect(clean_start)
  BY <1>3 DEF Connect, sessionVars, vars
<1>4. CASE Abort \/ Disconnect \/ Restart
  BY <1>4, SMTT(30) DEF Abort, Disconnect, Restart, sessionVars, vars
<1>5. QED
  BY <1>1, <1>2, <1>3, <1>4 DEF Connack

-----------------------------------------------------------------------------
(* What poll does with the decision d on a packet of this type is defined:  *)
(* a known response with a reason code its packet may carry, and an event   *)
(* that the arm of poll_body has a place for.                               *)
Responds(d) ==
    /\ d.response \in {"None", "Disconnect"} \cup DOMAIN AnswerPacket
    /\ d.response = "Disconnect" => d.rc \in {"ProtocolError", "QuotaExceeded"}
    /\ d.response \in DOMAIN AnswerPacket => d.rc \in RelCompReasonCode

HasArm(type, d) == d.response # "Disconnect" => d.event \in PollEvents[type]

(* A decision on a packet of the server leaves an entry waiting only for    *)
(* the answer to the packet it responds with.                               *)
LocalSettled(d) ==
    d.response # "Disconnect" =>
      \/ d.state \in {Untracked, "DueRel"} /\ d.response \in {"None", "Release"}
      \/ d.state = "AwaitComp" /\ d.response = "Release"

PeerSettled(d) ==
    d.response # "Disconnect" =>
      /\ d.response # "Release"
      /\ d.state = "AwaitRel" => d.response = "Receive"

(* poll on a PUBACK, PUBREC or PUBCOMP.  The arm for PUBCOMP has no place   *)
(* for the Rejected of an erroneous one.                                    *)
LEMMA OutboundAnswers ==
    ASSUME NEW s \in Seq(LocalEntry), NEW pid \in PacketIdentifier
    PROVE  /\ \A rc \in AckRecReasonCode :
                LET d == inbound_puback(s, pid, rc)
                IN  Responds(d) /\ LocalSettled(d) /\ HasArm("Puback", d)
           /\ \A rc \in AckRecReasonCode :
                LET d == inbound_pubrec(s, pid, rc)
                IN  Responds(d) /\ LocalSettled(d) /\ HasArm("Pubrec", d)
           /\ \A rc \in RelCompReasonCode :
                LET d == inbound_pubcomp(s, pid, rc)
                IN  /\ Responds(d) /\ LocalSettled(d)
                    /\ ~is_erroneous(rc) => HasArm("Pubcomp", d)
<1> USE DEF Responds, LocalSettled, HasArm, PollEvents, AnswerPacket, RelCompReasonCode, Outcome,
            Unknown, Nop, Removed, ProtocolError, NoCode, Untracked
<1>1. CASE pid \in Pids(s)
  <2>1. PICK e \in LocalEntry : e = Entry(s, pid)
    BY <1>1, EntryProperties
  <2> USE DEF LocalEntry, LocalPublishState, LocalQoS1, LocalQoS2, AckMode, Automatic, Manual
  <2>2. \A rc \in AckRecReasonCode :
          LET d == inbound_puback(s, pid, rc)
          IN  Responds(d) /\ LocalSettled(d) /\ HasArm("Puback", d)
    BY <1>1, <2>1 DEF inbound_puback, h_inbound_puback
  <2>3. \A rc \in AckRecReasonCode :
          LET d == inbound_pubrec(s, pid, rc)
          IN  Responds(d) /\ LocalSettled(d) /\ HasArm("Pubrec", d)
    <3>1. ASSUME NEW rc \in AckRecReasonCode
          PROVE  LET d == h_inbound_pubrec(e, rc)
                 IN  Responds(d) /\ LocalSettled(d) /\ HasArm("Pubrec", d)
      <4>1. CASE e.state \in LocalQoS1
        <5>1. h_inbound_pubrec(e, rc) = ProtocolError(e)
          BY <4>1 DEF h_inbound_pubrec
        <5>2. QED
          BY <5>1
      <4>2. CASE e.state \in LocalQoS2 \ {"AwaitComp"}
        <5>1. h_inbound_pubrec(e, rc) \in
                {Removed(e, "None", NoCode, "Rejected"),
                 Outcome("AwaitComp", Automatic, "Release", "Success", "Received"),
                 Outcome("DueRel", Manual, "None", NoCode, "Received"),
                 Outcome("AwaitComp", Automatic, "Release", "Success", "Ignored"),
                 Outcome("DueRel", e.mode, "None", NoCode, "Ignored")}
          BY <4>2 DEF h_inbound_pubrec
        <5>2. QED
          BY <5>1
      <4>3. CASE e.state = "AwaitComp"
        <5>1. h_inbound_pubrec(e, rc) = Nop(e, "Release", "Success", "Ignored")
          BY <4>3 DEF h_inbound_pubrec
        <5>2. QED
          BY <4>3, <5>1
      <4>4. QED
        BY <4>1, <4>2, <4>3
    <3>2. \A rc : inbound_pubrec(s, pid, rc) = h_inbound_pubrec(e, rc)
      BY <1>1, <2>1 DEF inbound_pubrec
    <3> HIDE DEF Responds, LocalSettled, HasArm
    <3>3. QED
      BY <3>1, <3>2, SMTT(30)
  <2>4. \A rc \in RelCompReasonCode :
          LET d == inbound_pubcomp(s, pid, rc)
          IN  /\ Responds(d) /\ LocalSettled(d)
              /\ ~is_erroneous(rc) => HasArm("Pubcomp", d)
    BY <1>1, <2>1, SMTT(30) DEF inbound_pubcomp, h_inbound_pubcomp
  <2>5. QED
    BY <2>2, <2>3, <2>4, Zenon
<1>2. CASE pid \notin Pids(s)
  BY <1>2, Zenon DEF inbound_puback, inbound_pubrec, inbound_pubcomp
<1>3. QED
  BY <1>1, <1>2, Zenon

(* poll on a PUBLISH or a PUBREL.                                           *)
LEMMA InboundAnswers ==
    ASSUME NEW s \in Seq(PeerEntry), NEW pid \in PacketIdentifier
    PROVE  /\ \A qos \in {1, 2}, mode \in AckMode :
                LET d == inbound_publish(s, pid, qos, mode)
                IN  Responds(d) /\ PeerSettled(d) /\ HasArm("Publish", d)
           /\ \A rc \in RelCompReasonCode :
                LET d == inbound_pubrel(s, pid, rc)
                IN  Responds(d) /\ PeerSettled(d) /\ HasArm("Pubrel", d)
<1> USE DEF Responds, PeerSettled, HasArm, PollEvents, AnswerPacket, RelCompReasonCode, Outcome,
            Unknown, Nop, Removed, ProtocolError, NoCode, Untracked, AckMode, Automatic, Manual
<1>1. CASE pid \in Pids(s)
  <2>1. PICK e \in PeerEntry : e = Entry(s, pid)
    BY <1>1, EntryProperties
  <2> USE DEF PeerEntry, PeerPublishState, PeerQoS1, PeerQoS2
  <2>2. \A qos \in {1, 2}, mode \in AckMode :
          LET d == inbound_publish(s, pid, qos, mode)
          IN  Responds(d) /\ PeerSettled(d) /\ HasArm("Publish", d)
    <3>1. \A qos \in {1, 2} :
            LET d == h_inbound_republish(e, qos)
            IN  Responds(d) /\ PeerSettled(d) /\ HasArm("Publish", d)
      <4>1. LET d == h_inbound_republish(e, 1)
            IN  Responds(d) /\ PeerSettled(d) /\ HasArm("Publish", d)
        BY DEF h_inbound_republish
      <4>2. CASE e.state \in PeerQoS1 \cup {"AwaitReRel", "DueComp"}
        <5>1. h_inbound_republish(e, 2) = ProtocolError(e)
          BY <4>2 DEF h_inbound_republish
        <5>2. QED
          BY <4>1, <5>1
      <4>3. CASE e.state = "AwaitPublishExactlyOnce"
        <5>1. h_inbound_republish(e, 2) \in
                {Outcome("AwaitRel", Automatic, "Receive", "Success", "Duplicate"),
                 Outcome("DueRec", Manual, "None", NoCode, "Duplicate")}
          BY <4>3 DEF h_inbound_republish
        <5>2. QED
          BY <4>1, <5>1
      <4>4. CASE e.state \in {"DueRec", "AwaitRel"}
        <5>1. \/ h_inbound_republish(e, 2) = Nop(e, "Receive", "Success", "Duplicate")
              \/ /\ h_inbound_republish(e, 2) = Nop(e, "None", NoCode, "Duplicate")
                 /\ e.state = "DueRec"
          BY <4>4 DEF h_inbound_republish
        <5>2. QED
          BY <4>1, <5>1
      <4>5. QED
        BY <4>2, <4>3, <4>4
    <3>2. \A qos, mode : inbound_publish(s, pid, qos, mode) = h_inbound_republish(e, qos)
      BY <1>1, <2>1, SMTT(30) DEF inbound_publish
    <3> HIDE DEF Responds, PeerSettled, HasArm
    <3>3. QED
      BY <3>1, <3>2, SMTT(30)
  <2>3. \A rc \in RelCompReasonCode :
          LET d == inbound_pubrel(s, pid, rc)
          IN  Responds(d) /\ PeerSettled(d) /\ HasArm("Pubrel", d)
    BY <1>1, <2>1 DEF inbound_pubrel, h_inbound_pubrel, is_erroneous
  <2>4. QED
    BY <2>2, <2>3, Zenon
<1>2. CASE pid \notin Pids(s)
  <2>1. \A qos \in {1, 2}, mode \in AckMode :
          LET d == new_publish(qos, mode)
          IN  Responds(d) /\ PeerSettled(d) /\ HasArm("Publish", d)
    BY DEF new_publish
  <2>2. LET d == Unknown("Disconnect", "QuotaExceeded", "ServerError")
        IN  Responds(d) /\ PeerSettled(d) /\ HasArm("Publish", d)
    OBVIOUS
  <2>3. \A qos \in {1, 2}, mode \in AckMode :
          inbound_publish(s, pid, qos, mode) \in
             {new_publish(qos, mode), Unknown("Disconnect", "QuotaExceeded", "ServerError")}
    <3> HIDE DEF Unknown
    <3>1. QED
      BY <1>2, SMTT(30) DEF inbound_publish
  <2>4. \A rc \in RelCompReasonCode :
          LET d == inbound_pubrel(s, pid, rc)
          IN  Responds(d) /\ PeerSettled(d) /\ HasArm("Pubrel", d)
    BY <1>2 DEF inbound_pubrel
  <2> HIDE DEF Responds, PeerSettled, HasArm, Unknown
  <2>5. QED
    BY <2>1, <2>2, <2>3, <2>4
<1>3. QED
  BY <1>1, <1>2, Zenon

-----------------------------------------------------------------------------
(* The tracked identifiers are packet identifiers.                          *)
LEMMA PidsAreIdentifiers ==
    /\ \A s \in Seq(LocalEntry) : Pids(s) \subseteq PacketIdentifier
    /\ \A s \in Seq(PeerEntry) : Pids(s) \subseteq PacketIdentifier
<1>1. ASSUME NEW s \in Seq(LocalEntry), NEW i \in DOMAIN s PROVE s[i].pid \in PacketIdentifier
  <2>1. s[i] \in LocalEntry
    BY LenProperties, ElementOfSeq
  <2>2. QED
    BY <2>1 DEF LocalEntry
<1>2. ASSUME NEW s \in Seq(PeerEntry), NEW i \in DOMAIN s PROVE s[i].pid \in PacketIdentifier
  <2>1. s[i] \in PeerEntry
    BY LenProperties, ElementOfSeq
  <2>2. QED
    BY <2>1 DEF PeerEntry
<1>3. QED
  BY <1>1, <1>2 DEF Pids

(* A call of the user that succeeds on a publication of the client leaves   *)
(* it waiting for the answer to what the call sends.                        *)
LEMMA LocalCalls ==
    ASSUME NEW s \in Seq(LocalEntry), NEW pid \in PacketIdentifier
    PROVE  /\ \A qos \in {1, 2} :
                outbound_republish(s, pid, qos).event = "Ok" =>
                  /\ pid \in Pids(s)
                  /\ Entry(s, pid).state \in {"DuePublishAtLeastOnce", "DuePublishExactlyOnce"}
                  /\ outbound_republish(s, pid, qos).state \in {"AwaitAck", "AwaitRec"}
           /\ \A qos \in {1, 2}, mode \in AckMode :
                outbound_publish(s, qos, mode).event = "Ok" =>
                  outbound_publish(s, qos, mode).state \in {"AwaitAck", "AwaitRec"}
           /\ outbound_pubrel(s, pid).event = "Ok" => outbound_pubrel(s, pid).state = "AwaitComp"
<1> USE DEF Outcome, Unknown, Nop, Ok, Err
<1>1. \A qos \in {1, 2}, mode \in AckMode :
        outbound_publish(s, qos, mode).event = "Ok" =>
          outbound_publish(s, qos, mode).state \in {"AwaitAck", "AwaitRec"}
  BY DEF outbound_publish
<1>2. CASE pid \notin Pids(s)
  BY <1>1, <1>2 DEF outbound_republish, outbound_pubrel
<1>3. CASE pid \in Pids(s)
  <2>1. PICK e \in LocalEntry : e = Entry(s, pid)
    BY <1>3, EntryProperties
  <2> USE DEF LocalEntry, LocalPublishState, LocalQoS1, LocalQoS2
  <2>2. \A qos \in {1, 2} :
          h_outbound_republish(e, qos).event = "Ok" =>
            /\ e.state \in {"DuePublishAtLeastOnce", "DuePublishExactlyOnce"}
            /\ h_outbound_republish(e, qos).state \in {"AwaitAck", "AwaitRec"}
    BY DEF h_outbound_republish
  <2>3. h_outbound_pubrel(e).event = "Ok" => h_outbound_pubrel(e).state = "AwaitComp"
    BY DEF h_outbound_pubrel
  <2>4. QED
    BY <1>1, <1>3, <2>1, <2>2, <2>3 DEF outbound_republish, outbound_pubrel
<1>4. QED
  BY <1>2, <1>3

(* A call of the user that succeeds on a publication of the server ends it, *)
(* or leaves it waiting for the answer to the PUBREC it sends.              *)
LEMMA PeerCalls ==
    ASSUME NEW s \in Seq(PeerEntry), NEW pid \in PacketIdentifier
    PROVE  /\ outbound_puback(s, pid).event = "Ok" => outbound_puback(s, pid).state = Untracked
           /\ outbound_pubcomp(s, pid).event = "Ok" => outbound_pubcomp(s, pid).state = Untracked
           /\ \A rc \in AckRecReasonCode :
                outbound_pubrec(s, pid, rc).event = "Ok" =>
                  outbound_pubrec(s, pid, rc).state \in {Untracked, "AwaitRel"}
<1> USE DEF Outcome, Unknown, Nop, Ok, Err
<1>1. CASE pid \notin Pids(s)
  BY <1>1 DEF outbound_puback, outbound_pubcomp, outbound_pubrec
<1>2. CASE pid \in Pids(s)
  <2>1. PICK e \in PeerEntry : e = Entry(s, pid)
    BY <1>2, EntryProperties
  <2> USE DEF PeerEntry, PeerPublishState, PeerQoS1, PeerQoS2
  <2>2. h_outbound_puback(e).event = "Ok" => h_outbound_puback(e).state = Untracked
    BY DEF h_outbound_puback
  <2>3. h_outbound_pubcomp(e).event = "Ok" => h_outbound_pubcomp(e).state = Untracked
    BY DEF h_outbound_pubcomp
  <2>4. \A rc \in AckRecReasonCode : h_outbound_pubrec(e, rc).event = "Ok" =>
          h_outbound_pubrec(e, rc).state \in {Untracked, "AwaitRel"}
    BY DEF h_outbound_pubrec, is_erroneous
  <2>5. QED
    BY <1>2, <2>1, <2>2, <2>3, <2>4 DEF outbound_puback, outbound_pubcomp, outbound_pubrec
<1>3. QED
  BY <1>1, <1>2

(* publish schedules an entry for an identifier that has none.              *)
LEMMA PublishIsOutbound ==
    ASSUME NEW pid \in PacketIdentifier, NEW qos, NEW mode, OutboundPublish(pid, qos, mode)
    PROVE  Outbound(pid, outbound_publish(outbound_publishes, qos, mode))
<1>1. pid \notin Pids(outbound_publishes)
  BY DEF OutboundPublish, FreeHandle, IsFreeHandle
<1>2. QED
  BY <1>1 DEF OutboundPublish, Outbound, Decide
===============================================================================
