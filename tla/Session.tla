-------------------------------- MODULE Session --------------------------------
(* The session of src/session on its own: its four lists, and one action    *)
(* per operation the client performs on it, called in any order, with any   *)
(* identifier and with any reason code the decoder lets through.            *)
EXTENDS SessionOps

VARIABLES subs,                \* pids of in-flight SUBSCRIBE packets
          unsubs,              \* pids of in-flight UNSUBSCRIBE packets
          inbound_publishes,   \* entries of publications of the server
          outbound_publishes   \* entries of publications of the client

vars == <<subs, unsubs, inbound_publishes, outbound_publishes>>

(* Session::default                                                         *)
Init ==
    /\ subs = <<>>
    /\ unsubs = <<>>
    /\ inbound_publishes = <<>>
    /\ outbound_publishes = <<>>

-----------------------------------------------------------------------------
(* An operation on an inbound or an outbound entry.  What it answers is d,  *)
(* which the caller acts on; a decision that answers an error moves nothing.*)

Inbound(pid, d) ==
    /\ inbound_publishes' = Decide(inbound_publishes, pid, d)
    /\ UNCHANGED <<subs, unsubs, outbound_publishes>>

Outbound(pid, d) ==
    /\ outbound_publishes' = Decide(outbound_publishes, pid, d)
    /\ UNCHANGED <<subs, unsubs, inbound_publishes>>

(* A QoS 0 PUBLISH has no identifier and leaves the session alone.          *)
InboundPublish(pid, qos, mode) ==
    Inbound(pid, inbound_publish(inbound_publishes, pid, qos, mode))

OutboundPuback(pid) ==
    Inbound(pid, outbound_puback(inbound_publishes, pid))

OutboundPubrec(pid, rc) ==
    Inbound(pid, outbound_pubrec(inbound_publishes, pid, rc))

InboundPubrel(pid, rc) ==
    Inbound(pid, inbound_pubrel(inbound_publishes, pid, rc))

OutboundPubcomp(pid) ==
    Inbound(pid, outbound_pubcomp(inbound_publishes, pid))

OutboundRepublish(pid, qos) ==
    Outbound(pid, outbound_republish(outbound_publishes, pid, qos))

InboundPuback(pid, rc) ==
    Outbound(pid, inbound_puback(outbound_publishes, pid, rc))

InboundPubrec(pid, rc) ==
    Outbound(pid, inbound_pubrec(outbound_publishes, pid, rc))

OutboundPubrel(pid) ==
    Outbound(pid, outbound_pubrel(outbound_publishes, pid))

InboundPubcomp(pid, rc) ==
    Outbound(pid, inbound_pubcomp(outbound_publishes, pid, rc))

-----------------------------------------------------------------------------
FreeHandle(pid) == IsFreeHandle(pid, outbound_publishes, subs, unsubs)

(* The asserts of FreeHandle::outbound_publish are the guard on the mode.   *)
OutboundPublish(pid, qos, mode) ==
    /\ FreeHandle(pid)
    /\ qos = 1 => mode = Automatic
    /\ outbound_publishes' = schedule(outbound_publishes, pid,
                                      outbound_publish(outbound_publishes, qos, mode))
    /\ UNCHANGED <<subs, unsubs, inbound_publishes>>

(* Vec::push fails on a full list, and the call answers NoCapacity.         *)

OutboundSub(pid) ==
    /\ FreeHandle(pid)
    /\ Len(subs) < SUBSCRIBE_MAXIMUM
    /\ subs' = Append(subs, pid)
    /\ UNCHANGED <<unsubs, inbound_publishes, outbound_publishes>>

OutboundUnsub(pid) ==
    /\ FreeHandle(pid)
    /\ Len(unsubs) < SUBSCRIBE_MAXIMUM
    /\ unsubs' = Append(unsubs, pid)
    /\ UNCHANGED <<subs, inbound_publishes, outbound_publishes>>

(* SUBACK and UNSUBACK: the client removes the identifier through its       *)
(* handle, and ignores an identifier that has none.                         *)
InboundSuback(pid) ==
    /\ pid \in Range(subs)
    /\ subs' = RemovePid(subs, pid)
    /\ UNCHANGED <<unsubs, inbound_publishes, outbound_publishes>>

InboundUnsuback(pid) ==
    /\ pid \in Range(unsubs)
    /\ unsubs' = RemovePid(unsubs, pid)
    /\ UNCHANGED <<subs, inbound_publishes, outbound_publishes>>

(* clear: CONNACK without session present                                   *)
Clear ==
    /\ subs' = <<>>
    /\ unsubs' = <<>>
    /\ inbound_publishes' = <<>>
    /\ outbound_publishes' = <<>>

(* reconnect: CONNACK with session present                                  *)
Reconnect ==
    /\ subs' = <<>>
    /\ unsubs' = <<>>
    /\ inbound_publishes' = ReconnectPeer(inbound_publishes)
    /\ outbound_publishes' = ReconnectLocal(outbound_publishes)

Next ==
    \/ \E pid \in PacketIdentifier, qos \in {1, 2}, mode \in AckMode :
         InboundPublish(pid, qos, mode) \/ OutboundPublish(pid, qos, mode)
    \/ \E pid \in PacketIdentifier, rc \in AckRecReasonCode :
         OutboundPubrec(pid, rc) \/ InboundPuback(pid, rc) \/ InboundPubrec(pid, rc)
    \/ \E pid \in PacketIdentifier, rc \in RelCompReasonCode :
         InboundPubrel(pid, rc) \/ InboundPubcomp(pid, rc)
    \/ \E pid \in PacketIdentifier, qos \in {1, 2} : OutboundRepublish(pid, qos)
    \/ \E pid \in PacketIdentifier :
         \/ OutboundPuback(pid) \/ OutboundPubcomp(pid) \/ OutboundPubrel(pid)
         \/ OutboundSub(pid) \/ OutboundUnsub(pid)
         \/ InboundSuback(pid) \/ InboundUnsuback(pid)
    \/ Clear
    \/ Reconnect

Spec == Init /\ [][Next]_vars

-----------------------------------------------------------------------------
(* The lists hold well-formed entries, in the modes their flow can have,    *)
(* and never more than their heapless::Vec can store: the unwrap of each    *)
(* push never panics.                                                       *)
TypeOK ==
    /\ subs \in Seq(PacketIdentifier) /\ Len(subs) <= SUBSCRIBE_MAXIMUM
    /\ unsubs \in Seq(PacketIdentifier) /\ Len(unsubs) <= SUBSCRIBE_MAXIMUM
    /\ inbound_publishes \in Seq(PeerEntry) /\ Len(inbound_publishes) <= RECEIVE_MAXIMUM
    /\ outbound_publishes \in Seq(LocalEntry) /\ Len(outbound_publishes) <= SEND_MAXIMUM

(* No two entries of a list have the same identifier.                       *)
Unique(s) == \A i, j \in DOMAIN s : s[i].pid = s[j].pid => i = j
UniquePids(s) == \A i, j \in DOMAIN s : s[i] = s[j] => i = j

(* The debug_asserts of schedule_inbound and schedule_outbound, which a     *)
(* release build drops, for every state: an identifier has one entry per    *)
(* direction, and a SUBSCRIBE, UNSUBSCRIBE or PUBLISH of the client never   *)
(* uses the identifier of another one in flight.  Every handle is found by  *)
(* linear search, so a second entry would be acknowledged in place of the   *)
(* first.                                                                   *)
UniqueIdentifiers ==
    /\ Unique(inbound_publishes)
    /\ Unique(outbound_publishes)
    /\ UniquePids(subs)
    /\ UniquePids(unsubs)
    /\ Pids(outbound_publishes) \cap Range(subs) = {}
    /\ Pids(outbound_publishes) \cap Range(unsubs) = {}
    /\ Range(subs) \cap Range(unsubs) = {}

(* Every event that asks the user for a manual acknowledgement leaves the   *)
(* session in a state that accepts exactly that acknowledgement: Publish    *)
(* and, when no PUBREC went out with it, Duplicate (manual_acknowledge or   *)
(* manual_receive), PublishReceived (manual_release) and PublishReleased    *)
(* (manual_complete).  An automatic event, and a Duplicate the client has   *)
(* answered itself, leave a state that refuses it.                          *)
ManualCallsMatchEvents ==
    \A pid \in PacketIdentifier :
      /\ \A qos \in {1, 2}, mode \in AckMode :
           LET d == inbound_publish(inbound_publishes, pid, qos, mode)
               s == Decide(inbound_publishes, pid, d)
               asked == d.mode = Manual /\ d.response = "None"
           IN  d.event \in {"Publish", "Duplicate"} =>
                 /\ (outbound_puback(s, pid).event = "Ok") <=> (asked /\ qos = 1)
                 /\ (outbound_pubrec(s, pid, "Success").event = "Ok") <=> (asked /\ qos = 2)
      /\ LET d == inbound_pubrec(outbound_publishes, pid, "Success")
             s == Decide(outbound_publishes, pid, d)
         IN  d.event = "Received" =>
               ((outbound_pubrel(s, pid).event = "Ok") <=> (d.mode = Manual))
      /\ LET d == inbound_pubrel(inbound_publishes, pid, "Success")
             s == Decide(inbound_publishes, pid, d)
         IN  d.event = "Released" =>
               ((outbound_pubcomp(s, pid).event = "Ok") <=> (d.mode = Manual))

(* Whenever the connection is lost, the session that resumes accepts what   *)
(* both sides then have to retransmit: the client can send again the        *)
(* PUBLISH or the PUBREL of each of its publications, one of the two, and   *)
(* no retransmission of the server for an entry is a protocol error.  A     *)
(* second loss before any retransmission changes nothing.                   *)
ResumeAcceptsRetransmission ==
    LET out == ReconnectLocal(outbound_publishes)
        in  == ReconnectPeer(inbound_publishes)
    IN  /\ \A i \in DOMAIN out :
             LET sends == {h_outbound_republish(out[i], 1), h_outbound_republish(out[i], 2),
                           h_outbound_pubrel(out[i])}
             IN  \E ok \in sends : ok.event = "Ok" /\ \A d \in sends \ {ok} : d.event # "Ok"
        /\ \A i \in DOMAIN in :
             LET publish(qos) == h_inbound_republish(in[i], qos).response # "Disconnect"
             IN  CASE inbound_publishes[i].state \in PeerQoS1 -> publish(1)
                   [] inbound_publishes[i].state \in {"DueComp", "AwaitReRel"} ->
                        h_inbound_pubrel(in[i], "Success").event = "Released"
                   [] OTHER -> /\ publish(2)
                               /\ h_inbound_pubrel(in[i], "Success").event = "Released"
        /\ ReconnectLocal(out) = out
        /\ ReconnectPeer(in) = in

-----------------------------------------------------------------------------
(* The handshake an entry stands for.                                       *)
LocalStage(state) ==
    CASE state \in LocalQoS1 -> "AtLeastOnce"
      [] state \in {"DuePublishExactlyOnce", "AwaitRec"} -> "ExactlyOnce"
      [] state \in {"DueRel", "AwaitComp"} -> "Released"

PeerStage(state) ==
    CASE state \in PeerQoS1 -> "AtLeastOnce"
      [] state \in {"AwaitPublishExactlyOnce", "DueRec", "AwaitRel"} -> "ExactlyOnce"
      [] state \in {"AwaitReRel", "DueComp"} -> "Released"

LocalHandshake(e) == [stage |-> LocalStage(e.state), mode |-> e.mode]
PeerHandshake(e) == [stage |-> PeerStage(e.state), mode |-> e.mode]

(* The handshakes of a list, by identifier.                                 *)
LocalHandshakes(s) ==
    [p \in PacketIdentifier |->
        IF p \in Pids(s) THEN LocalHandshake(Entry(s, p)) ELSE [stage |-> "Idle"]]
PeerHandshakes(s) ==
    [p \in PacketIdentifier |->
        IF p \in Pids(s) THEN PeerHandshake(Entry(s, p)) ELSE [stage |-> "Idle"]]

Abstract == INSTANCE Handshakes WITH
    local <- LocalHandshakes(outbound_publishes),
    peer <- PeerHandshakes(inbound_publishes),
    requests <- Range(subs) \cup Range(unsubs)

(* The session implements Handshakes: whatever packets and calls arrive, in *)
(* whatever order and across reconnections, a handshake never changes its   *)
(* acknowledgement mode or its QoS, never returns to publishing once        *)
(* released (no PUBLISH is sent again after the PUBREL, no publication is   *)
(* delivered again after its PUBREL), is not touched by an operation on     *)
(* another identifier, and survives every reconnection to the same session. *)
ImplementsHandshakes == Abstract!Spec
===============================================================================
