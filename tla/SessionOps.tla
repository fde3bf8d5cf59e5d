------------------------------ MODULE SessionOps ------------------------------
(* The publication state machine of src/session: what one call on a handle  *)
(* does to one entry of the session's lists, and what it answers.  Session  *)
(* (the session on its own) and Client (the session driven by the client)   *)
(* share these operators.  Definitions named Wrong... are plausible         *)
(* mistakes in the one that follows, for testing the properties.            *)
(*                                                                          *)
(* A list entry is [pid, state, mode].  The enum variants that carry an     *)
(* AckMode in the code carry it in `mode`; the variants without one are     *)
(* written with the only mode their flow can have: Automatic for outgoing   *)
(* QoS 1, Manual for DueAck, AwaitPublishAtLeastOnce, DueRec, AwaitReRel    *)
(* and DueComp.                                                             *)
EXTENDS Naturals, Sequences, Functions

CONSTANTS PidMax,             \* the largest packet identifier, u16::MAX
          SUBSCRIBE_MAXIMUM,  \* capacity of subs and of unsubs
          RECEIVE_MAXIMUM,    \* capacity of inbound_publishes
          SEND_MAXIMUM        \* capacity of outbound_publishes

(* PacketIdentifier is a NonZero<u16>.                                      *)
ASSUME PidMaxAssumption == PidMax \in Nat \ {0}

(* The const assertions of Client::new; SEND_MAXIMUM has none.              *)
ASSUME CapacityAssumption ==
    /\ SUBSCRIBE_MAXIMUM \in 0..PidMax
    /\ RECEIVE_MAXIMUM \in 1..PidMax
    /\ SEND_MAXIMUM \in Nat

PacketIdentifier == 1..PidMax

Automatic == "Automatic"
Manual == "Manual"
AckMode == {Automatic, Manual}

LocalQoS1 == {"DuePublishAtLeastOnce", "AwaitAck"}
LocalQoS2 == {"DuePublishExactlyOnce", "AwaitRec", "DueRel", "AwaitComp"}
LocalPublishState == LocalQoS1 \cup LocalQoS2

PeerQoS1 == {"AwaitPublishAtLeastOnce", "DueAck"}
PeerQoS2 == {"AwaitPublishExactlyOnce", "DueRec", "AwaitRel", "AwaitReRel",
             "DueComp"}
PeerPublishState == PeerQoS1 \cup PeerQoS2

LocalEntry ==
    {e \in [pid : PacketIdentifier, state : LocalPublishState, mode : AckMode] :
        e.state \in LocalQoS1 => e.mode = Automatic}
PeerEntry ==
    {e \in [pid : PacketIdentifier, state : PeerPublishState, mode : AckMode] :
        e.state \notin {"AwaitPublishExactlyOnce", "AwaitRel"} => e.mode = Manual}

(* The reason codes the state machine tells apart.  UnspecifiedError stands *)
(* for the error codes a PUBACK or PUBREC may carry, and a PUBREL or        *)
(* PUBCOMP carries no other error code than PacketIdentifierNotFound: the   *)
(* decoder refuses the others before the session sees them.                 *)
AckRecReasonCode == {"Success", "UnspecifiedError"}
RelCompReasonCode == {"Success", "PacketIdentifierNotFound"}
Wrong_is_erroneous(rc) == rc \notin {"Success", "UnspecifiedError"}  \* > 0x80
is_erroneous(rc) == rc # "Success"

-----------------------------------------------------------------------------
(* Lists: heapless::Vec with push, swap_remove and linear search.           *)

Pids(s) == {s[i].pid : i \in DOMAIN s}

(* {in,out}bound_handle: the position of a tracked identifier               *)
Handle(s, pid) == CHOOSE i \in DOMAIN s : s[i].pid = pid

Entry(s, pid) == s[Handle(s, pid)]

(* Vec::swap_remove: the last element takes the place of the removed one.   *)
swap_remove(s, i) == SubSeq([s EXCEPT ![i] = s[Len(s)]], 1, Len(s) - 1)

Wrong_capacity_inclusive(s, capacity) ==
    (IF capacity < PidMax THEN capacity ELSE PidMax) >= Len(s)
Wrong_capacity_short(s, capacity) ==
    (IF capacity < PidMax THEN capacity ELSE PidMax) > Len(s) + 1

(* available_{in,out}bound_publish_capacity                                 *)
available_capacity(s, capacity) ==
    (IF capacity < PidMax THEN capacity ELSE PidMax) > Len(s)

-----------------------------------------------------------------------------
(* What a call on a handle decides: the state the entry moves to (set), or  *)
(* Untracked for its removal (remove), or its own state (nop); the Response *)
(* to the server with its reason code; and the Event for the user.  A call  *)
(* of the user has no response and, in place of an event, its result: Ok or *)
(* the Error.  An event that carries an AckMode carries the entry's, except *)
(* Publish, for which the client reports the mode it asked for.             *)

Untracked == "Untracked"
NoCode == "NoCode"

Outcome(state, mode, response, rc, event) ==
    [state |-> state, mode |-> mode, response |-> response, rc |-> rc,
     event |-> event]

Nop(e, response, rc, event) == Outcome(e.state, e.mode, response, rc, event)
Removed(e, response, rc, event) == Outcome(Untracked, e.mode, response, rc, event)
ProtocolError(e) == Nop(e, "Disconnect", "ProtocolError", "ServerError")
Ok(state, mode) == Outcome(state, mode, "None", NoCode, "Ok")
Err(e, error) == Nop(e, "None", NoCode, error)

(* The answer when the identifier has no entry.                             *)
Unknown(response, rc, event) == Outcome(Untracked, Automatic, response, rc, event)

(* schedule_{in,out}bound: an entry is pushed, whatever the list holds.     *)
schedule(s, pid, d) ==
    IF d.state = Untracked THEN s
      ELSE Append(s, [pid |-> pid, state |-> d.state, mode |-> d.mode])

(* The list s after the decision d about pid, tracked or not.               *)
Decide(s, pid, d) ==
    CASE pid \in Pids(s) /\ d.state = Untracked -> swap_remove(s, Handle(s, pid))
      [] pid \in Pids(s) /\ d.state # Untracked ->
           [s EXCEPT ![Handle(s, pid)] =
               [pid |-> pid, state |-> d.state, mode |-> d.mode]]
      [] pid \notin Pids(s) -> schedule(s, pid, d)

-----------------------------------------------------------------------------
(* LocalPublishState::reconnected and PeerPublishState::reconnected         *)

Wrong_release_forgotten(e) ==
    [e EXCEPT !.state = CASE @ = "AwaitAck"  -> "DuePublishAtLeastOnce"
                          [] @ = "AwaitRec"  -> "DuePublishExactlyOnce"
                          [] OTHER           -> @]
Wrong_release_restarted(e) ==
    [e EXCEPT !.state = CASE @ = "AwaitAck"  -> "DuePublishAtLeastOnce"
                          [] @ \in {"AwaitRec", "AwaitComp"} -> "DuePublishExactlyOnce"
                          [] OTHER           -> @]

LocalReconnected(e) ==
    [e EXCEPT !.state = CASE @ = "AwaitAck"  -> "DuePublishAtLeastOnce"
                          [] @ = "AwaitRec"  -> "DuePublishExactlyOnce"
                          [] @ = "AwaitComp" -> "DueRel"
                          [] OTHER           -> @]

PeerReconnected(e) ==
    [pid   |-> e.pid,
     state |-> CASE e.state = "DueAck"              -> "AwaitPublishAtLeastOnce"
                 [] e.state \in {"DueRec", "AwaitRel"} -> "AwaitPublishExactlyOnce"
                 [] e.state = "DueComp"             -> "AwaitReRel"
                 [] OTHER                           -> e.state,
     mode  |-> IF e.state = "DueRec" THEN Manual ELSE e.mode]

ReconnectLocal(s) == [i \in DOMAIN s |-> LocalReconnected(s[i])]
ReconnectPeer(s) == [i \in DOMAIN s |-> PeerReconnected(s[i])]

-----------------------------------------------------------------------------
(* Inbound publications: the server publishes.                              *)

(* An identifier without an entry, and capacity left: the entry to schedule.*)
Wrong_event(qos, mode) ==
    CASE qos = 1 /\ mode = Manual    -> Outcome("DueAck", Manual, "None", NoCode, "Publish")
      [] qos = 1 /\ mode = Automatic -> Outcome(Untracked, Automatic, "Acknowledge", "Success", "Publish")
      [] qos = 2 /\ mode = Manual    -> Outcome("DueRec", Manual, "None", NoCode, "Duplicate")
      [] qos = 2 /\ mode = Automatic -> Outcome("AwaitRel", Automatic, "Receive", "Success", "Duplicate")

new_publish(qos, mode) ==
    CASE qos = 1 /\ mode = Manual    -> Outcome("DueAck", Manual, "None", NoCode, "Publish")
      [] qos = 1 /\ mode = Automatic -> Outcome(Untracked, Automatic, "Acknowledge", "Success", "Publish")
      [] qos = 2 /\ mode = Manual    -> Outcome("DueRec", Manual, "None", NoCode, "Publish")
      [] qos = 2 /\ mode = Automatic -> Outcome("AwaitRel", Automatic, "Receive", "Success", "Publish")

Wrong_second_publish(e, qos) ==
    CASE qos = 1 \/ e.state \notin {"AwaitPublishExactlyOnce", "DueRec", "AwaitRel"} -> ProtocolError(e)
      [] qos = 2 /\ e.state = "AwaitPublishExactlyOnce" ->
           Outcome("DueRec", Manual, "None", NoCode, "Publish")
      [] qos = 2 /\ e.state = "DueRec" -> Nop(e, "None", NoCode, "Duplicate")
      [] qos = 2 /\ e.state = "AwaitRel" -> Nop(e, "Receive", "Success", "Duplicate")

h_inbound_republish(e, qos) ==
    CASE qos = 1 /\ e.state \in PeerQoS2 -> ProtocolError(e)
      [] qos = 1 /\ e.state = "DueAck" -> Nop(e, "None", NoCode, "Publish")
      [] qos = 1 /\ e.state = "AwaitPublishAtLeastOnce" ->
           Outcome("DueAck", Manual, "None", NoCode, "Publish")
      [] qos = 2 /\ e.state \in PeerQoS1 -> ProtocolError(e)
      [] qos = 2 /\ e.state = "AwaitPublishExactlyOnce" /\ e.mode = Automatic ->
           Outcome("AwaitRel", Automatic, "Receive", "Success", "Duplicate")
      [] qos = 2 /\ e.state = "AwaitPublishExactlyOnce" /\ e.mode = Manual ->
           Outcome("DueRec", Manual, "None", NoCode, "Duplicate")
      [] qos = 2 /\ e.state = "DueRec" -> Nop(e, "None", NoCode, "Duplicate")
      [] qos = 2 /\ e.state = "AwaitRel" -> Nop(e, "Receive", "Success", "Duplicate")
      [] qos = 2 /\ e.state \in {"AwaitReRel", "DueComp"} -> ProtocolError(e)

h_outbound_puback(e) ==
    CASE e.state = "AwaitPublishAtLeastOnce" -> Err(e, "HandshakeStateMismatched")
      [] e.state \in PeerQoS2 -> Err(e, "QoSMismatched")
      [] e.state = "DueAck" -> Ok(Untracked, e.mode)

h_outbound_pubrec(e, rc) ==
    CASE e.state \in PeerQoS1 -> Err(e, "QoSMismatched")
      [] e.state \in PeerQoS2 \ {"DueRec"} -> Err(e, "HandshakeStateMismatched")
      [] e.state = "DueRec" /\ is_erroneous(rc) -> Ok(Untracked, e.mode)
      [] e.state = "DueRec" /\ ~is_erroneous(rc) -> Ok("AwaitRel", Manual)

h_inbound_pubrel(e, rc) ==
    CASE e.state \in PeerQoS1 -> ProtocolError(e)
      [] e.state \in PeerQoS2 \ {"AwaitReRel"} /\ is_erroneous(rc) ->
           Removed(e, "Complete", "Success", "Aborted")
      [] e.state \in {"AwaitPublishExactlyOnce", "AwaitRel"} /\ e.mode = Automatic
         /\ ~is_erroneous(rc) -> Removed(e, "Complete", "Success", "Released")
      [] \/ /\ e.state \in {"AwaitPublishExactlyOnce", "DueRec", "AwaitRel"}
            /\ e.mode = Manual
            /\ ~is_erroneous(rc)
         \/ e.state = "AwaitReRel" -> Outcome("DueComp", Manual, "None", NoCode, "Released")
      [] e.state = "DueComp" /\ ~is_erroneous(rc) -> Nop(e, "None", NoCode, "Ignored")

Wrong_early_pubcomp(e) ==
    CASE e.state \in PeerQoS1 -> Err(e, "QoSMismatched")
      [] e.state \in PeerQoS2 \ {"AwaitRel", "DueComp"} -> Err(e, "HandshakeStateMismatched")
      [] e.state \in {"AwaitRel", "DueComp"} -> Ok(Untracked, e.mode)

h_outbound_pubcomp(e) ==
    CASE e.state \in PeerQoS1 -> Err(e, "QoSMismatched")
      [] e.state \in PeerQoS2 \ {"DueComp"} -> Err(e, "HandshakeStateMismatched")
      [] e.state = "DueComp" -> Ok(Untracked, e.mode)

inbound_publish(s, pid, qos, mode) ==
    CASE pid \in Pids(s) -> h_inbound_republish(Entry(s, pid), qos)
      [] pid \notin Pids(s) /\ available_capacity(s, RECEIVE_MAXIMUM) -> new_publish(qos, mode)
      [] pid \notin Pids(s) /\ ~available_capacity(s, RECEIVE_MAXIMUM) ->
           Unknown("Disconnect", "QuotaExceeded", "ServerError")

outbound_puback(s, pid) ==
    IF pid \in Pids(s) THEN h_outbound_puback(Entry(s, pid))
                       ELSE Unknown("None", NoCode, "PacketIdentifierUnused")

outbound_pubrec(s, pid, rc) ==
    IF pid \in Pids(s) THEN h_outbound_pubrec(Entry(s, pid), rc)
                       ELSE Unknown("None", NoCode, "PacketIdentifierUnused")

Wrong_pubrel_ignored(s, pid, rc) ==
    IF pid \in Pids(s) THEN h_inbound_pubrel(Entry(s, pid), rc)
                       ELSE Unknown("None", NoCode, "Ignored")

inbound_pubrel(s, pid, rc) ==
    IF pid \in Pids(s) THEN h_inbound_pubrel(Entry(s, pid), rc)
                       ELSE Unknown("Complete", "PacketIdentifierNotFound", "Ignored")

outbound_pubcomp(s, pid) ==
    IF pid \in Pids(s) THEN h_outbound_pubcomp(Entry(s, pid))
                       ELSE Unknown("None", NoCode, "PacketIdentifierUnused")

-----------------------------------------------------------------------------
(* Outbound publications: the client publishes.                             *)

Wrong_resend(e, qos) ==
    CASE qos = 1 /\ e.state \in LocalQoS1 -> Ok("AwaitAck", e.mode)
      [] qos = 2 /\ e.state \in {"DuePublishExactlyOnce", "AwaitRec"} -> Ok("AwaitRec", e.mode)
      [] OTHER -> Err(e, "HandshakeStateMismatched")

h_outbound_republish(e, qos) ==
    CASE qos = 1 /\ e.state \in LocalQoS2 -> Err(e, "QoSMismatched")
      [] qos = 1 /\ e.state = "AwaitAck" -> Err(e, "HandshakeStateMismatched")
      [] qos = 1 /\ e.state = "DuePublishAtLeastOnce" -> Ok("AwaitAck", e.mode)
      [] qos = 2 /\ e.state \in LocalQoS1 -> Err(e, "QoSMismatched")
      [] qos = 2 /\ e.state \in LocalQoS2 \ {"DuePublishExactlyOnce"} ->
           Err(e, "HandshakeStateMismatched")
      [] qos = 2 /\ e.state = "DuePublishExactlyOnce" -> Ok("AwaitRec", e.mode)

h_inbound_puback(e, rc) ==
    CASE e.state \in LocalQoS1 -> Removed(e, "None", NoCode,
                         IF is_erroneous(rc) THEN "Rejected" ELSE "Acknowledged")
      [] e.state \in LocalQoS2 -> ProtocolError(e)

Wrong_pubrec_decides(e, rc, next) ==
    IF is_erroneous(rc) THEN Removed(e, "None", NoCode, "Rejected")
                        ELSE Outcome(next, e.mode, "Release", "Success", "Received")
Wrong_pubrec_manual(e, rc) == Wrong_pubrec_decides(e, rc, "AwaitComp")
Wrong_pubrec_nop(e, rc) == Wrong_pubrec_decides(e, rc, e.state)

h_inbound_pubrec(e, rc) ==
    CASE e.state \in LocalQoS1 -> ProtocolError(e)
      [] e.state \in LocalQoS2 \ {"AwaitComp"} /\ is_erroneous(rc) ->
           Removed(e, "None", NoCode, "Rejected")
      [] e.state \in {"DuePublishExactlyOnce", "AwaitRec"} /\ e.mode = Automatic
         /\ ~is_erroneous(rc) -> Outcome("AwaitComp", Automatic, "Release", "Success", "Received")
      [] e.state \in {"DuePublishExactlyOnce", "AwaitRec"} /\ e.mode = Manual
         /\ ~is_erroneous(rc) -> Outcome("DueRel", Manual, "None", NoCode, "Received")
      [] e.state = "DueRel" /\ e.mode = Automatic /\ ~is_erroneous(rc) ->
           Outcome("AwaitComp", Automatic, "Release", "Success", "Ignored")
      [] e.state = "DueRel" /\ e.mode = Manual /\ ~is_erroneous(rc) ->
           Nop(e, "None", NoCode, "Ignored")
      [] e.state = "AwaitComp" -> Nop(e, "Release", "Success", "Ignored")

h_outbound_pubrel(e) ==
    CASE e.state \in LocalQoS1 -> Err(e, "QoSMismatched")
      [] e.state \in LocalQoS2 \ {"DueRel"} -> Err(e, "HandshakeStateMismatched")
      [] e.state = "DueRel" -> Ok("AwaitComp", e.mode)

h_inbound_pubcomp(e, rc) ==
    CASE e.state \in LocalQoS1 \cup {"DuePublishExactlyOnce", "AwaitRec"} -> ProtocolError(e)
      [] e.state \in {"DueRel", "AwaitComp"} -> Removed(e, "None", NoCode,
                         IF is_erroneous(rc) THEN "Rejected" ELSE "Completed")

outbound_republish(s, pid, qos) ==
    IF pid \in Pids(s) THEN h_outbound_republish(Entry(s, pid), qos)
                       ELSE Unknown("None", NoCode, "PacketIdentifierUnused")

inbound_puback(s, pid, rc) ==
    IF pid \in Pids(s) THEN h_inbound_puback(Entry(s, pid), rc)
                       ELSE Unknown("None", NoCode, "Ignored")

inbound_pubrec(s, pid, rc) ==
    IF pid \in Pids(s) THEN h_inbound_pubrec(Entry(s, pid), rc)
                       ELSE Unknown("Release", "PacketIdentifierNotFound", "Ignored")

outbound_pubrel(s, pid) ==
    IF pid \in Pids(s) THEN h_outbound_pubrel(Entry(s, pid))
                       ELSE Unknown("None", NoCode, "PacketIdentifierUnused")

inbound_pubcomp(s, pid, rc) ==
    IF pid \in Pids(s) THEN h_inbound_pubcomp(Entry(s, pid), rc)
                       ELSE Unknown("None", NoCode, "Ignored")

-----------------------------------------------------------------------------
(* Handles to new identifiers.                                              *)

(* FreeHandle::outbound_publish: the first state, or NoCapacity             *)
outbound_publish(s, qos, mode) ==
    CASE ~available_capacity(s, SEND_MAXIMUM) -> Unknown("None", NoCode, "NoCapacity")
      [] available_capacity(s, SEND_MAXIMUM) /\ qos = 1 -> Ok("AwaitAck", Automatic)
      [] available_capacity(s, SEND_MAXIMUM) /\ qos = 2 -> Ok("AwaitRec", mode)

Wrong_free_handle(pid, outbound, subs, unsubs) ==
    LET used == Range(subs) \cup Range(unsubs)
    IN  pid \notin used /\ \A p \in PacketIdentifier : p < pid => p \in used

(* free_handle: the search from ONE upwards for an identifier that is in    *)
(* none of the three lists stops at pid.                                    *)
IsFreeHandle(pid, outbound, subs, unsubs) ==
    LET used == Pids(outbound) \cup Range(subs) \cup Range(unsubs)
    IN  pid \notin used /\ \A p \in PacketIdentifier : p < pid => p \in used

(* {Sub,Unsub}Handle: the position of an in-flight identifier               *)
Position(s, pid) == CHOOSE i \in DOMAIN s : s[i] = pid

(* {Sub,Unsub}Handle::remove for a tracked identifier                       *)
RemovePid(s, pid) == swap_remove(s, Position(s, pid))
===============================================================================
