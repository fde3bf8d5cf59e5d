---------------------------- MODULE SessionProofs ----------------------------
(* The session keeps its lists well formed and its identifiers unique, lets *)
(* the user answer every event it hands out, accepts a retransmission after *)
(* a reconnect, and implements Handshakes, for every number of identifiers  *)
(* and every capacity.                                                      *)
EXTENDS Session, SequenceTheorems, TLAPS

(* Vec::swap_remove shortens the list by one and moves its last element     *)
(* into the place of the removed one.                                       *)
LEMMA SwapRemoveProperties ==
    ASSUME NEW E, NEW s \in Seq(E), NEW i \in DOMAIN s
    PROVE  /\ swap_remove(s, i) \in Seq(E)
           /\ Len(swap_remove(s, i)) = Len(s) - 1
           /\ \A k \in 1..Len(s) - 1 :
                swap_remove(s, i)[k] = IF k = i THEN s[Len(s)] ELSE s[k]
<1> DEFINE t == [s EXCEPT ![i] = s[Len(s)]]
<1>1. Len(s) \in Nat /\ i \in 1..Len(s) /\ Len(s) \in 1..Len(s)
  BY LenProperties
<1>2. s[Len(s)] \in E
  BY <1>1, ElementOfSeq
<1>3. /\ t \in Seq(E)
      /\ Len(t) = Len(s)
      /\ \A k \in 1..Len(s) : t[k] = IF k = i THEN s[Len(s)] ELSE s[k]
  BY <1>1, <1>2, ExceptSeq
<1>4. \A k \in 1..Len(s) - 1 : t[k] \in E
  BY <1>1, <1>3, ElementOfSeq
<1> HIDE DEF t
<1>5. /\ SubSeq(t, 1, Len(s) - 1) \in Seq(E)
      /\ Len(SubSeq(t, 1, Len(s) - 1)) = Len(s) - 1
      /\ \A k \in 1..Len(s) - 1 : SubSeq(t, 1, Len(s) - 1)[k] = t[k]
  <2>1. 1 \in Int /\ Len(s) - 1 \in Int /\ Len(s) - 1 - 1 + 1 = Len(s) - 1
    BY <1>1
  <2>2. /\ SubSeq(t, 1, Len(s) - 1) \in Seq(E)
        /\ Len(SubSeq(t, 1, Len(s) - 1)) = IF 1 <= Len(s) - 1 THEN Len(s) - 1 - 1 + 1 ELSE 0
        /\ \A k \in 1..Len(s) - 1 - 1 + 1 : SubSeq(t, 1, Len(s) - 1)[k] = t[1 + k - 1]
    BY <2>1, <1>4, SubSeqProperties
  <2>3. QED
    BY <1>1, <2>1, <2>2
<1>6. QED
  BY <1>1, <1>3, <1>5 DEF swap_remove, t

(* The handle of a tracked identifier is a position that holds it.          *)
LEMMA HandleProperties ==
    ASSUME NEW s, NEW pid \in Pids(s)
    PROVE  Handle(s, pid) \in DOMAIN s /\ s[Handle(s, pid)].pid = pid
  BY DEF Handle, Pids

(* A decision about one identifier keeps the list well formed and its       *)
(* identifiers unique, tracks no other identifier than that one, and makes  *)
(* the list longer only when it starts to track it.                         *)
LEMMA DecideProperties ==
    ASSUME NEW E, NEW s \in Seq(E), Unique(s), NEW pid, NEW d,
           d.state # Untracked =>
               [pid |-> pid, state |-> d.state, mode |-> d.mode] \in E
    PROVE  /\ Decide(s, pid, d) \in Seq(E)
           /\ Unique(Decide(s, pid, d))
           /\ Pids(Decide(s, pid, d)) \subseteq Pids(s) \cup {pid}
           /\ d.state = Untracked => Pids(Decide(s, pid, d)) \subseteq Pids(s)
           /\ Len(Decide(s, pid, d)) <= Len(s)
                \/ /\ pid \notin Pids(s)
                   /\ d.state # Untracked
                   /\ Len(Decide(s, pid, d)) = Len(s) + 1
<1> DEFINE e == [pid |-> pid, state |-> d.state, mode |-> d.mode]
           i == Handle(s, pid)
<1>1. Len(s) \in Nat /\ DOMAIN s = 1..Len(s)
  BY LenProperties
<1>2. CASE pid \in Pids(s) /\ d.state = Untracked
  <2> DEFINE t == swap_remove(s, i)
  <2>1. Decide(s, pid, d) = t
    BY <1>2 DEF Decide
  <2>2. i \in DOMAIN s
    BY <1>2, HandleProperties
  <2>3. /\ t \in Seq(E)
        /\ Len(t) = Len(s) - 1
        /\ \A k \in 1..Len(s) - 1 : t[k] = IF k = i THEN s[Len(s)] ELSE s[k]
    BY <2>2, SwapRemoveProperties
  <2>4. DOMAIN t = 1..Len(s) - 1
    BY <2>3, LenProperties
  <2> HIDE DEF t, i
  <2>5. Unique(t)
    BY <1>1, <2>2, <2>3, <2>4, SMTT(30) DEF Unique
  <2>6. Pids(t) \subseteq Pids(s)
    BY <1>1, <2>2, <2>3, <2>4 DEF Pids
  <2>7. Len(t) <= Len(s)
    BY <1>1, <2>3
  <2>8. t \in Seq(E)
    BY <2>3
  <2>9. QED
    BY <2>1, <2>5, <2>6, <2>7, <2>8
<1>3. CASE pid \in Pids(s) /\ d.state # Untracked
  <2> DEFINE t == [s EXCEPT ![i] = e]
  <2>1. Decide(s, pid, d) = t
    BY <1>3 DEF Decide
  <2>2. i \in DOMAIN s /\ s[i].pid = pid
    BY <1>3, HandleProperties
  <2>3. e \in E
    BY <1>3
  <2>4. /\ t \in Seq(E)
        /\ Len(t) = Len(s)
        /\ DOMAIN t = DOMAIN s
        /\ \A k \in DOMAIN s : t[k].pid = s[k].pid
    BY <1>1, <2>2, <2>3
  <2> HIDE DEF t, i, e
  <2>5. Unique(t)
    BY <2>4 DEF Unique
  <2>6. Pids(t) = Pids(s)
    BY <2>4 DEF Pids
  <2>7. QED
    BY <1>1, <1>3, <2>1, <2>4, <2>5, <2>6
<1>4. CASE pid \notin Pids(s) /\ d.state = Untracked
  <2>1. Decide(s, pid, d) = s
    BY <1>4 DEF Decide, schedule
  <2>2. QED
    BY <1>1, <2>1
<1>5. CASE pid \notin Pids(s) /\ d.state # Untracked
  <2> DEFINE t == Append(s, e)
  <2>1. Decide(s, pid, d) = t
    BY <1>5 DEF Decide, schedule
  <2>2. e \in E /\ e.pid = pid
    BY <1>5
  <2> HIDE DEF e
  <2>3. /\ t \in Seq(E)
        /\ Len(t) = Len(s) + 1
        /\ \A k \in 1..Len(s) : t[k] = s[k]
        /\ t[Len(s) + 1] = e
    BY <2>2, AppendProperties
  <2>4. DOMAIN t = 1..Len(s) + 1
    BY <2>3, LenProperties
  <2> HIDE DEF t
  <2>5. \A k \in 1..Len(s) : s[k].pid # pid
    BY <1>1, <1>5 DEF Pids
  <2>6. Unique(t)
    BY <1>1, <2>2, <2>3, <2>4, <2>5 DEF Unique
  <2>7. Pids(t) \subseteq Pids(s) \cup {pid}
    BY <1>1, <2>2, <2>3, <2>4 DEF Pids
  <2>8. QED
    BY <1>1, <1>5, <2>1, <2>3, <2>6, <2>7
<1>6. QED
  BY <1>2, <1>3, <1>4, <1>5

-----------------------------------------------------------------------------
(* What a decision about pid must satisfy to be applied to a list s of      *)
(* entries E with the given capacity: the entry it leaves is well formed,   *)
(* and it starts to track an identifier only when there is room.            *)
Applicable(s, E, capacity, pid, d) ==
    d.state # Untracked =>
        /\ [pid |-> pid, state |-> d.state, mode |-> d.mode] \in E
        /\ pid \notin Pids(s) => Len(s) < capacity

(* The entry of a tracked identifier is an element of the list.             *)
LEMMA EntryProperties ==
    ASSUME NEW E, NEW s \in Seq(E), NEW pid \in Pids(s)
    PROVE  Entry(s, pid) \in E /\ Entry(s, pid).pid = pid
<1>1. Handle(s, pid) \in DOMAIN s /\ s[Handle(s, pid)].pid = pid
  BY HandleProperties
<1>2. QED
  BY <1>1, LenProperties, ElementOfSeq DEF Entry

(* Capacity reported as available is there.                                 *)
LEMMA CapacityProperties ==
    ASSUME NEW E, NEW s \in Seq(E), NEW capacity \in Nat,
           available_capacity(s, capacity)
    PROVE  Len(s) < capacity
<1>1. Len(s) \in Nat
  BY LenProperties
<1>2. QED
  BY <1>1, PidMaxAssumption DEF available_capacity

(* Every operation on an inbound publication decides something applicable.  *)
LEMMA InboundDecisions ==
    ASSUME NEW s \in Seq(PeerEntry), NEW pid \in PacketIdentifier
    PROVE  LET ok(d) == Applicable(s, PeerEntry, RECEIVE_MAXIMUM, pid, d)
           IN  /\ \A qos \in {1, 2}, mode \in AckMode : ok(inbound_publish(s, pid, qos, mode))
               /\ \A rc \in AckRecReasonCode : ok(outbound_pubrec(s, pid, rc))
               /\ \A rc \in RelCompReasonCode : ok(inbound_pubrel(s, pid, rc))
               /\ ok(outbound_puback(s, pid))
               /\ ok(outbound_pubcomp(s, pid))
<1> DEFINE ok(d) == Applicable(s, PeerEntry, RECEIVE_MAXIMUM, pid, d)
<1>1. ASSUME pid \in Pids(s), NEW e, e = Entry(s, pid)
      PROVE  /\ \A qos \in {1, 2} : ok(h_inbound_republish(e, qos))
             /\ \A rc \in AckRecReasonCode : ok(h_outbound_pubrec(e, rc))
             /\ \A rc \in RelCompReasonCode : ok(h_inbound_pubrel(e, rc))
             /\ ok(h_outbound_puback(e))
             /\ ok(h_outbound_pubcomp(e))
  <2>1. e \in PeerEntry /\ e.pid = pid
    BY <1>1, EntryProperties
  <2> USE DEF Applicable, PeerEntry, PeerPublishState, PeerQoS1, PeerQoS2, AckMode,
              Automatic, Manual, Untracked, NoCode, Outcome, Nop, Removed,
              ProtocolError, Ok, Err
  <2>2. \A qos \in {1, 2} : ok(h_inbound_republish(e, qos))
    <3>1. ok(h_inbound_republish(e, 1))
      BY <1>1, <2>1 DEF h_inbound_republish
    <3>2. ok(h_inbound_republish(e, 2))
      BY <1>1, <2>1 DEF h_inbound_republish
    <3>3. QED
      BY <3>1, <3>2
  <2>3. \A rc \in AckRecReasonCode : ok(h_outbound_pubrec(e, rc))
    BY <1>1, <2>1 DEF h_outbound_pubrec, is_erroneous
  <2>4. \A rc \in RelCompReasonCode : ok(h_inbound_pubrel(e, rc))
    BY <1>1, <2>1 DEF h_inbound_pubrel, is_erroneous
  <2>5. ok(h_outbound_puback(e))
    BY <1>1, <2>1 DEF h_outbound_puback
  <2>6. ok(h_outbound_pubcomp(e))
    BY <1>1, <2>1 DEF h_outbound_pubcomp
  <2>7. QED
    BY <2>2, <2>3, <2>4, <2>5, <2>6
<1>2. \A response, rc, event : ok(Unknown(response, rc, event))
  BY DEF Applicable, Unknown, Outcome
<1>3. ASSUME NEW qos \in {1, 2}, NEW mode \in AckMode, available_capacity(s, RECEIVE_MAXIMUM)
      PROVE  ok(new_publish(qos, mode))
  <2>1. Len(s) < RECEIVE_MAXIMUM
    BY <1>3, CapacityAssumption, CapacityProperties
  <2>2. QED
    BY <2>1 DEF Applicable, PeerEntry, PeerPublishState, PeerQoS1, PeerQoS2, AckMode,
                Automatic, Manual, Untracked, NoCode, Outcome, new_publish
<1> HIDE DEF ok
<1>4. \A qos \in {1, 2}, mode \in AckMode : ok(inbound_publish(s, pid, qos, mode))
  BY <1>1, <1>2, <1>3 DEF inbound_publish
<1>5. \A rc \in AckRecReasonCode : ok(outbound_pubrec(s, pid, rc))
  BY <1>1, <1>2 DEF outbound_pubrec
<1>6. \A rc \in RelCompReasonCode : ok(inbound_pubrel(s, pid, rc))
  BY <1>1, <1>2 DEF inbound_pubrel
<1>7. ok(outbound_puback(s, pid)) /\ ok(outbound_pubcomp(s, pid))
  BY <1>1, <1>2 DEF outbound_puback, outbound_pubcomp
<1>8. QED
  BY <1>4, <1>5, <1>6, <1>7 DEF ok

(* Every operation on an outbound publication decides something applicable. *)
LEMMA OutboundDecisions ==
    ASSUME NEW s \in Seq(LocalEntry), NEW pid \in PacketIdentifier
    PROVE  LET ok(d) == Applicable(s, LocalEntry, SEND_MAXIMUM, pid, d)
           IN  /\ \A qos \in {1, 2} : ok(outbound_republish(s, pid, qos))
               /\ \A rc \in AckRecReasonCode : ok(inbound_puback(s, pid, rc))
               /\ \A rc \in AckRecReasonCode : ok(inbound_pubrec(s, pid, rc))
               /\ \A rc \in RelCompReasonCode : ok(inbound_pubcomp(s, pid, rc))
               /\ ok(outbound_pubrel(s, pid))
               /\ \A qos \in {1, 2}, mode \in AckMode : ok(outbound_publish(s, qos, mode))
<1> DEFINE ok(d) == Applicable(s, LocalEntry, SEND_MAXIMUM, pid, d)
<1>1. ASSUME pid \in Pids(s), NEW e, e = Entry(s, pid)
      PROVE  /\ \A qos \in {1, 2} : ok(h_outbound_republish(e, qos))
             /\ \A rc \in AckRecReasonCode : ok(h_inbound_puback(e, rc))
             /\ \A rc \in AckRecReasonCode : ok(h_inbound_pubrec(e, rc))
             /\ \A rc \in RelCompReasonCode : ok(h_inbound_pubcomp(e, rc))
             /\ ok(h_outbound_pubrel(e))
  <2>1. e \in LocalEntry /\ e.pid = pid
    BY <1>1, EntryProperties
  <2> USE DEF Applicable, LocalEntry, LocalPublishState, LocalQoS1, LocalQoS2, AckMode,
              Automatic, Manual, Untracked, NoCode, Outcome, Nop, Removed,
              ProtocolError, Ok, Err
  <2>2. ok(h_outbound_republish(e, 1)) /\ ok(h_outbound_republish(e, 2))
    BY <1>1, <2>1 DEF h_outbound_republish
  <2>3. \A rc \in AckRecReasonCode : ok(h_inbound_puback(e, rc))
    BY <1>1, <2>1 DEF h_inbound_puback, is_erroneous
  <2>4. \A rc \in AckRecReasonCode : ok(h_inbound_pubrec(e, rc))
    BY <1>1, <2>1 DEF h_inbound_pubrec, is_erroneous
  <2>5. \A rc \in RelCompReasonCode : ok(h_inbound_pubcomp(e, rc))
    BY <1>1, <2>1 DEF h_inbound_pubcomp, is_erroneous
  <2>6. ok(h_outbound_pubrel(e))
    BY <1>1, <2>1 DEF h_outbound_pubrel
  <2>7. QED
    BY <2>2, <2>3, <2>4, <2>5, <2>6
<1>2. \A response, rc, event : ok(Unknown(response, rc, event))
  BY DEF Applicable, Unknown, Outcome
<1>3. ASSUME NEW qos \in {1, 2}, NEW mode \in AckMode, available_capacity(s, SEND_MAXIMUM)
      PROVE  ok(Ok("AwaitAck", Automatic)) /\ ok(Ok("AwaitRec", mode))
  <2>1. Len(s) < SEND_MAXIMUM
    BY <1>3, CapacityAssumption, CapacityProperties
  <2>2. QED
    BY <2>1 DEF Applicable, LocalEntry, LocalPublishState, LocalQoS1, LocalQoS2, AckMode,
                Automatic, Manual, Untracked, NoCode, Outcome, Ok
<1> HIDE DEF ok
<1>4. \A qos \in {1, 2} : ok(outbound_republish(s, pid, qos))
  BY <1>1, <1>2 DEF outbound_republish
<1>5. \A rc \in AckRecReasonCode : ok(inbound_puback(s, pid, rc)) /\ ok(inbound_pubrec(s, pid, rc))
  BY <1>1, <1>2 DEF inbound_puback, inbound_pubrec
<1>6. \A rc \in RelCompReasonCode : ok(inbound_pubcomp(s, pid, rc))
  BY <1>1, <1>2 DEF inbound_pubcomp
<1>7. ok(outbound_pubrel(s, pid))
  BY <1>1, <1>2 DEF outbound_pubrel
<1>8. \A qos \in {1, 2}, mode \in AckMode : ok(outbound_publish(s, qos, mode))
  BY <1>2, <1>3 DEF outbound_publish
<1>9. QED
  BY <1>4, <1>5, <1>6, <1>7, <1>8 DEF ok

(* A reconnection keeps every entry, its position and its identifier.       *)
LEMMA ReconnectProperties ==
    /\ \A s \in Seq(PeerEntry) :
         /\ ReconnectPeer(s) \in Seq(PeerEntry)
         /\ Len(ReconnectPeer(s)) = Len(s)
         /\ DOMAIN ReconnectPeer(s) = DOMAIN s
         /\ \A i \in DOMAIN s : ReconnectPeer(s)[i].pid = s[i].pid
    /\ \A s \in Seq(LocalEntry) :
         /\ ReconnectLocal(s) \in Seq(LocalEntry)
         /\ Len(ReconnectLocal(s)) = Len(s)
         /\ DOMAIN ReconnectLocal(s) = DOMAIN s
         /\ \A i \in DOMAIN s : ReconnectLocal(s)[i].pid = s[i].pid
<1>1. \A e \in PeerEntry : PeerReconnected(e) \in PeerEntry /\ PeerReconnected(e).pid = e.pid
  BY DEF PeerEntry, PeerReconnected, PeerPublishState, PeerQoS1, PeerQoS2, AckMode,
         Automatic, Manual
<1>2. \A e \in LocalEntry : LocalReconnected(e) \in LocalEntry /\ LocalReconnected(e).pid = e.pid
  BY DEF LocalEntry, LocalReconnected, LocalPublishState, LocalQoS1, LocalQoS2, AckMode,
         Automatic, Manual
<1>3. ASSUME NEW s \in Seq(PeerEntry)
      PROVE  /\ ReconnectPeer(s) \in Seq(PeerEntry)
             /\ Len(ReconnectPeer(s)) = Len(s)
             /\ DOMAIN ReconnectPeer(s) = DOMAIN s
             /\ \A i \in DOMAIN s : ReconnectPeer(s)[i].pid = s[i].pid
  BY <1>1 DEF ReconnectPeer
<1>4. ASSUME NEW s \in Seq(LocalEntry)
      PROVE  /\ ReconnectLocal(s) \in Seq(LocalEntry)
             /\ Len(ReconnectLocal(s)) = Len(s)
             /\ DOMAIN ReconnectLocal(s) = DOMAIN s
             /\ \A i \in DOMAIN s : ReconnectLocal(s)[i].pid = s[i].pid
  BY <1>2 DEF ReconnectLocal
<1>5. QED
  BY <1>3, <1>4

(* Pushing a fresh identifier onto a subscription list, and removing one.   *)
LEMMA PidListProperties ==
    ASSUME NEW s \in Seq(PacketIdentifier), UniquePids(s), NEW pid \in PacketIdentifier
    PROVE  /\ pid \notin Range(s) =>
                /\ Append(s, pid) \in Seq(PacketIdentifier)
                /\ UniquePids(Append(s, pid))
                /\ Range(Append(s, pid)) = Range(s) \cup {pid}
                /\ Len(Append(s, pid)) = Len(s) + 1
           /\ pid \in Range(s) =>
                /\ RemovePid(s, pid) \in Seq(PacketIdentifier)
                /\ UniquePids(RemovePid(s, pid))
                /\ Range(RemovePid(s, pid)) = Range(s) \ {pid}
                /\ Len(RemovePid(s, pid)) = Len(s) - 1
<1>1. Len(s) \in Nat /\ DOMAIN s = 1..Len(s)
  BY LenProperties
<1>2. ASSUME pid \notin Range(s)
      PROVE  /\ Append(s, pid) \in Seq(PacketIdentifier)
             /\ UniquePids(Append(s, pid))
             /\ Range(Append(s, pid)) = Range(s) \cup {pid}
             /\ Len(Append(s, pid)) = Len(s) + 1
  <2> DEFINE t == Append(s, pid)
  <2>1. /\ t \in Seq(PacketIdentifier)
        /\ Len(t) = Len(s) + 1
        /\ \A k \in 1..Len(s) : t[k] = s[k]
        /\ t[Len(s) + 1] = pid
    BY AppendProperties
  <2>2. DOMAIN t = 1..Len(s) + 1
    BY <2>1, LenProperties
  <2> HIDE DEF t
  <2>3. UniquePids(t)
    BY <1>1, <1>2, <2>1, <2>2 DEF UniquePids, Range
  <2>4. Range(t) = Range(s) \cup {pid}
    BY <1>1, <2>1, <2>2 DEF Range
  <2>5. QED
    BY <2>1, <2>3, <2>4 DEF t
<1>3. ASSUME pid \in Range(s)
      PROVE  /\ RemovePid(s, pid) \in Seq(PacketIdentifier)
             /\ UniquePids(RemovePid(s, pid))
             /\ Range(RemovePid(s, pid)) = Range(s) \ {pid}
             /\ Len(RemovePid(s, pid)) = Len(s) - 1
  <2> DEFINE i == Position(s, pid)
             t == swap_remove(s, i)
  <2>1. i \in DOMAIN s /\ s[i] = pid
    BY <1>3 DEF Position, Range
  <2>2. /\ t \in Seq(PacketIdentifier)
        /\ Len(t) = Len(s) - 1
        /\ \A k \in 1..Len(s) - 1 : t[k] = IF k = i THEN s[Len(s)] ELSE s[k]
    BY <2>1, SwapRemoveProperties, Zenon
  <2>3. DOMAIN t = 1..Len(s) - 1
    BY <2>2, LenProperties
  <2> HIDE DEF t, i
  <2>4. UniquePids(t)
    BY <1>1, <2>1, <2>2, <2>3 DEF UniquePids
  <2>5. Range(t) = Range(s) \ {pid}
    <3>1. \A k \in DOMAIN t : \E j \in DOMAIN s : j # i /\ t[k] = s[j]
      BY <1>1, <2>1, <2>2, <2>3
    <3>2. \A j \in DOMAIN s : j # i /\ j # Len(s) => j \in DOMAIN t /\ t[j] = s[j]
      BY <1>1, <2>1, <2>2, <2>3
    <3>3. i # Len(s) => i \in DOMAIN t /\ t[i] = s[Len(s)]
      BY <1>1, <2>1, <2>2, <2>3
    <3>4. \A j \in DOMAIN s : j # i => \E k \in DOMAIN t : t[k] = s[j]
      BY <3>2, <3>3
    <3>5. QED
      BY <2>1, <3>1, <3>4 DEF Range, UniquePids
  <2>6. QED
    BY <2>2, <2>4, <2>5 DEF t, i, RemovePid
<1>4. QED
  BY <1>2, <1>3

-----------------------------------------------------------------------------
(* The inductive invariant: uniqueness needs the lists to be sequences of   *)
(* entries, and the bound on a list's length needs its identifiers to be    *)
(* unique, so the two are proved together.                                  *)
Inv == TypeOK /\ UniqueIdentifiers

(* An operation on an inbound publication.                                  *)
LEMMA InboundStep ==
    ASSUME Inv, NEW pid \in PacketIdentifier, NEW d,
           Applicable(inbound_publishes, PeerEntry, RECEIVE_MAXIMUM, pid, d),
           Inbound(pid, d)
    PROVE  Inv'
<1> DEFINE s == inbound_publishes
           t == Decide(inbound_publishes, pid, d)
<1>1. s \in Seq(PeerEntry) /\ Unique(s) /\ Len(s) <= RECEIVE_MAXIMUM
  BY DEF Inv, TypeOK, UniqueIdentifiers
<1>2. Len(s) \in Nat /\ RECEIVE_MAXIMUM \in Nat
  BY <1>1, LenProperties, CapacityAssumption, PidMaxAssumption
<1>3. /\ t \in Seq(PeerEntry)
      /\ Unique(t)
      /\ \/ Len(t) <= Len(s)
         \/ pid \notin Pids(s) /\ d.state # Untracked /\ Len(t) = Len(s) + 1
  BY <1>1, DecideProperties DEF Applicable
<1>4. Len(t) \in Nat
  BY <1>3, LenProperties
<1>5. Len(t) <= RECEIVE_MAXIMUM
  <2> HIDE DEF s, t
  <2>1. pid \notin Pids(s) /\ d.state # Untracked => Len(s) < RECEIVE_MAXIMUM
    BY DEF Applicable, s
  <2>2. QED
    BY <1>1, <1>2, <1>3, <1>4, <2>1
<1>6. inbound_publishes' = t /\ UNCHANGED <<subs, unsubs, outbound_publishes>>
  BY DEF Inbound
<1> HIDE DEF t, s
<1>7. QED
  BY <1>3, <1>5, <1>6 DEF Inv, TypeOK, UniqueIdentifiers

(* An operation on an outbound publication: it starts to track an           *)
(* identifier only through a FreeHandle.                                    *)
LEMMA OutboundStep ==
    ASSUME Inv, NEW pid \in PacketIdentifier, NEW d,
           Applicable(outbound_publishes, LocalEntry, SEND_MAXIMUM, pid, d),
           pid \in Pids(outbound_publishes) \/ d.state = Untracked \/ FreeHandle(pid),
           Outbound(pid, d)
    PROVE  Inv'
<1> DEFINE s == outbound_publishes
           t == Decide(outbound_publishes, pid, d)
<1>1. s \in Seq(LocalEntry) /\ Unique(s) /\ Len(s) <= SEND_MAXIMUM
  BY DEF Inv, TypeOK, UniqueIdentifiers
<1>2. Len(s) \in Nat /\ SEND_MAXIMUM \in Nat
  BY <1>1, LenProperties, CapacityAssumption
<1>3. /\ t \in Seq(LocalEntry)
      /\ Unique(t)
      /\ Pids(t) \subseteq Pids(s) \cup {pid}
      /\ d.state = Untracked => Pids(t) \subseteq Pids(s)
      /\ \/ Len(t) <= Len(s)
         \/ pid \notin Pids(s) /\ d.state # Untracked /\ Len(t) = Len(s) + 1
  BY <1>1, DecideProperties DEF Applicable
<1>4. Len(t) \in Nat
  BY <1>3, LenProperties
<1>5. Len(t) <= SEND_MAXIMUM
  <2> HIDE DEF s, t
  <2>1. pid \notin Pids(s) /\ d.state # Untracked => Len(s) < SEND_MAXIMUM
    BY DEF Applicable, s
  <2>2. QED
    BY <1>1, <1>2, <1>3, <1>4, <2>1
<1>6. Pids(t) \subseteq Pids(s) \/ pid \notin Range(subs) \cup Range(unsubs)
  BY <1>3 DEF FreeHandle, IsFreeHandle
<1>7. outbound_publishes' = t /\ UNCHANGED <<subs, unsubs, inbound_publishes>>
  BY DEF Outbound
<1>8. Pids(s) \cap Range(subs) = {} /\ Pids(s) \cap Range(unsubs) = {}
  BY DEF Inv, UniqueIdentifiers
<1> HIDE DEF t, s
<1>9. Pids(t) \cap Range(subs) = {} /\ Pids(t) \cap Range(unsubs) = {}
  BY <1>3, <1>6, <1>8
<1>10. QED
  BY <1>3, <1>5, <1>7, <1>9 DEF Inv, TypeOK, UniqueIdentifiers

(* A subscription or unsubscription starts, through a FreeHandle.           *)
LEMMA RequestStep ==
    ASSUME Inv, NEW pid \in PacketIdentifier, OutboundSub(pid) \/ OutboundUnsub(pid)
    PROVE  Inv'
<1>1. /\ subs \in Seq(PacketIdentifier) /\ UniquePids(subs) /\ Len(subs) \in Nat
      /\ unsubs \in Seq(PacketIdentifier) /\ UniquePids(unsubs) /\ Len(unsubs) \in Nat
      /\ SUBSCRIBE_MAXIMUM \in Nat
  BY LenProperties, CapacityAssumption, PidMaxAssumption DEF Inv, TypeOK, UniqueIdentifiers
<1>2. pid \notin Pids(outbound_publishes) \cup Range(subs) \cup Range(unsubs)
  BY DEF OutboundSub, OutboundUnsub, FreeHandle, IsFreeHandle
<1>3. CASE OutboundSub(pid)
  <2>1. /\ subs' \in Seq(PacketIdentifier)
        /\ UniquePids(subs')
        /\ Range(subs') = Range(subs) \cup {pid}
        /\ Len(subs') = Len(subs) + 1
    BY <1>1, <1>2, <1>3, PidListProperties DEF OutboundSub
  <2>2. Len(subs) < SUBSCRIBE_MAXIMUM /\ UNCHANGED <<unsubs, inbound_publishes, outbound_publishes>>
    BY <1>3 DEF OutboundSub
  <2>3. TypeOK'
    BY <1>1, <2>1, <2>2 DEF Inv, TypeOK
  <2>4. QED
    BY <1>2, <2>1, <2>2, <2>3 DEF Inv, UniqueIdentifiers
<1>4. CASE OutboundUnsub(pid)
  <2>1. /\ unsubs' \in Seq(PacketIdentifier)
        /\ UniquePids(unsubs')
        /\ Range(unsubs') = Range(unsubs) \cup {pid}
        /\ Len(unsubs') = Len(unsubs) + 1
    BY <1>1, <1>2, <1>4, PidListProperties DEF OutboundUnsub
  <2>2. Len(unsubs) < SUBSCRIBE_MAXIMUM /\ UNCHANGED <<subs, inbound_publishes, outbound_publishes>>
    BY <1>4 DEF OutboundUnsub
  <2>3. TypeOK'
    BY <1>1, <2>1, <2>2 DEF Inv, TypeOK
  <2>4. QED
    BY <1>2, <2>1, <2>2, <2>3 DEF Inv, UniqueIdentifiers
<1>5. QED
  BY <1>3, <1>4

(* A SUBACK or UNSUBACK ends a subscription or unsubscription.              *)
LEMMA ResponseStep ==
    ASSUME Inv, NEW pid \in PacketIdentifier, InboundSuback(pid) \/ InboundUnsuback(pid)
    PROVE  Inv'
<1>1. /\ subs \in Seq(PacketIdentifier) /\ UniquePids(subs) /\ Len(subs) \in Nat
      /\ unsubs \in Seq(PacketIdentifier) /\ UniquePids(unsubs) /\ Len(unsubs) \in Nat
      /\ SUBSCRIBE_MAXIMUM \in Nat
  BY LenProperties, CapacityAssumption, PidMaxAssumption DEF Inv, TypeOK, UniqueIdentifiers
<1>2. CASE InboundSuback(pid)
  <2>1. /\ subs' \in Seq(PacketIdentifier)
        /\ UniquePids(subs')
        /\ Range(subs') \subseteq Range(subs)
        /\ Len(subs') = Len(subs) - 1
    BY <1>1, <1>2, PidListProperties DEF InboundSuback
  <2>2. UNCHANGED <<unsubs, inbound_publishes, outbound_publishes>>
    BY <1>2 DEF InboundSuback
  <2>3. TypeOK'
    BY <1>1, <2>1, <2>2 DEF Inv, TypeOK
  <2>4. QED
    BY <2>1, <2>2, <2>3 DEF Inv, UniqueIdentifiers
<1>3. CASE InboundUnsuback(pid)
  <2>1. /\ unsubs' \in Seq(PacketIdentifier)
        /\ UniquePids(unsubs')
        /\ Range(unsubs') \subseteq Range(unsubs)
        /\ Len(unsubs') = Len(unsubs) - 1
    BY <1>1, <1>3, PidListProperties DEF InboundUnsuback
  <2>2. UNCHANGED <<subs, inbound_publishes, outbound_publishes>>
    BY <1>3 DEF InboundUnsuback
  <2>3. TypeOK'
    BY <1>1, <2>1, <2>2 DEF Inv, TypeOK
  <2>4. QED
    BY <2>1, <2>2, <2>3 DEF Inv, UniqueIdentifiers
<1>4. QED
  BY <1>2, <1>3

(* Empty lists are well formed, and share no identifier with any list.      *)
LEMMA EmptyLists ==
    /\ \A E : <<>> \in Seq(E)
    /\ Len(<<>>) = 0
    /\ Unique(<<>>) /\ UniquePids(<<>>)
    /\ Pids(<<>>) = {} /\ Range(<<>>) = {}
  BY DEF Unique, UniquePids, Pids, Range

(* A new session starts empty.                                              *)
LEMMA ClearStep == Clear => Inv'
  BY EmptyLists, CapacityAssumption, PidMaxAssumption
     DEF Clear, Inv, TypeOK, UniqueIdentifiers

(* A resumed session keeps its publications.                                *)
LEMMA ReconnectStep ==
    ASSUME Inv, Reconnect
    PROVE  Inv'
<1> DEFINE in == ReconnectPeer(inbound_publishes)
           out == ReconnectLocal(outbound_publishes)
<1>1. /\ inbound_publishes \in Seq(PeerEntry)
      /\ outbound_publishes \in Seq(LocalEntry)
  BY DEF Inv, TypeOK
<1>2. /\ in \in Seq(PeerEntry)
      /\ Len(in) = Len(inbound_publishes)
      /\ DOMAIN in = DOMAIN inbound_publishes
      /\ \A i \in DOMAIN inbound_publishes : in[i].pid = inbound_publishes[i].pid
  BY <1>1, ReconnectProperties
<1>3. /\ out \in Seq(LocalEntry)
      /\ Len(out) = Len(outbound_publishes)
      /\ DOMAIN out = DOMAIN outbound_publishes
      /\ \A i \in DOMAIN outbound_publishes : out[i].pid = outbound_publishes[i].pid
  BY <1>1, ReconnectProperties
<1> HIDE DEF in, out
<1>4. Unique(in) /\ Unique(out)
  BY <1>2, <1>3 DEF Inv, UniqueIdentifiers, Unique
<1>5. inbound_publishes' = in /\ outbound_publishes' = out /\ subs' = <<>> /\ unsubs' = <<>>
  BY DEF Reconnect, in, out
<1>6. TypeOK'
  BY <1>2, <1>3, <1>5, EmptyLists, CapacityAssumption, PidMaxAssumption DEF Inv, TypeOK
<1>7. UniqueIdentifiers'
  BY <1>4, <1>5, EmptyLists DEF UniqueIdentifiers
<1>8. QED
  BY <1>6, <1>7 DEF Inv

(* An operation that finds no entry tracks none.                            *)
LEMMA UnknownOutbound ==
    ASSUME NEW s, NEW pid, pid \notin Pids(s)
    PROVE  /\ \A qos : outbound_republish(s, pid, qos).state = Untracked
           /\ \A rc : /\ inbound_puback(s, pid, rc).state = Untracked
                      /\ inbound_pubrec(s, pid, rc).state = Untracked
                      /\ inbound_pubcomp(s, pid, rc).state = Untracked
           /\ outbound_pubrel(s, pid).state = Untracked
  BY DEF outbound_republish, inbound_puback, inbound_pubrec, inbound_pubcomp,
         outbound_pubrel, Unknown, Outcome

(* No operation of the session breaks the invariant.                        *)
LEMMA NextPreservesInv ==
    ASSUME Inv, [Next]_vars
    PROVE  Inv'
<1>1. inbound_publishes \in Seq(PeerEntry) /\ outbound_publishes \in Seq(LocalEntry)
  BY DEF Inv, TypeOK
<1>2. ASSUME NEW pid \in PacketIdentifier, NEW qos \in {1, 2}, NEW mode \in AckMode,
             InboundPublish(pid, qos, mode)
      PROVE  Inv'
  BY <1>1, <1>2, InboundDecisions, InboundStep DEF InboundPublish
<1>3. ASSUME NEW pid \in PacketIdentifier, NEW qos \in {1, 2}, NEW mode \in AckMode,
             OutboundPublish(pid, qos, mode)
      PROVE  Inv'
  <2> DEFINE d == outbound_publish(outbound_publishes, qos, mode)
  <2>1. FreeHandle(pid) /\ pid \notin Pids(outbound_publishes)
    BY <1>3 DEF OutboundPublish, FreeHandle, IsFreeHandle
  <2>2. Outbound(pid, d)
    BY <1>3, <2>1 DEF OutboundPublish, Outbound, Decide
  <2>3. Applicable(outbound_publishes, LocalEntry, SEND_MAXIMUM, pid, d)
    BY <1>1, OutboundDecisions
  <2>4. QED
    BY <2>1, <2>2, <2>3, OutboundStep
<1>4. ASSUME NEW pid \in PacketIdentifier, NEW rc \in AckRecReasonCode, OutboundPubrec(pid, rc)
      PROVE  Inv'
  BY <1>1, <1>4, InboundDecisions, InboundStep DEF OutboundPubrec
<1>5. ASSUME NEW pid \in PacketIdentifier, NEW rc \in AckRecReasonCode, InboundPuback(pid, rc)
      PROVE  Inv'
  BY <1>1, <1>5, OutboundDecisions, UnknownOutbound, OutboundStep DEF InboundPuback
<1>6. ASSUME NEW pid \in PacketIdentifier, NEW rc \in AckRecReasonCode, InboundPubrec(pid, rc)
      PROVE  Inv'
  BY <1>1, <1>6, OutboundDecisions, UnknownOutbound, OutboundStep DEF InboundPubrec
<1>7. ASSUME NEW pid \in PacketIdentifier, NEW rc \in RelCompReasonCode, InboundPubrel(pid, rc)
      PROVE  Inv'
  BY <1>1, <1>7, InboundDecisions, InboundStep DEF InboundPubrel
<1>8. ASSUME NEW pid \in PacketIdentifier, NEW rc \in RelCompReasonCode, InboundPubcomp(pid, rc)
      PROVE  Inv'
  BY <1>1, <1>8, OutboundDecisions, UnknownOutbound, OutboundStep DEF InboundPubcomp
<1>9. ASSUME NEW pid \in PacketIdentifier, NEW qos \in {1, 2}, OutboundRepublish(pid, qos)
      PROVE  Inv'
  BY <1>1, <1>9, OutboundDecisions, UnknownOutbound, OutboundStep DEF OutboundRepublish
<1>10. ASSUME NEW pid \in PacketIdentifier, OutboundPuback(pid) \/ OutboundPubcomp(pid)
       PROVE  Inv'
  BY <1>1, <1>10, InboundDecisions, InboundStep DEF OutboundPuback, OutboundPubcomp
<1>11. ASSUME NEW pid \in PacketIdentifier, OutboundPubrel(pid)
       PROVE  Inv'
  BY <1>1, <1>11, OutboundDecisions, UnknownOutbound, OutboundStep DEF OutboundPubrel
<1>12. CASE UNCHANGED vars
  BY <1>12 DEF vars, Inv, TypeOK, UniqueIdentifiers
<1>13. QED
  BY <1>2, <1>3, <1>4, <1>5, <1>6, <1>7, <1>8, <1>9, <1>10, <1>11, <1>12,
     RequestStep, ResponseStep, ClearStep, ReconnectStep DEF Next

(* In every reachable state of the session both parts of the invariant      *)
(* hold.                                                                    *)
THEOREM Invariance == Spec => []Inv
<1>1. Init => Inv
  BY EmptyLists, CapacityAssumption, PidMaxAssumption
     DEF Init, Inv, TypeOK, UniqueIdentifiers
<1>2. Inv /\ [Next]_vars => Inv'
  BY NextPreservesInv
<1>3. QED
  BY <1>1, <1>2, PTL DEF Spec

(* The lists never hold a malformed entry and never outgrow their capacity, *)
(* whatever the capacities are: no push of the session panics.              *)
THEOREM TypeCorrect == Spec => []TypeOK
  BY Invariance, PTL DEF Inv

(* An identifier is never tracked twice, whatever the number of identifiers *)
(* and however often they are reused: the linear search behind every handle *)
(* finds the only entry there is.                                           *)
THEOREM IdentifiersUnique == Spec => []UniqueIdentifiers
  BY Invariance, PTL DEF Inv

-----------------------------------------------------------------------------
(* The one entry of an identifier is the entry its handle finds.            *)
LEMMA UniqueEntry ==
    ASSUME NEW s, Unique(s), NEW i \in DOMAIN s
    PROVE  s[i].pid \in Pids(s) /\ Entry(s, s[i].pid) = s[i]
<1>1. s[i].pid \in Pids(s)
  BY DEF Pids
<1>2. Handle(s, s[i].pid) \in DOMAIN s /\ s[Handle(s, s[i].pid)].pid = s[i].pid
  BY <1>1, HandleProperties
<1>3. Handle(s, s[i].pid) = i
  BY <1>2 DEF Unique
<1>4. QED
  BY <1>1, <1>3 DEF Entry

(* List t is list s after the decision d about pid: pid is tracked in the   *)
(* decided state, or not at all, and the entries of the others are what     *)
(* they were.                                                               *)
Decided(s, t, pid, d) ==
    /\ d.state = Untracked => pid \notin Pids(t)
    /\ d.state # Untracked =>
         /\ pid \in Pids(t)
         /\ Entry(t, pid) = [pid |-> pid, state |-> d.state, mode |-> d.mode]
    /\ \A q : q # pid => (q \in Pids(t) <=> q \in Pids(s))
    /\ \A q : q # pid /\ q \in Pids(s) => Entry(t, q) = Entry(s, q)

(* A decision about one identifier leaves the entries of the others alone,  *)
(* although swap_remove may have moved one.                                 *)
LEMMA DecideEntries ==
    ASSUME NEW E, NEW s \in Seq(E), Unique(s), NEW pid, NEW d,
           d.state # Untracked =>
               [pid |-> pid, state |-> d.state, mode |-> d.mode] \in E
    PROVE  Decided(s, Decide(s, pid, d), pid, d)
<1> DEFINE e == [pid |-> pid, state |-> d.state, mode |-> d.mode]
           t == Decide(s, pid, d)
<1>1. Len(s) \in Nat /\ DOMAIN s = 1..Len(s)
  BY LenProperties
<1>2. t \in Seq(E) /\ Unique(t)
  BY DecideProperties
<1>3. ASSUME \A j \in DOMAIN s : s[j].pid # pid => \E k \in DOMAIN t : t[k] = s[j],
             \A k \in DOMAIN t : t[k].pid # pid => \E j \in DOMAIN s : t[k] = s[j]
      PROVE  /\ \A q : q # pid => (q \in Pids(t) <=> q \in Pids(s))
             /\ \A q : q # pid /\ q \in Pids(s) => Entry(t, q) = Entry(s, q)
  <2> HIDE DEF t
  <2>1. ASSUME NEW q \in Pids(s), q # pid
        PROVE  q \in Pids(t) /\ Entry(t, q) = Entry(s, q)
    <3>1. PICK j \in DOMAIN s : s[j].pid = q
      BY DEF Pids
    <3>2. PICK k \in DOMAIN t : t[k] = s[j]
      BY <1>3, <2>1, <3>1
    <3>3. QED
      BY <1>2, <3>1, <3>2, UniqueEntry
  <2>2. ASSUME NEW q \in Pids(t), q # pid
        PROVE  q \in Pids(s)
    BY <1>3, <2>2 DEF Pids
  <2>3. QED
    BY <2>1, <2>2
<1>4. CASE pid \in Pids(s) /\ d.state = Untracked
  <2> DEFINE i == Handle(s, pid)
  <2>1. t = swap_remove(s, i)
    BY <1>4 DEF Decide
  <2>2. i \in DOMAIN s /\ s[i].pid = pid
    BY <1>4, HandleProperties
  <2>3. /\ Len(t) = Len(s) - 1
        /\ \A k \in 1..Len(s) - 1 : t[k] = IF k = i THEN s[Len(s)] ELSE s[k]
    BY <2>1, <2>2, SwapRemoveProperties
  <2>4. DOMAIN t = 1..Len(s) - 1
    BY <1>2, <2>3, LenProperties
  <2> HIDE DEF t, i
  <2>5. \A k \in DOMAIN t : \E j \in DOMAIN s : j # i /\ t[k] = s[j]
    BY <1>1, <2>2, <2>3, <2>4
  <2>6. \A k \in DOMAIN t : t[k].pid # pid
    BY <2>2, <2>5 DEF Unique
  <2>7. ASSUME NEW j \in DOMAIN s, s[j].pid # pid
        PROVE  \E k \in DOMAIN t : t[k] = s[j]
    <3>1. j # i
      BY <2>2, <2>7
    <3>2. CASE j = Len(s)
      <4>1. i \in DOMAIN t /\ t[i] = s[j]
        BY <1>1, <2>2, <2>3, <2>4, <3>1, <3>2
      <4>2. QED
        BY <4>1
    <3>3. CASE j # Len(s)
      <4>1. j \in DOMAIN t /\ t[j] = s[j]
        BY <1>1, <2>3, <2>4, <3>1, <3>3
      <4>2. QED
        BY <4>1
    <3>4. QED
      BY <3>2, <3>3
  <2>8. pid \notin Pids(t)
    BY <2>6 DEF Pids
  <2>9. QED
    BY <1>3, <1>4, <2>5, <2>7, <2>8 DEF t, Decided
<1>5. CASE pid \in Pids(s) /\ d.state # Untracked
  <2> DEFINE i == Handle(s, pid)
  <2>1. t = [s EXCEPT ![i] = e]
    BY <1>5 DEF Decide
  <2>2. i \in DOMAIN s /\ s[i].pid = pid
    BY <1>5, HandleProperties
  <2>3. /\ DOMAIN t = DOMAIN s
        /\ t[i] = e
        /\ \A k \in DOMAIN s : k # i => t[k] = s[k]
    BY <1>1, <2>1, <2>2
  <2>4. e.pid = pid
    OBVIOUS
  <2> HIDE DEF t, i, e
  <2>5. pid \in Pids(t) /\ Entry(t, pid) = e
    BY <1>2, <2>2, <2>3, <2>4, UniqueEntry
  <2>6. \A j \in DOMAIN s : s[j].pid # pid => \E k \in DOMAIN t : t[k] = s[j]
    BY <2>2, <2>3
  <2>7. \A k \in DOMAIN t : t[k].pid # pid => \E j \in DOMAIN s : t[k] = s[j]
    BY <2>3, <2>4
  <2>8. QED
    BY <1>3, <1>5, <2>5, <2>6, <2>7 DEF t, e, Decided
<1>6. CASE pid \notin Pids(s) /\ d.state = Untracked
  <2>1. t = s
    BY <1>6 DEF Decide, schedule
  <2>2. QED
    BY <1>6, <2>1 DEF Decided
<1>7. CASE pid \notin Pids(s) /\ d.state # Untracked
  <2>1. t = Append(s, e)
    BY <1>7, SMTT(30) DEF Decide, schedule
  <2>2. e \in E /\ e.pid = pid
    BY <1>7
  <2> HIDE DEF e, t
  <2>3. /\ Len(t) = Len(s) + 1
        /\ \A k \in 1..Len(s) : t[k] = s[k]
        /\ t[Len(s) + 1] = e
    BY <2>1, <2>2, AppendProperties
  <2>4. DOMAIN t = 1..Len(s) + 1
    BY <1>2, <2>3, LenProperties
  <2>5. pid \in Pids(t) /\ Entry(t, pid) = e
    <3>1. Len(s) + 1 \in DOMAIN t
      BY <1>1, <2>4
    <3>2. QED
      BY <1>2, <2>2, <2>3, <3>1, UniqueEntry
  <2>6. \A j \in DOMAIN s : s[j].pid # pid => \E k \in DOMAIN t : t[k] = s[j]
    BY <1>1, <2>3, <2>4
  <2>7. \A k \in DOMAIN t : t[k].pid # pid => \E j \in DOMAIN s : t[k] = s[j]
    BY <1>1, <2>2, <2>3, <2>4
  <2>8. QED
    BY <1>3, <1>7, <2>5, <2>6, <2>7 DEF t, e, Decided
<1>8. QED
  BY <1>4, <1>5, <1>6, <1>7

(* What the session answers to a manual acknowledgement depends on the      *)
(* state of the entry alone.                                                *)
LEMMA ManualAnswers ==
    /\ \A s : \A pid \in Pids(s) :
         Entry(s, pid).state \in PeerPublishState =>
           /\ outbound_puback(s, pid).event = "Ok" <=> Entry(s, pid).state = "DueAck"
           /\ outbound_pubrec(s, pid, "Success").event = "Ok" <=> Entry(s, pid).state = "DueRec"
           /\ outbound_pubcomp(s, pid).event = "Ok" <=> Entry(s, pid).state = "DueComp"
    /\ \A s : \A pid \in Pids(s) :
         Entry(s, pid).state \in LocalPublishState =>
           (outbound_pubrel(s, pid).event = "Ok" <=> Entry(s, pid).state = "DueRel")
    /\ \A s, pid : pid \notin Pids(s) =>
         /\ outbound_puback(s, pid).event # "Ok"
         /\ outbound_pubrec(s, pid, "Success").event # "Ok"
         /\ outbound_pubcomp(s, pid).event # "Ok"
         /\ outbound_pubrel(s, pid).event # "Ok"
<1> USE DEF PeerPublishState, PeerQoS1, PeerQoS2, LocalPublishState, LocalQoS1, LocalQoS2,
            NoCode, Untracked, Outcome, Nop, Ok, Err, Unknown
<1>1. ASSUME NEW e, e.state \in PeerPublishState
      PROVE  /\ h_outbound_puback(e).event = "Ok" <=> e.state = "DueAck"
             /\ h_outbound_pubrec(e, "Success").event = "Ok" <=> e.state = "DueRec"
             /\ h_outbound_pubcomp(e).event = "Ok" <=> e.state = "DueComp"
  BY <1>1 DEF h_outbound_puback, h_outbound_pubrec, h_outbound_pubcomp, is_erroneous
<1>2. ASSUME NEW e, e.state \in LocalPublishState
      PROVE  h_outbound_pubrel(e).event = "Ok" <=> e.state = "DueRel"
  BY <1>2 DEF h_outbound_pubrel
<1>3. QED
  BY <1>1, <1>2 DEF outbound_puback, outbound_pubrec, outbound_pubcomp, outbound_pubrel

(* The states that the events of a received packet leave an entry in.       *)
LEMMA EventStates ==
    /\ \A e \in PeerEntry, qos \in {1, 2} :
         LET d == h_inbound_republish(e, qos)
             asked == d.mode = Manual /\ d.response = "None"
         IN  d.event \in {"Publish", "Duplicate"} =>
               /\ d.state \in PeerPublishState
               /\ d.state = "DueAck" <=> (asked /\ qos = 1)
               /\ d.state = "DueRec" <=> (asked /\ qos = 2)
    /\ \A mode \in AckMode, qos \in {1, 2} :
         LET d == new_publish(qos, mode)
             asked == d.mode = Manual /\ d.response = "None"
         IN  /\ d.state \in PeerPublishState \cup {Untracked}
             /\ d.state = "DueAck" <=> (asked /\ qos = 1)
             /\ d.state = "DueRec" <=> (asked /\ qos = 2)
    /\ \A e \in LocalEntry :
         LET d == h_inbound_pubrec(e, "Success")
         IN  d.event = "Received" =>
               d.state \in LocalPublishState /\ (d.state = "DueRel" <=> d.mode = Manual)
    /\ \A e \in PeerEntry :
         LET d == h_inbound_pubrel(e, "Success")
         IN  d.event = "Released" =>
               /\ d.state \in PeerPublishState \cup {Untracked}
               /\ d.state = "DueComp" <=> d.mode = Manual
<1> USE DEF PeerEntry, LocalEntry, PeerPublishState, PeerQoS1, PeerQoS2, LocalPublishState,
            LocalQoS1, LocalQoS2, AckMode, Automatic, Manual, NoCode, Untracked, Outcome, Nop,
            Removed, ProtocolError
<1>1. ASSUME NEW e \in PeerEntry, NEW qos \in {1, 2}
      PROVE  LET d == h_inbound_republish(e, qos)
                 asked == d.mode = Manual /\ d.response = "None"
             IN  d.event \in {"Publish", "Duplicate"} =>
                   /\ d.state \in PeerPublishState
                   /\ d.state = "DueAck" <=> (asked /\ qos = 1)
                   /\ d.state = "DueRec" <=> (asked /\ qos = 2)
  <2>1. CASE qos = 1
    BY <2>1 DEF h_inbound_republish
  <2>2. CASE qos = 2
    BY <2>2 DEF h_inbound_republish
  <2>3. QED
    BY <2>1, <2>2
<1>2. ASSUME NEW mode \in AckMode, NEW qos \in {1, 2}
      PROVE  LET d == new_publish(qos, mode)
                 asked == d.mode = Manual /\ d.response = "None"
             IN  /\ d.state \in PeerPublishState \cup {Untracked}
                 /\ d.state = "DueAck" <=> (asked /\ qos = 1)
                 /\ d.state = "DueRec" <=> (asked /\ qos = 2)
  BY DEF new_publish
<1>3. ASSUME NEW e \in LocalEntry
      PROVE  LET d == h_inbound_pubrec(e, "Success")
             IN  d.event = "Received" =>
                   d.state \in LocalPublishState /\ (d.state = "DueRel" <=> d.mode = Manual)
  BY DEF h_inbound_pubrec, is_erroneous
<1>4. ASSUME NEW e \in PeerEntry
      PROVE  LET d == h_inbound_pubrel(e, "Success")
             IN  d.event = "Released" =>
                   /\ d.state \in PeerPublishState \cup {Untracked}
                   /\ d.state = "DueComp" <=> d.mode = Manual
  BY DEF h_inbound_pubrel, is_erroneous
<1>5. QED
  BY <1>1, <1>2, <1>3, <1>4, Zenon

(* In a well-formed session every event is followed by the calls it asks    *)
(* for.                                                                     *)
LEMMA EventsAnswered == Inv => ManualCallsMatchEvents
<1> SUFFICES ASSUME Inv PROVE ManualCallsMatchEvents
  OBVIOUS
<1> DEFINE in == inbound_publishes
           out == outbound_publishes
<1>1. /\ in \in Seq(PeerEntry) /\ Unique(in)
      /\ out \in Seq(LocalEntry) /\ Unique(out)
  BY DEF Inv, TypeOK, UniqueIdentifiers
<1>2. ASSUME NEW pid \in PacketIdentifier, NEW qos \in {1, 2}, NEW mode \in AckMode
      PROVE  LET d == inbound_publish(in, pid, qos, mode)
                 s == Decide(in, pid, d)
                 asked == d.mode = Manual /\ d.response = "None"
             IN  d.event \in {"Publish", "Duplicate"} =>
                   /\ (outbound_puback(s, pid).event = "Ok") <=> (asked /\ qos = 1)
                   /\ (outbound_pubrec(s, pid, "Success").event = "Ok") <=> (asked /\ qos = 2)
  <2> DEFINE d == inbound_publish(in, pid, qos, mode)
             s == Decide(in, pid, d)
             asked == d.mode = Manual /\ d.response = "None"
  <2> SUFFICES ASSUME d.event \in {"Publish", "Duplicate"}
               PROVE  /\ (outbound_puback(s, pid).event = "Ok") <=> (asked /\ qos = 1)
                      /\ (outbound_pubrec(s, pid, "Success").event = "Ok") <=> (asked /\ qos = 2)
    BY Zenon
  <2> HIDE DEF d, s
  <2>1. /\ d.state \in PeerPublishState \cup {Untracked}
        /\ d.state = "DueAck" <=> (asked /\ qos = 1)
        /\ d.state = "DueRec" <=> (asked /\ qos = 2)
    <3>1. CASE pid \in Pids(in)
      <4>1. Entry(in, pid) \in PeerEntry
        BY <1>1, <3>1, EntryProperties
      <4>2. d = h_inbound_republish(Entry(in, pid), qos)
        BY <3>1 DEF inbound_publish, d
      <4>3. QED
        BY <4>1, <4>2, EventStates
    <3>2. CASE pid \notin Pids(in) /\ available_capacity(in, RECEIVE_MAXIMUM)
      <4>1. d = new_publish(qos, mode)
        BY <3>2 DEF inbound_publish, d
      <4>2. QED
        BY <4>1, EventStates
    <3>3. CASE pid \notin Pids(in) /\ ~available_capacity(in, RECEIVE_MAXIMUM)
      BY <3>3 DEF inbound_publish, Unknown, Outcome, d
    <3>4. QED
      BY <3>1, <3>2, <3>3
  <2>2. d.state # Untracked => [pid |-> pid, state |-> d.state, mode |-> d.mode] \in PeerEntry
    BY <1>1, InboundDecisions, Zenon DEF Applicable, d
  <2>3. /\ d.state = Untracked => pid \notin Pids(s)
        /\ d.state # Untracked =>
             pid \in Pids(s) /\ Entry(s, pid) = [pid |-> pid, state |-> d.state, mode |-> d.mode]
    BY <1>1, <2>2, DecideEntries DEF s, Decided
  <2>4. CASE d.state = Untracked
    BY <2>1, <2>3, <2>4, ManualAnswers DEF Untracked
  <2>5. CASE d.state # Untracked
    <3>1. pid \in Pids(s) /\ Entry(s, pid).state = d.state /\ d.state \in PeerPublishState
      BY <2>1, <2>3, <2>5
    <3>2. QED
      BY <2>1, <3>1, ManualAnswers
  <2>6. QED
    BY <2>4, <2>5
<1>3. ASSUME NEW pid \in PacketIdentifier,
             NEW d, d = inbound_pubrec(out, pid, "Success"),
             NEW s, s = Decide(out, pid, d),
             d.event = "Received"
      PROVE  (outbound_pubrel(s, pid).event = "Ok") <=> (d.mode = Manual)
  <2>1. pid \in Pids(out) /\ d = h_inbound_pubrec(Entry(out, pid), "Success")
    BY <1>3 DEF inbound_pubrec, Unknown, Outcome
  <2>2. Entry(out, pid) \in LocalEntry
    BY <1>1, <2>1, EntryProperties, SMTT(30)
  <2>3. d.state \in LocalPublishState /\ (d.state = "DueRel" <=> d.mode = Manual)
    BY <1>3, <2>1, <2>2, EventStates
  <2>4. d.state # Untracked /\ "Success" \in AckRecReasonCode
    BY <2>3 DEF Untracked, LocalPublishState, LocalQoS1, LocalQoS2, AckRecReasonCode
  <2>5. [pid |-> pid, state |-> d.state, mode |-> d.mode] \in LocalEntry
    BY <1>1, <1>3, <2>4, OutboundDecisions, Zenon DEF Applicable
  <2>6. pid \in Pids(s) /\ Entry(s, pid) = [pid |-> pid, state |-> d.state, mode |-> d.mode]
    BY <1>1, <1>3, <2>4, <2>5, DecideEntries DEF Decided
  <2>7. Entry(s, pid).state = d.state
    BY <2>6
  <2>8. QED
    BY <2>3, <2>6, <2>7, ManualAnswers
<1>4. ASSUME NEW pid \in PacketIdentifier,
             NEW d, d = inbound_pubrel(in, pid, "Success"),
             NEW s, s = Decide(in, pid, d),
             d.event = "Released"
      PROVE  (outbound_pubcomp(s, pid).event = "Ok") <=> (d.mode = Manual)
  <2>1. pid \in Pids(in) /\ d = h_inbound_pubrel(Entry(in, pid), "Success")
    BY <1>4 DEF inbound_pubrel, Unknown, Outcome
  <2>2. Entry(in, pid) \in PeerEntry
    BY <1>1, <2>1, EntryProperties
  <2>3. d.state \in PeerPublishState \cup {Untracked} /\ (d.state = "DueComp" <=> d.mode = Manual)
    BY <1>4, <2>1, <2>2, EventStates
  <2>4. "Success" \in RelCompReasonCode
    BY DEF RelCompReasonCode
  <2>5. d.state # Untracked => [pid |-> pid, state |-> d.state, mode |-> d.mode] \in PeerEntry
    BY <1>1, <1>4, <2>4, InboundDecisions, Zenon DEF Applicable
  <2>6. /\ d.state = Untracked => pid \notin Pids(s)
        /\ d.state # Untracked =>
             pid \in Pids(s) /\ Entry(s, pid) = [pid |-> pid, state |-> d.state, mode |-> d.mode]
    BY <1>1, <1>4, <2>5, DecideEntries DEF Decided
  <2>7. CASE d.state = Untracked
    BY <2>3, <2>6, <2>7, ManualAnswers DEF Untracked
  <2>8. CASE d.state # Untracked
    <3>1. pid \in Pids(s) /\ Entry(s, pid).state = d.state /\ d.state \in PeerPublishState
      BY <2>3, <2>6, <2>8
    <3>2. QED
      BY <2>3, <3>1, ManualAnswers
  <2>9. QED
    BY <2>7, <2>8
<1>5. \A pid \in PacketIdentifier :
        LET d == inbound_pubrec(outbound_publishes, pid, "Success")
            s == Decide(outbound_publishes, pid, d)
        IN  d.event = "Received" =>
              ((outbound_pubrel(s, pid).event = "Ok") <=> (d.mode = Manual))
  BY <1>3, Zenon
<1>6. \A pid \in PacketIdentifier :
        LET d == inbound_pubrel(inbound_publishes, pid, "Success")
            s == Decide(inbound_publishes, pid, d)
        IN  d.event = "Released" =>
              ((outbound_pubcomp(s, pid).event = "Ok") <=> (d.mode = Manual))
  BY <1>4, Zenon
<1>7. QED
  BY <1>2, <1>5, <1>6, Zenon DEF ManualCallsMatchEvents

(* After a reconnection an outgoing publication can be sent again in one    *)
(* way, and a further reconnection changes nothing.                         *)
LEMMA LocalResumes ==
    ASSUME NEW e \in LocalEntry, NEW r, r = LocalReconnected(e)
    PROVE  /\ LET sends == {h_outbound_republish(r, 1), h_outbound_republish(r, 2),
                            h_outbound_pubrel(r)}
              IN  \E ok \in sends : ok.event = "Ok" /\ \A d \in sends \ {ok} : d.event # "Ok"
           /\ LocalReconnected(r) = r
<1> USE DEF LocalEntry, LocalPublishState, LocalQoS1, LocalQoS2, NoCode, Outcome, Nop, Ok, Err
<1> DEFINE p1 == h_outbound_republish(r, 1)
           p2 == h_outbound_republish(r, 2)
           rel == h_outbound_pubrel(r)
<1>1. r \in LocalEntry /\ r.state \in {"DuePublishAtLeastOnce", "DuePublishExactlyOnce", "DueRel"}
  BY DEF LocalReconnected
<1>2. \/ p1.event = "Ok" /\ p2.event # "Ok" /\ rel.event # "Ok"
      \/ p1.event # "Ok" /\ p2.event = "Ok" /\ rel.event # "Ok"
      \/ p1.event # "Ok" /\ p2.event # "Ok" /\ rel.event = "Ok"
  BY <1>1 DEF h_outbound_republish, h_outbound_pubrel
<1>3. LocalReconnected(r) = r
  BY <1>1, Zenon DEF LocalReconnected
<1> HIDE DEF p1, p2, rel
<1>4. \E ok \in {p1, p2, rel} : ok.event = "Ok" /\ \A d \in {p1, p2, rel} \ {ok} : d.event # "Ok"
  BY <1>2
<1>5. QED
  BY <1>3, <1>4 DEF p1, p2, rel

(* After a reconnection no retransmission of the server for an entry is a   *)
(* protocol error, and a further reconnection changes nothing.              *)
LEMMA PeerResumes ==
    ASSUME NEW e \in PeerEntry, NEW r, r = PeerReconnected(e)
    PROVE  /\ LET publish(qos) == h_inbound_republish(r, qos).response # "Disconnect"
              IN  CASE e.state \in PeerQoS1 -> publish(1)
                    [] e.state \in {"DueComp", "AwaitReRel"} ->
                         h_inbound_pubrel(r, "Success").event = "Released"
                    [] OTHER -> /\ publish(2)
                                /\ h_inbound_pubrel(r, "Success").event = "Released"
           /\ PeerReconnected(r) = r
<1> USE DEF PeerEntry, PeerPublishState, PeerQoS1, PeerQoS2, AckMode, Automatic, Manual, NoCode,
            Untracked, Outcome, Nop, Removed, ProtocolError
<1>1. /\ r \in PeerEntry
      /\ r.state \in {"AwaitPublishAtLeastOnce", "AwaitPublishExactlyOnce", "AwaitReRel"}
      /\ e.state \in PeerQoS1 => r.state = "AwaitPublishAtLeastOnce"
      /\ e.state \in {"DueComp", "AwaitReRel"} => r.state = "AwaitReRel"
      /\ e.state \notin PeerQoS1 \cup {"DueComp", "AwaitReRel"} =>
            r.state = "AwaitPublishExactlyOnce"
  BY DEF PeerReconnected
<1>2. /\ r.state = "AwaitPublishAtLeastOnce" =>
            h_inbound_republish(r, 1).response # "Disconnect"
      /\ r.state = "AwaitPublishExactlyOnce" =>
            h_inbound_republish(r, 2).response # "Disconnect"
  BY <1>1 DEF h_inbound_republish
<1>3. r.state \in {"AwaitPublishExactlyOnce", "AwaitReRel"} =>
        h_inbound_pubrel(r, "Success").event = "Released"
  BY <1>1 DEF h_inbound_pubrel, is_erroneous
<1>4. PeerReconnected(r) = r
  BY <1>1 DEF PeerReconnected
<1>5. QED
  BY <1>1, <1>2, <1>3, <1>4

(* A well-formed session accepts every retransmission after a reconnection. *)
LEMMA RetransmissionAccepted == Inv => ResumeAcceptsRetransmission
<1> SUFFICES ASSUME Inv PROVE ResumeAcceptsRetransmission
  OBVIOUS
<1> DEFINE out == ReconnectLocal(outbound_publishes)
           in == ReconnectPeer(inbound_publishes)
<1>1. outbound_publishes \in Seq(LocalEntry) /\ inbound_publishes \in Seq(PeerEntry)
  BY DEF Inv, TypeOK
<1>2. /\ DOMAIN out = DOMAIN outbound_publishes
      /\ \A i \in DOMAIN out : /\ outbound_publishes[i] \in LocalEntry
                               /\ out[i] = LocalReconnected(outbound_publishes[i])
  BY <1>1 DEF ReconnectLocal
<1>3. /\ DOMAIN in = DOMAIN inbound_publishes
      /\ \A i \in DOMAIN in : /\ inbound_publishes[i] \in PeerEntry
                              /\ in[i] = PeerReconnected(inbound_publishes[i])
  BY <1>1 DEF ReconnectPeer
<1>4. out = [i \in DOMAIN out |-> out[i]] /\ in = [i \in DOMAIN in |-> in[i]]
  BY DEF ReconnectLocal, ReconnectPeer
<1> HIDE DEF out, in
<1>5. ReconnectLocal(out) = out
  BY <1>2, <1>4, LocalResumes DEF ReconnectLocal
<1>6. ReconnectPeer(in) = in
  BY <1>3, <1>4, PeerResumes DEF ReconnectPeer
<1>7. \A i \in DOMAIN out :
        LET sends == {h_outbound_republish(out[i], 1), h_outbound_republish(out[i], 2),
                      h_outbound_pubrel(out[i])}
        IN  \E ok \in sends : ok.event = "Ok" /\ \A d \in sends \ {ok} : d.event # "Ok"
  BY <1>2, LocalResumes
<1>8. \A i \in DOMAIN in :
        LET publish(qos) == h_inbound_republish(in[i], qos).response # "Disconnect"
        IN  CASE inbound_publishes[i].state \in PeerQoS1 -> publish(1)
              [] inbound_publishes[i].state \in {"DueComp", "AwaitReRel"} ->
                   h_inbound_pubrel(in[i], "Success").event = "Released"
              [] OTHER -> /\ publish(2)
                          /\ h_inbound_pubrel(in[i], "Success").event = "Released"
  BY <1>3, PeerResumes
<1>9. QED
  BY <1>5, <1>6, <1>7, <1>8 DEF ResumeAcceptsRetransmission, out, in

(* Whatever the user and the server have done before, an event that asks    *)
(* for a manual acknowledgement leaves the session in the one state that    *)
(* accepts it.                                                              *)
THEOREM EventsCanBeAnswered == Spec => []ManualCallsMatchEvents
  BY Invariance, EventsAnswered, PTL

(* Wherever a connection is lost, the session that resumes can send again   *)
(* and accepts what the server sends again.                                 *)
THEOREM ResumptionIsSound == Spec => []ResumeAcceptsRetransmission
  BY Invariance, RetransmissionAccepted, PTL

-----------------------------------------------------------------------------
(* Refinement: every step of the session is a step of Handshakes or leaves  *)
(* its state alone.  A decision has the fields of an entry that a handshake *)
(* depends on, so LocalHandshake(d) is the handshake it leaves.             *)

(* A handshake stays as it is or moves on as Handshakes allows.             *)
Advances(h, next) == next = h \/ Abstract!Moves(h, next)

(* A decision that keeps the mode, and the stage or releases an ExactlyOnce *)
(* handshake, lets it advance.                                              *)
LocalKept(e, d) ==
    /\ d.mode = e.mode
    /\ \/ e.state \in LocalQoS1 /\ d.state \in LocalQoS1
       \/ e.state \in {"DuePublishExactlyOnce", "AwaitRec"} /\ d.state \in LocalQoS2
       \/ {e.state, d.state} \subseteq {"DueRel", "AwaitComp"}
PeerKept(e, d) ==
    /\ d.mode = e.mode
    /\ \/ e.state \in PeerQoS1 /\ d.state \in PeerQoS1
       \/ e.state \in {"AwaitPublishExactlyOnce", "DueRec", "AwaitRel"} /\ d.state \in PeerQoS2
       \/ {e.state, d.state} \subseteq {"AwaitReRel", "DueComp"}

(* Such a decision is a step of Handshakes.                                 *)
LEMMA KeptAdvances ==
    ASSUME NEW e, NEW d
    PROVE  /\ LocalKept(e, d) => Advances(LocalHandshake(e), LocalHandshake(d))
           /\ PeerKept(e, d) => Advances(PeerHandshake(e), PeerHandshake(d))
<1> USE DEF Advances, Abstract!Moves, Abstract!Idle
<1>1. ASSUME LocalKept(e, d)
      PROVE  Advances(LocalHandshake(e), LocalHandshake(d))
  <2>1. CASE e.state \in LocalQoS1
    BY <1>1, <2>1 DEF LocalKept, LocalHandshake, LocalStage, LocalQoS1, LocalQoS2
  <2>2. CASE e.state \in {"DueRel", "AwaitComp"}
    BY <1>1, <2>2 DEF LocalKept, LocalHandshake, LocalStage, LocalQoS1, LocalQoS2
  <2>3. CASE e.state \in {"DuePublishExactlyOnce", "AwaitRec"}
    <3>1. LocalHandshake(e) = [stage |-> "ExactlyOnce", mode |-> e.mode]
      BY <2>3 DEF LocalHandshake, LocalStage, LocalQoS1
    <3>2. LocalHandshake(d) \in {[stage |-> "ExactlyOnce", mode |-> e.mode],
                                [stage |-> "Released", mode |-> e.mode]}
      BY <1>1, <2>3 DEF LocalKept, LocalHandshake, LocalStage, LocalQoS1, LocalQoS2
    <3>3. QED
      BY <3>1, <3>2
  <2>4. QED
    BY <1>1, <2>1, <2>2, <2>3 DEF LocalKept
<1>2. ASSUME PeerKept(e, d)
      PROVE  Advances(PeerHandshake(e), PeerHandshake(d))
  <2>1. CASE e.state \in PeerQoS1
    BY <1>2, <2>1 DEF PeerKept, PeerHandshake, PeerStage, PeerQoS1, PeerQoS2
  <2>2. CASE e.state \in {"AwaitReRel", "DueComp"}
    BY <1>2, <2>2 DEF PeerKept, PeerHandshake, PeerStage, PeerQoS1, PeerQoS2
  <2>3. CASE e.state \in {"AwaitPublishExactlyOnce", "DueRec", "AwaitRel"}
    <3>1. PeerHandshake(e) = [stage |-> "ExactlyOnce", mode |-> e.mode]
      BY <2>3 DEF PeerHandshake, PeerStage, PeerQoS1
    <3>2. PeerHandshake(d) \in {[stage |-> "ExactlyOnce", mode |-> e.mode],
                               [stage |-> "Released", mode |-> e.mode]}
      BY <1>2, <2>3 DEF PeerKept, PeerHandshake, PeerStage, PeerQoS1, PeerQoS2
    <3>3. QED
      BY <3>1, <3>2
  <2>4. QED
    BY <1>2, <2>1, <2>2, <2>3 DEF PeerKept
<1>3. QED
  BY <1>1, <1>2

(* What a decision on an outgoing publication does to its handshake.        *)
LEMMA OutboundAdvances ==
    ASSUME NEW s \in Seq(LocalEntry), NEW pid \in Pids(s)
    PROVE  LET ok(d) == d.state # Untracked => LocalKept(Entry(s, pid), d)
           IN  /\ \A qos \in {1, 2} : ok(outbound_republish(s, pid, qos))
               /\ \A rc \in AckRecReasonCode : ok(inbound_puback(s, pid, rc))
               /\ \A rc \in AckRecReasonCode : ok(inbound_pubrec(s, pid, rc))
               /\ \A rc \in RelCompReasonCode : ok(inbound_pubcomp(s, pid, rc))
               /\ ok(outbound_pubrel(s, pid))
<1> DEFINE ok(d) == d.state # Untracked => LocalKept(Entry(s, pid), d)
<1>1. PICK e \in LocalEntry : e = Entry(s, pid)
  BY EntryProperties
<1> USE DEF LocalKept, LocalEntry, LocalPublishState, LocalQoS1, LocalQoS2, AckMode,
            Automatic, Manual, Untracked, NoCode, Outcome, Nop, Removed, ProtocolError, Ok, Err
<1>2. \A qos \in {1, 2} : ok(outbound_republish(s, pid, qos))
  BY <1>1 DEF outbound_republish, h_outbound_republish
<1>3. \A rc \in AckRecReasonCode : ok(inbound_puback(s, pid, rc))
  BY <1>1 DEF inbound_puback, h_inbound_puback, is_erroneous
<1>4. \A rc \in AckRecReasonCode : ok(inbound_pubrec(s, pid, rc))
  BY <1>1 DEF inbound_pubrec, h_inbound_pubrec, is_erroneous
<1>5. \A rc \in RelCompReasonCode : ok(inbound_pubcomp(s, pid, rc))
  BY <1>1 DEF inbound_pubcomp, h_inbound_pubcomp, is_erroneous
<1>6. ok(outbound_pubrel(s, pid))
  BY <1>1 DEF outbound_pubrel, h_outbound_pubrel
<1> HIDE DEF ok
<1>7. QED
  BY <1>2, <1>3, <1>4, <1>5, <1>6, Zenon DEF ok

(* What a decision on an incoming publication does to its handshake.        *)
LEMMA InboundAdvances ==
    ASSUME NEW s \in Seq(PeerEntry), NEW pid \in Pids(s)
    PROVE  LET ok(d) == d.state # Untracked => PeerKept(Entry(s, pid), d)
           IN  /\ \A qos \in {1, 2}, mode \in AckMode : ok(inbound_publish(s, pid, qos, mode))
               /\ \A rc \in AckRecReasonCode : ok(outbound_pubrec(s, pid, rc))
               /\ \A rc \in RelCompReasonCode : ok(inbound_pubrel(s, pid, rc))
               /\ ok(outbound_puback(s, pid))
               /\ ok(outbound_pubcomp(s, pid))
<1> DEFINE ok(d) == d.state # Untracked => PeerKept(Entry(s, pid), d)
<1>1. PICK e \in PeerEntry : e = Entry(s, pid)
  BY EntryProperties
<1> USE DEF PeerKept, PeerEntry, PeerPublishState, PeerQoS1, PeerQoS2, AckMode, Automatic,
            Manual, Untracked, NoCode, Outcome, Nop, Removed, ProtocolError, Ok, Err
<1>2. ASSUME NEW mode \in AckMode
      PROVE  ok(inbound_publish(s, pid, 1, mode)) /\ ok(inbound_publish(s, pid, 2, mode))
  <2>1. ok(h_inbound_republish(e, 1))
    BY <1>1 DEF h_inbound_republish
  <2>2. ok(h_inbound_republish(e, 2))
    BY <1>1 DEF h_inbound_republish
  <2>3. \A qos : inbound_publish(s, pid, qos, mode) = h_inbound_republish(e, qos)
    BY <1>1 DEF inbound_publish
  <2> HIDE DEF ok
  <2>4. QED
    BY <2>1, <2>2, <2>3
<1>3. \A rc \in AckRecReasonCode : ok(outbound_pubrec(s, pid, rc))
  BY <1>1 DEF outbound_pubrec, h_outbound_pubrec, is_erroneous
<1>4. \A rc \in RelCompReasonCode : ok(inbound_pubrel(s, pid, rc))
  BY <1>1 DEF inbound_pubrel, h_inbound_pubrel, is_erroneous
<1>5. ok(outbound_puback(s, pid))
  BY <1>1 DEF outbound_puback, h_outbound_puback
<1>6. ok(outbound_pubcomp(s, pid))
  BY <1>1 DEF outbound_pubcomp, h_outbound_pubcomp
<1> HIDE DEF ok, PeerKept, PeerEntry, PeerPublishState, PeerQoS1, PeerQoS2, Outcome, Nop,
             Removed, ProtocolError, Ok, Err
<1>7. \A qos \in {1, 2}, mode \in AckMode : ok(inbound_publish(s, pid, qos, mode))
  BY <1>2
<1>8. QED
  BY <1>3, <1>4, <1>5, <1>6, <1>7, Zenon DEF ok

(* The handshake that a decision leaves.                                    *)
LocalAfter(d) == IF d.state = Untracked THEN Abstract!Idle ELSE LocalHandshake(d)
PeerAfter(d) == IF d.state = Untracked THEN Abstract!Idle ELSE PeerHandshake(d)

(* The handshakes L and M agree but for the one of pid, which is next in M. *)
OnlyMoves(L, M, pid, next) ==
    \A q \in PacketIdentifier : M[q] = IF q = pid THEN next ELSE L[q]

(* The handshakes of a list after a decision about pid: only that of pid    *)
(* has changed.                                                             *)
LEMMA DecideHandshakes ==
    ASSUME NEW s, NEW t, NEW pid \in PacketIdentifier, NEW d, Decided(s, t, pid, d)
    PROVE  OnlyMoves(LocalHandshakes(s), LocalHandshakes(t), pid, LocalAfter(d))
<1>1. d.state # Untracked => LocalHandshake(Entry(t, pid)) = LocalHandshake(d)
  BY DEF Decided, LocalHandshake
<1>2. QED
  BY <1>1 DEF Decided, LocalHandshakes, LocalAfter, Abstract!Idle, OnlyMoves

(* The same for the publications of the server.                             *)
LEMMA DecidePeerHandshakes ==
    ASSUME NEW s, NEW t, NEW pid \in PacketIdentifier, NEW d, Decided(s, t, pid, d)
    PROVE  OnlyMoves(PeerHandshakes(s), PeerHandshakes(t), pid, PeerAfter(d))
<1>1. d.state # Untracked => PeerHandshake(Entry(t, pid)) = PeerHandshake(d)
  BY DEF Decided, PeerHandshake
<1>2. QED
  BY <1>1 DEF Decided, PeerHandshakes, PeerAfter, Abstract!Idle, OnlyMoves

(* An operation on an outbound publication is a step of Handshakes: it      *)
(* begins one with a free identifier, advances it or ends it.               *)
LEMMA OutboundSimulation ==
    ASSUME Inv, NEW pid \in PacketIdentifier, NEW d, Outbound(pid, d),
           Applicable(outbound_publishes, LocalEntry, SEND_MAXIMUM, pid, d),
           pid \in Pids(outbound_publishes) /\ d.state # Untracked =>
               LocalKept(Entry(outbound_publishes, pid), d),
           pid \notin Pids(outbound_publishes) /\ d.state # Untracked =>
               FreeHandle(pid) /\ d.state \in {"AwaitAck", "AwaitRec"} /\ d.mode \in AckMode
    PROVE  [Abstract!Next]_(Abstract!vars)
<1> DEFINE s == outbound_publishes
           t == Decide(s, pid, d)
           L == LocalHandshakes(s)
           M == LocalHandshakes(t)
           next == LocalAfter(d)
<1>1. s \in Seq(LocalEntry) /\ Unique(s)
  BY DEF Inv, TypeOK, UniqueIdentifiers
<1>2. Decided(s, t, pid, d)
  BY <1>1, DecideEntries DEF Applicable
<1> HIDE DEF t
<1>3. \A q \in PacketIdentifier : M[q] = IF q = pid THEN next ELSE L[q]
  <2>1. OnlyMoves(L, M, pid, next)
    BY <1>2, DecideHandshakes
  <2>2. QED
    BY <2>1 DEF OnlyMoves
<1>4. L = [p \in PacketIdentifier |-> L[p]] /\ M = [p \in PacketIdentifier |-> M[p]]
  BY DEF LocalHandshakes
<1>5. /\ outbound_publishes' = t
      /\ UNCHANGED <<subs, unsubs, inbound_publishes>>
  BY DEF Outbound, t
<1>6. \/ next = L[pid]
      \/ Abstract!Moves(L[pid], next) /\ (L[pid] = Abstract!Idle => FreeHandle(pid))
  <2>1. CASE pid \in Pids(s) /\ d.state = Untracked
    <3>1. L[pid].stage # "Idle"
      BY <1>1, <2>1, EntryProperties DEF LocalHandshakes, LocalHandshake, LocalStage, LocalEntry,
         LocalPublishState, LocalQoS1, LocalQoS2
    <3>2. QED
      BY <2>1, <3>1 DEF LocalAfter, Abstract!Moves, Abstract!Idle
  <2>2. CASE pid \in Pids(s) /\ d.state # Untracked
    <3>1. L[pid] = LocalHandshake(Entry(s, pid)) /\ next = LocalHandshake(d)
      BY <2>2 DEF LocalHandshakes, LocalAfter
    <3>2. L[pid].stage # "Idle"
      BY <1>1, <2>2, EntryProperties DEF LocalHandshakes, LocalHandshake, LocalStage, LocalEntry,
         LocalPublishState, LocalQoS1, LocalQoS2
    <3>3. L[pid] # Abstract!Idle
      BY <3>2 DEF Abstract!Idle
    <3>4. QED
      BY <2>2, <3>1, <3>3, KeptAdvances DEF Advances
  <2>3. CASE pid \notin Pids(s) /\ d.state = Untracked
    BY <2>3 DEF LocalHandshakes, LocalAfter, Abstract!Idle
  <2>4. CASE pid \notin Pids(s) /\ d.state # Untracked
    <3>1. L[pid] = Abstract!Idle
      BY <2>4 DEF LocalHandshakes, Abstract!Idle
    <3>2. LocalHandshake(d) \in Abstract!Handshake /\ Abstract!First(LocalHandshake(d))
      BY <2>4 DEF LocalHandshake, LocalStage, Abstract!Handshake, Abstract!First, LocalQoS1
    <3>3. QED
      BY <2>4, <3>1, <3>2 DEF LocalAfter, Abstract!Moves
  <2>5. QED
    BY <2>1, <2>2, <2>3, <2>4
<1>7. CASE next = L[pid]
  <2>1. M = L
    <3> HIDE DEF L, M, next
    <3>1. QED
      BY <1>3, <1>4, <1>7
  <2>2. QED
    BY <1>5, <2>1 DEF Abstract!vars
<1>8. CASE Abstract!Moves(L[pid], next) /\ (L[pid] = Abstract!Idle => FreeHandle(pid))
  <2>1. M[pid] = next /\ M = [L EXCEPT ![pid] = M[pid]]
    <3> HIDE DEF L, M, next
    <3>1. QED
      BY <1>3, <1>4
  <2>2. L[pid] = Abstract!Idle => pid \notin Range(subs) \cup Range(unsubs)
    BY <1>8 DEF FreeHandle, IsFreeHandle
  <2> HIDE DEF L, M, next
  <2>3. Abstract!Moves(L[pid], M[pid])
    BY <1>8, <2>1
  <2>4. Abstract!Local
    <3>1. \E p \in PacketIdentifier :
            /\ Abstract!Moves(L[p], M[p])
            /\ L[p] = Abstract!Idle => p \notin Range(subs) \cup Range(unsubs)
            /\ M = [L EXCEPT ![p] = M[p]]
      BY <2>1, <2>2, <2>3, Zenon
    <3>2. QED
      BY <1>5, <3>1 DEF Abstract!Local, L, M
  <2>5. QED
    BY <2>4 DEF Abstract!Next
<1>9. QED
  BY <1>6, <1>7, <1>8

(* An operation on an inbound publication is a step of Handshakes.          *)
LEMMA InboundSimulation ==
    ASSUME Inv, NEW pid \in PacketIdentifier, NEW d, Inbound(pid, d),
           Applicable(inbound_publishes, PeerEntry, RECEIVE_MAXIMUM, pid, d),
           pid \in Pids(inbound_publishes) /\ d.state # Untracked =>
               PeerKept(Entry(inbound_publishes, pid), d),
           pid \notin Pids(inbound_publishes) /\ d.state # Untracked =>
               d.state \in {"DueAck", "DueRec", "AwaitRel"} /\ d.mode \in AckMode
    PROVE  [Abstract!Next]_(Abstract!vars)
<1> DEFINE s == inbound_publishes
           t == Decide(s, pid, d)
           L == PeerHandshakes(s)
           M == PeerHandshakes(t)
           next == PeerAfter(d)
<1>1. s \in Seq(PeerEntry) /\ Unique(s)
  BY DEF Inv, TypeOK, UniqueIdentifiers
<1>2. Decided(s, t, pid, d)
  BY <1>1, DecideEntries DEF Applicable
<1> HIDE DEF t
<1>3. \A q \in PacketIdentifier : M[q] = IF q = pid THEN next ELSE L[q]
  <2>1. OnlyMoves(L, M, pid, next)
    BY <1>2, DecidePeerHandshakes
  <2>2. QED
    BY <2>1 DEF OnlyMoves
<1>4. L = [p \in PacketIdentifier |-> L[p]] /\ M = [p \in PacketIdentifier |-> M[p]]
  BY DEF PeerHandshakes
<1>5. /\ inbound_publishes' = t
      /\ UNCHANGED <<subs, unsubs, outbound_publishes>>
  BY DEF Inbound, t
<1>6. next = L[pid] \/ Abstract!Moves(L[pid], next)
  <2>1. CASE pid \in Pids(s) /\ d.state = Untracked
    <3>1. L[pid].stage # "Idle"
      BY <1>1, <2>1, EntryProperties DEF PeerHandshakes, PeerHandshake, PeerStage, PeerEntry,
         PeerPublishState, PeerQoS1, PeerQoS2
    <3>2. QED
      BY <2>1, <3>1 DEF PeerAfter, Abstract!Moves, Abstract!Idle
  <2>2. CASE pid \in Pids(s) /\ d.state # Untracked
    <3>1. L[pid] = PeerHandshake(Entry(s, pid)) /\ next = PeerHandshake(d)
      BY <2>2 DEF PeerHandshakes, PeerAfter
    <3>2. QED
      BY <2>2, <3>1, KeptAdvances DEF Advances
  <2>3. CASE pid \notin Pids(s) /\ d.state = Untracked
    BY <2>3 DEF PeerHandshakes, PeerAfter, Abstract!Idle
  <2>4. CASE pid \notin Pids(s) /\ d.state # Untracked
    <3>1. L[pid] = Abstract!Idle
      BY <2>4 DEF PeerHandshakes, Abstract!Idle
    <3>2. PeerHandshake(d) \in Abstract!Handshake /\ Abstract!First(PeerHandshake(d))
      BY <2>4 DEF PeerHandshake, PeerStage, Abstract!Handshake, Abstract!First, PeerQoS1
    <3>3. QED
      BY <2>4, <3>1, <3>2 DEF PeerAfter, Abstract!Moves
  <2>5. QED
    BY <2>1, <2>2, <2>3, <2>4
<1>7. CASE next = L[pid]
  <2>1. M = L
    <3> HIDE DEF L, M, next
    <3>1. QED
      BY <1>3, <1>4, <1>7
  <2>2. QED
    BY <1>5, <2>1 DEF Abstract!vars
<1>8. CASE Abstract!Moves(L[pid], next)
  <2>1. M[pid] = next /\ M = [L EXCEPT ![pid] = M[pid]]
    <3> HIDE DEF L, M, next
    <3>1. QED
      BY <1>3, <1>4
  <2> HIDE DEF L, M, next
  <2>2. Abstract!Moves(L[pid], M[pid])
    BY <1>8, <2>1
  <2>3. Abstract!Peer
    <3>1. \E p \in PacketIdentifier :
            /\ Abstract!Moves(L[p], M[p])
            /\ M = [L EXCEPT ![p] = M[p]]
      BY <2>1, <2>2, Zenon
    <3>2. QED
      BY <1>5, <3>1 DEF Abstract!Peer, L, M
  <2>4. QED
    BY <2>3 DEF Abstract!Next
<1>9. QED
  BY <1>6, <1>7, <1>8

(* SUBSCRIBE and UNSUBSCRIBE take an identifier that nothing uses; SUBACK   *)
(* and UNSUBACK give one back.                                              *)
LEMMA RequestSimulation ==
    ASSUME Inv, NEW pid \in PacketIdentifier,
           \/ OutboundSub(pid) \/ OutboundUnsub(pid)
           \/ InboundSuback(pid) \/ InboundUnsuback(pid)
    PROVE  Abstract!Next
<1> DEFINE used == Range(subs) \cup Range(unsubs)
<1>1. /\ subs \in Seq(PacketIdentifier) /\ UniquePids(subs)
      /\ unsubs \in Seq(PacketIdentifier) /\ UniquePids(unsubs)
      /\ Range(subs) \cap Range(unsubs) = {}
  BY DEF Inv, TypeOK, UniqueIdentifiers
<1>2. UNCHANGED <<inbound_publishes, outbound_publishes>>
  BY DEF OutboundSub, OutboundUnsub, InboundSuback, InboundUnsuback
<1>3. CASE OutboundSub(pid) \/ OutboundUnsub(pid)
  <2>1. pid \notin used /\ pid \notin Pids(outbound_publishes)
    BY <1>3 DEF OutboundSub, OutboundUnsub, FreeHandle, IsFreeHandle
  <2>2. used' = used \cup {pid}
    <3>1. CASE OutboundSub(pid)
      BY <1>1, <2>1, <3>1, PidListProperties DEF OutboundSub
    <3>2. CASE OutboundUnsub(pid)
      BY <1>1, <2>1, <3>2, PidListProperties DEF OutboundUnsub
    <3>3. QED
      BY <1>3, <3>1, <3>2
  <2>3. LocalHandshakes(outbound_publishes)[pid] = Abstract!Idle
    BY <2>1 DEF LocalHandshakes, Abstract!Idle
  <2>4. Abstract!Request
    BY <1>2, <2>1, <2>2, <2>3 DEF Abstract!Request
  <2>5. QED
    BY <2>4 DEF Abstract!Next
<1>4. CASE InboundSuback(pid) \/ InboundUnsuback(pid)
  <2>1. pid \in used
    BY <1>4 DEF InboundSuback, InboundUnsuback
  <2>2. used' = used \ {pid}
    BY <1>1, <1>4, PidListProperties DEF InboundSuback, InboundUnsuback
  <2>3. Abstract!Respond
    BY <1>2, <2>1, <2>2 DEF Abstract!Respond
  <2>4. QED
    BY <2>3 DEF Abstract!Next
<1>5. QED
  BY <1>3, <1>4

(* A new session has no handshake.                                          *)
LEMMA ClearSimulation ==
    ASSUME Clear
    PROVE  Abstract!Next
<1>1. /\ LocalHandshakes(<<>>) = [p \in PacketIdentifier |-> Abstract!Idle]
      /\ PeerHandshakes(<<>>) = [p \in PacketIdentifier |-> Abstract!Idle]
  BY EmptyLists DEF LocalHandshakes, PeerHandshakes, Abstract!Idle
<1>2. Abstract!Reset
  BY <1>1, EmptyLists DEF Clear, Abstract!Reset
<1>3. QED
  BY <1>2 DEF Abstract!Next

(* A resumed session keeps every handshake: a reconnection changes what is  *)
(* due and what is awaited, never the stage or the mode.                    *)
LEMMA ReconnectSimulation ==
    ASSUME Inv, Reconnect
    PROVE  Abstract!Next
<1> DEFINE in == ReconnectPeer(inbound_publishes)
           out == ReconnectLocal(outbound_publishes)
<1>1. /\ inbound_publishes \in Seq(PeerEntry) /\ Unique(inbound_publishes)
      /\ outbound_publishes \in Seq(LocalEntry) /\ Unique(outbound_publishes)
  BY DEF Inv, TypeOK, UniqueIdentifiers
<1>2. \A e \in LocalEntry : LocalHandshake(LocalReconnected(e)) = LocalHandshake(e)
  BY DEF LocalReconnected, LocalHandshake, LocalStage, LocalEntry, LocalPublishState, LocalQoS1,
         LocalQoS2
<1>3. \A e \in PeerEntry : PeerHandshake(PeerReconnected(e)) = PeerHandshake(e)
  BY DEF PeerReconnected, PeerHandshake, PeerStage, PeerEntry, PeerPublishState, PeerQoS1,
         PeerQoS2
<1>4. LocalHandshakes(out) = LocalHandshakes(outbound_publishes)
  <2>1. /\ DOMAIN out = DOMAIN outbound_publishes
        /\ \A i \in DOMAIN out : /\ outbound_publishes[i] \in LocalEntry
                                 /\ out[i] = LocalReconnected(outbound_publishes[i])
                                 /\ out[i].pid = outbound_publishes[i].pid
    <3>1. \A i \in DOMAIN outbound_publishes : out[i].pid = outbound_publishes[i].pid
      BY <1>1, ReconnectProperties
    <3>2. QED
      BY <1>1, <3>1 DEF ReconnectLocal
  <2> HIDE DEF out
  <2>2. Unique(out) /\ Pids(out) = Pids(outbound_publishes)
    BY <1>1, <2>1 DEF Unique, Pids
  <2>3. ASSUME NEW p \in Pids(out)
        PROVE  LocalHandshake(Entry(out, p)) = LocalHandshake(Entry(outbound_publishes, p))
    <3>1. PICK i \in DOMAIN out : out[i].pid = p
      BY <2>3 DEF Pids
    <3>2. Entry(out, p) = out[i] /\ Entry(outbound_publishes, p) = outbound_publishes[i]
      BY <1>1, <2>1, <2>2, <3>1, UniqueEntry
    <3>3. QED
      BY <1>2, <2>1, <3>2
  <2>4. QED
    BY <2>2, <2>3 DEF LocalHandshakes
<1>5. PeerHandshakes(in) = PeerHandshakes(inbound_publishes)
  <2>1. /\ DOMAIN in = DOMAIN inbound_publishes
        /\ \A i \in DOMAIN in : /\ inbound_publishes[i] \in PeerEntry
                                /\ in[i] = PeerReconnected(inbound_publishes[i])
                                /\ in[i].pid = inbound_publishes[i].pid
    <3>1. \A i \in DOMAIN inbound_publishes : in[i].pid = inbound_publishes[i].pid
      BY <1>1, ReconnectProperties
    <3>2. QED
      BY <1>1, <3>1 DEF ReconnectPeer
  <2> HIDE DEF in
  <2>2. Unique(in) /\ Pids(in) = Pids(inbound_publishes)
    BY <1>1, <2>1 DEF Unique, Pids
  <2>3. ASSUME NEW p \in Pids(in)
        PROVE  PeerHandshake(Entry(in, p)) = PeerHandshake(Entry(inbound_publishes, p))
    <3>1. PICK i \in DOMAIN in : in[i].pid = p
      BY <2>3 DEF Pids
    <3>2. Entry(in, p) = in[i] /\ Entry(inbound_publishes, p) = inbound_publishes[i]
      BY <1>1, <2>1, <2>2, <3>1, UniqueEntry
    <3>3. QED
      BY <1>3, <2>1, <3>2
  <2>4. QED
    BY <2>2, <2>3 DEF PeerHandshakes
<1>6. Abstract!Resume
  BY <1>4, <1>5, EmptyLists DEF Reconnect, Abstract!Resume
<1>7. QED
  BY <1>6 DEF Abstract!Next

(* An operation on an inbound identifier without an entry starts to track   *)
(* it only for a new publication, in a first state.                         *)
LEMMA UnknownInbound ==
    ASSUME NEW s, NEW pid, pid \notin Pids(s)
    PROVE  /\ \A qos \in {1, 2}, mode \in AckMode :
                LET d == inbound_publish(s, pid, qos, mode)
                IN  d.state # Untracked =>
                      d.state \in {"DueAck", "DueRec", "AwaitRel"} /\ d.mode \in AckMode
           /\ \A rc : /\ outbound_pubrec(s, pid, rc).state = Untracked
                      /\ inbound_pubrel(s, pid, rc).state = Untracked
           /\ outbound_puback(s, pid).state = Untracked
           /\ outbound_pubcomp(s, pid).state = Untracked
<1>1. ASSUME NEW qos \in {1, 2}, NEW mode \in AckMode
      PROVE  LET d == inbound_publish(s, pid, qos, mode)
             IN  d.state # Untracked =>
                   d.state \in {"DueAck", "DueRec", "AwaitRel"} /\ d.mode \in AckMode
  BY DEF inbound_publish, new_publish, Unknown, Outcome, AckMode, Automatic, Manual
<1>2. QED
  BY <1>1 DEF outbound_pubrec, inbound_pubrel, outbound_puback, outbound_pubcomp, Unknown,
              Outcome

(* Every operation of the session is a step of Handshakes or a stutter.     *)
LEMMA NextSimulation ==
    ASSUME Inv, [Next]_vars
    PROVE  [Abstract!Next]_(Abstract!vars)
<1> DEFINE Goal == [Abstract!Next]_(Abstract!vars)
<1> HIDE DEF Goal
<1>1. inbound_publishes \in Seq(PeerEntry) /\ outbound_publishes \in Seq(LocalEntry)
  BY DEF Inv, TypeOK
<1>2. ASSUME NEW pid \in PacketIdentifier, NEW qos \in {1, 2}, NEW mode \in AckMode,
             InboundPublish(pid, qos, mode)
      PROVE  Goal
  BY <1>1, <1>2, InboundDecisions, InboundAdvances, UnknownInbound, InboundSimulation
     DEF InboundPublish, Goal
<1>3. ASSUME NEW pid \in PacketIdentifier, NEW qos \in {1, 2}, NEW mode \in AckMode,
             OutboundPublish(pid, qos, mode)
      PROVE  Goal
  <2> DEFINE d == outbound_publish(outbound_publishes, qos, mode)
  <2>1. FreeHandle(pid) /\ pid \notin Pids(outbound_publishes)
    BY <1>3 DEF OutboundPublish, FreeHandle, IsFreeHandle
  <2>2. Outbound(pid, d)
    BY <1>3, <2>1 DEF OutboundPublish, Outbound, Decide
  <2>3. Applicable(outbound_publishes, LocalEntry, SEND_MAXIMUM, pid, d)
    BY <1>1, OutboundDecisions
  <2>4. d.state # Untracked => d.state \in {"AwaitAck", "AwaitRec"} /\ d.mode \in AckMode
    BY DEF outbound_publish, Unknown, Ok, Outcome, AckMode, Automatic, Manual
  <2> HIDE DEF d
  <2>5. QED
    BY <2>1, <2>2, <2>3, <2>4, OutboundSimulation DEF Goal
<1>4. ASSUME NEW pid \in PacketIdentifier, NEW rc \in AckRecReasonCode, OutboundPubrec(pid, rc)
      PROVE  Goal
  BY <1>1, <1>4, InboundDecisions, InboundAdvances, UnknownInbound, InboundSimulation, SMTT(30)
     DEF OutboundPubrec, Goal
<1>5. ASSUME NEW pid \in PacketIdentifier, NEW rc \in AckRecReasonCode, InboundPuback(pid, rc)
      PROVE  Goal
  BY <1>1, <1>5, OutboundDecisions, OutboundAdvances, UnknownOutbound, OutboundSimulation, SMTT(30)
     DEF InboundPuback, Goal
<1>6. ASSUME NEW pid \in PacketIdentifier, NEW rc \in AckRecReasonCode, InboundPubrec(pid, rc)
      PROVE  Goal
  BY <1>1, <1>6, OutboundDecisions, OutboundAdvances, UnknownOutbound, OutboundSimulation, SMTT(30)
     DEF InboundPubrec, Goal
<1>7. ASSUME NEW pid \in PacketIdentifier, NEW rc \in RelCompReasonCode, InboundPubrel(pid, rc)
      PROVE  Goal
  BY <1>1, <1>7, InboundDecisions, InboundAdvances, UnknownInbound, InboundSimulation, SMTT(30)
     DEF InboundPubrel, Goal
<1>8. ASSUME NEW pid \in PacketIdentifier, NEW rc \in RelCompReasonCode, InboundPubcomp(pid, rc)
      PROVE  Goal
  BY <1>1, <1>8, OutboundDecisions, OutboundAdvances, UnknownOutbound, OutboundSimulation
     DEF InboundPubcomp, Goal
<1>9. ASSUME NEW pid \in PacketIdentifier, NEW qos \in {1, 2}, OutboundRepublish(pid, qos)
      PROVE  Goal
  BY <1>1, <1>9, OutboundDecisions, OutboundAdvances, UnknownOutbound, OutboundSimulation
     DEF OutboundRepublish, Goal
<1>10. ASSUME NEW pid \in PacketIdentifier, OutboundPuback(pid) \/ OutboundPubcomp(pid)
       PROVE  Goal
  BY <1>1, <1>10, InboundDecisions, InboundAdvances, UnknownInbound, InboundSimulation
     DEF OutboundPuback, OutboundPubcomp, Goal
<1>11. ASSUME NEW pid \in PacketIdentifier, OutboundPubrel(pid)
       PROVE  Goal
  BY <1>1, <1>11, OutboundDecisions, OutboundAdvances, UnknownOutbound, OutboundSimulation
     DEF OutboundPubrel, Goal
<1>12. ASSUME NEW pid \in PacketIdentifier,
              \/ OutboundSub(pid) \/ OutboundUnsub(pid)
              \/ InboundSuback(pid) \/ InboundUnsuback(pid)
       PROVE  Goal
  BY <1>12, RequestSimulation DEF Goal
<1>13. ASSUME Clear \/ Reconnect PROVE Goal
  BY <1>13, ClearSimulation, ReconnectSimulation DEF Goal
<1>14. CASE UNCHANGED vars
  BY <1>14 DEF vars, Abstract!vars, Goal
<1>15. CASE Next
  <2>1. Goal
    BY <1>2, <1>3, <1>4, <1>5, <1>6, <1>7, <1>8, <1>9, <1>10, <1>11, <1>12, <1>13, <1>15,
       Zenon DEF Next
  <2>2. QED
    BY <2>1 DEF Goal
<1>16. QED
  BY <1>14, <1>15 DEF Goal

(* The session implements Handshakes, whatever the number of identifiers    *)
(* and the capacities: through every interleaving of packets, calls and     *)
(* reconnections an identifier carries one handshake at a time, which keeps *)
(* its QoS and its mode and only moves forward.                             *)
THEOREM Refinement == Spec => ImplementsHandshakes
<1>1. Init => Abstract!Init
  BY EmptyLists DEF Init, Abstract!Init, Abstract!Idle, LocalHandshakes, PeerHandshakes
<1>2. Inv /\ [Next]_vars => [Abstract!Next]_(Abstract!vars)
  BY NextSimulation
<1>3. QED
  BY <1>1, <1>2, Invariance, PTL DEF Spec, ImplementsHandshakes, Abstract!Spec
===============================================================================
