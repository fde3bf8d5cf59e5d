------------------------------ MODULE BodyProofs ------------------------------
(* Reading a body: where the stream, the buffer and the limit end up, for   *)
(* every buffer, every length and every property list.                      *)
EXTENDS Body, SizesProofs

Within == phase \notin {"Idle", "Returned"}

(* The reader never takes more from the buffer than from the body, and no   *)
(* packet is complete before the body is.                                   *)
BodyInv ==
    /\ remaining_len \in Nat /\ unread = remaining_len
    /\ index \in Nat /\ index <= Capacity /\ base \in Nat
    /\ packet = [x \in DOMAIN packet |-> packet[x]]
    /\ DOMAIN packet = DOMAIN Header("Pingresp", 0, 0)
    /\ packet.len \in Nat
    /\ connection \in [connecting : BOOLEAN, limit : Nat, requests : SUBSET {"Problem", "Response"}]
    /\ 2 <= connection.limit /\ connection.limit <= Unlimited
    /\ astray \in BOOLEAN /\ excused \in BOOLEAN /\ (astray => excused)
    /\ Within => index + remaining_len <= base + packet.len
    /\ phase = "Done" => remaining_len = 0 \/ excused
    /\ phase = "Astray" => astray
    /\ result # "None" => phase = "Returned"
    /\ BufferSuffices
    /\ LimitKept

-----------------------------------------------------------------------------
(* A field is refused: what the failing read took is within the buffer, and *)
(* the buffer is only blamed if it was too short.                           *)
LEMMA FailStep ==
    ASSUME BodyInv, NEW taken \in Nat, NEW rc, FailAfter(taken, rc), index + taken <= Capacity,
           rc # "PacketTooLarge",
           rc = "ImplementationSpecificError" => astray \/ base + packet.len > Capacity
    PROVE  BodyInv'
<1>1. index' \in Nat /\ index' <= Capacity
  BY BodyAssumption, SMT DEF FailAfter, BodyInv
<1>2. ~Within' /\ ~Reading' /\ phase' = "Returned" /\ result' = rc
  BY DEF FailAfter, Within, Reading
<1>3. BufferSuffices' /\ LimitKept'
  BY <1>2 DEF FailAfter, BufferSuffices, LimitKept
<1> QED
  BY <1>1, <1>2, <1>3 DEF BodyInv, FailAfter

(* The connection is faulted without any read.                              *)
LEMMA PlainFailStep ==
    ASSUME BodyInv, NEW rc, Fail(rc), rc # "PacketTooLarge",
           rc = "ImplementationSpecificError" => astray \/ base + packet.len > Capacity
    PROVE  BodyInv'
<1>1. index + 0 <= Capacity
  BY SMT DEF BodyInv
<1> QED
  BY <1>1, FailStep DEF Fail

(* A field of n bytes is read, of which stored go to the buffer.            *)
LEMMA ReadStep ==
    ASSUME BodyInv, Reading, NEW n \in Nat, NEW stored \in Nat,
           n <= remaining_len, stored <= n, index + stored <= Capacity, Advance(n, stored),
           UNCHANGED <<connection, result, base, astray, excused>>,
           packet' = [x \in DOMAIN packet' |-> packet'[x]],
           DOMAIN packet' = DOMAIN packet, packet'.len = packet.len,
           phase' \notin {"Returned", "Astray"}, phase' = "Done" => remaining_len' = 0
    PROVE  BodyInv'
<1>1. Within /\ phase # "Returned" /\ result = "None"
  BY DEF Reading, Within, BodyInv
<1>2. /\ remaining_len' \in Nat /\ unread' = remaining_len'
      /\ index' \in Nat /\ index' <= Capacity
      /\ index' + remaining_len' <= base' + packet'.len
  BY <1>1, BodyAssumption, SMT DEF BodyInv, Advance
<1>3. BufferSuffices' /\ LimitKept'
  BY <1>1 DEF BodyInv, BufferSuffices, LimitKept
<1> QED
  BY <1>1, <1>2, <1>3 DEF BodyInv

(* read_and_store, with rest left of the body and the buffer used up to     *)
(* from: it succeeds within both, and runs out of buffer only if the body   *)
(* is longer than what was free.                                            *)
LEMMA Stored ==
    ASSUME BodyInv, NEW rest \in Int, NEW from \in Nat, NEW n \in Nat,
           from + rest <= base + packet.len
    PROVE  /\ StoreError(rest, from, n) = "None" => 2 + n <= rest /\ from + n <= Capacity
           /\ StoreError(rest, from, n) # "PacketTooLarge"
           /\ StoreError(rest, from, n) = "ImplementationSpecificError" =>
                base + packet.len > Capacity
BY BodyAssumption, SMT DEF StoreError, BodyInv

(* A packet keeps its length when another of its fields is set.             *)
LEMMA Updated ==
    ASSUME BodyInv, NEW name \in {"topic", "properties", "users", "codes", "padded"}, NEW v,
           NEW p, p = [packet EXCEPT ![name] = v]
    PROVE  p = [x \in DOMAIN p |-> p[x]] /\ DOMAIN p = DOMAIN packet /\ p.len = packet.len
<1>1. "len" \in DOMAIN packet
  BY DEF BodyInv, Header
<1>2. DOMAIN p = DOMAIN packet /\ p = [x \in DOMAIN p |-> p[x]]
  BY Zenon
<1>3. name # "len"
  OBVIOUS
<1> QED
  BY <1>1, <1>2, <1>3

-----------------------------------------------------------------------------
(* Fields before the property list.                                         *)
LEMMA FieldStep ==
    ASSUME BodyInv, ReadTopic \/ ReadPid \/ ReadReason
    PROVE  BodyInv'
<1>1. ASSUME ReadTopic PROVE BodyInv'
  <2>1. Reading /\ Within
    BY <1>1 DEF ReadTopic, Reading, Within
  <2>2. PICK n \in StrLens :
          \/ StoreError(remaining_len, index, n) # "None" /\ Fail(StoreError(remaining_len, index, n))
          \/ /\ StoreError(remaining_len, index, n) = "None" /\ n > 0
             /\ \E rc \in {"MalformedPacket", "TopicNameInvalid"} : FailAfter(n, rc)
          \/ /\ StoreError(remaining_len, index, n) = "None"
             /\ Advance(2 + n, n)
             /\ packet' = [packet EXCEPT !.topic = n > 0]
             /\ phase' = IF packet.flags = 0 THEN "PropLen" ELSE "Pid"
             /\ Kept
    BY <1>1, Zenon DEF ReadTopic
  <2>3. n \in Nat /\ 2 + n \in Nat /\ n <= 2 + n
    BY BodyAssumption, SMT
  <2>4. /\ StoreError(remaining_len, index, n) = "None" => 2 + n <= remaining_len /\ index + n <= Capacity
        /\ StoreError(remaining_len, index, n) # "PacketTooLarge"
        /\ StoreError(remaining_len, index, n) = "ImplementationSpecificError" =>
             base + packet.len > Capacity
    <3>1. remaining_len \in Int /\ index \in Nat /\ index + remaining_len <= base + packet.len
      BY <2>1, SMT DEF BodyInv
    <3> QED
      BY <2>3, <3>1, Stored
  <2>5. CASE StoreError(remaining_len, index, n) # "None" /\ Fail(StoreError(remaining_len, index, n))
    BY <2>4, <2>5, PlainFailStep
  <2>6. CASE /\ StoreError(remaining_len, index, n) = "None" /\ n > 0
             /\ \E rc \in {"MalformedPacket", "TopicNameInvalid"} : FailAfter(n, rc)
    BY <2>3, <2>4, <2>6, FailStep
  <2>7. CASE /\ StoreError(remaining_len, index, n) = "None"
             /\ Advance(2 + n, n)
             /\ packet' = [packet EXCEPT !.topic = n > 0]
             /\ phase' = IF packet.flags = 0 THEN "PropLen" ELSE "Pid"
             /\ Kept
    <3>1. /\ packet' = [x \in DOMAIN packet' |-> packet'[x]]
          /\ DOMAIN packet' = DOMAIN packet /\ packet'.len = packet.len
      BY <2>7, Updated
    <3>2. phase' \notin {"Returned", "Astray", "Done"}
      BY <2>7
    <3> QED
      BY <2>1, <2>3, <2>4, <2>7, <3>1, <3>2, ReadStep DEF Kept
  <2> QED
    BY <2>2, <2>5, <2>6, <2>7
<1>2. ASSUME NEW n \in {1, 2}, NEW next \in {"Reason", "PropLen"}, Reading,
             Field(n, {"ProtocolError"}, phase' = next /\ UNCHANGED packet /\ Kept)
      PROVE  BodyInv'
  <2>1. CASE \E rc \in {"MalformedPacket", "ProtocolError"} : Fail(rc)
    BY <2>1, PlainFailStep
  <2>2. CASE remaining_len >= n /\ Advance(n, 0) /\ phase' = next /\ UNCHANGED packet /\ Kept
    <3>1. n \in Nat /\ 0 \in Nat /\ n <= remaining_len /\ 0 <= n /\ index + 0 <= Capacity
      BY <2>2, SMT DEF BodyInv
    <3>2. phase' \notin {"Returned", "Astray", "Done"}
      BY <2>2
    <3> QED
      BY <1>2, <2>2, <3>1, <3>2, ReadStep DEF Kept, BodyInv
  <2> QED
    BY <1>2, <2>1, <2>2 DEF Field
<1>3. ASSUME ReadPid PROVE BodyInv'
  <2>1. Reading
    BY <1>3 DEF ReadPid, Reading
  <2>2. Field(2, {"ProtocolError"},
              /\ phase' = IF packet.type = "Ack" /\ packet.len # 2 THEN "Reason" ELSE "PropLen"
              /\ UNCHANGED packet /\ Kept)
    BY <1>3, Zenon DEF ReadPid
  <2>3. CASE packet.type = "Ack" /\ packet.len # 2
    BY <1>2, <2>1, <2>2, <2>3 DEF Field
  <2>4. CASE ~(packet.type = "Ack" /\ packet.len # 2)
    BY <1>2, <2>1, <2>2, <2>4 DEF Field
  <2> QED
    BY <2>3, <2>4
<1>4. ASSUME ReadReason PROVE BodyInv'
  <2>1. Reading
    BY <1>4 DEF ReadReason, Reading
  <2>2. Field(IF packet.type = "Connack" THEN 2 ELSE 1, {"ProtocolError"},
              phase' = "PropLen" /\ UNCHANGED packet /\ Kept)
    BY <1>4, Zenon DEF ReadReason, ReasonLen
  <2>3. CASE packet.type = "Connack"
    BY <1>2, <2>1, <2>2, <2>3
  <2>4. CASE packet.type # "Connack"
    BY <1>2, <2>1, <2>2, <2>4
  <2> QED
    BY <2>3, <2>4
<1> QED
  BY <1>1, <1>3, <1>4

(* The length of the property list.                                         *)
LEMMA PropertyLengthStep ==
    ASSUME BodyInv, ReadPropertyLength
    PROVE  BodyInv'
<1>1. Reading
  BY DEF ReadPropertyLength, Reading
<1>2. ASSUME \E rc \in {"MalformedPacket", "ProtocolError"} : Fail(rc) PROVE BodyInv'
  BY <1>2, PlainFailStep
<1>3. ASSUME NEW k \in VarLens \cup {0}, NEW v, remaining_len >= k, StartList(k, v) PROVE BodyInv'
  <2>1. CASE /\ Advance(k, 0) /\ phase' = "Props"
             /\ UNCHANGED <<net, connection, packet, result, base, astray, excused>>
    <3>1. k \in Nat /\ 0 \in Nat /\ k <= remaining_len /\ 0 <= k /\ index + 0 <= Capacity
      BY <1>3, BodyAssumption, SMT DEF BodyInv
    <3>2. phase' \notin {"Returned", "Astray", "Done"}
      BY <2>1
    <3> QED
      BY <1>1, <2>1, <3>1, <3>2, ReadStep DEF BodyInv
  <2> QED
    BY <1>2, <1>3, <2>1 DEF StartList
<1> QED
  BY <1>2, <1>3 DEF ReadPropertyLength

(* A property of 1 + n bytes.                                               *)
LEMMA TookStep ==
    ASSUME BodyInv, InList, NEW n \in Nat, NEW counted, NEW stored \in Nat, NEW p,
           1 + n <= remaining_len, stored <= n, index + stored <= Capacity,
           p = [x \in DOMAIN p |-> p[x]], DOMAIN p = DOMAIN packet, p.len = packet.len
    PROVE  /\ Took(n, counted, stored, p) => BodyInv'
           /\ Take(n, counted, stored, p) => BodyInv'
<1>1. Reading /\ phase = "Props"
  BY DEF InList, Reading
<1>2. ASSUME Took(n, counted, stored, p) PROVE BodyInv'
  <2>1. /\ Advance(1 + n, stored) /\ packet' = p /\ phase' = "Props"
        /\ UNCHANGED <<connection, result, base, astray, excused>>
    BY <1>1, <1>2 DEF Took
  <2>2. 1 + n \in Nat /\ stored <= 1 + n
    BY SMT
  <2> QED
    BY <1>1, <2>1, <2>2, ReadStep
<1>3. ASSUME FailAfter(stored, "MalformedPacket") PROVE BodyInv'
  BY <1>3, FailStep
<1> QED
  BY <1>2, <1>3 DEF Take

(* Properties that are refused, or whose length goes with the identifier.   *)
LEMMA ShortPropertyStep ==
    ASSUME BodyInv, RefuseProperty \/ FixedProperty \/ SubscriptionIdentifier
    PROVE  BodyInv'
<1>1. ASSUME RefuseProperty PROVE BodyInv'
  BY <1>1, PlainFailStep DEF RefuseProperty
<1>2. ASSUME FixedProperty PROVE BodyInv'
  <2>1. PICK name \in Names \cap (Flag \cup Two \cup Four) :
          \/ Fail("MalformedPacket")
          \/ \E rc \in BadValue(name, FixedLen(name)) : Fail(rc)
          \/ /\ remaining_len >= 1 + FixedLen(name)
             /\ Take(FixedLen(name), FixedLen(name), 0, WithProperty(name))
    BY <1>2 DEF FixedProperty
  <2>2. FixedLen(name) \in {1, 2, 4}
    BY DEF FixedLen
  <2>3. BadValue(name, FixedLen(name)) \subseteq {"MalformedPacket", "ProtocolError", "TopicNameInvalid"}
    BY Zenon DEF BadValue
  <2>4. CASE Fail("MalformedPacket") \/ \E rc \in BadValue(name, FixedLen(name)) : Fail(rc)
    BY <2>3, <2>4, PlainFailStep
  <2>5. CASE /\ remaining_len >= 1 + FixedLen(name)
             /\ Take(FixedLen(name), FixedLen(name), 0, WithProperty(name))
    <3> DEFINE p == WithProperty(name)
    <3>1. p = [x \in DOMAIN p |-> p[x]] /\ DOMAIN p = DOMAIN packet /\ p.len = packet.len
      BY Updated, Zenon DEF WithProperty
    <3>2. /\ FixedLen(name) \in Nat /\ 1 + FixedLen(name) <= remaining_len
          /\ 0 <= FixedLen(name) /\ index + 0 <= Capacity
      BY <2>2, <2>5, SMT DEF BodyInv
    <3>3. InList
      BY <1>2 DEF FixedProperty
    <3> QED
      BY <2>5, <3>1, <3>2, <3>3, TookStep
  <2> QED
    BY <2>1, <2>4, <2>5
<1>3. ASSUME SubscriptionIdentifier PROVE BodyInv'
  <2>1. PICK c \in VarLens, k \in VarLens :
          \/ Fail("MalformedPacket")
          \/ remaining_len >= 1 + k /\ Take(k, c, 0, [packet EXCEPT !.padded = @ \/ c < k])
    BY <1>3, Zenon DEF SubscriptionIdentifier
  <2>2. CASE Fail("MalformedPacket")
    BY <2>2, PlainFailStep
  <2>3. CASE remaining_len >= 1 + k /\ Take(k, c, 0, [packet EXCEPT !.padded = @ \/ c < k])
    <3> DEFINE p == [packet EXCEPT !.padded = @ \/ c < k]
    <3>1. p = [x \in DOMAIN p |-> p[x]] /\ DOMAIN p = DOMAIN packet /\ p.len = packet.len
      BY Updated
    <3>2. k \in Nat /\ 1 + k <= remaining_len /\ 0 <= k /\ index + 0 <= Capacity
      BY <2>3, BodyAssumption, SMT DEF BodyInv
    <3>3. InList
      BY <1>3 DEF SubscriptionIdentifier
    <3> HIDE DEF p
    <3> QED
      BY <2>3, <3>1, <3>2, <3>3, TookStep, Zenon DEF p
  <2> QED
    BY <2>1, <2>2, <2>3
<1> QED
  BY <1>1, <1>2, <1>3

(* Properties that are stored.                                              *)
LEMMA StoredPropertyStep ==
    ASSUME BodyInv, TextProperty \/ UserProperty
    PROVE  BodyInv'
<1>1. /\ InList /\ remaining_len \in Nat /\ index \in Nat /\ base + packet.len \in Nat
      /\ index + remaining_len <= base + packet.len
  <2>1. InList /\ Within
    BY DEF TextProperty, UserProperty, InList, Within
  <2> QED
    BY <2>1, SMT DEF BodyInv
<1>2. ASSUME TextProperty PROVE BodyInv'
  <2>1. PICK name \in Names \cap (Text \cup {"CorrelationData"}), n \in StrLens :
          LET error == StoreError(remaining_len - 1, index, n)
          IN  \/ error # "None" /\ Fail(error)
              \/ error = "None" /\ \E rc \in BadValue(name, n) : FailAfter(n, rc)
              \/ error = "None" /\ Take(2 + n, 2 + n, n, WithProperty(name))
    BY <1>2, Zenon DEF TextProperty
  <2> DEFINE error == StoreError(remaining_len - 1, index, n)
             p == WithProperty(name)
  <2>2. n \in Nat /\ remaining_len - 1 \in Int /\ index + (remaining_len - 1) <= base + packet.len
    BY <1>1, BodyAssumption, SMT
  <2>3. /\ error = "None" => 2 + n <= remaining_len - 1 /\ index + n <= Capacity
        /\ error # "PacketTooLarge"
        /\ error = "ImplementationSpecificError" => base + packet.len > Capacity
    BY <1>1, <2>2, Stored
  <2>4. BadValue(name, n) \subseteq {"MalformedPacket", "ProtocolError", "TopicNameInvalid"}
    BY Zenon DEF BadValue
  <2>5. p = [x \in DOMAIN p |-> p[x]] /\ DOMAIN p = DOMAIN packet /\ p.len = packet.len
    BY Updated DEF WithProperty
  <2> HIDE DEF error, p
  <2>6. CASE error # "None" /\ Fail(error)
    BY <2>3, <2>6, PlainFailStep
  <2>7. CASE error = "None" /\ \E rc \in BadValue(name, n) : FailAfter(n, rc)
    BY <2>2, <2>3, <2>4, <2>7, FailStep
  <2>8. CASE error = "None" /\ Take(2 + n, 2 + n, n, p)
    <3>1. 2 + n \in Nat /\ 1 + (2 + n) <= remaining_len /\ n <= 2 + n
      BY <1>1, <2>2, <2>3, <2>8, SMT
    <3> QED
      BY <1>1, <2>2, <2>3, <2>5, <2>8, <3>1, TookStep
  <2> QED
    BY <2>1, <2>6, <2>7, <2>8 DEF error, p
<1>3. ASSUME UserProperty PROVE BodyInv'
  <2>1. PICK n \in StrLens, m \in StrLens :
          LET name == StoreError(remaining_len - 1, index, n)
              value == StoreError(remaining_len - 3 - n, index + n, m)
          IN  \/ name # "None" /\ Fail(name)
              \/ name = "None" /\ FailAfter(n, "MalformedPacket")
              \/ name = "None" /\ value # "None" /\ FailAfter(n, value)
              \/ name = "None" /\ value = "None" /\ FailAfter(n + m, "MalformedPacket")
              \/ /\ name = "None" /\ value = "None"
                 /\ Take(4 + n + m, 4 + n + m, n + m, [packet EXCEPT !.users = @ + 1])
    BY <1>3, Zenon DEF UserProperty
  <2> DEFINE name == StoreError(remaining_len - 1, index, n)
             value == StoreError(remaining_len - 3 - n, index + n, m)
             p == [packet EXCEPT !.users = @ + 1]
  <2>2. /\ n \in Nat /\ m \in Nat /\ n + m \in Nat /\ index + n \in Nat
        /\ remaining_len - 1 \in Int /\ index + (remaining_len - 1) <= base + packet.len
        /\ remaining_len - 3 - n \in Int
        /\ (index + n) + (remaining_len - 3 - n) <= base + packet.len
    BY <1>1, BodyAssumption, SMT
  <2>3. /\ name = "None" => 2 + n <= remaining_len - 1 /\ index + n <= Capacity
        /\ name # "PacketTooLarge"
        /\ name = "ImplementationSpecificError" => base + packet.len > Capacity
    BY <1>1, <2>2, Stored
  <2>4. /\ value = "None" => 2 + m <= remaining_len - 3 - n /\ (index + n) + m <= Capacity
        /\ value # "PacketTooLarge"
        /\ value = "ImplementationSpecificError" => base + packet.len > Capacity
    BY <1>1, <2>2, Stored
  <2>5. p = [x \in DOMAIN p |-> p[x]] /\ DOMAIN p = DOMAIN packet /\ p.len = packet.len
    BY Updated
  <2>6. /\ value = "None" => index + (n + m) <= Capacity
        /\ value = "None" => 1 + (4 + n + m) <= remaining_len
        /\ 4 + n + m \in Nat /\ n + m <= 4 + n + m
    BY <1>1, <2>2, <2>4, BodyAssumption, SMT
  <2> HIDE DEF name, value, p
  <2>7. CASE name # "None" /\ Fail(name)
    BY <2>3, <2>7, PlainFailStep
  <2>8. CASE name = "None" /\ FailAfter(n, "MalformedPacket")
    BY <2>2, <2>3, <2>8, FailStep
  <2>9. CASE name = "None" /\ value # "None" /\ FailAfter(n, value)
    BY <2>2, <2>3, <2>4, <2>9, FailStep
  <2>10. CASE name = "None" /\ value = "None" /\ FailAfter(n + m, "MalformedPacket")
    BY <2>2, <2>6, <2>10, FailStep
  <2>11. CASE name = "None" /\ value = "None" /\ Take(4 + n + m, 4 + n + m, n + m, p)
    BY <1>1, <2>2, <2>5, <2>6, <2>11, TookStep
  <2> QED
    BY <2>1, <2>7, <2>8, <2>9, <2>10, <2>11 DEF name, value, p
<1> QED
  BY <1>2, <1>3

(* BodyReader::skip beyond the end of the body                              *)
LEMMA OverrunStep ==
    ASSUME BodyInv, InList, Overrun
    PROVE  BodyInv'
<1>1. /\ Within /\ Reading /\ result = "None"
  BY DEF InList, Within, Reading, BodyInv
<1>2. result' = "None" /\ phase' # "Done" /\ phase' # "Returned"
  BY <1>1 DEF Overrun
<1>3. BufferSuffices' /\ LimitKept'
  BY <1>1, <1>2 DEF BufferSuffices, LimitKept, Overrun, BodyInv
<1> QED
  BY <1>1, <1>2, <1>3 DEF Overrun, BodyInv

(* Properties that are skipped.                                             *)
LEMMA SkippedPropertyStep ==
    ASSUME BodyInv, SkipUserProperty \/ SkipProperty
    PROVE  BodyInv'
<1>1. InList /\ remaining_len \in Nat /\ index + 0 <= Capacity /\ 0 \in Nat
  BY SMT DEF SkipUserProperty, SkipProperty, BodyInv
<1>2. CASE Fail("MalformedPacket")
  BY <1>2, PlainFailStep
<1>3. CASE Overrun
  BY <1>1, <1>3, OverrunStep
<1>4. ASSUME SkipUserProperty PROVE BodyInv'
  <2>1. PICK n \in StrLens, m \in StrLens :
          \/ Fail("MalformedPacket") \/ Overrun
          \/ remaining_len - 3 - n - 2 >= m /\ Take(4 + n + m, 4 + n + m, 0, packet)
    BY <1>4 DEF SkipUserProperty
  <2>2. CASE remaining_len - 3 - n - 2 >= m /\ Take(4 + n + m, 4 + n + m, 0, packet)
    <3>1. 4 + n + m \in Nat /\ 1 + (4 + n + m) <= remaining_len /\ 0 <= 4 + n + m
      BY <1>1, <2>2, BodyAssumption, SMT
    <3>2. packet = [x \in DOMAIN packet |-> packet[x]]
      BY DEF BodyInv
    <3> QED
      BY <1>1, <2>2, <3>1, <3>2, TookStep
  <2> QED
    BY <1>2, <1>3, <2>1, <2>2
<1>5. ASSUME SkipProperty PROVE BodyInv'
  <2>1. PICK name \in Names \cap Skipped, n \in StrLens :
          \/ Fail("MalformedPacket") \/ Overrun
          \/ remaining_len >= 3 + n /\ Took(2 + n, 2 + n, 0, WithProperty(name))
    BY <1>5 DEF SkipProperty
  <2>2. CASE remaining_len >= 3 + n /\ Took(2 + n, 2 + n, 0, WithProperty(name))
    <3> DEFINE p == WithProperty(name)
    <3>1. p = [x \in DOMAIN p |-> p[x]] /\ DOMAIN p = DOMAIN packet /\ p.len = packet.len
      BY Updated DEF WithProperty
    <3>2. 2 + n \in Nat /\ 1 + (2 + n) <= remaining_len /\ 0 <= 2 + n
      BY <1>1, <2>2, BodyAssumption, SMT
    <3> HIDE DEF p
    <3> QED
      BY <1>1, <2>2, <3>1, <3>2, TookStep DEF p
  <2> QED
    BY <1>2, <1>3, <2>1, <2>2
<1> QED
  BY <1>4, <1>5

-----------------------------------------------------------------------------
(* The end of the properties and what follows them.                         *)
LEMMA PayloadStep ==
    ASSUME BodyInv, EndOfProperties \/ ReadMessage \/ ReadCodes
    PROVE  BodyInv'
<1>1. Reading /\ remaining_len \in Nat /\ index \in Nat /\ index <= Capacity
  BY DEF EndOfProperties, ReadMessage, ReadCodes, Reading, BodyInv
<1>2. CASE Fail("ProtocolError")
  BY <1>2, PlainFailStep
<1>3. ASSUME UNCHANGED <<packet, remaining_len, unread, index>>, Kept,
             phase' \notin {"Returned", "Astray"}, phase' = "Done" => remaining_len = 0
      PROVE  BodyInv'
  <2>1. /\ Advance(0, 0) /\ 0 \in Nat /\ 0 <= remaining_len /\ index + 0 <= Capacity
        /\ remaining_len' = remaining_len
    BY <1>1, <1>3, SMT DEF Advance, BodyInv
  <2>2. 0 <= 0
    BY SMT
  <2> QED
    BY <1>1, <1>3, <2>1, <2>2, ReadStep DEF Kept, BodyInv
<1>4. ASSUME EndOfProperties PROVE BodyInv'
  <2>1. CASE /\ phase' = CASE packet.type = "Publish" -> "Message"
                           [] packet.type = "Suback" -> "Codes"
                           [] OTHER -> "Done"
             /\ UNCHANGED <<packet, remaining_len, unread, index>> /\ Kept
    <3>1. phase' = "Done" => ~Counted
      BY <2>1 DEF Counted
    <3>2. ~Counted => remaining_len = 0
      <4>1. ~Counted => ~(remaining_len > 0)
        BY <1>4 DEF EndOfProperties, InList
      <4> QED
        BY <1>1, <4>1, SMT
    <3>3. phase' \notin {"Returned", "Astray"}
      BY <2>1
    <3> QED
      BY <1>3, <2>1, <3>1, <3>2, <3>3
  <2> QED
    BY <1>2, <1>4, <2>1 DEF EndOfProperties
<1>5. ASSUME ReadMessage PROVE BodyInv'
  <2>1. CASE Capacity - index < remaining_len /\ Fail("ImplementationSpecificError")
    <3>1. base + packet.len > Capacity
      <4>1. Within
        BY <1>5 DEF ReadMessage, Within
      <4> QED
        BY <2>1, <4>1, BodyAssumption, SMT DEF BodyInv
    <3> QED
      BY <2>1, <3>1, PlainFailStep
  <2>2. CASE /\ Capacity - index >= remaining_len /\ Advance(remaining_len, remaining_len)
             /\ phase' = "Done" /\ UNCHANGED packet /\ Kept
    <3>1. /\ index + remaining_len <= Capacity /\ remaining_len <= remaining_len
          /\ remaining_len' = 0
      BY <1>1, <2>2, BodyAssumption, SMT DEF Advance
    <3>2. phase' \notin {"Returned", "Astray"}
      BY <2>2
    <3> QED
      BY <1>1, <2>2, <3>1, <3>2, ReadStep DEF Kept, BodyInv
  <2> QED
    BY <1>5, <2>1, <2>2 DEF ReadMessage
<1>6. ASSUME ReadCodes PROVE BodyInv'
  <2>1. CASE /\ remaining_len > 0 /\ Advance(1, 0) /\ packet' = [packet EXCEPT !.codes = 1]
             /\ UNCHANGED phase /\ Kept
    <3>1. /\ packet' = [x \in DOMAIN packet' |-> packet'[x]]
          /\ DOMAIN packet' = DOMAIN packet /\ packet'.len = packet.len
      BY <2>1, Updated
    <3>2. 1 \in Nat /\ 0 \in Nat /\ 1 <= remaining_len /\ 0 <= 1 /\ index + 0 <= Capacity
      BY <1>1, <2>1, SMT
    <3>3. phase' \notin {"Returned", "Astray", "Done"}
      BY <1>6, <2>1 DEF ReadCodes
    <3> QED
      BY <1>1, <2>1, <3>1, <3>2, <3>3, ReadStep DEF Kept
  <2>2. CASE /\ remaining_len = 0 /\ phase' = "Done"
             /\ UNCHANGED <<packet, remaining_len, unread, index>> /\ Kept
    BY <1>3, <2>2
  <2> QED
    BY <1>2, <1>6, <2>1, <2>2 DEF ReadCodes
<1> QED
  BY <1>4, <1>5, <1>6

(* The packet is complete: nothing of the body is left, unless it is a      *)
(* PINGRESP that must not have had one.                                     *)
LEMMA FinishStep ==
    ASSUME BodyInv, Finish \/ AstrayEnds
    PROVE  BodyInv'
<1>1. ASSUME AstrayEnds PROVE BodyInv'
  <2>1. astray
    BY <1>1 DEF AstrayEnds, BodyInv
  <2> QED
    BY <1>1, <2>1, PlainFailStep DEF AstrayEnds
<1>2. ASSUME Finish PROVE BodyInv'
  <2>1. CASE Objection # "None" /\ Fail(Objection)
    <3>1. Objection \in {"ProtocolError", "TopicAliasInvalid", "None"}
      BY DEF Objection
    <3> QED
      BY <2>1, <3>1, PlainFailStep
  <2>2. ASSUME NEW rc \in SessionRefusals, Fail(rc) PROVE BodyInv'
    BY <2>2, PlainFailStep DEF SessionRefusals
  <2>3. CASE /\ phase' = "Returned" /\ result' = "Accepted"
             /\ connection' = [connection EXCEPT !.connecting = FALSE,
                                                 !.requests = @ \ {"Response"}]
             /\ astray' = (astray \/ unread # 0)
             /\ UNCHANGED <<packet, remaining_len, properties_length, index, unread, listed,
                            base, excused>>
    <3>1. /\ phase' = "Returned" /\ result' = "Accepted"
          /\ UNCHANGED <<packet, remaining_len, properties_length, index, unread, listed, base, excused>>
      BY <2>3
    <3>2. /\ connection' \in [connecting : BOOLEAN, limit : Nat,
                              requests : SUBSET {"Problem", "Response"}]
          /\ connection'.limit = connection.limit
      BY <2>3, Zenon DEF BodyInv
    <3>3. astray' \in BOOLEAN /\ (astray' => excused')
      <4>1. unread # 0 => excused
        BY <1>2 DEF Finish, BodyInv
      <4> QED
        BY <2>3, <4>1 DEF BodyInv
    <3>4. ~Within' /\ ~Reading' /\ BufferSuffices' /\ LimitKept'
      BY <3>1 DEF Within, Reading, BufferSuffices, LimitKept
    <3> QED
      BY <3>1, <3>2, <3>3, <3>4 DEF BodyInv
  <2> QED
    BY <1>2, <2>1, <2>2, <2>3, Zenon DEF Finish
<1> QED
  BY <1>1, <1>2

(* A read that fails, or a call that is given up.                           *)
LEMMA BreakStep ==
    ASSUME BodyInv, TransportFails \/ Cancel
    PROVE  BodyInv'
<1>1. index' \in Nat /\ index' <= Capacity
  BY BodyAssumption, SMT DEF BodyInv, TransportFails, Cancel
<1>2. /\ phase' = "Returned" /\ result' \in {"Terminated", "Cancelled"}
      /\ UNCHANGED <<connection, packet, remaining_len, unread, base>>
  BY DEF TransportFails, Cancel
<1>3. astray' \in BOOLEAN /\ excused' \in BOOLEAN /\ (astray' => excused')
  <2>1. \/ astray' = astray /\ excused' = excused
        \/ astray' = (astray \/ unread # 0) /\ excused' = (excused \/ unread # 0)
    BY DEF TransportFails, Cancel
  <2>2. astray \in BOOLEAN /\ excused \in BOOLEAN /\ (astray => excused)
    BY DEF BodyInv
  <2>3. CASE astray' = astray /\ excused' = excused
    BY <2>2, <2>3
  <2>4. CASE astray' = (astray \/ unread # 0) /\ excused' = (excused \/ unread # 0)
    BY <2>2, <2>4
  <2> QED
    BY <2>1, <2>3, <2>4
<1>4. ~Within' /\ ~Reading' /\ BufferSuffices' /\ LimitKept'
  BY <1>2 DEF Within, Reading, BufferSuffices, LimitKept
<1> QED
  BY <1>1, <1>2, <1>3, <1>4 DEF BodyInv

-----------------------------------------------------------------------------
(* Between packets.                                                         *)
LEMMA IdleStep ==
    ASSUME BodyInv, Open \/ Close \/ Reset \/ Drop
    PROVE  BodyInv'
<1>1. ASSUME Open PROVE BodyInv'
  <2>1. PICK l \in Limits, requests \in SUBSET {"Problem", "Response"} :
          connection' = [connecting |-> TRUE, limit |-> l, requests |-> requests]
    BY <1>1, Zenon DEF Open
  <2>2. l \in Nat /\ 2 <= l /\ l <= Unlimited
    BY BodyAssumption
  <2>3. /\ phase = "Idle" /\ result = "None" /\ astray' = FALSE /\ excused' = FALSE
        /\ UNCHANGED <<index, result, readerVars>>
    BY <1>1 DEF Open, BodyInv
  <2>4. ~Within' /\ ~Reading' /\ BufferSuffices' /\ LimitKept'
    BY <2>3 DEF Within, Reading, BufferSuffices, LimitKept, readerVars
  <2> QED
    BY <2>1, <2>2, <2>3, <2>4, Zenon DEF BodyInv, readerVars
<1>2. ASSUME Close \/ Reset PROVE BodyInv'
  <2>1. /\ phase = "Idle" /\ result = "None"
        /\ UNCHANGED <<connection, result, astray, excused, readerVars>>
        /\ index' = index \/ index' = 0
    BY <1>2 DEF Close, Reset, BodyInv
  <2>2. ~Within' /\ ~Reading' /\ BufferSuffices' /\ LimitKept'
    BY <2>1 DEF Within, Reading, BufferSuffices, LimitKept, readerVars
  <2>3. index' \in Nat /\ index' <= Capacity
    BY <2>1, BodyAssumption, SMT DEF BodyInv
  <2> QED
    BY <2>1, <2>2, <2>3 DEF BodyInv, readerVars
<1>3. ASSUME Drop PROVE BodyInv'
  <2>1. /\ phase' = "Idle" /\ result' = "None" /\ remaining_len' = 0 /\ unread' = 0 /\ base' = 0
        /\ packet' = Header("Pingresp", 0, 0)
        /\ UNCHANGED <<connection, index, astray, excused>>
    BY <1>3 DEF Drop
  <2>2. ~Within' /\ ~Reading' /\ BufferSuffices' /\ LimitKept'
    BY <2>1 DEF Within, Reading, BufferSuffices, LimitKept
  <2>3. /\ packet' = [x \in DOMAIN packet' |-> packet'[x]]
        /\ DOMAIN packet' = DOMAIN Header("Pingresp", 0, 0) /\ packet'.len = 0
    BY <2>1 DEF Header
  <2> QED
    BY <2>1, <2>2, <2>3, SMT DEF BodyInv
<1> QED
  BY <1>1, <1>2, <1>3

(* A fixed header: what poll_header compares the length with is what the    *)
(* announced limit comes to.                                                *)
LEMMA BeginStep ==
    ASSUME BodyInv, Begin
    PROVE  BodyInv'
<1>1. PICK type \in Types, len \in Lens, flags \in 0..3 :
        LET h == Header(type, len, flags)
        IN  /\ packet' = h
            /\ \/ /\ Refusal(h) # "None" /\ net' = Refusal(h) /\ result' = Refusal(h)
                  /\ phase' = "Returned" /\ UNCHANGED excused
               \/ /\ Refusal(h) = "None" /\ phase' = FirstPhase(type, len)
                  /\ excused' = (excused \/ (type = "Pingresp" /\ len > 0))
                  /\ UNCHANGED <<net, result>>
            /\ remaining_len' = len /\ unread' = len
  BY Zenon DEF Begin
<1> DEFINE h == Header(type, len, flags)  l == connection.limit
<1>2. len \in Nat /\ len <= MAX_ENCODABLE /\ l \in Nat /\ 2 <= l /\ l <= Unlimited
  BY BodyAssumption DEF BodyInv
<1>3. h.type = type /\ h.len = len /\ h.flags = flags
  BY DEF Header
<1>4. /\ packet' = [x \in DOMAIN packet' |-> packet'[x]]
      /\ DOMAIN packet' = DOMAIN Header("Pingresp", 0, 0) /\ packet'.len = len
  BY <1>1, Zenon DEF Header
<1>5. /\ Refusal(h) = "PacketTooLarge" => EncodedLen(len) > l
      /\ Refusal(h) = "None" /\ ~connection.connecting => EncodedLen(len) <= l
  <2>1. len <= maximum_accepted_remaining_length(l) <=> EncodedLen(len) <= l
    BY <1>2, AcceptedIffWithinLimit
  <2>2. EncodedLen(len) \in Nat /\ maximum_accepted_remaining_length(l) \in Int
    BY <1>2, VarByteIntLen, SMT
    DEF EncodedLen, maximum_accepted_remaining_length, Unlimited, MAX_ENCODABLE,
        MAX_POSSIBLE_PACKET_SIZE
  <2>3. /\ Refusal(h) = "PacketTooLarge" => len > maximum_accepted_remaining_length(l)
        /\ Refusal(h) = "None" /\ ~connection.connecting =>
             ~(len > maximum_accepted_remaining_length(l))
    BY <1>3 DEF Refusal
  <2> QED
    BY <1>2, <2>1, <2>2, <2>3, SMT
<1>6. /\ Refusal(h) # "ImplementationSpecificError"
      /\ Refusal(h) = "None" => type \notin {"Unexpected", "Invalid"}
  BY <1>3 DEF Refusal
<1>7. type \notin {"Unexpected", "Invalid"} =>
        /\ FirstPhase(type, len) \in {"Pid", "Topic", "Done", "Reason", "PropLen"}
        /\ FirstPhase(type, len) = "Done" => type = "Pingresp"
  BY DEF Types, FirstPhase
<1>8. /\ base' = index /\ UNCHANGED <<connection, index, astray>> /\ phase = "Idle"
      /\ result = "None"
  BY DEF Begin, BodyInv
<1>9. index' + remaining_len' <= base' + packet'.len
  BY <1>1, <1>2, <1>4, <1>8, SMT DEF BodyInv
<1> HIDE DEF h, l
<1>10. CASE /\ Refusal(h) # "None" /\ net' = Refusal(h) /\ result' = Refusal(h)
            /\ phase' = "Returned" /\ UNCHANGED excused
  <2>1. ~Within' /\ ~Reading' /\ BufferSuffices' /\ LimitKept'
    BY <1>4, <1>5, <1>6, <1>8, <1>10 DEF Within, Reading, BufferSuffices, LimitKept, l
  <2> QED
    BY <1>1, <1>2, <1>4, <1>8, <1>10, <2>1 DEF BodyInv
<1>11. CASE /\ Refusal(h) = "None" /\ phase' = FirstPhase(type, len)
            /\ excused' = (excused \/ (type = "Pingresp" /\ len > 0))
            /\ UNCHANGED <<net, result>>
  <2>1. phase' \notin {"Returned", "Astray"} /\ result' = "None"
    BY <1>6, <1>7, <1>8, <1>11
  <2>2. excused' \in BOOLEAN /\ (astray' => excused')
    BY <1>8, <1>11 DEF BodyInv
  <2>3. phase' = "Done" => remaining_len' = 0 \/ excused'
    <3>1. phase' = "Done" => type = "Pingresp"
      BY <1>6, <1>7, <1>11
    <3>2. remaining_len' = len /\ (len = 0 \/ len > 0)
      BY <1>1, <1>2, SMT
    <3> QED
      BY <1>11, <3>1, <3>2, Zenon
  <2>4. BufferSuffices' /\ LimitKept'
    BY <1>4, <1>5, <1>8, <1>11, <2>1 DEF BufferSuffices, LimitKept, l
  <2> QED
    BY <1>1, <1>2, <1>4, <1>8, <1>9, <2>1, <2>2, <2>3, <2>4 DEF BodyInv
<1> QED
  BY <1>1, <1>10, <1>11 DEF h

(* Nothing happens.                                                         *)
LEMMA StutterStep ==
    ASSUME BodyInv, UNCHANGED bodyVars
    PROVE  BodyInv'
BY DEF BodyInv, bodyVars, readerVars, Within, Reading, BufferSuffices, LimitKept

(* The invariant holds in every behaviour of Body.                          *)
LEMMA BodyInvariant == BodySpec => []BodyInv
<1>1. BodyInit => BodyInv
  <2> SUFFICES ASSUME BodyInit PROVE BodyInv
    OBVIOUS
  <2>1. ~Within /\ ~Reading /\ BufferSuffices /\ LimitKept
    BY DEF BodyInit, Within, Reading, BufferSuffices, LimitKept
  <2>2. Unlimited \in Nat /\ 2 <= Unlimited /\ Unlimited <= Unlimited
    BY SMT DEF Unlimited, MAX_ENCODABLE
  <2>3. /\ packet = [x \in DOMAIN packet |-> packet[x]]
        /\ DOMAIN packet = DOMAIN Header("Pingresp", 0, 0) /\ packet.len = 0
    BY DEF BodyInit, Header
  <2>4. /\ connection \in [connecting : BOOLEAN, limit : Nat, requests : SUBSET {"Problem", "Response"}]
        /\ connection.limit = Unlimited
    BY <2>2 DEF BodyInit
  <2>5. index \in Nat /\ index <= Capacity
    BY BodyAssumption, SMT DEF BodyInit
  <2> QED
    BY <2>1, <2>2, <2>3, <2>4, <2>5, Zenon DEF BodyInit, BodyInv
<1>2. BodyInv /\ [BodyNext]_bodyVars => BodyInv'
  <2> SUFFICES ASSUME BodyInv, [BodyNext]_bodyVars PROVE BodyInv'
    OBVIOUS
  <2>1. CASE Decode
    BY <2>1, FieldStep, PropertyLengthStep, ShortPropertyStep, StoredPropertyStep,
       SkippedPropertyStep, PayloadStep, FinishStep DEF Decode
  <2>2. CASE Open \/ Close \/ Reset \/ Drop
    BY <2>2, IdleStep
  <2>3. CASE Begin
    BY <2>3, BeginStep
  <2>4. CASE TransportFails \/ Cancel
    BY <2>4, BreakStep
  <2>5. CASE UNCHANGED bodyVars
    BY <2>5, StutterStep
  <2> QED
    BY <2>1, <2>2, <2>3, <2>4, <2>5 DEF BodyNext
<1> QED
  BY <1>1, <1>2, PTL DEF BodySpec

-----------------------------------------------------------------------------
(* recv_body: after every packet the stream stands at the next fixed        *)
(* header, whatever the server sends, with the two exceptions of            *)
(* BoundaryKept and unless the user cancels poll_body.                      *)
THEOREM StreamStaysAligned == BodySpec => []BoundaryKept
<1>1. BodyInv => BoundaryKept
  BY DEF BodyInv, BoundaryKept
<1> QED
  BY <1>1, BodyInvariant, PTL

(* A buffer as long as the body is enough for any packet.                   *)
THEOREM BodyFitsItsLength == BodySpec => []BufferSuffices
<1>1. BodyInv => BufferSuffices
  BY DEF BodyInv
<1> QED
  BY <1>1, BodyInvariant, PTL

(* The announced maximum packet size is enforced to the byte.               *)
THEOREM AnnouncedLimitIsExact == BodySpec => []LimitKept
<1>1. BodyInv => LimitKept
  BY DEF BodyInv
<1> QED
  BY <1>1, BodyInvariant, PTL

-----------------------------------------------------------------------------
(* The property list of a PUBLISH or SUBACK is counted down as it is read,  *)
(* but for the padding of subscription identifiers; that of a SUBACK leaves *)
(* at least one byte for a reason code.                                     *)
ListInv ==
    /\ phase \in {"Topic", "Pid", "Reason", "PropLen", "Props"} => packet.codes = 0
    /\ phase = "Props" =>
         /\ properties_length \in Nat /\ listed \in Int
         /\ Counted /\ ~packet.padded => listed = properties_length
         /\ packet.type = "Suback" => properties_length < remaining_len
    /\ phase = "Message" => packet.type = "Publish"
    /\ phase = "Codes" =>
         packet.type = "Suback" /\ (packet.codes = 1 \/ (packet.codes = 0 /\ remaining_len > 0))
    /\ phase = "Done" /\ packet.type = "Suback" => packet.codes = 1
    /\ phase \in {"Message", "Done"} /\ packet.type = "Publish" =>
         packet.topic \/ "TopicAlias" \in packet.properties
    /\ result = "Accepted" => phase = "Returned"
    /\ ListEndsOnTime
    /\ AcceptedUsable

(* A step to a phase the list has no part in.                               *)
LEMMA OutsideStep ==
    ASSUME phase' \in {"Idle", "Returned", "Astray", "Panicked"}, result' # "Accepted"
    PROVE  ListInv'
BY DEF ListInv, ListEndsOnTime, AcceptedUsable

(* A field before the list is read.                                         *)
LEMMA BeforeListStep ==
    ASSUME phase' \in {"Topic", "Pid", "Reason", "PropLen"}, result' # "Accepted", packet'.codes = 0
    PROVE  ListInv'
BY DEF ListInv, ListEndsOnTime, AcceptedUsable

(* Refusals.                                                                *)
LEMMA ListFailStep ==
    ASSUME NEW taken, NEW rc, rc # "Accepted", FailAfter(taken, rc)
    PROVE  ListInv'
BY OutsideStep DEF FailAfter

(* The shape of a packet.                                                   *)
LEMMA Shape ==
    ASSUME BodyInv, NEW v
    PROVE  /\ \A f \in {"type", "flags", "properties", "users", "codes", "padded"} :
                [packet EXCEPT !.topic = v][f] = packet[f]
           /\ \A f \in {"type", "flags", "topic", "users", "codes", "padded"} :
                [packet EXCEPT !.properties = v][f] = packet[f]
           /\ \A f \in {"type", "flags", "topic", "properties", "codes", "padded"} :
                [packet EXCEPT !.users = v][f] = packet[f]
           /\ \A f \in {"type", "flags", "topic", "properties", "users", "codes"} :
                [packet EXCEPT !.padded = v][f] = packet[f]
           /\ [packet EXCEPT !.padded = v].padded = v
           /\ \A f \in {"type", "flags", "topic", "properties", "users", "padded"} :
                [packet EXCEPT !.codes = v][f] = packet[f]
           /\ [packet EXCEPT !.codes = v].codes = v
<1>1. {"type", "flags", "topic", "properties", "users", "codes", "padded"} \subseteq DOMAIN packet
  BY DEF BodyInv, Header
<1> QED
  BY <1>1

(* The codes a field is refused with.                                       *)
LEMMA RefusalCodes ==
    ASSUME NEW rest, NEW from, NEW n, NEW name
    PROVE  /\ StoreError(rest, from, n) # "Accepted"
           /\ "Accepted" \notin BadValue(name, n)
           /\ Objection # "Accepted"
<1>1. StoreError(rest, from, n) # "Accepted"
  BY DEF StoreError
<1>2. "Accepted" \notin BadValue(name, n)
  BY Zenon DEF BadValue
<1>3. Objection # "Accepted"
  BY DEF Objection
<1> QED
  BY <1>1, <1>2, <1>3

(* A property of 1 + n bytes, counted as 1 + c.                             *)
LEMMA ListTookStep ==
    ASSUME BodyInv, ListInv, InList, NEW n \in Nat, NEW c \in Nat, NEW stored, NEW p,
           1 + n <= remaining_len, c <= n,
           p.type = packet.type, p.codes = packet.codes,
           \/ p.padded = packet.padded /\ c = n
           \/ p.padded = (packet.padded \/ c < n) /\ packet.type # "Suback",
           Counted => properties_length >= 1 + c,
           Took(n, c, stored, p)
    PROVE  ListInv'
<1>1. /\ phase = "Props" /\ phase' = "Props" /\ packet' = p /\ result' = result /\ result # "Accepted"
      /\ remaining_len' = remaining_len - (1 + n) /\ listed' = listed - 1 - n
      /\ properties_length' = IF Counted THEN properties_length - 1 - c ELSE properties_length
  BY DEF Took, Advance, InList, ListInv
<1>2. /\ properties_length \in Nat /\ listed \in Int /\ remaining_len \in Nat
      /\ Counted /\ ~packet.padded => listed = properties_length
      /\ packet.type = "Suback" => properties_length < remaining_len
      /\ packet.codes = 0
  BY <1>1 DEF ListInv, BodyInv
<1>3. Counted' = Counted
  BY <1>1 DEF Counted
<1>4. properties_length' \in Nat /\ listed' \in Int
  BY <1>1, <1>2, SMT
<1>5. Counted /\ ~packet'.padded => listed' = properties_length'
  <2>1. c = n => ~(c < n)
    BY SMT
  <2>2. ~p.padded => ~packet.padded /\ ~(c < n)
    BY <2>1, Zenon
  <2> QED
    BY <1>1, <1>2, <2>2, SMT
<1>6. packet'.type = "Suback" => properties_length' < remaining_len'
  <2>1. packet.type = "Suback" => Counted /\ c = n
    BY DEF Counted
  <2> QED
    BY <1>1, <1>2, <2>1, SMT
<1> QED
  BY <1>1, <1>2, <1>3, <1>4, <1>5, <1>6 DEF ListInv, ListEndsOnTime, AcceptedUsable

(* Take either refuses the property or reads it.                            *)
LEMMA ListTakeStep ==
    ASSUME BodyInv, ListInv, InList, NEW n \in Nat, NEW c \in Nat, NEW stored, NEW p,
           1 + n <= remaining_len, c <= n,
           p.type = packet.type, p.codes = packet.codes,
           \/ p.padded = packet.padded /\ c = n
           \/ p.padded = (packet.padded \/ c < n) /\ packet.type # "Suback",
           Take(n, c, stored, p)
    PROVE  ListInv'
BY ListTookStep, ListFailStep DEF Take

(* The fields before the list.                                              *)
LEMMA ListFieldStep ==
    ASSUME BodyInv, ListInv, ReadTopic \/ ReadPid \/ ReadReason
    PROVE  ListInv'
<1>1. packet.codes = 0 /\ result # "Accepted"
  BY Zenon DEF ListInv, ReadTopic, ReadPid, ReadReason
<1>2. ASSUME \E taken, rc : rc # "Accepted" /\ FailAfter(taken, rc) PROVE ListInv'
  BY <1>2, ListFailStep
<1>3. CASE ReadTopic
  <2>1. CASE \E n \in StrLens : /\ packet' = [packet EXCEPT !.topic = n > 0]
                                /\ phase' = IF packet.flags = 0 THEN "PropLen" ELSE "Pid"
                                /\ Kept
    BY <1>1, <2>1, Shape, BeforeListStep DEF Kept
  <2> QED
    BY <1>2, <1>3, <2>1, RefusalCodes DEF ReadTopic, Fail
<1>4. CASE ReadPid
  BY <1>1, <1>2, <1>4, BeforeListStep DEF ReadPid, Field, Fail, Kept
<1>5. CASE ReadReason
  BY <1>1, <1>2, <1>5, BeforeListStep DEF ReadReason, Field, Fail, Kept
<1> QED
  BY <1>3, <1>4, <1>5

(* The list begins.                                                         *)
LEMMA ListStartStep ==
    ASSUME BodyInv, ListInv, ReadPropertyLength
    PROVE  ListInv'
<1>1. packet.codes = 0 /\ result # "Accepted" /\ remaining_len \in Nat
  BY DEF ListInv, ReadPropertyLength, BodyInv
<1>2. CASE \E rc \in {"MalformedPacket", "ProtocolError"} : Fail(rc)
  BY <1>2, ListFailStep DEF Fail
<1>3. ASSUME NEW k \in VarLens \cup {0}, NEW v \in PropLens \cup {0},
             packet.type = "Suback" => v < remaining_len - k,
             Advance(k, 0), properties_length' = v, listed' = v, phase' = "Props",
             UNCHANGED <<net, connection, packet, result, base, astray, excused>>
      PROVE  ListInv'
  <2>1. v \in Nat /\ v \in Int
    BY BodyAssumption, SMT
  <2>2. remaining_len' = remaining_len - k
    BY <1>3 DEF Advance
  <2> QED
    BY <1>1, <1>3, <2>1, <2>2 DEF ListInv, ListEndsOnTime, AcceptedUsable
<1> QED
  BY <1>2, <1>3 DEF ReadPropertyLength, StartList

(* The properties.                                                          *)
LEMMA ListPropertyStep ==
    ASSUME BodyInv, ListInv,
           \/ RefuseProperty \/ FixedProperty \/ TextProperty \/ UserProperty \/ SkipUserProperty
           \/ SkipProperty \/ SubscriptionIdentifier
    PROVE  ListInv'
<1>1. /\ InList /\ phase = "Props" /\ result # "Accepted" /\ remaining_len \in Nat
      /\ index \in Nat
  BY DEF RefuseProperty, FixedProperty, TextProperty, UserProperty, SkipUserProperty,
         SkipProperty, SubscriptionIdentifier, InList, ListInv, BodyInv
<1>2. ASSUME \E taken, rc : rc # "Accepted" /\ FailAfter(taken, rc) PROVE ListInv'
  BY <1>2, ListFailStep
<1>3. ASSUME Overrun PROVE ListInv'
  BY <1>1, <1>3, OutsideStep DEF Overrun
<1>4. ASSUME NEW n \in Nat, NEW stored, NEW p, 1 + n <= remaining_len,
             p.type = packet.type, p.codes = packet.codes, p.padded = packet.padded,
             Take(n, n, stored, p)
      PROVE  ListInv'
  <2>1. n <= n
    BY SMT
  <2> QED
    BY <1>1, <1>4, <2>1, ListTakeStep
<1>5. \A name : LET p == WithProperty(name)
                IN  p.type = packet.type /\ p.codes = packet.codes /\ p.padded = packet.padded
  BY Shape DEF WithProperty
<1>6. CASE RefuseProperty
  BY <1>2, <1>6 DEF RefuseProperty, Fail
<1>7. CASE FixedProperty
  <2>1. PICK name \in Names \cap (Flag \cup Two \cup Four) :
          \/ Fail("MalformedPacket")
          \/ \E rc \in BadValue(name, FixedLen(name)) : Fail(rc)
          \/ /\ remaining_len >= 1 + FixedLen(name)
             /\ Take(FixedLen(name), FixedLen(name), 0, WithProperty(name))
    BY <1>7 DEF FixedProperty
  <2>2. CASE Fail("MalformedPacket") \/ \E rc \in BadValue(name, FixedLen(name)) : Fail(rc)
    BY <1>2, <2>2, RefusalCodes DEF Fail
  <2>3. CASE /\ remaining_len >= 1 + FixedLen(name)
             /\ Take(FixedLen(name), FixedLen(name), 0, WithProperty(name))
    <3>1. FixedLen(name) \in Nat /\ 1 + FixedLen(name) <= remaining_len
      BY <1>1, <2>3, SMT DEF FixedLen
    <3> QED
      BY <1>4, <1>5, <2>3, <3>1
  <2> QED
    BY <2>1, <2>2, <2>3
<1>8. CASE TextProperty
  <2>1. PICK name \in Names \cap (Text \cup {"CorrelationData"}), n \in StrLens :
          LET error == StoreError(remaining_len - 1, index, n)
          IN  \/ Fail(error)
              \/ \E rc \in BadValue(name, n) : FailAfter(n, rc)
              \/ error = "None" /\ Take(2 + n, 2 + n, n, WithProperty(name))
    BY <1>8, Zenon DEF TextProperty
  <2>2. CASE \/ Fail(StoreError(remaining_len - 1, index, n))
             \/ \E rc \in BadValue(name, n) : FailAfter(n, rc)
    BY <1>2, <2>2, RefusalCodes DEF Fail
  <2>3. CASE /\ StoreError(remaining_len - 1, index, n) = "None"
             /\ Take(2 + n, 2 + n, n, WithProperty(name))
    <3>1. 2 + n \in Nat /\ 1 + (2 + n) <= remaining_len
      BY <1>1, <2>3, BodyAssumption, SMT DEF StoreError
    <3> QED
      BY <1>4, <1>5, <2>3, <3>1
  <2> QED
    BY <2>1, <2>2, <2>3
<1>9. CASE UserProperty
  <2>1. PICK n \in StrLens, m \in StrLens :
          LET name == StoreError(remaining_len - 1, index, n)
              value == StoreError(remaining_len - 3 - n, index + n, m)
          IN  \/ Fail(name) \/ FailAfter(n, "MalformedPacket") \/ FailAfter(n, value)
              \/ FailAfter(n + m, "MalformedPacket")
              \/ /\ value = "None"
                 /\ Take(4 + n + m, 4 + n + m, n + m, [packet EXCEPT !.users = @ + 1])
    BY <1>9, Zenon DEF UserProperty
  <2>2. CASE \/ Fail(StoreError(remaining_len - 1, index, n)) \/ FailAfter(n, "MalformedPacket")
             \/ FailAfter(n, StoreError(remaining_len - 3 - n, index + n, m))
             \/ FailAfter(n + m, "MalformedPacket")
    BY <1>2, <2>2, RefusalCodes DEF Fail
  <2>3. CASE /\ StoreError(remaining_len - 3 - n, index + n, m) = "None"
             /\ Take(4 + n + m, 4 + n + m, n + m, [packet EXCEPT !.users = @ + 1])
    <3> DEFINE p == [packet EXCEPT !.users = @ + 1]
    <3>1. 4 + n + m \in Nat /\ 1 + (4 + n + m) <= remaining_len
      BY <1>1, <2>3, BodyAssumption, SMT DEF StoreError
    <3>2. p.type = packet.type /\ p.codes = packet.codes /\ p.padded = packet.padded
      BY Shape
    <3> HIDE DEF p
    <3> QED
      BY <1>4, <2>3, <3>1, <3>2, Zenon DEF p
  <2> QED
    BY <2>1, <2>2, <2>3
<1>10. CASE SkipUserProperty
  <2>1. PICK n \in StrLens, m \in StrLens :
          \/ Fail("MalformedPacket") \/ Overrun
          \/ remaining_len - 3 - n - 2 >= m /\ Take(4 + n + m, 4 + n + m, 0, packet)
    BY <1>10 DEF SkipUserProperty
  <2>2. CASE Fail("MalformedPacket")
    BY <1>2, <2>2 DEF Fail
  <2>3. CASE remaining_len - 3 - n - 2 >= m /\ Take(4 + n + m, 4 + n + m, 0, packet)
    <3>1. 4 + n + m \in Nat /\ 1 + (4 + n + m) <= remaining_len
      BY <1>1, <2>3, BodyAssumption, SMT
    <3> QED
      BY <1>4, <2>3, <3>1
  <2> QED
    BY <1>3, <2>1, <2>2, <2>3
<1>11. CASE SkipProperty
  <2>1. PICK name \in Names \cap Skipped, n \in StrLens :
          /\ name \in Allowed[packet.type]
          /\ \/ Fail("MalformedPacket") \/ Overrun
             \/ remaining_len >= 3 + n /\ Took(2 + n, 2 + n, 0, WithProperty(name))
    BY <1>11 DEF SkipProperty, Fresh
  <2>2. CASE Fail("MalformedPacket")
    BY <1>2, <2>2 DEF Fail
  <2>3. CASE remaining_len >= 3 + n /\ Took(2 + n, 2 + n, 0, WithProperty(name))
    <3>1. 2 + n \in Nat /\ 1 + (2 + n) <= remaining_len /\ 2 + n <= 2 + n
      BY <1>1, <2>3, BodyAssumption, SMT
    <3>2. ~Counted
      BY <2>1 DEF Counted, Allowed, Skipped
    <3> QED
      BY <1>1, <1>5, <2>3, <3>1, <3>2, ListTookStep
  <2> QED
    BY <1>3, <2>1, <2>2, <2>3
<1>12. CASE SubscriptionIdentifier
  <2>1. PICK c \in VarLens, k \in VarLens :
          /\ c <= k
          /\ \/ Fail("MalformedPacket")
             \/ remaining_len >= 1 + k /\ Take(k, c, 0, [packet EXCEPT !.padded = @ \/ c < k])
    BY <1>12, Zenon DEF SubscriptionIdentifier
  <2>2. CASE Fail("MalformedPacket")
    BY <1>2, <2>2 DEF Fail
  <2>3. CASE remaining_len >= 1 + k /\ Take(k, c, 0, [packet EXCEPT !.padded = @ \/ c < k])
    <3> DEFINE p == [packet EXCEPT !.padded = @ \/ c < k]
    <3>1. k \in Nat /\ c \in Nat /\ 1 + k <= remaining_len
      BY <1>1, <2>3, BodyAssumption, SMT
    <3>2. p.type = packet.type /\ p.codes = packet.codes /\ p.padded = (packet.padded \/ c < k)
      BY Shape
    <3>3. packet.type # "Suback"
      BY <1>12 DEF SubscriptionIdentifier, Allowed
    <3> HIDE DEF p
    <3> QED
      BY <1>1, <2>1, <2>3, <3>1, <3>2, <3>3, ListTakeStep, Zenon DEF p
  <2> QED
    BY <2>1, <2>2, <2>3
<1> QED
  BY <1>6, <1>7, <1>8, <1>9, <1>10, <1>11, <1>12

(* The list ends, and what follows it is read.                              *)
LEMMA ListPayloadStep ==
    ASSUME BodyInv, ListInv, EndOfProperties \/ ReadMessage \/ ReadCodes
    PROVE  ListInv'
<1>1. result # "Accepted" /\ remaining_len \in Nat
  BY DEF ListInv, BodyInv, EndOfProperties, ReadMessage, ReadCodes
<1>2. ASSUME \E rc : rc # "Accepted" /\ Fail(rc) PROVE ListInv'
  BY <1>2, ListFailStep DEF Fail
<1>3. CASE EndOfProperties
  <2>1. ASSUME packet.type = "Publish" => packet.topic \/ "TopicAlias" \in packet.properties,
               phase' = CASE packet.type = "Publish" -> "Message"
                          [] packet.type = "Suback" -> "Codes"
                          [] OTHER -> "Done",
               UNCHANGED <<packet, remaining_len, unread, index>>, Kept
        PROVE  ListInv'
    <3>1. /\ properties_length \in Nat /\ packet.codes = 0
          /\ Counted => properties_length = 0
          /\ Counted /\ ~packet.padded => listed = properties_length
          /\ packet.type = "Suback" => properties_length < remaining_len
      BY <1>3, SMT DEF EndOfProperties, InList, ListInv
    <3>2. result' = result /\ listed' = listed
      BY <2>1 DEF Kept
    <3>3. CASE packet.type = "Publish"
      BY <1>1, <2>1, <3>1, <3>2, <3>3 DEF Counted, ListInv, ListEndsOnTime, AcceptedUsable
    <3>4. CASE packet.type = "Suback"
      BY <1>1, <2>1, <3>1, <3>2, <3>4 DEF Counted, ListInv, ListEndsOnTime, AcceptedUsable
    <3>5. CASE packet.type \notin {"Publish", "Suback"}
      BY <1>1, <2>1, <3>1, <3>2, <3>5 DEF ListInv, ListEndsOnTime, AcceptedUsable
    <3> QED
      BY <3>3, <3>4, <3>5
  <2> QED
    BY <1>2, <1>3, <2>1 DEF EndOfProperties
<1>4. CASE ReadMessage
  <2>1. CASE phase' = "Done" /\ UNCHANGED packet /\ Kept
    BY <1>1, <1>4, <2>1 DEF ReadMessage, Kept, ListInv, ListEndsOnTime, AcceptedUsable
  <2> QED
    BY <1>2, <1>4, <2>1 DEF ReadMessage
<1>5. CASE ReadCodes
  <2>1. CASE packet' = [packet EXCEPT !.codes = 1] /\ UNCHANGED phase /\ Kept
    <3>1. packet'.codes = 1 /\ packet'.type = packet.type /\ packet'.padded = packet.padded
      BY <2>1, Shape
    <3> QED
      BY <1>1, <1>5, <2>1, <3>1 DEF ReadCodes, Kept, ListInv, ListEndsOnTime, AcceptedUsable
  <2>2. CASE remaining_len = 0 /\ phase' = "Done" /\ UNCHANGED packet /\ Kept
    BY <1>1, <1>5, <2>2, SMT DEF ReadCodes, Kept, ListInv, ListEndsOnTime, AcceptedUsable
  <2> QED
    BY <1>2, <1>5, <2>1, <2>2 DEF ReadCodes
<1> QED
  BY <1>3, <1>4, <1>5

(* A packet is accepted or objected to.                                     *)
LEMMA ListFinishStep ==
    ASSUME BodyInv, ListInv, Finish
    PROVE  ListInv'
<1>1. CASE Objection # "None" /\ Fail(Objection)
  BY <1>1, ListFailStep, RefusalCodes DEF Fail
<1>2. ASSUME NEW rc \in SessionRefusals, Fail(rc) PROVE ListInv'
  BY <1>2, ListFailStep DEF Fail, SessionRefusals
<1>3. CASE Objection = "None" /\ phase' = "Returned" /\ result' = "Accepted" /\ UNCHANGED packet
  <2>1. packet.type = "Publish" => packet.topic
    BY <1>3 DEF Finish, Objection, ListInv
  <2>2. packet.type = "Suback" => packet.codes = 1
    BY DEF Finish, ListInv
  <2> QED
    BY <1>3, <2>1, <2>2 DEF ListInv, ListEndsOnTime, AcceptedUsable
<1> QED
  BY <1>1, <1>2, <1>3, Zenon DEF Finish

(* Everything around the decoding of a body.                                *)
LEMMA ListQuietStep ==
    ASSUME BodyInv, ListInv,
           Open \/ Close \/ Reset \/ Begin \/ Drop \/ TransportFails \/ Cancel \/ AstrayEnds
    PROVE  ListInv'
<1>1. CASE Open \/ Close \/ Reset
  BY <1>1, OutsideStep DEF Open, Close, Reset, readerVars, ListInv
<1>2. CASE Drop \/ TransportFails \/ Cancel
  BY <1>2, OutsideStep DEF Drop, TransportFails, Cancel
<1>3. CASE AstrayEnds
  BY <1>3, ListFailStep DEF AstrayEnds, Fail
<1>4. CASE Begin
  <2>1. PICK type \in Types, len \in Lens, flags \in 0..3 :
          LET h == Header(type, len, flags)
          IN  /\ packet' = h
              /\ \/ /\ Refusal(h) # "None"
                    /\ result' = Refusal(h)
                    /\ phase' = "Returned"
                 \/ /\ Refusal(h) = "None"
                    /\ phase' = FirstPhase(type, len)
                    /\ UNCHANGED result
    BY <1>4, Zenon DEF Begin
  <2>2. result # "Accepted"
    BY <1>4 DEF Begin, ListInv
  <2>3. CASE /\ phase' = "Returned"
             /\ result' = Refusal(Header(type, len, flags))
    BY <2>3, OutsideStep DEF Refusal
  <2>4. CASE /\ Refusal(Header(type, len, flags)) = "None"
             /\ phase' = FirstPhase(type, len)
             /\ UNCHANGED result
    <3>1. packet'.type = type /\ packet'.codes = 0
      BY <2>1 DEF Header
    <3>2. type \in {"Connack", "Publish", "Ack", "Suback", "Disconnect", "Pingresp"}
      BY <2>4 DEF Types, Refusal, Header
    <3>3. \/ phase' \in {"Topic", "Pid", "Reason", "PropLen"}
          \/ phase' = "Done" /\ type = "Pingresp"
      BY <2>4, <3>2 DEF FirstPhase
    <3>4. CASE phase' = "Done" /\ type = "Pingresp"
      BY <2>2, <2>4, <3>1, <3>4 DEF ListInv, ListEndsOnTime, AcceptedUsable
    <3> QED
      BY <2>2, <2>4, <3>1, <3>3, <3>4, BeforeListStep
  <2> QED
    BY <2>1, <2>3, <2>4
<1> QED
  BY <1>1, <1>2, <1>3, <1>4

(* ListInv is an invariant, relative to BodyInv.                            *)
LEMMA ListInvariant == BodySpec => []ListInv
<1>1. BodyInit => ListInv
  BY DEF BodyInit, ListInv, ListEndsOnTime, AcceptedUsable, Header
<1>2. BodyInv /\ ListInv /\ [BodyNext]_bodyVars => ListInv'
  <2> SUFFICES ASSUME BodyInv, ListInv, [BodyNext]_bodyVars PROVE ListInv'
    OBVIOUS
  <2>1. CASE UNCHANGED bodyVars
    BY <2>1 DEF bodyVars, readerVars, ListInv, ListEndsOnTime, AcceptedUsable, Counted
  <2>2. CASE BodyNext
    BY <2>2, ListFieldStep, ListStartStep, ListPropertyStep, ListPayloadStep, ListFinishStep,
       ListQuietStep, Zenon DEF BodyNext, Decode
  <2> QED
    BY <2>1, <2>2
<1> QED
  BY <1>1, <1>2, BodyInvariant, PTL DEF BodySpec

(* receive: the property list of PUBLISH and SUBACK ends where its length   *)
(* says, whatever properties it holds.                                      *)
THEOREM PropertyListEndsOnTime == BodySpec => []ListEndsOnTime
<1>1. ListInv => ListEndsOnTime
  BY DEF ListInv
<1> QED
  BY <1>1, ListInvariant, PTL

(* poll_body: every publication handed over has a topic, and every SUBACK   *)
(* exactly one reason code.                                                 *)
THEOREM AcceptedPacketsAreUsable == BodySpec => []AcceptedUsable
<1>1. ListInv => AcceptedUsable
  BY DEF ListInv
<1> QED
  BY <1>1, ListInvariant, PTL
===============================================================================
