---------------------------- MODULE EncodingProofs ----------------------------
(* Every packet the client can write has the length it announces, and a     *)
(* length that can be encoded, whatever the lengths of its texts and of its *)
(* message and the number of its user properties.                           *)
EXTENDS Outgoing, SizesProofs

(* The packets of the encoders, not only those of the calls in Outgoing.    *)
Length == {n \in Nat : n <= MAX_LENGTH}
OptionalLength == {Absent} \cup Length

IsWill(w) ==
    /\ w.delay \in BOOLEAN /\ w.indicator \in BOOLEAN /\ w.expiry \in BOOLEAN
    /\ w.content_type \in OptionalLength /\ w.response_topic \in OptionalLength
    /\ w.correlation_data \in OptionalLength /\ w.users \in UserCounts
    /\ w.topic \in Length /\ w.message \in Length

IsConnect(c) ==
    /\ c.type = "Connect"
    /\ c.expiry \in BOOLEAN /\ c.limited \in BOOLEAN
    /\ c.receive_maximum \in Nat /\ c.receive_maximum <= 65535
    /\ c.request_response \in BOOLEAN /\ c.request_problem \in BOOLEAN
    /\ c.users \in UserCounts /\ c.client_identifier \in Length
    /\ c.with_will \in BOOLEAN /\ (c.with_will => IsWill(c.will))
    /\ c.user_name \in OptionalLength /\ c.password \in OptionalLength

IsPublish(p) ==
    /\ p.type = "Publish"
    /\ p.indicator \in BOOLEAN /\ p.expiry \in BOOLEAN /\ p.alias \in BOOLEAN
    /\ p.response_topic \in OptionalLength /\ p.correlation_data \in OptionalLength
    /\ p.content_type \in OptionalLength /\ p.users \in UserCounts
    /\ p.topic \in OptionalLength /\ p.qos \in 0..2 /\ p.message \in Nat
    /\ encodable(p)

IsAck(p) ==
    p.type = "Ack" /\ p.reason_string \in OptionalLength /\ p.users \in UserCounts

IsDisconnect(p) ==
    /\ p.type = "Disconnect" /\ p.expiry \in BOOLEAN
    /\ p.reason_string \in OptionalLength /\ p.users \in UserCounts

IsSubscribe(p) ==
    /\ p.type = "Subscribe" /\ p.users \in UserCounts /\ p.filter \in Length
    /\ p.identifier = Absent \/ p.identifier \in Nat

IsUnsubscribe(p) ==
    p.type = "Unsubscribe" /\ p.users \in UserCounts /\ p.filter \in Length

IsPacket(p) ==
    \/ IsConnect(p) \/ IsPublish(p) \/ IsAck(p) \/ IsDisconnect(p) \/ IsSubscribe(p)
    \/ IsUnsubscribe(p) \/ p.type = "Pingreq"

-----------------------------------------------------------------------------
(* MAX_USER_PROPERTIES user properties of the greatest length.              *)
LEMMA UsersLen ==
    ASSUME NEW n \in UserCounts, NEW part
    PROVE  /\ Users(n) \in Nat /\ Users(n) <= 133827575
           /\ WriteUsers(part, n) = Raw(part, Users(n))
<1>1. n \in Nat /\ n <= 1021 /\ UserLen \in Nat /\ UserLen <= 131070
  BY EncodingAssumption, SMT DEF UserCounts
<1>2. n * (5 + UserLen) \in Nat
  BY <1>1, SMT
<1>3. n * (5 + UserLen) <= 1021 * (5 + UserLen)
  BY <1>1, SMT
<1>4. 1021 * (5 + UserLen) <= 133827575
  BY <1>1, SMT
<1>5. n * (1 + 2 + 2 + UserLen) = n * (5 + UserLen)
  BY <1>1, SMT
<1> QED
  BY <1>1, <1>2, <1>3, <1>4, <1>5, SMT DEF Users, WriteUsers

(* A text that must be there: a topic, a topic filter, a will message.      *)
LEMMA TextLen ==
    ASSUME NEW n \in Length
    PROVE  /\ Text(n) \in Nat /\ Text(n) <= 65537
           /\ WriteText(n) = Raw("body", Text(n))
<1>1. n \in Nat /\ n <= 65535
  BY DEF Length, MAX_LENGTH
<1>2. (Raw("body", 2) ++ Raw("body", n)) = Raw("body", 2 + n)
  BY <1>1, RawPlus, SMT
<1> QED
  BY <1>1, <1>2, SMT DEF Text, WriteText

(* An optional text: its bytes, as a property and without an identifier.    *)
LEMMA OptionalTextLen ==
    ASSUME NEW n \in OptionalLength, NEW part
    PROVE  /\ Property(n) \in Nat /\ Property(n) <= 65538
           /\ OptionalText(n) \in Nat /\ OptionalText(n) <= 65537
           /\ WriteProperty(part, n) = Raw(part, Property(n))
           /\ WriteOptionalText(n) = Raw("body", OptionalText(n))
<1>1. n = Absent \/ (n \in Nat /\ n # Absent /\ n <= 65535)
  BY SMT DEF OptionalLength, Length, Absent, MAX_LENGTH
<1>2. CASE n = Absent
  BY <1>2, SMT DEF Property, OptionalText, WriteProperty, WriteOptionalText, Nothing, Raw, Lengths
<1>3. CASE n \in Nat /\ n # Absent /\ n <= 65535
  <2>1. (Raw(part, 1) ++ Raw(part, 2)) = Raw(part, 3)
    BY RawPlus, SMT
  <2>2. (Raw(part, 3) ++ Raw(part, n)) = Raw(part, 3 + n)
    BY <1>3, RawPlus, SMT
  <2>3. (Raw("body", 2) ++ Raw("body", n)) = Raw("body", 2 + n)
    BY <1>3, RawPlus, SMT
  <2> QED
    BY <1>3, <2>1, <2>2, <2>3, SMT
    DEF Property, OptionalText, WriteProperty, WriteOptionalText, WriteText, Text
<1> QED
  BY <1>1, <1>2, <1>3

(* A property of one, two or four bytes, if it is there.                    *)
LEMMA FixedLen ==
    ASSUME NEW b \in BOOLEAN, NEW part
    PROVE  /\ If(b, 2) \in Nat /\ If(b, 2) <= 2 /\ WriteFixed(part, b, 1) = Raw(part, If(b, 2))
           /\ If(b, 3) \in Nat /\ If(b, 3) <= 3 /\ WriteFixed(part, b, 2) = Raw(part, If(b, 3))
           /\ If(b, 5) \in Nat /\ If(b, 5) <= 5 /\ WriteFixed(part, b, 4) = Raw(part, If(b, 5))
<1>1. (Raw(part, 1) ++ Raw(part, 1)) = Raw(part, 2)
  BY RawPlus, SMT
<1>2. (Raw(part, 1) ++ Raw(part, 2)) = Raw(part, 3)
  BY RawPlus, SMT
<1>3. (Raw(part, 1) ++ Raw(part, 4)) = Raw(part, 5)
  BY RawPlus, SMT
<1> QED
  BY <1>1, <1>2, <1>3, SMT DEF If, WriteFixed, Raw, Nothing, Lengths

(* The length field of a list: the writes of the list come after it.        *)
LEMMA ListLen ==
    ASSUME NEW n \in Nat
    PROVE  /\ List(n) \in Nat /\ List(n) <= n + 4
           /\ List(n) = VarLen(n) + n /\ VarLen(n) \in Nat
           /\ WriteVarByteInt("body", n) = Raw("body", VarLen(n))
BY VarByteIntLen, SMT DEF List, WriteVarByteInt

-----------------------------------------------------------------------------
(* PUBACK, PUBREC, PUBREL and PUBCOMP.                                      *)
LEMMA AckLen ==
    ASSUME NEW p, IsAck(p)
    PROVE  /\ WriteAck(p) = Lengths(AckRemainingLen(p), AckPropertiesLength(p), 0)
           /\ AckPropertiesLength(p) <= MAX_ENCODABLE /\ AckRemainingLen(p) \in Nat /\ AckRemainingLen(p) <= MAX_ENCODABLE
<1> DEFINE r == Property(p.reason_string)  u == Users(p.users)  n == AckPropertiesLength(p)
           x == WriteAck(p)
<1>1. r \in Nat /\ r <= 65538 /\ WriteProperty("list", p.reason_string) = Raw("list", r)
  BY OptionalTextLen DEF IsAck
<1>2. u \in Nat /\ u <= 133827575 /\ WriteUsers("list", p.users) = Raw("list", u)
  BY UsersLen DEF IsAck
<1>3. n = r + u /\ AckRemainingLen(p) = 2 + 1 + List(n)
  BY DEF AckPropertiesLength, AckRemainingLen
<1>4. x = (Raw("body", 2) ++ Raw("body", 1) ++ WriteVarByteInt("body", n)
             ++ Raw("list", r) ++ Raw("list", u))
  BY <1>1, <1>2 DEF WriteAck
<1> HIDE DEF r, u, n, x
<1>5. /\ n \in Nat /\ VarLen(n) \in Nat /\ List(n) = VarLen(n) + n /\ List(n) <= n + 4
      /\ WriteVarByteInt("body", n) = Raw("body", VarLen(n))
  <2>1. n \in Nat
    BY <1>1, <1>2, <1>3, SMT
  <2> QED
    BY <2>1, ListLen
<1>6. x.body = 2 + 1 + VarLen(n) + r + u /\ x.list = r + u /\ x.will = 0
  BY <1>1, <1>2, <1>4, <1>5, Sum, RawParts, SMT
<1>7. x = Lengths(x.body, x.list, x.will)
  BY <1>4, SumIsLengths
<1>8. n <= MAX_ENCODABLE /\ AckRemainingLen(p) \in Nat /\ AckRemainingLen(p) <= MAX_ENCODABLE
  BY <1>1, <1>2, <1>3, <1>5, SMT DEF MAX_ENCODABLE
<1>9. x.body = AckRemainingLen(p) /\ x.list = n
  BY <1>1, <1>2, <1>3, <1>5, <1>6, SMT
<1> QED
  BY <1>6, <1>7, <1>8, <1>9 DEF n, x

(* DISCONNECT                                                               *)
LEMMA DisconnectLen ==
    ASSUME NEW p, IsDisconnect(p)
    PROVE  /\ WriteDisconnect(p) = Lengths(DisconnectRemainingLen(p), DisconnectPropertiesLength(p), 0)
           /\ DisconnectPropertiesLength(p) <= MAX_ENCODABLE
           /\ DisconnectRemainingLen(p) \in Nat /\ DisconnectRemainingLen(p) <= MAX_ENCODABLE
<1> DEFINE e == If(p.expiry, 5)  r == Property(p.reason_string)  u == Users(p.users)
           n == DisconnectPropertiesLength(p)  x == WriteDisconnect(p)
<1>1. e \in Nat /\ e <= 5 /\ WriteFixed("list", p.expiry, 4) = Raw("list", e)
  BY FixedLen DEF IsDisconnect
<1>2. r \in Nat /\ r <= 65538 /\ WriteProperty("list", p.reason_string) = Raw("list", r)
  BY OptionalTextLen DEF IsDisconnect
<1>3. u \in Nat /\ u <= 133827575 /\ WriteUsers("list", p.users) = Raw("list", u)
  BY UsersLen DEF IsDisconnect
<1>4. n = e + r + u /\ DisconnectRemainingLen(p) = 1 + List(n)
  BY DEF DisconnectPropertiesLength, DisconnectRemainingLen
<1>5. x = (Raw("body", 1) ++ WriteVarByteInt("body", n) ++ Raw("list", e) ++ Raw("list", r)
             ++ Raw("list", u))
  BY <1>1, <1>2, <1>3 DEF WriteDisconnect
<1> HIDE DEF e, r, u, n, x
<1>6. /\ n \in Nat /\ VarLen(n) \in Nat /\ List(n) = VarLen(n) + n /\ List(n) <= n + 4
      /\ WriteVarByteInt("body", n) = Raw("body", VarLen(n))
  <2>1. n \in Nat
    BY <1>1, <1>2, <1>3, <1>4, SMT
  <2> QED
    BY <2>1, ListLen
<1>7. x.body = 1 + VarLen(n) + e + r + u /\ x.list = e + r + u /\ x.will = 0
  BY <1>1, <1>2, <1>3, <1>5, <1>6, Sum, RawParts, SMT
<1>8. x = Lengths(x.body, x.list, x.will)
  BY <1>5, SumIsLengths
<1>9. n <= MAX_ENCODABLE /\ DisconnectRemainingLen(p) \in Nat /\ DisconnectRemainingLen(p) <= MAX_ENCODABLE
  BY <1>1, <1>2, <1>3, <1>4, <1>6, SMT DEF MAX_ENCODABLE
<1>10. x.body = DisconnectRemainingLen(p) /\ x.list = n
  BY <1>1, <1>2, <1>3, <1>4, <1>6, <1>7, SMT
<1> QED
  BY <1>7, <1>8, <1>9, <1>10 DEF n, x

(* UNSUBSCRIBE                                                              *)
LEMMA UnsubscribeLen ==
    ASSUME NEW p, IsUnsubscribe(p)
    PROVE  /\ WriteUnsubscribe(p) = Lengths(UnsubscribeRemainingLen(p), Users(p.users), 0)
           /\ Users(p.users) <= MAX_ENCODABLE /\ UnsubscribeRemainingLen(p) \in Nat /\ UnsubscribeRemainingLen(p) <= MAX_ENCODABLE
<1> DEFINE u == Users(p.users)  t == Text(p.filter)  x == WriteUnsubscribe(p)
<1>1. u \in Nat /\ u <= 133827575 /\ WriteUsers("list", p.users) = Raw("list", u)
  BY UsersLen DEF IsUnsubscribe
<1>2. t \in Nat /\ t <= 65537 /\ WriteText(p.filter) = Raw("body", t)
  BY TextLen DEF IsUnsubscribe
<1>3. UnsubscribeRemainingLen(p) = 2 + List(u) + t
  BY DEF UnsubscribeRemainingLen
<1>4. x = (Raw("body", 2) ++ WriteVarByteInt("body", u) ++ Raw("list", u) ++ Raw("body", t))
  BY <1>1, <1>2 DEF WriteUnsubscribe
<1> HIDE DEF u, t, x
<1>5. /\ VarLen(u) \in Nat /\ List(u) = VarLen(u) + u /\ List(u) <= u + 4
      /\ WriteVarByteInt("body", u) = Raw("body", VarLen(u))
  BY <1>1, ListLen
<1>6. x.body = 2 + VarLen(u) + u + t /\ x.list = u /\ x.will = 0
  BY <1>1, <1>2, <1>4, <1>5, Sum, RawParts, SMT
<1>7. x = Lengths(x.body, x.list, x.will)
  BY <1>4, SumIsLengths
<1>8. u <= MAX_ENCODABLE /\ UnsubscribeRemainingLen(p) \in Nat /\ UnsubscribeRemainingLen(p) <= MAX_ENCODABLE
  BY <1>1, <1>2, <1>3, <1>5, SMT DEF MAX_ENCODABLE
<1>9. x.body = UnsubscribeRemainingLen(p)
  BY <1>1, <1>2, <1>3, <1>5, <1>6, SMT
<1> QED
  BY <1>6, <1>7, <1>8, <1>9 DEF u, x

(* SUBSCRIBE, with one filter.                                              *)
LEMMA SubscribeLen ==
    ASSUME NEW p, IsSubscribe(p)
    PROVE  /\ WriteSubscribe(p) = Lengths(SubscribeRemainingLen(p), SubscribePropertiesLength(p), 0)
           /\ SubscribePropertiesLength(p) <= MAX_ENCODABLE
           /\ SubscribeRemainingLen(p) \in Nat /\ SubscribeRemainingLen(p) <= MAX_ENCODABLE
<1> DEFINE i == IF p.identifier = Absent THEN 0 ELSE 1 + VarLen(p.identifier)
           u == Users(p.users)  t == Text(p.filter)
           n == SubscribePropertiesLength(p)  x == WriteSubscribe(p)
<1>1. /\ i \in Nat /\ i <= 5
      /\ (IF p.identifier = Absent THEN Nothing
           ELSE Raw("list", 1) ++ WriteVarByteInt("list", p.identifier)) = Raw("list", i)
  <2>1. CASE p.identifier = Absent
    BY <2>1, SMT DEF Nothing, Raw, Lengths
  <2>2. CASE p.identifier # Absent
    <3>1. VarLen(p.identifier) \in Nat /\ VarLen(p.identifier) <= 4
          /\ Turns(p.identifier) = VarLen(p.identifier)
      BY <2>2, VarByteIntLen, SMT DEF IsSubscribe
    <3>2. (Raw("list", 1) ++ Raw("list", VarLen(p.identifier))) = Raw("list", 1 + VarLen(p.identifier))
      BY <3>1, RawPlus, SMT
    <3> QED
      BY <2>2, <3>1, <3>2, SMT DEF WriteVarByteInt
  <2> QED
    BY <2>1, <2>2
<1>2. u \in Nat /\ u <= 133827575 /\ WriteUsers("list", p.users) = Raw("list", u)
  BY UsersLen DEF IsSubscribe
<1>3. t \in Nat /\ t <= 65537 /\ WriteText(p.filter) = Raw("body", t)
  BY TextLen DEF IsSubscribe
<1>4. n = i + u /\ SubscribeRemainingLen(p) = 2 + List(n) + t + 1
  BY DEF SubscribePropertiesLength, SubscribeRemainingLen
<1>5. x = (Raw("body", 2) ++ WriteVarByteInt("body", n) ++ Raw("list", i) ++ Raw("list", u)
             ++ Raw("body", t) ++ Raw("body", 1))
  BY <1>1, <1>2, <1>3 DEF WriteSubscribe
<1> HIDE DEF i, u, t, n, x
<1>6. /\ n \in Nat /\ VarLen(n) \in Nat /\ List(n) = VarLen(n) + n /\ List(n) <= n + 4
      /\ WriteVarByteInt("body", n) = Raw("body", VarLen(n))
  <2>1. n \in Nat
    BY <1>1, <1>2, <1>4, SMT
  <2> QED
    BY <2>1, ListLen
<1>7. x.body = 2 + VarLen(n) + i + u + t + 1 /\ x.list = i + u /\ x.will = 0
  BY <1>1, <1>2, <1>3, <1>5, <1>6, Sum, RawParts, SMT
<1>8. x = Lengths(x.body, x.list, x.will)
  BY <1>5, SumIsLengths
<1>9. n <= MAX_ENCODABLE /\ SubscribeRemainingLen(p) \in Nat /\ SubscribeRemainingLen(p) <= MAX_ENCODABLE
  BY <1>1, <1>2, <1>3, <1>4, <1>6, SMT DEF MAX_ENCODABLE
<1>10. x.body = SubscribeRemainingLen(p) /\ x.list = n
  BY <1>1, <1>2, <1>3, <1>4, <1>6, <1>7, SMT
<1> QED
  BY <1>7, <1>8, <1>9, <1>10 DEF n, x

(* PUBLISH: its list is bounded; the message alone can make it too long to  *)
(* encode, which PublishPacket::new refuses.                                *)
LEMMA PublishLen ==
    ASSUME NEW p, IsPublish(p)
    PROVE  /\ WritePublish(p) = Lengths(PublishRemainingLen(p), PublishPropertiesLength(p), 0)
           /\ PublishPropertiesLength(p) <= MAX_ENCODABLE
           /\ PublishRemainingLen(p) \in Nat /\ PublishRemainingLen(p) <= MAX_ENCODABLE
<1> DEFINE t == Text(TopicLen(p))  q == If(p.qos > 0, 2)
           a == If(p.indicator, 2)  b == If(p.expiry, 5)  c == If(p.alias, 3)
           d == Property(p.response_topic)  e == Property(p.correlation_data)
           u == Users(p.users)  f == Property(p.content_type)  m == p.message
           n == PublishPropertiesLength(p)  x == WritePublish(p)
<1>1. t \in Nat /\ WriteText(TopicLen(p)) = Raw("body", t)
  <2>1. TopicLen(p) \in Length
    BY SMT DEF IsPublish, TopicLen, OptionalLength, Length, MAX_LENGTH
  <2> QED
    BY <2>1, TextLen
<1>2. q \in Nat /\ (IF p.qos > 0 THEN Raw("body", 2) ELSE Nothing) = Raw("body", q)
  BY SMT DEF If, Nothing, Raw, Lengths
<1>3. /\ a \in Nat /\ a <= 2 /\ WriteFixed("list", p.indicator, 1) = Raw("list", a)
      /\ b \in Nat /\ b <= 5 /\ WriteFixed("list", p.expiry, 4) = Raw("list", b)
      /\ c \in Nat /\ c <= 3 /\ WriteFixed("list", p.alias, 2) = Raw("list", c)
  BY FixedLen DEF IsPublish
<1>4. /\ d \in Nat /\ d <= 65538 /\ WriteProperty("list", p.response_topic) = Raw("list", d)
      /\ e \in Nat /\ e <= 65538 /\ WriteProperty("list", p.correlation_data) = Raw("list", e)
      /\ f \in Nat /\ f <= 65538 /\ WriteProperty("list", p.content_type) = Raw("list", f)
  BY OptionalTextLen DEF IsPublish
<1>5. u \in Nat /\ u <= 133827575 /\ WriteUsers("list", p.users) = Raw("list", u)
  BY UsersLen DEF IsPublish
<1>6. m \in Nat /\ PublishRemainingLen(p) <= MAX_ENCODABLE
  BY DEF IsPublish, encodable, remaining_len
<1>7. n = a + b + c + d + e + u + f /\ PublishRemainingLen(p) = t + q + List(n) + m
  BY DEF PublishPropertiesLength, PublishRemainingLen
<1>8. x = (Raw("body", t) ++ Raw("body", q) ++ WriteVarByteInt("body", n) ++ Raw("list", a)
             ++ Raw("list", b) ++ Raw("list", c) ++ Raw("list", d) ++ Raw("list", e)
             ++ Raw("list", u) ++ Raw("list", f) ++ Raw("body", m))
  BY <1>1, <1>2, <1>3, <1>4, <1>5 DEF WritePublish
<1> HIDE DEF t, q, a, b, c, d, e, u, f, m, n, x
<1>9. /\ n \in Nat /\ VarLen(n) \in Nat /\ List(n) = VarLen(n) + n
      /\ WriteVarByteInt("body", n) = Raw("body", VarLen(n))
  <2>1. n \in Nat
    BY <1>3, <1>4, <1>5, <1>7, SMT
  <2> QED
    BY <2>1, ListLen
<1>10. /\ x.body = t + q + VarLen(n) + a + b + c + d + e + u + f + m
       /\ x.list = a + b + c + d + e + u + f
       /\ x.will = 0
  BY <1>1, <1>2, <1>3, <1>4, <1>5, <1>6, <1>8, <1>9, Sum, RawParts, SMT
<1>11. x = Lengths(x.body, x.list, x.will)
  BY <1>8, SumIsLengths
<1>12. n <= MAX_ENCODABLE /\ PublishRemainingLen(p) \in Nat
  BY <1>1, <1>2, <1>3, <1>4, <1>5, <1>6, <1>7, <1>9, SMT DEF MAX_ENCODABLE
<1>13. x.body = PublishRemainingLen(p) /\ x.list = n
  BY <1>1, <1>2, <1>3, <1>4, <1>5, <1>6, <1>7, <1>9, <1>10, SMT
<1> QED
  BY <1>6, <1>10, <1>11, <1>12, <1>13 DEF n, x

(* The will within a CONNECT.                                               *)
LEMMA WillLength ==
    ASSUME NEW w, IsWill(w)
    PROVE  /\ WriteWill(w).body = WillLen(w) /\ WriteWill(w).list = 0
           /\ WriteWill(w).will = WillPropertiesLength(w)
           /\ WillPropertiesLength(w) \in Nat /\ WillPropertiesLength(w) <= 134024201
           /\ WillLen(w) \in Nat /\ WillLen(w) <= 134155279
<1> DEFINE a == If(w.delay, 5)  b == If(w.indicator, 2)  c == If(w.expiry, 5)
           d == Property(w.content_type)  e == Property(w.response_topic)
           f == Property(w.correlation_data)  u == Users(w.users)
           t == Text(w.topic)  m == Text(w.message)
           n == WillPropertiesLength(w)  x == WriteWill(w)
<1>1. /\ a \in Nat /\ a <= 5 /\ WriteFixed("will", w.delay, 4) = Raw("will", a)
      /\ b \in Nat /\ b <= 2 /\ WriteFixed("will", w.indicator, 1) = Raw("will", b)
      /\ c \in Nat /\ c <= 5 /\ WriteFixed("will", w.expiry, 4) = Raw("will", c)
  BY FixedLen DEF IsWill
<1>2. /\ d \in Nat /\ d <= 65538 /\ WriteProperty("will", w.content_type) = Raw("will", d)
      /\ e \in Nat /\ e <= 65538 /\ WriteProperty("will", w.response_topic) = Raw("will", e)
      /\ f \in Nat /\ f <= 65538 /\ WriteProperty("will", w.correlation_data) = Raw("will", f)
  BY OptionalTextLen DEF IsWill
<1>3. u \in Nat /\ u <= 133827575 /\ WriteUsers("will", w.users) = Raw("will", u)
  BY UsersLen DEF IsWill
<1>4. /\ t \in Nat /\ t <= 65537 /\ WriteText(w.topic) = Raw("body", t)
      /\ m \in Nat /\ m <= 65537 /\ WriteText(w.message) = Raw("body", m)
  BY TextLen DEF IsWill
<1>5. n = a + b + c + d + e + f + u /\ WillLen(w) = List(n) + t + m
  BY DEF WillPropertiesLength, WillLen
<1>6. x = (WriteVarByteInt("body", n) ++ Raw("will", a) ++ Raw("will", b) ++ Raw("will", c)
             ++ Raw("will", d) ++ Raw("will", e) ++ Raw("will", f) ++ Raw("will", u)
             ++ Raw("body", t) ++ Raw("body", m))
  BY <1>1, <1>2, <1>3, <1>4 DEF WriteWill
<1> HIDE DEF a, b, c, d, e, f, u, t, m, n, x
<1>7. /\ n \in Nat /\ VarLen(n) \in Nat /\ List(n) = VarLen(n) + n /\ List(n) <= n + 4
      /\ WriteVarByteInt("body", n) = Raw("body", VarLen(n))
  <2>1. n \in Nat
    BY <1>1, <1>2, <1>3, <1>5, SMT
  <2> QED
    BY <2>1, ListLen
<1>8. /\ x.body = VarLen(n) + a + b + c + d + e + f + u + t + m
      /\ x.list = 0
      /\ x.will = a + b + c + d + e + f + u
  BY <1>1, <1>2, <1>3, <1>4, <1>6, <1>7, Sum, RawParts, SMT
<1>9. n <= 134024201 /\ WillLen(w) \in Nat /\ WillLen(w) <= 134155279
  BY <1>1, <1>2, <1>3, <1>4, <1>5, <1>7, SMT
<1>10. x.body = WillLen(w) /\ x.will = n
  BY <1>1, <1>2, <1>3, <1>4, <1>5, <1>7, <1>8, SMT
<1> QED
  BY <1>7, <1>8, <1>9, <1>10 DEF n, x

(* The length of the will's list, zero without a will.                      *)
WillList(p) == IF p.type = "Connect" /\ p.with_will THEN WillPropertiesLength(p.will) ELSE 0

(* CONNECT, which connect writes without comparing it with any limit.       *)
LEMMA ConnectLen ==
    ASSUME NEW p, IsConnect(p)
    PROVE  /\ WriteConnect(p) = Lengths(ConnectRemainingLen(p), ConnectPropertiesLength(p), WillList(p))
           /\ ConnectPropertiesLength(p) <= MAX_ENCODABLE
           /\ ConnectRemainingLen(p) \in Nat /\ ConnectRemainingLen(p) <= MAX_ENCODABLE
           /\ WillList(p) <= MAX_ENCODABLE
<1> DEFINE a == If(p.expiry, 5)  b == If(p.receive_maximum # 65535, 3)  c == If(p.limited, 5)
           d == If(p.request_response, 2)  e == If(~p.request_problem, 2)  u == Users(p.users)
           i == Text(p.client_identifier)  w == If(p.with_will, WillLen(p.will))
           y == IF p.with_will THEN WriteWill(p.will) ELSE Nothing
           f == OptionalText(p.user_name)  g == OptionalText(p.password)
           n == ConnectPropertiesLength(p)  x == WriteConnect(p)  l == WillList(p)
<1>1. /\ a \in Nat /\ a <= 5 /\ WriteFixed("list", p.expiry, 4) = Raw("list", a)
      /\ c \in Nat /\ c <= 5 /\ WriteFixed("list", p.limited, 4) = Raw("list", c)
      /\ d \in Nat /\ d <= 2 /\ WriteFixed("list", p.request_response, 1) = Raw("list", d)
  BY FixedLen DEF IsConnect
<1>2. /\ b \in Nat /\ b <= 3 /\ WriteFixed("list", p.receive_maximum < 65535, 2) = Raw("list", b)
  <2>1. CASE p.receive_maximum = 65535
    BY <2>1, SMT DEF If, WriteFixed, Nothing, Raw, Lengths
  <2>2. CASE p.receive_maximum # 65535
    <3>1. p.receive_maximum < 65535
      BY <2>2, SMT DEF IsConnect
    <3>2. (Raw("list", 1) ++ Raw("list", 2)) = Raw("list", 3)
      BY RawPlus, SMT
    <3> QED
      BY <2>2, <3>1, <3>2, SMT DEF If, WriteFixed
  <2> QED
    BY <2>1, <2>2
<1>3. /\ e \in Nat /\ e <= 2 /\ WriteFixed("list", ~p.request_problem, 1) = Raw("list", e)
  <2>1. (~p.request_problem) \in BOOLEAN
    OBVIOUS
  <2> QED
    BY <2>1, FixedLen, Zenon
<1>4. u \in Nat /\ u <= 133827575 /\ WriteUsers("list", p.users) = Raw("list", u)
  BY UsersLen DEF IsConnect
<1>5. i \in Nat /\ i <= 65537 /\ WriteText(p.client_identifier) = Raw("body", i)
  BY TextLen DEF IsConnect
<1>6. /\ f \in Nat /\ f <= 65537 /\ WriteOptionalText(p.user_name) = Raw("body", f)
      /\ g \in Nat /\ g <= 65537 /\ WriteOptionalText(p.password) = Raw("body", g)
  BY OptionalTextLen DEF IsConnect
<1>7. /\ w \in Nat /\ w <= 134155279 /\ l \in Nat /\ l <= 134024201
      /\ y.body = w /\ y.list = 0 /\ y.will = l
  <2>1. CASE p.with_will
    BY <2>1, WillLength DEF IsConnect, If, WillList
  <2>2. CASE ~p.with_will
    BY <2>2, SMT DEF If, WillList, Nothing, Lengths
  <2> QED
    BY <2>1, <2>2
<1>8. /\ n = a + b + c + d + e + u
      /\ ConnectRemainingLen(p) = 7 + 1 + 2 + List(n) + i + w + f + g
  BY DEF ConnectPropertiesLength, ConnectRemainingLen
<1>9. x = (Raw("body", 7) ++ Raw("body", 1) ++ Raw("body", 2) ++ WriteVarByteInt("body", n)
             ++ Raw("list", a) ++ Raw("list", b) ++ Raw("list", c) ++ Raw("list", d)
             ++ Raw("list", e) ++ Raw("list", u) ++ Raw("body", i) ++ y
             ++ Raw("body", f) ++ Raw("body", g))
  BY <1>1, <1>2, <1>3, <1>4, <1>5, <1>6 DEF WriteConnect
<1> HIDE DEF a, b, c, d, e, u, i, w, y, f, g, n, x, l
<1>10. /\ n \in Nat /\ VarLen(n) \in Nat /\ List(n) = VarLen(n) + n /\ List(n) <= n + 4
       /\ WriteVarByteInt("body", n) = Raw("body", VarLen(n))
  <2>1. n \in Nat
    BY <1>1, <1>2, <1>3, <1>4, <1>8, SMT
  <2> QED
    BY <2>1, ListLen
<1>11. /\ x.body = 7 + 1 + 2 + VarLen(n) + a + b + c + d + e + u + i + w + f + g
       /\ x.list = a + b + c + d + e + u
       /\ x.will = l
  BY <1>1, <1>2, <1>3, <1>4, <1>5, <1>6, <1>7, <1>9, <1>10, Sum, RawParts, SMT
<1>12. x = Lengths(x.body, x.list, x.will)
  BY <1>9, SumIsLengths
<1>13. n <= MAX_ENCODABLE /\ ConnectRemainingLen(p) \in Nat /\ ConnectRemainingLen(p) <= MAX_ENCODABLE /\ l <= MAX_ENCODABLE
  BY <1>1, <1>2, <1>3, <1>4, <1>5, <1>6, <1>7, <1>8, <1>10, SMT DEF MAX_ENCODABLE
<1>14. x.body = ConnectRemainingLen(p) /\ x.list = n
  BY <1>1, <1>2, <1>3, <1>4, <1>5, <1>6, <1>7, <1>8, <1>10, <1>11, SMT
<1> QED
  BY <1>11, <1>12, <1>13, <1>14 DEF n, x, l

-----------------------------------------------------------------------------
(* Every encoder writes as many bytes as remaining_len announces, as many   *)
(* to each property list as its length field says, and no length it passes  *)
(* to VarByteInt::new_unchecked is too large to encode, whatever the        *)
(* options of the packet.                                                   *)
THEOREM WritesWhatItAnnounces ==
    ASSUME NEW p, IsPacket(p)
    PROVE  /\ send(p) = Lengths(remaining_len(p), properties_length(p), WillList(p))
           /\ remaining_len(p) \in Nat /\ remaining_len(p) <= MAX_ENCODABLE
           /\ properties_length(p) <= MAX_ENCODABLE
           /\ WillList(p) <= MAX_ENCODABLE
<1>0. p.type # "Connect" => WillList(p) = 0 /\ WillList(p) <= MAX_ENCODABLE
  BY SMT DEF WillList, MAX_ENCODABLE
<1>1. CASE IsConnect(p)
  BY <1>1, ConnectLen DEF IsConnect, send, remaining_len, properties_length
<1>2. CASE IsPublish(p)
  BY <1>0, <1>2, PublishLen DEF IsPublish, send, remaining_len, properties_length
<1>3. CASE IsAck(p)
  BY <1>0, <1>3, AckLen DEF IsAck, send, remaining_len, properties_length
<1>4. CASE IsDisconnect(p)
  BY <1>0, <1>4, DisconnectLen DEF IsDisconnect, send, remaining_len, properties_length
<1>5. CASE IsSubscribe(p)
  BY <1>0, <1>5, SubscribeLen DEF IsSubscribe, send, remaining_len, properties_length
<1>6. CASE IsUnsubscribe(p)
  BY <1>0, <1>6, UnsubscribeLen DEF IsUnsubscribe, send, remaining_len, properties_length
<1>7. CASE p.type = "Pingreq"
  BY <1>0, <1>7, SMT DEF send, remaining_len, properties_length, Nothing, MAX_ENCODABLE
<1> QED
  BY <1>1, <1>2, <1>3, <1>4, <1>5, <1>6, <1>7 DEF IsPacket
===============================================================================
