---------------------------- MODULE OutgoingProofs ----------------------------
(* What the client writes, for every choice of the constants of Outgoing.   *)
EXTENDS EncodingProofs, SequenceTheorems

(* A record of a packet whose lengths are as announced and can be encoded.  *)
Sound(o) ==
    /\ o.written = o.announced
    /\ o.announced.body <= MAX_ENCODABLE
    /\ o.announced.list <= MAX_ENCODABLE
    /\ o.announced.will <= MAX_ENCODABLE

(* What makes the properties inductive: connect awaits a CONNACK on a       *)
(* connection that is Ok; a filter is a string that new has judged; and on  *)
(* a connection whose CONNACK has been handled, server_config promises no   *)
(* more than that connection's server did.                                  *)
OutgoingInv ==
    /\ Sound(outgoing)
    /\ torn \in BOOLEAN /\ cancelled \in BOOLEAN
    /\ TornIsAbandoned
    /\ call = "Connack" => net = "Ok"
    /\ filter # NoFilter => /\ filter.s \in Strings(FilterChars)
                            /\ filter.valid => is_valid_filter(filter.s)
    /\ server_config.supports \subseteq Features
    /\ server_config.limit \in Nat /\ server_config.limit <= Unlimited
    /\ server \in [limit : Nat, supports : SUBSET Features, expiry : BOOLEAN]
    /\ net = "Ok" /\ call = "Idle" /\ ~cancelled =>
         /\ server_config.limit <= server.limit
         /\ server_config.supports \subseteq server.supports \cup {"Alias"}
    /\ expiry = server.expiry
    /\ WithinServerLimit
    /\ NothingUnsupported

-----------------------------------------------------------------------------
(* The bytes of a string.                                                   *)
LEMMA StringLen ==
    ASSUME NEW n \in Nat, NEW s \in Strings(n)
    PROVE  NumBytes(s) \in Nat /\ NumBytes(s) <= 6 + n
<1>1. PICK k \in 0..n : s.rest \in [1..k -> Chars]
  BY DEF Strings
<1>2. k \in Nat /\ k <= n
  BY <1>1, SMT
<1>3. s.rest \in Seq(Chars)
  BY <1>1, <1>2, SeqDef
<1>4. Len(s.rest) \in Nat /\ DOMAIN s.rest = 1..Len(s.rest)
  BY <1>3, LenProperties
<1>5. DOMAIN s.rest = 1..k
  BY <1>1
<1>6. Len(s.rest) \in Nat /\ Len(s.rest) <= n
  BY <1>2, <1>4, <1>5, SMT
<1>7. NumBytes(s) = 6 + Len(s.rest) \/ NumBytes(s) = 0 + Len(s.rest)
  BY Zenon DEF NumBytes
<1> QED
  BY <1>6, <1>7, SMT

(* The packets of the calls are packets of the encoders.                    *)
LEMMA CallsMakePackets ==
    /\ \A c \in ConnectPackets : IsPacket(c) /\ c.type = "Connect"
    /\ \A p \in PublishPackets : encodable(p) => IsPacket(p) /\ p.type = "Publish"
    /\ \A p \in AckPackets : IsPacket(p) /\ p.type = "Ack"
    /\ \A p \in DisconnectPackets : IsPacket(p) /\ p.type = "Disconnect"
    /\ IsPacket(MinimalAck) /\ IsPacket([type |-> "Pingreq"]) /\ IsPacket(MinimalDisconnect)
<1>1. \A n \in Texts : n \in OptionalLength
  BY OutgoingAssumption DEF OptionalLength, Length
<1>2. 0 \in UserCounts /\ Absent \in OptionalLength
  BY EncodingAssumption, SMT DEF UserCounts, OptionalLength
<1>3. 0 \in Length /\ 1 \in Length /\ 2 \in Length /\ 3 \in Length
  BY SMT DEF Length, MAX_LENGTH
<1>4. \A n \in Names : n \in OptionalLength
  <2>1. \A s \in Strings(1) : NumBytes(s) \in Nat /\ NumBytes(s) <= 6 + 1
    BY StringLen
  <2>2. \A n \in Names : n \in Nat /\ n <= 6 + 1
    BY <2>1 DEF Names
  <2> QED
    BY <2>2, SMT DEF OptionalLength, Length, MAX_LENGTH
<1>5. ASSUME NEW c \in ConnectPackets PROVE IsPacket(c) /\ c.type = "Connect"
  <2>1. c.receive_maximum \in Nat /\ c.receive_maximum <= 65535
    <3>1. c.receive_maximum \in RECEIVE_MAXIMA \cup {1}
      BY Zenon DEF ConnectPackets
    <3> QED
      BY <3>1, OutgoingAssumption, SMT
  <2>2. /\ c.type = "Connect"
        /\ c.expiry \in BOOLEAN /\ c.limited \in BOOLEAN
        /\ c.request_response \in BOOLEAN /\ c.request_problem \in BOOLEAN
        /\ c.users \in UserCounts /\ c.client_identifier \in Length
        /\ c.user_name \in OptionalLength /\ c.password \in OptionalLength
    BY <1>1, <1>2, <1>3, Zenon DEF ConnectPackets
  <2>3. c.with_will \in BOOLEAN /\ (c.with_will => c.will \in Wills)
    BY Zenon DEF ConnectPackets
  <2>4. \A w \in Wills : IsWill(w)
    BY <1>1, <1>3 DEF Wills, IsWill
  <2>5. IsConnect(c)
    BY <2>1, <2>2, <2>3, <2>4 DEF IsConnect
  <2> QED
    BY <2>5 DEF IsPacket, IsConnect
<1>6. ASSUME NEW p \in PublishPackets, encodable(p) PROVE IsPacket(p) /\ p.type = "Publish"
  <2>1. p.message \in Nat /\ p.qos \in 0..2
    <3>1. p.message \in Messages \cup {1} /\ p.qos \in (0..2) \cup {1}
      BY Zenon DEF PublishPackets
    <3> QED
      BY <3>1, OutgoingAssumption, SMT
  <2>2. p.topic \in OptionalLength
    BY <1>2, <1>3, <1>4, Zenon DEF PublishPackets, OptionalLength
  <2>3. IsPublish(p)
    BY <1>1, <1>2, <1>6, <2>1, <2>2, Zenon DEF PublishPackets, IsPublish
  <2> QED
    BY <2>3 DEF IsPacket, IsPublish
<1>7. ASSUME NEW p \in AckPackets PROVE IsPacket(p) /\ p.type = "Ack"
  BY <1>1 DEF AckPackets, IsPacket, IsAck
<1>8. ASSUME NEW p \in DisconnectPackets PROVE IsPacket(p) /\ p.type = "Disconnect"
  BY <1>1 DEF DisconnectPackets, IsPacket, IsDisconnect
<1>9. IsPacket(MinimalAck) /\ IsPacket([type |-> "Pingreq"]) /\ IsPacket(MinimalDisconnect)
  BY <1>2 DEF IsPacket, IsAck, IsDisconnect, MinimalAck, MinimalDisconnect
<1> QED
  BY <1>5, <1>6, <1>7, <1>8, <1>9

(* The SUBSCRIBE or UNSUBSCRIBE for a filter.                               *)
LEMMA FilterPackets ==
    ASSUME NEW s \in Strings(FilterChars), NEW users \in UserCounts
    PROVE  /\ \A identifier \in Identifiers :
                IsPacket([type |-> "Subscribe", identifier |-> identifier, users |-> users,
                          filter |-> NumBytes(s)])
           /\ IsPacket([type |-> "Unsubscribe", users |-> users, filter |-> NumBytes(s)])
<1>1. FilterChars \in Nat /\ 6 + FilterChars <= MAX_LENGTH
  BY OutgoingAssumption
<1>2. NumBytes(s) \in Length
  <2>1. NumBytes(s) \in Nat /\ NumBytes(s) <= 6 + FilterChars
    BY <1>1, StringLen
  <2> QED
    BY <1>1, <2>1, SMT DEF Length, MAX_LENGTH
<1>3. \A identifier \in Identifiers : identifier = Absent \/ identifier \in Nat
  BY OutgoingAssumption
<1> QED
  BY <1>2, <1>3 DEF IsPacket, IsSubscribe, IsUnsubscribe

(* A record of a packet, written in whole or in part.                       *)
LEMMA WrittenSound ==
    ASSUME NEW p, IsPacket(p), NEW needs, NEW o,
           o = Written(p, needs) \/ o = [Written(p, needs) EXCEPT !.whole = FALSE]
    PROVE  /\ Sound(o)
           /\ o.type = p.type /\ o.needs = needs /\ o.announced.body = remaining_len(p)
<1>1. /\ o.type = p.type /\ o.needs = needs /\ o.written = send(p)
      /\ o.announced = Lengths(remaining_len(p), properties_length(p), WillList(p))
  BY DEF Written, WillList
<1> QED
  BY <1>1, WritesWhatItAnnounces DEF Sound, Lengths

(* The packets poll, rerelease, ping and abort send without a check.        *)
LEMMA UncheckedLen ==
    /\ EncodedLen(remaining_len(MinimalAck)) <= 6
    /\ EncodedLen(remaining_len([type |-> "Pingreq"])) <= 6
    /\ EncodedLen(remaining_len(MinimalDisconnect)) <= 6
<1>1. Users(0) = 0 /\ Property(Absent) = 0 /\ If(FALSE, 5) = 0
  BY EncodingAssumption, SMT DEF Users, Property, If
<1>2. remaining_len(MinimalAck) = 4
  BY <1>1, SMT DEF remaining_len, MinimalAck, AckRemainingLen, AckPropertiesLength, List, VarLen
<1>3. remaining_len([type |-> "Pingreq"]) = 0
  BY DEF remaining_len
<1>4. remaining_len(MinimalDisconnect) = 2
  <2>1. DisconnectPropertiesLength(MinimalDisconnect) = 0
    <3>1. /\ MinimalDisconnect.expiry = FALSE /\ MinimalDisconnect.reason_string = Absent
          /\ MinimalDisconnect.users = 0
      BY DEF MinimalDisconnect
    <3>2. DisconnectPropertiesLength(MinimalDisconnect) = 0 + 0 + 0
      BY <1>1, <3>1, Zenon DEF DisconnectPropertiesLength
    <3> QED
      BY <3>2, SMT
  <2>2. List(0) = 1
    BY SMT DEF List, VarLen
  <2> QED
    BY <2>1, <2>2, SMT DEF remaining_len, MinimalDisconnect, DisconnectRemainingLen
<1> QED
  BY <1>2, <1>3, <1>4, SMT DEF EncodedLen, VarLen

-----------------------------------------------------------------------------
(* A call that writes a packet on a connection that is Ok, having checked   *)
(* its length and what it asks of the server, or being one of the minimal   *)
(* ones.                                                                    *)
LEMMA TransmitStep ==
    ASSUME OutgoingInv, Ready, NEW p, IsPacket(p), p.type # "Connect", NEW needs,
           NEW after \in {"Ok", "Terminated"}, Transmit(p, needs, after),
           fits(p) \/ encoded_len(p) <= 6,
           needs \subseteq server_config.supports \cup {f \in {"Expiry"} : expiry},
           filter' = filter \/ filter' = NoFilter,
           UNCHANGED <<call, expiry, server_config, server>>
    PROVE  OutgoingInv'
<1>1. /\ Sound(outgoing')
      /\ outgoing'.needs = needs /\ outgoing'.announced.body = remaining_len(p)
  BY WrittenSound DEF Transmit
<1>2. /\ torn' \in BOOLEAN /\ cancelled' \in BOOLEAN
      /\ TornIsAbandoned'
      /\ ~cancelled' => ~cancelled
  <2>1. torn \in BOOLEAN /\ cancelled \in BOOLEAN /\ (torn => cancelled)
    <3>1. net # "Terminated"
      BY DEF Ready
    <3> QED
      BY <3>1, Zenon DEF OutgoingInv, TornIsAbandoned
  <2>2. \/ torn' = torn /\ cancelled' = cancelled
        \/ net' = "Terminated" /\ torn' = TRUE /\ cancelled' = cancelled
        \/ torn' = TRUE /\ cancelled' = TRUE
    BY DEF Transmit, handle_tx
  <2>3. CASE torn' = torn /\ cancelled' = cancelled
    BY <2>1, <2>3 DEF TornIsAbandoned
  <2>4. CASE net' = "Terminated" /\ torn' = TRUE /\ cancelled' = cancelled
    BY <2>1, <2>4 DEF TornIsAbandoned
  <2>5. CASE torn' = TRUE /\ cancelled' = TRUE
    BY <2>5 DEF TornIsAbandoned
  <2> QED
    BY <2>2, <2>3, <2>4, <2>5, Zenon
<1>3. call = "Idle" /\ net = "Ok"
  BY DEF Ready, Free
<1>4. ~cancelled' => /\ server_config.limit <= server.limit
                     /\ server_config.supports \subseteq server.supports \cup {"Alias"}
  BY <1>2, <1>3 DEF OutgoingInv
<1>5. WithinServerLimit'
  <2>1. encoded_len(p) = EncodedLen(outgoing'.announced.body)
    BY <1>1 DEF encoded_len
  <2>2. ~cancelled' => encoded_len(p) <= server.limit \/ encoded_len(p) <= 6
    <3>1. encoded_len(p) \in Int
      <4>1. remaining_len(p) \in Nat
        BY WritesWhatItAnnounces
      <4> QED
        BY <4>1, VarByteIntLen, SMT DEF encoded_len, EncodedLen
    <3> QED
      BY <1>4, <3>1, SMT DEF fits, OutgoingInv
  <2> QED
    BY <2>1, <2>2 DEF WithinServerLimit
<1>6. NothingUnsupported'
  BY <1>1, <1>4 DEF NothingUnsupported, OutgoingInv
<1> QED
  BY <1>1, <1>2, <1>3, <1>4, <1>5, <1>6 DEF OutgoingInv

(* connect writes its CONNECT.                                              *)
LEMMA ConnectStep ==
    ASSUME OutgoingInv, Free, NEW c \in ConnectPackets, Connect(c)
    PROVE  OutgoingInv'
<1>1. IsPacket(c) /\ c.type = "Connect"
  BY CallsMakePackets
<1>2. Sound(outgoing') /\ outgoing'.type = "Connect" /\ outgoing'.needs = {}
  BY <1>1, WrittenSound DEF Connect
<1>3. /\ torn' \in BOOLEAN /\ cancelled' \in BOOLEAN /\ TornIsAbandoned'
      /\ call' = "Connack" => net' = "Ok"
      /\ net' = "Ok" /\ call' = "Idle" => cancelled'
  <2>1. \/ torn' = FALSE /\ cancelled' = FALSE /\ net' = "Ok" /\ call' = "Connack"
        \/ torn' = FALSE /\ cancelled' = FALSE /\ net' = "Terminated" /\ call' = "Idle"
        \/ torn' = TRUE /\ cancelled' = FALSE /\ net' = "Terminated" /\ call' = "Idle"
        \/ torn' = TRUE /\ cancelled' = TRUE /\ net' = "Ok" /\ call' = "Idle"
    BY DEF Connect, handle_tx, Free
  <2> QED
    BY <2>1, Zenon DEF TornIsAbandoned
<1>4. /\ server' \in [limit : Nat, supports : SUBSET Features, expiry : BOOLEAN]
      /\ expiry' = server'.expiry
  <2>1. Unlimited \in Nat /\ Defaults \subseteq Features
    BY SMT DEF Unlimited, MAX_ENCODABLE, Defaults
  <2>2. c.expiry \in BOOLEAN
    BY <1>1 DEF IsPacket, IsConnect, IsPublish, IsAck, IsDisconnect, IsSubscribe, IsUnsubscribe
  <2> QED
    BY <2>1, <2>2 DEF Connect
<1>5. WithinServerLimit' /\ NothingUnsupported'
  BY <1>2 DEF WithinServerLimit, NothingUnsupported
<1> QED
  BY <1>2, <1>3, <1>4, <1>5 DEF OutgoingInv, Connect

(* The CONNACK is handled: server_config is brought up to date.             *)
LEMMA ConnackStep ==
    ASSUME OutgoingInv, Connack
    PROVE  OutgoingInv'
<1>1. PICK c \in Connacks :
        /\ server_config' = [limit |-> IF c.limit = Unlimited THEN server_config.limit ELSE c.limit,
                             supports |-> (server_config.supports \cup c.granted) \ c.denied]
        /\ server' = [server EXCEPT !.limit = c.limit,
                                    !.supports = (Defaults \cup c.granted) \ c.denied]
  BY Zenon DEF Connack
<1>2. c.limit \in Nat /\ c.limit <= Unlimited /\ c.granted \subseteq Features
  BY OutgoingAssumption
<1>3. /\ server'.limit = c.limit
      /\ server'.supports = (Defaults \cup c.granted) \ c.denied
      /\ server'.expiry = server.expiry
      /\ server' \in [limit : Nat, supports : SUBSET Features, expiry : BOOLEAN]
  BY <1>1, <1>2, Zenon DEF OutgoingInv, Defaults
<1>4. /\ server_config'.limit \in Nat /\ server_config'.limit <= Unlimited
      /\ server_config'.limit <= server'.limit
  BY <1>1, <1>2, <1>3, SMT DEF OutgoingInv, Unlimited, MAX_ENCODABLE
<1>5. /\ server_config'.supports \subseteq Features
      /\ server_config'.supports \subseteq server'.supports \cup {"Alias"}
  BY <1>1, <1>2, <1>3 DEF OutgoingInv, Defaults
<1>6. Sound(outgoing') /\ WithinServerLimit' /\ NothingUnsupported'
  BY SMT DEF Connack, Sound, WithinServerLimit, NothingUnsupported, NoPacket, Nothing, Lengths,
             MAX_ENCODABLE
<1> QED
  BY <1>3, <1>4, <1>5, <1>6 DEF OutgoingInv, Connack, TornIsAbandoned

(* A step that leaves the server's and the client's configuration alone and *)
(* writes nothing.                                                          *)
LEMMA QuietStep ==
    ASSUME OutgoingInv, UNCHANGED <<expiry, server_config, server, torn>>,
           outgoing' = outgoing \/ outgoing' = NoPacket,
           cancelled' = cancelled \/ cancelled' = TRUE,
           TornIsAbandoned', call' = "Connack" => net' = "Ok",
           net' = "Ok" /\ call' = "Idle" /\ ~cancelled' => net = "Ok" /\ call = "Idle",
           filter' # NoFilter => /\ filter'.s \in Strings(FilterChars)
                                 /\ filter'.valid => is_valid_filter(filter'.s)
    PROVE  OutgoingInv'
<1>1. Sound(NoPacket) /\ NoPacket.type = "None" /\ NoPacket.needs = {}
  BY SMT DEF Sound, NoPacket, Nothing, Lengths, MAX_ENCODABLE
<1>2. Sound(outgoing')
  BY <1>1 DEF OutgoingInv
<1>3. cancelled' \in BOOLEAN /\ (~cancelled' => ~cancelled)
  BY Zenon DEF OutgoingInv
<1>4. WithinServerLimit' /\ NothingUnsupported'
  <2>1. CASE outgoing' = outgoing
    BY <1>3, <2>1 DEF OutgoingInv, WithinServerLimit, NothingUnsupported
  <2>2. CASE outgoing' = NoPacket
    BY <1>1, <2>2 DEF WithinServerLimit, NothingUnsupported
  <2> QED
    BY <2>1, <2>2
<1> QED
  BY <1>2, <1>3, <1>4 DEF OutgoingInv

(* abort writes the shortest DISCONNECT, which always fits.                 *)
LEMMA AbortStep ==
    ASSUME OutgoingInv, Free, Abort
    PROVE  OutgoingInv'
<1>1. /\ Sound(outgoing') /\ outgoing'.needs = {}
      /\ outgoing'.announced.body = remaining_len(MinimalDisconnect)
  BY CallsMakePackets, WrittenSound DEF Abort
<1>2. torn' \in BOOLEAN /\ net' = "Terminated"
  BY Zenon DEF Abort, OutgoingInv
<1>3. WithinServerLimit' /\ NothingUnsupported'
  BY <1>1, UncheckedLen DEF WithinServerLimit, NothingUnsupported
<1> QED
  BY <1>1, <1>2, <1>3 DEF OutgoingInv, Abort, TornIsAbandoned, Free

(* subscribe and unsubscribe: a shared subscription is always recognised as *)
(* one, since new refuses what is too short for is_shared.                  *)
LEMMA RequestStep ==
    ASSUME OutgoingInv, Ready, filter # NoFilter, NEW users \in UserCounts
    PROVE  /\ \A id \in Identifiers, no_local \in BOOLEAN :
                Subscribe(id, users, no_local) => OutgoingInv'
           /\ Unsubscribe(users) => OutgoingInv'
<1>1. filter.s \in Strings(FilterChars) /\ (filter.valid => is_valid_filter(filter.s))
  BY DEF OutgoingInv
<1>2. ASSUME NEW id \in Identifiers, NEW no_local \in BOOLEAN, Subscribe(id, users, no_local)
      PROVE  OutgoingInv'
  <2> DEFINE s == filter.s
             needs == {f \in {"Wildcard"} : \E i \in DOMAIN s.rest : s.rest[i] \in Wildcards}
                        \cup {f \in {"Shared"} : s.share /\ s.rest[1] = "/"}
             option == {f \in {"SubscriptionIdentifier"} : id # Absent}
             p == [type |-> "Subscribe", identifier |-> id, users |-> users, filter |-> NumBytes(s)]
  <2>1. IsPacket(p) /\ p.type # "Connect"
    BY <1>1, FilterPackets, Zenon
  <2>2. /\ fits(p) /\ Transmit(p, needs \cup option, "Ok")
        /\ filter' = NoFilter /\ UNCHANGED <<call, expiry, server_config, server>>
    BY <1>2, Zenon DEF Subscribe
  <2>3. s.share /\ s.rest[1] = "/" => is_shared(s)
    BY <1>1, <1>2, Zenon DEF Subscribe, is_valid_filter, is_shared
  <2>4. needs \cup option \subseteq server_config.supports
    <3>1. /\ has_wildcard(s) => "Wildcard" \in server_config.supports
          /\ is_shared(s) => "Shared" \in server_config.supports
          /\ option \subseteq server_config.supports
      BY <1>2 DEF Subscribe
    <3> QED
      BY <2>3, <3>1, Zenon DEF has_wildcard
  <2> HIDE DEF s, needs, option, p
  <2> QED
    BY <2>1, <2>2, <2>4, TransmitStep
<1>3. ASSUME Unsubscribe(users) PROVE OutgoingInv'
  <2> DEFINE p == [type |-> "Unsubscribe", users |-> users, filter |-> NumBytes(filter.s)]
  <2>1. IsPacket(p) /\ p.type # "Connect"
    BY <1>1, FilterPackets
  <2>2. /\ fits(p) /\ Transmit(p, {}, "Ok")
        /\ filter' = NoFilter /\ UNCHANGED <<call, expiry, server_config, server>>
    BY <1>3, Zenon DEF Unsubscribe
  <2> HIDE DEF p
  <2> QED
    BY <2>1, <2>2, TransmitStep
<1> QED
  BY <1>2, <1>3

(* The other calls that write.                                              *)
LEMMA CallStep ==
    ASSUME OutgoingInv, Ready
    PROVE  /\ \A p \in PublishPackets : Publish(p) => OutgoingInv'
           /\ \A p \in AckPackets : Acknowledge(p) => OutgoingInv'
           /\ \A p \in DisconnectPackets : Disconnect(p) => OutgoingInv'
           /\ Unchecked => OutgoingInv'
<1>1. ASSUME NEW p \in PublishPackets, Publish(p) PROVE OutgoingInv'
  <2> DEFINE needs == {f \in {"QoS1"} : p.qos >= 1} \cup {f \in {"QoS2"} : p.qos = 2}
                        \cup {f \in {"Retain"} : p.retain} \cup {f \in {"Alias"} : p.alias}
  <2>1. /\ needs \subseteq server_config.supports /\ encodable(p) /\ fits(p)
        /\ Transmit(p, needs, "Ok")
        /\ UNCHANGED <<call, expiry, server_config, filter, server>>
    BY <1>1, Zenon DEF Publish
  <2>2. IsPacket(p) /\ p.type # "Connect"
    BY <2>1, CallsMakePackets
  <2> HIDE DEF needs
  <2> QED
    BY <2>1, <2>2, TransmitStep
<1>2. ASSUME NEW p \in AckPackets, Acknowledge(p) PROVE OutgoingInv'
  BY <1>2, CallsMakePackets, TransmitStep DEF Acknowledge
<1>3. ASSUME NEW p \in DisconnectPackets, Disconnect(p) PROVE OutgoingInv'
  <2> DEFINE needs == {f \in {"Expiry"} : p.nonzero}
  <2>1. /\ needs \subseteq {f \in {"Expiry"} : expiry} /\ fits(p)
        /\ Transmit(p, needs, "Terminated")
        /\ UNCHANGED <<call, expiry, server_config, filter, server>>
    BY <1>3, Zenon DEF Disconnect
  <2>2. IsPacket(p) /\ p.type # "Connect"
    BY CallsMakePackets
  <2> HIDE DEF needs
  <2> QED
    BY <2>1, <2>2, TransmitStep, Zenon
<1>4. ASSUME Unchecked PROVE OutgoingInv'
  <2>1. PICK p \in {MinimalAck, [type |-> "Pingreq"]} : Transmit(p, {}, "Ok")
    BY <1>4 DEF Unchecked
  <2>2. IsPacket(p) /\ p.type # "Connect" /\ encoded_len(p) <= 6
    BY CallsMakePackets, UncheckedLen DEF encoded_len, MinimalAck
  <2> QED
    BY <1>4, <2>1, <2>2, TransmitStep DEF Unchecked
<1> QED
  BY <1>1, <1>2, <1>3, <1>4

(* Every step of the client.                                                *)
LEMMA OutgoingStep ==
    ASSUME OutgoingInv, [OutgoingNext]_outgoingVars
    PROVE  OutgoingInv'
<1>1. ASSUME Free, net # "Ok", Abort \/ \E c \in ConnectPackets : Connect(c)
      PROVE  OutgoingInv'
  BY <1>1, AbortStep, ConnectStep
<1>2. ASSUME Connack PROVE OutgoingInv'
  BY <1>2, ConnackStep
<1>3. ASSUME ConnectEnds PROVE OutgoingInv'
  <2>1. net = "Ok" /\ torn \in BOOLEAN /\ cancelled \in BOOLEAN /\ (torn => cancelled)
    <3>1. net = "Ok" /\ net # "Terminated"
      BY <1>3 DEF ConnectEnds, OutgoingInv
    <3> QED
      BY <3>1, Zenon DEF OutgoingInv, TornIsAbandoned
  <2>2. TornIsAbandoned'
    BY <1>3, <2>1, Zenon DEF ConnectEnds, TornIsAbandoned
  <2>3. /\ call' # "Connack"
        /\ net' = "Ok" => cancelled' = TRUE
        /\ cancelled' = cancelled \/ cancelled' = TRUE
        /\ outgoing' = NoPacket
        /\ UNCHANGED <<expiry, server_config, filter, torn, server>>
    BY <1>3 DEF ConnectEnds
  <2> QED
    BY <2>2, <2>3, QuietStep, Zenon DEF OutgoingInv
<1>4. ASSUME Ready,
             \/ \E p \in PublishPackets : Publish(p)
             \/ \E p \in AckPackets : Acknowledge(p)
             \/ \E p \in DisconnectPackets : Disconnect(p)
             \/ Unchecked
      PROVE  OutgoingInv'
  BY <1>4, CallStep
<1>5. ASSUME NEW s \in Strings(FilterChars), NewFilter(s) PROVE OutgoingInv'
  <2>1. /\ filter'.s = s /\ filter'.valid = is_valid_filter(s)
        /\ UNCHANGED <<net, call, expiry, server_config, outgoing, torn, cancelled, server>>
    BY <1>5 DEF NewFilter
  <2> QED
    BY <2>1, QuietStep DEF OutgoingInv, TornIsAbandoned
<1>6. ASSUME Ready, Fault PROVE OutgoingInv'
  <2>1. TornIsAbandoned'
    <3>1. net # "Terminated"
      BY <1>6 DEF Ready
    <3> QED
      BY <1>6, <3>1, Zenon DEF OutgoingInv, TornIsAbandoned, Fault
  <2>2. /\ call' = "Idle" /\ net' # "Ok" /\ outgoing' = outgoing
        /\ UNCHANGED <<expiry, server_config, filter, torn, cancelled, server>>
    BY <1>6 DEF Ready, Free, Fault
  <2> QED
    BY <2>1, <2>2, QuietStep DEF OutgoingInv
<1>7. ASSUME Ready, filter # NoFilter,
             \/ \E id \in Identifiers, users \in UserCounts, no_local \in BOOLEAN :
                  Subscribe(id, users, no_local)
             \/ \E users \in UserCounts : Unsubscribe(users)
      PROVE  OutgoingInv'
  BY <1>7, RequestStep
<1>8. ASSUME DropFilter \/ Return PROVE OutgoingInv'
  <2>1. CASE DropFilter
    BY <2>1, QuietStep DEF DropFilter, OutgoingInv, TornIsAbandoned
  <2>2. CASE Return
    BY <2>2, QuietStep DEF Return, OutgoingInv, TornIsAbandoned
  <2> QED
    BY <1>8, <2>1, <2>2
<1>9. ASSUME UNCHANGED outgoingVars PROVE OutgoingInv'
  BY <1>9, QuietStep DEF outgoingVars, OutgoingInv, TornIsAbandoned
<1> QED
  BY <1>1, <1>2, <1>3, <1>4, <1>5, <1>6, <1>7, <1>8, <1>9 DEF OutgoingNext

(* The invariant holds in every behaviour of Outgoing.                      *)
LEMMA OutgoingInvariant == OutgoingSpec => []OutgoingInv
<1>1. OutgoingInit => OutgoingInv
  <2> SUFFICES ASSUME OutgoingInit PROVE OutgoingInv
    OBVIOUS
  <2>1. Sound(outgoing) /\ outgoing.type = "None" /\ outgoing.needs = {}
    BY SMT DEF OutgoingInit, Sound, NoPacket, Nothing, Lengths, MAX_ENCODABLE
  <2>2. Unlimited \in Nat /\ Defaults \subseteq Features
    BY SMT DEF Unlimited, MAX_ENCODABLE, Defaults
  <2>3. WithinServerLimit /\ NothingUnsupported /\ TornIsAbandoned
    BY <2>1 DEF OutgoingInit, WithinServerLimit, NothingUnsupported, TornIsAbandoned
  <2>4. /\ server_config.limit = Unlimited /\ server_config.supports = Defaults
        /\ server.limit = Unlimited /\ server.supports = Defaults /\ server.expiry = FALSE
        /\ server \in [limit : Nat, supports : SUBSET Features, expiry : BOOLEAN]
    BY <2>2 DEF OutgoingInit
  <2>5. Unlimited <= Unlimited
    BY <2>2, SMT
  <2> QED
    BY <2>1, <2>2, <2>3, <2>4, <2>5, Zenon DEF OutgoingInit, OutgoingInv
<1>2. OutgoingInv /\ [OutgoingNext]_outgoingVars => OutgoingInv'
  BY OutgoingStep
<1> QED
  BY <1>1, <1>2, PTL DEF OutgoingSpec

-----------------------------------------------------------------------------
(* TxPacket::send: a packet written in whole has the length its header says *)
(* and its lists the lengths their fields say, for every maximum of user    *)
(* properties and every choice of options, messages and topic filters.      *)
THEOREM LengthsAreAnnounced == OutgoingSpec => []WritesAnnounced
<1>1. OutgoingInv => WritesAnnounced
  BY DEF OutgoingInv, Sound, WritesAnnounced
<1> QED
  BY <1>1, OutgoingInvariant, PTL

(* VarByteInt::new_unchecked: no length is too large to encode.             *)
THEOREM LengthsAreEncodable == OutgoingSpec => []Encodable
<1>1. OutgoingInv => Encodable
  BY DEF OutgoingInv, Sound, Encodable
<1> QED
  BY <1>1, OutgoingInvariant, PTL

(* Nothing longer than the server of this connection accepts is written     *)
(* after the CONNECT, but for the shortest packets, whatever the servers of *)
(* earlier connections announced.                                           *)
THEOREM ServerLimitIsKept == OutgoingSpec => []WithinServerLimit
<1>1. OutgoingInv => WithinServerLimit
  BY DEF OutgoingInv
<1> QED
  BY <1>1, OutgoingInvariant, PTL

(* Nothing but a topic alias is sent that this connection's CONNECT and     *)
(* CONNACK rule out, although server_config outlives connections.           *)
THEOREM NothingUnsupportedIsSent == OutgoingSpec => []NothingUnsupported
<1>1. OutgoingInv => NothingUnsupported
  BY DEF OutgoingInv
<1> QED
  BY <1>1, OutgoingInvariant, PTL

(* Unless a call was dropped, nothing follows a packet written in part.     *)
THEOREM TornConnectionIsAbandoned == OutgoingSpec => []TornIsAbandoned
<1>1. OutgoingInv => TornIsAbandoned
  BY DEF OutgoingInv
<1> QED
  BY <1>1, OutgoingInvariant, PTL
===============================================================================
