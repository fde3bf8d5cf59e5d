-------------------------------- MODULE Broker --------------------------------
(* A server that keeps to MQTT 5, as the client relies on it: external to   *)
(* the repository.  It keeps the session across connections, answers every  *)
(* packet, resends what is unacknowledged when a session is resumed, and    *)
(* never has more publications in flight than its send quota.               *)
EXTENDS Transport, SessionOps, FiniteSets

CONSTANTS OutMsgs,           \* messages the client publishes
          InMsgs,            \* messages the server publishes
          ExactlyOnce,       \* the messages of QoS 2; the others have QoS 1
          ReceiveMaxima,     \* receive maximum of a CONNACK; 0 leaves it out
          MayReject,         \* may the server reject a publication or a connection?
          MayExpire,         \* may the server's session end while disconnected?
          UnknownPubrelCode, \* PUBCOMP for an identifier it does not know
          QuotaSurvives      \* does the send quota count what was sent before?

VARIABLES attached,     \* has accepted a CONNECT and not seen the connection end
          stored,       \* has a session for this client
          limit,        \* the receive maximum it granted
          received,     \* QoS 2 publications awaiting PUBREL: pid -> message
          delivered,    \* times each message was passed on in this session
          known,        \* messages passed on in any session
          sending,      \* publications in flight: pid -> [msg, stage]
          resend,       \* pids to be retransmitted on this connection
          quota,        \* send quota
          outbox,       \* messages not sent yet
          finished,     \* messages whose handshake the client completed
          breach        \* violations of the protocol by the client

brokerVars == <<attached, stored, limit, received, delivered, known, sending,
                resend, quota, outbox, finished, breach>>

QoS(m) == IF m \in ExactlyOnce THEN 2 ELSE 1

Nothing == [x \in {} |-> x]
Without(f, x) == [y \in DOMAIN f \ {x} |-> f[y]]
With(f, x, v) == [y \in DOMAIN f \cup {x} |-> IF y = x THEN v ELSE f[y]]
Undelivered == [m \in OutMsgs |-> 0]

BrokerInit ==
    /\ attached = FALSE
    /\ stored = FALSE
    /\ limit = PidMax
    /\ received = Nothing
    /\ delivered = Undelivered
    /\ known = {}
    /\ sending = Nothing
    /\ resend = {}
    /\ quota = 0
    /\ outbox = InMsgs
    /\ finished = {}
    /\ breach = {}

-----------------------------------------------------------------------------
Handles(type) == c2s # <<>> /\ Head(c2s).type = type /\ c2s' = Tail(c2s)

(* The packet p is answered; the network itself does not change.            *)
Answer(p) == s2c' = Written(s2c, p) /\ UNCHANGED <<link, outages>>
NoAnswer == UNCHANGED <<s2c, link, outages>>

(* A CONNECT resumes the session or begins a new one.                       *)
BrokerConnect(rm) ==
    /\ Handles("Connect")
    /\ LET present == stored /\ ~Head(c2s).clean_start
           inflight == IF present THEN sending ELSE Nothing
       IN  /\ received' = IF present THEN received ELSE Nothing
           /\ delivered' = IF present THEN delivered ELSE Undelivered
           /\ sending' = inflight
           /\ resend' = DOMAIN inflight
           /\ quota' = IF QuotaSurvives
                         THEN RECEIVE_MAXIMUM - Cardinality({p \in DOMAIN inflight :
                                                   inflight[p].stage = "Release"})
                         ELSE RECEIVE_MAXIMUM
           /\ Answer([type |-> "Connack", rc |-> "Success", session_present |-> present,
                      receive_maximum |-> rm, limited |-> FALSE])
    /\ limit' = IF rm = 0 THEN PidMax ELSE rm
    /\ attached' = TRUE
    /\ stored' = TRUE
    /\ UNCHANGED <<known, outbox, finished, breach>>

BrokerRefuse ==
    /\ MayReject
    /\ outages < MaxOutages
    /\ Handles("Connect")
    /\ Answer([type |-> "Connack", rc |-> "NotAuthorized", session_present |-> FALSE,
               receive_maximum |-> 0, limited |-> FALSE])
    /\ UNCHANGED brokerVars

(* A new QoS 2 publication within the receive maximum, a repeated one, or   *)
(* a QoS 1 publication, which is passed on every time.                      *)
BrokerPublish ==
    /\ Handles("Publish")
    /\ LET p == Head(c2s)
           new == p.qos = 1 \/ p.pid \notin DOMAIN received
           ack(rc) == Answer(Packet(IF p.qos = 1 THEN "Puback" ELSE "Pubrec", p.pid, rc))
       IN  /\ \/ /\ new
                 /\ delivered' = [delivered EXCEPT ![p.msg] = @ + 1]
                 /\ known' = known \cup {p.msg}
                 /\ received' = IF p.qos = 2 THEN With(received, p.pid, p.msg) ELSE received
                 /\ ack("Success")
              \/ /\ new /\ MayReject
                 /\ ack("UnspecifiedError")
                 /\ UNCHANGED <<delivered, known, received>>
              \/ /\ ~new
                 /\ ack("Success")
                 /\ UNCHANGED <<delivered, known, received>>
           /\ breach' = breach
                \cup {b \in {"OtherMessage"} : ~new /\ received[p.pid] # p.msg}
                \cup {b \in {"ReceiveMaximum"} : new /\ Cardinality(DOMAIN received) >= limit}
    /\ UNCHANGED <<attached, stored, limit, sending, resend, quota, outbox, finished>>

BrokerPubrel ==
    /\ Handles("Pubrel")
    /\ LET p == Head(c2s)
           rc == IF p.pid \in DOMAIN received THEN "Success" ELSE UnknownPubrelCode
       IN  Answer(Packet("Pubcomp", p.pid, rc)) /\ received' = Without(received, p.pid)
    /\ UNCHANGED <<attached, stored, limit, delivered, known, sending, resend, quota,
                   outbox, finished, breach>>

(* A request must not take the identifier of a publication in flight.       *)
BrokerRequest ==
    /\ \/ Handles("Subscribe") /\ Answer(Packet("Suback", Head(c2s).pid, "Success"))
       \/ Handles("Unsubscribe") /\ Answer(Packet("Unsuback", Head(c2s).pid, "Success"))
    /\ breach' = breach \cup {b \in {"IdentifierInUse"} : Head(c2s).pid \in DOMAIN received}
    /\ UNCHANGED <<attached, stored, limit, received, delivered, known, sending, resend,
                   quota, outbox, finished>>

-----------------------------------------------------------------------------
(* The server's own publications.                                           *)

Stage(pid) == IF pid \in DOMAIN sending THEN sending[pid].stage ELSE "None"

(* The handshake of pid is over, with or without the client having taken    *)
(* the message.                                                             *)
Settle(pid, taken) ==
    /\ sending' = Without(sending, pid)
    /\ resend' = resend \ {pid}
    /\ quota' = IF quota < RECEIVE_MAXIMUM THEN quota + 1 ELSE quota
    /\ finished' = IF taken THEN finished \cup {sending[pid].msg} ELSE finished
    /\ UNCHANGED <<attached, stored, limit, received, delivered, known, outbox, breach>>

Breach(b) ==
    /\ breach' = breach \cup {b}
    /\ UNCHANGED <<attached, stored, limit, received, delivered, known, sending, resend,
                   quota, outbox, finished>>

BrokerPuback ==
    /\ Handles("Puback")
    /\ NoAnswer
    /\ LET p == Head(c2s)
       IN  IF Stage(p.pid) = "Publish" /\ QoS(sending[p.pid].msg) = 1
             THEN Settle(p.pid, ~is_erroneous(p.rc)) ELSE Breach("Puback")

(* A PUBREC that nothing waits for is answered and counted as a breach.     *)
BrokerPubrec ==
    /\ Handles("Pubrec")
    /\ LET p == Head(c2s)
       IN  \/ /\ Stage(p.pid) = "Publish" /\ QoS(sending[p.pid].msg) = 2
              /\ is_erroneous(p.rc)
              /\ Settle(p.pid, FALSE)
              /\ NoAnswer
           \/ /\ Stage(p.pid) = "Publish" /\ QoS(sending[p.pid].msg) = 2
              /\ ~is_erroneous(p.rc)
              /\ sending' = [sending EXCEPT ![p.pid].stage = "Release"]
              /\ resend' = resend \ {p.pid}
              /\ Answer(Packet("Pubrel", p.pid, "Success"))
              /\ UNCHANGED <<attached, stored, limit, received, delivered, known, quota,
                             outbox, finished, breach>>
           \/ /\ Stage(p.pid) = "Publish" => QoS(sending[p.pid].msg) # 2
              /\ Breach("Pubrec")
              /\ Answer(Packet("Pubrel", p.pid, "PacketIdentifierNotFound"))

BrokerPubcomp ==
    /\ Handles("Pubcomp")
    /\ NoAnswer
    /\ LET p == Head(c2s)
       IN  IF Stage(p.pid) = "Release" THEN Settle(p.pid, ~is_erroneous(p.rc))
                                       ELSE Breach("Pubcomp")

(* The server sends on the connection whose CONNECT it has handled.         *)
Current == attached /\ (c2s # <<>> => Head(c2s).type # "Connect")

BrokerTransmit(pid) ==
    LET m == sending'[pid].msg
    IN  IF sending'[pid].stage = "Publish"
          THEN Answer(PublishPacket(pid, QoS(m), m, pid \in resend))
          ELSE Answer(Packet("Pubrel", pid, "Success"))

(* A message is sent with the first free identifier, once everything that   *)
(* had to be resent has been.                                               *)
BrokerSend(m) ==
    /\ Current
    /\ resend = {}
    /\ m \in outbox
    /\ quota > 0
    /\ \E pid \in PacketIdentifier :
         /\ pid \notin DOMAIN sending
         /\ \A q \in PacketIdentifier : q < pid => q \in DOMAIN sending
         /\ sending' = With(sending, pid, [msg |-> m, stage |-> "Publish"])
         /\ BrokerTransmit(pid)
    /\ quota' = quota - 1
    /\ outbox' = outbox \ {m}
    /\ UNCHANGED <<c2s, attached, stored, limit, received, delivered, known, resend,
                   finished, breach>>

BrokerResend(pid) ==
    /\ Current
    /\ pid \in resend
    /\ Stage(pid) = "Publish" => quota > 0
    /\ UNCHANGED sending
    /\ BrokerTransmit(pid)
    /\ quota' = IF Stage(pid) = "Publish" THEN quota - 1 ELSE quota
    /\ resend' = resend \ {pid}
    /\ UNCHANGED <<c2s, attached, stored, limit, received, delivered, known, outbox,
                   finished, breach>>

-----------------------------------------------------------------------------
(* The connection ends on the server's side.                                *)

Detach ==
    /\ attached' = FALSE
    /\ UNCHANGED <<stored, limit, received, delivered, known, sending, resend, quota,
                   outbox, finished, breach>>

BrokerDisconnected == Handles("Disconnect") /\ NoAnswer /\ Detach

BrokerEOF ==
    /\ attached /\ ~link /\ c2s = <<>>
    /\ Detach
    /\ UNCHANGED transportVars

(* The server closes the connection with a DISCONNECT.                      *)
BrokerDisconnects ==
    /\ Current /\ link
    /\ Outage
    /\ link' = FALSE
    /\ c2s' = <<>>
    /\ s2c' = Append(s2c, Packet("Disconnect", 0, "Success"))
    /\ Detach

(* The session expires; what was in flight is gone.                         *)
BrokerExpire ==
    /\ MayExpire
    /\ ~attached /\ stored
    /\ stored' = FALSE
    /\ UNCHANGED transportVars
    /\ UNCHANGED <<attached, limit, received, delivered, known, sending, resend, quota,
                   outbox, finished, breach>>

BrokerHandles ==
    \/ \E rm \in ReceiveMaxima : BrokerConnect(rm)
    \/ BrokerPublish \/ BrokerPubrel \/ BrokerRequest
    \/ BrokerPuback \/ BrokerPubrec \/ BrokerPubcomp \/ BrokerDisconnected

BrokerSends ==
    \/ \E m \in InMsgs : BrokerSend(m)
    \/ \E pid \in PacketIdentifier : BrokerResend(pid)
===============================================================================
