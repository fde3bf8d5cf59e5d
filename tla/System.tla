-------------------------------- MODULE System --------------------------------
(* The client, a user who follows its documentation, and a server that      *)
(* keeps to MQTT 5, over connections that break.  The user publishes each   *)
(* message once, resends what is unacknowledged after a reconnection, and   *)
(* acknowledges what the client asks to be acknowledged manually.           *)
EXTENDS Client, Broker

CONSTANTS OutModes,     \* acknowledgement modes of the user's publications
          InModes,      \* what the predicate of ack_manually_when may answer
          UserCodes,    \* reason codes of manual acknowledgements
          CleanStarts,  \* values of clean_start
          MaxRequests,  \* bound on the user's SUBSCRIBE and UNSUBSCRIBE packets
          MayRestart    \* may the client be replaced by one made of its session?

VARIABLES unpublished,  \* messages the user has not published yet
          carried,      \* message the user knows each outbound pid to carry
          confirmed,    \* messages reported as Acknowledged or Completed
          published,    \* times each message was handed over as Publish
          declined,     \* messages the user declined with an erroneous code
          requested     \* requests the user has made

userVars == <<unpublished, carried, confirmed, published, declined, requested>>
systemVars == <<clientVars, transportVars, brokerVars, userVars>>

SystemInit ==
    /\ ClientInit
    /\ TransportInit
    /\ BrokerInit
    /\ unpublished = OutMsgs
    /\ carried = Nothing
    /\ confirmed = {}
    /\ published = [m \in InMsgs |-> 0]
    /\ declined = {}
    /\ requested = 0

-----------------------------------------------------------------------------
(* The user takes note of the event a step hands over.                      *)
Observe ==
    /\ confirmed' = IF event'.name \in {"Acknowledged", "Completed"}
                      THEN confirmed \cup {carried[event'.pid]} ELSE confirmed
    /\ published' = IF event'.name = "Publish"
                      THEN [published EXCEPT ![event'.msg] = @ + 1] ELSE published
    /\ UNCHANGED <<unpublished, carried, declined, requested, brokerVars>>

(* Also without a connection: publish then reports an error, and the        *)
(* message counts as in flight.  It needs a session to survive in, so the   *)
(* user begins once there is one.                                           *)
UserPublish ==
  /\ stored
  /\ \E m \in unpublished, pid \in PacketIdentifier, mode \in OutModes :
      /\ Publish(pid, QoS(m), mode, m)
      /\ unpublished' = unpublished \ {m}
      /\ carried' = With(carried, pid, m)
      /\ UNCHANGED <<confirmed, published, declined, requested, brokerVars>>

UserRepublish ==
    /\ \E pid \in DOMAIN carried : Republish(pid, QoS(carried[pid]), carried[pid])
    /\ Observe

UserRerelease == Rerelease /\ Observe

(* A message the user declines: the server may offer it again.              *)
UserAcknowledge ==
    /\ \E pid \in PacketIdentifier, rc \in UserCodes :
         /\ manual_acknowledge(pid, rc) \/ manual_receive(pid, rc)
         /\ declined' = IF is_erroneous(rc) /\ pid \in DOMAIN sending
                          THEN declined \cup {sending[pid].msg} ELSE declined
    /\ UNCHANGED <<unpublished, carried, confirmed, published, requested, brokerVars>>

UserRelease ==
    /\ \E pid \in PacketIdentifier : manual_release(pid) \/ manual_complete(pid)
    /\ Observe

UserRequests ==
    /\ requested < MaxRequests
    /\ \E pid \in PacketIdentifier, t \in {"Subscribe", "Unsubscribe"} : Request(t, pid, TRUE)
    /\ requested' = requested + 1
    /\ UNCHANGED <<unpublished, carried, confirmed, published, declined, brokerVars>>

UserConnects == (\E clean_start \in CleanStarts : Connect(clean_start)) /\ Observe

ClientReceives ==
    /\ \/ \E mode \in InModes : PollPublish(mode)
       \/ PollPuback \/ PollPubrec \/ PollPubrel \/ PollPubcomp
       \/ PollSuback \/ PollUnsuback \/ PollDisconnect \/ PollRefused
       \/ Connack \/ ReceiveFails \/ Abort
    /\ Observe

UserLeaves == (Disconnect \/ (MayRestart /\ Restart)) /\ Observe

Environment == (BrokerRefuse \/ BrokerDisconnects \/ BrokerExpire
                  \/ (Break /\ UNCHANGED brokerVars))
               /\ event' = NoEvent
               /\ UNCHANGED <<sessionVars, net, server_config, call, userVars>>

ServerStep ==
    /\ BrokerHandles \/ BrokerSends \/ BrokerEOF
    /\ event' = NoEvent
    /\ UNCHANGED <<sessionVars, net, server_config, call, userVars>>

(* What drives the handshakes on, as the documentation asks of the user and *)
(* MQTT of the server.                                                      *)
Progress ==
    \/ UserPublish \/ UserRepublish \/ UserRerelease \/ UserAcknowledge \/ UserRelease
    \/ UserConnects \/ ClientReceives \/ ServerStep

SystemNext == Progress \/ UserRequests \/ UserLeaves \/ Environment

SystemSpec == SystemInit /\ [][SystemNext]_systemVars

FairSystem == SystemSpec /\ WF_systemVars(Progress)

-----------------------------------------------------------------------------
(* Outgoing QoS 2 (types/qos.rs): within one session of the server, however *)
(* often connections are lost and the user resends, a message is passed on  *)
(* at most once.                                                            *)
PassedOnAtMostOnce == \A m \in OutMsgs \cap ExactlyOnce : delivered[m] <= 1

(* PublishAcknowledged and PublishComplete are only reported for a message  *)
(* the server has passed on.                                                *)
ConfirmedMeansPassedOn == confirmed \subseteq known

(* Event::Publish: a QoS 2 message is handed to the user at most once,      *)
(* unless the user declines it with an erroneous PUBREC, after which the    *)
(* client has forgotten it.                                                 *)
HandedOverAtMostOnce ==
    \A m \in (InMsgs \cap ExactlyOnce) \ declined : published[m] <= 1

(* A message whose handshake the client completed has been handed over.     *)
FinishedMeansHandedOver == \A m \in finished : published[m] > 0

(* The documentation of Client: no call of the user and no retransmission   *)
(* makes the client violate the protocol.                                   *)
NoBreach == breach = {}

(* The client finds no fault with a server that keeps to MQTT 5.            *)
NoFault == net.state # "Faulted"

(* No arm of poll_body that is declared unreachable!() is reached.          *)
NeverPanics == call # "Panicked"

(* Every message the user publishes is confirmed, given finitely many       *)
(* outages and a user who reconnects, polls and resends.                    *)
EventuallyConfirmed == <>(confirmed = OutMsgs)

(* No handshake is left over on either side: the client and the server end  *)
(* up with nothing in flight, whichever packets the outages swallowed and   *)
(* whichever calls the user made in between.                                *)
EventuallySettled ==
    <>[](/\ outbound_publishes = <<>> /\ inbound_publishes = <<>>
         /\ sending = Nothing /\ received = Nothing /\ outbox = {})

(* publish: a new message is only sent within the server's receive maximum. *)
PublishWithinReceiveMaximum ==
    [][UserPublish => Len(outbound_publishes') <= server_config.receive_maximum]_systemVars
===============================================================================
