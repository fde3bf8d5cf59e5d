------------------------------ MODULE Handshakes ------------------------------
(* What the session promises about packet identifiers, without its lists,   *)
(* capacities and Due/Await bookkeeping.  An identifier is idle or carries  *)
(* one handshake, whose acknowledgement mode is fixed when it begins, which *)
(* only moves forward, and which a reconnection does not touch.             *)
EXTENDS Naturals

CONSTANTS PacketIdentifier, AckMode

VARIABLES local,     \* handshakes of the client's publications, by identifier
          peer,      \* handshakes of the server's publications, by identifier
          requests   \* identifiers of in-flight SUBSCRIBE and UNSUBSCRIBE packets

vars == <<local, peer, requests>>

Idle == [stage |-> "Idle"]

Handshake == [stage : {"AtLeastOnce", "ExactlyOnce", "Released"}, mode : AckMode]

First(h) == h.stage \in {"AtLeastOnce", "ExactlyOnce"}

Init ==
    /\ local = [p \in PacketIdentifier |-> Idle]
    /\ peer = [p \in PacketIdentifier |-> Idle]
    /\ requests = {}

(* The next stage of one handshake: it begins in a publishing stage, an     *)
(* ExactlyOnce one may be released, and any may end.                        *)
Moves(h, next) ==
    \/ h = Idle /\ next \in Handshake /\ First(next)
    \/ h # Idle /\ h.stage = "ExactlyOnce" /\ next = [h EXCEPT !.stage = "Released"]
    \/ h # Idle /\ next = Idle

(* A publication of the client takes an identifier that nothing uses.       *)
Local ==
    /\ UNCHANGED <<requests, peer>>
    /\ \E p \in PacketIdentifier :
         /\ Moves(local[p], local'[p])
         /\ local[p] = Idle => p \notin requests
         /\ local' = [local EXCEPT ![p] = local'[p]]

(* The server chooses its identifiers on its own.                           *)
Peer ==
    /\ UNCHANGED <<requests, local>>
    /\ \E p \in PacketIdentifier :
         /\ Moves(peer[p], peer'[p])
         /\ peer' = [peer EXCEPT ![p] = peer'[p]]

Request ==
    /\ \E p \in PacketIdentifier \ requests :
         requests' = requests \cup {p} /\ local[p] = Idle
    /\ UNCHANGED <<local, peer>>

Respond ==
    /\ \E p \in requests : requests' = requests \ {p}
    /\ UNCHANGED <<local, peer>>

(* A resumed session keeps every handshake; a new one has none.             *)
Resume == requests' = {} /\ UNCHANGED <<local, peer>>

Reset ==
    /\ local' = [p \in PacketIdentifier |-> Idle]
    /\ peer' = [p \in PacketIdentifier |-> Idle]
    /\ requests' = {}

Next == Resume \/ Local \/ Peer \/ Request \/ Respond \/ Reset

Spec == Init /\ [][Next]_vars
===============================================================================
