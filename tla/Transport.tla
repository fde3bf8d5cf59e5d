------------------------------ MODULE Transport ------------------------------
(* The network between the client and the server (io::net::Transport, an    *)
(* implementation of the user): one connection at a time, that delivers in  *)
(* order what it delivers and can be lost at any moment together with any   *)
(* suffix of what is in flight in either direction.                         *)
EXTENDS Naturals, Sequences

CONSTANT MaxOutages   \* bound on the connections lost or closed

ASSUME MaxOutagesAssumption == MaxOutages \in Nat

VARIABLES link,      \* is the connection up?
          c2s,       \* packets the server can still read
          s2c,       \* packets the client can still read
          outages    \* connections lost or closed so far

transportVars == <<link, c2s, s2c, outages>>

TransportInit == link = FALSE /\ c2s = <<>> /\ s2c = <<>> /\ outages = 0

Prefixes(s) == {SubSeq(s, 1, n) : n \in 0..Len(s)}

(* Every packet; the fields a type does not use hold a fixed value.         *)
Packet(type, pid, rc) == [type |-> type, pid |-> pid, rc |-> rc]
PublishPacket(pid, qos, msg, dup) ==
    [type |-> "Publish", pid |-> pid, qos |-> qos, msg |-> msg, dup |-> dup]

(* The queue after a write to it: a lost connection swallows what is        *)
(* written before the writer notices.                                       *)
Written(queue, p) == IF link THEN Append(queue, p) ELSE queue

Outage == outages < MaxOutages /\ outages' = outages + 1

(* The connection is lost.                                                  *)
Break ==
    /\ link
    /\ Outage
    /\ link' = FALSE
    /\ c2s' \in Prefixes(c2s)
    /\ s2c' \in Prefixes(s2c)

(* The client drops its end, and with it what it has not read; the server   *)
(* may still read a prefix of sent.                                         *)
DropTransport(sent) ==
    /\ IF link THEN Outage ELSE UNCHANGED outages
    /\ link' = FALSE
    /\ c2s' \in Prefixes(sent)
    /\ s2c' = <<>>
===============================================================================
