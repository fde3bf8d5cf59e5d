-------------------------------- MODULE Sizes --------------------------------
(* Lengths on the wire: variable byte integers, the length of a packet      *)
(* around its body, and the limit connect derives from the maximum packet   *)
(* size.                                                                    *)
EXTENDS Integers

MAX_ENCODABLE == 268435455

(* VarByteInt::written_len                                                  *)
VarLen(n) == IF n <= 127 THEN 1
             ELSE IF n <= 16383 THEN 2
             ELSE IF n <= 2097151 THEN 3 ELSE 4

(* The loop that writes a VarByteInt, seven bits a turn                     *)
Turns(n) == IF n \div 128 = 0 THEN 1
            ELSE IF n \div 16384 = 0 THEN 2
            ELSE IF n \div 2097152 = 0 THEN 3 ELSE 4

(* TxPacket::encoded_len: the fixed header and the body it announces        *)
EncodedLen(remaining_len) == 1 + VarLen(remaining_len) + remaining_len

(* MaximumPacketSize::Unlimited, and the u32::MAX it stands for: more than  *)
(* any length that can be encoded, within TLC's integers.                   *)
Unlimited == 4 * MAX_ENCODABLE

MAX_POSSIBLE_PACKET_SIZE == MAX_ENCODABLE + 5

Wrong_maximum_accepted_remaining_length(l) ==    \* off by one at 130
    IF l = Unlimited THEN Unlimited
    ELSE IF l <= 130 THEN l - 2
    ELSE IF l <= 16386 THEN l - 3
    ELSE IF l <= 2097155 THEN l - 4
    ELSE IF l < MAX_POSSIBLE_PACKET_SIZE THEN l - 5
    ELSE MAX_ENCODABLE

(* The longest body connect lets poll_header accept, given the maximum      *)
(* packet size l >= 2 it announces (it panics on 1)                         *)
maximum_accepted_remaining_length(l) ==
    IF l = Unlimited THEN Unlimited
    ELSE IF l <= 129 THEN l - 2
    ELSE IF l <= 16386 THEN l - 3
    ELSE IF l <= 2097155 THEN l - 4
    ELSE IF l < MAX_POSSIBLE_PACKET_SIZE THEN l - 5
    ELSE MAX_ENCODABLE

(* Bytes written: in all, in a property list, and in that of the will.      *)
Lengths(b, l, w) == [body |-> b, list |-> l, will |-> w]
Nothing == Lengths(0, 0, 0)
a ++ b == Lengths(a.body + b.body, a.list + b.list, a.will + b.will)

Raw(part, n) == Lengths(n, IF part = "list" THEN n ELSE 0, IF part = "will" THEN n ELSE 0)
===============================================================================
