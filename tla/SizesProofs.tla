----------------------------- MODULE SizesProofs -----------------------------
(* Lengths on the wire, for every length that can be encoded.               *)
EXTENDS Sizes, TLAPS

(* VarByteInt: the loop of write takes as many turns as written_len says.   *)
LEMMA VarByteIntLen ==
    ASSUME NEW n \in Nat
    PROVE  Turns(n) = VarLen(n) /\ VarLen(n) \in 1..4
<1>1. n \div 128 = 0 <=> n <= 127
  BY SMT
<1>2. n \div 16384 = 0 <=> n <= 16383
  BY SMT
<1>3. n \div 2097152 = 0 <=> n <= 2097151
  BY SMT
<1> QED
  BY <1>1, <1>2, <1>3, SMT DEF Turns, VarLen

(* connect: a packet is within the maximum packet size l the client has     *)
(* announced exactly if poll_header accepts its remaining length.           *)
THEOREM AcceptedIffWithinLimit ==
    ASSUME NEW l \in Nat, 2 <= l, l <= Unlimited, NEW r \in Nat, r <= MAX_ENCODABLE
    PROVE  r <= maximum_accepted_remaining_length(l) <=> EncodedLen(r) <= l
BY SMT DEF maximum_accepted_remaining_length, EncodedLen, VarLen, Unlimited, MAX_ENCODABLE,
           MAX_POSSIBLE_PACKET_SIZE

(* What a write counts for in the three lengths.                            *)
LEMMA RawParts ==
    ASSUME NEW n
    PROVE  /\ Raw("body", n).body = n /\ Raw("body", n).list = 0 /\ Raw("body", n).will = 0
           /\ Raw("list", n).body = n /\ Raw("list", n).list = n /\ Raw("list", n).will = 0
           /\ Raw("will", n).body = n /\ Raw("will", n).list = 0 /\ Raw("will", n).will = n
BY SMT DEF Raw, Lengths

(* Writes one after the other add up in each of the three lengths.          *)
LEMMA Sum ==
    ASSUME NEW x, NEW y
    PROVE  /\ (x ++ y).body = x.body + y.body
           /\ (x ++ y).list = x.list + y.list
           /\ (x ++ y).will = x.will + y.will
BY SMT DEF ++, Lengths

(* The three lengths are all there is to what was written.                  *)
LEMMA SumIsLengths ==
    ASSUME NEW x, NEW y
    PROVE  (x ++ y) = Lengths((x ++ y).body, (x ++ y).list, (x ++ y).will)
BY SMT DEF ++, Lengths

(* Two writes to the same part of a packet are as good as one.              *)
LEMMA RawPlus ==
    ASSUME NEW part, NEW m \in Nat, NEW n \in Nat
    PROVE  (Raw(part, m) ++ Raw(part, n)) = Raw(part, m + n)
BY SMT DEF Raw, Lengths, ++
===============================================================================
