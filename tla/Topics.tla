-------------------------------- MODULE Topics --------------------------------
(* Topic names and topic filters (types/topic.rs), and what MQTT 5 says of  *)
(* them.  A string is the bytes "$share", or not, followed by characters    *)
(* of which only the separator and the wildcards matter.                    *)
EXTENDS Integers, Sequences

Chars == {"/", "+", "#", "a"}
Wildcards == {"+", "#"}
Strings(n) == [share : BOOLEAN, rest : UNION {[1..k -> Chars] : k \in 0..n}]

NumBytes(s) == (IF s.share THEN 6 ELSE 0) + Len(s.rest)

(* TopicName::is_valid                                                      *)
is_valid_name(s) == NumBytes(s) > 0 /\ \A i \in DOMAIN s.rest : s.rest[i] \notin Wildcards

has_wildcard(s) == \E i \in DOMAIN s.rest : s.rest[i] \in Wildcards

Wrong_is_shared(s) == s.share /\ NumBytes(s) > 10      \* the shortest one is 10 bytes long

is_shared(s) == s.share /\ NumBytes(s) >= 10

-----------------------------------------------------------------------------
Wrong_next_byte(r, n, b, i) ==          \* "#" is allowed anywhere in a level of its own
    LET wild == r.wild \/ b \in Wildcards
    IN  CASE b = "/" /\ r.name /\ (r.level = 0 \/ wild \/ i = n) -> [r EXCEPT !.ok = FALSE]
          [] b = "/" -> [ok |-> r.ok, level |-> 0, wild |-> FALSE, name |-> FALSE]
          [] b # "/" /\ wild /\ r.level > 0 -> [r EXCEPT !.ok = FALSE]
          [] OTHER -> [r EXCEPT !.level = @ + 1, !.wild = wild]

(* A turn of the loop of TopicFilter::is_valid on byte b, the i-th of n:    *)
(* the length of the level so far, does it hold a wildcard, and is it the   *)
(* share name?                                                              *)
NextByte(r, n, b, i) ==
    LET wild == r.wild \/ b \in Wildcards
    IN  CASE b = "#" /\ i # n -> [r EXCEPT !.ok = FALSE]
          [] b = "/" /\ r.name /\ (r.level = 0 \/ wild \/ i = n) -> [r EXCEPT !.ok = FALSE]
          [] b = "/" -> [ok |-> r.ok, level |-> 0, wild |-> FALSE, name |-> FALSE]
          [] b # "/" /\ wild /\ r.level > 0 -> [r EXCEPT !.ok = FALSE]
          [] OTHER -> [r EXCEPT !.level = @ + 1, !.wild = wild]

(* TopicFilter::is_valid                                                    *)
is_valid_filter(s) ==
    LET first == IF s.share THEN 2 ELSE 1
        n == Len(s.rest)
        scan[i \in (first - 1)..n] ==
            IF i < first THEN [ok |-> TRUE, level |-> 0, wild |-> FALSE, name |-> s.share]
            ELSE IF scan[i - 1].ok THEN NextByte(scan[i - 1], n, s.rest[i], i) ELSE scan[i - 1]
    IN  /\ NumBytes(s) > 0
        /\ s.share => NumBytes(s) >= 10 /\ s.rest[1] = "/"
        /\ scan[n].ok

-----------------------------------------------------------------------------
(* MQTT 5, 4.7: a wildcard fills its level, and "#" the last one.           *)
WellFormed(rest) ==
    /\ rest # <<>>
    /\ \A i \in DOMAIN rest : rest[i] \in Wildcards =>
         /\ i > 1 => rest[i - 1] = "/"
         /\ i < Len(rest) => rest[i] = "+" /\ rest[i + 1] = "/"

(* MQTT 5, 4.8.2: $share/{ShareName}/{filter}                               *)
WellFormedShared(rest) ==
    \E j \in 3..(Len(rest) - 1) :
      /\ rest[1] = "/" /\ rest[j] = "/"
      /\ \A k \in 2..(j - 1) : rest[k] \notin Wildcards \cup {"/"}
      /\ WellFormed(SubSeq(rest, j + 1, Len(rest)))

(* "$share/" and nothing but a share name of three characters or more       *)
NameOnly(rest) ==
    Len(rest) >= 4 /\ rest[1] = "/" /\ \A k \in 2..Len(rest) : rest[k] = "a"
===============================================================================
