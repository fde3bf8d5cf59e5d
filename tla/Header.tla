------------------------------- MODULE Header -------------------------------
(***************************************************************************)
(* Reading the fixed header of a packet byte by byte: HeaderState and the  *)
(* loop of Raw::recv_header around it (client/raw/header.rs,               *)
(* client/raw/mod.rs), with the variable byte integer codec.               *)
(*                                                                         *)
(* A poll may be cancelled between any two bytes and started again later,  *)
(* so the bytes read so far live in the client, not in the future.  They   *)
(* also live longer than the connection they came from.                    *)
(*                                                                         *)
(* A byte carries Base values of payload where the code has 128; the top   *)
(* half of the byte range continues a length.  The body of a packet is     *)
(* read by the caller in one go and is not part of the stream.             *)
(***************************************************************************)
EXTENDS Naturals, Sequences

CONSTANTS
    Base,           \* 128 in the code
    Reserved,       \* the first bytes whose packet type is reserved
    MaxUnread,      \* bound: packets under way on a connection
    CutsHeaders     \* may a connection end while a header is half read?

ASSUME BaseAssumption == Base \in Nat \ {0} /\ Reserved \subseteq 0 .. 2 * Base - 1

VARIABLES
    buffer, read,   \* HeaderState
    net,            \* NetState of Raw
    receiving,      \* a recv_header future exists
    open,           \* the transport has not reached its end of file
    stream,         \* bytes the server wrote and the client has not read
    sent,           \* what they encode
    returned        \* answer of the last recv_header, with what was sent for it

headerVars == <<buffer, read, net, receiving, open, stream, sent, returned>>

-----------------------------------------------------------------------------
Bytes == 0 .. 2 * Base - 1

MAX_ENCODABLE == Base * Base * Base * Base - 1

FirstBytes == Bytes \ Reserved

FixedHeader == [type_and_flags : FirstBytes, remaining_len : 0 .. MAX_ENCODABLE]

(* The error MalformedPacket, as a value no header has.                      *)
Malformed == [type_and_flags |-> 2 * Base, remaining_len |-> 0]

(* Writable for VarByteInt: seven bits at a time, least significant first. *)
write_var_byte_int[x \in 0 .. MAX_ENCODABLE] ==
    IF x < Base THEN <<x>>
    ELSE <<(x % Base) + Base>> \o write_var_byte_int[x \div Base]

write_header(h) == <<h.type_and_flags>> \o write_var_byte_int[h.remaining_len]

(* The bytes no packet begins with: a reserved type, or a length that is   *)
(* still continued by its fourth byte.                                     *)
MalformedHeaders ==
    {<<b>> : b \in Reserved}
      \cup {<<b, c, c, c, c>> : b \in FirstBytes, c \in Base .. 2 * Base - 1}

from_slice_unchecked(slice) ==
    LET value[n \in 0 .. Len(slice)] ==
            IF n = 0 THEN 0
            ELSE value[n - 1] + (slice[n] % Base) * Base ^ (n - 1)
    IN  value[Len(slice)]

-----------------------------------------------------------------------------
HeaderInit ==
    /\ buffer = [i \in 0 .. 4 |-> 0]
    /\ read = 0
    /\ net = "Terminated"
    /\ receiving = FALSE
    /\ open = FALSE
    /\ stream = <<>>
    /\ sent = <<>>
    /\ returned = <<Malformed, Malformed>>

(* connect replaces the transport; HeaderState is left as it is. *)
SetNet ==
    /\ net # "Ok"
    /\ net' = "Ok"
    /\ open' = TRUE
    /\ stream' = <<>>
    /\ sent' = <<>>
    /\ UNCHANGED <<buffer, read, receiving, returned>>

Wrong_recv_header ==          \* the bytes read live in the future
    /\ ~receiving
    /\ net = "Ok"
    /\ receiving' = TRUE
    /\ read' = 0
    /\ returned' = <<Malformed, Malformed>>
    /\ UNCHANGED <<buffer, net, open, stream, sent>>

RecvHeader ==
    /\ ~receiving
    /\ net = "Ok"
    /\ receiving' = TRUE
    /\ returned' = <<Malformed, Malformed>>
    /\ UNCHANGED <<buffer, read, net, open, stream, sent>>

(* The caller drops the future while it waits for a byte. *)
Cancel ==
    /\ receiving
    /\ receiving' = FALSE
    /\ UNCHANGED <<buffer, read, net, open, stream, sent, returned>>

Return(answer, state) ==
    /\ receiving' = FALSE
    /\ read' = 0
    /\ net' = state
    /\ sent' = Tail(sent)
    /\ returned' = <<answer, Head(sent)>>

(* Ok(None): the loop of recv_header calls update again. *)
Continue ==
    /\ read' = read + 1
    /\ UNCHANGED <<receiving, net, sent, returned>>

UpdateType(b) ==
    /\ read = 0
    /\ IF b \in Reserved THEN Return(Malformed, "Faulted") ELSE Continue

Wrong_update_length(b) ==      \* a fifth length byte is awaited
    /\ read > 0
    /\ IF b >= Base
       THEN IF read = 5 THEN Return(Malformed, "Faulted") ELSE Continue
       ELSE Return([type_and_flags |-> buffer[0],
                    remaining_len |->
                        from_slice_unchecked([i \in 1 .. read |-> buffer'[i]])], "Ok")

UpdateLength(b) ==
    /\ read > 0
    /\ IF b >= Base
       THEN IF read = 4 THEN Return(Malformed, "Faulted") ELSE Continue
       ELSE Return([type_and_flags |-> buffer[0],
                    remaining_len |->
                        from_slice_unchecked([i \in 1 .. read |-> buffer'[i]])], "Ok")

(* HeaderState::update, once the transport has a byte. *)
Update ==
    /\ receiving
    /\ stream # <<>>
    /\ buffer' = [buffer EXCEPT ![read] = Head(stream)]
    /\ stream' = Tail(stream)
    /\ UpdateType(Head(stream)) \/ UpdateLength(Head(stream))
    /\ UNCHANGED open

(* HeaderState::update at the end of the stream: handle_rx closes the      *)
(* connection, the early return leaves HeaderState as it is.               *)
UpdateEOF ==
    /\ receiving
    /\ stream = <<>>
    /\ ~open
    /\ receiving' = FALSE
    /\ net' = "Terminated"
    /\ UNCHANGED <<buffer, read, open, stream, sent, returned>>

(* disconnect, or any other close_with(None) between two polls. *)
Disconnect ==
    /\ ~receiving
    /\ net = "Ok"
    /\ CutsHeaders \/ read = 0
    /\ net' = "Terminated"
    /\ open' = FALSE
    /\ UNCHANGED <<buffer, read, receiving, stream, sent, returned>>

(* The server writes a packet, or bytes that are none. *)
ServerWrites ==
    /\ open
    /\ Len(sent) < MaxUnread
    /\ \/ \E h \in FixedHeader :
            /\ stream' = stream \o write_header(h)
            /\ sent' = Append(sent, h)
       \/ \E bytes \in MalformedHeaders :
            /\ stream' = stream \o bytes
            /\ sent' = Append(sent, Malformed)
    /\ UNCHANGED <<buffer, read, net, receiving, open, returned>>

(* The connection ends; a suffix of the bytes under way is lost. *)
ConnectionEnds ==
    /\ open
    /\ open' = FALSE
    /\ IF CutsHeaders
       THEN \E n \in 0 .. Len(stream) : stream' = SubSeq(stream, 1, n)
       ELSE UNCHANGED stream
    /\ UNCHANGED <<buffer, read, net, receiving, sent, returned>>

HeaderNext ==
    \/ SetNet \/ RecvHeader \/ Cancel \/ Update \/ UpdateEOF \/ Disconnect
    \/ ServerWrites \/ ConnectionEnds

HeaderSpec == HeaderInit /\ [][HeaderNext]_headerVars

-----------------------------------------------------------------------------
(* Type invariant.  `i` of HeaderState::update never leaves the buffer:    *)
(* read is at most 4 when a byte is awaited.                               *)
HeaderTypeOK ==
    /\ buffer \in [0 .. 4 -> Bytes]
    /\ read \in 0 .. 4
    /\ net \in {"Ok", "Faulted", "Terminated"}
    /\ receiving \in BOOLEAN
    /\ open \in BOOLEAN
    /\ stream \in Seq(Bytes)
    /\ sent \in Seq(FixedHeader \cup {Malformed})

(* recv_header returns exactly the header the server wrote next on this    *)
(* connection, whatever polls were cancelled on the way, and refuses       *)
(* exactly the byte strings that begin no packet.                          *)
HeadersAsSent == returned[1] = returned[2]
=============================================================================
