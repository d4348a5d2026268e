---------------------------- MODULE FrameStream ------------------------------
(***************************************************************************)
(* How an agent cuts a TCP byte stream into frames.  The same loop reads   *)
(* responses in the consumer agent (c_read_from_provide_agents), requests  *)
(* in the provider agent (p_read_connection_data_http_req) and Dubbo's     *)
(* responses (p_on_read_results): a read callback appends what arrived to  *)
(* a fixed buffer, then takes whole frames off its front and moves the     *)
(* rest down until the front frame is incomplete.                          *)
(*                                                                         *)
(* A byte is its position in the stream.  The buffer holds stale bytes     *)
(* left over from an earlier connection, if any, and then the stream's     *)
(* bytes from position front up to got.                                    *)
(***************************************************************************)
EXTENDS Integers, Sequences

CONSTANTS
    HEADER,         \* the length of a frame's header (12, or 16 for Dubbo)
    Capacity,       \* raw_array_max_length
    NumFrames,      \* how many frames the peer sends
    Bound,          \* Bound[k]: where the k-th frame ends, Bound[0] = 0
    Reconnects,     \* "never"; "clean": between two frames only; "any": anywhere
    Garbage         \* the lengths that bytes which are no header may spell

ASSUME SizesAssumption == HEADER \in Nat \ {0} /\ Capacity \in Nat \ {0} /\ NumFrames \in Nat
ASSUME BoundAssumption ==
    /\ Bound \in [0 .. NumFrames -> Nat]
    /\ Bound[0] = 0
    /\ \A j, k \in 0 .. NumFrames : j < k => Bound[j] + HEADER <= Bound[k]
\* No frame is longer than the buffer of its reader.
ASSUME FitAssumption == \A k \in 0 .. NumFrames - 1 : Bound[k + 1] - Bound[k] <= Capacity
ASSUME GarbageAssumption == Reconnects \in {"never", "clean", "any"} /\ Garbage \subseteq Nat

VARIABLES
    size_of_raw_array,      \* raw_buf1_size, raw_buf2_size in the provider agent
    stale, front, got,      \* what the bytes in the buffer are
    busy,                   \* inside the read callback's loop
    out                     \* the frames handed on, 0 for one that was none

vars == <<size_of_raw_array, stale, front, got, busy, out>>

Init ==
    /\ size_of_raw_array = 0 /\ stale = 0 /\ front = 0 /\ got = 0
    /\ busy = FALSE
    /\ out = <<>>

\* The space alloc_buffer_to_agent offers to libuv.
Room == Capacity - size_of_raw_array

\* libuv has read n bytes: the callback is entered.
Read(n) ==
    /\ ~busy
    /\ n \in 1 .. Room
    /\ got + n <= Bound[NumFrames]
    /\ got' = got + n
    /\ size_of_raw_array' = size_of_raw_array + n
    /\ busy' = TRUE
    /\ UNCHANGED <<stale, front, out>>

\* Frame k + 1 is at the front of the buffer.
AtFrame(k) == stale = 0 /\ front = Bound[k]

\* What the length field at the front of the buffer says, and whose it is.
Lengths ==
    {[frame |-> k + 1, body |-> Bound[k + 1] - Bound[k] - HEADER] : k \in {j \in 0 .. NumFrames - 1 : AtFrame(j)}}
    \cup (IF \E k \in 0 .. NumFrames : AtFrame(k) THEN {} ELSE {[frame |-> 0, body |-> g] : g \in Garbage})

\* Removing last_length bytes from the front and moving the rest down.
Shift(last_length) ==
    /\ size_of_raw_array' = size_of_raw_array - last_length
    /\ stale' = IF last_length < stale THEN stale - last_length ELSE 0
    /\ front' = IF last_length < stale THEN front ELSE front + last_length - stale

\* Mutant: the header is forgotten when the rest is moved down.
TakeFrame_KeepsHeader(h) ==
    /\ busy
    /\ size_of_raw_array >= HEADER
    /\ size_of_raw_array >= h.body + HEADER
    /\ out' = Append(out, h.frame)
    /\ Shift(h.body)
    /\ UNCHANGED <<got, busy>>

\* One turn of the loop that finds a whole frame.
TakeFrame(h) ==
    /\ busy
    /\ size_of_raw_array >= HEADER
    /\ size_of_raw_array >= h.body + HEADER
    /\ out' = Append(out, h.frame)
    /\ Shift(h.body + HEADER)
    /\ UNCHANGED <<got, busy>>

\* Mutant: the callback handles one frame and waits for the next read.
Return_AfterOne ==
    /\ busy
    /\ busy' = FALSE
    /\ UNCHANGED <<size_of_raw_array, stale, front, got, out>>

\* The loop's two returns: less than a header, or less than the frame.
Return ==
    /\ busy
    /\ \/ size_of_raw_array < HEADER
       \/ \E h \in Lengths : size_of_raw_array < h.body + HEADER
    /\ busy' = FALSE
    /\ UNCHANGED <<size_of_raw_array, stale, front, got, out>>

\* End of file and reconnection_to_agent: the new connection's stream starts with
\* a later frame, what the old one had not delivered is lost, and
\* size_of_raw_array is not reset.
Reconnect ==
    /\ ~busy
    /\ \/ Reconnects = "clean" /\ size_of_raw_array = 0
       \/ Reconnects = "any"
    /\ \E k \in 0 .. NumFrames - 1 :
         /\ got <= Bound[k]
         /\ stale' = size_of_raw_array
         /\ front' = Bound[k]
         /\ got' = Bound[k]
    /\ UNCHANGED <<size_of_raw_array, busy, out>>

Reading == \E n \in 1 .. Capacity : Read(n)
Parsing == Return \/ \E h \in Lengths : TakeFrame(h)
Next == Reading \/ Parsing \/ Reconnect

Spec == Init /\ [][Next]_vars
FairSpec == Spec /\ WF_vars(Reading) /\ WF_vars(Parsing)
------------------------------------------------------------------------------
\* The reader's variables have their types.
TypeOK ==
    /\ size_of_raw_array \in 0 .. Capacity
    /\ stale \in Nat /\ front \in Nat /\ got \in Nat
    /\ busy \in BOOLEAN
    /\ out \in Seq(0 .. NumFrames)

\* However the stream is cut into reads, the frames are handed on in order, none
\* twice and none that was not sent; if the connection never breaks, none is missing.
FramesInOrder ==
    /\ \A i \in 1 .. Len(out) : out[i] > 0
    /\ \A i, j \in 1 .. Len(out) : i < j => out[i] < out[j]
    /\ Reconnects = "never" => \A i \in 1 .. Len(out) : out[i] = i

\* The buffer always has room for the next read when the callback returns:
\* alloc_buffer_to_agent never offers an empty buffer, which libuv would report
\* as a read error.
RoomToRead == ~busy => Room > 0

\* The buffer starts with frame k + 1, and the frames handed on are older.
FrontIs(k) ==
    /\ front = Bound[k]
    /\ \A i \in 1 .. Len(out) : out[i] <= k
    /\ Reconnects = "never" => Len(out) = k
    /\ ~busy /\ k < NumFrames => size_of_raw_array < Bound[k + 1] - Bound[k]

\* Between two steps the front of the buffer is the front of a frame, and the
\* callback never returns with a whole frame in the buffer.
Aligned ==
    /\ stale = 0
    /\ front <= got /\ got <= Bound[NumFrames]
    /\ size_of_raw_array = got - front
    /\ \E k \in 0 .. NumFrames : FrontIs(k)

\* The peer's last frame is handed on (with FramesInOrder: so is every other one,
\* if the connection never breaks).
LastHandedOn == <>(\E i \in 1 .. Len(out) : out[i] = NumFrames)
==============================================================================
