----------------------------- MODULE HttpReader ------------------------------
(***************************************************************************)
(* One HTTP connection of the consumer agent (consumer_agent.c,            *)
(* c_read_connection_data): requests are collected in the connection's     *)
(* raw_array, and a whole request is sent on from that same array, with    *)
(* the frame's header written over the end of the HTTP header.  uv_write   *)
(* does not copy: the link reads the array when it takes the frame, which  *)
(* may be later.                                                           *)
(*                                                                         *)
(* A byte is a record of the request it belongs to and its place in it; a  *)
(* byte of a frame header is the length the header spells.  lapses records *)
(* what the client, the network or the link has done that the reader does  *)
(* not cope with, and the properties say what holds as long as there is    *)
(* none.  Of the client only this is assumed: a request has at least one   *)
(* header field.  The reader takes the first one for Content-Length        *)
(* (atoi(headers[0].value)), whatever it says.                             *)
(***************************************************************************)
EXTENDS Integers, Sequences

CONSTANTS
    FRAME_HEADER,           \* 12: four bytes length, eight bytes req_id
    raw_array_max_size,
    HeaderLengths,          \* how long the HTTP headers of requests can be
    BodyLengths,
    Misstated,              \* what atoi may make of another first header field
    Stale,                  \* what atoi may make of an uninitialised headers[0]
    UINT_SPAN,              \* 2^32: unsigned int, the length uv_buf_init takes
    MaxRequests             \* bound: requests the client sends

ASSUME ReaderSizes ==
    /\ FRAME_HEADER \in Nat /\ raw_array_max_size \in Nat /\ MaxRequests \in Nat
    /\ HeaderLengths \subseteq Nat /\ BodyLengths \subseteq Nat
    /\ Misstated \subseteq Int /\ Stale \subseteq Int
    /\ UINT_SPAN \in Nat /\ UINT_SPAN > raw_array_max_size
\* The shortest request line leaves room for the frame's header.
ASSUME HeaderAssumption == \A h \in HeaderLengths : h > 0 /\ h >= FRAME_HEADER

VARIABLES
    \* http_req_t
    raw_array, raw_array_size, request_length,
    client,         \* "open", "closing" (uv_close) or "freed" (free_http_req)
    \* the client and its connection
    requests,       \* the requests sent so far: their lengths, and what they say
    wire,           \* bytes sent and not yet read
    gone,           \* the client has closed its end
    answered,       \* how many answers it has received
    \* the link to the provider agent
    linkUp,         \* its handle is not closing
    writes,         \* frames passed to uv_write and not yet taken
    frames,         \* frames taken
    freedRead,      \* one of them was read from a freed array
    running,
    lapses          \* "pipelined", "left", "misstated", "split", "unlinked"

reqVars == <<raw_array, raw_array_size, request_length, client>>
clientVars == <<requests, wire, gone, answered>>
linkVars == <<linkUp, writes, frames, freedRead>>
vars == <<reqVars, clientVars, linkVars, running, lapses>>

Places == 0 .. raw_array_max_size - 1
Byte(k, j) == [req |-> k, pos |-> j]
LengthByte(n) == [req |-> 0, pos |-> n]
Junk == [req |-> 0, pos |-> -1]

\* The bytes of request k, and the frame a provider agent should get for it.
RequestBytes(k, m) == [j \in 1 .. m.header + m.body |-> Byte(k, j)]
FrameOf(k, m) ==
    [j \in 1 .. FRAME_HEADER + m.body |->
        IF j <= FRAME_HEADER THEN LengthByte(m.body) ELSE Byte(k, m.header + j - FRAME_HEADER)]

\* init_http_req_t and uv_read_start (on_new_connection).
Init ==
    /\ raw_array = [i \in Places |-> Junk]
    /\ raw_array_size = 0
    /\ request_length = -1
    /\ client = "open"
    /\ requests = <<>> /\ wire = <<>> /\ gone = FALSE /\ answered = 0
    /\ linkUp = TRUE /\ writes = <<>> /\ frames = <<>> /\ freedRead = FALSE
    /\ running = TRUE
    /\ lapses = {}
------------------------------------------------------------------------------
(* The client *)

\* What else the sending of m is.
LapsesOf(m) ==
    (IF answered < Len(requests) THEN {"pipelined"} ELSE {}) \cup (IF m.says # m.body THEN {"misstated"} ELSE {})

client_sends(m) ==
    /\ running /\ ~gone /\ client = "open"
    /\ Len(requests) < MaxRequests
    /\ requests' = Append(requests, m)
    /\ wire' = wire \o RequestBytes(Len(requests) + 1, m)
    /\ lapses' = lapses \cup LapsesOf(m)
    /\ UNCHANGED <<reqVars, gone, answered, linkVars, running>>

client_leaves ==
    /\ running /\ ~gone
    /\ gone' = TRUE
    /\ lapses' = IF answered < Len(requests) THEN lapses \cup {"left"} ELSE lapses
    /\ UNCHANGED <<reqVars, requests, wire, answered, linkVars, running>>

\* The provider agent answers a frame it has received.
client_is_answered ==
    /\ running
    /\ answered < Len(frames)
    /\ answered' = answered + 1
    /\ UNCHANGED <<reqVars, requests, wire, gone, linkVars, running, lapses>>
------------------------------------------------------------------------------
(* The reader *)

\* alloc_buffer: what is left of the array.
Room == raw_array_max_size - raw_array_size

\* libuv has put the next n bytes behind the ones already there.
Received(n) ==
    [i \in Places |-> IF i \in raw_array_size .. raw_array_size + n - 1
                      THEN wire[i - raw_array_size + 1] ELSE raw_array[i]]

\* phr_parse_request: the header's length if the array starts with a whole one,
\* a negative number if it is incomplete or malformed.
phr_parse_request(buf, size) ==
    IF \E k \in 1 .. Len(requests) :
         /\ requests[k].header <= size
         /\ \A j \in 1 .. requests[k].header : buf[j - 1] = Byte(k, j)
    THEN requests[buf[0].req].header ELSE -1

\* headers[0] is of this call only when the header was parsed in this call.
content_lengths(buf, length) ==
    CASE length < 0 -> {0}
      [] length >= 0 /\ request_length < 0 -> {requests[buf[0].req].says}
      [] request_length >= 0 -> Stale

\* Nothing is done with an incomplete request but keeping it.
Keep(buf, size, length) ==
    /\ raw_array' = buf
    /\ raw_array_size' = size
    /\ request_length' = length
    /\ lapses' = IF length >= 0 THEN lapses \cup {"split"} ELSE lapses
    /\ UNCHANGED writes

\* int_to_four_char and long_to_8bytes write the frame's header over the end of
\* the HTTP header.
WithFrameHeader(buf, length, content_length) ==
    [i \in Places |-> IF i \in length - FRAME_HEADER .. length - 1
                      THEN LengthByte(content_length) ELSE buf[i]]

\* uv_buf_init takes the length as an unsigned int.  uv_write refuses to write to
\* a handle that is closing, and nobody looks at what it returns.
send_to_provider_agent(length, content_length) ==
    \/ /\ linkUp
       /\ writes' = Append(writes, [base |-> length - FRAME_HEADER,
                                    len |-> (FRAME_HEADER + content_length) % UINT_SPAN])
       /\ UNCHANGED lapses
    \/ /\ ~linkUp
       /\ lapses' = lapses \cup {"unlinked"}
       /\ UNCHANGED writes

\* Mutant: the length of the header is kept for the next request.
Send_KeepsLength(buf, length, content_length) ==
    /\ raw_array' = WithFrameHeader(buf, length, content_length)
    /\ send_to_provider_agent(length, content_length)
    /\ raw_array_size' = 0
    /\ request_length' = length

\* Mutant: the bytes of the request that was sent still count.
Send_KeepsSize(buf, length, content_length) ==
    /\ raw_array' = WithFrameHeader(buf, length, content_length)
    /\ send_to_provider_agent(length, content_length)
    /\ raw_array_size' = length + content_length
    /\ request_length' = -1

\* Whatever follows the request in the array is forgotten.
Send(buf, length, content_length) ==
    /\ raw_array' = WithFrameHeader(buf, length, content_length)
    /\ send_to_provider_agent(length, content_length)
    /\ raw_array_size' = 0
    /\ request_length' = -1

\* Mutant: the header is not counted.
Whole_BodyOnly(size, length, content_length) == length >= 0 /\ content_length + length >= 0 /\ size >= content_length

\* raw_array_size is a size_t: compared with it a negative sum is a huge one.
Whole(size, length, content_length) ==
    length >= 0 /\ content_length + length >= 0 /\ size >= content_length + length

\* c_read_connection_data, nread = n > 0.
c_read_connection_data(n) ==
    LET buf == Received(n)
        size == raw_array_size + n
        length == IF request_length < 0 THEN phr_parse_request(buf, size) ELSE request_length
    IN
    /\ running /\ client = "open"
    /\ n \in 1 .. Len(wire) /\ n <= Room
    /\ wire' = SubSeq(wire, n + 1, Len(wire))
    /\ \E content_length \in content_lengths(buf, length) :
         IF Whole(size, length, content_length) THEN Send(buf, length, content_length)
         ELSE Keep(buf, size, length)
    /\ UNCHANGED <<client, requests, gone, answered, linkUp, frames, freedRead, running>>

\* The same callback when headers[0] is uninitialised and its value points nowhere.
c_read_connection_data_wild ==
    /\ running /\ client = "open"
    /\ wire # <<>> /\ Room > 0
    /\ request_length >= 0
    /\ running' = FALSE
    /\ UNCHANGED <<reqVars, clientVars, linkVars, lapses>>

\* Mutant: only the end of the stream closes the connection.
c_read_connection_data_close_EofOnly ==
    /\ running /\ client = "open"
    /\ wire = <<>> /\ gone
    /\ client' = "closing"
    /\ UNCHANGED <<raw_array, raw_array_size, request_length, clientVars, linkVars, running, lapses>>

\* nread < 0: the client has gone, or libuv was offered an empty buffer to read
\* into (UV_ENOBUFS).
c_read_connection_data_close ==
    /\ running /\ client = "open"
    /\ \/ wire = <<>> /\ gone
       \/ wire # <<>> /\ Room = 0
    /\ client' = "closing"
    /\ UNCHANGED <<raw_array, raw_array_size, request_length, clientVars, linkVars, running, lapses>>

\* close_cb, free_http_req.
close_cb ==
    /\ running /\ client = "closing"
    /\ client' = "freed"
    /\ UNCHANGED <<raw_array, raw_array_size, request_length, clientVars, linkVars, running, lapses>>
------------------------------------------------------------------------------
(* The link *)

\* What memory holds at place i now: behind the array, or once it is freed, anything.
Memory(i) == IF client # "freed" /\ i \in Places THEN raw_array[i] ELSE Junk

\* The link takes the oldest frame, as the array holds it now.
\* after_write_to_provider_agent frees the write request only.
link_takes ==
    /\ running
    /\ writes # <<>>
    /\ LET w == Head(writes) IN
         frames' = Append(frames, [j \in 1 .. w.len |-> Memory(w.base + j - 1)])
    /\ freedRead' = (freedRead \/ client = "freed")
    /\ writes' = Tail(writes)
    /\ UNCHANGED <<reqVars, clientVars, linkUp, running, lapses>>

\* The provider agent's end is gone: uv_close gives up the frames not yet taken.
link_lost ==
    /\ running /\ linkUp
    /\ linkUp' = FALSE
    /\ writes' = <<>>
    /\ lapses' = IF writes # <<>> THEN lapses \cup {"unlinked"} ELSE lapses
    /\ UNCHANGED <<reqVars, clientVars, frames, freedRead, running>>

\* make_connection_to_agent_ has opened the handle again; what is written to it is
\* queued until it is connected.
link_renewed ==
    /\ running /\ ~linkUp
    /\ linkUp' = TRUE
    /\ UNCHANGED <<reqVars, clientVars, writes, frames, freedRead, running, lapses>>

\* A request says how long its body is, or has another field in that place.
Messages ==
    {m \in [header : HeaderLengths, body : BodyLengths, says : BodyLengths \cup Misstated] :
        m.says = m.body \/ m.says \in Misstated}
Reading == \E n \in 1 .. raw_array_max_size : c_read_connection_data(n)

Next ==
    \/ \E m \in Messages : client_sends(m)
    \/ client_leaves
    \/ client_is_answered
    \/ Reading
    \/ c_read_connection_data_wild
    \/ c_read_connection_data_close
    \/ close_cb
    \/ link_takes
    \/ link_lost
    \/ link_renewed

Spec == Init /\ [][Next]_vars

\* The loop runs what is due: it reads, closes, and writes to its link.
FairSpec == Spec /\ WF_vars(Reading) /\ WF_vars(c_read_connection_data_close) /\ WF_vars(close_cb) /\ WF_vars(link_takes)
------------------------------------------------------------------------------
\* As long as the client has waited for its answers and said how long its bodies are,
\* every body came with the end of its header and no write was given up, what the
\* link takes are the client's requests: each one whole, with its own length in
\* front, in order, none twice (186-195).
FramesExact ==
    lapses = {} => \A k \in 1 .. Len(frames) : k <= Len(requests) /\ frames[k] = FrameOf(k, requests[k])

\* A frame that lies inside the array.
Inside(w) == w.base >= 0 /\ w.base + w.len <= raw_array_max_size

\* What uv_write is given lies inside the array, whatever the client pipelines and
\* the link does, as long as the lengths are those of the bodies: 12 + content_length
\* of a first header field below -12, or of an uninitialised one, is a frame that
\* reaches far behind the array (173, 190-191, uv_buf_init).
FramesInside == lapses \cap {"misstated", "split"} = {} => \A i \in 1 .. Len(writes) : Inside(writes[i])

\* A body that the array could not hold by itself.
Oversized == \E k \in 1 .. Len(requests) : requests[k].body > raw_array_max_size

\* The array of a connection is not freed while the link has still to read a frame
\* from it, if the client neither pipelines nor leaves before it is answered and says
\* how long its bodies are, even when links break, and when headers[0] was not this
\* call's and the frame went out too early; what is then left of a body closes the
\* connection only if the array cannot hold it (close_cb).
ArrayOutlivesWrites ==
    lapses \subseteq {"split", "unlinked"} /\ (Oversized => "split" \notin lapses) => ~freedRead

\* A request that the array cannot hold.
TooLong(k) == k <= Len(requests) /\ requests[k].header + requests[k].body > raw_array_max_size

\* Clients that wait for their answers and say how long their bodies are, on links
\* that stay: a request whose body comes with the end of its header is passed on, and
\* one that the array cannot hold does not block its connection, however it is
\* cut: it is passed on (cut short by an uninitialised length) or the connection is
\* closed (alloc_buffer, 172, 177).  A request that fits and is split, and one whose
\* uv_write was refused or given up, may leave its client waiting for ever.
PassedOnOrClosed ==
    \A k \in 1 .. MaxRequests :
        (Len(requests) >= k) ~>
            \/ Len(frames) >= k
            \/ client = "freed" /\ TooLong(k)
            \/ "split" \in lapses /\ ~TooLong(k)
            \/ ~(lapses \subseteq {"split"})
            \/ ~running
==============================================================================
