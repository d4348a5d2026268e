--------------------------- MODULE HttpReaderProofs --------------------------
(***************************************************************************)
(* What the reader of one HTTP connection sends on, and from which memory, *)
(* for every size of the array, all lengths of headers and bodies, every   *)
(* cut into reads and any number of requests.                              *)
(***************************************************************************)
EXTENDS HttpReader, SequenceTheorems, TLAPS

\* Bytes of a message, or of a frame's header, where the place is a length.
Bytes == [req : Nat, pos : Int]

\* What uv_write is given begins in the array.
Frames == [base : Nat, len : 0 .. UINT_SPAN - 1]
\* It lies inside the array, or its length was negative as an int: as an unsigned int
\* it makes the frame reach all the way round.
Wrapped(w) == w.base + w.len >= UINT_SPAN
Writes == {w \in Frames : Inside(w) \/ Wrapped(w)}

AllLapses == {"pipelined", "left", "misstated", "split", "unlinked"}

\* The variables of a connection: a read ends within the array, a header that was
\* found lies in it, and a frame given to uv_write is inside it or wrapped.
TypeOK ==
    /\ raw_array \in [Places -> Bytes]
    /\ raw_array_size \in 0 .. raw_array_max_size
    /\ request_length \in HeaderLengths \cup {-1}
    /\ request_length <= raw_array_size
    /\ client \in {"open", "closing", "freed"}
    /\ requests \in Seq(Messages)
    /\ wire \in Seq(Bytes)
    /\ gone \in BOOLEAN
    /\ answered \in Nat
    /\ linkUp \in BOOLEAN
    /\ writes \in Seq(Writes)
    /\ frames \in Seq(Seq(Bytes))
    /\ freedRead \in BOOLEAN
    /\ running \in BOOLEAN
    /\ lapses \subseteq AllLapses

\* Where the length of a frame comes from: lengths are those of the bodies unless a
\* request has misstated one, and a header is parsed in the call that finds it whole
\* unless a body was split from it.
Sound ==
    /\ "misstated" \notin lapses => \A k \in 1 .. Len(requests) : requests[k].says = requests[k].body
    /\ "split" \notin lapses => request_length = -1
    /\ FramesInside

\* The bytes that were sent and are not in a frame: those in the array, then those
\* on the wire.
Unread == raw_array_size + Len(wire)
\* The n-th byte that has not been thrown away: in the array, or still to be read.
At(n) == IF n <= raw_array_size THEN raw_array[n - 1] ELSE wire[n - raw_array_size]

\* The request the client sent last, and how many have been passed on.
Last == requests[Len(requests)]
Passed == Len(frames) + Len(writes)

\* Nothing is unread.
Idle == Unread = 0 /\ request_length = -1

\* The last request is being read, and its predecessors have left the array.
Current ==
    /\ Len(requests) > 0
    /\ Unread = Last.header + Last.body
    /\ \A n \in 1 .. Unread : At(n) = Byte(Len(requests), n)
    /\ writes = <<>>
    /\ Passed < Len(requests)
    /\ request_length >= 0 => request_length = Last.header /\ Last.header <= raw_array_size /\ "split" \in lapses

\* A frame went out too early; what is unread begins in the middle of a request.
Debris ==
    /\ "split" \in lapses
    /\ request_length = -1
    /\ Unread > 0
    /\ At(1).pos # 1
    /\ writes = <<>> \/ Unread <= raw_array_max_size \/ Oversized

\* A frame that is still to be taken is in the array as it should be.
Written ==
    writes # <<>> =>
        LET w == Head(writes) IN
        /\ Len(writes) = 1
        /\ w.len = FRAME_HEADER + Last.body
        /\ \A n \in 1 .. w.len : raw_array[w.base + n - 1] = FrameOf(Len(requests), Last)[n]

\* What holds as long as the client waits for its answers.
Patient ==
    /\ answered <= Len(frames)
    /\ Passed <= Len(requests)
    /\ gone => answered = Len(requests)
    /\ client # "open" => writes = <<>> \/ (Oversized /\ "split" \in lapses)
    /\ freedRead => Oversized /\ "split" \in lapses
    /\ Idle \/ Current \/ Debris

\* ... and every body comes with the end of its header.
Calm ==
    /\ \A k \in 1 .. Len(frames) : frames[k] = FrameOf(k, requests[k])
    /\ Idle => Passed = Len(requests) /\ Written
    /\ Current => Passed = Len(requests) - 1

\* The inductive invariant of the reader.
ReaderInv ==
    /\ TypeOK
    /\ Sound
    /\ lapses \subseteq {"split", "unlinked"} => Patient
    /\ lapses = {} => Calm
------------------------------------------------------------------------------
(* What a read finds *)

\* A function of 1 .. n is a sequence.
LEMMA TupleIsSeq == ASSUME NEW S, NEW n \in Nat, NEW f \in [1 .. n -> S] PROVE f \in Seq(S)
  OBVIOUS

\* The lengths of a message.
LEMMA MessageType ==
    ASSUME NEW m \in Messages
    PROVE  /\ m.header \in Nat /\ m.header > 0 /\ m.header >= FRAME_HEADER /\ m.header \in HeaderLengths
           /\ m.body \in Nat /\ m.says \in Int
  <1>1. m.header \in HeaderLengths /\ m.body \in BodyLengths /\ m.says \in BodyLengths \cup Misstated
    BY DEF Messages
  <1>2. m.header \in Nat /\ m.body \in Nat /\ m.header > 0 /\ m.header >= FRAME_HEADER
    BY <1>1, ReaderSizes, HeaderAssumption
  <1>3. m.says \in Int
    <2>1. CASE m.says \in BodyLengths
      <3>1. m.says \in Nat
        BY <2>1, ReaderSizes
      <3> QED BY <3>1
    <2>2. CASE m.says \in Misstated
      BY <2>2, ReaderSizes
    <2> QED BY <2>1, <2>2, <1>1
  <1> QED BY <1>1, <1>2, <1>3

\* What the client has sent are messages.
LEMMA MessagesOfRequests ==
    ASSUME TypeOK, NEW k \in 1 .. Len(requests) PROVE requests[k] \in Messages
  BY ElementOfSeq DEF TypeOK

\* The length of the header, as a read of n bytes knows it.
HeaderKnown(n) ==
    IF request_length < 0 THEN phr_parse_request(Received(n), raw_array_size + n) ELSE request_length

\* What libuv may read: no more than has come, no more than there is room for.
CanRead(n) == n \in 1 .. Len(wire) /\ n <= Room

\* What has been read lies in the array behind what was there.
LEMMA ReceivedType ==
    ASSUME TypeOK, NEW n, CanRead(n)
    PROVE  Received(n) \in [Places -> Bytes] /\ raw_array_size + n \in 1 .. raw_array_max_size /\ n \in Nat
  <1>0. /\ raw_array_size \in Nat /\ raw_array_max_size \in Nat /\ raw_array_size <= raw_array_max_size
        /\ Len(wire) \in Nat /\ n \in 1 .. Len(wire) /\ n <= raw_array_max_size - raw_array_size
    BY ReaderSizes, LenProperties DEF TypeOK, CanRead, Room
  <1>1. ASSUME NEW i \in Places, i \in raw_array_size .. raw_array_size + n - 1
        PROVE  wire[i - raw_array_size + 1] \in Bytes
    <2>1. i - raw_array_size + 1 \in 1 .. Len(wire)
      BY <1>0, <1>1 DEF Places
    <2> QED BY <2>1, ElementOfSeq DEF TypeOK
  <1>2. \A i \in Places : raw_array[i] \in Bytes
    BY DEF TypeOK
  <1> QED BY <1>0, <1>1, <1>2 DEF Received

\* A header is found only where a request begins, and is that request's.
LEMMA ParseFinds ==
    ASSUME TypeOK, NEW buf, NEW size \in Nat, phr_parse_request(buf, size) # -1
    PROVE  \E k \in 1 .. Len(requests) :
              /\ phr_parse_request(buf, size) = requests[k].header
              /\ requests[k].header <= size
              /\ buf[0] = Byte(k, 1)
  <1>1. PICK k \in 1 .. Len(requests) :
            requests[k].header <= size /\ \A j \in 1 .. requests[k].header : buf[j - 1] = Byte(k, j)
    BY DEF phr_parse_request
  <1>2. requests[k].header \in Nat /\ requests[k].header > 0
    BY MessagesOfRequests, MessageType
  <1>3. buf[1 - 1] = Byte(k, 1)
    BY <1>1, <1>2
  <1>4. buf[0] = Byte(k, 1)
    BY <1>3
  <1>5. buf[0].req = k
    BY <1>4 DEF Byte
  <1> QED BY <1>1, <1>4, <1>5 DEF phr_parse_request

\* A header that was found is one the client can send and lies in the array; its
\* first field, or what stands for it, is any number.
LEMMA HeaderType ==
    ASSUME TypeOK, NEW n, CanRead(n)
    PROVE  /\ HeaderKnown(n) \in HeaderLengths \cup {-1}
           /\ HeaderKnown(n) <= raw_array_size + n
           /\ content_lengths(Received(n), HeaderKnown(n)) \subseteq Int
           /\ request_length < 0 /\ HeaderKnown(n) # -1 =>
                \E k \in 1 .. Len(requests) : content_lengths(Received(n), HeaderKnown(n)) = {requests[k].says}
  <1> DEFINE size == raw_array_size + n
  <1>0. size \in Nat /\ request_length \in Int
    BY ReceivedType, ReaderSizes DEF TypeOK
  <1>1. CASE request_length < 0
    <2>1. HeaderKnown(n) = phr_parse_request(Received(n), size)
      BY <1>1 DEF HeaderKnown
    <2>2. CASE HeaderKnown(n) = -1
      BY <2>2, <1>0, <1>1 DEF content_lengths
    <2>3. CASE HeaderKnown(n) # -1
      <3>1. PICK k \in 1 .. Len(requests) : HeaderKnown(n) = requests[k].header /\ requests[k].header <= size /\ Received(n)[0] = Byte(k, 1)
        BY <2>1, <2>3, <1>0, ParseFinds
      <3>2. requests[k].header \in HeaderLengths /\ requests[k].header \in Nat /\ requests[k].says \in Int
        BY MessagesOfRequests, MessageType
      <3>3. Received(n)[0].req = k
        BY <3>1 DEF Byte
      <3>4. content_lengths(Received(n), HeaderKnown(n)) = {requests[k].says}
        BY <3>1, <3>2, <3>3, <1>0, <1>1 DEF content_lengths
      <3> QED BY <3>1, <3>2, <3>4
    <2> QED BY <2>2, <2>3
  <1>2. CASE ~(request_length < 0)
    <2>1. /\ HeaderKnown(n) = request_length /\ request_length \in HeaderLengths /\ request_length \in Nat
          /\ request_length <= raw_array_size /\ raw_array_size \in Nat /\ n \in Nat
      BY <1>2, ReaderSizes, ReceivedType DEF HeaderKnown, TypeOK
    <2>2. content_lengths(Received(n), HeaderKnown(n)) = Stale
      BY <2>1 DEF content_lengths
    <2> QED BY <1>2, <2>1, <2>2, ReaderSizes
  <1> QED BY <1>1, <1>2

\* Numbers taken as unsigned ints.
LEMMA ModSame == ASSUME NEW N \in Nat, NEW a \in 0 .. N - 1 PROVE a % N = a
  OBVIOUS
LEMMA ModRound == ASSUME NEW N \in Nat, NEW a \in Int, a < 0, a + N >= 0 PROVE a % N = a + N
  OBVIOUS

\* The frame of a request that is whole.
FrameAt(length, content_length) ==
    [base |-> length - FRAME_HEADER, len |-> (FRAME_HEADER + content_length) % UINT_SPAN]

\* A whole request makes a frame inside the array, unless its length is negative.
LEMMA FrameType ==
    ASSUME NEW length \in HeaderLengths, NEW size \in Nat, length <= size, size <= raw_array_max_size,
           NEW content_length \in Int, Whole(size, length, content_length)
    PROVE  /\ FrameAt(length, content_length) \in Writes
           /\ content_length >= 0 =>
                /\ Inside(FrameAt(length, content_length))
                /\ FrameAt(length, content_length).len = FRAME_HEADER + content_length
  <1> DEFINE F == FRAME_HEADER
             U == UINT_SPAN
             a == F + content_length
  <1>1. /\ length \in Nat /\ F \in Nat /\ U \in Nat /\ raw_array_max_size \in Nat
        /\ length >= F /\ U > raw_array_max_size /\ a \in Int
    BY ReaderSizes, HeaderAssumption
  <1>2. length + content_length >= 0 /\ length + content_length <= size
    BY <1>1 DEF Whole
  <1>3. CASE a >= 0
    <2>1. a \in 0 .. U - 1
      BY <1>1, <1>2, <1>3
    <2>2. FrameAt(length, content_length).len = a
      BY <2>1, <1>1, ModSame DEF FrameAt
    <2>3. FrameAt(length, content_length) = [base |-> length - F, len |-> a]
      BY <2>2 DEF FrameAt
    <2>4. length - F \in Nat /\ length - F + a <= raw_array_max_size
      BY <1>1, <1>2
    <2> HIDE DEF a, F, U
    <2>5. Inside([base |-> length - F, len |-> a])
      BY <2>4, <1>1 DEF Inside
    <2>6. [base |-> length - F, len |-> a] \in Writes
      BY <2>1, <2>4, <2>5 DEF Writes, Frames, U
    <2> QED BY <2>2, <2>3, <2>5, <2>6 DEF a, F
  <1>4. CASE a < 0
    <2>1. a + U >= 0 /\ a + U \in 0 .. U - 1 /\ length - F + (a + U) >= U /\ length - F \in Nat
      BY <1>1, <1>2, <1>4
    <2>2. a % U = a + U
      BY <2>1, <1>1, <1>4, ModRound
    <2>3. FrameAt(length, content_length) = [base |-> length - F, len |-> a + U]
      BY <2>2 DEF FrameAt
    <2>4. ~(content_length >= 0)
      BY <1>1, <1>4
    <2> HIDE DEF a, F, U
    <2>5. Wrapped([base |-> length - F, len |-> a + U])
      BY <2>1 DEF Wrapped, U
    <2>6. [base |-> length - F, len |-> a + U] \in Writes
      BY <2>1, <2>5 DEF Writes, Frames, U
    <2> QED BY <2>3, <2>4, <2>6
  <1> QED BY <1>1, <1>3, <1>4
------------------------------------------------------------------------------
(* Types *)

\* One lemma per action: each keeps the types.
LEMMA TypeInit == Init => TypeOK
  <1> SUFFICES ASSUME Init PROVE TypeOK
    OBVIOUS
  <1>1. raw_array \in [Places -> Bytes]
    <2>1. Junk \in Bytes
      BY DEF Bytes, Junk
    <2> QED BY <2>1 DEF Init
  <1>2. /\ requests \in Seq(Messages) /\ wire \in Seq(Bytes)
        /\ writes \in Seq(Writes) /\ frames \in Seq(Seq(Bytes))
    BY EmptySeq DEF Init
  <1>3. raw_array_size \in 0 .. raw_array_max_size /\ request_length \in HeaderLengths \cup {-1} /\ answered \in Nat
        /\ request_length <= raw_array_size
    BY ReaderSizes DEF Init
  <1>4. client \in {"open", "closing", "freed"} /\ lapses \subseteq AllLapses
    BY DEF Init
  <1>5. gone \in BOOLEAN /\ linkUp \in BOOLEAN /\ freedRead \in BOOLEAN /\ running \in BOOLEAN
    BY DEF Init
  <1> QED BY <1>1, <1>2, <1>3, <1>4, <1>5 DEF TypeOK

LEMMA SendsType == ASSUME TypeOK, NEW m \in Messages, client_sends(m) PROVE TypeOK'
  <1>1. RequestBytes(Len(requests) + 1, m) \in Seq(Bytes)
    <2> DEFINE f == RequestBytes(Len(requests) + 1, m)
    <2>1. Len(requests) + 1 \in Nat
      BY LenProperties DEF TypeOK
    <2>2. m.header + m.body \in Nat
      BY MessageType
    <2>3. f \in [1 .. m.header + m.body -> Bytes]
      BY <2>1, <2>2 DEF RequestBytes, Byte, Bytes
    <2> HIDE DEF f
    <2>4. f \in Seq(Bytes)
      BY <2>2, <2>3, TupleIsSeq
    <2> QED BY <2>4 DEF f
  <1>2. wire' \in Seq(Bytes)
    BY <1>1, ConcatProperties DEF client_sends, TypeOK
  <1>3. requests' \in Seq(Messages)
    BY AppendProperties DEF client_sends, TypeOK
  <1>4. lapses' \subseteq AllLapses
    BY DEF client_sends, TypeOK, LapsesOf, AllLapses
  <1> QED BY <1>2, <1>3, <1>4 DEF client_sends, TypeOK, reqVars, linkVars

LEMMA ClientType == ASSUME TypeOK, client_leaves \/ client_is_answered PROVE TypeOK'
  <1>1. CASE client_leaves
    BY <1>1 DEF client_leaves, TypeOK, reqVars, linkVars, AllLapses
  <1>2. CASE client_is_answered
    BY <1>2 DEF client_is_answered, TypeOK, reqVars, linkVars
  <1> QED BY <1>1, <1>2

LEMMA ReadType == ASSUME TypeOK, NEW n, c_read_connection_data(n) PROVE TypeOK'
  <1> DEFINE buf == Received(n)
             size == raw_array_size + n
             length == HeaderKnown(n)
  <1>0. CanRead(n)
    BY DEF c_read_connection_data, CanRead
  <1>1. buf \in [Places -> Bytes] /\ size \in 1 .. raw_array_max_size /\ n \in Nat
    BY <1>0, ReceivedType
  <1>2. length \in HeaderLengths \cup {-1} /\ length <= size /\ content_lengths(buf, length) \subseteq Int
    BY <1>0, HeaderType
  <1>3. PICK content_length \in content_lengths(buf, length) :
            IF Whole(size, length, content_length) THEN Send(buf, length, content_length) ELSE Keep(buf, size, length)
    BY DEF c_read_connection_data, HeaderKnown
  <1>4. wire' \in Seq(Bytes)
    <2>1. \A i \in n + 1 .. Len(wire) : wire[i] \in Bytes
      BY <1>1, ElementOfSeq, LenProperties DEF TypeOK
    <2>2. wire' = SubSeq(wire, n + 1, Len(wire))
      BY DEF c_read_connection_data
    <2>3. n + 1 \in Int /\ Len(wire) \in Int
      BY <1>1, LenProperties DEF TypeOK
    <2> QED BY <2>1, <2>2, <2>3, SubSeqProperties
  <1>5. CASE Whole(size, length, content_length)
    <2>0. length >= 0 /\ content_length \in Int
      BY <1>2, <1>5 DEF Whole
    <2>1. length \in HeaderLengths /\ size \in Nat /\ length <= size /\ size <= raw_array_max_size
      <3> HIDE DEF length
      <3> QED BY <1>1, <1>2, <2>0, ReaderSizes
    <2>2. Send(buf, length, content_length)
      BY <1>3, <1>5
    <2>3. raw_array' \in [Places -> Bytes]
      <3>1. LengthByte(content_length) \in Bytes
        BY <2>0 DEF LengthByte, Bytes
      <3>2. WithFrameHeader(buf, length, content_length) \in [Places -> Bytes]
        <4> HIDE DEF buf, length
        <4> QED BY <3>1, <1>1 DEF WithFrameHeader
      <3> QED BY <3>2, <2>2 DEF Send
    <2>4. FrameAt(length, content_length) \in Writes
      <3> HIDE DEF length, size
      <3> QED BY <2>0, <2>1, <1>5, FrameType
    <2>5. writes' \in Seq(Writes) /\ lapses' \subseteq AllLapses
      <3> DEFINE w == FrameAt(length, content_length)
      <3>1. \/ writes' = Append(writes, w) /\ lapses' = lapses
            \/ writes' = writes /\ lapses' = lapses \cup {"unlinked"}
        BY <2>2 DEF Send, send_to_provider_agent, FrameAt
      <3>2. writes \in Seq(Writes) /\ lapses \subseteq AllLapses
        BY DEF TypeOK
      <3> HIDE DEF w
      <3>3. Append(writes, w) \in Seq(Writes)
        BY <2>4, <3>2, AppendProperties DEF w
      <3> QED BY <3>1, <3>2, <3>3 DEF AllLapses
    <2> QED BY <2>2, <2>3, <2>5, <1>4, ReaderSizes DEF Send, c_read_connection_data, TypeOK
  <1>6. CASE ~Whole(size, length, content_length)
    <2>1. Keep(buf, size, length)
      BY <1>3, <1>6
    <2> HIDE DEF buf, length
    <2> QED BY <2>1, <1>1, <1>2, <1>4, ReaderSizes DEF Keep, c_read_connection_data, TypeOK, AllLapses
  <1> QED BY <1>5, <1>6

LEMMA CloseType ==
    ASSUME TypeOK, c_read_connection_data_wild \/ c_read_connection_data_close \/ close_cb PROVE TypeOK'
  BY DEF c_read_connection_data_wild, c_read_connection_data_close, close_cb, TypeOK, reqVars, clientVars, linkVars

LEMMA TakesType == ASSUME TypeOK, link_takes PROVE TypeOK'
  <1> DEFINE w == Head(writes)
             frame == [j \in 1 .. w.len |-> Memory(w.base + j - 1)]
  <1>1. w \in Writes /\ Tail(writes) \in Seq(Writes)
    BY HeadTailProperties DEF link_takes, TypeOK
  <1>2. w.len \in Nat
    BY <1>1, ReaderSizes DEF Writes, Frames
  <1>5. frame \in Seq(Bytes)
    <2>1. \A i : Memory(i) \in Bytes
      BY DEF TypeOK, Memory, Junk, Bytes
    <2>2. frame \in [1 .. w.len -> Bytes]
      BY <2>1
    <2> HIDE DEF frame, w
    <2> QED BY <2>2, <1>2, TupleIsSeq
  <1>6. frames' \in Seq(Seq(Bytes))
    <2>1. frames' = Append(frames, frame)
      BY DEF link_takes
    <2> QED BY <2>1, <1>5, AppendProperties DEF TypeOK
  <1> QED BY <1>1, <1>6 DEF link_takes, TypeOK, reqVars, clientVars

LEMMA LinkType == ASSUME TypeOK, link_lost \/ link_renewed PROVE TypeOK'
  <1>1. CASE link_lost
    BY <1>1, EmptySeq DEF link_lost, TypeOK, reqVars, clientVars, AllLapses
  <1>2. CASE link_renewed
    BY <1>2 DEF link_renewed, TypeOK, reqVars, clientVars
  <1> QED BY <1>1, <1>2

\* Every step keeps the types.
LEMMA TypeStep == TypeOK /\ [Next]_vars => TypeOK'
  <1> SUFFICES ASSUME TypeOK, [Next]_vars PROVE TypeOK'
    OBVIOUS
  <1>1. CASE UNCHANGED vars
    BY <1>1 DEF TypeOK, vars, reqVars, clientVars, linkVars
  <1>2. CASE Next
    BY <1>2, SendsType, ClientType, ReadType, CloseType, TakesType, LinkType DEF Next, Reading
  <1> QED BY <1>1, <1>2

\* Whatever clients, the network and the link do, a read ends within the array, a
\* header that was found lies in it, and what uv_write is given lies inside it too
\* unless 12 + content_length was negative: then, taken as an unsigned int, it is
\* a frame that goes on far behind the array.
THEOREM ReaderTypeCorrect == Spec => []TypeOK
  BY TypeInit, TypeStep, PTL DEF Spec
------------------------------------------------------------------------------
(* Where lengths come from *)

LEMMA SoundInit == Init => Sound
  <1> SUFFICES ASSUME Init PROVE Sound
    OBVIOUS
  <1>1. Len(requests) = 0 /\ Len(writes) = 0 /\ request_length = -1
    BY EmptySeq DEF Init
  <1> QED BY <1>1 DEF Sound, FramesInside

LEMMA SoundSends == ASSUME TypeOK, Sound, NEW m \in Messages, client_sends(m) PROVE Sound'
  <1>1. /\ lapses \subseteq lapses' /\ ("misstated" \notin lapses' => m.says = m.body)
        /\ request_length' = request_length /\ writes' = writes
    BY DEF client_sends, LapsesOf, reqVars, linkVars
  <1>2. /\ Len(requests') = Len(requests) + 1 /\ Len(requests) \in Nat
        /\ requests'[Len(requests) + 1] = m
        /\ \A k \in 1 .. Len(requests) : requests'[k] = requests[k]
    BY AppendProperties, LenProperties DEF client_sends, TypeOK
  <1>3. ASSUME "misstated" \notin lapses', NEW k \in 1 .. Len(requests')
        PROVE  requests'[k].says = requests'[k].body
    <2>1. CASE k \in 1 .. Len(requests)
      BY <2>1, <1>1, <1>2, <1>3 DEF Sound
    <2>2. CASE k = Len(requests) + 1
      BY <2>2, <1>1, <1>2, <1>3
    <2> QED BY <2>1, <2>2, <1>2
  <1> QED BY <1>1, <1>3 DEF Sound, FramesInside, Inside

LEMMA SoundRead == ASSUME TypeOK, Sound, NEW n, c_read_connection_data(n) PROVE Sound'
  <1> DEFINE buf == Received(n)
             size == raw_array_size + n
             length == HeaderKnown(n)
  <1>0. CanRead(n)
    BY DEF c_read_connection_data, CanRead
  <1>1. size \in Nat /\ size <= raw_array_max_size
    BY <1>0, ReceivedType, ReaderSizes
  <1>2. length \in HeaderLengths \cup {-1} /\ length <= size /\ content_lengths(buf, length) \subseteq Int
    BY <1>0, HeaderType
  <1>3. PICK content_length \in content_lengths(buf, length) :
            IF Whole(size, length, content_length) THEN Send(buf, length, content_length) ELSE Keep(buf, size, length)
    BY DEF c_read_connection_data, HeaderKnown
  <1>4. requests' = requests
    BY DEF c_read_connection_data
  <1>5. CASE Whole(size, length, content_length)
    <2>1. Send(buf, length, content_length)
      BY <1>3, <1>5
    <2>2. lapses \subseteq lapses' /\ request_length' = -1
      BY <2>1 DEF Send, send_to_provider_agent
    <2>3. ASSUME lapses' \cap {"misstated", "split"} = {}, NEW i \in 1 .. Len(writes') PROVE Inside(writes'[i])
      <3>1. lapses \cap {"misstated", "split"} = {} /\ request_length = -1
        BY <2>2, <2>3 DEF Sound
      <3>2. length \in HeaderLengths /\ length # -1
        <4> HIDE DEF length
        <4> QED BY <1>2, <1>5 DEF Whole
      <3>3. PICK k \in 1 .. Len(requests) : content_length = requests[k].says
        BY <3>1, <3>2, <1>0, HeaderType
      <3>4. content_length \in Nat
        BY <3>1, <3>3, MessagesOfRequests, MessageType DEF Sound
      <3>5. Inside(FrameAt(length, content_length))
        <4> HIDE DEF length, size
        <4> QED BY <3>2, <3>4, <1>1, <1>2, <1>5, FrameType
      <3>6. CASE writes' = writes
        BY <3>1, <3>6, <2>3 DEF Sound, FramesInside, Inside
      <3>7. CASE writes' = Append(writes, FrameAt(length, content_length))
        <4>1. writes \in Seq(Writes) /\ Len(writes) \in Nat
          BY LenProperties DEF TypeOK
        <4>2. FrameAt(length, content_length) \in Writes
          <5> HIDE DEF length, size
          <5> QED BY <3>2, <3>4, <1>1, <1>2, <1>5, FrameType
        <4> HIDE DEF length
        <4>3. /\ Len(writes') = Len(writes) + 1
              /\ writes'[Len(writes) + 1] = FrameAt(length, content_length)
              /\ \A j \in 1 .. Len(writes) : writes'[j] = writes[j]
          BY <3>7, <4>1, <4>2, AppendProperties
        <4>4. CASE i = Len(writes) + 1
          BY <4>3, <4>4, <3>5 DEF Inside
        <4>5. CASE i \in 1 .. Len(writes)
          BY <4>3, <4>5, <3>1 DEF Sound, FramesInside, Inside
        <4> QED BY <4>1, <4>3, <4>4, <4>5
      <3> QED BY <3>6, <3>7, <2>1 DEF Send, send_to_provider_agent, FrameAt
    <2> QED BY <2>2, <2>3, <1>4 DEF Sound, FramesInside
  <1>6. CASE ~Whole(size, length, content_length)
    <2>1. Keep(buf, size, length)
      BY <1>3, <1>6
    <2>2. lapses \subseteq lapses' /\ request_length' = length /\ ("split" \notin lapses' => ~(length >= 0)) /\ writes' = writes
      BY <2>1 DEF Keep
    <2>3. "split" \notin lapses' => length = -1
      <3> HIDE DEF length
      <3> QED BY <2>2, <1>2, ReaderSizes
    <2> QED BY <2>2, <2>3, <1>4 DEF Sound, FramesInside, Inside
  <1> QED BY <1>5, <1>6

\* Steps that touch neither requests nor the header.
LEMMA SoundRest ==
    ASSUME TypeOK, Sound,
           \/ client_leaves \/ client_is_answered \/ c_read_connection_data_wild
           \/ c_read_connection_data_close \/ close_cb \/ link_takes \/ link_lost \/ link_renewed
    PROVE  Sound'
  <1>1. lapses \subseteq lapses' /\ requests' = requests /\ request_length' = request_length
    BY DEF client_leaves, client_is_answered, c_read_connection_data_wild, c_read_connection_data_close, close_cb,
           link_takes, link_lost, link_renewed, reqVars, clientVars
  <1>2. CASE link_takes
    <2>1. /\ Len(writes') = Len(writes) - 1 /\ Len(writes) \in Nat
          /\ \A i \in 1 .. Len(writes') : writes'[i] = writes[i + 1]
      BY <1>2, HeadTailProperties, LenProperties DEF link_takes, TypeOK
    <2>2. \A i \in 1 .. Len(writes') : i + 1 \in 1 .. Len(writes)
      BY <2>1
    <2> QED BY <1>1, <2>1, <2>2 DEF Sound, FramesInside, Inside
  <1>3. CASE link_lost
    <2>1. Len(writes') = 0
      BY <1>3, EmptySeq DEF link_lost
    <2> QED BY <1>1, <2>1 DEF Sound, FramesInside
  <1>4. CASE ~link_takes /\ ~link_lost
    <2>1. writes' = writes
      BY <1>4 DEF client_leaves, client_is_answered, c_read_connection_data_wild, c_read_connection_data_close, close_cb,
                  link_renewed, linkVars
    <2> QED BY <1>1, <2>1 DEF Sound, FramesInside, Inside
  <1> QED BY <1>2, <1>3, <1>4

LEMMA SoundStep == TypeOK /\ Sound /\ [Next]_vars => Sound'
  <1> SUFFICES ASSUME TypeOK, Sound, [Next]_vars PROVE Sound'
    OBVIOUS
  <1>1. CASE UNCHANGED vars
    BY <1>1 DEF Sound, FramesInside, Inside, vars, reqVars, clientVars, linkVars
  <1>2. CASE Next
    BY <1>2, SoundSends, SoundRead, SoundRest DEF Next, Reading
  <1> QED BY <1>1, <1>2

\* A client that says how long its bodies are gets no frame that leaves the array,
\* however it pipelines, leaves, or finds its link broken, as long as no read ends
\* between a header and the end of its body.
THEOREM FramesStayInside == Spec => []FramesInside
  <1>1. Init => TypeOK /\ Sound
    BY TypeInit, SoundInit
  <1>2. (TypeOK /\ Sound) /\ [Next]_vars => (TypeOK /\ Sound)'
    BY TypeStep, SoundStep
  <1>3. TypeOK /\ Sound => FramesInside
    BY DEF Sound
  <1> QED BY <1>1, <1>2, <1>3, PTL DEF Spec
------------------------------------------------------------------------------
(* The phases of a connection *)

\* ReaderInv without the types and lengths.
Kept ==
    /\ lapses \subseteq {"split", "unlinked"} => Patient
    /\ lapses = {} => Calm

\* The numbers in TypeOK.
LEMMA Sizes ==
    ASSUME TypeOK
    PROVE  /\ Len(requests) \in Nat /\ Len(wire) \in Nat /\ Len(writes) \in Nat /\ Len(frames) \in Nat
           /\ raw_array_size \in Nat /\ request_length \in Int /\ answered \in Nat
           /\ raw_array_max_size \in Nat /\ FRAME_HEADER \in Nat
           /\ Len(wire) = 0 <=> wire = <<>>
           /\ Len(writes) = 0 <=> writes = <<>>
  <1>1. /\ requests \in Seq(Messages) /\ wire \in Seq(Bytes) /\ writes \in Seq(Writes) /\ frames \in Seq(Seq(Bytes))
    BY DEF TypeOK
  <1>2. /\ Len(requests) \in Nat /\ Len(wire) \in Nat /\ Len(writes) \in Nat /\ Len(frames) \in Nat
    BY <1>1, LenProperties
  <1>3. (Len(wire) = 0 <=> wire = <<>>) /\ (Len(writes) = 0 <=> writes = <<>>)
    BY <1>1, EmptySeq
  <1>4. raw_array_size \in Nat /\ request_length \in Int /\ answered \in Nat /\ raw_array_max_size \in Nat /\ FRAME_HEADER \in Nat
    BY ReaderSizes DEF TypeOK
  <1> QED BY <1>2, <1>3, <1>4

\* A new connection has nothing to keep.
LEMMA KeptInit == Init => Kept
  <1> SUFFICES ASSUME Init PROVE Kept
    OBVIOUS
  <1>0. TypeOK
    BY TypeInit
  <1>1. Len(requests) = 0 /\ Len(wire) = 0 /\ Len(writes) = 0 /\ Len(frames) = 0
    BY EmptySeq DEF Init
  <1>2. Idle
    BY <1>1 DEF Init, Idle, Unread
  <1>3. Patient
    BY <1>1, <1>2 DEF Init, Patient, Passed
  <1>4. ~Current /\ Passed = Len(requests)
    BY <1>1 DEF Current, Passed
  <1>5. Written
    BY DEF Init, Written
  <1>6. \A k \in 1 .. Len(frames) : frames[k] = FrameOf(k, requests[k])
    BY <1>1
  <1> QED BY <1>3, <1>4, <1>5, <1>6 DEF Kept, Calm

\* A client that sends while it is owed an answer is a lapse; one that is not owed
\* any finds an empty array.
LEMMA SendsKept == ASSUME TypeOK, Kept, NEW m \in Messages, client_sends(m) PROVE Kept'
  <1> SUFFICES ASSUME lapses' \subseteq {"split", "unlinked"} PROVE Patient' /\ (lapses' = {} => Calm')
    BY DEF Kept
  <1> DEFINE K == Len(requests)
  <1>a. TypeOK' /\ m.header \in Nat /\ m.header > 0 /\ m.body \in Nat
    BY SendsType, MessageType
  <1>1. lapses' = lapses /\ answered >= K /\ Patient
    <2>1. lapses \subseteq {"split", "unlinked"} /\ "pipelined" \notin lapses' /\ "misstated" \notin lapses'
      BY DEF client_sends
    <2>2. ~(answered < Len(requests)) /\ m.says = m.body
      BY <2>1 DEF client_sends, LapsesOf
    <2> QED BY <2>1, <2>2, Sizes DEF client_sends, LapsesOf, Kept
  <1>2. /\ Len(requests') = K + 1
        /\ requests'[K + 1] = m
        /\ \A k \in 1 .. K : requests'[k] = requests[k]
    BY AppendProperties DEF client_sends, TypeOK
  <1>3. /\ UNCHANGED <<raw_array, raw_array_size, request_length, client, gone, answered, writes, frames, freedRead>>
        /\ ~gone /\ client = "open"
    BY DEF client_sends, reqVars, linkVars
  <1>4. Passed = K /\ writes = <<>> /\ Len(writes) = 0 /\ Len(frames) = K /\ answered = K
    BY <1>1, Sizes DEF Patient, Passed
  <1>5. Oversized => Oversized'
    BY <1>2, Sizes DEF Oversized
  <1>6. /\ Len(wire') = Len(wire) + m.header + m.body
        /\ \A i \in 1 .. Len(wire) : wire'[i] = wire[i]
        /\ \A i \in 1 .. m.header + m.body : wire'[Len(wire) + i] = Byte(K + 1, i)
    <2> DEFINE f == RequestBytes(K + 1, m)
    <2>1. m.header + m.body \in Nat /\ K + 1 \in Nat
      BY <1>a, Sizes
    <2>2. /\ f \in [1 .. m.header + m.body -> Bytes]
          /\ \A i \in 1 .. m.header + m.body : f[i] = Byte(K + 1, i)
      BY <2>1 DEF RequestBytes, Byte, Bytes
    <2>3. wire' = wire \o f
      BY DEF client_sends
    <2> HIDE DEF f
    <2>4. f \in Seq(Bytes) /\ Len(f) = m.header + m.body
      BY <2>1, <2>2, TupleIsSeq
    <2>5. wire \in Seq(Bytes) /\ Len(wire) \in Nat
      BY Sizes DEF TypeOK
    <2>6. /\ Len(wire \o f) = Len(wire) + Len(f)
          /\ \A i \in 1 .. Len(wire) + Len(f) : (wire \o f)[i] = IF i <= Len(wire) THEN wire[i] ELSE f[i - Len(wire)]
      BY <2>4, <2>5, ConcatProperties
    <2>7. Len(wire') = Len(wire) + m.header + m.body
      BY <2>3, <2>4, <2>6, <2>5, <1>a
    <2>8. ASSUME NEW i \in 1 .. Len(wire) PROVE wire'[i] = wire[i]
      BY <2>3, <2>6, <2>5, <2>1, <2>4
    <2>9. ASSUME NEW i \in 1 .. m.header + m.body PROVE wire'[Len(wire) + i] = Byte(K + 1, i)
      <3>1. Len(wire) + i \in 1 .. Len(wire) + Len(f) /\ ~(Len(wire) + i <= Len(wire)) /\ Len(wire) + i - Len(wire) = i
        BY <2>4, <2>5, <2>1
      <3> QED BY <3>1, <2>3, <2>6, <2>2
    <2> QED BY <2>7, <2>8, <2>9
  <1>7. Unread' = Unread + m.header + m.body /\ Unread' > 0 /\ Unread \in Nat
    <2>1. Len(wire') = Len(wire) + m.header + m.body /\ raw_array_size' = raw_array_size
      BY <1>3, <1>6
    <2>2. raw_array_size \in Nat /\ Len(wire) \in Nat
      BY Sizes
    <2> QED BY <2>1, <2>2, <1>a DEF Unread
  <1>8. CASE Idle
    <2>1. raw_array_size = 0 /\ Len(wire) = 0 /\ request_length = -1
      BY <1>8, Sizes DEF Idle, Unread
    <2>2. \A n \in 1 .. Unread' : At(n)' = Byte(K + 1, n)
      <3> SUFFICES ASSUME NEW n \in 1 .. Unread' PROVE At(n)' = Byte(K + 1, n)
        OBVIOUS
      <3>1. n \in 1 .. m.header + m.body
        <4>1. Unread = 0
          BY <1>8 DEF Idle
        <4> QED BY <4>1, <1>7, <1>a
      <3>2. At(n)' = wire'[n]
        BY <3>1, <2>1, <1>3, <1>a DEF At
      <3>3. wire'[0 + n] = Byte(K + 1, n)
        BY <3>1, <1>6, <2>1
      <3> QED BY <3>1, <3>2, <3>3, <1>a
    <2>3. Current'
      <3>1. Last' = m /\ Passed' = K
        BY <1>2, <1>3, <1>4 DEF Last, Passed
      <3>2. Unread' = m.header + m.body
        BY <1>7, <1>8, <1>a DEF Idle
      <3>3. K \in Nat
        BY Sizes
      <3>4. request_length' = -1 /\ writes' = <<>>
        BY <2>1, <1>3, <1>4
      <3> QED BY <3>1, <3>2, <3>3, <3>4, <2>2, <1>2 DEF Current
    <2>4. Patient'
      BY <2>3, <1>1, <1>2, <1>3, <1>4, <1>5, Sizes DEF Patient, Passed
    <2>5. ASSUME lapses' = {} PROVE Calm'
      <3>1. \A k \in 1 .. Len(frames) : frames[k] = FrameOf(k, requests[k])
        BY <2>5, <1>1 DEF Kept, Calm
      <3>2. \A k \in 1 .. Len(frames') : frames'[k] = FrameOf(k, requests'[k])
        BY <3>1, <1>2, <1>3, <1>4, Sizes
      <3>3. ~Idle'
        BY <1>7 DEF Idle
      <3>4. Passed' = Len(requests') - 1
        BY <1>2, <1>3, <1>4, Sizes DEF Passed
      <3> QED BY <3>2, <3>3, <3>4 DEF Calm
    <2> QED BY <2>4, <2>5
  <1>9. CASE Current
    BY <1>9, <1>4, Sizes DEF Current
  <1>10. CASE Debris
    <2>1. Unread > 0
      BY <1>10 DEF Debris
    <2>2. At(1)' = At(1)
      <3>1. CASE 1 <= raw_array_size
        BY <3>1, <1>3 DEF At
      <3>2. CASE ~(1 <= raw_array_size)
        <4>1. 1 - raw_array_size = 1 /\ 1 \in 1 .. Len(wire)
          BY <3>2, <2>1, Sizes DEF Unread
        <4> QED BY <3>2, <4>1, <1>3, <1>6 DEF At
      <3> QED BY <3>1, <3>2
    <2>3. Debris'
      BY <1>10, <2>2, <1>1, <1>3, <1>4, <1>7 DEF Debris
    <2>4. Patient'
      BY <2>3, <1>1, <1>2, <1>3, <1>4, <1>5, Sizes DEF Patient, Passed
    <2> QED BY <2>4, <1>1, <1>10 DEF Debris
  <1> QED BY <1>1, <1>8, <1>9, <1>10 DEF Patient

\* A client that leaves while it is owed an answer is a lapse.
LEMMA LeavesKept == ASSUME TypeOK, Kept, client_leaves PROVE Kept'
  <1> SUFFICES ASSUME lapses' \subseteq {"split", "unlinked"} PROVE Patient' /\ (lapses' = {} => Calm')
    BY DEF Kept
  <1>1. lapses' = lapses /\ answered >= Len(requests) /\ Patient /\ (lapses = {} => Calm)
    BY Sizes DEF client_leaves, Kept
  <1>2. UNCHANGED <<raw_array, raw_array_size, request_length, client, requests, wire, answered, writes, frames, freedRead>>
    BY DEF client_leaves, reqVars, linkVars
  <1>3. answered = Len(requests)
    BY <1>1, Sizes DEF Patient, Passed
  <1>4. Idle' = Idle /\ Current' = Current /\ Debris' = Debris /\ Oversized' = Oversized /\ Passed' = Passed /\ Written' = Written
    BY <1>1, <1>2 DEF Idle, Current, Debris, Oversized, Passed, Unread, At, Last, Written, FrameOf
  <1>5. Patient'
    BY <1>1, <1>2, <1>3, <1>4 DEF Patient
  <1>6. ASSUME lapses' = {} PROVE Calm'
    BY <1>1, <1>2, <1>4, <1>6 DEF Calm
  <1> QED BY <1>5, <1>6

\* An answer changes nothing of the connection.
LEMMA AnsweredKept == ASSUME TypeOK, Kept, client_is_answered PROVE Kept'
  <1> SUFFICES ASSUME lapses' \subseteq {"split", "unlinked"} PROVE Patient' /\ (lapses' = {} => Calm')
    BY DEF Kept
  <1>1. lapses' = lapses /\ Patient /\ (lapses = {} => Calm) /\ answered < Len(frames) /\ answered' = answered + 1
    BY DEF client_is_answered, Kept
  <1>2. UNCHANGED <<raw_array, raw_array_size, request_length, client, requests, wire, gone, writes, frames, freedRead>>
    BY DEF client_is_answered, reqVars, linkVars
  <1>3. ~gone /\ answered' <= Len(frames)
    BY <1>1, Sizes DEF Patient, Passed
  <1>4. Idle' = Idle /\ Current' = Current /\ Debris' = Debris /\ Oversized' = Oversized /\ Passed' = Passed /\ Written' = Written
    BY <1>1, <1>2 DEF Idle, Current, Debris, Oversized, Passed, Unread, At, Last, Written, FrameOf
  <1>5. Patient'
    BY <1>1, <1>2, <1>3, <1>4 DEF Patient
  <1>6. ASSUME lapses' = {} PROVE Calm'
    BY <1>1, <1>2, <1>4, <1>6 DEF Calm
  <1> QED BY <1>5, <1>6

\* close_cb frees the array.
LEMMA CloseKept ==
    ASSUME TypeOK, Kept, c_read_connection_data_wild \/ c_read_connection_data_close \/ close_cb
    PROVE  Kept'
  <1> SUFFICES ASSUME lapses' \subseteq {"split", "unlinked"} PROVE Patient' /\ (lapses' = {} => Calm')
    BY DEF Kept
  <1>1. UNCHANGED <<raw_array, raw_array_size, request_length, requests, wire, gone, answered, writes, frames, freedRead, lapses>>
    BY DEF c_read_connection_data_wild, c_read_connection_data_close, close_cb, reqVars, clientVars, linkVars
  <1>2. Patient /\ (lapses = {} => Calm)
    BY <1>1 DEF Kept
  <1>3. Idle' = Idle /\ Current' = Current /\ Debris' = Debris /\ Oversized' = Oversized /\ Passed' = Passed /\ Written' = Written
    BY <1>1 DEF Idle, Current, Debris, Oversized, Passed, Unread, At, Last, Written, FrameOf
  <1>4. client' # "open" => writes = <<>> \/ (Oversized /\ "split" \in lapses)
    <2>1. CASE c_read_connection_data_wild
      BY <2>1, <1>2 DEF c_read_connection_data_wild, Patient, reqVars
    <2>2. CASE close_cb
      BY <2>2, <1>2 DEF close_cb, Patient
    <2>3. CASE c_read_connection_data_close /\ gone
      BY <2>3, <1>2, Sizes DEF Patient, Passed
    <2>4. CASE c_read_connection_data_close /\ wire # <<>> /\ Room = 0
      <3>1. Unread > raw_array_max_size
        BY <2>4, Sizes DEF Room, Unread
      <3>2. ~Idle
        BY <3>1, Sizes DEF Idle
      <3>3. Current => writes = <<>>
        BY DEF Current
      <3>4. Debris => writes = <<>> \/ (Oversized /\ "split" \in lapses)
        BY <3>1, Sizes DEF Debris, Unread
      <3> QED BY <3>2, <3>3, <3>4, <1>2 DEF Patient
    <2> QED BY <2>1, <2>2, <2>3, <2>4 DEF c_read_connection_data_close
  <1>5. Patient'
    BY <1>1, <1>2, <1>3, <1>4 DEF Patient
  <1>6. ASSUME lapses' = {} PROVE Calm'
    BY <1>1, <1>2, <1>3, <1>6 DEF Calm
  <1> QED BY <1>5, <1>6

\* The link takes the first frame as the array then holds it.
LEMMA TakesKept == ASSUME TypeOK, Sound, Kept, link_takes PROVE Kept'
  <1> SUFFICES ASSUME lapses' \subseteq {"split", "unlinked"} PROVE Patient' /\ (lapses' = {} => Calm')
    BY DEF Kept
  <1> DEFINE w == Head(writes)
             frame == [j \in 1 .. w.len |-> Memory(w.base + j - 1)]
  <1>1. UNCHANGED <<raw_array, raw_array_size, request_length, client, requests, wire, gone, answered, lapses>>
    BY DEF link_takes, reqVars, clientVars
  <1>2. Patient /\ (lapses = {} => Calm)
    BY <1>1 DEF Kept
  <1>3. writes # <<>> /\ frames' = Append(frames, frame) /\ writes' = Tail(writes) /\ freedRead' = (freedRead \/ client = "freed")
    BY DEF link_takes
  <1>4. frames' \in Seq(Seq(Bytes)) /\ frame \in Seq(Bytes)
    <2>1. TypeOK'
      BY TakesType
    <2>2. w \in Writes
      BY <1>3, HeadTailProperties DEF TypeOK
    <2>3. w.len \in Nat
      BY <2>2, ReaderSizes DEF Writes, Frames
    <2>4. \A i : Memory(i) \in Bytes
      BY DEF TypeOK, Memory, Junk, Bytes
    <2>6. frame \in [1 .. w.len -> Bytes]
      BY <2>4
    <2> HIDE DEF frame, w
    <2> QED BY <2>1, <2>6, <2>3, TupleIsSeq DEF TypeOK
  <1>5. /\ Len(frames') = Len(frames) + 1
        /\ frames'[Len(frames) + 1] = frame
        /\ \A k \in 1 .. Len(frames) : frames'[k] = frames[k]
    <2> HIDE DEF frame
    <2> QED BY <1>3, <1>4, AppendProperties DEF TypeOK
  <1>6. Len(writes') = Len(writes) - 1 /\ Len(writes) > 0
    BY <1>3, HeadTailProperties, Sizes DEF TypeOK
  <1>7. Passed' = Passed /\ Oversized' = Oversized /\ Idle' = Idle /\ Unread' = Unread
    BY <1>1, <1>5, <1>6, Sizes DEF Passed, Oversized, Idle, Unread
  <1>8. (Idle \/ Debris) /\ (Debris => Debris')
    <2>1. ~Current
      BY <1>3 DEF Current
    <2>2. Debris => Debris'
      <3>1. At(1)' = At(1)
        BY <1>1 DEF At
      <3>2. Debris => Unread <= raw_array_max_size \/ Oversized
        BY <1>3 DEF Debris
      <3> QED BY <3>1, <3>2, <1>1, <1>7 DEF Debris
    <2> QED BY <2>1, <2>2, <1>2 DEF Patient
  <1>9. Patient'
    <2>1. answered' <= Len(frames')
      BY <1>1, <1>2, <1>5, Sizes DEF Patient
    <2>2. freedRead' => Oversized' /\ "split" \in lapses'
      BY <1>1, <1>2, <1>3, <1>7 DEF Patient
    <2>3. client' # "open" => writes' = <<>> \/ (Oversized' /\ "split" \in lapses')
      BY <1>1, <1>2, <1>3, <1>7 DEF Patient
    <2>4. Passed' <= Len(requests') /\ (gone' => answered' = Len(requests'))
      BY <1>1, <1>2, <1>7 DEF Patient
    <2> QED BY <2>1, <2>2, <2>3, <2>4, <1>7, <1>8 DEF Patient
  <1>10. ASSUME lapses' = {} PROVE Calm'
    <2>1. Calm /\ Idle /\ client # "freed" /\ lapses = {}
      BY <1>1, <1>2, <1>3, <1>8, <1>10 DEF Patient, Debris
    <2>2. Len(writes) = 1 /\ Passed = Len(requests) /\ Len(frames) + 1 = Len(requests)
      BY <2>1, <1>3, Sizes DEF Calm, Written, Passed
    <2>3. frame = FrameOf(Len(requests), Last)
      <3> DEFINE K == Len(requests)
      <3>1. w.len = FRAME_HEADER + Last.body /\ \A n \in 1 .. w.len : raw_array[w.base + n - 1] = FrameOf(K, Last)[n]
        BY <2>1, <1>3 DEF Calm, Written
      <3>5. w \in Writes /\ Inside(w)
        <4>1. w = writes[1] /\ w \in Writes /\ 1 \in 1 .. Len(writes)
          BY <2>2, <1>3, HeadTailProperties DEF TypeOK
        <4> QED BY <4>1, <2>1 DEF Sound, FramesInside
      <3>6. \A n \in 1 .. w.len : w.base + n - 1 \in Places
        BY <3>5, ReaderSizes DEF Inside, Writes, Frames, Places
      <3>2. \A n \in 1 .. w.len : frame[n] = FrameOf(K, Last)[n]
        BY <3>1, <3>6, <2>1 DEF Memory
      <3>3. frame = [n \in 1 .. w.len |-> frame[n]]
        OBVIOUS
      <3>4. FrameOf(K, Last) = [n \in 1 .. w.len |-> FrameOf(K, Last)[n]]
        BY <3>1 DEF FrameOf
      <3> HIDE DEF frame, w
      <3> QED BY <3>2, <3>3, <3>4
    <2>4. \A k \in 1 .. Len(frames') : frames'[k] = FrameOf(k, requests'[k])
      <3> SUFFICES ASSUME NEW k \in 1 .. Len(frames') PROVE frames'[k] = FrameOf(k, requests[k])
        BY <1>1
      <3>1. CASE k \in 1 .. Len(frames)
        BY <3>1, <1>5, <2>1 DEF Calm
      <3>2. CASE k = Len(frames) + 1
        <4> HIDE DEF frame
        <4> QED BY <3>2, <1>5, <2>2, <2>3 DEF Last
      <3> QED BY <3>1, <3>2, <1>5, Sizes
    <2>5. Len(writes') = 0
      BY <2>2, <1>6
    <2>6. writes' = <<>>
      BY <2>5, TakesType, Sizes, EmptySeq DEF TypeOK
    <2>7. ~Current'
      BY <2>1, <1>7, <1>1, Sizes DEF Current, Passed, Idle, Calm
    <2> QED BY <2>4, <2>6, <2>7, <2>2, <1>1, <1>7 DEF Calm, Written
  <1> QED BY <1>9, <1>10

\* A link that is lost gives up the frames it has not taken.
LEMMA LinkKept == ASSUME TypeOK, Kept, link_lost \/ link_renewed PROVE Kept'
  <1> SUFFICES ASSUME lapses' \subseteq {"split", "unlinked"} PROVE Patient' /\ (lapses' = {} => Calm')
    BY DEF Kept
  <1>1. /\ UNCHANGED <<raw_array, raw_array_size, request_length, client, requests, wire, gone, answered, frames, freedRead>>
        /\ lapses \subseteq lapses' /\ ("split" \in lapses' <=> "split" \in lapses)
        /\ writes' = <<>> \/ writes' = writes
        /\ lapses' = {} => writes' = writes
    BY DEF link_lost, link_renewed, reqVars, clientVars
  <1>2. Patient /\ (lapses' = {} => lapses = {} /\ Calm)
    BY <1>1 DEF Kept
  <1>3. /\ Idle' = Idle /\ Oversized' = Oversized /\ Unread' = Unread /\ Last' = Last
        /\ \A n : At(n)' = At(n)
    BY <1>1 DEF Idle, Oversized, Unread, Last, At
  <1>4. Passed' <= Passed /\ Passed' \in Nat /\ Passed \in Nat
    <2>1. Len(writes') \in Nat /\ Len(writes') <= Len(writes)
      BY <1>1, Sizes, EmptySeq
    <2> QED BY <1>1, <2>1, Sizes DEF Passed
  <1>5. (Current => Current') /\ (Debris => Debris')
    <2>1. Current => Current'
      <3> SUFFICES ASSUME Current PROVE Current'
        OBVIOUS
      <3>1. Passed' < Len(requests') /\ writes' = <<>>
        BY <1>1, <1>4, Sizes DEF Current
      <3> QED BY <3>1, <1>1, <1>3 DEF Current
    <2>2. Debris => Debris'
      BY <1>1, <1>3 DEF Debris
    <2> QED BY <2>1, <2>2
  <1>6. Patient'
    <2>1. Passed' <= Len(requests')
      BY <1>1, <1>2, <1>4, Sizes DEF Patient
    <2> QED BY <2>1, <1>1, <1>2, <1>3, <1>5 DEF Patient
  <1>7. ASSUME lapses' = {} PROVE Calm'
    <2>1. writes' = writes /\ lapses = {} /\ lapses' = lapses
      BY <1>1, <1>2, <1>7
    <2>2. Idle' = Idle /\ Current' = Current /\ Passed' = Passed /\ Written' = Written
      BY <1>1, <2>1 DEF Idle, Current, Passed, Unread, At, Last, Written, FrameOf
    <2>3. Calm /\ frames' = frames /\ requests' = requests
      BY <1>1, <1>2, <1>7
    <2> QED BY <2>2, <2>3 DEF Calm
  <1> QED BY <1>6, <1>7

\* The wire after a read of n bytes.
Shortened(n) == wire' = SubSeq(wire, n + 1, Len(wire))

\* A read moves bytes from the wire to the array and changes none of them.
LEMMA Moves ==
    ASSUME TypeOK, NEW n, CanRead(n), Shortened(n)
    PROVE  /\ \A i \in 1 .. raw_array_size + n : Received(n)[i - 1] = At(i)
           /\ Len(wire') = Len(wire) - n
           /\ \A i \in 1 .. Len(wire') : wire'[i] = At(raw_array_size + n + i)
  <1>1. n \in Nat /\ n >= 1 /\ n <= Len(wire) /\ raw_array_size + n \in 1 .. raw_array_max_size
    BY ReceivedType, Sizes DEF CanRead
  <1>2. ASSUME NEW i \in 1 .. raw_array_size + n PROVE Received(n)[i - 1] = At(i)
    <2>1. i - 1 \in Places
      BY <1>1, Sizes DEF Places
    <2>2. CASE i <= raw_array_size
      BY <2>1, <2>2, <1>1, Sizes DEF Received, At
    <2>3. CASE i > raw_array_size
      <3>1. i - 1 \in raw_array_size .. raw_array_size + n - 1
        BY <2>3, <1>1, Sizes
      <3>4. (i - 1) - raw_array_size + 1 = i - raw_array_size
        BY <1>1, Sizes
      <3>2. Received(n)[i - 1] = wire[(i - 1) - raw_array_size + 1]
        BY <2>1, <3>1 DEF Received
      <3>3. At(i) = wire[i - raw_array_size]
        BY <2>3, Sizes DEF At
      <3> QED BY <3>2, <3>3, <3>4, Zenon
    <2> QED BY <2>2, <2>3, <1>1, Sizes
  <1>3. /\ Len(wire') = Len(wire) - n
        /\ \A i \in 1 .. Len(wire) - n : wire'[i] = wire[n + i]
    <2>1. \A i \in n + 1 .. Len(wire) : wire[i] \in Bytes
      BY <1>1, ElementOfSeq, Sizes DEF TypeOK
    <2>2. n + 1 \in Int /\ Len(wire) \in Int
      BY <1>1, Sizes
    <2>3. /\ Len(SubSeq(wire, n + 1, Len(wire))) = IF n + 1 <= Len(wire) THEN Len(wire) - (n + 1) + 1 ELSE 0
          /\ \A i \in 1 .. Len(wire) - (n + 1) + 1 : SubSeq(wire, n + 1, Len(wire))[i] = wire[(n + 1) + i - 1]
      BY <2>1, <2>2, SubSeqProperties
    <2>4. Len(wire') = Len(wire) - n
      BY <2>3, <1>1, Sizes DEF Shortened
    <2>5. ASSUME NEW i \in 1 .. Len(wire) - n PROVE wire'[i] = wire[n + i]
      <3>1. i \in 1 .. Len(wire) - (n + 1) + 1 /\ (n + 1) + i - 1 = n + i
        BY <1>1, Sizes
      <3> QED BY <3>1, <2>3 DEF Shortened
    <2> QED BY <2>4, <2>5
  <1>4. ASSUME NEW i \in 1 .. Len(wire') PROVE wire'[i] = At(raw_array_size + n + i)
    <2> DEFINE x == raw_array_size + n + i
    <2>0. raw_array_size \in Nat /\ Len(wire) \in Nat
      BY Sizes
    <2>1. ~(x <= raw_array_size) /\ i \in 1 .. Len(wire) - n
      BY <1>1, <1>3, <2>0
    <2>2. x - raw_array_size = n + i
      BY <1>1, <2>0
    <2> HIDE DEF x
    <2>3. At(x) = wire[x - raw_array_size]
      BY <2>1 DEF At
    <2>4. At(x) = wire[n + i]
      BY <2>2, <2>3, Zenon
    <2>5. wire'[i] = wire[n + i]
      BY <2>1, <1>3
    <2> QED BY <2>4, <2>5 DEF x
  <1> QED BY <1>2, <1>3, <1>4

\* While a request is being read its header is found as soon as it is all there.
LEMMA CurrentHeader ==
    ASSUME TypeOK, Current, NEW n, CanRead(n), Shortened(n), HeaderKnown(n) # -1
    PROVE  /\ HeaderKnown(n) = Last.header
           /\ Last.header <= raw_array_size + n
           /\ request_length < 0 => content_lengths(Received(n), HeaderKnown(n)) = {Last.says}
  <1> DEFINE K == Len(requests)
             size == raw_array_size + n
  <1>0. n \in Nat /\ size \in Nat /\ n \in 1 .. Len(wire) /\ size >= 1
    BY ReceivedType, Sizes DEF CanRead
  <1>1. CASE request_length < 0
    <2>1. PICK k \in 1 .. K :
            /\ HeaderKnown(n) = requests[k].header
            /\ requests[k].header <= size
            /\ Received(n)[0] = Byte(k, 1)
      BY <1>0, <1>1, ParseFinds DEF HeaderKnown
    <2>2. Received(n)[1 - 1] = At(1) /\ At(1) = Byte(K, 1)
      <3>1. 1 \in 1 .. size /\ 1 \in 1 .. Unread
        BY <1>0, Sizes DEF Unread
      <3> QED BY <3>1, Moves DEF Current
    <2>3. k = K /\ Received(n)[0].req = K
      BY <2>1, <2>2 DEF Byte
    <2>4. requests[K].header \in Nat
      BY <2>3, MessagesOfRequests, MessageType
    <2>5. content_lengths(Received(n), HeaderKnown(n)) = {requests[K].says}
      BY <2>1, <2>3, <2>4, <1>1, Sizes DEF content_lengths
    <2> QED BY <2>1, <2>3, <2>5 DEF Last
  <1>2. CASE ~(request_length < 0)
    <2>1. HeaderKnown(n) = request_length /\ request_length >= 0
      BY <1>2, Sizes DEF HeaderKnown
    <2>2. request_length = Last.header /\ Last.header <= raw_array_size
      BY <2>1 DEF Current
    <2> QED BY <1>0, <1>2, <2>1, <2>2, Sizes
  <1> QED BY <1>1, <1>2

\* No header is found in what is left of a request that was sent on too early.
LEMMA DebrisHeader ==
    ASSUME TypeOK, Debris, NEW n, CanRead(n), Shortened(n)
    PROVE  HeaderKnown(n) = -1
  <1> SUFFICES ASSUME HeaderKnown(n) # -1 PROVE FALSE
    OBVIOUS
  <1>0. raw_array_size + n \in Nat /\ raw_array_size + n >= 1
    BY ReceivedType
  <1>1. PICK k \in 1 .. Len(requests) : Received(n)[0] = Byte(k, 1)
    BY <1>0, ParseFinds DEF HeaderKnown, Debris
  <1>2. Received(n)[1 - 1] = At(1)
    <2>1. 1 \in 1 .. raw_array_size + n
      BY <1>0
    <2> QED BY <2>1, Moves
  <1>3. At(1).pos = 1
    BY <1>1, <1>2 DEF Byte
  <1> QED BY <1>3 DEF Debris

\* What every read leaves alone.
ReadFrame ==
    /\ client = "open"
    /\ UNCHANGED <<client, requests, gone, answered, frames, freedRead>>

\* An incomplete request stays what it is, only more of it is in the array.
LEMMA KeepKept ==
    ASSUME TypeOK, TypeOK', Kept, NEW n, CanRead(n), Shortened(n), ReadFrame,
           Keep(Received(n), raw_array_size + n, HeaderKnown(n))
    PROVE  Kept'
  <1> SUFFICES ASSUME lapses' \subseteq {"split", "unlinked"} PROVE Patient' /\ (lapses' = {} => Calm')
    BY DEF Kept
  <1> DEFINE size == raw_array_size + n
             length == HeaderKnown(n)
  <1>a. n \in 1 .. Len(wire)
    BY DEF CanRead
  <1>b. n \in Nat /\ size \in 1 .. raw_array_max_size
    BY ReceivedType
  <1>c. length \in HeaderLengths \cup {-1} /\ content_lengths(Received(n), length) \subseteq Int
    BY HeaderType
  <1>d. Len(wire) \in Nat /\ raw_array_size \in Nat /\ raw_array_max_size \in Nat /\ FRAME_HEADER \in Nat /\ request_length \in Int
    BY Sizes
  <1>e. /\ \A i \in 1 .. size : Received(n)[i - 1] = At(i)
        /\ \A i \in 1 .. Len(wire') : wire'[i] = At(size + i)
    BY Moves
  <1>f. Len(wire') = Len(wire) - n
    BY Moves
  <1>0. n \in Nat /\ n >= 1 /\ n <= Len(wire) /\ size \in Nat /\ length \in Int
    <2> HIDE DEF length
    <2> QED BY <1>a, <1>b, <1>c, <1>d, ReaderSizes
  <1>1. /\ raw_array' = Received(n) /\ raw_array_size' = size /\ request_length' = length /\ writes' = writes
        /\ lapses' = IF length >= 0 THEN lapses \cup {"split"} ELSE lapses
    BY DEF Keep
  <1>2. Patient /\ (lapses = {} => Calm) /\ (lapses' = {} => lapses = {})
    BY <1>1 DEF Kept
  <1>3. Unread' = Unread /\ Unread > 0 /\ Unread \in Nat
    <2>1. raw_array_size' = raw_array_size + n /\ n \in Nat /\ n >= 1 /\ n <= Len(wire)
      BY <1>0, <1>1
    <2> QED BY <2>1, <1>d, <1>f DEF Unread
  <1>4. ASSUME NEW i \in 1 .. Unread PROVE At(i)' = At(i)
    <2>1. CASE i <= size
      <3>1. i \in 1 .. size
        BY <2>1, <1>0
      <3> QED BY <2>1, <3>1, <1>1, <1>e DEF At
    <2>2. CASE i > size
      <3>1. i - size \in 1 .. Len(wire') /\ size + (i - size) = i
        BY <2>2, <1>0, <1>d, <1>f DEF Unread
      <3>2. At(i)' = wire'[i - size]
        <4>1. raw_array_size' = size /\ ~(i <= size)
          BY <2>2, <1>0, <1>1
        <4> HIDE DEF size
        <4> QED BY <4>1 DEF At
      <3>3. wire'[i - size] = At(size + (i - size))
        BY <3>1, <1>e
      <3> QED BY <3>1, <3>2, <3>3, Zenon
    <2> QED BY <2>1, <2>2, <1>0
  <1>5. Passed' = Passed /\ Oversized' = Oversized /\ Last' = Last /\ ~Idle /\ ~Idle'
    BY <1>1, <1>3 DEF ReadFrame, Passed, Oversized, Last, Idle
  <1>6. Current => Current'
    <2> SUFFICES ASSUME Current PROVE Current'
      OBVIOUS
    <2>1. \A i \in 1 .. Unread' : At(i)' = Byte(Len(requests), i)
      BY <1>3, <1>4 DEF Current
    <2>2. request_length' >= 0 => request_length' = Last.header /\ Last.header <= size /\ "split" \in lapses'
      <3> SUFFICES ASSUME length >= 0 PROVE length = Last.header /\ Last.header <= size /\ "split" \in lapses'
        BY <1>1
      <3>1. length # -1
        BY <1>0
      <3> QED BY <3>1, <1>1, CurrentHeader
    <2>3. Len(requests') > 0 /\ Unread' = Last'.header + Last'.body /\ writes' = <<>> /\ Passed' < Len(requests')
      BY <1>1, <1>3, <1>5 DEF Current, ReadFrame
    <2>4. requests' = requests
      BY DEF ReadFrame
    <2> QED BY <2>1, <2>2, <2>3, <2>4, <1>1, <1>5 DEF Current
  <1>7. Debris => Debris'
    <2> SUFFICES ASSUME Debris PROVE Debris'
      OBVIOUS
    <2>1. length = -1
      BY DebrisHeader
    <2>2. At(1)' = At(1)
      BY <1>3, <1>4
    <2> QED BY <2>1, <2>2, <1>1, <1>3, <1>5 DEF Debris
  <1>8. Patient'
    BY <1>1, <1>2, <1>5, <1>6, <1>7 DEF Patient, ReadFrame
  <1>9. ASSUME lapses' = {} PROVE Calm'
    <2>1. Calm /\ Current
      BY <1>2, <1>5, <1>9 DEF Patient, Debris
    <2> QED BY <2>1, <1>5 DEF Calm, ReadFrame
  <1> QED BY <1>8, <1>9

\* A request that is sent on was the current one.
LEMMA SendKept ==
    ASSUME TypeOK, TypeOK', Sound, Kept, NEW n, CanRead(n), Shortened(n), ReadFrame,
           NEW content_length \in content_lengths(Received(n), HeaderKnown(n)),
           Whole(raw_array_size + n, HeaderKnown(n), content_length),
           Send(Received(n), HeaderKnown(n), content_length)
    PROVE  Kept'
  <1> SUFFICES ASSUME lapses' \subseteq {"split", "unlinked"} PROVE Patient' /\ (lapses' = {} => Calm')
    BY DEF Kept
  <1> DEFINE size == raw_array_size + n
             length == HeaderKnown(n)
             K == Len(requests)
             w == FrameAt(length, content_length)
  <1>a. n \in 1 .. Len(wire)
    BY DEF CanRead
  <1>b. n \in Nat /\ size \in 1 .. raw_array_max_size
    BY ReceivedType
  <1>c. length \in HeaderLengths \cup {-1} /\ content_lengths(Received(n), length) \subseteq Int
    BY HeaderType
  <1>d. Len(wire) \in Nat /\ raw_array_size \in Nat /\ raw_array_max_size \in Nat /\ FRAME_HEADER \in Nat /\ request_length \in Int
    BY Sizes
  <1>e. /\ \A i \in 1 .. size : Received(n)[i - 1] = At(i)
        /\ \A i \in 1 .. Len(wire') : wire'[i] = At(size + i)
    BY Moves
  <1>f. Len(wire') = Len(wire) - n
    BY Moves
  <1>0. /\ n \in Nat /\ n >= 1 /\ n <= Len(wire) /\ size \in Nat /\ length \in Int /\ content_length \in Int
        /\ length >= 0 /\ size >= content_length + length /\ size <= raw_array_max_size
    <2>1. length >= 0 /\ size >= content_length + length /\ content_length \in Int
      BY <1>c DEF Whole
    <2> HIDE DEF length
    <2> QED BY <2>1, <1>a, <1>b, <1>c, <1>d, ReaderSizes
  <1>1. /\ raw_array' = WithFrameHeader(Received(n), length, content_length)
        /\ raw_array_size' = 0 /\ request_length' = -1
        /\ \/ linkUp /\ writes' = Append(writes, w) /\ lapses' = lapses
           \/ ~linkUp /\ writes' = writes /\ lapses' = lapses \cup {"unlinked"}
    BY DEF Send, send_to_provider_agent, FrameAt
  <1>2. /\ Patient /\ (lapses = {} => Calm) /\ "misstated" \notin lapses
        /\ ("split" \in lapses' <=> "split" \in lapses)
        /\ (lapses' = {} => lapses = {} /\ writes' = Append(writes, w))
    <2> HIDE DEF w
    <2>1. lapses \subseteq {"split", "unlinked"} /\ ("split" \in lapses' <=> "split" \in lapses)
      BY <1>1
    <2>2. lapses' = {} => lapses = {} /\ writes' = Append(writes, w)
      BY <1>1
    <2> QED BY <2>1, <2>2 DEF Kept
  <1>3. Current
    <2>1. ~Idle
      BY <1>0, <1>d DEF Idle, Unread
    <2>2. ~Debris
      <3>1. length # -1
        BY <1>0
      <3> QED BY <3>1, DebrisHeader
    <2> QED BY <2>1, <2>2, <1>2 DEF Patient
  <1>4. /\ length = Last.header /\ Last.header <= size
        /\ request_length < 0 => content_length = Last.body
    <2>1. length # -1
      BY <1>0
    <2>2. Len(requests) \in 1 .. Len(requests)
      BY <1>3, Sizes DEF Current
    <2>3. Last.says = Last.body
      BY <2>2, <1>2 DEF Sound, Last
    <2> QED BY <2>1, <2>3, <1>3, CurrentHeader
  <1>5. K > 0 /\ K \in Nat /\ Last \in Messages /\ Last.header \in Nat /\ Last.body \in Nat /\ Last.header >= FRAME_HEADER
    <2>1. K > 0 /\ K \in Nat /\ K \in 1 .. Len(requests)
      BY <1>3, Sizes DEF Current
    <2> QED BY <2>1, MessagesOfRequests, MessageType DEF Last
  <1>6. writes = <<>> /\ Passed < K /\ Unread = Last.header + Last.body
    BY <1>3 DEF Current
  <1>7. /\ writes' = <<>> \/ writes' = <<w>>
        /\ lapses' = {} => writes' = <<w>>
    BY <1>1, <1>2, <1>6
  <1>7a. Len(<<w>>) = 1 /\ Head(<<w>>) = w /\ <<w>> # <<>>
    OBVIOUS
  <1>8. /\ Passed' <= K /\ Passed \in Nat
        /\ lapses' = {} => Passed' = Passed + 1
    <2>1. Len(frames) \in Nat /\ Len(writes) = 0 /\ Len(frames') = Len(frames)
      BY <1>6, Sizes DEF ReadFrame
    <2>2. (Len(writes') = 0 \/ Len(writes') = 1) /\ (lapses' = {} => Len(writes') = 1)
      BY <1>7, <1>7a, EmptySeq
    <2>3. Passed = Len(frames) /\ Passed' = Len(frames) + Len(writes')
      BY <2>1 DEF Passed
    <2>4. Len(frames) < K /\ K \in Nat
      BY <2>3, <1>5, <1>6
    <2>5. Passed' <= K
      <3> HIDE DEF K
      <3>1. Len(frames) + 0 <= K /\ Len(frames) + 1 <= K
        BY <2>1, <2>4
      <3> QED BY <2>2, <2>3, <3>1
    <2>6. ASSUME lapses' = {} PROVE Passed' = Passed + 1
      BY <2>2, <2>3, <2>6
    <2> QED BY <2>1, <2>3, <2>5, <2>6
  <1>9. /\ Oversized' = Oversized /\ Last' = Last
        /\ Unread' = Unread - size /\ Unread' = Len(wire')
    <2>1. Unread' = Len(wire')
      BY <1>1, <1>0, <1>d, <1>f DEF Unread
    <2>2. Unread' = Unread - size
      BY <2>1, <1>0, <1>d, <1>f DEF Unread
    <2> QED BY <2>1, <2>2 DEF ReadFrame, Oversized, Last
  <1>10. CASE request_length < 0
    <2>1. Idle'
      <3>1. Unread' \in Nat
        BY <1>9, <1>f, <1>0, <1>d
      <3>2. Unread' = 0
        BY <3>1, <1>9, <1>0, <1>4, <1>5, <1>6, <1>10
      <3> QED BY <3>2, <1>1 DEF Idle
    <2>2. Patient'
      BY <2>1, <1>1, <1>2, <1>8, <1>9 DEF Patient, ReadFrame
    <2>3. ASSUME lapses' = {} PROVE Calm'
      <3>1. Calm /\ Passed' = K
        BY <2>3, <1>1, <1>2, <1>3, <1>5, <1>8 DEF Calm
      <3>3. writes' = <<w>> /\ ~Current'
        BY <2>3, <1>7, <1>7a DEF Current
      <3>2. Written'
        <4>1. w.len = FRAME_HEADER + Last.body /\ w.base = Last.header - FRAME_HEADER
          <5>1. length \in HeaderLengths /\ content_length >= 0 /\ size \in Nat
            <6> HIDE DEF length
            <6> QED BY <1>0, <1>4, <1>5, <1>10, <1>c
          <5>2. w.len = FRAME_HEADER + content_length
            <6>1. length <= size /\ size <= raw_array_max_size /\ content_length \in Int
              BY <1>0, <1>4
            <6>2. Whole(size, length, content_length)
              OBVIOUS
            <6> HIDE DEF length, size
            <6> QED BY <5>1, <6>1, <6>2, FrameType
          <5> QED BY <5>2, <1>4, <1>10 DEF FrameAt
        <4>2. ASSUME NEW j \in 1 .. w.len PROVE raw_array'[w.base + j - 1] = FrameOf(K, Last)[j]
          <5> DEFINE i == w.base + j - 1
          <5>0. j \in 1 .. FRAME_HEADER + Last.body /\ i = Last.header - FRAME_HEADER + j - 1
            BY <4>1
          <5>1. i \in Places /\ i + 1 \in 1 .. size /\ i + 1 \in 1 .. Unread /\ i + 1 = Last.header + j - FRAME_HEADER
            <6> HIDE DEF i, w, size, length
            <6>1. FRAME_HEADER \in Nat /\ raw_array_max_size \in Nat
              BY Sizes
            <6>2. size >= Last.body + Last.header /\ size \in Nat /\ size <= raw_array_max_size
              BY <1>0, <1>4, <1>10
            <6>3. i + 1 = Last.header + j - FRAME_HEADER /\ i >= 0 /\ i \in Int /\ i + 1 <= Last.header + Last.body
              <7>1. j \in Nat /\ j >= 1 /\ j <= FRAME_HEADER + Last.body
                BY <5>0, <6>1, <1>5
              <7>2. PICK h \in Nat, b \in Nat, F \in Nat : h = Last.header /\ b = Last.body /\ F = FRAME_HEADER
                BY <6>1, <1>5
              <7>3. h >= F
                BY <7>2, <1>5
              <7>4. i = h - F + j - 1 /\ j <= F + b
                BY <7>1, <7>2, <5>0
              <7>5. i + 1 = h + j - F /\ i >= 0 /\ i \in Int /\ i + 1 <= h + b
                BY <7>1, <7>3, <7>4
              <7> QED BY <7>2, <7>5
            <6>4. i + 1 \in 1 .. size /\ i \in Places
              BY <6>1, <6>2, <6>3, <1>5 DEF Places
            <6>5. i + 1 \in 1 .. Unread
              BY <6>3, <1>5, <1>6
            <6> QED BY <6>3, <6>4, <6>5
          <5>2. CASE j <= FRAME_HEADER
            <6>1. i \in length - FRAME_HEADER .. length - 1
              <7> HIDE DEF i, w, length
              <7> QED BY <5>0, <5>2, <1>4, <1>5, <1>d
            <6>2. raw_array'[i] = LengthByte(content_length)
              <7> HIDE DEF i, w, length
              <7> QED BY <5>1, <6>1, <1>1 DEF WithFrameHeader
            <6> QED BY <5>0, <5>2, <6>2, <1>4, <1>10 DEF FrameOf
          <5>3. CASE j > FRAME_HEADER
            <6>1. i \notin length - FRAME_HEADER .. length - 1
              <7> HIDE DEF i, w, length
              <7> QED BY <5>0, <5>3, <1>4, <1>5, <1>d
            <6>2. raw_array'[i] = Received(n)[i]
              <7> HIDE DEF i, w, length
              <7> QED BY <5>1, <6>1, <1>1 DEF WithFrameHeader
            <6>3. Received(n)[(i + 1) - 1] = At(i + 1)
              <7> HIDE DEF i, w, length
              <7> QED BY <5>1, <1>e
            <6>4. At(i + 1) = Byte(K, i + 1)
              <7> HIDE DEF i, w, length
              <7> QED BY <5>1, <1>3 DEF Current
            <6>5. (i + 1) - 1 = i
              <7> HIDE DEF w, length, i
              <7> QED BY <5>1 DEF Places
            <6>6. raw_array'[i] = Byte(K, Last.header + j - FRAME_HEADER)
              <7> HIDE DEF i, w, length
              <7> QED BY <6>2, <6>3, <6>4, <6>5, <5>1, Zenon
            <6>7. FrameOf(K, Last)[j] = Byte(K, Last.header + j - FRAME_HEADER)
              BY <5>0, <5>3, <1>d DEF FrameOf
            <6> QED BY <6>6, <6>7
          <5> QED BY <5>2, <5>3, <5>0, <1>d
        <4>3. requests' = requests
          BY DEF ReadFrame
        <4> HIDE DEF w
        <4> QED BY <4>1, <4>2, <4>3, <3>3, <1>7a, <1>9 DEF Written
      <3> QED BY <3>1, <3>2, <3>3, <1>9 DEF Calm, ReadFrame
    <2> QED BY <2>2, <2>3
  <1>11. CASE ~(request_length < 0)
    <2>1. "split" \in lapses' /\ Last.header <= raw_array_size
      BY <1>1, <1>3, <1>11, <1>d DEF Current
    <2>2. Idle' \/ Debris'
      <3>1. Unread' \in Nat
        BY <1>9, <1>f, <1>0, <1>d
      <3>2. CASE Unread' = 0
        BY <3>2, <1>1 DEF Idle
      <3>3. CASE Unread' > 0
        <4>1. At(1)' = wire'[1] /\ 1 \in 1 .. Len(wire')
          <5>1. raw_array_size' = 0 /\ 1 - 0 = 1 /\ ~(1 <= 0)
            BY <1>1
          <5>2. At(1)' = wire'[1 - 0]
            BY <5>1 DEF At
          <5>3. 1 \in 1 .. Len(wire')
            BY <3>1, <3>3, <1>9
          <5> QED BY <5>1, <5>2, <5>3
        <4>2. wire'[1] = At(size + 1)
          BY <4>1, <1>e
        <4>3. size + 1 \in 1 .. Unread
          BY <3>1, <3>3, <1>0, <1>d, <1>9 DEF Unread
        <4>4. At(size + 1) = Byte(K, size + 1)
          BY <4>3, <1>3 DEF Current
        <4>5. At(1)'.pos # 1
          <5>1. size + 1 # 1
            BY <1>b
          <5> HIDE DEF size
          <5>2. Byte(K, size + 1).pos = size + 1
            BY DEF Byte
          <5>3. At(1)' = Byte(K, size + 1)
            BY <4>1, <4>2, <4>4
          <5> QED BY <5>1, <5>2, <5>3, Zenon
        <4>6. Unread' <= raw_array_max_size \/ Oversized'
          <5>1. Unread' <= Last.body
            BY <2>1, <1>0, <1>5, <1>6, <1>9, <1>d
          <5>2. Last.body > raw_array_max_size => Oversized
            BY <1>5 DEF Oversized, Last
          <5> QED BY <3>1, <5>1, <5>2, <1>5, <1>9, <1>d
        <4> QED BY <3>3, <4>5, <4>6, <2>1, <1>1 DEF Debris
      <3> QED BY <3>1, <3>2, <3>3
    <2>3. Patient'
      BY <2>2, <1>1, <1>2, <1>8, <1>9 DEF Patient, ReadFrame
    <2> QED BY <2>1, <2>3
  <1> QED BY <1>10, <1>11

\* The read callback in all its branches.
LEMMA ReadKept == ASSUME TypeOK, Sound, Kept, NEW n, c_read_connection_data(n) PROVE Kept'
  <1>1. CanRead(n) /\ Shortened(n) /\ ReadFrame
    BY DEF c_read_connection_data, CanRead, Shortened, ReadFrame
  <1>2. TypeOK'
    BY ReadType
  <1>3. PICK content_length \in content_lengths(Received(n), HeaderKnown(n)) :
            IF Whole(raw_array_size + n, HeaderKnown(n), content_length)
            THEN Send(Received(n), HeaderKnown(n), content_length)
            ELSE Keep(Received(n), raw_array_size + n, HeaderKnown(n))
    BY DEF c_read_connection_data, HeaderKnown
  <1>4. CASE Whole(raw_array_size + n, HeaderKnown(n), content_length)
    BY <1>1, <1>2, <1>3, <1>4, SendKept
  <1>5. CASE ~Whole(raw_array_size + n, HeaderKnown(n), content_length)
    BY <1>1, <1>2, <1>3, <1>5, KeepKept
  <1> QED BY <1>4, <1>5

\* Every step keeps the invariant.
LEMMA KeptStep == TypeOK /\ Sound /\ Kept /\ [Next]_vars => Kept'
  <1> SUFFICES ASSUME TypeOK, Sound, Kept, [Next]_vars PROVE Kept'
    OBVIOUS
  <1>1. CASE UNCHANGED vars
    <2>1. UNCHANGED <<raw_array, raw_array_size, request_length, client, requests, wire, gone, answered,
                      writes, frames, freedRead, lapses>>
      BY <1>1 DEF vars, reqVars, clientVars, linkVars
    <2>2. Idle' = Idle /\ Current' = Current /\ Debris' = Debris /\ Oversized' = Oversized /\ Passed' = Passed /\ Written' = Written
      BY <2>1 DEF Idle, Current, Debris, Oversized, Passed, Unread, At, Last, Written, FrameOf
    <2>3. Patient' = Patient
      BY <2>1, <2>2 DEF Patient
    <2>4. Calm' = Calm
      BY <2>1, <2>2 DEF Calm
    <2> QED BY <2>1, <2>3, <2>4 DEF Kept
  <1>2. CASE Next
    BY <1>2, SendsKept, LeavesKept, AnsweredKept, ReadKept, CloseKept, TakesKept, LinkKept DEF Next, Reading
  <1> QED BY <1>1, <1>2

\* The phases hold throughout.
THEOREM ReaderInvariant == Spec => []ReaderInv
  <1>1. Init => ReaderInv
    BY TypeInit, SoundInit, KeptInit DEF ReaderInv, Kept
  <1>2. ReaderInv /\ [Next]_vars => ReaderInv'
    BY TypeStep, SoundStep, KeptStep DEF ReaderInv, Kept
  <1> QED BY <1>1, <1>2, PTL DEF Spec
------------------------------------------------------------------------------
\* Clients that wait for their answers and whose bodies come with the end of their
\* headers are served exactly: however the network cuts their requests, the frames
\* the link takes are the requests, whole, in order and none twice.
THEOREM RequestsPassedOn == Spec => []FramesExact
  <1>1. ReaderInv => FramesExact
    <2> SUFFICES ASSUME ReaderInv, lapses = {}, NEW k \in 1 .. Len(frames)
                 PROVE  k <= Len(requests) /\ frames[k] = FrameOf(k, requests[k])
      BY DEF FramesExact
    <2>1. TypeOK /\ Patient /\ Calm
      BY DEF ReaderInv
    <2>2. Len(frames) <= Len(requests)
      BY <2>1, Sizes DEF Patient, Passed
    <2> QED BY <2>1, <2>2, Sizes DEF Calm
  <1> QED BY <1>1, ReaderInvariant, PTL

\* free_http_req comes after the link has read the last frame of the array, even
\* when a stale headers[0] has sent one out too early.
THEOREM ArrayNotFreedEarly == Spec => []ArrayOutlivesWrites
  <1>1. ReaderInv => ArrayOutlivesWrites
    BY DEF ReaderInv, Patient, ArrayOutlivesWrites
  <1> QED BY <1>1, ReaderInvariant, PTL
==============================================================================
