-------------------------- MODULE FrameStreamProofs --------------------------
(***************************************************************************)
(* What the reader of frames guarantees for every header length, buffer    *)
(* size and stream of frames that fit, as long as connections break        *)
(* between two frames only.  The inductive invariant is TypeOK /\ Aligned: *)
(* the bytes in the buffer begin a frame, and after the callback's return  *)
(* they are fewer than that frame has.                                     *)
(***************************************************************************)
EXTENDS FrameStream, TLAPS

Sorted == \A i, j \in 1 .. Len(out) : i < j => out[i] < out[j]
Positive == \A i \in 1 .. Len(out) : out[i] > 0
Numbered == Reconnects = "never" => \A i \in 1 .. Len(out) : out[i] = i

IInv == TypeOK /\ Aligned /\ Sorted /\ Positive /\ Numbered

\* Frames lie in the stream one after the other: a position that begins a frame
\* begins no other one.
LEMMA OneFrame ==
    ASSUME NEW j \in 0 .. NumFrames, NEW k \in 0 .. NumFrames, Bound[j] = Bound[k]
    PROVE  j = k
<1>1. Bound[j] \in Nat /\ Bound[k] \in Nat
  BY BoundAssumption, SizesAssumption
<1>2. CASE j < k
  BY <1>1, <1>2, BoundAssumption, SizesAssumption
<1>3. CASE k < j
  BY <1>1, <1>3, BoundAssumption, SizesAssumption
<1> QED BY <1>2, <1>3, SizesAssumption

\* What is handed on are frame numbers, or 0.
LEMMA OutNumbers ==
    ASSUME TypeOK
    PROVE  /\ Len(out) \in Nat
           /\ \A i \in 1 .. Len(out) : out[i] \in Nat
<1>1. out \in Seq(0 .. NumFrames)
  BY DEF TypeOK
<1>2. ASSUME NEW S, out \in Seq(S) PROVE Len(out) \in Nat /\ \A i \in 1 .. Len(out) : out[i] \in S
  BY <1>2
<1>3. \A x \in 0 .. NumFrames : x \in Nat
  BY SizesAssumption
<1>4. Len(out) \in Nat /\ \A i \in 1 .. Len(out) : out[i] \in 0 .. NumFrames
  BY <1>1, <1>2
<1> QED BY <1>3, <1>4

\* At the front of a frame the length field is that frame's.
LEMMA FrontLength ==
    ASSUME NEW k \in 0 .. NumFrames, stale = 0, front = Bound[k], NEW h \in Lengths
    PROVE  /\ k < NumFrames
           /\ h = [frame |-> k + 1, body |-> Bound[k + 1] - Bound[k] - HEADER]
<1>1. AtFrame(k)
  BY DEF AtFrame
<1>2. PICK j \in {i \in 0 .. NumFrames - 1 : AtFrame(i)} :
        h = [frame |-> j + 1, body |-> Bound[j + 1] - Bound[j] - HEADER]
  BY <1>1 DEF Lengths
<1>3. j \in 0 .. NumFrames /\ Bound[j] = Bound[k]
  BY <1>2, SizesAssumption DEF AtFrame
<1>4. j = k
  BY <1>3, OneFrame
<1> QED BY <1>2, <1>4, SizesAssumption

\* A read keeps the buffer within its capacity and its bytes in order.
LEMMA ReadKeeps ==
    ASSUME IInv, NEW n \in 1 .. Capacity, Read(n)
    PROVE  IInv'
<1>1. PICK k \in 0 .. NumFrames : FrontIs(k)
  BY DEF IInv, Aligned
<1>2. n \in 1 .. Capacity - size_of_raw_array
  BY DEF Read, Room
<1>3. TypeOK'
  BY <1>2, SizesAssumption DEF IInv, TypeOK, Read
<1>4. FrontIs(k)'
  BY <1>1 DEF FrontIs, Read
<1>5. Aligned'
  BY <1>2, <1>4, SizesAssumption, BoundAssumption DEF IInv, TypeOK, Aligned, Read
<1>6. (Sorted /\ Positive /\ Numbered)'
  BY DEF IInv, Sorted, Positive, Numbered, Read
<1> QED BY <1>3, <1>5, <1>6 DEF IInv

\* Taking a whole frame hands on the one at the front and leaves the next at the front.
LEMMA TakeFrameKeeps ==
    ASSUME IInv, NEW h \in Lengths, TakeFrame(h)
    PROVE  IInv'
<1>1. PICK k \in 0 .. NumFrames : FrontIs(k)
  BY DEF IInv, Aligned
<1>2. /\ k < NumFrames
      /\ h.frame = k + 1
      /\ h.body = Bound[k + 1] - Bound[k] - HEADER
  BY <1>1, FrontLength DEF IInv, Aligned, FrontIs
<1>3. /\ k \in Nat /\ k + 1 \in 0 .. NumFrames
      /\ Bound[k] \in Nat /\ Bound[k + 1] \in Nat /\ HEADER \in Nat
      /\ Bound[k] + HEADER <= Bound[k + 1]
  BY <1>2, BoundAssumption, SizesAssumption
<1>4. h.body + HEADER = Bound[k + 1] - Bound[k] /\ h.body + HEADER \in Nat
  BY <1>2, <1>3
<1>5. /\ size_of_raw_array' = size_of_raw_array - (Bound[k + 1] - Bound[k])
      /\ size_of_raw_array >= Bound[k + 1] - Bound[k]
      /\ stale' = 0
      /\ front' = Bound[k + 1]
      /\ got' = got /\ busy' = busy /\ busy
      /\ out' = Append(out, k + 1)
  <2>1. stale = 0 /\ front = Bound[k]
    BY <1>1 DEF IInv, Aligned, FrontIs
  <2> QED BY <2>1, <1>2, <1>3, <1>4 DEF TakeFrame, Shift
<1>6. out \in Seq(0 .. NumFrames) /\ Len(out) \in Nat
  BY DEF IInv, TypeOK
<1>7. /\ out' \in Seq(0 .. NumFrames)
      /\ Len(out') = Len(out) + 1
      /\ \A i \in 1 .. Len(out) : out'[i] = out[i] /\ out[i] \in Nat /\ out[i] <= k
      /\ out'[Len(out) + 1] = k + 1
  <2>1. k + 1 \in 0 .. NumFrames
    BY <1>3
  <2>2. /\ out' \in Seq(0 .. NumFrames)
        /\ Len(out') = Len(out) + 1
        /\ \A i \in 1 .. Len(out) : out'[i] = out[i]
        /\ out'[Len(out) + 1] = k + 1
    BY <2>1, <1>5, <1>6
  <2>3. \A i \in 1 .. Len(out) : out[i] \in Nat /\ out[i] <= k
    BY <1>1, OutNumbers DEF FrontIs, IInv
  <2> QED BY <2>2, <2>3
<1>8. TypeOK'
  BY <1>3, <1>5, <1>7, SizesAssumption DEF IInv, TypeOK
<1>9. FrontIs(k + 1)'
  <2>1. \A i \in 1 .. Len(out') : out'[i] <= k + 1
    BY <1>3, <1>6, <1>7
  <2>2. Reconnects = "never" => Len(out') = k + 1
    BY <1>1, <1>7 DEF FrontIs
  <2> QED BY <2>1, <2>2, <1>5 DEF FrontIs
<1>10. Aligned'
  <2>1. front = Bound[k]
    BY <1>1 DEF FrontIs
  <2>2. /\ size_of_raw_array \in Nat /\ got \in Nat
        /\ size_of_raw_array = got - front /\ got <= Bound[NumFrames]
    BY SizesAssumption DEF IInv, TypeOK, Aligned
  <2>3. front' <= got' /\ size_of_raw_array' = got' - front'
    BY <2>1, <2>2, <1>3, <1>5
  <2> QED BY <2>2, <2>3, <1>3, <1>5, <1>9 DEF Aligned
<1>11. (Sorted /\ Positive /\ Numbered)'
  <2>1. Sorted'
    <3> SUFFICES ASSUME NEW i \in 1 .. Len(out'), NEW j \in 1 .. Len(out'), i < j
                 PROVE  out'[i] < out'[j]
      BY DEF Sorted
    <3>1. i \in 1 .. Len(out)
      BY <1>6, <1>7
    <3>2. CASE j = Len(out) + 1
      BY <3>1, <3>2, <1>3, <1>7
    <3>3. CASE j \in 1 .. Len(out)
      BY <3>1, <3>3, <1>7 DEF IInv, Sorted
    <3> QED BY <3>2, <3>3, <1>6, <1>7
  <2>2. Positive'
    BY <1>3, <1>6, <1>7 DEF IInv, Positive
  <2>3. Numbered'
    BY <1>1, <1>3, <1>6, <1>7 DEF IInv, Numbered, FrontIs
  <2> QED BY <2>1, <2>2, <2>3
<1> QED BY <1>8, <1>10, <1>11 DEF IInv

\* The callback returns with less than the front frame in the buffer.
LEMMA ReturnKeeps ==
    ASSUME IInv, Return
    PROVE  IInv'
<1>1. PICK k \in 0 .. NumFrames : FrontIs(k)
  BY DEF IInv, Aligned
<1>2. ASSUME k < NumFrames
      PROVE  size_of_raw_array < Bound[k + 1] - Bound[k]
  <2>1. /\ k + 1 \in 0 .. NumFrames /\ k < k + 1
        /\ Bound[k] \in Nat /\ Bound[k + 1] \in Nat /\ HEADER \in Nat
    BY <1>2, BoundAssumption, SizesAssumption
  <2>2. Bound[k] + HEADER <= Bound[k + 1]
    BY <2>1, BoundAssumption
  <2>3. size_of_raw_array \in Nat
    BY SizesAssumption DEF IInv, TypeOK
  <2>4. CASE size_of_raw_array < HEADER
    BY <2>1, <2>2, <2>3, <2>4
  <2>5. ASSUME NEW h \in Lengths, size_of_raw_array < h.body + HEADER
        PROVE  size_of_raw_array < Bound[k + 1] - Bound[k]
    <3>1. h.body = Bound[k + 1] - Bound[k] - HEADER
      BY <1>1, FrontLength DEF IInv, Aligned, FrontIs
    <3> QED BY <3>1, <2>1, <2>3, <2>5
  <2> QED BY <2>4, <2>5 DEF Return
<1>3. FrontIs(k)'
  BY <1>1, <1>2 DEF FrontIs, Return
<1>4. Aligned'
  BY <1>3 DEF IInv, Aligned, Return
<1>5. (TypeOK /\ Sorted /\ Positive /\ Numbered)'
  BY DEF IInv, TypeOK, Sorted, Positive, Numbered, Return
<1> QED BY <1>4, <1>5 DEF IInv

\* A connection that breaks between two frames leaves nothing in the buffer.
LEMMA ReconnectKeeps ==
    ASSUME IInv, Reconnects # "any", Reconnect
    PROVE  IInv'
<1>1. PICK k \in 0 .. NumFrames : FrontIs(k)
  BY DEF IInv, Aligned
<1>2. PICK m \in 0 .. NumFrames - 1 :
        got <= Bound[m] /\ stale' = size_of_raw_array /\ front' = Bound[m] /\ got' = Bound[m]
  BY DEF Reconnect
<1>3. /\ size_of_raw_array = 0 /\ size_of_raw_array' = 0
      /\ Reconnects = "clean" /\ ~busy /\ busy' = busy /\ out' = out
  BY DEF Reconnect
<1>4. /\ m \in 0 .. NumFrames /\ m + 1 \in 0 .. NumFrames /\ NumFrames \in 0 .. NumFrames
      /\ Bound[k] \in Nat /\ Bound[m] \in Nat /\ Bound[m + 1] \in Nat /\ Bound[NumFrames] \in Nat
      /\ HEADER \in Nat \ {0}
      /\ Bound[m] + HEADER <= Bound[m + 1] /\ Bound[m] <= Bound[NumFrames]
  BY BoundAssumption, SizesAssumption
<1>5. Bound[k] <= Bound[m]
  BY <1>1, <1>2, <1>4 DEF IInv, TypeOK, Aligned, FrontIs
<1>6. k <= m
  <2>1. ASSUME m < k PROVE FALSE
    <3>1. Bound[m] + HEADER <= Bound[k]
      BY <2>1, <1>4, BoundAssumption
    <3> QED BY <3>1, <1>4, <1>5
  <2> QED BY <2>1, <1>4
<1>7. \A i \in 1 .. Len(out') : out'[i] <= m
  <2>1. \A i \in 1 .. Len(out) : out[i] \in Nat /\ out[i] <= k
    BY <1>1, OutNumbers DEF FrontIs, IInv
  <2> QED BY <2>1, <1>3, <1>6, SizesAssumption
<1>8. FrontIs(m)'
  BY <1>2, <1>3, <1>4, <1>7 DEF FrontIs
<1>9. Aligned'
  BY <1>2, <1>3, <1>4, <1>8 DEF Aligned
<1>10. TypeOK'
  BY <1>2, <1>3, <1>4 DEF IInv, TypeOK
<1>11. (Sorted /\ Positive /\ Numbered)'
  BY <1>3 DEF IInv, Sorted, Positive, Numbered
<1> QED BY <1>9, <1>10, <1>11 DEF IInv

LEMMA InitEstablishes == Init => IInv
<1> SUFFICES ASSUME Init PROVE IInv
  OBVIOUS
<1>1. TypeOK /\ Sorted /\ Positive /\ Numbered
  <2>1. out = <<>> /\ Len(out) = 0 /\ out \in Seq(0 .. NumFrames)
    BY DEF Init
  <2>2. 1 .. Len(out) = {}
    BY <2>1
  <2>3. TypeOK
    <3>1. 0 \in 0 .. Capacity /\ 0 \in Nat
      BY SizesAssumption
    <3>2. busy \in BOOLEAN
      BY DEF Init
    <3>3. size_of_raw_array = 0 /\ stale = 0 /\ front = 0 /\ got = 0
      BY DEF Init
    <3> QED BY <2>1, <3>1, <3>2, <3>3 DEF TypeOK
  <2>4. Sorted /\ Positive /\ Numbered
    BY <2>2 DEF Sorted, Positive, Numbered
  <2> QED BY <2>3, <2>4
<1>2. FrontIs(0)
  BY BoundAssumption, SizesAssumption DEF Init, FrontIs
<1>3. 0 \in 0 .. NumFrames /\ NumFrames \in 0 .. NumFrames /\ Bound[NumFrames] \in Nat /\ Bound[0] = 0
  BY BoundAssumption, SizesAssumption
<1>4. Aligned
  BY <1>2, <1>3 DEF Init, Aligned
<1> QED BY <1>1, <1>4 DEF IInv

LEMMA IInvHolds == ASSUME Reconnects # "any" PROVE Spec => []IInv
<1>1. Init => IInv
  BY InitEstablishes
<1>2. IInv /\ [Next]_vars => IInv'
  <2> SUFFICES ASSUME IInv, [Next]_vars PROVE IInv'
    OBVIOUS
  <2>1. CASE Reading
    BY <2>1, ReadKeeps DEF Reading
  <2>2. CASE Parsing
    BY <2>2, TakeFrameKeeps, ReturnKeeps DEF Parsing
  <2>3. CASE Reconnect
    BY <2>3, ReconnectKeeps
  <2>4. CASE UNCHANGED vars
    <3>1. (TypeOK /\ Sorted /\ Positive /\ Numbered)'
      BY <2>4 DEF vars, IInv, TypeOK, Sorted, Positive, Numbered
    <3>2. Aligned'
      BY <2>4 DEF vars, IInv, Aligned, FrontIs
    <3> QED BY <3>1, <3>2 DEF IInv
  <2> QED BY <2>1, <2>2, <2>3, <2>4 DEF Next
<1> QED BY <1>1, <1>2, PTL DEF Spec

\* The buffer never overflows and the other variables keep their types.
THEOREM TypeCorrect == ASSUME Reconnects # "any" PROVE Spec => []TypeOK
<1>1. IInv => TypeOK
  BY DEF IInv
<1> QED BY <1>1, IInvHolds, PTL

\* For every way of cutting the stream into reads, c_read_from_provide_agents and
\* the provider agent's two readers hand on the frames in order, none twice, and
\* none is missing as long as the connection does not break.
THEOREM FramesKeepOrder == ASSUME Reconnects # "any" PROVE Spec => []FramesInOrder
<1>1. IInv => FramesInOrder
  BY DEF IInv, FramesInOrder, Sorted, Positive, Numbered
<1> QED BY <1>1, IInvHolds, PTL

\* When the callback has returned there is room in the buffer: the allocation
\* callback never offers libuv an empty one.
THEOREM NeverFull == ASSUME Reconnects # "any" PROVE Spec => []RoomToRead
<1>1. ASSUME IInv PROVE RoomToRead
  <2>1. PICK k \in 0 .. NumFrames : FrontIs(k)
    BY <1>1 DEF IInv, Aligned
  <2>2. size_of_raw_array \in Nat /\ Capacity \in Nat \ {0}
    BY <1>1, SizesAssumption DEF IInv, TypeOK
  <2>3. ASSUME k < NumFrames, ~busy PROVE size_of_raw_array < Capacity
    <3>1. k \in 0 .. NumFrames - 1 /\ k + 1 \in 0 .. NumFrames
      BY <2>3, SizesAssumption
    <3>2. Bound[k] \in Nat /\ Bound[k + 1] \in Nat
      BY <3>1, BoundAssumption
    <3>3. size_of_raw_array < Bound[k + 1] - Bound[k]
      BY <2>1, <2>3 DEF FrontIs
    <3>4. Bound[k + 1] - Bound[k] <= Capacity
      BY <3>1, FitAssumption
    <3> QED BY <2>2, <3>2, <3>3, <3>4
  <2>4. ASSUME k = NumFrames PROVE size_of_raw_array = 0
    <3>1. Bound[NumFrames] \in Nat
      BY BoundAssumption, SizesAssumption
    <3> QED BY <1>1, <2>1, <2>4, <3>1 DEF IInv, TypeOK, Aligned, FrontIs
  <2> QED BY <2>2, <2>3, <2>4, SizesAssumption DEF RoomToRead, Room
<1> QED BY <1>1, IInvHolds, PTL
==============================================================================
