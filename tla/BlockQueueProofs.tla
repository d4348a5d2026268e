-------------------------- MODULE BlockQueueProofs ---------------------------
(***************************************************************************)
(* The block queue for any size and any number of threads: the ring with   *)
(* its lap flag implements a bounded FIFO queue, and no wake-up is lost.   *)
(***************************************************************************)
EXTENDS BlockQueue, FiniteSetTheorems, SequenceTheorems, TLAPS

RingInv == TypeOK /\ LapsInOrder

LEMMA RingInvInit == Init => RingInv
  BY SizeAssumption, PushesAssumption DEF Init, RingInv, TypeOK, LapsInOrder, Slots

LEMMA PushKeepsRing == ASSUME RingInv, NEW p \in Producers, Push(p) PROVE RingInv'
  <1> USE DEF ringVars
  <1>1. CASE bq_push(p)
    <2>1. <<p, left[p]>> \in Items
      BY <1>1, PushesAssumption DEF bq_push, Items, RingInv, TypeOK
    <2>2. /\ http_req_array' \in [Slots -> Items \cup {Nothing}]
          /\ head' \in Slots /\ tail' \in Slots /\ tail_ahead' \in {0, 1}
      BY <1>1, <2>1, SizeAssumption DEF bq_push, RingInv, TypeOK, Slots
    <2>3. LapsInOrder'
      BY <1>1, SizeAssumption DEF bq_push, test_full, RingInv, TypeOK, LapsInOrder, Slots
    <2>4. /\ left' \in [Producers \cup Pullers -> Nat]
          /\ \A q \in Producers : left'[q] <= PushesEach
      BY <1>1, PushesAssumption DEF bq_push, RingInv, TypeOK
    <2>5. /\ pc' \in [Producers \cup Pullers -> {"run", "signal", "wait", "woken"}]
          /\ req' \in [Pullers -> Items \cup {Nothing}]
      BY <1>1 DEF bq_push, RingInv, TypeOK
    <2> QED BY <2>2, <2>3, <2>4, <2>5 DEF RingInv, TypeOK
  <1>2. CASE bq_push_full(p)
    <2>1. /\ left' \in [Producers \cup Pullers -> Nat]
          /\ \A q \in Producers : left'[q] <= PushesEach
      BY <1>2, PushesAssumption DEF bq_push_full, RingInv, TypeOK
    <2> QED BY <1>2, <2>1 DEF bq_push_full, RingInv, TypeOK, LapsInOrder
  <1>3. CASE uv_cond_signal(p)
    BY <1>3 DEF uv_cond_signal, Waiting, RingInv, TypeOK, LapsInOrder
  <1> QED BY <1>1, <1>2, <1>3 DEF Push

LEMMA PullKeepsRing ==
    ASSUME RingInv, NEW c \in Pullers, Pull(c) \/ spurious_wakeup(c) PROVE RingInv'
  <1> USE DEF ringVars
  <1>1. CASE bq_pull(c)
    <2>1. head' \in Slots /\ tail' \in Slots /\ tail_ahead' \in {0, 1} /\ LapsInOrder'
      BY <1>1, SizeAssumption DEF bq_pull, test_empty, RingInv, TypeOK, LapsInOrder, Slots
    <2>2. /\ left' \in [Producers \cup Pullers -> Nat]
          /\ \A q \in Producers : left'[q] <= PushesEach
      BY <1>1, ThreadsAssumption, PushesAssumption DEF bq_pull, RingInv, TypeOK
    <2>3. /\ pc' \in [Producers \cup Pullers -> {"run", "signal", "wait", "woken"}]
          /\ req' \in [Pullers -> Items \cup {Nothing}]
          /\ http_req_array' \in [Slots -> Items \cup {Nothing}]
      BY <1>1 DEF bq_pull, RingInv, TypeOK
    <2> QED BY <2>1, <2>2, <2>3 DEF RingInv, TypeOK
  <1>2. CASE bq_pull_wait(c)
    BY <1>2 DEF bq_pull_wait, RingInv, TypeOK, LapsInOrder
  <1>3. CASE spurious_wakeup(c)
    BY <1>3 DEF spurious_wakeup, RingInv, TypeOK, LapsInOrder
  <1> QED BY <1>1, <1>2, <1>3 DEF Pull

LEMMA RingInvStep == RingInv /\ [Next]_vars => RingInv'
  <1>1. RingInv /\ UNCHANGED vars => RingInv'
    BY DEF vars, ringVars, RingInv, TypeOK, LapsInOrder
  <1> QED BY <1>1, PushKeepsRing, PullKeepsRing DEF Next

\* bq_push and bq_pull never leave the array, for every size from 1 up.
THEOREM TypeCorrect == Spec => []TypeOK
  <1>1. RingInv => TypeOK
    BY DEF RingInv
  <1> QED BY <1>1, RingInvInit, RingInvStep, PTL DEF Spec

\* head and tail never overtake each other: tail_ahead is the parity of the laps.
THEOREM LapsHold == Spec => []LapsInOrder
  <1>1. RingInv => LapsInOrder
    BY DEF RingInv
  <1> QED BY <1>1, RingInvInit, RingInvStep, PTL DEF Spec
------------------------------------------------------------------------------
(* The queue *)

\* The i-th item of the queue, when it is there.
At(i) == http_req_array[IF head + i - 1 < max_size THEN head + i - 1 ELSE head + i - 1 - max_size]

LEMMA CountBounds ==
    ASSUME RingInv
    PROVE  /\ Count \in 0 .. max_size
           /\ test_empty <=> Count = 0
           /\ test_full <=> Count = max_size
           /\ head \in Int /\ tail \in Int /\ max_size \in Int
  BY SizeAssumption DEF RingInv, TypeOK, LapsInOrder, Count, test_empty, test_full, Slots

ContentsFacts ==
    /\ Contents \in Seq(Items \cup {Nothing})
    /\ Len(Contents) = Count
    /\ \A i \in 1 .. Count : Contents[i] = At(i)

LEMMA ContentsIsSeq == RingInv => ContentsFacts
  <1> SUFFICES ASSUME RingInv PROVE ContentsFacts
    OBVIOUS
  <1>1. Count \in Nat
    BY CountBounds, SizeAssumption
  <1>2. \A i \in 1 .. Count : At(i) \in Items \cup {Nothing}
    BY CountBounds, SizeAssumption DEF At, RingInv, TypeOK, Slots
  <1>3. Contents = [i \in 1 .. Count |-> At(i)]
    BY DEF Contents, At
  <1>4. Contents \in [1 .. Count -> Items \cup {Nothing}]
    BY <1>2, <1>3
  <1> HIDE DEF Count, Contents
  <1> QED BY <1>1, <1>3, <1>4 DEF ContentsFacts

LEMMA PushAppends ==
    ASSUME RingInv, NEW p \in Producers, bq_push(p) PROVE Fifo!Put(<<p, left[p]>>)
  <1> DEFINE v == <<p, left[p]>>
  <1>1. RingInv'
    BY PushKeepsRing DEF Push
  <1>2. Count' = Count + 1 /\ Count < max_size
    BY SizeAssumption DEF bq_push, test_full, RingInv, TypeOK, LapsInOrder, Count, Slots
  <1>3. \A i \in 1 .. Count : At(i)' = At(i)
    BY <1>2, SizeAssumption DEF bq_push, test_full, At, RingInv, TypeOK, LapsInOrder, Count, Slots
  <1>4. \A i \in Int : i = Count + 1 => At(i)' = v
    BY <1>2, SizeAssumption DEF bq_push, test_full, At, RingInv, TypeOK, LapsInOrder, Count, Slots
  <1>5. v \in Items
    BY PushesAssumption DEF bq_push, Items, RingInv, TypeOK
  <1>6. /\ Contents \in Seq(Items \cup {Nothing}) /\ Len(Contents) = Count
        /\ Contents' \in Seq(Items \cup {Nothing}) /\ Len(Contents') = Count'
        /\ \A i \in 1 .. Count : Contents[i] = At(i)
        /\ \A i \in 1 .. Count' : Contents'[i] = At(i)'
    <2>1. ContentsFacts /\ ContentsFacts'
      BY <1>1, ContentsIsSeq, PTL
    <2> QED BY <2>1 DEF ContentsFacts
  <1>7. Count \in Nat
    BY CountBounds, SizeAssumption
  <1> HIDE DEF Count, Contents, At, v
  <1>8. Contents' = Append(Contents, v)
    <2>1. Append(Contents, v) \in Seq(Items \cup {Nothing}) /\ Len(Append(Contents, v)) = Count + 1
      BY <1>5, <1>6
    <2>2. ASSUME NEW i \in 1 .. Count + 1 PROVE Append(Contents, v)[i] = Contents'[i]
      <3>1. CASE i <= Count
        BY <1>2, <1>3, <1>6, <1>7, <3>1
      <3>2. CASE i = Count + 1
        BY <1>2, <1>4, <1>6, <1>7, <3>2
      <3>3. i <= Count \/ i = Count + 1
        BY <1>7
      <3> QED BY <3>1, <3>2, <3>3
    <2> QED BY <1>2, <1>6, <2>1, <2>2, SeqEqual
  <1> QED BY <1>2, <1>6, <1>8 DEF bq_push, Fifo!Put, v

LEMMA PullTakesHead == ASSUME RingInv, NEW c \in Pullers, bq_pull(c) PROVE Fifo!Get(c)
  <1>1. RingInv'
    BY PullKeepsRing DEF Pull
  <1>2. Count' = Count - 1 /\ Count \in Nat /\ Count > 0
    BY SizeAssumption DEF bq_pull, test_empty, RingInv, TypeOK, LapsInOrder, Count, Slots
  <1>3. \A i \in 1 .. Count - 1 : At(i)' = At(i + 1)
    BY <1>2, SizeAssumption DEF bq_pull, test_empty, At, RingInv, TypeOK, LapsInOrder, Count, Slots
  <1>4. req' = [req EXCEPT ![c] = At(1)]
    <2>1. At(1) = http_req_array[head]
      BY SizeAssumption DEF At, RingInv, TypeOK, Slots
    <2> QED BY <2>1 DEF bq_pull
  <1>5. /\ Contents \in Seq(Items \cup {Nothing}) /\ Len(Contents) = Count
        /\ Contents' \in Seq(Items \cup {Nothing}) /\ Len(Contents') = Count'
        /\ \A i \in 1 .. Count : Contents[i] = At(i)
        /\ \A i \in 1 .. Count' : Contents'[i] = At(i)'
    <2>1. ContentsFacts /\ ContentsFacts'
      BY <1>1, ContentsIsSeq, PTL
    <2> QED BY <2>1 DEF ContentsFacts
  <1> HIDE DEF Count, Contents, At
  <1>6. Contents # <<>> /\ Head(Contents) = At(1)
    BY <1>2, <1>5
  <1>7. Contents' = Tail(Contents)
    <2>1. Tail(Contents) \in Seq(Items \cup {Nothing}) /\ Len(Tail(Contents)) = Count - 1
      BY <1>2, <1>5, <1>6
    <2>2. \A i \in 1 .. Count - 1 : Tail(Contents)[i] = Contents[i + 1]
      BY <1>2, <1>5, <1>6
    <2> QED BY <1>2, <1>3, <1>5, <2>1, <2>2, SeqEqual
  <1> QED BY <1>4, <1>6, <1>7 DEF Fifo!Get

\* The ring of pointers with its lap flag implements BoundedFifo: an accepted item
\* comes out once, in order, to one puller.
THEOREM RingImplementsFifo == Spec => FifoRefined
  <1>1. Init => Fifo!Init
    <2> SUFFICES ASSUME Init PROVE Fifo!Init
      OBVIOUS
    <2>1. RingInv /\ Count = 0
      BY RingInvInit DEF Init, Count
    <2>2. Contents = <<>>
      BY <2>1, ContentsIsSeq DEF ContentsFacts
    <2> QED BY <2>2 DEF Init, Fifo!Init
  <1>2. RingInv /\ [Next]_vars => [Fifo!Next]_<<Contents, req>>
    <2> SUFFICES ASSUME RingInv, [Next]_vars PROVE [Fifo!Next]_<<Contents, req>>
      OBVIOUS
    <2>1. UNCHANGED <<ringVars, req>> => UNCHANGED <<Contents, req>>
      BY DEF ringVars, Contents, Count
    <2>2. ASSUME NEW p \in Producers, bq_push(p) PROVE Fifo!Next
      <3>1. <<p, left[p]>> \in Items
        BY <2>2, PushesAssumption DEF bq_push, Items, RingInv, TypeOK
      <3> QED BY <2>2, <3>1, PushAppends DEF Fifo!Next
    <2>3. ASSUME NEW c \in Pullers, bq_pull(c) PROVE Fifo!Next
      BY <2>3, PullTakesHead DEF Fifo!Next
    <2>4. ASSUME NEW p \in Producers, bq_push_full(p) \/ uv_cond_signal(p) PROVE UNCHANGED <<ringVars, req>>
      BY <2>4 DEF bq_push_full, uv_cond_signal
    <2>5. ASSUME NEW c \in Pullers, bq_pull_wait(c) \/ spurious_wakeup(c) PROVE UNCHANGED <<ringVars, req>>
      BY <2>5 DEF bq_pull_wait, spurious_wakeup
    <2>6. CASE UNCHANGED vars
      BY <2>1, <2>6 DEF vars
    <2> QED BY <2>1, <2>2, <2>3, <2>4, <2>5, <2>6 DEF Next, Push, Pull
  <1> QED BY <1>1, <1>2, RingInvInit, RingInvStep, PTL DEF Spec, FifoRefined, Fifo!Spec
------------------------------------------------------------------------------
(* Wake-ups *)

WakeInv == RingInv /\ NoLostWakeup

LEMMA ThreadSetsFinite ==
    /\ IsFiniteSet(Signalling) /\ Cardinality(Signalling) \in Nat
    /\ IsFiniteSet(Woken) /\ Cardinality(Woken) \in Nat
  <1>1. IsFiniteSet(Signalling) /\ IsFiniteSet(Woken)
    BY ThreadsAssumption, FS_Subset DEF Signalling, Woken
  <1> QED BY <1>1, FS_CardinalityType

\* A push adds an item and the signal for it.
LEMMA PushOwesSignal == ASSUME WakeInv, NEW p \in Producers, bq_push(p) PROVE NoLostWakeup'
  <1>1. Count' = Count + 1 /\ Count \in Nat
    BY SizeAssumption DEF bq_push, test_full, WakeInv, RingInv, TypeOK, LapsInOrder, Count, Slots
  <1>2. Signalling' = Signalling \cup {p} /\ p \notin Signalling /\ Woken' = Woken /\ Waiting' = Waiting
    BY ThreadsAssumption DEF bq_push, Signalling, Woken, Waiting, WakeInv, RingInv, TypeOK
  <1>3. Cardinality(Signalling') = Cardinality(Signalling) + 1
    BY <1>2, ThreadSetsFinite, FS_AddElement
  <1> HIDE DEF Count
  <1> QED BY <1>1, <1>2, <1>3, ThreadSetsFinite DEF WakeInv, NoLostWakeup

\* A signal turns into a woken puller, or there was nobody to wake.
LEMMA SignalWakes == ASSUME WakeInv, NEW p \in Producers, uv_cond_signal(p) PROVE NoLostWakeup'
  <1>1. Count' = Count /\ Count \in Int
    BY SizeAssumption DEF uv_cond_signal, ringVars, Count, WakeInv, RingInv, TypeOK, Slots
  <1> HIDE DEF Count
  <1>2. CASE Waiting = {}
    <2>1. Waiting' = {}
      BY <1>2, ThreadsAssumption DEF uv_cond_signal, Waiting, WakeInv, RingInv, TypeOK
    <2> QED BY <2>1 DEF NoLostWakeup
  <1>3. ASSUME NEW c \in Waiting, pc' = [pc EXCEPT ![p] = "run", ![c] = "woken"] PROVE NoLostWakeup'
    <2>1. /\ Signalling' = Signalling \ {p} /\ p \in Signalling
          /\ Woken' = Woken \cup {c} /\ c \notin Woken
      BY <1>3, ThreadsAssumption DEF uv_cond_signal, Signalling, Woken, Waiting, WakeInv, RingInv, TypeOK
    <2>2. /\ Cardinality(Signalling') = Cardinality(Signalling) - 1
          /\ Cardinality(Woken') = Cardinality(Woken) + 1
      BY <2>1, ThreadSetsFinite, FS_AddElement, FS_RemoveElement
    <2> QED BY <1>1, <1>3, <2>2, ThreadSetsFinite DEF WakeInv, NoLostWakeup
  <1> QED BY <1>2, <1>3 DEF uv_cond_signal

\* Who takes an item uses up one wake-up at most; who waits has seen the ring empty.
LEMMA PullerWakes ==
    ASSUME WakeInv, NEW c \in Pullers, Pull(c) \/ spurious_wakeup(c) PROVE NoLostWakeup'
  <1>1. CASE bq_pull(c)
    <2>1. Count' = Count - 1 /\ Count \in Nat
      BY <1>1, SizeAssumption DEF bq_pull, test_empty, WakeInv, RingInv, TypeOK, LapsInOrder, Count, Slots
    <2>2. Signalling' = Signalling /\ Woken' = Woken \ {c} /\ Waiting' = Waiting
      BY <1>1, ThreadsAssumption DEF bq_pull, Signalling, Woken, Waiting, WakeInv, RingInv, TypeOK
    <2>3. IsFiniteSet(Woken \ {c}) /\ Cardinality(Woken \ {c}) >= Cardinality(Woken) - 1
      <3>1. /\ IsFiniteSet(Woken \ {c})
            /\ Cardinality(Woken \ {c}) = IF c \in Woken THEN Cardinality(Woken) - 1 ELSE Cardinality(Woken)
        BY ThreadSetsFinite, FS_RemoveElement
      <3> QED BY <3>1, ThreadSetsFinite
    <2>4. Cardinality(Woken \ {c}) \in Nat
      BY <2>3, FS_CardinalityType
    <2> HIDE DEF Count
    <2> QED BY <2>1, <2>2, <2>3, <2>4, ThreadSetsFinite DEF WakeInv, NoLostWakeup
  <1>2. CASE bq_pull_wait(c)
    <2>1. Count' = 0
      BY <1>2, SizeAssumption DEF bq_pull_wait, ringVars, test_empty, WakeInv, RingInv, TypeOK, Count, Slots
    <2>2. IsFiniteSet(Signalling') /\ IsFiniteSet(Woken')
      BY ThreadsAssumption, FS_Subset DEF Signalling, Woken
    <2>3. Cardinality(Signalling') \in Nat /\ Cardinality(Woken') \in Nat
      BY <2>2, FS_CardinalityType
    <2> HIDE DEF Count
    <2> QED BY <2>1, <2>3 DEF NoLostWakeup
  <1>3. CASE spurious_wakeup(c)
    <2>1. Count' = Count /\ Count \in Int
      BY <1>3, SizeAssumption DEF spurious_wakeup, ringVars, Count, WakeInv, RingInv, TypeOK, Slots
    <2>2. Signalling' = Signalling /\ Woken' = Woken \cup {c} /\ c \in Waiting
      BY <1>3, ThreadsAssumption DEF spurious_wakeup, Signalling, Woken, Waiting, WakeInv, RingInv, TypeOK
    <2>3. IsFiniteSet(Woken \cup {c}) /\ Cardinality(Woken \cup {c}) >= Cardinality(Woken)
      <3>1. /\ IsFiniteSet(Woken \cup {c})
            /\ Cardinality(Woken \cup {c}) = IF c \in Woken THEN Cardinality(Woken) ELSE Cardinality(Woken) + 1
        BY ThreadSetsFinite, FS_AddElement
      <3> QED BY <3>1, ThreadSetsFinite
    <2>4. Cardinality(Woken \cup {c}) \in Nat
      BY <2>3, FS_CardinalityType
    <2> HIDE DEF Count
    <2> QED BY <2>1, <2>2, <2>3, <2>4, ThreadSetsFinite DEF WakeInv, NoLostWakeup
  <1> QED BY <1>1, <1>2, <1>3 DEF Pull

LEMMA WakeInvStep == WakeInv /\ [Next]_vars => WakeInv'
  <1> SUFFICES ASSUME WakeInv, [Next]_vars PROVE NoLostWakeup'
    BY RingInvStep DEF WakeInv
  <1>1. UNCHANGED <<ringVars, pc>> => NoLostWakeup'
    BY DEF ringVars, WakeInv, NoLostWakeup, Waiting, Signalling, Woken, Count
  <1>2. ASSUME NEW p \in Producers, bq_push_full(p) PROVE NoLostWakeup'
    BY <1>1, <1>2 DEF bq_push_full
  <1>3. CASE UNCHANGED vars
    BY <1>1, <1>3 DEF vars
  <1> QED BY <1>2, <1>3, PushOwesSignal, SignalWakes, PullerWakes DEF Next, Push

\* Signalling after the unlock is safe: with any number of producers and pullers,
\* no item lies in the ring while a puller sleeps and nobody is about to wake it.
THEOREM WakeupsHold == Spec => []NoLostWakeup
  <1>1. WakeInv => NoLostWakeup
    BY DEF WakeInv
  <1>2. Init => NoLostWakeup
    BY DEF Init, NoLostWakeup, Waiting
  <1>3. Init => WakeInv
    BY <1>2, RingInvInit DEF WakeInv
  <1> QED BY <1>1, <1>3, WakeInvStep, PTL DEF Spec
==============================================================================
