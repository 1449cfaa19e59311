------------------------- MODULE WorkerQueueProofs -------------------------
(***************************************************************************)
(* Proofs about WorkerQueue, for every set of workers and of jobs, every   *)
(* initial capacity and every limit of the allocator.                      *)
(*                                                                         *)
(* QueueInv is the inductive invariant.  The properties that concern the   *)
(* ring all come down to where index arithmetic modulo the capacity puts a *)
(* cell, which the first three lemmas settle.                              *)
(***************************************************************************)
EXTENDS WorkerQueue, SequenceTheorems, TLAPS

(* Up to one turn past the modulus, % takes it off at most once. *)
LEMMA ModOnce ==
    ASSUME NEW a \in Nat, NEW c \in Nat, c > 0, a < 2 * c
    PROVE  /\ a % c = IF a < c THEN a ELSE a - c
           /\ a % c \in 0 .. c-1
<1>1. CASE a < c
  BY <1>1
<1>2. CASE ~(a < c)
  <2>1. a % c = a - c
    BY <1>2
  <2> QED
    BY <2>1, <1>2
<1> QED
  BY <1>1, <1>2

(* The position CellOf gives to the i-th oldest action, without %. *)
LEMMA CellOfValue ==
    ASSUME capacity \in Nat \ {0}, head \in 0 .. capacity-1,
           NEW i \in 0 .. capacity-1
    PROVE  /\ CellOf(i) = IF head + i < capacity THEN head + i
                                                 ELSE head + i - capacity
           /\ CellOf(i) \in 0 .. capacity-1
<1> DEFINE a == head + i
<1>1. a \in Nat /\ a < 2 * capacity /\ capacity \in Nat /\ capacity > 0
  OBVIOUS
<1> HIDE DEF a
<1>2. /\ a % capacity = IF a < capacity THEN a ELSE a - capacity
      /\ a % capacity \in 0 .. capacity-1
  BY <1>1, ModOnce
<1> QED
  BY <1>2 DEF CellOf, a

(* The position of head after a Take, without %. *)
LEMMA NextHeadValue ==
    ASSUME capacity \in Nat \ {0}, head \in 0 .. capacity-1
    PROVE  /\ NextHead = IF head + 1 < capacity THEN head + 1 ELSE 0
           /\ NextHead \in 0 .. capacity-1
<1> DEFINE a == head + 1
<1>1. a \in Nat /\ a < 2 * capacity /\ capacity \in Nat /\ capacity > 0
  OBVIOUS
<1> HIDE DEF a
<1>2. a % capacity = IF a < capacity THEN a ELSE a - capacity
  BY <1>1, ModOnce
<1> QED
  BY <1>2 DEF NextHead, a

(* After a Take the i-th oldest action is where the next one was. *)
LEMMA CellOfAfterTake ==
    ASSUME capacity \in Nat \ {0}, head \in 0 .. capacity-1,
           head' = NextHead, capacity' = capacity,
           NEW i \in 0 .. capacity-2
    PROVE  CellOf(i)' = CellOf(i + 1)
<1> DEFINE a == NextHead + i
<1>1. CellOf(i)' = a % capacity
  BY DEF CellOf
<1>2. a \in Nat /\ a < 2 * capacity /\ capacity \in Nat /\ capacity > 0
  BY NextHeadValue
<1> HIDE DEF a
<1>3. a % capacity = IF a < capacity THEN a ELSE a - capacity
  BY <1>2, ModOnce
<1>4. i + 1 \in 0 .. capacity-1
  OBVIOUS
<1>5. CellOf(i + 1) = IF head + (i + 1) < capacity THEN head + (i + 1)
                      ELSE head + (i + 1) - capacity
  BY <1>4, CellOfValue
<1>6. NextHead = IF head + 1 < capacity THEN head + 1 ELSE 0
  BY NextHeadValue
<1>7. CASE head + 1 < capacity
  <2>1. a = head + (i + 1)
    BY <1>6, <1>7 DEF a
  <2> QED
    BY <2>1, <1>1, <1>3, <1>5
<1>8. CASE head + 1 = capacity
  <2>1. a = i
    BY <1>6, <1>8 DEF a
  <2> QED
    BY <2>1, <1>1, <1>3, <1>5, <1>8
<1> QED
  BY <1>7, <1>8

-----------------------------------------------------------------------------
(* worker_pool_init establishes the invariant. *)
LEMMA InitQueueInv == Init => QueueInv
<1> SUFFICES ASSUME Init PROVE QueueInv
  OBVIOUS
<1> USE QueueAssumption DEF Init
<1>1. TypeOK
  <2>1. EmptyCell \in Cells
    BY DEF EmptyCell, Cells
  <2>2. data \in [0 .. capacity-1 -> Cells]
    BY <2>1
  <2>3. shutting_down \in BOOLEAN
    BY Zenon
  <2> QED
    BY <2>2, <2>3 DEF TypeOK
<1>2. CallbacksExclude /\ NoLostWakeup
  BY DEF CallbacksExclude, NoLostWakeup, InCallback
<1>3. RingConsistent
  BY DEF RingConsistent, InCallback, EmptyCell
<1> QED
  BY <1>1, <1>2, <1>3 DEF QueueInv, CellsHoldJobs, ThreadPhases, InCallback

-----------------------------------------------------------------------------
(* A step that touches neither the ring nor who is in a callback.          *)
LEMMA RingFrame ==
    ASSUME QueueInv, UNCHANGED <<ring, idx>>,
           \A v \in Workers : InCallback(v)' <=> InCallback(v)
    PROVE  RingConsistent' /\ CellsHoldJobs'
<1>1. \A i \in 0 .. count-1 : CellOf(i)' = CellOf(i)
  BY DEF CellOf, ring
<1>2. RingConsistent'
  BY <1>1 DEF QueueInv, RingConsistent, ring
<1>3. CellsHoldJobs'
  BY <1>1 DEF QueueInv, CellsHoldJobs, ring
<1> QED
  BY <1>2, <1>3

-----------------------------------------------------------------------------
(* The steps of worker_loop preserve it. *)

LEMMA WaitInv ==
    ASSUME QueueInv, NEW w \in Workers, Wait(w)
    PROVE  QueueInv'
<1> USE DEF QueueInv, Wait, ring, mainVars
<1>1. TypeOK'
  BY DEF TypeOK
<1>2. \A v \in Workers : InCallback(v)' <=> InCallback(v)
  BY DEF InCallback, TypeOK
<1>3. CallbacksExclude'
  BY <1>2 DEF CallbacksExclude
<1>4. RingConsistent' /\ CellsHoldJobs'
  BY <1>2, RingFrame
<1>5. NoLostWakeup'
  BY DEF NoLostWakeup, ThreadPhases, TypeOK
<1>6. ThreadPhases'
  BY DEF ThreadPhases, TypeOK
<1> QED
  BY <1>1, <1>3, <1>4, <1>5, <1>6

LEMMA WakeInv ==
    ASSUME QueueInv, NEW w \in Workers, WakeSpuriously(w)
    PROVE  QueueInv'
<1> USE DEF QueueInv, WakeSpuriously, ring, mainVars
<1>1. TypeOK'
  BY DEF TypeOK
<1>2. \A v \in Workers : InCallback(v)' <=> InCallback(v)
  BY DEF InCallback, TypeOK
<1>3. CallbacksExclude'
  BY <1>2 DEF CallbacksExclude
<1>4. RingConsistent' /\ CellsHoldJobs'
  BY <1>2, RingFrame
<1>5. NoLostWakeup'
  BY DEF NoLostWakeup, ThreadPhases, TypeOK
<1>6. ThreadPhases'
  BY DEF ThreadPhases, TypeOK
<1> QED
  BY <1>1, <1>3, <1>4, <1>5, <1>6

LEMMA TakeInv ==
    ASSUME QueueInv, NEW w \in Workers, Take(w)
    PROVE  QueueInv'
<1> USE DEF QueueInv, Take, HasWork, EnterCallback, mainVars
<1>1. head \in 0 .. capacity-1 /\ count \in 1 .. capacity-1 /\ capacity \in Nat \ {0}
  BY DEF TypeOK, RingConsistent
<1>2. NextHead \in 0 .. capacity-1
  BY <1>1, NextHeadValue
<1>3. TypeOK'
  <2>1. data' \in [0 .. capacity-1 -> Cells]
    <3>1. data \in [0 .. capacity-1 -> Cells]
      BY DEF TypeOK
    <3>2. data' = [data EXCEPT ![head].lock = TRUE, ![head].exists = FALSE]
      OBVIOUS
    <3> HIDE DEF QueueInv, Take
    <3> QED
      BY <3>1, <3>2 DEF Cells
  <2> QED
    BY <1>1, <1>2, <2>1 DEF TypeOK
<1>4. \A v \in Workers : InCallback(v)' <=> v = w
  BY QueueAssumption DEF InCallback, TypeOK, CallbacksExclude
<1>5. CallbacksExclude'
  BY <1>4, QueueAssumption DEF CallbacksExclude
<1>6. \A i \in 0 .. count-2 : CellOf(i)' = CellOf(i + 1)
  BY <1>1, CellOfAfterTake
<1>7. CellOf(0) = head /\ \A i \in 1 .. count-1 : CellOf(i) # head /\ CellOf(i) \in 0 .. capacity-1
  BY <1>1, CellOfValue
<1>8. count' - 1 = count - 2 /\ capacity' = capacity
  BY <1>1
<1>9. RingConsistent'
  <2>1. count' < capacity'
    BY <1>1
  <2>2. ASSUME NEW c \in 0 .. capacity-1
        PROVE  data'[c].exists <=> \E i \in 0 .. count-2 : c = CellOf(i)'
    <3>1. CASE c = head
      <4>1. ~data'[c].exists
        BY <3>1, <1>1 DEF TypeOK
      <4>2. ASSUME NEW i \in 0 .. count-2 PROVE c # CellOf(i)'
        <5>1. i + 1 \in 1 .. count-1
          BY <1>1
        <5> QED
          BY <5>1, <3>1, <1>6, <1>7
      <4> QED
        BY <4>1, <4>2
    <3>2. CASE c # head
      <4>1. data'[c] = data[c]
        BY <3>2 DEF TypeOK
      <4>2. data[c].exists <=> \E i \in 0 .. count-1 : c = CellOf(i)
        BY DEF RingConsistent
      <4>3. (\E i \in 0 .. count-1 : c = CellOf(i)) <=> (\E i \in 0 .. count-2 : c = CellOf(i+1))
        <5>1. ASSUME NEW i \in 0 .. count-1, c = CellOf(i)
              PROVE  \E k \in 0 .. count-2 : c = CellOf(k+1)
          <6>1. i # 0
            BY <3>2, <5>1, <1>7
          <6>2. i-1 \in 0 .. count-2 /\ (i-1)+1 = i
            BY <6>1, <1>1
          <6> QED
            BY <6>2, <5>1
        <5>2. ASSUME NEW i \in 0 .. count-2, c = CellOf(i+1)
              PROVE  \E k \in 0 .. count-1 : c = CellOf(k)
          <6>1. i+1 \in 0 .. count-1
            BY <1>1
          <6> QED
            BY <6>1, <5>2
        <5> QED
          BY <5>1, <5>2
      <4> QED
        BY <4>1, <4>2, <4>3, <1>6
    <3> QED
      BY <3>1, <3>2
  <2>3. ASSUME NEW c \in 0 .. capacity-1
        PROVE  data'[c].lock <=> \E v \in Workers : InCallback(v)' /\ idx'[v] = c
    <3>1. idx'[w] = head
      BY DEF TypeOK
    <3>2. \A v \in Workers : ~InCallback(v)
      BY QueueAssumption DEF CallbacksExclude
    <3>3. ~data[c].lock
      BY <3>2 DEF RingConsistent
    <3> QED
      BY <1>4, <3>1, <3>3 DEF TypeOK
  <2> HIDE DEF QueueInv, Take
  <2> QED
    BY <2>1, <2>2, <2>3, <1>8 DEF RingConsistent
<1>10. NoLostWakeup'
  BY <1>4 DEF NoLostWakeup, InCallback
<1>11. CellsHoldJobs'
  <2>1. \A i \in 0 .. count-2 : data'[CellOf(i)'].job \in Jobs
    <3> TAKE i \in 0 .. count-2
    <3>1. i + 1 \in 1 .. count-1
      BY <1>1
    <3>2. data'[CellOf(i+1)] = data[CellOf(i+1)]
      BY <3>1, <1>7 DEF TypeOK
    <3> QED
      BY <3>1, <3>2, <1>1, <1>6 DEF CellsHoldJobs
  <2>2. data'[head].job = data[head].job /\ data[head].job \in Jobs
    BY <1>1, <1>7 DEF CellsHoldJobs, TypeOK
  <2>3. idx'[w] = head
    BY DEF TypeOK
  <2> HIDE DEF QueueInv, Take
  <2> QED
    BY <2>1, <2>2, <2>3, <1>1, <1>4, <1>8 DEF CellsHoldJobs
<1>12. ThreadPhases'
  BY DEF ThreadPhases, TypeOK
<1> QED
  BY <1>3, <1>5, <1>9, <1>10, <1>11, <1>12

LEMMA ReturnInv ==
    ASSUME QueueInv, NEW w \in Workers, Return(w)
    PROVE  QueueInv'
<1> USE DEF QueueInv, Return, mainVars
<1>1. idx[w] \in 0 .. capacity-1 /\ data \in [0 .. capacity-1 -> Cells]
  BY DEF CellsHoldJobs, TypeOK, InCallback
<1>2. TypeOK'
  <2>1. data' \in [0 .. capacity-1 -> Cells]
    BY <1>1 DEF Cells
  <2> QED
    BY <2>1 DEF TypeOK
<1>3. \A v \in Workers : ~InCallback(v)'
  BY QueueAssumption DEF InCallback, TypeOK, CallbacksExclude
<1>4. CallbacksExclude'
  BY <1>3, QueueAssumption DEF CallbacksExclude
<1>5. \A i \in 0 .. count-1 : CellOf(i)' = CellOf(i)
  BY DEF CellOf
<1>6. \A c \in 0 .. capacity-1 : /\ data'[c].exists = data[c].exists
                                 /\ data'[c].job = data[c].job
                                 /\ ~data'[c].lock
  <2> TAKE c \in 0 .. capacity-1
  <2>1. CASE c = idx[w]
    BY <2>1, <1>1
  <2>2. CASE c # idx[w]
    <3>1. data'[c] = data[c]
      BY <2>2, <1>1
    <3>2. \A v \in Workers : InCallback(v) => v = w
      BY QueueAssumption DEF CallbacksExclude, InCallback
    <3>3. ~data[c].lock
      BY <2>2, <3>2 DEF RingConsistent
    <3> QED
      BY <3>1, <3>3
  <2> QED
    BY <2>1, <2>2
<1>7. RingConsistent'
  BY <1>3, <1>5, <1>6 DEF RingConsistent
<1>8. NoLostWakeup'
  BY DEF NoLostWakeup, TypeOK
<1>9. CellsHoldJobs'
  <2>1. \A i \in 0 .. count-1 : CellOf(i) \in 0 .. capacity-1
    BY CellOfValue DEF TypeOK, RingConsistent
  <2> QED
    BY <1>3, <1>5, <1>6, <2>1 DEF CellsHoldJobs
<1>10. ThreadPhases'
  BY DEF ThreadPhases, TypeOK
<1> QED
  BY <1>2, <1>4, <1>7, <1>8, <1>9, <1>10

LEMMA ExitInv ==
    ASSUME QueueInv, NEW w \in Workers, Exit(w)
    PROVE  QueueInv'
<1> USE DEF QueueInv, Exit, ring, mainVars
<1>1. TypeOK'
  BY DEF TypeOK
<1>2. \A v \in Workers : InCallback(v)' <=> InCallback(v)
  BY DEF InCallback, TypeOK
<1>3. CallbacksExclude'
  BY <1>2 DEF CallbacksExclude
<1>4. RingConsistent' /\ CellsHoldJobs'
  BY <1>2, RingFrame
<1>5. NoLostWakeup'
  BY DEF NoLostWakeup, ThreadPhases, TypeOK
<1>6. ThreadPhases'
  BY DEF ThreadPhases, TypeOK
<1> QED
  BY <1>1, <1>3, <1>4, <1>5, <1>6

-----------------------------------------------------------------------------
(* The steps of dispatch_command preserve it. *)

LEMMA CallInv ==
    ASSUME QueueInv, NEW j \in Jobs, Call(j)
    PROVE  QueueInv'
<1> USE DEF QueueInv, Call, ring, workerVars
<1>1. TypeOK'
  BY DEF TypeOK
<1>2. \A v \in Workers : InCallback(v)' <=> InCallback(v)
  BY DEF InCallback, TypeOK
<1>3. CallbacksExclude'
  BY <1>2 DEF CallbacksExclude
<1>4. RingConsistent' /\ CellsHoldJobs'
  BY <1>2, RingFrame
<1>5. NoLostWakeup'
  BY DEF NoLostWakeup, ThreadPhases, TypeOK
<1>6. ThreadPhases'
  BY DEF ThreadPhases, TypeOK
<1> QED
  BY <1>1, <1>3, <1>4, <1>5, <1>6

LEMMA DropInv ==
    ASSUME QueueInv, Drop
    PROVE  QueueInv'
<1> USE DEF QueueInv, Drop, ring, workerVars
<1>1. TypeOK'
  BY DEF TypeOK
<1>2. \A v \in Workers : InCallback(v)' <=> InCallback(v)
  BY DEF InCallback, TypeOK
<1>3. CallbacksExclude'
  BY <1>2 DEF CallbacksExclude
<1>4. RingConsistent' /\ CellsHoldJobs'
  BY <1>2, RingFrame
<1>5. NoLostWakeup'
  BY DEF NoLostWakeup, ThreadPhases, TypeOK
<1>6. ThreadPhases'
  BY DEF ThreadPhases, TypeOK
<1> QED
  BY <1>1, <1>3, <1>4, <1>5, <1>6

LEMMA SignalInv ==
    ASSUME QueueInv, Signal
    PROVE  QueueInv'
<1> USE DEF QueueInv, Signal, ring
<1>1. TypeOK'
  BY DEF TypeOK
<1>2. \A v \in Workers : InCallback(v)' <=> InCallback(v)
  BY DEF InCallback, TypeOK
<1>3. CallbacksExclude'
  BY <1>2 DEF CallbacksExclude
<1>4. RingConsistent' /\ CellsHoldJobs'
  BY <1>2, RingFrame
<1>5. NoLostWakeup'
  BY QueueAssumption DEF NoLostWakeup, ThreadPhases, TypeOK
<1>6. ThreadPhases'
  BY DEF ThreadPhases, TypeOK
<1> QED
  BY <1>1, <1>3, <1>4, <1>5, <1>6

LEMMA EnqueueInv ==
    ASSUME QueueInv, Enqueue
    PROVE  QueueInv'
<1> USE DEF QueueInv, Enqueue, workerVars
<1>1. /\ head \in 0 .. capacity-1 /\ capacity \in Nat \ {0}
      /\ count \in 0 .. capacity-2 /\ offer \in Jobs
      /\ data \in [0 .. capacity-1 -> Cells]
  BY DEF TypeOK, ThreadPhases, MustGrow
<1> DEFINE t == CellOf(count)
<1>2. /\ t \in 0 .. capacity-1
      /\ \A i \in 0 .. count-1 : CellOf(i) # t /\ CellOf(i) \in 0 .. capacity-1
  <2>1. count \in 0 .. capacity-1
    BY <1>1
  <2>2. /\ CellOf(count) = IF head + count < capacity THEN head + count
                                                     ELSE head + count - capacity
        /\ CellOf(count) \in 0 .. capacity-1
    BY <1>1, <2>1, CellOfValue
  <2>3. ASSUME NEW i \in 0 .. count-1
        PROVE  CellOf(i) # CellOf(count) /\ CellOf(i) \in 0 .. capacity-1
    <3>1. i \in 0 .. capacity-1 /\ i < count
      BY <1>1
    <3>2. /\ CellOf(i) = IF head + i < capacity THEN head + i
                                               ELSE head + i - capacity
          /\ CellOf(i) \in 0 .. capacity-1
      BY <1>1, <3>1, CellOfValue
    <3> HIDE DEF QueueInv, Enqueue
    <3> QED
      BY <1>1, <2>1, <2>2, <3>1, <3>2
  <2> QED
    BY <2>2, <2>3
<1>3. \A i \in 0 .. count : CellOf(i)' = CellOf(i)
  BY DEF CellOf
<1> HIDE DEF t
<1>4. /\ data' = [data EXCEPT ![t] = FilledCell(offer)]
      /\ count' - 1 = count /\ capacity' = capacity
  BY <1>1 DEF t
<1>5. /\ data'[t] = FilledCell(offer)
      /\ \A c \in 0 .. capacity-1 : c # t => data'[c] = data[c]
  BY <1>1, <1>2, <1>4
<1>6. \A v \in Workers : ~InCallback(v)' /\ ~InCallback(v)
  BY QueueAssumption DEF InCallback, CallbacksExclude
<1>7. TypeOK'
  <2>1. FilledCell(offer) \in Cells
    BY <1>1 DEF FilledCell, Cells
  <2>2. data' \in [0 .. capacity-1 -> Cells]
    BY <1>1, <1>4, <2>1
  <2> QED
    BY <1>1, <2>2 DEF TypeOK
<1>8. CallbacksExclude'
  BY <1>6 DEF CallbacksExclude
<1>9. RingConsistent'
  <2>1. ASSUME NEW c \in 0 .. capacity-1
        PROVE  /\ data'[c].exists <=> \E i \in 0 .. count : c = CellOf(i)'
               /\ ~data'[c].lock
    <3>1. CASE c = t
      <4>0. count \in 0 .. count
        BY <1>1
      <4>1. c = CellOf(count)
        BY <3>1 DEF t
      <4>3. \E i \in 0 .. count : c = CellOf(i)'
        BY <4>0, <4>1, <1>3
      <4>2. data'[c].exists /\ ~data'[c].lock
        BY <3>1, <1>5 DEF FilledCell
      <4> HIDE DEF QueueInv, Enqueue
      <4> QED
        BY <4>2, <4>3
    <3>2. CASE c # t
      <4>1. data'[c] = data[c]
        BY <3>2, <1>5
      <4>2. c # CellOf(count)
        BY <3>2 DEF t
      <4>3. /\ data[c].exists <=> \E i \in 0 .. count-1 : c = CellOf(i)
            /\ ~data[c].lock
        BY <1>6 DEF RingConsistent
      <4>4. (\E i \in 0 .. count-1 : c = CellOf(i)) <=> \E i \in 0 .. count : c = CellOf(i)
        <5>1. \A i \in 0 .. count : i = count \/ i \in 0 .. count-1
          BY <1>1
        <5>2. \A i \in 0 .. count-1 : i \in 0 .. count
          BY <1>1
        <5> QED
          BY <5>1, <5>2, <4>2
      <4> QED
        BY <4>1, <4>3, <4>4, <1>3
    <3> QED
      BY <3>1, <3>2
  <2>2. count' < capacity'
    BY <1>1
  <2> HIDE DEF QueueInv, Enqueue
  <2> QED
    BY <2>1, <2>2, <1>4, <1>6 DEF RingConsistent
<1>10. NoLostWakeup'
  BY DEF NoLostWakeup
<1>11. CellsHoldJobs'
  <2>1. ASSUME NEW i \in 0 .. count
        PROVE  data'[CellOf(i)'].job \in Jobs
    <3>1. CASE i = count
      BY <3>1, <1>1, <1>3, <1>5 DEF t, FilledCell
    <3>2. CASE i # count
      <4>1. i \in 0 .. count-1
        BY <3>2, <1>1
      <4> QED
        BY <4>1, <1>2, <1>3, <1>5 DEF CellsHoldJobs
    <3> QED
      BY <3>1, <3>2
  <2> HIDE DEF QueueInv, Enqueue
  <2> QED
    BY <2>1, <1>4, <1>6 DEF CellsHoldJobs
<1>12. ThreadPhases'
  BY DEF ThreadPhases
<1> QED
  BY <1>7, <1>8, <1>9, <1>10, <1>11, <1>12

(* After a resize the i-th oldest action is in cell i. *)
LEMMA CellOfAfterGrow ==
    ASSUME QueueInv, GrowAndEnqueue
    PROVE  /\ count' - 1 = count /\ count \in 0 .. capacity-1 /\ capacity \in Nat \ {0}
           /\ count % (2 * capacity) = count
           /\ \A i \in 0 .. count : CellOf(i)' = i
           /\ \A i \in 0 .. count-1 : CellOf(i) \in 0 .. capacity-1
<1>1. /\ capacity \in Nat /\ capacity > 0 /\ count \in Nat /\ count < capacity
      /\ capacity' = 2 * capacity /\ head' = 0 /\ count' = count + 1
      /\ head \in 0 .. capacity-1
  BY DEF QueueInv, TypeOK, RingConsistent, GrowAndEnqueue
<1> DEFINE n == 2 * capacity
<1>2. n \in Nat /\ n > 0 /\ count < n
  BY <1>1
<1> HIDE DEF n
<1>3. \A i \in 0 .. count : i \in Nat /\ i < n /\ i < 2 * n
  BY <1>1, <1>2
<1>4. \A i \in 0 .. count : i % n = i
  BY <1>2, <1>3, ModOnce
<1>5. \A i \in 0 .. count : CellOf(i)' = i
  <2> TAKE i \in 0 .. count
  <2>1. CellOf(i)' = (0 + i) % n
    BY <1>1 DEF CellOf, n
  <2>2. 0 + i = i
    BY <1>1
  <2> QED
    BY <2>1, <2>2, <1>4
<1>6. count % n = count
  BY <1>1, <1>4
<1>7. \A i \in 0 .. count-1 : CellOf(i) \in 0 .. capacity-1
  BY <1>1, CellOfValue
<1> QED
  BY <1>1, <1>5, <1>6, <1>7 DEF n

LEMMA GrowInv ==
    ASSUME QueueInv, GrowAndEnqueue
    PROVE  QueueInv'
<1> DEFINE n == 2 * capacity
<1>1. /\ count' - 1 = count /\ count \in 0 .. capacity-1 /\ capacity \in Nat \ {0}
      /\ \A i \in 0 .. count : CellOf(i)' = i
      /\ \A i \in 0 .. count-1 : CellOf(i) \in 0 .. capacity-1
  BY CellOfAfterGrow
<1>2. /\ data \in [0 .. capacity-1 -> Cells] /\ offer \in Jobs
      /\ count' = count + 1 /\ capacity' = n /\ head' = 0
  BY DEF QueueInv, TypeOK, ThreadPhases, GrowAndEnqueue
<1>3. n \in Nat \ {0} /\ count \in 0 .. n-1
  BY <1>1
<1>4. data' = [Grown EXCEPT ![count] = FilledCell(offer)]
  BY CellOfAfterGrow DEF GrowAndEnqueue
<1>5. Grown \in [0 .. n-1 -> Cells]
  <2>1. EmptyCell \in Cells
    BY DEF EmptyCell, Cells
  <2>2. ASSUME NEW i \in 0 .. n-1
        PROVE  (IF i < count THEN data[CellOf(i)] ELSE EmptyCell) \in Cells
    <3>1. CASE i < count
      <4>1. i \in 0 .. count-1
        BY <3>1, <1>1, <1>3
      <4> QED
        BY <3>1, <4>1, <1>1, <1>2
    <3>2. CASE ~(i < count)
      BY <3>2, <2>1
    <3> QED
      BY <3>1, <3>2
  <2> QED
    BY <2>2 DEF Grown
<1>6. FilledCell(offer) \in Cells
  BY <1>2 DEF FilledCell, Cells
<1>7. /\ data' \in [0 .. n-1 -> Cells]
      /\ data'[count] = FilledCell(offer)
      /\ \A c \in 0 .. n-1 : c # count => data'[c] = Grown[c]
  <2> HIDE DEF n
  <2> QED
    BY <1>3, <1>4, <1>5, <1>6
<1>8. \A c \in 0 .. n-1 : Grown[c] = IF c < count THEN data[CellOf(c)] ELSE EmptyCell
  BY DEF Grown
<1>9. \A v \in Workers : ~InCallback(v)' /\ ~InCallback(v)
  BY QueueAssumption DEF QueueInv, InCallback, CallbacksExclude, GrowAndEnqueue, workerVars
<1>10. TypeOK'
  <2>1. /\ capacity' \in Nat \ {0} /\ head' \in 0 .. capacity'-1 /\ count' \in Nat
        /\ data' \in [0 .. capacity'-1 -> Cells]
    BY <1>1, <1>2, <1>3, <1>7
  <2> QED
    BY <2>1 DEF QueueInv, TypeOK, GrowAndEnqueue, workerVars
<1>11. CallbacksExclude'
  BY <1>9 DEF QueueInv, CallbacksExclude, GrowAndEnqueue
<1>12. RingConsistent'
  <2>1. ASSUME NEW c \in 0 .. n-1
        PROVE  /\ data'[c].exists <=> \E i \in 0 .. count : c = CellOf(i)'
               /\ ~data'[c].lock
    <3>1. (\E i \in 0 .. count : c = CellOf(i)') <=> c \in 0 .. count
      BY <1>1
    <3>2. CASE c = count
      <4>1. c \in 0 .. count
        BY <3>2, <1>1
      <4> QED
        BY <3>1, <3>2, <4>1, <1>7 DEF FilledCell
    <3>3. CASE c \in 0 .. count-1
      <4>1. c \in 0 .. count /\ c # count /\ c < count
        BY <3>3, <1>1
      <4>2. data'[c] = data[CellOf(c)]
        BY <4>1, <1>7, <1>8
      <4>3. CellOf(c) \in 0 .. capacity-1
        BY <3>3, <1>1
      <4>4. data[CellOf(c)].exists /\ ~data[CellOf(c)].lock
        BY <3>3, <4>3, <1>9 DEF QueueInv, RingConsistent
      <4> QED
        BY <3>1, <4>1, <4>2, <4>4
    <3>4. CASE c > count
      <4>1. c \notin 0 .. count /\ c # count /\ ~(c < count)
        BY <3>4, <1>1
      <4>2. data'[c] = EmptyCell
        BY <4>1, <1>7, <1>8
      <4> QED
        BY <3>1, <4>1, <4>2 DEF EmptyCell
    <3>5. c = count \/ c \in 0 .. count-1 \/ c > count
      BY <1>1, <1>3
    <3> QED
      BY <3>2, <3>3, <3>4, <3>5
  <2>2. count' < capacity'
    BY <1>1, <1>2
  <2> HIDE DEF n
  <2> QED
    BY <2>1, <2>2, <1>1, <1>2, <1>9 DEF RingConsistent
<1>13. NoLostWakeup'
  BY DEF NoLostWakeup, GrowAndEnqueue
<1>14. CellsHoldJobs'
  <2>1. ASSUME NEW i \in 0 .. count
        PROVE  data'[CellOf(i)'].job \in Jobs
    <3>1. CellOf(i)' = i /\ i \in 0 .. n-1
      BY <1>1, <1>3
    <3>2. CASE i = count
      BY <3>1, <3>2, <1>2, <1>7 DEF FilledCell
    <3>3. CASE i # count
      <4>1. i \in 0 .. count-1 /\ i < count
        BY <3>3, <1>1
      <4>2. data'[i] = data[CellOf(i)]
        BY <3>1, <3>3, <4>1, <1>7, <1>8
      <4> QED
        BY <3>1, <4>1, <4>2 DEF QueueInv, CellsHoldJobs
    <3> QED
      BY <3>2, <3>3
  <2> QED
    BY <2>1, <1>1, <1>9 DEF CellsHoldJobs
<1>15. ThreadPhases'
  BY DEF QueueInv, ThreadPhases, GrowAndEnqueue, workerVars
<1> QED
  BY <1>10, <1>11, <1>12, <1>13, <1>14, <1>15 DEF QueueInv

-----------------------------------------------------------------------------
(* The steps of worker_pool_delete preserve it. *)

LEMMA CallDeleteInv ==
    ASSUME QueueInv, CallDelete
    PROVE  QueueInv'
<1> USE DEF QueueInv, CallDelete, ring, workerVars
<1>1. TypeOK'
  BY DEF TypeOK
<1>2. \A v \in Workers : InCallback(v)' <=> InCallback(v)
  BY DEF InCallback, TypeOK
<1>3. CallbacksExclude'
  BY <1>2 DEF CallbacksExclude
<1>4. RingConsistent' /\ CellsHoldJobs'
  BY <1>2, RingFrame
<1>5. NoLostWakeup'
  BY DEF NoLostWakeup, ThreadPhases, TypeOK
<1>6. ThreadPhases'
  BY DEF ThreadPhases, TypeOK
<1> QED
  BY <1>1, <1>3, <1>4, <1>5, <1>6

LEMMA RaiseShutdownInv ==
    ASSUME QueueInv, RaiseShutdown
    PROVE  QueueInv'
<1> USE DEF QueueInv, RaiseShutdown, ring, workerVars
<1>1. TypeOK'
  BY DEF TypeOK
<1>2. \A v \in Workers : InCallback(v)' <=> InCallback(v)
  BY DEF InCallback, TypeOK
<1>3. CallbacksExclude'
  BY <1>2 DEF CallbacksExclude
<1>4. RingConsistent' /\ CellsHoldJobs'
  BY <1>2, RingFrame
<1>5. NoLostWakeup'
  BY DEF NoLostWakeup, ThreadPhases, TypeOK
<1>6. ThreadPhases'
  BY DEF ThreadPhases, TypeOK
<1> QED
  BY <1>1, <1>3, <1>4, <1>5, <1>6

LEMMA BroadcastInv ==
    ASSUME QueueInv, Broadcast
    PROVE  QueueInv'
<1> USE DEF QueueInv, Broadcast, ring
<1>1. TypeOK'
  BY DEF TypeOK
<1>2. \A v \in Workers : InCallback(v)' <=> InCallback(v)
  BY DEF InCallback, TypeOK
<1>3. CallbacksExclude'
  BY <1>2 DEF CallbacksExclude
<1>4. RingConsistent' /\ CellsHoldJobs'
  BY <1>2, RingFrame
<1>5. NoLostWakeup'
  BY DEF NoLostWakeup, ThreadPhases, TypeOK
<1>6. ThreadPhases'
  BY DEF ThreadPhases, TypeOK
<1> QED
  BY <1>1, <1>3, <1>4, <1>5, <1>6

LEMMA JoinInv ==
    ASSUME QueueInv, Join
    PROVE  QueueInv'
<1> USE DEF QueueInv, Join, ring, workerVars
<1>1. TypeOK'
  BY DEF TypeOK
<1>2. \A v \in Workers : InCallback(v)' <=> InCallback(v)
  BY DEF InCallback, TypeOK
<1>3. CallbacksExclude'
  BY <1>2 DEF CallbacksExclude
<1>4. RingConsistent' /\ CellsHoldJobs'
  BY <1>2, RingFrame
<1>5. NoLostWakeup'
  BY DEF NoLostWakeup, ThreadPhases, TypeOK
<1>6. ThreadPhases'
  BY DEF ThreadPhases, TypeOK
<1> QED
  BY <1>1, <1>3, <1>4, <1>5, <1>6

-----------------------------------------------------------------------------
(* Every step of the program, and every stutter, preserves the invariant. *)
LEMMA NextQueueInv ==
    ASSUME QueueInv, [Next]_vars
    PROVE  QueueInv'
<1>1. CASE \E w \in Workers : WorkerStep(w)
  BY <1>1, WaitInv, WakeInv, TakeInv, ReturnInv, ExitInv DEF WorkerStep
<1>2. CASE \E j \in Jobs : Call(j)
  BY <1>2, CallInv
<1>3. CASE DispatchStep
  BY <1>3, EnqueueInv, GrowInv, DropInv, SignalInv DEF DispatchStep
<1>4. CASE CallDelete
  BY <1>4, CallDeleteInv
<1>5. CASE DeleteStep
  BY <1>5, RaiseShutdownInv, BroadcastInv, JoinInv DEF DeleteStep
<1>6. CASE UNCHANGED vars
  <2> USE <1>6 DEF vars, ring, workerVars, mainVars, QueueInv
  <2>1. TypeOK'
    BY DEF TypeOK
  <2>2. \A v \in Workers : InCallback(v)' <=> InCallback(v)
    BY DEF InCallback
  <2>3. CallbacksExclude'
    BY <2>2 DEF CallbacksExclude
  <2>4. RingConsistent' /\ CellsHoldJobs'
    BY <2>2, RingFrame
  <2>5. NoLostWakeup' /\ ThreadPhases'
    BY DEF NoLostWakeup, ThreadPhases
  <2> QED
    BY <2>1, <2>3, <2>4, <2>5
<1> QED
  BY <1>1, <1>2, <1>3, <1>4, <1>5, <1>6 DEF Next, Terminated

(* The queue's invariant holds in every reachable state, for any number of *)
(* workers and any capacity (workers.c). *)
THEOREM QueueInvariance == Spec => []QueueInv
<1>1. Init => QueueInv
  BY InitQueueInv
<1>2. QueueInv /\ [Next]_vars => QueueInv'
  BY NextQueueInv
<1> QED
  BY <1>1, <1>2, PTL DEF Spec

(* Type correctness: head stays inside the ring that data points to. *)
THEOREM TypeCorrect == Spec => []TypeOK
BY QueueInvariance, PTL DEF QueueInv

(* worker_callback never runs twice at the same time (workers.c:44-53). *)
THEOREM MutualExclusion == Spec => []CallbacksExclude
BY QueueInvariance, PTL DEF QueueInv

(* Wrap-around and resizing lose, duplicate and overwrite no action        *)
(* (workers.c:143-173). *)
THEOREM RingSafety == Spec => []RingConsistent
BY QueueInvariance, PTL DEF QueueInv

(* Signalling after the unlock loses no wake-up (workers.c:174-176). *)
THEOREM WakeupSafety == Spec => []NoLostWakeup
BY QueueInvariance, PTL DEF QueueInv

(* While a callback runs nobody writes to the ring: whoever writes to it   *)
(* holds the mutex (workers.c:44-55). *)
LEMMA RingUntouched ==
    ASSUME QueueInv, [Next]_vars, NEW w \in Workers, InCallback(w), InCallback(w)'
    PROVE  ring' = ring
<1>1. lock = w /\ lock # Nobody /\ wpc[w] = "callback" /\ wpc'[w] = "callback"
  BY QueueAssumption DEF QueueInv, CallbacksExclude, InCallback
<1>2. ASSUME NEW v \in Workers, WorkerStep(v)
      PROVE  ring' = ring
  <2>1. CASE Return(v)
    <3>1. v = w
      BY <2>1, <1>1 DEF Return, QueueInv, CallbacksExclude, InCallback
    <3> QED
      BY <2>1, <3>1, <1>1 DEF Return, QueueInv, TypeOK
  <2> QED
    BY <1>1, <1>2, <2>1 DEF WorkerStep, Wait, WakeSpuriously, Take, Exit, ring
<1>3. ASSUME NEW j \in Jobs, Call(j)
      PROVE  ring' = ring
  BY <1>3 DEF Call
<1>4. CASE DispatchStep
  BY <1>1, <1>4 DEF DispatchStep, Enqueue, GrowAndEnqueue, Drop, Signal
<1>5. CASE CallDelete \/ DeleteStep
  BY <1>5 DEF CallDelete, DeleteStep, RaiseShutdown, Broadcast, Join
<1>6. CASE UNCHANGED vars
  BY <1>6 DEF vars
<1> QED
  BY <1>2, <1>3, <1>4, <1>5, <1>6 DEF Next, Terminated

(* The payload a callback reads does not change under it, although it is   *)
(* read from the ring and not from a copy (workers.c:51). *)
THEOREM PayloadSafety == Spec => PayloadStable
<1>1. QueueInv /\ [Next]_vars =>
        [\A w \in Workers : InCallback(w) /\ InCallback(w)' =>
            data'[idx[w]].job = data[idx[w]].job]_vars
  BY RingUntouched DEF ring
<1> QED
  BY <1>1, QueueInvariance, PTL DEF Spec, PayloadStable

-----------------------------------------------------------------------------
(* The refinement of JobQueue.                                             *)

(* Pending is a sequence of jobs. *)
LEMMA PendingSeq ==
    ASSUME QueueInv
    PROVE  Pending \in Seq(Jobs) /\ Len(Pending) = count
<1>1. count \in Nat
  BY DEF QueueInv, TypeOK
<1>2. ASSUME NEW i \in 1 .. count
      PROVE  data[CellOf(i-1)].job \in Jobs
  <2>1. i-1 \in 0 .. count-1
    BY <1>1
  <2> QED
    BY <2>1 DEF QueueInv, CellsHoldJobs
<1>3. Pending \in [1 .. count -> Jobs]
  BY <1>2 DEF Pending
<1> QED
  BY <1>1, <1>3

(* Running is the job of the one worker in a callback. *)
LEMMA RunningValue ==
    ASSUME QueueInv
    PROVE  /\ \A w \in Workers : InCallback(w) =>
                 Running = data[idx[w]].job /\ Running \in Jobs
           /\ lock = Nobody => Running = NoJob
<1>1. \A v, w \in Workers : InCallback(v) /\ InCallback(w) => v = w
  BY DEF QueueInv, CallbacksExclude
<1>2. ASSUME NEW w \in Workers, InCallback(w)
      PROVE  Running = data[idx[w]].job
  <2>1. (CHOOSE v \in Workers : InCallback(v)) = w
    BY <1>1, <1>2
  <2> QED
    BY <1>2, <2>1 DEF Running
<1>3. ASSUME NEW w \in Workers, InCallback(w)
      PROVE  data[idx[w]].job \in Jobs
  BY <1>3 DEF QueueInv, CellsHoldJobs
<1>4. ASSUME lock = Nobody PROVE Running = NoJob
  BY <1>4, QueueAssumption DEF QueueInv, CallbacksExclude, Running
<1> QED
  BY <1>2, <1>3, <1>4

(* The same of the state a step leads to. *)
LEMMA RunningNextValue ==
    ASSUME QueueInv'
    PROVE  /\ \A w \in Workers : InCallback(w)' => Running' = data'[idx'[w]].job
           /\ lock' = Nobody => Running' = NoJob
<1>1. \A v, w \in Workers : InCallback(v)' /\ InCallback(w)' => v = w
  BY DEF QueueInv, CallbacksExclude
<1>2. ASSUME NEW w \in Workers, InCallback(w)'
      PROVE  Running' = data'[idx'[w]].job
  <2>1. (CHOOSE v \in Workers : InCallback(v)') = w
    BY <1>1, <1>2
  <2> QED
    BY <1>2, <2>1 DEF Running
<1>3. ASSUME lock' = Nobody PROVE Running' = NoJob
  BY <1>3, QueueAssumption DEF QueueInv, CallbacksExclude, Running
<1> QED
  BY <1>2, <1>3

(* A step that leaves the ring alone and moves no worker into or out of a  *)
(* callback leaves the abstract queue alone. *)
LEMMA AbstractStutter ==
    ASSUME QueueInv, QueueInv', ring' = ring, idx' = idx,
           \A w \in Workers : InCallback(w)' <=> InCallback(w)
    PROVE  Pending' = Pending /\ Running' = Running
<1>1. Pending' = Pending
  BY DEF Pending, CellOf, ring
<1>2. CASE \E w \in Workers : InCallback(w)
  <2>1. PICK w \in Workers : InCallback(w) /\ InCallback(w)'
    BY <1>2
  <2>2. Running = data[idx[w]].job
    BY <2>1, RunningValue
  <2>3. Running' = data'[idx'[w]].job
    BY <2>1, RunningNextValue
  <2> QED
    BY <1>1, <2>2, <2>3 DEF ring
<1>3. CASE ~\E w \in Workers : InCallback(w)
  BY <1>1, <1>3 DEF Running
<1> QED
  BY <1>2, <1>3

(* Taking the oldest action out of the ring is taking the head of Pending. *)
LEMMA TakeRefines ==
    ASSUME QueueInv, QueueInv', NEW w \in Workers, Take(w)
    PROVE  JQ!Take
<1>1. /\ capacity \in Nat \ {0} /\ head \in 0 .. capacity-1
      /\ count \in 1 .. capacity-1 /\ ~shutting_down /\ lock = Nobody
      /\ data \in [0 .. capacity-1 -> Cells]
  BY DEF QueueInv, TypeOK, RingConsistent, Take, HasWork
<1>2. /\ idx'[w] = head /\ InCallback(w)' /\ head' = NextHead
      /\ count' = count - 1 /\ capacity' = capacity /\ shutting_down' = shutting_down
      /\ \A c \in 0 .. capacity-1 : data'[c].job = data[c].job
  BY <1>1 DEF QueueInv, TypeOK, Take, EnterCallback, InCallback
<1>3. Running = NoJob /\ Running' = data[head].job
  BY <1>1, <1>2, RunningValue, RunningNextValue
<1>4. CellOf(0) = head
  <2>1. 0 \in 0 .. capacity-1
    BY <1>1
  <2> QED
    BY <1>1, <2>1, CellOfValue
<1>5. Pending \in Seq(Jobs) /\ Len(Pending) = count
  BY PendingSeq
<1>6. Pending # <<>> /\ Head(Pending) = data[head].job
  <2>1. Pending[1] = data[CellOf(1-1)].job
    BY <1>1 DEF Pending
  <2> QED
    BY <1>1, <1>4, <1>5, <2>1
<1>7. Pending' = Tail(Pending)
  <2>1. Tail(Pending) = [i \in 1 .. count-1 |-> Pending[i+1]]
    BY <1>1, <1>5
  <2>2. ASSUME NEW i \in 1 .. count-1
        PROVE  data'[CellOf(i-1)'].job = Pending[i+1]
    <3>1. i-1 \in 0 .. capacity-2 /\ i \in 0 .. capacity-1 /\ i + 1 \in 1 .. count
          /\ (i-1) + 1 = i /\ (i+1) - 1 = i
      BY <1>1
    <3>2. CellOf(i-1)' = CellOf((i-1) + 1)
      BY <1>1, <1>2, <3>1, CellOfAfterTake
    <3>3. CellOf(i-1)' = CellOf(i)
      BY <3>1, <3>2
    <3>4. CellOf(i) \in 0 .. capacity-1
      BY <1>1, <3>1, CellOfValue
    <3>5. Pending[i+1] = data[CellOf((i+1) - 1)].job
      BY <3>1 DEF Pending
    <3> QED
      BY <1>2, <3>1, <3>3, <3>4, <3>5
  <2>3. Pending' = [i \in 1 .. count-1 |-> data'[CellOf(i-1)'].job]
    BY <1>2 DEF Pending
  <2> QED
    BY <2>1, <2>2, <2>3
<1> QED
  BY <1>1, <1>2, <1>3, <1>6, <1>7 DEF JQ!Take

(* A callback that returns finishes the running job. *)
LEMMA ReturnRefines ==
    ASSUME QueueInv, QueueInv', NEW w \in Workers, Return(w)
    PROVE  JQ!Finish
<1>1. Running \in Jobs /\ Running # NoJob
  BY RunningValue, QueueAssumption DEF Return, InCallback
<1>2. Running' = NoJob
  BY RunningNextValue DEF Return
<1>3. /\ capacity \in Nat \ {0} /\ head \in 0 .. capacity-1
      /\ count \in 0 .. capacity-1
      /\ data \in [0 .. capacity-1 -> Cells] /\ idx[w] \in 0 .. capacity-1
  BY DEF QueueInv, TypeOK, RingConsistent, CellsHoldJobs, Return, InCallback
<1>4. \A c \in 0 .. capacity-1 : data'[c].job = data[c].job
  BY <1>3 DEF Return
<1>5. ASSUME NEW i \in 1 .. count
      PROVE  data'[CellOf(i-1)'].job = data[CellOf(i-1)].job
  <2>1. i-1 \in 0 .. capacity-1
    BY <1>3
  <2>2. CellOf(i-1) \in 0 .. capacity-1
    BY <1>3, <2>1, CellOfValue
  <2>3. CellOf(i-1)' = CellOf(i-1)
    BY DEF CellOf, Return
  <2> QED
    BY <1>4, <2>2, <2>3
<1>6. Pending' = [i \in 1 .. count |-> data'[CellOf(i-1)'].job]
  BY DEF Pending, Return
<1>7. Pending' = Pending
  BY <1>5, <1>6 DEF Pending
<1> QED
  BY <1>1, <1>2, <1>7 DEF JQ!Finish, Return

(* Filling the cell behind the youngest action appends to Pending, whether *)
(* or not the ring is resized first. *)
LEMMA PutRefines ==
    ASSUME QueueInv, QueueInv', Enqueue \/ GrowAndEnqueue
    PROVE  JQ!Put(offer)
<1>1. /\ capacity \in Nat \ {0} /\ head \in 0 .. capacity-1
      /\ count \in 0 .. capacity-1 /\ ~shutting_down /\ lock = Nobody /\ lock' = Nobody
      /\ shutting_down' = shutting_down /\ count' = count + 1 /\ count + 1 - 1 = count
      /\ data \in [0 .. capacity-1 -> Cells]
  BY DEF QueueInv, TypeOK, RingConsistent, ThreadPhases, Enqueue, GrowAndEnqueue
<1>2. Running = NoJob /\ Running' = NoJob
  BY <1>1, RunningValue, RunningNextValue
<1>3. Pending \in Seq(Jobs) /\ Len(Pending) = count
  BY PendingSeq
<1>4. ASSUME NEW i \in 0 .. count
      PROVE  data'[CellOf(i)'].job = IF i = count THEN offer ELSE data[CellOf(i)].job
  <2>1. CASE Enqueue
    <3>1. count \in 0 .. capacity-1 /\ i \in 0 .. capacity-1
      BY <1>1
    <3>2. /\ CellOf(count) = IF head + count < capacity THEN head + count
                                                       ELSE head + count - capacity
          /\ CellOf(count) \in 0 .. capacity-1
      BY <1>1, <3>1, CellOfValue
    <3>3. /\ CellOf(i) = IF head + i < capacity THEN head + i
                                               ELSE head + i - capacity
          /\ CellOf(i) \in 0 .. capacity-1
      BY <1>1, <3>1, CellOfValue
    <3>4. i # count => CellOf(i) # CellOf(count)
      BY <1>1, <3>1, <3>2, <3>3
    <3>5. /\ data' = [data EXCEPT ![CellOf(count)] = FilledCell(offer)]
          /\ CellOf(i)' = CellOf(i)
      BY <2>1 DEF Enqueue, CellOf
    <3> QED
      BY <1>1, <3>2, <3>3, <3>4, <3>5 DEF FilledCell
  <2>2. CASE GrowAndEnqueue
    <3>1. count % (2 * capacity) = count /\ CellOf(i)' = i
      BY <2>2, CellOfAfterGrow
    <3>2. data' = [Grown EXCEPT ![count] = FilledCell(offer)]
      BY <2>2, <3>1 DEF GrowAndEnqueue
    <3>3. i \in 0 .. 2 * capacity - 1 /\ (i # count => i < count)
      BY <1>1
    <3>4. data'[i] = IF i = count THEN FilledCell(offer) ELSE Grown[i]
      BY <3>2, <3>3 DEF Grown
    <3>5. i # count => Grown[i] = data[CellOf(i)]
      BY <3>3 DEF Grown
    <3> QED
      BY <3>1, <3>4, <3>5 DEF FilledCell
  <2> QED
    BY <2>1, <2>2
<1>5. Pending' = Append(Pending, offer)
  <2>1. Pending' = [i \in 1 .. count+1 |-> data'[CellOf(i-1)'].job]
    BY <1>1 DEF Pending
  <2>2. ASSUME NEW i \in 1 .. count+1
        PROVE  data'[CellOf(i-1)'].job = IF i = count+1 THEN offer ELSE Pending[i]
    <3>1. /\ i-1 \in 0 .. count /\ (i-1 = count <=> i = count+1)
          /\ i # count+1 => i \in 1 .. count
      BY <1>1
    <3>2. data'[CellOf(i-1)'].job = IF i-1 = count THEN offer ELSE data[CellOf(i-1)].job
      BY <1>4, <3>1
    <3>3. i # count+1 => Pending[i] = data[CellOf(i-1)].job
      BY <3>1 DEF Pending
    <3> QED
      BY <3>1, <3>2, <3>3
  <2>3. Pending' = [i \in 1 .. count+1 |-> IF i = count+1 THEN offer ELSE Pending[i]]
    BY <2>1, <2>2
  <2>4. offer \in Jobs
    BY DEF QueueInv, ThreadPhases, Enqueue, GrowAndEnqueue
  <2> DEFINE s == Pending
  <2>5. s \in Seq(Jobs) /\ Len(s) = count /\ count \in Nat
    BY <1>1, <1>3
  <2>6. /\ Append(s, offer) \in Seq(Jobs) /\ Len(Append(s, offer)) = count+1
        /\ \A i \in 1 .. count+1 :
              Append(s, offer)[i] = IF i = count+1 THEN offer ELSE s[i]
    <3> HIDE DEF s
    <3> QED
      BY <2>4, <2>5
  <2> DEFINE t == [i \in 1 .. count+1 |-> IF i = count+1 THEN offer ELSE s[i]]
  <2>7. t \in [1 .. count+1 -> Jobs] /\ \A i \in 1 .. count+1 : t[i] = Append(s, offer)[i]
    <3> HIDE DEF s
    <3> QED
      BY <2>4, <2>5, <2>6
  <2>8. t \in Seq(Jobs) /\ Len(t) = count+1
    <3> HIDE DEF t
    <3> QED
      BY <2>5, <2>7
  <2>9. t = Append(s, offer)
    <3> HIDE DEF s, t
    <3> QED
      BY <2>6, <2>7, <2>8, SeqEqual
  <2> QED
    BY <2>3, <2>9
<1> QED
  BY <1>1, <1>2, <1>5 DEF JQ!Put

(* Every step of the pool is a step of JobQueue or leaves it alone. *)
LEMMA NextRefines ==
    ASSUME QueueInv, QueueInv', [Next]_vars
    PROVE  [JQ!Next]_JQ!jobVars
<1>1. ASSUME ring' = ring, idx' = idx, shutting_down' = shutting_down,
             \A w \in Workers : InCallback(w)' <=> InCallback(w)
      PROVE  UNCHANGED JQ!jobVars
  BY <1>1, AbstractStutter DEF JQ!jobVars
<1>2. ASSUME NEW w \in Workers, WorkerStep(w)
      PROVE  [JQ!Next]_JQ!jobVars
  <2>1. CASE Take(w)
    BY <2>1, TakeRefines DEF JQ!Next
  <2>2. CASE Return(w)
    BY <2>2, ReturnRefines DEF JQ!Next
  <2>3. CASE Wait(w) \/ WakeSpuriously(w) \/ Exit(w)
    BY <1>1, <2>3 DEF Wait, WakeSpuriously, Exit, InCallback, QueueInv, TypeOK
  <2> QED
    BY <1>2, <2>1, <2>2, <2>3 DEF WorkerStep
<1>3. ASSUME NEW j \in Jobs, Call(j)
      PROVE  UNCHANGED JQ!jobVars
  BY <1>1, <1>3 DEF Call, workerVars, InCallback
<1>4. CASE DispatchStep
  <2>1. CASE Enqueue \/ GrowAndEnqueue
    <3>1. offer \in Jobs
      BY <2>1 DEF QueueInv, ThreadPhases, Enqueue, GrowAndEnqueue
    <3> QED
      BY <2>1, <3>1, PutRefines DEF JQ!Next
  <2>2. CASE Drop \/ Signal
    BY <1>1, <2>2 DEF Drop, Signal, workerVars, InCallback, QueueInv, TypeOK
  <2> QED
    BY <1>4, <2>1, <2>2 DEF DispatchStep
<1>5. CASE DeleteStep
  <2>1. CASE RaiseShutdown
    <3>1. Pending' = Pending /\ Running' = Running
      BY <2>1, AbstractStutter DEF RaiseShutdown, workerVars, InCallback
    <3>2. Running = NoJob /\ ~shutting_down
      BY <2>1, RunningValue DEF RaiseShutdown, QueueInv, ThreadPhases
    <3> QED
      BY <2>1, <3>1, <3>2 DEF RaiseShutdown, JQ!Next, JQ!Stop
  <2>2. CASE Broadcast \/ Join
    BY <1>1, <2>2 DEF Broadcast, Join, workerVars, InCallback, QueueInv, TypeOK
  <2> QED
    BY <1>5, <2>1, <2>2 DEF DeleteStep
<1>6. CASE CallDelete \/ UNCHANGED vars
  BY <1>1, <1>6 DEF CallDelete, vars, workerVars, InCallback
<1> QED
  BY <1>2, <1>3, <1>4, <1>5, <1>6 DEF Next, Terminated

(* The initial state of the pool is the initial state of JobQueue. *)
LEMMA InitRefines == Init => JQ!Init
<1> SUFFICES ASSUME Init PROVE JQ!Init
  OBVIOUS
<1>1. Pending = <<>>
  BY DEF Init, Pending
<1>2. Running = NoJob
  BY DEF Init, Running, InCallback
<1> QED
  BY <1>1, <1>2 DEF Init, JQ!Init

(* The safety half of ImplementsJobQueue: for any number of workers and    *)
(* any capacity, worker_callback is given the actions in the order of      *)
(* dispatch_command, one at a time, and none after shutdown (workers.c). *)
THEOREM PoolImplementsJobQueue == Spec => JQ!SafeSpec
<1>1. Init => JQ!Init
  BY InitRefines
<1>2. QueueInv /\ QueueInv' /\ [Next]_vars => [JQ!Next]_JQ!jobVars
  BY NextRefines
<1> QED
  BY <1>1, <1>2, QueueInvariance, PTL DEF Spec, JQ!SafeSpec
=============================================================================
