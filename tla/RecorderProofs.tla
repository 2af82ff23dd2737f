--------------------------- MODULE RecorderProofs ---------------------------
(***************************************************************************)
(* Proofs about Recorder: for every ring size, every number of records and *)
(* every number of disk errors.                                            *)
(***************************************************************************)
EXTENDS Recorder, TLAPS

-----------------------------------------------------------------------------
(* Two indices less than n apart are in different slots of a ring of n slots. *)
LEMMA ModInjective ==
  ASSUME NEW n \in Nat \ {0}, NEW i \in Nat, NEW j \in Nat, i < j, j < i + n
  PROVE  i % n # j % n
<1>. DEFINE p == i \div n
            q == j \div n
<1>1. p \in Int /\ q \in Int /\ i % n \in Int /\ j % n \in Int
  OBVIOUS
<1>2. i = n * p + (i % n) /\ j = n * q + (j % n)
  OBVIOUS
<1>3. SUFFICES ASSUME i % n = j % n PROVE FALSE
  OBVIOUS
<1>4. j - i = n * (q - p)
  BY <1>1, <1>2, <1>3
<1>5. q - p > 0
  BY <1>1, <1>4
<1>6. n * (q - p) >= n
  BY <1>1, <1>5
<1>. QED BY <1>4, <1>6

LEMMA SlotInRing == \A i \in Nat : Slot(i) \in 0..Size-1
  BY SizeAssumption DEF Slot

LEMMA SlotsDiffer ==
  ASSUME NEW i \in Nat, NEW j \in Nat, i < j, j < i + Size
  PROVE  Slot(i) # Slot(j)
BY ModInjective, SizeAssumption DEF Slot

-----------------------------------------------------------------------------
LEMMA TypeInductive == TypeOK /\ [Next]_vars => TypeOK'
<1>. SUFFICES ASSUME TypeOK, [Next]_vars PROVE TypeOK'
  OBVIOUS
<1>. USE DEF TypeOK, bridgeVars, writerVars
<1>1. CASE RecordDrops
  BY <1>1 DEF RecordDrops
<1>2. CASE RecordFindsRoom
  BY <1>2 DEF RecordFindsRoom
<1>3. CASE RecordCopies
  BY <1>3, SlotInRing DEF RecordCopies
<1>4. CASE RecordPublishes
  BY <1>4 DEF RecordPublishes
<1>5. CASE StopClears
  BY <1>5 DEF StopClears
<1>6. CASE StopCloses
  BY <1>6 DEF StopCloses
<1>7. CASE LoadIndices
  BY <1>7 DEF LoadIndices
<1>8. CASE CheckRunning
  BY <1>8 DEF CheckRunning
<1>9. CASE WriteOne
  <2>1. ring[Slot(wTail)] \in Nat
    BY SlotInRing
  <2>. QED BY <1>9, <2>1 DEF WriteOne
<1>10. CASE WriteOneFails
  BY <1>10 DEF WriteOneFails
<1>11. CASE ReleaseBatch
  BY <1>11 DEF ReleaseBatch
<1>12. CASE WriterExits
  BY <1>12 DEF WriterExits
<1>13. CASE UNCHANGED vars
  BY <1>13 DEF vars
<1>. QED
  BY <1>1, <1>2, <1>3, <1>4, <1>5, <1>6, <1>7, <1>8, <1>9, <1>10, <1>11,
     <1>12, <1>13 DEF Next, Bridge, Writer, Closed

(***************************************************************************)
(* Type correctness: the recorder's members, locals and file keep the      *)
(* types recorder.hpp gives them.                                          *)
(***************************************************************************)
THEOREM TypeCorrect == Safety => []TypeOK
<1>1. Init => TypeOK
  BY SizeAssumption DEF Init, TypeOK, NoState
<1>. QED BY <1>1, TypeInductive, PTL DEF Safety

-----------------------------------------------------------------------------
(***************************************************************************)
(* The inductive invariant.  Actions of the bridge thread leave Consumed   *)
(* and the file alone; actions of the writer leave the ring, head and      *)
(* accepted alone.  What each can disturb is proved action by action.      *)
(***************************************************************************)
LEMMA InitIInv == Init => IInv
<1>. SUFFICES ASSUME Init PROVE IInv
  OBVIOUS
<1>1. TypeOK
  BY SizeAssumption DEF Init, TypeOK, NoState
<1>2. Indices /\ Counts
  BY SizeAssumption DEF Init, Indices, Counts, Returned, Consumed
<1>3. Contents /\ CaptureInOrder
  BY SizeAssumption DEF Init, Contents, CaptureInOrder, Returned, Consumed
<1>. QED BY <1>1, <1>2, <1>3 DEF IInv

(* The window of indices the writer has not dealt with. *)
LEMMA Window ==
  ASSUME TypeOK, Indices
  PROVE  /\ Consumed \in Nat /\ tail <= Consumed /\ Consumed <= head
         /\ head - Consumed <= Size
         /\ bpc \in {"copy", "publish"} => head - Consumed < Size
<1>. USE SizeAssumption DEF TypeOK, Indices, Consumed
<1>1. CASE wpc = "drain"
  BY <1>1
<1>2. CASE wpc # "drain"
  BY <1>2
<1>. QED BY <1>1, <1>2

LEMMA StepRecordCopies == IInv /\ RecordCopies => IInv'
<1>. SUFFICES ASSUME IInv, RecordCopies PROVE IInv'
  OBVIOUS
<1>. USE DEF IInv, RecordCopies, TypeOK, writerVars
<1>1. TypeOK'
  BY SlotInRing
<1>2. Consumed' = Consumed /\ Returned' = Returned /\ Consumed \in Nat
  BY DEF Consumed, Returned
<1>3. Indices' /\ Counts'
  BY <1>2 DEF Indices, Counts
<1>4. CaptureInOrder'
  BY <1>2 DEF CaptureInOrder
<1>5. ASSUME NEW i \in Consumed..head-1
      PROVE  ring'[Slot(i)] = accepted[i + 1]
  <2>1. i \in Nat /\ i < head /\ head < i + Size
    BY Window, <1>5, SizeAssumption
  <2>2. Slot(i) # Slot(head) /\ Slot(i) \in 0..Size-1
    BY <2>1, SlotsDiffer, SlotInRing
  <2>. QED BY <2>2, <1>5 DEF Contents
<1>6. ring'[Slot(head)] = calls
  BY SlotInRing
<1>7. Contents'
  BY <1>2, <1>5, <1>6 DEF Contents
<1>. QED BY <1>1, <1>3, <1>4, <1>7

LEMMA StepRecordPublishes == IInv /\ RecordPublishes => IInv'
<1>. SUFFICES ASSUME IInv, RecordPublishes PROVE IInv'
  OBVIOUS
<1>. USE DEF IInv, RecordPublishes, TypeOK, writerVars
<1>1. TypeOK'
  OBVIOUS
<1>2. Consumed' = Consumed /\ Consumed \in Nat /\ Returned = calls - 1 /\ Returned' = calls
  BY DEF Consumed, Returned
<1>3. Indices' /\ Counts'
  <2>1. Indices'
    BY SizeAssumption DEF Indices
  <2>2. Counts'
    BY <1>2 DEF Counts
  <2>. QED BY <2>1, <2>2
<1>4. /\ Len(accepted) = head
      /\ Len(accepted') = head + 1
      /\ accepted'[head + 1] = calls
      /\ \A i \in 1..head : accepted'[i] = accepted[i]
  BY DEF Contents
<1>5. Consumed <= head
  BY DEF Consumed, Indices
<1>6. CaptureInOrder'
  BY <1>2, <1>4, <1>5 DEF CaptureInOrder
<1>7. Contents'
  <2>1. ASSUME NEW i \in Consumed..head PROVE ring[Slot(i)] = accepted'[i + 1]
    BY <2>1, <1>2, <1>4 DEF Contents
  <2>2. ASSUME NEW i \in 1..head+1, NEW j \in 1..head+1, i < j
        PROVE  accepted'[i] < accepted'[j]
    <3>1. CASE j = head + 1
      <4>1. i \in 1..head /\ accepted[i] <= calls - 1 /\ accepted[i] \in Nat
        BY <2>2, <3>1, <1>2, <1>4 DEF Contents
      <4>. QED BY <4>1, <3>1, <1>4
    <3>2. CASE j # head + 1
      <4>1. i \in 1..head /\ j \in 1..head
        BY <2>2, <3>2
      <4>. QED BY <4>1, <2>2, <1>4 DEF Contents
    <3>. QED BY <3>1, <3>2
  <2>3. ASSUME NEW i \in 1..head+1 PROVE accepted'[i] <= calls
    BY <2>3, <1>2, <1>4 DEF Contents
  <2>. QED BY <2>1, <2>2, <2>3, <1>2, <1>4 DEF Contents
<1>. QED BY <1>1, <1>3, <1>6, <1>7

LEMMA BelowLast ==
  ASSUME NEW n \in Nat, NEW i \in 1..n+1, NEW j \in 1..n+1, i < j, j # n + 1
  PROVE  i \in 1..n /\ j \in 1..n
OBVIOUS

LEMMA StepWriteOne == IInv /\ WriteOne => IInv'
<1>. SUFFICES ASSUME IInv, WriteOne PROVE IInv'
  OBVIOUS
<1>. USE DEF IInv, WriteOne, TypeOK, bridgeVars
<1>1. TypeOK'
  <2>1. ring[Slot(wTail)] \in Nat
    BY SlotInRing
  <2>. QED BY <2>1
<1>2. /\ Consumed = wTail /\ Consumed' = wTail + 1
      /\ Returned' = Returned /\ wTail < wHead /\ wHead <= head
  BY DEF Consumed, Returned, Indices
<1>3. Indices' /\ Counts'
  BY <1>2 DEF Indices, Counts
<1>4. Contents'
  BY <1>2 DEF Contents
<1>5. CaptureInOrder'
  <2>1. ring[Slot(wTail)] = accepted[wTail + 1]
    BY <1>2 DEF Contents
  <2>2. /\ Len(file') = Len(file) + 1
        /\ file'[Len(file) + 1] = accepted[wTail + 1]
        /\ \A i \in 1..Len(file) : file'[i] = file[i]
    BY <2>1
  <2>3. ASSUME NEW i \in 1..Len(file) PROVE file[i] < accepted[wTail + 1]
    <3>1. PICK k \in 1..wTail : file[i] = accepted[k]
      BY <1>2 DEF CaptureInOrder
    <3>. QED BY <3>1, <1>2 DEF Contents
  <2>4. ASSUME NEW i \in 1..Len(file'), NEW j \in 1..Len(file'), i < j
        PROVE  file'[i] < file'[j]
    <3>. Len(file) \in Nat /\ i \in 1..Len(file)+1 /\ j \in 1..Len(file)+1
      BY <2>2, <2>4
    <3>1. CASE j = Len(file) + 1
      BY <2>2, <2>3, <2>4, <3>1
    <3>2. CASE j # Len(file) + 1
      <4>1. i \in 1..Len(file) /\ j \in 1..Len(file)
        BY <2>4, <3>2, BelowLast
      <4>2. file[i] < file[j]
        BY <4>1, <2>4 DEF CaptureInOrder
      <4>. QED BY <4>1, <4>2, <2>2
    <3>. QED BY <3>1, <3>2
  <2>5. ASSUME NEW i \in 1..Len(file')
        PROVE  \E k \in 1..wTail+1 : file'[i] = accepted'[k]
    <3>1. CASE i = Len(file) + 1
      BY <2>2, <3>1
    <3>2. CASE i # Len(file) + 1
      BY <2>2, <2>5, <3>2, <1>2 DEF CaptureInOrder
    <3>. QED BY <3>1, <3>2
  <2>. QED BY <2>4, <2>5, <1>2 DEF CaptureInOrder
<1>. QED BY <1>1, <1>3, <1>4, <1>5

LEMMA StepWriteOneFails == IInv /\ WriteOneFails => IInv'
<1>. SUFFICES ASSUME IInv, WriteOneFails PROVE IInv'
  OBVIOUS
<1>. USE DEF IInv, WriteOneFails, TypeOK, bridgeVars
<1>1. TypeOK'
  OBVIOUS
<1>2. /\ Consumed = wTail /\ Consumed' = wTail + 1
      /\ Returned' = Returned /\ wTail < wHead /\ wHead <= head
  BY DEF Consumed, Returned, Indices
<1>3. Indices' /\ Counts'
  BY <1>2 DEF Indices, Counts
<1>4. Contents'
  <2>1. /\ UNCHANGED <<ring, head, accepted, bpc, calls>>
        /\ \A i \in Consumed'..head-1 : i \in Consumed..head-1
    BY <1>2
  <2>. QED BY <2>1, <1>2 DEF Contents
<1>5. CaptureInOrder'
  <2>1. file' = file /\ accepted' = accepted /\ \A k \in 1..Consumed : k \in 1..Consumed'
    BY <1>2
  <2>. QED BY <2>1 DEF CaptureInOrder
<1>. QED BY <1>1, <1>3, <1>4, <1>5

(* The remaining actions move neither Consumed nor any state. *)
LEMMA StepOthers ==
  ASSUME IInv,
         \/ RecordDrops \/ RecordFindsRoom \/ StopClears \/ StopCloses
         \/ LoadIndices \/ CheckRunning \/ ReleaseBatch \/ WriterExits
         \/ UNCHANGED vars
  PROVE  IInv'
<1>. USE DEF IInv, bridgeVars, writerVars
<1>1. TypeOK'
  BY TypeInductive DEF Next, Bridge, Writer
<1>2. /\ head' = head /\ accepted' = accepted /\ ring' = ring /\ file' = file
      /\ written' = written /\ diskErrors' = diskErrors
      /\ bpc' = "publish" => bpc = "publish" /\ calls' = calls
  BY DEF RecordDrops, RecordFindsRoom, StopClears, StopCloses, LoadIndices,
         CheckRunning, ReleaseBatch, WriterExits, vars
<1>3. Consumed' = Consumed
  BY DEF RecordDrops, RecordFindsRoom, StopClears, StopCloses, LoadIndices,
         CheckRunning, ReleaseBatch, WriterExits, vars, Consumed, TypeOK
<1>4. /\ Returned \in Int /\ Returned' \in Int /\ Returned <= Returned'
      /\ Returned' = Returned + (dropped' - dropped)
  <2>1. CASE RecordDrops
    BY <2>1 DEF RecordDrops, Returned, TypeOK
  <2>2. CASE RecordFindsRoom
    BY <2>2 DEF RecordFindsRoom, Returned, TypeOK
  <2>3. CASE StopClears \/ StopCloses
    BY <2>3 DEF StopClears, StopCloses, Returned, TypeOK
  <2>4. CASE LoadIndices \/ CheckRunning \/ ReleaseBatch \/ WriterExits \/ UNCHANGED vars
    BY <2>4 DEF LoadIndices, CheckRunning, ReleaseBatch, WriterExits, vars, Returned, TypeOK
  <2>. QED BY <2>1, <2>2, <2>3, <2>4
<1>5. Indices'
  <2>1. CASE RecordFindsRoom
    BY <2>1, SizeAssumption DEF RecordFindsRoom, RingFull, Indices, TypeOK
  <2>2. CASE RecordDrops \/ StopClears \/ StopCloses
    BY <2>2 DEF RecordDrops, StopClears, StopCloses, Indices
  <2>3. CASE LoadIndices
    BY <2>3 DEF LoadIndices, Indices, TypeOK
  <2>4. CASE ReleaseBatch
    BY <2>4, SizeAssumption DEF ReleaseBatch, Indices, TypeOK
  <2>5. CASE CheckRunning \/ WriterExits \/ UNCHANGED vars
    BY <2>5 DEF CheckRunning, WriterExits, vars, Indices
  <2>. QED BY <2>1, <2>2, <2>3, <2>4, <2>5
<1>6. Counts'
  <2>1. Returned = head + dropped /\ Consumed = written + diskErrors /\ Len(file) = written
    BY DEF Counts
  <2>2. Returned' = head' + dropped'
    <3>1. head \in Int /\ dropped \in Int /\ dropped' \in Int /\ head' = head
      BY <1>1, <1>2 DEF TypeOK
    <3>. HIDE DEF IInv
    <3>. QED BY <3>1, <2>1, <1>4
  <2>3. Consumed' = written' + diskErrors' /\ Len(file') = written'
    BY <2>1, <1>2, <1>3
  <2>. QED BY <2>2, <2>3 DEF Counts
<1>7. CaptureInOrder'
  BY <1>2, <1>3 DEF CaptureInOrder
<1>8. Contents'
  <2>1. ASSUME NEW i \in 1..head PROVE accepted[i] <= Returned'
    <3>1. accepted[i] <= Returned /\ accepted[i] \in Int
      BY DEF Contents, TypeOK
    <3>. QED BY <3>1, <1>4
  <2>2. bpc' = "publish" => ring'[Slot(head')] = calls'
    BY <1>2 DEF Contents
  <2>. QED BY <2>1, <2>2, <1>2, <1>3 DEF Contents
<1>. QED BY <1>1, <1>5, <1>6, <1>7, <1>8

LEMMA IInvInductive == IInv /\ [Next]_vars => IInv'
BY StepRecordCopies, StepRecordPublishes, StepWriteOne, StepWriteOneFails, StepOthers
   DEF Next, Bridge, Writer, Closed

THEOREM InductiveInvariant == Safety => []IInv
BY InitIInv, IInvInductive, PTL DEF Safety

-----------------------------------------------------------------------------
(***************************************************************************)
(* The capture file is a duplicate-free, in-order selection of what was    *)
(* recorded, for every ring size (recorder.cpp:27-57).                     *)
(***************************************************************************)
THEOREM FileInOrder == Safety => []CaptureInOrder
<1>1. IInv => CaptureInOrder
  BY DEF IInv
<1>. QED BY <1>1, InductiveInvariant, PTL

(***************************************************************************)
(* The non-atomic accesses to a slot never race, for every ring size: this *)
(* is what the bound "head - tail >= size" at recorder.cpp:30 and the      *)
(* release of whole batches at :56 are for.                                *)
(***************************************************************************)
THEOREM SlotsNeverRace == Safety => []NoSlotRace
<1>1. IInv => NoSlotRace
  <2>. SUFFICES ASSUME IInv, bpc = "copy", NEW i \in Consumed..head-1
                PROVE  Slot(i) # Slot(head)
    BY DEF NoSlotRace
  <2>1. i \in Nat /\ head \in Nat /\ i < head /\ head < i + Size
    BY Window, SizeAssumption DEF IInv, TypeOK
  <2>. QED BY <2>1, SlotsDiffer
<1>. QED BY <1>1, InductiveInvariant, PTL

(***************************************************************************)
(* Every returned call of record() is written, counted as dropped, lost to *)
(* a counted disk error or still in the ring.                              *)
(***************************************************************************)
THEOREM CallsAccounted == Safety => []EveryCallAccounted
<1>1. IInv => EveryCallAccounted
  BY DEF IInv, TypeOK, Counts, EveryCallAccounted, Returned, Consumed
<1>. QED BY <1>1, InductiveInvariant, PTL

-----------------------------------------------------------------------------
(***************************************************************************)
(* Refinement of CaptureLog.  Under the invariant the queue the ring       *)
(* stands for is what was accepted and not yet dealt with, so each action  *)
(* of the two threads is read off as a step of the FIFO or as a stutter.   *)
(***************************************************************************)
QueueFacts ==
  /\ Unwritten \in Seq(Nat)
  /\ Len(Unwritten) = head - Consumed
  /\ \A i \in 1..(head - Consumed) : Unwritten[i] = accepted[Consumed + i]
  /\ Consumed \in Nat /\ head - Consumed \in Nat

LEMMA QueueOf == IInv => QueueFacts
<1>. SUFFICES ASSUME IInv PROVE QueueFacts
  OBVIOUS
<1>1. Consumed \in Nat /\ head \in Nat /\ head - Consumed \in Nat
  BY Window DEF IInv, TypeOK
<1>2. ASSUME NEW i \in 1..(head - Consumed)
      PROVE  /\ ring[Slot(Consumed + i - 1)] \in Nat
             /\ ring[Slot(Consumed + i - 1)] = accepted[Consumed + i]
  <2>. DEFINE k == Consumed + i - 1
  <2>1. k \in Consumed..head-1 /\ k \in Nat /\ k + 1 = Consumed + i
    BY <1>1, <1>2
  <2>2. ring[Slot(k)] = accepted[k + 1]
    BY <2>1 DEF IInv, Contents
  <2>3. ring[Slot(k)] \in Nat
    BY <2>1, SlotInRing DEF IInv, TypeOK
  <2>. QED BY <2>1, <2>2, <2>3
<1>. QED BY <1>1, <1>2 DEF Unwritten, QueueFacts

LEMMA QueueOfNext == IInv' => QueueFacts'
BY QueueOf, PTL

LEMMA StutterStep ==
  ASSUME IInv, Unwritten' = Unwritten, Consumed' = Consumed,
         UNCHANGED <<tail, file, dropped>>, Returned' = Returned
  PROVE  UNCHANGED Log!logVars
BY DEF Log!logVars

LEMMA TakeStep == IInv /\ RecordPublishes => Log!Take
<1>. SUFFICES ASSUME IInv, RecordPublishes PROVE Log!Take
  OBVIOUS
<1>1. QueueFacts /\ QueueFacts'
  BY StepRecordPublishes, QueueOf, QueueOfNext
<1>2. /\ Consumed' = Consumed /\ tail' = tail /\ file' = file /\ dropped' = dropped
      /\ Returned = calls - 1 /\ Returned' = calls
      /\ calls \in Nat /\ head \in Nat /\ tail \in Nat /\ accepted \in Seq(Nat)
      /\ head' = head + 1 /\ accepted' = Append(accepted, calls) /\ Len(accepted) = head
  BY DEF RecordPublishes, writerVars, Consumed, Returned, IInv, TypeOK, Contents
<1>3. Log!HasRoom
  BY <1>1, <1>2, SizeAssumption DEF Log!HasRoom, IInv, Indices, RecordPublishes, QueueFacts
<1>4. Unwritten' = Append(Unwritten, calls)
  <2>. DEFINE n == head - Consumed
  <2>1. /\ Unwritten \in Seq(Nat) /\ Len(Unwritten) = n /\ n \in Nat
        /\ \A i \in 1..n : Unwritten[i] = accepted[Consumed + i]
        /\ Consumed \in Nat
    BY <1>1 DEF QueueFacts
  <2>2. head' - Consumed' = n + 1
    BY <1>2, <2>1
  <2>3. /\ Unwritten' \in Seq(Nat) /\ Len(Unwritten') = n + 1
        /\ \A i \in 1..(n + 1) : Unwritten'[i] = accepted'[Consumed + i]
    BY <1>1, <1>2, <2>2 DEF QueueFacts
  <2>4. ASSUME NEW i \in 1..(n + 1) PROVE Unwritten'[i] = Append(Unwritten, calls)[i]
    <3>1. CASE i = n + 1
      <4>1. i = Len(Unwritten) + 1 /\ Consumed + i = head + 1
        BY <3>1, <2>1, <1>2
      <4>2. Append(Unwritten, calls)[i] = calls
        BY <4>1, <2>1, <1>2
      <4>3. Unwritten'[i] = accepted'[Consumed + i]
        BY <2>3, <2>4
      <4>4. accepted'[Consumed + i] = calls
        BY <4>1, <1>2
      <4>. QED BY <4>2, <4>3, <4>4
    <3>2. CASE i # n + 1
      <4>1. i \in 1..n /\ Consumed + i \in 1..head
        BY <3>2, <2>1, <1>2
      <4>2. Unwritten[i] = accepted[Consumed + i]
        BY <4>1, <2>1
      <4>3. Unwritten'[i] = accepted'[Consumed + i]
        BY <2>3, <2>4
      <4>4. accepted'[Consumed + i] = accepted[Consumed + i]
        BY <4>1, <1>2
      <4>5. Append(Unwritten, calls)[i] = Unwritten[i]
        BY <4>1, <2>1, <1>2
      <4>. QED BY <4>2, <4>3, <4>4, <4>5
    <3>. QED BY <3>1, <3>2
  <2>. QED BY <2>1, <2>3, <2>4, <1>2
<1>. QED BY <1>2, <1>3, <1>4 DEF Log!Take

LEMMA SameQueue ==
  ASSUME QueueFacts, QueueFacts', head' = head, accepted' = accepted, Consumed' = Consumed
  PROVE  Unwritten' = Unwritten
<1>. DEFINE n == head - Consumed
<1>1. /\ Unwritten \in Seq(Nat) /\ Len(Unwritten) = n
      /\ \A i \in 1..n : Unwritten[i] = accepted[Consumed + i]
  BY DEF QueueFacts
<1>2. /\ Unwritten' \in Seq(Nat) /\ Len(Unwritten') = n
      /\ \A i \in 1..n : Unwritten'[i] = accepted[Consumed + i]
  BY DEF QueueFacts
<1>. QED BY <1>1, <1>2

LEMMA RefuseStep == IInv /\ RecordDrops => Log!Refuse
<1>. SUFFICES ASSUME IInv, RecordDrops PROVE Log!Refuse
  OBVIOUS
<1>1. QueueFacts /\ QueueFacts'
  BY IInvInductive, QueueOf, QueueOfNext DEF Next, Bridge
<1>2. /\ Consumed' = Consumed /\ tail' = tail /\ file' = file /\ head' = head
      /\ accepted' = accepted /\ dropped' = dropped + 1
      /\ calls \in Nat /\ Returned = calls /\ Returned' = calls + 1
  BY DEF RecordDrops, writerVars, Consumed, Returned, IInv, TypeOK
<1>3. ~Log!HasRoom
  BY <1>1, SizeAssumption
     DEF Log!HasRoom, IInv, TypeOK, RecordDrops, RingFull, QueueFacts
<1>4. Unwritten' = Unwritten
  BY <1>1, <1>2, SameQueue
<1>. QED BY <1>2, <1>3, <1>4 DEF Log!Refuse

LEMMA ReleaseStep == IInv /\ ReleaseBatch => Log!Release
<1>. SUFFICES ASSUME IInv, ReleaseBatch PROVE Log!Release
  OBVIOUS
<1>1. QueueFacts /\ QueueFacts'
  BY IInvInductive, QueueOf, QueueOfNext DEF Next, Writer
<1>2. /\ Consumed' = Consumed /\ tail' = Consumed /\ file' = file /\ head' = head
      /\ accepted' = accepted /\ dropped' = dropped /\ Returned' = Returned
      /\ wTail \in Nat /\ Consumed = wTail
  BY DEF ReleaseBatch, bridgeVars, Consumed, Returned, IInv, TypeOK
<1>3. Unwritten' = Unwritten
  BY <1>1, <1>2, SameQueue
<1>. QED BY <1>2, <1>3 DEF Log!Release

(* WriteOne and WriteOneFails differ only in what they do to the file. *)
LEMMA WriteStep == IInv /\ (WriteOne \/ WriteOneFails) => Log!Write
<1>. SUFFICES ASSUME IInv, WriteOne \/ WriteOneFails PROVE Log!Write
  OBVIOUS
<1>1. QueueFacts /\ QueueFacts'
  BY StepWriteOne, StepWriteOneFails, QueueOf, QueueOfNext
<1>2. /\ Consumed = wTail /\ Consumed' = wTail + 1 /\ tail' = tail /\ head' = head
      /\ accepted' = accepted /\ dropped' = dropped /\ Returned' = Returned
      /\ wTail \in Nat /\ tail \in Nat /\ head \in Nat /\ wTail < head
      /\ file' \in {Append(file, ring[Slot(wTail)]), file}
  BY DEF WriteOne, WriteOneFails, bridgeVars, Consumed, Returned, IInv, TypeOK, Indices
<1>. DEFINE n == head - Consumed
<1>3. /\ Unwritten \in Seq(Nat) /\ Len(Unwritten) = n /\ n \in Nat /\ n > 0
      /\ \A i \in 1..n : Unwritten[i] = accepted[Consumed + i]
  BY <1>1, <1>2 DEF QueueFacts
<1>4. /\ Unwritten' \in Seq(Nat) /\ Len(Unwritten') = n - 1
      /\ \A i \in 1..(n - 1) : Unwritten'[i] = accepted[Consumed + 1 + i]
  <2>1. head' - Consumed' = n - 1
    BY <1>2
  <2>2. /\ Unwritten' \in Seq(Nat) /\ Len(Unwritten') = head' - Consumed'
        /\ \A i \in 1..(head' - Consumed') : Unwritten'[i] = accepted'[Consumed' + i]
    BY <1>1 DEF QueueFacts
  <2>3. Consumed' = Consumed + 1 /\ accepted' = accepted
    BY <1>2
  <2>. QED BY <2>1, <2>2, <2>3
<1>5. Unwritten' = Tail(Unwritten)
  <2>1. Tail(Unwritten) \in Seq(Nat) /\ Len(Tail(Unwritten)) = n - 1
    BY <1>3
  <2>2. ASSUME NEW i \in 1..(n - 1) PROVE Unwritten'[i] = Tail(Unwritten)[i]
    <3>1. i + 1 \in 1..n /\ Consumed + (i + 1) = Consumed + 1 + i
      BY <1>2, <1>3
    <3>2. Tail(Unwritten)[i] = Unwritten[i + 1]
      BY <1>3, <3>1
    <3>. QED BY <1>3, <1>4, <2>2, <3>1, <3>2
  <2>. QED BY <1>4, <2>1, <2>2
<1>6. Head(Unwritten) = ring[Slot(wTail)] /\ Unwritten # <<>>
  <2>1. Head(Unwritten) = Unwritten[1] /\ Unwritten # <<>>
    BY <1>3
  <2>2. Unwritten[1] = ring[Slot(Consumed + 1 - 1)]
    BY <1>3 DEF Unwritten
  <2>3. Consumed + 1 - 1 = wTail
    BY <1>2
  <2>. QED BY <1>2, <2>1, <2>2, <2>3
<1>7. Consumed' - tail' = (Consumed - tail) + 1
  BY <1>2
<1>. QED BY <1>2, <1>5, <1>6, <1>7 DEF Log!Write

(* The steps that only one of the two threads can see. *)
LEMMA PrivateSteps ==
  ASSUME IInv,
         \/ RecordFindsRoom \/ RecordCopies \/ StopClears \/ StopCloses
         \/ LoadIndices \/ CheckRunning \/ WriterExits \/ Closed \/ UNCHANGED vars
  PROVE  UNCHANGED Log!logVars
<1>1. QueueFacts /\ QueueFacts'
  BY IInvInductive, QueueOf, QueueOfNext DEF Next, Bridge, Writer
<1>2. /\ Consumed' = Consumed /\ head' = head /\ accepted' = accepted
      /\ UNCHANGED <<tail, file, dropped>> /\ Returned' = Returned
  <2>1. CASE RecordFindsRoom \/ RecordCopies \/ StopClears \/ StopCloses
    BY <2>1 DEF RecordFindsRoom, RecordCopies, StopClears, StopCloses, writerVars,
                Consumed, Returned, IInv, TypeOK
  <2>2. CASE LoadIndices \/ CheckRunning \/ WriterExits
    BY <2>2 DEF LoadIndices, CheckRunning, WriterExits, bridgeVars, Consumed, Returned
  <2>3. CASE Closed \/ UNCHANGED vars
    BY <2>3 DEF Closed, vars, Consumed, Returned
  <2>. QED BY <2>1, <2>2, <2>3
<1>3. Unwritten' = Unwritten
  BY <1>1, <1>2, SameQueue
<1>. QED BY <1>2, <1>3, StutterStep

LEMMA LogInit == Init => Log!Init
<1>. SUFFICES ASSUME Init PROVE Log!Init
  OBVIOUS
<1>1. QueueFacts
  BY InitIInv, QueueOf
<1>2. Consumed = 0 /\ tail = 0 /\ head = 0 /\ Returned = 0 /\ file = <<>> /\ dropped = 0
  <2>1. /\ tail = 0 /\ head = 0 /\ file = <<>> /\ dropped = 0
        /\ calls = 0 /\ bpc = "idle" /\ wpc = "load"
    BY DEF Init
  <2>2. Returned = calls - 0
    BY <2>1 DEF Returned
  <2>3. Consumed = tail
    BY <2>1 DEF Consumed
  <2>. QED BY <2>1, <2>2, <2>3
<1>3. Unwritten \in Seq(Nat) /\ Len(Unwritten) = 0
  BY <1>1, <1>2 DEF QueueFacts
<1>4. Unwritten = <<>>
  BY <1>3
<1>. QED BY <1>2, <1>4 DEF Log!Init

(***************************************************************************)
(* The ring, its two indices and the two threads implement a bounded lossy *)
(* FIFO for every ring size (recorder.cpp:27-68).                          *)
(***************************************************************************)
THEOREM RingIsAFifo == Safety => ImplementsCaptureLog
<1>1. ASSUME IInv, [Next]_vars PROVE [Log!Next]_(Log!logVars)
  <2>1. CASE RecordPublishes
    BY <1>1, <2>1, TakeStep DEF Log!Next
  <2>2. CASE RecordDrops
    BY <1>1, <2>2, RefuseStep DEF Log!Next
  <2>3. CASE WriteOne \/ WriteOneFails
    BY <1>1, <2>3, WriteStep DEF Log!Next
  <2>4. CASE ReleaseBatch
    BY <1>1, <2>4, ReleaseStep DEF Log!Next
  <2>5. CASE \/ RecordFindsRoom \/ RecordCopies \/ StopClears \/ StopCloses
             \/ LoadIndices \/ CheckRunning \/ WriterExits \/ Closed \/ UNCHANGED vars
    BY <1>1, <2>5, PrivateSteps
  <2>. QED BY <1>1, <2>1, <2>2, <2>3, <2>4, <2>5 DEF Next, Bridge, Writer
<1>. QED BY <1>1, LogInit, InductiveInvariant, PTL DEF Safety, ImplementsCaptureLog, Log!Spec
=============================================================================
