------------------------------ MODULE Recorder ------------------------------
(***************************************************************************)
(* The capture ring of src/src/recorder.cpp: a single-producer,            *)
(* single-consumer ring of GamepadStates.  The bridge thread calls         *)
(* record() and, from ~Bridge, stop(); writer_loop() runs in a thread of   *)
(* its own.  Each action is the code between two accesses to a variable    *)
(* the other thread also uses, so the interleavings are those of the code. *)
(*                                                                         *)
(* A recorded state is represented by the number of the record() call that *)
(* brought it: the first call records state 1, the second state 2, ...     *)
(* The indices are the code's uint64_t, which no run of the program wraps. *)
(* Size is ring_.size() after start() rounded it up to a power of two, so  *)
(* "& mask_" is "% Size".                                                  *)
(***************************************************************************)
EXTENDS Integers, Sequences

CONSTANTS Size,           \* ring_.size()
          MaxRecords,     \* bound: calls of record() in a behaviour
          MaxDiskErrors   \* bound: fwrite() calls that fail in a behaviour

ASSUME SizeAssumption == Size \in Nat \ {0}
ASSUME RoundedSize == \E k \in 0..Size : Size = 2^k
ASSUME BoundsAssumption == MaxRecords \in Nat /\ MaxDiskErrors \in Nat

VARIABLES ring, head, tail, running, written, dropped,  \* members of Recorder
          bpc,         \* where the bridge thread is in record() or stop()
          calls,       \* calls of record() so far; also the state of the last one
          wpc,         \* where the writer thread is in writer_loop()
          wHead,       \* writer_loop's local head
          wTail,       \* writer_loop's local tail
          file,        \* the states in the capture file
          diskErrors,  \* states whose fwrite() failed
          accepted     \* history: the states put in the ring, in order

vars == <<ring, head, tail, running, written, dropped, bpc, calls,
          wpc, wHead, wTail, file, diskErrors, accepted>>

bridgeVars == <<ring, head, dropped, bpc, calls, accepted>>
writerVars == <<tail, written, wpc, wHead, wTail, file, diskErrors>>

NoState == 0
Slot(i) == i % Size

(* start() has opened the file, set running_ and launched the writer thread. *)
Init ==
  /\ ring = [i \in 0..Size-1 |-> NoState]
  /\ head = 0 /\ tail = 0 /\ running = TRUE
  /\ written = 0 /\ dropped = 0
  /\ bpc = "idle" /\ calls = 0
  /\ wpc = "load" /\ wHead = 0 /\ wTail = 0
  /\ file = <<>> /\ diskErrors = 0
  /\ accepted = <<>>

-----------------------------------------------------------------------------
(* The bridge thread *)

FullOneEarly == head - tail >= Size - 1  \* mutant: one slot too few
RingFull == head - tail >= Size

(* mutant: the refusal is not counted *)
DropsSilently ==
  /\ bpc = "idle" /\ calls < MaxRecords
  /\ RingFull
  /\ calls' = calls + 1
  /\ UNCHANGED <<ring, head, running, dropped, bpc, accepted, writerVars>>

(* record() loads head_ and tail_ and finds the ring full: drop and count. *)
RecordDrops ==
  /\ bpc = "idle" /\ calls < MaxRecords
  /\ RingFull
  /\ calls' = calls + 1
  /\ dropped' = dropped + 1
  /\ UNCHANGED <<ring, head, running, bpc, accepted, writerVars>>

(* record() loads head_ and tail_ and finds room; tail_ may move on before the copy. *)
RecordFindsRoom ==
  /\ bpc = "idle" /\ calls < MaxRecords
  /\ ~RingFull
  /\ calls' = calls + 1
  /\ bpc' = "copy"
  /\ UNCHANGED <<ring, head, running, dropped, accepted, writerVars>>

(* ring_[head & mask_] = s *)
RecordCopies ==
  /\ bpc = "copy"
  /\ ring' = [ring EXCEPT ![Slot(head)] = calls]
  /\ bpc' = "publish"
  /\ UNCHANGED <<head, running, dropped, calls, accepted, writerVars>>

(* The release store of head_ that makes the state visible to the writer. *)
RecordPublishes ==
  /\ bpc = "publish"
  /\ head' = head + 1
  /\ accepted' = Append(accepted, calls)
  /\ bpc' = "idle"
  /\ UNCHANGED <<ring, running, dropped, calls, writerVars>>

(* mutant: stop() joins without telling the writer *)
JoinsWithoutClearing ==
  /\ bpc = "idle" /\ running
  /\ bpc' = "joining"
  /\ UNCHANGED <<ring, head, running, dropped, calls, accepted, writerVars>>

(* stop() clears running_ and waits in join(). *)
StopClears ==
  /\ bpc = "idle" /\ running
  /\ running' = FALSE
  /\ bpc' = "joining"
  /\ UNCHANGED <<ring, head, dropped, calls, accepted, writerVars>>

(* The writer thread has ended: stop() closes the file. *)
StopCloses ==
  /\ bpc = "joining" /\ wpc = "exited"
  /\ bpc' = "closed"
  /\ UNCHANGED <<ring, head, running, dropped, calls, accepted, writerVars>>

Bridge ==
  \/ RecordDrops \/ RecordFindsRoom \/ RecordCopies \/ RecordPublishes
  \/ StopClears \/ StopCloses

-----------------------------------------------------------------------------
(* The writer thread *)

(* One round begins: load head_, then the writer's own tail_. *)
LoadIndices ==
  /\ wpc = "load"
  /\ wHead' = head
  /\ wTail' = tail
  /\ wpc' = IF tail = head THEN "empty" ELSE "drain"
  /\ UNCHANGED <<tail, written, file, diskErrors, running, bridgeVars>>

(* mutant: head_ is not loaded again after the sleep *)
SleepsWithoutReloading ==
  /\ wpc = "empty"
  /\ wpc' = IF running THEN "empty" ELSE "flush"
  /\ UNCHANGED <<tail, written, wHead, wTail, file, diskErrors, running, bridgeVars>>

(* Nothing to write: leave the loop if stop() was called, else sleep and look again. *)
CheckRunning ==
  /\ wpc = "empty"
  /\ wpc' = IF running THEN "load" ELSE "flush"
  /\ UNCHANGED <<tail, written, wHead, wTail, file, diskErrors, running, bridgeVars>>

WriteOne ==
  /\ wpc = "drain" /\ wTail # wHead
  /\ file' = Append(file, ring[Slot(wTail)])
  /\ written' = written + 1
  /\ wTail' = wTail + 1
  /\ UNCHANGED <<tail, wpc, wHead, diskErrors, running, bridgeVars>>

(* fwrite() fails: the state is passed over and only written_ shows it. *)
WriteOneFails ==
  /\ wpc = "drain" /\ wTail # wHead
  /\ diskErrors < MaxDiskErrors
  /\ diskErrors' = diskErrors + 1
  /\ wTail' = wTail + 1
  /\ UNCHANGED <<tail, written, wpc, wHead, file, running, bridgeVars>>

(* mutant: the batch's slots are handed back before they are written *)
ReleasesEarly ==
  /\ wpc = "drain" /\ tail # wHead
  /\ tail' = wHead
  /\ wpc' = IF wTail = wHead THEN "load" ELSE "drain"
  /\ UNCHANGED <<written, wHead, wTail, file, diskErrors, running, bridgeVars>>

(* The release store of tail_, once per batch. *)
ReleaseBatch ==
  /\ wpc = "drain" /\ wTail = wHead
  /\ tail' = wTail
  /\ wpc' = "load"
  /\ UNCHANGED <<written, wHead, wTail, file, diskErrors, running, bridgeVars>>

(* fflush() and return from writer_loop(). *)
WriterExits ==
  /\ wpc = "flush"
  /\ wpc' = "exited"
  /\ UNCHANGED <<tail, written, wHead, wTail, file, diskErrors, running, bridgeVars>>

Writer ==
  \/ LoadIndices \/ CheckRunning \/ WriteOne \/ WriteOneFails \/ ReleaseBatch
  \/ WriterExits

Closed == bpc = "closed" /\ UNCHANGED vars

Next == Bridge \/ Writer \/ Closed

(***************************************************************************)
(* The kernel runs both threads.  Nothing obliges the bridge to record     *)
(* again or to stop, but a call it is in goes on.                          *)
(***************************************************************************)
Fairness ==
  /\ WF_vars(Writer)
  /\ WF_vars(RecordCopies \/ RecordPublishes \/ StopCloses)

Safety == Init /\ [][Next]_vars
Spec == Safety /\ Fairness

-----------------------------------------------------------------------------
(* The first index the writer has not dealt with: tail_, or its local copy in a batch. *)
Consumed == IF wpc = "drain" THEN wTail ELSE tail

(* The states in the ring that the writer has not dealt with, oldest first. *)
Unwritten == [i \in 1..(head - Consumed) |-> ring[Slot(Consumed + i - 1)]]

(* Calls of record() that have returned. *)
Returned == calls - (IF bpc \in {"copy", "publish"} THEN 1 ELSE 0)

TypeOK ==
  /\ ring \in [0..Size-1 -> Nat]
  /\ head \in Nat /\ tail \in Nat /\ running \in BOOLEAN
  /\ written \in Nat /\ dropped \in Nat /\ calls \in Nat /\ diskErrors \in Nat
  /\ bpc \in {"idle", "copy", "publish", "joining", "closed"}
  /\ wpc \in {"load", "empty", "drain", "flush", "exited"}
  /\ wHead \in Nat /\ wTail \in Nat
  /\ file \in Seq(Nat) /\ accepted \in Seq(Nat)

(***************************************************************************)
(* The capture file holds states the bridge recorded, each at most once    *)
(* and in the order they were recorded, however the two threads interleave *)
(* and however often the ring wraps (recorder.cpp:27-57).                  *)
(***************************************************************************)
CaptureInOrder ==
  /\ \A i, j \in 1..Len(file) : i < j => file[i] < file[j]
  /\ \A i \in 1..Len(file) : \E k \in 1..Consumed : file[i] = accepted[k]

(***************************************************************************)
(* The producer never copies into a slot the writer may be reading: the    *)
(* plain, non-atomic accesses to ring_ at recorder.cpp:36 and :50 never    *)
(* race.                                                                   *)
(***************************************************************************)
NoSlotRace ==
  bpc = "copy" => \A i \in Consumed..head-1 : Slot(i) # Slot(head)

(***************************************************************************)
(* Every call of record() that has returned is accounted for: written,     *)
(* counted as dropped, lost to a disk error, or still in the ring          *)
(* (recorder.cpp:30-37, 51-53).                                            *)
(***************************************************************************)
EveryCallAccounted ==
  Returned = written + dropped + diskErrors + (head - Consumed)

(***************************************************************************)
(* A state that record() accepted does not stay in the ring while the      *)
(* writer lives: it is dealt with, or the writer ends (recorder.cpp:40-57) *)
(***************************************************************************)
AcceptedIsWritten ==
  \A n \in 1..MaxRecords : head >= n ~> (Consumed >= n \/ wpc = "exited")

(* stop() returns: the writer notices running_ and ends (recorder.cpp:45, 63). *)
StopReturns == bpc = "joining" ~> bpc = "closed"

(***************************************************************************)
(* The inductive invariant behind the four state properties.  Indices: the *)
(* ring never holds more than Size states, and a batch stays inside what   *)
(* was published.  Contents: a slot between Consumed and head holds the    *)
(* state accepted at that index.  Counts: a call went to head_ or to       *)
(* dropped_, and an index the writer passed went to written_ or was a disk *)
(* error.                                                                  *)
(***************************************************************************)
Indices ==
  /\ tail <= head /\ head - tail <= Size
  /\ bpc \in {"copy", "publish"} => head - tail < Size
  /\ wpc = "drain" => tail <= wTail /\ wTail <= wHead /\ wHead <= head

Contents ==
  /\ Len(accepted) = head
  /\ \A i \in Consumed..head-1 : ring[Slot(i)] = accepted[i + 1]
  /\ bpc = "publish" => ring[Slot(head)] = calls
  /\ \A i, j \in 1..head : i < j => accepted[i] < accepted[j]
  /\ \A i \in 1..head : accepted[i] <= Returned

Counts ==
  /\ Returned = head + dropped
  /\ Consumed = written + diskErrors
  /\ Len(file) = written

IInv == TypeOK /\ Indices /\ Contents /\ Counts /\ CaptureInOrder

(***************************************************************************)
(* The ring with its indices and two threads is the bounded FIFO of        *)
(* CaptureLog: the writer's unpublished progress is what is "occupied".    *)
(***************************************************************************)
Log == INSTANCE CaptureLog WITH
         Capacity <- Size,
         queue <- Unwritten,
         occupied <- Consumed - tail,
         log <- file,
         refused <- dropped,
         offered <- Returned

ImplementsCaptureLog == Log!Spec

=============================================================================
