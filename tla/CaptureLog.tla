----------------------------- MODULE CaptureLog -----------------------------
(***************************************************************************)
(* What the capture path promises the bridge and the reader of a capture   *)
(* file, with nothing said about rings, indices or threads: a bounded FIFO *)
(* that is offered states 1, 2, 3, ... and that                            *)
(*   - takes a state if it has room, otherwise refuses it and counts the   *)
(*     refusal, and never makes the caller wait;                           *)
(*   - writes what it took in the order it took it, each at most once;     *)
(*   - gets room back in batches: a state that was written still occupies  *)
(*     its place until Release.                                            *)
(* Recorder.tla is the implementation shown to refine it.                  *)
(***************************************************************************)
EXTENDS Naturals, Sequences

CONSTANT Capacity

VARIABLES queue,     \* states taken and not yet written, oldest first
          occupied,  \* places still held by states that were written
          log,       \* the capture file
          refused,   \* states counted as dropped
          offered    \* the number of the last state offered

logVars == <<queue, occupied, log, refused, offered>>

Init == queue = <<>> /\ occupied = 0 /\ log = <<>> /\ refused = 0 /\ offered = 0

HasRoom == Len(queue) + occupied < Capacity

(* The next state is offered and taken. *)
Take ==
  /\ HasRoom
  /\ queue' = Append(queue, offered + 1)
  /\ offered' = offered + 1
  /\ UNCHANGED <<occupied, log, refused>>

(* The next state is offered and refused: only a full log refuses. *)
Refuse ==
  /\ ~HasRoom
  /\ refused' = refused + 1
  /\ offered' = offered + 1
  /\ UNCHANGED <<queue, occupied, log>>

(* The oldest state leaves the queue: into the file or, on an I/O error, nowhere. *)
Write ==
  /\ queue # <<>>
  /\ log' \in {Append(log, Head(queue)), log}
  /\ queue' = Tail(queue)
  /\ occupied' = occupied + 1
  /\ UNCHANGED <<refused, offered>>

Release == occupied' = 0 /\ UNCHANGED <<queue, log, refused, offered>>

Next == Take \/ Refuse \/ Write \/ Release

Spec == Init /\ [][Next]_logVars
=============================================================================
