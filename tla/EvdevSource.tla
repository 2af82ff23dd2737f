----------------------------- MODULE EvdevSource -----------------------------
(***************************************************************************)
(* EvdevSource (src/src/sources/evdev_source.cpp): a pad, the kernel's     *)
(* event buffer for one open descriptor, and the source that rebuilds the  *)
(* pad's state from it.                                                    *)
(*                                                                         *)
(* A control is at rest (0) or not (1), which is what scale_axis() and the *)
(* button masks keep apart.  The two hat axes and the four d-pad bits are  *)
(* one control, Hat, and one bit: the bit of DpadKey, the button a config  *)
(* may bind to the same direction.  A control outside Bound has no binding. *)
(***************************************************************************)
EXTENDS Naturals, Sequences

CONSTANTS Control,       \* what the pad has
          Bound,         \* axes_ and buttons_: what the config binds
          Hat,           \* the control bound to hatx or haty
          DpadKey,       \* the control bound to dleft..., and the d-pad bit
          Slots,         \* events the kernel buffers for a reader
          Chunk,         \* events one ::read() returns at most, 64 in the code
          MaxMoves       \* bound: movements of controls

ASSUME ControlAssumption ==
  /\ Bound \subseteq Control /\ {Hat, DpadKey} \subseteq Control /\ Hat # DpadKey
ASSUME SizesAssumption ==
  /\ {Slots, Chunk, MaxMoves} \subseteq Nat /\ Slots > 1 /\ Chunk > 0

VARIABLES plugged,       \* the pad is there
          pad,           \* the position of its controls
          unsynced,      \* it has moved since its last SYN_REPORT
          queue,         \* the kernel's buffer for the descriptor
          gone,          \* the descriptor's device has been removed
          isOpen,        \* fd_ >= 0
          acc,           \* acc_
          hat,           \* hat_x_, hat_y_
          dirty,         \* dirty_
          pc,            \* where read() is
          evs,           \* read()'s evs, what is left to handle
          complete,      \* read()'s complete
          result,        \* what the last read() returned
          out,           \* the state of the last read() that returned true
          seen,          \* history: controls with an event since open and since the last gap
          touched,       \* history: controls with an event since open
          boundary,      \* history: the pad at the last SYN_REPORT that was handled
          moves          \* movements left of the bound

deviceVars == <<plugged, pad, unsynced, queue, gone, moves>>
stateVars == <<isOpen, acc, hat, dirty>>
readVars == <<pc, evs, complete, result, out>>
historyVars == <<seen, touched, boundary>>
vars == <<deviceVars, stateVars, readVars, historyVars>>

Field == Control \ {Hat}
Rest == [c \in Control |-> 0]
AllReleased == [f \in Field |-> 0]

Moved(c, v) == [kind |-> "move", ctl |-> c, val |-> v]
Syn(p) == [kind |-> "syn", pad |-> p]
Dropped == [kind |-> "dropped"]
Position == [Control -> 0..1]
Event ==
  [kind : {"move"}, ctl : Control, val : 0..1] \cup [kind : {"syn"}, pad : Position]
    \cup {Dropped}

Init ==
  /\ plugged \in BOOLEAN /\ pad \in Position /\ unsynced = FALSE
  /\ queue = <<>> /\ gone = FALSE
  /\ isOpen = plugged
  /\ acc = AllReleased /\ hat = 0 /\ dirty = FALSE
  /\ pc = "idle" /\ evs = <<>> /\ complete = FALSE /\ result = FALSE
  /\ out = AllReleased
  /\ seen = {} /\ touched = {} /\ boundary = Rest
  /\ moves = MaxMoves

-----------------------------------------------------------------------------
(* The pad and the kernel *)

(* A full buffer is emptied and SYN_DROPPED takes the place of what it held. *)
Buffered(e) ==
  queue' = IF ~isOpen \/ gone THEN queue
           ELSE IF Len(queue) = Slots THEN <<Dropped, e>>
           ELSE Append(queue, e)

(* A reader is given whole packets: can it have n events? *)
IsReadable(n) == \E i \in n..Len(queue) : queue[i].kind = "syn"

PadMoves(c) ==
  /\ plugged /\ moves > 0
  /\ pad' = [pad EXCEPT ![c] = 1 - @]
  /\ Buffered(Moved(c, 1 - pad[c]))
  /\ unsynced' = TRUE
  /\ moves' = moves - 1
  /\ UNCHANGED <<plugged, gone, stateVars, readVars, historyVars>>

PadSyncs ==
  /\ plugged /\ unsynced
  /\ Buffered(Syn(pad))
  /\ unsynced' = FALSE
  /\ UNCHANGED <<plugged, pad, gone, moves, stateVars, readVars, historyVars>>

Unplugged ==
  /\ plugged
  /\ plugged' = FALSE /\ unsynced' = FALSE /\ gone' = isOpen
  /\ pad' = Rest /\ queue' = <<>>
  /\ UNCHANGED <<moves, stateVars, readVars, historyVars>>

(* It may come back with anything held; its last position no longer matters. *)
PluggedIn ==
  /\ ~plugged
  /\ plugged' = TRUE
  /\ pad' \in Position
  /\ UNCHANGED <<unsynced, queue, gone, moves, stateVars, readVars, historyVars>>

-----------------------------------------------------------------------------
(* read() *)

(* The loop calls it when the descriptor is readable or in error. *)
CallRead ==
  /\ pc = "idle" /\ isOpen /\ (IsReadable(1) \/ gone)
  /\ pc' = "reads" /\ complete' = FALSE /\ result' = FALSE
  /\ UNCHANGED <<deviceVars, stateVars, evs, out, historyVars>>

(* ::read() returns what is readable, as far as evs has room. *)
ReadEvents ==
  /\ pc = "reads" /\ ~gone /\ IsReadable(1)
  /\ \E n \in 1..Chunk :
       /\ IsReadable(n) /\ (n = Chunk \/ ~IsReadable(n + 1))
       /\ evs' = SubSeq(queue, 1, n)
       /\ queue' = SubSeq(queue, n + 1, Len(queue))
  /\ pc' = "handles"
  /\ UNCHANGED <<plugged, pad, unsynced, gone, moves, stateVars, complete, result,
                 out, historyVars>>

Handles(kind) ==
  /\ pc = "handles" /\ evs # <<>> /\ Head(evs).kind = kind
  /\ evs' = Tail(evs)
  /\ UNCHANGED <<deviceVars, isOpen, pc, result, out>>

(* EV_ABS and EV_KEY; a hat is kept apart until the packet is complete. *)
HandleMove ==
  /\ Handles("move")
  /\ LET e == Head(evs) IN
       \/ /\ e.ctl \in Bound
          /\ acc' = IF e.ctl = Hat THEN acc ELSE [acc EXCEPT ![e.ctl] = e.val]
          /\ hat' = IF e.ctl = Hat THEN e.val ELSE hat
          /\ dirty' = TRUE
          /\ seen' = seen \cup {e.ctl} /\ touched' = touched \cup {e.ctl}
       \/ e.ctl \notin Bound /\ UNCHANGED <<acc, hat, dirty, seen, touched>>
  /\ UNCHANGED <<complete, boundary>>

(* mutant: the last packet of a read decides whether there is something to return *)
SynDecidesAlone ==
  /\ Handles("syn")
  /\ complete' = dirty /\ dirty' = FALSE
  /\ boundary' = Head(evs).pad
  /\ UNCHANGED <<acc, hat, seen, touched>>

(* SYN_REPORT *)
HandleSyn ==
  /\ Handles("syn")
  /\ complete' = (complete \/ dirty) /\ dirty' = FALSE
  /\ boundary' = Head(evs).pad
  /\ UNCHANGED <<acc, hat, seen, touched>>

(* SYN_DROPPED: a line in the log. *)
HandleDropped ==
  /\ Handles("dropped")
  /\ seen' = {}
  /\ UNCHANGED <<acc, hat, dirty, complete, touched, boundary>>

(* The hat overwrites the d-pad bit. *)
HatFolded == [acc EXCEPT ![DpadKey] = hat]

(* mutant: what changed is returned after every ::read(), without its SYN_REPORT *)
ReturnsWithoutSyn ==
  /\ pc = "handles" /\ evs = <<>>
  /\ acc' = IF dirty THEN HatFolded ELSE acc
  /\ out' = IF dirty THEN acc' ELSE out
  /\ result' = dirty
  /\ pc' = "idle"
  /\ UNCHANGED <<deviceVars, isOpen, hat, dirty, evs, complete, historyVars>>

(* Round the while loop for the next ::read(). *)
ChunkHandled ==
  /\ pc = "handles" /\ evs = <<>>
  /\ pc' = "reads"
  /\ UNCHANGED <<deviceVars, stateVars, evs, complete, result, out, historyVars>>

(* EAGAIN: the update is returned if a packet was completed. *)
ReadReturns ==
  /\ pc = "reads" /\ ~gone /\ ~IsReadable(1)
  /\ acc' = IF complete THEN HatFolded ELSE acc
  /\ out' = IF complete THEN acc' ELSE out
  /\ result' = complete /\ complete' = FALSE
  /\ pc' = "idle"
  /\ UNCHANGED <<deviceVars, isOpen, hat, dirty, evs, historyVars>>

(* ENODEV, whatever is still buffered and whatever was completed. *)
ReadFindsLoss ==
  /\ pc = "reads" /\ gone
  /\ isOpen' = FALSE /\ complete' = FALSE
  /\ pc' = "idle"
  /\ UNCHANGED <<deviceVars, acc, hat, dirty, evs, result, out, historyVars>>

-----------------------------------------------------------------------------
(* mutant: the accumulator of the old connection is kept *)
ReconnectKeepsAcc ==
  /\ pc = "idle" /\ ~isOpen /\ plugged
  /\ isOpen' = TRUE /\ gone' = FALSE /\ queue' = <<>>
  /\ hat' = 0 /\ dirty' = FALSE
  /\ seen' = {} /\ touched' = {} /\ boundary' = Rest
  /\ UNCHANGED <<plugged, pad, unsynced, moves, acc, readVars>>

(* reconnect() with the pad back: a clean accumulator and a new descriptor. *)
Reconnect ==
  /\ pc = "idle" /\ ~isOpen /\ plugged
  /\ isOpen' = TRUE /\ gone' = FALSE /\ queue' = <<>>
  /\ acc' = AllReleased /\ hat' = 0 /\ dirty' = FALSE
  /\ seen' = {} /\ touched' = {} /\ boundary' = Rest
  /\ UNCHANGED <<plugged, pad, unsynced, moves, readVars>>

(* ... and without it: open_device() fails and the loop tries again later. *)
ReconnectFails ==
  /\ pc = "idle" /\ ~isOpen /\ ~plugged
  /\ acc' = AllReleased /\ hat' = 0 /\ dirty' = FALSE
  /\ UNCHANGED <<deviceVars, isOpen, readVars, historyVars>>

Source ==
  \/ CallRead \/ ReadEvents \/ HandleMove \/ HandleSyn \/ HandleDropped
  \/ ChunkHandled \/ ReadReturns \/ ReadFindsLoss \/ Reconnect \/ ReconnectFails

Pad == PadSyncs \/ Unplugged \/ PluggedIn \/ \E c \in Control : PadMoves(c)

Next == Source \/ Pad

(* The loop comes round, and a driver ends the packet it began. *)
Spec == Init /\ [][Next]_vars /\ WF_vars(Source) /\ WF_vars(PadSyncs)
-----------------------------------------------------------------------------
TypeOK ==
  /\ {plugged, unsynced, gone, isOpen, dirty, complete, result} \subseteq BOOLEAN
  /\ pad \in Position /\ boundary \in Position
  /\ acc \in [Field -> 0..1] /\ out \in [Field -> 0..1] /\ hat \in 0..1
  /\ pc \in {"idle", "reads", "handles"}
  /\ queue \in Seq(Event) /\ Len(queue) <= Slots
  /\ evs \in Seq(Event) /\ Len(evs) <= Chunk
  /\ touched \subseteq Bound /\ seen \subseteq touched
  /\ moves \in 0..MaxMoves

(* Where the position of a control is found in a GamepadState. *)
Shown(state, c) == state[IF c = Hat THEN DpadKey ELSE c]

(* Events were lost and read() has not come to the gap yet. *)
Overflowed == \E i \in 1..Len(queue) : queue[i].kind = "dropped"

(***************************************************************************)
(* A returned state is the pad at one SYN_REPORT, never half of a packet   *)
(* ("the diagonal-snap bug", evdev_source.cpp:338-340), however packets    *)
(* are cut by ::read(), in every control that has reported since the       *)
(* descriptor was opened or events were last lost.  Without ~Overflowed it *)
(* fails: when the buffer overflows between two ::read()s, the rest of the *)
(* packet is gone, EAGAIN ends the loop, and the half of it is returned    *)
(* with an earlier packet of the same call.                                *)
(***************************************************************************)
Coherent ==
  pc = "idle" /\ result /\ ~gone /\ ~Overflowed =>
    \A c \in seen \ {DpadKey} : Shown(out, c) = boundary[c]

(***************************************************************************)
(* "Whatever the pad was doing when it vanished is not what it is doing    *)
(* now" (evdev_source.cpp:225-226): a control that has not reported since  *)
(* the descriptor was opened is shown at rest, also when the old pad was   *)
(* lost in the middle of a packet.                                         *)
(***************************************************************************)
NothingFromBefore ==
  pc = "idle" /\ result =>
    \A c \in Control \ (touched \cup {DpadKey}) : Shown(out, c) = 0

(***************************************************************************)
(* Once the pad is quiet the last returned state shows it where it is, in  *)
(* every control that has reported since the last gap: no completed packet *)
(* is left in the accumulator, whatever unbound packets came with it.      *)
(***************************************************************************)
PadIsFollowed ==
  <>[](isOpen /\ ~gone => \A c \in seen \ {DpadKey} : Shown(out, c) = pad[c])
=============================================================================
