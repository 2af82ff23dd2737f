---------------------------- MODULE ConsoleView ----------------------------
(***************************************************************************)
(* SinkAlone with the reports that encode() makes of states: what is seen  *)
(* on the console of what was handed to submit().                          *)
(***************************************************************************)
EXTENDS SinkAlone, HidReport

CONSTANTS States,          \* the states that are submitted
          FaceByPosition   \* sink.ns_hid.face_by_position

ASSUME StatesAssumption == States \subseteq GamepadState
ASSUME EncodeAssumption ==
  /\ Neutral = NeutralReport
  /\ \A s \in States : Encode(s, FaceByPosition) \in Report
ASSUME FaceAssumption == FaceByPosition \in BOOLEAN

VARIABLE held   \* history: the state that was submitted last, or none is held

viewVars == <<aloneVars, held>>

ViewInit == Init /\ held = Released

(* submit() *)
SubmitState(s) ==
  /\ sinkOpen
  /\ Submit(Encode(s, FaceByPosition)) /\ newest' = Encode(s, FaceByPosition)
  /\ lost' = (lost /\ ~Writable)
  /\ held' = s

ViewNext ==
  \/ \E s \in States : SubmitState(s)
  \/ CallShutdown /\ held' = Released
  \/ (CallFlush \/ Poll \/ Detach \/ Attach) /\ UNCHANGED held

ViewSpec == ViewInit /\ [][ViewNext]_viewVars

(* An open sink has nothing left to send, and what it sent was not lost. *)
Settled == sinkOpen /\ ~pending /\ inflight = None /\ ~lost

(***************************************************************************)
(* Once nothing is left to send, the console shows the last state and all  *)
(* of it: the buttons by position, a trigger in either representation, the *)
(* d-pad with opposites cancelled, the sticks (ns_hid_sink.cpp:23-40,      *)
(* 106-154), whatever was refused, overtaken or flushed on the way.        *)
(***************************************************************************)
ConsoleShowsHeld == Settled => Shown(host) = Intended(held, FaceByPosition)
=============================================================================
