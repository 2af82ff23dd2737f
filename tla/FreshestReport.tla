--------------------------- MODULE FreshestReport ---------------------------
(***************************************************************************)
(* What an OutputSink promises (output_sink.hpp:25-35), with nothing said  *)
(* about pending copies, EAGAIN or EPOLLOUT: there is room for one report  *)
(* on the wire, and whatever is put there is the newest state the caller   *)
(* handed over at that moment.  An older state is never lined up behind    *)
(* it, and a state that was overtaken never reaches the wire at all.       *)
(***************************************************************************)
CONSTANTS Report, Neutral, None

VARIABLES newest,  \* the last report handed to the sink
          wire,    \* the report waiting for the host's next poll, or None
          host     \* the report the host acts on

wireVars == <<newest, wire, host>>

Init ==
  /\ newest = Neutral
  /\ wire \in {Neutral, None}
  /\ host = Neutral

(* A new report is handed over; it goes on the wire at once if there is room. *)
HandOver ==
  /\ newest' \in Report
  /\ wire' = wire \/ (wire = None /\ wire' = newest')
  /\ UNCHANGED host

PutOnWire ==
  /\ wire = None
  /\ wire' = newest
  /\ UNCHANGED <<newest, host>>

Deliver ==
  /\ wire # None
  /\ host' = wire
  /\ wire' = None
  /\ UNCHANGED newest

(* The cable is pulled: what was on the wire is lost and the host lets go. *)
Unplug ==
  /\ wire' = None
  /\ host' = Neutral
  /\ UNCHANGED newest

Next == HandOver \/ PutOnWire \/ Deliver \/ Unplug

Spec == Init /\ [][Next]_wireVars
=============================================================================
