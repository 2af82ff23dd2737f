------------------------------ MODULE Latency ------------------------------
(***************************************************************************)
(* gpb-latency (src/tools/latency.cpp): one process that writes a report   *)
(* to the gadget, waits for the event it causes on the loopback pad, and   *)
(* repeats, with buttons and axes in turn.                                 *)
(*                                                                         *)
(* The gadget driver holds one report until the host polls it; a blocking  *)
(* write waits for that, and fails when no host is there.  The loopback    *)
(* pad is the same host's input device, which goes with the cable; a pad   *)
(* that is back is a new device, which the tool does not open.  The host   *)
(* polls for certain only while the tool has the present pad open.         *)
(* Times are left out: a wait ends with an event, or without one.          *)
(***************************************************************************)
EXTENDS Naturals

CONSTANT None   \* no report is queued

VARIABLES tool,      \* where main() is, or "off"
          turn,      \* i % 2: the kind of event this sample is about
          report,    \* r: a button and an axis
          stop,      \* g_stop
          late,      \* now_ns() >= deadline
          queued,    \* the report in the driver, or None
          shown,     \* the report the host has taken last
          events,    \* what a read of the loopback pad would find
          padOpen,   \* the pad that dev refers to is still there
          attached,  \* the cable is in
          awake,     \* the host polls
          misread    \* history: a sample was taken from another report's event

toolVars == <<tool, turn, report, stop, late, padOpen, misread>>
hostVars == <<queued, shown, events, attached, awake>>
latencyVars == <<toolVars, hostVars>>

Neutral == [key |-> 0, abs |-> "mid"]
Reports == [key : {0, 1}, abs : {"mid", "low", "high"}]
(* A report in the driver, and whether the present sample wrote it. *)
Writables == [key : {0, 1}, abs : {"mid", "low", "high"}, own : BOOLEAN]
(* An event, and whether the report of the present sample caused it. *)
Events == [kind : {"key", "abs"}, own : BOOLEAN]

ASSUME NoneAssumption == None \notin Writables

LatencyInit ==
  /\ tool = "off" /\ turn = "key" /\ report = Neutral
  /\ stop = FALSE /\ late = FALSE /\ padOpen = FALSE
  /\ queued = None /\ shown = Neutral /\ events = {}
  /\ attached = TRUE /\ awake = TRUE /\ misread = FALSE

-----------------------------------------------------------------------------
(* A process that begins, or that has ended: nothing is left of the one before. *)
Anew(place) ==
  /\ tool' = place /\ turn' = "key" /\ report' = Neutral
  /\ stop' = FALSE /\ late' = FALSE /\ padOpen' = FALSE /\ events' = {}
  /\ UNCHANGED <<misread, shown, attached, awake>>

(* main() up to its loop: a node that cannot be opened ends the process. *)
Opens ==
  /\ tool = "opening" /\ UNCHANGED queued
  /\ \/ /\ tool' = "loop" /\ padOpen' = attached
        /\ UNCHANGED <<turn, report, stop, late, misread, shown, events, attached, awake>>
     \/ Anew("off")

(* mutant: the button is not taken back *)
PressedAgain ==
  IF turn = "key" THEN [report EXCEPT !.key = 1 + @]
  ELSE [report EXCEPT !.abs = IF @ = "high" THEN "low" ELSE "high"]

Toggled ==
  IF turn = "key" THEN [report EXCEPT !.key = 1 - @]
  ELSE [report EXCEPT !.abs = IF @ = "high" THEN "low" ELSE "high"]

Disowned(e) == [e EXCEPT !.own = FALSE]

(* The loop's head: change one control in the report, empty the pad's queue. *)
BeginsSample ==
  /\ tool = "loop" /\ ~stop /\ ~late
  /\ report' = Toggled
  /\ events' = {}
  /\ queued' = IF queued = None THEN None ELSE Disowned(queued)
  /\ tool' = "write"
  /\ UNCHANGED <<turn, stop, late, padOpen, misread, shown, attached, awake>>

(* mutant: the deadline is not looked at *)
EndsWhenStopped ==
  /\ tool = "loop" /\ stop
  /\ tool' = "release"
  /\ UNCHANGED <<turn, report, stop, late, padOpen, misread, hostVars>>

EndsLoop ==
  /\ tool = "loop" /\ (stop \/ late)
  /\ tool' = "release"
  /\ UNCHANGED <<turn, report, stop, late, padOpen, misread, hostVars>>

Sent(r) == [key |-> r.key, abs |-> r.abs, own |-> TRUE]

(* write() goes through when the driver is free, and fails without a host. *)
Writes ==
  /\ tool = "write"
  /\ \/ attached /\ queued = None /\ queued' = Sent(report) /\ tool' = "wait"
     \/ ~attached /\ tool' = "settle" /\ UNCHANGED queued
  /\ UNCHANGED <<turn, report, stop, late, padOpen, misread, shown, events, attached, awake>>

(* Everything readable is read; an event of the wanted kind is the sample. *)
Reads ==
  /\ tool = "wait" /\ events # {}
  /\ events' = {}
  /\ \/ /\ \E e \in events : e.kind = turn
        /\ tool' = "settle"
        /\ misread' = (misread \/ [kind |-> turn, own |-> TRUE] \notin events)
     \/ /\ \A e \in events : e.kind # turn
        /\ UNCHANGED <<tool, misread>>
  /\ UNCHANGED <<turn, report, stop, late, padOpen, queued, shown, attached, awake>>

(* 300 ms without it, or a signal, or a pad that is gone: the sample is lost. *)
GivesUp ==
  /\ tool = "wait" /\ events = {}
  /\ tool' = "settle"
  /\ UNCHANGED <<turn, report, stop, late, padOpen, misread, hostVars>>

(* mutant: buttons only *)
SettlesOnKeys ==
  /\ tool = "settle"
  /\ tool' = "loop"
  /\ UNCHANGED <<turn, report, stop, late, padOpen, misread, hostVars>>

Settles ==
  /\ tool = "settle"
  /\ turn' = IF turn = "key" THEN "abs" ELSE "key"
  /\ tool' = "loop"
  /\ UNCHANGED <<report, stop, late, padOpen, misread, hostVars>>

(* The neutral report at the end, and exit. *)
Releases ==
  /\ tool = "release"
  /\ \/ attached /\ queued = None /\ queued' = Disowned(Sent(Neutral))
     \/ ~attached /\ UNCHANGED queued
  /\ Anew("off")

DeadlinePasses ==
  /\ tool \notin {"off", "opening"} /\ ~late
  /\ late' = TRUE
  /\ UNCHANGED <<tool, turn, report, stop, padOpen, misread, hostVars>>

Blocked == attached /\ queued # None

(* SIGINT or SIGTERM: on_signal(), and a write that is blocked is interrupted; one that *)
(* has not been called yet is not. *)
Interrupt ==
  /\ UNCHANGED queued
  /\ \/ tool = "off" /\ UNCHANGED latencyVars
     \/ tool = "release" /\ Blocked /\ Anew("off")
     \/ /\ tool # "off" /\ stop' = TRUE
        /\ tool' = tool \/ (tool = "write" /\ Blocked /\ tool' = "settle")
        /\ UNCHANGED <<turn, report, late, padOpen, misread, shown, events, attached, awake>>

ToolSteps ==
  Opens \/ EndsLoop \/ Writes \/ Reads \/ GivesUp \/ Settles \/ Releases

-----------------------------------------------------------------------------
(* The host takes the report; each control that changed makes one event. *)
HostTakes ==
  /\ attached /\ awake /\ queued # None
  /\ shown' = [key |-> queued.key, abs |-> queued.abs]
  /\ queued' = None
  /\ events' = IF ~padOpen THEN {}
               ELSE events \cup {[kind |-> k, own |-> queued.own] :
                                   k \in {x \in {"key", "abs"} : queued[x] # shown[x]}}
  /\ UNCHANGED <<toolVars, attached, awake>>

(* The cable was pulled and is back: nobody reads the pad that is there now. *)
Blind == attached /\ ~padOpen /\ tool \notin {"off", "opening"}

CablePulled ==
  /\ attached
  /\ attached' = FALSE /\ padOpen' = FALSE /\ events' = {}
  /\ queued' = None /\ shown' = Neutral
  /\ UNCHANGED <<tool, turn, report, stop, late, misread, awake>>

CablePlugged ==
  /\ ~attached
  /\ attached' = TRUE
  /\ UNCHANGED <<toolVars, queued, shown, events, awake>>

(* The host suspends the port, or resumes it. *)
HostSleeps == awake' = ~awake /\ UNCHANGED <<toolVars, queued, shown, events, attached>>

LatencyTypeOK ==
  /\ tool \in {"off", "opening", "loop", "write", "wait", "settle", "release"}
  /\ turn \in {"key", "abs"} /\ report \in Reports /\ shown \in Reports
  /\ queued \in Writables \cup {None}
  /\ events \subseteq Events
  /\ {stop, late, padOpen, attached, awake, misread} \subseteq BOOLEAN
=============================================================================
