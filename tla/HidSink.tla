------------------------------ MODULE HidSink ------------------------------
(***************************************************************************)
(* NsHidSink (src/src/sinks/ns_hid_sink.cpp): one non-blocking descriptor  *)
(* on a USB HID gadget and one pending report that newer states overwrite. *)
(* The gadget driver and the host are outside the repository: the driver   *)
(* holds at most one report for the host's next poll, refuses a write with *)
(* EAGAIN while it does, and with ESHUTDOWN while no host is attached.     *)
(* The operators are steps of the modules that extend this one.            *)
(***************************************************************************)
CONSTANTS Report,   \* what encode() returns: the 8-byte reports
          Neutral,  \* everything released, sticks centred
          None      \* no report

ASSUME NeutralAssumption == Neutral \in Report
ASSUME NoneAssumption == None \notin Report

VARIABLES sinkOpen,       \* fd_ >= 0
          pending,        \* pending_
          pendingReport,  \* pending_report_
          inflight,       \* the gadget: the report queued for the next poll, or None
          host,           \* the host: the report it acts on
          attached        \* the host: plugged in and configured

sinkVars == <<sinkOpen, pending, pendingReport, inflight, host, attached>>

(* The answer of the gadget driver to write(). *)
Writable == attached /\ inflight = None

(* initialize(): open the gadget and probe it with a neutral report, which may be refused. *)
SinkInit ==
  /\ sinkOpen = TRUE
  /\ pending = FALSE /\ pendingReport = Neutral
  /\ attached \in BOOLEAN
  /\ inflight = IF attached THEN Neutral ELSE None
  /\ host = Neutral

-----------------------------------------------------------------------------
(* mutant: a report that got through leaves the older pending one in place *)
SubmitKeepsPending(r) ==
  /\ \/ /\ Writable
        /\ inflight' = r
        /\ UNCHANGED <<pending, pendingReport>>
     \/ /\ ~Writable
        /\ pending' = TRUE /\ pendingReport' = r
        /\ UNCHANGED inflight
  /\ UNCHANGED <<sinkOpen, host, attached>>

(* submit(): the report is written, or becomes the pending one. *)
Submit(r) ==
  /\ \/ /\ Writable
        /\ inflight' = r /\ pending' = FALSE
        /\ UNCHANGED pendingReport
     \/ /\ ~Writable
        /\ pending' = TRUE /\ pendingReport' = r
        /\ UNCHANGED inflight
  /\ UNCHANGED <<sinkOpen, host, attached>>

(* mutant: the report is cleared where the flag should be *)
FlushClearsReport ==
  /\ \/ /\ pending /\ Writable
        /\ inflight' = pendingReport /\ pendingReport' = None
     \/ ~(pending /\ Writable) /\ UNCHANGED <<inflight, pendingReport>>
  /\ UNCHANGED <<sinkOpen, pending, host, attached>>

(* flush(): true, leaving nothing pending, iff there was nothing or it could be written. *)
Flush ==
  /\ \/ /\ pending /\ Writable
        /\ inflight' = pendingReport /\ pending' = FALSE
     \/ ~(pending /\ Writable) /\ UNCHANGED <<inflight, pending>>
  /\ UNCHANGED <<sinkOpen, pendingReport, host, attached>>

(* shutdown(): one neutral report, whose refusal is ignored, and close. *)
Shutdown ==
  /\ inflight' = IF Writable THEN Neutral ELSE inflight
  /\ sinkOpen' = FALSE
  /\ UNCHANGED <<pending, pendingReport, host, attached>>

-----------------------------------------------------------------------------
(* The host and the cable *)

HostPolls ==
  /\ attached /\ inflight # None
  /\ host' = inflight
  /\ inflight' = None
  /\ UNCHANGED <<sinkOpen, pending, pendingReport, attached>>

(* The driver completes the queued request with an error; the host sees the pad vanish. *)
HostDetaches ==
  /\ attached
  /\ attached' = FALSE
  /\ inflight' = None
  /\ host' = Neutral
  /\ UNCHANGED <<sinkOpen, pending, pendingReport>>

HostAttaches ==
  /\ ~attached
  /\ attached' = TRUE
  /\ UNCHANGED <<sinkOpen, pending, pendingReport, inflight, host>>
=============================================================================
