----------------------------- MODULE SinkAlone -----------------------------
(***************************************************************************)
(* The sink by itself, driven by any caller that keeps the contract of     *)
(* output_sink.hpp: submit() at will, flush() at will, shutdown() last.    *)
(* Bridge.tla is the caller the program really has.                        *)
(***************************************************************************)
EXTENDS HidSink

VARIABLES newest,  \* history: the last report handed to submit() or sent by shutdown()
          lost     \* history: the cable was pulled since a report was last written

aloneVars == <<sinkVars, newest, lost>>

Init == SinkInit /\ newest = Neutral /\ lost = ~attached

CallSubmit ==
  /\ sinkOpen
  /\ \E r \in Report : Submit(r) /\ newest' = r
  /\ lost' = (lost /\ ~Writable)

CallFlush ==
  /\ sinkOpen
  /\ Flush
  /\ lost' = (lost /\ ~(pending /\ Writable))
  /\ UNCHANGED newest

CallShutdown ==
  /\ sinkOpen
  /\ Shutdown
  /\ newest' = Neutral
  /\ lost' = (lost /\ ~Writable)

Poll == HostPolls /\ UNCHANGED <<newest, lost>>
Detach == HostDetaches /\ lost' = TRUE /\ UNCHANGED newest
Attach == HostAttaches /\ UNCHANGED <<newest, lost>>

Next == CallSubmit \/ CallFlush \/ CallShutdown \/ Poll \/ Detach \/ Attach

Spec == Init /\ [][Next]_aloneVars

-----------------------------------------------------------------------------
TypeOK ==
  /\ sinkOpen \in BOOLEAN /\ pending \in BOOLEAN /\ attached \in BOOLEAN
  /\ lost \in BOOLEAN
  /\ pendingReport \in Report /\ host \in Report /\ newest \in Report
  /\ inflight \in Report \cup {None}

(***************************************************************************)
(* While the gadget is open the newest state is never forgotten: it is the *)
(* pending report, or on its way to the host, or what the host acts on,    *)
(* unless the cable was pulled after it was written                        *)
(* (ns_hid_sink.cpp:170-191).                                              *)
(***************************************************************************)
NewestIsKept ==
  sinkOpen =>
    \/ pending /\ pendingReport = newest
    \/ ~pending /\ inflight = newest
    \/ ~pending /\ inflight = None /\ (host = newest \/ lost)

(***************************************************************************)
(* The sink refines the one-report wire of FreshestReport: nothing but the *)
(* newest state is ever put on it (output_sink.hpp:29-32, "never build a   *)
(* queue of stale reports").                                               *)
(***************************************************************************)
Fresh == INSTANCE FreshestReport WITH wire <- inflight
ImplementsFreshestReport == Fresh!Spec
=============================================================================
