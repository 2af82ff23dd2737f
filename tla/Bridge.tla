------------------------------- MODULE Bridge -------------------------------
(***************************************************************************)
(* Bridge (src/src/bridge.cpp): the event loop that owns one InputSource   *)
(* and one OutputSink, from the end of initialize() to the destructor.     *)
(*                                                                         *)
(* The loop is one thread.  The source's device or client, the gadget's    *)
(* host, the clock and the signal that calls stop() act between any two of *)
(* its steps.  The source is the part of EvdevSource or SocketSource the   *)
(* loop sees: a descriptor, the newest complete state that waits to be     *)
(* read, and whether the other end is gone.  A GamepadState is a member of *)
(* State; Shape is the chain of transforms and Encode is                   *)
(* NsHidSink::encode().                                                    *)
(***************************************************************************)
EXTENDS HidSink, Naturals

CONSTANTS Kinds,         \* the sources to choose from: "evdev", "socket"
          State,         \* GamepadStates
          NoInput,       \* GamepadState{}: nothing pressed
          Nothing,       \* no unread input
          Partial,       \* unread input that is no complete update
          Shape,         \* the transforms, in [State -> State]; not idempotent
          Encode,        \* encode(), in [State -> Report]
          HeartbeatOn,   \* sink.ns_hid.heartbeat_hz > 0
          MaxInputs,     \* bound: inputs the device or client sends
          MaxLosses,     \* bound: times a device or client goes away, by kind of source
          MaxDetaches    \* bound: times the host's cable is pulled

ASSUME KindAssumption == Kinds \subseteq {"evdev", "socket"}
ASSUME StateAssumption ==
  /\ NoInput \in State
  /\ Shape \in [State -> State] /\ Encode \in [State -> Report]
  /\ Encode[NoInput] = Neutral /\ Shape[NoInput] = NoInput
  /\ Nothing \notin State /\ Partial \notin State
ASSUME BoundsAssumption == {MaxInputs, MaxDetaches} \subseteq Nat /\ MaxLosses \in [Kinds -> Nat]

VARIABLES pc,            \* where run() is
          running,       \* running_
          wasConnected,  \* run()'s was_connected
          registered,    \* run()'s registered_src_fd
          retryDue,      \* now >= next_retry_ns
          current,       \* current_
          armed,         \* EPOLLOUT is requested for the sink's descriptor
          batch,         \* events of this epoll_wait() still to be dispatched
          ticked,        \* the heartbeat timer has expired and was not read
          kind,          \* which source the config names
          srcFd,         \* the source's fd(): "dev", "listen", "conn" or NoFd
          unread,        \* what a read of srcFd would find, the newest complete state
          hungUp,        \* the device or client behind srcFd is gone
          available,     \* a device, or a client in the backlog, can be had
          stopAsked,     \* history: stop() was called
          lastRead,      \* history: the last state read() returned or left in current_
          handed,        \* history: the last report handed to the sink
          budget         \* what is left of the three bounds

loopVars == <<pc, running, wasConnected, registered, retryDue, current, armed,
              batch, ticked>>
sourceVars == <<kind, srcFd, unread, hungUp, available>>
historyVars == <<stopAsked, lastRead, handed, budget>>
vars == <<sinkVars, loopVars, sourceVars, historyVars>>

NoFd == "none"
Connected == kind = "socket" \/ srcFd # NoFd
EmitsCanonical == kind = "socket"

Init ==
  /\ SinkInit
  /\ kind \in Kinds
  /\ srcFd \in IF kind = "socket" THEN {"listen"} ELSE {"dev", NoFd}
  /\ available = (srcFd = "dev")
  /\ unread = Nothing /\ hungUp = FALSE
  /\ pc = "start" /\ running = FALSE /\ wasConnected = FALSE
  /\ registered = NoFd /\ retryDue = TRUE
  /\ current = NoInput /\ armed = FALSE
  /\ batch = {} /\ ticked = FALSE
  /\ stopAsked = FALSE /\ lastRead = NoInput /\ handed = Neutral
  /\ budget = [inputs |-> MaxInputs, losses |-> MaxLosses[kind], detaches |-> MaxDetaches]

-----------------------------------------------------------------------------
(* mutant: a state that finds a report pending is left to the flush *)
SubmitsBehind(s) ==
  /\ IF pending THEN UNCHANGED sinkVars ELSE Submit(Encode[s])
  /\ handed' = Encode[s]
  /\ armed' = pending'

(* submit_current(): hand a state over and arm EPOLLOUT iff it is pending. *)
SubmitCurrent(s) ==
  /\ Submit(Encode[s])
  /\ handed' = Encode[s]
  /\ armed' = pending'

NoSubmit == UNCHANGED <<sinkVars, handed, armed>>

(* run() up to its loop. *)
RunStarts ==
  /\ pc = "start"
  /\ running' = TRUE
  /\ wasConnected' = Connected
  /\ pc' = "top"
  /\ NoSubmit
  /\ UNCHANGED <<registered, retryDue, current, batch, ticked, sourceVars,
                 stopAsked, lastRead, budget>>

(* The while condition; the first pass after a loss releases everything. *)
LoopEnds ==
  /\ pc = "top" /\ ~running
  /\ pc' = "returned"
  /\ NoSubmit
  /\ UNCHANGED <<running, wasConnected, registered, retryDue, current, batch, ticked,
                 sourceVars, stopAsked, lastRead, budget>>

(* mutant: the loss is noted and nothing is released *)
LossKeepsState ==
  /\ pc = "top" /\ running /\ ~Connected
  /\ wasConnected' = FALSE
  /\ registered' = NoFd
  /\ pc' = "retry"
  /\ NoSubmit
  /\ UNCHANGED <<running, retryDue, current, batch, ticked, sourceVars, stopAsked,
                 lastRead, budget>>

LoopFindsLoss ==
  /\ pc = "top" /\ running /\ ~Connected
  /\ \/ wasConnected /\ current' = NoInput /\ SubmitCurrent(NoInput) /\ lastRead' = NoInput
     \/ ~wasConnected /\ NoSubmit /\ UNCHANGED <<current, lastRead>>
  /\ wasConnected' = FALSE
  /\ registered' = NoFd
  /\ pc' = "retry"
  /\ UNCHANGED <<running, retryDue, batch, ticked, sourceVars, stopAsked, budget>>

(* mutant: the while condition is not looked at *)
LoopIgnoresStop ==
  /\ pc = "top" /\ Connected
  /\ pc' = "reconcile"
  /\ NoSubmit
  /\ UNCHANGED <<running, wasConnected, registered, retryDue, current, batch, ticked,
                 sourceVars, stopAsked, lastRead, budget>>

LoopFindsSource ==
  /\ pc = "top" /\ running /\ Connected
  /\ pc' = "reconcile"
  /\ NoSubmit
  /\ UNCHANGED <<running, wasConnected, registered, retryDue, current, batch, ticked,
                 sourceVars, stopAsked, lastRead, budget>>

(* mutant: was_connected stays false after a reconnect *)
ReconnectForgets ==
  /\ pc = "retry"
  /\ \/ /\ retryDue /\ available
        /\ srcFd' = "dev" /\ hungUp' = FALSE /\ unread' = Nothing
        /\ UNCHANGED <<retryDue, wasConnected>>
     \/ /\ ~(retryDue /\ available)
        /\ retryDue' = FALSE
        /\ UNCHANGED <<srcFd, hungUp, unread, wasConnected>>
  /\ pc' = "reconcile"
  /\ NoSubmit
  /\ UNCHANGED <<running, registered, current, batch, ticked, kind, available,
                 stopAsked, lastRead, budget>>

(* Every half second while disconnected: EvdevSource::reconnect(). *)
TryReconnect ==
  /\ pc = "retry"
  /\ \/ /\ retryDue /\ available
        /\ srcFd' = "dev" /\ hungUp' = FALSE /\ unread' = Nothing
        /\ wasConnected' = TRUE
        /\ UNCHANGED retryDue
     \/ /\ ~(retryDue /\ available)
        /\ retryDue' = FALSE
        /\ UNCHANGED <<srcFd, hungUp, unread, wasConnected>>
  /\ pc' = "reconcile"
  /\ NoSubmit
  /\ UNCHANGED <<running, registered, current, batch, ticked, kind, available,
                 stopAsked, lastRead, budget>>

(* mutant: the descriptor of a client that closed is not taken out *)
KeepsClient ==
  /\ pc = "reconcile"
  /\ registered' = IF registered = "conn" THEN "conn" ELSE srcFd
  /\ pc' = "wait"
  /\ NoSubmit
  /\ UNCHANGED <<running, wasConnected, retryDue, current, batch, ticked, sourceVars,
                 stopAsked, lastRead, budget>>

(* The descriptor the source has now is the one epoll watches. *)
Reconcile ==
  /\ pc = "reconcile"
  /\ registered' = srcFd
  /\ pc' = "wait"
  /\ NoSubmit
  /\ UNCHANGED <<running, wasConnected, retryDue, current, batch, ticked, sourceVars,
                 stopAsked, lastRead, budget>>

(* epoll_ctl() cannot add the descriptor, or epoll_wait() fails: run() returns 1. *)
LoopFails ==
  /\ \/ pc = "reconcile" /\ srcFd \notin {registered, NoFd}
     \/ pc = "wait"
  /\ pc' = "returned"
  /\ NoSubmit
  /\ UNCHANGED <<running, wasConnected, registered, retryDue, current, batch, ticked,
                 sourceVars, stopAsked, lastRead, budget>>

SourceReadable ==
  \/ registered = "listen" /\ available
  \/ registered \in {"dev", "conn"} /\ (unread # Nothing \/ hungUp)

Ready ==
  (IF ~SourceReadable THEN {} ELSE IF hungUp THEN {"hup"} ELSE {"src"})
  \cup (IF ticked THEN {"timer"} ELSE {})
  \cup (IF armed /\ inflight = None THEN {"out"} ELSE {})

(* epoll_wait() returns with what is ready; with nothing after its timeout or a signal. *)
Wait ==
  /\ pc = "wait"
  /\ batch' = Ready
  /\ pc' = "dispatch"
  /\ NoSubmit
  /\ UNCHANGED <<running, wasConnected, registered, retryDue, current, ticked, sourceVars,
                 stopAsked, lastRead, budget>>

-----------------------------------------------------------------------------
(* The events of one epoll_wait(), in any order. *)

Dispatch(e) ==
  /\ pc = "dispatch" /\ e \in batch
  /\ batch' = batch \ {e}
  /\ UNCHANGED <<pc, running, wasConnected, registered, retryDue, stopAsked, budget>>

(* Does read() return a complete update?  A vanished device answers ENODEV at once. *)
ReadYields == unread \in State /\ ~(kind = "evdev" /\ hungUp)

(* What read() does to the source: it drains, accepts a client, or finds the other end gone. *)
Read ==
  /\ \/ srcFd = "listen" /\ available /\ srcFd' = "conn" /\ available' = FALSE
     \/ srcFd = "dev" /\ srcFd' = (IF hungUp THEN NoFd ELSE "dev") /\ UNCHANGED available
     \/ srcFd = "conn" /\ srcFd' = (IF hungUp THEN "listen" ELSE "conn") /\ UNCHANGED available
  /\ unread' = Nothing
  /\ hungUp' = FALSE
  /\ UNCHANGED kind

(* EPOLLERR or EPOLLHUP: the state read() may leave in current_ is not looked at. *)
DispatchHangUp ==
  /\ Dispatch("hup")
  /\ Read
  /\ current' = IF ReadYields THEN unread ELSE current
  /\ lastRead' = IF ReadYields THEN unread ELSE lastRead
  /\ NoSubmit
  /\ UNCHANGED ticked

(* A complete update is mapped, unless it is canonical, and handed to the sink. *)
DispatchSource ==
  /\ Dispatch("src")
  /\ Read
  /\ \/ /\ ReadYields
        /\ current' = IF EmitsCanonical THEN unread ELSE Shape[unread]
        /\ lastRead' = unread
        /\ SubmitCurrent(current')
     \/ ~ReadYields /\ NoSubmit /\ UNCHANGED <<current, lastRead>>
  /\ UNCHANGED ticked

(* mutant: the heartbeat runs the transforms again *)
HeartbeatShapes ==
  /\ Dispatch("timer")
  /\ ticked' = FALSE
  /\ current' = Shape[current]
  /\ SubmitCurrent(current')
  /\ UNCHANGED <<lastRead, sourceVars>>

(* mutant: the timer is read and nothing is sent *)
HeartbeatIsSilent ==
  /\ Dispatch("timer")
  /\ ticked' = FALSE
  /\ NoSubmit
  /\ UNCHANGED <<current, lastRead, sourceVars>>

DispatchTimer ==
  /\ Dispatch("timer")
  /\ ticked' = FALSE
  /\ SubmitCurrent(current)
  /\ UNCHANGED <<current, lastRead, sourceVars>>

(* mutant: EPOLLOUT is disarmed although the report could not be written *)
DisarmsAlways ==
  /\ Dispatch("out")
  /\ Flush
  /\ armed' = FALSE
  /\ UNCHANGED <<handed, current, lastRead, ticked, sourceVars>>

(* The gadget can take a report: flush(), and disarm EPOLLOUT if that worked. *)
DispatchWritable ==
  /\ Dispatch("out")
  /\ Flush
  /\ armed' = pending'
  /\ UNCHANGED <<handed, current, lastRead, ticked, sourceVars>>

DispatchDone ==
  /\ pc = "dispatch" /\ batch = {}
  /\ pc' = "top"
  /\ NoSubmit
  /\ UNCHANGED <<running, wasConnected, registered, retryDue, current, batch, ticked,
                 sourceVars, stopAsked, lastRead, budget>>

(* ~Bridge: the source is closed, the sink released and closed. *)
Destroy ==
  /\ pc = "returned"
  /\ pc' = "closed"
  /\ Shutdown /\ handed' = Neutral
  /\ srcFd' = NoFd /\ unread' = Nothing /\ hungUp' = FALSE
  /\ UNCHANGED <<running, wasConnected, registered, retryDue, current, armed,
                 batch, ticked, kind, available, stopAsked, lastRead, budget>>

Closed == pc = "closed" /\ UNCHANGED vars

Loop ==
  \/ RunStarts \/ LoopEnds \/ LoopFindsLoss \/ LoopFindsSource \/ TryReconnect
  \/ Reconcile \/ Wait \/ DispatchHangUp \/ DispatchSource \/ DispatchTimer
  \/ DispatchWritable \/ DispatchDone \/ Destroy

-----------------------------------------------------------------------------
(* Everything else *)

Open == srcFd \in {"dev", "conn"} /\ ~hungUp

(* A state arrives, or input with no complete update in it. *)
SourceSends ==
  /\ Open /\ budget.inputs > 0
  /\ \/ unread' \in State
     \/ unread = Nothing /\ unread' = Partial
  /\ budget' = [budget EXCEPT !.inputs = @ - 1]
  /\ UNCHANGED <<sinkVars, loopVars, kind, srcFd, hungUp, available, stopAsked, lastRead, handed>>

DeviceVanishes ==
  /\ kind = "evdev" /\ available /\ budget.losses > 0
  /\ available' = FALSE
  /\ hungUp' = (srcFd = "dev")
  /\ budget' = [budget EXCEPT !.losses = @ - 1]
  /\ UNCHANGED <<sinkVars, loopVars, kind, srcFd, unread, stopAsked, lastRead, handed>>

ClientCloses ==
  /\ srcFd = "conn" /\ ~hungUp /\ budget.losses > 0
  /\ hungUp' = TRUE
  /\ budget' = [budget EXCEPT !.losses = @ - 1]
  /\ UNCHANGED <<sinkVars, loopVars, kind, srcFd, unread, available, stopAsked, lastRead, handed>>

(* The device is plugged in, or a client connects and waits to be accepted. *)
SourceAppears ==
  /\ ~available
  /\ available' = TRUE
  /\ UNCHANGED <<sinkVars, loopVars, kind, srcFd, unread, hungUp, historyVars>>

Tick ==
  /\ HeartbeatOn /\ ~ticked /\ pc # "closed"
  /\ ticked' = TRUE
  /\ UNCHANGED <<sinkVars, pc, running, wasConnected, registered, retryDue, current,
                 armed, batch, sourceVars, historyVars>>

RetryTimePasses ==
  /\ ~retryDue
  /\ retryDue' = TRUE
  /\ UNCHANGED <<sinkVars, pc, running, wasConnected, registered, current, armed,
                 batch, ticked, sourceVars, historyVars>>

(* SIGINT or SIGTERM: on_signal() calls stop(). *)
Signal ==
  /\ ~stopAsked /\ pc # "closed"
  /\ stopAsked' = TRUE
  /\ running' = FALSE
  /\ UNCHANGED <<sinkVars, pc, wasConnected, registered, retryDue, current, armed,
                 batch, ticked, sourceVars, lastRead, handed, budget>>

Poll == HostPolls /\ UNCHANGED <<loopVars, sourceVars, historyVars>>
Attach == HostAttaches /\ UNCHANGED <<loopVars, sourceVars, historyVars>>

Detach ==
  /\ budget.detaches > 0
  /\ HostDetaches
  /\ budget' = [budget EXCEPT !.detaches = @ - 1]
  /\ UNCHANGED <<loopVars, sourceVars, stopAsked, lastRead, handed>>

Environment ==
  \/ SourceSends \/ DeviceVanishes \/ ClientCloses \/ SourceAppears
  \/ Tick \/ RetryTimePasses \/ Signal \/ Poll \/ Attach \/ Detach

Next == Loop \/ LoopFails \/ Environment \/ Closed

(***************************************************************************)
(* The loop's thread is scheduled, time passes, and an attached host polls *)
(* the endpoint.  Devices, clients, cables and signals owe nothing.        *)
(***************************************************************************)
Fairness == WF_vars(Loop) /\ WF_vars(Poll) /\ WF_vars(Tick) /\ WF_vars(RetryTimePasses)

Safety == Init /\ [][Next]_vars
Spec == Safety /\ Fairness

-----------------------------------------------------------------------------
TypeOK ==
  /\ {sinkOpen, pending, attached, running, wasConnected, retryDue, armed,
      ticked, hungUp, available, stopAsked} \subseteq BOOLEAN
  /\ {pendingReport, host, handed} \subseteq Report /\ inflight \in Report \cup {None}
  /\ pc \in {"start", "top", "retry", "reconcile", "wait", "dispatch", "returned", "closed"}
  /\ kind \in Kinds /\ srcFd \in {"dev", "listen", "conn", NoFd}
  /\ registered \in {"dev", "listen", "conn", NoFd}
  /\ current \in State /\ lastRead \in State /\ unread \in State \cup {Nothing, Partial}
  /\ batch \subseteq {"hup", "src", "timer", "out"}
  /\ budget \in [inputs : 0..MaxInputs, losses : 0..MaxLosses[kind], detaches : 0..MaxDetaches]

(***************************************************************************)
(* The loop never goes to sleep on a descriptor the source no longer has,  *)
(* nor with a report pending and EPOLLOUT off (it would stay pending), nor *)
(* with EPOLLOUT on and nothing pending (it would spin: bridge.cpp:69-70), *)
(* nor with a state of a device that differs from the one the sink was     *)
(* last given: a heartbeat only repeats (255-256).  What a client sends    *)
(* with its hang-up is left to the heartbeat (236-241).                    *)
(***************************************************************************)
WaitsOnEverything ==
  pc = "wait" =>
    /\ registered = srcFd
    /\ armed <=> pending
    /\ kind = "evdev" => handed = Encode[current]

(***************************************************************************)
(* Every state of a device was mapped exactly once, and every state of a   *)
(* client not at all, whatever mixture of updates, heartbeats, losses and  *)
(* reconnects came after it (input_source.hpp:37-42).                      *)
(***************************************************************************)
ShapedOnce ==
  pc = "wait" => current = IF EmitsCanonical THEN lastRead ELSE Shape[lastRead]

(***************************************************************************)
(* "Whatever was held when the device vanished must be released"           *)
(* (bridge.cpp:181-183): no sleep without a device and with a button held, *)
(* at the first loss and at every later one.                               *)
(***************************************************************************)
ReleasedWhileGone ==
  pc = "wait" /\ srcFd = NoFd => current = NoInput /\ handed = Neutral

(* ... and the release arrives: a lost device's buttons do not stay down on the host. *)
LossReleasesHost ==
  srcFd = NoFd ~> (host = Neutral \/ srcFd # NoFd \/ pc = "closed")

(***************************************************************************)
(* With the heartbeat on, once the device, the client and the cable are    *)
(* quiet the host ends up with the state the bridge holds, even if the     *)
(* cable was pulled after it was written (bridge.cpp:252-266).             *)
(***************************************************************************)
HostCatchesUp ==
  <>[](pc = "closed" \/ ~attached \/ host = Encode[current])

(***************************************************************************)
(* A device that is back is opened again (bridge.cpp:192-202) and a        *)
(* waiting client is accepted (205-220), also when the device before, or   *)
(* the client before, is gone and nobody has noticed yet.                  *)
(***************************************************************************)
SourceIsOpened ==
  (available /\ (hungUp \/ srcFd \in {"listen", NoFd})) ~>
    (~available \/ pc = "closed" \/ (~hungUp /\ srcFd \in {"dev", "conn"}))

(***************************************************************************)
(* The program as a whole keeps the promise of output_sink.hpp:29-32: what *)
(* updates, heartbeats, losses, flushes and the release at exit put on the *)
(* wire, in any order, is what was handed over last, and a flush is never  *)
(* of a state that a later one has overtaken (bridge.cpp:84-98, 259-265).  *)
(***************************************************************************)
Fresh == INSTANCE FreshestReport WITH newest <- handed, wire <- inflight
BridgeSendsTheFreshest == Fresh!Spec

(* Once run() is in its loop, stop() ends it and the devices are released. *)
StopEndsTheLoop == (pc # "start" /\ ~running) ~> pc = "closed"

-----------------------------------------------------------------------------
(***************************************************************************)
(* "Release everything before letting go of the device"                    *)
(* (ns_hid_sink.cpp:196-201): after the program has ended, a host that has *)
(* polled whatever was queued holds nothing.                               *)
(***************************************************************************)
NothingHeldAfterExit ==
  pc = "closed" /\ attached /\ inflight = None => host = Neutral
=============================================================================
