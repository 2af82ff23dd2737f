---------------------------- MODULE BridgeProofs ----------------------------
(***************************************************************************)
(* Proofs about Bridge for every set of states and reports, every          *)
(* transform and encoding, both sources and any number of inputs, losses   *)
(* and pulled cables.  The three properties speak of the moment the loop   *)
(* goes to sleep; LoopInv says what holds in between: which descriptor the *)
(* source can have, what the events still to be dispatched promise, what   *)
(* the sink was given, and that was_connected tells a loss that has been   *)
(* dealt with from a new one.                                              *)
(***************************************************************************)
EXTENDS Bridge, TLAPS

(* A source has a descriptor of its kind, and only a device or a client hangs up. *)
Ends ==
  /\ kind = "evdev" => srcFd \in {"dev", NoFd}
  /\ kind = "socket" /\ pc # "closed" => srcFd \in {"listen", "conn"}
  /\ hungUp => srcFd \in {"dev", "conn"}
  /\ pc = "retry" => kind = "evdev"

(* A hang-up that was reported is still there when it is dispatched. *)
Batched ==
  /\ pc # "dispatch" => batch = {}
  /\ "hup" \in batch => hungUp /\ "src" \notin batch

(* The sink has the state of a device, EPOLLOUT follows the pending report. *)
Kept ==
  /\ armed <=> pending
  /\ pc # "closed" /\ kind = "evdev" => handed = Encode[current]
  /\ current = IF EmitsCanonical THEN lastRead ELSE Shape[lastRead]

(* was_connected is false only while there is no device and nothing is held. *)
Gone ==
  /\ pc = "start" => current = NoInput
  /\ pc \in {"retry", "reconcile", "wait"} /\ srcFd = NoFd => ~wasConnected
  /\ pc \notin {"start", "closed"} /\ ~wasConnected => srcFd = NoFd /\ current = NoInput

Watched == pc = "wait" => registered = srcFd

Order == Ends /\ Batched /\ Kept /\ Gone /\ Watched
LoopInv == TypeOK /\ Order

-----------------------------------------------------------------------------
(* The types, of the sink and of the rest. *)
SinkTypes ==
  /\ sinkOpen \in BOOLEAN /\ pending \in BOOLEAN /\ attached \in BOOLEAN
  /\ pendingReport \in Report /\ host \in Report /\ inflight \in Report \cup {None}

LEMMA SubmitTypes ==
  ASSUME SinkTypes, NEW r \in Report, Submit(r)
  PROVE  SinkTypes'
<1>1. CASE Writable
  BY <1>1 DEF SinkTypes, Submit
<1>2. CASE ~Writable
  BY <1>2 DEF SinkTypes, Submit
<1>. QED BY <1>1, <1>2

LEMMA FlushTypes ==
  ASSUME SinkTypes, Flush
  PROVE  SinkTypes'
<1>1. CASE pending /\ Writable
  BY <1>1 DEF SinkTypes, Flush
<1>2. CASE ~(pending /\ Writable)
  BY <1>2 DEF SinkTypes, Flush
<1>. QED BY <1>1, <1>2

LEMMA ShutdownTypes ==
  ASSUME SinkTypes, Shutdown
  PROVE  SinkTypes'
BY NeutralAssumption DEF SinkTypes, Shutdown

LEMMA HostTypes ==
  ASSUME SinkTypes, HostPolls \/ HostDetaches \/ HostAttaches
  PROVE  SinkTypes'
BY NeutralAssumption DEF SinkTypes, HostPolls, HostDetaches, HostAttaches

(* What a state is encoded to, and what the transforms make of it. *)
LEMMA Mapped ==
  ASSUME NEW s \in State
  PROVE  Encode[s] \in Report /\ Shape[s] \in State
BY StateAssumption

(* What a step of the loop hands to the sink, if anything. *)
LEMMA SinkSteps ==
  ASSUME TypeOK, [Next]_vars
  PROVE  \/ \E s \in State : SubmitCurrent(s)
         \/ Flush /\ pc = "dispatch" /\ UNCHANGED handed
         \/ Shutdown /\ handed' = Neutral /\ pc' = "closed"
         \/ (HostPolls \/ HostDetaches \/ HostAttaches) /\ UNCHANGED handed
         \/ UNCHANGED <<sinkVars, handed>>
<1>. USE StateAssumption
<1>1. CASE LoopFindsLoss
  BY <1>1 DEF LoopFindsLoss, NoSubmit
<1>2. CASE DispatchSource
  <2>1. CASE ReadYields
    <3>1. unread \in State
      BY <2>1 DEF ReadYields
    <3>2. current' \in State
      BY <1>2, <2>1, <3>1, Mapped DEF DispatchSource
    <3>3. SubmitCurrent(current')
      BY <1>2, <2>1 DEF DispatchSource
    <3>. QED BY <3>2, <3>3
  <2>2. CASE ~ReadYields
    BY <1>2, <2>2 DEF DispatchSource, NoSubmit
  <2>. QED BY <2>1, <2>2
<1>3. CASE DispatchTimer
  BY <1>3 DEF DispatchTimer, TypeOK
<1>4. CASE DispatchWritable
  BY <1>4 DEF DispatchWritable, Dispatch
<1>5. CASE Destroy
  BY <1>5 DEF Destroy
<1>6. CASE Poll \/ Attach \/ Detach
  BY <1>6 DEF Poll, Attach, Detach, historyVars
<1>7. CASE RunStarts \/ LoopEnds \/ LoopFindsSource \/ TryReconnect \/ Reconcile
  BY <1>7 DEF RunStarts, LoopEnds, LoopFindsSource, TryReconnect, Reconcile, NoSubmit
<1>8. CASE Wait \/ DispatchHangUp \/ DispatchDone \/ LoopFails
  BY <1>8 DEF Wait, DispatchHangUp, DispatchDone, LoopFails, NoSubmit
<1>9. CASE SourceSends \/ DeviceVanishes \/ ClientCloses \/ SourceAppears
  BY <1>9 DEF SourceSends, DeviceVanishes, ClientCloses, SourceAppears, historyVars
<1>10. CASE Tick \/ RetryTimePasses \/ Signal
  BY <1>10 DEF Tick, RetryTimePasses, Signal, historyVars
<1>11. CASE Closed \/ UNCHANGED vars
  BY <1>11 DEF Closed, vars, historyVars
<1>. QED BY <1>1, <1>2, <1>3, <1>4, <1>5, <1>6, <1>7, <1>8, <1>9, <1>10, <1>11
         DEF Next, Loop, Environment

LEMMA SinkTypesKept ==
  ASSUME TypeOK, [Next]_vars
  PROVE  SinkTypes'
<1>1. SinkTypes
  BY DEF TypeOK, SinkTypes
<1>2. CASE \E s \in State : SubmitCurrent(s)
  <2>1. PICK s \in State : SubmitCurrent(s)
    BY <1>2
  <2>2. Submit(Encode[s]) /\ Encode[s] \in Report
    BY <2>1, Mapped DEF SubmitCurrent
  <2>. QED BY <1>1, <2>2, SubmitTypes
<1>3. CASE UNCHANGED sinkVars
  BY <1>1, <1>3 DEF SinkTypes, sinkVars
<1>. QED BY <1>1, <1>2, <1>3, SinkSteps, FlushTypes, ShutdownTypes, HostTypes

Places == {"start", "top", "retry", "reconcile", "wait", "dispatch", "returned", "closed"}
Fds == {"dev", "listen", "conn", NoFd}

LoopTypes ==
  /\ running \in BOOLEAN /\ wasConnected \in BOOLEAN /\ retryDue \in BOOLEAN
  /\ armed \in BOOLEAN /\ ticked \in BOOLEAN /\ hungUp \in BOOLEAN
  /\ available \in BOOLEAN /\ stopAsked \in BOOLEAN
  /\ handed \in Report
  /\ pc \in Places /\ kind \in Kinds /\ srcFd \in Fds /\ registered \in Fds
  /\ current \in State /\ lastRead \in State /\ unread \in State \cup {Nothing, Partial}
  /\ batch \subseteq {"hup", "src", "timer", "out"}

BudgetType ==
  budget \in [inputs : 0 .. MaxInputs, losses : 0 .. MaxLosses[kind], detaches : 0 .. MaxDetaches]

LEMMA TypesSplit == TypeOK <=> SinkTypes /\ LoopTypes /\ BudgetType
BY DEF TypeOK, SinkTypes, LoopTypes, BudgetType, Places, Fds

LEMMA BudgetTypeKept ==
  ASSUME TypeOK, [Next]_vars
  PROVE  BudgetType'
<1>. kind \in Kinds /\ BudgetType
  BY DEF TypeOK, BudgetType
<1>. MaxInputs \in Nat /\ MaxDetaches \in Nat /\ MaxLosses[kind] \in Nat
  BY BoundsAssumption
<1>1. CASE SourceSends
  <2>1. budget' = [budget EXCEPT !.inputs = @ - 1] /\ budget.inputs > 0 /\ kind' = kind
    BY <1>1 DEF SourceSends
  <2>. QED BY <2>1 DEF BudgetType
<1>2. CASE DeviceVanishes \/ ClientCloses
  <2>1. budget' = [budget EXCEPT !.losses = @ - 1] /\ budget.losses > 0 /\ kind' = kind
    BY <1>2 DEF DeviceVanishes, ClientCloses
  <2>. QED BY <2>1 DEF BudgetType
<1>3. CASE Detach
  <2>1. budget' = [budget EXCEPT !.detaches = @ - 1] /\ budget.detaches > 0 /\ kind' = kind
    BY <1>3 DEF Detach, sourceVars
  <2>. QED BY <2>1 DEF BudgetType
<1>4. CASE UNCHANGED <<kind, budget>>
  BY <1>4 DEF BudgetType
<1>5. CASE Loop \/ LoopFails
  <2>1. UNCHANGED <<kind, budget>>
    BY <1>5 DEF Loop, RunStarts, LoopEnds, LoopFindsLoss, LoopFindsSource, TryReconnect,
       Reconcile, Wait, DispatchHangUp, DispatchSource, DispatchTimer, DispatchWritable,
       DispatchDone, Destroy, LoopFails, Dispatch, Read, sourceVars
  <2>. QED BY <2>1, <1>4
<1>6. CASE SourceAppears \/ Tick \/ RetryTimePasses \/ Signal \/ Poll \/ Attach
  <2>1. UNCHANGED <<kind, budget>>
    BY <1>6 DEF SourceAppears, Tick, RetryTimePasses, Signal, Poll, Attach, sourceVars, historyVars
  <2>. QED BY <2>1, <1>4
<1>7. CASE Closed \/ UNCHANGED vars
  <2>1. UNCHANGED <<kind, budget>>
    BY <1>7 DEF Closed, vars, sourceVars, historyVars
  <2>. QED BY <2>1, <1>4
<1>. QED BY <1>1, <1>2, <1>3, <1>5, <1>6, <1>7 DEF Next, Environment

LEMMA DispatchTypes ==
  ASSUME LoopTypes, NEW e, Dispatch(e)
  PROVE  /\ batch' \subseteq {"hup", "src", "timer", "out"}
         /\ pc' \in Places /\ running' \in BOOLEAN /\ wasConnected' \in BOOLEAN
         /\ registered' \in Fds /\ retryDue' \in BOOLEAN /\ stopAsked' \in BOOLEAN
<1>1. batch' \subseteq batch
  BY DEF Dispatch
<1>2. UNCHANGED <<pc, running, wasConnected, registered, retryDue, stopAsked>>
  BY DEF Dispatch
<1>. QED BY <1>1, <1>2 DEF LoopTypes

LEMMA ReadTypes ==
  ASSUME LoopTypes, Read
  PROVE  /\ srcFd' \in Fds /\ kind' \in Kinds /\ hungUp' \in BOOLEAN
         /\ available' \in BOOLEAN /\ unread' \in State \cup {Nothing, Partial}
<1>1. srcFd' \in Fds /\ available' \in BOOLEAN
  BY DEF LoopTypes, Read, Fds, NoFd
<1>. QED BY <1>1 DEF LoopTypes, Read

LEMMA LoopTypesKept ==
  ASSUME TypeOK, [Next]_vars
  PROVE  LoopTypes'
<1>. LoopTypes /\ pending \in BOOLEAN /\ pending' \in BOOLEAN
  BY SinkTypesKept, TypesSplit DEF SinkTypes
<1>. USE StateAssumption, NeutralAssumption DEF LoopTypes, Places, Fds, NoFd, Connected
<1>1. CASE RunStarts
  BY <1>1 DEF RunStarts, NoSubmit, sourceVars
<1>2. CASE LoopEnds \/ LoopFindsSource \/ Reconcile \/ DispatchDone \/ LoopFails
  <2>1. pc' \in Places /\ registered' \in {registered, srcFd}
    BY <1>2 DEF LoopEnds, LoopFindsSource, Reconcile, DispatchDone, LoopFails
  <2>2. UNCHANGED <<running, wasConnected, retryDue, armed, ticked, stopAsked, handed>>
    BY <1>2 DEF LoopEnds, LoopFindsSource, Reconcile, DispatchDone, LoopFails, NoSubmit
  <2>3. UNCHANGED <<hungUp, available, kind, srcFd, unread, current, lastRead, batch>>
    BY <1>2 DEF LoopEnds, LoopFindsSource, Reconcile, DispatchDone, LoopFails, sourceVars
  <2>. QED BY <2>1, <2>2, <2>3
<1>3. CASE LoopFindsLoss
  <2>1. handed' \in Report /\ armed' \in BOOLEAN /\ current' \in State /\ lastRead' \in State
    <3>1. CASE wasConnected
      BY <1>3, <3>1, Mapped DEF LoopFindsLoss, SubmitCurrent
    <3>2. CASE ~wasConnected
      BY <1>3, <3>2 DEF LoopFindsLoss, NoSubmit
    <3>. QED BY <3>1, <3>2
  <2>2. wasConnected' = FALSE /\ registered' = NoFd /\ pc' = "retry"
    BY <1>3 DEF LoopFindsLoss
  <2>3. UNCHANGED <<running, retryDue, batch, ticked, kind, srcFd, unread, hungUp, available, stopAsked>>
    BY <1>3 DEF LoopFindsLoss, sourceVars
  <2>. QED BY <2>1, <2>2, <2>3
<1>4. CASE TryReconnect
  <2>1. /\ srcFd' \in Fds /\ wasConnected' \in BOOLEAN /\ retryDue' \in BOOLEAN /\ hungUp' \in BOOLEAN
        /\ unread' \in State \cup {Nothing, Partial} /\ pc' = "reconcile"
    <3>1. CASE retryDue /\ available
      BY <1>4, <3>1 DEF TryReconnect
    <3>2. CASE ~(retryDue /\ available)
      BY <1>4, <3>2 DEF TryReconnect
    <3>. QED BY <3>1, <3>2
  <2>2. UNCHANGED <<running, registered, current, batch, ticked, kind, available, stopAsked,
                    lastRead, handed, armed>>
    BY <1>4 DEF TryReconnect, NoSubmit
  <2>. QED BY <2>1, <2>2
<1>5. CASE Wait
  <2>1. batch' \subseteq {"hup", "src", "timer", "out"} /\ pc' = "dispatch"
    BY <1>5 DEF Wait, Ready
  <2>2. UNCHANGED <<running, wasConnected, registered, retryDue, current, ticked, stopAsked,
                    lastRead, handed, armed, kind, srcFd, unread, hungUp, available>>
    BY <1>5 DEF Wait, NoSubmit, sourceVars
  <2>. QED BY <2>1, <2>2
<1>6. CASE DispatchHangUp
  <2>1. Dispatch("hup") /\ Read
    BY <1>6 DEF DispatchHangUp
  <2>2. current' \in State /\ lastRead' \in State
    BY <1>6 DEF DispatchHangUp, ReadYields
  <2>3. UNCHANGED <<ticked, handed, armed>>
    BY <1>6 DEF DispatchHangUp, NoSubmit
  <2>. QED BY <2>1, <2>2, <2>3, DispatchTypes, ReadTypes
<1>7. CASE DispatchSource
  <2>. Dispatch("src") /\ Read /\ ticked' = ticked
    BY <1>7 DEF DispatchSource
  <2>1. CASE ReadYields
    <3>1. current' \in State /\ lastRead' \in State
      BY <1>7, <2>1, Mapped DEF DispatchSource, ReadYields
    <3>2. handed' \in Report /\ armed' \in BOOLEAN
      BY <1>7, <2>1, <3>1, Mapped DEF DispatchSource, SubmitCurrent
    <3>. QED BY <3>1, <3>2, DispatchTypes, ReadTypes
  <2>2. CASE ~ReadYields
    <3>1. UNCHANGED <<current, lastRead, handed, armed>>
      BY <1>7, <2>2 DEF DispatchSource, NoSubmit
    <3>. QED BY <3>1, DispatchTypes, ReadTypes
  <2>. QED BY <2>1, <2>2
<1>8. CASE DispatchTimer
  <2>1. handed' \in Report /\ armed' \in BOOLEAN /\ ticked' = FALSE
    BY <1>8, Mapped DEF DispatchTimer, SubmitCurrent
  <2>2. UNCHANGED <<current, lastRead, kind, srcFd, unread, hungUp, available>>
    BY <1>8 DEF DispatchTimer, sourceVars
  <2>3. Dispatch("timer")
    BY <1>8 DEF DispatchTimer
  <2>. QED BY <2>1, <2>2, <2>3, DispatchTypes
<1>9. CASE DispatchWritable
  BY <1>9 DEF DispatchWritable, Dispatch, sourceVars
<1>10. CASE Destroy
  BY <1>10 DEF Destroy
<1>11. CASE SourceSends
  BY <1>11 DEF SourceSends, loopVars
<1>12. CASE DeviceVanishes \/ ClientCloses \/ SourceAppears
  <2>1. hungUp' \in BOOLEAN /\ available' \in BOOLEAN
    BY <1>12 DEF DeviceVanishes, ClientCloses, SourceAppears
  <2>2. UNCHANGED <<loopVars, kind, srcFd, unread, stopAsked, lastRead, handed>>
    BY <1>12 DEF DeviceVanishes, ClientCloses, SourceAppears, historyVars
  <2>. QED BY <2>1, <2>2 DEF loopVars
<1>13. CASE Tick \/ RetryTimePasses \/ Signal
  <2>1. ticked' \in BOOLEAN /\ retryDue' \in BOOLEAN /\ stopAsked' \in BOOLEAN /\ running' \in BOOLEAN
    BY <1>13 DEF Tick, RetryTimePasses, Signal, historyVars
  <2>2. UNCHANGED <<pc, wasConnected, registered, current, armed, batch, lastRead, handed, sourceVars>>
    BY <1>13 DEF Tick, RetryTimePasses, Signal, historyVars
  <2>. QED BY <2>1, <2>2 DEF sourceVars
<1>14. CASE Poll \/ Attach \/ Detach \/ Closed \/ UNCHANGED vars
  <2>1. UNCHANGED <<loopVars, sourceVars, stopAsked, lastRead, handed>>
    BY <1>14 DEF Poll, Attach, Detach, Closed, vars, historyVars
  <2>. QED BY <2>1 DEF loopVars, sourceVars
<1>. QED BY <1>1, <1>2, <1>3, <1>4, <1>5, <1>6, <1>7, <1>8, <1>9, <1>10, <1>11, <1>12, <1>13,
         <1>14 DEF Next, Loop, Environment

-----------------------------------------------------------------------------
(* What the order of the loop is about; most of the environment leaves it alone. *)
orderVars == <<pc, wasConnected, registered, current, armed, batch, kind, srcFd, hungUp,
               lastRead, handed, pending>>

LEMMA QuietSteps ==
  ASSUME \/ SourceSends \/ SourceAppears \/ Tick \/ RetryTimePasses \/ Signal
         \/ Poll \/ Attach \/ Detach \/ Closed \/ UNCHANGED vars
  PROVE  UNCHANGED orderVars
<1>. USE DEF orderVars, sinkVars, loopVars, sourceVars, historyVars
<1>1. CASE SourceSends \/ SourceAppears
  BY <1>1 DEF SourceSends, SourceAppears
<1>2. CASE Tick \/ RetryTimePasses \/ Signal
  BY <1>2 DEF Tick, RetryTimePasses, Signal
<1>3. CASE Poll \/ Attach \/ Detach
  BY <1>3 DEF Poll, Attach, Detach, HostPolls, HostAttaches, HostDetaches
<1>4. CASE Closed \/ UNCHANGED vars
  BY <1>4 DEF Closed, vars
<1>. QED BY <1>1, <1>2, <1>3, <1>4

LEMMA OrderQuiet ==
  ASSUME Order, UNCHANGED orderVars
  PROVE  Order'
BY DEF Order, Ends, Batched, Kept, Gone, Watched, orderVars, EmitsCanonical

(* The loop between two events. *)
LEMMA OrderInLoop ==
  ASSUME LoopInv, TypeOK',
         RunStarts \/ LoopEnds \/ LoopFindsSource \/ TryReconnect \/ Reconcile \/ LoopFails
  PROVE  Order'
<1>. USE DEF LoopInv, Order, Ends, Batched, Kept, Gone, Watched, EmitsCanonical, Connected,
             NoFd, NoSubmit, sinkVars, sourceVars
<1>1. CASE RunStarts
  BY <1>1 DEF RunStarts
<1>2. CASE LoopEnds
  BY <1>2 DEF LoopEnds
<1>3. CASE LoopFindsSource
  BY <1>3 DEF LoopFindsSource
<1>4. CASE TryReconnect
  BY <1>4 DEF TryReconnect
<1>5. CASE Reconcile
  BY <1>5 DEF Reconcile
<1>6. CASE LoopFails
  BY <1>6 DEF LoopFails
<1>. QED BY <1>1, <1>2, <1>3, <1>4, <1>5, <1>6

LEMMA OrderAfterLoss ==
  ASSUME LoopInv, TypeOK', LoopFindsLoss
  PROVE  Order'
<1>. USE StateAssumption, KindAssumption DEF LoopInv, Order, LoopFindsLoss, sourceVars
<1>1. Ends' /\ Batched' /\ Watched'
  BY DEF Ends, Batched, Watched, Connected, TypeOK
<1>2. Kept'
  BY DEF Kept, SubmitCurrent, NoSubmit, sinkVars, EmitsCanonical
<1>3. Gone'
  BY DEF Gone, Connected
<1>. QED BY <1>1, <1>2, <1>3

(* The wait, and the events it reports. *)
LEMMA OrderAtWait ==
  ASSUME LoopInv, TypeOK', Wait
  PROVE  Order'
<1>. USE DEF LoopInv, Order, Wait, NoSubmit, sinkVars, sourceVars
<1>1. Ends' /\ Kept' /\ Watched'
  BY DEF Ends, Kept, Watched, EmitsCanonical
<1>2. Batched'
  BY DEF Batched, Ready
<1>3. Gone'
  BY DEF Gone
<1>. QED BY <1>1, <1>2, <1>3

(* After a read the source has a descriptor of its kind, if only its listening one. *)
LEMMA ReadEnds ==
  ASSUME Ends, pc # "closed", Read
  PROVE  /\ kind = "evdev" => srcFd' \in {"dev", NoFd}
         /\ kind = "socket" => srcFd' \in {"listen", "conn"}
<1>. USE DEF Ends, Read, NoFd
<1>1. CASE srcFd = "listen"
  BY <1>1
<1>2. CASE srcFd = "dev"
  BY <1>2
<1>3. CASE srcFd = "conn"
  BY <1>3
<1>. QED BY <1>1, <1>2, <1>3

LEMMA OrderAtDispatch ==
  ASSUME LoopInv, TypeOK',
         DispatchHangUp \/ DispatchSource \/ DispatchTimer \/ DispatchWritable \/ DispatchDone
  PROVE  Order'
<1>. USE StateAssumption, KindAssumption DEF LoopInv, Order
<1>1. CASE DispatchHangUp
  <2>. USE <1>1 DEF DispatchHangUp, Dispatch, Read
  <2>1. Ends' /\ Batched' /\ Watched'
    <3>1. pc' = "dispatch" /\ pc = "dispatch" /\ kind' = kind /\ hungUp' = FALSE
      OBVIOUS
    <3>2. Ends'
      BY <3>1, ReadEnds DEF Ends
    <3>3. Batched'
      BY <3>1 DEF Batched
    <3>. QED BY <3>1, <3>2, <3>3 DEF Watched
  <2>2. kind = "evdev" => ~ReadYields
    BY DEF Batched, ReadYields
  <2>3. Kept'
    BY <2>2 DEF Kept, NoSubmit, sinkVars, EmitsCanonical, TypeOK
  <2>4. Gone'
    BY DEF Gone, NoFd
  <2>. QED BY <2>1, <2>3, <2>4
<1>2. CASE DispatchSource
  <2>. USE <1>2 DEF DispatchSource, Dispatch, Read
  <2>1. Ends' /\ Batched' /\ Watched'
    <3>1. pc' = "dispatch" /\ pc = "dispatch" /\ kind' = kind /\ hungUp' = FALSE
      OBVIOUS
    <3>2. Ends'
      BY <3>1, ReadEnds DEF Ends
    <3>3. Batched'
      BY <3>1 DEF Batched
    <3>. QED BY <3>1, <3>2, <3>3 DEF Watched
  <2>2. Kept'
    <3>1. CASE ReadYields
      BY <3>1 DEF Kept, SubmitCurrent, EmitsCanonical
    <3>2. CASE ~ReadYields
      BY <3>2 DEF Kept, NoSubmit, sinkVars, EmitsCanonical
    <3>. QED BY <3>1, <3>2
  <2>3. Gone'
    BY DEF Gone, NoFd
  <2>. QED BY <2>1, <2>2, <2>3
<1>3. CASE DispatchTimer
  <2>. USE <1>3 DEF DispatchTimer, Dispatch, sourceVars
  <2>1. Ends' /\ Batched' /\ Watched' /\ Gone'
    BY DEF Ends, Batched, Watched, Gone
  <2>2. Kept'
    BY DEF Kept, SubmitCurrent, EmitsCanonical
  <2>. QED BY <2>1, <2>2
<1>4. CASE DispatchWritable
  <2>. USE <1>4 DEF DispatchWritable, Dispatch, sourceVars
  <2>1. Ends' /\ Batched' /\ Watched' /\ Gone'
    BY DEF Ends, Batched, Watched, Gone
  <2>2. Kept'
    BY DEF Kept, EmitsCanonical
  <2>. QED BY <2>1, <2>2
<1>5. CASE DispatchDone
  BY <1>5 DEF DispatchDone, NoSubmit, sinkVars, sourceVars, Ends, Batched, Watched, Gone, Kept,
     EmitsCanonical
<1>. QED BY <1>1, <1>2, <1>3, <1>4, <1>5

(* The end of the program, and of a device or client. *)
LEMMA OrderAtEnds ==
  ASSUME LoopInv, TypeOK', Destroy \/ DeviceVanishes \/ ClientCloses
  PROVE  Order'
<1>. USE DEF LoopInv, Order, Ends, Batched, Kept, Gone, Watched, EmitsCanonical
<1>1. CASE Destroy
  BY <1>1 DEF Destroy, Shutdown, NoFd
<1>2. CASE DeviceVanishes
  <2>1. kind = "evdev" /\ (hungUp' <=> srcFd = "dev")
    BY <1>2 DEF DeviceVanishes
  <2>2. UNCHANGED <<pending, loopVars, kind, srcFd, lastRead, handed>>
    BY <1>2 DEF DeviceVanishes, sinkVars
  <2>3. Ends' /\ Watched' /\ Gone'
    BY <2>1, <2>2 DEF loopVars
  <2>4. hungUp => srcFd = "dev"
    BY <2>1, <1>2 DEF NoFd
  <2>5. Batched'
    BY <2>1, <2>2, <2>4 DEF loopVars
  <2>6. Kept'
    BY <2>2 DEF loopVars
  <2>. QED BY <2>3, <2>5, <2>6
<1>3. CASE ClientCloses
  BY <1>3 DEF ClientCloses, sinkVars, loopVars
<1>. QED BY <1>1, <1>2, <1>3

-----------------------------------------------------------------------------
LEMMA LoopInvHolds == Init => LoopInv
<1>. SUFFICES ASSUME Init PROVE LoopInv
  OBVIOUS
<1>. USE StateAssumption, NeutralAssumption, KindAssumption DEF Init, SinkInit
<1>1. SinkTypes
  BY DEF SinkTypes
<1>2. LoopTypes
  BY DEF LoopTypes, Places, Fds, NoFd
<1>3. BudgetType
  BY BoundsAssumption DEF BudgetType
<1>4. Order
  BY DEF Order, Ends, Batched, Kept, Gone, Watched, EmitsCanonical
<1>. QED BY <1>1, <1>2, <1>3, <1>4, TypesSplit DEF LoopInv

LEMMA LoopInvInductive == LoopInv /\ [Next]_vars => LoopInv'
<1>. SUFFICES ASSUME LoopInv, [Next]_vars PROVE LoopInv'
  OBVIOUS
<1>1. TypeOK
  BY DEF LoopInv
<1>2. SinkTypes' /\ LoopTypes' /\ BudgetType'
  BY <1>1, SinkTypesKept, LoopTypesKept, BudgetTypeKept
<1>3. TypeOK'
  BY <1>2, TypesSplit, PTL
<1>4. Order'
  BY <1>3, QuietSteps, OrderQuiet, OrderInLoop, OrderAfterLoss, OrderAtWait, OrderAtDispatch,
     OrderAtEnds DEF LoopInv, Next, Loop, Environment
<1>. QED BY <1>3, <1>4 DEF LoopInv

(* Every variable of the loop, the sink and the source keeps its type. *)
THEOREM BridgeTypeCorrect == Spec => []TypeOK
<1>1. LoopInv => TypeOK
  BY DEF LoopInv
<1>. QED BY <1>1, LoopInvHolds, LoopInvInductive, PTL DEF Spec, Safety

(***************************************************************************)
(* Whatever came before, the loop goes to sleep on the descriptor the      *)
(* source has, with EPOLLOUT on iff a report is pending, and with the sink *)
(* given what a device last said (bridge.cpp:205-224).                     *)
(***************************************************************************)
THEOREM SleepsOnEverything == Spec => []WaitsOnEverything
<1>1. LoopInv => WaitsOnEverything
  BY DEF LoopInv, Order, Watched, Kept, WaitsOnEverything
<1>. QED BY <1>1, LoopInvHolds, LoopInvInductive, PTL DEF Spec, Safety

(* No heartbeat, loss or reconnect maps a state again (bridge.cpp:242-258). *)
THEOREM MappedOnce == Spec => []ShapedOnce
<1>1. LoopInv => ShapedOnce
  BY DEF LoopInv, Order, Kept, ShapedOnce
<1>. QED BY <1>1, LoopInvHolds, LoopInvInductive, PTL DEF Spec, Safety

(* Each loss, not only the first, releases what was held (bridge.cpp:178-191). *)
THEOREM ReleasedAtEveryLoss == Spec => []ReleasedWhileGone
<1>1. LoopInv => ReleasedWhileGone
  <2>. SUFFICES ASSUME LoopInv, pc = "wait", srcFd = NoFd
               PROVE  current = NoInput /\ handed = Neutral
    BY DEF ReleasedWhileGone
  <2>1. kind = "evdev"
    BY KindAssumption DEF LoopInv, Order, Ends, TypeOK, NoFd
  <2>2. current = NoInput
    BY DEF LoopInv, Order, Gone
  <2>. QED BY <2>1, <2>2, StateAssumption DEF LoopInv, Order, Kept
<1>. QED BY <1>1, LoopInvHolds, LoopInvInductive, PTL DEF Spec, Safety

-----------------------------------------------------------------------------
(***************************************************************************)
(* The wire.  A pending report is the one handed over last, until the      *)
(* destructor sends its own over it; nothing is flushed after that.        *)
(***************************************************************************)
PendingIsNewest == pc # "closed" /\ pending => pendingReport = handed

WireInv == LoopInv /\ PendingIsNewest

LEMMA ClosedForGood ==
  ASSUME [Next]_vars, pc = "closed"
  PROVE  pc' = "closed"
<1>1. CASE Loop
  <2>. USE DEF Dispatch
  <2>1. ~(RunStarts \/ LoopEnds \/ LoopFindsLoss \/ LoopFindsSource \/ TryReconnect \/ Reconcile)
    BY DEF RunStarts, LoopEnds, LoopFindsLoss, LoopFindsSource, TryReconnect, Reconcile
  <2>2. ~(Wait \/ DispatchHangUp \/ DispatchSource \/ DispatchTimer \/ DispatchWritable)
    BY DEF Wait, DispatchHangUp, DispatchSource, DispatchTimer, DispatchWritable
  <2>3. ~(DispatchDone \/ Destroy)
    BY DEF DispatchDone, Destroy
  <2>. QED BY <1>1, <2>1, <2>2, <2>3 DEF Loop
<1>2. CASE Environment
  BY <1>2 DEF Environment, SourceSends, DeviceVanishes, ClientCloses, SourceAppears, Tick,
     RetryTimePasses, Signal, Poll, Attach, Detach, loopVars
<1>3. CASE LoopFails \/ Closed \/ UNCHANGED vars
  BY <1>3 DEF LoopFails, Closed, vars, loopVars
<1>. QED BY <1>1, <1>2, <1>3 DEF Next

(* What is handed over is written at once, or becomes the pending report. *)
LEMMA SubmitIsHandOver ==
  ASSUME NEW s \in State, SubmitCurrent(s)
  PROVE  /\ PendingIsNewest'
         /\ Fresh!HandOver
<1>1. Encode[s] \in Report /\ handed' = Encode[s] /\ Submit(Encode[s])
  BY Mapped DEF SubmitCurrent
<1>2. PendingIsNewest'
  BY <1>1 DEF Submit, PendingIsNewest
<1>3. inflight' = inflight \/ (inflight = None /\ inflight' = handed')
  BY <1>1 DEF Submit, Writable
<1>4. UNCHANGED host
  BY <1>1 DEF Submit
<1>. QED BY <1>1, <1>2, <1>3, <1>4 DEF Fresh!HandOver

LEMMA WireInit == Init => PendingIsNewest
BY DEF Init, SinkInit, PendingIsNewest

LEMMA WireStep ==
  ASSUME WireInv, [Next]_vars
  PROVE  PendingIsNewest' /\ [Fresh!Next]_(Fresh!wireVars)
<1>1. TypeOK /\ PendingIsNewest /\ (pc' # "closed" => pc # "closed")
  BY ClosedForGood DEF WireInv, LoopInv
<1>2. CASE \E s \in State : SubmitCurrent(s)
  BY <1>2, SubmitIsHandOver DEF Fresh!Next
<1>3. CASE Flush /\ pc = "dispatch" /\ UNCHANGED handed
  <2>1. PendingIsNewest'
    BY <1>1, <1>3 DEF Flush, PendingIsNewest
  <2>2. CASE pending /\ Writable
    <3>1. Fresh!PutOnWire
      BY <1>1, <1>3, <2>2 DEF Flush, PendingIsNewest, Writable, Fresh!PutOnWire
    <3>. QED BY <2>1, <3>1 DEF Fresh!Next
  <2>3. CASE ~(pending /\ Writable)
    BY <1>3, <2>1, <2>3 DEF Flush, Fresh!wireVars
  <2>. QED BY <2>2, <2>3
<1>4. CASE Shutdown /\ handed' = Neutral /\ pc' = "closed"
  <2>1. Fresh!HandOver
    BY <1>4, NeutralAssumption DEF Shutdown, Writable, Fresh!HandOver
  <2>. QED BY <1>4, <2>1 DEF Fresh!Next, PendingIsNewest
<1>5. CASE (HostPolls \/ HostDetaches \/ HostAttaches) /\ UNCHANGED handed
  <2>1. PendingIsNewest'
    BY <1>1, <1>5 DEF HostPolls, HostDetaches, HostAttaches, PendingIsNewest
  <2>2. CASE HostPolls
    BY <1>5, <2>1, <2>2 DEF HostPolls, Fresh!Next, Fresh!Deliver
  <2>3. CASE HostDetaches
    BY <1>5, <2>1, <2>3 DEF HostDetaches, Fresh!Next, Fresh!Unplug
  <2>4. CASE HostAttaches
    BY <1>5, <2>1, <2>4 DEF HostAttaches, Fresh!wireVars
  <2>. QED BY <1>5, <2>2, <2>3, <2>4
<1>6. CASE UNCHANGED <<sinkVars, handed>>
  BY <1>1, <1>6 DEF sinkVars, PendingIsNewest, Fresh!wireVars
<1>. QED BY <1>1, <1>2, <1>3, <1>4, <1>5, <1>6, SinkSteps

LEMMA FreshInit == Init => Fresh!Init
BY DEF Init, SinkInit, Fresh!Init

(***************************************************************************)
(* The whole program, whatever its sources, host and signals do, puts on   *)
(* the wire only what was handed over last (output_sink.hpp:29-32): every  *)
(* step of the loop is a step of FreshestReport or leaves it alone.        *)
(***************************************************************************)
THEOREM BridgeRefines == Spec => BridgeSendsTheFreshest
<1>1. WireInv /\ [Next]_vars => WireInv'
  BY LoopInvInductive, WireStep DEF WireInv
<1>2. WireInv /\ [Next]_vars => [Fresh!Next]_(Fresh!wireVars)
  BY WireStep
<1>3. Init => WireInv
  BY LoopInvHolds, WireInit DEF WireInv
<1>. QED BY <1>1, <1>2, <1>3, FreshInit, PTL DEF Spec, Safety, BridgeSendsTheFreshest, Fresh!Spec
=============================================================================
