----------------------------- MODULE SinkProofs -----------------------------
(***************************************************************************)
(* Proofs about the sink and the two modules built on it, for every set of *)
(* reports.                                                                *)
(*                                                                         *)
(* SinkAlone: types, NewestIsKept and the refinement of FreshestReport.    *)
(* NewestIsKept alone is not inductive, because a flush writes             *)
(* pendingReport and a poll moves inflight: the pending report must be the *)
(* newest one, and a report that is neither pending nor in flight must     *)
(* have arrived.                                                           *)
(*                                                                         *)
(* HidReport and ConsoleView: that a report shows its state is a fact      *)
(* about encode() alone; the sink's invariant says which report the        *)
(* console acts on.                                                        *)
(*                                                                         *)
(* Health: what the bridge counts is never less than what was refused, now *)
(* and in the file.                                                        *)
(***************************************************************************)
EXTENDS ConsoleView, Health, TLAPS

SinkInv == TypeOK /\ NewestIsKept

LEMMA SinkInitInv == Init => SinkInv
BY NeutralAssumption, NoneAssumption DEF Init, SinkInit, SinkInv, TypeOK, NewestIsKept

LEMMA SinkInvInductive == SinkInv /\ [Next]_aloneVars => SinkInv'
<1>. SUFFICES ASSUME SinkInv, [Next]_aloneVars PROVE SinkInv'
  OBVIOUS
<1>. USE NeutralAssumption, NoneAssumption
     DEF SinkInv, TypeOK, NewestIsKept, sinkVars, Writable
<1>1. CASE CallSubmit
  <2>1. PICK r \in Report : Submit(r) /\ newest' = r
    BY <1>1 DEF CallSubmit
  <2>2. lost' \in BOOLEAN
    BY <1>1 DEF CallSubmit
  <2>3. CASE Writable
    BY <2>1, <2>2, <2>3 DEF Submit
  <2>4. CASE ~Writable
    BY <2>1, <2>2, <2>4 DEF Submit
  <2>. QED BY <2>3, <2>4
<1>2. CASE CallFlush
  <2>1. lost' \in BOOLEAN /\ newest' = newest
    BY <1>2 DEF CallFlush
  <2>2. CASE pending /\ Writable
    BY <1>2, <2>1, <2>2 DEF CallFlush, Flush
  <2>3. CASE ~(pending /\ Writable)
    <3>1. lost' = lost /\ UNCHANGED sinkVars
      BY <1>2, <2>3 DEF CallFlush, Flush
    <3>. QED BY <2>1, <3>1
  <2>. QED BY <2>2, <2>3
<1>3. CASE CallShutdown
  BY <1>3 DEF CallShutdown, Shutdown
<1>4. CASE Poll
  BY <1>4 DEF Poll, HostPolls
<1>5. CASE Detach
  BY <1>5 DEF Detach, HostDetaches
<1>6. CASE Attach
  BY <1>6 DEF Attach, HostAttaches
<1>7. CASE UNCHANGED aloneVars
  BY <1>7 DEF aloneVars
<1>. QED BY <1>1, <1>2, <1>3, <1>4, <1>5, <1>6, <1>7 DEF Next

(* Every variable of the sink keeps its type, whatever the caller and the host do. *)
THEOREM SinkTypeCorrect == Spec => []TypeOK
<1>1. SinkInv => TypeOK
  BY DEF SinkInv
<1>. QED BY <1>1, SinkInitInv, SinkInvInductive, PTL DEF Spec

(***************************************************************************)
(* While the gadget is open, the newest state is pending, in flight, at    *)
(* the host, or was lost with the cable (ns_hid_sink.cpp:170-191).         *)
(***************************************************************************)
THEOREM NewestKept == Spec => []NewestIsKept
<1>1. SinkInv => NewestIsKept
  BY DEF SinkInv
<1>. QED BY <1>1, SinkInitInv, SinkInvInductive, PTL DEF Spec

-----------------------------------------------------------------------------
LEMMA FreshInit == Init => Fresh!Init
BY DEF Init, SinkInit, Fresh!Init

(* submit(), flush() and shutdown() each put the newest report on the wire, or nothing. *)
LEMMA FreshStep == SinkInv /\ [Next]_aloneVars => [Fresh!Next]_(Fresh!wireVars)
<1>. SUFFICES ASSUME SinkInv, [Next]_aloneVars PROVE [Fresh!Next]_(Fresh!wireVars)
  OBVIOUS
<1>. USE NeutralAssumption DEF SinkInv, TypeOK, Writable, sinkVars
<1>1. CASE CallSubmit
  <2>1. Fresh!HandOver
    BY <1>1 DEF CallSubmit, Submit, Fresh!HandOver
  <2>. QED BY <2>1 DEF Fresh!Next
<1>2. CASE CallFlush
  <2>1. CASE pending /\ Writable
    <3>1. Fresh!PutOnWire
      BY <1>2, <2>1, NoneAssumption DEF CallFlush, Flush, NewestIsKept, Fresh!PutOnWire
    <3>. QED BY <3>1 DEF Fresh!Next
  <2>2. CASE ~(pending /\ Writable)
    BY <1>2, <2>2 DEF CallFlush, Flush, Fresh!wireVars
  <2>. QED BY <2>1, <2>2
<1>3. CASE CallShutdown
  <2>1. Fresh!HandOver
    BY <1>3 DEF CallShutdown, Shutdown, Fresh!HandOver
  <2>. QED BY <2>1 DEF Fresh!Next
<1>4. CASE Poll
  <2>1. Fresh!Deliver
    BY <1>4 DEF Poll, HostPolls, Fresh!Deliver
  <2>. QED BY <2>1 DEF Fresh!Next
<1>5. CASE Detach
  <2>1. Fresh!Unplug
    BY <1>5 DEF Detach, HostDetaches, Fresh!Unplug
  <2>. QED BY <2>1 DEF Fresh!Next
<1>6. CASE Attach
  BY <1>6 DEF Attach, HostAttaches, Fresh!wireVars
<1>7. CASE UNCHANGED aloneVars
  BY <1>7 DEF aloneVars, Fresh!wireVars
<1>. QED BY <1>1, <1>2, <1>3, <1>4, <1>5, <1>6, <1>7 DEF Next

(***************************************************************************)
(* No overtaken state is ever put on the wire, for any set of reports, any *)
(* caller and any host (output_sink.hpp:29-32).                            *)
(***************************************************************************)
THEOREM OnlyTheFreshestIsSent == Spec => ImplementsFreshestReport
<1>1. Spec => []SinkInv
  BY SinkInitInv, SinkInvInductive, PTL DEF Spec
<1>. QED BY <1>1, FreshInit, FreshStep, PTL DEF Spec, ImplementsFreshestReport, Fresh!Spec

-----------------------------------------------------------------------------
(* What a report shows, and what the console shows *)

(* A stick's value fits its byte. *)
LEMMA ToU8Fits ==
  ASSUME NEW v \in Int, -32768 <= v, v <= 32767
  PROVE  ToU8(v) = ((v + 32768) \div 256) /\ ToU8(v) \in 0 .. 255
<1>. DEFINE q == (v + 32768) \div 256
<1>1. q \in Int
  OBVIOUS
<1>2. q >= 0
  OBVIOUS
<1>3. q <= 255
  OBVIOUS
<1>4. ToU8(v) = Clamp(q, 0, 255)
  BY DEF ToU8
<1>. HIDE DEF q
<1>5. Clamp(q, 0, 255) = q
  BY <1>1, <1>2, <1>3 DEF Clamp
<1>. QED BY <1>1, <1>2, <1>3, <1>4, <1>5 DEF q

(***************************************************************************)
(* An axis of eight bits, which is what most pads have, reaches the        *)
(* console as it was: scale_axis() and to_u8() undo each other             *)
(* (evdev_source.cpp:265-273, ns_hid_sink.cpp:23-25).                      *)
(***************************************************************************)
THEOREM EightBitsPassThrough ==
  ASSUME NEW raw \in Int, 0 <= raw, raw <= 255
  PROVE  ToU8(ScaleAxis(raw, 0, 255, FALSE)) = raw
<1>. DEFINE v == (2 * raw - 255) * 32767
            t == Truncated(v, 255)
<1>1. t \in Int /\ -32767 <= t /\ t <= 32767 /\ ((t + 32768) \div 256) = raw
  <2>1. CASE raw >= 128
    <3>1. v >= 0
      BY <2>1
    <3>2. (v \div 255) \in Int /\ (v \div 255) >= 0 /\ (v \div 255) <= 32767
      BY <2>1
    <3>3. ((v \div 255) + 32768) \div 256 = raw
      BY <2>1
    <3>4. t = v \div 255
      BY <3>1 DEF Truncated
    <3>. QED BY <3>2, <3>3, <3>4
  <2>2. CASE raw < 128
    <3>1. v < 0
      BY <2>2
    <3>. DEFINE q == (-v) \div 255
    <3>2. q \in Int /\ q >= 0 /\ q <= 32767
      BY <2>2
    <3>3. (-q + 32768) \div 256 = raw
      BY <2>2
    <3>4. t = -q
      BY <3>1 DEF Truncated
    <3>. HIDE DEF q, v, t
    <3>. QED BY <3>2, <3>3, <3>4
  <2>. QED BY <2>1, <2>2
<1>2. PICK u \in Int : u = t /\ -32767 <= u /\ u <= 32767 /\ ((u + 32768) \div 256) = raw
  BY <1>1
<1>3. v = (2 * (raw - 0) - (255 - 0)) * 32767
  OBVIOUS
<1>4. Clamp(u, -32767, 32767) = u
  BY <1>2 DEF Clamp
<1>5. ScaleAxis(raw, 0, 255, FALSE) = u
  BY <1>2, <1>3, <1>4 DEF ScaleAxis
<1>6. ToU8(u) = ((u + 32768) \div 256)
  BY <1>2, ToU8Fits
<1>7. ASSUME NEW n, n = u PROVE ToU8(n) = raw
  BY <1>2, <1>6, <1>7
<1>. QED BY <1>5, <1>7, Zenon

(* The hat's direction is that of the d-pad, with opposites cancelled. *)
LEMMA HatShowsPush ==
  ASSUME NEW s \in GamepadState, NEW p
  PROVE  Shown(Encode(s, p)).x = Push(s, "dright", "dleft") /\ Shown(Encode(s, p)).y = Push(s, "ddown", "dup")
BY DEF Shown, Encode, EncodeHat, Push

LEMMA BitsShowButtons ==
  ASSUME NEW s \in GamepadState, NEW p \in BOOLEAN
  PROVE  /\ Shown(Encode(s, p)).face = Intended(s, p).face
         /\ Shown(Encode(s, p)).other = Intended(s, p).other
BY DEF Shown, Encode, Intended, ByPosition, ByLabel, OtherBit, Others, SwitchAt, Across, Face, FaceBits

LEMMA SticksShowSticks ==
  ASSUME NEW s \in GamepadState, NEW p
  PROVE  Shown(Encode(s, p)).stick = Intended(s, p).stick
<1>1. ASSUME NEW a \in Sticks PROVE ToU8(s.stick[a]) = (s.stick[a] + 32768) \div 256
  <2>1. s.stick[a] \in Int16
    BY DEF GamepadState
  <2>2. s.stick[a] \in Int /\ -32768 <= s.stick[a] /\ s.stick[a] <= 32767
    BY <2>1 DEF Int16
  <2>. QED BY <2>2, ToU8Fits
<1>. QED BY <1>1 DEF Shown, Encode, Intended

(***************************************************************************)
(* A report shows its state on the console, for every state a pad can be   *)
(* in and either layout (ns_hid_sink.cpp:23-40, 106-154).                  *)
(***************************************************************************)
THEOREM ReportShowsState ==
  ASSUME NEW s \in GamepadState, NEW p \in BOOLEAN
  PROVE  Shown(Encode(s, p)) = Intended(s, p)
<1>. DEFINE S == Shown(Encode(s, p))
            I == Intended(s, p)
<1>1. S.face = I.face /\ S.other = I.other
  BY BitsShowButtons
<1>2. S.x = I.x /\ S.y = I.y
  BY HatShowsPush DEF Intended
<1>3. S.stick = I.stick
  BY SticksShowSticks
<1>4. S = [face |-> S.face, other |-> S.other, x |-> S.x, y |-> S.y, stick |-> S.stick]
  BY DEF Shown
<1>5. I = [face |-> I.face, other |-> I.other, x |-> I.x, y |-> I.y, stick |-> I.stick]
  BY DEF Intended
<1>. HIDE DEF S, I
<1>6. S = I
  BY <1>1, <1>2, <1>3, <1>4, <1>5
<1>. QED BY <1>6 DEF S, I

LEMMA ReleasedIsState == Released \in GamepadState
BY DEF Released, GamepadState, Int16, Btn

LEMMA NeutralIsReleased == ASSUME NEW p PROVE Encode(Released, p) = NeutralReport
<1>1. ToU8(0) = 128
  BY ToU8Fits
<1>. QED BY <1>1 DEF Encode, Released, NeutralReport, EncodeHat, Sticks

-----------------------------------------------------------------------------
ViewInv == SinkInv /\ held \in GamepadState /\ newest = Encode(held, FaceByPosition)

LEMMA ViewInitInv == ViewInit => ViewInv
BY SinkInitInv, ReleasedIsState, NeutralIsReleased, EncodeAssumption DEF ViewInit, ViewInv, Init

LEMMA ViewInvInductive == ViewInv /\ [ViewNext]_viewVars => ViewInv'
<1>. SUFFICES ASSUME ViewInv, [ViewNext]_viewVars PROVE ViewInv'
  OBVIOUS
<1>. USE DEF ViewInv
<1>1. CASE \E s \in States : SubmitState(s)
  <2>1. PICK s \in States : SubmitState(s)
    BY <1>1
  <2>2. CallSubmit
    BY <2>1, EncodeAssumption DEF SubmitState, CallSubmit
  <2>3. SinkInv'
    BY <2>2, SinkInvInductive DEF Next
  <2>. QED BY <2>1, <2>3, StatesAssumption DEF SubmitState
<1>2. CASE CallShutdown /\ held' = Released
  <2>1. SinkInv'
    BY <1>2, SinkInvInductive DEF Next
  <2>2. newest' = Encode(held', FaceByPosition)
    BY <1>2, NeutralIsReleased, EncodeAssumption DEF CallShutdown
  <2>. QED BY <1>2, <2>1, <2>2, ReleasedIsState
<1>3. CASE (CallFlush \/ Poll \/ Detach \/ Attach) /\ UNCHANGED held
  <2>1. SinkInv'
    BY <1>3, SinkInvInductive DEF Next
  <2>2. UNCHANGED newest
    BY <1>3 DEF CallFlush, Poll, Detach, Attach
  <2>. QED BY <1>3, <2>1, <2>2
<1>4. CASE UNCHANGED viewVars
  <2>1. SinkInv'
    BY <1>4, SinkInvInductive DEF viewVars
  <2>. QED BY <1>4, <2>1 DEF viewVars, aloneVars
<1>. QED BY <1>1, <1>2, <1>3, <1>4 DEF ViewNext

(***************************************************************************)
(* Whatever was refused, overtaken or flushed on the way, an open sink     *)
(* with nothing left to send has the console show the last state, for      *)
(* every set of states (ns_hid_sink.cpp:106-191).                          *)
(***************************************************************************)
THEOREM ConsoleShowsTheLastState == ViewSpec => []ConsoleShowsHeld
<1>1. ViewInv => ConsoleShowsHeld
  <2>. SUFFICES ASSUME ViewInv, Settled PROVE Shown(host) = Intended(held, FaceByPosition)
    BY DEF ConsoleShowsHeld
  <2>1. host = newest
    BY NoneAssumption DEF ViewInv, SinkInv, TypeOK, NewestIsKept, Settled
  <2>. QED BY <2>1, ReportShowsState, FaceAssumption DEF ViewInv
<1>. QED BY <1>1, ViewInitInv, ViewInvInductive, PTL DEF ViewSpec

-----------------------------------------------------------------------------
(* Health: counters, the status file and the verdict *)

File == [ever : BOOLEAN, failures : 0 .. StoppedLimit + 1, stale : 0 .. StaleLimit + 1,
         old : BOOLEAN, misses : 0 .. StoppedLimit + 1]

LinkTypes ==
  /\ sinkOpen \in BOOLEAN /\ pending \in BOOLEAN /\ attached \in BOOLEAN
  /\ pendingReport \in Report /\ host \in Report /\ inflight \in Report \cup {None}

CounterTypes ==
  /\ failures \in 0 .. StoppedLimit + 1 /\ misses \in 0 .. StoppedLimit + 1
  /\ since \in 0 .. StaleLimit + 1 /\ ever \in BOOLEAN /\ due \in BOOLEAN

UnitTypes ==
  /\ configured \in BOOLEAN /\ loopback \in BOOLEAN /\ heartbeat \in BOOLEAN
  /\ disk \in BOOLEAN /\ left \in BOOLEAN /\ refused \in BOOLEAN
  /\ proc \in {"none", "up", "loop"} /\ file \in {NoFile} \cup File

LEMMA HealthTypesSplit == HealthTypeOK <=> LinkTypes /\ CounterTypes /\ UnitTypes
BY DEF HealthTypeOK, LinkTypes, CounterTypes, UnitTypes, File

(* A flush forgets refusals that the bridge still counts; it never counts fewer. *)
Accounts == misses <= failures /\ (file # NoFile => file.misses <= file.failures)

HealthInv == HealthTypeOK /\ Accounts /\ StatusIsOfThisRun

LEMMA HealthInvPrimed ==
  ASSUME LinkTypes', CounterTypes', UnitTypes', Accounts', StatusIsOfThisRun'
  PROVE  HealthInv'
<1>1. HealthTypeOK'
  BY DEF HealthTypeOK, LinkTypes, CounterTypes, UnitTypes, File
<1>. QED BY <1>1 DEF HealthInv

LEMMA LimitsAreNat ==
  /\ StoppedLimit \in Nat /\ StaleLimit \in Nat /\ NeverLimit \in Nat
  /\ 0 \in 0 .. StoppedLimit + 1 /\ 0 \in 0 .. StaleLimit + 1
BY LimitAssumption

LEMMA HealthInitInv == HealthInit => HealthInv
<1>. SUFFICES ASSUME HealthInit PROVE HealthInv
  OBVIOUS
<1>1. LinkTypes /\ UnitTypes
  BY NeutralAssumption DEF HealthInit, LinkTypes, UnitTypes
<1>2. CounterTypes
  <2>1. failures = 0 /\ ever = FALSE /\ since = 0 /\ due = FALSE /\ misses = 0
    BY DEF HealthInit
  <2>. QED BY <2>1, LimitsAreNat DEF CounterTypes
<1>3. Accounts /\ StatusIsOfThisRun
  BY DEF HealthInit, Accounts, StatusIsOfThisRun
<1>. QED BY <1>1, <1>2, <1>3, HealthTypesSplit DEF HealthInv

(* Counters that stop one above a limit keep their order. *)
LEMMA UpFacts ==
  ASSUME NEW limit \in Nat, NEW n \in 0 .. limit + 1, NEW m \in 0 .. limit + 1, n <= m
  PROVE  /\ Up(n, limit) \in 0 .. limit + 1
         /\ Up(m, limit) \in 0 .. limit + 1
         /\ Up(n, limit) <= Up(m, limit)
BY DEF Up

(* Everything that can happen to the gadget's end of the link keeps its types. *)
LEMMA LinkTypesKept ==
  ASSUME LinkTypes,
         \/ Submit(Neutral) \/ Flush \/ Shutdown \/ Opens
         \/ HostPolls \/ HostDetaches \/ HostAttaches
         \/ sinkOpen' = FALSE /\ UNCHANGED <<pending, pendingReport, inflight, host, attached>>
         \/ UNCHANGED sinkVars
  PROVE  LinkTypes'
<1>. USE NeutralAssumption DEF LinkTypes
<1>1. CASE Submit(Neutral) \/ Flush
  BY <1>1 DEF Submit, Flush
<1>2. CASE Shutdown \/ Opens
  BY <1>2 DEF Shutdown, Opens
<1>3. CASE HostPolls \/ HostDetaches \/ HostAttaches
  BY <1>3 DEF HostPolls, HostDetaches, HostAttaches
<1>4. CASE UNCHANGED sinkVars
  BY <1>4 DEF sinkVars
<1>. QED BY <1>1, <1>2, <1>3, <1>4

LEMMA StatusFacts ==
  ASSUME CounterTypes, misses <= failures
  PROVE  Status \in File /\ Status.misses <= Status.failures /\ Status.old = FALSE
<1>1. Status.stale \in 0 .. StaleLimit + 1
  BY LimitsAreNat DEF Status, CounterTypes
<1>. QED BY <1>1 DEF Status, CounterTypes, File

LEMMA OldFileFacts ==
  ASSUME NEW f \in File
  PROVE  /\ [f EXCEPT !.old = TRUE] \in File
         /\ [f EXCEPT !.old = TRUE].misses = f.misses
         /\ [f EXCEPT !.old = TRUE].failures = f.failures
BY DEF File

(* Steps that touch neither the counters nor the unit and its file. *)
LEMMA LinkStepKeeps ==
  ASSUME HealthInv, LinkTypes', configured' \in BOOLEAN,
         disk' \in BOOLEAN, UNCHANGED <<fixed, proc, stats, file, history>>
  PROVE  HealthInv'
<1>1. CounterTypes' /\ UnitTypes'
  BY HealthTypesSplit DEF HealthInv, CounterTypes, UnitTypes, fixed, stats, history
<1>2. Accounts' /\ StatusIsOfThisRun'
  BY DEF HealthInv, Accounts, StatusIsOfThisRun, stats, history
<1>. QED BY <1>1, <1>2, HealthInvPrimed

(* The bridge's own steps over the link. *)
LEMMA LoopKeeps ==
  ASSUME HealthInv, Submits \/ Flushes \/ SecondPasses
  PROVE  HealthInv'
<1>. LinkTypes /\ CounterTypes /\ UnitTypes /\ Accounts /\ StatusIsOfThisRun
  BY HealthTypesSplit DEF HealthInv
<1>. StoppedLimit \in Nat /\ StaleLimit \in Nat
  BY LimitsAreNat
<1>1. LinkTypes'
  BY LinkTypesKept DEF Submits, Flushes, SecondPasses
<1>2. UNCHANGED <<link, proc, disk, file, left, refused>>
  BY DEF Submits, Flushes, SecondPasses, history
<1>3. UnitTypes' /\ StatusIsOfThisRun'
  BY <1>2 DEF UnitTypes, StatusIsOfThisRun, link, fixed
<1>4. CounterTypes' /\ misses' <= failures'
  <2>1. CASE Submits
    <3>1. CASE Writable
      <4>1. failures' = 0 /\ ever' = TRUE /\ since' = 0 /\ misses' = 0 /\ due' = due
        BY <2>1, <3>1 DEF Submits, Counts
      <4>. QED BY <4>1 DEF CounterTypes
    <3>2. CASE ~Writable
      <4>1. /\ failures' = Up(failures, StoppedLimit) /\ misses' = Up(misses, StoppedLimit)
            /\ UNCHANGED <<ever, since, due>>
        BY <2>1, <3>2 DEF Submits, Counts
      <4>. QED BY <4>1, UpFacts DEF CounterTypes, Accounts
    <3>. QED BY <3>1, <3>2
  <2>2. CASE Flushes
    <3>1. misses' \in {0, misses} /\ UNCHANGED stats
      BY <2>2 DEF Flushes
    <3>. QED BY <3>1 DEF CounterTypes, Accounts, stats
  <2>3. CASE SecondPasses
    <3>1. due' = TRUE /\ since' = Up(since, StaleLimit) /\ UNCHANGED <<failures, ever, misses>>
      BY <2>3 DEF SecondPasses, history
    <3>2. since' \in 0 .. StaleLimit + 1
      BY <3>1 DEF CounterTypes, Up
    <3>. QED BY <3>1, <3>2 DEF CounterTypes, Accounts
  <2>. QED BY <2>1, <2>2, <2>3
<1>5. Accounts'
  BY <1>2, <1>4 DEF Accounts
<1>. QED BY <1>1, <1>3, <1>4, <1>5, HealthInvPrimed

(* publish_status() writes this process's account, or is refused. *)
LEMMA WritesFacts ==
  ASSUME CounterTypes, UnitTypes, Accounts, Writes
  PROVE  /\ file' \in {NoFile} \cup File
         /\ file' # NoFile => file'.misses <= file'.failures
         /\ disk => file'.old = FALSE
         /\ ~disk => file' = file \/ file' = NoFile
<1>1. Status \in File /\ Status.misses <= Status.failures /\ Status.old = FALSE
  BY StatusFacts DEF Accounts
<1>. QED BY <1>1 DEF Writes, UnitTypes, Accounts

(* By publish_status() in the loop, or before it. *)
LEMMA PublishKeeps ==
  ASSUME HealthInv, Publishes \/ RunStarts
  PROVE  HealthInv'
<1>. LinkTypes /\ CounterTypes /\ UnitTypes /\ Accounts /\ StatusIsOfThisRun
  BY HealthTypesSplit DEF HealthInv
<1>1. LinkTypes'
  BY LinkTypesKept DEF Publishes, RunStarts
<1>2. /\ Writes /\ proc' = "loop" /\ due' \in BOOLEAN /\ refused' \in BOOLEAN
      /\ UNCHANGED <<link, failures, ever, since, disk, misses, left>>
  BY DEF Publishes, RunStarts, stats, CounterTypes, UnitTypes
<1>3. ~disk => refused' = TRUE \/ (proc = "loop" /\ refused' = refused)
  BY DEF Publishes, RunStarts, UnitTypes
<1>4. CounterTypes' /\ UnitTypes'
  BY <1>2, WritesFacts DEF CounterTypes, UnitTypes, link, fixed
<1>5. Accounts'
  BY <1>2, WritesFacts DEF Accounts
<1>6. StatusIsOfThisRun'
  <2>1. CASE disk
    BY <1>2, <2>1, WritesFacts DEF StatusIsOfThisRun
  <2>2. CASE ~disk
    BY <1>2, <1>3, <2>2, WritesFacts DEF StatusIsOfThisRun
  <2>. QED BY <2>1, <2>2 DEF UnitTypes
<1>. QED BY <1>1, <1>4, <1>5, <1>6, HealthInvPrimed

LEMMA AgedFacts ==
  ASSUME UnitTypes
  PROVE  /\ Aged \in {NoFile} \cup File
         /\ Aged # NoFile => /\ file # NoFile /\ Aged.misses = file.misses
                             /\ Aged.failures = file.failures
BY OldFileFacts DEF Aged, UnitTypes

LEMMA UnitKeeps ==
  ASSUME HealthInv, Starts \/ Refuses \/ Ends \/ Dies
  PROVE  HealthInv'
<1>. LinkTypes /\ CounterTypes /\ UnitTypes /\ Accounts /\ StatusIsOfThisRun
  BY HealthTypesSplit DEF HealthInv
<1>1. LinkTypes'
  BY LinkTypesKept DEF Starts, Refuses, Ends, Dies, Destroyed
<1>2. UNCHANGED <<configured, fixed, disk>>
  BY DEF Starts, Refuses, Ends, Dies, link
<1>3. CASE Starts
  <2>1. /\ proc' = "up" /\ failures' = 0 /\ ever' = FALSE /\ since' = 0 /\ due' = FALSE
        /\ misses' = 0 /\ refused' = FALSE /\ UNCHANGED <<file, left>>
    BY <1>3 DEF Starts
  <2>2. CounterTypes'
    BY <2>1, LimitsAreNat DEF CounterTypes
  <2>3. UnitTypes'
    BY <1>2, <2>1 DEF UnitTypes, fixed
  <2>4. Accounts' /\ StatusIsOfThisRun'
    BY <2>1 DEF Accounts, StatusIsOfThisRun
  <2>. QED BY <1>1, <2>2, <2>3, <2>4, HealthInvPrimed
<1>4. CASE Refuses
  <2>1. proc' = "none" /\ UNCHANGED <<stats, file, misses, left, refused>>
    BY <1>4 DEF Refuses, history
  <2>2. CounterTypes' /\ UnitTypes'
    BY <1>2, <2>1 DEF CounterTypes, UnitTypes, fixed, stats
  <2>3. Accounts' /\ StatusIsOfThisRun'
    BY <2>1 DEF Accounts, StatusIsOfThisRun, stats
  <2>. QED BY <1>1, <2>2, <2>3, HealthInvPrimed
<1>5. CASE Ends \/ Dies
  <2>1. /\ proc' = "none" /\ UNCHANGED <<stats, misses, refused>>
        /\ \/ file' = NoFile /\ left' = FALSE
           \/ file' = Aged /\ left' = TRUE
    BY <1>5 DEF Ends, Dies
  <2>2. /\ file' \in {NoFile} \cup File
        /\ file' # NoFile => file # NoFile /\ file'.misses = file.misses
                             /\ file'.failures = file.failures
    BY <2>1, AgedFacts
  <2>3. CounterTypes' /\ UnitTypes'
    BY <1>2, <2>1, <2>2 DEF CounterTypes, UnitTypes, fixed, stats
  <2>4. Accounts' /\ StatusIsOfThisRun'
    BY <2>1, <2>2 DEF Accounts, StatusIsOfThisRun, stats
  <2>. QED BY <1>1, <2>3, <2>4, HealthInvPrimed
<1>. QED BY <1>3, <1>4, <1>5

LEMMA HealthInvInductive == HealthInv /\ [HealthNext]_healthVars => HealthInv'
<1>. SUFFICES ASSUME HealthInv, [HealthNext]_healthVars PROVE HealthInv'
  OBVIOUS
<1>. LinkTypes /\ UnitTypes
  BY HealthTypesSplit DEF HealthInv
<1>1. CASE Submits \/ Flushes \/ SecondPasses
  BY <1>1, LoopKeeps
<1>2. CASE Publishes \/ RunStarts
  BY <1>2, PublishKeeps
<1>3. CASE Starts \/ Refuses \/ Ends \/ Dies
  BY <1>3, UnitKeeps
<1>4. CASE Polls \/ Wedges \/ Attaches \/ Unplugged \/ DiskTurns \/ UNCHANGED healthVars
  <2>1. LinkTypes'
    BY <1>4, LinkTypesKept DEF Polls, Wedges, Attaches, Unplugged, DiskTurns, healthVars
  <2>2. /\ configured' \in BOOLEAN /\ disk' \in BOOLEAN
        /\ UNCHANGED <<fixed, proc, stats, file, history>>
    BY <1>4 DEF Polls, Wedges, Attaches, Unplugged, DiskTurns, healthVars, link, UnitTypes
  <2>. QED BY <2>1, <2>2, LinkStepKeeps
<1>. QED BY <1>1, <1>2, <1>3, <1>4 DEF HealthNext

(* Counters, file and link keep their types, whatever the limits are. *)
THEOREM HealthTypeCorrect == HealthSpec => []HealthTypeOK
<1>1. HealthInv => HealthTypeOK
  BY DEF HealthInv
<1>. QED BY <1>1, HealthInitInv, HealthInvInductive, PTL DEF HealthSpec

(***************************************************************************)
(* "ok" is told only of a link that refused no more than the limit's       *)
(* number of reports on end, for every pair of limits                      *)
(* (gpb_web.py:240-267, bridge.cpp:97-103).                                *)
(***************************************************************************)
THEOREM OkIsEarned == HealthSpec => []OkMeansFewMisses
<1>1. HealthInv => OkMeansFewMisses
  <2>. SUFFICES ASSUME HealthInv, Verdict = "ok"
                PROVE  file.misses <= IF file.ever THEN StoppedLimit ELSE NeverLimit
    BY DEF OkMeansFewMisses
  <2>1. file # NoFile /\ Judge = "ok"
    BY DEF Verdict
  <2>2. file \in File /\ file.misses <= file.failures
    BY <2>1, HealthTypesSplit DEF HealthInv, UnitTypes, Accounts
  <2>3. file.failures <= IF file.ever THEN StoppedLimit ELSE NeverLimit
    BY <2>1, <2>2, LimitAssumption DEF Judge, File
  <2>. QED BY <2>2, <2>3, LimitAssumption DEF File
<1>. QED BY <1>1, HealthInitInv, HealthInvInductive, PTL DEF HealthSpec

(***************************************************************************)
(* The panel takes the account of an earlier bridge for that of a running  *)
(* one only if the earlier one left it behind, killed or unable to remove  *)
(* it, and every write of the running one has failed (bridge.cpp:25,       *)
(* 149-154, 166).                                                          *)
(***************************************************************************)
THEOREM AccountIsOfThisRun == HealthSpec => []StatusIsOfThisRun
<1>1. HealthInv => StatusIsOfThisRun
  BY DEF HealthInv
<1>. QED BY <1>1, HealthInitInv, HealthInvInductive, PTL DEF HealthSpec
=============================================================================
