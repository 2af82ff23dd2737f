----------------------------- MODULE PanelProofs -----------------------------
(***************************************************************************)
(* Proofs about Panel and the Latency it runs, for every set of pages and  *)
(* requests, any number of runs and every kind of disturbance.  That a     *)
(* sample is ended by its own event rests on what the driver and the host  *)
(* hold at each point of the loop: a report that is still queued when the  *)
(* next sample begins agrees with what is shown in the control of that     *)
(* sample, so that the event it causes late is of the other kind.          *)
(***************************************************************************)
EXTENDS Panel, TLAPS

Other == IF turn = "key" THEN "abs" ELSE "key"
Same(q, k) == q[k] = report[k]
Holds(q) == Same(q, "key") /\ Same(q, "abs")

(* Before a sample: its control is shown as it was written last. *)
AtHead ==
  tool = "loop" /\ ~stop =>
    IF queued = None THEN Holds(shown) ELSE Holds(queued) /\ Same(shown, turn)

(* The change is not written yet: what is queued cannot change that control. *)
AtWrite ==
  tool = "write" =>
    /\ \A e \in events : e.kind # turn
    /\ IF queued = None THEN Same(shown, Other)
       ELSE ~queued.own /\ queued[turn] = shown[turn] /\ Same(queued, Other)

(* Written, and the event awaited, or given up. *)
AtWait ==
  tool = "wait" \/ (tool = "settle" /\ ~stop) =>
    IF queued = None THEN Holds(shown) ELSE Holds(queued) /\ Same(shown, Other)

OwnEvents ==
  tool = "wait" => /\ \A e \in events : e.kind = turn => e.own
                   /\ queued # None => queued.own

PadInv ==
  /\ padOpen => attached
  /\ tool = "opening" => turn = "key" /\ report = Neutral /\ events = {} /\ ~padOpen
  /\ tool \notin {"off", "opening"} /\ ~padOpen => events = {}

Sound == ~misread /\ PadInv /\ (padOpen => AtHead /\ AtWrite /\ AtWait /\ OwnEvents)

SampleInv == TypeOK /\ (alone => Sound)

-----------------------------------------------------------------------------
(* Reports: a sample changes one control, and the driver keeps both. *)
LEMMA ReportTypes ==
  /\ Neutral \in Reports
  /\ \A r \in Reports : /\ Sent(r) \in Writables
                        /\ Sent(r)["key"] = r["key"] /\ Sent(r)["abs"] = r["abs"] /\ Sent(r).own
  /\ \A w \in Writables : /\ Disowned(w) \in Writables
                          /\ Disowned(w)["key"] = w["key"] /\ Disowned(w)["abs"] = w["abs"]
                          /\ ~Disowned(w).own
  /\ \A w \in Writables : [key |-> w.key, abs |-> w.abs] \in Reports
BY DEF Reports, Writables, Neutral, Sent, Disowned

LEMMA ToggledFacts ==
  ASSUME LatencyTypeOK
  PROVE  Toggled \in Reports /\ Toggled[Other] = report[Other]
BY DEF LatencyTypeOK, Reports, Toggled, Other

LEMMA Turns ==
  ASSUME LatencyTypeOK
  PROVE  /\ {turn, Other} = {"key", "abs"} /\ turn # Other
         /\ \A q : Holds(q) <=> Same(q, turn) /\ Same(q, Other)
BY DEF LatencyTypeOK, Other, Holds

(* A process that begins or ends disturbs nothing that outlives it. *)
LEMMA AnewFacts ==
  ASSUME NEW place \in {"off", "opening"}, Anew(place), UNCHANGED queued
  PROVE  /\ LatencyTypeOK => LatencyTypeOK'
         /\ Sound => Sound'
<1>1. ASSUME LatencyTypeOK PROVE LatencyTypeOK'
  BY <1>1, ReportTypes DEF Anew, LatencyTypeOK
<1>2. ASSUME Sound PROVE Sound'
  BY <1>2 DEF Anew, Sound, PadInv, AtHead, AtWrite, AtWait, OwnEvents
<1>. QED BY <1>1, <1>2

-----------------------------------------------------------------------------
(* The tool's steps and the host's, as far as they go by themselves. *)
LEMMA LoopTypes ==
  ASSUME LatencyTypeOK,
         Opens \/ BeginsSample \/ EndsLoop \/ Settles \/ DeadlinePasses
  PROVE  LatencyTypeOK'
<1>1. CASE Opens
  <2>1. CASE Anew("off")
    BY <1>1, <2>1, AnewFacts DEF Opens
  <2>2. CASE ~Anew("off")
    BY <1>1, <2>2 DEF Opens, LatencyTypeOK
  <2>. QED BY <2>1, <2>2
<1>2. CASE BeginsSample
  <2>1. report' \in Reports
    BY <1>2, ToggledFacts DEF BeginsSample
  <2>2. queued' \in Writables \cup {None}
    BY <1>2, ReportTypes DEF BeginsSample, LatencyTypeOK
  <2>. QED BY <1>2, <2>1, <2>2 DEF BeginsSample, LatencyTypeOK
<1>3. CASE EndsLoop
  BY <1>3 DEF EndsLoop, LatencyTypeOK, hostVars
<1>4. CASE Settles
  BY <1>4 DEF Settles, LatencyTypeOK, hostVars
<1>5. CASE DeadlinePasses
  BY <1>5 DEF DeadlinePasses, LatencyTypeOK, hostVars
<1>. QED BY <1>1, <1>2, <1>3, <1>4, <1>5

LEMMA SampleTypes ==
  ASSUME LatencyTypeOK, Writes \/ Reads \/ GivesUp \/ Releases \/ Interrupt
  PROVE  LatencyTypeOK'
<1>1. CASE Writes
  BY <1>1, ReportTypes DEF Writes, LatencyTypeOK
<1>2. CASE Reads
  <2>1. misread' \in BOOLEAN
    BY <1>2 DEF Reads, LatencyTypeOK
  <2>. QED BY <1>2, <2>1 DEF Reads, LatencyTypeOK
<1>3. CASE GivesUp
  BY <1>3 DEF GivesUp, LatencyTypeOK, hostVars
<1>4. CASE Releases
  <2>1. queued' \in Writables \cup {None}
    BY <1>4, ReportTypes DEF Releases, LatencyTypeOK
  <2>. QED BY <1>4, <2>1, ReportTypes DEF Releases, Anew, LatencyTypeOK
<1>5. CASE Interrupt
  <2>1. CASE UNCHANGED latencyVars
    BY <2>1 DEF latencyVars, toolVars, hostVars, LatencyTypeOK
  <2>2. CASE Anew("off")
    BY <1>5, <2>2, AnewFacts DEF Interrupt
  <2>3. CASE stop' = TRUE /\ UNCHANGED <<turn, report, late, padOpen, misread, shown, events, attached, awake>>
    <3>1. tool' = tool \/ tool' = "settle" \/ tool' = "off"
      BY <1>5 DEF Interrupt, latencyVars, toolVars, Anew
    <3>. QED BY <1>5, <2>3, <3>1 DEF Interrupt, LatencyTypeOK
  <2>. QED BY <1>5, <2>1, <2>2, <2>3 DEF Interrupt
<1>. QED BY <1>1, <1>2, <1>3, <1>4, <1>5

LEMMA HostTypes ==
  ASSUME LatencyTypeOK, HostTakes \/ CablePulled \/ CablePlugged \/ HostSleeps
  PROVE  LatencyTypeOK'
<1>1. CASE HostTakes
  <2>1. queued \in Writables
    BY <1>1 DEF HostTakes, LatencyTypeOK
  <2>2. shown' \in Reports
    BY <1>1, <2>1, ReportTypes DEF HostTakes
  <2>3. events' \subseteq Events
    <3>1. queued.own \in BOOLEAN
      BY <2>1 DEF Writables
    <3>. QED BY <1>1, <3>1 DEF HostTakes, LatencyTypeOK, Events
  <2>. QED BY <1>1, <2>2, <2>3 DEF HostTakes, LatencyTypeOK, toolVars
<1>2. CASE CablePulled
  BY <1>2, ReportTypes DEF CablePulled, LatencyTypeOK
<1>3. CASE CablePlugged
  BY <1>3 DEF CablePlugged, LatencyTypeOK, toolVars
<1>4. CASE HostSleeps
  BY <1>4 DEF HostSleeps, LatencyTypeOK, toolVars
<1>. QED BY <1>1, <1>2, <1>3, <1>4

-----------------------------------------------------------------------------
(* A released gadget and an emptied queue: what a run before has left is neutral. *)
LEMMA SoundOpens ==
  ASSUME LatencyTypeOK, Sound, Opens, queued \in {None, Disowned(Sent(Neutral))}, shown = Neutral
  PROVE  Sound'
<1>1. CASE Anew("off")
  BY <1>1, AnewFacts DEF Opens
<1>2. CASE ~Anew("off")
  <2>1. /\ tool' = "loop" /\ queued' = queued /\ shown' = Neutral /\ report' = Neutral
        /\ events' = {} /\ attached' = attached /\ misread' = misread /\ turn' = "key"
        /\ padOpen' = attached
    BY <1>2 DEF Opens, Sound, PadInv
  <2>2. PadInv'
    BY <2>1 DEF PadInv
  <2>3. AtHead'
    <3>1. /\ Disowned(Sent(Neutral))["key"] = Neutral["key"]
          /\ Disowned(Sent(Neutral))["abs"] = Neutral["abs"]
      BY ReportTypes
    <3>2. Holds(shown)' /\ Same(shown, turn)'
      BY <2>1 DEF Holds, Same
    <3>3. queued' # None => Holds(queued)'
      BY <2>1, <3>1 DEF Holds, Same
    <3>. QED BY <3>2, <3>3 DEF AtHead
  <2>. QED BY <2>1, <2>2, <2>3 DEF Sound, AtWrite, AtWait, OwnEvents
<1>. QED BY <1>1, <1>2

(* What is queued becomes an earlier sample's, and agrees with what is shown *)
(* in the control that this sample changes.                                  *)
LEMMA SoundBegins ==
  ASSUME LatencyTypeOK, Sound, BeginsSample
  PROVE  Sound'
<1>1. /\ tool = "loop" /\ ~stop /\ tool' = "write" /\ report' = Toggled /\ events' = {}
      /\ UNCHANGED <<turn, padOpen, misread, shown, attached>>
      /\ queued' = IF queued = None THEN None ELSE Disowned(queued)
  BY DEF BeginsSample
<1>2. PadInv' /\ ~misread'
  BY <1>1 DEF PadInv, Sound
<1>3. Other' = Other /\ Toggled[Other] = report[Other] /\ Other \in {"key", "abs"} /\ turn \in {"key", "abs"}
  BY <1>1, ToggledFacts DEF Other, LatencyTypeOK
<1>4. ASSUME padOpen' PROVE AtWrite'
  <2>1. IF queued = None THEN Holds(shown) ELSE Holds(queued) /\ Same(shown, turn)
    BY <1>1, <1>4 DEF Sound, AtHead
  <2>2. CASE queued = None
    <3>1. queued' = None /\ shown'[Other] = report'[Other]
      BY <1>1, <1>3, <2>1, <2>2 DEF Holds, Same
    <3>. QED BY <1>1, <1>3, <3>1 DEF AtWrite, Same
  <2>3. CASE queued # None
    <3>1. queued \in Writables /\ queued' = Disowned(queued)
      BY <1>1, <2>3 DEF LatencyTypeOK
    <3>2. /\ ~queued'.own /\ queued'["key"] = queued["key"] /\ queued'["abs"] = queued["abs"]
          /\ queued' # None
      BY <3>1, ReportTypes, NoneAssumption
    <3>3. queued'[turn] = shown[turn] /\ queued'[Other] = report'[Other]
      BY <1>1, <1>3, <2>1, <2>3, <3>2 DEF Holds, Same
    <3>. QED BY <1>1, <1>3, <3>2, <3>3 DEF AtWrite, Same
  <2>. QED BY <2>2, <2>3
<1>. QED BY <1>1, <1>2, <1>4 DEF Sound, AtHead, AtWait, OwnEvents

(* The sample's own report goes into a driver that is free. *)
LEMMA SoundWrites ==
  ASSUME LatencyTypeOK, Sound, Writes
  PROVE  Sound'
<1>1. /\ tool = "write" /\ UNCHANGED <<turn, report, stop, padOpen, misread, shown, events, attached>>
      /\ padOpen => attached
  BY DEF Writes, Sound, PadInv
<1>2. PadInv' /\ ~misread'
  BY <1>1 DEF PadInv, Sound, Writes
<1>3. CASE ~attached
  BY <1>1, <1>2, <1>3 DEF Sound
<1>4. CASE attached
  <2>1. queued = None /\ queued' = Sent(report) /\ tool' = "wait"
    BY <1>4 DEF Writes
  <2>2. /\ Sent(report) \in Writables /\ Sent(report)["key"] = report["key"]
        /\ Sent(report)["abs"] = report["abs"] /\ Sent(report).own /\ Sent(report) # None
    BY ReportTypes, NoneAssumption DEF LatencyTypeOK
  <2>3. ASSUME padOpen
        PROVE  Same(shown, Other) /\ \A e \in events : e.kind # turn
    BY <1>1, <2>1, <2>3 DEF Sound, AtWrite
  <2>4. Other' = Other
    BY <1>1 DEF Other
  <2>5. padOpen => AtWait'
    BY <1>1, <2>1, <2>2, <2>3, <2>4 DEF AtWait, Holds, Same
  <2>6. padOpen => OwnEvents'
    BY <1>1, <2>1, <2>2, <2>3 DEF OwnEvents
  <2>. QED BY <1>1, <1>2, <2>1, <2>5, <2>6 DEF Sound, AtHead, AtWrite
<1>. QED BY <1>3, <1>4

(* Only the sample's own event can be of its kind. *)
LEMMA SoundReads ==
  ASSUME LatencyTypeOK, Sound, Reads
  PROVE  Sound'
<1>1. /\ tool = "wait" /\ events # {} /\ events' = {} /\ tool' \in {"settle", "wait"}
      /\ UNCHANGED <<turn, report, stop, padOpen, queued, shown, attached>>
  BY DEF Reads
<1>2. padOpen /\ AtWait /\ OwnEvents
  BY <1>1 DEF Sound, PadInv
<1>3. ~misread'
  <2>1. CASE \A e \in events : e.kind # turn
    BY <2>1 DEF Reads, Sound
  <2>2. CASE \E e \in events : e.kind = turn
    <3>1. PICK e \in events : e.kind = turn
      BY <2>2
    <3>2. e \in Events /\ e.own
      BY <1>1, <1>2, <3>1 DEF OwnEvents, LatencyTypeOK
    <3>3. e = [kind |-> turn, own |-> TRUE]
      BY <3>1, <3>2 DEF Events
    <3>. QED BY <3>1, <3>3 DEF Reads, Sound
  <2>. QED BY <2>1, <2>2
<1>4. AtWait' /\ OwnEvents'
  BY <1>1, <1>2 DEF AtWait, OwnEvents, Holds, Same, Other
<1>. QED BY <1>1, <1>3, <1>4 DEF Sound, PadInv, AtHead, AtWrite

LEMMA SoundGivesUp ==
  ASSUME LatencyTypeOK, Sound, GivesUp
  PROVE  Sound'
<1>1. tool = "wait" /\ tool' = "settle" /\ UNCHANGED <<turn, report, stop, padOpen, misread, hostVars>>
  BY DEF GivesUp
<1>2. padOpen => AtWait'
  BY <1>1 DEF Sound, AtWait, Holds, Same, Other, hostVars
<1>. QED BY <1>1, <1>2 DEF Sound, PadInv, AtHead, AtWrite, OwnEvents, hostVars

(* The turn goes to the other control, which was left as it is shown. *)
LEMMA SoundSettles ==
  ASSUME LatencyTypeOK, Sound, Settles
  PROVE  Sound'
<1>1. tool = "settle" /\ tool' = "loop" /\ UNCHANGED <<report, stop, padOpen, misread, hostVars>>
  BY DEF Settles
<1>2. turn' = Other
  BY DEF Settles, Other
<1>3. padOpen => AtHead'
  BY <1>1, <1>2 DEF Sound, AtWait, AtHead, Holds, Same, hostVars
<1>. QED BY <1>1, <1>3 DEF Sound, PadInv, AtWait, AtWrite, OwnEvents, hostVars

LEMMA SoundEnds ==
  ASSUME LatencyTypeOK, Sound,
         EndsLoop \/ Releases \/ DeadlinePasses \/ Interrupt
  PROVE  Sound'
<1>1. CASE EndsLoop
  BY <1>1 DEF EndsLoop, Sound, PadInv, AtHead, AtWrite, AtWait, OwnEvents, hostVars
<1>2. CASE Releases
  BY <1>2 DEF Releases, Anew, Sound, PadInv, AtHead, AtWrite, AtWait, OwnEvents
<1>3. CASE DeadlinePasses
  BY <1>3 DEF DeadlinePasses, Sound, PadInv, AtHead, AtWrite, AtWait, OwnEvents, Holds, Same, Other, hostVars
<1>4. CASE Interrupt
  <2>1. CASE UNCHANGED latencyVars
    BY <2>1 DEF latencyVars, toolVars, hostVars, Sound, PadInv, AtHead, AtWrite, AtWait, OwnEvents,
                Holds, Same, Other
  <2>2. CASE Anew("off")
    BY <1>4, <2>2, AnewFacts DEF Interrupt
  <2>3. CASE /\ tool # "off" /\ stop' = TRUE
             /\ tool' = tool \/ (tool = "write" /\ Blocked /\ tool' = "settle")
             /\ UNCHANGED <<turn, report, late, padOpen, misread, shown, events, attached, awake>>
    <3>1. UNCHANGED queued
      BY <1>4 DEF Interrupt
    <3>2. PadInv'
      BY <2>3 DEF Sound, PadInv
    <3>3. padOpen' => AtHead' /\ AtWrite' /\ AtWait' /\ OwnEvents'
      BY <2>3, <3>1 DEF Sound, AtHead, AtWrite, AtWait, OwnEvents, Holds, Same, Other
    <3>. QED BY <2>3, <3>2, <3>3 DEF Sound
  <2>. QED BY <1>4, <2>1, <2>2, <2>3 DEF Interrupt
<1>. QED BY <1>1, <1>2, <1>3, <1>4

(* The host takes what is queued: only a control that it changes makes an event. *)
LEMMA SoundTakes ==
  ASSUME LatencyTypeOK, Sound, HostTakes
  PROVE  Sound'
<1>1. /\ attached /\ queued # None /\ queued' = None
      /\ UNCHANGED <<toolVars, attached>>
      /\ shown' = [key |-> queued.key, abs |-> queued.abs]
      /\ events' = IF ~padOpen THEN {}
                   ELSE events \cup {[kind |-> k, own |-> queued.own] :
                                       k \in {x \in {"key", "abs"} : queued[x] # shown[x]}}
  BY DEF HostTakes
<1>2. UNCHANGED <<tool, turn, report, stop, padOpen, misread>> /\ Other' = Other
  BY <1>1 DEF toolVars, Other
<1>3. queued \in Writables /\ shown'["key"] = queued["key"] /\ shown'["abs"] = queued["abs"]
  BY <1>1 DEF LatencyTypeOK, Writables
<1>4. PadInv' /\ ~misread'
  BY <1>1, <1>2 DEF PadInv, Sound
<1>. SUFFICES ASSUME padOpen PROVE AtHead' /\ AtWrite' /\ AtWait' /\ OwnEvents'
  BY <1>2, <1>4 DEF Sound
<1>5. \A e \in events' : e \in events \/ (e.own = queued.own /\ queued[e.kind] # shown[e.kind])
  BY <1>1
<1>6. turn \in {"key", "abs"} /\ Other \in {"key", "abs"}
  BY DEF LatencyTypeOK, Other
<1>7. AtHead'
  BY <1>1, <1>2, <1>3 DEF Sound, AtHead, Holds, Same
<1>8. AtWait'
  BY <1>1, <1>2, <1>3 DEF Sound, AtWait, Holds, Same
<1>9. AtWrite'
  <2>. SUFFICES ASSUME tool = "write"
                PROVE  (\A e \in events' : e.kind # turn) /\ shown'[Other] = report'[Other]
    BY <1>1, <1>2 DEF AtWrite, Same
  <2>1. queued[turn] = shown[turn] /\ queued[Other] = report[Other] /\ \A e \in events : e.kind # turn
    BY <1>1 DEF Sound, AtWrite, Same
  <2>2. \A e \in events' : e.kind # turn
    BY <1>5, <2>1
  <2>3. shown'[Other] = report'[Other]
    BY <1>2, <1>3, <1>6, <2>1
  <2>. QED BY <2>2, <2>3
<1>10. OwnEvents'
  <2>. SUFFICES ASSUME tool = "wait", NEW e \in events', e.kind = turn PROVE e.own
    BY <1>1, <1>2 DEF OwnEvents
  <2>1. queued.own /\ \A d \in events : d.kind = turn => d.own
    BY <1>1 DEF Sound, OwnEvents
  <2>. QED BY <1>5, <2>1
<1>. QED BY <1>7, <1>8, <1>9, <1>10

LEMMA SoundHost ==
  ASSUME LatencyTypeOK, Sound, CablePulled \/ CablePlugged \/ HostSleeps
  PROVE  Sound'
<1>1. CASE CablePulled
  BY <1>1 DEF CablePulled, Sound, PadInv
<1>2. CASE CablePlugged
  BY <1>2 DEF CablePlugged, Sound, PadInv, toolVars
<1>3. CASE HostSleeps
  BY <1>3 DEF HostSleeps, Sound, PadInv, AtHead, AtWrite, AtWait, OwnEvents, Holds, Same, Other, toolVars
<1>. QED BY <1>1, <1>2, <1>3

-----------------------------------------------------------------------------
(* What a step of the panel, of the bridge or of the world does to the tool  *)
(* and to its host.                                                          *)
Spawned == Anew("opening") /\ UNCHANGED queued

Intruded ==
  /\ bridge /\ queued = None /\ queued' = Disowned(Sent(Neutral))
  /\ UNCHANGED <<toolVars, shown, events, attached, awake>>

GadgetStep ==
  \/ ToolSteps \/ BeginsSample \/ DeadlinePasses \/ Dies \/ Interrupt \/ Spawned
  \/ HostTakes \/ CablePulled \/ CablePlugged \/ HostSleeps \/ Intruded
  \/ UNCHANGED latencyVars

HistoryTypes == owed \in BOOLEAN /\ alone \in BOOLEAN

Left == shown = Neutral /\ queued \in {None, Disowned(Sent(Neutral))}

LEMMA HistoryFacts ==
  ASSUME HistoryTypes, Kept \/ Lapsed
  PROVE  /\ HistoryTypes'
         /\ alone' => alone /\ (bridge => tool = "off") /\ (tool = "opening" => Left)
<1>1. Watched
  BY DEF Kept, Lapsed
<1>2. /\ alone' \in BOOLEAN
      /\ alone' => alone /\ (bridge => tool = "off") /\ (tool = "opening" => Left)
  BY <1>1 DEF Watched, ToolOn, Left, HistoryTypes
<1>3. owed' \in BOOLEAN
  BY DEF Kept, Lapsed
<1>. QED BY <1>2, <1>3 DEF HistoryTypes

LEMMA GadgetTypes ==
  ASSUME LatencyTypeOK, GadgetStep
  PROVE  LatencyTypeOK'
<1>1. CASE ToolSteps \/ BeginsSample \/ DeadlinePasses
  <2>1. CASE Opens \/ BeginsSample \/ EndsLoop \/ Settles \/ DeadlinePasses
    BY <2>1, LoopTypes
  <2>2. CASE Writes \/ Reads \/ GivesUp \/ Releases
    BY <2>2, SampleTypes
  <2>. QED BY <1>1, <2>1, <2>2 DEF ToolSteps
<1>2. CASE Interrupt
  BY <1>2, SampleTypes
<1>3. CASE Dies
  BY <1>3, AnewFacts DEF Dies
<1>4. CASE Spawned
  BY <1>4, AnewFacts DEF Spawned
<1>5. CASE HostTakes \/ CablePulled \/ CablePlugged \/ HostSleeps
  BY <1>5, HostTypes
<1>6. CASE Intruded
  BY <1>6, ReportTypes DEF Intruded, LatencyTypeOK, toolVars
<1>7. CASE UNCHANGED latencyVars
  BY <1>7 DEF latencyVars, toolVars, hostVars, LatencyTypeOK
<1>. QED BY <1>1, <1>2, <1>3, <1>4, <1>5, <1>6, <1>7 DEF GadgetStep

LEMMA GadgetSound ==
  ASSUME LatencyTypeOK, Sound, GadgetStep, bridge => tool = "off", tool = "opening" => Left
  PROVE  Sound'
<1>1. CASE Opens
  <2>1. tool = "opening"
    BY <1>1 DEF Opens
  <2>. QED BY <1>1, <2>1, SoundOpens DEF Left
<1>2. CASE (ToolSteps \/ BeginsSample) /\ ~Opens
  <2>1. CASE BeginsSample
    BY <2>1, SoundBegins
  <2>2. CASE Writes
    BY <2>2, SoundWrites
  <2>3. CASE Reads
    BY <2>3, SoundReads
  <2>4. CASE GivesUp
    BY <2>4, SoundGivesUp
  <2>5. CASE Settles
    BY <2>5, SoundSettles
  <2>6. CASE EndsLoop \/ Releases
    BY <2>6, SoundEnds
  <2>. QED BY <1>2, <2>1, <2>2, <2>3, <2>4, <2>5, <2>6 DEF ToolSteps
<1>3. CASE DeadlinePasses \/ Interrupt
  BY <1>3, SoundEnds
<1>4. CASE Dies
  BY <1>4, AnewFacts DEF Dies
<1>5. CASE Spawned
  BY <1>5, AnewFacts DEF Spawned
<1>6. CASE HostTakes
  BY <1>6, SoundTakes
<1>7. CASE CablePulled \/ CablePlugged \/ HostSleeps
  BY <1>7, SoundHost
<1>8. CASE Intruded
  <2>1. tool' = "off" /\ UNCHANGED <<padOpen, misread, attached>>
    BY <1>8 DEF Intruded, toolVars
  <2>. QED BY <2>1 DEF Sound, PadInv, AtHead, AtWrite, AtWait, OwnEvents
<1>9. CASE UNCHANGED latencyVars
  BY <1>9 DEF latencyVars, toolVars, hostVars, Sound, PadInv, AtHead, AtWrite, AtWait, OwnEvents,
              Holds, Same, Other
<1>. QED BY <1>1, <1>2, <1>3, <1>4, <1>5, <1>6, <1>7, <1>8, <1>9 DEF GadgetStep

(* Every step of the system is such a step, and keeps the histories. *)
LEMMA EveryStep ==
  ASSUME Next
  PROVE  GadgetStep /\ (Kept \/ Lapsed)
<1>1. ASSUME NEW r \in Requests,
             AskStart(r) \/ AskProgress(r) \/ AskStop(r) \/ StartEnters(r) \/ StartStopsBridge(r)
      PROVE  GadgetStep /\ (Kept \/ Lapsed)
  <2>1. Quiet
    BY <1>1 DEF AskStart, AskProgress, AskStop, StartEnters, StartStopsBridge
  <2>. QED BY <2>1 DEF Quiet, GadgetStep
<1>2. ASSUME NEW r \in Requests, StartSpawns(r) PROVE GadgetStep /\ (Kept \/ Lapsed)
  <2>1. CASE Spawned
    BY <1>2, <2>1 DEF StartSpawns, GadgetStep
  <2>2. CASE UNCHANGED latencyVars
    BY <1>2, <2>2 DEF StartSpawns, GadgetStep
  <2>. QED BY <1>2, <2>1, <2>2 DEF StartSpawns, Spawned
<1>3. ASSUME NEW r \in Requests,
             Looks(r) \/ RestoreLooks(r) \/ RestoreStarts(r) \/ RestoreClears(r) \/ Tells(r) \/ StopJoins(r)
      PROVE  GadgetStep /\ (Kept \/ Lapsed)
  <2>1. Quiet
    BY <1>3 DEF Looks, RestoreLooks, RestoreStarts, RestoreClears, Tells, StopJoins
  <2>. QED BY <2>1 DEF Quiet, GadgetStep
<1>4. ASSUME NEW r \in Requests, StopEnters(r) PROVE GadgetStep /\ (Kept \/ Lapsed)
  BY <1>4 DEF StopEnters, GadgetStep
<1>5. ASSUME NEW r \in Requests, StopKills(r) \/ StartRaises(r) PROVE GadgetStep /\ (Kept \/ Lapsed)
  BY <1>5 DEF StopKills, StartRaises, GadgetStep
<1>6. ASSUME NEW p \in Pages, Forgets(p) PROVE GadgetStep /\ (Kept \/ Lapsed)
  BY <1>6 DEF Forgets, GadgetStep
<1>7. CASE Crashes
  BY <1>7 DEF Crashes, GadgetStep
<1>8. CASE Samples \/ Runs(ToolSteps) \/ Runs(DeadlinePasses) \/ Runs(Dies)
  <2>1. CASE Runs(ToolSteps)
    BY <2>1 DEF Runs, GadgetStep
  <2>2. CASE Runs(DeadlinePasses)
    BY <2>2 DEF Runs, GadgetStep
  <2>3. CASE Runs(Dies)
    BY <2>3 DEF Runs, GadgetStep
  <2>4. CASE Samples
    BY <2>4 DEF Samples, GadgetStep
  <2>. QED BY <1>8, <2>1, <2>2, <2>3, <2>4
<1>9. CASE Reaps \/ Service
  BY <1>9 DEF Reaps, Service, Quiet, GadgetStep
<1>10. CASE BridgeWrites
  BY <1>10 DEF BridgeWrites, GadgetStep, Intruded
<1>11. CASE Polls \/ Cable \/ Suspends
  BY <1>11 DEF Polls, Cable, Suspends, GadgetStep
<1>. QED BY <1>1, <1>2, <1>3, <1>4, <1>5, <1>6, <1>7, <1>8, <1>9, <1>10, <1>11 DEF Next, Serves

-----------------------------------------------------------------------------
(* The panel's own state. *)
Places ==
  {"none", "start", "stop bridge", "spawn", "progress", "restore", "start bridge", "clear", "tell",
   "stop", "join"}

ServerTypes ==
  /\ bridge \in BOOLEAN /\ was \in BOOLEAN
  /\ proc \in {"none", "live", "killed", "over"}
  /\ lock \in Requests \cup {None} /\ page \in [Pages -> BOOLEAN]
  /\ pc \in [Requests -> Places]

LEMMA TypesAre ==
  /\ TypeOK => LatencyTypeOK /\ ServerTypes /\ HistoryTypes
  /\ LatencyTypeOK /\ ServerTypes /\ HistoryTypes => TypeOK
BY DEF TypeOK, ServerTypes, HistoryTypes, Places

LEMMA TypesAreNext ==
  ASSUME LatencyTypeOK', ServerTypes', HistoryTypes'
  PROVE  TypeOK'
BY DEF TypeOK, ServerTypes, HistoryTypes, Places

LEMMA PlaceTypes ==
  ASSUME ServerTypes, NEW r \in Requests
  PROVE  /\ r[1] \in Pages
         /\ \A l \in Places : Go(r, l) => pc' \in [Requests -> Places]
         /\ Restored(r) => pc' \in [Requests -> Places] /\ lock' \in Requests \cup {None}
<1>1. r[1] \in Pages
  BY DEF Requests
<1>2. \A l \in Places : Go(r, l) => pc' \in [Requests -> Places]
  BY DEF ServerTypes, Go
<1>3. {"tell", "none"} \subseteq Places
  BY DEF Places
<1>4. ASSUME Restored(r) PROVE pc' \in [Requests -> Places] /\ lock' \in Requests \cup {None}
  BY <1>2, <1>3, <1>4 DEF Restored, ServerTypes
<1>. QED BY <1>1, <1>2, <1>4

LEMMA StartTypes ==
  ASSUME ServerTypes, NEW r \in Requests,
         AskStart(r) \/ StartEnters(r) \/ StartStopsBridge(r) \/ StartSpawns(r) \/ StartRaises(r)
  PROVE  ServerTypes'
<1>0. {"none", "start", "stop bridge", "spawn", "restore"} \subseteq Places
  BY DEF Places
<1>1. CASE AskStart(r)
  <2>1. pc' \in [Requests -> Places]
    BY <1>0, <1>1, PlaceTypes DEF AskStart
  <2>. QED BY <1>1, <2>1 DEF AskStart, Quiet, ServerTypes
<1>2. CASE StartEnters(r)
  <2>1. pc' \in [Requests -> Places]
    BY <1>0, <1>2, PlaceTypes DEF StartEnters
  <2>2. was' \in BOOLEAN /\ lock' \in Requests \cup {None}
    BY <1>2 DEF StartEnters, ServerTypes
  <2>. QED BY <1>2, <2>1, <2>2 DEF StartEnters, Quiet, ServerTypes
<1>3. CASE StartStopsBridge(r)
  <2>1. pc' \in [Requests -> Places]
    BY <1>0, <1>3, PlaceTypes DEF StartStopsBridge
  <2>. QED BY <1>3, <2>1 DEF StartStopsBridge, Quiet, ServerTypes
<1>4. CASE StartSpawns(r)
  <2>1. pc' \in [Requests -> Places]
    BY <1>0, <1>4, PlaceTypes DEF StartSpawns
  <2>2. page' \in [Pages -> BOOLEAN]
    BY <1>4, PlaceTypes DEF StartSpawns, ServerTypes
  <2>3. proc' \in {"none", "live", "killed", "over"} /\ lock' \in Requests \cup {None}
    BY <1>4 DEF StartSpawns, ServerTypes
  <2>. QED BY <1>4, <2>1, <2>2, <2>3 DEF StartSpawns, ServerTypes
<1>5. CASE StartRaises(r)
  <2>1. pc' \in [Requests -> Places]
    BY <1>0, <1>5, PlaceTypes DEF StartRaises
  <2>. QED BY <1>5, <2>1 DEF StartRaises, ServerTypes
<1>. QED BY <1>1, <1>2, <1>3, <1>4, <1>5

LEMMA ProgressTypes ==
  ASSUME ServerTypes, NEW r \in Requests,
         AskProgress(r) \/ Looks(r) \/ RestoreLooks(r) \/ RestoreStarts(r) \/ RestoreClears(r) \/ Tells(r)
  PROVE  ServerTypes'
<1>0. {"none", "progress", "restore", "start bridge", "clear"} \subseteq Places
  BY DEF Places
<1>1. CASE AskProgress(r)
  <2>1. pc' \in [Requests -> Places]
    BY <1>0, <1>1, PlaceTypes DEF AskProgress
  <2>. QED BY <1>1, <2>1 DEF AskProgress, Quiet, ServerTypes
<1>2. CASE Looks(r)
  <2>1. pc' \in [Requests -> Places]
    BY <1>0, <1>2, PlaceTypes DEF Looks
  <2>. QED BY <1>2, <2>1 DEF Looks, Quiet, ServerTypes
<1>3. CASE RestoreLooks(r)
  <2>1. pc' \in [Requests -> Places] /\ lock' \in Requests \cup {None}
    BY <1>0, <1>3, PlaceTypes DEF RestoreLooks, ServerTypes
  <2>. QED BY <1>3, <2>1 DEF RestoreLooks, Quiet, ServerTypes
<1>4. CASE RestoreStarts(r)
  <2>1. pc' \in [Requests -> Places]
    BY <1>0, <1>4, PlaceTypes DEF RestoreStarts
  <2>. QED BY <1>4, <2>1 DEF RestoreStarts, Quiet, ServerTypes
<1>5. CASE RestoreClears(r)
  <2>1. pc' \in [Requests -> Places] /\ lock' \in Requests \cup {None}
    BY <1>5, PlaceTypes DEF RestoreClears
  <2>. QED BY <1>5, <2>1 DEF RestoreClears, Quiet, ServerTypes
<1>6. CASE Tells(r)
  <2>1. pc' \in [Requests -> Places] /\ page' \in [Pages -> BOOLEAN]
    BY <1>0, <1>6, PlaceTypes DEF Tells, ServerTypes
  <2>. QED BY <1>6, <2>1 DEF Tells, Quiet, ServerTypes
<1>. QED BY <1>1, <1>2, <1>3, <1>4, <1>5, <1>6

LEMMA StopTypes ==
  ASSUME ServerTypes, NEW r \in Requests,
         AskStop(r) \/ StopEnters(r) \/ StopJoins(r) \/ StopKills(r)
  PROVE  ServerTypes'
<1>0. {"none", "progress", "stop", "join"} \subseteq Places
  BY DEF Places
<1>1. CASE AskStop(r)
  <2>1. pc' \in [Requests -> Places]
    BY <1>0, <1>1, PlaceTypes DEF AskStop
  <2>2. page' \in [Pages -> BOOLEAN]
    BY <1>1, PlaceTypes DEF AskStop, ServerTypes
  <2>. QED BY <1>1, <2>1, <2>2 DEF AskStop, Quiet, ServerTypes
<1>2. CASE StopEnters(r)
  <2>1. pc' \in [Requests -> Places]
    BY <1>0, <1>2, PlaceTypes DEF StopEnters
  <2>2. lock' \in Requests \cup {None}
    BY <1>2 DEF StopEnters, ServerTypes
  <2>. QED BY <1>2, <2>1, <2>2 DEF StopEnters, ServerTypes
<1>3. CASE StopJoins(r)
  <2>1. pc' \in [Requests -> Places]
    BY <1>0, <1>3, PlaceTypes DEF StopJoins
  <2>. QED BY <1>3, <2>1 DEF StopJoins, Quiet, ServerTypes
<1>4. CASE StopKills(r)
  <2>1. pc' \in [Requests -> Places]
    BY <1>0, <1>4, PlaceTypes DEF StopKills
  <2>. QED BY <1>4, <2>1 DEF StopKills, ServerTypes
<1>. QED BY <1>1, <1>2, <1>3, <1>4

LEMMA WorldTypes ==
  ASSUME ServerTypes,
         \/ \E p \in Pages : Forgets(p)
         \/ Service \/ Crashes \/ Samples \/ Runs(ToolSteps) \/ Runs(DeadlinePasses) \/ Runs(Dies) \/ Reaps
         \/ BridgeWrites \/ Polls \/ Cable \/ Suspends \/ UNCHANGED vars
  PROVE  ServerTypes'
<1>1. CASE Service
  BY <1>1 DEF Service, Quiet, ServerTypes
<1>2. ASSUME NEW p \in Pages, Forgets(p) PROVE ServerTypes'
  BY <1>2 DEF Forgets, ServerTypes
<1>3. CASE Crashes
  <2>1. "none" \in Places
    BY DEF Places
  <2>. QED BY <1>3, <2>1 DEF Crashes, ServerTypes
<1>4. CASE Samples \/ Runs(ToolSteps) \/ Runs(DeadlinePasses) \/ Runs(Dies)
  BY <1>4 DEF Samples, Runs, panelVars, ServerTypes
<1>5. CASE Reaps
  BY <1>5 DEF Reaps, Quiet, ServerTypes
<1>6. CASE BridgeWrites \/ Polls \/ Cable \/ Suspends
  BY <1>6 DEF BridgeWrites, Polls, Cable, Suspends, panelVars, ServerTypes
<1>7. CASE UNCHANGED vars
  BY <1>7 DEF vars, panelVars, ServerTypes
<1>. QED BY <1>1, <1>2, <1>3, <1>4, <1>5, <1>6, <1>7

LEMMA SampleInit == Init => SampleInv
<1>. SUFFICES ASSUME Init PROVE SampleInv
  OBVIOUS
<1>1. LatencyTypeOK
  BY ReportTypes DEF Init, LatencyInit, LatencyTypeOK
<1>2. ServerTypes /\ HistoryTypes
  BY DEF Init, ServerTypes, HistoryTypes, Places
<1>3. Sound
  BY DEF Init, LatencyInit, Sound, PadInv
<1>. QED BY <1>1, <1>2, <1>3, TypesAre DEF SampleInv

LEMMA SampleStep == SampleInv /\ [Next]_vars => SampleInv'
<1>. SUFFICES ASSUME SampleInv, [Next]_vars PROVE SampleInv'
  OBVIOUS
<1>1. LatencyTypeOK /\ ServerTypes /\ HistoryTypes /\ (alone => Sound)
  BY TypesAre DEF SampleInv
<1>2. ServerTypes'
  <2>1. CASE UNCHANGED vars
    BY <1>1, <2>1, WorldTypes
  <2>2. CASE Next
    BY <1>1, <2>2, StartTypes, ProgressTypes, StopTypes, WorldTypes DEF Next, Serves
  <2>. QED BY <2>1, <2>2
<1>3. GadgetStep
  BY EveryStep DEF GadgetStep, vars
<1>4. LatencyTypeOK'
  BY <1>1, <1>3, GadgetTypes
<1>5. /\ HistoryTypes'
      /\ alone' => Sound'
  <2>1. CASE UNCHANGED vars
    <3>1. UNCHANGED latencyVars /\ UNCHANGED <<owed, alone>>
      BY <2>1 DEF vars
    <3>2. Sound => Sound'
      BY <3>1 DEF latencyVars, toolVars, hostVars, Sound, PadInv, AtHead, AtWrite, AtWait, OwnEvents,
                  Holds, Same, Other
    <3>. QED BY <1>1, <3>1, <3>2 DEF HistoryTypes
  <2>2. CASE Next
    <3>1. Kept \/ Lapsed
      BY <2>2, EveryStep
    <3>. QED BY <1>1, <1>3, <3>1, HistoryFacts, GadgetSound
  <2>. QED BY <2>1, <2>2
<1>. QED BY <1>2, <1>4, <1>5, TypesAreNext DEF SampleInv

LEMMA SampleInvHolds == Spec => []SampleInv
BY SampleInit, SampleStep, PTL DEF Spec

(***************************************************************************)
(* The panel, the unit, the tool and the gadget are always of their types. *)
(***************************************************************************)
THEOREM PanelTypeCorrect == Spec => []TypeOK
<1>1. SampleInv => TypeOK
  BY DEF SampleInv
<1>. QED BY <1>1, SampleInvHolds, PTL

(***************************************************************************)
(* No sample is ended by the event of another ("the event we wait for is   *)
(* unambiguous", latency.cpp:137-138), whatever was given up before, and   *)
(* whenever the host takes a report, while nobody else writes and each run *)
(* finds the gadget released.                                              *)
(***************************************************************************)
THEOREM EventsAreOwn == Spec => []SampleOfItsWrite
<1>1. SampleInv => SampleOfItsWrite
  BY DEF SampleInv, SampleOfItsWrite, Sound
<1>. QED BY <1>1, SampleInvHolds, PTL
=============================================================================
