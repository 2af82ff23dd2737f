------------------------------- MODULE Panel -------------------------------
(***************************************************************************)
(* The latency measurement of the control panel (src/web/gpb_web.py, class *)
(* LatencyRun, and src/web/static/latency.js): pages that start, poll and  *)
(* stop it, the server's threads that handle their requests, the bridge's  *)
(* systemd unit, and the measuring process of Latency.                     *)
(*                                                                         *)
(* A page may have several requests in flight: its timer polls without     *)
(* waiting for the poll before, and its buttons start and stop meanwhile.  *)
(* A request is one step between two accesses to what the threads share:   *)
(* self.proc, self.bridge_was_active, the unit.  The lock is held by       *)
(* start() and stop(), not by progress().  systemctl succeeds, and the     *)
(* signals of stop() may be sent.                                          *)
(***************************************************************************)
EXTENDS Latency

CONSTANTS Pages,         \* open pages
          Ticks, Clicks, \* requests of a page: polls of its timer, and starts and stops
          Disturbances,  \* what may come in between, of Kinds
          MaxTurns       \* bound: samples and disturbances, and runs, which count twice

Requests == Pages \X (Ticks \cup Clicks)

ASSUME RequestAssumption == Ticks \cap Clicks = {} /\ None \notin Requests
Kinds == {"service", "pull", "sleep", "forget", "crash"}
ASSUME BoundAssumption == Disturbances \subseteq Kinds /\ MaxTurns \in Nat

VARIABLES bridge,    \* gpbridge.service is active
          proc,      \* self.proc: "none", "live", "killed" or "over"
          was,       \* self.bridge_was_active
          lock,      \* the request that holds self.lock, or None
          pc,        \* where a request is
          page,      \* L.running of a page
          owed,      \* history: a run has stopped the bridge, and since then it has not been
                     \* back, and nothing has excused the panel
          alone,     \* history: no bridge ran beside the tool, and each run found the gadget released
          turns      \* what MaxTurns has left

panelVars == <<bridge, proc, was, lock, pc, page>>
vars == <<latencyVars, panelVars, owed, alone, turns>>

Init ==
  /\ LatencyInit
  /\ bridge = TRUE /\ proc = "none" /\ was = FALSE /\ lock = None
  /\ pc = [r \in Requests |-> "none"] /\ page = [p \in Pages |-> FALSE]
  /\ owed = FALSE /\ alone = TRUE
  /\ turns = MaxTurns

At(r, l) == pc[r] = l
Go(r, l) == pc' = [pc EXCEPT ![r] = l]

ToolOn == tool # "off"
Up == proc = "none" => ~ToolOn

Stops == \E r \in Requests : At(r, "stop bridge") /\ pc'[r] = "spawn"

(* A request winds a run up, or has the page of q stop polling, while q starts the next. *)
Meets(q, r) ==
  /\ pc[q] \in {"stop bridge", "spawn"}
  /\ \/ pc[r] \in {"restore", "start bridge", "clear"}
     \/ pc[r] = "tell" /\ r[1] = q[1]

(* A start() meets the end of a run, or a bridge that came up after it had looked. *)
Overtaken ==
  \/ was /\ ~was' /\ lock' # lock /\ lock' # None
  \/ bridge /\ ~was /\ Stops
  \/ \E q, r \in Requests : Meets(q, r)'

Owes == ~bridge' /\ (owed \/ (bridge /\ Stops))

Watched ==
  alone' = /\ alone
           /\ ~(bridge /\ ToolOn)
           /\ tool = "opening" => shown = Neutral /\ queued \in {None, Disowned(Sent(Neutral))}

(* A part of every step: the histories. *)
Kept == owed' = (Owes /\ ~Overtaken) /\ Watched
Lapsed == owed' = FALSE /\ Watched

Takes(n) == n <= turns /\ turns' = turns - n
Disturbs(kind) == kind \in Disturbances /\ Takes(1)

(* A step of a request that touches neither the tool nor its host. *)
Quiet == UNCHANGED latencyVars /\ Kept

-----------------------------------------------------------------------------
(* start() *)

(* The page stays as it is until the answer: Run may be clicked in a dialog opened anew. *)
AskStart(r) ==
  /\ r[2] \in Clicks /\ At(r, "none") /\ ~page[r[1]]
  /\ Up /\ attached /\ Takes(2)
  /\ Go(r, "start")
  /\ UNCHANGED <<bridge, proc, was, lock, page>> /\ Quiet

Active == proc \in {"live", "killed"}

StartEnters(r) ==
  /\ At(r, "start") /\ lock = None
  /\ \/ Active /\ Go(r, "none") /\ UNCHANGED <<was, lock>>
     \/ ~Active /\ lock' = r /\ was' = bridge /\ Go(r, "stop bridge")
  /\ UNCHANGED <<bridge, proc, page, turns>> /\ Quiet

StartStopsBridge(r) ==
  /\ At(r, "stop bridge")
  /\ bridge' = FALSE
  /\ Go(r, "spawn")
  /\ UNCHANGED <<proc, was, lock, page, turns>> /\ Quiet

(* Popen(), and the answer; without a process the bridge is started again, under the lock. *)
StartSpawns(r) ==
  /\ At(r, "spawn")
  /\ \/ /\ proc' = "live" /\ Anew("opening") /\ UNCHANGED queued
        /\ lock' = None /\ Go(r, "none")
        /\ page' = [page EXCEPT ![r[1]] = TRUE]
     \/ Go(r, "restore") /\ UNCHANGED <<proc, lock, page, latencyVars>>
  /\ UNCHANGED <<bridge, was, turns>>
  /\ Kept

(* The file for the tool's output cannot be opened, and nothing catches that. *)
StartRaises(r) ==
  /\ At(r, "spawn")
  /\ lock' = None /\ Go(r, "none")
  /\ UNCHANGED <<bridge, proc, was, page, latencyVars, turns>>
  /\ Lapsed

-----------------------------------------------------------------------------
(* progress(), and _restore() *)

AskProgress(r) ==
  /\ r[2] \in Ticks /\ At(r, "none") /\ page[r[1]]
  /\ Go(r, "progress")
  /\ UNCHANGED <<bridge, proc, was, lock, page, turns>> /\ Quiet

Looks(r) ==
  /\ At(r, "progress")
  /\ \/ Active /\ Go(r, "none")
     \/ ~Active /\ Go(r, "restore")
  /\ UNCHANGED <<bridge, proc, was, lock, page, turns>> /\ Quiet

(* The end of _restore(): a poll's answer is still to be read, a start() lets go of the lock. *)
Restored(r) ==
  /\ Go(r, IF r[2] \in Ticks THEN "tell" ELSE "none")
  /\ lock' = IF lock = r THEN None ELSE lock

RestoreLooks(r) ==
  /\ At(r, "restore")
  /\ \/ was /\ Go(r, "start bridge") /\ UNCHANGED lock
     \/ ~was /\ Restored(r)
  /\ UNCHANGED <<bridge, proc, was, page, turns>> /\ Quiet

RestoreStarts(r) ==
  /\ At(r, "start bridge")
  /\ bridge' = TRUE
  /\ Go(r, "clear")
  /\ UNCHANGED <<proc, was, lock, page, turns>> /\ Quiet

RestoreClears(r) ==
  /\ At(r, "clear")
  /\ was' = FALSE
  /\ Restored(r)
  /\ UNCHANGED <<bridge, proc, page, turns>> /\ Quiet

(* poll() reads that nothing runs: the page stops polling, whatever it has started since. *)
Tells(r) ==
  /\ At(r, "tell")
  /\ Go(r, "none") /\ page' = [page EXCEPT ![r[1]] = FALSE]
  /\ UNCHANGED <<bridge, proc, was, lock, turns>> /\ Quiet

-----------------------------------------------------------------------------
(* stop() *)

(* The Stop button, or the dialog is closed: the page stops polling at once. *)
AskStop(r) ==
  /\ r[2] \in Clicks /\ At(r, "none") /\ page[r[1]]
  /\ page' = [page EXCEPT ![r[1]] = FALSE]
  /\ Go(r, "stop")
  /\ UNCHANGED <<bridge, proc, was, lock, turns>> /\ Quiet

StopEnters(r) ==
  /\ At(r, "stop") /\ lock = None
  /\ \/ Active /\ lock' = r /\ Interrupt /\ Go(r, "join")
     \/ ~Active /\ Go(r, "progress") /\ UNCHANGED <<latencyVars, lock>>
  /\ UNCHANGED <<bridge, proc, was, page, turns>>
  /\ Kept


StopJoins(r) ==
  /\ At(r, "join") /\ proc = "over"
  /\ lock' = None
  /\ Go(r, "progress")
  /\ UNCHANGED <<bridge, proc, was, page, turns>> /\ Quiet

(* After five seconds, which a process needs only if its write is blocked. *)
StopKills(r) ==
  /\ At(r, "join") /\ proc = "live" /\ (~awake \/ Blind \/ bridge)
  /\ proc' = "killed"
  /\ lock' = None
  /\ Go(r, "progress")
  /\ UNCHANGED <<bridge, was, page, latencyVars, turns>>
  /\ Lapsed

-----------------------------------------------------------------------------
(* /api/service, /api/wizard/begin and finish: the unit, and no look at the run. *)
Service ==
  /\ Up /\ Disturbs("service")
  /\ bridge' \in BOOLEAN
  /\ UNCHANGED <<proc, was, lock, pc, page>> /\ Quiet

(* The tab is closed or reloaded, or an answer is lost: no stop() is sent, or none arrives. *)
Forgets(p) ==
  /\ page[p] /\ Disturbs("forget")
  /\ page' = [page EXCEPT ![p] = FALSE]
  /\ UNCHANGED <<latencyVars, bridge, proc, was, lock, pc>>
  /\ Lapsed

(* The panel dies: requests and LatencyRun are gone.  systemd signals the tool, which *)
(* is in the unit's control group, kills it in the end, and starts the panel again. *)
Crashes ==
  /\ Disturbs("crash")
  /\ proc' = "none" /\ was' = FALSE /\ lock' = None
  /\ pc' = [r \in Requests |-> "none"]
  /\ Interrupt
  /\ UNCHANGED <<bridge, page>>
  /\ Lapsed

(* A step of the tool; its end is seen by the next poll() of the server. *)
Runs(step) ==
  /\ step
  /\ proc' = IF tool' = "off" /\ Active THEN "over" ELSE proc
  /\ UNCHANGED <<bridge, was, lock, pc, page, turns>>
  /\ Kept

(* The next sample of the tool. *)
Samples ==
  /\ BeginsSample /\ Takes(1)
  /\ UNCHANGED panelVars /\ Kept

Dies ==
  /\ proc \in {"killed", "none"} /\ ToolOn
  /\ Anew("off") /\ UNCHANGED queued

(* An interrupted last write ends the process too. *)
Reaps ==
  /\ tool = "off" /\ Active
  /\ proc' = "over"
  /\ UNCHANGED <<bridge, was, lock, pc, page, turns>> /\ Quiet

(* The bridge writes a report of its own, whatever the tool does. *)
BridgeWrites ==
  /\ bridge /\ attached /\ queued = None
  /\ queued' = Disowned(Sent(Neutral))
  /\ UNCHANGED <<toolVars, shown, events, attached, awake, panelVars, turns>>
  /\ Kept

Polls == HostTakes /\ UNCHANGED <<panelVars, turns>> /\ Kept

Cable ==
  /\ \/ CablePulled /\ Disturbs("pull")
     \/ CablePlugged /\ UNCHANGED turns
  /\ UNCHANGED panelVars /\ Kept

Suspends ==
  /\ HostSleeps
  /\ IF awake THEN Disturbs("sleep") ELSE UNCHANGED turns
  /\ UNCHANGED panelVars /\ Kept

Serves(r) ==
  \/ StartEnters(r) \/ StartStopsBridge(r) \/ StartSpawns(r) \/ StartRaises(r)
  \/ Looks(r) \/ RestoreLooks(r) \/ RestoreStarts(r) \/ RestoreClears(r) \/ Tells(r)
  \/ StopEnters(r) \/ StopJoins(r) \/ StopKills(r)

Next ==
  \/ \E r \in Requests : AskStart(r) \/ AskProgress(r) \/ AskStop(r) \/ Serves(r)
  \/ \E p \in Pages : Forgets(p)
  \/ Samples \/ Runs(ToolSteps) \/ Runs(DeadlinePasses) \/ Runs(Dies) \/ Reaps
  \/ Service \/ Crashes \/ BridgeWrites \/ Polls \/ Cable \/ Suspends

(***************************************************************************)
(* The server's threads and the tool are scheduled, time passes, a page    *)
(* that is open polls, and a host that is awake takes reports while the    *)
(* tool reads its pad: "usbhid only polls a HID device's interrupt         *)
(* endpoint while something has its input node open" (README.md:203-204).  *)
(***************************************************************************)
Fairness ==
  /\ \A r \in Requests : WF_vars(Serves(r))
  /\ \A r \in Pages \X Ticks : WF_vars(AskProgress(r))
  /\ WF_vars(Runs(ToolSteps)) /\ WF_vars(Runs(DeadlinePasses))
  /\ WF_vars(Runs(Dies) \/ Reaps) /\ WF_vars(padOpen /\ Polls)

Spec == Init /\ [][Next]_vars /\ Fairness

-----------------------------------------------------------------------------
TypeOK ==
  /\ LatencyTypeOK
  /\ {bridge, was, owed, alone} \subseteq BOOLEAN
  /\ proc \in {"none", "live", "killed", "over"}
  /\ lock \in Requests \cup {None} /\ page \in [Pages -> BOOLEAN]
  /\ pc \in [Requests -> {"none", "start", "stop bridge", "spawn", "progress", "restore",
                           "start bridge", "clear", "tell", "stop", "join"}]


(***************************************************************************)
(* "The event we wait for is unambiguous" (latency.cpp:137-138): a sample  *)
(* that was given up leaves its report in the driver and its event in the  *)
(* queue, and no later sample is ended by it, while no bridge runs beside  *)
(* the tool and every run finds the gadget released.                       *)
(***************************************************************************)
SampleOfItsWrite == alone => ~misread

(***************************************************************************)
(* The cap on a run (latency.cpp:94-98): nobody stops it, the cable may be *)
(* pulled, and it ends as long as the host takes reports, the pad that the *)
(* tool reads is the one that is there, and no bridge competes with its    *)
(* last, blocking write.                                                   *)
(***************************************************************************)
MeasurementEnds == ToolOn ~> (~ToolOn \/ ~awake \/ bridge \/ Blind)
=============================================================================
