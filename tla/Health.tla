------------------------------- MODULE Health -------------------------------
(***************************************************************************)
(* The link's health, from the sink to the panel: what submit_current()    *)
(* counts, the status file that publish_status() replaces once a second    *)
(* (src/src/bridge.cpp), and assess(), which tells the user whether the    *)
(* console takes reports (src/web/gpb_web.py).  Bridges come and go, and   *)
(* leave the file behind when they are killed.  The disk may refuse the    *)
(* file, or take a part of it, and nobody is told.                         *)
(*                                                                         *)
(* Contents of reports do not matter here: every state is encoded as the   *)
(* same one.  The three things the panel reads are read together, and      *)
(* there is a gadget.                                                      *)
(***************************************************************************)
EXTENDS HidSink, Naturals

CONSTANTS NeverLimit,    \* refusals before a link that never worked is bad: 20
          StoppedLimit,  \* and one that did: 60
          StaleLimit,    \* seconds without a written report: 4
          NoFile

ASSUME LimitAssumption ==
  /\ {NeverLimit, StaleLimit} \subseteq Nat /\ StoppedLimit \in Nat /\ NeverLimit <= StoppedLimit

VARIABLES configured,  \* what sysfs says of the link
          loopback,    \* the gadget is plugged into this Pi
          heartbeat,   \* sink.ns_hid.heartbeat_hz > 0
          proc,        \* the unit's process: "none", "up" before initialize(), or "loop"
          failures,    \* stats_.write_failures, told apart up to StoppedLimit + 1
          ever,        \* stats_.last_write_ok_ns # 0
          since,       \* seconds since then, told apart up to StaleLimit + 1
          due,         \* a second has passed since the file was written
          disk,        \* the file's directory takes what is written; else it is full or read-only
          file,        \* the status file; NoFile, too, if it cannot be parsed
          misses,      \* history: refusals since a report got onto the wire, by either path
          left,        \* history: the last process did not remove the file
          refused      \* history: every write of this process's status has failed

stats == <<failures, ever, since, due>>
fixed == <<loopback, heartbeat>>
link == <<configured, fixed>>
history == <<misses, left, refused>>
healthVars == <<sinkVars, link, proc, stats, disk, file, history>>

Up(n, limit) == IF n > limit THEN n ELSE n + 1

HealthInit ==
  /\ sinkOpen = FALSE /\ pending = FALSE /\ pendingReport = Neutral
  /\ inflight = None /\ host = Neutral /\ attached \in BOOLEAN
  /\ configured = attached /\ loopback \in BOOLEAN /\ heartbeat \in BOOLEAN
  /\ proc = "none"
  /\ failures = 0 /\ ever = FALSE /\ since = 0 /\ due = FALSE
  /\ disk \in BOOLEAN /\ file = NoFile
  /\ misses = 0 /\ left = FALSE /\ refused = FALSE

-----------------------------------------------------------------------------
(* mutant: only a report that overwrites another counts *)
CountsCoalesced ==
  \/ Writable /\ failures' = 0 /\ ever' = TRUE /\ since' = 0
  \/ ~Writable /\ failures' = (IF pending THEN Up(failures, StoppedLimit) ELSE failures) /\ UNCHANGED <<ever, since>>
(* The counters of submit_current(). *)
Counts ==
  \/ Writable /\ failures' = 0 /\ ever' = TRUE /\ since' = 0
  \/ ~Writable /\ failures' = Up(failures, StoppedLimit) /\ UNCHANGED <<ever, since>>

(* An input, a release, or a heartbeat. *)
Submits ==
  /\ proc = "loop"
  /\ Submit(Neutral)
  /\ Counts
  /\ misses' = IF Writable THEN 0 ELSE Up(misses, StoppedLimit)
  /\ UNCHANGED <<link, proc, due, disk, file, left, refused>>

(* EPOLLOUT: the pending report is written, and nothing is counted. *)
Flushes ==
  /\ proc = "loop" /\ pending /\ inflight = None
  /\ Flush
  /\ misses' = IF Writable THEN 0 ELSE misses
  /\ UNCHANGED <<link, proc, stats, disk, file, left, refused>>

(* The file, of a process that is still there or not. *)
Status == [ever |-> ever, failures |-> failures, stale |-> IF ever THEN since ELSE 0,
           old |-> FALSE, misses |-> misses]

(* publish_status(): without a disk the file stays, or an unreadable part of it is moved in. *)
Writes ==
  \/ disk /\ file' = Status
  \/ ~disk /\ file' \in {file, NoFile}

(* publish_status(false) *)
Publishes ==
  /\ proc = "loop" /\ due
  /\ due' = FALSE
  /\ Writes /\ refused' = (refused /\ ~disk)
  /\ UNCHANGED <<sinkVars, link, proc, failures, ever, since, disk, misses, left>>

SecondPasses ==
  /\ proc = "loop"
  /\ due' = TRUE /\ since' = Up(since, StaleLimit)
  /\ UNCHANGED <<sinkVars, link, proc, failures, ever, disk, file, history>>

-----------------------------------------------------------------------------
(* The unit starts a process, with counters of its own. *)
Starts ==
  /\ proc = "none" /\ proc' = "up"
  /\ failures' = 0 /\ ever' = FALSE /\ since' = 0 /\ due' = FALSE
  /\ misses' = 0 /\ refused' = FALSE
  /\ UNCHANGED <<sinkVars, link, disk, file, left>>

(* initialize(): the gadget is opened and probed with a neutral report. *)
Opens ==
  /\ sinkOpen' = TRUE /\ pending' = FALSE /\ pendingReport' = Neutral
  /\ inflight' = IF Writable THEN Neutral ELSE inflight
  /\ UNCHANGED <<host, attached>>

(* initialize(), and run() up to its loop, with publish_status(true) *)
RunStarts ==
  /\ proc = "up" /\ proc' = "loop"
  /\ Opens
  /\ Writes /\ refused' = ~disk
  /\ UNCHANGED <<link, stats, disk, misses, left>>

(* The configuration is refused before there is a Bridge. *)
Refuses ==
  /\ proc = "up" /\ proc' = "none"
  /\ UNCHANGED <<sinkVars, link, stats, disk, file, history>>

(* An open sink releases everything; one that initialize() did not get to has nothing to close. *)
Destroyed ==
  \/ (proc = "loop" \/ Writable) /\ Shutdown
  \/ proc = "up" /\ UNCHANGED sinkVars

(* The file of a process that is gone. *)
Aged == IF file = NoFile THEN NoFile ELSE [file EXCEPT !.old = TRUE]

(* mutant: the file stays when the bridge is destroyed *)
EndsQuietly ==
  /\ proc # "none" /\ proc' = "none"
  /\ Destroyed
  /\ file' = Aged /\ left' = FALSE
  /\ UNCHANGED <<link, stats, disk, misses, refused>>
(* ~Bridge, after run() or when initialize() failed: the file is removed, if the disk lets it. *)
Ends ==
  /\ proc # "none" /\ proc' = "none"
  /\ Destroyed
  /\ \/ file' = NoFile /\ left' = FALSE
     \/ ~disk /\ file' = Aged /\ left' = TRUE
  /\ UNCHANGED <<link, stats, disk, misses, refused>>

(* Killed, or crashed: no destructor runs. *)
Dies ==
  /\ proc # "none" /\ proc' = "none"
  /\ sinkOpen' = FALSE
  /\ file' = Aged /\ left' = TRUE
  /\ UNCHANGED <<pending, pendingReport, inflight, host, attached, link, stats, disk, misses, refused>>

-----------------------------------------------------------------------------
(* The link: what sysfs says may outlive the endpoint. *)
Polls == HostPolls /\ UNCHANGED <<link, proc, stats, disk, file, history>>

Wedges == HostDetaches /\ UNCHANGED <<link, proc, stats, disk, file, history>>

Attaches ==
  /\ HostAttaches /\ configured' = TRUE
  /\ UNCHANGED <<fixed, proc, stats, disk, file, history>>

Unplugged ==
  /\ configured /\ configured' = FALSE
  /\ HostDetaches \/ (~attached /\ UNCHANGED sinkVars)
  /\ UNCHANGED <<fixed, proc, stats, disk, file, history>>

(* The disk fills up or goes read-only, or has room again. *)
DiskTurns == disk' = ~disk /\ UNCHANGED <<sinkVars, link, proc, stats, file, history>>

HealthNext ==
  \/ Submits \/ Flushes \/ Publishes \/ RunStarts \/ SecondPasses
  \/ Starts \/ Refuses \/ Ends \/ Dies
  \/ Polls \/ Wedges \/ Attaches \/ Unplugged \/ DiskTurns

(* The loop runs, its timer ticks if it has one, and time passes. *)
HealthSpec == /\ HealthInit /\ [][HealthNext]_healthVars
        /\ WF_healthVars(heartbeat /\ Submits) /\ WF_healthVars(Publishes) /\ WF_healthVars(SecondPasses)

-----------------------------------------------------------------------------
(* mutant: a link that never worked is left to the test for one that stopped *)
JudgesStopped ==
  IF file.ever /\ (file.failures > StoppedLimit \/ file.stale > StaleLimit) THEN "stopped" ELSE "ok"
(* What the counters of a link that sysfs calls configured come to. *)
Judge ==
  IF loopback /\ (~file.ever \/ file.failures > NeverLimit) THEN "looped"
  ELSE IF ~file.ever /\ file.failures > NeverLimit THEN "never"
  ELSE IF file.ever /\ (file.failures > StoppedLimit \/ file.stale > StaleLimit) THEN "stopped"
  ELSE "ok"

(* assess() *)
Verdict ==
  IF proc = "none" \/ ~configured THEN "idle"
  ELSE IF file = NoFile THEN "unknown"
  ELSE Judge

HealthTypeOK ==
  /\ {sinkOpen, pending, attached, configured, loopback, heartbeat, ever, due, disk, left, refused} \subseteq BOOLEAN
  /\ {pendingReport, host} \subseteq Report /\ inflight \in Report \cup {None}
  /\ proc \in {"none", "up", "loop"}
  /\ failures \in 0 .. StoppedLimit + 1 /\ misses \in 0 .. StoppedLimit + 1
  /\ since \in 0 .. StaleLimit + 1
  /\ file \in {NoFile} \cup
       [ever : BOOLEAN, failures : 0 .. StoppedLimit + 1, stale : 0 .. StaleLimit + 1,
        old : BOOLEAN, misses : 0 .. StoppedLimit + 1]

(***************************************************************************)
(* The reassuring answer (gpb_web.py:220, 266) is given only if,           *)
(* when the file was written, the wire had not refused more than the       *)
(* limit's number of reports on end, whatever was flushed in between.      *)
(***************************************************************************)
OkMeansFewMisses ==
  Verdict = "ok" => file.misses <= IF file.ever THEN StoppedLimit ELSE NeverLimit

(***************************************************************************)
(* What the panel reads is the running bridge's own account: a file of an  *)
(* earlier one is there only if that one was killed or could not remove    *)
(* it, and beside a bridge that has begun its loop only while not one of   *)
(* its writes has got through (bridge.cpp:25, 149-154, 166).               *)
(***************************************************************************)
StatusIsOfThisRun == file # NoFile /\ file.old => left /\ (proc = "loop" => refused)

(***************************************************************************)
(* "The link can sit at state=configured with its IN endpoint disabled,    *)
(* failing every write, which is precisely the failure this exists to      *)
(* surface" (bridge.cpp:111-113): the panel says so in the end, if the     *)
(* heartbeat is on or the link did work, and the disk takes the file.      *)
(***************************************************************************)
Wedged == proc = "loop" /\ configured /\ ~attached /\ ~loopback /\ (heartbeat \/ ever)

WedgeIsTold == Wedged ~> (~Wedged \/ Verdict \in {"never", "stopped"} \/ ~disk)
=============================================================================
