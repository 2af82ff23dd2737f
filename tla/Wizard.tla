------------------------------- MODULE Wizard -------------------------------
(***************************************************************************)
(* The dialog of the web mapping wizard (src/web/static/wizard.js) and the *)
(* requests it has in flight: the two of the Begin button, a capture for   *)
(* each prompt, the file that is written, and the last one, which starts   *)
(* the bridge again (src/web/gpb_web.py).  A handler of the page runs to   *)
(* its next await; a request is answered at any time after that, and a     *)
(* capture that was aborted may still be answered.                         *)
(*                                                                         *)
(* A capture is what Discover makes of it: a code that is not excluded.    *)
(* Any request may fail: on the way there, in systemctl, whose result the  *)
(* page does not look at, or on the way back, when it was carried out.     *)
(***************************************************************************)
EXTENDS Naturals, Sequences

CONSTANTS Steps,           \* the number of prompts
          Codes, Hat,      \* the pad's controls; Hat may be bound twice
          Handlers,        \* clicks on Begin that may be pending at once
          MaxGen, MaxLeave \* bounds: captures and skips; tabs closed

ASSUME BoundAssumption == Steps \in Nat \ {0} /\ Hat \in Codes /\ {MaxGen, MaxLeave} \subseteq Nat

VARIABLES open,     \* the dialog is shown
          view,     \* its page: "setup", "capture" or "save"
          begin,    \* where each click on Begin is: "idle", "stop", "sample"
          running, index, gen, mappings,   \* of W
          calls,    \* captures in flight: gen, step, and what they exclude
          saving,   \* the file is being written
          asked,    \* the last request is with the server
          replied,  \* its answer is on the way back: up to two are told apart
          bridge,   \* the bridge's unit is active
          settled,  \* history: prompts answered, timed out or skipped, in order
          orphaned, \* history: nothing on the screen will start the bridge again
          leaves

page == <<open, view, begin, running, index, gen, mappings, calls, saving>>
vars == <<page, asked, replied, bridge, settled, orphaned, leaves>>

Init ==
  /\ open = FALSE /\ view = "setup"
  /\ begin = [h \in Handlers |-> "idle"]
  /\ running = FALSE /\ index = 0 /\ gen = 0 /\ mappings = <<>> /\ calls = {}
  /\ saving = FALSE /\ asked = FALSE /\ replied = 0 /\ bridge = TRUE
  /\ settled = <<>> /\ orphaned = FALSE /\ leaves = MaxLeave

BeginPends == \E h \in Handlers : begin[h] # "idle"

-----------------------------------------------------------------------------
(* nextStep(), with the index that the caller has set: the save page, or a prompt. *)
Excluded == {mappings'[i].code : i \in DOMAIN mappings'}

NextStep(pending) ==
  IF index' >= Steps
  THEN view' = "save" /\ UNCHANGED gen /\ calls' = pending
  ELSE /\ gen < MaxGen /\ gen' = gen + 1
       /\ calls' = pending \cup {[gen |-> gen', step |-> index', exclude |-> Excluded]}
       /\ UNCHANGED view

Open ==
  /\ ~open
  /\ open' = TRUE /\ view' = "setup"
  /\ index' = 0 /\ mappings' = <<>> /\ running' = FALSE /\ settled' = <<>>
  /\ UNCHANGED <<begin, gen, calls, saving, asked, replied, bridge, orphaned, leaves>>

Begin(h) ==
  /\ open /\ view = "setup" /\ begin[h] = "idle"
  /\ begin' = [begin EXCEPT ![h] = "stop"]
  /\ UNCHANGED <<open, view, running, index, gen, mappings, calls, saving, asked, replied, bridge,
                 settled, orphaned, leaves>>

(* /api/wizard/begin: a request that fails ends the handler, whether or not it was carried out. *)
BeginAnswers(h) ==
  /\ begin[h] = "stop"
  /\ bridge' \in {FALSE, bridge}
  /\ \/ begin' = [begin EXCEPT ![h] = "sample"] /\ UNCHANGED orphaned
     \/ begin' = [begin EXCEPT ![h] = "idle"] /\ orphaned' = (orphaned \/ ~bridge')
  /\ UNCHANGED <<open, view, running, index, gen, mappings, calls, saving, asked, replied,
                 settled, leaves>>

(* The baseline, or none; the first prompt, whatever the dialog shows by now. *)
Starts(h) ==
  /\ begin[h] = "sample" /\ gen < MaxGen
  /\ begin' = [begin EXCEPT ![h] = "idle"]
  /\ index' = 0 /\ mappings' = <<>> /\ running' = TRUE /\ settled' = <<>>
  /\ gen' = gen + 1
  /\ calls' = calls \cup {[gen |-> gen', step |-> 0, exclude |-> {}]}
  /\ view' = "capture"
  /\ orphaned' = (orphaned \/ replied > 0)
  /\ UNCHANGED <<open, saving, asked, replied, bridge, leaves>>

-----------------------------------------------------------------------------
(* A capture comes back. *)

(* mutant: only a dialog that is not running ignores an answer *)
IsLate(c) == ~running
IsStale(c) == c.gen # gen \/ ~running

Ignores(c) ==
  /\ c \in calls /\ IsStale(c)
  /\ calls' = calls \ {c}
  /\ UNCHANGED <<open, view, begin, running, index, gen, mappings, saving, asked, replied, bridge,
                 settled, orphaned, leaves>>

(* It was already bound, or has no use here: the same prompt again. *)
AsksAgain(c) ==
  /\ c \in calls /\ ~IsStale(c)
  /\ UNCHANGED <<index, mappings>>
  /\ NextStep(calls \ {c})
  /\ UNCHANGED <<open, begin, running, saving, asked, replied, bridge, settled, orphaned, leaves>>

(* mutant: what is bound is not excluded *)
AnyCode(c) == Codes
Free(c) == (Codes \ c.exclude) \cup {Hat}

Takes(c) ==
  /\ c \in calls /\ ~IsStale(c)
  /\ \/ \E k \in Free(c) : mappings' = Append(mappings, [step |-> c.step, code |-> k])
     \/ UNCHANGED mappings     \* the capture timed out
  /\ index' = index + 1
  /\ settled' = Append(settled, c.step)
  /\ NextStep(calls \ {c})
  /\ UNCHANGED <<open, begin, running, saving, asked, replied, bridge, orphaned, leaves>>

(* The request failed: the dialog stays, and waits for a click. *)
Breaks(c) ==
  /\ c \in calls /\ ~IsStale(c)
  /\ running' = FALSE
  /\ calls' = calls \ {c}
  /\ UNCHANGED <<open, view, begin, index, gen, mappings, saving, asked, replied, bridge,
                 settled, orphaned, leaves>>

(* skipStep() and abortInFlight(): the generation moves on twice; once is told apart. *)
Skip ==
  /\ open /\ view = "capture" /\ running
  /\ UNCHANGED mappings
  /\ index' = index + 1
  /\ settled' = Append(settled, index)
  /\ IF index' >= Steps
     THEN gen < MaxGen /\ gen' = gen + 1 /\ view' = "save" /\ UNCHANGED calls
     ELSE NextStep(calls)
  /\ UNCHANGED <<open, begin, running, saving, asked, replied, bridge, orphaned, leaves>>

-----------------------------------------------------------------------------
(* finish() up to its request; the generation that it moves on is not needed: nothing runs. *)
Finishing ==
  /\ running' = FALSE
  /\ asked' = TRUE

Save ==
  /\ open /\ view = "save" /\ ~saving
  /\ saving' = TRUE
  /\ UNCHANGED <<open, view, begin, running, index, gen, mappings, calls, asked, replied, bridge,
                 settled, orphaned, leaves>>

(* Written, and then as for Discard; or refused, and the dialog stays. *)
SaveAnswers ==
  /\ saving /\ saving' = FALSE
  /\ Finishing \/ UNCHANGED <<running, asked>>
  /\ UNCHANGED <<open, view, begin, replied, index, gen, mappings, calls, bridge, settled, orphaned, leaves>>

Discard ==
  /\ open /\ view \in {"capture", "save"}
  /\ Finishing
  /\ UNCHANGED <<open, view, begin, replied, index, gen, mappings, calls, saving, bridge,
                 settled, orphaned, leaves>>

(* mutant: a finished capture is taken for a dialog that has not begun *)
StillRuns == running
HasBegun == running \/ view # "setup"

(* The close button, which Discard does too once something is at stake. *)
Close ==
  /\ open
  /\ \/ HasBegun /\ Finishing /\ UNCHANGED <<open, orphaned>>
     \/ /\ ~HasBegun /\ open' = FALSE
        /\ orphaned' = (orphaned \/ BeginPends)
        /\ UNCHANGED <<running, asked>>
  /\ UNCHANGED <<view, begin, replied, index, gen, mappings, calls, saving, bridge, settled, leaves>>

(* /api/wizard/finish, which may fail like any other. *)
FinishServed ==
  /\ asked
  /\ bridge' \in {TRUE, bridge}
  /\ orphaned' = IF bridge' THEN orphaned /\ BeginPends ELSE TRUE
  /\ asked' = FALSE /\ replied' = IF replied = 2 THEN 2 ELSE replied + 1
  /\ UNCHANGED <<page, settled, leaves>>

(* The rest of finish(): the dialog is hidden, whatever it shows by now and whatever came back. *)
Hides ==
  /\ replied > 0
  /\ replied' = replied - 1
  /\ open' = FALSE
  /\ orphaned' = (orphaned \/ BeginPends)
  /\ UNCHANGED <<view, begin, running, index, gen, mappings, calls, saving, asked, bridge,
                 settled, leaves>>

(* The tab is closed: the page is gone, requests that were sent may be carried out. *)
Leaves ==
  /\ open /\ leaves > 0
  /\ leaves' = leaves - 1
  /\ open' = FALSE /\ orphaned' = TRUE
  /\ \/ bridge' = TRUE /\ asked
     \/ bridge' = FALSE /\ \E h \in Handlers : begin[h] = "stop"
     \/ UNCHANGED bridge
  /\ begin' = [h \in Handlers |-> "idle"]
  /\ view' = "setup" /\ running' = FALSE /\ calls' = {} /\ saving' = FALSE
  /\ asked' = FALSE /\ replied' = 0
  /\ UNCHANGED <<index, gen, mappings, settled>>

Clicks == Open \/ (\E h \in Handlers : Begin(h)) \/ Skip \/ Save \/ Discard \/ Close
Answers ==
  \/ \E h \in Handlers : BeginAnswers(h) \/ Starts(h)
  \/ \E c \in calls : Ignores(c) \/ AsksAgain(c) \/ Takes(c) \/ Breaks(c)
  \/ SaveAnswers

Next == Clicks \/ Answers \/ FinishServed \/ Hides \/ Leaves

Spec == Init /\ [][Next]_vars

-----------------------------------------------------------------------------
TypeOK ==
  /\ {open, running, saving, asked, bridge, orphaned} \subseteq BOOLEAN
  /\ view \in {"setup", "capture", "save"}
  /\ begin \in [Handlers -> {"idle", "stop", "sample"}]
  /\ index \in 0 .. Steps /\ gen \in 0 .. MaxGen /\ replied \in 0 .. 2
  /\ mappings \in Seq([step : 0 .. Steps - 1, code : Codes])
  /\ calls \subseteq [gen : 1 .. MaxGen, step : 0 .. Steps - 1, exclude : SUBSET Codes]

(***************************************************************************)
(* "The late response then advanced the index a second time and silently   *)
(* skipped an extra control" (wizard.js:137-139): every prompt before the  *)
(* present one was answered, timed out or skipped as itself, and once.     *)
(***************************************************************************)
EachPromptIsSettled == settled = [i \in 1 .. index |-> i - 1]

(***************************************************************************)
(* No button or axis is mapped twice (wizard.js:151-153), whatever was     *)
(* skipped, asked again, or started over.                                  *)
(***************************************************************************)
NoCodeTwice ==
  \A i, j \in DOMAIN mappings : i # j /\ mappings[i].code = mappings[j].code => mappings[i].code = Hat

(***************************************************************************)
(* A dialog that has left the screen has given the bridge back, saved,     *)
(* discarded, closed or broken off at any point (gpb_web.py:914-917,       *)
(* wizard.js:230-237), unless its last request failed, a Begin was carried *)
(* out and not answered, the dialog was hidden while a Begin was still     *)
(* under way (clicked twice, or the dialog dismissed twice), or the tab    *)
(* was closed.                                                             *)
(***************************************************************************)
ClosedGivesBack == ~open /\ ~bridge => orphaned
=============================================================================
