------------------------------ MODULE Discover ------------------------------
(***************************************************************************)
(* Capturing controls (src/tools/discover.cpp): the terminal wizard, one   *)
(* process that samples the pad once and asks for one control after the    *)
(* other, and the captures of the web wizard, one process for each step,   *)
(* which is handed the codes bound so far and the first sample.            *)
(*                                                                         *)
(* The pad has sticks (an axis each), buttons and a hat.  A stick's values *)
(* are -4..4 around the place where it rests, its span is 8.  The user     *)
(* moves anything at any time; each move is an event.  Times are left out: *)
(* a wait that finds the pad off rest may be the last look, and a capture  *)
(* with nothing to read may time out.                                      *)
(***************************************************************************)
EXTENDS Integers, Sequences, FiniteSets

CONSTANTS Stick, Button, Hat,  \* the controls
          Mute,                \* sticks that have not reported when the tool opens the pad
          Kinds,               \* what each step accepts: "axis", "button" or "any"
          Modes,               \* FALSE: the terminal wizard, TRUE: the web wizard
          None,
          MaxMoves, MaxQueue   \* bounds

ASSUME ControlAssumption ==
  /\ Mute \subseteq Stick /\ IsFiniteSet(Stick)
  /\ Hat \notin Stick /\ Stick \cap Button = {} /\ Hat \notin Button
  /\ None \notin Stick \cup Button \cup {Hat}
ASSUME StepAssumption == Kinds \in Seq({"axis", "button", "any"}) /\ Modes \subseteq BOOLEAN
ASSUME BoundAssumption == MaxMoves \in Nat /\ MaxQueue \in Nat

VARIABLES pos,       \* where each control is
          silent,    \* axes that have never reported
          queue,     \* events the process has not read
          web,       \* which wizard it is
          pc,        \* "sample", "settle", "keys", "axes", "drain", "capture" or "done"
          step,      \* the prompt
          base,      \* neutral: the resting value that is believed in
          confirmed, \* axes whose resting value is taken for a reading
          observed,  \* axes that have reported since
          unchecked, \* axes this look at the pad has not come to
          blocker,   \* what is off rest; in a capture, blocked_by; or None
          used,      \* used_axes and used_keys, or the codes that are handed over
          bound,     \* the answers: the step, the code, and its direction
          rested,    \* history: controls that the wait of this step saw at rest
          away,      \* history: controls that have not been at rest since the prompt
          upright,   \* history: sticks that were at rest when they were sampled
          moves      \* moves the user has made

padVars == <<pos, silent>>
sampleVars == <<base, confirmed, upright>>
vars == <<padVars, queue, web, pc, step, sampleVars, observed, unchecked, blocker,
          used, bound, rested, away, moves>>

Axis == Stick \cup {Hat}
Control == Axis \cup Button
Values(c) == CASE c \in Stick -> {-4, -2, 0, 4} [] c = Hat -> {-1, 0, 1} [] OTHER -> {0, 1}
Span(c) == IF c = Hat THEN 2 ELSE 8
Unread == -5   \* a mute stick reads as zero, which is below its minimum
Reading(c) == IF c \in silent THEN Unread ELSE pos[c]

Magnitude(n) == IF n < 0 THEN -n ELSE n
Beyond(c, n, part) == Magnitude(n - base[c]) > Span(c) \div part

(* Where the control is, whatever it reports. *)
OffRest(c) == IF c \in Button THEN pos[c] = 1 ELSE Beyond(c, pos[c], 8)

(* At the start nothing is held, or one axis is. *)
Init ==
  /\ \E held \in Axis \cup {None} :
       pos \in {p \in [Control -> {-1, 0, 1, 4}] :
                  \A c \in Control : p[c] = IF c = held THEN (IF c = Hat THEN 1 ELSE 4) ELSE 0}
  /\ silent = Mute /\ queue = <<>>
  /\ web \in Modes /\ pc = "sample" /\ step = 1
  /\ base = [c \in Axis |-> 0] /\ confirmed = {} /\ observed = {}
  /\ unchecked = {} /\ blocker = None
  /\ used = {} /\ bound = <<>> /\ rested = {} /\ away = {} /\ upright = {}
  /\ moves = 0

Moves(c, v) ==
  /\ moves < MaxMoves /\ Len(queue) < MaxQueue /\ pc # "done"
  /\ v \in Values(c) \ {pos[c]}
  /\ pos' = [pos EXCEPT ![c] = v]
  /\ silent' = silent \ {c}
  /\ queue' = Append(queue, [code |-> c, value |-> v])
  /\ moves' = moves + 1
  /\ UNCHANGED <<web, pc, step, sampleVars, observed, unchecked, blocker, used, bound, rested>>
  /\ away' = {d \in away : OffRest(d)'}

-----------------------------------------------------------------------------
(* The next prompt.  A web capture is a new process: it opens the pad, and takes *)
(* each resting value it is handed for a reading. *)
Prompt(observation) ==
  /\ pc' = IF step' > Len(Kinds) THEN "done" ELSE "settle"
  /\ rested' = {}
  /\ away' = {c \in Control : OffRest(c)'}
  /\ IF web THEN queue' = <<>> /\ observed' = Axis
            ELSE UNCHANGED queue /\ observed' = observation

InRange(c) == Reading(c) \in -4 .. 4

(* mutant: what the kernel says is believed *)
AsRead(c) == Reading(c)
(* sample_neutral(): a reading out of range is replaced by the midpoint. *)
Neutral(c) == IF InRange(c) THEN Reading(c) ELSE 0

Samples ==
  /\ pc = "sample"
  /\ base' = [c \in Axis |-> Neutral(c)]
  /\ confirmed' = IF web THEN Axis ELSE {c \in Axis : InRange(c)}
  /\ upright' = {c \in Stick : c \in silent \/ pos[c] = 0}
  /\ UNCHANGED <<padVars, web, step, unchecked, blocker, used, bound, moves>>
  /\ Prompt({})

-----------------------------------------------------------------------------
(* wait_for_rest(): the queue is emptied, then keys and axes are looked at. *)

Settles ==
  /\ pc = "settle"
  /\ queue' = <<>> /\ blocker' = None
  /\ pc' = "keys"
  /\ UNCHANGED <<padVars, web, step, sampleVars, observed, unchecked, used, bound, rested, away, moves>>

(* Off rest: another look, or, when the time is over, the capture all the same. *)
Blocked(c) == blocker' = c /\ pc' \in {"settle", "drain"}

LooksAtKeys ==
  /\ pc = "keys"
  /\ \/ \E k \in Button : pos[k] = 1 /\ Blocked(k) /\ UNCHANGED unchecked
     \/ /\ \A k \in Button : pos[k] = 0
        /\ unchecked' = Axis /\ pc' = "axes"
        /\ UNCHANGED blocker
  /\ UNCHANGED <<padVars, queue, web, step, sampleVars, observed, used, bound, rested, away, moves>>

(* mutant: a pad that sends nothing is taken to be at rest *)
SendsEvents(c) == \E i \in DOMAIN queue : queue[i].code = c
(* mutant: every axis is held to its neutral *)
OffItsNeutral(c) == Beyond(c, Reading(c), 8)
LooksOff(c) == c \in confirmed \cup observed /\ Beyond(c, Reading(c), 8)

LooksAtAxes ==
  /\ pc = "axes"
  /\ \/ \E c \in unchecked :
          \/ LooksOff(c) /\ Blocked(c) /\ UNCHANGED <<unchecked, rested>>
          \/ ~LooksOff(c) /\ unchecked' = unchecked \ {c} /\ UNCHANGED <<blocker, pc, rested>>
     \/ /\ unchecked = {}
        /\ rested' = Button \cup confirmed \cup observed
        /\ pc' = "drain"
        /\ UNCHANGED <<blocker, unchecked>>
  /\ UNCHANGED <<padVars, queue, web, step, sampleVars, observed, used, bound, away, moves>>

Drains ==
  /\ pc = "drain"
  /\ queue' = <<>> /\ blocker' = None
  /\ pc' = "capture"
  /\ UNCHANGED <<padVars, web, step, sampleVars, observed, unchecked, used, bound, rested, away, moves>>

-----------------------------------------------------------------------------
(* capture_control(): one event that is read, or the timeout. *)

Kind == Kinds[step]
AcceptsButton == Kind # "axis"
AcceptsAxis == Kind # "button"

IsHat(e) == e.code = Hat /\ e.value # 0
Counts(e) ==
  \/ e.code \in Button /\ AcceptsButton /\ e.value = 1
  \/ e.code \in Axis /\ AcceptsAxis /\ Beyond(e.code, e.value, 3)
IsAnswer(e) == IsHat(e) \/ (Counts(e) /\ e.code \notin used)

Inverted(e) == IF IsHat(e) THEN e.value < 0 ELSE e.code \in Axis /\ e.value < base[e.code]

(* mutant: a code is not excluded from later steps *)
Forgotten(c) == used
(* The terminal wizard does not exclude a hat. *)
WithUsed(c) == IF c = Hat /\ ~web THEN used ELSE used \cup {c}

Noticed(e) ==
  IF AcceptsAxis /\ e.code \in Axis /\ ~IsHat(e) THEN observed \cup {e.code} ELSE observed

Answered(e) ==
  /\ pc = "capture" /\ queue # <<>> /\ e = Head(queue) /\ IsAnswer(e)
  /\ \/ /\ bound' = Append(bound, [step |-> step, code |-> e.code, invert |-> Inverted(e)])
        /\ used' = WithUsed(e.code)
        /\ step' = step + 1
     \/ (* The page has no use for an axis here, and asks again. *)
        web /\ Kind = "any" /\ e.code \in Stick /\ UNCHANGED <<bound, used, step>>
  /\ UNCHANGED <<padVars, web, sampleVars, unchecked, blocker, moves>>
  /\ Prompt(Noticed(e))

PassesOver(e) ==
  /\ pc = "capture" /\ queue # <<>> /\ e = Head(queue) /\ ~IsAnswer(e)
  /\ observed' = Noticed(e)
  /\ blocker' = IF Counts(e) THEN e.code ELSE blocker
  /\ queue' = Tail(queue)
  /\ UNCHANGED <<padVars, web, pc, step, sampleVars, unchecked, used, bound, rested, away, moves>>

(* Skipped; but the page asks again when what was pressed is spoken for. *)
TimesOut ==
  /\ pc = "capture" /\ queue = <<>>
  /\ step' = IF web /\ blocker # None THEN step ELSE step + 1
  /\ UNCHANGED <<padVars, web, sampleVars, unchecked, blocker, used, bound, moves>>
  /\ Prompt(observed)

Next ==
  \/ \E c \in Control : \E v \in Values(c) : Moves(c, v)
  \/ Samples \/ Settles \/ LooksAtKeys \/ LooksAtAxes \/ Drains
  \/ \E e \in {queue[i] : i \in 1 .. Len(queue)} : Answered(e) \/ PassesOver(e)
  \/ TimesOut

Spec == Init /\ [][Next]_vars

-----------------------------------------------------------------------------
Answers == [step : DOMAIN Kinds, code : Control, invert : BOOLEAN]

TypeOK ==
  /\ \A c \in Control : pos[c] \in Values(c)
  /\ silent \subseteq Mute /\ web \in BOOLEAN
  /\ queue \in Seq([code : Control, value : -4 .. 4])
  /\ pc \in {"sample", "settle", "keys", "axes", "drain", "capture", "done"}
  /\ step \in 1 .. Len(Kinds) + 1
  /\ base \in [Axis -> -4 .. 4]
  /\ confirmed \cup observed \cup unchecked \subseteq Axis
  /\ blocker \in Control \cup {None}
  /\ used \subseteq Control /\ bound \in Seq(Answers)
  /\ rested \cup away \subseteq Control /\ upright \subseteq Stick
  /\ moves \in 0 .. MaxMoves

(***************************************************************************)
(* No button or stick is bound to two targets (discover.cpp:242-244,       *)
(* wizard.js:151-153), however the steps were answered, skipped or asked   *)
(* again.  Only the hat may answer twice: it is bound as the hat.          *)
(***************************************************************************)
OneControlOneTarget ==
  \A i, j \in DOMAIN bound : i # j /\ bound[i].code = bound[j].code => bound[i].code = Hat

(***************************************************************************)
(* "One physical movement could answer three consecutive prompts"          *)
(* (discover.cpp:200-204): what answers a step was at rest after its       *)
(* prompt, unless the wait timed out, or never held the control to its     *)
(* neutral.                                                                *)
(***************************************************************************)
Latest == bound'[Len(bound')]
AnswerBeganAtRest == [][bound' # bound => (Latest.code \in rested => Latest.code \notin away)]_vars

(***************************************************************************)
(* A stick that was let go when it was sampled is bound in the direction   *)
(* it was pushed, and only when it was pushed, whether or not the kernel   *)
(* had a reading of it (discover.cpp:150-161).                             *)
(***************************************************************************)
DirectionIsThePush ==
  [][(bound' # bound /\ Latest.code \in upright) =>
       LET v == Head(queue).value IN Magnitude(v) > 1 /\ (Latest.invert <=> v < 0)]_vars

(***************************************************************************)
(* The terminal wizard waits only for controls that are off rest: not for  *)
(* an axis whose value says nothing (discover.cpp:205-208).                *)
(***************************************************************************)
Blames == pc = "axes" /\ blocker' # None
TerminalWaitsForTheHeld == [][~web /\ Blames => OffRest(blocker')]_vars

=============================================================================
