--------------------------- MODULE DiscoverProofs ---------------------------
(***************************************************************************)
(* Proofs about Discover for every pad, every list of steps and any number *)
(* of moves.  None of its properties is inductive alone: what was bound    *)
(* must be in used; a control that has not been at rest since the prompt   *)
(* must be off rest now, and a look that came to rest must have found all  *)
(* others; an event must come from a control that is not silent; and the   *)
(* resting value of a silent or upright stick must be its middle.          *)
(***************************************************************************)
EXTENDS Discover, TLAPS

Asked == pc \notin {"sample", "done"} => step <= Len(Kinds)

Middle == \A c \in silent \cup upright : base[c] = 0

Spoken == \A i \in DOMAIN bound : bound[i].code = Hat \/ bound[i].code \in used

(* Controls that the looks of this wait have found at rest were, since the prompt. *)
Looked ==
  /\ \A c \in away : OffRest(c)
  /\ rested \cap away = {}
  /\ pc = "axes" =>
       /\ Button \cap away = {}
       /\ \A c \in (confirmed \cup observed) \ unchecked : c \notin away

Heard ==
  /\ \A i \in DOMAIN queue : queue[i].code \notin silent
  /\ ~web => (confirmed \cup observed) \cap silent = {}

Unblamed == pc \in {"keys", "axes"} => blocker = None

CaptureInv ==
  TypeOK /\ Unblamed /\ Asked /\ Middle /\ Spoken /\ OneControlOneTarget /\ Looked /\ Heard

Event == [code : Control, value : -4 .. 4]

-----------------------------------------------------------------------------
LEMMA ValuesFit ==
  ASSUME NEW c \in Control, NEW v \in Values(c)
  PROVE  v \in -4 .. 4
BY DEF Values

LEMMA StepFacts == Len(Kinds) \in Nat /\ DOMAIN Kinds = 1 .. Len(Kinds)
BY StepAssumption

LEMMA InitInv == Init => CaptureInv
<1>. SUFFICES ASSUME Init PROVE CaptureInv
  OBVIOUS
<1>. USE ControlAssumption, StepAssumption, BoundAssumption, StepFacts DEF Init
<1>1. \A c \in Control : pos[c] \in Values(c)
  BY DEF Values, Control, Axis
<1>2. base \in [Axis -> -4 .. 4]
  OBVIOUS
<1>3. TypeOK
  BY <1>1, <1>2 DEF TypeOK
<1>4. Unblamed /\ Asked /\ Middle /\ Spoken /\ OneControlOneTarget /\ Looked /\ Heard
  BY DEF Unblamed, Asked, Middle, Spoken, OneControlOneTarget, Looked, Heard, Axis
<1>. QED BY <1>3, <1>4 DEF CaptureInv

(* The next prompt: no control was seen at rest, and those that are not are away. *)
LEMMA PromptFacts ==
  ASSUME NEW O, Prompt(O)
  PROVE  /\ pc' = (IF step' > Len(Kinds) THEN "done" ELSE "settle")
         /\ rested' = {} /\ away' \subseteq Control
         /\ \A c \in away' : OffRest(c)'
         /\ web => queue' = <<>> /\ observed' = Axis
         /\ ~web => queue' = queue /\ observed' = O
BY DEF Prompt

LEMMA PromptTypes ==
  ASSUME CaptureInv, NEW O \in SUBSET Axis, Prompt(O)
  PROVE  /\ pc' \in {"done", "settle"} /\ rested' = {} /\ away' \subseteq Control
         /\ queue' \in Seq(Event) /\ observed' \subseteq Axis
<1>1. queue \in Seq(Event) /\ <<>> \in Seq(Event)
  BY DEF CaptureInv, TypeOK, Event
<1>2. CASE web
  BY <1>1, <1>2, PromptFacts
<1>3. CASE ~web
  BY <1>1, <1>3, PromptFacts
<1>. QED BY <1>2, <1>3

-----------------------------------------------------------------------------
(* The types *)

LEMMA TypeAtMove ==
  ASSUME CaptureInv, NEW c \in Control, NEW v \in Values(c), Moves(c, v)
  PROVE  TypeOK'
<1>. USE DEF CaptureInv, TypeOK, Moves, sampleVars
<1>1. v \in -4 .. 4
  BY ValuesFit
<1>2. \A d \in Control : pos'[d] \in Values(d)
  <2>1. pos' = [pos EXCEPT ![c] = v]
    OBVIOUS
  <2>. QED BY <2>1
<1>3. queue' \in Seq(Event)
  <2>1. [code |-> c, value |-> v] \in Event
    BY <1>1 DEF Event
  <2>. QED BY <2>1 DEF Event
<1>4. moves' \in 0 .. MaxMoves
  BY BoundAssumption
<1>. QED BY <1>2, <1>3, <1>4 DEF Event

LEMMA TypeAtSample ==
  ASSUME CaptureInv, Samples
  PROVE  TypeOK'
<1>. USE DEF CaptureInv, TypeOK, Samples, padVars
<1>1. base' \in [Axis -> -4 .. 4]
  BY DEF Neutral, InRange
<1>2. /\ pc' \in {"done", "settle"} /\ rested' = {} /\ away' \subseteq Control
      /\ queue' \in Seq(Event) /\ observed' \subseteq Axis
  BY PromptTypes
<1>. QED BY <1>1, <1>2 DEF Event

LEMMA TypeAtWait ==
  ASSUME CaptureInv, Settles \/ LooksAtKeys \/ LooksAtAxes \/ Drains
  PROVE  TypeOK'
<1>. USE DEF CaptureInv, TypeOK, padVars, sampleVars, Control
<1>1. CASE Settles
  BY <1>1 DEF Settles
<1>2. CASE LooksAtKeys
  BY <1>2 DEF LooksAtKeys, Blocked
<1>3. CASE LooksAtAxes
  BY <1>3 DEF LooksAtAxes, Blocked
<1>4. CASE Drains
  BY <1>4 DEF Drains
<1>. QED BY <1>1, <1>2, <1>3, <1>4

(* The event that is read. *)
LEMMA HeadFacts ==
  ASSUME CaptureInv, queue # <<>>
  PROVE  /\ Head(queue) \in Event /\ Head(queue) = queue[1] /\ 1 \in DOMAIN queue
         /\ Head(queue).code \in Control /\ Head(queue).code \notin silent
         /\ Tail(queue) \in Seq(Event)
<1>1. queue \in Seq(Event)
  BY DEF CaptureInv, TypeOK, Event
<1>2. Head(queue) \in Event /\ Head(queue) = queue[1] /\ 1 \in DOMAIN queue /\ Tail(queue) \in Seq(Event)
  BY <1>1
<1>3. queue[1].code \notin silent
  BY <1>2 DEF CaptureInv, Heard
<1>. QED BY <1>2, <1>3 DEF Event

LEMMA NoticedAxes ==
  ASSUME CaptureInv, NEW e
  PROVE  Noticed(e) \subseteq Axis
BY DEF CaptureInv, TypeOK, Noticed

(* What an answer appends, if it does. *)
LEMMA AnswerBound ==
  ASSUME CaptureInv, NEW e, Answered(e)
  PROVE  /\ e = Head(queue) /\ e \in Event /\ e.code \in Control /\ IsAnswer(e)
         /\ step \in 1 .. Len(Kinds)
         /\ \/ /\ bound' = Append(bound, [step |-> step, code |-> e.code, invert |-> Inverted(e)])
               /\ [step |-> step, code |-> e.code, invert |-> Inverted(e)] \in Answers
               /\ used' = WithUsed(e.code) /\ step' = step + 1
            \/ UNCHANGED <<bound, used, step>>
<1>1. e = Head(queue) /\ e \in Event /\ e.code \in Control /\ IsAnswer(e)
  BY HeadFacts DEF Answered
<1>2. step \in 1 .. Len(Kinds)
  BY StepFacts DEF Answered, CaptureInv, Asked, TypeOK
<1>3. Inverted(e) \in BOOLEAN
  <2>1. CASE IsHat(e)
    BY <2>1 DEF Inverted
  <2>2. CASE ~IsHat(e)
    BY <2>2 DEF Inverted
  <2>. QED BY <2>1, <2>2
<1>4. [step |-> step, code |-> e.code, invert |-> Inverted(e)] \in Answers
  BY <1>1, <1>2, <1>3, StepFacts DEF Answers
<1>. QED BY <1>1, <1>2, <1>4 DEF Answered

LEMMA TypeAtCapture ==
  ASSUME CaptureInv, NEW e, Answered(e) \/ PassesOver(e) \/ TimesOut
  PROVE  TypeOK'
<1>. USE StepFacts DEF CaptureInv, TypeOK, padVars, sampleVars
<1>1. CASE Answered(e)
  <2>1. step' \in 1 .. Len(Kinds) + 1
    <3>1. step \in 1 .. Len(Kinds) /\ step' \in {step, step + 1}
      BY AnswerBound, <1>1
    <3>. QED BY <3>1
  <2>2. bound' \in Seq(Answers)
    <3>1. CASE bound' = bound
      BY <3>1
    <3>2. CASE bound' # bound
      <4>1. PICK a \in Answers : bound' = Append(bound, a)
        BY AnswerBound, <1>1, <3>2
      <4>. QED BY <4>1, bound \in Seq(Answers)
    <3>. QED BY <3>1, <3>2
  <2>3. used' \subseteq Control
    BY AnswerBound, <1>1 DEF WithUsed
  <2>4. Prompt(Noticed(e))
    BY <1>1 DEF Answered
  <2>5. Noticed(e) \in SUBSET Axis
    BY NoticedAxes
  <2>6. /\ pc' \in {"done", "settle"} /\ rested' = {} /\ away' \subseteq Control
        /\ queue' \in Seq(Event) /\ observed' \subseteq Axis
    BY <2>4, <2>5, PromptTypes
  <2>7. UNCHANGED <<padVars, web, sampleVars, unchecked, blocker, moves>>
    BY <1>1 DEF Answered
  <2>. QED BY <2>1, <2>2, <2>3, <2>5, <2>6, <2>7 DEF Event
<1>2. CASE PassesOver(e)
  <2>1. observed' \subseteq Axis
    BY <1>2, NoticedAxes DEF PassesOver
  <2>2. queue' \in Seq(Event) /\ e.code \in Control
    BY <1>2, HeadFacts DEF PassesOver
  <2>3. blocker' \in Control \cup {None}
    BY <1>2, <2>2 DEF PassesOver
  <2>4. UNCHANGED <<padVars, web, pc, step, sampleVars, unchecked, used, bound, rested, away, moves>>
    BY <1>2 DEF PassesOver
  <2>. QED BY <2>1, <2>2, <2>3, <2>4 DEF Event
<1>3. CASE TimesOut
  <2>1. step' \in 1 .. Len(Kinds) + 1
    BY <1>3 DEF TimesOut, Asked
  <2>2. Prompt(observed)
    BY <1>3 DEF TimesOut
  <2>3. observed \in SUBSET Axis
    OBVIOUS
  <2>4. /\ pc' \in {"done", "settle"} /\ rested' = {} /\ away' \subseteq Control
        /\ queue' \in Seq(Event) /\ observed' \subseteq Axis
    BY <2>2, <2>3, PromptTypes
  <2>5. UNCHANGED <<padVars, web, sampleVars, unchecked, blocker, used, bound, moves>>
    BY <1>3 DEF TimesOut
  <2>. QED BY <2>1, <2>3, <2>4, <2>5 DEF Event
<1>. QED BY <1>1, <1>2, <1>3

-----------------------------------------------------------------------------
(* The prompt, and the resting values *)

LEMMA AskedKept ==
  ASSUME CaptureInv, TypeOK', [Next]_vars
  PROVE  Asked'
<1>. USE StepFacts DEF CaptureInv, Asked
<1>1. CASE pc' \in {"done", "settle"} /\ pc' = (IF step' > Len(Kinds) THEN "done" ELSE "settle")
  BY <1>1 DEF TypeOK
<1>2. CASE UNCHANGED step /\ (pc' = pc \/ pc \notin {"sample", "done"})
  BY <1>2
<1>3. CASE Samples \/ TimesOut \/ \E e \in {queue[i] : i \in 1 .. Len(queue)} : Answered(e)
  BY <1>3, <1>1, PromptFacts DEF Samples, TimesOut, Answered
<1>4. CASE Settles \/ LooksAtKeys \/ LooksAtAxes \/ Drains
  BY <1>4, <1>2 DEF Settles, LooksAtKeys, LooksAtAxes, Drains
<1>5. CASE (\E c \in Control : \E v \in Values(c) : Moves(c, v)) \/ UNCHANGED vars
  BY <1>5, <1>2 DEF Moves, vars
<1>6. CASE \E e \in {queue[i] : i \in 1 .. Len(queue)} : PassesOver(e)
  BY <1>6, <1>2 DEF PassesOver
<1>. QED BY <1>3, <1>4, <1>5, <1>6 DEF Next

LEMMA MiddleKept ==
  ASSUME CaptureInv, [Next]_vars
  PROVE  Middle'
<1>. USE DEF CaptureInv, Middle
<1>1. CASE Samples
  <2>1. \A c \in silent \cup upright' : c \in Axis
    BY <1>1, ControlAssumption DEF Samples, TypeOK, Axis
  <2>2. \A c \in silent : Neutral(c) = 0
    BY DEF Neutral, InRange, Reading, Unread
  <2>3. \A c \in upright' : Neutral(c) = 0
    BY <1>1, <2>2 DEF Samples, Neutral, Reading
  <2>. QED BY <1>1, <2>1, <2>2, <2>3 DEF Samples, padVars
<1>2. CASE UNCHANGED <<base, upright>> /\ silent' \subseteq silent
  BY <1>2
<1>3. CASE Settles \/ LooksAtKeys \/ LooksAtAxes \/ Drains
  BY <1>3, <1>2 DEF Settles, LooksAtKeys, LooksAtAxes, Drains, padVars, sampleVars
<1>4. CASE TimesOut \/ UNCHANGED vars
  BY <1>4, <1>2 DEF TimesOut, vars, padVars, sampleVars
<1>5. CASE \E c \in Control : \E v \in Values(c) : Moves(c, v)
  BY <1>5, <1>2 DEF Moves, sampleVars
<1>6. CASE \E e \in {queue[i] : i \in 1 .. Len(queue)} : Answered(e) \/ PassesOver(e)
  BY <1>6, <1>2 DEF Answered, PassesOver, padVars, sampleVars
<1>. QED BY <1>1, <1>3, <1>4, <1>5, <1>6 DEF Next

-----------------------------------------------------------------------------
(* What is bound *)

LEMMA BoundKept ==
  ASSUME CaptureInv, [Next]_vars
  PROVE  Spoken' /\ OneControlOneTarget'
<1>. USE DEF CaptureInv, Spoken, OneControlOneTarget
<1>1. CASE UNCHANGED <<bound, used>>
  BY <1>1
<1>2. CASE \E e \in {queue[i] : i \in 1 .. Len(queue)} : Answered(e)
  <2>1. PICK e \in {queue[i] : i \in 1 .. Len(queue)} : Answered(e)
    BY <1>2
  <2>. DEFINE a == [step |-> step, code |-> e.code, invert |-> Inverted(e)]
  <2>2. CASE bound' = Append(bound, a) /\ a \in Answers /\ used' = WithUsed(e.code)
    <3>1. a.code = e.code
      OBVIOUS
    <3>. HIDE DEF a
    <3>2. bound \in Seq(Answers)
      BY DEF TypeOK
    <3>3. /\ DOMAIN bound' = DOMAIN bound \cup {Len(bound) + 1}
          /\ bound'[Len(bound) + 1] = a
          /\ \A i \in DOMAIN bound : bound'[i] = bound[i]
      BY <2>2, <3>2
    <3>4. e.code = Hat \/ e.code \notin used
      BY <2>1, AnswerBound DEF IsAnswer, IsHat
    <3>5. used \subseteq used' /\ (e.code = Hat \/ e.code \in used')
      BY <2>2 DEF WithUsed
    <3>6. Spoken'
      BY <3>1, <3>3, <3>5
    <3>7. ASSUME NEW i \in DOMAIN bound', NEW j \in DOMAIN bound', i # j,
                 bound'[i].code = bound'[j].code
          PROVE  bound'[i].code = Hat
      <4>1. CASE i \in DOMAIN bound /\ j \in DOMAIN bound
        BY <3>3, <3>7, <4>1
      <4>2. CASE i \in DOMAIN bound /\ j = Len(bound) + 1
        BY <3>1, <3>3, <3>4, <3>7, <4>2
      <4>3. CASE i = Len(bound) + 1 /\ j \in DOMAIN bound
        BY <3>1, <3>3, <3>4, <3>7, <4>3
      <4>. QED BY <3>3, <3>7, <4>1, <4>2, <4>3
    <3>. QED BY <3>6, <3>7
  <2>. QED BY <2>1, <2>2, <1>1, AnswerBound
<1>3. CASE Samples \/ Settles \/ LooksAtKeys \/ LooksAtAxes \/ Drains \/ TimesOut
  BY <1>3, <1>1 DEF Samples, Settles, LooksAtKeys, LooksAtAxes, Drains, TimesOut
<1>4. CASE (\E c \in Control : \E v \in Values(c) : Moves(c, v)) \/ UNCHANGED vars
  BY <1>4, <1>1 DEF Moves, vars
<1>5. CASE \E e \in {queue[i] : i \in 1 .. Len(queue)} : PassesOver(e)
  BY <1>5, <1>1 DEF PassesOver
<1>. QED BY <1>2, <1>3, <1>4, <1>5 DEF Next

-----------------------------------------------------------------------------
(* What the looks at the pad have found *)

(* An axis that is held to its neutral and found there is there. *)
LEMMA SeenAtRest ==
  ASSUME CaptureInv, NEW c \in Axis, c \in confirmed \cup observed, ~LooksOff(c)
  PROVE  ~OffRest(c)
<1>1. c \in Control /\ c \notin Button
  BY ControlAssumption DEF Control, Axis
<1>2. ~Beyond(c, Reading(c), 8)
  BY DEF LooksOff
<1>3. CASE c \in silent
  <2>1. base[c] = 0
    BY <1>3 DEF CaptureInv, Middle
  <2>2. c \in Stick /\ c # Hat
    BY <1>3, ControlAssumption DEF CaptureInv, TypeOK
  <2>3. Beyond(c, -5, 8)
    BY <2>1, <2>2 DEF Beyond, Magnitude, Span
  <2>. QED BY <1>2, <1>3, <2>3 DEF Reading, Unread
<1>4. CASE c \notin silent
  BY <1>1, <1>2, <1>4 DEF Reading, OffRest
<1>. QED BY <1>3, <1>4

LEMMA LookedKept ==
  ASSUME CaptureInv, TypeOK', [Next]_vars
  PROVE  Looked'
<1>. USE DEF CaptureInv, Looked
<1>1. ASSUME NEW O, Prompt(O) PROVE Looked'
  BY <1>1, PromptFacts
<1>2. CASE Samples \/ TimesOut \/ \E e \in {queue[i] : i \in 1 .. Len(queue)} : Answered(e)
  BY <1>2, <1>1 DEF Samples, TimesOut, Answered
<1>3. CASE \E c \in Control : \E v \in Values(c) : Moves(c, v)
  <2>1. away' \subseteq away /\ (\A d \in away' : OffRest(d)')
    BY <1>3 DEF Moves
  <2>2. UNCHANGED <<pc, confirmed, observed, unchecked, rested>>
    BY <1>3 DEF Moves, sampleVars
  <2>. QED BY <2>1, <2>2
<1>4. CASE \/ Settles \/ LooksAtKeys \/ LooksAtAxes \/ Drains \/ UNCHANGED vars
           \/ \E e \in {queue[i] : i \in 1 .. Len(queue)} : PassesOver(e)
  <2>1. UNCHANGED <<pos, base, away>>
    BY <1>4 DEF Settles, LooksAtKeys, LooksAtAxes, Drains, PassesOver, vars, padVars, sampleVars
  <2>2. \A c \in away' : OffRest(c)'
    BY <2>1 DEF OffRest, Beyond
  <2>3. CASE Settles \/ Drains
    BY <2>2, <2>3 DEF Settles, Drains
  <2>4. CASE LooksAtKeys
    <3>1. rested' = rested /\ away' = away
      BY <2>4 DEF LooksAtKeys
    <3>2. CASE pc' = "axes"
      <4>1. unchecked' = Axis /\ \A k \in Button : pos[k] = 0
        BY <2>4, <3>2 DEF LooksAtKeys, Blocked
      <4>2. Button \cap away = {}
        BY <4>1 DEF OffRest
      <4>3. (confirmed \cup observed)' \ unchecked' = {}
        BY <4>1 DEF TypeOK
      <4>. QED BY <2>2, <3>1, <4>2, <4>3
    <3>. QED BY <2>2, <3>1, <3>2
  <2>5. CASE LooksAtAxes
    <3>. UNCHANGED <<confirmed, observed, away>>
      BY <2>5 DEF LooksAtAxes, sampleVars
    <3>1. CASE pc' = "axes"
      <4>1. PICK c \in unchecked : ~LooksOff(c) /\ unchecked' = unchecked \ {c} /\ rested' = rested
        BY <2>5, <3>1 DEF LooksAtAxes, Blocked
      <4>2. c \in confirmed \cup observed => c \notin away
        BY <4>1, SeenAtRest DEF TypeOK
      <4>3. pc = "axes"
        BY <2>5 DEF LooksAtAxes
      <4>. QED BY <2>2, <4>1, <4>2, <4>3
    <3>2. CASE pc' # "axes"
      <4>1. rested' = rested \/ (unchecked = {} /\ rested' = Button \cup confirmed \cup observed)
        BY <2>5, <3>2 DEF LooksAtAxes
      <4>2. pc = "axes"
        BY <2>5 DEF LooksAtAxes
      <4>3. rested' \cap away = {}
        BY <4>1, <4>2
      <4>. QED BY <2>2, <3>2, <4>3
    <3>. QED BY <3>1, <3>2
  <2>6. CASE \E e \in {queue[i] : i \in 1 .. Len(queue)} : PassesOver(e)
    <3>1. pc' = "capture" /\ rested' = rested
      BY <2>6 DEF PassesOver
    <3>. QED BY <2>1, <2>2, <3>1
  <2>7. CASE UNCHANGED vars
    BY <2>2, <2>7 DEF vars, sampleVars
  <2>. QED BY <1>4, <2>3, <2>4, <2>5, <2>6, <2>7
<1>. QED BY <1>2, <1>3, <1>4 DEF Next

-----------------------------------------------------------------------------
(* Who has been heard *)

LEMMA HeardAfterPrompt ==
  ASSUME Heard, NEW O, Prompt(O), web' = web, silent' = silent,
         web \/ (confirmed' \cup O) \cap silent = {}
  PROVE  Heard'
<1>1. CASE web
  BY <1>1, PromptFacts DEF Heard
<1>2. CASE ~web
  BY <1>2, PromptFacts DEF Heard
<1>. QED BY <1>1, <1>2

LEMMA HeardKept ==
  ASSUME CaptureInv, [Next]_vars
  PROVE  Heard'
<1>. USE DEF CaptureInv, padVars, sampleVars
<1>1. CASE Samples
  <2>1. web \/ confirmed' \cap silent = {}
    BY <1>1 DEF Samples, InRange, Reading, Unread
  <2>2. Prompt({}) /\ web' = web /\ silent' = silent
    BY <1>1 DEF Samples
  <2>. QED BY <2>1, <2>2, HeardAfterPrompt
<1>2. CASE \E c \in Control : \E v \in Values(c) : Moves(c, v)
  <2>0. PICK c \in Control : \E v \in Values(c) : Moves(c, v)
    BY <1>2
  <2>1. PICK v \in Values(c) : Moves(c, v)
    BY <2>0
  <2>2. queue' = Append(queue, [code |-> c, value |-> v]) /\ silent' = silent \ {c}
    BY <2>1 DEF Moves
  <2>3. UNCHANGED <<web, confirmed, observed>>
    BY <2>1 DEF Moves
  <2>4. queue \in Seq(Event)
    BY DEF TypeOK, Event
  <2>5. \A i \in DOMAIN queue' : queue'[i].code \notin silent'
    BY <2>2, <2>4 DEF Heard
  <2>. QED BY <2>2, <2>3, <2>5 DEF Heard
<1>3. CASE Settles \/ Drains
  BY <1>3 DEF Settles, Drains, Heard
<1>4. CASE LooksAtKeys \/ LooksAtAxes \/ UNCHANGED vars
  BY <1>4 DEF LooksAtKeys, LooksAtAxes, vars, Heard
<1>5. CASE TimesOut
  BY <1>5, HeardAfterPrompt DEF TimesOut, Heard
<1>6. CASE \E e \in {queue[i] : i \in 1 .. Len(queue)} : Answered(e)
  <2>1. PICK e \in {queue[i] : i \in 1 .. Len(queue)} : Answered(e)
    BY <1>6
  <2>2. e.code \notin silent
    BY <2>1, HeadFacts DEF Answered
  <2>3. web \/ (confirmed' \cup Noticed(e)) \cap silent = {}
    BY <2>1, <2>2 DEF Answered, Noticed, Heard
  <2>. QED BY <2>1, <2>3, HeardAfterPrompt DEF Answered
<1>7. CASE \E e \in {queue[i] : i \in 1 .. Len(queue)} : PassesOver(e)
  <2>1. PICK e \in {queue[i] : i \in 1 .. Len(queue)} : PassesOver(e)
    BY <1>7
  <2>2. e.code \notin silent /\ queue \in Seq(Event) /\ queue # <<>>
    BY <2>1, HeadFacts DEF PassesOver, TypeOK, Event
  <2>3. ~web => (confirmed' \cup observed') \cap silent' = {}
    BY <2>1, <2>2 DEF PassesOver, Noticed, Heard
  <2>4. \A i \in DOMAIN Tail(queue) : i + 1 \in DOMAIN queue /\ Tail(queue)[i] = queue[i + 1]
    BY <2>2
  <2>5. queue' = Tail(queue) /\ silent' = silent /\ web' = web
    BY <2>1 DEF PassesOver
  <2>. QED BY <2>3, <2>4, <2>5 DEF Heard
<1>. QED BY <1>1, <1>2, <1>3, <1>4, <1>5, <1>6, <1>7 DEF Next

-----------------------------------------------------------------------------
LEMMA TypesKept ==
  ASSUME CaptureInv, [Next]_vars
  PROVE  TypeOK'
<1>1. CASE UNCHANGED vars
  BY <1>1 DEF CaptureInv, TypeOK, vars, padVars, sampleVars
<1>2. CASE TimesOut
  BY <1>2, TypeAtCapture
<1>. QED BY <1>1, <1>2, TypeAtMove, TypeAtSample, TypeAtWait, TypeAtCapture DEF Next

LEMMA UnblamedKept ==
  ASSUME CaptureInv, [Next]_vars
  PROVE  Unblamed'
<1>. USE DEF CaptureInv, Unblamed
<1>1. CASE Samples \/ TimesOut \/ \E e \in {queue[i] : i \in 1 .. Len(queue)} : Answered(e)
  <2>1. \E O : Prompt(O)
    BY <1>1 DEF Samples, TimesOut, Answered
  <2>. QED BY <2>1, PromptFacts
<1>2. CASE Settles \/ Drains \/ UNCHANGED vars
  BY <1>2 DEF Settles, Drains, vars
<1>3. CASE LooksAtKeys \/ LooksAtAxes
  BY <1>3 DEF LooksAtKeys, LooksAtAxes, Blocked
<1>4. CASE \E c \in Control : \E v \in Values(c) : Moves(c, v)
  BY <1>4 DEF Moves
<1>5. CASE \E e \in {queue[i] : i \in 1 .. Len(queue)} : PassesOver(e)
  BY <1>5 DEF PassesOver
<1>. QED BY <1>1, <1>2, <1>3, <1>4, <1>5 DEF Next

LEMMA CaptureInvInductive == CaptureInv /\ [Next]_vars => CaptureInv'
<1>. SUFFICES ASSUME CaptureInv, [Next]_vars PROVE CaptureInv'
  OBVIOUS
<1>1. TypeOK'
  BY TypesKept
<1>2. Unblamed' /\ Asked' /\ Middle' /\ Spoken' /\ OneControlOneTarget' /\ Looked' /\ Heard'
  BY <1>1, UnblamedKept, AskedKept, MiddleKept, BoundKept, LookedKept, HeardKept
<1>. QED BY <1>1, <1>2 DEF CaptureInv

(* Every variable of the capture keeps its type, for every pad and list of steps. *)
THEOREM CaptureTypeCorrect == Spec => []TypeOK
<1>1. CaptureInv => TypeOK
  BY DEF CaptureInv
<1>. QED BY <1>1, InitInv, CaptureInvInductive, PTL DEF Spec

(***************************************************************************)
(* No stick or button is bound to two targets, however many steps there    *)
(* are and however they were skipped or asked again (discover.cpp:242-244).*)
(***************************************************************************)
THEOREM BoundOnce == Spec => []OneControlOneTarget
<1>1. CaptureInv => OneControlOneTarget
  BY DEF CaptureInv
<1>. QED BY <1>1, InitInv, CaptureInvInductive, PTL DEF Spec

(***************************************************************************)
(* What answers a step, of the controls that its wait saw at rest, was at  *)
(* rest after the prompt (discover.cpp:197-204).                           *)
(***************************************************************************)
THEOREM HeldOverAnswersNothing == Spec => AnswerBeganAtRest
<1>1. CaptureInv /\ [Next]_vars =>
        [bound' # bound => (Latest.code \in rested => Latest.code \notin away)]_vars
  BY DEF CaptureInv, Looked
<1>. QED BY <1>1, InitInv, CaptureInvInductive, PTL DEF Spec, AnswerBeganAtRest

(***************************************************************************)
(* A stick that was let go when it was sampled, or had no reading, is      *)
(* bound in the direction in which it was pushed (discover.cpp:150-161).   *)
(***************************************************************************)
THEOREM DirectionIsRight == Spec => DirectionIsThePush
<1>. DEFINE Step == (bound' # bound /\ Latest.code \in upright) =>
              LET v == Head(queue).value IN Magnitude(v) > 1 /\ (Latest.invert <=> v < 0)
<1>1. ASSUME CaptureInv, [Next]_vars, bound' # bound, Latest.code \in upright
      PROVE  LET v == Head(queue).value IN Magnitude(v) > 1 /\ (Latest.invert <=> v < 0)
  <2>1. PICK e \in {queue[i] : i \in 1 .. Len(queue)} : Answered(e)
    BY <1>1 DEF Next, vars, Moves, Samples, Settles, LooksAtKeys, LooksAtAxes, Drains, PassesOver,
       TimesOut
  <2>. DEFINE a == [step |-> step, code |-> e.code, invert |-> Inverted(e)]
  <2>2. bound' = Append(bound, a) /\ a \in Answers
    BY <1>1, <2>1, AnswerBound
  <2>3. Latest = a
    <3>. HIDE DEF a
    <3>1. bound \in Seq(Answers)
      BY <1>1 DEF CaptureInv, TypeOK
    <3>. QED BY <2>2, <3>1 DEF Latest
  <2>4. e.code \in upright /\ base[e.code] = 0
    BY <1>1, <2>3 DEF CaptureInv, Middle
  <2>5. e.code \in Stick /\ e.code # Hat /\ e.code \in Axis /\ e.code \notin Button
    BY <1>1, <2>4, ControlAssumption DEF CaptureInv, TypeOK, Axis
  <2>6. ~IsHat(e)
    BY <2>5 DEF IsHat
  <2>7. e.value \in -4 .. 4 /\ e = Head(queue)
    BY <1>1, <2>1, AnswerBound DEF Event
  <2>8. Beyond(e.code, e.value, 3)
    BY <1>1, <2>1, <2>5, <2>6, AnswerBound DEF IsAnswer, Counts
  <2>9. Magnitude(e.value) > 1
    BY <2>4, <2>5, <2>7, <2>8 DEF Beyond, Magnitude, Span
  <2>10. Inverted(e) <=> e.value < 0
    BY <2>4, <2>5, <2>6 DEF Inverted
  <2>. QED BY <2>3, <2>7, <2>9, <2>10
<1>2. CaptureInv /\ [Next]_vars => [Step]_vars
  BY <1>1
<1>. QED BY <1>2, InitInv, CaptureInvInductive, PTL DEF Spec, DirectionIsThePush

(***************************************************************************)
(* The terminal wizard blames, and so waits for, only what is off rest     *)
(* (discover.cpp:205-208).                                                 *)
(***************************************************************************)
THEOREM OnlyTheHeldIsWaitedFor == Spec => TerminalWaitsForTheHeld
<1>1. ASSUME CaptureInv, [Next]_vars, ~web, Blames
      PROVE  OffRest(blocker')
  <2>1. pc = "axes" /\ blocker = None /\ blocker' # None
    BY <1>1 DEF Blames, CaptureInv, Unblamed
  <2>2. LooksAtAxes
    BY <1>1, <2>1 DEF Next, vars, Moves, Samples, Settles, LooksAtKeys, Drains, Answered, PassesOver,
       TimesOut
  <2>3. PICK c \in unchecked : LooksOff(c) /\ blocker' = c
    BY <2>1, <2>2 DEF LooksAtAxes, Blocked
  <2>4. c \in Axis /\ c \notin Button
    BY <1>1, <2>3, ControlAssumption DEF CaptureInv, TypeOK, Axis
  <2>5. c \notin silent /\ Beyond(c, Reading(c), 8)
    BY <1>1, <2>3 DEF LooksOff, CaptureInv, Heard
  <2>. QED BY <2>3, <2>4, <2>5 DEF OffRest, Reading
<1>2. CaptureInv /\ [Next]_vars => [~web /\ Blames => OffRest(blocker')]_vars
  BY <1>1
<1>. QED BY <1>2, InitInv, CaptureInvInductive, PTL DEF Spec, TerminalWaitsForTheHeld
=============================================================================
