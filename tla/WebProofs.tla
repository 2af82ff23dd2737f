------------------------------ MODULE WebProofs ------------------------------
(***************************************************************************)
(* Proofs about the two parts of the web panel that change what the bridge *)
(* runs with: Wizard, for every number of prompts, every set of controls   *)
(* and of clicks on Begin, and Configs, for every set of pages and of      *)
(* names.                                                                  *)
(*                                                                         *)
(* Wizard: an answer that is taken must be the one of the present prompt.  *)
(* The generation names one capture, and the capture it names, while the   *)
(* wizard runs, is of the present prompt and was told all that is mapped.  *)
(* While nothing went astray, a stopped bridge has a dialog on the screen  *)
(* that is past its first page or on the way there, and no answer that     *)
(* would hide it is due.                                                   *)
(*                                                                         *)
(* Configs: that the env file is whole rests on the lock.  The request     *)
(* that holds it is the only one at work on the temporary file, which at   *)
(* the rename holds its own config.  That the selected config is there     *)
(* rests on what the checks of a selection and of a deletion still promise *)
(* when they are used.                                                     *)
(***************************************************************************)
EXTENDS Wizard, Configs, SequenceTheorems, TLAPS

Mapped == {mappings[i].code : i \in DOMAIN mappings}

(* One capture for each generation, and the newest for the present prompt. *)
Generations ==
  /\ \A c \in calls : c.gen <= gen
  /\ \A c, d \in calls : c.gen = d.gen => c = d
  /\ running => \A c \in calls : c.gen = gen => c.step = index /\ c.exclude = Mapped

(* A running wizard shows a prompt, or it is at its end. *)
Shows == running => view = "save" \/ (view = "capture" /\ index < Steps)

WizardInv == TypeOK /\ Generations /\ Shows /\ EachPromptIsSettled /\ NoCodeTwice

Call == [gen : 1 .. MaxGen, step : 0 .. Steps - 1, exclude : SUBSET Codes]
Mapping == [step : 0 .. Steps - 1, code : Codes]

Flags == {open, running, saving, asked, bridge, orphaned} \subseteq BOOLEAN
PageTypes ==
  /\ view \in {"setup", "capture", "save"} /\ replied \in 0 .. 2
  /\ begin \in [Handlers -> {"idle", "stop", "sample"}]
PromptTypes ==
  index \in 0 .. Steps /\ gen \in 0 .. MaxGen /\ mappings \in Seq(Mapping) /\ calls \subseteq Call

(* What the prompts come to; the rest of the dialog leaves it alone. *)
PromptInv == PromptTypes /\ Generations /\ Shows /\ EachPromptIsSettled /\ NoCodeTwice

-----------------------------------------------------------------------------
LEMMA WizardInitInv == Init => WizardInv
<1>. SUFFICES ASSUME Init PROVE WizardInv
  OBVIOUS
<1>. USE BoundAssumption DEF Init
<1>1. TypeOK
  <2>1. MaxGen \in Nat
    OBVIOUS
  <2>2. mappings \in Seq([step : 0 .. Steps - 1, code : Codes])
    OBVIOUS
  <2>3. {open, running, saving, asked, bridge, orphaned} \subseteq BOOLEAN
    OBVIOUS
  <2>4. index \in 0 .. Steps /\ gen \in 0 .. MaxGen /\ replied \in 0 .. 2
    BY <2>1
  <2>5. begin \in [Handlers -> {"idle", "stop", "sample"}]
    OBVIOUS
  <2>. QED BY <2>2, <2>3, <2>4, <2>5 DEF TypeOK
<1>2. Generations /\ Shows /\ NoCodeTwice
  BY DEF Generations, Shows, NoCodeTwice
<1>3. EachPromptIsSettled
  BY DEF EachPromptIsSettled
<1>. QED BY <1>1, <1>2, <1>3 DEF WizardInv

LEMMA AnswerFacts ==
  ASSUME WizardInv, NEW c \in calls, ~IsStale(c)
  PROVE  /\ running /\ c.gen = gen /\ c.step = index /\ c.exclude = Mapped
         /\ c.step \in 0 .. Steps - 1
         /\ \A d \in calls \ {c} : d.gen < gen
<1>1. running /\ c.gen = gen
  BY DEF IsStale
<1>2. c \in Call /\ calls \subseteq Call /\ gen \in Nat
  BY BoundAssumption DEF WizardInv, TypeOK, Call
<1>3. \A d \in calls \ {c} : d.gen # c.gen /\ d.gen <= gen /\ d.gen \in Nat
  BY <1>2 DEF WizardInv, Generations, Call
<1>. QED BY <1>1, <1>2, <1>3 DEF WizardInv, Generations, Call

(* A prompt, or the page at the end. *)
LEMMA NextStepFacts ==
  ASSUME WizardInv, NEW P \in SUBSET calls, NextStep(P), running' = running,
         mappings' \in Seq(Mapping), index' \in 0 .. Steps, view = "setup" => ~running,
         \A d \in P : d.gen < gen \/ gen' # gen
  PROVE  Generations' /\ Shows' /\ calls' \subseteq Call /\ gen' \in 0 .. MaxGen
         /\ view' \in {"setup", "capture", "save"}
<1>. P \subseteq Call /\ gen \in 0 .. MaxGen /\ view \in {"setup", "capture", "save"}
  BY DEF WizardInv, TypeOK, Call
<1>1. CASE index' >= Steps
  <2>1. view' = "save" /\ gen' = gen /\ calls' = P
    BY <1>1 DEF NextStep
  <2>2. \A d \in P : d.gen < gen /\ d.gen \in Nat
    BY <2>1 DEF Call
  <2>3. Generations'
    BY <2>1, <2>2, BoundAssumption DEF Generations, WizardInv
  <2>. QED BY <2>1, <2>3 DEF Shows
<1>2. CASE ~(index' >= Steps)
  <2>. DEFINE n == [gen |-> gen', step |-> index', exclude |-> Excluded]
  <2>1. gen < MaxGen /\ gen' = gen + 1 /\ calls' = P \cup {n} /\ view' = view
    BY <1>2 DEF NextStep
  <2>2. n \in Call
    <3>1. \A i \in DOMAIN mappings' : mappings'[i] \in Mapping
      OBVIOUS
    <3>2. \A i \in DOMAIN mappings' : mappings'[i].code \in Codes
      BY <3>1 DEF Mapping
    <3>3. Excluded \subseteq Codes
      BY <3>2 DEF Excluded
    <3>. QED BY <1>2, <2>1, <3>3, BoundAssumption DEF Call
  <2>3. n.gen = gen' /\ n.step = index' /\ n.exclude = Mapped'
    BY DEF Excluded, Mapped
  <2>4. \A d \in P : d.gen < gen' /\ d.gen \in Nat
    BY <2>1 DEF WizardInv, Generations, Call
  <2>. HIDE DEF n
  <2>5. Generations'
    BY <2>1, <2>2, <2>3, <2>4, BoundAssumption DEF Generations, WizardInv
  <2>6. Shows'
    BY <1>2, <2>1, BoundAssumption DEF Shows, WizardInv
  <2>. QED BY <2>1, <2>2, <2>5, <2>6, BoundAssumption
<1>. QED BY <1>1, <1>2

LEMMA SettledGrows ==
  ASSUME EachPromptIsSettled, index \in Nat, index' = index + 1,
         settled' = Append(settled, index)
  PROVE  EachPromptIsSettled'
<1>1. settled = [i \in 1 .. index |-> i - 1]
  BY DEF EachPromptIsSettled
<1>2. \A i \in 1 .. index : i - 1 \in Nat
  OBVIOUS
<1>3. settled \in Seq(Nat) /\ Len(settled) = index
  BY <1>1, <1>2
<1>4. settled' \in Seq(Nat) /\ Len(settled') = index + 1
  BY <1>3
<1>5. \A i \in 1 .. index + 1 : settled'[i] = i - 1
  BY <1>1, <1>3
<1>6. settled' = [i \in 1 .. Len(settled') |-> settled'[i]]
  <2>1. settled' \in [1 .. Len(settled') -> Nat]
    BY <1>4, LenProperties
  <2>. QED BY <2>1
<1>7. settled' = [i \in 1 .. index + 1 |-> i - 1]
  BY <1>4, <1>5, <1>6
<1>. QED BY <1>7 DEF EachPromptIsSettled

-----------------------------------------------------------------------------
LEMMA InvParts ==
  /\ WizardInv <=> Flags /\ PageTypes /\ PromptInv
  /\ WizardInv' <=> Flags' /\ PageTypes' /\ PromptInv'
BY DEF WizardInv, TypeOK, Flags, PageTypes, PromptTypes, PromptInv, Mapping, Call

LEMMA FlagsKept == ASSUME Flags, [Next]_vars PROVE Flags'
<1>. USE DEF Flags
<1>1. CASE Open \/ (\E h \in Handlers : Begin(h)) \/ Skip \/ Save
  BY <1>1 DEF Open, Begin, Skip, Save
<1>2. CASE Discard \/ SaveAnswers
  BY <1>2 DEF Discard, SaveAnswers, Finishing
<1>3. CASE Close
  <2>1. CASE HasBegun /\ Finishing /\ UNCHANGED <<open, orphaned>>
    BY <1>3, <2>1 DEF Close, Finishing
  <2>2. CASE ~HasBegun
    BY <1>3, <2>2 DEF Close, BeginPends
  <2>. QED BY <1>3, <2>1, <2>2 DEF Close
<1>4. CASE \E h \in Handlers : BeginAnswers(h) \/ Starts(h)
  BY <1>4 DEF BeginAnswers, Starts
<1>5. CASE \E c \in calls : Ignores(c) \/ AsksAgain(c) \/ Takes(c) \/ Breaks(c)
  BY <1>5 DEF Ignores, AsksAgain, Takes, Breaks
<1>6. CASE FinishServed \/ UNCHANGED vars
  BY <1>6 DEF FinishServed, BeginPends, vars, page
<1>7. CASE Hides \/ Leaves
  BY <1>7 DEF Hides, Leaves, BeginPends
<1>. QED BY <1>1, <1>2, <1>3, <1>4, <1>5, <1>6, <1>7 DEF Next, Clicks, Answers

LEMMA PageTypesKept == ASSUME PageTypes, [Next]_vars PROVE PageTypes'
<1>. USE DEF PageTypes
<1>1. CASE Open \/ Save \/ Discard \/ Close \/ SaveAnswers
  BY <1>1 DEF Open, Save, Discard, Close, SaveAnswers
<1>2. CASE \E h \in Handlers : Begin(h) \/ BeginAnswers(h) \/ Starts(h)
  BY <1>2 DEF Begin, BeginAnswers, Starts
<1>3. CASE Skip
  BY <1>3 DEF Skip, NextStep
<1>4. CASE \E c \in calls : Ignores(c) \/ AsksAgain(c) \/ Takes(c) \/ Breaks(c)
  BY <1>4 DEF Ignores, AsksAgain, Takes, Breaks, NextStep
<1>5. CASE FinishServed \/ Hides \/ UNCHANGED vars
  <2>1. UNCHANGED <<view, begin>>
    BY <1>5 DEF FinishServed, Hides, vars, page
  <2>2. \/ replied' = (IF replied = 2 THEN 2 ELSE replied + 1)
        \/ replied > 0 /\ replied' = replied - 1
        \/ replied' = replied
    BY <1>5 DEF FinishServed, Hides, vars
  <2>. QED BY <2>1, <2>2
<1>6. CASE Leaves
  BY <1>6 DEF Leaves
<1>. QED BY <1>1, <1>2, <1>3, <1>4, <1>5, <1>6 DEF Next, Clicks, Answers

(* The rest of the dialog. *)
LEMMA QuietKeeps ==
  ASSUME PromptInv, UNCHANGED <<index, gen, mappings, calls, settled>>,
         running' => running /\ view' = view
  PROVE  PromptInv'
BY DEF PromptInv, PromptTypes, Generations, Shows, EachPromptIsSettled, NoCodeTwice, Mapped

(* Captures are dropped, and prompts, when the wizard does not run. *)
LEMMA IdleKeeps ==
  ASSUME PromptInv, ~running', gen' = gen, calls' \subseteq calls,
         \/ UNCHANGED <<index, mappings, settled>>
         \/ index' = 0 /\ mappings' = <<>> /\ settled' = <<>>
  PROVE  PromptInv'
<1>1. PromptTypes'
  <2>1. <<>> \in Seq(Mapping) /\ 0 \in 0 .. Steps
    BY BoundAssumption
  <2>. QED BY <2>1 DEF PromptInv, PromptTypes
<1>2. Generations' /\ Shows'
  BY DEF PromptInv, Generations, Shows
<1>3. EachPromptIsSettled' /\ NoCodeTwice'
  <2>1. CASE UNCHANGED <<index, mappings, settled>>
    BY <2>1 DEF PromptInv, EachPromptIsSettled, NoCodeTwice
  <2>2. CASE index' = 0 /\ mappings' = <<>> /\ settled' = <<>>
    BY <2>2 DEF EachPromptIsSettled, NoCodeTwice
  <2>. QED BY <2>1, <2>2
<1>. QED BY <1>1, <1>2, <1>3 DEF PromptInv

LEMMA StartsKeeps ==
  ASSUME PromptInv, NEW h \in Handlers, Starts(h) PROVE PromptInv'
<1>. DEFINE n == [gen |-> gen', step |-> 0, exclude |-> {}]
<1>1. /\ index' = 0 /\ mappings' = <<>> /\ settled' = <<>> /\ view' = "capture"
      /\ gen < MaxGen /\ gen' = gen + 1 /\ calls' = calls \cup {n}
  BY DEF Starts
<1>2. n \in Call /\ gen \in 0 .. MaxGen /\ calls \subseteq Call
  BY <1>1, BoundAssumption DEF PromptInv, PromptTypes, Call
<1>3. \A c \in calls : c.gen < gen' /\ c.gen \in Nat
  BY <1>1, <1>2 DEF PromptInv, Generations, Call
<1>4. n.gen = gen' /\ n.step = index' /\ n.exclude = Mapped'
  BY <1>1 DEF Mapped
<1>. HIDE DEF n
<1>5. PromptTypes'
  <2>1. <<>> \in Seq(Mapping) /\ 0 \in 0 .. Steps /\ gen' \in 0 .. MaxGen
    BY <1>1, <1>2, BoundAssumption
  <2>. QED BY <1>1, <1>2, <2>1 DEF PromptTypes
<1>6. Generations'
  BY <1>1, <1>2, <1>3, <1>4 DEF Generations, PromptInv
<1>7. Shows' /\ EachPromptIsSettled' /\ NoCodeTwice'
  BY <1>1, BoundAssumption DEF Shows, EachPromptIsSettled, NoCodeTwice
<1>. QED BY <1>5, <1>6, <1>7 DEF PromptInv

LEMMA AsksAgainKeeps ==
  ASSUME WizardInv, NEW c \in calls, AsksAgain(c) PROVE PromptInv'
<1>1. ~IsStale(c) /\ UNCHANGED <<index, mappings, running, settled>> /\ NextStep(calls \ {c})
  BY DEF AsksAgain
<1>2. running /\ \A d \in calls \ {c} : d.gen < gen
  BY <1>1, AnswerFacts
<1>3. PromptTypes /\ view # "setup"
  BY <1>2, InvParts DEF PromptInv, Shows
<1>4. Generations' /\ Shows' /\ calls' \subseteq Call /\ gen' \in 0 .. MaxGen
  BY <1>1, <1>2, <1>3, NextStepFacts DEF PromptTypes
<1>. QED BY <1>1, <1>3, <1>4
         DEF WizardInv, PromptInv, PromptTypes, EachPromptIsSettled, NoCodeTwice

LEMMA TakesKeeps ==
  ASSUME WizardInv, NEW c \in calls, Takes(c) PROVE PromptInv'
<1>1. ~IsStale(c) /\ index' = index + 1 /\ settled' = Append(settled, c.step)
      /\ running' = running /\ NextStep(calls \ {c})
  BY DEF Takes
<1>2. /\ running /\ c.step = index /\ c.exclude = Mapped /\ c.step \in 0 .. Steps - 1
      /\ \A d \in calls \ {c} : d.gen < gen
  BY <1>1, AnswerFacts
<1>3. PromptTypes /\ view # "setup"
  BY <1>2, InvParts DEF PromptInv, Shows
<1>4. index' \in 0 .. Steps /\ index \in Nat
  BY <1>1, <1>2, BoundAssumption
<1>5. mappings' \in Seq(Mapping) /\ NoCodeTwice'
  <2>1. CASE mappings' = mappings
    BY <1>3, <2>1 DEF PromptTypes, WizardInv, NoCodeTwice
  <2>2. CASE mappings' # mappings
    <3>1. PICK k \in Free(c) : mappings' = Append(mappings, [step |-> c.step, code |-> k])
      BY <2>2 DEF Takes
    <3>. DEFINE m == [step |-> c.step, code |-> k]
    <3>2. k \in Codes /\ (k \notin Mapped \/ k = Hat)
      BY <1>2, BoundAssumption DEF Free
    <3>3. m \in Mapping /\ m.code = k
      BY <1>2, <3>2 DEF Mapping
    <3>. HIDE DEF m
    <3>4. mappings \in Seq(Mapping)
      BY <1>3 DEF PromptTypes
    <3>5. mappings' = Append(mappings, m)
      BY <3>1 DEF m
    <3>6. /\ mappings' \in Seq(Mapping) /\ DOMAIN mappings' = 1 .. Len(mappings) + 1
          /\ \A i \in 1 .. Len(mappings) : mappings'[i] = mappings[i]
          /\ mappings'[Len(mappings) + 1] = m /\ Len(mappings) \in Nat
          /\ DOMAIN mappings = 1 .. Len(mappings)
      BY <3>3, <3>4, <3>5, AppendProperties, LenProperties
    <3>7. \A i \in 1 .. Len(mappings) : mappings[i].code # k \/ k = Hat
      BY <3>2, <3>6 DEF Mapped
    <3>8. NoCodeTwice'
      BY <3>3, <3>6, <3>7 DEF NoCodeTwice, WizardInv
    <3>. QED BY <3>6, <3>8
  <2>. QED BY <2>1, <2>2
<1>6. Generations' /\ Shows' /\ calls' \subseteq Call /\ gen' \in 0 .. MaxGen
  BY <1>1, <1>2, <1>3, <1>4, <1>5, NextStepFacts
<1>7. EachPromptIsSettled'
  BY <1>1, <1>2, <1>4, SettledGrows DEF WizardInv
<1>. QED BY <1>4, <1>5, <1>6, <1>7 DEF PromptInv, PromptTypes

LEMMA SkipKeeps == ASSUME WizardInv, Skip PROVE PromptInv'
<1>1. /\ running /\ running' = running /\ view = "capture" /\ mappings' = mappings
      /\ index' = index + 1 /\ settled' = Append(settled, index)
  BY DEF Skip
<1>2. PromptTypes
  BY InvParts DEF PromptInv
<1>3. index' \in 0 .. Steps /\ index \in Nat
  BY <1>1, <1>2, BoundAssumption DEF WizardInv, Shows, PromptTypes
<1>4. Generations' /\ Shows' /\ calls' \subseteq Call /\ gen' \in 0 .. MaxGen
  <2>1. CASE index' >= Steps
    <3>1. gen < MaxGen /\ gen' = gen + 1 /\ view' = "save" /\ calls' = calls
      BY <2>1 DEF Skip
    <3>2. gen \in Nat /\ MaxGen \in Nat /\ calls \subseteq Call
      BY <1>2, BoundAssumption DEF PromptTypes
    <3>3. \A d \in calls : d.gen <= gen /\ d.gen \in Nat
      BY <3>2 DEF WizardInv, Generations, Call
    <3>4. Generations'
      BY <3>1, <3>2, <3>3 DEF WizardInv, Generations
    <3>. QED BY <3>1, <3>2, <3>4 DEF Shows
  <2>2. CASE ~(index' >= Steps)
    <3>1. NextStep(calls)
      BY <2>2 DEF Skip
    <3>2. gen' # gen
      BY <1>2, <2>2, <3>1, BoundAssumption DEF NextStep, PromptTypes
    <3>. QED BY <1>1, <1>2, <1>3, <3>1, <3>2, NextStepFacts DEF PromptTypes
  <2>. QED BY <2>1, <2>2
<1>5. EachPromptIsSettled'
  BY <1>1, <1>3, SettledGrows DEF WizardInv
<1>6. NoCodeTwice'
  BY <1>1 DEF WizardInv, NoCodeTwice
<1>. QED BY <1>1, <1>2, <1>3, <1>4, <1>5, <1>6 DEF PromptInv, PromptTypes

LEMMA WizardStep == WizardInv /\ [Next]_vars => WizardInv'
<1>. SUFFICES ASSUME WizardInv, [Next]_vars PROVE PromptInv'
  BY InvParts, FlagsKept, PageTypesKept
<1>0. PromptInv
  BY InvParts
<1>1. CASE (\E h \in Handlers : Begin(h) \/ BeginAnswers(h)) \/ Save \/ FinishServed \/ Hides
  <2>1. UNCHANGED <<index, gen, mappings, calls, settled, running, view>>
    BY <1>1 DEF Begin, BeginAnswers, Save, FinishServed, Hides, page
  <2>. QED BY <1>0, <2>1, QuietKeeps
<1>2. CASE Discard \/ SaveAnswers \/ Close \/ UNCHANGED vars
  BY <1>0, <1>2, QuietKeeps DEF Discard, SaveAnswers, Close, Finishing, vars, page
<1>3. CASE Open
  BY <1>0, <1>3, IdleKeeps DEF Open
<1>4. CASE Leaves
  BY <1>0, <1>4, IdleKeeps DEF Leaves
<1>5. CASE \E c \in calls : Breaks(c)
  BY <1>0, <1>5, IdleKeeps DEF Breaks
<1>6. CASE \E c \in calls : Ignores(c)
  BY <1>0, <1>6 DEF Ignores, PromptInv, PromptTypes, Generations, Shows,
                    EachPromptIsSettled, NoCodeTwice, Mapped
<1>7. CASE \E h \in Handlers : Starts(h)
  BY <1>0, <1>7, StartsKeeps
<1>8. CASE Skip
  BY <1>8, SkipKeeps
<1>9. CASE \E c \in calls : AsksAgain(c) \/ Takes(c)
  BY <1>9, AsksAgainKeeps, TakesKeeps
<1>. QED BY <1>1, <1>2, <1>3, <1>4, <1>5, <1>6, <1>7, <1>8, <1>9 DEF Next, Clicks, Answers

(* Who will start the bridge again: the dialog on the screen, which has begun. *)
InHand ==
  /\ BeginPends /\ ~open => orphaned
  /\ ~bridge /\ ~orphaned => /\ open
                             /\ view = "setup" \/ replied > 0 => BeginPends

LEMMA InHandKept == ASSUME Flags, PageTypes, InHand, [Next]_vars PROVE InHand'
<1>. USE DEF InHand, BeginPends, Flags, PageTypes
<1>1. CASE Open
  BY <1>1 DEF Open
<1>2. ASSUME NEW h \in Handlers, Begin(h) PROVE InHand'
  BY <1>2 DEF Begin
<1>3. ASSUME NEW h \in Handlers, BeginAnswers(h) PROVE InHand'
  <2>1. /\ begin[h] = "stop" /\ UNCHANGED <<open, view, replied>>
        /\ \A g \in Handlers \ {h} : begin'[g] = begin[g]
    BY <1>3 DEF BeginAnswers
  <2>2. BeginPends
    BY <2>1
  <2>3. CASE begin' = [begin EXCEPT ![h] = "sample"] /\ UNCHANGED orphaned
    <3>1. begin'[h] # "idle"
      BY <2>3
    <3>. QED BY <2>1, <2>2, <2>3, <3>1
  <2>4. CASE orphaned' = (orphaned \/ ~bridge')
    <3>1. BeginPends' => BeginPends
      BY <2>2
    <3>. QED BY <2>1, <2>2, <2>4, <3>1
  <2>. QED BY <1>3, <2>3, <2>4 DEF BeginAnswers
<1>4. ASSUME NEW h \in Handlers, Starts(h) PROVE InHand'
  <2>1. /\ begin[h] = "sample" /\ view' = "capture" /\ orphaned' = (orphaned \/ replied > 0)
        /\ UNCHANGED <<open, replied, bridge>>
    BY <1>4 DEF Starts
  <2>2. BeginPends
    BY <2>1
  <2>. QED BY <2>1, <2>2
<1>5. CASE (\E c \in calls : Ignores(c) \/ AsksAgain(c) \/ Takes(c) \/ Breaks(c)) \/ Skip
  <2>1. UNCHANGED <<open, begin, replied, bridge, orphaned>>
    BY <1>5 DEF Ignores, AsksAgain, Takes, Breaks, Skip
  <2>2. view' = "save" \/ view' = view
    BY <1>5 DEF Ignores, AsksAgain, Takes, Breaks, Skip, NextStep
  <2>. QED BY <2>1, <2>2
<1>6. CASE Save \/ SaveAnswers \/ Discard \/ UNCHANGED vars
  BY <1>6 DEF Save, SaveAnswers, Discard, vars, page
<1>7. CASE Close
  <2>1. UNCHANGED <<view, begin, replied, bridge>>
    BY <1>7 DEF Close
  <2>2. CASE UNCHANGED <<open, orphaned>>
    BY <2>1, <2>2
  <2>3. CASE ~HasBegun /\ open' = FALSE /\ orphaned' = (orphaned \/ BeginPends)
    BY <2>1, <2>3 DEF HasBegun
  <2>. QED BY <1>7, <2>2, <2>3 DEF Close
<1>8. CASE FinishServed
  BY <1>8 DEF FinishServed, page
<1>9. CASE Hides
  BY <1>9 DEF Hides
<1>10. CASE Leaves
  BY <1>10 DEF Leaves
<1>. QED BY <1>1, <1>2, <1>3, <1>4, <1>5, <1>6, <1>7, <1>8, <1>9, <1>10 DEF Next, Clicks, Answers

LEMMA WizardInvHolds == Spec => []WizardInv
BY WizardInitInv, WizardStep, PTL DEF Spec

-----------------------------------------------------------------------------
(* The dialog's state is always of its types: a prompt's number is within the list. *)
THEOREM WizardTypeCorrect == Spec => []TypeOK
<1>1. WizardInv => TypeOK
  BY DEF WizardInv
<1>. QED BY <1>1, WizardInvHolds, PTL

(* An answer that comes late, to a prompt that was skipped or asked again,
   settles nothing: prompts are settled in their order, each once. *)
THEOREM PromptsSettledOnce == Spec => []EachPromptIsSettled
<1>1. WizardInv => EachPromptIsSettled
  BY DEF WizardInv
<1>. QED BY <1>1, WizardInvHolds, PTL

(* What a capture was told not to take is all that is mapped when its answer
   is taken: no control but the hat is mapped twice. *)
THEOREM NoCodeMappedTwice == Spec => []NoCodeTwice
<1>1. WizardInv => NoCodeTwice
  BY DEF WizardInv
<1>. QED BY <1>1, WizardInvHolds, PTL

(***************************************************************************)
(* A dialog that has left the screen has given the bridge back, unless a   *)
(* request failed, a Begin was under way, or the tab was closed, for every *)
(* number of prompts and of clicks (gpb_web.py:914-917).                   *)
(***************************************************************************)
THEOREM BridgeGivenBack == Spec => []ClosedGivesBack
<1>1. Init => InHand
  BY DEF Init, InHand, BeginPends
<1>2. WizardInv /\ InHand /\ [Next]_vars => InHand'
  BY InvParts, InHandKept
<1>3. InHand => ClosedGivesBack
  BY DEF InHand, ClosedGivesBack
<1>. QED BY <1>1, <1>2, <1>3, WizardInvHolds, PTL DEF Spec

-----------------------------------------------------------------------------
(* The holder of the lock is alone at the temporary file. *)
Alone ==
  /\ \A p \in Pages : pc[p] \in {"open", "write", "replace"} => lock = p
  /\ \A p \in Pages : At(p, "replace") => tmp = arg[p]

(* A request is about a config; no file is written by nobody. *)
Args == \A p \in Pages : ~At(p, "none") => arg[p] \in Names

(* What was checked still holds while selections and deletions do not cross. *)
Checked ==
  ~crossed =>
    /\ \A p, q \in Pages : ~(Selects(p) /\ Deletes(q))
    /\ \A p \in Pages : pc[p] \in {"lock", "open", "write", "replace"} => Known(arg[p])
    /\ \A p \in Pages : At(p, "remove") => arg[p] # env
    /\ Known(env)

ConfigInv == ConfigsTypeOK /\ env \in Names /\ Args /\ Alone /\ RunsTheSelected /\ Checked

-----------------------------------------------------------------------------
LEMMA ConfigInitInv == ConfigsInit => ConfigInv
<1>. SUFFICES ASSUME ConfigsInit PROVE ConfigInv
  OBVIOUS
<1>. USE NameAssumption DEF ConfigsInit
<1>1. ConfigsTypeOK
  BY DEF ConfigsTypeOK
<1>2. env \in Names /\ Args /\ Alone /\ RunsTheSelected
  BY DEF Args, Alone, RunsTheSelected, At
<1>3. Checked
  BY DEF Checked, Selects, Deletes, Known, At
<1>. QED BY <1>1, <1>2, <1>3 DEF ConfigInv

(* The types, by what a step does to the requests. *)
LEMMA GoTypes ==
  ASSUME ConfigsTypeOK, NEW p \in Pages, NEW l, Go(p, l),
         l \in {"none", "lock", "open", "write", "replace", "restart", "remove", "store"}
  PROVE  /\ pc' \in [Pages -> {"none", "select", "lock", "open", "write", "replace", "restart",
                               "delete", "remove", "save", "store"}]
         /\ arg' \in [Pages -> Names \cup {NoFile}]
         /\ pc'[p] = l /\ (l # "none" => arg'[p] = arg[p])
         /\ \A q \in Pages \ {p} : pc'[q] = pc[q] /\ arg'[q] = arg[q]
BY DEF Go, ConfigsTypeOK

LEMMA StartedFacts ==
  ASSUME env \in Names, Started
  PROVE  unit' \in {env, NoFile}
BY DEF Started

LEMMA AsksKeeps ==
  ASSUME ConfigInv, NEW p \in Pages, NEW n \in Names, NEW l \in {"select", "delete", "save"},
         Asks(p, n, l)
  PROVE  ConfigInv'
<1>. USE DEF ConfigInv
<1>1. /\ pc[p] = "none" /\ pc'[p] = l /\ arg'[p] = n
      /\ \A q \in Pages \ {p} : pc'[q] = pc[q] /\ arg'[q] = arg[q]
      /\ UNCHANGED <<files, env, tmp, lock, unit, torn>>
  BY DEF Asks, At, ConfigsTypeOK
<1>2. crossed' \in BOOLEAN /\ (~crossed' => ~crossed /\ ~Crosses(p, l))
  <2>1. crossed \in BOOLEAN /\ Crosses(p, l) \in BOOLEAN
    BY DEF ConfigsTypeOK, Crosses
  <2>2. crossed' = (crossed \/ Crosses(p, l))
    BY DEF Asks
  <2>. QED BY <2>1, <2>2
<1>3. ConfigsTypeOK'
  <2>1. pc' \in [Pages -> {"none", "select", "lock", "open", "write", "replace", "restart",
                           "delete", "remove", "save", "store"}]
        /\ arg' \in [Pages -> Names \cup {NoFile}]
    BY DEF Asks, ConfigsTypeOK
  <2>2. crossed' \in BOOLEAN
    BY <1>2
  <2>. QED BY <1>1, <2>1, <2>2 DEF ConfigsTypeOK
<1>4. Args' /\ Alone' /\ RunsTheSelected'
  BY <1>1 DEF Args, Alone, RunsTheSelected, At
<1>5. Checked'
  <2>. SUFFICES ASSUME ~crossed' PROVE Checked'
    BY DEF Checked
  <2>1. \A r, q \in Pages : ~(Selects(r) /\ Deletes(q))
    BY <1>2 DEF Checked
  <2>2. \A r, q \in Pages : ~(Selects(r)' /\ Deletes(q)')
    BY <1>1, <1>2, <2>1 DEF Selects, Deletes, Crosses
  <2>3. \A q \in Pages : pc'[q] \in {"lock", "open", "write", "replace"} => Known(arg[q]) /\ arg'[q] = arg[q]
    BY <1>1, <1>2 DEF Checked
  <2>4. \A q \in Pages : pc'[q] = "remove" => arg'[q] # env
    BY <1>1, <1>2 DEF Checked, At
  <2>. QED BY <1>1, <1>2, <2>2, <2>3, <2>4 DEF Checked, Known, At
<1>. QED BY <1>1, <1>3, <1>4, <1>5

(* What a request may do without touching env, files or unit. *)
LEMMA SelectChecksKeeps ==
  ASSUME ConfigInv, NEW p \in Pages, SelectChecks(p)
  PROVE  ConfigInv'
<1>. USE DEF ConfigInv
<1>. DEFINE l == IF Known(arg[p]) THEN "lock" ELSE "none"
<1>1. Go(p, l) /\ pc[p] = "select" /\ UNCHANGED <<files, env, tmp, lock, unit, crossed, torn>>
  BY DEF SelectChecks, At
<1>2. l \in {"none", "lock"} /\ (l = "lock" => Known(arg[p]))
  OBVIOUS
<1>. HIDE DEF l
<1>3. /\ ConfigsTypeOK' /\ pc'[p] = l /\ (l # "none" => arg'[p] = arg[p])
      /\ \A q \in Pages \ {p} : pc'[q] = pc[q] /\ arg'[q] = arg[q]
  BY <1>1, <1>2, GoTypes DEF ConfigsTypeOK
<1>4. Args' /\ Alone' /\ RunsTheSelected'
  BY <1>1, <1>2, <1>3 DEF Args, Alone, RunsTheSelected, At
<1>5. Checked'
  BY <1>1, <1>2, <1>3 DEF Checked, Known, Selects, Deletes, At
<1>. QED BY <1>1, <1>3, <1>4, <1>5

LEMMA LocksKeeps ==
  ASSUME ConfigInv, NEW p \in Pages, Locks(p)
  PROVE  ConfigInv'
<1>. USE DEF ConfigInv
<1>1. /\ Go(p, "open") /\ pc[p] = "lock" /\ lock = NoFile /\ lock' = p
      /\ UNCHANGED <<files, env, tmp, unit, crossed, torn>>
  BY DEF Locks, At
<1>2. /\ ConfigsTypeOK' /\ pc'[p] = "open" /\ arg'[p] = arg[p]
      /\ \A q \in Pages \ {p} : pc'[q] = pc[q] /\ arg'[q] = arg[q]
  BY <1>1, GoTypes DEF ConfigsTypeOK
<1>3. Alone'
  BY <1>1, <1>2, NameAssumption DEF Alone, At
<1>4. Args' /\ RunsTheSelected'
  BY <1>1, <1>2 DEF Args, RunsTheSelected, At
<1>5. Checked'
  BY <1>1, <1>2 DEF Checked, Known, Selects, Deletes, At
<1>. QED BY <1>1, <1>2, <1>3, <1>4, <1>5

(* Opening, writing: done under the lock, or the request ends and gives it back. *)
LEMMA WritesKeeps ==
  ASSUME ConfigInv, NEW p \in Pages, OpensTmp(p) \/ WritesTmp(p)
  PROVE  ConfigInv'
<1>. USE DEF ConfigInv
<1>1. pc[p] \in {"open", "write"} /\ lock = p /\ UNCHANGED <<files, env, unit, crossed, torn>>
  BY DEF OpensTmp, WritesTmp, At, Alone
<1>2. PICK l \in {"none", "write", "replace"} :
        /\ Go(p, l)
        /\ l = "none" => tmp' = tmp /\ lock' = NoFile
        /\ l # "none" => lock' = lock /\ tmp' \in Names \cup {Half}
        /\ l = "replace" => tmp' = arg[p]
        /\ l = "replace" => pc[p] = "write"
  <2>1. CASE OpensTmp(p)
    BY <1>1, <2>1 DEF OpensTmp, Unlocked
  <2>2. CASE WritesTmp(p)
    <3>1. arg[p] \in Names
      BY <1>1 DEF Args, At
    <3>. QED BY <1>1, <2>2, <3>1 DEF WritesTmp, Unlocked, At
  <2>. QED BY <2>1, <2>2
<1>3. /\ ConfigsTypeOK' /\ pc'[p] = l /\ (l # "none" => arg'[p] = arg[p])
      /\ \A q \in Pages \ {p} : pc'[q] = pc[q] /\ arg'[q] = arg[q]
  BY <1>1, <1>2, GoTypes DEF ConfigsTypeOK
<1>4. Alone'
  BY <1>1, <1>2, <1>3 DEF Alone, At
<1>5. Args' /\ RunsTheSelected'
  BY <1>1, <1>2, <1>3 DEF Args, RunsTheSelected, At
<1>6. Checked'
  BY <1>1, <1>2, <1>3 DEF Checked, Known, Selects, Deletes, At
<1>. QED BY <1>1, <1>3, <1>4, <1>5, <1>6

(* The rename: the temporary file holds the request's own config. *)
LEMMA ReplacesKeeps ==
  ASSUME ConfigInv, NEW p \in Pages, Replaces(p)
  PROVE  ConfigInv'
<1>. USE DEF ConfigInv
<1>1. /\ pc[p] = "replace" /\ lock = p /\ lock' = NoFile /\ tmp = arg[p] /\ arg[p] \in Names
      /\ UNCHANGED <<files, unit, crossed, torn>>
  BY DEF Replaces, At, Alone, Args, Unlocked
<1>2. PICK l \in {"none", "restart"} :
        /\ Go(p, l)
        /\ l = "none" => env' = env /\ tmp' = tmp
        /\ l = "restart" => env' = arg[p] /\ tmp' = NoFile
  BY <1>1 DEF Replaces
<1>3. /\ ConfigsTypeOK' /\ env' \in Names /\ pc'[p] = l /\ (l # "none" => arg'[p] = arg[p])
      /\ \A q \in Pages \ {p} : pc'[q] = pc[q] /\ arg'[q] = arg[q]
  BY <1>1, <1>2, GoTypes DEF ConfigsTypeOK
<1>4. Alone'
  BY <1>1, <1>2, <1>3 DEF Alone, At
<1>5. Args'
  BY <1>1, <1>2, <1>3 DEF Args, At
<1>6. RunsTheSelected'
  BY <1>1, <1>2, <1>3 DEF RunsTheSelected, At
<1>7. Checked'
  BY <1>1, <1>2, <1>3 DEF Checked, Known, Selects, Deletes, At
<1>. QED BY <1>3, <1>4, <1>5, <1>6, <1>7

LEMMA SelectRestartsKeeps ==
  ASSUME ConfigInv, NEW p \in Pages, SelectRestarts(p)
  PROVE  ConfigInv'
<1>. USE DEF ConfigInv
<1>1. /\ pc[p] = "restart" /\ Go(p, "none") /\ unit' \in {env, NoFile} /\ torn' = FALSE
      /\ UNCHANGED <<files, env, tmp, lock, crossed>>
  BY StartedFacts DEF SelectRestarts, At
<1>2. /\ ConfigsTypeOK' /\ pc'[p] = "none"
      /\ \A q \in Pages \ {p} : pc'[q] = pc[q] /\ arg'[q] = arg[q]
  BY <1>1, GoTypes DEF ConfigsTypeOK
<1>3. Args' /\ Alone' /\ RunsTheSelected'
  BY <1>1, <1>2 DEF Args, Alone, RunsTheSelected, At
<1>4. Checked'
  BY <1>1, <1>2 DEF Checked, Known, Selects, Deletes, At
<1>. QED BY <1>1, <1>2, <1>3, <1>4

LEMMA DeleteChecksKeeps ==
  ASSUME ConfigInv, NEW p \in Pages, DeleteChecks(p)
  PROVE  ConfigInv'
<1>. USE DEF ConfigInv
<1>. DEFINE l == IF Known(arg[p]) /\ arg[p] # env THEN "remove" ELSE "none"
<1>1. Go(p, l) /\ pc[p] = "delete" /\ UNCHANGED <<files, env, tmp, lock, unit, crossed, torn>>
  BY DEF DeleteChecks, At
<1>2. l \in {"none", "remove"} /\ (l = "remove" => arg[p] # env)
  OBVIOUS
<1>. HIDE DEF l
<1>3. /\ ConfigsTypeOK' /\ pc'[p] = l /\ (l # "none" => arg'[p] = arg[p])
      /\ \A q \in Pages \ {p} : pc'[q] = pc[q] /\ arg'[q] = arg[q]
  BY <1>1, <1>2, GoTypes DEF ConfigsTypeOK
<1>4. Args' /\ Alone' /\ RunsTheSelected'
  BY <1>1, <1>2, <1>3 DEF Args, Alone, RunsTheSelected, At
<1>5. Checked'
  BY <1>1, <1>2, <1>3 DEF Checked, Known, Selects, Deletes, At
<1>. QED BY <1>1, <1>3, <1>4, <1>5

(* A file goes: it is not the selected one, and nothing is being selected. *)
LEMMA RemovesKeeps ==
  ASSUME ConfigInv, NEW p \in Pages, Removes(p)
  PROVE  ConfigInv'
<1>. USE DEF ConfigInv
<1>1. /\ pc[p] = "remove" /\ Go(p, "none") /\ arg[p] \in Names
      /\ UNCHANGED <<env, tmp, lock, unit, crossed, torn>>
      /\ files' = [files EXCEPT ![arg[p]] = NoFile] \/ files' = files
  BY DEF Removes, At, Args
<1>2. /\ ConfigsTypeOK' /\ pc'[p] = "none"
      /\ \A q \in Pages \ {p} : pc'[q] = pc[q] /\ arg'[q] = arg[q]
  BY <1>1, GoTypes DEF ConfigsTypeOK
<1>3. Args' /\ Alone' /\ RunsTheSelected'
  BY <1>1, <1>2 DEF Args, Alone, RunsTheSelected, At
<1>4. \A n \in Names : n # arg[p] => files'[n] = files[n]
  BY <1>1 DEF ConfigsTypeOK
<1>5. Checked'
  <2>. SUFFICES ASSUME ~crossed PROVE Checked'
    BY <1>1 DEF Checked
  <2>1. arg[p] # env /\ Known(env)'
    BY <1>1, <1>4 DEF Checked, Known, At
  <2>2. \A q \in Pages : ~Selects(q)
    BY <1>1 DEF Checked, Deletes
  <2>3. \A q \in Pages : ~Selects(q)' /\ (At(q, "remove")' => At(q, "remove") /\ arg'[q] = arg[q])
    BY <1>2, <2>2 DEF Selects, At
  <2>. QED BY <1>1, <2>1, <2>3 DEF Checked, Selects, At
<1>. QED BY <1>1, <1>2, <1>3, <1>5

LEMMA SavesKeep ==
  ASSUME ConfigInv, NEW p \in Pages, SaveChecks(p) \/ Stores(p)
  PROVE  ConfigInv'
<1>. USE DEF ConfigInv
<1>1. PICK l \in {"none", "store"} :
        /\ pc[p] \in {"save", "store"} /\ Go(p, l)
        /\ UNCHANGED <<env, tmp, lock, unit, crossed, torn>>
        /\ files' = [files EXCEPT ![arg[p]] = p] \/ files' = files
  BY DEF SaveChecks, Stores, At
<1>2. arg[p] \in Names
  BY <1>1 DEF Args, At
<1>3. /\ ConfigsTypeOK' /\ pc'[p] = l /\ (l # "none" => arg'[p] = arg[p])
      /\ \A q \in Pages \ {p} : pc'[q] = pc[q] /\ arg'[q] = arg[q]
  BY <1>1, <1>2, GoTypes DEF ConfigsTypeOK
<1>4. Args' /\ Alone' /\ RunsTheSelected'
  BY <1>1, <1>3 DEF Args, Alone, RunsTheSelected, At
<1>5. \A n \in Names : Known(n) => Known(n)'
  BY <1>1, NameAssumption DEF Known, ConfigsTypeOK
<1>6. Checked'
  BY <1>1, <1>3, <1>5 DEF Checked, Selects, Deletes, At, Args
<1>. QED BY <1>1, <1>3, <1>4, <1>6

LEMMA UnitKeeps ==
  ASSUME ConfigInv, UnitStarts \/ UnitStops
  PROVE  ConfigInv'
<1>. USE DEF ConfigInv
<1>1. /\ unit' \in {env, NoFile} /\ torn' = FALSE
      /\ UNCHANGED <<files, env, tmp, lock, requests, crossed>>
  BY StartedFacts DEF UnitStarts, UnitStops
<1>2. ConfigsTypeOK' /\ Args' /\ Alone' /\ RunsTheSelected'
  BY <1>1 DEF ConfigsTypeOK, Args, Alone, RunsTheSelected, At, requests
<1>3. Checked'
  BY <1>1 DEF Checked, Known, Selects, Deletes, At, requests
<1>. QED BY <1>1, <1>2, <1>3

LEMMA PanelDiesKeeps ==
  ASSUME ConfigInv, PanelDies
  PROVE  ConfigInv'
<1>. USE DEF ConfigInv
<1>1. \A q \in Pages : pc'[q] = "none"
  BY DEF PanelDies
<1>2. UNCHANGED <<files, env, tmp, unit, crossed>> /\ lock' = NoFile
  BY DEF PanelDies
<1>3. torn' \in BOOLEAN /\ (~torn' => ~torn /\ \A q \in Pages : ~At(q, "restart"))
  <2>1. torn' = (torn \/ \E q \in Pages : At(q, "restart")) /\ torn \in BOOLEAN
    BY DEF PanelDies, ConfigsTypeOK
  <2>. QED BY <2>1
<1>4. ConfigsTypeOK'
  <2>1. /\ pc' \in [Pages -> {"none", "select", "lock", "open", "write", "replace", "restart",
                              "delete", "remove", "save", "store"}]
        /\ arg' \in [Pages -> Names \cup {NoFile}]
    BY DEF PanelDies
  <2>2. torn' \in BOOLEAN
    BY <1>3
  <2>. QED BY <1>2, <2>1, <2>2 DEF ConfigsTypeOK
<1>5. Args' /\ Alone' /\ Checked'
  BY <1>1, <1>2 DEF Args, Alone, Checked, Known, Selects, Deletes, At
<1>6. RunsTheSelected'
  BY <1>2, <1>3 DEF RunsTheSelected
<1>. QED BY <1>2, <1>4, <1>5, <1>6

LEMMA ConfigStep == ConfigInv /\ [ConfigsNext]_configsVars => ConfigInv'
<1>. SUFFICES ASSUME ConfigInv, [ConfigsNext]_configsVars PROVE ConfigInv'
  OBVIOUS
<1>1. ASSUME NEW p \in Pages, AsksSelect(p) \/ AsksDelete(p) \/ AsksSave(p) PROVE ConfigInv'
  BY <1>1, AsksKeeps DEF AsksSelect, AsksDelete, AsksSave
<1>2. ASSUME NEW p \in Pages, Handles(p) PROVE ConfigInv'
  BY <1>2, SelectChecksKeeps, LocksKeeps, WritesKeeps, ReplacesKeeps, SelectRestartsKeeps,
     DeleteChecksKeeps, RemovesKeeps, SavesKeep DEF Handles
<1>3. CASE UnitStarts \/ UnitStops \/ PanelDies
  BY <1>3, UnitKeeps, PanelDiesKeeps
<1>4. CASE UNCHANGED configsVars
  <2>1. UNCHANGED <<files, env, tmp, lock, pc, arg, unit, crossed, torn>>
    BY <1>4 DEF configsVars, requests
  <2>. QED BY <2>1 DEF ConfigInv, ConfigsTypeOK, Args, Alone, RunsTheSelected, Checked, Known, Selects,
                       Deletes, At
<1>. QED BY <1>1, <1>2, <1>3, <1>4 DEF ConfigsNext

LEMMA ConfigInvHolds == ConfigsSpec => []ConfigInv
BY ConfigInitInv, ConfigStep, PTL DEF ConfigsSpec

-----------------------------------------------------------------------------
(* Files, env file, lock and requests are always of their types. *)
THEOREM ConfigTypeCorrect == ConfigsSpec => []ConfigsTypeOK
<1>1. ConfigInv => ConfigsTypeOK
  BY DEF ConfigInv
<1>. QED BY <1>1, ConfigInvHolds, PTL

(* However selections interleave, fail or die, the env file is never cut
   short (gpb_web.py:144-153). *)
THEOREM EnvAlwaysWhole == ConfigsSpec => []EnvIsWhole
<1>1. ConfigInv => EnvIsWhole
  BY NameAssumption DEF ConfigInv, EnvIsWhole
<1>. QED BY <1>1, ConfigInvHolds, PTL

(* A bridge that runs runs the selected config, when no restart is owed
   (gpb_web.py:938-943, 970-971). *)
THEOREM SelectedRuns == ConfigsSpec => []RunsTheSelected
<1>1. ConfigInv => RunsTheSelected
  BY DEF ConfigInv
<1>. QED BY <1>1, ConfigInvHolds, PTL

(* The selected config is never deleted, unless it is selected while a
   deletion is handled (gpb_web.py:573-588). *)
THEOREM SelectedStays == ConfigsSpec => []SelectedIsThere
<1>1. ConfigInv => SelectedIsThere
  BY DEF ConfigInv, Checked, SelectedIsThere
<1>. QED BY <1>1, ConfigInvHolds, PTL
=============================================================================
