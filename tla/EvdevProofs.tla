----------------------------- MODULE EvdevProofs -----------------------------
(***************************************************************************)
(* Theorems about EvdevSource, for every pad, every configuration and      *)
(* every size of the kernel's buffer and of the reader's.                  *)
(***************************************************************************)
EXTENDS EvdevSource, SequenceTheorems, TLAPS

(***************************************************************************)
(* Chunks: cutting the buffer keeps its events.                            *)
(***************************************************************************)
LEMMA CutInTwo ==
  ASSUME NEW q \in Seq(Event), NEW n \in Nat, n > 0, n <= Len(q)
  PROVE  /\ SubSeq(q, 1, n) \in Seq(Event) /\ Len(SubSeq(q, 1, n)) = n
         /\ SubSeq(q, n + 1, Len(q)) \in Seq(Event)
         /\ Len(SubSeq(q, n + 1, Len(q))) <= Len(q)
<1>1. /\ \A i \in 1..n : q[i] \in Event
      /\ \A i \in n + 1 .. Len(q) : q[i] \in Event
  BY LenProperties
<1>. QED BY <1>1, SubSeqProperties, LenProperties

(* What the kernel puts into the buffer is an event and fits. *)
LEMMA BufferedFits ==
  ASSUME TypeOK, NEW e \in Event, Buffered(e)
  PROVE  queue' \in Seq(Event) /\ Len(queue') <= Slots
<1>1. Slots \in Nat /\ Slots > 1
  BY SizesAssumption
<1>2. CASE queue' = queue
  BY <1>2 DEF TypeOK
<1>3. CASE queue' = <<Dropped, e>>
  <2>1. Dropped \in Event
    BY DEF Event
  <2>2. <<Dropped, e>> \in Seq(Event) /\ Len(<<Dropped, e>>) = 2
    BY <2>1
  <2>. QED BY <1>1, <1>3, <2>2
<1>4. CASE Len(queue) # Slots /\ queue' = Append(queue, e)
  <2>1. queue \in Seq(Event) /\ Len(queue) <= Slots
    BY DEF TypeOK
  <2>2. Append(queue, e) \in Seq(Event) /\ Len(Append(queue, e)) = Len(queue) + 1
    BY <2>1, AppendProperties
  <2>. QED BY <1>1, <1>4, <2>1, <2>2, LenProperties
<1>. QED BY <1>2, <1>3, <1>4 DEF Buffered

(***************************************************************************)
(* Type correctness (all of evdev_source.cpp's state): a field is at rest  *)
(* or not, a buffer never exceeds its size, and only bound controls reach  *)
(* the accumulator.                                                        *)
(***************************************************************************)
LEMMA InitTypeOK == Init => TypeOK
<1>. SUFFICES ASSUME Init PROVE TypeOK
  OBVIOUS
<1>1. {plugged, unsynced, gone, isOpen, dirty, complete, result} \subseteq BOOLEAN
  BY DEF Init
<1>2. pad \in Position /\ boundary \in Position /\ acc \in [Field -> 0..1]
      /\ out \in [Field -> 0..1] /\ hat \in 0..1
  BY DEF Init, Position, Rest, AllReleased
<1>3. /\ queue \in Seq(Event) /\ Len(queue) <= Slots
      /\ evs \in Seq(Event) /\ Len(evs) <= Chunk /\ moves \in 0..MaxMoves
  BY SizesAssumption, EmptySeq DEF Init
<1>. QED BY <1>1, <1>2, <1>3 DEF Init, TypeOK

LEMMA StepPadMoves ==
  ASSUME TypeOK, NEW c \in Control, PadMoves(c)
  PROVE  TypeOK'
<1>1. pad[c] \in 0..1 /\ 1 - pad[c] \in 0..1
  BY DEF TypeOK, Position
<1>2. Moved(c, 1 - pad[c]) \in Event
  BY <1>1 DEF Moved, Event
<1>3. queue' \in Seq(Event) /\ Len(queue') <= Slots
  BY <1>2, BufferedFits DEF PadMoves
<1>4. pad' \in Position
  BY <1>1 DEF PadMoves, TypeOK, Position
<1>5. moves' \in 0..MaxMoves
  BY SizesAssumption DEF PadMoves, TypeOK
<1>. QED BY <1>3, <1>4, <1>5
         DEF PadMoves, TypeOK, stateVars, readVars, historyVars

LEMMA StepPadSyncs ==
  ASSUME TypeOK, PadSyncs
  PROVE  TypeOK'
<1>1. Syn(pad) \in Event
  BY DEF TypeOK, Syn, Event
<1>2. queue' \in Seq(Event) /\ Len(queue') <= Slots
  BY <1>1, BufferedFits DEF PadSyncs
<1>. QED BY <1>2 DEF PadSyncs, TypeOK, stateVars, readVars, historyVars

LEMMA StepReadEvents ==
  ASSUME TypeOK, ReadEvents
  PROVE  TypeOK'
<1>1. PICK n \in 1..Chunk :
        /\ IsReadable(n)
        /\ evs' = SubSeq(queue, 1, n) /\ queue' = SubSeq(queue, n + 1, Len(queue))
  BY DEF ReadEvents
<1>2. n \in Nat /\ n > 0 /\ n <= Chunk /\ Chunk \in Nat
  BY SizesAssumption
<1>3. queue \in Seq(Event) /\ Len(queue) \in Nat /\ Len(queue) <= Slots /\ Slots \in Nat
  BY SizesAssumption, LenProperties DEF TypeOK
<1>4. n <= Len(queue)
  BY <1>1, <1>2, <1>3 DEF IsReadable
<1>5. /\ evs' \in Seq(Event) /\ Len(evs') <= Chunk
      /\ queue' \in Seq(Event) /\ Len(queue') <= Len(queue) /\ Len(queue') \in Nat
  BY <1>1, <1>2, <1>3, <1>4, CutInTwo, LenProperties
<1>6. Len(queue') <= Slots
  BY <1>3, <1>5
<1>. QED BY <1>5, <1>6 DEF ReadEvents, TypeOK, stateVars, historyVars

LEMMA EventTaken ==
  ASSUME TypeOK, NEW kind, Handles(kind)
  PROVE  /\ Head(evs) \in Event /\ Head(evs).kind = kind
         /\ evs' \in Seq(Event) /\ Len(evs') <= Chunk
<1>1. evs \in Seq(Event) /\ evs # << >> /\ Len(evs) <= Chunk /\ Chunk \in Nat
  BY SizesAssumption DEF Handles, TypeOK
<1>2. Head(evs) \in Event /\ Tail(evs) \in Seq(Event) /\ Len(Tail(evs)) = Len(evs) - 1
  BY <1>1, HeadTailProperties
<1>. QED BY <1>1, <1>2, LenProperties DEF Handles

LEMMA MoveTyped ==
  ASSUME NEW e \in Event, e.kind = "move"
  PROVE  e.ctl \in Control /\ e.val \in 0..1
BY DEF Event, Dropped

LEMMA SynTyped ==
  ASSUME NEW e \in Event, e.kind = "syn"
  PROVE  e.pad \in Position
BY DEF Event, Dropped

LEMMA StepHandleMove ==
  ASSUME TypeOK, HandleMove
  PROVE  TypeOK'
<1>1. /\ Head(evs) \in Event /\ Head(evs).kind = "move"
      /\ evs' \in Seq(Event) /\ Len(evs') <= Chunk
  BY EventTaken DEF HandleMove
<1>2. Head(evs).ctl \in Control /\ Head(evs).val \in 0..1
  BY <1>1, MoveTyped
<1>3. CASE Head(evs).ctl \in Bound
  <2>1. acc' \in [Field -> 0..1] /\ hat' \in 0..1
    BY <1>2, <1>3 DEF HandleMove, TypeOK, Field
  <2>2. touched' \subseteq Bound /\ seen' \subseteq touched' /\ dirty' \in BOOLEAN
    BY <1>3 DEF HandleMove, TypeOK
  <2>. QED BY <1>1, <2>1, <2>2 DEF HandleMove, Handles, TypeOK, deviceVars
<1>4. CASE Head(evs).ctl \notin Bound
  BY <1>1, <1>4 DEF HandleMove, Handles, TypeOK, deviceVars
<1>. QED BY <1>3, <1>4

LEMMA StepHandleSyn ==
  ASSUME TypeOK, HandleSyn
  PROVE  TypeOK'
<1>1. /\ Head(evs) \in Event /\ Head(evs).kind = "syn"
      /\ evs' \in Seq(Event) /\ Len(evs') <= Chunk
  BY EventTaken DEF HandleSyn
<1>2. boundary' \in Position
  BY <1>1, SynTyped DEF HandleSyn
<1>3. complete' \in BOOLEAN /\ dirty' \in BOOLEAN
  BY DEF HandleSyn
<1>. QED BY <1>1, <1>2, <1>3 DEF HandleSyn, Handles, TypeOK, deviceVars

LEMMA StepHandleDropped ==
  ASSUME TypeOK, HandleDropped
  PROVE  TypeOK'
<1>1. evs' \in Seq(Event) /\ Len(evs') <= Chunk
  BY EventTaken DEF HandleDropped
<1>. QED BY <1>1 DEF HandleDropped, Handles, TypeOK, deviceVars

LEMMA StepReadReturns ==
  ASSUME TypeOK, ReadReturns
  PROVE  TypeOK'
<1>1. HatFolded \in [Field -> 0..1]
  BY ControlAssumption DEF TypeOK, HatFolded, Field
<1>2. acc' \in [Field -> 0..1] /\ out' \in [Field -> 0..1]
  BY <1>1 DEF ReadReturns, TypeOK
<1>3. result' \in BOOLEAN /\ complete' \in BOOLEAN
  BY DEF ReadReturns, TypeOK
<1>. QED BY <1>2, <1>3 DEF ReadReturns, TypeOK, deviceVars, historyVars

LEMMA NextTypeOK == TypeOK /\ [Next]_vars => TypeOK'
<1>. SUFFICES ASSUME TypeOK, [Next]_vars PROVE TypeOK'
  OBVIOUS
<1>1. CASE \E c \in Control : PadMoves(c)
  BY <1>1, StepPadMoves
<1>2. CASE PadSyncs
  BY <1>2, StepPadSyncs
<1>3. CASE Unplugged
  <2>1. Rest \in Position /\ << >> \in Seq(Event) /\ Len(<< >>) = 0 /\ Slots \in Nat
    BY SizesAssumption, EmptySeq DEF Rest, Position
  <2>2. plugged' \in BOOLEAN /\ unsynced' \in BOOLEAN /\ gone' \in BOOLEAN
    BY <1>3 DEF Unplugged, TypeOK
  <2>3. /\ pad' \in Position
        /\ queue' \in Seq(Event) /\ Len(queue') <= Slots
    BY <1>3, <2>1 DEF Unplugged
  <2>. QED BY <1>3, <2>2, <2>3 DEF Unplugged, TypeOK, stateVars, readVars, historyVars
<1>4. CASE PluggedIn
  BY <1>4 DEF PluggedIn, TypeOK, stateVars, readVars, historyVars
<1>5. CASE CallRead
  BY <1>5 DEF CallRead, TypeOK, deviceVars, stateVars, historyVars
<1>6. CASE ReadEvents
  BY <1>6, StepReadEvents
<1>7. CASE HandleMove
  BY <1>7, StepHandleMove
<1>8. CASE HandleSyn
  BY <1>8, StepHandleSyn
<1>9. CASE HandleDropped
  BY <1>9, StepHandleDropped
<1>10. CASE ChunkHandled
  BY <1>10 DEF ChunkHandled, TypeOK, deviceVars, stateVars, historyVars
<1>11. CASE ReadReturns
  BY <1>11, StepReadReturns
<1>12. CASE ReadFindsLoss
  BY <1>12 DEF ReadFindsLoss, TypeOK, deviceVars, historyVars
<1>13. CASE Reconnect
  <2>1. /\ Rest \in Position /\ AllReleased \in [Field -> 0..1]
        /\ << >> \in Seq(Event) /\ Len(<< >>) = 0 /\ Slots \in Nat
    BY SizesAssumption, EmptySeq DEF Rest, AllReleased, Position
  <2>2. isOpen' \in BOOLEAN /\ gone' \in BOOLEAN /\ dirty' \in BOOLEAN
    BY <1>13 DEF Reconnect
  <2>3. /\ boundary' \in Position /\ acc' \in [Field -> 0..1] /\ hat' \in 0..1
        /\ queue' \in Seq(Event) /\ Len(queue') <= Slots
    BY <1>13, <2>1 DEF Reconnect
  <2>. QED BY <1>13, <2>2, <2>3 DEF Reconnect, TypeOK, readVars
<1>14. CASE ReconnectFails
  <2>1. AllReleased \in [Field -> 0..1]
    BY DEF AllReleased
  <2>2. acc' = AllReleased /\ hat' = 0 /\ dirty' = FALSE
    BY <1>14 DEF ReconnectFails
  <2>3. UNCHANGED <<deviceVars, isOpen, readVars, historyVars>>
    BY <1>14 DEF ReconnectFails
  <2>4. acc' \in [Field -> 0..1] /\ hat' \in 0..1
    BY <2>1, <2>2
  <2>5. ({plugged, unsynced, gone, isOpen, dirty, complete, result} \subseteq BOOLEAN)'
    BY <2>2, <2>3 DEF TypeOK, deviceVars, readVars
  <2>. QED BY <2>3, <2>4, <2>5 DEF TypeOK, deviceVars, readVars, historyVars
<1>15. CASE UNCHANGED vars
  BY <1>15 DEF vars, TypeOK, deviceVars, stateVars, readVars, historyVars
<1>. QED BY <1>1, <1>2, <1>3, <1>4, <1>5, <1>6, <1>7, <1>8, <1>9, <1>10, <1>11, <1>12,
            <1>13, <1>14, <1>15 DEF Next, Source, Pad

(***************************************************************************)
(* Type correctness of the source, the kernel's buffer and the pad.        *)
(***************************************************************************)
THEOREM EvdevTypeCorrect == Spec => []TypeOK
BY InitTypeOK, NextTypeOK, PTL DEF Spec

-----------------------------------------------------------------------------
(***************************************************************************)
(* Nothing from before.  What has not reported since the descriptor was    *)
(* opened is at rest in the accumulator, in the middle of a packet too;    *)
(* what was returned is the accumulator, until the next call.              *)
(***************************************************************************)
Untouched(state) ==
  \A f \in Field : f \notin touched \cup {DpadKey} => state[f] = 0

IInv ==
  /\ TypeOK
  /\ Untouched(acc)
  /\ Hat \notin touched => hat = 0
  /\ pc # "idle" => isOpen
  /\ result => /\ pc = "idle" /\ isOpen
               /\ Untouched(out)
               /\ Hat \notin touched => out[DpadKey] = 0

LEMMA InitIInv == Init => IInv
BY InitTypeOK DEF Init, IInv, Untouched, AllReleased

LEMMA NextIInv == IInv /\ [Next]_vars => IInv'
<1>. SUFFICES ASSUME IInv, [Next]_vars PROVE IInv'
  OBVIOUS
<1>. USE DEF IInv
<1>1. TypeOK /\ TypeOK'
  BY NextTypeOK
<1>2. CASE Pad
  <2>1. UNCHANGED <<stateVars, readVars, historyVars>>
    BY <1>2 DEF Pad, PadSyncs, Unplugged, PluggedIn, PadMoves
  <2>. QED BY <1>1, <2>1 DEF Untouched, stateVars, readVars, historyVars
<1>3. CASE CallRead
  BY <1>1, <1>3 DEF CallRead, Untouched, stateVars, historyVars
<1>4. CASE ReadEvents
  BY <1>1, <1>4 DEF ReadEvents, Untouched, stateVars, historyVars
<1>5. CASE HandleMove
  <2>1. ~result /\ ~result' /\ isOpen' /\ hat \in 0..1
    BY <1>5 DEF HandleMove, Handles, TypeOK, deviceVars
  <2>2. CASE Head(evs).ctl \in Bound
    <3>1. Untouched(acc)'
      BY <1>1, <1>5, <2>2 DEF HandleMove, Untouched, TypeOK
    <3>2. (Hat \notin touched => hat = 0)'
      BY <1>5, <2>2 DEF HandleMove
    <3>. QED BY <1>1, <2>1, <3>1, <3>2
  <2>3. CASE Head(evs).ctl \notin Bound
    <3>1. acc' = acc /\ hat' = hat /\ touched' = touched
      BY <1>5, <2>3 DEF HandleMove
    <3>. QED BY <1>1, <2>1, <3>1 DEF Untouched
  <2>. QED BY <2>2, <2>3
<1>6. CASE HandleSyn
  BY <1>1, <1>6 DEF HandleSyn, Handles, Untouched
<1>7. CASE HandleDropped
  BY <1>1, <1>7 DEF HandleDropped, Handles, Untouched
<1>8. CASE ChunkHandled
  BY <1>1, <1>8 DEF ChunkHandled, Untouched, stateVars, historyVars
<1>9. CASE ReadReturns
  <2>1. touched' = touched /\ hat' = hat /\ pc' = "idle" /\ isOpen' = isOpen /\ result' = complete
    BY <1>9 DEF ReadReturns, historyVars
  <2>2. Untouched(HatFolded) /\ HatFolded[DpadKey] = hat
    BY ControlAssumption DEF HatFolded, Untouched, TypeOK, Field
  <2>3. acc' = acc \/ acc' = HatFolded
    BY <1>9 DEF ReadReturns
  <2>4. result' => out' = HatFolded
    BY <1>9 DEF ReadReturns
  <2>5. result' => isOpen
    BY <1>9 DEF ReadReturns
  <2>. QED BY <1>1, <2>1, <2>2, <2>3, <2>4, <2>5 DEF Untouched
<1>10. CASE ReadFindsLoss
  BY <1>1, <1>10 DEF ReadFindsLoss, Untouched, historyVars
<1>11. CASE Reconnect
  BY <1>1, <1>11 DEF Reconnect, Untouched, AllReleased, readVars
<1>12. CASE ReconnectFails
  BY <1>1, <1>12 DEF ReconnectFails, Untouched, AllReleased, readVars, historyVars
<1>13. CASE UNCHANGED vars
  BY <1>1, <1>13 DEF vars, Untouched, stateVars, readVars, historyVars
<1>. QED BY <1>2, <1>3, <1>4, <1>5, <1>6, <1>7, <1>8, <1>9, <1>10, <1>11, <1>12, <1>13
         DEF Next, Source

(***************************************************************************)
(* A pad that was lost and reopened shows nothing of what the old one held *)
(* (evdev_source.cpp:225-229), whatever it was lost in the middle of.      *)
(***************************************************************************)
THEOREM OldPadForgotten == Spec => []NothingFromBefore
<1>1. IInv => NothingFromBefore
  BY ControlAssumption DEF IInv, NothingFromBefore, Untouched, Shown, Field
<1>. QED BY InitIInv, NextIInv, <1>1, PTL DEF Spec

-----------------------------------------------------------------------------
(***************************************************************************)
(* Coherence.  The events still to be handled, in evs and in the kernel's  *)
(* buffer, are one stream.  It agrees with itself, with what is known of   *)
(* the pad so far and with where the pad is: a control is where its last   *)
(* event left it, unless events were dropped in between.                   *)
(***************************************************************************)
Tells(e, c) == e.kind = "move" /\ e.ctl = c
Hides(e, c) == e.kind = "dropped" \/ Tells(e, c)

(* From one event to a later SYN_REPORT. *)
Within(s) ==
  \A c \in Control : \A j, k \in 1 .. Len(s) :
    j < k /\ Tells(s[j], c) /\ s[k].kind = "syn" /\ (\A i \in j + 1 .. k - 1 : ~Hides(s[i], c))
      => s[k].pad[c] = s[j].val

(* From what is known, of the controls in known, to a SYN_REPORT. *)
FromHere(s, known, held) ==
  \A c \in known : \A k \in 1 .. Len(s) :
    s[k].kind = "syn" /\ (\A i \in 1 .. k - 1 : ~Hides(s[i], c)) => s[k].pad[c] = held[c]

(* From an event to the pad p. *)
ToThere(s, p) ==
  \A c \in Control : \A j \in 1 .. Len(s) :
    Tells(s[j], c) /\ (\A i \in j + 1 .. Len(s) : ~Hides(s[i], c)) => p[c] = s[j].val

(* From what is known to the pad. *)
Through(s, known, held, p) ==
  \A c \in known : (\A i \in 1 .. Len(s) : ~Hides(s[i], c)) => p[c] = held[c]

Agrees(s, known, held, p) ==
  Within(s) /\ FromHere(s, known, held) /\ ToThere(s, p) /\ Through(s, known, held, p)

(* t is s and one event more. *)
Grown(s, t, e) ==
  /\ Len(s) \in Nat /\ Len(t) = Len(s) + 1
  /\ t[Len(s) + 1] = e /\ \A i \in 1 .. Len(s) : t[i] = s[i]

(* s is an event and t. *)
Shrunk(s, t) ==
  /\ Len(s) \in Nat /\ Len(s) > 0 /\ Len(t) = Len(s) - 1
  /\ \A i \in 1 .. Len(t) : t[i] = s[i + 1]

LEMMA AgreesMove ==
  ASSUME NEW s, NEW t, NEW known \in SUBSET Control, NEW held, NEW p \in Position, NEW c \in Control,
         NEW v \in 0..1, Agrees(s, known, held, p), Grown(s, t, Moved(c, v))
  PROVE  Agrees(t, known, held, [p EXCEPT ![c] = v])
<1>. DEFINE n == Len(s)  q == [p EXCEPT ![c] = v]
<1>0. /\ n \in Nat /\ Len(t) = n + 1 /\ \A i \in 1 .. n : t[i] = s[i]
      /\ t[n + 1].kind = "move" /\ t[n + 1].ctl = c /\ t[n + 1].val = v
  BY DEF Grown, Moved
<1>00. q[c] = v /\ \A d \in Control : d # c => q[d] = p[d]
  BY DEF Position
<1>. HIDE DEF n, q
<1>1. Within(t)
  <2>. SUFFICES ASSUME NEW d \in Control, NEW j \in 1 .. n + 1, NEW k \in 1 .. n + 1, j < k,
                       Tells(t[j], d), t[k].kind = "syn", \A i \in j + 1 .. k - 1 : ~Hides(t[i], d)
                PROVE  t[k].pad[d] = t[j].val
    BY <1>0 DEF Within
  <2>1. k \in 1 .. n /\ j \in 1 .. n
    BY <1>0
  <2>2. \A i \in j + 1 .. k - 1 : ~Hides(s[i], d)
    BY <1>0, <2>1
  <2>. QED BY <1>0, <2>1, <2>2 DEF Agrees, Within, n
<1>2. FromHere(t, known, held)
  <2>. SUFFICES ASSUME NEW d \in known, NEW k \in 1 .. n + 1, t[k].kind = "syn",
                       \A i \in 1 .. k - 1 : ~Hides(t[i], d)
                PROVE  t[k].pad[d] = held[d]
    BY <1>0 DEF FromHere
  <2>1. k \in 1 .. n
    BY <1>0
  <2>2. \A i \in 1 .. k - 1 : ~Hides(s[i], d)
    BY <1>0, <2>1
  <2>. QED BY <1>0, <2>1, <2>2 DEF Agrees, FromHere, n
<1>3. ToThere(t, q)
  <2>. SUFFICES ASSUME NEW d \in Control, NEW j \in 1 .. n + 1, Tells(t[j], d),
                       \A i \in j + 1 .. n + 1 : ~Hides(t[i], d)
                PROVE  q[d] = t[j].val
    BY <1>0 DEF ToThere
  <2>1. CASE j = n + 1
    BY <1>0, <1>00, <2>1 DEF Tells
  <2>2. CASE j # n + 1
    <3>1. j \in 1 .. n /\ n + 1 \in j + 1 .. n + 1
      BY <1>0, <2>2
    <3>2. ~Tells(t[n + 1], d)
      BY <3>1 DEF Hides
    <3>3. d # c
      BY <1>0, <3>2 DEF Tells
    <3>4. Tells(s[j], d) /\ \A i \in j + 1 .. n : ~Hides(s[i], d)
      BY <1>0, <3>1
    <3>5. p[d] = s[j].val
      BY <3>1, <3>4 DEF Agrees, ToThere, n
    <3>. QED BY <1>0, <1>00, <3>1, <3>3, <3>5
  <2>. QED BY <2>1, <2>2
<1>4. Through(t, known, held, q)
  <2>. SUFFICES ASSUME NEW d \in known, \A i \in 1 .. n + 1 : ~Hides(t[i], d)
                PROVE  q[d] = held[d]
    BY <1>0 DEF Through
  <2>1. ~Tells(t[n + 1], d) /\ d \in Control
    BY <1>0 DEF Hides
  <2>2. d # c
    BY <1>0, <2>1 DEF Tells
  <2>3. \A i \in 1 .. n : ~Hides(s[i], d)
    BY <1>0
  <2>4. p[d] = held[d]
    BY <2>3 DEF Agrees, Through, n
  <2>. QED BY <1>00, <2>1, <2>2, <2>4
<1>. QED BY <1>1, <1>2, <1>3, <1>4 DEF Agrees, q

LEMMA AgreesSyn ==
  ASSUME NEW s, NEW t, NEW known \in SUBSET Control, NEW held, NEW p, Agrees(s, known, held, p),
         Grown(s, t, Syn(p))
  PROVE  Agrees(t, known, held, p)
<1>. DEFINE n == Len(s)
<1>0. /\ n \in Nat /\ Len(t) = n + 1 /\ \A i \in 1 .. n : t[i] = s[i]
      /\ t[n + 1].kind = "syn" /\ t[n + 1].pad = p
  BY DEF Grown, Syn
<1>00. \A d : ~Hides(t[n + 1], d)
  BY <1>0 DEF Hides, Tells
<1>. HIDE DEF n
<1>1. Within(t)
  <2>. SUFFICES ASSUME NEW d \in Control, NEW j \in 1 .. n + 1, NEW k \in 1 .. n + 1, j < k,
                       Tells(t[j], d), t[k].kind = "syn", \A i \in j + 1 .. k - 1 : ~Hides(t[i], d)
                PROVE  t[k].pad[d] = t[j].val
    BY <1>0 DEF Within
  <2>1. j \in 1 .. n /\ Tells(s[j], d) /\ t[j].val = s[j].val
    BY <1>0
  <2>2. CASE k = n + 1
    <3>1. \A i \in j + 1 .. n : ~Hides(s[i], d)
      BY <1>0, <2>1, <2>2
    <3>. QED BY <1>0, <2>1, <2>2, <3>1 DEF Agrees, ToThere, n
  <2>3. CASE k # n + 1
    <3>1. k \in 1 .. n /\ \A i \in j + 1 .. k - 1 : ~Hides(s[i], d)
      BY <1>0, <2>1, <2>3
    <3>. QED BY <1>0, <2>1, <3>1 DEF Agrees, Within, n
  <2>. QED BY <2>2, <2>3
<1>2. FromHere(t, known, held)
  <2>. SUFFICES ASSUME NEW d \in known, NEW k \in 1 .. n + 1, t[k].kind = "syn",
                       \A i \in 1 .. k - 1 : ~Hides(t[i], d)
                PROVE  t[k].pad[d] = held[d]
    BY <1>0 DEF FromHere
  <2>1. CASE k = n + 1
    <3>1. \A i \in 1 .. n : ~Hides(s[i], d)
      BY <1>0, <2>1
    <3>. QED BY <1>0, <2>1, <3>1 DEF Agrees, Through, n
  <2>2. CASE k # n + 1
    <3>1. k \in 1 .. n /\ \A i \in 1 .. k - 1 : ~Hides(s[i], d)
      BY <1>0, <2>2
    <3>. QED BY <1>0, <3>1 DEF Agrees, FromHere, n
  <2>. QED BY <2>1, <2>2
<1>3. ToThere(t, p)
  <2>. SUFFICES ASSUME NEW d \in Control, NEW j \in 1 .. n + 1, Tells(t[j], d),
                       \A i \in j + 1 .. n + 1 : ~Hides(t[i], d)
                PROVE  p[d] = t[j].val
    BY <1>0 DEF ToThere
  <2>1. j # n + 1
    BY <1>0 DEF Tells
  <2>2. j \in 1 .. n /\ Tells(s[j], d) /\ \A i \in j + 1 .. n : ~Hides(s[i], d)
    BY <1>0, <2>1
  <2>. QED BY <1>0, <2>2 DEF Agrees, ToThere, n
<1>4. Through(t, known, held, p)
  BY <1>0 DEF Agrees, Through, n
<1>. QED BY <1>1, <1>2, <1>3, <1>4 DEF Agrees

(* After a gap nothing is said of where the pad is. *)
LEMMA AgreesDropped ==
  ASSUME NEW s, NEW t, NEW known, NEW held, NEW p, Within(s), FromHere(s, known, held),
         Grown(s, t, Dropped)
  PROVE  Agrees(t, known, held, p)
<1>. DEFINE n == Len(s)
<1>0. /\ n \in Nat /\ Len(t) = n + 1 /\ \A i \in 1 .. n : t[i] = s[i]
      /\ t[n + 1].kind = "dropped"
  BY DEF Grown, Dropped
<1>00. \A d : Hides(t[n + 1], d) /\ ~Tells(t[n + 1], d)
  BY <1>0 DEF Hides, Tells
<1>. HIDE DEF n
<1>1. Within(t)
  <2>. SUFFICES ASSUME NEW d \in Control, NEW j \in 1 .. n + 1, NEW k \in 1 .. n + 1, j < k,
                       Tells(t[j], d), t[k].kind = "syn", \A i \in j + 1 .. k - 1 : ~Hides(t[i], d)
                PROVE  t[k].pad[d] = t[j].val
    BY <1>0 DEF Within
  <2>1. k \in 1 .. n /\ j \in 1 .. n
    BY <1>0
  <2>2. \A i \in j + 1 .. k - 1 : ~Hides(s[i], d)
    BY <1>0, <2>1
  <2>. QED BY <1>0, <2>1, <2>2 DEF Within, n
<1>2. FromHere(t, known, held)
  <2>. SUFFICES ASSUME NEW d \in known, NEW k \in 1 .. n + 1, t[k].kind = "syn",
                       \A i \in 1 .. k - 1 : ~Hides(t[i], d)
                PROVE  t[k].pad[d] = held[d]
    BY <1>0 DEF FromHere
  <2>1. k \in 1 .. n
    BY <1>0
  <2>2. \A i \in 1 .. k - 1 : ~Hides(s[i], d)
    BY <1>0, <2>1
  <2>. QED BY <1>0, <2>1, <2>2 DEF FromHere, n
<1>3. ToThere(t, p)
  <2>. SUFFICES ASSUME NEW d \in Control, NEW j \in 1 .. n + 1, Tells(t[j], d),
                       \A i \in j + 1 .. n + 1 : ~Hides(t[i], d)
                PROVE  FALSE
    BY <1>0 DEF ToThere
  <2>1. j # n + 1
    BY <1>00
  <2>2. n + 1 \in j + 1 .. n + 1
    BY <1>0, <2>1
  <2>. QED BY <1>00, <2>2
<1>4. Through(t, known, held, p)
  <2>1. n + 1 \in 1 .. Len(t)
    BY <1>0
  <2>. QED BY <1>00, <2>1 DEF Through
<1>. QED BY <1>1, <1>2, <1>3, <1>4 DEF Agrees

(* What is left of a stream after its first event, and what is known then. *)
LEMMA AgreesShrunk ==
  ASSUME NEW s, NEW t, NEW known \in SUBSET Control, NEW held, NEW p, Agrees(s, known, held, p),
         Shrunk(s, t), NEW after \in SUBSET Control, NEW heldAfter,
         \A c \in after : IF Tells(s[1], c) THEN heldAfter[c] = s[1].val
                          ELSE c \in known /\ heldAfter[c] = held[c] /\ s[1].kind # "dropped"
  PROVE  Agrees(t, after, heldAfter, p)
<1>. DEFINE n == Len(t)
<1>0. n \in Nat /\ Len(s) = n + 1 /\ \A i \in 1 .. n : t[i] = s[i + 1]
  BY DEF Shrunk
<1>. HIDE DEF n
<1>01. ASSUME NEW d, NEW j \in 0 .. n, NEW k \in 0 .. n, \A i \in j + 1 .. k : ~Hides(t[i], d)
       PROVE  \A i \in j + 2 .. k + 1 : ~Hides(s[i], d)
  <2>. SUFFICES ASSUME NEW i \in j + 2 .. k + 1 PROVE ~Hides(s[i], d)
    OBVIOUS
  <2>1. i - 1 \in j + 1 .. k /\ i - 1 \in 1 .. n /\ (i - 1) + 1 = i
    BY <1>0
  <2>. QED BY <1>0, <1>01, <2>1
<1>1. Within(t)
  <2>. SUFFICES ASSUME NEW d \in Control, NEW j \in 1 .. n, NEW k \in 1 .. n, j < k,
                       Tells(t[j], d), t[k].kind = "syn", \A i \in j + 1 .. k - 1 : ~Hides(t[i], d)
                PROVE  t[k].pad[d] = t[j].val
    BY DEF Within, n
  <2>1. j + 1 \in 1 .. n + 1 /\ k + 1 \in 1 .. n + 1 /\ j + 1 < k + 1
    BY <1>0
  <2>2. \A i \in (j + 1) + 1 .. (k + 1) - 1 : ~Hides(s[i], d)
    <3>1. j \in 0 .. n /\ k - 1 \in 0 .. n /\ j + 2 = (j + 1) + 1 /\ (k - 1) + 1 = (k + 1) - 1
      BY <1>0
    <3>2. \A i \in j + 2 .. (k - 1) + 1 : ~Hides(s[i], d)
      BY <1>01, <3>1
    <3>. QED BY <3>1, <3>2
  <2>. QED BY <1>0, <2>1, <2>2 DEF Agrees, Within
<1>2. ToThere(t, p)
  <2>. SUFFICES ASSUME NEW d \in Control, NEW j \in 1 .. n, Tells(t[j], d),
                       \A i \in j + 1 .. n : ~Hides(t[i], d)
                PROVE  p[d] = t[j].val
    BY DEF ToThere, n
  <2>1. j + 1 \in 1 .. n + 1
    BY <1>0
  <2>2. \A i \in (j + 1) + 1 .. n + 1 : ~Hides(s[i], d)
    <3>1. j \in 0 .. n /\ n \in 0 .. n /\ j + 2 = (j + 1) + 1
      BY <1>0
    <3>2. \A i \in j + 2 .. n + 1 : ~Hides(s[i], d)
      BY <1>01, <3>1
    <3>. QED BY <3>1, <3>2
  <2>. QED BY <1>0, <2>1, <2>2 DEF Agrees, ToThere
<1>3. FromHere(t, after, heldAfter)
  <2>. SUFFICES ASSUME NEW d \in after, NEW k \in 1 .. n, t[k].kind = "syn",
                       \A i \in 1 .. k - 1 : ~Hides(t[i], d)
                PROVE  t[k].pad[d] = heldAfter[d]
    BY DEF FromHere, n
  <2>1. k + 1 \in 1 .. n + 1 /\ 1 \in 1 .. n + 1 /\ 1 < k + 1 /\ s[k + 1] = t[k]
    BY <1>0
  <2>2. \A i \in 2 .. k : ~Hides(s[i], d)
    BY <1>0, <1>01
  <2>3. CASE Tells(s[1], d)
    <3>1. \A i \in 1 + 1 .. (k + 1) - 1 : ~Hides(s[i], d)
      BY <2>2
    <3>. QED BY <1>0, <2>1, <2>3, <3>1 DEF Agrees, Within
  <2>4. CASE ~Tells(s[1], d)
    <3>1. \A i \in 1 .. (k + 1) - 1 : ~Hides(s[i], d)
      BY <2>2, <2>4 DEF Hides
    <3>. QED BY <1>0, <2>1, <2>4, <3>1 DEF Agrees, FromHere
  <2>. QED BY <2>3, <2>4
<1>4. Through(t, after, heldAfter, p)
  <2>. SUFFICES ASSUME NEW d \in after, \A i \in 1 .. n : ~Hides(t[i], d)
                PROVE  p[d] = heldAfter[d]
    BY DEF Through, n
  <2>1. \A i \in 2 .. n + 1 : ~Hides(s[i], d)
    BY <1>0, <1>01
  <2>2. CASE Tells(s[1], d)
    <3>1. 1 \in 1 .. n + 1 /\ \A i \in 1 + 1 .. n + 1 : ~Hides(s[i], d)
      BY <1>0, <2>1
    <3>. QED BY <1>0, <2>2, <3>1 DEF Agrees, ToThere
  <2>3. CASE ~Tells(s[1], d)
    <3>1. \A i \in 1 .. n + 1 : ~Hides(s[i], d)
      BY <2>1, <2>3 DEF Hides
    <3>. QED BY <1>0, <2>3, <3>1 DEF Agrees, Through
  <2>. QED BY <2>2, <2>3
<1>. QED BY <1>1, <1>2, <1>3, <1>4 DEF Agrees

(* A beginning of a stream. *)
LEMMA AgreesPrefix ==
  ASSUME NEW s, NEW t, Within(s), NEW known, NEW held, FromHere(s, known, held),
         Len(s) \in Nat, Len(t) \in Nat, Len(t) <= Len(s), \A i \in 1 .. Len(t) : t[i] = s[i]
  PROVE  Within(t) /\ FromHere(t, known, held)
<1>. DEFINE n == Len(t)  m == Len(s)
<1>0. n \in Nat /\ m \in Nat /\ n <= m /\ \A i \in 1 .. n : t[i] = s[i]
  OBVIOUS
<1>. HIDE DEF n, m
<1>1. Within(t)
  <2>. SUFFICES ASSUME NEW d \in Control, NEW j \in 1 .. n, NEW k \in 1 .. n, j < k,
                       Tells(t[j], d), t[k].kind = "syn", \A i \in j + 1 .. k - 1 : ~Hides(t[i], d)
                PROVE  t[k].pad[d] = t[j].val
    BY DEF Within, n
  <2>1. j \in 1 .. m /\ k \in 1 .. m /\ t[j] = s[j] /\ t[k] = s[k]
    BY <1>0
  <2>2. \A i \in j + 1 .. k - 1 : i \in 1 .. n
    BY <1>0
  <2>3. \A i \in j + 1 .. k - 1 : ~Hides(s[i], d)
    BY <1>0, <2>2
  <2>. QED BY <2>1, <2>3 DEF Within, m
<1>2. FromHere(t, known, held)
  <2>. SUFFICES ASSUME NEW d \in known, NEW k \in 1 .. n, t[k].kind = "syn",
                       \A i \in 1 .. k - 1 : ~Hides(t[i], d)
                PROVE  t[k].pad[d] = held[d]
    BY DEF FromHere, n
  <2>1. k \in 1 .. m /\ t[k] = s[k]
    BY <1>0
  <2>2. \A i \in 1 .. k - 1 : i \in 1 .. n
    BY <1>0
  <2>3. \A i \in 1 .. k - 1 : ~Hides(s[i], d)
    BY <1>0, <2>2
  <2>. QED BY <2>1, <2>3 DEF FromHere, m
<1>. QED BY <1>1, <1>2

-----------------------------------------------------------------------------
Live == isOpen /\ ~gone
Stream == evs \o queue
Known == seen \ {DpadKey}
Held == [c \in Control |-> IF c = Hat THEN hat ELSE acc[c]]

Ends(q) == \E i \in 1 .. Len(q) : q[i].kind \in {"syn", "dropped"}
Settled == \A c \in Known : boundary[c] = Held[c]

(* A packet that was begun has its end in what is left of evs, or still in the buffer. *)
StreamInv ==
  Live =>
    /\ plugged
    /\ Agrees(Stream, Known, Held, pad)
    /\ evs # << >> => evs[Len(evs)].kind = "syn" \/ Ends(queue)
    /\ evs = << >> => Settled \/ Ends(queue)

CoherentInv == IInv /\ (pc # "handles" => evs = << >>) /\ StreamInv /\ Coherent

LEMMA StreamFacts ==
  ASSUME TypeOK
  PROVE  /\ Stream \in Seq(Event) /\ Len(evs) \in Nat /\ Len(queue) \in Nat
         /\ evs \in Seq(Event) /\ queue \in Seq(Event)
         /\ Len(Stream) = Len(evs) + Len(queue)
         /\ \A i \in 1 .. Len(evs) : Stream[i] = evs[i]
         /\ \A i \in 1 .. Len(queue) : Stream[Len(evs) + i] = queue[i]
<1>1. evs \in Seq(Event) /\ queue \in Seq(Event) /\ Len(evs) \in Nat /\ Len(queue) \in Nat
  BY LenProperties DEF TypeOK
<1>. HIDE DEF TypeOK
<1>2. /\ Stream \in Seq(Event) /\ Len(Stream) = Len(evs) + Len(queue)
      /\ \A i \in 1 .. Len(evs) + Len(queue) :
           Stream[i] = IF i <= Len(evs) THEN evs[i] ELSE queue[i - Len(evs)]
  BY <1>1, ConcatProperties DEF Stream
<1>3. ASSUME NEW i \in 1 .. Len(evs) PROVE Stream[i] = evs[i]
  BY <1>1, <1>2
<1>4. ASSUME NEW i \in 1 .. Len(queue) PROVE Stream[Len(evs) + i] = queue[i]
  <2>1. Len(evs) + i \in 1 .. Len(evs) + Len(queue) /\ ~(Len(evs) + i <= Len(evs))
        /\ (Len(evs) + i) - Len(evs) = i
    BY <1>1
  <2>. QED BY <1>2, <2>1
<1>. QED BY <1>1, <1>2, <1>3, <1>4

(* The kernel's event is the stream's last, after a gap if the buffer was full. *)
LEMMA BufferedGrows ==
  ASSUME TypeOK, TypeOK', Live, NEW e \in Event, Buffered(e), evs' = evs
  PROVE  /\ \/ Grown(Stream, Stream', e)
            \/ \E t : Grown(evs, t, Dropped) /\ Grown(t, Stream', e)
         /\ Ends(queue) => Ends(queue')
         /\ Overflowed => Overflowed'
<1>1. /\ Stream \in Seq(Event) /\ Len(evs) \in Nat /\ Len(queue) \in Nat
      /\ evs \in Seq(Event) /\ queue \in Seq(Event) /\ Len(Stream) = Len(evs) + Len(queue)
      /\ \A i \in 1 .. Len(evs) : Stream[i] = evs[i]
      /\ \A i \in 1 .. Len(queue) : Stream[Len(evs) + i] = queue[i]
  BY StreamFacts
<1>2. /\ Len(queue') \in Nat /\ Len(Stream') = Len(evs) + Len(queue')
      /\ \A i \in 1 .. Len(evs) : Stream'[i] = evs[i]
      /\ \A i \in 1 .. Len(queue') : Stream'[Len(evs) + i] = queue'[i]
  <2>1. queue' \in Seq(Event) /\ Len(queue') \in Nat
    BY LenProperties DEF TypeOK
  <2>2. Stream' = evs \o queue'
    BY DEF Stream
  <2>3. /\ Len(Stream') = Len(evs) + Len(queue')
        /\ \A i \in 1 .. Len(evs) + Len(queue') :
             Stream'[i] = IF i <= Len(evs) THEN evs[i] ELSE queue'[i - Len(evs)]
    BY <1>1, <2>1, <2>2, ConcatProperties
  <2>4. ASSUME NEW i \in 1 .. Len(evs) PROVE Stream'[i] = evs[i]
    BY <1>1, <2>1, <2>3
  <2>5. ASSUME NEW i \in 1 .. Len(queue') PROVE Stream'[Len(evs) + i] = queue'[i]
    <3>1. Len(evs) + i \in 1 .. Len(evs) + Len(queue') /\ ~(Len(evs) + i <= Len(evs))
          /\ (Len(evs) + i) - Len(evs) = i
      BY <1>1, <2>1
    <3>. QED BY <2>3, <3>1
  <2>. QED BY <2>1, <2>3, <2>4, <2>5
<1>3. CASE queue' = Append(queue, e)
  <2>1. /\ Len(queue') = Len(queue) + 1 /\ queue'[Len(queue) + 1] = e
        /\ \A i \in 1 .. Len(queue) : queue'[i] = queue[i]
    BY <1>1, <1>3, AppendProperties
  <2>2. Len(Stream') = Len(Stream) + 1 /\ Stream'[Len(Stream) + 1] = e
    BY <1>1, <1>2, <2>1
  <2>3. ASSUME NEW i \in 1 .. Len(Stream) PROVE Stream'[i] = Stream[i]
    <3>1. CASE i \in 1 .. Len(evs)
      BY <1>1, <1>2, <3>1
    <3>2. CASE i \notin 1 .. Len(evs)
      <4>1. PICK k \in 1 .. Len(queue) : i = Len(evs) + k
        <5>1. i - Len(evs) \in 1 .. Len(queue) /\ i = Len(evs) + (i - Len(evs))
          BY <1>1, <3>2
        <5>. QED BY <5>1
      <4>2. k \in 1 .. Len(queue')
        BY <1>1, <2>1
      <4>. QED BY <1>1, <1>2, <2>1, <4>1, <4>2
    <3>. QED BY <3>1, <3>2
  <2>4. Grown(Stream, Stream', e)
    BY <1>1, <2>2, <2>3 DEF Grown
  <2>5. \A i \in 1 .. Len(queue) : i \in 1 .. Len(queue')
    BY <1>1, <2>1
  <2>. QED BY <2>1, <2>4, <2>5 DEF Ends, Overflowed
<1>4. CASE queue' = <<Dropped, e>>
  <2>. DEFINE t == Append(evs, Dropped)
  <2>1. Len(queue') = 2 /\ queue'[1] = Dropped /\ queue'[2] = e
    BY <1>4
  <2>2. Dropped \in Event
    BY DEF Event
  <2>3. Len(t) = Len(evs) + 1 /\ t[Len(evs) + 1] = Dropped /\ \A i \in 1 .. Len(evs) : t[i] = evs[i]
    BY <1>1, <2>2, AppendProperties
  <2>. HIDE DEF t
  <2>4. Stream'[Len(evs) + 1] = Dropped /\ Stream'[Len(evs) + 2] = e /\ Len(Stream') = Len(t) + 1
    BY <1>1, <1>2, <2>1, <2>3
  <2>5. ASSUME NEW i \in 1 .. Len(t) PROVE Stream'[i] = t[i]
    <3>1. CASE i \in 1 .. Len(evs)
      BY <1>2, <2>3, <3>1
    <3>2. CASE i \notin 1 .. Len(evs)
      <4>1. i = Len(evs) + 1
        BY <1>1, <2>3, <3>2
      <4>. QED BY <2>3, <2>4, <4>1
    <3>. QED BY <3>1, <3>2
  <2>6. Grown(evs, t, Dropped)
    BY <1>1, <2>3 DEF Grown
  <2>7. Grown(t, Stream', e)
    BY <1>1, <2>3, <2>4, <2>5 DEF Grown
  <2>8. 1 \in 1 .. Len(queue') /\ queue'[1].kind = "dropped"
    BY <2>1 DEF Dropped
  <2>. QED BY <2>6, <2>7, <2>8 DEF Ends, Overflowed
<1>. QED BY <1>3, <1>4 DEF Buffered, Live

(* What the pad does and reports keeps the stream in agreement with it. *)
LEMMA PadAgrees ==
  ASSUME CoherentInv, TypeOK', Live, (\E c \in Control : PadMoves(c)) \/ PadSyncs
  PROVE  /\ Agrees(Stream', Known, Held, pad')
         /\ Ends(queue) => Ends(queue')
         /\ Overflowed => Overflowed'
<1>. TypeOK /\ Agrees(Stream, Known, Held, pad) /\ pad \in Position /\ Known \in SUBSET Control
  BY ControlAssumption DEF CoherentInv, IInv, StreamInv, TypeOK, Known
<1>1. ASSUME NEW t, Grown(evs, t, Dropped)
      PROVE  Agrees(t, Known, Held, pad)
  <2>1. Within(evs) /\ FromHere(evs, Known, Held)
    <3>1. Len(evs) <= Len(Stream) /\ Len(Stream) \in Nat
      BY StreamFacts
    <3>. QED BY <3>1, StreamFacts, AgreesPrefix DEF Agrees
  <2>. QED BY <1>1, <2>1, AgreesDropped
<1>2. CASE PadSyncs
  <2>1. Buffered(Syn(pad)) /\ evs' = evs /\ pad' = pad /\ Syn(pad) \in Event
    BY <1>2 DEF PadSyncs, readVars, Syn, Event
  <2>2. Agrees(Stream', Known, Held, pad)
    BY <1>1, <2>1, BufferedGrows, AgreesSyn
  <2>. QED BY <2>1, <2>2, BufferedGrows
<1>3. CASE \E c \in Control : PadMoves(c)
  <2>1. PICK c \in Control : PadMoves(c)
    BY <1>3
  <2>. DEFINE v == 1 - pad[c]
  <2>2. v \in 0..1
    BY DEF Position
  <2>3. Buffered(Moved(c, v)) /\ evs' = evs /\ pad' = [pad EXCEPT ![c] = v]
    BY <2>1 DEF PadMoves, readVars
  <2>. HIDE DEF v
  <2>4. Moved(c, v) \in Event
    BY <2>2 DEF Moved, Event
  <2>5. Agrees(Stream', Known, Held, [pad EXCEPT ![c] = v])
    BY <1>1, <2>2, <2>3, <2>4, BufferedGrows, AgreesMove
  <2>. QED BY <2>3, <2>4, <2>5, BufferedGrows
<1>. QED BY <1>2, <1>3

(* Only what is held of the known controls is told by an agreement. *)
LEMMA AgreesSame ==
  ASSUME NEW s, NEW known, NEW held, NEW heldAfter, NEW p, Agrees(s, known, held, p),
         \A c \in known : heldAfter[c] = held[c]
  PROVE  Agrees(s, known, heldAfter, p)
<1>1. FromHere(s, known, heldAfter)
  BY DEF Agrees, FromHere
<1>2. Through(s, known, heldAfter, p)
  BY DEF Agrees, Through
<1>. QED BY <1>1, <1>2 DEF Agrees

LEMMA AgreesEmpty ==
  ASSUME NEW held, NEW p
  PROVE  Agrees(<< >>, {}, held, p)
BY DEF Agrees, Within, FromHere, ToThere, Through

(* An event is taken from the front of the stream, and the rest of evs stays. *)
LEMMA TakenFromStream ==
  ASSUME TypeOK, TypeOK', NEW kind, Handles(kind)
  PROVE  /\ Shrunk(Stream, Stream') /\ Stream[1] = Head(evs) /\ 1 \in 1 .. Len(Stream)
         /\ queue' = queue
         /\ evs' # << >> => evs'[Len(evs')] = evs[Len(evs)]
         /\ evs' = << >> => Head(evs) = evs[Len(evs)]
<1>1. /\ evs \in Seq(Event) /\ evs # << >> /\ evs' = Tail(evs) /\ queue' = queue
      /\ evs' \in Seq(Event) /\ queue \in Seq(Event)
  BY DEF Handles, TypeOK, deviceVars
<1>2. /\ Len(evs) \in Nat /\ Len(evs) > 0 /\ Head(evs) = evs[1]
      /\ Len(evs') = Len(evs) - 1 /\ \A i \in 1 .. Len(evs') : evs'[i] = evs[i + 1]
      /\ Len(queue) \in Nat
  BY <1>1, EmptySeq, LenProperties, HeadTailProperties
<1>3. /\ Len(Stream) = Len(evs) + Len(queue)
      /\ \A i \in 1 .. Len(evs) : Stream[i] = evs[i]
      /\ \A i \in 1 .. Len(queue) : Stream[Len(evs) + i] = queue[i]
  BY StreamFacts
<1>4. /\ Len(Stream') = Len(evs') + Len(queue)
      /\ \A i \in 1 .. Len(evs') + Len(queue) :
           Stream'[i] = IF i <= Len(evs') THEN evs'[i] ELSE queue[i - Len(evs')]
  <2>1. Stream' = evs' \o queue
    BY <1>1 DEF Stream
  <2>. QED BY <1>1, <2>1, ConcatProperties
<1>5. ASSUME NEW i \in 1 .. Len(Stream') PROVE Stream'[i] = Stream[i + 1]
  <2>1. CASE i <= Len(evs')
    <3>1. i \in 1 .. Len(evs') /\ i + 1 \in 1 .. Len(evs)
      BY <1>2, <2>1
    <3>. QED BY <1>2, <1>3, <1>4, <2>1, <3>1
  <2>2. CASE ~(i <= Len(evs'))
    <3>1. /\ i - Len(evs') \in 1 .. Len(queue) /\ i \in 1 .. Len(evs') + Len(queue)
          /\ Len(evs) + (i - Len(evs')) = i + 1
      BY <1>2, <1>4, <2>2
    <3>. QED BY <1>3, <1>4, <2>2, <3>1
  <2>. QED BY <2>1, <2>2
<1>6. Shrunk(Stream, Stream')
  <2>1. Len(Stream) \in Nat /\ Len(Stream) > 0 /\ Len(Stream') = Len(Stream) - 1
    BY <1>2, <1>3, <1>4
  <2>. QED BY <1>5, <2>1 DEF Shrunk
<1>7. ASSUME evs' # << >> PROVE evs'[Len(evs')] = evs[Len(evs)]
  <2>1. Len(evs') # 0
    BY <1>1, <1>7, EmptySeq
  <2>2. Len(evs') \in 1 .. Len(evs') /\ Len(evs') + 1 = Len(evs)
    BY <1>2, <2>1
  <2>. QED BY <1>2, <2>2
<1>8. ASSUME evs' = << >> PROVE Head(evs) = evs[Len(evs)]
  <2>1. Len(evs') = 0
    BY <1>8
  <2>2. Len(evs) = 1
    BY <1>2, <2>1
  <2>. QED BY <1>2, <2>2
<1>9. Stream[1] = Head(evs) /\ 1 \in 1 .. Len(Stream)
  BY <1>2, <1>3
<1>. QED BY <1>1, <1>6, <1>7, <1>8, <1>9

(* ::read() moves events from the buffer to evs, as far as a packet's end. *)
LEMMA ReadKeepsStream ==
  ASSUME TypeOK, TypeOK', evs = << >>, ReadEvents
  PROVE  /\ Stream' = Stream /\ evs' # << >>
         /\ evs'[Len(evs')].kind = "syn" \/ Ends(queue')
<1>1. PICK n \in 1..Chunk :
        /\ IsReadable(n)
        /\ evs' = SubSeq(queue, 1, n) /\ queue' = SubSeq(queue, n + 1, Len(queue))
  BY DEF ReadEvents
<1>2. n \in Nat /\ n > 0
  BY SizesAssumption
<1>3. queue \in Seq(Event) /\ Len(queue) \in Nat
  BY LenProperties DEF TypeOK
<1>4. PICK e \in n .. Len(queue) : queue[e].kind = "syn"
  BY <1>1 DEF IsReadable
<1>5. e \in Nat /\ n <= e /\ e <= Len(queue) /\ n <= Len(queue)
  BY <1>2, <1>3
<1>6. /\ evs' \in Seq(Event) /\ Len(evs') = n
      /\ queue' \in Seq(Event)
  BY <1>1, <1>2, <1>3, <1>5, CutInTwo
<1>7. /\ \A i \in 1 .. n : queue[i] \in Event
      /\ \A i \in n + 1 .. Len(queue) : queue[i] \in Event
  BY <1>2, <1>3, <1>5, LenProperties
<1>8. \A i \in 1 .. n : evs'[i] = queue[i]
  BY <1>1, <1>2, <1>3, <1>5, <1>7, SubSeqProperties
<1>9. /\ Len(queue') = Len(queue) - n
      /\ \A i \in 1 .. Len(queue) - n : queue'[i] = queue[n + i]
  <2>1. CASE n = Len(queue)
    BY <1>1, <1>2, <1>3, <1>7, <2>1, SubSeqProperties
  <2>2. CASE n # Len(queue)
    <3>1. n + 1 <= Len(queue)
      BY <1>2, <1>3, <1>5, <2>2
    <3>2. /\ Len(queue') = Len(queue) - (n + 1) + 1
          /\ \A i \in 1 .. Len(queue) - (n + 1) + 1 : queue'[i] = queue[(n + 1) + i - 1]
      BY <1>1, <1>2, <1>3, <1>7, <3>1, SubSeqProperties
    <3>. QED BY <1>2, <1>3, <3>2
  <2>. QED BY <2>1, <2>2
<1>10. Stream' = Stream
  <2>1. Stream = queue
    BY <1>3, ConcatEmptySeq DEF Stream
  <2>2. /\ Stream' \in Seq(Event) /\ Len(Stream') = n + (Len(queue) - n)
        /\ \A i \in 1 .. n + (Len(queue) - n) :
             Stream'[i] = IF i <= n THEN evs'[i] ELSE queue'[i - n]
    <3>1. Stream' = evs' \o queue'
      BY DEF Stream
    <3>2. /\ Stream' \in Seq(Event) /\ Len(Stream') = Len(evs') + Len(queue')
          /\ \A i \in 1 .. Len(evs') + Len(queue') :
               Stream'[i] = IF i <= Len(evs') THEN evs'[i] ELSE queue'[i - Len(evs')]
      BY <1>6, <3>1, ConcatProperties
    <3>3. Len(evs') = n /\ Len(queue') = Len(queue) - n
      BY <1>6, <1>9
    <3>. QED BY <3>2, <3>3
  <2>3. Len(Stream') = Len(queue)
    BY <1>2, <1>3, <2>2
  <2>4. ASSUME NEW i \in 1 .. Len(queue) PROVE Stream'[i] = queue[i]
    <3>1. CASE i <= n
      BY <1>2, <1>3, <1>8, <2>2, <3>1
    <3>2. CASE ~(i <= n)
      <4>1. i - n \in 1 .. Len(queue) - n /\ n + (i - n) = i
        BY <1>2, <1>3, <3>2
      <4>. QED BY <1>2, <1>3, <1>9, <2>2, <3>2, <4>1
    <3>. QED BY <3>1, <3>2
  <2>5. Stream' \in Seq(Event) /\ queue \in Seq(Event)
        /\ Len(Stream') = Len(queue) /\ \A i \in 1 .. Len(Stream') : Stream'[i] = queue[i]
    BY <1>3, <2>2, <2>3, <2>4
  <2>6. Stream' = queue
    BY <2>5, SeqEqual
  <2>. QED BY <2>1, <2>6
<1>11. evs' # << >>
  BY <1>2, <1>6, EmptySeq
<1>12. evs'[Len(evs')].kind = "syn" \/ Ends(queue')
  <2>1. CASE e = n
    BY <1>2, <1>4, <1>6, <1>8, <2>1
  <2>2. CASE e # n
    <3>1. e - n \in 1 .. Len(queue') /\ n + (e - n) = e /\ e - n \in 1 .. Len(queue) - n
      BY <1>2, <1>3, <1>5, <1>9, <2>2
    <3>2. queue'[e - n].kind = "syn"
      BY <1>4, <1>9, <3>1
    <3>. QED BY <3>1, <3>2 DEF Ends
  <2>. QED BY <2>1, <2>2
<1>. QED BY <1>10, <1>11, <1>12

LEMMA InitCoherent == Init => CoherentInv
<1>. SUFFICES ASSUME Init PROVE CoherentInv
  OBVIOUS
<1>1. Known = {} /\ evs = << >> /\ queue = << >> /\ isOpen = plugged /\ pc = "idle" /\ ~result
  BY DEF Init, Known
<1>2. Stream = << >>
  BY <1>1 DEF Stream
<1>3. StreamInv
  BY <1>1, <1>2, AgreesEmpty DEF StreamInv, Live, Settled
<1>. QED BY <1>1, <1>3, InitIInv DEF CoherentInv, Coherent

(* The pad and the kernel move while the source is anywhere in read(). *)
LEMMA CoherentPad ==
  ASSUME CoherentInv, IInv', Pad
  PROVE  CoherentInv'
<1>. TypeOK /\ TypeOK' /\ IInv /\ StreamInv /\ Coherent /\ (pc # "handles" => evs = << >>)
  BY DEF CoherentInv, IInv
<1>1. UNCHANGED <<isOpen, acc, hat, pc, evs, result, out, seen, boundary>>
  BY DEF Pad, PadSyncs, Unplugged, PluggedIn, PadMoves, stateVars, readVars, historyVars
<1>2. /\ Known' = Known /\ Held' = Held /\ (Settled' <=> Settled)
      /\ result => isOpen
  BY <1>1 DEF Known, Held, Settled, IInv
<1>3. CASE ((\E c \in Control : PadMoves(c)) \/ PadSyncs) /\ Live
  <2>1. gone' = gone /\ plugged' = plugged
    BY <1>3 DEF PadMoves, PadSyncs
  <2>2. /\ Agrees(Stream', Known, Held, pad')
        /\ Ends(queue) => Ends(queue')
        /\ Overflowed => Overflowed'
    BY <1>3, PadAgrees
  <2>3. Agrees(Stream', Known', Held', pad')
    BY <1>2, <2>2
  <2>4. StreamInv'
    BY <1>1, <1>2, <1>3, <2>1, <2>2, <2>3 DEF StreamInv, Live
  <2>5. Coherent'
    BY <1>1, <2>1, <2>2 DEF Coherent, Shown
  <2>. QED BY <1>1, <2>4, <2>5 DEF CoherentInv
<1>4. CASE ((\E c \in Control : PadMoves(c)) \/ PadSyncs) /\ ~Live
  <2>1. gone' = gone /\ (~isOpen \/ gone) /\ (gone \/ ~result)
    BY <1>2, <1>4 DEF PadMoves, PadSyncs, Live
  <2>2. ~Live' /\ (result' => gone')
    BY <1>1, <2>1 DEF Live
  <2>. QED BY <1>1, <2>2 DEF CoherentInv, StreamInv, Coherent
<1>5. CASE Unplugged
  <2>1. gone' = isOpen
    BY <1>5 DEF Unplugged
  <2>2. ~Live' /\ (result' => gone')
    BY <1>1, <1>2, <2>1 DEF Live
  <2>. QED BY <1>1, <2>2 DEF CoherentInv, StreamInv, Coherent
<1>6. CASE PluggedIn
  <2>1. gone' = gone /\ queue' = queue /\ ~Live
    BY <1>6 DEF PluggedIn, StreamInv
  <2>2. ~Live' /\ (result' => gone')
    BY <1>1, <1>2, <2>1 DEF Live
  <2>. QED BY <1>1, <2>2 DEF CoherentInv, StreamInv, Coherent
<1>. QED BY <1>3, <1>4, <1>5, <1>6 DEF Pad

(* An event is handled: what is known follows it. *)
LEMMA CoherentHandled ==
  ASSUME CoherentInv, IInv', NEW kind, Handles(kind), plugged' = plugged,
         Live => /\ Agrees(Stream', Known', Held', pad')
                 /\ kind = "move" \/ Settled'
  PROVE  CoherentInv'
<1>. TypeOK /\ TypeOK' /\ StreamInv
  BY DEF CoherentInv, IInv
<1>1. UNCHANGED <<isOpen, gone, pc>> /\ pc = "handles"
  BY DEF Handles, deviceVars
<1>2. /\ queue' = queue
      /\ evs' # << >> => evs'[Len(evs')] = evs[Len(evs)]
      /\ evs' = << >> => Head(evs) = evs[Len(evs)]
  BY TakenFromStream
<1>3. evs # << >> /\ Head(evs).kind = kind
  BY DEF Handles
<1>4. StreamInv'
  <2>. SUFFICES ASSUME Live
                PROVE  /\ plugged'
                       /\ Agrees(Stream', Known', Held', pad')
                       /\ evs' # << >> => evs'[Len(evs')].kind = "syn" \/ Ends(queue')
                       /\ evs' = << >> => Settled' \/ Ends(queue')
    BY <1>1 DEF StreamInv, Live
  <2>1. plugged /\ (evs[Len(evs)].kind = "syn" \/ Ends(queue))
    BY <1>3 DEF StreamInv
  <2>2. evs' # << >> => evs'[Len(evs')].kind = "syn" \/ Ends(queue')
    BY <1>2, <2>1
  <2>3. evs' = << >> => Settled' \/ Ends(queue')
    BY <1>2, <1>3, <2>1
  <2>. QED BY <2>1, <2>2, <2>3
<1>. QED BY <1>1, <1>4 DEF CoherentInv, Coherent

LEMMA CoherentMove ==
  ASSUME CoherentInv, IInv', HandleMove
  PROVE  CoherentInv'
<1>. TypeOK /\ TypeOK' /\ StreamInv /\ Handles("move")
  BY DEF CoherentInv, IInv, HandleMove
<1>. DEFINE e == Head(evs)
<1>1. e.kind = "move" /\ plugged' = plugged /\ pad' = pad
  BY DEF Handles, deviceVars
<1>2. e.ctl \in Control /\ e.val \in 0..1
  BY <1>1, EventTaken, MoveTyped
<1>3. Known \in SUBSET Control /\ Known' \in SUBSET Control /\ Known \subseteq Bound
  BY ControlAssumption DEF Known, TypeOK
<1>4. ASSUME NEW c \in Known'
      PROVE  IF Tells(e, c) THEN Held'[c] = e.val
             ELSE c \in Known /\ Held'[c] = Held[c] /\ e.kind # "dropped"
  <2>1. c \in Control /\ c # DpadKey
    BY <1>3 DEF Known
  <2>2. CASE e.ctl \notin Bound
    <3>1. seen' = seen /\ acc' = acc /\ hat' = hat
      BY <2>2 DEF HandleMove
    <3>2. c \in Known /\ Held' = Held
      BY <3>1 DEF Known, Held
    <3>3. ~Tells(e, c)
      BY <1>3, <2>2, <3>2 DEF Tells
    <3>. QED BY <1>1, <3>2, <3>3
  <2>3. CASE e.ctl \in Bound
    <3>1. /\ acc' = IF e.ctl = Hat THEN acc ELSE [acc EXCEPT ![e.ctl] = e.val]
          /\ hat' = IF e.ctl = Hat THEN e.val ELSE hat
          /\ seen' = seen \cup {e.ctl}
      BY <2>3 DEF HandleMove
    <3>2. Held[c] = (IF c = Hat THEN hat ELSE acc[c]) /\ Held'[c] = (IF c = Hat THEN hat' ELSE acc'[c])
      BY <2>1 DEF Held
    <3>3. CASE c = e.ctl
      <4>1. Tells(e, c)
        BY <1>1, <3>3 DEF Tells
      <4>2. Held'[c] = e.val
        BY <2>1, <3>1, <3>2, <3>3 DEF TypeOK, Field
      <4>. QED BY <4>1, <4>2
    <3>4. CASE c # e.ctl
      <4>1. ~Tells(e, c)
        BY <3>4 DEF Tells
      <4>2. c \in Known
        BY <3>1, <3>4 DEF Known
      <4>3. Held'[c] = Held[c]
        BY <2>1, <3>1, <3>2, <3>4 DEF TypeOK, Field
      <4>. QED BY <1>1, <4>1, <4>2, <4>3
    <3>. QED BY <3>3, <3>4
  <2>. QED BY <2>2, <2>3
<1>5. ASSUME Live PROVE Agrees(Stream', Known', Held', pad')
  <2>1. Shrunk(Stream, Stream') /\ Stream[1] = e
    BY TakenFromStream
  <2>2. Agrees(Stream, Known, Held, pad)
    BY <1>5 DEF StreamInv
  <2>. HIDE DEF e
  <2>3. Agrees(Stream', Known', Held', pad)
    BY <1>3, <1>4, <2>1, <2>2, AgreesShrunk
  <2>. QED BY <1>1, <2>3
<1>. QED BY <1>1, <1>5, CoherentHandled

(* The SYN_REPORT that is handled says where the known controls are. *)
LEMMA CoherentSyn ==
  ASSUME CoherentInv, IInv', HandleSyn
  PROVE  CoherentInv'
<1>. TypeOK /\ TypeOK' /\ StreamInv /\ Handles("syn")
  BY DEF CoherentInv, IInv, HandleSyn
<1>. DEFINE e == Head(evs)
<1>1. e.kind = "syn" /\ plugged' = plugged /\ pad' = pad
  BY DEF Handles, deviceVars
<1>2. Known' = Known /\ Held' = Held /\ boundary' = e.pad
  BY DEF HandleSyn, Known, Held
<1>3. Known \in SUBSET Control
  BY ControlAssumption DEF Known, TypeOK
<1>4. ASSUME Live PROVE Agrees(Stream', Known', Held', pad') /\ Settled'
  <2>1. Shrunk(Stream, Stream') /\ Stream[1] = e /\ 1 \in 1 .. Len(Stream)
    BY TakenFromStream
  <2>2. Agrees(Stream, Known, Held, pad)
    BY <1>4 DEF StreamInv
  <2>. HIDE DEF e
  <2>3. \A c \in Known : ~Tells(Stream[1], c) /\ Stream[1].kind # "dropped"
    BY <1>1, <2>1 DEF Tells
  <2>4. Agrees(Stream', Known, Held, pad)
    BY <1>3, <2>1, <2>2, <2>3, AgreesShrunk
  <2>5. \A c \in Known : Stream[1].pad[c] = Held[c]
    <3>1. FromHere(Stream, Known, Held)
      BY <2>2 DEF Agrees
    <3>. QED BY <1>1, <2>1, <3>1 DEF FromHere
  <2>6. Settled'
    BY <1>2, <2>1, <2>5 DEF Settled
  <2>. QED BY <1>1, <1>2, <2>4, <2>6
<1>. QED BY <1>1, <1>4, CoherentHandled

(* After a gap nothing is known. *)
LEMMA CoherentDropped ==
  ASSUME CoherentInv, IInv', HandleDropped
  PROVE  CoherentInv'
<1>. TypeOK /\ TypeOK' /\ StreamInv /\ Handles("dropped")
  BY DEF CoherentInv, IInv, HandleDropped
<1>1. plugged' = plugged /\ pad' = pad /\ Known' = {}
  BY DEF HandleDropped, Handles, deviceVars, Known
<1>2. ASSUME Live PROVE Agrees(Stream', Known', Held', pad')
  <2>1. Agrees(Stream, Known, Held, pad) /\ Shrunk(Stream, Stream') /\ Known \in SUBSET Control
    BY <1>2, ControlAssumption, TakenFromStream DEF StreamInv, Known, TypeOK
  <2>2. Agrees(Stream', {}, Held', pad)
    BY <2>1, AgreesShrunk
  <2>. QED BY <1>1, <2>2
<1>3. Settled'
  BY <1>1 DEF Settled
<1>. QED BY <1>1, <1>2, <1>3, CoherentHandled

(* EAGAIN: no packet is half handled, unless its rest is behind a gap. *)
LEMMA CoherentReturns ==
  ASSUME CoherentInv, IInv', ReadReturns
  PROVE  CoherentInv'
<1>. TypeOK /\ StreamInv
  BY DEF CoherentInv, IInv
<1>1. /\ evs = << >> /\ isOpen /\ ~gone
      /\ UNCHANGED <<deviceVars, isOpen, hat, evs, historyVars>>
      /\ pc' = "idle" /\ result' = complete
  BY DEF ReadReturns, CoherentInv, IInv
<1>2. UNCHANGED <<plugged, pad, queue, gone, seen, boundary>>
  BY <1>1 DEF deviceVars, historyVars
<1>3. Known' = Known /\ Stream' = Stream /\ (Overflowed' <=> Overflowed) /\ Known \subseteq Control
  BY <1>1, <1>2, ControlAssumption DEF Known, Stream, Overflowed, TypeOK
<1>4. \A c \in Known : Held'[c] = Held[c]
  <2>1. acc' = acc \/ acc' = HatFolded
    BY DEF ReadReturns
  <2>2. \A c \in Known \ {Hat} : HatFolded[c] = acc[c]
    BY <1>3 DEF HatFolded, Known, TypeOK, Field
  <2>. QED BY <1>1, <1>3, <2>1, <2>2 DEF Held
<1>5. plugged /\ Agrees(Stream, Known, Held, pad) /\ (Settled \/ Ends(queue))
  BY <1>1 DEF StreamInv, Live
<1>6. Agrees(Stream', Known', Held', pad')
  BY <1>2, <1>3, <1>4, <1>5, AgreesSame
<1>7. Settled => Settled'
  BY <1>2, <1>3, <1>4 DEF Settled
<1>8. StreamInv'
  BY <1>1, <1>2, <1>5, <1>6, <1>7 DEF StreamInv
<1>9. Coherent'
  <2>. SUFFICES ASSUME result', ~Overflowed', NEW c \in Known'
                PROVE  Shown(out', c) = boundary'[c]
    BY DEF Coherent, Known
  <2>1. \A i \in 1 .. Len(queue) : queue[i].kind # "syn"
    BY DEF ReadReturns, IsReadable
  <2>2. ~Ends(queue)
    BY <1>3, <2>1 DEF Ends, Overflowed
  <2>3. c \in Known /\ c \in Control /\ c # DpadKey /\ boundary'[c] = Held[c]
    BY <1>2, <1>3, <1>5, <2>2 DEF Settled, Known
  <2>4. out' = HatFolded
    BY <1>1 DEF ReadReturns
  <2>5. HatFolded[DpadKey] = hat /\ (c # Hat => HatFolded[c] = acc[c])
    BY <2>3, ControlAssumption DEF HatFolded, TypeOK, Field
  <2>6. Held[c] = IF c = Hat THEN hat ELSE acc[c]
    BY <2>3 DEF Held
  <2>. QED BY <2>3, <2>4, <2>5, <2>6 DEF Shown
<1>. QED BY <1>1, <1>8, <1>9 DEF CoherentInv

LEMMA NextCoherent == CoherentInv /\ [Next]_vars => CoherentInv'
<1>. SUFFICES ASSUME CoherentInv, [Next]_vars PROVE CoherentInv'
  OBVIOUS
<1>. IInv /\ IInv' /\ TypeOK /\ TypeOK' /\ StreamInv /\ Coherent /\ (pc # "handles" => evs = << >>)
  BY NextIInv DEF CoherentInv, IInv
<1>1. CASE CallRead
  <2>1. UNCHANGED <<deviceVars, stateVars, evs, out, historyVars>> /\ pc' = "reads" /\ pc = "idle"
    BY <1>1 DEF CallRead
  <2>2. StreamInv'
    BY <2>1 DEF StreamInv, Live, Stream, Known, Held, Settled, deviceVars, stateVars, historyVars
  <2>. QED BY <2>1, <2>2 DEF CoherentInv, Coherent
<1>2. CASE ReadEvents
  <2>1. /\ pc = "reads" /\ pc' = "handles"
        /\ UNCHANGED <<plugged, pad, gone, isOpen, acc, hat, seen, boundary>>
    BY <1>2 DEF ReadEvents, stateVars, historyVars
  <2>2. Stream' = Stream /\ evs' # << >> /\ (evs'[Len(evs')].kind = "syn" \/ Ends(queue'))
    BY <1>2, <2>1, ReadKeepsStream
  <2>3. Known' = Known /\ Held' = Held
    BY <2>1 DEF Known, Held
  <2>4. StreamInv'
    BY <2>1, <2>2, <2>3 DEF StreamInv, Live
  <2>. QED BY <2>1, <2>4 DEF CoherentInv, Coherent
<1>3. CASE HandleMove
  BY <1>3, CoherentMove
<1>4. CASE HandleSyn
  BY <1>4, CoherentSyn
<1>5. CASE HandleDropped
  BY <1>5, CoherentDropped
<1>6. CASE ChunkHandled
  <2>1. /\ UNCHANGED <<deviceVars, stateVars, evs, complete, result, out, historyVars>>
        /\ pc' = "reads" /\ evs = << >>
    BY <1>6 DEF ChunkHandled
  <2>2. StreamInv'
    BY <2>1 DEF StreamInv, Live, Stream, Known, Held, Settled, deviceVars, stateVars, historyVars
  <2>. QED BY <2>1, <2>2 DEF CoherentInv, Coherent
<1>7. CASE ReadReturns
  BY <1>7, CoherentReturns
<1>8. CASE ReadFindsLoss
  <2>1. pc = "reads" /\ evs' = evs /\ gone' /\ ~isOpen'
    BY <1>8 DEF ReadFindsLoss, deviceVars
  <2>. QED BY <2>1 DEF CoherentInv, StreamInv, Live, Coherent
<1>9. CASE Reconnect
  <2>1. /\ pc = "idle" /\ plugged' /\ Known' = {} /\ evs' = << >> /\ queue' = << >> /\ evs = << >>
        /\ seen' = {}
    BY <1>9 DEF Reconnect, readVars, Known
  <2>2. Stream' = << >>
    BY <2>1 DEF Stream
  <2>3. Agrees(Stream', Known', Held', pad') /\ Settled'
    BY <2>1, <2>2, AgreesEmpty DEF Settled
  <2>4. StreamInv'
    BY <2>1, <2>3 DEF StreamInv
  <2>. QED BY <2>1, <2>4 DEF CoherentInv, Coherent
<1>10. CASE ReconnectFails
  <2>1. /\ ~isOpen /\ UNCHANGED <<isOpen, pc, evs, result>>
    BY <1>10 DEF ReconnectFails, readVars
  <2>2. ~result' /\ ~isOpen'
    BY <2>1 DEF IInv
  <2>. QED BY <2>1, <2>2 DEF CoherentInv, StreamInv, Live, Coherent
<1>11. CASE Pad
  BY <1>11, CoherentPad
<1>12. CASE UNCHANGED vars
  BY <1>12 DEF vars, CoherentInv, StreamInv, Live, Stream, Known, Held, Settled, Coherent, Overflowed,
               Shown, deviceVars, stateVars, readVars, historyVars
<1>. QED BY <1>1, <1>2, <1>3, <1>4, <1>5, <1>6, <1>7, <1>8, <1>9, <1>10, <1>11, <1>12 DEF Next, Source

(***************************************************************************)
(* A returned state is the pad at one SYN_REPORT, in every control that    *)
(* has reported since the descriptor was opened or events were last lost   *)
(* (evdev_source.cpp:338-340), however the kernel's buffer is cut by       *)
(* ::read() and whenever the pad moves.                                    *)
(***************************************************************************)
THEOREM PacketsAreWhole == Spec => []Coherent
<1>1. CoherentInv => Coherent
  BY DEF CoherentInv
<1>. QED BY InitCoherent, NextCoherent, <1>1, PTL DEF Spec
=============================================================================
