----------------------------- MODULE HidReport -----------------------------
(***************************************************************************)
(* What is put into a report: the scaling of an evdev axis, NsHidSink's    *)
(* encode(), and how a Switch reads the eight bytes.  Bit masks are sets   *)
(* of names; padding, sequence numbers and times are left out.             *)
(***************************************************************************)
EXTENDS Integers

Face == {"south", "east", "west", "north"}
DPad == {"dup", "ddown", "dleft", "dright"}
Btn == Face \cup DPad
         \cup {"l1", "r1", "l2", "r2", "select", "start", "l3", "r3", "guide", "misc1"}
Sticks == {"lx", "ly", "rx", "ry"}

Int16 == {n \in Int : -32768 <= n /\ n <= 32767}
GamepadState == [buttons : SUBSET Btn, stick : [Sticks -> Int16],
                 lt : 0 .. 255, rt : 0 .. 255]
Released == [buttons |-> {}, stick |-> [a \in Sticks |-> 0], lt |-> 0, rt |-> 0]

Clamp(n, lo, hi) == IF n < lo THEN lo ELSE IF n > hi THEN hi ELSE n
(* A cast of a double to an integer drops the fraction. *)
Truncated(n, d) == IF n >= 0 THEN n \div d ELSE -((-n) \div d)

(* EvdevSource::scale_axis() *)
ScaleAxis(raw, min, max, invert) ==
  LET span == max - min
      v == (2 * (raw - min) - span) * 32767 IN
  IF span <= 0 THEN 0
  ELSE Clamp(Truncated(IF invert THEN -v ELSE v, span), -32767, 32767)

-----------------------------------------------------------------------------
(* NsHidSink *)

ToU8(v) == Clamp((v + 32768) \div 256, 0, 255)

(* mutant: opposite directions are not cancelled *)
HatOfAll(up, down, left, right) ==
  CASE up /\ right -> 1 [] down /\ right -> 3 [] down /\ left -> 5 [] up /\ left -> 7
    [] up /\ ~right /\ ~left -> 0 [] right /\ ~up /\ ~down -> 2
    [] down /\ ~up /\ ~left /\ ~right -> 4 [] left /\ ~up /\ ~down -> 6
    [] OTHER -> 8

(* encode_hat(): opposites cancel, and what is left names one of eight directions. *)
EncodeHat(up, down, left, right) ==
  LET u == up /\ ~down
      d == down /\ ~up
      l == left /\ ~right
      r == right /\ ~left IN
  CASE u /\ r -> 1 [] d /\ r -> 3 [] d /\ l -> 5 [] u /\ l -> 7
    [] u /\ ~r /\ ~l -> 0 [] r /\ ~u /\ ~d -> 2 [] d /\ ~r /\ ~l -> 4 [] l /\ ~u /\ ~d -> 6
    [] OTHER -> 8

(* The bits of buttons_lo and buttons_hi, by the button that sets them. *)
ByPosition(b) == CASE b = "south" -> "B" [] b = "east" -> "A" [] b = "west" -> "Y" [] OTHER -> "X"
ByLabel(b) == CASE b = "south" -> "A" [] b = "east" -> "B" [] b = "west" -> "X" [] OTHER -> "Y"
Others == {"l1", "r1", "select", "start", "l3", "r3", "guide", "misc1"}
OtherBit(b) ==
  CASE b = "l1" -> "L" [] b = "r1" -> "R" [] b = "select" -> "Minus" [] b = "start" -> "Plus"
    [] b = "l3" -> "LClick" [] b = "r3" -> "RClick" [] b = "guide" -> "Home" [] OTHER -> "Capture"
FaceBits == {"A", "B", "X", "Y"}
Bits == FaceBits \cup {"L", "R", "ZL", "ZR", "Minus", "Plus", "LClick", "RClick", "Home", "Capture"}

PokkenReport == [bits : SUBSET Bits, hat : 0 .. 8, stick : [Sticks -> 0 .. 255]]
NeutralReport == [bits |-> {}, hat |-> 8, stick |-> [a \in Sticks |-> 128]]

Encode(s, byPosition) ==
  [bits |-> {IF byPosition THEN ByPosition(b) ELSE ByLabel(b) : b \in s.buttons \cap Face}
              \cup {OtherBit(b) : b \in s.buttons \cap Others}
              \cup {b \in {"ZL"} : "l2" \in s.buttons \/ s.lt > 40}
              \cup {b \in {"ZR"} : "r2" \in s.buttons \/ s.rt > 40},
   hat |-> EncodeHat("dup" \in s.buttons, "ddown" \in s.buttons,
                     "dleft" \in s.buttons, "dright" \in s.buttons),
   stick |-> [a \in Sticks |-> ToU8(s.stick[a])]]

-----------------------------------------------------------------------------
(***************************************************************************)
(* The console, from its side of the wire: which of its buttons are down,  *)
(* where its d-pad points (right and down are positive), and its sticks.   *)
(* Its bottom button is B, its right one A, its left one Y, its top one X. *)
(***************************************************************************)
SwitchAt(b) == CASE b = "B" -> "south" [] b = "A" -> "east" [] b = "Y" -> "west" [] OTHER -> "north"

Shown(r) ==
  [face  |-> {SwitchAt(b) : b \in r.bits \cap FaceBits},
   other |-> r.bits \ FaceBits,
   x     |-> CASE r.hat \in {1, 2, 3} -> 1 [] r.hat \in {5, 6, 7} -> -1 [] OTHER -> 0,
   y     |-> CASE r.hat \in {3, 4, 5} -> 1 [] r.hat \in {0, 1, 7} -> -1 [] OTHER -> 0,
   stick |-> r.stick]

(* What it should show of a state: positions stay positions, or labels labels. *)
Across(b, byPosition) ==
  IF byPosition THEN b
  ELSE CASE b = "south" -> "east" [] b = "east" -> "south"
         [] b = "west" -> "north" [] OTHER -> "west"
Push(s, plus, minus) ==
  (IF plus \in s.buttons THEN 1 ELSE 0) - (IF minus \in s.buttons THEN 1 ELSE 0)

Intended(s, byPosition) ==
  [face  |-> {Across(b, byPosition) : b \in s.buttons \cap Face},
   other |-> {OtherBit(b) : b \in s.buttons \cap Others}
               \cup {b \in {"ZL"} : "l2" \in s.buttons \/ s.lt > 40}
               \cup {b \in {"ZR"} : "r2" \in s.buttons \/ s.rt > 40},
   x     |-> Push(s, "dright", "dleft"),
   y     |-> Push(s, "ddown", "dup"),
   stick |-> [a \in Sticks |-> (s.stick[a] + 32768) \div 256]]
=============================================================================
