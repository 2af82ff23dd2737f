--------------------------- MODULE ConsoleViewMC ---------------------------
(* States that take most branches of encode(); ReportShowsState is about all of them. *)
EXTENDS ConsoleView

StickAt(x, y) == [Released.stick EXCEPT !.lx = x, !.ly = y]

MCStates ==
  { Released,
    [Released EXCEPT !.buttons = {"south", "l3", "dup", "dright"}, !.stick = StickAt(32767, -32768)],
    [Released EXCEPT !.buttons = {"east", "north", "ddown", "dleft", "dright"}, !.lt = 41],
    [Released EXCEPT !.buttons = {"r2", "west", "dup", "ddown"}, !.rt = 40, !.stick = StickAt(-1, 255)] }

MCReport == {Encode(s, TRUE) : s \in MCStates}
MCNeutral == NeutralReport
=============================================================================
