\* Two configs, either of which may be deleted and written again, and two pages.
CONSTANTS
  Pages = {p1, p2}
  Names = {a, b}
  Shipped = {a, b}
  NoFile = NoFile
  Half = Half
SPECIFICATION ConfigsSpec
INVARIANTS EnvIsWhole RunsTheSelected SelectedIsThere
