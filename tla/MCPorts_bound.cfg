CONSTANTS
  main = main
  a = a
  c = c
  d = d
  p1 = p1
  p2 = p2
  None = None
  Main = main
  Home <- Homes
  Plug <- Plugs
  Other <- Bigger
  There <- Far
  Width <- Widths
  Large = 2
  Link <- Links
SPECIFICATION Spec
INVARIANTS TypeOK LinksKept NoFatal OccupantConnected Told
