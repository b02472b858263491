CONSTANTS
  Ids = {1, 2, 3}
  Watched = {w1, w2}
  Rest = {r1, r2}
  MaxSnapshot = 3
SPECIFICATION Spec
SYMMETRY Symmetry
INVARIANTS
  EventsExact
  ViewExact
