CONSTANTS
  t1 = t1
  t2 = t2
  g1 = g1
  g2 = g2
  g3 = g3
  Terminals = {t1, t2}
  Tags = {g1, g2, g3}
  Tagged <- TaggedForTLC
  QuotedTags = {g3}
  Orders = {1, 2, 3}
  Quotable = {2}
  MaxRows = 2
  Unset = Unset
  MaxFaults = 1
SPECIFICATION Spec
PROPERTIES
  Mirrors
  EventuallySynced
