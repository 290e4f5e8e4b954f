CONSTANTS
  source = source
  left = left
  right = right
  far = far
  Versions = {source, left, right}
  OutputVersions = {source, left, right, far}
  Source = source
  Selectors <- MCSelectors
  Transfers = {"narrow", "missing"}
  Transfer <- MCTransfer
  Stable <- MCStable
  Graphs <- MCGraphs
  Deltas <- MCDeltas
  Components <- MCComponents
  Dotted <- MCDotted
  i1 = i1
  i2 = i2
  i3 = i3
  i4 = i4
  i5 = i5
  r1 = r1
  Inserts = {i1, i2, i3, i4, i5}
  EdgeOf <- MCEdgeOf
  SourceOf <- MCSourceOf
  MaxDepth = 2
  MaxEdges = 4
SPECIFICATION MCSpec
INVARIANT
  NoOverlapMissed
CHECK_DEADLOCK FALSE
