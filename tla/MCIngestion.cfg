\* A trace and its spans in two batches, and an OTLP trace in three exports.
CONSTANTS
  b1 = b1
  b2 = b2
  p = p
  c = c
  d = d
  e1 = e1
  e2 = e2
  e3 = e3
  Batches = {b1, b2}
  EventsOf <- MCEventsOf
  None = 0
  MaxSends = 2
  MaxCrashes = 1
  Spans = {p, c, d}
  ParentOf <- MCParentOf
  NoSpan = NoSpan
  Exports = {e1, e2, e3}
  ReportOf <- MCReportOf
SPECIFICATION IngestionSpec
INVARIANTS
  StoredOnce
  NothingDropped
  ParentsLinked
  TraceAgrees
PROPERTIES
  HeadIsStored
CHECK_DEADLOCK FALSE
