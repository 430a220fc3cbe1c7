SPECIFICATION Spec
CONSTANTS
  Locs = {"x"}
  Graphs <- SmallGraphs
  Bodies <- OneAccess
  Counts = {1}
\* The function returns, or never does.
CHECK_DEADLOCK FALSE
INVARIANTS DefsAlwaysWritten WritesAreKnown UsesCoverReads LiveCoversReads CopiesAreRight
