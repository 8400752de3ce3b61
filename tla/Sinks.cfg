SPECIFICATION Sinks
CONSTANTS
  Consumer = {c1, c2}
  Partition = {p1, p2}
  BatchSize = 2  End = 2  MaxFaults = 2
  a = a  b = b
INVARIANTS TypeOK NothingSkipped
PROPERTIES HistoryIsWritten RowsStayOnline
CHECK_DEADLOCK FALSE
