SPECIFICATION Spec
CONSTANTS
  Reads <- MCReads
  Writes <- MCWrites
  Words <- MCWords
  Lines = {7}
  Clock <- MCClock
  Pc = {2}
  Data = {0, 1, 4}
  MaxInstr = 3
CHECK_DEADLOCK FALSE
INVARIANTS LevelsIsolated AccessesExact
