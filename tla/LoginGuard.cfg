SPECIFICATION FairGuardSpec
CONSTANTS
  n1 = n1
  n2 = n2
  g1 = g1
  g2 = g2
  g3 = g3
  g4 = g4
  g5 = g5
  Numbers = {n1, n2}
  Guesses = {g1, g2, g3, g4, g5}
  Limit = 2
  Window = 3
  Lockout = 2
INVARIANTS GuessingIsSlow
PROPERTIES LocksRunTheirCourse NumbersReopen
