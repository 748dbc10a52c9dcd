\* Two writers and a reader of one path; a killed writer stays where it is.
SPECIFICATION Spec
CONSTANTS
  Writers = {w1, w2}
  Inodes = {i1, i2, i3, i4}
  Absent = Absent
  MaxWrites = 3
SYMMETRY Interchangeable
INVARIANTS
  NeverTorn
  ReportIsTrue
  OneWins
CHECK_DEADLOCK FALSE
