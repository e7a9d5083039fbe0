CONSTANTS
  Turn = {t1}
  Staff = {s1, s2, s3}
  None = None
SPECIFICATION DeskSpec
SYMMETRY Symmetry
INVARIANTS
  DeskTypeOK
  MilestonesKept
PROPERTIES
  TerminalLeftOnlyByStaleRead
