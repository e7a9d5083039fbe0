CONSTANTS
  Turn = {t1}
  Staff = {s1, s2}
  None = None
SPECIFICATION DeskSpec
PROPERTIES
  TerminalIsFinal
