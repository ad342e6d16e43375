SPECIFICATION ConfigSpec
CONSTANTS
  Registered <- MCRegistered
  Border <- MCBorder
  Lines <- MCLines
  Ints <- MCInts
  Threads = {t1}
  Nobody = Nobody
  MaxDraws = 1
  MaxGiven = 1
INVARIANT
  BoundsGivenTogether
