SPECIFICATION StreamSpec
CONSTANTS
  LevelSpaces <- Widths
  MaxSpaces = 4
CONSTRAINT Bounded
INVARIANT
  LevelsFollowed
