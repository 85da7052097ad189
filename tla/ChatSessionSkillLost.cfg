SPECIFICATION Spec
CONSTANTS
  Prompts = {p1, p2}
  Skills = {s1}
  Compactions = {}
  Clears = {}
  Notes = {}
  MaxTurns = 3

PROPERTY SkillGetsTurn
CHECK_DEADLOCK FALSE
