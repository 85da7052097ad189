SPECIFICATION FairSpec
CONSTANTS
  Prompts = {p1, p2}
  Skills = {s1}
  Compactions = {}
  Clears = {}
  Notes = {n1}
  MaxTurns = 4
PROPERTIES ImplementsTurnService PromptsAnswered InterruptedTurnsEnd
CHECK_DEADLOCK FALSE
