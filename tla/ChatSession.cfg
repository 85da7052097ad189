SPECIFICATION Spec
CONSTANTS
  Prompts = {p1, p2}
  Skills = {s1}
  Compactions = {k1}
  Clears = {d1}
  Notes = {}
  MaxTurns = 3
INVARIANTS TurnDiscipline InterruptReachesTurn QueueInOrder PromptInHistory

CHECK_DEADLOCK FALSE
