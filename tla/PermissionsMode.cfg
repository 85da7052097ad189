SPECIFICATION ContextSpec
CONSTANTS
  Tools = {bash, edit, read}
  EditTools = {edit}
  SafeTools = {read}
  DangerousTools = {bash}
  MaxRules = 2
INVARIANTS ModeIsChosen
CHECK_DEADLOCK FALSE
