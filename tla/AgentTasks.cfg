SPECIFICATION FairSpec
CONSTANTS
  Background = {b1, b2}
  Foreground = {f1}
  MaxRounds = 2
  MaxPrompts = 2
INVARIANTS NoticeOnce EndedIsSettled
PROPERTIES StatusFinal LaunchedIsAnnounced
CHECK_DEADLOCK FALSE
