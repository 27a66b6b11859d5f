SPECIFICATION StorySpec
CONSTANTS
  j1 = j1 j2 = j2 t1 = t1
  Jobs = {j1, j2}
  Terms = {t1}
  NoId = NoId
  SendCap = 1
  ExecCap = 1
  MaxGen = 2
  Events = {"again", "beat", "forget", "restart"}
INVARIANTS TypeOK ClosedTerminalIsDead
PROPERTIES OneScriptAtATime Reconnects GivenIsAnswered
CHECK_DEADLOCK FALSE
