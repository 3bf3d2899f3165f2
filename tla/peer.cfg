CONSTANTS
  MaxInputs = 4
  MaxComing = 2
  TroubleSets <- Troubles
SPECIFICATION PeerFairSpec
INVARIANTS ModeAgrees AnswersOwn Survives
PROPERTIES Settles
