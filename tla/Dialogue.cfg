SPECIFICATION DialogueSpec
CONSTANTS
  Turns = {t1, t2}
  Gateways = {g1, g2}
  MAX_TURN_ATTEMPTS = 2
  DialogueFaults = {"crash", "lost", "pause"}
INVARIANTS
  TurnsAreSerial
  TransitionsAreFresh
PROPERTIES
  AnswerIsFinal
  TurnConcludes
  DeletedIsPurged
CHECK_DEADLOCK FALSE
