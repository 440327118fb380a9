CONSTANTS
  SubjectTurns = {u1, u2}
  MaxWakes = 2
SPECIFICATION SpeechSpec
CHECK_DEADLOCK FALSE
INVARIANT ConfirmedIsConsumed
