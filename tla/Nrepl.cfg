SPECIFICATION NreplFairSpec
CONSTANTS
  a = a
  b = b
  Conns = {a, b}
  Script <- MCScript
  MaxSessions = 5
  QCap = 1
INVARIANT DoneThenIdle
PROPERTY AnswersComeBack
CHECK_DEADLOCK FALSE
