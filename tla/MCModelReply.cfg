SPECIFICATION ReplySpec
CONSTANTS
  t1 = t1
  t2 = t2
  t3 = t3
  Tags = {t1, t2, t3}
  Default = t1
  Siblings = {t2}
  Embedding = {t3}
  NoAnswer = NoAnswer
  MaxLetters = 6
  MaxPiece = 2
  MaxMishaps = 1
INVARIANTS
  StreamedAsWhole
  AnsweredOnce
  MissingIsTrue
CHECK_DEADLOCK FALSE
