SPECIFICATION FairSpec
CONSTANTS
  r1 = r1
  r2 = r2
  Receipt = {r1, r2}
  Composite = {r2}
  Call = {c1, c2}
  Cancelled = {c1}
  MaxEdits = 2
  Nobody = Nobody
INVARIANTS TypeOK ExecutedOnce AnswersTrue
PROPERTIES KeepsIntent CallsEnd
CHECK_DEADLOCK FALSE
