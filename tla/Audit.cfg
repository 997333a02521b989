SPECIFICATION Spec
CONSTANTS
  q1 = q1
  q2 = q2
  s1 = s1
  s2 = s2
  t1 = t1
  t2 = t2
  NoRow = NoRow
  NoSession = NoSession
  Quotes = {q1, q2}
  Sessions = {s1, s2}
  Tasks = {t1, t2}
  MaxTime = 1
  MaxAttempts = 3
SYMMETRY Symmetry
INVARIANTS
  TypeOK
  QuoteShowsItsAttempt
  QuotedIsLive
  ResultsAreTheirOwn
PROPERTIES
  ClaimsAreDue
CHECK_DEADLOCK FALSE
