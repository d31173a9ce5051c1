CONSTANTS
  a = a  b = b  c = c  t0 = t0  t1 = t1  Blank = Blank  nil = nil
  Lines = {a, b}
  Gives <- MCGives
  Texts <- MCTexts
  Transforms = {t0, t1}
  MaxLines = 3
  MaxPresses = 5
SPECIFICATION TextSpec
CHECK_DEADLOCK FALSE
INVARIANTS FailsOnlyOffText
PROPERTIES EditedRunSendsRange CachedRunSendsRange
