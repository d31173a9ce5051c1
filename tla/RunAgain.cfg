CONSTANTS
  a = a  b = b  c = c  t0 = t0  t1 = t1  Blank = Blank  nil = nil
  Lines = {a, b, c}
  Gives <- MCGives
  Texts <- ThreeLines
  Transforms = {t0}
  MaxLines = 3
  MaxPresses = 5
SPECIFICATION TextSpec
CHECK_DEADLOCK FALSE
PROPERTIES RunAgainSendsRange
