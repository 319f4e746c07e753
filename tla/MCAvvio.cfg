SPECIFICATION SpecAvvio
CONSTANTS
  p1 = p1
  p2 = p2
  Avvii = {p1, p2}
  NessunAvvio = NessunAvvio
  MaxGuasti = 1
INVARIANT PasswordNelFile PrimaDiServire
PROPERTY RevocaResta IndiceTorna
CHECK_DEADLOCK FALSE
