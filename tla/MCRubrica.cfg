SPECIFICATION Spec
CONSTANTS
  r1 = r1
  r2 = r2
  u1 = u1
  u2 = u2
  g1 = g1
  p1 = p1
  t1 = t1
  Nessuno = Nessuno
  Client = {r1}
  Pannello = {r2}
  Utenti = {u1, u2}
  Gruppi = {g1}
  GruppoDi <- MCGruppoDi
  Pc = {p1}
  Tag = {t1}
  Livelli = {2, 3}
  MaxRighe = 1
  MaxColl = 1
  MaxRegole = 1
  MaxCambi = 1
SYMMETRY Simmetria
INVARIANT SoloConPermesso NelConfine
 
