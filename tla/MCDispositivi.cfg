SPECIFICATION Spec
CONSTANTS
  r1 = r1
  r2 = r2
  i1 = i1
  i2 = i2
  d1 = d1
  d2 = d2
  k1 = k1
  k2 = k2
  u1 = u1
  u2 = u2
  Nessuno = Nessuno
  Richieste = {r1, r2}
  Id = {i1, i2}
  Uuid = {d1, d2}
  Chiavi = {k1, k2}
  Utenti = {u1}
  FirmaObbligatoria = FALSE
  MaxRighe = 2
SYMMETRY Simmetria
PROPERTY ChiaveFerma 
