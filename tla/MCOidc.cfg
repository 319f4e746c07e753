SPECIFICATION Spec
CONSTANTS
  r1 = r1
  r2 = r2
  u1 = u1
  u2 = u2
  a1 = a1
  a2 = a2
  k1 = k1
  Nessuno = Nessuno
  Richieste = {r1, r2}
  Utenti = {u1, u2}
  Fissi = {u1}
  Account = {a1, a2}
  Verificati = {a1, a2}
  Omonimi <- MCOmonimi
  Codici = {k1}
  WebSso = TRUE
  DisablePwdLogin = FALSE
  TettoRichieste = 1
SYMMETRY Simmetria
INVARIANT UnoPerAccount TokenGiusto ScadutoConcluso RegistraUno
 
