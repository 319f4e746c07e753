SPECIFICATION Spec
CONSTANTS
  r1 = r1
  r2 = r2
  capo = capo
  tizio = tizio
  d1 = d1
  Nessuno = Nessuno
  Richieste = {r1, r2}
  Utenti = {capo, tizio}
  Amministratori = {capo}
  Vuoti = {tizio}
  Elenco = {capo}
  Dispositivi = {d1}
  Provenienze <- MCProvenienze
  MaxToken = 2
  DisablePwdLogin = TRUE
SYMMETRY Simmetria
INVARIANT CambioChiude AgenteFuoriDalPannello
PROPERTY RevocaDefinitiva
