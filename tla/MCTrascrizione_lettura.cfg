SPECIFICATION FairSpec
CONSTANTS
  r1 = r1
  r2 = r2
  l1 = l1
  vuoto = vuoto
  a = a
  grande = grande
  storto = storto
  Nessuno = Nessuno
  Richieste = {r1, r2}
  Lettori = {l1}
  Coppie = {c1}
  Dati = {vuoto, a}
  Byte <- MCByte
  DirIgnota = {}
  BloccoMax = 2
  TrascrizioneMax = 1
  BlocchiMax = 2
  PaginaTerminale = 1
  Vecchi <- MCVecchi
  Integrazione = TRUE
  Guasti = FALSE
  MaxConn = 1
INVARIANT LetturaFedele EventoVeritiero
PROPERTY FinePortaEvento
