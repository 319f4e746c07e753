SPECIFICATION Spec
CONSTANTS
  r1 = r1
  r2 = r2
  l1 = l1
  vuoto = vuoto
  a = a
  grande = grande
  storto = storto
  Nessuno = Nessuno
  Richieste = {r1, r2}
  Lettori = {}
  Coppie = {c1}
  Dati = {vuoto, a, grande, storto}
  Byte <- MCByte
  DirIgnota = {storto}
  BloccoMax = 2
  TrascrizioneMax = 2
  BlocchiMax = 3
  PaginaTerminale = 2
  Vecchi <- MCVecchi
  Integrazione = FALSE
  Guasti = TRUE
  MaxConn = 2
SYMMETRY Simmetria
INVARIANT CatenaIntegra TotaleEsatto
PROPERTY ImplementaDiario
