SPECIFICATION Spec
CONSTANTS
  r1 = r1
  r2 = r2
  pcA = pcA
  pcB = pcB
  mario = mario
  k = k
  n1 = n1
  n2 = n2
  Nessuno = Nessuno
  Richieste = {r1, r2}
  Pc = {pcA, pcB}
  Coppie <- MCCoppie
  Autorizzazioni <- MCAutorizzazioni
  Note = {n1}
  Nonce = {k}
  Tecnici = {mario}
  MaxConn = 2
SYMMETRY Simmetria
INVARIANT VerificaFondata NoteSoloAutorizzate 
PROPERTY LegameUnico
