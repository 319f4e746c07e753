SPECIFICATION Spec
CONSTANTS
  a1 = a1
  a2 = a2
  r1 = r1
  r2 = r2
  Nessuno = Nessuno
  Richieste = {r1, r2}
  Firme = {1, 3}
  Ts <- MCTs
  Indirizzi = {a1, a2}
  FinestraFirma = 1
  PuliziaFirme = 1
  CambioCopie = 2
  FinestraCopie = 3
  SogliaCopie = 2
  AvvisoCopie = 4
  PuliziaCopie = 1
  MaxOra = 5
  MaxBattiti = 6
SYMMETRY Simmetria
INVARIANT CopiaEsatta
PROPERTY  AvvisoRaro
