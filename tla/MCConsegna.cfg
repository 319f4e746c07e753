SPECIFICATION FairSpecConsegna
CONSTANTS
  p1 = p1
  p2 = p2
  NessunEvento = NessunEvento
  Processi = {p1, p2}
  attesaPrima = 1
  attesaMax = 2
  durataTentativi = 2
  conservazione = 0
  intervalloPulizia = 1
  Ritardo = 1
  EventiMax = 2
  OraMax = 2
  IncidentiMax = 2
INVARIANT Doppioni UltimoTentativo
PROPERTY ImplementaCoda EventoConcluso
