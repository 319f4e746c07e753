SPECIFICATION FairSpec
CONSTANTS
  r1 = r1
  r2 = r2
  i1 = i1
  c1 = c1
  c2 = c2
  Nessuno = Nessuno
  Richieste = {r1, r2}
  Indirizzi = {i1}
  Captcha = {c1, c2}
  CaptchaThreshold = 1
  BanThreshold = 3
  AttemptsWindow = 2
  BanDuration = 2
  CaptchaExpiration = 1
INVARIANT BandoEsatto CaptchaPerUno OltreIlBando
PROPERTY BandoFinisce
