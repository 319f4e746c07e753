SPECIFICATION SpecUtenti
CONSTANTS
  r1 = r1
  r2 = r2
  RichiesteUtenti = {r1}
  Directory = {2}
  MaxUtenti = 4
INVARIANT RegoleAgenti 
