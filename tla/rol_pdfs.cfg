SPECIFICATION PdfsFairSpec
CONSTANTS
  Fs = {1, 2}
  Runs = {r1, r2}
  NoFs = NoFs
  MaxAttempts = 2
  ClaimTicks = 1
  PrintTicks = 1
INVARIANTS
  OnePrintPerFs
PROPERTIES
  FetchedOrExhausted
  AskedIsTried
