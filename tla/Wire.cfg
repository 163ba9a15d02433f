SPECIFICATION Spec
CONSTANTS
  Data = {"CR", "LF", "0"}
  MaxChunk = 2
  MaxChunks = 2
  MaxDigits = 2
INVARIANTS ReadAsSent DamageIsNoticed
PROPERTY ReadingAdvances
