SPECIFICATION Spec
CONSTANTS
  Files = {f1, f2}
  NoEntry = NoEntry
  MaxClock = 3
PROPERTY Insured
