SPECIFICATION Spec
CONSTANTS
  Cycles <- TheCycles
  Symbols <- TheSymbols
  Quotes <- TheQuotes
  Days <- TheDays
  Amounts <- TheAmounts
INVARIANTS
  OneTradePerQuote
CHECK_DEADLOCK FALSE
