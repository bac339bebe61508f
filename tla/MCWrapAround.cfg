SPECIFICATION Spec
CONSTANTS
  FullRange = 8
  ERange = 64
  MaxExtended = 34
  MaxCycles = 2
INVARIANTS SpanExact
PROPERTIES ValuesInPlace UndoRestores
