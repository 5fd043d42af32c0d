CONSTANTS
  Handlers = {h1, h2}
  Names = {a, b, c}
  Families = {v4, v6}
  AnyAddress = AnyAddress
  Requested <- Inputs
  None = None
  MaxId <- Rows
  MaxWrites = 2
SPECIFICATION BookSpec
SYMMETRY Symmetry
CONSTRAINT WhileSound
INVARIANTS BookTypeOK OneBook RulesInForce
PROPERTIES RulesKeepTarget
