\* Two windows over two rows; no amounts and no rate.
CONSTANTS
  Windows = {w1, w2}
  Currencies = {"USD"}
  Amounts = {}
  Mistakes = FALSE
  Rates = {}
  MaxId = 2
  MaxRows = 2
  MaxAmount = 0
  None = None
SPECIFICATION Spec
INVARIANTS AtMostOneFlag
PROPERTIES RowsGoOnlyByDelete
