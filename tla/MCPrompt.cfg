CONSTANTS
  Sessions = {s1}
  Confs <- MCConfs
  ConfsOf <- MCConfsOf
  Hex <- MCHex
  TerminalBackground = ""
  MaxParents = 2
SPECIFICATION Spec
INVARIANTS LineLengthIsColumn GlyphsAreVisible ColoursAsWritten DrawingLeavesNoTrace
PROPERTY StreamedIsSync
