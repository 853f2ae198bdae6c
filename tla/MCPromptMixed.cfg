CONSTANTS
  Sessions = {s1, s2}
  Confs <- MCTwoConfs
  ConfsOf <- MCTwoConfsOf
  Hex <- MCHex
  TerminalBackground = ""
  MaxParents = 2
SPECIFICATION Spec
INVARIANT PromptsKeepApart
