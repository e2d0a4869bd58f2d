CONSTANTS
  Menu <- MCMenu
  ExecLines <- MCExec
  TypedLines <- MCTyped
  MaxLines = 3
  MaxDepth = 2
  ContextSize = 3
  MaxAsked = 4
  Paths <- MCPaths
  Handles = {0, 1}
  MaxRequests = 5
  MaxInFlight = 2
  MaxCuts = 1
SPECIFICATION MCSpec
INVARIANTS
    ShellInv
    LlmInv
    TapInv
    NobodyWaits
