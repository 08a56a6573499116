\* A single reader ends, or its workflow is executed for as often as it may.
SPECIFICATION Spec
CHECK_DEADLOCK FALSE
CONSTANTS
  Pure <- MCPure
  Unlisted <- MCUnlisted
  Clocks <- MCClocks
  Char <- MCChar
  Files <- MCFiles
  Edits <- MCEdits
  Readers = {"validate", "mcp", "run"}
INVARIANT VerdictIsMeant InputsAreMeant NoListIsLost DispatchIsOwn DiagramIsTopology
PROPERTY ReplaySafe
