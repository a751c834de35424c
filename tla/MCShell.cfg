SPECIFICATION SSpec
CONSTANTS
  Procs = {0, 1, 2, 3, 4}
  NOFILE = 5
  NFILE = 4
  Pipes = {pg1, pg2}
  PIPESIZE = 1
  Inodes = {console, data}
  Devices = {console}
  Console = console
  Data = data
  None = None
  MAXARGS = 3
  MaxCalls = 3
  Lines <- MCLines
  Runnable <- MCRunnable
CHECK_DEADLOCK FALSE
INVARIANTS
  FilesExact
  ProgramsGetThree
  ForegroundWaited
  ParsesLine
  CommandsEnd
