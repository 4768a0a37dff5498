SPECIFICATION DaemonizeSpec
CHECK_DEADLOCK FALSE
CONSTANTS
  MaxFd <- MCMaxFd
  Cap <- MCCap
  INF = INF
INVARIANTS
  NoTerminalAgain
  StandardStreams
