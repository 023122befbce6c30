SPECIFICATION Spec
CONSTANTS
  F = F
  P = P
  Q = Q
  T = T
  W = W
  Files <- MCFiles
  Pings <- MCPings
  Tasks <- MCTasks
  Fleeting <- MCTasks
  Polls <- MCPolls
  QueueLimit = 2
  ReportLimit = 1
  MaxSessions = 1
  MaxLosses = 1
SYMMETRY PingSymmetry
INVARIANTS DispatchedIsAccounted SleepersMissNothing AnsweredOnce
