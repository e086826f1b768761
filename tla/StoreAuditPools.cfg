\* Two apps that wait at the same time for four requests in other markets, which two
\* threads of the fallback pool answer.
SPECIFICATION PoolsSpec
CONSTANTS
  NApps = 2
  M = 2
  Workers = 2
  BatchSize = 2
  MaxRetries = 0
  English <- AllEnglish
  MaxPauses = 1
INVARIANTS AuditInv
PROPERTIES AuditEnds
CHECK_DEADLOCK FALSE
