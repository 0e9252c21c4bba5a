SPECIFICATION FairServiceSpec
CONSTANTS
  MaxConn = 2
  MaxStarts = 2
  Requests <- MCRequests
  MaxRequests = 2
INVARIANTS
  OnceForAllClients
  AnswersInOrder
PROPERTIES
  EndsOnlyProvoked
  ServedInTurn
  EveryRequestAnswered
CHECK_DEADLOCK FALSE
