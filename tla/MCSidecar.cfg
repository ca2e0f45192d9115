SPECIFICATION FairSpec
CONSTANTS
  Capacity = 1
  Commands = {c1}
  Queries = {"edit"}
  MaxRequests = 3
  MaxAsks = 2
  MaxTurns = 2
  Nothing = Nothing
INVARIANTS
  TypeOK
  OneReply
  SteeringKept
  RanOnApproval
  AnswersStayInPass
  ConsentIsRunScoped
PROPERTIES
  NoApprovalAfterCancel
  RequestsAnswered
  CancelEndsRun
  EofEndsProcess
CHECK_DEADLOCK FALSE
