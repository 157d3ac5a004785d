CONSTANTS
  MaxRequests = 3
  Threads = 2
SPECIFICATION Spec
INVARIANTS OkMeansDone AnsweredIsSeen
PROPERTIES ImplementsRequestApi EveryRequestIsAnswered
CHECK_DEADLOCK FALSE
