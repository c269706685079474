SPECIFICATION Spec
CONSTANTS
  NumTargets = 3
  CounterMod = 8
  RetryTimeout = 2
  MaxConns = 2
INVARIANTS AnswersHealthy NoStarvation
