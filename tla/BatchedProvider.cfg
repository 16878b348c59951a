\* Two blocks, two sockets that come and go, a client of block events and a
\* call of waitForTransaction; two calls to batch.
CONSTANTS
  Blocks = {1, 2}
  Clients = {client}
  Waiters = {waiter}
  MaxSockets = 2
  MaxSubs = 2
  MaxTimers = 1
  Calls = {c1, c2}
  Latest = latest
  NotAsked = notAsked
  Pending = pending
  Rejected = rejected
  Lost = lost
SPECIFICATION MCSpec
CHECK_DEADLOCK FALSE
INVARIANTS
  ProviderInv
  BatchInv
  AnswersAreOfTheirBlock
PROPERTIES
  EveryCallSettles
  TransactionsAreNoticed
