\* Two messages between two roles, debts or not, that may block one another; four events.
CONSTANTS
  Role = {a, b}
  Senders = {a, b}
  Statuses = {"in_progress", "done_local", "done", "blocked"}
  SentStatuses = {"null", "needs_you", "done_local"}
  Shapes = {TRUE, FALSE}
  MaxMsg = 2
  MaxEvents = 4
SPECIFICATION Spec
SYMMETRY Symmetry
CHECK_DEADLOCK FALSE
INVARIANTS TaskIsItsLastMovers DebtIsListed RetryMeansTaken LiveBlockerIsOwed
PROPERTIES DebtsNeedBothParties
