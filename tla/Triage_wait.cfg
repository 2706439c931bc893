\* A role waits while two debts arrive and are read, resolved, reopened, confirmed and deleted.
CONSTANTS
  Role = {a, b}
  Senders = {a}
  Me = b
  Statuses = {}
  SentStatuses = {"null"}
  Shapes = {TRUE}
  MaxMsg = 2
  MaxEvents = 2
  MaxPolls = 2
SPECIFICATION TriageSpec
CHECK_DEADLOCK FALSE
INVARIANTS NewsWakes BacklogDoesNotWake
