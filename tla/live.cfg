SPECIFICATION Spec
CONSTANTS
  a1 = a1
  r1 = r1
  r2 = r2
  r3 = r3
  Nobody = Nobody
  Questions = {}
  Approvals = {a1}
  Replies = {r1, r2, r3}
  Presses = {r3}
  ApprovalTimeout = TRUE
INVARIANTS RunAgreesWithRow PendingIsAwaited
PROPERTIES Unblocks
