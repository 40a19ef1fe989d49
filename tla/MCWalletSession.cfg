SPECIFICATION Spec
CONSTANTS
  Accounts = {a1, a2}
  None = None
  Unread = Unread
  MaxReplies = 2
  Scans = {1}
  MaxTasks = 1
  MaxInterrupts = 3
SYMMETRY Sym
INVARIANTS
  MisfiledOnlyWhenCrossed UiAgreesWithClient FollowsWallet StaysDisconnected ShownIsOwn
