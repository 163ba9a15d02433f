SPECIFICATION Spec
CONSTANTS
  Breaking = {ping}
  Routines = {sync}
  Outer = {write}
  Tids = {t1, t2, t3}
  Resend = FALSE
  Unasked = {"push", "malformed", "text", "poison"}
  MaxInbox = 1
  MaxHandlers = 1
  None = None
  Handler = Handler
SYMMETRY Symmetry
INVARIANTS TypeOK InProgressOnly NobodyWaitsDisconnected ConnectedHasWebsocket OwnResponse
PROPERTY PushOrder
