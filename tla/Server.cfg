SPECIFICATION ServerSpec
CONSTANTS
  Breaking = {ping}
  Routines = {}
  Outer = {write}
  Tids = {t1, t2}
  Resend = FALSE
  Unasked = {"poison"}
  MaxInbox = 1
  MaxHandlers = 0
  None = None
  Handler = Handler
CHECK_DEADLOCK FALSE
INVARIANTS ExitTells
PROPERTIES EndsWithStdin FatalEndsAtNextLine
