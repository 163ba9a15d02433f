SPECIFICATION Spec
CONSTANTS
  Breaking = {ping}
  Routines = {}
  Outer = {write}
  Tids = {t1, t2}
  Resend = FALSE
  Unasked = {"push", "malformed", "poison"}
  MaxInbox = 1
  MaxHandlers = 1
  None = None
  Handler = Handler
PROPERTY KeepsReadingAfterMalformed
