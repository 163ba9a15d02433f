SPECIFICATION Spec
CONSTANTS
  Breaking = {}
  Routines = {}
  Outer = {read, write}
  Tids = {t1, t2}
  Resend = TRUE
  Unasked = {"push"}
  MaxInbox = 1
  MaxHandlers = 1
  None = None
  Handler = Handler
SYMMETRY Symmetry
INVARIANTS Reachable
