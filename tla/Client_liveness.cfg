SPECIFICATION FairSpec
CONSTANTS
  Breaking = {ping}
  Routines = {}
  Outer = {write}
  Tids = {t1, t2}
  Resend = FALSE
  Unasked = {"push"}
  MaxInbox = 1
  MaxHandlers = 1
  None = None
  Handler = Handler
PROPERTIES SendsEnd SilenceIsNoticed Reconnects CancellationEnds
