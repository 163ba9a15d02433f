SPECIFICATION Spec
CONSTANTS
  Boxes <- MCBoxes
  LaterBoxes <- MCLaterBoxes
  MaxCaptures = 2
  Renaming <- MCRenaming
INVARIANTS EntriesKept Blind ValuesFit CatalogIsUnion RefusedForAReason
CHECK_DEADLOCK FALSE
