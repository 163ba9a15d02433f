SPECIFICATION FairSpec
CONSTANTS
  e = e
  f = f
  Endpoints = {e}
  Areas = {a}
  Groups = {}
  Fields = {f}
  Conso <- MCConso
  Usages = {shutter, heater}
  Unset = Unset
  MaxVersion = 2
  BadVersions = {}
  Unreadable = {}
  MaxConfigs = 1
  MaxFaults = 2
  MaxInbox = 2
PROPERTY CatchesUp
CHECK_DEADLOCK FALSE
