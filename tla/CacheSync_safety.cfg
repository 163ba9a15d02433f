SPECIFICATION Spec
CONSTANTS
  e = e
  f = f
  Endpoints = {e}
  Areas = {a}
  Groups = {}
  Fields = {f, g}
  Conso <- MCConso
  Usages = {shutter, heater}
  Unset = Unset
  MaxVersion = 3
  BadVersions = {1}
  Unreadable = {2}
  MaxConfigs = 1
  MaxFaults = 1
  MaxInbox = 1
SYMMETRY Symmetry
INVARIANTS TypeOK FreshMeansCurrent NeverMisread FreshIsConnected
PROPERTY NeverGoesBack
CHECK_DEADLOCK FALSE
