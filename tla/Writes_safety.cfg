SPECIFICATION WritesSpec
CONSTANTS
  Endpoints = {}
  Areas = {a}
  Groups = {g}
  Fields = {f}
  Conso = {}
  Usages = {shutter, boiler}
  Unset = Unset
  MaxVersion = 0
  BadVersions = {}
  MaxConfigs = 1
  MaxFaults = 1
  MaxInbox = 1
  Calls = {w1, w2}
  ShutterUsages = {shutter}
  HeatingUsages = {boiler}
  HeatingAreaUsages = {boiler}
  Interval = 3
  Grain = 2
  MaxTime = 4
  Never = Never
SYMMETRY Symmetry
INVARIANTS WritesTypeOK RateKept RetryIsEnough
PROPERTIES RightUsage SendsOnce
CHECK_DEADLOCK FALSE
