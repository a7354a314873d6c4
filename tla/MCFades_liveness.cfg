CONSTANTS
  Fades = {f1}
  Sets = {d1}
  Targets = {t1}
  CommandCapacity = 1
  MaxSteps = 2
  None = None
SPECIFICATION FairSpec
PROPERTY FadesEnd
