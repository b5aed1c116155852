\* Imports, jobs and exports that may stop at every write.
SPECIFICATION DeliverySpec
CONSTANTS
  Paths = {path}
  Contents = {a, b}
  Jobs = {j1, j2}
  Exporters = {x1, x2}
  MaxCalls = 4
  MaxFaults = 1
  Nothing = Nothing
SYMMETRY Symmetry
INVARIANTS AnsweredImportStands RanWhatItReports LinksServe
CHECK_DEADLOCK FALSE
