SPECIFICATION Spec
CONSTANTS
  Creators = {c1, c2}
  Listers = {l1, l2}
  ExportedTables <- MCExportedTables
  NoRow = NoRow
  MaxMishaps = 2
  a1 = a1
  a2 = a2
  None = None
  Applications = {a1, a2}
  Records <- MCRecords
  WantedRole <- MCWantedRole
  Accounts <- MCAccounts
  Unfit <- MCUnfit
  Environments <- MCEnvironments
  MaxFaults = 2
  MaxEvents = 1
SYMMETRY MCSymmetry
INVARIANTS
  TypeOK
  ExportStatusIsTrue
  ApplyStatusIsTrue
