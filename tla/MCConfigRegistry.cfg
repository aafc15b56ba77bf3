\* A process whose file cannot be parsed stays down until somebody repairs it,
\* which MaxFaults bounds.
CHECK_DEADLOCK FALSE
SPECIFICATION Spec
CONSTANTS
  n1 = n1
  n2 = n2
  f1 = f1
  f2 = f2
  v = v
  NoVar = NoVar
  NoProvider = NoProvider
  Unreadable = Unreadable
  Names = {n1, n2}
  Vars = {v}
  Folders = {f1, f2}
  MaxFaults = 2
  Inputs <- SmallInputs
SYMMETRY FoldersAlike
INVARIANTS TypeOK LiveIsStored ResolvesUnlessRefused EntriesStayHome OneFolder
PROPERTY OthersUntouched
