SPECIFICATION Spec
CONSTANTS
  acc = acc
  val1 = val1
  val2 = val2
  Absent = Absent
  Account = acc
  Validators = {acc, val1, val2}
  Worlds <- MCWorlds
  Requests <- MCRequests
  LastEra = 4
  ModernEra = 1
  MaxNominations = 6
INVARIANTS
  LookupsExact
  WholeHistory
  NominationsPaid
  ReadsKept
PROPERTIES
  RequestSettles
