\* One thread registers up to three things while one request is handled.
SPECIFICATION Spec
CONSTANTS
  Registrar = {t1}
  Server = {s1}
  Placeholder <- MCPlaceholder
  Meta <- MCMeta
  Registrations <- MCRegistrations
  Requests <- MCRequests
  Lookups <- MCLookups
  MaxRegistered = 3
  NoTable = NoTable
INVARIANTS FindsWhatScanFinds OneTable
