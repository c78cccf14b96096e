SPECIFICATION FairSpec
CONSTANTS
  Clients = {c1, c2}
  Uploads = {u1}
  Targets = {t1}
  PartNumbers <- MCPartNumbers
  Contents = {big, small}
  Small = {small}
  None = None
  MaxList = 2
  MaxFaults = 1
INVARIANTS
  MultipartTypeOK
  CommittedAsListed
  AckedPartKept
  NothingLeftBehind
PROPERTIES
  ImplementsContract
  RequestsAnswered
