SPECIFICATION UsersSpec
CONSTANTS
  a = a
  b = b
  p1 = p1
  p2 = p2
  h1 = h1
  h2 = h2
  Cards = {a, b}
  Customers = {cus_1, cus_2}
  Calls = {p1, p2}
  Handlers = {h1, h2}
  MaxOutside = 2
  None = None
  d1 = d1
  d2 = d2
  Regs = {1, 2}
  Passwordless = {2}
  Deletions = {d1, d2}
  NoOne = NoOne
  MaxMishaps = 1
  w1 = w1
  w2 = w2
  u1 = u1
  Resets = {1, 2}
  Pages = {w1, w2}
  Changes = {u1}
  NoCode = 0
  Wrong = 9
  MaxTries = 1
  MaxOutages = 1
  Starts = {1, 2}
  NoChallenge = 0
  MaxUpsets = 2
  Reads = {1, 2}
  Edits = {1, 2}
  NoBody = NoBody
  MaxSlips = 2
  ru = ru
  rd = rd
  re = re
  Rows = {ru, rd, re}
  ModelOf <- MCModelOf
  ParentOf <- MCParentOf
  Actors = {}
  NoActor = NoActor
SYMMETRY Sym
CHECK_DEADLOCK FALSE
INVARIANTS
    CardRecords
    TableInSync
    AccountsHonest
    FlagHonest
    NewestCodeOpens
    StaleHasCause
    SoftDeleteHolds
PROPERTY
    CodeHonoured
