SPECIFICATION Spec
CONSTANTS
  Addresses = {a1}
  Endpoints = {push}
  Global = global
  Threads = {w1, w2}
  None = None
  Second = 2
  Rate <- MCRate
  Burst = 2
  BanSeconds = 1
  MaxTime = 5
SYMMETRY Symmetry
INVARIANTS
  TypeOK
  AdmissionBound
  BanIsServed
  BanEndsWithToken
