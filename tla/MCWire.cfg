SPECIFICATION Spec
CONSTANTS
  MaxHops = 3
  MaxList = 2
INVARIANTS
  TypeOK
  Faithful
  BytesStable
  SignaturesSurvive
CHECK_DEADLOCK FALSE
