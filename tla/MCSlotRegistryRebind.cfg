SPECIFICATION RegistrySpec
CONSTANTS
  p1 = p1
  p2 = p2
  n1 = n1
  n2 = n2
  n3 = n3
  k1 = k1
  k2 = k2
  Nil = Nil
  Registrar <- MCProc
  Name <- MCName
  Key <- MCKey
  Jobs <- Edited
  Serial = FALSE
  MaxRegistrations = 1
PROPERTIES
  NamesPermanent
CHECK_DEADLOCK FALSE
