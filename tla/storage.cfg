SPECIFICATION Spec
CONSTANTS
  c1 = c1
  c2 = c2
  ann = ann
  bob = bob
  Clients = {c1, c2}
  Accounts = {ann, bob}
  Phones = {phone}
  GovIDs = {gov}
  Details = {iban}
  Keys = {k1, k2}
  Null = Null
  Nobody = Nobody
  MaxUsers = 2
  MaxWrites = 4
SYMMETRY Symmetry
INVARIANTS
  TypeOK
  OneRowPerUser
PROPERTIES
  ImplementsUserTable
  SealedDataSurvives
  OnlyStaleCopiesChangeRights
CHECK_DEADLOCK FALSE
