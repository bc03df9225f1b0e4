SPECIFICATION Spec
CONSTANTS
  boss = boss
  ann = ann
  bob = bob
  d1 = d1
  d2 = d2
  Devices = {d1, d2}
  Emails = {boss, ann, bob}
  Keys = {1, 2}
  Texts <- MCTexts
  Registered <- MCRegistered
  Master = boss
  NoAccount = NoAccount
  NoEmail = NoEmail
  NoRecord = NoRecord
  NoToken = NoToken
  NotANumber = NotANumber
  MaxTaps = 4
CONSTRAINT Explored
SYMMETRY Symmetry
INVARIANTS TypeOK RecordOfAccount ActsForSignedIn TokenOfSignedIn SignedOutIsNobody
PROPERTY ThrowsOnlyAtOrphan
CHECK_DEADLOCK FALSE
