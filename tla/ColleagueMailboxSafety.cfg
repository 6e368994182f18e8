SPECIFICATION Spec
CONSTANTS
  office1 = office1
  owner1 = owner1
  peer1 = peer1
  Office <- office1
  Owner <- owner1
  Peers <- MCOnePeer
  NumMails = 2
  MaxMail = 2
  MaxCrashes = 1
  Crashable <- MCBothDie
INVARIANTS
  TypeOK
  ChatIsOnFile
PROPERTIES
  FileNeverRegresses
  ImplementsLedger
