SPECIFICATION FairSpec
CONSTANTS
  office1 = office1
  owner1 = owner1
  peer1 = peer1
  Office <- office1
  Owner <- owner1
  Peers = {}
  NumMails = 2
  MaxMail = 2
  MaxCrashes = 1
  Crashable <- MCChildDies
PROPERTY RunningIsSettled
