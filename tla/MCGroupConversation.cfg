SPECIFICATION GroupSpec
CONSTANTS
  o = o
  a = a
  b = b
  r1 = r1
  r2 = r2
  Users <- MCUsers
  Owner = o
  Invited <- MCInvited
  Requests <- MCRequests
  Kinds <- MCKinds
  MaxEpoch = 3
  MaxMessages = 1
SYMMETRY Symmetry
INVARIANT GroupTypeOK MembersHoldTheCurrentKey OutsidersCannotRead RecipientsCanRead
PROPERTY TextReceiptsNeverRegress
\* The owner may delete the group.
CHECK_DEADLOCK FALSE
