SPECIFICATION FairSpec
CONSTANTS
  h1 = h1
  h2 = h2
  amy = amy
  eve = eve
  token = token
  NoHeader = NoHeader
  NoToken = NoToken
  Message <- Three
  Mail <- MailMixed
  AllowedSenders = {amy}
  Policies <- Balanced
  MaxEmailsPerRun = 2
  Pollers = {bg}
  Users = {web}
  Sweepers = {}
  MaxDeletions = 1
  SessionRowids = {3}
  MaxArrivals = 3
  ForeignKeys = TRUE
  Faults = {"connect", "exists", "store", "uidExpunge", "expunge", "body", "save"}
  MaxFaults = 2
  MaxCrashes = 0
INVARIANTS
  ArchivedInFull
  AttachmentOwner
  RefusedForCause
PROPERTY
  EveryMessageLeaves
