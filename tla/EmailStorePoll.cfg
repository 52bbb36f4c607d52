SPECIFICATION Spec
CONSTANTS
  h1 = h1
  h2 = h2
  amy = amy
  eve = eve
  token = token
  NoHeader = NoHeader
  NoToken = NoToken
  Message <- FiveMessages
  Mail <- MailKinds
  AllowedSenders = {amy}
  Policies <- Relaxed
  MaxEmailsPerRun = 2
  Pollers = {bg, manual}
  Users = {}
  Sweepers = {}
  MaxDeletions = 0
  SessionRowids = {}
  MaxArrivals = 2
  ForeignKeys = FALSE
  Faults = {"connect", "exists", "sender", "store", "uidExpunge", "expunge", "body", "save", "file", "record"}
  MaxFaults = 1
  MaxCrashes = 1
SYMMETRY Interchangeable
INVARIANTS
  TypeOK
  NoMailLost
  FlaggedSafe
  SaveNeverLooksUp
PROPERTY
  ImplementsDelivery
