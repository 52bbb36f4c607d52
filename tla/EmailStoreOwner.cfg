SPECIFICATION Spec
CONSTANTS
  h1 = h1
  h2 = h2
  amy = amy
  eve = eve
  token = token
  NoHeader = NoHeader
  NoToken = NoToken
  Message <- Three
  Mail <- MailThenTwice
  AllowedSenders = {amy}
  Policies <- Relaxed
  MaxEmailsPerRun = 3
  Pollers = {bg}
  Users = {}
  Sweepers = {}
  MaxDeletions = 0
  SessionRowids = {}
  MaxArrivals = 3
  ForeignKeys = FALSE
  Faults = {}
  MaxFaults = 0
  MaxCrashes = 0
INVARIANT
  AttachmentOwner
