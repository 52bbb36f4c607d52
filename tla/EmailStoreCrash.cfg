SPECIFICATION Spec
CONSTANTS
  h1 = h1
  h2 = h2
  amy = amy
  eve = eve
  token = token
  NoHeader = NoHeader
  NoToken = NoToken
  Message <- Two
  Mail <- MailWithAttachments
  AllowedSenders = {amy}
  Policies <- Relaxed
  MaxEmailsPerRun = 2
  Pollers = {bg}
  Users = {}
  Sweepers = {}
  MaxDeletions = 0
  SessionRowids = {}
  MaxArrivals = 2
  ForeignKeys = FALSE
  Faults = {}
  MaxFaults = 0
  MaxCrashes = 1
INVARIANT
  ArchivedInFull
