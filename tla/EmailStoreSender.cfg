SPECIFICATION Spec
CONSTANTS
  h1 = h1
  h2 = h2
  amy = amy
  eve = eve
  token = token
  NoHeader = NoHeader
  NoToken = NoToken
  Message <- Two
  Mail <- MailWithAttachments
  AllowedSenders = {amy}
  Policies <- Relaxed
  MaxEmailsPerRun = 2
  Pollers = {bg}
  Users = {}
  Sweepers = {}
  MaxDeletions = 0
  SessionRowids = {}
  MaxArrivals = 2
  ForeignKeys = FALSE
  Faults = {"sender"}
  MaxFaults = 1
  MaxCrashes = 0
INVARIANT
  RefusedForCause
