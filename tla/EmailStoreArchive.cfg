SPECIFICATION Spec
CONSTANTS
  h1 = h1
  h2 = h2
  amy = amy
  eve = eve
  token = token
  NoHeader = NoHeader
  NoToken = NoToken
  Message <- Two
  Mail <- MailTwice
  AllowedSenders = {amy}
  Policies <- Relaxed
  MaxEmailsPerRun = 2
  Pollers = {bg}
  Users = {web}
  Sweepers = {expiry}
  MaxDeletions = 1
  SessionRowids = {2}
  MaxArrivals = 2
  ForeignKeys = FALSE
  Faults = {"file", "record", "paths", "delete", "remove", "uidExpunge"}
  MaxFaults = 1
  MaxCrashes = 0
INVARIANT
  ListedAttachmentOnDisk
PROPERTY
  NeverArchivedAgain
