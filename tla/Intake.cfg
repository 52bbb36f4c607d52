SPECIFICATION FairSpec
CHECK_DEADLOCK FALSE
CONSTANTS
  NoToken = NoToken
  Blank = Blank
  Invalid = Invalid
  NoMode = NoMode
  NoForm = NoForm
  NoAddress = NoAddress
  v4 = v4
  v6 = v6
  token = token
  PolicyKeys <- OneOfEachKind
  Tokens = {token}
  imap = imap
  me = me
  PolicyForms <- PolicyChoices
  MailboxForms <- MailboxChoices
  Stored <- Tables
  Addresses = {v4, v6}
  IPv6 = {v6}
  BaseBackoff = 1
  MaxBackoff = 3
  MaxSaves = 2
  MaxFaults = 1
  MaxStops = 1
INVARIANTS
  TypeOK
  EncryptionKept
  BackoffSchedule
PROPERTIES
  PolicyAsSaved
  AdmittedAtOnce
  PolicyTakesEffect
