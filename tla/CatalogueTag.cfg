SPECIFICATION Spec
CONSTANTS
  inbox = inbox
  work = work
  misc = misc
  urgent = urgent
  e1 = e1
  e2 = e2
  NoTag = NoTag
  Inbox = inbox
  Slug = {inbox, work, misc}
  DefaultSlugs <- Seeds
  Word = {urgent}
  Email = {e1}
  Subject <- RetainWork
  Days = {0, 30}
  Admins = {}
  Wizards = {}
  Choices <- InboxOnly
  Pollers = {bg}
  ForeignKeys = FALSE
  Faults = {}
  MaxRequests = 0
  MaxFaults = 0
  MaxStops = 0
INVARIANT
  TagObeyed
CHECK_DEADLOCK FALSE
