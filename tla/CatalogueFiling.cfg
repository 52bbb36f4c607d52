SPECIFICATION FairSpec
CONSTANTS
  inbox = inbox
  work = work
  misc = misc
  urgent = urgent
  e1 = e1
  e2 = e2
  NoTag = NoTag
  Inbox = inbox
  Slug = {inbox, work, misc}
  DefaultSlugs <- Seeds
  Word = {urgent}
  Email = {e1, e2}
  Subject <- Subjects
  Days = {0, 30}
  Admins = {web}
  Wizards = {wiz}
  Choices <- InboxOnlyOrWork
  Pollers = {bg}
  ForeignKeys = FALSE
  Faults = {"settings", "match", "retain", "save", "setup"}
  MaxRequests = 2
  MaxFaults = 1
  MaxStops = 1
INVARIANTS
  TypeOK
  InboxKept
PROPERTIES
  RestartKeepsCategories
  NoAdoption
  EventuallyFiled
CHECK_DEADLOCK FALSE
