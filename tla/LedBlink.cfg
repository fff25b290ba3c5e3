\* Mailboxes of two messages, and the shortest delay that is long enough for
\* another processor half as fast.
CONSTANTS
  MailboxSize = 2
  Lag = 2
  Delay <- ShortestDelay
SPECIFICATION FairSpec
INVARIANTS
  TypeOK
  NoMessageIsLost
  RequestsAreWhole
  LedFollows
PROPERTIES
  KeepsAsking
