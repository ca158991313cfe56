\* Recalling one message.
CONSTANTS
  r1 = r1  m1 = m1  m2 = m2  m3 = m3  m4 = m4
  NULL = null
  Remote <- Remotes
  Element <- Elements
  Index <- Indexes
  Id <- OneId
  MaxSend = 3
SPECIFICATION Spec
CHECK_DEADLOCK FALSE
INVARIANT RecallsOne
