\* Messages of two signals on two instances, as purges and recalls name them.
CONSTANTS
  r1 = r1  m1 = m1  m2 = m2  m3 = m3  m4 = m4
  NULL = null
  Remote <- Remotes
  Element <- Elements
  Index <- Indexes
  Id <- TwoIds
  MaxSend = 2
SYMMETRY Symmetry
SPECIFICATION Spec
INVARIANTS TypeOK ListsSound
CHECK_DEADLOCK FALSE
PROPERTY ImplementsDeferral
