\* The run loop: two priorities, one remote thread, a periodic timer.
CONSTANTS
  r1 = r1  t1 = t1
  Self = self
  NumPriority = 2
  CmdPriority = 1
  Remote <- Thread1
  Timer <- Timer1
  Interval <- Timer1
  Command <- Exit
  MaxSend = 2
  MaxOwn = 1
SPECIFICATION Spec
INVARIANTS TypeOK NoLostWakeup ClearFindsByte PipeBounded
PROPERTIES ImplementsMailbox AllServed
