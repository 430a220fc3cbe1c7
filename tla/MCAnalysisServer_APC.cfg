SPECIFICATION Spec
CONSTANTS
  ClientScript <- APCClient
  ServerScript <- APCServer
  MaxRequests = 3
INVARIANTS TypeOK NoRaceWhileConnected NoUnexpectedMessage FreedBeforeClose
PROPERTIES BothFinish ImplementsBarrier
\* Both threads end with the last step of their scripts.
CHECK_DEADLOCK FALSE
