SPECIFICATION FairSpec
CONSTANTS
  Names = {"ana", "bob"}
  Passwords = {"pw"}
  Buckets = {0}
  hash <- OneChain
  InCap = 5
  OutCap = 9
  SockCap = 3
  Lines <- SomeLines
  MaxLines = 2
  Env = {"batch", "split", "close", "reset", "others", "program", "stop"}
INVARIANTS
  AnswersInOrder
  CommandsInOrder
  ServerStays
  ShownInFull
PROPERTIES
  CredentialsSpec
  EveryCommandAnswered
CHECK_DEADLOCK FALSE
