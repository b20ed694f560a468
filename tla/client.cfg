SPECIFICATION FairSpecClient
CONSTANTS
  main = main
  callback = callback
  Sessions = {s1, s2}
  Kinds = {"notify", "read", "write", "descriptor"}
  Wrapped = {"notify", "read", "write"}
  AppCallbacks <- GrowingCallbacks
  Faults = {"refuse", "fail", "tables"}
  RequestFaults = {"refuse", "device", "memory", "descriptor", "late"}
  MaxEvents = 2
  Rounds = 2
  Threads = {main, callback}
  Functions = {"write", "write descriptor", "session"}
  ForceOld = FALSE
INVARIANTS TypeOKMain RolesAgree ServerIsHeard NoNullCall NotificationsFlow NotificationsStop DescriptorBufferFreed
INVARIANTS AnswersInTurn ValueIsSound
INVARIANT WrongOnlyInRace
INVARIANTS AddressesAndNothingElse BytesAreTheDigits FindsFirst DumpIsWhole
PROPERTIES CallsReturn MainEnds ChoicesSettle
