CONSTANTS
  IdSpace = 4
  Slots = {1, 2}
  Commands <- SomeCommands
  Tries = 2
  StatusInterval = 3
  InitialTimeout = 1
  AckDelay = 1
  MaxTime = 2
  MaxPid = 3
  MaxFaults = 1
  Procs = {"p", "q", "r"}
  Receivers = {"p", "q"}
  Retries <- SomeRetries
  Mortal = {"r"}
  Places = {1}
  MaxSms = 2
  MaxEvents = 3
SPECIFICATION MCSpec
CHECK_DEADLOCK FALSE
INVARIANTS ActedInOrder ReadAsWritten
PROPERTIES MailKept CommandsActedOn ReadBeforeDelete
