SPECIFICATION Spec
CONSTANTS
  Server = {p1, p2}
  Session = {s1, s2}
  Request = {r1, r2}
  cardA = cardA
  cardB = cardB
  g0 = g0
  g1 = g1
  Source <- CardFiles
  Greeting <- Greetings
  Offered <- GreetingsOffered
  Nothing = Nothing
  MaxRuns = 3
  Faults = {"crash"}
INVARIANTS
  BindingHasItsParts
  ReceiptsAgree
  ReadySessionLoads
PROPERTIES
  BindingImmutable
  RetrySucceeds
SYMMETRY Interchangeable
CHECK_DEADLOCK FALSE
