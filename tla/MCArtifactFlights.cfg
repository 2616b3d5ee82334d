SPECIFICATION FairArtifactSpec
CONSTANTS
  w1 = w1
  w2 = w2
  f1 = f1
  f2 = f2
  s1 = s1
  s2 = s2
  NoFlight = NoFlight
  Workers <- TwoWorkers
  Threads <- TwoFrames
  Requests <- SomeRequests
  Keys <- SomeKeys
  Slots <- TwoSlots
  MaxFlights = 2
INVARIANTS NeverCached NoHollowAnswer NoCircularWait
PROPERTIES ComparedWhatWasRead EveryRequestAnswered
