SPECIFICATION ServicesSpec
CONSTANTS
  Turn = {"t1", "t2"}
  GeminiTurn = {}
  CloudEngines = {"grpc"}
  VoiceLoop = {"l1", "l2"}
  NoTurn = "none"
  NoLoop = "noloop"
  MaxQueued = 2
  MaxSegments = 2
  MaxAccidents = 2
  k1 = k1
  k2 = k2
  ContextKey = {k1, k2}
  Address <- Pages
  MaxActive = 1
  MaxVersion = 2
  MaxEvents = 3
  QueueSize = 2
  BatchSize = 2
  MaxStops = 1
  VmCall = {"c1", "c2"}
  UnikernelCall = {"c2"}
CHECK_DEADLOCK FALSE
INVARIANTS
  SpeakerKnown
  MemoryKept
  EventsAccounted
  NothingLeftBehind
PROPERTIES
  AcceptedEnds
