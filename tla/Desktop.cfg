SPECIFICATION FairSpec
CONSTANTS
  Ticker = {"tick", "command"}
  Ofp = {"o1", "o2"}
  Kind = {"atis", "metar"}
  MaxMoves = 4
  MaxVersion = 2
  MaxTries = 2
  Asset = {{"size"}, {"size", "digest"}}
  Helper = {"h1", "h2"}
  Caller = {"c1", "c2"}
  MaxEvents = 3
  DequeLimit = 1
  MaxCalls = 3
  MaxDeaths = 1
  Process = {"p1", "p2", "p3"}
  MaxStarts = 5
  Typed <- TypedNumbers
  UserName = {"mine"}
INVARIANTS
  WxOncePerOfp
  NoEventWaits
  SecondOnlyByRace
  ShownComesBack
PROPERTIES
  WxIsPrinted
  InstallsAreSound
  AnswerIsOwn
CHECK_DEADLOCK FALSE
