SPECIFICATION SafeSpec
CONSTANTS
  pulse1 = pulse1
  pulse2 = pulse2
  json1 = json1
  json2 = json2
  silent1 = silent1
  ota1 = ota1
  bad1 = bad1
  Event = Event
  NoMsg = NoMsg
  PulseCmds <- TwoPulses
  JsonCmds <- None
  SilentCmds <- None
  OtaMsgs <- None
  BadMsgs <- OneBad
  CmdCap = 1
  OutCap = 1
  MaxDrops = 1
  MaxRestarts = 1
  MaxEvents = 1
  MaxUnparsed = 1
SYMMETRY Symmetry
INVARIANTS TypeOK ExecutedTwiceOnlyByLoss LostOnlyByRestart FlagNotAhead LossPerDrop
