SPECIFICATION Spec
CONSTANTS
  pulse1 = pulse1
  pulse2 = pulse2
  json1 = json1
  json2 = json2
  silent1 = silent1
  ota1 = ota1
  bad1 = bad1
  Event = Event
  NoMsg = NoMsg
  PulseCmds <- OnePulse
  JsonCmds <- None
  SilentCmds <- OneSilent
  OtaMsgs <- OneOta
  BadMsgs <- None
  CmdCap = 2
  OutCap = 1
  MaxDrops = 1
  MaxRestarts = 1
  MaxEvents = 0
  MaxUnparsed = 0
PROPERTIES ServiceSpec HandlerReturns PublishedIsExecuted OutputDrains
