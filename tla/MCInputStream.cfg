SPECIFICATION Spec
CONSTANTS
  Senders = {ui, gamepad}
  NoSender = NoSender
  Latest = {"absolute"}
  States <- MCStates
  Deltas <- MCDeltas
  MaxDelta = 2
  Packets <- MCPackets
  QueueBound = 2
  MaxCalls = 3
INVARIANTS TypeOK NothingStranded
PROPERTIES KeepsOrder DrainsOnStop
CHECK_DEADLOCK FALSE
