SPECIFICATION Spec
CONSTANTS
  Capacity = 3
  MaxPacketSize = 2
  MaxLength = 2
  Lengths = {2, 3}
  MaxPushes = 6
  NoPacket = NoPacket
INVARIANTS
  TypeOK
  NoLossNoDuplication
  NoSlotRace
PROPERTIES
  EventuallyPopped
  QueueSpec
