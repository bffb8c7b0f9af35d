SPECIFICATION Spec
CONSTANTS
  Capacity = 3
  MaxPacketSize = 2
  MaxLength = 1
  Lengths = {1, 2}
  MaxPushes = 5
  NoPacket = NoPacket
INVARIANTS
  NoLossNoDuplication
  NoSlotRace
