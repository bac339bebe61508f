SPECIFICATION Spec
CONSTANTS
  Range = 8
  TRange = 4
  InitCapacity = 2
  MaxCapacity = 4
  MaxPktSize = 255
  Packets <- MCPackets
  SizeOf <- MCSizeOf
  NoPacket = NoPacket
INVARIANTS TypeOK OwnBuffer WindowOrder NeverAnotherPacket
PROPERTIES PacketsStay ImplementsWindow
