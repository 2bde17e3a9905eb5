SPECIFICATION FairSpec
CONSTANTS
  a = a  b = b  n = n  x = x  g = g  dm = dm  room = room
  Msgs <- DMMsgs
  Rooms <- MCRooms
  BoundRooms <- MCBound
  RoomOf <- DMRoomOf
  Ts <- DMTs
  Kind <- DMKind
  Guests = {}
  Global = Global
  NoMsg = NoMsg
  Faults <- FileFault
  MaxCrashes = 1
CHECK_DEADLOCK FALSE
PROPERTIES EveryMessageAnswered
