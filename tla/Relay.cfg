SPECIFICATION Spec
CONSTANTS
  a = a  b = b  n = n  x = x  g = g  dm = dm  room = room
  Msgs <- MCMsgs
  Rooms <- MCRooms
  BoundRooms <- MCBound
  RoomOf <- MCRoomOf
  Ts <- MCTs
  Kind <- MCKind
  Guests <- MCGuests
  Global = Global
  NoMsg = NoMsg
  Faults = {}
  MaxCrashes = 1
CHECK_DEADLOCK FALSE
INVARIANTS NothingLost OneRunPerProcess
PROPERTIES AnsweredNotRerun ImplementsPromise
