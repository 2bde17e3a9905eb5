------------------------------- MODULE MCRelay -------------------------------
(* Small instances of Relay for TLC: the DM with the target and a bound room. *)
EXTENDS Relay, TLC

CONSTANTS a, b, n, x, g, dm, room

MCRooms == {dm, room}
MCBound == {room}
MCGuests == {g}

\* Work, a notice, an empty message and work again in the DM, and a guest's
\* work in the bound room.
MCMsgs == {a, n, x, b, g}
MCRoomOf == [m \in MCMsgs \ {g} |-> dm] @@ (g :> room)
MCTs == (a :> 1) @@ (n :> 2) @@ (x :> 2) @@ (b :> 3) @@ (g :> 2)
MCKind == (n :> "notice") @@ (x :> "empty") @@ [m \in {a, b, g} |-> "work"]

\* Two messages of work in the DM.
DMMsgs == {a, b}
DMRoomOf == [m \in DMMsgs |-> dm]
DMTs == (a :> 1) @@ (b :> 2)
DMKind == [m \in DMMsgs |-> "work"]

FileFault == {"watermark_file"}
CrashFault == {"crash_in_accept"}
ScanFault == {"scan"}
KeysFault == {"keys"}
AbortFault == {"abort"}
=============================================================================
