------------------------------ MODULE MCRooms ------------------------------
EXTENDS Rooms

In(me, ann, eve) == [u \in Users |-> CASE u = "me" -> me [] u = "ann" -> ann [] OTHER -> eve]
Nobody == In("none", "none", "none")
None == <<"none", "none", "none">>

Base == [app |-> "bridge",
         members |-> <<In("join", "join", "none"), In("join", "join", "join"), Nobody>>,
         row |-> None, listed |-> {}, by |-> None, direct |-> {}, recorded |-> {1},
         reply |-> 0, opens |-> FALSE, moves |-> 2, faults |-> {}]

MCScenarios == {
    \* a group recorded as hers beside her room, which cannot be read at first
    [Base EXCEPT !.recorded = {1, 2}, !.faults = {"fetch"}, !.moves = 1],
    \* an observer in her room, a listed room of two
    [Base EXCEPT !.members[1] = In("join", "join", "join"), !.row = <<"eve", "none", "none">>,
                 !.members[2] = In("join", "join", "none"), !.listed = {2},
                 !.faults = {"fetch", "store"}, !.moves = 1],
    [Base EXCEPT !.members[1] = In("join", "join", "join"), !.row = <<"eve", "none", "none">>,
                 !.members[2] = Nobody],
    \* a group she left and may come back to
    [Base EXCEPT !.members[1] = Nobody, !.members[2] = In("join", "leave", "join")],
    \* a row that names this account, in a group
    [Base EXCEPT !.members[1] = Nobody, !.row = <<"none", "me", "none">>, !.reply = 2],
    \* her invite to a room she says is direct, with a third member
    [Base EXCEPT !.members[1] = In("invite", "join", "join"), !.members[2] = Nobody,
                 !.by = <<"ann", "eve", "none">>, !.direct = {1, 2}, !.recorded = {},
                 !.faults = {"who", "join", "write"}],
    [Base EXCEPT !.app = "secondary", !.members[1] = In("join", "invite", "none"),
                 !.members[2] = In("invite", "join", "none"), !.by = <<"none", "ann", "none">>],
    \* a relay: rooms she left, with and without others; an invite from her
    [Base EXCEPT !.app = "relay", !.members[1] = In("join", "leave", "none"),
                 !.members[2] = In("join", "leave", "join"), !.recorded = {1, 2}],
    [Base EXCEPT !.app = "relay", !.members[1] = In("none", "join", "none"),
                 !.members[2] = In("invite", "join", "join"), !.by = <<"ann", "eve", "none">>,
                 !.opens = TRUE, !.recorded = {}],
    [Base EXCEPT !.app = "strict", !.members[1] = In("invite", "join", "none"),
                 !.members[2] = In("invite", "none", "join"), !.by = <<"ann", "eve", "none">>,
                 !.listed = {2}, !.recorded = {}, !.faults = {"who", "join", "write", "fetch"}]}

\* she is only invited to a room another account has joined
MCInvited == {[Base EXCEPT !.members[1] = In("join", "invite", "join"), !.members[2] = Nobody,
                           !.recorded = {}]}
=============================================================================
