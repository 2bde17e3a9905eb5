------------------------------ MODULE MCAccess ------------------------------
(* A small instance of Access for TLC: a host and an agent with an owner. *)
EXTENDS Access

P(n, i) == [name |-> n, id |-> i]
O(n, i, r) == [name |-> n, id |-> i, room |-> r]
File(people, rooms, observers) ==
  [state |-> "ok", people |-> people, rooms |-> rooms, observers |-> observers]

Ann == P("ann", "@ann")
Bob == P("bob", "@bob")
Team == P("team", "!team")

Guests == File(<<Ann, Bob>>, <<>>, <<O("eve", "@eve", "!dm")>>)
Listed == File(<<Ann, P("me", "@ann")>>, <<Team>>, <<>>)
BadObserver == File(<<Ann, Bob>>, <<Team>>, <<O("eve", "@ann", "!dm")>>)   \* also a recipient
Renamed == File(<<Bob, P("ann", "@bob2")>>, <<>>, <<>>)          \* the owner's name for another
Garbled == [NoFile EXCEPT !.state = "garbled"]
Unreadable == [NoFile EXCEPT !.state = "unreadable"]

Scenario(built, files, kinds, faults) ==
  [fixed |-> built, files |-> files, kinds |-> kinds, faults |-> faults]

MCScenarios ==
  {Scenario(f, {Guests, Listed, BadObserver, Renamed, Garbled, Unreadable, NoFile}, {"send"}, {}) :
     f \in {<<>>, <<Ann>>}}
  \cup {Scenario(<<Ann>>, {Guests, Listed, BadObserver, Garbled}, {"inbound", "fetch"}, {}),
        Scenario(<<>>, {Guests, Listed}, {"inbound", "fetch"}, {"kill", "wipe", "touch"}),
        Scenario(<<>>, {Guests}, {"inbound", "fetch"}, {"kill", "wipe", "write"}),
        Scenario(<<>>, {Guests}, {"inbound", "send"}, {})}

MCEvents ==
  [m1 |-> [sender |-> "@bob", room |-> "!dm", size |-> "small"],
   m2 |-> [sender |-> "@eve", room |-> "!team", size |-> "hidden"],
   m3 |-> [sender |-> "@bob", room |-> "!dm", size |-> "small"]]
=============================================================================
