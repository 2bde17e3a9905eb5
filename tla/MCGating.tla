------------------------------ MODULE MCGating ------------------------------
(* Small instances of Gating for TLC: two targets. *)
EXTENDS Gating

Both(x, y, fs) == [tool |-> [ann |-> x, bob |-> y], faults |-> fs]

MCScenarios ==
  {Both("ask", "md", {"socket", "send"}), Both("ask", "md", {"kill", "disk"}),
   Both("md", "md", {"name", "send"}), Both("md", "md", {"name", "kill"}),
   Both("ask", "md", {"answer"})}

LateAnswers == {Both("ask", "md", {})}
LostSends == {Both("md", "md", {"send"}), Both("md", "md", {"name"})}
=============================================================================
