------------------------------ MODULE MCKeeper ------------------------------
(* Instances of Keeper for TLC *)
EXTENDS Keeper

\* Which failures come together: no behaviour has all of them.
SomeFaults == {{}, {"pause", "errors"}, {"restart", "errors"}, {"slow"}, {"unsupported"},
               {"send_leave", "cancel"}, {"stray", "pause"}, {"abort"}}
RestartFails == {{"restart"}}
LeaveFails == {{"send_leave"}}
=============================================================================
