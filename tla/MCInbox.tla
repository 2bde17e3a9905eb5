------------------------------- MODULE MCInbox -------------------------------
(* Small instances of Inbox for TLC. *)
EXTENDS Inbox, TLC

CONSTANTS e1, e2, e3, s1, s2

MCEvents == {e1, e2, e3}
MCSessions == {s1, s2}

\* Three server timestamps, one per event; the media event is the middle one.
MCTs == (e1 :> 0) @@ (e2 :> 1) @@ (e3 :> 2)
MCMedia == {e2}

Default == [max_entries |-> 1, max_age |-> 0, hard_cap |-> FALSE,
            accept_media |-> TRUE, track_processed |-> FALSE]
Aged    == [Default EXCEPT !.max_age = 1]
Tracked == [Default EXCEPT !.track_processed = TRUE]
Strict  == [max_entries |-> 1, max_age |-> 1, hard_cap |-> TRUE,
            accept_media |-> TRUE, track_processed |-> FALSE]
Capped  == [Default EXCEPT !.hard_cap = TRUE]

\* One policy more, without media, of an inbox whose files may fail to be written.
FaultyPolicies == {[Strict EXCEPT !.accept_media = FALSE]}
MCPolicies == {Default, Aged, Tracked, Strict, Capped} \cup FaultyPolicies

SessionSymmetry == Permutations(MCSessions)
=============================================================================
