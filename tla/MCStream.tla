------------------------------ MODULE MCStream ------------------------------
EXTENDS Stream

Kinds(ks, bs, fs) == [kind : ks, breaks : bs, faults : fs]
MCScenarios ==
    Kinds({"stream"}, {{}, {1, 3, 4}}, {{}, {"fails"}, {"norefresh"}, {"lost"}})
    \cup Kinds({"board"}, {{}}, {{"fails"}, {"norefresh"}})
    \cup Kinds({"dm", "room"}, {{3}}, {{"fails"}, {"norefresh"}, {"lost"}})
    \cup Kinds({"notify"}, {{}}, {{"fails", "lost"}, {"norefresh"}})
MCFailing == Kinds({"stream"}, {{}}, {{"fails"}})
=============================================================================
