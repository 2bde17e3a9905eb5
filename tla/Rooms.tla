------------------------------- MODULE Rooms -------------------------------
(***************************************************************************)
(* Which room is the direct conversation with a person.  The system bridge  *)
(* (aqua-system-bridged matrix.rs, aqua-messenger-matrix inbound.rs), the    *)
(* relay (aqua-matrix-relay lib.rs) and the connector they share             *)
(* (aqua-matrix-agent dm.rs, media.rs, lib.rs) decide it from member lists,  *)
(* never from the summary counters, and keep the account data m.direct.      *)
(*                                                                          *)
(* The program runs as two tasks: "main" connects (invites, repair, survey)  *)
(* and then serves sends one at a time; "sync" runs the event handlers of    *)
(* the sync loop, one at a time, while "main" serves.  Each step ends at an  *)
(* await, and between two steps members come and go, rows of the allow-list  *)
(* are edited and the other task moves on.                                   *)
(***************************************************************************)
EXTENDS Integers, FiniteSets, FiniteSetsExt

CONSTANTS
    Rooms,       \* room ids, numbers: the order of the ids is the last tie-break
    Scenarios,   \* the situations a behaviour may start from
    MaxSends,    \* messages sent to ann, a bound
    MaxArrivals, \* messages and invites that arrive live, a bound
    MaxCycles    \* connection cycles, a bound

\* app:     "bridge", "secondary" (a bridge on a secondary device), "relay"
\*          (InvitePolicy::Legacy) or "strict" (InvitePolicy::OwnerOnly)
\* members: who is in which room at first
\* row:     the observer each room's [[observers]] row names, or "none"
\* listed:  the [[rooms]] entries, for a relay the handler's bound rooms
\* by, direct: the inviter of our invite to a room, and its is_direct flag
\* recorded: m.direct[ann] at first
\* reply:   the room of the message a send answers, or 0
\* opens:   MessageHandler::initiates_dm
\* moves:   membership changes and row edits, a bound
\* faults:  "fetch" (a member list not yet synced cannot be fetched), "store"
\*          (nor read from the store), "who" (the inviter is not known),
\*          "join" (joining or leaving fails), "write" (account data writes fail)
Users == {"me", "ann", "eve"}  \* this account, the recipient, a third account
Standing == {"none", "invite", "join", "leave"}
Observer == {"none", "eve", "me"}  \* whom a row of [[observers]] names
Bridges == {"bridge", "secondary"}

\* only a bridge has observers; a room is listed only if it exists
ASSUME RoomsAssumption ==
    /\ Rooms \subseteq Nat \ {0}
    /\ \A s \in Scenarios :
         /\ s.app \in Bridges \cup {"relay", "strict"} /\ s.moves \in Nat
         /\ s.members \in [Rooms -> [Users -> Standing]]
         /\ s.row \in [Rooms -> IF s.app \in Bridges THEN Observer ELSE {"none"}]
         /\ \A r \in s.listed : s.members[r]["me"] # "none" \/ s.members[r]["ann"] # "none"
    /\ {MaxSends, MaxArrivals, MaxCycles} \subseteq Nat

VARIABLES
    scenario, \* the situation, chosen once
    member,   \* the homeserver's membership: room -> user -> state
    view,     \* the client's store of it
    fetched,  \* rooms whose member list the store has synced
    row,      \* the observer rows of the allow-list: room -> user or "none"
    ever,     \* AllowList::ever_observed
    dmObs,    \* AgentClient::dm_observers: room -> user or "none"
    snapshot, \* Engine::joined_rooms: joined_members per room, 0 for none
    mdirect,  \* m.direct[ann]: the rooms recorded for her
    act,      \* what each task is doing
    changes, sends, arrivals, cycles, \* how much of each bound is used
    \* what the properties remember of the operation a task is in:
    once,     \* rooms the main one might answer with at some moment of it
    kept,     \* rooms that were a 1:1 with ann throughout it
    dead,     \* rooms she had abandoned at some moment of it
    unread,   \* rooms it could not read, read while they changed, or whose row changed
    was,      \* task -> the room it is at was a 1:1 with ann since it took it up
    calm      \* rooms without a third member at some moment since the snapshot

roomsVars == <<scenario, member, view, fetched, row, ever, dmObs, snapshot, mdirect,
          act, changes, sends, arrivals, cycles, once, kept, dead, unread, was, calm>>
server == <<member, view, fetched>>
lists  == <<scenario, row, ever>>
spent   == <<changes, sends, arrivals, cycles>>

Tasks == {"main", "sync"}
NoTask == [pc |-> "idle", room |-> 0, todo |-> {}, rows |-> [r \in Rooms |-> "none"],
         found |-> {}, groups |-> {}, copy |-> {}, pick |-> 0, cand |-> {},
         counts |-> [r \in Rooms |-> 0], then |-> "idle"]

IsBridge == scenario.app \in Bridges
JoinedRooms == {r \in Rooms : view[r]["me"] = "join"}
InvitedRooms == {r \in Rooms : view[r]["me"] = "invite"}

JoinedIn(m) == {u \in Users : m[u] = "join"}
ActiveIn(m) == {u \in Users : m[u] \in {"join", "invite"}}

(***************************************************************************)
(* Reading a member list.  The first read of a room fetches it, later ones   *)
(* answer from the store, which the sync loop keeps.                         *)
(***************************************************************************)
Answers(r) ==
    IF r \in fetched THEN {"live"}
    ELSE {"live"} \cup (IF "fetch" \in scenario.faults THEN {"cached"} ELSE {})
                  \cup (IF "store" \in scenario.faults THEN {"unknown"} ELSE {})

\* get_member: it fetches the list too, and without it answers nothing
Member(r) == IF Answers(r) = {"live"} THEN {"live"} ELSE {"live", "unknown"}

Read(r, how) == IF how = "live" /\ r \notin fetched THEN member[r] ELSE view[r]

Learn(r, how) ==
    IF how = "live" /\ r \notin fetched
    THEN /\ view' = [view EXCEPT ![r] = member[r]]
         /\ fetched' = fetched \cup {r}
         /\ UNCHANGED member
    ELSE UNCHANGED server

\* usable_observers: a client is never its own observer
UsableRowsAll(rows) == rows
UsableRows(rows) == [r \in Rooms |-> IF rows[r] = "me" THEN "none" ELSE rows[r]]

\* counts_members_live
CountsLive(r, rows) == rows[r] # "none" \/ r \in ever

NoCount == -1         \* counted_members_opt's None
GROUP_IF_UNKNOWN == 3
SummaryCount == 0     \* joined_members_count of a sync that is not lazy

\* counted_members_opt: joined and invited less the observer where a row names
\* the room or once did, else the joined ones
CountedOpt(r, how, rows) ==
    LET m == Read(r, how) IN
    IF CountsLive(r, rows)
    THEN IF how = "unknown" THEN NoCount ELSE Cardinality(ActiveIn(m) \ {rows[r]})
    ELSE IF how = "live" THEN Cardinality(JoinedIn(m)) ELSE SummaryCount

Counted(r, how, rows) ==
    IF CountedOpt(r, how, rows) = NoCount THEN GROUP_IF_UNKNOWN
    ELSE CountedOpt(r, how, rows)

\* dm_verdict: without_observed, then classify_dm_room for ann
VerdictUncounted(m, observer) ==
    IF m["ann"] = "join" THEN "Joined"
    ELSE IF m["ann"] = "invite" THEN "Invited" ELSE "TargetAbsent"
VerdictNoInvited(m, observer) ==
    IF "eve" \in ActiveIn(m) /\ observer # "eve" THEN "NotOneToOne"
    ELSE IF m["ann"] = "join" THEN "Joined" ELSE "TargetAbsent"
Verdict(m, observer) ==
    IF "eve" \in ActiveIn(m) /\ observer # "eve" THEN "NotOneToOne"
    ELSE IF m["ann"] = "join" THEN "Joined"
    ELSE IF m["ann"] = "invite" THEN "Invited" ELSE "TargetAbsent"

RankOf(verdict) ==
    CASE verdict = "Joined" -> 2 [] verdict = "Invited" -> 1 [] OTHER -> 0

(***************************************************************************)
(* What the properties compare with: the client's own view of a room.        *)
(***************************************************************************)
Open(r) == /\ view[r]["me"] = "join" /\ (IsBridge => r \notin scenario.listed)
           /\ "ann" \in ActiveIn(view[r])

\* at most two have joined, the observer its row names apart
Quiet(r) == Cardinality(JoinedIn(view[r]) \ ({row[r]} \ {"me"})) <= 2

\* nobody is in it or invited but she, this account and its observer
OneToOne(r, observers) == Open(r) /\ ("eve" \notin ActiveIn(view[r]) \/ observers[r] = "eve")

\* what a message to her may be sent to: dm_room_for counts the members, find_dm_room
\* asks for a 1:1
Hers(r) == IF IsBridge THEN Open(r) /\ Quiet(r) ELSE OneToOne(r, dmObs)

Abandoned(r) == view[r]["ann"] = "leave" /\ "eve" \notin ActiveIn(view[r])

\* where a task is between two operations
Resting == {"idle", "down", "invites"}

\* dm_room_for counts a room and then asks for her membership
Torn == {r \in Rooms : act["main"].pc = "target" /\ act["main"].room = r /\ view'[r] # view[r]}

\* The memory after a step: `excused` rooms are those whose members its task could not read
\* or whose row it edited, `counted` those it counted anew.
Remember(excused, counted) ==
    /\ once' = {r \in Rooms : Hers(r)'} \cup (IF act'["main"].pc \in Resting THEN {} ELSE once)
    /\ kept' = {r \in Rooms : /\ OneToOne(r, row)'
                              /\ act["main"].pc \in Resting \/ r \in kept}
    /\ dead' = {r \in Rooms : Abandoned(r)'} \cup (IF act'["main"].pc \in Resting THEN {} ELSE dead)
    /\ unread' = IF act'["main"].pc \in Resting THEN {}
                 ELSE unread \cup Torn \cup (IF act'["sync"] = act["sync"] THEN excused ELSE {})
    /\ was' = [t \in Tasks |-> \E r \in Rooms :
                 /\ act'[t].room = r
                 /\ OneToOne(r, row)' \/ OneToOne(r, dmObs)' \/ (was[t] /\ act[t].room = r)]
    /\ calm' = {r \in Rooms : Quiet(r)'} \cup (calm \ counted) \cup (counted \cap excused)

Proceed(t, fields) ==
    act' = [act EXCEPT ![t] = [f \in DOMAIN @ |-> IF f \in DOMAIN fields THEN fields[f] ELSE @[f]]]
Finish(t) == act' = [act EXCEPT ![t] = NoTask]
\* to pc `next`; what the finished part of the operation held is forgotten
Then(t, next) ==
    IF next = "idle" THEN Finish(t)
    ELSE Proceed(t, [pc |-> next, copy |-> {}, room |-> IF next = "invites" THEN 0 ELSE act[t].room])

\* sync_dm_observers: the usable rows become the connector's
SyncObservers == dmObs' = UsableRows(row)

\* the observer rows count differently from the members a failed read gave
Unread(r, how, rows) ==
    IF how = "unknown" \/ (how = "cached" /\ ~CountsLive(r, rows)) THEN {r} ELSE {}

At(t, pc) == act[t].pc = pc

Seen(m) == IF m["me"] = "join" THEN m ELSE [u \in Users |-> IF u = "me" THEN m[u] ELSE "none"]
Known == [r \in Rooms |-> Seen(member[r])]

SetMe(r, s) ==
    /\ member' = [member EXCEPT ![r]["me"] = s]
    /\ view' = [view EXCEPT ![r]["me"] = s]

(***************************************************************************)
(* Connecting.                                                              *)
(***************************************************************************)
\* run: connect, then the pre-join sync
Connect ==
    /\ At("main", "down")
    /\ view' = Known
    /\ IF scenario.app = "secondary"
       THEN /\ SyncObservers
            /\ Proceed("main", [pc |-> "survey", rows |-> UsableRows(row),
                           todo |-> {r \in Rooms : Known[r]["me"] = "join"}])
       ELSE /\ Proceed("main", [pc |-> "invites", then |-> "invites",
                           todo |-> {r \in Rooms : Known[r]["me"] = "invite"}])
            /\ UNCHANGED dmObs
    /\ UNCHANGED <<lists, member, fetched, snapshot, mdirect, spent>>
    /\ Remember({}, {})

\* invite_action
InviteAction(r) ==
    IF r \in scenario.direct /\ r \notin scenario.listed THEN "dm" ELSE "group"

\* handle_invite's allow-list test, invite_decision and live_invite_decision
Decision(t, r, known) ==
    LET trusted == scenario.by[r] = "ann" IN
    CASE scenario.app = "relay" -> IF t = "main" \/ trusted THEN "join" ELSE "ignore"
      [] ~known -> "ignore"
      [] scenario.app = "strict" ->
           IF trusted \/ r \in scenario.listed THEN "join" ELSE "decline"
      [] OTHER -> IF trusted THEN "join" ELSE "decline"

\* join_allowed_invites and handle_invite, join_authorized_invites, the live
\* handlers: the decision and the call it leads to
TakeInvite(t, r) ==
    /\ \/ t = "main" /\ At(t, "invites") /\ r \in act[t].todo
       \/ t = "sync" /\ At(t, "invited") /\ r = act[t].room
    /\ \E known \in {TRUE} \cup (IF t = "main" /\ "who" \in scenario.faults THEN {FALSE} ELSE {}),
          ok \in {TRUE} \cup (IF "join" \in scenario.faults THEN {FALSE} ELSE {}) :
         LET d == Decision(t, r, known)
             skip == IF t = "main" THEN Proceed(t, [todo |-> act[t].todo \ {r}]) ELSE Finish(t)
         IN \/ d = "join" /\ ok
               /\ SetMe(r, "join")
               /\ IF IsBridge THEN Proceed(t, [pc |-> "count", room |-> r, todo |-> act[t].todo \ {r}])
                  ELSE IF t = "main"
                  THEN Proceed(t, [todo |-> act[t].todo \ {r}, found |-> act[t].found \cup {r}])
                  ELSE Proceed(t, [pc |-> "mark"])
            \/ d = "decline" /\ ok /\ SetMe(r, "leave") /\ skip
            \/ (d = "ignore" \/ ~ok) /\ UNCHANGED <<member, view>> /\ skip
    /\ fetched' = fetched \ {r}
    /\ UNCHANGED <<lists, dmObs, snapshot, mdirect, spent>>
    /\ Remember({}, {})

\* handle_invite after the join: note the room with its member count
CountJoined(t) ==
    LET r == act[t].room
        rows == UsableRows(row) IN
    /\ At(t, "count")
    /\ SyncObservers
    /\ \E how \in Answers(r) :
         /\ Learn(r, how)
         /\ snapshot' = [snapshot EXCEPT ![r] =
              IF CountedOpt(r, how, rows) = NoCount THEN 0 ELSE CountedOpt(r, how, rows)]
         /\ Then(t, IF InviteAction(r) = "dm" THEN "mark" ELSE act[t].then)
         /\ UNCHANGED <<lists, mdirect, spent>>
         /\ Remember(Unread(r, how, rows), {r})

\* mark_dm: only a room that is a 1:1 with the person
Mark(t) ==
    LET r == act[t].room IN
    /\ At(t, "mark")
    /\ \E how \in Answers(r) :
         /\ Learn(r, how)
         /\ Then(t, IF how # "unknown" /\ RankOf(Verdict(Read(r, how), dmObs[r])) > 0
                    THEN "fetch" ELSE act[t].then)
    /\ UNCHANGED <<lists, dmObs, snapshot, mdirect, spent>>
    /\ Remember({}, {})

\* mark_dm: fetch m.direct; nothing to write when the room is recorded
FetchDirect(t) ==
    /\ At(t, "fetch")
    /\ IF act[t].room \in mdirect THEN Then(t, act[t].then)
       ELSE Proceed(t, [pc |-> "write", copy |-> mdirect])
    /\ UNCHANGED <<lists, server, dmObs, snapshot, mdirect, spent>>
    /\ Remember({}, {})

\* mark_dm: write the copy back with the room added
WriteDirect(t) ==
    /\ At(t, "write")
    /\ mdirect' \in {act[t].copy \cup {act[t].room}}
                    \cup (IF "write" \in scenario.faults THEN {mdirect} ELSE {})
    /\ Then(t, act[t].then)
    /\ UNCHANGED <<lists, server, dmObs, snapshot, spent>>
    /\ Remember({}, {})

\* accept_pending_invites: the rooms joined are marked after all are joined
MarkJoined ==
    /\ At("main", "invites") /\ ~IsBridge /\ act["main"].todo = {}
    /\ \E r \in act["main"].found :
         Proceed("main", [pc |-> "mark", room |-> r, found |-> act["main"].found \ {r}])
    /\ UNCHANGED <<lists, server, dmObs, snapshot, mdirect, spent>>
    /\ Remember({}, {})

\* run: the settle sync, then the bridge's repair or the relay's reconcile
Settle ==
    /\ At("main", "invites") /\ act["main"].todo = {} /\ act["main"].found = {}
    /\ view' = Known
    /\ IF IsBridge
       THEN /\ SyncObservers
            /\ Proceed("main", [pc |-> "repair", rows |-> UsableRows(row), groups |-> {},
                           todo |-> {r \in Rooms : Known[r]["me"] = "join"}])
       ELSE /\ UNCHANGED dmObs
            /\ Proceed("main", [pc |-> "reconcile", copy |-> mdirect, todo |-> mdirect, groups |-> {}])
    /\ UNCHANGED <<lists, member, fetched, snapshot, mdirect, spent>>
    /\ Remember({}, {})

(***************************************************************************)
(* m.direct is put right at every connect.                                   *)
(***************************************************************************)
\* repair_m_direct: count every joined room; one that cannot be counted stays
RepairRoom(r) ==
    LET a == act["main"] IN
    /\ At("main", "repair") /\ r \in a.todo
    /\ \E how \in Answers(r) :
         /\ Learn(r, how)
         /\ Proceed("main", [todo |-> a.todo \ {r}, groups |->
              IF CountedOpt(r, how, a.rows) > 2 THEN a.groups \cup {r} ELSE a.groups])
    /\ UNCHANGED <<lists, dmObs, snapshot, mdirect, spent>>
    /\ Remember({}, {})

\* repair_direct on the fetched m.direct; written only when something goes
RepairDirect ==
    LET a == act["main"]
        bad == mdirect \cap (scenario.listed \cup a.groups) IN
    /\ At("main", "repair") /\ a.todo = {}
    /\ \/ bad # {} /\ mdirect' = mdirect \ bad
       \/ (bad = {} \/ "write" \in scenario.faults) /\ UNCHANGED mdirect
    /\ SyncObservers
    /\ Proceed("main", [pc |-> "survey", rows |-> UsableRows(row), todo |-> JoinedRooms,
                   counts |-> NoTask.counts])
    /\ UNCHANGED <<lists, server, snapshot, spent>>
    /\ Remember({}, {})

\* survey_rooms: the snapshot replaces the one before it
SurveyRoom(r) ==
    LET a == act["main"] IN
    /\ At("main", "survey") /\ r \in a.todo
    /\ \E how \in Answers(r) :
         /\ Learn(r, how)
         /\ Proceed("main", [todo |-> a.todo \ {r}, counts |-> [a.counts EXCEPT ![r] =
              IF CountedOpt(r, how, a.rows) = NoCount THEN 0 ELSE CountedOpt(r, how, a.rows)]])
         /\ UNCHANGED <<lists, dmObs, snapshot, mdirect, spent>>
         /\ Remember(Unread(r, how, a.rows), {r})

SetJoinedRooms ==
    /\ At("main", "survey") /\ act["main"].todo = {}
    /\ snapshot' = act["main"].counts
    /\ Finish("main")
    /\ UNCHANGED <<lists, server, dmObs, mdirect, spent>>
    /\ Remember({}, {})

\* reconcile_owner_dms: a list that is not the store's has someone else on it
GroupEntryBySize(r, how) == how = "live" /\ Cardinality(ActiveIn(Read(r, how))) > 2
GroupEntry(r, how) == how = "live" /\ Verdict(Read(r, how), dmObs[r]) = "NotOneToOne"

\* an entry at a time; the group check comes before the test whether she left
Reconcile(r) ==
    LET a == act["main"] IN
    /\ At("main", "reconcile") /\ r \in a.todo
    /\ \E how \in Answers(r) :
         /\ Learn(r, how)
         /\ IF GroupEntry(r, how)
            THEN Proceed("main", [todo |-> a.todo \ {r}, groups |-> a.groups \cup {r}])
            ELSE Proceed("main", [pc |-> "absent", room |-> r, todo |-> a.todo \ {r}])
         /\ UNCHANGED <<lists, dmObs, snapshot, mdirect, spent>>
         /\ Remember(IF how # "live" THEN {r} ELSE {}, {})

\* whether she left it: `found` are the rooms to leave
AskAbsent ==
    LET a == act["main"] IN
    /\ At("main", "absent")
    /\ \E how \in Member(a.room) :
         /\ Learn(a.room, how)
         /\ Proceed("main", [pc |-> "reconcile", room |-> 0, found |->
              IF how = "live" /\ Read(a.room, how)["ann"] = "leave" THEN a.found \cup {a.room} ELSE a.found])
    /\ UNCHANGED <<lists, dmObs, snapshot, mdirect, spent>>
    /\ Remember({}, {})

\* leave and forget the rooms she abandoned, then rewrite m.direct
LeaveStale ==
    LET a == act["main"] IN
    /\ At("main", "reconcile") /\ a.todo = {}
    /\ Proceed("main", [pc |-> "leaving", todo |-> a.found \cap JoinedRooms])
    /\ UNCHANGED <<lists, server, dmObs, snapshot, mdirect, spent>>
    /\ Remember({}, {})

LeaveRoom(r) ==
    LET a == act["main"] IN
    /\ At("main", "leaving") /\ r \in a.todo
    /\ \/ SetMe(r, "leave")
       \/ "join" \in scenario.faults /\ UNCHANGED <<member, view>>
    /\ Proceed("main", [todo |-> a.todo \ {r}])
    /\ UNCHANGED <<lists, fetched, dmObs, snapshot, mdirect, spent>>
    /\ Remember({}, {})

\* run_cycle: the greeting comes on the first connect of the process
RewriteDirect ==
    LET a == act["main"]
        gone == a.groups \cup a.found IN
    /\ At("main", "leaving") /\ a.todo = {}
    /\ mdirect' \in {IF gone = {} THEN mdirect ELSE a.copy \ gone}
                    \cup (IF "write" \in scenario.faults THEN {mdirect} ELSE {})
    /\ IF cycles = 0
       THEN Proceed("main", [NoTask EXCEPT !.pc = "pick", !.then = "hello", !.todo = JoinedRooms])
       ELSE Finish("main")
    /\ UNCHANGED <<lists, server, dmObs, snapshot, spent>>
    /\ Remember({}, {})

(***************************************************************************)
(* A message to ann: dm_room_for of the bridge, ensure_dm_room of the relay. *)
(***************************************************************************)
StartSend ==
    /\ At("main", "idle") /\ sends < MaxSends
    /\ sends' = sends + 1
    /\ IF IsBridge THEN SyncObservers ELSE UNCHANGED dmObs
    /\ Proceed("main", [pc |-> "pick", todo |-> JoinedRooms, rows |-> UsableRows(row)])
    /\ UNCHANGED <<lists, server, snapshot, mdirect, changes, arrivals, cycles>>
    /\ Remember({}, {})

\* find_dm_room: one joined room
PickRoom(r) ==
    LET a == act["main"] IN
    /\ At("main", "pick") /\ r \in a.todo
    /\ \E how \in Answers(r) :
         LET rank == IF how = "unknown" THEN 0 ELSE RankOf(Verdict(Read(r, how), dmObs[r])) IN
         /\ Learn(r, how)
         /\ Proceed("main", [todo |-> a.todo \ {r}, found |->
              IF rank = 0 THEN a.found
              ELSE a.found \cup {[room |-> r, rank |-> rank, marked |-> r \in mdirect]}])
         /\ UNCHANGED <<lists, dmObs, snapshot, mdirect, spent>>
         /\ Remember(IF how = "unknown" THEN {r} ELSE {}, {})

\* pick_dm_candidate: joined before invited, recorded before not, then the one
\* with the newest activity, which is anyone's
Picks(found) ==
    LET Key(c) == 2 * c.rank + (IF c.marked THEN 1 ELSE 0) IN
    {c \in found : \A d \in found : Key(d) <= Key(c)}

\* find_dm_room's answer, used by dm_room_for, ensure_dm_room and the hello
PickDone ==
    LET a == act["main"]
        again == [NoTask EXCEPT !.pc = "pick", !.todo = JoinedRooms] IN
    /\ At("main", "pick") /\ a.todo = {}
    /\ \/ /\ IsBridge
          /\ \E c \in (IF a.found = {} THEN {[room |-> 0]} ELSE Picks(a.found)) :
               Proceed("main", [pc |-> "scan", pick |-> c.room, found |-> {}, todo |-> JoinedRooms])
       \/ /\ ~IsBridge /\ a.then = "hello"
          /\ IF a.found # {} \/ scenario.opens THEN Proceed("main", again) ELSE Finish("main")
       \/ /\ ~IsBridge /\ a.then = "idle"
          /\ \/ a.found = {} /\ Proceed("main", [pc |-> "create"])
             \/ \E c \in Picks(a.found) :
                  Proceed("main", [pc |-> IF c.marked THEN "post" ELSE "mark", then |-> "post",
                              room |-> c.room, found |-> {}])
    /\ UNCHANGED <<lists, server, dmObs, snapshot, mdirect, spent>>
    /\ Remember({}, {})

\* dm_room_for, a joined room at a time: one that is listed or has more than two counted
\* members is none of hers
ScanRoom(r) ==
    LET a == act["main"]
        skip == [todo |-> a.todo \ {r}] IN
    /\ At("main", "scan") /\ r \in a.todo
    /\ UNCHANGED <<lists, dmObs, snapshot, mdirect, spent>>
    /\ IF r \in scenario.listed
       THEN Proceed("main", skip) /\ UNCHANGED server /\ Remember({}, {})
       ELSE \E how \in Answers(r) :
              /\ Learn(r, how)
              /\ IF Counted(r, how, a.rows) > 2 THEN Proceed("main", skip)
                 ELSE Proceed("main", [todo |-> a.todo \ {r}, pc |-> "target", room |-> r])
              /\ Remember(Unread(r, how, a.rows), {})

\* on to the next room, with the candidates so far
NextRoom(found) == Proceed("main", [pc |-> "scan", room |-> 0, cand |-> {}, found |-> found])
WithCand(c) == NextRoom(act["main"].found \cup {c})

\* she has joined the room or is invited to it; else, or when nobody can say, it is passed over
AskTarget ==
    LET r == act["main"].room IN
    /\ At("main", "target")
    /\ \E how \in Member(r) :
         LET ann == IF how = "live" THEN Read(r, how)["ann"] ELSE "none" IN
         /\ Learn(r, how)
         /\ IF ann \in {"join", "invite"}
            THEN Proceed("main", [pc |-> "direct", cand |->
                   {[room |-> r, rank |-> IF ann = "join" THEN 2 ELSE 1, prefer |-> r = scenario.reply,
                     observed |-> FALSE, direct |-> FALSE, pick |-> r = act["main"].pick]}])
            ELSE NextRoom(act["main"].found)
         /\ UNCHANGED <<lists, dmObs, snapshot, mdirect, spent>>
         /\ Remember(IF how = "live" THEN {} ELSE {r}, {})

\* m.direct records it
AskDirect ==
    LET a == act["main"] IN
    /\ At("main", "direct")
    /\ \E c \in {[d EXCEPT !.direct = a.room \in mdirect] : d \in a.cand} :
         IF a.rows[a.room] # "none" /\ c.rank = 2
         THEN Proceed("main", [pc |-> "observer", cand |-> {c}]) ELSE WithCand(c)
    /\ UNCHANGED <<lists, server, dmObs, snapshot, mdirect, spent>>
    /\ Remember({}, {})

\* is_one_to_one_dm, of a room a row names
AskObserver ==
    LET r == act["main"].room IN
    /\ At("main", "observer")
    /\ \E how \in Answers(r), c \in act["main"].cand :
         /\ Learn(r, how)
         /\ WithCand([c EXCEPT !.observed = how # "unknown" /\ RankOf(Verdict(Read(r, how), dmObs[r])) > 0])
    /\ UNCHANGED <<lists, dmObs, snapshot, mdirect, spent>>
    /\ Remember({}, {})

\* best_dm: the lexicographic key, then the lowest id
Best(found) ==
    LET One(b) == IF b THEN 1 ELSE 0
        Key(c) == 24 * One(c.prefer) + 12 * One(c.observed) + 6 * One(c.direct)
                  + 2 * c.rank + One(c.pick)
        top == {c \in found : \A d \in found : Key(d) <= Key(c)}
    IN Min({c.room : c \in top})

\* destination_room: only the primary bridge creates a room (MissingDm)
ScanDone ==
    LET a == act["main"] IN
    /\ At("main", "scan") /\ a.todo = {}
    /\ IF a.found # {} THEN Proceed("main", [pc |-> "post", room |-> Best(a.found), found |-> {}])
       ELSE IF scenario.app = "bridge" THEN Proceed("main", [pc |-> "create"])
       ELSE Finish("main")
    /\ UNCHANGED <<lists, server, dmObs, snapshot, mdirect, spent>>
    /\ Remember({}, {})

\* create_dm, which records the room itself; the bridge marks it again
Created == [u \in Users |-> CASE u = "me" -> "join" [] u = "ann" -> "invite" [] OTHER -> "none"]
Create ==
    LET Unused(r) == \A u \in Users : member[r][u] = "none" IN
    /\ At("main", "create")
    /\ \/ \E r \in Rooms :
            /\ Unused(r) /\ \A q \in Rooms : q < r => ~Unused(q)
            /\ member' = [member EXCEPT ![r] = Created]
            /\ view' = [view EXCEPT ![r] = Created]
            /\ mdirect' = mdirect \cup {r}
            /\ Proceed("main", [pc |-> IF IsBridge THEN "mark" ELSE "post", then |-> "post", room |-> r])
       \/ Finish("main") /\ UNCHANGED <<member, view, mdirect>>
    /\ UNCHANGED <<lists, fetched, dmObs, snapshot, spent>>
    /\ Remember({}, {})

\* the message is sent into act["main"].room
Post ==
    /\ At("main", "post")
    /\ Finish("main")
    /\ UNCHANGED <<lists, server, dmObs, snapshot, mdirect, spent>>
    /\ Remember({}, {})

(***************************************************************************)
(* The sync loop, while the cycle runs.                                      *)
(***************************************************************************)
Serving ==
    \/ At("main", "idle")
    \/ /\ sends > 0 /\ act["main"].then \in {"idle", "post"}
       /\ act["main"].pc \in {"pick", "scan", "target", "direct", "observer", "create", "mark", "fetch", "write", "post"}

\* is_group: a room a row has named is counted now, any other goes by the
\* snapshot and a summary that says nothing
TrackedNow(r) == r \in ever /\ row[r] # "none"
Tracked(r) == r \in ever
TrackedGroup(r, how) ==
    LET n == Cardinality(ActiveIn(Read(r, how)) \ {UsableRows(row)[r]}) IN
    CASE how = "live" -> n > 2
      [] how = "cached" -> n > 2 \/ snapshot[r] > 2
      [] OTHER -> TRUE
GroupFromCounts(r) == snapshot[r] > 2 \/ SummaryCount > 2

\* register_message_handler, and a room of backfill: the verdict
Judge(r) ==
    /\ Serving /\ At("sync", "idle") /\ IsBridge
    /\ r \in JoinedRooms /\ arrivals < MaxArrivals
    /\ arrivals' = arrivals + 1
    /\ \E how \in IF Tracked(r) THEN Answers(r) ELSE {"cached"} :
         LET group == IF Tracked(r) THEN TrackedGroup(r, how) ELSE GroupFromCounts(r) IN
         /\ Learn(r, how)
         /\ Proceed("sync", [pc |-> "file", room |-> r, groups |-> IF group THEN {r} ELSE {}])
    /\ UNCHANGED <<lists, dmObs, snapshot, mdirect, changes, sends, cycles>>
    /\ Remember({}, {r} \cap ever)

\* ingest_event: a message of a room that is no group is filed as hers
FileMessage ==
    /\ At("sync", "file")
    /\ Finish("sync")
    /\ UNCHANGED <<lists, server, dmObs, snapshot, mdirect, spent>>
    /\ Remember({}, {})

\* an invite arrives with a sync response; a secondary bridge leaves it alone
InviteArrives(r) ==
    /\ Serving /\ At("sync", "idle") /\ scenario.app # "secondary"
    /\ member[r]["me"] = "none" /\ scenario.by[r] # "none" /\ arrivals < MaxArrivals
    /\ arrivals' = arrivals + 1
    /\ SetMe(r, "invite")
    /\ Proceed("sync", [pc |-> "invited", room |-> r])
    /\ UNCHANGED <<lists, fetched, dmObs, snapshot, mdirect, changes, sends, cycles>>
    /\ Remember({}, {})

\* a sync response brings a room's membership
Sync(r) ==
    /\ Serving /\ At("sync", "idle") /\ r \in JoinedRooms /\ view[r] # member[r]
    /\ view' = [view EXCEPT ![r] = member[r]]
    /\ UNCHANGED <<lists, member, fetched, dmObs, snapshot, mdirect, spent, act>>
    /\ Remember({}, {})

\* the cycle ends between two sends: the handlers go with it
EndCycle ==
    /\ At("main", "idle") /\ cycles < MaxCycles
    /\ cycles' = cycles + 1
    /\ act' = [main |-> [NoTask EXCEPT !.pc = "down"], sync |-> NoTask]
    /\ UNCHANGED <<lists, server, dmObs, snapshot, mdirect, changes, sends, arrivals>>
    /\ Remember({}, {})

(***************************************************************************)
(* Everyone else.                                                           *)
(***************************************************************************)
\* another account is invited, joins or leaves
Change(r, u, s) ==
    /\ u # "me" /\ changes < scenario.moves
    /\ scenario.members[r]["ann"] # "none" \/ member[r]["ann"] # "none"
    /\ \/ member[r][u] \in {"none", "leave"} /\ s = "invite"
       \/ member[r][u] = "invite" /\ s \in {"join", "leave"}
       \/ member[r][u] = "join" /\ s = "leave"
    /\ member' = [member EXCEPT ![r][u] = s]
    /\ changes' = changes + 1
    /\ UNCHANGED <<lists, view, fetched, dmObs, snapshot, mdirect, act, sends, arrivals, cycles>>
    /\ Remember({}, {})

\* a row of [[observers]] is added, taken out or changed, and read
EditRow(r, o) ==
    /\ IsBridge /\ changes < scenario.moves /\ row[r] # o
    /\ row' = [row EXCEPT ![r] = o]
    /\ ever' = ever \cup (IF o = "none" THEN {} ELSE {r})
    /\ changes' = changes + 1
    /\ UNCHANGED <<scenario, server, dmObs, snapshot, mdirect, act, sends, arrivals, cycles>>
    /\ Remember({r}, {})

RoomsInit ==
    /\ scenario \in Scenarios
    /\ member = scenario.members
    /\ view = [r \in Rooms |-> [u \in Users |-> "none"]]
    /\ fetched = {}
    /\ row = scenario.row
    /\ ever = {r \in Rooms : row[r] # "none"}
    /\ dmObs = [r \in Rooms |-> "none"]
    /\ snapshot = [r \in Rooms |-> 0]
    /\ mdirect = scenario.recorded
    /\ act = [main |-> [NoTask EXCEPT !.pc = "down"], sync |-> NoTask]
    /\ changes = 0 /\ sends = 0 /\ arrivals = 0 /\ cycles = 0
    /\ once = {} /\ kept = {} /\ dead = {} /\ unread = {}
    /\ was = [t \in Tasks |-> FALSE] /\ calm = Rooms

Connecting == Connect \/ MarkJoined \/ Settle \/ RepairDirect \/ SetJoinedRooms
              \/ AskAbsent \/ LeaveStale \/ RewriteDirect
              \/ \E r \in Rooms : RepairRoom(r) \/ SurveyRoom(r) \/ Reconcile(r) \/ LeaveRoom(r)
Handling(t) == CountJoined(t) \/ Mark(t) \/ FetchDirect(t) \/ WriteDirect(t)
               \/ \E r \in Rooms : TakeInvite(t, r)
Sending == StartSend \/ PickDone \/ AskTarget \/ AskDirect \/ AskObserver \/ ScanDone \/ Create \/ Post
           \/ \E r \in Rooms : PickRoom(r) \/ ScanRoom(r)
Syncing == FileMessage \/ EndCycle \/ \E r \in Rooms : Judge(r) \/ InviteArrives(r) \/ Sync(r)
Others == \E r \in Rooms : \/ \E u \in Users, s \in Standing : Change(r, u, s)
                           \/ \E o \in Observer : EditRow(r, o)

RoomsNext == Connecting \/ (\E t \in Tasks : Handling(t)) \/ Sending \/ Syncing \/ Others

RoomsSpec == RoomsInit /\ [][RoomsNext]_roomsVars

(* Properties. *)

\* Types of the state.
RoomsTypeOK ==
    /\ \A r \in Rooms : member[r] \in [Users -> Standing] /\ view[r] \in [Users -> Standing]
    /\ fetched \subseteq Rooms /\ ever \subseteq Rooms /\ mdirect \subseteq Rooms
    /\ row \in [Rooms -> Observer] /\ dmObs \in [Rooms -> {"none", "eve"}]
    /\ snapshot \in [Rooms -> 0 .. 3]

\* A message to a person never lands in a room that throughout the send was
\* listed, had lost her, or had three joined members besides its observer (of a
\* relay: a third member, joined or invited): dm_room_for and find_dm_room,
\* whatever m.direct says and whoever joins between the reads of one room and
\* those of the next.  Excused is a room the daemon could not count, one whose
\* row was edited meanwhile, and one whose members changed between its count
\* and the look whether she is in it.
PersonGetsNoGroup ==
    At("main", "post") => act["main"].room \in once \cup unread

\* The same without an excuse: "never ... a group room" (destination_room).  The
\* code does not keep it.
NeverAGroup == At("main", "post") => act["main"].room \in once

\* A send during which nothing moves reaches no third account: "the 1:1 DM
\* with mxid" that dm_room_for is to resolve.
UndisturbedSendIsPrivate ==
    At("main", "post") /\ changes = 0 =>
        LET r == act["main"].room IN view[r]["eve"] # "join" \/ row[r] = "eve"

\* A message is filed as a direct message only where at some moment since the
\* room was last counted (at the survey or the join; a room a row names or
\* named, at the message) no third member had joined: is_group, with the rows
\* edited and the snapshot replaced between messages.
FiledAsCounted ==
    At("sync", "file") /\ act["sync"].groups = {} => act["sync"].room \in calm

\* A room is written into m.direct only if at some moment since the operation
\* that writes it took the room up nobody else was in it or invited, observers
\* apart: mark_dm after a join, a creation and a send, with the members that
\* come and the observers another task replaces before the write.
DirectOnlyPrivate == \A t \in Tasks : At(t, "write") => was[t]

\* A second room is created only when none was a 1:1 with her throughout the
\* send: neither a stale candidate list nor the other task makes a duplicate
\* that splits the conversation (ensure_dm_room, MissingDm).  Excused is a room
\* the send could not read, or whose row was edited meanwhile.
NoSecondDm == At("main", "create") => kept \subseteq unread

\* The same without an excuse: a room is created when she "has no DM with the
\* bridge yet" (MissingDm).  The code does not keep it: what it cannot read it
\* passes over.
CreatesTheFirst == At("main", "create") => kept = {}

\* A room is left, other than by declining its invite, only if at some moment
\* of the reconcile she had left it and nobody else was there.  Excused is a
\* room whose list could not be fetched.
LeavesOnlyAbandoned ==
    [][\A r \in Rooms : view[r]["me"] = "join" /\ view'[r]["me"] = "leave" => r \in dead \cup unread]_roomsVars
=============================================================================
