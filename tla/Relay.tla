-------------------------------- MODULE Relay --------------------------------
(***************************************************************************)
(* The message path of a relay daemon                                      *)
(* (src/crates/aqua-matrix-relay/src/lib.rs: run_daemon, run_cycle,        *)
(* dispatch, backfill_missed, drain_deliveries, replay_inbox, Watermark)   *)
(* over its durable work journal (aqua-matrix-agent/src/durable.rs).       *)
(*                                                                         *)
(* The daemon lives in cycles, one per access token.  Each starts with     *)
(* syncs that no handler sees, resends the answers it still owes, scans    *)
(* every room for messages newer than the inbound watermark, and then      *)
(* syncs live until the token expires.  All of that is one task; a handler *)
(* that owns its completion works in detached tasks that outlive a cycle.  *)
(*                                                                         *)
(* The journal and the watermark are files: a crash loses all but          *)
(* `journal` and `wmDisk`.  WorkPromise is what this implements.           *)
(***************************************************************************)
EXTENDS Naturals, FiniteSets

CONSTANTS
  Msgs,         \* room messages that may be sent
  Rooms,
  BoundRooms,   \* MessageHandler::bound_rooms: a watermark of their own
  RoomOf,       \* the room of each message
  Ts,           \* origin_server_ts
  Kind,         \* "work", "empty" (no body, no media), "notice" (not actionable)
  Guests,       \* messages of a sender only authorize_in_room may admit
  Global,       \* the watermark of every other room
  NoMsg,        \* no message
  Faults,       \* which failures may happen, see Fault
  MaxCrashes    \* bound: crashes

Fault == {"crash_in_accept", \* the process dies between watermark and journal
          "scan",            \* the backfill scan loses pages or times out
          "keys",            \* it finds events it cannot decrypt
          "abort",           \* a cycle ends while a handler is awaited
          "watermark_file"}  \* a watermark write fails (logged only)

ASSUME RelayAssumption ==
  /\ BoundRooms \subseteq Rooms /\ Global \notin Rooms
  /\ RoomOf \in [Msgs -> Rooms]
  /\ Ts \in [Msgs -> Nat \ {0}]
  /\ Kind \in [Msgs -> {"work", "empty", "notice"}]
  /\ Guests \subseteq {m \in Msgs : RoomOf[m] \in BoundRooms}
  /\ NoMsg \notin Msgs
  /\ Faults \subseteq Fault
  /\ MaxCrashes \in Nat

VARIABLES
  faults,     \* the failures this behaviour has
  owns,       \* MessageHandler::owns_completion
  posted,     \* messages in the homeserver's rooms
  synced,     \* messages the sync token is past
  watermark,  \* InboundWatermarks, in memory
  wmDisk,     \* and in their files
  journal,    \* WorkJournal: "none", "pending" or "deliver"
  phase,      \* where run_daemon is
  replayDue,  \* replay_pending: once per process
  admitted,   \* does authorize_in_room admit guests (read at start)
  todo,       \* items left of the list drain_deliveries or replay_inbox took
  toScan,     \* rooms backfill_missed has yet to scan
  queue,      \* messages the backfill or a sync response has yet to dispatch
  cur,        \* the message being worked on and how far it got
  tasks,      \* detached answering tasks
  crashes,
  settled,    \* history: messages whose answer went out
  runs        \* history: handler runs of each message in this process

vars == <<faults, owns, posted, synced, watermark, wmDisk, journal, phase, replayDue, admitted,
          todo, toScan, queue, cur, tasks, crashes, settled, runs>>

files == <<wmDisk, journal>>
policy == <<faults, owns, admitted>>
server == <<posted, synced>>
lists == <<todo, toScan, queue>>

-----------------------------------------------------------------------------
Idle == [msg |-> NoMsg, step |-> "idle"]
At(m, step) == [msg |-> m, step |-> step]

Gates == BoundRooms \cup {Global}

\* InboundWatermarks::for_room
Gate(m) == IF RoomOf[m] \in BoundRooms THEN RoomOf[m] ELSE Global

\* authorize_in_room
Admits(m) == m \notin Guests \/ admitted

Work == {m \in Msgs : Kind[m] = "work"}

InState(s) == {m \in Msgs : journal[m] = s}

\* WorkJournal::mark_done, idempotent
MarkDone(m) == journal' = [journal EXCEPT ![m] = "none"]

-----------------------------------------------------------------------------
(* The homeserver: timestamps follow its clock *)

Post(m) ==
  /\ m \notin posted /\ \A o \in posted : Ts[o] <= Ts[m]
  /\ posted' = posted \cup {m}
  /\ UNCHANGED <<synced, watermark, files, phase, replayDue, policy, lists, cur, tasks,
                 crashes, settled, runs>>

-----------------------------------------------------------------------------
(* Process start and the start of a cycle *)

\* The supervisor starts the process: watermarks and journal are loaded, the
\* room policy may have been narrowed.
Start ==
  /\ phase = "down"
  /\ phase' = "connecting" /\ replayDue' = TRUE
  /\ watermark' = wmDisk
  /\ admitted' \in {admitted, FALSE}
  /\ runs' = [m \in Msgs |-> 0]
  /\ UNCHANGED <<faults, owns, server, files, lists, cur, tasks, crashes, settled>>

\* Connected: the syncs before the handlers are registered consume what is
\* there (each is best-effort), then drain_deliveries takes its list.
Connect ==
  /\ phase = "connecting"
  /\ phase' = "drain" /\ todo' = InState("deliver")
  /\ synced' \in {synced, posted}
  /\ UNCHANGED <<posted, watermark, files, replayDue, policy, toScan, queue, cur, tasks,
                 crashes, settled, runs>>

\* drain_deliveries: resend one owed answer (the cached text).
Resend(m) ==
  /\ phase = "drain" /\ cur = Idle /\ m \in todo
  /\ todo' = todo \ {m}
  /\ cur' = At(m, "resend")
  /\ UNCHANGED <<server, watermark, files, phase, replayDue, policy, toScan, queue, tasks,
                 crashes, settled, runs>>

ResendOk ==
  /\ cur.step = "resend"
  /\ cur' = At(cur.msg, "done") /\ settled' = settled \cup {cur.msg}
  /\ UNCHANGED <<server, watermark, files, phase, replayDue, policy, lists, tasks, crashes, runs>>

ResendFails ==
  /\ cur.step = "resend"
  /\ cur' = Idle
  /\ UNCHANGED <<server, watermark, files, phase, replayDue, policy, lists, tasks, crashes,
                 settled, runs>>

\* Slip: replay everything the journal tracks.
Tracked == {m \in Msgs : journal[m] # "none"}

\* What replay_inbox takes: WorkJournal::pending_work
Unanswered == InState("pending")

\* The list is empty: replay_inbox, once per process, then the backfill.
ListEnds ==
  /\ phase \in {"drain", "replay"} /\ cur = Idle /\ todo = {}
  /\ IF phase = "drain" /\ replayDue
     THEN phase' = "replay" /\ todo' = Unanswered /\ UNCHANGED toScan
     ELSE phase' = "scan" /\ toScan' = Rooms /\ UNCHANGED todo
  /\ replayDue' = FALSE
  /\ UNCHANGED <<server, watermark, files, policy, queue, cur, tasks, crashes, settled, runs>>

\* replay_inbox: run the handler again, unless the sender is turned away now.
Replay(m) ==
  /\ phase = "replay" /\ cur = Idle /\ m \in todo
  /\ todo' = todo \ {m}
  /\ IF Admits(m)
     THEN /\ cur' = At(m, "handling") /\ runs' = [runs EXCEPT ![m] = @ + 1]
          /\ UNCHANGED journal
     ELSE MarkDone(m) /\ UNCHANGED <<cur, runs>>
  /\ UNCHANGED <<server, watermark, wmDisk, phase, replayDue, policy, toScan, queue, tasks,
                 crashes, settled>>

-----------------------------------------------------------------------------
(* backfill_missed *)

\* Slip: trust the sync token instead of the watermark.
Unsynced(r) == {m \in posted \ synced : RoomOf[m] = r /\ Ts[m] > watermark[Gate(m)] /\ Admits(m)}

\* What a full scan of a room finds: newer than the watermark that gates it,
\* from an admitted sender.
Missed(r) == {m \in posted : RoomOf[m] = r /\ Ts[m] > watermark[Gate(m)] /\ Admits(m)}

\* Pages come newest first: one that fails leaves the older ones out.  What cannot be
\* decrypted is counted and passed over (BackfillVerdict::Undecryptable).
ScanRoom(r) ==
  /\ phase = "scan" /\ r \in toScan
  /\ toScan' = toScan \ {r}
  /\ \E oldest \in {0} \cup (IF "scan" \in faults THEN {Ts[m] : m \in Missed(r)} ELSE {}),
        utd \in IF "keys" \in faults THEN SUBSET Missed(r) ELSE {{}} :
       queue' = queue \cup {m \in Missed(r) \ utd : Ts[m] > oldest}
  /\ UNCHANGED <<server, watermark, files, phase, replayDue, policy, todo, cur, tasks,
                 crashes, settled, runs>>

\* The scan is over, or its time is: then nothing it found is dispatched.
ScanEnds ==
  /\ phase = "scan"
  /\ \/ toScan = {} /\ UNCHANGED queue
     \/ "scan" \in faults /\ queue' = {}
  /\ phase' = "backfill" /\ toScan' = {}
  /\ UNCHANGED <<server, watermark, files, replayDue, policy, todo, cur, tasks, crashes,
                 settled, runs>>

BackfillEnds ==
  /\ phase = "backfill" /\ queue = {} /\ cur = Idle
  /\ phase' = "live"
  /\ UNCHANGED <<server, watermark, files, replayDue, policy, lists, cur, tasks, crashes,
                 settled, runs>>

-----------------------------------------------------------------------------
(* The live sync, and the end of its cycle *)

\* One /sync response.
Sync ==
  /\ phase = "live" /\ queue = {} /\ cur = Idle /\ synced # posted
  /\ queue' = posted \ synced /\ synced' = posted
  /\ UNCHANGED <<posted, watermark, files, phase, replayDue, policy, todo, toScan, cur, tasks,
                 crashes, settled, runs>>

\* Token rotation, a recycle request or the end of the sync: the sync task is
\* aborted where it awaits, which is between two messages or in a handler.
CycleEnds ==
  /\ phase = "live"
  /\ cur = Idle \/ ("abort" \in faults /\ cur.step = "handling")
  /\ phase' = "connecting" /\ cur' = Idle /\ queue' = {}
  /\ UNCHANGED <<server, watermark, files, replayDue, policy, todo, toScan, tasks, crashes,
                 settled, runs>>

-----------------------------------------------------------------------------
(* dispatch *)

\* Slip: dispatch in the order the pages come, newest first.
NewestFirst(m) ==
  /\ phase \in {"backfill", "live"} /\ cur = Idle /\ m \in queue
  /\ \A o \in queue : RoomOf[o] = RoomOf[m] => Ts[o] <= Ts[m]

\* Backfill goes oldest first over all rooms, a sync response room by room.
First(m) ==
  /\ phase \in {"backfill", "live"} /\ cur = Idle /\ m \in queue
  /\ \A o \in queue : phase = "backfill" \/ RoomOf[o] = RoomOf[m] => Ts[m] <= Ts[o]

\* Slips: the boundary taken in, or no gate at all.
FreshOrLast(m) == Ts[m] >= watermark[Gate(m)]
AlwaysFresh(m) == m \in Msgs

Fresh(m) == Ts[m] > watermark[Gate(m)]

Dropped(m) == ~Admits(m) \/ ~Fresh(m) \/ Kind[m] = "notice"

Drop(m) ==
  /\ First(m) /\ Dropped(m)
  /\ queue' = queue \ {m}
  /\ UNCHANGED <<server, watermark, files, phase, replayDue, policy, todo, toScan, cur, tasks,
                 crashes, settled, runs>>

\* Watermark::advance, before anything else is recorded.  The file is written
\* best-effort.  An empty message is done here.
Accept(m) ==
  /\ First(m) /\ ~Dropped(m)
  /\ queue' = queue \ {m}
  /\ watermark' = [watermark EXCEPT ![Gate(m)] = Ts[m]]
  /\ \/ wmDisk' = [wmDisk EXCEPT ![Gate(m)] = Ts[m]]
     \/ "watermark_file" \in faults /\ UNCHANGED wmDisk
  /\ cur' = IF Kind[m] = "empty" THEN Idle ELSE At(m, "accepted")
  /\ UNCHANGED <<server, journal, phase, replayDue, policy, todo, toScan, tasks, crashes,
                 settled, runs>>

\* WorkJournal::enqueue; a message it already tracks is not handled again.
Enqueue ==
  /\ cur.step = "accepted"
  /\ IF journal[cur.msg] # "none"
     THEN cur' = Idle /\ UNCHANGED <<journal, runs>>
     ELSE /\ journal' = [journal EXCEPT ![cur.msg] = "pending"]
          /\ cur' = At(cur.msg, "handling")
          /\ runs' = [runs EXCEPT ![cur.msg] = @ + 1]
  /\ UNCHANGED <<server, watermark, wmDisk, phase, replayDue, policy, lists, tasks, crashes,
                 settled>>

\* Slip: complete the item whoever owns its completion.
AlwaysCompleted ==
  /\ cur.step = "handling"
  /\ cur' = At(cur.msg, "done")
  /\ IF owns
     THEN tasks' = [tasks EXCEPT ![cur.msg] = "working"] /\ UNCHANGED settled
     ELSE settled' = settled \cup {cur.msg} /\ UNCHANGED tasks
  /\ UNCHANGED <<server, watermark, files, phase, replayDue, policy, lists, crashes, runs>>

\* handle_message returns.  One that owns its completion has only started a
\* task; any other has answered (its errors are its own, and logged).
HandlerReturns ==
  /\ cur.step = "handling"
  /\ IF owns
     THEN cur' = Idle /\ tasks' = [tasks EXCEPT ![cur.msg] = "working"] /\ UNCHANGED settled
     ELSE cur' = At(cur.msg, "done") /\ settled' = settled \cup {cur.msg} /\ UNCHANGED tasks
  /\ UNCHANGED <<server, watermark, files, phase, replayDue, policy, lists, crashes, runs>>

\* mark_done after a resend or a synchronous handler
Forget ==
  /\ cur.step = "done"
  /\ MarkDone(cur.msg) /\ cur' = Idle
  /\ UNCHANGED <<server, watermark, wmDisk, phase, replayDue, policy, lists, tasks, crashes,
                 settled, runs>>

-----------------------------------------------------------------------------
(* A detached task of a handler that owns its completion, as the hooks of   *)
(* AgentClient have it: record_reply, send, mark_delivered                  *)

\* record_reply: WorkJournal::set_to_deliver, a no-op for an item that is gone
TaskRecords(m) ==
  /\ tasks[m] = "working"
  /\ tasks' = [tasks EXCEPT ![m] = "sending"]
  /\ journal' = [journal EXCEPT ![m] = IF @ = "none" THEN @ ELSE "deliver"]
  /\ UNCHANGED <<server, watermark, wmDisk, phase, replayDue, policy, lists, cur, crashes,
                 settled, runs>>

TaskSends(m) ==
  /\ tasks[m] = "sending"
  /\ tasks' = [tasks EXCEPT ![m] = "sent"] /\ settled' = settled \cup {m}
  /\ UNCHANGED <<server, watermark, files, phase, replayDue, policy, lists, cur, crashes, runs>>

\* The send fails: the item stays for the next cycle (request_recycle).
TaskFails(m) ==
  /\ tasks[m] = "sending"
  /\ tasks' = [tasks EXCEPT ![m] = "none"]
  /\ UNCHANGED <<server, watermark, files, phase, replayDue, policy, lists, cur, crashes,
                 settled, runs>>

\* mark_delivered
TaskDone(m) ==
  /\ tasks[m] = "sent"
  /\ tasks' = [tasks EXCEPT ![m] = "none"] /\ MarkDone(m)
  /\ UNCHANGED <<server, watermark, wmDisk, phase, replayDue, policy, lists, cur, crashes,
                 settled, runs>>

-----------------------------------------------------------------------------
\* The process dies, or is stopped: the files are what is left.
Crash ==
  /\ phase # "down" /\ crashes < MaxCrashes
  /\ cur.step = "accepted" => "crash_in_accept" \in faults
  /\ phase' = "down" /\ crashes' = crashes + 1
  /\ cur' = Idle /\ todo' = {} /\ toScan' = {} /\ queue' = {}
  /\ tasks' = [m \in Msgs |-> "none"]
  /\ UNCHANGED <<server, watermark, files, replayDue, policy, settled, runs>>

Init ==
  /\ faults \in SUBSET Faults /\ owns \in BOOLEAN /\ admitted = TRUE
  /\ posted = {} /\ synced = {}
  /\ watermark = [g \in Gates |-> 0] /\ wmDisk = watermark
  /\ journal = [m \in Msgs |-> "none"]
  /\ phase = "down" /\ replayDue = FALSE
  /\ todo = {} /\ toScan = {} /\ queue = {} /\ cur = Idle
  /\ tasks = [m \in Msgs |-> "none"]
  /\ crashes = 0 /\ settled = {} /\ runs = [m \in Msgs |-> 0]

Cycle == Start \/ Connect \/ ListEnds \/ (\E r \in Rooms : ScanRoom(r)) \/ ScanEnds \/ BackfillEnds
Step  == \/ \E m \in Msgs : Resend(m) \/ Replay(m) \/ Drop(m) \/ Accept(m)
         \/ Enqueue \/ HandlerReturns \/ Forget
Task(m) == TaskRecords(m) \/ TaskSends(m) \/ TaskFails(m) \/ TaskDone(m)

Next == \/ \E m \in Msgs : Post(m)
        \/ Cycle \/ Step
        \/ ResendOk \/ ResendFails
        \/ Sync \/ CycleEnds
        \/ \E m \in Msgs : Task(m)
        \/ Crash

Spec == Init /\ [][Next]_vars

\* The daemon's own steps go on, a token expires in the end, a supervisor
\* restarts the process, and a send that is tried again and again gets through.
Fairness ==
  /\ WF_vars(Cycle) /\ WF_vars(Step) /\ WF_vars(Sync) /\ WF_vars(CycleEnds)
  /\ \A m \in Msgs : WF_vars(Task(m))
  /\ WF_vars(ResendOk \/ ResendFails) /\ \A m \in Msgs : SF_vars(ResendOk /\ cur.msg = m)

FairSpec == Spec /\ Fairness

-----------------------------------------------------------------------------
(* Properties *)

\* The shape of every variable; a watermark file is never ahead of the memory,
\* so what a restart loads cannot hide a message that was not dispatched.
TypeOK ==
  /\ faults \subseteq Faults /\ owns \in BOOLEAN /\ admitted \in BOOLEAN /\ replayDue \in BOOLEAN
  /\ posted \subseteq Msgs /\ synced \subseteq posted
  /\ watermark \in [Gates -> Nat] /\ wmDisk \in [Gates -> Nat]
  /\ \A g \in Gates : wmDisk[g] <= watermark[g]
  /\ journal \in [Msgs -> {"none", "pending", "deliver"}]
  /\ phase \in {"down", "connecting", "drain", "replay", "scan", "backfill", "live"}
  /\ todo \subseteq Msgs /\ toScan \subseteq Rooms /\ queue \subseteq posted
  /\ cur \in [msg : Msgs, step : {"resend", "done", "accepted", "handling"}] \cup {Idle}
  /\ tasks \in [Msgs -> {"none", "working", "sending", "sent"}]
  /\ crashes \in 0..MaxCrashes /\ settled \subseteq Msgs
  /\ runs \in [Msgs -> Nat]

\* "so a reply can never be silently dropped" and "every accepted message a
\* promise": what the watermark is past is answered, in the journal, or in the
\* hands of the running dispatch.  Neither syncs without handlers, nor the end
\* of a cycle, nor a crash may put a message behind the watermark unrecorded.
NothingLost ==
  \A m \in posted \cap Work :
    Admits(m) /\ Ts[m] <= watermark[Gate(m)]
      => m \in settled \/ journal[m] # "none" \/ cur = At(m, "accepted")

\* "a concurrent double-delivery resolves to exactly one handler run": within
\* a process no message is handled twice, however often backfill, live sync
\* and replay offer it.  (A watermark that did not reach its file is the one
\* exception: what a restart replays, the backfill may then offer again.)
OneRunPerProcess == "watermark_file" \in faults \/ \A m \in Msgs : runs[m] <= 1

\* "Never re-runs the handler (the text is cached)": once its answer is in the
\* journal a message is only ever resent, also after a crash.
AnsweredNotRerun ==
  [][\A m \in Msgs : journal[m] = "deliver" => runs'[m] <= runs[m]]_vars

\* The refinement: where each message of work stands.
status ==
  [m \in Work |->
     IF m \in settled THEN "answered"
     ELSE IF m \notin posted THEN "unsent"
     ELSE IF journal[m] # "none" \/ cur = At(m, "accepted") THEN "owed"
     ELSE IF Admits(m) THEN "sent" ELSE "withdrawn"]

Promise == INSTANCE WorkPromise WITH Guests <- Guests

\* Every step of the daemon is a step of the promise: messages are accepted in
\* the order of their room, and what is accepted stays owed until answered.
ImplementsPromise == Promise!Spec

\* Every admitted message of work is answered in the end, through token
\* rotations, failed sends and crashes.
EveryMessageAnswered ==
  \A m \in Work : m \in posted ~> m \in settled \/ ~Admits(m)
=============================================================================
