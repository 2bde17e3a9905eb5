# A specification of aqua-matrix-connector

TLA+ models of the parts of this repository where order, concurrency, crashes
and failed calls decide whether a message is lost, answered twice, shown to the
wrong session or sent into the wrong room; TLC runs on small instances; and
TLAPS proofs for every value of the constants.

Paths below are relative to `src/crates/`; `relay` is `aqua-matrix-relay`,
`agent` is `aqua-matrix-agent`, `messenger` is `aqua-messenger`, `gating` is
`aqua-matrix-gating`, `bridged` is `aqua-system-bridged`. `PROJECT.json` maps
each definition to the lines it stands for.

## 1. The system

An agent is a Matrix account driven by a program. Two kinds of daemon use the
same library:

- a **relay daemon** answers a target user's messages with some backend (a
  `MessageHandler`), in a DM and in rooms bound to it;
- a **messenger** gives local agent sessions (over a Unix socket and MCP) a
  shared inbox and an outbound channel to allow-listed people and rooms. It
  runs inside a relay daemon or in the **system bridge daemon**.

```
 homeserver --sync/backfill--> relay::dispatch --> journal --> MessageHandler --> ReplyStream
      |                                              (detached tasks)   |  \--> gating: questions,
      |                                                                 |       documents to the user
      +--> messenger-matrix::inbound --> Engine::ingest --> Inbox --> sessions
 sessions --> Engine::send --> RateLimiter, AllowList --> QueueTransport | LiveClient --> a room
 every client: connect, acquire_session_for, recovery; a call: RtcMembership
 agents are started, replaced and stopped by the orchestrator
```

### Inventory

| Component | State | Operations | What is hard | What makes it correct |
|---|---|---|---|---|
| Inbox (`messenger/inbox.rs`) | entries, seen ids, next seq, two files | ingest, enforce, query, mark_seen, mark_processed, load, persist | two files replaced one after the other; writes that fail are only logged; the same event offered again by live sync and two backfills; eviction by age and by a cap | an event has one entry; numbers given out stay valid; marks stay; nothing expired is shown |
| Engine (`messenger/engine.rs`, `ratelimit.rs`) | sends per window, waiters | send, wait_for_reply, ingest, read_inbox, mark_processed, fetch_attachment | sessions served concurrently, locks released at every await; replies that overtake their send | the budget; a reply is behind the cursor of its send; no wake-up is lost |
| Allow-list, attachments (`messenger/allowlist.rs`, `attachments.rs`) | recipients, rooms, observers, mtime, last error; a directory | reload, resolve, classify_inbound, lookup, store, prune | edited under running requests; fail closed against keep last good; halves of files, numbers used again | nothing outside a file that was there is written to; a fetch serves its own bytes |
| Relay daemon (`relay/lib.rs`) | watermarks and their files, cycle, sync token | run_daemon, run_cycle, dispatch, backfill, drain, replay | a token rotation every few minutes ends a cycle anywhere; crashes; syncs without handlers; detached tasks | every accepted message is answered; none is run twice |
| Work journal (`agent/durable.rs`) | one file of items: pending or to deliver | enqueue, set_to_deliver, mark_done, pending_work, pending_deliveries | shared by dispatch, detached tasks and the next cycle | an answer that exists is resent, not made again |
| Sessions and tokens (`agent/lib.rs`, `net_retry.rs`, `recovery.rs`, `device_role.rs`) | config.toml, crypto store, recovery key, lock | connect, acquire_session_for, reauth, recovery | refresh tokens are spent once; two tasks rotate; crash before the save; a store wiped or lost | one rotation at a time; no call changes its device; the identity is not replaced while it can be restored; the daemon gets back |
| Streaming replies (`agent/lib.rs`, `reply.rs`) | live message, buffer, open gate, token of the handle | push, set, roll_over, finish, one-shot and chunked sends | a turn outlives its token; answers lost; many messages per reply | what is reported as delivered is in the room once and in order; a refusal is not hammered |
| Direct rooms (`agent/dm.rs`, `lib.rs`; `bridged/matrix.rs`; `aqua-messenger-matrix/inbound.rs`) | `m.direct`, snapshot of rooms, observers | find_dm_room, dm_room_for, mark_dm, repair, reconcile, survey, invites | members, rows and account data move between the awaits; member lists that cannot be read | nothing for a person goes to a group; no second DM; no live room is left |
| Call keeper (`agent/rtc_member.rs`) | membership, delayed leave, schedule | hold, refresh, rejoin, restart_leave, leave, hand_over, supersede | requests preempted by commands; answers lost | a held membership comes back; a left one does not stay |
| Ask-user routing, MCP servers (`gating`, `aqua-matrix-ask-mcp`, `aqua-matrix-md-mcp`) | a pending question per target, a temporary file | ask, try_resolve, clear, deliver | answers early and late; runs killed in a call | an answer goes to its asker; every call ends |
| System bridge daemon (`bridged`), in-process transport (`aqua-messenger-matrix/inproc.rs`) | command queue, carried command, live client | send, run_cycle, execute, attach, detach | a queue that outlives cycles; two deadlines; a client taken back under its users | a command is done at most once, its caller always told |
| Orchestrator (`aqua-matrix-orchestrator`) | sessions, containers, volumes | spawn, replace, stop | each runtime call can fail alone, verbs interleave | a session has its container and reports its DID |
| Call media keys, call placement, media formats, texts and wire formats, activity watch, scripts and units | - | - | I/O and wording | not modelled (section 7) |

Interactions. The relay daemon's cycle is one task; handlers may start detached
tasks that outlive it and touch the journal through hooks on `AgentClient`. The
messenger's sessions are tasks that share the inbox, the rate limiter and the
allow-list under a mutex each, released at every await; the inbound side is one
more task. All tasks that renew a session share `config.toml` under one lock per
store. The inbox, journal, watermarks, session and allow-list are files.

## 2. Plan

The order puts first what users would notice: messages lost, answered twice, or
seen by no session or the wrong person.

1. `Inbox`, its instances and proofs. *Done.*
2. `WorkPromise` (what a relay owes) and `Relay`, which implements it. *Done:
   model-checked, and the safety properties and the refinement proved.*
3. `Send`: rate limit, cursor and waiting. *Done; the cursor and the budget are
   proved.*
4. `Keeper`: schedule, delayed leave, supersession and hand-over. *Done; that a
   superseded keeper is silent and that a membership comes back only under a
   chain of its own is proved.*
5. `Session`: the tiers of `acquire_session_for`, rotation under its lock,
   crashes, wipes and the recovery key, with `connect_with_outage_retry` as its
   caller. *Done; the safety properties are proved.*
6. `Gating`: questions and documents. *Done; the safety properties are proved.*
7. `SendPromise` (what a transport owes the engine) and `Transport`, which
   implements it twice. *Done; the safety properties and the refinement are
   proved.*
8. `Access`: the allow-list and the attachment directory. *Done; its properties
   are proved.*
9. `Rooms`: which room is a person's. *Done; its properties are proved.*
10. `Orchestrator`, `Stream`. *Done; the safety properties of both are proved, and
    that `split_for_matrix` keeps the text.*
11. Proofs. All invariants and action properties of the runs are proved. Next, of
    what no run has: of `Keeper` `SwitchHolds` and `HeldStaysLive`; `GoodGrantKept`
    of `Session`; `ReplaceResets` of `Orchestrator`; `FiledAsCounted` of `Rooms`.
12. Relay with two rooms under the shared watermark (section 7); journal writes
    that fail; the lock inside the crypto store.

## 3. The modules

| Module | Models |
|---|---|
| `Inbox` | `inbox.rs`, and the request handlers of `engine.rs` that use it |
| `WorkPromise` | what the relay promises (abstract) |
| `Relay` | `run_daemon` to `replay_inbox`, watermarks, `durable.rs` |
| `Send` | `Engine::send`, `WaitForReply`, `ingest`, `ratelimit.rs` |
| `Keeper` | `rtc_member.rs`: `Schedule`, `Keeper`, `hold_keyed`, `supersede`, `RtcMembership` |
| `Session` | `connect`, `reauth_inner`, `acquire_session_for`, `net_retry.rs`, `recovery.rs`, `device_role.rs` |
| `Gating` | `pending.rs`, `ask_bridge.rs`, `md_bridge.rs` and the two MCP servers |
| `SendPromise` | what a transport promises the engine (abstract) |
| `Transport` | `bridge.rs`, the loop of `matrix.rs`, `inproc.rs` |
| `Access` | `allowlist.rs`, the checks of `engine.rs`, `attachments.rs` |
| `Rooms` | the direct room of a person: `dm.rs`, `lib.rs`, `matrix.rs`, `inbound.rs`, the relay's invites |
| `Orchestrator` | `spawn`, `replace`, `stop` and what they call |
| `Stream` | `ReplyStream`, and the one-shot sends of `agent/lib.rs` |
| `MC...` | the instances of each for TLC |
| `InboxProofs`, `RelayProofs`, `SendProofs`, `KeeperProofs`, `SessionProofs`, `OrchestratorProofs`, `TransportProofs`, `AccessProofs` | theorems; `SendProofs` has those on `Gating` too, `RelayProofs` those on `Stream`, `OrchestratorProofs` those on `Rooms` |

Operators commented as a *Slip* are plausible errors, kept beside the definition
they would replace; each shows that a property can fail. They are used by no
specification. A state variable called `scenario` (or `faults`, `policy`) is
drawn at the start and fixed: it says which of the situations an instance lists
this behaviour is in. Variables commented as history are in no guard.

### Inbox

State: `entries` (`Inbox.entries`, as a set: file order is `seq` order), `known`
(`seen`), `nextSeq`, `persistedSeq`, and the files as one record `disk`. An entry
is its number, event and the sessions that saw and processed it; its text is
left out, its server timestamp is `Ts[event]`.

A request runs under the inbox lock, from enforcement to its last file write.
The model makes it one step for the memory (`Ingest`, `Enforce`, `ReadInbox`,
`WaitForReply`, `MarkProcessed`), one per file write (`WriteSeq`, `WriteEntries`,
`WriteFails`), and one for its answer (`Answer`); no other request starts in
between, a crash (`Restart`) may fall anywhere. `try_persist` writes `inbox.seq`
only when it moved, and first. `Restart` is `load_with`: numbering continues
behind the greater of the two files, the duplicate check knows only what the
file has, and the policy is enforced at once. The five fields of `InboxPolicy`
are all there; `hard_cap` switches which entries the cap may take and in which
order. The policy is fixed for a behaviour; that an operator changes it at a
restart is left out. `DiskFaults` are the policies of inboxes whose files may fail to
be written: a failed write is only logged, and the properties that need the
files say so.

Histories, in no guard: `shown` (times an event was handed out as new, counted up to
two and from the first read that marked it: one with `mark_read` off before that
counts nothing), `told` (greatest high-water mark given out), `acked` (marks
confirmed), `capped` (events the cap took).

### WorkPromise and Relay

`WorkPromise`: each message of work is unsent, sent, owed or answered; messages
of a room are accepted in the order of their timestamps; what is owed stays owed
until answered, except that a narrower room policy at a restart may withdraw what
guests sent.

`Relay`: `phase` is where `run_daemon` is: down, connecting (the syncs before
any handler is registered, which may take messages off the sync token), draining
(`drain_deliveries`), replaying (`replay_inbox`, the first cycle of a process
only), scanning (`backfill_missed`), dispatching what was found, and live. All of
that is one task, so `cur` is the message in hand and its `step` the await it is
at: `resend`, `accepted` (the watermark is written, the journal not yet),
`handling`, `done` (answered, not yet removed). `tasks` are the detached tasks of
a handler that owns its completion; they run in any order with everything else
and survive a cycle, not a crash. `owns` is `MessageHandler::owns_completion`,
either way in every instance. `Crash` leaves the journal and `wmDisk`.

Five failures break a promise and are named in `Fault` (among them `"keys"`: the scan
passes over events it cannot decrypt); a behaviour draws those
it has from the constant `Faults`. Which failure breaks what is thus part of the
instances, and section 5 says so.

`status` is the refinement: a message is owed when it is in the journal or
between watermark and journal, answered once some answer went out.

### Send

`budget` is `RateLimiter::sends`, `sends` every send made with the cursor it
returns, `pc` where a session is. A send is `Reserve` (all up to `try_acquire`),
`ReadCursor`, `Reach` (the message is out, the transport has not returned) and
`SendOk` or `SendFails`; a failure may follow `Reach`, which is the outcome
unknown. `Listen`, `Look`, `Sleep`, `Wake`, `TimedOut` are one turn of the loop
of `WaitForReply`, split at its awaits: `Listen` is `notified.enable()`, before
the inbox is looked at. `Ingest` and `Notify` are the two steps of
`Engine::ingest`. The inbox is a sequence here and loses nothing: what it keeps
is the business of `Inbox`. `freed` (history) has the times at which failed sends gave
a slot back.

### Keeper

`member` is the call.member state at the homeserver (who published it, how long
it is valid), `delayed` the delayed leaves pending there, `keeper` each hold: the
await its task stands at (`at`), its command channel (`cmd`), the shared
`delay_id` (`id`), an id taken out of it (`taken`), and its `Schedule`. `slot` is
the registry's entry for this room and device. Clocks are timers that count
down, so the state does not grow with time; `Urgent` lists what does not wait for
a tick.

A request is in flight while its hold stands at it: `Start...` sets out,
time passes (`age`, up to `RequestTime` unless a behaviour is `slow`), and the
action named for it applies it and takes the answer. It may fail (`Errs`), and a
command preempts it (`Stop`): `Unheard` says that it then had no effect, or, in a
`stray` behaviour, that it was carried out all the same. `Stop` serves both
commands (`leave`, `hand_over`) and the wait the next hold does in `Supersede`,
which gives up on a keeper after `LEAVE_TIMEOUT` in an `abort` behaviour. The
reads that only look (`anchor_created_ts`) are part of the step they follow.
A condition that is fatal for the keeper ends it the way `Leave` does.

`faults` is what goes wrong in a behaviour, drawn from `Faults`, so that each
property can say which failures it survives. Histories, in no guard: `spent`
(holds whose chain, that is `created_ts`, a leave has ended), `writer` (the hold
that last changed `member`).

Left out: the token rotation of `RestSession` (a task of `Session`), waits asked for by a server
(`retry_after`), a hold whose caller drops its future in the middle, and an
unheard request that is carried out later than at the moment it is given up.

### Session

`file` is `config.toml` (the OIDC client and the cached session), `live` and
`fresh` what the two servers still accept: refresh tokens and access tokens.
`task` is, for each task that renews the session, the await it stands at and what
it has in hand; `kind` says whether it is `connect` ("main"), the REST session of
a call ("keeper"), a self-healing send or a reply stream (`reauth_inner`).
`lock` is `session_lock`. `Load` to `Save` are the tiers of
`acquire_session_for`, one action per await; the save has no await between the
answer and itself. `Build` to `Persist` are the rest of `connect`: the store and
its wipe, the initial sync, `restore_if_needed`, cross-signing, and the new
recovery key. `Fails` is where an attempt ends: transient failures are not
counted, others are, up to `MaxFatal`. A request that fails may have been carried
out (`RefreshUnheard`, `Cancel`). Tokens are numbers of grants, and used again
once nobody has them, so the number of renewals is not bounded.

### Gating

A target's `run` calls a tool of its MCP server; `call` is where the call is,
from the socket to the daemon and back. `open` is the target's entry in
`PendingMap` (by the number of the question), `posted` what reached the room,
`dms` the target's messages on their way to `handle_message`, which asks
`try_resolve` first. A question is `AcceptAsk` (registered), `Post`,
`QuestionSent` or `QuestionFails`, `Expire` and `Deny` (the timeout drops the
receiver before the entry), or an answer. A document is `AcceptMd` (the flag is
set first), `ReadTemp`, `Attach`, `Inline`; a run may call the tool any number of times,
`MaxCalls` is the bound. `DropRun` is the drop of a bridge
with a call in flight.

### SendPromise and Transport

`SendPromise` counts the deliveries of each send, and those of them that nobody
acknowledged: at most one delivery is acknowledged, and it is the last, so that every
other copy is one whose answer was lost; who was told "sent" has it delivered; who was
told that nothing was sent has no acknowledged delivery, and none comes later. That a
send is delivered once at most the code does not promise (`DeliveredOnce`, section 5).

`Transport` has the two implementations. In the daemon, `Call` to `GivesUp` are
the callers in `bridge.rs` (with the deadline of the command and the longer one
of the caller), `Connect`, `Execute`, `CycleEnds`, `Rejected`, `Shutdown`, `Fatal`
the loop of `matrix.rs`; `carry` is the command whose token was rejected. In an
embedding agent, `Attach`, `LiveCall`, `AskDetach`, `Detach` are `LiveClient`
under its read-write lock. Both run a command as one or two chunks, each
through `retry_finalize`: `Send` is an acknowledged request, `Retries` a failed one
after which the chunk is sent anew, under a new transaction id, up to `MaxAttempts`
times; `Fails` is the last failure, `TimesOut` the limit of all attempts, `Rejected` a
refused token, which no attempt outlives. A request that is not answered may have
arrived (`Unanswered`), and `room` records for each arrival whether the sender heard of
it. Such a request arrives before the next one is made, or never. Files (`file`) have
one attempt. Time is left out: a deadline may pass at any later moment. The refinement
maps the deliveries of a send to the arrivals of its last chunk.

### Access

`disk` is the allow-list file with the number of times it was saved, which is its
modification time; `list` the lists in force. A request (`Send`, `Fetch`,
`Inbound`) looks at the time (`Look`), reads the file under the list's lock if it
changed (`Read`), and decides in the same step. A mention and a recipient are
resolved one after the other. `bytes` and `meta` are the two files of a stored
attachment, by the number of the entry; `StoreBytes`, `StoreMeta` write them,
`Prune` removes what is old. `Restart` may find the inbox deleted, so that its
numbers begin again. What a file says is checked as `parse_with` does, with its
errors in its order. `since` (history) has the contents the file had while a
request ran.

### Rooms

`member` is the homeserver's, `view` the client's store of it, `fetched` the rooms
whose list is synced; before that a read may fall back on the store, or on
nothing (`Answers`), and `Counted`, `Verdict` and the callers have the code's
fallback for each; `get_member` has none (`Member`). `act` is what the two tasks are doing: "main" connects
(invites, `repair_m_direct` and `survey_rooms` of a bridge, or the relay's
`reconcile_owner_dms`) and sends (`find_dm_room`, then `dm_room_for`), one await a
step: of a room `dm_room_for` reads the count (`ScanRoom`), her membership
(`AskTarget`), `m.direct` (`AskDirect`) and, where a row names an observer, whether it is
a 1:1 (`AskObserver`), and `reconcile_owner_dms` reads the list (`Reconcile`) and then
whether she left (`AskAbsent`); "sync" handles invites and messages. Between the steps members come and go
(`Change`) and rows of the allow-list are edited (`EditRow`). One person, ann, and
one third account stand for all; `scenario` says who is where at first and which
program it is. `reconcile_owner_dms` is called by no program of this repository;
the module gives it to the relay, whose library it belongs to.

What the properties compare with is the store at some moment of the operation.
`OneToOne` is the direct conversation: she is in it or invited, and of joined and invited
nobody else but this account and the observer. `Quiet` is what `dm_room_for` counts: at
most two joined besides the observer. A message may go to what is `Hers`: of a relay
`OneToOne`, of a bridge a room that is not listed, that she is in or invited to, and that
is `Quiet`. `once` are the rooms that were hers at some moment of the operation, `kept`
those that were `OneToOne` throughout, `dead` those she had abandoned, `was` says of each
task that the room it is at has been `OneToOne` since it took it up, `calm` of each room
that it was `Quiet` since it was last counted. `unread` are the rooms the properties
excuse: those whose members the operation could not read, whose row was edited during
it, or whose members changed between its count and the look whether she is in it. What
the code does with them is in section 5.

### Orchestrator

`boxes` are the containers podman knows, `volume` the identity in each instance's
volume, `sessions` the manager's map, `op` what each caller is doing. A verb is a
chain of steps that end at the podman calls: `Prepare` to `InsertSession` is
`spawn`, `TakeOut` to `RemoveContainer` is `stop`, and `replace` is that, `Wipe`,
and a spawn. The agent in a container mints a DID when the volume is empty and
writes it to the log of its incarnation (`AgentUp`); the log is named by the
second.

### Stream

The text is a sequence of pieces; a message shows a range of them. `stream` has
the fields of `ReplyStream` (live message, buffer, gate, cooldown, `gave_up`),
`messages` the room. `Delivered` is `deliver`: one request, and on a rejected
token one refresh and one repetition. `Push` and `Set` end in `SendFirst`,
`OpenNext` and `Freeze` (roll-over), or `Edit`; `Finish` writes what is final. The
one-shot sends are `SendStart` to `Reauth`. Any request may fail, or land without
its answer (`lost`), and the token may die at any moment.

## 4. Runs

States are distinct states. The bounds are the constants named `Max...`.

| Run | Instance | States | Checks |
|---|---|---|---|
| `inbox` | 3 events of different times, one of them media; 2 sessions; 6 policies, one with failing writes and no media; clock to 2; 1 crash | 242,000 | `OneEntryPerEvent`, `CursorNeverReused`, `NotNewOnceMarked`, `ProcessedMarkKept`, `NothingExpiredHandedOut`, `ReofferedStaysEvicted` |
| `relay` | DM with work, a notice, an empty message, work; bound room with a guest's work; 1 crash; any number of rotations and failed sends | 1,750,000 | `NothingLost`, `OneRunPerProcess`, `AnsweredNotRerun`, `ImplementsPromise` |
| `relay_live` | 2 messages in the DM; failed watermark writes; 1 crash; fairness | 158,000 | `EveryMessageAnswered` |
| `send` | 2 sessions, a reliable and a flaky recipient, budget 1 per 1 unit, 2 sends, 2 entries; fairness | 802,000 | `BudgetKept`, `RepliesFollowCursor`, `AnswerEndsWait` |
| `keeper` | 2 holds, 3 delayed leaves; expiry 6, refresh 2, leave delay 4, restart 1, retry 1, a request up to 1; 8 sets of failures; fairness | 164,000 | `WritersInOrder`, `ChainsEndWithLeave`, `ComesBack` |
| `session` | 2 tasks of one process, 3 tokens, 2 devices, 2 fatal failures; 11 situations of role, second task and failures; fairness | 636,000 | `GrantsSpentOnce`, `KeeperKeepsDevice`, `MasterKept`, `Reconnects` |
| `gating` | 2 targets, 2 questions, 2 runs and 3 DMs each, 2 calls of the document tool in a run; 5 situations of tools and failures; fairness | 845,000 | `EntryHasAsker`, `AnswerReachesItsAsker`, `EveryCallAnswered` |
| `transport` | 3 commands, one a text of two chunks, two of them files; 2 attempts, a channel of 2, 2 clients; both transports; fairness | 619,000 | `ArriveInOrder`, `OneClient`, `KeepsPromise`, `CallerTold` |
| `access` | 2 requests at once, 2 edits among 7 files, 1 inbox entry, 2 mishaps; a host and an agent with an owner | 1,790,000 | `InForceIsOnDisk`, `ServedIsItsOwn`, `GrantsFollowTheFile` |
| `rooms` | 3 rooms, 3 accounts, up to 2 moves, 1 send, 1 arrival, 2 cycles; 10 situations of four programs | 718,000 | `PersonGetsNoGroup`, `DirectOnlyPrivate`, `NoSecondDm`, `LeavesOnlyAbandoned` |
| `orchestrator` | 1 id, 2 callers, 4 verbs, 3 containers, 3 DIDs, 2 seconds; 6 sets of failures | 1,010,000 | `SessionHasContainer`, `ReportedDidIsOwn` |
| `stream` | 6 pieces, 2 to a message, 3 messages, 3 attempts, 4 ticks, a token that dies twice; five kinds of call | 2,100,000 | `ReportedIsShown`, `FrozenJoinUp`, `RefusalsBounded` |

On the same instances, but in no run, TLC finds that `TypeOK` of every module
holds (most are proved, section 6), and `HardCapHolds` and `UnreadDroppedOnlyByAge` (`Inbox`), `NoSlotLost`
(`Send`), `SwitchHolds` and `HeldStaysLive` (`Keeper`), `GoodGrantKept`
(`Session`), `DocumentOnce` (`Gating`), `FiledAsCounted` (`Rooms`),
`ReplaceResets` (`Orchestrator`), `OpensSpaced` and `RoomChunksOnce` (`Stream`).

Why the bounds are enough to meet the cases:

- The inbox holds one entry (`max_entries = 1`) and three are offered, so the
  cap works while another entry is new, seen and processed. With three
  timestamps, an age of 1 and a clock to 2, an entry can be fresh, at the cutoff
  and past it. One crash, at any of the writes, followed by every request, is
  what the files can show: a second crash starts from files of the same kind.
  `MaxSeq` leaves a number for an event that comes back after a restart.
- In the relay two messages of work make an older and a newer one, which is what
  a watermark can confuse; the notice and the empty message of one timestamp in
  between cover the paths that do not reach the handler. The number of cycles is
  not bounded. One crash gives two processes, so that replay, drain and the
  narrowed policy are met with every content of the journal.
- Two sends and a budget of one make the sends overlap, wait on each other and
  expire. The clock moves one window.
- Two holds give one supersession with the older keeper at every await; a third
  meets the registry in the same states. The order of the timings is that of the
  defaults (a refresh and several restarts before the leave is due, several
  refreshes before expiry). Two ids would do for the two holds; the third is one
  that a stray request leaves behind. No behaviour has all failures: each set
  pairs those that meet in the same requests.
- Two tasks contend for the lock, one of which spends the grant the other has
  read or not yet read. Crashes, expiries and renewals are not bounded; the three
  tokens are used again. Failures come in sets that meet in the same code; where
  two of them are far apart (the disk of `config.toml`, the device a server
  picks) they do not meet.
- Two targets are needed for what they share, the temporary file; two questions
  for an answer to the wrong one; two runs for an entry left by the first; two calls of the
  document tool for a second delivery in one run. A target whose runs only send
  documents starts them with at most `MaxRuns` DMs.
- Three commands: one carried, one running or in the channel, one waiting for
  room in it. Two clients: the one that was rejected and the next; two attempts: one
  whose answer is lost, and one more, at which the token may be dead (the code has
  five). A file has one chunk
  and one attempt.
- Two requests, each across an edit, and two edits: a bad file after a good one,
  after which the good one may return. One entry number is what a deleted inbox
  gives out again. Which files may meet is in `MCScenarios`.
- Three rooms: hers, a group, and a free one for a second. Two moves are enough
  for a member to come between two awaits and leave again.
- Two verbs at once and four in all: a spawn and a replace or stop of the same id
  in every order, and another spawn after a failure. Two seconds let incarnations
  share one or not.
- Six pieces at two to a message fill three messages and leave one over the
  limit. Two deaths of the token: before and after a refresh.

`CHECK_DEADLOCK FALSE` everywhere: a daemon that has answered everything it was
sent rests, and the bounds stop the rest. Symmetry (of sessions) is used in
`inbox` only, which checks no liveness.

### Fairness

`relay_live` assumes weak fairness of the daemon's own steps (`Cycle`, `Step`,
`Sync`, and each detached task): they are the next await of a task the runtime
polls. A cycle ends in the end (`CycleEnds`) because a token expires, and a
supervisor restarts a dead process (`Start` in `Cycle`; the units under
`systemd/` have `Restart=`). A handler returns. A resend is tried, with weak
fairness, and gets through if it is tried again and again, per message (strong
fairness of `ResendOk`): the homeserver is not down for good. Nothing is assumed
of `Post`, `Crash`, `TaskSends` against `TaskFails`, or the outcome of a scan.

`send` assumes that a task whose await is ready is polled (`Wait`) and that
`notify_waiters` follows the ingest (`Notify`). Nothing is assumed of the
deadline (`TimedOut`), so it cannot be what ends a wait; and nothing of the
transport.

`keeper` assumes that time goes on (`Tick`, strongly: it waits for what is
urgent), that the homeserver sends a leave that is due (`Expire`), that a task
whose await is ready is polled (`Work`, `Stop`), and that an idle keeper gets to
what is due, not only to the rejoins it is asked for (`StartLeaveWork`,
`StartRefresh`, strongly: one request for a rejoin may be served when the task
wakes late, but `Keeper::tick` works off what is due before the next). A refresh
and a rejoin that are tried again and again get through (strongly): the
homeserver is not down for good. Nothing is assumed of a start, a command, or the
other requests.

`session` assumes that tasks are polled (weakly, per task), that tokio's mutex is
handed on in the order it was asked for (strong fairness of `Load`), and that a
supervisor restarts the process. `Reconnects` speaks of behaviours in which
failures end (`calm`); nothing is assumed of `calm` or of any request before it.

`gating` assumes of the daemon's own steps that they are taken: a send returns,
a timeout fires, a socket is read. Users, models and runs may do nothing.

`transport` assumes that timers fire (the deadline, the caller's longer one, the
limit of all attempts of a command). Nothing is assumed of `Connect`: a caller is told even if
Matrix never comes back.

## 5. What the checks show, and where code and text disagree

What holds, outside the failures below:

- An event is in the inbox once and no session gets a valid cursor invalidated,
  no processed mark is undone, nothing is shown past its age, nor as new once a
  marking read has shown it, over crashes at every write; with failed writes, no event
  is doubled and nothing expired is shown.
- A relay never has a message behind its watermark that is not answered or in the
  journal, never runs one twice in a process, resends an answer rather than
  making it again, keeps the order of a room, and answers in the end.
- A reply can neither fall before the cursor of its send nor be slept through. The
  sends of a window exceed the budget by no more than its failures.
- A call membership that is held comes back whatever fails, and is left alone by
  the hold before.
- No refresh token is presented twice unless its successor got lost; a call never
  turns the store to another device; a published identity is replaced only by a
  primary, and only if the recovery key did not open it; and when failures end,
  the primary is connected again.
- A DM that answers a waiting question reaches it, however early; no question
  stays in the map without an asker unless its run was killed; every call ends.
- Both transports keep `SendPromise`: over lost answers, retries, rejected tokens and
  deadlines nothing is sent again once it was acknowledged, and nothing is sent that was
  reported unsent; sends arrive in the order the channel took them; nobody uses a client that was given back; every queued caller is told.
- Requests go by an allow-list that was on disk while they ran, the lists in
  force are those of the last file that decided, and a fetch serves its own
  attachment.
- Nothing for a person goes to a room that was not hers at any moment of the send, no
  second DM is created while a 1:1 with her was there throughout, and no room is left
  that she had not abandoned, rooms excused that could not be read or that changed
  under the eyes of the reader (`unread`, section 3). Without excuse, only rooms that
  were a 1:1 with her enter `m.direct`.
- A session in the orchestrator's map has its container and its container's DID.
- A stream that reports success has the whole text in the room, in order and
  once, up to the limit of messages, and a homeserver that refuses a token hears
  of it once more per token.

Where code and text disagree. The property named in the first column is defined
in its module and states what the text says; it does not hold. No run has it; it
is seen when it is put into the named run's .cfg with the failure or instance of
the second column, defined in the MC module or in the line itself.

| Property | In run, with | The text | The code |
|---|---|---|---|
| `NothingLost` | `relay`, `Faults <- CrashFault` | `relay/lib.rs:575` "makes every accepted message a promise" | the watermark is written before the journal; a crash between the two loses the message |
| `NothingLost` | `relay`, `Faults <- KeysFault` | as in the first row | the scan passes over what it cannot decrypt, only counts it, and the live watermark passes it |
| `NothingLost` | `relay`, `Faults <- ScanFault` | `relay/lib.rs:1422`: oldest first, or the watermark would "drop them for good" | a failed page keeps the newer pages; a scan timeout drops what it found; either way the live watermark passes the older messages |
| `EveryMessageAnswered` | `relay_live`, `Faults <- AbortFault` | `relay/lib.rs:575` "across restarts AND token rotation" | a rotation aborts a running handler, and its item is replayed only by the next process |
| `NewChainAfterLeave` | `keeper`, `Faults <- RestartFails` | `agent/rtc_member.rs:757` "re-using the old created_ts after a leave is not [safe]" | a failed restart of the delayed leave is only put off; the refresh due meanwhile does not ask whether the leave has fired |
| `SupersededIsSilent` | `keeper`, `Faults <- LeaveFails` | `rtc_member.rs:972` "a previous keeper of this membership can no longer clear it" | when asking for the leave to be sent fails, its id is dropped after `clear_member`; it stays armed and removes a hold started within `leave_delay` |
| `NewMeansUnshown` | `inbox` | `messenger/engine.rs:839` "`new` tells this session that no other session has looked at it yet" | a read with `mark_read` off shows an entry as new and leaves it so, any number of times |
| `BudgetKeptForAll` | `send`, with `People = {bob}`, budget 2, window 2, 4 sends, no entries, a clock to 3 | `messenger/profile.rs:34` "at most this many sends ... per this many seconds" | `release` gives back the newest reservation, not its own |
| `AnswersItsQuestion` | `gating`, `Scenarios <- LateAnswers` | `gating/pending.rs:25` "no question/answer correlation ambiguity" | a DM is the answer to whatever question is open; a late answer is taken for the answer to the next |
| `ContentNotLost` | `gating`, `Scenarios <- LostSends` | `gating/md_bridge.rs:23` "so the content is never lost" | the reply to the model is "sent inline" also when that failed, and two runs whose model picks one file name share the temporary file |
| `IdentitySurvivesWipe` | `session`, `Scenarios <- OnlyRestore` | `docs/RECOVERY.md:22` "no new identity, no fresh cross-signing bootstrap" | when `recover()` fails it is logged, and connect goes on to bootstrap a new identity |
| `UnsentMeansNothing` | `transport` | `bridged/matrix.rs:223` past its deadline a command is "not sent" | before the token was rejected and the command carried, the first chunks may have arrived, or all of it without an answer |
| `DeliveredOnce` | `transport` | `agent/lib.rs:2732` "a failed attempt means nothing landed", and `lib.rs:1931` "retrying cannot duplicate a delivered message" | an answer may be lost, and the retry has a new transaction id |
| `NeverAGroup` | `rooms` | `bridged/matrix.rs:420` "never to a listed `[[rooms]]` entry or a group room" | the members are counted, then `get_member` is awaited: of this account and another, two are counted, and she joins in between; and a room whose list cannot be fetched counts by a summary that may say 0 |
| `CreatesTheFirst` | `rooms` | `bridged/matrix.rs:398` "when the person has no DM with the bridge yet" | a room for which `get_member` fails is passed over (521), so that a second one is created |
| `UndisturbedSendIsPrivate` | `rooms`; with `Scenarios <- MCInvited` without any fault | `bridged/matrix.rs:498` "the 1:1 DM with mxid" | only joined members are counted, so a room she is only invited to and another account has joined counts two |
| `NothingHalfTracked` | `orchestrator`, `FaultSets <- MCRemoveFails` | `orchestrator/lib.rs:516` "must not leave the session half-tracked" | the session leaves the map first; a container whose removal fails stays without one and keeps its name |
| `WholeWhateverHappened` | `stream`, `Scenarios <- MCFailing` | `agent/lib.rs:2631`: finish delivers the whole reply whatever happened while streaming | after a roll-over finish writes the tail only; a head that could not be frozen stays as it was streamed |

Smaller ones, seen while modelling: 50 is "how many
messages one reply may fan out into" (`STREAM_MAX_MESSAGES`), and `finish` may
split its tail into 50 more; `mark_dm` and the other writers of `m.direct` read and
write it back without a lock, so that of two at once one is lost
(`DirectOnlyPrivate` tolerates it: no wrong room gets in, but a right one may be
missing); `reconcile_owner_dms`
tests for a group only with a fetched member list, so that after a failed fetch
a group she has left is left too (`LeavesOnlyAbandoned` excuses rooms that could
not be read); the queue of a bridge is pushed to without a time limit
(`CallerTold` speaks of commands in it).

What the properties except, so that a fault in the excepted part would not be seen:

- `CursorNeverReused`, `NotNewOnceMarked` and `ProcessedMarkKept` need files that can be
  written, and `ReofferedStaysEvicted` timestamps that differ, because ties are broken by
  `seq` and an event that comes back has a new one.
- `BudgetKept` grants each failed send one send more, because `release` takes the newest
  reservation. Which one it takes, only the stronger `BudgetKeptForAll` tells.
- `EntryHasAsker` leaves out the question of a killed run, whose entry stays in the map.
- `ReportedDidIsOwn` leaves out incarnations that began in one second and share a log.
- `FrozenJoinUp` and `ReportedIsShown` say nothing once a head could not be frozen;
  `ReportedIsShown` nothing of a DM whose token was renewed in the middle, where the
  first chunks are sent again; and it and `RoomChunksOnce` nothing once an answer was
  lost, because the chunk is then sent again.
- `PersonGetsNoGroup`, `NoSecondDm` and `LeavesOnlyAbandoned` excuse the rooms of
  `unread`; `LeavesOnlyAbandoned` of those only what could not be fetched, for a relay
  has no rows and does not count.

## 6. What is proved

With TLAPS, for every set of events, sessions, recipients, targets, timestamps and
policies, for every timing and for every bound. Assumed are the named assumptions
of the modules (`InboxAssumption`, `RelayAssumption`, `SendAssumption`,
`KeeperAssumption`, `SessionAssumption`, `OrchestratorAssumption`,
`TransportAssumption`, `AccessAssumption`, `GatingAssumption`, `StreamAssumption`,
`RoomsAssumption`): the types of the constants, that `Nobody` is no session and
`"none"` no task, that a process has one connect, what `RtcMemberTiming::validate`
demands, and the order of the limits of a stream. TLC evaluates them in every run. What
else a theorem needs it states itself:

| Hypothesis | Says | Why |
|---|---|---|
| `GatesSeparate`, `NoLosses` (relay) | rooms do not share a watermark, times in one are distinct; the three failures that lose messages do not happen | sections 5 and 7 |
| `Calm` (keeper; part of the properties) | none of the failures that leave a delayed leave nobody knows of | section 5 |
| `Roomy` (keeper) | a restart of the delayed leave and its request fit into the leave delay, a request into the expiry | 60 s and 15 s against 4 h in the defaults, but `validate` does not demand it; with a leave delay of 2 and a restart and a request of 1 and 2, TLC finds `ChainsEndWithLeave` violated |
| `Distinct` (inbox) | server timestamps tell events apart | with equal ones an evicted entry that is offered again has a newer number and wins the tie (hazards) |

`InboxProofs`. The invariants of the runs are not inductive, because what a crash
leaves depends on what a running request still has to write. `Structure` speaks
of every *snapshot*: the memory, the file, and each content in `writes`.
`Numbering` says that no snapshot has a number above the high-water mark, and
the file none above the mark on disk, which is the order of the two writes;
`Uniqueness` that events and numbers identify entries in each snapshot and that
all events in memory are known to the duplicate check. `Durability` adds that
what was answered is on disk once no write is left; it is claimed of inboxes
whose files can be written. Every request but `Ingest`
produces snapshots that *inherit* from the one before: entries are dropped or
marked, never changed otherwise; that is proved once (`RewriteKeeps`) and used
for all.

For what is shown, `Once`: an event that a marking read handed out as new is known to
the duplicate check or past the age bound, its entry is new in no snapshot, and one that
is missing from a snapshot was dropped for its age or by the cap; what a request is about
to hand out as new no marking read has shown before, and if it marks, the mark is made
already. Reads that do not mark are requests like the others; they are not counted before
the first that marks. For the cap the proof
counts: `Behind` orders the entries by their state, time and number, and what
`enforce` drops has `max_entries` behind it. `Displaced` says that an event the cap
evicted still has that many newer ones in every snapshot that does not hold it, so
that it is evicted again when it is offered again.

| Theorem | States |
|---|---|
| `TypeCorrect` | `TypeOK` |
| `NoDuplicateEvents` | `OneEntryPerEvent`, also when writes fail |
| `CursorsStayValid` | `CursorNeverReused`, for every policy not in `DiskFaults` |
| `MarksAreFinal` | `ProcessedMarkKept`, for every policy not in `DiskFaults` |
| `ReadsRespectAge` | `NothingExpiredHandedOut`, an action property, also when writes fail |
| `NotNewAgain` | `NotNewOnceMarked`, for every policy not in `DiskFaults` |
| `EvictedStaysOut` | `ReofferedStaysEvicted`, an action property, under `Distinct` |
| `CapHolds` | `HardCapHolds`, which no run has |
| `UnreadLeavesByAge` | `UnreadDroppedOnlyByAge`, an action property no run has |

`SendProofs`: `CursorPrecedesReplies` states `RepliesFollowCursor`. The invariant
is `Shape`, `Ownership` (a session alone writes its latest send, and what is
only reserved has not gone out) and `Cursors` (no cursor is ahead of the inbox,
and what is answered has gone out): a reply needs `Reach`, `Reach` comes after
`ReadCursor`, and the inbox only grows.

`BudgetIsKept` states `BudgetKept`, for any number of sessions and sends, any window and
every recipient, those included whose sends fail: of `Budgets`, `Queues` says that a
recipient's queue never has more times than the budget, and `Covered` that from whatever
time on one counts, as long as the window reaches back to it, a recipient had no more
sends than its queue has times and releases freed slots. `Trim` only takes out times the
window no longer reaches, and `release` takes one time out and notes its own.

The second part of the module is about `Gating`, for any number of targets,
questions, runs and messages:

| Theorem | States |
|---|---|
| `GatingTypeCorrect` | `GatingTypeOK` |
| `NoOrphanQuestion` | `EntryHasAsker` |
| `AnswersArrive` | `AnswerReachesItsAsker`, an action property |
| `DocumentComesOnce` | `DocumentOnce`, which no run has |

The invariant has one conjunct per target (`Row`), and no step touches the row of
another. While a call listens and has no answer, the entry of the map is its own
(`Registered`), for it is put there before the question is sent and every path that
ends takes it out. Nothing of a document has come before the tool is reached (`Fresh`),
and what has come or is still owed is no more than the calls of the run (`Balanced`);
that is not claimed when a send may arrive that is reported failed. Every number a DM, the
room or the map has is that of a question that was asked (`Bounded`).

`RelayProofs`, for any messages, rooms, guests and number of crashes:

| Theorem | States | Under |
|---|---|---|
| `RelayTypes` | `TypeOK` | |
| `NothingIsLost` | `NothingLost` | `GatesSeparate`, `NoLosses` |
| `HandledOnce` | `OneRunPerProcess` | |
| `AnswersAreKept` | `AnsweredNotRerun`, an action property | |
| `PromiseKept` | `ImplementsPromise`: `Relay` implements `WorkPromise` | `GatesSeparate`, `NoLosses` |

`GatesSeparate` says that messages under one watermark are of one room and that
none has the timestamp of a message of work there; `NoLosses` that no crash falls
between watermark and journal, no scan is cut short, and it decrypts what it finds. An aborted handler and a
failed write of the watermark file are allowed: they delay an answer or repeat a
run in the next process, and break none of the five. The first three rows of the
table in section 5 show that `NoLosses` is needed, section 7 says why
`GatesSeparate` is.

The argument has three parts, each an invariant of its own.

- `Safety`: a watermark never passes a message of work nobody has dispatched.
  What makes that inductive is where an outstanding message can be. Either it is
  in one of the queues, which are dispatched oldest first, or it is newer than
  all that is queued for its room (`Ordered`). And what the sync token is past
  without having been dispatched is found by the scan that comes before the next
  live phase (`Consumed`).
- `Once`: what this process has run is behind the watermark in memory
  (`BehindGate`), so that dispatch does not run it again, and what is still to
  be replayed has not been touched since the start (`Replayable`), so that
  replay does not either. That the file of the watermark may be older
  (`FilesWritten` bounds it) matters only to the next process.
- `WorkRecorded`: what is worked on, in hand or in a detached task, is in the
  journal or answered. With the two others this determines the step of
  `WorkPromise` that each step of the relay takes; `StatusOf` is the mapping, one
  message at a time, and `PromiseStep` goes through the actions.

The second part of the module is about `Stream`, for any limits, text, faults and
number of deaths of the token:

| Theorem | States |
|---|---|
| `FewRefusals` | `RefusalsBounded` |
| `NothingTwiceAtARollover` | `FrozenJoinUp` |
| `SplitSound` | the chunks of `split_for_matrix` are the text from its start, in order and nothing twice, to its end or to the limit of messages |
| `ReportIsTrue` | `ReportedIsShown`, with its exceptions (section 5) |
| `OncePerRoom` | `RoomChunksOnce`, which no run has; no answer was lost |

For the first, `Spent`: while streaming goes on each refusal so far was paid for by
a death of the token, and one death is unspent while the token is dead; any refusal
that finds nothing unspent ends streaming, in the same step. For the second the
invariant says where the live message stands at each step of a call (`Stands`), and
that those before it join up and have no cursor (`Final`), which a write from the
live message on does not touch (`FinalCopies`) and a freeze extends by one
(`FinalGrows`). Neither depends on where the text is cut.

What is reported does. `split` is a recursive function and the prover has no
induction over data, so the proof first shows that the function exists and
satisfies its equation (`SplitIs`: two functions that do so up to some number
agree up to it, and for every number there is one), and then argues by the least
limit for which its result would be wrong (`SplitSound`); both use that the order
of the naturals is well-founded (`Least`). On that rest two invariants. `Told`: a
streamed reply knows that its live message starts where the final ones end and
that its text is all there is from there on (`Tracks`), a dashboard has one message
at most (`Board`), and what `finish` has written is some of the chunks, after the
final messages (`Closing`). `Repeats`: a one-shot send has written some of the
chunks, and before them, only in a DM whose token died, those of its first try
(`Sent`). Both say nothing once an answer was lost, and `Closing` nothing once a
message could not be frozen, which the property leaves out too: a message that
landed without its answer is sent again.

`KeeperProofs`, for any number of holds and any timings:

| Theorem | States | Under |
|---|---|---|
| `KeeperTypes` | `TypeOK`: no timer runs below zero | |
| `SupersededSilent` | `WritersInOrder`, an action property | `Calm`: none of the failures in `Orphans` |
| `ChainsEnd` | `ChainsEndWithLeave` | `Roomy` |

The type proof already needs `InTurn` (one start at a time) and `Slotted` (who
supersedes finds a keeper), without which `keeper[slot]` means nothing. For the
second theorem, `OneAlive` says that the hold in the slot alone runs or stops and
later ones only start; `Known` that a pending delayed leave is that hold's and
its id is in its record, until a newer one takes it over, which cancels it
before it publishes; `Hygiene` where in its code a task can have which id; and
`Wrote` that who has written has published. `OwnStep` covers the steps of a
keeper at once, `StartsOn` those of a start. The row of `SupersededIsSilent` in
section 5 shows that `Calm` is needed.

`ChainsEnd` is about the timers (`AllSound`): a keeper whose delayed leave is armed
and not yet due for a restart will restart it before it is sent (`OnTime`), none is
sent while a refresh is under way (`Continues`), and one whose chain was ended knows
of no chain to continue or looks after the leave first (`Ended`). The property itself
leaves out the failures after which a keeper learns too late that its leave was sent.

`SessionProofs`, for any number of tasks, tokens and devices, any `MaxFatal` and
every set of failures:

| Theorem | States |
|---|---|
| `GrantsAreSpentOnce` | `GrantsSpentOnce` |
| `CallsKeepTheirDevice` | `KeeperKeepsDevice`, an action property |
| `IdentityKept` | `MasterKept`, an action property |

`Exclusive` says what the session lock is good for: a task between `Load` and
`Save` has it (`Placed`), so what it read is what the file still has, and the
stored refresh token is good, lost, or about to be replaced by the one task in
`save` (`Grant`). With that, a task at `refresh` has the stored token and nobody
is in `save`. The second theorem is the same invariant at `Save`, past
`check_identity`. For the third, `Restored`: only connect gets past the initial
sync, a process has one connect, and one that comes to cross-signing without keys
while the recovery key opens them has seen `recover()` fail. The row of
`IdentitySurvivesWipe` in section 5 shows that this exception is needed.

`OrchestratorProofs`, for any number of ids, callers and containers and every set
of failures:

| Theorem | States |
|---|---|
| `OrchestratorTypes` | `TypeOK` |
| `SessionsHaveContainers` | `SessionHasContainer` |
| `SessionsReportTheirDid` | `ReportedDidIsOwn` |

The map is only held between the podman calls, so the invariant speaks of the
verbs under way. `Custody`: a container is in one session or in one pair of hands
(`OneHand`), and podman's refusal of a second container of one name (`Names`)
keeps two creates of one id apart. `Origin`: a log directory in use was begun by a
spawn, and one that only one incarnation uses has the DIDs of its own container
or none. The DIDs of an id's two incarnations in one second are excluded by the
property itself (`shared`).

The second part of the module is about `Rooms`, for any rooms, members, rows and
bounds:

| Theorem | States |
|---|---|
| `RoomsInvariant` | the inductive invariant, which has the types |
| `MessageReachesHer` | `PersonGetsNoGroup`: rooms of `unread` excused |
| `RecordedWereHers` | `DirectOnlyPrivate` |
| `OneRoomForHer` | `NoSecondDm`: rooms of `unread` excused |
| `OnlyAbandonedLeft` | `LeavesOnlyAbandoned`, an action property: rooms that could not be fetched excused |

Members come and go and rows are edited between any two reads, so that what a task
knows of a room is past. The invariant says in which sense it still is true. A room that
is written to was hers at some moment of the operation, one that is recorded was a 1:1
since it was taken up (`Marks`). The rows a search copied at its start differ from the
rows only where one was edited meanwhile (`RowsKnown`); with that the count of a room can
be trusted, and a room that was counted as hers and found to have her in it was hers at
that moment, for its members did not change in between or it is excused (`Counting`).
What a search has found was hers when it was read, and a room that is a 1:1 all the time
is still ahead of the search, under its eyes, or among what it found (`Sifting`). The
rooms the clean-up is about to leave were abandoned at some moment, and one it found no
group still is none when it asks whether she left (`Gone`). `Phases` and `Joining` say
which program reaches which place, `Syncs` repeats what is needed for the sync task,
which runs only between the operations of the main task that wait for it. There is one
lemma for each action; the search takes most of them.

`TransportProofs`, for any number of commands, attempts and clients and any bound on
the channel:

| Theorem | States |
|---|---|
| `TypeCorrect` | `TypeOK` |
| `NoStaleClient` | `OneClient` |
| `SendsInOrder` | `ArriveInOrder` |
| `TransportKeepsPromise` | `KeepsPromise`: both transports implement `SendPromise` |

`Custody` says where a command is: in the channel once, carried over a rejected
token, or on the client, at most one of them, and that client is up. `Line` says that
what arrived comes before what the loop holds, that before what is queued, and the
queue is in the order of the channel. `Unfinished` says that until a command is done
nobody heard of an arrival of its last chunk, and its caller was told nothing, or has
given up: an arrival of the last chunk is then a step of the promise (`Delivers`), and
once it is acknowledged the command is done and none follows.

`AccessProofs`, for any file, requests, edits and mishaps:

| Theorem | States |
|---|---|
| `TypeCorrect` | `TypeOK` |
| `ListsInForce` | `InForceIsOnDisk` |
| `FetchServesItsOwn` | `ServedIsItsOwn` |
| `FileGrants` | `GrantsFollowTheFile` |

`Loads` says that the lists in force are those of the last file that decided
(`Follows`), and that a file whose time is the one noted has been read, when nobody is
between the look and the read. `Asks` has, for each request, that the file on disk
when it looks is among those it has seen (`Orderly`), that a fetch is about an entry
of the inbox, and what is in the two files of an attachment. A step that grants
a request then does so by one of those files (`GrantsFollow`).

Only model-checked:

- all liveness (`EveryMessageAnswered`, `AnswerEndsWait`, `ComesBack`,
  `Reconnects`, `EveryCallAnswered`, `CallerTold`), which is out of the prover's
  reach;
- of the properties no run has: `OpensSpaced` of `Stream` (the prover knows nothing
  of powers) and its `StreamTypeOK`, `FiledAsCounted` of `Rooms`, `NoSlotLost` of
  `Send`, `SwitchHolds` and `HeldStaysLive` of `Keeper`, `GoodGrantKept` of
  `Session`, `ReplaceResets` of `Orchestrator`.

## 7. Not modelled

Whole components, with status `not_modelled` in `PROJECT.json`: media keys
(`agent/rtc_keys.rs`: what is hard in them, device trust and Olm sessions, is in
the SDK), call placement and the registry, the media codec, the protocol and the
texts of the messenger, the destructive-command patterns (text patterns, no
state), the activity watch, skills, scripts and units. Their errors are not of
order or concurrency.

Parts of modelled components:

- Engine: the audit log, `list_recipients`, the texts of refusals.
- Relay: call events, display names, the page limit of a scan; events of the live sync
  that cannot be decrypted. Whether the first
  answer of a detached task and its resend by the next cycle both arrive is left
  open: they may, and the promise is at least once.
- Journal: a write that fails, and a file that cannot be parsed.
- Session: key generation, `prune_stale_devices`, the lock inside the crypto
  store (`agent/lib.rs:655` and on), a client that is shut down while another
  task uses it, the delays of the backoff.
- Keeper: the waits a rate-limiting server asks for.
- Stream: the typing guard, rendering, code fences, mentions.
- Rooms: room encryption; which of several rooms is the most active is a choice.
- Transport: edits, media up- and download, the socket server; a request that arrives
  after the next attempt at its chunk was made, or after its command ended (here it
  lands before, or never).
- Orchestrator: `list`, `tail_log`, mounts and environment of a container.
- Two messages of work with one timestamp, and two rooms under the shared
  watermark (`InboundWatermarks::for_room`). The code drops the second of them
  when a sync response has the newer first; `Drop` models it, but the instances
  keep to rooms with distinct times and one room per watermark, so `NothingLost`
  says nothing of those cases.
- A homeserver whose timestamps go backwards (`Post` follows the clock).

