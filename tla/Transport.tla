------------------------------ MODULE Transport ------------------------------
(***************************************************************************)
(* How the sends and fetches of the messenger engine reach the one live    *)
(* Matrix client.                                                          *)
(*                                                                         *)
(* The host daemon (src/crates/aqua-system-bridged/src: bridge.rs          *)
(* QueueTransport, matrix.rs run, run_cycle, execute) puts commands into a *)
(* queue; its loop connects, runs them one at a time in the cycle of a     *)
(* client, and connects again before the token expires.  A command whose   *)
(* token is rejected is carried into the next cycle.  An agent that embeds *)
(* the messenger (src/crates/aqua-messenger-matrix/src/inproc.rs           *)
(* LiveClient) has its own client lent between attach and detach, and runs *)
(* operations on it side by side.                                          *)
(*                                                                         *)
(* Inside either, the connector sends each chunk of a text until it is     *)
(* acknowledged, a few times at most (src/crates/aqua-matrix-agent/src/     *)
(* lib.rs retry_finalize).  A request may arrive and its answer be lost;   *)
(* it arrives before the next one is made, or never.                       *)
(*                                                                         *)
(* Time is left out: a deadline that is set may pass at any later moment.  *)
(***************************************************************************)
EXTENDS Naturals, Sequences, FiniteSets

CONSTANTS
  Cmds,        \* the calls of the engine, each one command
  None,
  Scenarios,   \* which transport, the commands that are texts of two chunks, and those
               \* that are files, which are sent in one attempt
  MaxAttempts, \* FINALIZE_MAX_ATTEMPTS
  QueueCap,    \* capacity of the command channel
  MaxClients   \* bound: clients built

Kind == {"queue", "live"}

ASSUME TransportAssumption ==
  /\ Scenarios \subseteq [kind : Kind, long : SUBSET Cmds, file : SUBSET Cmds]
  /\ None \notin Cmds
  /\ {QueueCap, MaxAttempts} \subseteq Nat \ {0} /\ MaxClients \in Nat

VARIABLES
  scenario,
  cmd,      \* where each command is, its deadline, the client it runs on, its next chunk
            \* and the attempt at it
  told,     \* what each caller was answered
  queue,    \* the channel
  carry,    \* the command that hit M_UNKNOWN_TOKEN
  loop,     \* the Matrix loop: connecting, in a cycle, detaching (live), or stopped
  client,   \* the live client, 0 for none; the number of clients built
  built,
  token,    \* the token of the live client is good
  pushed,   \* history: the commands in the order the channel took them
  room      \* history: the chunks that arrived, and whether the sender heard of it

vars == <<scenario, cmd, told, queue, carry, loop, client, built, token, pushed, room>>
side == <<loop, client, built, token>>

-----------------------------------------------------------------------------
Place == {"new", "pushing", "queued", "running", "carried", "done"}
Told == {"none", "sent", "failed", "unknown", "deadline", "shutdown", "dropped", "not_running",
         "not_connected", "gone"}

\* The outcomes that say nothing was sent.
Unsent == {"deadline", "shutdown", "dropped", "not_running", "not_connected"}

Is(k) == scenario.kind = k
At(c, p) == cmd[c].at = p
Chunks(c) == IF c \in scenario.long THEN 2 ELSE 1
Attempts(c) == IF c \in scenario.file THEN 1 ELSE MaxAttempts
Running == {c \in Cmds : At(c, "running")}

\* The oneshot of the call: a caller that gave up hears nothing more.
Reply(c, outcome) == told' = [told EXCEPT ![c] = IF @ = "none" THEN outcome ELSE @]
New == [at |-> "new", late |-> FALSE, on |-> 0, chunk |-> 1, try |-> 1]
Over == [New EXCEPT !.at = "done"]
Ends(c, outcome) == cmd' = [cmd EXCEPT ![c] = Over] /\ Reply(c, outcome)

Init ==
  /\ scenario \in Scenarios
  /\ cmd = [c \in Cmds |-> New]
  /\ told = [c \in Cmds |-> "none"]
  /\ queue = <<>> /\ carry = None
  /\ loop = "connecting" /\ client = 0 /\ built = 0 /\ token = FALSE
  /\ pushed = <<>> /\ room = <<>>

-----------------------------------------------------------------------------
(* Callers: QueueTransport::run *)

Call(c) ==
  /\ Is("queue") /\ At(c, "new")
  /\ cmd' = [cmd EXCEPT ![c].at = "pushing"]
  /\ UNCHANGED <<scenario, told, queue, carry, side, pushed, room>>

\* The channel takes the command once there is room; the wait for that has no limit.
Push(c) ==
  /\ Is("queue") /\ At(c, "pushing") /\ loop # "stopped" /\ Len(queue) < QueueCap
  /\ cmd' = [cmd EXCEPT ![c].at = "queued"]
  /\ queue' = Append(queue, c)
  /\ pushed' = Append(pushed, c)
  /\ UNCHANGED <<scenario, told, carry, side, room>>

PushFails(c) ==
  /\ Is("queue") /\ At(c, "pushing") /\ loop = "stopped"
  /\ Ends(c, "not_running")
  /\ UNCHANGED <<scenario, queue, carry, side, pushed, room>>

\* Slip: the deadline counts the time in cycles only.
PassesInCycle(c) ==
  /\ Is("queue") /\ loop = "cycle"
  /\ cmd[c].at \in {"queued", "running"} /\ ~cmd[c].late
  /\ cmd' = [cmd EXCEPT ![c].late = TRUE]
  /\ UNCHANGED <<scenario, told, queue, carry, side, pushed, room>>

\* SEND_DEADLINE, counted from the call.
Passes(c) ==
  /\ Is("queue") /\ cmd[c].at \in {"pushing", "queued", "running", "carried"} /\ ~cmd[c].late
  /\ cmd' = [cmd EXCEPT ![c].late = TRUE]
  /\ UNCHANGED <<scenario, told, queue, carry, side, pushed, room>>

\* The caller waits ten seconds longer; the command stays where it is.
GivesUp(c) ==
  /\ Is("queue") /\ cmd[c].at \in {"queued", "running", "carried"} /\ cmd[c].late /\ told[c] = "none"
  /\ Reply(c, "unknown")
  /\ UNCHANGED <<scenario, cmd, queue, carry, side, pushed, room>>

-----------------------------------------------------------------------------
(* The loop: run, run_cycle *)

\* connect_with_outage_retry returns a client, and the cycle starts.
Connect ==
  /\ Is("queue") /\ loop = "connecting" /\ built < MaxClients
  /\ loop' = "cycle" /\ built' = built + 1 /\ client' = built + 1 /\ token' = TRUE
  /\ UNCHANGED <<scenario, cmd, told, queue, carry, pushed, room>>

\* Slip: a command past its deadline is answered and executed.
StartLate(c) ==
  /\ cmd' = [cmd EXCEPT ![c].at = "running", ![c].on = client]
  /\ IF cmd[c].late THEN Reply(c, "deadline") ELSE UNCHANGED told

\* execute: a command past its deadline is answered unexecuted.
Start(c) ==
  IF cmd[c].late THEN Ends(c, "deadline")
  ELSE /\ cmd' = [cmd EXCEPT ![c].at = "running", ![c].on = client]
       /\ UNCHANGED told

\* Slip: the carried command waits for the queue to be empty.
QueueFirst == IF queue # <<>> THEN Head(queue) ELSE carry

\* The carried command comes before anything that is queued.
Mine == IF carry # None THEN carry ELSE IF queue # <<>> THEN Head(queue) ELSE None

Execute ==
  /\ Is("queue") /\ loop = "cycle" /\ Running = {} /\ Mine # None
  /\ Start(Mine)
  /\ carry' = IF Mine = carry THEN None ELSE carry
  /\ queue' = IF Mine = carry THEN queue ELSE Tail(queue)
  /\ UNCHANGED <<scenario, side, pushed, room>>

\* Sync ended, or the token is about to expire.
CycleEnds ==
  /\ Is("queue") /\ loop = "cycle" /\ Running = {}
  /\ loop' = "connecting" /\ client' = 0 /\ token' = FALSE
  /\ UNCHANGED <<scenario, cmd, told, queue, carry, built, pushed, room>>

\* What is waiting in the loop when it ends: the carried command is told after a cycle,
\* and dropped like the queue while connecting; commands that still wait for the channel
\* find it closed.
Stops(outcome, rest) ==
  /\ loop' = "stopped" /\ client' = 0 /\ token' = FALSE /\ UNCHANGED built
  /\ told' = [c \in Cmds |-> IF told[c] # "none" THEN told[c]
                             ELSE IF c = carry THEN outcome
                             ELSE IF cmd[c].at = "queued" THEN rest ELSE told[c]]
  /\ cmd' = [c \in Cmds |-> IF cmd[c].at \in {"queued", "carried"} THEN Over ELSE cmd[c]]
  /\ queue' = <<>> /\ carry' = None
  /\ UNCHANGED <<scenario, pushed, room>>

Shutdown ==
  /\ Is("queue") /\ Running = {}
  /\ \/ loop = "cycle" /\ Stops("shutdown", "dropped")
     \/ loop = "connecting" /\ Stops("dropped", "dropped")

\* Too many refused connects: the process exits, and the callers' sockets close.
Fatal ==
  /\ Is("queue") /\ loop = "connecting"
  /\ Stops("gone", "gone")

TokenDies ==
  /\ token
  /\ token' = FALSE
  /\ UNCHANGED <<scenario, cmd, told, queue, carry, loop, client, built, pushed, room>>

-----------------------------------------------------------------------------
(* An operation on the client: the requests of execute, and of LiveClient *)

Arrives(c, heard) == room' = Append(room, <<c, cmd[c].chunk, heard>>)

\* A request that is not answered may have arrived.
Unanswered(c) == (token /\ Arrives(c, FALSE)) \/ UNCHANGED room

\* A chunk is acknowledged; the last one ends the send.
Send(c) ==
  /\ At(c, "running") /\ token
  /\ Arrives(c, TRUE)
  /\ IF cmd[c].chunk = Chunks(c) THEN Ends(c, "sent")
     ELSE cmd' = [cmd EXCEPT ![c].chunk = @ + 1, ![c].try = 1] /\ UNCHANGED told
  /\ UNCHANGED <<scenario, queue, carry, side, pushed>>

\* retry_finalize: after any failure but a rejected token the chunk is sent anew.
Retries(c) ==
  /\ At(c, "running") /\ cmd[c].try < Attempts(c)
  /\ Unanswered(c)
  /\ cmd' = [cmd EXCEPT ![c].try = @ + 1]
  /\ UNCHANGED <<scenario, told, queue, carry, side, pushed>>

\* The last attempt fails; or the room, or the message it answers, cannot be resolved.
Fails(c) ==
  /\ At(c, "running")
  /\ \/ cmd[c].try = Attempts(c) /\ Unanswered(c)
     \/ cmd[c].chunk = 1 /\ cmd[c].try = 1 /\ UNCHANGED room
  /\ Ends(c, "failed")
  /\ UNCHANGED <<scenario, queue, carry, side, pushed>>

\* SEND_ATTEMPT_TIMEOUT, SEND_TIMEOUT: the time for all attempts is over.
TimesOut(c) ==
  /\ At(c, "running")
  /\ Unanswered(c)
  /\ Ends(c, "unknown")
  /\ UNCHANGED <<scenario, queue, carry, side, pushed>>

\* The command is sent again as a whole.
Carries(c) ==
  /\ cmd' = [cmd EXCEPT ![c] = [@ EXCEPT !.at = "carried", !.on = 0, !.chunk = 1, !.try = 1]]
  /\ carry' = c
  /\ UNCHANGED <<told, queue>>

\* M_UNKNOWN_TOKEN, at any attempt: the daemon carries the command and ends the cycle.
Rejected(c) ==
  /\ At(c, "running") /\ ~token
  /\ \/ /\ Is("queue") /\ Carries(c)
        /\ loop' = "connecting" /\ client' = 0
     \/ Is("live") /\ Ends(c, "failed") /\ UNCHANGED <<queue, carry, loop, client>>
  /\ UNCHANGED <<scenario, built, token, pushed, room>>

-----------------------------------------------------------------------------
(* The embedding agent: LiveClient, AgentMessenger *)

Attach ==
  /\ Is("live") /\ client = 0 /\ built < MaxClients
  /\ built' = built + 1 /\ client' = built + 1 /\ token' = TRUE /\ loop' = "cycle"
  /\ UNCHANGED <<scenario, cmd, told, queue, carry, pushed, room>>

\* An operation takes the read lock, unless a detach is waiting for its turn.
LiveCall(c) ==
  /\ Is("live") /\ At(c, "new") /\ loop # "detaching"
  /\ IF client = 0 THEN Ends(c, "not_connected")
     ELSE cmd' = [cmd EXCEPT ![c].at = "running", ![c].on = client] /\ UNCHANGED told
  /\ UNCHANGED <<scenario, queue, carry, side, pushed, room>>

AskDetach ==
  /\ Is("live") /\ loop = "cycle"
  /\ loop' = "detaching"
  /\ UNCHANGED <<scenario, cmd, told, queue, carry, client, built, token, pushed, room>>

\* Slip: detach waits for nobody.
AtOnce == TRUE

\* detach has the write lock: nobody reads any more.
Unused == Running = {}

Detach ==
  /\ Is("live") /\ loop = "detaching" /\ Unused
  /\ loop' = "connecting" /\ client' = 0 /\ token' = FALSE
  /\ UNCHANGED <<scenario, cmd, told, queue, carry, built, pushed, room>>

-----------------------------------------------------------------------------
Next ==
  \/ Connect \/ Execute \/ CycleEnds \/ Shutdown \/ Fatal \/ TokenDies \/ Attach \/ AskDetach \/ Detach
  \/ \E c \in Cmds :
       \/ Call(c) \/ Push(c) \/ PushFails(c) \/ Passes(c) \/ GivesUp(c)
       \/ Send(c) \/ Retries(c) \/ Fails(c) \/ TimesOut(c) \/ Rejected(c) \/ LiveCall(c)

Spec == Init /\ [][Next]_vars

\* Timers fire.  The homeserver may stay away for good: nothing is assumed of Connect.
Fairness == \A c \in Cmds : WF_vars(Passes(c)) /\ WF_vars(GivesUp(c)) /\ WF_vars(TimesOut(c))
FairSpec == Spec /\ Fairness

-----------------------------------------------------------------------------
(* Properties *)

TypeOK ==
  /\ scenario \in Scenarios
  /\ cmd \in [Cmds -> [at : Place, late : BOOLEAN, on : 0..MaxClients, chunk : 1..2,
                   try : 1..MaxAttempts]]
  /\ told \in [Cmds -> Told]
  /\ queue \in Seq(Cmds) /\ Len(queue) <= QueueCap
  /\ carry \in Cmds \cup {None}
  /\ carry # None => At(carry, "carried")
  /\ loop \in {"connecting", "cycle", "detaching", "stopped"}
  /\ built \in 0..MaxClients /\ client \in {0, built} /\ token \in BOOLEAN
  /\ pushed \in Seq(Cmds) /\ room \in Seq(Cmds \X (1..2) \X BOOLEAN)

\* What the engine is told, as SendPromise names it, and where a send arrived whole.
Word(o) == IF o \in Unsent THEN "not_sent" ELSE IF o \in {"none", "sent"} THEN o ELSE "unknown"
Whole(c) == {i \in DOMAIN room : room[i][1] = c /\ room[i][2] = Chunks(c)}
Unheard(c) == {i \in Whole(c) : ~room[i][3]}

Promise == INSTANCE SendPromise WITH told <- [c \in Cmds |-> Word(told[c])],
                                     delivered <- [c \in Cmds |-> Cardinality(Whole(c))],
                                     unheard <- [c \in Cmds |-> Cardinality(Unheard(c))]

\* Both transports keep the promise over retries, rejected tokens, carried commands, deadlines
\* that pass anywhere, callers that give up and a loop that stops: a send whose delivery was
\* acknowledged is never delivered again nor reported unsent, and one that was reported unsent
\* is not delivered later.
KeepsPromise == Promise!Spec

\* The daemon's sends arrive in the order the channel took them, also when a rejected token
\* sends one of them into the next cycle.
ArriveInOrder ==
  Is("queue") =>
    \A i, j \in DOMAIN room : i < j =>
      \E k, l \in DOMAIN pushed : k <= l /\ pushed[k] = room[i][1] /\ pushed[l] = room[j][1]

\* No operation is on a client that has been given back or replaced (one Client per crypto
\* store): detach waits for the readers, and the loop runs commands inline.
OneClient == \A c \in Running : client # 0 /\ cmd[c].on = client

\* A caller whose command is in the channel is answered, even if Matrix never comes back.
CallerTold == \A c \in Cmds : cmd[c].at \in {"queued", "running", "carried"} ~> told[c] # "none"

\* What execute answers a command past its deadline, "not sent": no part of it arrived.  The
\* code does not keep it: an answer was lost or the token died between two chunks, and the
\* command was carried until its deadline.
UnsentMeansNothing == \A c \in Cmds : told[c] \in Unsent => \A i \in DOMAIN room : room[i][1] # c

\* retry_finalize's "a failed attempt means nothing landed": no send is delivered twice.  The
\* code does not keep it when an answer is lost.
DeliveredOnce == \A c \in Cmds : Cardinality(Whole(c)) <= 1
=============================================================================
