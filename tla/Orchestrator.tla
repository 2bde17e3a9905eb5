---------------------------- MODULE Orchestrator ----------------------------
(***************************************************************************)
(* The container manager (aqua-matrix-orchestrator lib.rs): spawn, replace   *)
(* and stop of agent containers through podman.  Callers share one manager;  *)
(* a verb holds the session map's lock only for the moment it reads or       *)
(* changes the map, so verbs on one id interleave at every await, and podman *)
(* calls fail, agents crash and are restarted, the manager's process and the *)
(* host restart.                                                            *)
(*                                                                          *)
(* An instance's identity is the DID its agent mints when the persistent     *)
(* volume is empty.  DIDs, containers and seconds are numbers.               *)
(***************************************************************************)
EXTENDS Integers, FiniteSets

CONSTANTS
    Ids,         \* instance ids
    Callers,     \* tasks that call the manager
    MaxBoxes,    \* containers ever created, a bound
    MaxDids,     \* identities ever minted, a bound
    MaxSeconds,  \* the last second of the clock, a bound
    MaxVerbs,    \* verbs called, a bound
    FaultSets    \* what may fail: subsets of {"token", "create", "start", "halt",
                 \* "remove", "wipe", "manager", "host"}, one chosen at the start

ASSUME OrchestratorAssumption ==
    /\ IsFiniteSet(Ids) /\ IsFiniteSet(Callers)
    /\ {MaxBoxes, MaxDids, MaxSeconds, MaxVerbs} \subseteq Nat

VARIABLES
    faults,   \* the faults of this behaviour
    boxes,    \* podman's containers: number -> record, by number
    volume,   \* persist/store of each id: the DID in it, 0 when empty
    sessions, \* ContainerManager::sessions: id -> record or NoSession
    logs,     \* <sessions>/<id>/<second>/agent.log: the first DID in it, or 0
    now,      \* unix_now_secs
    op,       \* what each caller is doing
    minted, made, verbs, \* how much of each bound is used
    begun, shared \* id and second in which a spawn began, and a second one did

used == <<minted, made, verbs>>
seen == <<begun, shared>>
vars == <<faults, boxes, volume, sessions, logs, now, op, used, seen>>

Seconds == 1 .. MaxSeconds
NoSession == [cid |-> 0, did |-> 0, ts |-> 0]
Idle == [verb |-> "none", id |-> "none", pc |-> "idle", cid |-> 0, ts |-> 0, did |-> 0, was |-> 0]

Named(id) == {c \in DOMAIN boxes : boxes[c].id = id}
MayFail(f) == f \in faults

Go(t, k) == op' = [op EXCEPT ![t] = k]
\* the call returns; a caller does not keep what it returned
Return(t) == Go(t, Idle)

(***************************************************************************)
(* spawn.                                                                   *)
(***************************************************************************)
\* the directory of this incarnation's config and log
LogPerInstance(id, second) == <<id, 1>>
LogDir(id, second) == <<id, second>>

\* spawn: the directories, then resolve_auth_secret; without a token it ends
Prepare(t) ==
    LET id == op[t].id
        dir == LogDir(id, now) IN
    /\ op[t].pc = "prepare"
    /\ begun' = begun \cup {<<id, now>>}
    /\ shared' = shared \cup ({<<id, now>>} \cap begun)
    /\ logs' = [d \in DOMAIN logs \cup {dir} |-> IF d \in DOMAIN logs THEN logs[d] ELSE 0]
    /\ \/ Go(t, [op[t] EXCEPT !.pc = "create", !.ts = now])
       \/ MayFail("token") /\ Return(t)
    /\ UNCHANGED <<faults, boxes, volume, sessions, now, used>>

\* create_container: podman refuses a name that is taken
CreateContainer(t) ==
    LET id == op[t].id
        c == made + 1 IN
    /\ op[t].pc = "create"
    /\ \/ /\ Named(id) = {} /\ made < MaxBoxes
          /\ made' = c
          /\ boxes' = [d \in DOMAIN boxes \cup {c} |-> IF d # c THEN boxes[d] ELSE
                         [id |-> id, on |-> FALSE, dids |-> {}, dir |-> LogDir(id, op[t].ts),
                          followed |-> FALSE]]
          /\ Go(t, [op[t] EXCEPT !.pc = "start", !.cid = c])
       \/ /\ Named(id) # {} \/ MayFail("create") \/ made = MaxBoxes
          /\ Return(t) /\ UNCHANGED <<boxes, made>>
    /\ UNCHANGED <<faults, volume, sessions, logs, now, minted, verbs, seen>>

\* start_container; a failed start leaves the created container and its name
StartContainer(t) ==
    /\ op[t].pc = "start"
    /\ \/ /\ boxes' = [boxes EXCEPT ![op[t].cid].on = TRUE]
          /\ Go(t, [op[t] EXCEPT !.pc = "discover"])
       \/ MayFail("start") /\ Return(t) /\ UNCHANGED boxes
    /\ UNCHANGED <<faults, volume, sessions, logs, now, used, seen>>

\* start_log_capture: the follower copies the container's output from its start
Follow(t) ==
    /\ op[t].pc = "discover" /\ op[t].cid \in DOMAIN boxes
    /\ ~boxes[op[t].cid].followed
    /\ boxes' = [boxes EXCEPT ![op[t].cid].followed = TRUE]
    /\ UNCHANGED <<faults, volume, sessions, logs, now, op, used, seen>>

\* discover_did: the first DID in the log, or none at the deadline
Discover(t) ==
    /\ op[t].pc = "discover" /\ op[t].cid \in DOMAIN boxes /\ boxes[op[t].cid].followed
    /\ \E did \in {0, logs[LogDir(op[t].id, op[t].ts)]} :
         Go(t, [op[t] EXCEPT !.pc = "insert", !.did = did])
    /\ UNCHANGED <<faults, boxes, volume, sessions, logs, now, used, seen>>

\* the session enters the map last
InsertSession(t) ==
    /\ op[t].pc = "insert"
    /\ sessions' = [sessions EXCEPT ![op[t].id] =
                      [cid |-> op[t].cid, did |-> op[t].did, ts |-> op[t].ts]]
    /\ Return(t)
    /\ UNCHANGED <<faults, boxes, volume, logs, now, used, seen>>

(***************************************************************************)
(* stop and replace.                                                        *)
(***************************************************************************)
TakeOutKeeps(t) ==
    LET id == op[t].id IN
    /\ op[t].pc = "take"
    /\ IF sessions[id] = NoSession THEN Return(t)
       ELSE Go(t, [op[t] EXCEPT !.pc = "halt", !.cid = sessions[id].cid])
    /\ UNCHANGED <<faults, boxes, volume, sessions, logs, now, used, seen>>
\* stop: the session leaves the map first
TakeOut(t) ==
    LET id == op[t].id IN
    /\ op[t].pc = "take"
    /\ IF sessions[id] = NoSession THEN Return(t) /\ UNCHANGED sessions
       ELSE /\ sessions' = [sessions EXCEPT ![id] = NoSession]
            /\ Go(t, [op[t] EXCEPT !.pc = "halt", !.cid = sessions[id].cid])
    /\ UNCHANGED <<faults, boxes, volume, logs, now, used, seen>>

\* stop_container, whose failure is logged and passed over, and the drain
Halt(t) ==
    /\ op[t].pc = "halt"
    /\ \/ boxes' = [boxes EXCEPT ![op[t].cid].on = FALSE]
       \/ MayFail("halt") /\ UNCHANGED boxes
    /\ Go(t, [op[t] EXCEPT !.pc = "remove"])
    /\ UNCHANGED <<faults, volume, sessions, logs, now, used, seen>>

\* remove_container, forced: its failure ends the verb
RemoveContainer(t) ==
    /\ op[t].pc = "remove"
    /\ \/ /\ boxes' = [c \in DOMAIN boxes \ {op[t].cid} |-> boxes[c]]
          /\ IF op[t].verb = "replace" THEN Go(t, [op[t] EXCEPT !.pc = "wipe", !.cid = 0]) ELSE Return(t)
       \/ MayFail("remove") /\ Return(t) /\ UNCHANGED boxes
    /\ UNCHANGED <<faults, volume, sessions, logs, now, used, seen>>

WipeIgnored(t) ==
    /\ op[t].pc = "wipe"
    /\ volume' \in {[volume EXCEPT ![op[t].id] = 0], volume}
    /\ Go(t, [op[t] EXCEPT !.pc = "prepare"])
    /\ UNCHANGED <<faults, boxes, sessions, logs, now, used, seen>>
\* wipe_persist: the one place an identity is reset
Wipe(t) ==
    /\ op[t].pc = "wipe"
    /\ \/ volume' = [volume EXCEPT ![op[t].id] = 0] /\ Go(t, [op[t] EXCEPT !.pc = "prepare"])
       \/ MayFail("wipe") /\ Return(t) /\ UNCHANGED volume
    /\ UNCHANGED <<faults, boxes, sessions, logs, now, used, seen>>

\* a verb begins; replace copies the spec of a session it finds
Call(t, verb, id) ==
    /\ op[t] = Idle /\ verbs < MaxVerbs
    /\ verb = "replace" => sessions[id] # NoSession
    /\ verbs' = verbs + 1
    /\ Go(t, [Idle EXCEPT !.verb = verb, !.id = id, !.was = volume[id],
                          !.pc = IF verb = "spawn" THEN "prepare" ELSE "take"])
    /\ UNCHANGED <<faults, boxes, volume, sessions, logs, now, minted, made, seen>>

(***************************************************************************)
(* The containers, the clock and the restarts.                              *)
(***************************************************************************)
\* the agent comes up, first or after a crash podman restarts it from: it takes
\* the identity in the volume or mints one, and logs it
AgentUp(c) ==
    LET b == boxes[c]
        did == IF volume[b.id] = 0 THEN minted + 1 ELSE volume[b.id] IN
    /\ b.on /\ (volume[b.id] = 0 => minted < MaxDids)
    /\ did \notin b.dids \/ (b.followed /\ logs[b.dir] = 0)
    /\ minted' = IF volume[b.id] = 0 THEN minted + 1 ELSE minted
    /\ volume' = [volume EXCEPT ![b.id] = did]
    /\ boxes' = [boxes EXCEPT ![c].dids = @ \cup {did}]
    /\ logs' = IF b.followed /\ logs[b.dir] = 0 THEN [logs EXCEPT ![b.dir] = did] ELSE logs
    /\ UNCHANGED <<faults, sessions, now, op, made, verbs, seen>>

Tick ==
    /\ now < MaxSeconds /\ now' = now + 1
    /\ UNCHANGED <<faults, boxes, volume, sessions, logs, op, used, seen>>

\* the manager's process restarts: its map and its verbs are gone
ManagerRestarts ==
    /\ MayFail("manager") \/ MayFail("host")
    /\ sessions # [id \in Ids |-> NoSession] \/ \E t \in Callers : op[t] # Idle
    /\ sessions' = [id \in Ids |-> NoSession]
    /\ op' = [t \in Callers |-> Idle]
    /\ boxes' = [c \in DOMAIN boxes |->
                   [boxes[c] EXCEPT !.followed = FALSE, !.on = @ /\ ~MayFail("host")]]
    /\ UNCHANGED <<faults, volume, logs, now, used, seen>>

Init ==
    /\ faults \in FaultSets
    /\ boxes = <<>> /\ logs = <<>>
    /\ volume = [id \in Ids |-> 0]
    /\ sessions = [id \in Ids |-> NoSession]
    /\ now = 1
    /\ op = [t \in Callers |-> Idle]
    /\ minted = 0 /\ made = 0 /\ verbs = 0 /\ begun = {} /\ shared = {}

Verb(t) == Prepare(t) \/ CreateContainer(t) \/ StartContainer(t) \/ Follow(t) \/ Discover(t)
           \/ InsertSession(t) \/ TakeOut(t) \/ Halt(t) \/ RemoveContainer(t) \/ Wipe(t)

Next ==
    \/ \E t \in Callers : \/ Verb(t)
                          \/ \E verb \in {"spawn", "replace", "stop"}, id \in Ids : Call(t, verb, id)
    \/ \E c \in DOMAIN boxes : AgentUp(c)
    \/ Tick \/ ManagerRestarts

Spec == Init /\ [][Next]_vars

(* Properties. *)

Dids == 0 .. MaxDids
Stages == {"idle", "prepare", "create", "start", "discover", "insert",
           "take", "halt", "remove", "wipe"}
Places == [verb : {"none", "spawn", "replace", "stop"}, id : Ids \cup {"none"},
           pc : Stages, cid : 0 .. MaxBoxes, ts : Nat, did : Dids, was : Dids]
Box == [id : Ids, on : BOOLEAN, dids : SUBSET Dids, dir : Ids \X Nat, followed : BOOLEAN]

\* Podman's containers are among those ever created, and an incarnation that is being
\* started has its log directory.
TypeOK ==
    /\ faults \in FaultSets
    /\ made \in 0 .. MaxBoxes /\ minted \in Dids /\ verbs \in 0 .. MaxVerbs /\ now \in Nat
    /\ DOMAIN boxes \subseteq 1 .. made
    /\ boxes \in [DOMAIN boxes -> Box]
    /\ volume \in [Ids -> Dids]
    /\ sessions \in [Ids -> [cid : 0 .. MaxBoxes, did : Dids, ts : Nat]]
    /\ DOMAIN logs \subseteq Ids \X Nat /\ logs \in [DOMAIN logs -> Dids]
    /\ op \in [Callers -> Places]
    /\ \A t \in Callers :
         /\ op[t].pc # "idle" => op[t].id \in Ids
         /\ op[t].pc \in {"create", "start", "discover"} => <<op[t].id, op[t].ts>> \in DOMAIN logs
    /\ begun \subseteq Ids \X Nat /\ shared \subseteq begun

\* Every session in the map has its container: a verb that fails or loses a
\* race with another on the same id, between its podman calls, leaves no entry
\* for a container that was never created or is already removed.
SessionHasContainer ==
    \A id \in Ids : sessions[id] # NoSession =>
        sessions[id].cid \in DOMAIN boxes /\ boxes[sessions[id].cid].id = id

\* The DID a session reports is one its own container logged, not one of the
\* incarnation before (SessionInfo::did, scan_agent_did), except where two
\* incarnations of an id began in the same second and share a log.
ReportedDidIsOwn ==
    \A id \in Ids : LET s == sessions[id] IN
        s # NoSession /\ s.did # 0 /\ <<id, s.ts>> \notin shared =>
            s.did \in boxes[s.cid].dids

\* A replace that returns a session has reset the identity: the container in it
\* never took up the DID its id had when replace was called, whatever other
\* verbs, crashes and failures came between (replace, wipe_persist).
ReplaceResets ==
    \A t \in Callers : op[t].pc = "insert" /\ op[t].verb = "replace" /\ op[t].was # 0 =>
        op[t].was \notin boxes[op[t].cid].dids

\* "a podman hiccup must not leave the session half-tracked" (stop): with no
\* verb under way and the manager's process never restarted, every container
\* has its session.
NothingHalfTracked ==
    (\A t \in Callers : op[t] = Idle) => \A c \in DOMAIN boxes : sessions[boxes[c].id].cid = c
=============================================================================
