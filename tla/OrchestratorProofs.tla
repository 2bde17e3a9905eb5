------------------------- MODULE OrchestratorProofs -------------------------
(***************************************************************************)
(* No session without its container, and none that reports a DID of        *)
(* another one, for any number of instances, callers and containers, under *)
(* every failure and restart of Orchestrator.  Below it, of Rooms: which   *)
(* room a message to a person ends in, for any set of rooms and scenarios. *)
(***************************************************************************)
EXTENDS Orchestrator, Rooms, FiniteSetTheorems, WellFoundedInduction, TLAPS

\* The awaits at which a verb has a container in hand.
Holds(t) == op[t].pc \in {"start", "discover", "insert", "halt", "remove"}
Listed(id) == sessions[id] # NoSession

\* podman has one container of a name.
Names == \A c, d \in DOMAIN boxes : boxes[c].id = boxes[d].id => c = d

\* A container in hand is there and is the instance's.
InHand == \A t \in Callers : Holds(t) =>
    op[t].cid \in DOMAIN boxes /\ boxes[op[t].cid].id = op[t].id

\* It is in one pair of hands, and no longer or not yet in the map: who removes it takes
\* it from nobody.
OneHand ==
    /\ \A t, u \in Callers : Holds(t) /\ Holds(u) /\ op[t].cid = op[u].cid => t = u
    /\ \A t \in Callers, id \in Ids : Holds(t) /\ Listed(id) => sessions[id].cid # op[t].cid

Custody == TypeOK /\ Names /\ InHand /\ OneHand /\ SessionHasContainer

-----------------------------------------------------------------------------
(* Types *)

\* The part of the types that speaks of op.
OpTyped ==
    /\ op \in [Callers -> Places]
    /\ \A t \in Callers :
         /\ op[t].pc # "idle" => op[t].id \in Ids
         /\ op[t].pc \in {"create", "start", "discover"} => <<op[t].id, op[t].ts>> \in DOMAIN logs

LEMMA IdleTyped == Idle \in Places /\ Idle.pc = "idle"
BY OrchestratorAssumption DEF OrchestratorAssumption, Idle, Places, Stages, Dids

LEMMA InitTypes == Init => TypeOK
<1> SUFFICES ASSUME Init PROVE TypeOK
  OBVIOUS
<1> USE OrchestratorAssumption DEF OrchestratorAssumption, Init
<1>1. boxes \in [DOMAIN boxes -> Box] /\ DOMAIN boxes = {}
  BY DEF Box
<1>2. logs \in [DOMAIN logs -> Dids] /\ DOMAIN logs = {}
  BY DEF Dids
<1>3. op \in [Callers -> Places] /\ \A t \in Callers : op[t].pc = "idle"
  BY IdleTyped
<1>4. sessions \in [Ids -> [cid : 0 .. MaxBoxes, did : Dids, ts : Nat]]
  BY DEF Dids, NoSession
<1> QED
  BY <1>1, <1>2, <1>3, <1>4 DEF TypeOK, Dids

\* What a verb puts into a caller's place is of the type, and what it needs is there.
LEMMA GoTyped ==
  ASSUME OpTyped, NEW t \in Callers, NEW k \in Places, Go(t, k),
         k.pc # "idle" => k.id \in Ids,
         k.pc \in {"create", "start", "discover"} => <<k.id, k.ts>> \in DOMAIN logs',
         DOMAIN logs \subseteq DOMAIN logs'
  PROVE  OpTyped' /\ op'[t] = k /\ \A u \in Callers \ {t} : op'[u] = op[u]
<1>1. op' \in [Callers -> Places] /\ op'[t] = k /\ \A u \in Callers \ {t} : op'[u] = op[u]
  BY DEF OpTyped, Go
<1>2. ASSUME NEW u \in Callers
      PROVE  /\ op'[u].pc # "idle" => op'[u].id \in Ids
             /\ op'[u].pc \in {"create", "start", "discover"} => <<op'[u].id, op'[u].ts>> \in DOMAIN logs'
  <2>1. CASE u = t
    BY <1>1, <2>1
  <2>2. CASE u # t
    BY <1>1, <2>2 DEF OpTyped
  <2> QED
    BY <2>1, <2>2
<1> QED
  BY <1>1, <1>2 DEF OpTyped

\* The same of a call that returns.
LEMMA ReturnTyped ==
  ASSUME OpTyped, NEW t \in Callers, Return(t), DOMAIN logs \subseteq DOMAIN logs'
  PROVE  OpTyped' /\ op'[t] = Idle /\ \A u \in Callers \ {t} : op'[u] = op[u]
BY IdleTyped, GoTyped DEF Return

LEMMA PrepareTypes == ASSUME TypeOK, NEW t \in Callers, Prepare(t) PROVE TypeOK'
<1> DEFINE dir == <<op[t].id, now>>
           k == [op[t] EXCEPT !.pc = "create", !.ts = now]
<1>1. OpTyped /\ op[t] \in Places /\ op[t].id \in Ids /\ now \in Nat /\ op[t].pc = "prepare"
  BY DEF TypeOK, OpTyped, Prepare
<1>2. /\ DOMAIN logs' = DOMAIN logs \cup {dir}
      /\ logs' \in [DOMAIN logs' -> Dids]
      /\ begun' \subseteq Ids \X Nat /\ shared' \subseteq begun'
  BY <1>1, OrchestratorAssumption DEF OrchestratorAssumption, TypeOK, Prepare, LogDir, Dids
<1>3. k \in Places /\ k.pc = "create" /\ k.id = op[t].id /\ k.ts = now
  BY <1>1 DEF Places, Stages
<1>4. Go(t, k) \/ Return(t)
  BY DEF Prepare
<1>5. OpTyped'
  <2> HIDE DEF k
  <2>1. CASE Go(t, k)
    BY <1>1, <1>2, <1>3, <2>1, GoTyped
  <2>2. CASE Return(t)
    BY <1>1, <1>2, <2>2, ReturnTyped
  <2> QED
    BY <1>4, <2>1, <2>2
<1> QED
  BY <1>1, <1>2, <1>5 DEF TypeOK, OpTyped, Prepare, used
\* The step of a verb that goes to one of two places, or returns, and leaves logs alone.
LEMMA StepTyped ==
  ASSUME OpTyped, NEW t \in Callers, NEW k \in Places, Go(t, k) \/ Return(t), logs' = logs,
         k.id \in Ids,
         k.pc \in {"create", "start", "discover"} => <<k.id, k.ts>> \in DOMAIN logs
  PROVE  OpTyped'
BY GoTyped, ReturnTyped

\* A container that is switched on or off stays the container it is.
LEMMA Switched ==
  ASSUME boxes \in [DOMAIN boxes -> Box], NEW c, NEW v \in BOOLEAN,
         boxes' = [boxes EXCEPT ![c].on = v]
  PROVE  /\ DOMAIN boxes' = DOMAIN boxes /\ boxes' \in [DOMAIN boxes -> Box]
         /\ \A d \in DOMAIN boxes : boxes'[d].id = boxes[d].id
<1>1. ASSUME NEW d \in DOMAIN boxes
      PROVE  boxes'[d] \in Box /\ boxes'[d].id = boxes[d].id
  <2>1. boxes[d] \in Box
    OBVIOUS
  <2>2. boxes'[d] = IF d = c THEN [boxes[d] EXCEPT !.on = v] ELSE boxes[d]
    OBVIOUS
  <2> QED
    BY <2>1, <2>2 DEF Box
<1> QED
  BY <1>1

LEMMA VerbTypes == ASSUME TypeOK, NEW t \in Callers, Verb(t) PROVE TypeOK'
<1>1. OpTyped /\ op[t] \in Places /\ (op[t].pc # "idle" => op[t].id \in Ids)
  BY DEF TypeOK, OpTyped
<1>2. CASE Prepare(t)
  BY <1>2, PrepareTypes
<1>3. CASE CreateContainer(t)
  <2> DEFINE k == [op[t] EXCEPT !.pc = "start", !.cid = made + 1]
  <2>1. op[t].id \in Ids /\ <<op[t].id, op[t].ts>> \in DOMAIN logs
    BY <1>1, <1>3 DEF OpTyped, CreateContainer
  <2>2. CASE Go(t, k) /\ made < MaxBoxes /\ made' = made + 1
    <3>1. made + 1 \in 0 .. MaxBoxes
      BY <2>2, OrchestratorAssumption DEF OrchestratorAssumption, TypeOK
    <3>2. k \in Places /\ k.id = op[t].id /\ k.ts = op[t].ts
      BY <1>1, <3>1 DEF Places, Stages
    <3>3. OpTyped'
      <4> HIDE DEF k
      <4> QED
        BY <1>1, <1>3, <2>1, <2>2, <3>2, StepTyped DEF CreateContainer
    <3> QED
      <4>1. DOMAIN boxes' \subseteq 1 .. made' /\ made' \in 0 .. MaxBoxes
            /\ boxes' \in [DOMAIN boxes' -> Box]
        <5>1. /\ op[t].ts \in Nat /\ made \in Nat /\ DOMAIN boxes \subseteq 1 .. made
              /\ \A c \in DOMAIN boxes : boxes[c] \in Box
          BY <1>1, OrchestratorAssumption DEF OrchestratorAssumption, TypeOK, Places
        <5>2. [id |-> op[t].id, on |-> FALSE, dids |-> {}, dir |-> LogDir(op[t].id, op[t].ts),
               followed |-> FALSE] \in Box
          BY <2>1, <5>1 DEF Box, LogDir
        <5>3. boxes' = [d \in DOMAIN boxes \cup {made + 1} |-> IF d # made + 1 THEN boxes[d] ELSE
                 [id |-> op[t].id, on |-> FALSE, dids |-> {}, dir |-> LogDir(op[t].id, op[t].ts),
                  followed |-> FALSE]]
          BY <1>3, <2>2, <5>1 DEF CreateContainer
        <5> QED
          BY <2>2, <5>1, <5>2, <5>3, OrchestratorAssumption DEF OrchestratorAssumption
      <4> QED
        BY <1>3, <3>3, <4>1 DEF CreateContainer, TypeOK, OpTyped, seen
  <2>3. CASE Return(t) /\ UNCHANGED <<boxes, made>>
    BY <1>1, <1>3, <2>3, ReturnTyped DEF CreateContainer, TypeOK, OpTyped, seen
  <2> QED
    BY <1>3, <2>2, <2>3 DEF CreateContainer
<1>4. CASE StartContainer(t)
  <2> DEFINE k == [op[t] EXCEPT !.pc = "discover"]
  <2>1. k \in Places /\ k.id = op[t].id /\ k.ts = op[t].ts
    BY <1>1 DEF Places, Stages
  <2>2. OpTyped'
    <3>1. op[t].id \in Ids /\ <<op[t].id, op[t].ts>> \in DOMAIN logs /\ logs' = logs
          /\ (Go(t, k) \/ Return(t))
      BY <1>1, <1>4 DEF OpTyped, StartContainer
    <3> HIDE DEF k
    <3> QED
      BY <1>1, <2>1, <3>1, StepTyped
  <2>3. DOMAIN boxes' = DOMAIN boxes /\ boxes' \in [DOMAIN boxes -> Box]
    <3>1. boxes \in [DOMAIN boxes -> Box]
      BY DEF TypeOK
    <3> QED
      BY <1>4, <3>1, Switched DEF StartContainer
  <2> QED
    BY <1>4, <2>2, <2>3 DEF StartContainer, TypeOK, OpTyped, used, seen
<1>5. CASE Follow(t)
  <2>1. DOMAIN boxes' = DOMAIN boxes /\ boxes' \in [DOMAIN boxes -> Box]
    <3>1. boxes \in [DOMAIN boxes -> Box] /\ op[t].cid \in DOMAIN boxes
      BY <1>5 DEF TypeOK, Follow
    <3>2. PICK b : b = [boxes[op[t].cid] EXCEPT !.followed = TRUE] OBVIOUS
    <3>3. b \in Box BY <3>1, <3>2 DEF Box
    <3>4. boxes' = [boxes EXCEPT ![op[t].cid] = b] BY <1>5, <3>2 DEF Follow
    <3> QED BY <3>1, <3>3, <3>4
  <2> QED
    BY <1>5, <2>1 DEF Follow, TypeOK, used, seen
<1>6. CASE Discover(t)
  <2>1. PICK did \in {0, logs[LogDir(op[t].id, op[t].ts)]} :
          Go(t, [op[t] EXCEPT !.pc = "insert", !.did = did])
    BY <1>6 DEF Discover
  <2> DEFINE k == [op[t] EXCEPT !.pc = "insert", !.did = did]
  <2>2. op[t].id \in Ids /\ <<op[t].id, op[t].ts>> \in DOMAIN logs
    BY <1>1, <1>6 DEF OpTyped, Discover
  <2>3. did \in Dids
    BY <2>1, <2>2, OrchestratorAssumption DEF OrchestratorAssumption, TypeOK, LogDir, Dids
  <2>4. k \in Places /\ k.id = op[t].id /\ k.pc = "insert"
    BY <1>1, <2>3 DEF Places, Stages
  <2>5. OpTyped'
    <3> HIDE DEF k
    <3>1. logs' = logs /\ (Go(t, k) \/ Return(t))
      BY <1>6, <2>1 DEF Discover, k
    <3> QED
      BY <1>1, <2>2, <2>4, <3>1, StepTyped
  <2> QED
    BY <1>6, <2>5 DEF Discover, TypeOK, OpTyped, used, seen
<1>7. CASE InsertSession(t)
  <2>1. OpTyped'
    BY <1>1, <1>7, ReturnTyped DEF InsertSession
  <2>2. sessions' \in [Ids -> [cid : 0 .. MaxBoxes, did : Dids, ts : Nat]]
    BY <1>1, <1>7 DEF InsertSession, TypeOK, Places
  <2> QED
    BY <1>7, <2>1, <2>2 DEF InsertSession, TypeOK, OpTyped, used, seen
<1>8. CASE TakeOut(t)
  <2> DEFINE k == [op[t] EXCEPT !.pc = "halt", !.cid = sessions[op[t].id].cid]
  <2>1. op[t].id \in Ids
    BY <1>1, <1>8 DEF TakeOut
  <2>2. k \in Places /\ k.id = op[t].id /\ k.pc = "halt"
    BY <1>1, <2>1 DEF TypeOK, Places, Stages
  <2>3. OpTyped'
    <3>1. logs' = logs /\ (Go(t, k) \/ Return(t))
      BY <1>8 DEF TakeOut
    <3> HIDE DEF k
    <3> QED
      BY <1>1, <2>1, <2>2, <3>1, StepTyped
  <2>4. sessions' \in [Ids -> [cid : 0 .. MaxBoxes, did : Dids, ts : Nat]]
    BY <1>8, OrchestratorAssumption DEF OrchestratorAssumption, TakeOut, TypeOK, NoSession, Dids
  <2> QED
    BY <1>8, <2>3, <2>4 DEF TakeOut, TypeOK, OpTyped, used, seen
<1>9. CASE Halt(t)
  <2> DEFINE k == [op[t] EXCEPT !.pc = "remove"]
  <2>1. k \in Places /\ k.id = op[t].id /\ k.pc = "remove" /\ op[t].id \in Ids
    BY <1>1, <1>9 DEF Halt, Places, Stages
  <2>2. OpTyped'
    <3>1. logs' = logs /\ (Go(t, k) \/ Return(t))
      BY <1>9 DEF Halt
    <3> HIDE DEF k
    <3> QED
      BY <1>1, <2>1, <3>1, StepTyped
  <2>3. DOMAIN boxes' = DOMAIN boxes /\ boxes' \in [DOMAIN boxes -> Box]
    <3>1. boxes \in [DOMAIN boxes -> Box]
      BY DEF TypeOK
    <3> QED
      BY <1>9, <3>1, Switched DEF Halt
  <2> QED
    BY <1>9, <2>2, <2>3 DEF Halt, TypeOK, OpTyped, used, seen
<1>10. CASE RemoveContainer(t)
  <2> DEFINE k == [op[t] EXCEPT !.pc = "wipe", !.cid = 0]
  <2>1. k \in Places /\ k.id = op[t].id /\ k.pc = "wipe" /\ op[t].id \in Ids
    <3>1. 0 \in 0 .. MaxBoxes
      BY OrchestratorAssumption DEF OrchestratorAssumption
    <3> QED
      BY <1>1, <1>10, <3>1 DEF RemoveContainer, Places, Stages
  <2>2. OpTyped'
    <3>1. logs' = logs /\ (Go(t, k) \/ Return(t))
      BY <1>10 DEF RemoveContainer
    <3> HIDE DEF k
    <3> QED
      BY <1>1, <2>1, <3>1, StepTyped
  <2>3. DOMAIN boxes' \subseteq DOMAIN boxes /\ boxes' \in [DOMAIN boxes' -> Box]
    BY <1>10 DEF RemoveContainer, TypeOK
  <2> QED
    BY <1>10, <2>2, <2>3 DEF RemoveContainer, TypeOK, OpTyped, used, seen
<1>11. CASE Wipe(t)
  <2> DEFINE k == [op[t] EXCEPT !.pc = "prepare"]
  <2>1. k \in Places /\ k.id = op[t].id /\ k.pc = "prepare" /\ op[t].id \in Ids
    BY <1>1, <1>11 DEF Wipe, Places, Stages
  <2>2. OpTyped'
    <3>1. logs' = logs /\ (Go(t, k) \/ Return(t))
      BY <1>11 DEF Wipe
    <3> HIDE DEF k
    <3> QED
      BY <1>1, <2>1, <3>1, StepTyped
  <2>3. volume' \in [Ids -> Dids]
    BY <1>11, OrchestratorAssumption DEF OrchestratorAssumption, Wipe, TypeOK, Dids
  <2> QED
    BY <1>11, <2>2, <2>3 DEF Wipe, TypeOK, OpTyped, used, seen
<1> QED
  BY <1>2, <1>3, <1>4, <1>5, <1>6, <1>7, <1>8, <1>9, <1>10, <1>11 DEF Verb

LEMMA CallTypes ==
  ASSUME TypeOK, NEW t \in Callers, NEW verb \in {"spawn", "replace", "stop"}, NEW id \in Ids,
         Call(t, verb, id)
  PROVE  TypeOK'
<1> DEFINE k == [Idle EXCEPT !.verb = verb, !.id = id, !.was = volume[id],
                             !.pc = IF verb = "spawn" THEN "prepare" ELSE "take"]
<1>1. volume[id] \in Dids /\ verbs' \in 0 .. MaxVerbs
  BY OrchestratorAssumption DEF OrchestratorAssumption, TypeOK, Call
<1>2. k \in Places /\ k.id = id /\ k.pc \in {"prepare", "take"}
  BY <1>1, IdleTyped DEF Places, Stages
<1>3. OpTyped'
  <2>1. Go(t, k) /\ logs' = logs /\ OpTyped
    BY DEF Call, TypeOK, OpTyped
  <2> HIDE DEF k
  <2> QED
    BY <1>2, <2>1, StepTyped
<1> QED
  BY <1>1, <1>3 DEF Call, TypeOK, OpTyped, seen

LEMMA AgentTypes == ASSUME TypeOK, NEW c \in DOMAIN boxes, AgentUp(c) PROVE TypeOK'
<1> DEFINE b == boxes[c]
           did == IF volume[b.id] = 0 THEN minted + 1 ELSE volume[b.id]
<1>1. boxes \in [DOMAIN boxes -> Box] /\ b \in Box /\ b.id \in Ids
  BY DEF TypeOK, Box
<1>2. did \in Dids /\ minted' \in Dids
  BY <1>1, OrchestratorAssumption DEF OrchestratorAssumption, TypeOK, AgentUp, Dids
<1>3. volume' = [volume EXCEPT ![b.id] = did] /\ boxes' = [boxes EXCEPT ![c].dids = @ \cup {did}]
      /\ logs' = IF b.followed /\ logs[b.dir] = 0 THEN [logs EXCEPT ![b.dir] = did] ELSE logs
  BY DEF AgentUp
<1> HIDE DEF did
<1>4. volume' \in [Ids -> Dids]
  BY <1>1, <1>2, <1>3 DEF TypeOK
<1>5. DOMAIN boxes' = DOMAIN boxes /\ boxes' \in [DOMAIN boxes -> Box]
  BY <1>1, <1>2, <1>3 DEF Box
<1>6. DOMAIN logs' = DOMAIN logs /\ logs' \in [DOMAIN logs -> Dids]
  <2>1. logs \in [DOMAIN logs -> Dids]
    BY DEF TypeOK
  <2> QED
    BY <1>2, <1>3, <2>1
<1> QED
  BY <1>2, <1>4, <1>5, <1>6 DEF AgentUp, TypeOK, seen

LEMMA RestartTypes == ASSUME TypeOK, ManagerRestarts PROVE TypeOK'
<1>1. op' \in [Callers -> Places] /\ \A t \in Callers : op'[t].pc = "idle"
  BY IdleTyped DEF ManagerRestarts
<1>2. sessions' \in [Ids -> [cid : 0 .. MaxBoxes, did : Dids, ts : Nat]]
  <2>1. NoSession \in [cid : 0 .. MaxBoxes, did : Dids, ts : Nat]
    BY OrchestratorAssumption DEF OrchestratorAssumption, NoSession, Dids
  <2> QED
    BY <2>1 DEF ManagerRestarts
<1>3. DOMAIN boxes' = DOMAIN boxes /\ boxes' \in [DOMAIN boxes -> Box]
  <2>1. boxes \in [DOMAIN boxes -> Box]
    BY DEF TypeOK
  <2>2. boxes' = [c \in DOMAIN boxes |->
                    [boxes[c] EXCEPT !.followed = FALSE, !.on = @ /\ ~MayFail("host")]]
    BY DEF ManagerRestarts
  <2>3. ASSUME NEW c \in DOMAIN boxes
        PROVE  [boxes[c] EXCEPT !.followed = FALSE, !.on = @ /\ ~MayFail("host")] \in Box
    BY <2>1 DEF Box
  <2> QED
    BY <2>2, <2>3
<1> QED
  BY <1>1, <1>2, <1>3 DEF ManagerRestarts, TypeOK, used, seen

LEMMA StepTypes == TypeOK /\ [Next]_vars => TypeOK'
<1> SUFFICES ASSUME TypeOK, [Next]_vars PROVE TypeOK'
  OBVIOUS
<1>1. CASE Tick
  BY <1>1 DEF Tick, TypeOK, used, seen
<1>2. CASE UNCHANGED vars
  BY <1>2 DEF vars, TypeOK, used, seen
<1> QED
  BY <1>1, <1>2, VerbTypes, CallTypes, AgentTypes, RestartTypes DEF Next

\* The manager keeps its types: an incarnation that is being started has its log
\* directory, a verb under way its instance, and podman no container it never created.
THEOREM OrchestratorTypes == Spec => []TypeOK
BY InitTypes, StepTypes, PTL DEF Spec

-----------------------------------------------------------------------------
(* Custody *)

LEMMA InitCustody == Init => Custody
<1> SUFFICES ASSUME Init PROVE Custody
  OBVIOUS
<1>1. DOMAIN boxes = {}
  BY DEF Init
<1>2. \A t \in Callers : ~Holds(t)
  BY IdleTyped DEF Init, Holds
<1>3. \A id \in Ids : ~Listed(id)
  BY DEF Init, Listed
<1> QED
  BY <1>1, <1>2, <1>3, InitTypes
  DEF Custody, Names, InHand, OneHand, SessionHasContainer, Listed

LEMMA GoEffect ==
  ASSUME TypeOK, NEW t \in Callers, NEW k, Go(t, k)
  PROVE  op'[t] = k /\ \A u \in Callers \ {t} : op'[u] = op[u]
BY DEF TypeOK, Go

LEMMA ReturnEffect ==
  ASSUME TypeOK, NEW t \in Callers, Return(t)
  PROVE  ~Holds(t)' /\ \A u \in Callers \ {t} : op'[u] = op[u]
BY GoEffect, IdleTyped DEF Return, Holds

\* A step that leaves the map, the containers and their names alone, and after which
\* nobody has a container in hand that it had not before.
LEMMA Neutral ==
  ASSUME Custody, TypeOK', sessions' = sessions,
         DOMAIN boxes' = DOMAIN boxes,
         \A c \in DOMAIN boxes : boxes'[c].id = boxes[c].id,
         \A t \in Callers : Holds(t)' => /\ Holds(t)
                                        /\ op'[t].cid = op[t].cid /\ op'[t].id = op[t].id
  PROVE  Custody'
<1>1. Names'
  BY DEF Custody, Names
<1>2. InHand'
  BY DEF Custody, InHand
<1>3. OneHand'
  BY DEF Custody, OneHand, Listed
<1>4. SessionHasContainer'
  BY DEF Custody, SessionHasContainer
<1> QED
  BY <1>1, <1>2, <1>3, <1>4 DEF Custody

\* A container that is new under its name is in no hands and in no session.
LEMMA CreateKeeps == ASSUME Custody, TypeOK', NEW t \in Callers, CreateContainer(t) PROVE Custody'
<1>1. TypeOK /\ op[t].pc = "create" /\ sessions' = sessions
  BY DEF Custody, CreateContainer
<1>2. CASE Return(t) /\ boxes' = boxes
  BY <1>1, <1>2, ReturnEffect, Neutral DEF Holds
<1>3. CASE ~(Return(t) /\ boxes' = boxes)
  <2> DEFINE c == made + 1
             k == [op[t] EXCEPT !.pc = "start", !.cid = c]
  <2>1. /\ Named(op[t].id) = {} /\ Go(t, k)
        /\ boxes' = [d \in DOMAIN boxes \cup {c} |-> IF d # c THEN boxes[d] ELSE
                       [id |-> op[t].id, on |-> FALSE, dids |-> {}, dir |-> LogDir(op[t].id, op[t].ts),
                        followed |-> FALSE]]
    BY <1>3 DEF CreateContainer
  <2>2. c \notin DOMAIN boxes
    BY <1>1, OrchestratorAssumption DEF OrchestratorAssumption, TypeOK
  <2>3. /\ DOMAIN boxes' = DOMAIN boxes \cup {c} /\ boxes'[c].id = op[t].id
        /\ \A d \in DOMAIN boxes : boxes'[d].id = boxes[d].id /\ boxes[d].id # op[t].id
    BY <2>1, <2>2 DEF Named
  <2>4. k.id = op[t].id /\ k.cid = c /\ k.pc = "start"
    BY <1>1 DEF TypeOK, Places
  <2>5. op'[t] = k /\ \A u \in Callers \ {t} : op'[u] = op[u]
    BY <1>1, <2>1, GoEffect
  <2> HIDE DEF c, k
  <2>6. \A u \in Callers \ {t} : Holds(u)' => Holds(u) /\ op[u].cid \in DOMAIN boxes
    BY <2>5 DEF Holds, Custody, InHand
  <2>7. Names'
    BY <2>3 DEF Custody, Names
  <2>8. InHand'
    BY <2>3, <2>4, <2>5, <2>6 DEF Custody, InHand
  <2>9. OneHand'
    BY <1>1, <2>2, <2>4, <2>5, <2>6 DEF Custody, OneHand, Listed, SessionHasContainer
  <2>10. SessionHasContainer'
    BY <1>1, <2>3 DEF Custody, SessionHasContainer
  <2> QED
    BY <2>7, <2>8, <2>9, <2>10 DEF Custody
<1> QED
  BY <1>2, <1>3

\* The container goes from the verb's hands into the map.
LEMMA InsertKeeps == ASSUME Custody, TypeOK', NEW t \in Callers, InsertSession(t) PROVE Custody'
<1> DEFINE s == [cid |-> op[t].cid, did |-> op[t].did, ts |-> op[t].ts]
<1>1. TypeOK /\ Holds(t) /\ boxes' = boxes /\ op[t].id \in Ids
  BY DEF Custody, InsertSession, Holds, TypeOK
<1>2. /\ sessions'[op[t].id] = s /\ s.cid = op[t].cid
      /\ \A id \in Ids \ {op[t].id} : sessions'[id] = sessions[id]
  BY <1>1 DEF InsertSession, TypeOK
<1>3. ~Holds(t)' /\ \A u \in Callers \ {t} : op'[u] = op[u]
  BY <1>1, ReturnEffect DEF InsertSession
<1> HIDE DEF s
<1>4. Names' /\ InHand'
  BY <1>1, <1>3 DEF Custody, Names, InHand, Holds
<1>5. OneHand'
  BY <1>1, <1>2, <1>3 DEF Custody, OneHand, Listed, Holds
<1>6. SessionHasContainer'
  BY <1>1, <1>2 DEF Custody, SessionHasContainer, InHand
<1> QED
  BY <1>4, <1>5, <1>6 DEF Custody

\* ... and back, out of the map: no other session has it, for each has the container of
\* its own instance.
LEMMA TakeKeeps == ASSUME Custody, TypeOK', NEW t \in Callers, TakeOut(t) PROVE Custody'
<1>1. TypeOK /\ op[t].pc = "take" /\ boxes' = boxes /\ op[t].id \in Ids
  BY DEF Custody, TakeOut, TypeOK
<1>2. CASE ~Listed(op[t].id)
  <2>1. Return(t) /\ sessions' = sessions
    BY <1>2 DEF TakeOut, Listed
  <2> QED
    BY <1>1, <2>1, ReturnEffect, Neutral DEF Holds
<1>3. CASE Listed(op[t].id)
  <2> DEFINE c == sessions[op[t].id].cid
             k == [op[t] EXCEPT !.pc = "halt", !.cid = c]
  <2>1. Go(t, k) /\ sessions' = [sessions EXCEPT ![op[t].id] = NoSession]
    BY <1>3 DEF TakeOut, Listed
  <2>2. k.id = op[t].id /\ k.cid = c /\ k.pc = "halt"
    BY <1>1 DEF TypeOK, Places
  <2>3. op'[t] = k /\ \A u \in Callers \ {t} : op'[u] = op[u]
    BY <1>1, <2>1, GoEffect
  <2>4. /\ sessions'[op[t].id] = NoSession
        /\ \A id \in Ids \ {op[t].id} : sessions'[id] = sessions[id]
    BY <1>1, <2>1 DEF TypeOK
  <2>5. c \in DOMAIN boxes /\ boxes[c].id = op[t].id
    BY <1>1, <1>3 DEF Custody, SessionHasContainer, Listed
  <2>6. \A id \in Ids \ {op[t].id} : Listed(id) => sessions[id].cid # c
    BY <2>5 DEF Custody, SessionHasContainer, Listed
  <2>7. \A u \in Callers : Holds(u) => op[u].cid # c
    BY <1>1, <1>3 DEF Custody, OneHand
  <2> HIDE DEF c, k
  <2>8. Names' /\ InHand'
    BY <1>1, <2>2, <2>3, <2>5 DEF Custody, Names, InHand, Holds
  <2>9. OneHand'
    BY <1>1, <2>2, <2>3, <2>4, <2>6, <2>7 DEF Custody, OneHand, Listed, Holds
  <2>10. SessionHasContainer'
    BY <1>1, <2>4 DEF Custody, SessionHasContainer
  <2> QED
    BY <2>8, <2>9, <2>10 DEF Custody
<1> QED
  BY <1>2, <1>3

\* The container that is removed is in no other hands and in no session.
LEMMA RemoveKeeps == ASSUME Custody, TypeOK', NEW t \in Callers, RemoveContainer(t) PROVE Custody'
<1> DEFINE c == op[t].cid
           k == [op[t] EXCEPT !.pc = "wipe", !.cid = 0]
<1>1. TypeOK /\ Holds(t) /\ sessions' = sessions
  BY DEF Custody, RemoveContainer, Holds
<1>2. ~Holds(t)' /\ \A u \in Callers \ {t} : op'[u] = op[u]
  <2>1. CASE Return(t)
    BY <1>1, <2>1, ReturnEffect
  <2>2. CASE Go(t, k)
    <3>1. k.pc = "wipe"
      BY <1>1 DEF TypeOK, Places
    <3> HIDE DEF k
    <3> QED
      BY <1>1, <2>2, <3>1, GoEffect DEF Holds
  <2> QED
    BY <2>1, <2>2 DEF RemoveContainer
<1>3. CASE boxes' = boxes
  BY <1>1, <1>2, <1>3, Neutral DEF Holds
<1>4. CASE boxes' = [d \in DOMAIN boxes \ {c} |-> boxes[d]]
  <2>1. DOMAIN boxes' = DOMAIN boxes \ {c} /\ \A d \in DOMAIN boxes \ {c} : boxes'[d] = boxes[d]
    BY <1>4
  <2>2. \A u \in Callers : Holds(u)' => u # t /\ Holds(u) /\ op'[u] = op[u] /\ op[u].cid # c
    BY <1>1, <1>2 DEF Custody, OneHand, Holds
  <2>3. \A id \in Ids : Listed(id) => sessions[id].cid # c
    BY <1>1 DEF Custody, OneHand
  <2> HIDE DEF c
  <2>4. Names'
    BY <2>1 DEF Custody, Names
  <2>5. InHand'
    BY <2>1, <2>2 DEF Custody, InHand
  <2>6. OneHand'
    BY <1>1, <2>2 DEF Custody, OneHand, Listed
  <2>7. SessionHasContainer'
    BY <1>1, <2>1, <2>3 DEF Custody, SessionHasContainer, Listed
  <2> QED
    BY <2>4, <2>5, <2>6, <2>7 DEF Custody
<1> QED
  BY <1>3, <1>4 DEF RemoveContainer

\* The steps of a verb that keep what it has in hand.
LEMMA OthersKeep ==
  ASSUME Custody, TypeOK', NEW t \in Callers,
         \/ Prepare(t) \/ StartContainer(t) \/ Follow(t) \/ Discover(t) \/ Halt(t) \/ Wipe(t)
  PROVE  Custody'
<1>1. TypeOK /\ op[t] \in Places /\ boxes \in [DOMAIN boxes -> Box]
  BY DEF Custody, TypeOK
<1>2. \A u \in Callers : op'[u] = op[u] => (Holds(u)' => Holds(u))
  BY DEF Holds
<1>3. CASE Prepare(t)
  <2> DEFINE k == [op[t] EXCEPT !.pc = "create", !.ts = now]
  <2>1. (Go(t, k) \/ Return(t)) /\ k.pc = "create"
    BY <1>1, <1>3 DEF Prepare, Places
  <2> HIDE DEF k
  <2>2. ~Holds(t)' /\ \A u \in Callers \ {t} : op'[u] = op[u]
    BY <1>1, <2>1, GoEffect, ReturnEffect DEF Holds
  <2> QED
    BY <1>2, <1>3, <2>2, Neutral DEF Prepare
<1>4. CASE StartContainer(t)
  <2> DEFINE k == [op[t] EXCEPT !.pc = "discover"]
  <2>1. (Go(t, k) \/ Return(t)) /\ Holds(t) /\ k.cid = op[t].cid /\ k.id = op[t].id
    BY <1>1, <1>4 DEF StartContainer, Places, Holds
  <2> HIDE DEF k
  <2>2. /\ Holds(t)' => op'[t].cid = op[t].cid /\ op'[t].id = op[t].id
        /\ \A u \in Callers \ {t} : op'[u] = op[u]
    BY <1>1, <2>1, GoEffect, ReturnEffect
  <2>3. DOMAIN boxes' = DOMAIN boxes /\ \A d \in DOMAIN boxes : boxes'[d].id = boxes[d].id
    BY <1>1, <1>4, Switched DEF StartContainer
  <2> QED
    BY <1>2, <1>4, <2>1, <2>2, <2>3, Neutral DEF StartContainer
<1>5. CASE Follow(t)
  <2>1. DOMAIN boxes' = DOMAIN boxes /\ \A d \in DOMAIN boxes : boxes'[d].id = boxes[d].id
    BY <1>1, <1>5 DEF Follow, Box
  <2>2. op' = op /\ sessions' = sessions
    BY <1>5 DEF Follow
  <2> QED
    BY <1>2, <2>1, <2>2, Neutral
<1>6. CASE Discover(t)
  <2>1. PICK did \in {0, logs[LogDir(op[t].id, op[t].ts)]} :
          Go(t, [op[t] EXCEPT !.pc = "insert", !.did = did])
    BY <1>6 DEF Discover
  <2> DEFINE k == [op[t] EXCEPT !.pc = "insert", !.did = did]
  <2>2. Go(t, k) /\ Holds(t) /\ k.cid = op[t].cid /\ k.id = op[t].id
    BY <1>1, <1>6, <2>1 DEF Discover, Places, Holds
  <2> HIDE DEF k
  <2>3. op'[t].cid = op[t].cid /\ op'[t].id = op[t].id /\ \A u \in Callers \ {t} : op'[u] = op[u]
    BY <1>1, <2>2, GoEffect
  <2> QED
    BY <1>2, <1>6, <2>2, <2>3, Neutral DEF Discover
<1>7. CASE Halt(t)
  <2> DEFINE k == [op[t] EXCEPT !.pc = "remove"]
  <2>1. Go(t, k) /\ Holds(t) /\ k.cid = op[t].cid /\ k.id = op[t].id
    BY <1>1, <1>7 DEF Halt, Places, Holds
  <2> HIDE DEF k
  <2>2. op'[t].cid = op[t].cid /\ op'[t].id = op[t].id /\ \A u \in Callers \ {t} : op'[u] = op[u]
    BY <1>1, <2>1, GoEffect
  <2>3. DOMAIN boxes' = DOMAIN boxes /\ \A d \in DOMAIN boxes : boxes'[d].id = boxes[d].id
    BY <1>1, <1>7, Switched DEF Halt
  <2> QED
    BY <1>2, <1>7, <2>1, <2>2, <2>3, Neutral DEF Halt
<1>8. CASE Wipe(t)
  <2> DEFINE k == [op[t] EXCEPT !.pc = "prepare"]
  <2>1. (Go(t, k) \/ Return(t)) /\ k.pc = "prepare"
    BY <1>1, <1>8 DEF Wipe, Places
  <2> HIDE DEF k
  <2>2. ~Holds(t)' /\ \A u \in Callers \ {t} : op'[u] = op[u]
    BY <1>1, <2>1, GoEffect, ReturnEffect DEF Holds
  <2> QED
    BY <1>2, <1>8, <2>2, Neutral DEF Wipe
<1> QED
  BY <1>3, <1>4, <1>5, <1>6, <1>7, <1>8

LEMMA CallKeeps ==
  ASSUME Custody, TypeOK', NEW t \in Callers, NEW verb \in {"spawn", "replace", "stop"},
         NEW id \in Ids, Call(t, verb, id)
  PROVE  Custody'
<1> DEFINE k == [Idle EXCEPT !.verb = verb, !.id = id, !.was = volume[id],
                             !.pc = IF verb = "spawn" THEN "prepare" ELSE "take"]
<1>1. TypeOK /\ Go(t, k) /\ sessions' = sessions /\ boxes' = boxes
  BY DEF Custody, Call
<1>2. k.pc \in {"prepare", "take"}
  BY IdleTyped DEF Places
<1> HIDE DEF k
<1>3. ~Holds(t)' /\ \A u \in Callers \ {t} : op'[u] = op[u]
  BY <1>1, <1>2, GoEffect DEF Holds
<1> QED
  BY <1>1, <1>3, Neutral DEF Holds

LEMMA AgentKeeps == ASSUME Custody, TypeOK', NEW c \in DOMAIN boxes, AgentUp(c) PROVE Custody'
<1>1. boxes \in [DOMAIN boxes -> Box]
  BY DEF Custody, TypeOK
<1>2. DOMAIN boxes' = DOMAIN boxes /\ \A d \in DOMAIN boxes : boxes'[d].id = boxes[d].id
  BY <1>1 DEF AgentUp, Box
<1>3. op' = op /\ sessions' = sessions
  BY DEF AgentUp
<1> QED
  BY <1>2, <1>3, Neutral DEF Holds

\* A restarted manager has no session and nothing in hand.
LEMMA RestartKeeps == ASSUME Custody, TypeOK', ManagerRestarts PROVE Custody'
<1>1. boxes \in [DOMAIN boxes -> Box]
  BY DEF Custody, TypeOK
<1>2. DOMAIN boxes' = DOMAIN boxes /\ \A d \in DOMAIN boxes : boxes'[d].id = boxes[d].id
  BY <1>1 DEF ManagerRestarts, Box
<1>3. \A t \in Callers : ~Holds(t)'
  BY IdleTyped DEF ManagerRestarts, Holds
<1>4. \A id \in Ids : ~Listed(id)'
  BY DEF ManagerRestarts, Listed
<1> QED
  BY <1>2, <1>3, <1>4 DEF Custody, Names, InHand, OneHand, SessionHasContainer, Listed

LEMMA StepCustody == Custody /\ [Next]_vars => Custody'
<1> SUFFICES ASSUME Custody, [Next]_vars PROVE Custody'
  OBVIOUS
<1>1. TypeOK'
  BY StepTypes DEF Custody
<1>2. ASSUME NEW t \in Callers, Verb(t) PROVE Custody'
  BY <1>1, <1>2, CreateKeeps, InsertKeeps, TakeKeeps, RemoveKeeps, OthersKeep DEF Verb
<1>3. CASE Tick \/ UNCHANGED vars
  <2>1. op' = op /\ sessions' = sessions /\ boxes' = boxes
    BY <1>3 DEF Tick, vars
  <2> QED
    BY <1>1, <2>1, Neutral DEF Holds
<1> QED
  BY <1>1, <1>2, <1>3, CallKeeps, AgentKeeps, RestartKeeps DEF Next

\* Every session in the map has its container, whatever verbs on whatever instances
\* overlap and whichever podman calls fail.
THEOREM SessionsHaveContainers == Spec => []SessionHasContainer
<1>1. Custody => SessionHasContainer
  BY DEF Custody
<1> QED
  BY InitCustody, StepCustody, <1>1, PTL DEF Spec
-----------------------------------------------------------------------------
(* Whose DID a session reports *)

Starts(t) == op[t].pc \in {"create", "start", "discover", "insert"}
Dir(t) == <<op[t].id, op[t].ts>>

\* Every log directory in use is one in which a spawn began.
Begun ==
    /\ DOMAIN logs \subseteq begun
    /\ \A t \in Callers : Starts(t) => Dir(t) \in begun
    /\ \A c \in DOMAIN boxes : boxes[c].dir \in begun /\ boxes[c].dir[1] = boxes[c].id

\* Who is about to create a container for a directory of its own is the first to use it.
Fresh ==
    \A t \in Callers : op[t].pc = "create" /\ Dir(t) \notin shared =>
        /\ logs[Dir(t)] = 0
        /\ \A c \in DOMAIN boxes : boxes[c].dir # Dir(t)
        /\ \A u \in Callers \ {t} : op[u].pc = "create" => Dir(u) # Dir(t)

OwnDir == \A t \in Callers : op[t].pc \in {"start", "discover"} => boxes[op[t].cid].dir = Dir(t)

\* What is in the log of one incarnation, its container has logged.
OwnLog ==
    \A c \in DOMAIN boxes : LET d == boxes[c].dir IN
        d \notin shared /\ d \in DOMAIN logs /\ logs[d] # 0 => logs[d] \in boxes[c].dids

\* So is what discover_did found there.
Found ==
    \A t \in Callers : op[t].pc = "insert" /\ op[t].did # 0 /\ Dir(t) \notin shared =>
        op[t].did \in boxes[op[t].cid].dids

Origin == Begun /\ Fresh /\ OwnDir /\ OwnLog /\ Found /\ ReportedDidIsOwn

LEMMA InitOrigin == Init => Origin
<1> SUFFICES ASSUME Init PROVE Origin
  OBVIOUS
<1>1. DOMAIN boxes = {} /\ DOMAIN logs = {} /\ \A id \in Ids : sessions[id] = NoSession
  BY DEF Init
<1>2. \A t \in Callers : op[t].pc = "idle"
  BY IdleTyped DEF Init
<1> QED
  BY <1>1, <1>2 DEF Origin, Begun, Fresh, OwnDir, OwnLog, Found, ReportedDidIsOwn, Starts

\* A caller that starts an incarnation after the step did so before it, in the same place
\* but perhaps for StartContainer, and with the same in hand.
Continues(t) ==
    Starts(t)' => /\ op'[t].pc = op[t].pc \/ (op[t].pc = "start" /\ op'[t].pc = "discover")
                  /\ op'[t].id = op[t].id /\ op'[t].ts = op[t].ts
                  /\ op'[t].cid = op[t].cid /\ op'[t].did = op[t].did

\* A step that leaves logs and directories alone, and in which containers and sessions at
\* most go.
LEMMA Unmoved ==
  ASSUME Custody, Custody', Origin,
         begun' = begun, shared' = shared, logs' = logs,
         DOMAIN boxes' \subseteq DOMAIN boxes,
         \A c \in DOMAIN boxes' : /\ boxes'[c].id = boxes[c].id /\ boxes'[c].dir = boxes[c].dir
                                  /\ boxes[c].dids \subseteq boxes'[c].dids,
         \A id \in Ids : sessions'[id] \in {sessions[id], NoSession},
         \A t \in Callers : Continues(t)
  PROVE  Origin'
<1>1. \A t \in Callers : Starts(t)' => Starts(t) /\ Dir(t)' = Dir(t)
  BY DEF Continues, Starts, Dir
<1>2. \A t \in Callers : op'[t].pc \in {"start", "discover", "insert"} =>
        op[t].pc \in {"start", "discover", "insert"} /\ op'[t].cid \in DOMAIN boxes'
  BY DEF Continues, Starts, Custody, InHand, Holds
<1>3. Begun'
  BY <1>1 DEF Origin, Begun
<1>4. Fresh'
  <2>1. \A t \in Callers : op'[t].pc = "create" => op[t].pc = "create" /\ Dir(t)' = Dir(t)
    BY <1>1 DEF Continues, Starts
  <2> QED
    BY <2>1 DEF Origin, Fresh
<1>5. OwnDir'
  <2>1. \A t \in Callers : op'[t].pc \in {"start", "discover"} =>
          /\ op[t].pc \in {"start", "discover"} /\ Dir(t)' = Dir(t)
          /\ op'[t].cid = op[t].cid /\ op'[t].cid \in DOMAIN boxes'
    BY <1>1, <1>2 DEF Continues, Starts
  <2> QED
    BY <2>1 DEF Origin, OwnDir
<1>6. OwnLog'
  BY DEF Origin, OwnLog
<1>7. Found'
  <2>1. \A t \in Callers : op'[t].pc = "insert" =>
          /\ op[t].pc = "insert" /\ Dir(t)' = Dir(t) /\ op'[t].did = op[t].did
          /\ op'[t].cid = op[t].cid /\ op'[t].cid \in DOMAIN boxes'
    BY <1>1, <1>2 DEF Continues, Starts
  <2> QED
    BY <2>1 DEF Origin, Found
<1>8. ReportedDidIsOwn'
  BY DEF Origin, ReportedDidIsOwn, Custody, SessionHasContainer
<1> QED
  BY <1>3, <1>4, <1>5, <1>6, <1>7, <1>8 DEF Origin

\* A spawn that begins has its directory to itself, or the directory is shared from now on.
LEMMA PrepareOrigin ==
  ASSUME Custody, Custody', Origin, NEW t \in Callers, Prepare(t)
  PROVE  Origin'
<1> DEFINE dir == <<op[t].id, now>>
           k == [op[t] EXCEPT !.pc = "create", !.ts = now]
<1>1. /\ TypeOK /\ op[t] \in Places /\ boxes' = boxes /\ sessions' = sessions
      /\ begun' = begun \cup {dir}
      /\ shared' = shared \cup ({dir} \cap begun)
      /\ logs' = [d \in DOMAIN logs \cup {dir} |-> IF d \in DOMAIN logs THEN logs[d] ELSE 0]
  BY DEF Custody, TypeOK, Prepare, LogDir
<1>2. /\ Starts(t)' => op'[t].pc = "create" /\ Dir(t)' = dir
      /\ \A u \in Callers \ {t} : op'[u] = op[u]
  <2>1. k.pc = "create" /\ k.id = op[t].id /\ k.ts = now /\ (Go(t, k) \/ Return(t))
    BY <1>1 DEF Places, Prepare
  <2> HIDE DEF k
  <2>2. CASE Go(t, k)
    BY <1>1, <2>1, <2>2, GoEffect DEF Dir
  <2>3. CASE Return(t)
    BY <1>1, <2>3, GoEffect, IdleTyped DEF Return, Starts
  <2> QED
    BY <2>1, <2>2, <2>3
<1>3. /\ DOMAIN logs' = DOMAIN logs \cup {dir}
      /\ \A d \in DOMAIN logs : logs'[d] = logs[d]
      /\ dir \notin DOMAIN logs => logs'[dir] = 0
  BY <1>1
<1> HIDE DEF dir
<1>4. Begun'
  BY <1>1, <1>2, <1>3 DEF Origin, Begun, Starts, Dir
<1>5. Fresh'
  <2>1. dir \notin shared' => /\ dir \notin DOMAIN logs
                              /\ \A c \in DOMAIN boxes : boxes[c].dir # dir
                              /\ \A u \in Callers : Starts(u) => Dir(u) # dir
    BY <1>1 DEF Origin, Begun
  <2>2. ASSUME NEW u \in Callers, op'[u].pc = "create", Dir(u)' \notin shared'
        PROVE  /\ logs'[Dir(u)'] = 0
               /\ \A c \in DOMAIN boxes : boxes[c].dir # Dir(u)'
               /\ \A v \in Callers \ {u} : op'[v].pc = "create" => Dir(v)' # Dir(u)'
    <3>1. CASE u = t
      <4>1. Dir(u)' = dir
        BY <1>2, <2>2, <3>1 DEF Starts
      <4>2. \A v \in Callers \ {u} : op'[v].pc = "create" => Starts(v) /\ Dir(v)' = Dir(v)
        BY <1>2, <3>1 DEF Starts, Dir
      <4>3. dir \notin shared'
        BY <2>2, <4>1
      <4>4. logs'[dir] = 0 /\ \A c \in DOMAIN boxes : boxes[c].dir # dir
        BY <1>3, <2>1, <4>3
      <4>5. \A v \in Callers \ {u} : op'[v].pc = "create" => Dir(v)' # dir
        BY <2>1, <4>2, <4>3
      <4> QED
        BY <4>1, <4>4, <4>5
    <3>2. CASE u # t
      <4>1. op'[u] = op[u] /\ Dir(u)' = Dir(u) /\ Dir(u) \notin shared /\ op[u].pc = "create"
        BY <1>1, <1>2, <2>2, <3>2 DEF Dir
      <4>2. Dir(u) \in DOMAIN logs
        BY <1>1, <4>1 DEF TypeOK, Dir
      <4>3. dir # Dir(u)
        BY <1>1, <2>2, <4>1, <4>2 DEF Origin, Begun
      <4> QED
        BY <1>1, <1>2, <1>3, <4>1, <4>2, <4>3 DEF Origin, Fresh, Starts, Dir
    <3> QED
      BY <3>1, <3>2
  <2> QED
    BY <1>1, <2>2 DEF Fresh
<1>6. OwnDir'
  BY <1>1, <1>2 DEF Origin, OwnDir, Starts, Dir
<1>7. OwnLog'
  BY <1>1, <1>3 DEF Origin, OwnLog
<1>8. Found'
  BY <1>1, <1>2 DEF Origin, Found, Starts, Dir
<1>9. ReportedDidIsOwn'
  BY <1>1 DEF Origin, ReportedDidIsOwn
<1> QED
  BY <1>4, <1>5, <1>6, <1>7, <1>8, <1>9 DEF Origin

\* The first container of a directory finds its log empty.
LEMMA CreateOrigin ==
  ASSUME Custody, Custody', Origin, NEW t \in Callers, CreateContainer(t)
  PROVE  Origin'
<1>1. /\ TypeOK /\ op[t] \in Places /\ op[t].pc = "create"
      /\ begun' = begun /\ shared' = shared /\ logs' = logs /\ sessions' = sessions
  BY DEF Custody, TypeOK, CreateContainer, seen
<1>2. CASE Return(t) /\ boxes' = boxes
  <2>1. \A u \in Callers : Continues(u)
    BY <1>1, <1>2, GoEffect, IdleTyped DEF Return, Continues, Starts
  <2> QED
    BY <1>1, <1>2, <2>1, Unmoved
<1>3. CASE ~(Return(t) /\ boxes' = boxes)
  <2> DEFINE c == made + 1
             k == [op[t] EXCEPT !.pc = "start", !.cid = c]
             box == [id |-> op[t].id, on |-> FALSE, dids |-> {}, dir |-> LogDir(op[t].id, op[t].ts),
                     followed |-> FALSE]
  <2>1. Go(t, k) /\ boxes' = [d \in DOMAIN boxes \cup {c} |-> IF d # c THEN boxes[d] ELSE box]
    BY <1>3 DEF CreateContainer
  <2>2. c \notin DOMAIN boxes
    BY <1>1, OrchestratorAssumption DEF OrchestratorAssumption, TypeOK
  <2>3. box.id = op[t].id /\ box.dir = Dir(t) /\ Dir(t)[1] = op[t].id
    BY DEF LogDir, Dir
  <2>4. k.id = op[t].id /\ k.ts = op[t].ts /\ k.cid = c /\ k.pc = "start"
    BY <1>1 DEF Places
  <2> HIDE DEF k, box, c
  <2>5. op'[t] = k /\ Dir(t)' = Dir(t) /\ \A u \in Callers \ {t} : op'[u] = op[u] /\ Dir(u)' = Dir(u)
    BY <1>1, <2>1, <2>4, GoEffect DEF Dir
  <2>6. /\ DOMAIN boxes' = DOMAIN boxes \cup {c} /\ boxes'[c] = box
        /\ \A d \in DOMAIN boxes : boxes'[d] = boxes[d]
    BY <2>1, <2>2
  <2>7. Starts(t) /\ Dir(t) \in begun /\ Dir(t) \in DOMAIN logs
    BY <1>1 DEF Origin, Begun, Starts, TypeOK, Dir
  <2>8. \A u \in Callers : Starts(u)' => Starts(u) /\ Dir(u)' = Dir(u)
    BY <2>5, <2>7 DEF Starts
  <2>9. Begun'
    BY <1>1, <2>3, <2>6, <2>7, <2>8 DEF Origin, Begun
  <2>10. Fresh'
    <3>1. ASSUME NEW u \in Callers, op'[u].pc = "create", Dir(u)' \notin shared'
          PROVE  /\ logs'[Dir(u)'] = 0
                 /\ \A d \in DOMAIN boxes' : boxes'[d].dir # Dir(u)'
                 /\ \A v \in Callers \ {u} : op'[v].pc = "create" => Dir(v)' # Dir(u)'
      <4>1. u # t /\ op[u].pc = "create" /\ Dir(u)' = Dir(u) /\ Dir(u) \notin shared
        BY <1>1, <2>4, <2>5, <3>1
      <4>2. Dir(t) # Dir(u)
        BY <1>1, <4>1 DEF Origin, Fresh
      <4>3. \A v \in Callers : op'[v].pc = "create" => op[v].pc = "create" /\ Dir(v)' = Dir(v)
        BY <2>4, <2>5
      <4> QED
        BY <1>1, <2>3, <2>6, <4>1, <4>2, <4>3 DEF Origin, Fresh
    <3> QED
      BY <3>1 DEF Fresh
  <2>11. OwnDir'
    <3>1. boxes'[op'[t].cid].dir = Dir(t)'
      BY <2>3, <2>4, <2>5, <2>6
    <3>2. ASSUME NEW u \in Callers \ {t}, op'[u].pc \in {"start", "discover"}
          PROVE  boxes'[op'[u].cid].dir = Dir(u)'
      <4>1. op[u].pc \in {"start", "discover"} /\ op[u].cid \in DOMAIN boxes
        BY <2>5, <3>2 DEF Custody, InHand, Holds
      <4> QED
        BY <2>5, <2>6, <4>1 DEF Origin, OwnDir
    <3> QED
      BY <3>1, <3>2 DEF OwnDir
  <2>12. OwnLog'
    <3>1. Dir(t) \notin shared => logs[Dir(t)] = 0
      BY <1>1 DEF Origin, Fresh
    <3> QED
      BY <1>1, <2>3, <2>6, <3>1 DEF Origin, OwnLog
  <2>13. Found'
    <3>1. ASSUME NEW u \in Callers, op'[u].pc = "insert"
          PROVE  u # t /\ op[u].pc = "insert" /\ op'[u] = op[u] /\ op[u].cid \in DOMAIN boxes
      BY <2>4, <2>5, <3>1 DEF Custody, InHand, Holds
    <3> QED
      BY <1>1, <2>5, <2>6, <3>1 DEF Origin, Found
  <2>14. ReportedDidIsOwn'
    BY <1>1, <2>6 DEF Origin, ReportedDidIsOwn, Custody, SessionHasContainer
  <2> QED
    BY <2>9, <2>10, <2>11, <2>12, <2>13, <2>14 DEF Origin
<1> QED
  BY <1>2, <1>3

\* What the log of an incarnation says, or nothing, is what discovery reports.
LEMMA DiscoverOrigin ==
  ASSUME Custody, Custody', Origin, NEW t \in Callers, Discover(t)
  PROVE  Origin'
<1>1. /\ TypeOK /\ op[t] \in Places /\ op[t].pc = "discover"
      /\ begun' = begun /\ shared' = shared /\ logs' = logs /\ sessions' = sessions /\ boxes' = boxes
  BY DEF Custody, TypeOK, Discover, seen
<1>2. PICK did \in {0, logs[Dir(t)]} : Go(t, [op[t] EXCEPT !.pc = "insert", !.did = did])
  BY DEF Discover, Dir, LogDir
<1> DEFINE k == [op[t] EXCEPT !.pc = "insert", !.did = did]
<1>3. k.id = op[t].id /\ k.ts = op[t].ts /\ k.cid = op[t].cid /\ k.pc = "insert" /\ k.did = did
  BY <1>1 DEF Places
<1> HIDE DEF k
<1>4. op'[t] = k /\ Dir(t)' = Dir(t) /\ \A u \in Callers \ {t} : op'[u] = op[u] /\ Dir(u)' = Dir(u)
  BY <1>1, <1>2, <1>3, GoEffect DEF Dir, k
<1>5. op[t].cid \in DOMAIN boxes /\ boxes[op[t].cid].dir = Dir(t) /\ Dir(t) \in DOMAIN logs
  BY <1>1 DEF Custody, InHand, Holds, Origin, OwnDir, TypeOK, Dir
<1>6. did # 0 /\ Dir(t) \notin shared => did \in boxes[op[t].cid].dids
  BY <1>2, <1>5 DEF Origin, OwnLog
<1>7. Begun'
  BY <1>1, <1>3, <1>4 DEF Origin, Begun, Starts
<1>8. Fresh'
  BY <1>1, <1>3, <1>4 DEF Origin, Fresh
<1>9. OwnDir'
  BY <1>1, <1>3, <1>4 DEF Origin, OwnDir
<1>10. OwnLog' /\ ReportedDidIsOwn'
  BY <1>1 DEF Origin, OwnLog, ReportedDidIsOwn
<1>11. Found'
  BY <1>1, <1>3, <1>4, <1>6 DEF Origin, Found
<1> QED
  BY <1>7, <1>8, <1>9, <1>10, <1>11 DEF Origin

LEMMA InsertOrigin ==
  ASSUME Custody, Custody', Origin, NEW t \in Callers, InsertSession(t)
  PROVE  Origin'
<1> DEFINE s == [cid |-> op[t].cid, did |-> op[t].did, ts |-> op[t].ts]
<1>1. /\ TypeOK /\ op[t].pc = "insert" /\ op[t].id \in Ids
      /\ begun' = begun /\ shared' = shared /\ logs' = logs /\ boxes' = boxes
  BY DEF Custody, TypeOK, InsertSession, seen
<1>2. /\ sessions'[op[t].id] = s /\ s.cid = op[t].cid /\ s.did = op[t].did /\ s.ts = op[t].ts
      /\ \A id \in Ids \ {op[t].id} : sessions'[id] = sessions[id]
  BY <1>1 DEF InsertSession, TypeOK
<1>3. op'[t] = Idle /\ Idle.pc = "idle"
      /\ \A u \in Callers \ {t} : op'[u] = op[u] /\ Dir(u)' = Dir(u)
  BY <1>1, GoEffect, IdleTyped DEF InsertSession, Return, Dir
<1> HIDE DEF s
<1>4. Begun' /\ Fresh' /\ OwnDir' /\ OwnLog' /\ Found'
  BY <1>1, <1>3 DEF Origin, Begun, Fresh, OwnDir, OwnLog, Found, Starts
<1>5. ReportedDidIsOwn'
  <2>1. s.did # 0 /\ <<op[t].id, s.ts>> \notin shared => s.did \in boxes[s.cid].dids
    BY <1>1, <1>2 DEF Origin, Found, Dir
  <2> QED
    BY <1>1, <1>2, <2>1 DEF Origin, ReportedDidIsOwn
<1> QED
  BY <1>4, <1>5 DEF Origin

\* An agent writes its own log, and nobody else's but in a shared directory: a directory
\* names the instance, and of an instance there is one container.
LEMMA AgentOrigin ==
  ASSUME Custody, Custody', Origin, NEW c \in DOMAIN boxes, AgentUp(c)
  PROVE  Origin'
<1> DEFINE b == boxes[c]
           did == IF volume[b.id] = 0 THEN minted + 1 ELSE volume[b.id]
<1>1. /\ TypeOK /\ boxes \in [DOMAIN boxes -> Box] /\ logs \in [DOMAIN logs -> Dids]
      /\ begun' = begun /\ shared' = shared /\ op' = op /\ sessions' = sessions
  BY DEF Custody, TypeOK, AgentUp, seen
<1>2. boxes' = [boxes EXCEPT ![c].dids = @ \cup {did}]
      /\ logs' = IF b.followed /\ logs[b.dir] = 0 THEN [logs EXCEPT ![b.dir] = did] ELSE logs
  BY DEF AgentUp
<1> HIDE DEF did
<1>3. /\ DOMAIN boxes' = DOMAIN boxes
      /\ \A d \in DOMAIN boxes : /\ boxes'[d].id = boxes[d].id /\ boxes'[d].dir = boxes[d].dir
                                 /\ boxes[d].dids \subseteq boxes'[d].dids
      /\ did \in boxes'[c].dids
  BY <1>1, <1>2 DEF Box
<1>4. /\ DOMAIN logs' = DOMAIN logs
      /\ \A d \in DOMAIN logs : logs'[d] = logs[d] \/ (d = boxes[c].dir /\ logs'[d] = did)
  BY <1>1, <1>2
<1>5. Begun'
  BY <1>1, <1>3, <1>4 DEF Origin, Begun, Starts, Dir
<1>6. Fresh'
  <2>1. ASSUME NEW u \in Callers, op[u].pc = "create", Dir(u) \notin shared
        PROVE  logs'[Dir(u)] = 0
    <3>1. Dir(u) \in DOMAIN logs /\ logs[Dir(u)] = 0 /\ boxes[c].dir # Dir(u)
      BY <1>1, <2>1 DEF Origin, Fresh, TypeOK, Dir
    <3> QED
      BY <1>4, <3>1
  <2> QED
    BY <1>1, <1>3, <2>1 DEF Origin, Fresh, Dir
<1>7. OwnDir'
  BY <1>1, <1>3 DEF Origin, OwnDir, Dir, Custody, InHand, Holds
<1>8. OwnLog'
  <2>1. ASSUME NEW e \in DOMAIN boxes, boxes[e].dir \notin shared, boxes[e].dir \in DOMAIN logs,
               logs'[boxes[e].dir] # 0
        PROVE  logs'[boxes[e].dir] \in boxes'[e].dids
    <3>1. CASE logs'[boxes[e].dir] = logs[boxes[e].dir]
      BY <1>3, <2>1, <3>1 DEF Origin, OwnLog
    <3>2. CASE boxes[e].dir = boxes[c].dir /\ logs'[boxes[e].dir] = did
      <4>1. e = c
        BY <3>2 DEF Custody, Names, Origin, Begun
      <4> QED
        BY <1>3, <3>2, <4>1
    <3> QED
      BY <1>4, <2>1, <3>1, <3>2
  <2> QED
    BY <1>1, <1>3, <1>4, <2>1 DEF OwnLog
<1>9. Found'
  BY <1>1, <1>3 DEF Origin, Found, Dir, Custody, InHand, Holds
<1>10. ReportedDidIsOwn'
  BY <1>1, <1>3 DEF Origin, ReportedDidIsOwn, Custody, SessionHasContainer
<1> QED
  BY <1>5, <1>6, <1>7, <1>8, <1>9, <1>10 DEF Origin

\* The other steps.
LEMMA RestOrigin ==
  ASSUME Custody, Custody', Origin, NEW t \in Callers,
         \/ StartContainer(t) \/ Follow(t) \/ TakeOut(t) \/ Halt(t) \/ RemoveContainer(t) \/ Wipe(t)
  PROVE  Origin'
<1>1. TypeOK /\ op[t] \in Places /\ boxes \in [DOMAIN boxes -> Box]
  BY DEF Custody, TypeOK
<1>2. begun' = begun /\ shared' = shared /\ logs' = logs
  BY DEF StartContainer, Follow, TakeOut, Halt, RemoveContainer, Wipe, seen
<1>3. \A id \in Ids : sessions'[id] \in {sessions[id], NoSession}
  BY <1>1 DEF TypeOK, StartContainer, Follow, TakeOut, Halt, RemoveContainer, Wipe
<1>4. ASSUME NEW k, Go(t, k) \/ Return(t), k.pc \notin {"create", "start", "discover", "insert"}
      PROVE  \A u \in Callers : Continues(u)
  BY <1>1, <1>4, GoEffect, IdleTyped DEF Return, Continues, Starts
<1>5. \A u \in Callers : Continues(u)
  <2>1. CASE StartContainer(t)
    <3> DEFINE k == [op[t] EXCEPT !.pc = "discover"]
    <3>1. /\ (Go(t, k) \/ Return(t)) /\ op[t].pc = "start" /\ k.pc = "discover" /\ k.id = op[t].id
          /\ k.ts = op[t].ts /\ k.cid = op[t].cid /\ k.did = op[t].did
      BY <1>1, <2>1 DEF StartContainer, Places
    <3> HIDE DEF k
    <3> QED
      BY <1>1, <3>1, GoEffect, IdleTyped DEF Return, Continues, Starts
  <2>2. CASE Follow(t)
    BY <2>2 DEF Follow, Continues, Starts
  <2>3. CASE TakeOut(t)
    <3> DEFINE k == [op[t] EXCEPT !.pc = "halt", !.cid = sessions[op[t].id].cid]
    <3>1. (Go(t, k) \/ Return(t)) /\ k.pc = "halt"
      BY <1>1, <2>3 DEF TakeOut, Places
    <3> HIDE DEF k
    <3> QED
      BY <1>4, <3>1
  <2>4. CASE Halt(t)
    <3> DEFINE k == [op[t] EXCEPT !.pc = "remove"]
    <3>1. (Go(t, k) \/ Return(t)) /\ k.pc = "remove"
      BY <1>1, <2>4 DEF Halt, Places
    <3> HIDE DEF k
    <3> QED
      BY <1>4, <3>1
  <2>5. CASE RemoveContainer(t)
    <3> DEFINE k == [op[t] EXCEPT !.pc = "wipe", !.cid = 0]
    <3>1. (Go(t, k) \/ Return(t)) /\ k.pc = "wipe"
      BY <1>1, <2>5 DEF RemoveContainer, Places
    <3> HIDE DEF k
    <3> QED
      BY <1>4, <3>1
  <2>6. CASE Wipe(t)
    <3> DEFINE k == [op[t] EXCEPT !.pc = "prepare"]
    <3>1. (Go(t, k) \/ Return(t)) /\ k.pc = "prepare"
      BY <1>1, <2>6 DEF Wipe, Places
    <3> HIDE DEF k
    <3> QED
      BY <1>4, <3>1
  <2> QED
    BY <2>1, <2>2, <2>3, <2>4, <2>5, <2>6
<1>6. DOMAIN boxes' \subseteq DOMAIN boxes
      /\ \A c \in DOMAIN boxes' : /\ boxes'[c].id = boxes[c].id /\ boxes'[c].dir = boxes[c].dir
                                  /\ boxes[c].dids \subseteq boxes'[c].dids
  <2>1. CASE boxes' = boxes \/ RemoveContainer(t)
    BY <2>1 DEF RemoveContainer
  <2>2. CASE StartContainer(t) /\ boxes' # boxes
    BY <1>1, <2>2 DEF StartContainer, Box
  <2>3. CASE Follow(t)
    BY <1>1, <2>3 DEF Follow, Box
  <2>4. CASE Halt(t) /\ boxes' # boxes
    BY <1>1, <2>4 DEF Halt, Box
  <2> QED
    BY <2>1, <2>2, <2>3, <2>4 DEF TakeOut, Wipe
<1> QED
  BY <1>2, <1>3, <1>5, <1>6, Unmoved

LEMMA CallOrigin ==
  ASSUME Custody, Custody', Origin, NEW t \in Callers, NEW verb \in {"spawn", "replace", "stop"},
         NEW id \in Ids, Call(t, verb, id)
  PROVE  Origin'
<1> DEFINE k == [Idle EXCEPT !.verb = verb, !.id = id, !.was = volume[id],
                             !.pc = IF verb = "spawn" THEN "prepare" ELSE "take"]
<1>1. /\ TypeOK /\ Go(t, k) /\ sessions' = sessions /\ boxes' = boxes /\ logs' = logs
      /\ begun' = begun /\ shared' = shared
  BY DEF Custody, Call, seen
<1>2. k.pc \in {"prepare", "take"}
  BY IdleTyped DEF Places
<1> HIDE DEF k
<1>3. \A u \in Callers : Continues(u)
  BY <1>1, <1>2, GoEffect DEF Continues, Starts
<1> QED
  BY <1>1, <1>3, Unmoved

LEMMA RestartOrigin == ASSUME Custody, Custody', Origin, ManagerRestarts PROVE Origin'
<1>1. boxes \in [DOMAIN boxes -> Box]
  BY DEF Custody, TypeOK
<1>2. DOMAIN boxes' = DOMAIN boxes
      /\ \A c \in DOMAIN boxes : /\ boxes'[c].id = boxes[c].id /\ boxes'[c].dir = boxes[c].dir
                                 /\ boxes'[c].dids = boxes[c].dids
  BY <1>1 DEF ManagerRestarts, Box
<1>3. \A u \in Callers : Continues(u)
  BY IdleTyped DEF ManagerRestarts, Continues, Starts
<1>4. begun' = begun /\ shared' = shared /\ logs' = logs
      /\ \A id \in Ids : sessions'[id] = NoSession
  BY DEF ManagerRestarts, seen
<1> QED
  BY <1>2, <1>3, <1>4, Unmoved

LEMMA StepOrigin == Custody /\ Custody' /\ Origin /\ [Next]_vars => Origin'
<1> SUFFICES ASSUME Custody, Custody', Origin, [Next]_vars PROVE Origin'
  OBVIOUS
<1>1. ASSUME NEW t \in Callers, Verb(t) PROVE Origin'
  BY <1>1, PrepareOrigin, CreateOrigin, DiscoverOrigin, InsertOrigin, RestOrigin DEF Verb
<1>2. CASE Tick \/ UNCHANGED vars
  <2>1. /\ op' = op /\ sessions' = sessions /\ boxes' = boxes /\ logs' = logs
        /\ begun' = begun /\ shared' = shared
    BY <1>2 DEF Tick, vars, seen
  <2> QED
    BY <2>1, Unmoved DEF Continues, Starts
<1> QED
  BY <1>1, <1>2, CallOrigin, AgentOrigin, RestartOrigin DEF Next

\* The DID a session reports is one its own container has logged, but for incarnations of
\* one second: whatever is left in the volume or in older logs.
THEOREM SessionsReportTheirDid == Spec => []ReportedDidIsOwn
<1>1. Origin => ReportedDidIsOwn
  BY DEF Origin
<1> QED
  BY InitCustody, StepCustody, InitOrigin, StepOrigin, <1>1, PTL DEF Spec

-----------------------------------------------------------------------------
(***************************************************************************)
(* Rooms.  The invariant says, for each place the main task and the sync    *)
(* task can be in, what the task still knows of the rooms it has in hand,   *)
(* although members, rows and the other task have moved since it read them: *)
(* a room it found was hers at some moment of the operation (once), a room  *)
(* that stayed a 1:1 with her (kept) is still ahead of the search, in it or *)
(* among its finds, and a search counts with the rows there are; each time  *)
(* but for a room that is excused (unread).                                 *)
(***************************************************************************)
Main == act["main"]
Syncer == act["sync"]

\* A task is a record of these fields.
Fields == {"pc", "room", "todo", "rows", "found", "groups", "copy", "pick", "cand", "counts", "then"}
IsTask(a) == a = [f \in Fields |-> a[f]]
Tasked == act = [t \in Tasks |-> act[t]] /\ \A t \in Tasks : IsTask(act[t])

\* Where the two tasks can be: on the way through a connection, in a send, in an event.
Marking == {"mark", "fetch", "write"}
Reading == {"target", "direct", "observer"}
Scans == {"scan"} \cup Reading
Searches == {"pick"} \cup Scans
MainPcs == {"idle", "down", "invites", "count", "repair", "survey", "reconcile", "absent", "leaving",
            "create", "post"} \cup Marking \cup Searches
SyncPcs == {"idle", "invited", "count", "mark", "fetch", "write", "file"}
SendPcs == {"create", "post"} \cup Marking \cup Searches

\* What dm_room_for keeps of a room.
Candidates == [room : Rooms, rank : {1, 2}, prefer : BOOLEAN, observed : BOOLEAN,
               direct : BOOLEAN, pick : BOOLEAN]

\* Types, and the client knows its own membership while it is connected.
World ==
  /\ scenario \in Scenarios
  /\ member \in [Rooms -> [Users -> Standing]]
  /\ view \in [Rooms -> [Users -> Standing]]
  /\ row \in [Rooms -> Observer] /\ dmObs \in [Rooms -> {"none", "eve"}]
  /\ ~IsBridge => \A r \in Rooms : row[r] = "none" /\ dmObs[r] = "none"
  /\ \A r \in Rooms : r \in scenario.listed => member[r]["me"] # "none" \/ member[r]["ann"] # "none"
  /\ \A r \in Rooms : view[r]["me"] = member[r]["me"] \/ (Main.pc = "down" /\ view[r]["me"] = "none")

\* A room kept throughout the operation is hers now.
Keeping == \A r \in kept : r \in Rooms /\ OneToOne(r, row)

\* Which program reaches which place, and where it goes on to.
Phases ==
  /\ Main.pc \in MainPcs
  /\ Main.pc \in {"idle", "down"} => Main.found = {}
  /\ Main.pc \in {"idle", "down"} => Main.then = "idle"
  /\ Main.pc \in {"invites", "count"} => Main.then = "invites"
  /\ Main.pc \in Marking => Main.then \in {"invites", "post"}
  /\ Main.pc \in {"repair", "survey", "count"} \cup Scans => IsBridge
  /\ Main.pc \in {"reconcile", "absent", "leaving"} => ~IsBridge
  /\ Main.pc = "pick" => Main.then = "idle" \/ (Main.then = "hello" /\ ~IsBridge)

\* The invites still to be taken are invites, those taken are joined.
Joining ==
  Main.pc = "invites" \/ (Main.pc \in Marking \cup {"count"} /\ Main.then = "invites") =>
    /\ \A r \in Rooms : r \in Main.todo => view[r]["me"] = "invite"
    /\ \A r \in Main.found : r \in Rooms /\ view[r]["me"] = "join"
InRoom == Main.pc \in Marking \cup Reading \cup {"count", "post"} =>
            Main.room \in Rooms /\ view[Main.room]["me"] = "join"

\* A room that is written to was hers in this operation, one that is recorded since it
\* was taken up.
Marks ==
  /\ Main.pc = "post" => Main.room \in once \cup unread
  /\ Main.pc \in Marking /\ Main.then = "post" => Main.room \in once \cup unread
  /\ Main.pc \in {"fetch", "write"} => was["main"]
  /\ IsBridge /\ Main.pc \in Marking => Main.room \notin scenario.listed

\* A search goes through joined rooms, with the rows it copied at its start.
RowsKnown == \A r \in Rooms : Main.rows[r] = UsableRows(row)[r] \/ r \in unread
Looking ==
  /\ Main.pc \in Searches =>
       /\ Main.rows \in [Rooms -> {"none", "eve"}]
       /\ \A r \in Rooms : r \in Main.todo => view[r]["me"] = "join"
       /\ \A c \in Main.found : c.room \in Rooms /\ view[c.room]["me"] = "join"
       /\ IsBridge => RowsKnown
  /\ Main.pc \in Scans => Main.found \subseteq Candidates

\* The room it reads: it has counted as hers, and once she was found there it was hers.
Counting ==
  /\ Main.pc \in Reading => Main.room \notin scenario.listed
  /\ Main.pc = "target" => Quiet(Main.room) \/ Main.room \in unread
  /\ Main.pc \in {"direct", "observer"} =>
       /\ Main.room \in once \cup unread
       /\ \A c \in Main.cand : c \in Candidates /\ c.room = Main.room

\* What a search found was hers when it was read, and a room that stays a 1:1 is ahead of
\* it, in it or found: so none is left when a room is created.
Sifting ==
  /\ Main.pc \in Scans \/ (Main.pc = "pick" /\ ~IsBridge) =>
       /\ \A c \in Main.found : c.room \in once \cup unread
       /\ \A r \in kept : \/ r \in unread \cup Main.todo
                          \/ \E c \in Main.found : c.room = r
                          \/ Main.pc \in Reading /\ r = Main.room
  /\ Main.pc = "create" => kept \subseteq unread

\* The rooms the relay is about to leave were abandoned; one that is no group by its own
\* list still is none when it is asked whether she left.
Gone ==
  /\ Main.pc \in {"reconcile", "absent"} => Main.found \subseteq dead \cup unread
  /\ Main.pc = "absent" => /\ Main.room \in Rooms
                           /\ \/ Main.room \in unread
                              \/ Main.room \in fetched /\ "eve" \notin ActiveIn(view[Main.room])
  /\ Main.pc = "leaving" => Main.todo \subseteq dead \cup unread

MainInv == Phases /\ Joining /\ InRoom /\ Marks /\ Looking /\ Counting /\ Sifting /\ Gone

\* The sync task handles events only while the main task serves sends, and keeps the
\* same promises of the room it is in.
ServingMain == Main.pc = "idle" \/ (Main.pc \in SendPcs /\ Main.then \in {"idle", "post"})
Syncs ==
  /\ Syncer.pc \in SyncPcs /\ Syncer.then = "idle"
  /\ Syncer.pc # "idle" => ServingMain /\ Syncer.room \in Rooms
  /\ Syncer.pc \in Marking \cup {"count"} => view[Syncer.room]["me"] = "join"
  /\ Syncer.pc = "invited" => view[Syncer.room]["me"] = "invite"
  /\ Syncer.pc = "count" => IsBridge
  /\ Syncer.pc \in Marking /\ IsBridge => Syncer.room \notin scenario.listed
  /\ Syncer.pc \in {"fetch", "write"} => was["sync"]

RoomsInv == Tasked /\ World /\ Keeping /\ MainInv /\ Syncs

-----------------------------------------------------------------------------
(* The effects the actions of Rooms share *)

\* What one step does to the tasks.
LEMMA Going ==
  ASSUME Tasked, NEW t \in Tasks, NEW fields, Proceed(t, fields)
  PROVE  /\ Tasked'
         /\ \A f \in Fields : act'[t][f] = IF f \in DOMAIN fields THEN fields[f] ELSE act[t][f]
         /\ \A u \in Tasks : u # t => act'[u] = act[u]
BY DEF Proceed, Tasked, IsTask, Fields

LEMMA Finishing ==
  ASSUME Tasked, NEW t \in Tasks, Finish(t)
  PROVE  /\ Tasked' /\ act'[t] = NoTask
         /\ \A u \in Tasks : u # t => act'[u] = act[u]
BY DEF Finish, Tasked, IsTask, Fields, NoTask

\* What a step remembers.

\* What a step remembers.
LEMMA Memory ==
  ASSUME NEW E, NEW C, Remember(E, C)
  PROVE  /\ \A r \in Rooms : Hers(r)' => r \in once'
         /\ \A r \in Rooms : Abandoned(r)' => r \in dead'
         /\ Main'.pc \notin Resting => once \subseteq once' /\ dead \subseteq dead' /\ unread \subseteq unread'
         /\ Main'.pc \notin Resting /\ act'["sync"] = act["sync"] => E \subseteq unread'
         /\ \A r \in Rooms : Main'.pc \notin Resting /\ Main.pc = "target" /\ Main.room = r /\ view'[r] # view[r]
                               => r \in unread'
         /\ \A r \in kept' : r \in Rooms /\ OneToOne(r, row)' /\ (Main.pc \in Resting \/ r \in kept)
BY DEF Remember, Torn, Main

LEMMA WasMemory ==
  ASSUME NEW E, NEW C, Remember(E, C), NEW t \in Tasks, NEW r \in Rooms, act'[t].room = r,
         OneToOne(r, dmObs)' \/ (was[t] /\ act[t].room = r)
  PROVE  was'[t]
<1> DEFINE w(u) == \E q \in Rooms :
                     /\ act'[u].room = q
                     /\ OneToOne(q, row)' \/ OneToOne(q, dmObs)' \/ (was[u] /\ act[u].room = q)
<1>1. was' = [u \in Tasks |-> w(u)] BY DEF Remember
<1>2. w(t) OBVIOUS
<1> QED BY <1>1, <1>2

\* Whatever a step does, what it keeps is hers after it.
LEMMA KeepingStep ==
  ASSUME NEW E, NEW C, Remember(E, C)
  PROVE  Keeping'
BY Memory DEF Keeping

\* The rows are those of before, or some have just been edited.
Observing(E) ==
  /\ scenario' = scenario /\ row' \in [Rooms -> Observer]
  /\ row' = row \/ (act' = act /\ fetched' = fetched /\ \A r \in Rooms : r \in E \/ row'[r] = row[r])

\* What a read of a member list leaves.
LEMMA Learning ==
  ASSUME World, NEW r \in Rooms, NEW how, Learn(r, how), Main.pc # "down"
  PROVE  /\ member' = member /\ view' \in [Rooms -> [Users -> Standing]]
         /\ view'[r] = Read(r, how) /\ \A q \in Rooms : q # r => view'[q] = view[q]
         /\ \A q \in Rooms : view'[q]["me"] = view[q]["me"]
BY DEF World, Learn, Read, server, Users

\* A step of the main task leaves the sync task its promises, and the reverse, if no room
\* the other is in is left.
LEMMA SyncsSteady ==
  ASSUME Tasked, World, Syncs, act'["sync"] = act["sync"], NEW E, NEW C, Remember(E, C), Observing(E),
         Syncer.pc # "idle" => /\ ServingMain'
                               /\ \A r \in Rooms : view[r]["me"] \in {"join", "invite"} => view'[r]["me"] = view[r]["me"]
  PROVE  Syncs'
<1>0. "sync" \in Tasks BY DEF Tasks
<1>1. Syncer' = Syncer /\ IsBridge' = IsBridge BY DEF Syncer, IsBridge, Observing
<1>2. CASE Syncer.pc = "idle"
  BY <1>1, <1>2 DEF Syncs, Marking, SyncPcs
<1>3. CASE Syncer.pc # "idle"
  <2>1. Syncer.pc \in {"fetch", "write"} => was'["sync"]
    <3> SUFFICES ASSUME Syncer.pc \in {"fetch", "write"} PROVE was'["sync"] OBVIOUS
    <3>1. was["sync"] /\ Syncer.room \in Rooms BY <1>3 DEF Syncs
    <3>2. PICK r \in Rooms : r = Syncer.room BY <3>1
    <3> QED BY <3>1, <3>2, <1>0, WasMemory DEF Syncer
  <2>2. /\ Syncer.pc \in Marking \cup {"count"} => view'[Syncer.room]["me"] = "join"
        /\ Syncer.pc = "invited" => view'[Syncer.room]["me"] = "invite"
    BY <1>3 DEF Syncs
  <2>3. scenario' = scenario BY DEF Observing
  <2> QED BY <1>1, <1>3, <2>1, <2>2, <2>3 DEF Syncs
<1> QED BY <1>2, <1>3

LEMMA MainSteady ==
  ASSUME Tasked, World, MainInv, act'["main"] = act["main"], NEW E, NEW C, Remember(E, C), Observing(E),
         \A r \in Rooms : view[r]["me"] = "join" => view'[r]["me"] = "join",
         ServingMain \/ UNCHANGED <<view, fetched>>
  PROVE  MainInv'
<1>0. "main" \in Tasks BY DEF Tasks
<1>1. Main' = Main /\ IsBridge' = IsBridge /\ scenario' = scenario BY DEF Main, IsBridge, Observing
<1>2. Phases' BY <1>1 DEF Phases, MainInv
<1>3. Joining'
  BY <1>1 DEF Joining, MainInv, ServingMain, SendPcs, Marking, Searches, Scans, Reading
<1>4. InRoom' BY <1>1 DEF InRoom, MainInv
<1>5. Main.pc \notin Resting => once \subseteq once' /\ dead \subseteq dead' /\ unread \subseteq unread'
  BY <1>1, Memory
<1>6. Main.pc \notin Resting => \A r \in kept' : r \in kept BY <1>1, Memory
<1>7. Main.pc \notin Resting => \A r \in Rooms : row'[r] = row[r] \/ r \in unread'
  <2>1. CASE row' = row BY <2>1
  <2>2. CASE act' = act /\ \A r \in Rooms : r \in E \/ row'[r] = row[r]
    <3>1. Main.pc \notin Resting => E \subseteq unread' BY <2>2, <1>1, Memory
    <3> QED BY <3>1, <2>2
  <2> QED BY <2>1, <2>2 DEF Observing
<1>8. Marks'
  <2>1. Main.pc \in {"fetch", "write"} => was'["main"]
    <3> SUFFICES ASSUME Main.pc \in {"fetch", "write"} PROVE was'["main"] OBVIOUS
    <3>1. was["main"] /\ Main.room \in Rooms BY DEF MainInv, Marks, InRoom, Marking
    <3>2. PICK r \in Rooms : r = Main.room BY <3>1
    <3>3. act'["main"].room = r /\ act["main"].room = r BY <3>2 DEF Main
    <3> QED BY <3>1, <3>3, <1>0, WasMemory
  <2> QED BY <2>1, <1>1, <1>5 DEF Marks, MainInv, Resting, Marking
<1>9. Looking'
  <2>1. Main.pc \in Searches /\ IsBridge => RowsKnown'
    <3> SUFFICES ASSUME Main.pc \in Searches, IsBridge, NEW r \in Rooms
                 PROVE  Main.rows[r] = UsableRows(row')[r] \/ r \in unread'
      BY <1>1 DEF RowsKnown
    <3>1. Main.pc \notin Resting BY DEF Searches, Scans, Reading, Resting
    <3>2. Main.rows[r] = UsableRows(row)[r] \/ r \in unread BY DEF MainInv, Looking, RowsKnown
    <3>3. CASE r \in unread BY <3>1, <3>3, <1>5
    <3>4. CASE Main.rows[r] = UsableRows(row)[r] /\ row'[r] = row[r]
      BY <3>4 DEF UsableRows
    <3> QED BY <3>1, <3>2, <3>3, <3>4, <1>7
  <2> QED BY <2>1, <1>1 DEF Looking, MainInv
<1>10. Counting'
  <2>1. Main.pc = "target" => Quiet(Main.room)' \/ Main.room \in unread'
    <3> SUFFICES ASSUME Main.pc = "target" PROVE Quiet(Main.room)' \/ Main.room \in unread' OBVIOUS
    <3>1. Main.pc \notin Resting BY DEF Resting
    <3>2. PICK r \in Rooms : r = Main.room BY DEF MainInv, InRoom, Reading
    <3>3. CASE r \in unread BY <3>1, <3>2, <3>3, <1>5
    <3>4. CASE Quiet(r) /\ view'[r] = view[r] /\ row'[r] = row[r]
      BY <3>2, <3>4, <1>1 DEF Quiet
    <3>5. CASE view'[r] # view[r] BY <3>1, <3>2, <3>5, <1>1, Memory
    <3> QED BY <3>1, <3>2, <3>3, <3>4, <3>5, <1>1, <1>7 DEF MainInv, Counting
  <2>2. Main.pc \in {"direct", "observer"} => Main.room \in once' \cup unread'
    BY <1>5 DEF MainInv, Counting, Resting
  <2> QED BY <2>1, <2>2, <1>1 DEF Counting, MainInv
<1>11. Sifting'
  <2>1. CASE Main.pc \in Searches \cup {"create"}
    <3>1. Main.pc \notin Resting BY <2>1 DEF Resting, Searches, Scans, Reading
    <3> QED BY <3>1, <1>1, <1>5, <1>6 DEF Sifting, MainInv
  <2>2. CASE Main.pc \notin Searches \cup {"create"}
    BY <2>2, <1>1 DEF Sifting, Searches
  <2> QED BY <2>1, <2>2
<1>12. Gone'
  <2>1. CASE Main.pc \in {"reconcile", "absent", "leaving"}
    <3>1. Main.pc \notin Resting BY <2>1 DEF Resting
    <3>2. UNCHANGED <<view, fetched>> BY <2>1 DEF ServingMain, SendPcs, Marking, Searches, Scans, Reading
    <3> QED BY <3>1, <3>2, <1>1, <1>5 DEF Gone, MainInv
  <2>2. CASE Main.pc \notin {"reconcile", "absent", "leaving"} BY <2>2, <1>1 DEF Gone
  <2> QED BY <2>1, <2>2
<1> QED BY <1>2, <1>3, <1>4, <1>8, <1>9, <1>10, <1>11, <1>12 DEF MainInv

LEMMA ServingFact == ASSUME MainInv, Serving PROVE ServingMain
BY DEF Serving, ServingMain, SendPcs, At, Main, MainInv, Phases, Marking, Searches, Scans, Reading

LEMMA AtMostTwo ==
  ASSUME NEW a, NEW b, NEW A, A \subseteq {a, b}
  PROVE  Cardinality(A) <= 2
<1>1. IsFiniteSet({a}) /\ Cardinality({a}) = 1 BY FS_Singleton
<1>2. IsFiniteSet({a} \cup {b}) /\ Cardinality({a} \cup {b}) \in {1, 2}
  BY <1>1, FS_AddElement
<1>3. {a} \cup {b} = {a, b} OBVIOUS
<1>4. IsFiniteSet({a, b}) /\ Cardinality({a, b}) \in {1, 2} BY <1>2, <1>3
<1>5. IsFiniteSet(A) /\ Cardinality(A) <= Cardinality({a, b}) /\ Cardinality(A) \in Nat
  BY <1>4, FS_Subset, FS_CardinalityType
<1> QED BY <1>4, <1>5

\* Everyone else's steps.
LEMMA ChangeStep ==
  ASSUME RoomsInv, NEW r \in Rooms, NEW u \in Users, NEW s \in Standing, Change(r, u, s)
  PROVE  RoomsInv'
<1>1. act' = act /\ scenario' = scenario /\ row' = row /\ dmObs' = dmObs /\ view' = view /\ fetched' = fetched
      /\ Remember({}, {})
  BY DEF Change, lists
<1>2. Observing({}) BY <1>1 DEF Observing, RoomsInv, World
<1>3. Tasked' BY <1>1 DEF RoomsInv, Tasked, IsTask
<1>4. World'
  <2>1. /\ member' \in [Rooms -> [Users -> Standing]]
        /\ \A q \in Rooms : member'[q]["me"] = member[q]["me"]
        /\ \A q \in Rooms : member'[q]["ann"] = "none" => member[q]["ann"] = "none"
    BY DEF Change, RoomsInv, World, Users
  <2> QED BY <2>1, <1>1 DEF RoomsInv, World, IsBridge, Main
<1>5. Keeping' BY <1>1, KeepingStep
<1>6. MainInv' BY <1>1, <1>2, MainSteady DEF RoomsInv
<1>7. Syncs' BY <1>1, <1>2, SyncsSteady DEF RoomsInv, Syncs, ServingMain, Main
<1> QED BY <1>3, <1>4, <1>5, <1>6, <1>7 DEF RoomsInv

LEMMA EditRowStep ==
  ASSUME RoomsInv, NEW r \in Rooms, NEW o \in Observer, EditRow(r, o)
  PROVE  RoomsInv'
<1>1. act' = act /\ scenario' = scenario /\ dmObs' = dmObs /\ view' = view /\ member' = member
      /\ fetched' = fetched /\ row' = [row EXCEPT ![r] = o] /\ Remember({r}, {}) /\ IsBridge
  BY DEF EditRow, server
<1>2. Observing({r}) BY <1>1 DEF Observing, RoomsInv, World
<1>3. Tasked' BY <1>1 DEF RoomsInv, Tasked, IsTask
<1>4. World' BY <1>1 DEF RoomsInv, World, IsBridge, Main
<1>5. Keeping' BY <1>1, KeepingStep
<1>6. MainInv' BY <1>1, <1>2, MainSteady DEF RoomsInv
<1>7. Syncs' BY <1>1, <1>2, SyncsSteady DEF RoomsInv, Syncs, ServingMain, Main
<1> QED BY <1>3, <1>4, <1>5, <1>6, <1>7 DEF RoomsInv

LEMMA SyncStep ==
  ASSUME RoomsInv, NEW r \in Rooms, Sync(r)
  PROVE  RoomsInv'
<1>1. act' = act /\ scenario' = scenario /\ dmObs' = dmObs /\ row' = row /\ member' = member
      /\ view' = [view EXCEPT ![r] = member[r]] /\ Remember({}, {}) /\ Serving
  BY DEF Sync, lists
<1>2. Observing({}) BY <1>1 DEF Observing, RoomsInv, World
<1>3. Tasked' BY <1>1 DEF RoomsInv, Tasked, IsTask
<1>4. ServingMain /\ Main.pc # "down" BY <1>1, ServingFact DEF RoomsInv, ServingMain, SendPcs, Marking, Searches, Scans, Reading
<1>5. \A q \in Rooms : view'[q]["me"] = view[q]["me"] BY <1>1, <1>4 DEF RoomsInv, World
<1>6. World' BY <1>1, <1>5 DEF RoomsInv, World, IsBridge, Main
<1>7. Keeping' BY <1>1, KeepingStep
<1>8. MainInv' BY <1>1, <1>2, <1>4, <1>5, MainSteady DEF RoomsInv
<1>9. Syncs' BY <1>1, <1>2, <1>5, SyncsSteady DEF RoomsInv, Syncs, ServingMain, Main
<1> QED BY <1>3, <1>6, <1>7, <1>8, <1>9 DEF RoomsInv

LEMMA InviteArrivesStep ==
  ASSUME RoomsInv, NEW r \in Rooms, InviteArrives(r)
  PROVE  RoomsInv'
<1>1. /\ scenario' = scenario /\ dmObs' = dmObs /\ row' = row /\ SetMe(r, "invite") /\ member[r]["me"] = "none"
      /\ Proceed("sync", [pc |-> "invited", room |-> r]) /\ Remember({}, {}) /\ Serving /\ At("sync", "idle")
  BY DEF InviteArrives, lists
<1>2. Observing({}) BY <1>1 DEF Observing, RoomsInv, World
<1>3. Tasked' /\ act'["sync"].pc = "invited" /\ act'["sync"].room = r
      /\ act'["sync"].then = act["sync"].then /\ act'["main"] = act["main"]
  BY <1>1, Going DEF RoomsInv, Tasks, Fields
<1>4. ServingMain /\ Main.pc # "down" BY <1>1, ServingFact DEF RoomsInv, ServingMain, SendPcs, Marking, Searches, Scans, Reading
<1>5. /\ member' \in [Rooms -> [Users -> Standing]] /\ view' \in [Rooms -> [Users -> Standing]]
      /\ view'[r]["me"] = "invite" /\ member'[r]["me"] = "invite"
      /\ \A q \in Rooms : q # r => member'[q] = member[q] /\ view'[q] = view[q]
      /\ view[r]["me"] = "none"
  BY <1>1, <1>4 DEF RoomsInv, World, SetMe, Users, Standing
<1>6. World'
  <2>1. Main' = Main /\ IsBridge' = IsBridge BY <1>1, <1>3 DEF Main, IsBridge
  <2>2. \A q \in Rooms : q \in scenario.listed => member'[q]["me"] # "none" \/ member'[q]["ann"] # "none"
    BY <1>5 DEF RoomsInv, World
  <2>3. \A q \in Rooms : view'[q]["me"] = member'[q]["me"] BY <1>4, <1>5 DEF RoomsInv, World
  <2>4. row' \in [Rooms -> Observer] /\ dmObs' \in [Rooms -> {"none", "eve"}]
        /\ (~IsBridge => \A q \in Rooms : row'[q] = "none" /\ dmObs'[q] = "none")
    BY <1>1 DEF RoomsInv, World
  <2>5. scenario' \in Scenarios BY <1>1 DEF RoomsInv, World
  <2> QED BY <1>1, <1>5, <2>1, <2>2, <2>3, <2>4, <2>5 DEF World
<1>7. Keeping' BY <1>1, KeepingStep
<1>8. \A q \in Rooms : view[q]["me"] = "join" => view'[q]["me"] = "join" BY <1>5
<1>9. MainInv' BY <1>1, <1>2, <1>3, <1>4, <1>8, MainSteady DEF RoomsInv
<1>10. Syncs'
  <2>1. ServingMain' BY <1>3, <1>4 DEF ServingMain, Main
  <2> QED BY <1>3, <1>5, <2>1 DEF RoomsInv, Syncs, SyncPcs, Marking, Syncer
<1> QED BY <1>3, <1>6, <1>7, <1>9, <1>10 DEF RoomsInv

LEMMA JudgeStep ==
  ASSUME RoomsInv, NEW r \in Rooms, Judge(r)
  PROVE  RoomsInv'
<1>0. PICK how, group : Learn(r, how) /\ Proceed("sync", [pc |-> "file", room |-> r, groups |-> group])
  BY DEF Judge
<1>1. /\ scenario' = scenario /\ dmObs' = dmObs /\ row' = row
      /\ Remember({}, {r} \cap ever) /\ Serving /\ At("sync", "idle")
  BY DEF Judge, lists
<1>2. Observing({}) BY <1>1 DEF Observing, RoomsInv, World
<1>3. Tasked' /\ act'["sync"].pc = "file" /\ act'["sync"].room = r
      /\ act'["sync"].then = act["sync"].then /\ act'["main"] = act["main"]
  BY <1>0, Going DEF RoomsInv, Tasks, Fields
<1>4. ServingMain /\ Main.pc # "down" BY <1>1, ServingFact DEF RoomsInv, ServingMain, SendPcs, Marking, Searches, Scans, Reading
<1>5. /\ member' = member /\ view' \in [Rooms -> [Users -> Standing]]
      /\ \A q \in Rooms : view'[q]["me"] = view[q]["me"]
  BY <1>0, <1>4, Learning DEF RoomsInv
<1>6. World'
  <2>1. Main' = Main /\ IsBridge' = IsBridge BY <1>1, <1>3 DEF Main, IsBridge
  <2> QED BY <1>1, <1>5, <2>1 DEF RoomsInv, World
<1>7. Keeping' BY <1>1, KeepingStep
<1>9. MainInv' BY <1>1, <1>2, <1>3, <1>4, <1>5, MainSteady DEF RoomsInv
<1>10. Syncs'
  <2>1. ServingMain' BY <1>3, <1>4 DEF ServingMain, Main
  <2> QED BY <1>3, <1>5, <2>1 DEF RoomsInv, Syncs, SyncPcs, Marking, Syncer
<1> QED BY <1>3, <1>6, <1>7, <1>9, <1>10 DEF RoomsInv

LEMMA SyncFinishes ==
  ASSUME RoomsInv, Finish("sync"), NEW E, NEW C, Remember(E, C), UNCHANGED <<scenario, row, dmObs>>,
         member' \in [Rooms -> [Users -> Standing]], view' \in [Rooms -> [Users -> Standing]],
         ServingMain,
         \A r \in Rooms : view'[r]["me"] = member'[r]["me"],
         \A r \in Rooms : member[r]["me"] # "none" => member'[r]["me"] # "none",
         \A r \in Rooms : member[r]["ann"] # "none" => member'[r]["ann"] # "none",
         \A r \in Rooms : view[r]["me"] = "join" => view'[r]["me"] = "join"
  PROVE  RoomsInv'
<1>1. Observing(E) BY DEF Observing, RoomsInv, World
<1>2. Tasked' /\ act'["sync"] = NoTask /\ act'["main"] = act["main"]
  BY Finishing DEF RoomsInv, Tasks
<1>3. World'
  <2>1. Main' = Main /\ IsBridge' = IsBridge BY <1>2 DEF Main, IsBridge
  <2> QED BY <2>1 DEF RoomsInv, World
<1>4. Keeping' BY KeepingStep
<1>5. MainInv' BY <1>1, <1>2, MainSteady DEF RoomsInv
<1>6. Syncs' BY <1>2 DEF Syncs, Syncer, NoTask, SyncPcs, Marking
<1> QED BY <1>2, <1>3, <1>4, <1>5, <1>6 DEF RoomsInv

LEMMA ServingHere ==
  ASSUME RoomsInv, Syncer.pc # "idle"
  PROVE  ServingMain /\ Main.pc # "down" /\ \A r \in Rooms : view[r]["me"] = member[r]["me"]
<1>1. ServingMain BY DEF RoomsInv, Syncs
<1>2. Main.pc # "down" BY <1>1 DEF ServingMain, SendPcs, Marking, Searches, Scans, Reading
<1> QED BY <1>1, <1>2 DEF RoomsInv, World

LEMMA FileMessageStep ==
  ASSUME RoomsInv, FileMessage
  PROVE  RoomsInv'
<1>1. Finish("sync") /\ Remember({}, {}) /\ UNCHANGED <<scenario, row, dmObs, member, view>> /\ Syncer.pc # "idle"
  BY DEF FileMessage, lists, server, At, Syncer
<1>2. ServingMain /\ \A r \in Rooms : view[r]["me"] = member[r]["me"] BY <1>1, ServingHere
<1> QED BY <1>1, <1>2, SyncFinishes DEF RoomsInv, World

LEMMA EndCycleStep ==
  ASSUME RoomsInv, EndCycle
  PROVE  RoomsInv'
<1>1. /\ act' = [main |-> [NoTask EXCEPT !.pc = "down"], sync |-> NoTask]
      /\ Remember({}, {}) /\ UNCHANGED <<scenario, row, dmObs, member, view>>
  BY DEF EndCycle, lists, server
<1>2. /\ Tasked' /\ act'["main"] = [NoTask EXCEPT !.pc = "down"] /\ act'["sync"] = NoTask
  <2>1. act'["main"] = [NoTask EXCEPT !.pc = "down"] /\ act'["sync"] = NoTask /\ act' = [t \in Tasks |-> act'[t]]
    BY <1>1 DEF Tasks
  <2>2. IsTask(NoTask) /\ IsTask([NoTask EXCEPT !.pc = "down"]) BY DEF IsTask, Fields, NoTask
  <2> QED BY <2>1, <2>2 DEF Tasked, Tasks, IsTask
<1>3. act'["main"].pc = "down" /\ act'["main"].found = {} /\ act'["main"].then = "idle" BY <1>2 DEF NoTask
<1>4. World' BY <1>1, <1>3, EndCycle DEF RoomsInv, World, IsBridge, Main, At, EndCycle
<1>5. Keeping' BY <1>1, KeepingStep
<1>6. MainInv'
  BY <1>3 DEF MainInv, Phases, Joining, InRoom, Marks, Looking, Counting, Sifting, Gone, Main, MainPcs,
              Marking, Searches, Scans, Reading
<1>7. Syncs' BY <1>2 DEF Syncs, Syncer, NoTask, SyncPcs, Marking
<1> QED BY <1>2, <1>4, <1>5, <1>6, <1>7 DEF RoomsInv
\* What a task goes on to.
LEMMA Thens ==
  ASSUME Tasked, NEW t \in Tasks, NEW next, Then(t, next)
  PROVE  /\ Tasked' /\ \A u \in Tasks : u # t => act'[u] = act[u]
         /\ next = "idle" => act'[t] = NoTask
         /\ next # "idle" => /\ act'[t].pc = next /\ act'[t].then = act[t].then
                             /\ act'[t].todo = act[t].todo /\ act'[t].found = act[t].found
                             /\ next # "invites" => act'[t].room = act[t].room
<1>1. CASE next = "idle" BY <1>1, Finishing DEF Then
<1>2. CASE next # "idle"
  <2>1. Proceed(t, [pc |-> next, copy |-> {}, room |-> IF next = "invites" THEN 0 ELSE act[t].room])
    BY <1>2 DEF Then
  <2> QED BY <1>2, <2>1, Going DEF Fields
<1> QED BY <1>1, <1>2

\* Nothing but members, the client's view and the observers in force moves.
LEMMA WorldStep ==
  ASSUME World, UNCHANGED <<scenario, row>>, dmObs' = dmObs \/ SyncObservers,
         member' \in [Rooms -> [Users -> Standing]], view' \in [Rooms -> [Users -> Standing]],
         \A r \in Rooms : view'[r]["me"] = member'[r]["me"],
         \A r \in Rooms : member[r]["me"] # "none" => member'[r]["me"] # "none",
         \A r \in Rooms : member[r]["ann"] # "none" => member'[r]["ann"] # "none"
  PROVE  World' /\ \A E : Observing(E)
<1>1. dmObs' \in [Rooms -> {"none", "eve"}] /\ (~IsBridge => \A r \in Rooms : dmObs'[r] = "none")
  BY DEF SyncObservers, UsableRows, World, Observer
<1> QED BY <1>1 DEF World, Observing, SyncObservers, UsableRows, IsBridge

LEMMA SyncMoves ==
  ASSUME RoomsInv, Tasked', act'["main"] = act["main"], NEW E, NEW C, Remember(E, C),
         World', Observing(E), ServingMain, Syncs',
         \A r \in Rooms : view[r]["me"] = "join" => view'[r]["me"] = "join"
  PROVE  RoomsInv'
<1>1. Keeping' BY KeepingStep
<1>2. MainInv' BY MainSteady DEF RoomsInv
<1> QED BY <1>1, <1>2 DEF RoomsInv

\* What a verdict finds to be a 1:1 is one.
LEMMA HersNow ==
  ASSUME World', NEW r \in Rooms, view'[r]["me"] = "join", IsBridge' => r \notin scenario'.listed,
         RankOf(Verdict(view'[r], dmObs'[r])) > 0
  PROVE  OneToOne(r, dmObs)'
<1>1. ~("eve" \in ActiveIn(view'[r]) /\ dmObs'[r] # "eve") /\ view'[r]["ann"] \in {"join", "invite"}
  BY DEF RankOf, Verdict
<1> QED BY <1>1 DEF OneToOne, Open, ActiveIn, Users

LEMMA TakeInviteSync ==
  ASSUME RoomsInv, NEW r \in Rooms, TakeInvite("sync", r)
  PROVE  RoomsInv'
<1>1. /\ Syncer.pc = "invited" /\ r = Syncer.room /\ UNCHANGED <<scenario, row, dmObs>> /\ Remember({}, {})
  BY DEF TakeInvite, At, Syncer, lists
<1>2. PICK known, ok :
        LET d == Decision("sync", r, known) IN
         \/ d = "join" /\ ok /\ SetMe(r, "join")
            /\ IF IsBridge THEN Proceed("sync", [pc |-> "count", room |-> r, todo |-> act["sync"].todo \ {r}])
               ELSE Proceed("sync", [pc |-> "mark"])
         \/ d = "decline" /\ ok /\ SetMe(r, "leave") /\ Finish("sync")
         \/ (d = "ignore" \/ ~ok) /\ UNCHANGED <<member, view>> /\ Finish("sync")
  BY DEF TakeInvite
<1>3. ServingMain /\ Main.pc # "down" /\ \A q \in Rooms : view[q]["me"] = member[q]["me"]
  BY <1>1, ServingHere
<1>4. view[r]["me"] = "invite" /\ member[r]["me"] = "invite" BY <1>1, <1>3 DEF RoomsInv, Syncs
<1>5. (\E s \in {"join", "leave"} : SetMe(r, s)) \/ UNCHANGED <<member, view>> BY <1>2
<1>6. /\ member' \in [Rooms -> [Users -> Standing]] /\ view' \in [Rooms -> [Users -> Standing]]
      /\ \A q \in Rooms : view'[q]["me"] = member'[q]["me"]
      /\ \A q \in Rooms : member[q]["me"] # "none" => member'[q]["me"] # "none"
      /\ \A q \in Rooms : member[q]["ann"] # "none" => member'[q]["ann"] # "none"
      /\ \A q \in Rooms : view[q]["me"] = "join" => view'[q]["me"] = "join"
  <2>1. CASE UNCHANGED <<member, view>> BY <2>1, <1>3 DEF RoomsInv, World
  <2>2. ASSUME NEW s \in {"join", "leave"}, SetMe(r, s)
        PROVE  /\ member' \in [Rooms -> [Users -> Standing]] /\ view' \in [Rooms -> [Users -> Standing]]
               /\ view'[r]["me"] = s /\ member'[r]["me"] = s /\ member'[r]["ann"] = member[r]["ann"]
               /\ \A q \in Rooms : q # r => member'[q] = member[q] /\ view'[q] = view[q]
    BY <2>2 DEF SetMe, RoomsInv, World, Users, Standing
  <2>3. ASSUME NEW s \in {"join", "leave"}, SetMe(r, s) PROVE <1>6!:
    BY <2>3, <2>2, <1>3, <1>4
  <2> QED BY <1>5, <2>1, <2>3
<1>7. World' /\ \A E : Observing(E) BY <1>1, <1>6, WorldStep DEF RoomsInv
<1>8. CASE Finish("sync")
  BY <1>8, <1>1, <1>3, <1>6, SyncFinishes DEF RoomsInv
<1>9. CASE IsBridge /\ SetMe(r, "join") /\ Proceed("sync", [pc |-> "count", room |-> r, todo |-> act["sync"].todo \ {r}])
  <2>1. Tasked' /\ act'["sync"].pc = "count" /\ act'["sync"].room = r
        /\ act'["sync"].then = act["sync"].then /\ act'["main"] = act["main"]
    BY <1>9, Going DEF RoomsInv, Tasks, Fields
  <2>2. view'[r]["me"] = "join" BY <1>9 DEF SetMe, RoomsInv, World, Users
  <2>3. ServingMain' BY <2>1, <1>3 DEF ServingMain, Main
  <2>4. IsBridge' BY <1>9, <1>1 DEF IsBridge
  <2>5. Syncs' BY <2>1, <2>2, <2>3, <2>4 DEF RoomsInv, Syncs, SyncPcs, Marking, Syncer
  <2> QED BY <2>1, <2>5, <1>1, <1>3, <1>6, <1>7, SyncMoves
<1>10. CASE ~IsBridge /\ SetMe(r, "join") /\ Proceed("sync", [pc |-> "mark"])
  <2>1. Tasked' /\ act'["sync"].pc = "mark" /\ act'["sync"].room = act["sync"].room
        /\ act'["sync"].then = act["sync"].then /\ act'["main"] = act["main"]
    BY <1>10, Going DEF RoomsInv, Tasks, Fields
  <2>2. view'[r]["me"] = "join" BY <1>10 DEF SetMe, RoomsInv, World, Users
  <2>3. ServingMain' BY <2>1, <1>3 DEF ServingMain, Main
  <2>4. ~IsBridge' BY <1>10, <1>1 DEF IsBridge
  <2>5. Syncs' BY <2>1, <2>2, <2>3, <2>4, <1>1 DEF RoomsInv, Syncs, SyncPcs, Marking, Syncer
  <2> QED BY <2>1, <2>5, <1>1, <1>3, <1>6, <1>7, SyncMoves
<1> QED BY <1>2, <1>8, <1>9, <1>10

LEMMA CountJoinedSync ==
  ASSUME RoomsInv, CountJoined("sync")
  PROVE  RoomsInv'
<1> DEFINE r == act["sync"].room
           next == IF InviteAction(r) = "dm" THEN "mark" ELSE act["sync"].then
<1>1. PICK how \in Answers(r) :
        /\ Learn(r, how) /\ Then("sync", next)
        /\ UNCHANGED <<scenario, row>> /\ Remember(Unread(r, how, UsableRows(row)), {r})
  BY DEF CountJoined, lists
<1>2. Syncer.pc = "count" /\ SyncObservers BY DEF CountJoined, At, Syncer
<1>3. ServingMain /\ Main.pc # "down" /\ \A q \in Rooms : view[q]["me"] = member[q]["me"]
  BY <1>2, ServingHere
<1>4. r \in Rooms /\ view[r]["me"] = "join" /\ IsBridge /\ act["sync"].then = "idle"
  BY <1>2 DEF RoomsInv, Syncs, Syncer
<1> HIDE DEF r
<1>5. /\ member' = member /\ view' \in [Rooms -> [Users -> Standing]]
      /\ \A q \in Rooms : view'[q]["me"] = view[q]["me"]
  BY <1>1, <1>3, <1>4, Learning DEF RoomsInv
<1>6. World' /\ \A E : Observing(E)
  <2>1. member' \in [Rooms -> [Users -> Standing]] BY <1>5 DEF RoomsInv, World
  <2> QED BY <2>1, <1>1, <1>2, <1>3, <1>5, WorldStep DEF RoomsInv
<1> HIDE DEF next
<1>8. /\ Tasked' /\ act'["main"] = act["main"]
      /\ next = "idle" => act'["sync"] = NoTask
      /\ next # "idle" => act'["sync"].pc = next /\ act'["sync"].then = act["sync"].then
                          /\ (next # "invites" => act'["sync"].room = act["sync"].room)
  BY <1>1, Thens DEF RoomsInv, Tasks
<1>9. next = "idle" \/ (next = "mark" /\ r \notin scenario.listed) BY <1>4 DEF next, InviteAction
<1>10. Syncs'
  <2>1. CASE next = "idle" BY <2>1, <1>8 DEF Syncs, Syncer, NoTask, SyncPcs, Marking
  <2>2. CASE next = "mark" /\ r \notin scenario.listed
    <3>1. act'["sync"].pc = "mark" /\ act'["sync"].then = "idle" /\ act'["sync"].room = r
      BY <2>2, <1>8, <1>4 DEF r
    <3>2. ServingMain' BY <1>8, <1>3 DEF ServingMain, Main
    <3>3. view'[r]["me"] = "join" /\ r \notin scenario'.listed BY <1>1, <1>4, <1>5, <2>2
    <3> QED BY <3>1, <3>2, <3>3, <1>4 DEF Syncs, SyncPcs, Marking, Syncer
  <2> QED BY <1>9, <2>1, <2>2
<1> QED BY <1>1, <1>3, <1>5, <1>6, <1>8, <1>10, SyncMoves

LEMMA MarkSync ==
  ASSUME RoomsInv, Mark("sync")
  PROVE  RoomsInv'
<1>0. Mark("sync") /\ act["sync"].room \in Rooms BY DEF Mark, At, Syncer, RoomsInv, Syncs
<1>a. PICK r \in Rooms : r = act["sync"].room BY <1>0
<1>1. PICK how \in Answers(r) :
        /\ Learn(r, how)
        /\ Then("sync", IF how # "unknown" /\ RankOf(Verdict(Read(r, how), dmObs[r])) > 0
                        THEN "fetch" ELSE act["sync"].then)
  BY <1>a DEF Mark
<1>2. Syncer.pc = "mark" /\ UNCHANGED <<scenario, row, dmObs>> /\ Remember({}, {}) BY DEF Mark, At, Syncer, lists
<1>3. ServingMain /\ Main.pc # "down" /\ \A q \in Rooms : view[q]["me"] = member[q]["me"]
  BY <1>2, ServingHere
<1>4. r \in Rooms /\ view[r]["me"] = "join" /\ act["sync"].then = "idle"
      /\ (IsBridge => r \notin scenario.listed)
  BY <1>2, <1>a DEF RoomsInv, Syncs, Syncer, Marking
<1>5. /\ member' = member /\ view' \in [Rooms -> [Users -> Standing]]
      /\ \A q \in Rooms : view'[q]["me"] = view[q]["me"]
      /\ view'[r] = Read(r, how)
  BY <1>1, <1>3, <1>4, Learning DEF RoomsInv
<1>6. World' /\ \A E : Observing(E)
  <2>1. member' \in [Rooms -> [Users -> Standing]] BY <1>5 DEF RoomsInv, World
  <2> QED BY <2>1, <1>2, <1>3, <1>5, WorldStep DEF RoomsInv
<1>7. CASE Then("sync", "idle")
  <2>1. Tasked' /\ act'["main"] = act["main"] /\ act'["sync"] = NoTask BY <1>7, Thens DEF RoomsInv, Tasks
  <2>2. Syncs' BY <2>1 DEF Syncs, Syncer, NoTask, SyncPcs, Marking
  <2> QED BY <2>1, <2>2, <1>2, <1>3, <1>5, <1>6, SyncMoves
<1>8. CASE Then("sync", "fetch") /\ RankOf(Verdict(Read(r, how), dmObs[r])) > 0
  <2>1. Tasked' /\ act'["main"] = act["main"] /\ act'["sync"].pc = "fetch"
        /\ act'["sync"].then = "idle" /\ act'["sync"].room = r
    BY <1>8, <1>4, <1>a, Thens DEF RoomsInv, Tasks
  <2>2. view'[r]["me"] = "join" /\ (IsBridge' => r \notin scenario'.listed)
    BY <1>2, <1>4, <1>5 DEF IsBridge
  <2>3. RankOf(Verdict(view'[r], dmObs'[r])) > 0 BY <1>2, <1>5, <1>8
  <2>4. OneToOne(r, dmObs)' BY <2>2, <2>3, <1>4, <1>6, HersNow
  <2>5. was'["sync"] BY <2>1, <2>4, <1>2, <1>4, WasMemory DEF Tasks
  <2>6. ServingMain' BY <2>1, <1>3 DEF ServingMain, Main
  <2>7. IsBridge' = IsBridge BY <1>2 DEF IsBridge
  <2>8. Syncs' BY <2>1, <2>2, <2>5, <2>6, <2>7, <1>2, <1>4 DEF Syncs, SyncPcs, Marking, Syncer
  <2> QED BY <2>1, <2>8, <1>2, <1>3, <1>5, <1>6, SyncMoves
<1> QED BY <1>1, <1>4, <1>7, <1>8

LEMMA FetchDirectSync ==
  ASSUME RoomsInv, FetchDirect("sync")
  PROVE  RoomsInv'
<1> DEFINE r == act["sync"].room
<1>1. /\ Syncer.pc = "fetch" /\ UNCHANGED <<scenario, row, dmObs, member, view>> /\ Remember({}, {})
      /\ (Then("sync", act["sync"].then) \/ Proceed("sync", [pc |-> "write", copy |-> mdirect]))
  BY DEF FetchDirect, At, Syncer, lists, server
<1>2. ServingMain /\ Main.pc # "down" /\ \A q \in Rooms : view[q]["me"] = member[q]["me"]
  BY <1>1, ServingHere
<1>3. r \in Rooms /\ view[r]["me"] = "join" /\ act["sync"].then = "idle" /\ was["sync"]
      /\ (IsBridge => r \notin scenario.listed)
  BY <1>1 DEF RoomsInv, Syncs, Syncer, Marking
<1>4. World' /\ \A E : Observing(E) BY <1>1, <1>2, WorldStep DEF RoomsInv, World
<1>5. CASE Then("sync", act["sync"].then)
  <2>1. Tasked' /\ act'["main"] = act["main"] /\ act'["sync"] = NoTask BY <1>3, <1>5, Thens DEF RoomsInv, Tasks
  <2>2. Syncs' BY <2>1 DEF Syncs, Syncer, NoTask, SyncPcs, Marking
  <2> QED BY <2>1, <2>2, <1>1, <1>2, <1>4, SyncMoves
<1>6. CASE Proceed("sync", [pc |-> "write", copy |-> mdirect])
  <2>1. Tasked' /\ act'["main"] = act["main"] /\ act'["sync"].pc = "write"
        /\ act'["sync"].then = "idle" /\ act'["sync"].room = r
    BY <1>6, <1>3, Going DEF RoomsInv, Tasks, Fields
  <2>2. was'["sync"] BY <2>1, <1>1, <1>3, WasMemory DEF Tasks
  <2>3. ServingMain' /\ IsBridge' = IsBridge BY <2>1, <1>1, <1>2 DEF ServingMain, Main, IsBridge
  <2>4. Syncs' BY <2>1, <2>2, <2>3, <1>1, <1>3 DEF Syncs, SyncPcs, Marking, Syncer
  <2> QED BY <2>1, <2>4, <1>1, <1>2, <1>4, SyncMoves
<1> QED BY <1>1, <1>5, <1>6

LEMMA WriteDirectSync ==
  ASSUME RoomsInv, WriteDirect("sync")
  PROVE  RoomsInv'
<1>1. /\ Syncer.pc = "write" /\ UNCHANGED <<scenario, row, dmObs, member, view>> /\ Remember({}, {})
      /\ Then("sync", act["sync"].then)
  BY DEF WriteDirect, At, Syncer, lists, server
<1>2. ServingMain /\ Main.pc # "down" /\ \A q \in Rooms : view[q]["me"] = member[q]["me"]
  BY <1>1, ServingHere
<1>3. act["sync"].then = "idle" BY DEF RoomsInv, Syncs, Syncer
<1>4. World' /\ \A E : Observing(E) BY <1>1, <1>2, WorldStep DEF RoomsInv, World
<1>5. Tasked' /\ act'["main"] = act["main"] /\ act'["sync"] = NoTask BY <1>1, <1>3, Thens DEF RoomsInv, Tasks
<1>6. Syncs' BY <1>5 DEF Syncs, Syncer, NoTask, SyncPcs, Marking
<1> QED BY <1>1, <1>2, <1>4, <1>5, <1>6, SyncMoves

\* What the invariant asks of each place the program can be in.
LEMMA ToRest ==
  ASSUME Main'.pc \in {"down", "idle"}, Main'.found = {}, Main'.then = "idle"
  PROVE  MainInv'
BY DEF MainInv, Phases, Joining, InRoom, Marks, Looking, Counting, Sifting, Gone, MainPcs, Marking,
       Searches, Scans, Reading

LEMMA ToInvites ==
  ASSUME Main'.pc \in {"invites", "count"}, Main'.then = "invites",
         \A r \in Rooms : r \in Main'.todo => view'[r]["me"] = "invite",
         \A r \in Main'.found : r \in Rooms /\ view'[r]["me"] = "join",
         Main'.pc = "count" => IsBridge' /\ Main'.room \in Rooms /\ view'[Main'.room]["me"] = "join"
  PROVE  MainInv'
BY DEF MainInv, Phases, Joining, InRoom, Marks, Looking, Counting, Sifting, Gone, MainPcs, Marking,
       Searches, Scans, Reading

LEMMA ToMarking ==
  ASSUME Main'.pc \in Marking, Main'.room \in Rooms, view'[Main'.room]["me"] = "join",
         \/ /\ Main'.then = "invites"
            /\ \A r \in Rooms : r \in Main'.todo => view'[r]["me"] = "invite"
            /\ \A r \in Main'.found : r \in Rooms /\ view'[r]["me"] = "join"
         \/ Main'.then = "post" /\ Main'.room \in once' \cup unread',
         Main'.pc # "mark" => was'["main"],
         IsBridge' => Main'.room \notin scenario'.listed
  PROVE  MainInv'
BY DEF MainInv, Phases, Joining, InRoom, Marks, Looking, Counting, Sifting, Gone, MainPcs, Marking,
       Searches, Scans, Reading

LEMMA ToRepair ==
  ASSUME Main'.pc \in {"repair", "survey"}, IsBridge'
  PROVE  MainInv'
BY DEF MainInv, Phases, Joining, InRoom, Marks, Looking, Counting, Sifting, Gone, MainPcs, Marking,
       Searches, Scans, Reading

LEMMA ToReconcile ==
  ASSUME Main'.pc \in {"reconcile", "absent", "leaving"}, ~IsBridge',
         Main'.pc \in {"reconcile", "absent"} => Main'.found \subseteq dead' \cup unread',
         Main'.pc = "absent" =>
           /\ Main'.room \in Rooms
           /\ Main'.room \in unread'
              \/ (Main'.room \in fetched' /\ "eve" \notin ActiveIn(view'[Main'.room])),
         Main'.pc = "leaving" => Main'.todo \subseteq dead' \cup unread'
  PROVE  MainInv'
BY DEF MainInv, Phases, Joining, InRoom, Marks, Looking, Counting, Sifting, Gone, MainPcs, Marking,
       Searches, Scans, Reading

\* The rows a search copied and the rooms before it.
Ahead ==
  /\ Main.rows \in [Rooms -> {"none", "eve"}]
  /\ \A r \in Rooms : r \in Main.todo => view[r]["me"] = "join"
  /\ \A c \in Main.found : c.room \in Rooms /\ view[c.room]["me"] = "join"
  /\ IsBridge => RowsKnown

LEMMA ToLooking ==
  ASSUME Main'.pc \in {"pick", "scan"}, Ahead',
         Main'.pc = "pick" => Main'.then = "idle" \/ (Main'.then = "hello" /\ ~IsBridge'),
         Main'.pc = "scan" => IsBridge' /\ Main'.found \subseteq Candidates,
         Main'.pc = "scan" \/ ~IsBridge' =>
           /\ \A c \in Main'.found : c.room \in once' \cup unread'
           /\ \A r \in kept' : r \in unread' \cup Main'.todo \/ \E c \in Main'.found : c.room = r
  PROVE  MainInv'
BY DEF Ahead, MainInv, Phases, Joining, InRoom, Marks, Looking, Counting, Sifting, Gone, MainPcs, Marking,
       Searches, Scans, Reading

LEMMA ToReading ==
  ASSUME Main'.pc \in Reading, Ahead', IsBridge', Main'.found \subseteq Candidates,
         \A c \in Main'.found : c.room \in once' \cup unread',
         \A r \in kept' : \/ r \in unread' \cup Main'.todo \/ r = Main'.room
                          \/ \E c \in Main'.found : c.room = r,
         Main'.room \in Rooms, view'[Main'.room]["me"] = "join", Main'.room \notin scenario'.listed,
         Main'.pc = "target" => Quiet(Main.room)' \/ Main'.room \in unread',
         Main'.pc \in {"direct", "observer"} =>
           /\ Main'.room \in once' \cup unread'
           /\ \A c \in Main'.cand : c \in Candidates /\ c.room = Main'.room
  PROVE  MainInv'
BY DEF Ahead, MainInv, Phases, Joining, InRoom, Marks, Looking, Counting, Sifting, Gone, MainPcs, Marking,
       Searches, Scans, Reading

LEMMA ToSend ==
  ASSUME Main'.pc \in {"create", "post"},
         Main'.pc = "create" => kept' \subseteq unread',
         Main'.pc = "post" => /\ Main'.room \in Rooms /\ view'[Main'.room]["me"] = "join"
                              /\ Main'.room \in once' \cup unread'
  PROVE  MainInv'
BY DEF MainInv, Phases, Joining, InRoom, Marks, Looking, Counting, Sifting, Gone, MainPcs, Marking,
       Searches, Scans, Reading

LEMMA MainMoves ==
  ASSUME RoomsInv, Tasked', act'["sync"] = act["sync"], NEW E, NEW C, Remember(E, C),
         World', Observing(E), MainInv',
         Syncer.pc # "idle" => /\ ServingMain'
                               /\ \A r \in Rooms : view[r]["me"] \in {"join", "invite"} => view'[r]["me"] = view[r]["me"]
  PROVE  RoomsInv'
<1>1. Keeping' BY KeepingStep
<1>2. Syncs' BY SyncsSteady DEF RoomsInv
<1> QED BY <1>1, <1>2 DEF RoomsInv

\* A read by the main task.
LEMMA LearnMain ==
  ASSUME RoomsInv, Main.pc # "down", NEW r \in Rooms, NEW how, Learn(r, how), UNCHANGED <<scenario, row>>,
         dmObs' = dmObs \/ SyncObservers
  PROVE  /\ World' /\ (\A E : Observing(E)) /\ view'[r] = Read(r, how)
         /\ \A q \in Rooms : view'[q]["me"] = view[q]["me"]
<1>1. /\ member' = member /\ view' \in [Rooms -> [Users -> Standing]]
      /\ view'[r] = Read(r, how) /\ \A q \in Rooms : view'[q]["me"] = view[q]["me"]
  BY Learning DEF RoomsInv
<1>2. member' \in [Rooms -> [Users -> Standing]] /\ \A q \in Rooms : view[q]["me"] = member[q]["me"]
  BY <1>1 DEF RoomsInv, World
<1> QED BY <1>1, <1>2, WorldStep DEF RoomsInv

\* A step that leaves members alone.
LEMMA SameMembers ==
  ASSUME RoomsInv, Main.pc # "down", UNCHANGED <<scenario, row, member, view>>, dmObs' = dmObs \/ SyncObservers
  PROVE  World' /\ \A E : Observing(E)
<1>1. member' \in [Rooms -> [Users -> Standing]] /\ view' \in [Rooms -> [Users -> Standing]]
      /\ \A r \in Rooms : view'[r]["me"] = member'[r]["me"]
  BY DEF RoomsInv, World
<1> QED BY <1>1, WorldStep DEF RoomsInv

LEMMA Alone == ASSUME RoomsInv, ~ServingMain PROVE Syncer.pc = "idle"
BY DEF RoomsInv, Syncs

\* While it connects the main task serves nobody.
LEMMA Unserving ==
  ASSUME RoomsInv, Main.pc \in {"down", "invites", "count", "repair", "survey", "reconcile", "absent", "leaving"}
  PROVE  Syncer.pc = "idle"
BY Alone DEF ServingMain, SendPcs, Marking, Searches, Scans, Reading

LEMMA KnownFacts ==
  ASSUME World, view' = Known
  PROVE  /\ view' \in [Rooms -> [Users -> Standing]]
         /\ \A r \in Rooms : view'[r]["me"] = member[r]["me"] /\ Known[r]["me"] = member[r]["me"]
BY DEF World, Known, Seen, Users, Standing

LEMMA UsableType == ASSUME World PROVE UsableRows(row) \in [Rooms -> {"none", "eve"}]
BY DEF World, UsableRows, Observer

LEMMA ConnectStep ==
  ASSUME RoomsInv, Connect
  PROVE  RoomsInv'
<1>1. /\ Main.pc = "down" /\ view' = Known /\ UNCHANGED <<scenario, row, member>> /\ Remember({}, {})
  BY DEF Connect, At, Main, lists
<1>2. Syncer.pc = "idle" BY <1>1, Unserving
<1>3. dmObs' = dmObs \/ SyncObservers BY DEF Connect
<1>4. /\ view' \in [Rooms -> [Users -> Standing]] /\ \A r \in Rooms : view'[r]["me"] = member[r]["me"] /\ Known[r]["me"] = member[r]["me"]
  BY <1>1, KnownFacts DEF RoomsInv
<1>5. World' /\ \A E : Observing(E)
  BY <1>1, <1>3, <1>4, WorldStep DEF RoomsInv, World
<1>6. CASE scenario.app = "secondary"
  <2>1. Proceed("main", [pc |-> "survey", rows |-> UsableRows(row),
                           todo |-> {r \in Rooms : Known[r]["me"] = "join"}])
    BY <1>6 DEF Connect
  <2>2. Tasked' /\ act'["sync"] = act["sync"] /\ Main'.pc = "survey"
    BY <2>1, Going DEF RoomsInv, Tasks, Fields, Main
  <2>3. IsBridge' BY <1>1, <1>6 DEF IsBridge, Bridges
  <2>4. MainInv' BY <2>2, <2>3, ToRepair
  <2> QED BY <2>2, <2>4, <1>1, <1>2, <1>5, MainMoves
<1>7. CASE scenario.app # "secondary"
  <2>1. Proceed("main", [pc |-> "invites", then |-> "invites", todo |-> {r \in Rooms : Known[r]["me"] = "invite"}])
    BY <1>7 DEF Connect
  <2>2. Tasked' /\ act'["sync"] = act["sync"] /\ Main'.pc = "invites" /\ Main'.then = "invites"
        /\ Main'.todo = {r \in Rooms : Known[r]["me"] = "invite"} /\ Main'.found = Main.found
    BY <2>1, Going DEF RoomsInv, Tasks, Fields, Main
  <2>3. Main.found = {} BY <1>1 DEF RoomsInv, MainInv, Phases
  <2>4. MainInv' BY <2>2, <2>3, <1>4, ToInvites
  <2> QED BY <2>2, <2>4, <1>1, <1>2, <1>5, MainMoves
<1> QED BY <1>6, <1>7

LEMMA SetMeFacts ==
  ASSUME RoomsInv, Main.pc # "down", NEW r \in Rooms, NEW s \in Standing, s # "none", SetMe(r, s),
         UNCHANGED <<scenario, row>>, dmObs' = dmObs \/ SyncObservers
  PROVE  /\ World' /\ (\A E : Observing(E))
         /\ view'[r]["me"] = s /\ \A q \in Rooms : q # r => view'[q] = view[q]
<1>1. /\ member' \in [Rooms -> [Users -> Standing]] /\ view' \in [Rooms -> [Users -> Standing]]
      /\ view'[r]["me"] = s /\ member'[r]["me"] = s /\ member'[r]["ann"] = member[r]["ann"]
      /\ \A q \in Rooms : q # r => member'[q] = member[q] /\ view'[q] = view[q]
  BY DEF SetMe, RoomsInv, World, Users, Standing
<1>2. \A q \in Rooms : view[q]["me"] = member[q]["me"] BY DEF RoomsInv, World
<1>3. World' /\ \A E : Observing(E) BY <1>1, <1>2, WorldStep DEF RoomsInv
<1> QED BY <1>1, <1>3

LEMMA TakeInviteMain ==
  ASSUME RoomsInv, NEW r \in Rooms, TakeInvite("main", r)
  PROVE  RoomsInv'
<1>1. /\ Main.pc = "invites" /\ r \in Main.todo /\ UNCHANGED <<scenario, row, dmObs>> /\ Remember({}, {})
  BY DEF TakeInvite, At, Main, lists
<1>2. PICK known, ok :
        LET d == Decision("main", r, known)
            skip == Proceed("main", [todo |-> act["main"].todo \ {r}]) IN
         \/ d = "join" /\ ok /\ SetMe(r, "join")
            /\ IF IsBridge THEN Proceed("main", [pc |-> "count", room |-> r, todo |-> act["main"].todo \ {r}])
               ELSE Proceed("main", [todo |-> act["main"].todo \ {r}, found |-> act["main"].found \cup {r}])
         \/ d = "decline" /\ ok /\ SetMe(r, "leave") /\ skip
         \/ (d = "ignore" \/ ~ok) /\ UNCHANGED <<member, view>> /\ skip
  BY DEF TakeInvite
<1>3. Syncer.pc = "idle" /\ Main.pc # "down" BY <1>1, Unserving
<1>4. /\ Main.then = "invites" /\ view[r]["me"] = "invite"
      /\ \A q \in Rooms : q \in Main.todo => view[q]["me"] = "invite"
      /\ \A q \in Main.found : q \in Rooms /\ view[q]["me"] = "join"
  BY <1>1 DEF RoomsInv, MainInv, Phases, Joining
<1>5. CASE Proceed("main", [todo |-> act["main"].todo \ {r}]) /\ (SetMe(r, "leave") \/ UNCHANGED <<member, view>>)
  <2>1. Tasked' /\ act'["sync"] = act["sync"] /\ Main'.pc = "invites" /\ Main'.then = "invites"
        /\ Main'.todo = Main.todo \ {r} /\ Main'.found = Main.found
    BY <1>1, <1>4, <1>5, Going DEF RoomsInv, Tasks, Fields, Main
  <2>2. World' /\ (\A E : Observing(E)) /\ \A q \in Rooms : q # r => view'[q] = view[q]
    <3>1. CASE SetMe(r, "leave") BY <3>1, <1>1, <1>3, SetMeFacts DEF Standing
    <3>2. CASE UNCHANGED <<member, view>> BY <3>2, <1>1, <1>3, SameMembers
    <3> QED BY <1>5, <3>1, <3>2
  <2>3. MainInv' BY <2>1, <2>2, <1>4, ToInvites
  <2> QED BY <2>1, <2>2, <2>3, <1>1, <1>3, MainMoves
<1>6. CASE SetMe(r, "join") /\ IsBridge /\ Proceed("main", [pc |-> "count", room |-> r, todo |-> act["main"].todo \ {r}])
  <2>1. Tasked' /\ act'["sync"] = act["sync"] /\ Main'.pc = "count" /\ Main'.then = "invites"
        /\ Main'.todo = Main.todo \ {r} /\ Main'.found = Main.found /\ Main'.room = r
    BY <1>1, <1>4, <1>6, Going DEF RoomsInv, Tasks, Fields, Main
  <2>2. World' /\ (\A E : Observing(E)) /\ view'[r]["me"] = "join" /\ \A q \in Rooms : q # r => view'[q] = view[q]
    BY <1>6, <1>1, <1>3, SetMeFacts DEF Standing
  <2>3. IsBridge' BY <1>1, <1>6 DEF IsBridge
  <2>4. MainInv' BY <2>1, <2>2, <2>3, <1>4, ToInvites
  <2> QED BY <2>1, <2>2, <2>4, <1>1, <1>3, MainMoves
<1>7. CASE SetMe(r, "join") /\ Proceed("main", [todo |-> act["main"].todo \ {r}, found |-> act["main"].found \cup {r}])
  <2>1. Tasked' /\ act'["sync"] = act["sync"] /\ Main'.pc = "invites" /\ Main'.then = "invites"
        /\ Main'.todo = Main.todo \ {r} /\ Main'.found = Main.found \cup {r}
    BY <1>1, <1>4, <1>7, Going DEF RoomsInv, Tasks, Fields, Main
  <2>2. World' /\ (\A E : Observing(E)) /\ view'[r]["me"] = "join" /\ \A q \in Rooms : q # r => view'[q] = view[q]
    BY <1>7, <1>1, <1>3, SetMeFacts DEF Standing
  <2>3. MainInv' BY <2>1, <2>2, <1>4, ToInvites
  <2> QED BY <2>1, <2>2, <2>3, <1>1, <1>3, MainMoves
<1> QED BY <1>2, <1>5, <1>6, <1>7

\* What holds while the program accepts the invites it found.
JoiningNow ==
  /\ \A r \in Rooms : r \in Main.todo => view[r]["me"] = "invite"
  /\ \A r \in Main.found : r \in Rooms /\ view[r]["me"] = "join"

LEMMA JoiningKept ==
  ASSUME JoiningNow, Main'.todo = Main.todo, Main'.found = Main.found,
         \A q \in Rooms : view'[q]["me"] = view[q]["me"]
  PROVE  /\ \A r \in Rooms : r \in Main'.todo => view'[r]["me"] = "invite"
         /\ \A r \in Main'.found : r \in Rooms /\ view'[r]["me"] = "join"
BY DEF JoiningNow

LEMMA CountJoinedMain ==
  ASSUME RoomsInv, CountJoined("main")
  PROVE  RoomsInv'
<1>0. Main.pc = "count" /\ SyncObservers /\ Main.room \in Rooms BY DEF CountJoined, At, Main, RoomsInv, MainInv, InRoom
<1>a. PICK r \in Rooms : r = Main.room BY <1>0
<1>1. PICK how \in Answers(r) :
        /\ Learn(r, how) /\ Then("main", IF InviteAction(r) = "dm" THEN "mark" ELSE act["main"].then)
        /\ UNCHANGED <<scenario, row>> /\ Remember(Unread(r, how, UsableRows(row)), {r})
  BY <1>a DEF CountJoined, lists, Main
<1>3. Syncer.pc = "idle" /\ Main.pc # "down" BY <1>0, Unserving
<1>4. /\ Main.then = "invites" /\ view[r]["me"] = "join" /\ IsBridge /\ JoiningNow
  BY <1>0, <1>a DEF RoomsInv, MainInv, Phases, Joining, InRoom, JoiningNow
<1>5. /\ World' /\ (\A E : Observing(E)) /\ \A q \in Rooms : view'[q]["me"] = view[q]["me"]
  BY <1>0, <1>1, <1>3, LearnMain
<1>6. CASE Then("main", "invites")
  <2>1. Tasked' /\ act'["sync"] = act["sync"] /\ Main'.pc = "invites" /\ Main'.then = "invites"
        /\ Main'.todo = Main.todo /\ Main'.found = Main.found
    BY <1>4, <1>6, Thens DEF RoomsInv, Tasks, Main
  <2>2. MainInv' BY <2>1, <1>4, <1>5, JoiningKept, ToInvites
  <2> QED BY <2>1, <2>2, <1>1, <1>3, <1>5, MainMoves
<1>7. CASE Then("main", "mark") /\ InviteAction(r) = "dm"
  <2>1. Tasked' /\ act'["sync"] = act["sync"] /\ Main'.pc = "mark" /\ Main'.then = "invites"
        /\ Main'.todo = Main.todo /\ Main'.found = Main.found /\ Main'.room = r
    BY <1>4, <1>7, <1>a, Thens DEF RoomsInv, Tasks, Main
  <2>2. r \notin scenario'.listed BY <1>7, <1>1 DEF InviteAction
  <2>4. view'[r]["me"] = "join" BY <1>4, <1>5
  <2>5. MainInv' BY <2>1, <2>2, <2>4, <1>4, <1>5, JoiningKept, ToMarking DEF Marking
  <2> QED BY <2>1, <2>5, <1>1, <1>3, <1>5, MainMoves
<1> QED BY <1>1, <1>4, <1>6, <1>7 DEF Main

\* What holds while a room is being written into m.direct.
LEMMA MarkingNow ==
  ASSUME RoomsInv, Main.pc \in Marking
  PROVE  /\ Main.room \in Rooms /\ view[Main.room]["me"] = "join" /\ Main.pc # "down"
         /\ (Main.then = "invites" /\ JoiningNow /\ Syncer.pc = "idle")
            \/ (Main.then = "post" /\ Main.room \in once \cup unread)
         /\ Main.pc # "mark" => was["main"]
         /\ IsBridge => Main.room \notin scenario.listed
<1>1. Main.room \in Rooms /\ view[Main.room]["me"] = "join" /\ Main.pc # "down"
  BY DEF RoomsInv, MainInv, InRoom, Marking
<1>2. Main.then \in {"invites", "post"} BY DEF RoomsInv, MainInv, Phases
<1>3. Main.then = "post" => Main.room \in once \cup unread BY DEF RoomsInv, MainInv, Marks, Marking
<1>4. Main.then = "invites" => JoiningNow BY DEF RoomsInv, MainInv, Joining, JoiningNow
<1>5. Main.then = "invites" => Syncer.pc = "idle"
  BY Alone DEF ServingMain, Marking
<1>6. Main.pc # "mark" => was["main"] BY DEF RoomsInv, MainInv, Marks, Marking
<1>7. IsBridge => Main.room \notin scenario.listed BY DEF RoomsInv, MainInv, Marks, Marking
<1> QED BY <1>1, <1>2, <1>3, <1>4, <1>5, <1>6, <1>7

\* The write is over, or was not needed.
LEMMA MarkEnds ==
  ASSUME RoomsInv, Main.pc \in Marking, Then("main", Main.then), NEW E, NEW C, Remember(E, C),
         World', \A F : Observing(F), UNCHANGED <<scenario, row, dmObs>>,
         \A q \in Rooms : view'[q]["me"] = view[q]["me"]
  PROVE  RoomsInv'
<1>1. CASE Main.then = "invites" /\ JoiningNow /\ Syncer.pc = "idle"
  <2>1. Tasked' /\ act'["sync"] = act["sync"] /\ Main'.pc = "invites" /\ Main'.then = "invites"
        /\ Main'.todo = Main.todo /\ Main'.found = Main.found
    BY <1>1, Thens DEF RoomsInv, Tasks, Main
  <2>2. MainInv' BY <2>1, <1>1, JoiningKept, ToInvites
  <2> QED BY <2>1, <2>2, <1>1, MainMoves
<1>2. CASE Main.then = "post" /\ Main.room \in once \cup unread
  <2>1. Tasked' /\ act'["sync"] = act["sync"] /\ Main'.pc = "post" /\ Main'.then = "post" /\ Main'.room = Main.room
    BY <1>2, Thens DEF RoomsInv, Tasks, Main
  <2>2. Main'.pc \notin Resting BY <2>1 DEF Resting
  <2>3. Main.room \in once' \cup unread' BY <1>2, <2>2, Memory
  <2>4. Main.room \in Rooms /\ view'[Main.room]["me"] = "join" BY MarkingNow
  <2>5. MainInv' BY <2>1, <2>3, <2>4, ToSend
  <2>6. ServingMain' BY <2>1 DEF ServingMain, SendPcs
  <2> QED BY <2>1, <2>5, <2>6, MainMoves
<1> QED BY <1>1, <1>2, MarkingNow

\* The next step of the write.
LEMMA MarkGoes ==
  ASSUME RoomsInv, Main.pc \in Marking, Tasked', act'["sync"] = act["sync"], Main'.pc \in {"fetch", "write"},
         Main'.then = Main.then, Main'.todo = Main.todo, Main'.found = Main.found, Main'.room = Main.room,
         Remember({}, {}), World', \A F : Observing(F), UNCHANGED <<scenario, row, dmObs>>,
         OneToOne(Main.room, dmObs)' \/ was["main"],
         \A q \in Rooms : view'[q]["me"] = view[q]["me"]
  PROVE  RoomsInv'
<1>0. "main" \in Tasks /\ Main'.pc \notin Resting BY DEF Tasks, Resting
<1>1. IsBridge' => Main'.room \notin scenario'.listed
  <2>1. IsBridge => Main.room \notin scenario.listed BY MarkingNow
  <2> QED BY <2>1 DEF IsBridge
<1>2. Main.room \in Rooms /\ view'[Main.room]["me"] = "join" BY MarkingNow
<1>3. was'["main"]
  <2>1. PICK r \in Rooms : r = Main.room BY <1>2
  <2>2. act'["main"].room = r /\ act["main"].room = r BY <2>1 DEF Main
  <2>3. OneToOne(r, dmObs)' \/ was["main"]
    <3>1. CASE was["main"] BY <3>1
    <3>2. CASE OneToOne(Main.room, dmObs)'
      <4>1. Main'.room = r BY <2>1
      <4> QED BY <3>2, <4>1, <2>1 DEF OneToOne, Open
    <3> QED BY <3>1, <3>2
  <2> QED BY <1>0, <2>2, <2>3, WasMemory
<1>4. CASE Main.then = "invites" /\ JoiningNow /\ Syncer.pc = "idle"
  <2>1. MainInv' BY <1>1, <1>2, <1>3, <1>4, JoiningKept, ToMarking DEF Marking
  <2> QED BY <2>1, <1>4, MainMoves
<1>5. CASE Main.then = "post" /\ Main.room \in once \cup unread
  <2>1. Main'.room \in once' \cup unread' BY <1>0, <1>5, Memory
  <2>2. MainInv' BY <1>1, <1>2, <1>3, <1>5, <2>1, ToMarking DEF Marking
  <2>3. ServingMain' BY <1>5 DEF ServingMain, SendPcs, Marking
  <2> QED BY <2>2, <2>3, MainMoves
<1> QED BY <1>4, <1>5, MarkingNow

LEMMA MarkMain ==
  ASSUME RoomsInv, Mark("main")
  PROVE  RoomsInv'
<1>0. Main.pc = "mark" /\ UNCHANGED <<scenario, row, dmObs>> /\ Remember({}, {}) BY DEF Mark, At, Main, lists
<1>1. Main.pc \in Marking BY <1>0 DEF Marking
<1>2. Main.room \in Rooms BY <1>1, MarkingNow
<1>a. PICK r \in Rooms : r = Main.room BY <1>2
<1>3. PICK how \in Answers(r) :
        /\ Learn(r, how)
        /\ Then("main", IF how # "unknown" /\ RankOf(Verdict(Read(r, how), dmObs[r])) > 0
                        THEN "fetch" ELSE Main.then)
  BY <1>a DEF Mark, Main
<1>4. view[r]["me"] = "join" /\ Main.pc # "down" /\ (IsBridge => r \notin scenario.listed)
  BY <1>1, <1>a, MarkingNow
<1>5. /\ World' /\ (\A E : Observing(E)) /\ \A q \in Rooms : view'[q]["me"] = view[q]["me"]
      /\ view'[r] = Read(r, how)
  BY <1>0, <1>3, <1>4, LearnMain
<1>6. CASE Then("main", Main.then) BY <1>0, <1>1, <1>5, <1>6, MarkEnds
<1>7. CASE Then("main", "fetch") /\ RankOf(Verdict(Read(r, how), dmObs[r])) > 0
  <2>1. /\ Tasked' /\ act'["sync"] = act["sync"] /\ Main'.pc = "fetch" /\ Main'.then = Main.then
        /\ Main'.todo = Main.todo /\ Main'.found = Main.found /\ Main'.room = Main.room
    BY <1>7, Thens DEF RoomsInv, Tasks, Main
  <2>2. view'[r]["me"] = "join" /\ (IsBridge' => r \notin scenario'.listed)
    BY <1>0, <1>4, <1>5 DEF IsBridge
  <2>3. RankOf(Verdict(view'[r], dmObs'[r])) > 0 BY <1>0, <1>5, <1>7
  <2>4. OneToOne(r, dmObs)' BY <2>2, <2>3, <1>5, HersNow
  <2>5. OneToOne(Main.room, dmObs)'
    <3>1. Main'.room = r BY <1>a, <2>1
    <3> QED BY <2>4, <3>1 DEF OneToOne, Open
  <2> QED BY <2>1, <2>5, <1>0, <1>1, <1>5, MarkGoes
<1> QED BY <1>3, <1>6, <1>7

LEMMA FetchDirectMain ==
  ASSUME RoomsInv, FetchDirect("main")
  PROVE  RoomsInv'
<1>1. /\ Main.pc = "fetch" /\ UNCHANGED <<scenario, row, dmObs, member, view>> /\ Remember({}, {})
      /\ (Then("main", Main.then) \/ Proceed("main", [pc |-> "write", copy |-> mdirect]))
  BY DEF FetchDirect, At, Main, lists, server
<1>2. Main.pc \in Marking /\ Main.pc # "down" BY <1>1 DEF Marking
<1>3. World' /\ \A E : Observing(E) BY <1>1, <1>2, SameMembers
<1>4. CASE Then("main", Main.then) BY <1>1, <1>2, <1>3, <1>4, MarkEnds
<1>5. CASE Proceed("main", [pc |-> "write", copy |-> mdirect])
  <2>1. /\ Tasked' /\ act'["sync"] = act["sync"] /\ Main'.pc = "write" /\ Main'.then = Main.then
        /\ Main'.todo = Main.todo /\ Main'.found = Main.found /\ Main'.room = Main.room
    BY <1>5, Going DEF RoomsInv, Tasks, Fields, Main
  <2>2. was["main"] BY <1>1, <1>2, MarkingNow
  <2> QED BY <2>1, <2>2, <1>1, <1>2, <1>3, MarkGoes
<1> QED BY <1>1, <1>4, <1>5

LEMMA WriteDirectMain ==
  ASSUME RoomsInv, WriteDirect("main")
  PROVE  RoomsInv'
<1>1. /\ Main.pc = "write" /\ UNCHANGED <<scenario, row, dmObs, member, view>> /\ Remember({}, {})
      /\ Then("main", Main.then)
  BY DEF WriteDirect, At, Main, lists, server
<1>2. Main.pc \in Marking /\ Main.pc # "down" BY <1>1 DEF Marking
<1>3. World' /\ \A E : Observing(E) BY <1>1, <1>2, SameMembers
<1> QED BY <1>1, <1>2, <1>3, MarkEnds

LEMMA MarkJoinedStep ==
  ASSUME RoomsInv, MarkJoined
  PROVE  RoomsInv'
<1>1. /\ Main.pc = "invites" /\ UNCHANGED <<scenario, row, dmObs, member, view>> /\ Remember({}, {}) /\ ~IsBridge
  BY DEF MarkJoined, At, Main, lists, server
<1>2. PICK r \in Main.found : Proceed("main", [pc |-> "mark", room |-> r, found |-> Main.found \ {r}])
  BY DEF MarkJoined, Main
<1>3. Syncer.pc = "idle" /\ Main.pc # "down" BY <1>1, Unserving
<1>4. Main.then = "invites" /\ JoiningNow BY <1>1 DEF RoomsInv, MainInv, Phases, Joining, JoiningNow
<1>5. /\ Tasked' /\ act'["sync"] = act["sync"] /\ Main'.pc = "mark" /\ Main'.then = "invites"
      /\ Main'.todo = Main.todo /\ Main'.found = Main.found \ {r} /\ Main'.room = r
  BY <1>2, <1>4, Going DEF RoomsInv, Tasks, Fields, Main
<1>6. World' /\ \A E : Observing(E) BY <1>1, <1>3, SameMembers
<1>7. ~IsBridge' BY <1>1 DEF IsBridge
<1>8. MainInv' BY <1>1, <1>4, <1>5, <1>7, ToMarking DEF JoiningNow, Marking
<1> QED BY <1>1, <1>3, <1>5, <1>6, <1>8, MainMoves

LEMMA SettleStep ==
  ASSUME RoomsInv, Settle
  PROVE  RoomsInv'
<1>1. /\ Main.pc = "invites" /\ Main.found = {} /\ view' = Known /\ UNCHANGED <<scenario, row, member>>
      /\ Remember({}, {}) /\ (dmObs' = dmObs \/ SyncObservers)
  BY DEF Settle, At, Main, lists
<1>2. Syncer.pc = "idle" /\ Main.pc # "down" BY <1>1, Unserving
<1>3. /\ view' \in [Rooms -> [Users -> Standing]] /\ \A r \in Rooms : view'[r]["me"] = member[r]["me"]
  BY <1>1, KnownFacts DEF RoomsInv
<1>4. World' /\ \A E : Observing(E) BY <1>1, <1>3, WorldStep DEF RoomsInv, World
<1>5. CASE IsBridge
  <2>1. Proceed("main", [pc |-> "repair", rows |-> UsableRows(row), groups |-> {},
                           todo |-> {r \in Rooms : Known[r]["me"] = "join"}])
    BY <1>5 DEF Settle
  <2>2. Tasked' /\ act'["sync"] = act["sync"] /\ Main'.pc = "repair"
    BY <2>1, Going DEF RoomsInv, Tasks, Fields, Main
  <2>3. IsBridge' BY <1>1, <1>5 DEF IsBridge
  <2>4. MainInv' BY <2>2, <2>3, ToRepair
  <2> QED BY <2>2, <2>4, <1>1, <1>2, <1>4, MainMoves
<1>6. CASE ~IsBridge
  <2>1. Proceed("main", [pc |-> "reconcile", copy |-> mdirect, todo |-> mdirect, groups |-> {}])
    BY <1>6 DEF Settle
  <2>2. Tasked' /\ act'["sync"] = act["sync"] /\ Main'.pc = "reconcile" /\ Main'.found = {}
    BY <2>1, <1>1, Going DEF RoomsInv, Tasks, Fields, Main
  <2>3. ~IsBridge' BY <1>1, <1>6 DEF IsBridge
  <2>4. MainInv' BY <2>2, <2>3, ToReconcile
  <2> QED BY <2>2, <2>4, <1>1, <1>2, <1>4, MainMoves
<1> QED BY <1>5, <1>6

\* What holds while the bridge counts its rooms.
LEMMA CountingNow ==
  ASSUME RoomsInv, Main.pc \in {"repair", "survey"}
  PROVE  Syncer.pc = "idle" /\ Main.pc # "down" /\ IsBridge
<1>1. Syncer.pc = "idle" BY Unserving
<1> QED BY <1>1 DEF RoomsInv, MainInv, Phases

LEMMA CountingGoes ==
  ASSUME RoomsInv, Main.pc \in {"repair", "survey"}, NEW r \in Rooms, NEW how, Learn(r, how),
         UNCHANGED <<scenario, row, dmObs>>, NEW E, NEW C, Remember(E, C),
         Tasked', act'["sync"] = act["sync"], Main'.pc = Main.pc
  PROVE  RoomsInv'
<1>1. Syncer.pc = "idle" /\ Main.pc # "down" /\ IsBridge BY CountingNow
<1>2. World' /\ (\A F : Observing(F)) BY <1>1, LearnMain
<1>3. IsBridge' BY <1>1 DEF IsBridge
<1>4. MainInv' BY <1>3, ToRepair
<1> QED BY <1>1, <1>2, <1>4, MainMoves

LEMMA RepairRoomStep ==
  ASSUME RoomsInv, NEW r \in Rooms, RepairRoom(r)
  PROVE  RoomsInv'
<1>1. Main.pc = "repair" /\ UNCHANGED <<scenario, row, dmObs>> /\ Remember({}, {})
  BY DEF RepairRoom, At, Main, lists
<1>2. PICK how, todo, groups : Learn(r, how) /\ Proceed("main", [todo |-> todo, groups |-> groups])
  BY DEF RepairRoom
<1>3. Tasked' /\ act'["sync"] = act["sync"] /\ Main'.pc = Main.pc
  BY <1>1, <1>2, Going DEF RoomsInv, Tasks, Fields, Main
<1> QED BY <1>1, <1>2, <1>3, CountingGoes

LEMMA RepairDirectStep ==
  ASSUME RoomsInv, RepairDirect
  PROVE  RoomsInv'
<1>1. Main.pc = "repair" /\ UNCHANGED <<scenario, row, member, view>> /\ SyncObservers /\ Remember({}, {})
      /\ Proceed("main", [pc |-> "survey", rows |-> UsableRows(row), todo |-> JoinedRooms, counts |-> NoTask.counts])
  BY DEF RepairDirect, At, Main, lists, server
<1>2. Syncer.pc = "idle" /\ Main.pc # "down" /\ IsBridge BY <1>1, CountingNow
<1>3. Tasked' /\ act'["sync"] = act["sync"] /\ Main'.pc = "survey"
  BY <1>1, Going DEF RoomsInv, Tasks, Fields, Main
<1>4. World' /\ \A E : Observing(E) BY <1>1, <1>2, SameMembers
<1>5. IsBridge' BY <1>1, <1>2 DEF IsBridge
<1>6. MainInv' BY <1>3, <1>5, ToRepair
<1> QED BY <1>1, <1>2, <1>3, <1>4, <1>6, MainMoves

LEMMA SurveyRoomStep ==
  ASSUME RoomsInv, NEW r \in Rooms, SurveyRoom(r)
  PROVE  RoomsInv'
<1>1. Main.pc = "survey" BY DEF SurveyRoom, At, Main
<1>2. PICK how, todo, counts : /\ Learn(r, how) /\ Proceed("main", [todo |-> todo, counts |-> counts])
                               /\ UNCHANGED <<scenario, row, dmObs>> /\ Remember(Unread(r, how, act["main"].rows), {r})
  BY DEF SurveyRoom, lists
<1>3. Tasked' /\ act'["sync"] = act["sync"] /\ Main'.pc = Main.pc
  BY <1>1, <1>2, Going DEF RoomsInv, Tasks, Fields, Main
<1> QED BY <1>1, <1>2, <1>3, CountingGoes

LEMMA SetJoinedRoomsStep ==
  ASSUME RoomsInv, SetJoinedRooms
  PROVE  RoomsInv'
<1>1. Main.pc = "survey" /\ UNCHANGED <<scenario, row, member, view, dmObs>> /\ Remember({}, {}) /\ Finish("main")
  BY DEF SetJoinedRooms, At, Main, lists, server
<1>2. Syncer.pc = "idle" /\ Main.pc # "down" BY <1>1, CountingNow
<1>3. Tasked' /\ act'["sync"] = act["sync"] /\ Main' = NoTask
  BY <1>1, Finishing DEF RoomsInv, Tasks, Main
<1>4. World' /\ \A E : Observing(E) BY <1>1, <1>2, SameMembers
<1>5. MainInv' BY <1>3, ToRest DEF NoTask
<1> QED BY <1>1, <1>2, <1>3, <1>4, <1>5, MainMoves

\* What holds while the relay puts m.direct right.
LEMMA ReconcilingNow ==
  ASSUME RoomsInv, Main.pc \in {"reconcile", "absent", "leaving"}
  PROVE  Syncer.pc = "idle" /\ Main.pc # "down" /\ ~IsBridge
<1>1. Syncer.pc = "idle" BY Unserving
<1> QED BY <1>1 DEF RoomsInv, MainInv, Phases

LEMMA ReconcileStep ==
  ASSUME RoomsInv, NEW r \in Rooms, Reconcile(r)
  PROVE  RoomsInv'
<1>1. Main.pc = "reconcile" BY DEF Reconcile, At, Main
<1>2. PICK how \in Answers(r) :
        /\ Learn(r, how)
        /\ IF GroupEntry(r, how)
           THEN Proceed("main", [todo |-> Main.todo \ {r}, groups |-> Main.groups \cup {r}])
           ELSE Proceed("main", [pc |-> "absent", room |-> r, todo |-> Main.todo \ {r}])
        /\ UNCHANGED <<scenario, row, dmObs>>
        /\ Remember(IF how # "live" THEN {r} ELSE {}, {})
  BY DEF Reconcile, lists, Main
<1>3. Syncer.pc = "idle" /\ Main.pc # "down" /\ ~IsBridge BY <1>1, ReconcilingNow
<1>4. /\ Tasked' /\ act'["sync"] = act["sync"] /\ Main'.pc \in {"reconcile", "absent"}
      /\ Main'.found = Main.found
      /\ Main'.pc = "absent" => Main'.room = r /\ ~GroupEntry(r, how)
  <2>1. CASE GroupEntry(r, how)
    <3>1. Proceed("main", [todo |-> Main.todo \ {r}, groups |-> Main.groups \cup {r}]) BY <1>2, <2>1
    <3> QED BY <3>1, <1>1, Going DEF RoomsInv, Tasks, Fields, Main
  <2>2. CASE ~GroupEntry(r, how)
    <3>1. Proceed("main", [pc |-> "absent", room |-> r, todo |-> Main.todo \ {r}]) BY <1>2, <2>2
    <3> QED BY <3>1, <2>2, Going DEF RoomsInv, Tasks, Fields, Main
  <2> QED BY <2>1, <2>2
<1>5. World' /\ (\A E : Observing(E)) /\ view'[r] = Read(r, how) BY <1>2, <1>3, LearnMain
<1>6. Main'.pc \notin Resting BY <1>4 DEF Resting
<1>7. Main.found \subseteq dead' \cup unread'
  <2>1. Main.found \subseteq dead \cup unread BY <1>1 DEF RoomsInv, MainInv, Gone
  <2> QED BY <2>1, <1>2, <1>6, Memory
<1>8. ASSUME ~GroupEntry(r, how)
      PROVE  r \in unread' \/ (r \in fetched' /\ "eve" \notin ActiveIn(view'[r]))
  <2>1. CASE how # "live"
    <3>1. Remember({r}, {}) BY <1>2, <2>1
    <3> QED BY <3>1, <1>4, <1>6, Memory
  <2>2. CASE how = "live"
    <3>1. r \in fetched' BY <1>2, <2>2 DEF Learn, server
    <3>2. dmObs[r] = "none" BY <1>3 DEF RoomsInv, World
    <3>3. Verdict(view'[r], dmObs[r]) # "NotOneToOne" BY <1>5, <1>8, <2>2 DEF GroupEntry
    <3>4. "eve" \notin ActiveIn(view'[r]) BY <3>2, <3>3 DEF Verdict
    <3> QED BY <3>1, <3>4
  <2> QED BY <2>1, <2>2
<1>9. ~IsBridge' BY <1>2, <1>3 DEF IsBridge
<1>10. MainInv' BY <1>4, <1>7, <1>8, <1>9, ToReconcile
<1> QED BY <1>2, <1>3, <1>4, <1>5, <1>10, MainMoves

LEMMA AskAbsentStep ==
  ASSUME RoomsInv, AskAbsent
  PROVE  RoomsInv'
<1>1. Main.pc = "absent" BY DEF AskAbsent, At, Main
<1>2. /\ Main.room \in Rooms /\ Main.found \subseteq dead \cup unread
      /\ Main.room \in unread \/ (Main.room \in fetched /\ "eve" \notin ActiveIn(view[Main.room]))
  BY <1>1 DEF RoomsInv, MainInv, Gone
<1>a. PICK r \in Rooms : r = Main.room BY <1>2
<1>3. PICK how \in Member(r) :
        /\ Learn(r, how)
        /\ Proceed("main", [pc |-> "reconcile", room |-> 0, found |->
             IF how = "live" /\ Read(r, how)["ann"] = "leave" THEN Main.found \cup {r} ELSE Main.found])
        /\ UNCHANGED <<scenario, row, dmObs>> /\ Remember({}, {})
  BY <1>a DEF AskAbsent, lists, Main
<1>4. Syncer.pc = "idle" /\ Main.pc # "down" /\ ~IsBridge BY <1>1, ReconcilingNow
<1>5. /\ Tasked' /\ act'["sync"] = act["sync"] /\ Main'.pc = "reconcile"
      /\ Main'.found = IF how = "live" /\ Read(r, how)["ann"] = "leave" THEN Main.found \cup {r} ELSE Main.found
  BY <1>3, Going DEF RoomsInv, Tasks, Fields, Main
<1>6. World' /\ (\A E : Observing(E)) /\ view'[r] = Read(r, how) BY <1>3, <1>4, LearnMain
<1>7. /\ dead \subseteq dead' /\ unread \subseteq unread' /\ (Abandoned(r)' => r \in dead')
  <2>1. Main'.pc \notin Resting BY <1>5 DEF Resting
  <2> QED BY <2>1, <1>3, Memory
<1>8. ASSUME how = "live", Read(r, how)["ann"] = "leave" PROVE r \in dead' \cup unread'
  <2>1. CASE r \in unread BY <2>1, <1>7
  <2>2. CASE r \in fetched /\ "eve" \notin ActiveIn(view[r])
    <3>1. view' = view BY <2>2, <1>3 DEF Learn, server
    <3>2. Abandoned(r)' BY <2>2, <3>1, <1>6, <1>8 DEF Abandoned
    <3> QED BY <3>2, <1>7
  <2> QED BY <2>1, <2>2, <1>2, <1>a
<1>9. ~IsBridge' BY <1>3, <1>4 DEF IsBridge
<1>10. MainInv' BY <1>2, <1>5, <1>7, <1>8, <1>9, ToReconcile
<1> QED BY <1>3, <1>4, <1>5, <1>6, <1>10, MainMoves

LEMMA LeaveStaleStep ==
  ASSUME RoomsInv, LeaveStale
  PROVE  RoomsInv'
<1>1. Main.pc = "reconcile" /\ UNCHANGED <<scenario, row, dmObs, member, view>> /\ Remember({}, {})
      /\ Proceed("main", [pc |-> "leaving", todo |-> Main.found \cap JoinedRooms])
  BY DEF LeaveStale, At, Main, lists, server
<1>2. Syncer.pc = "idle" /\ Main.pc # "down" /\ ~IsBridge BY <1>1, ReconcilingNow
<1>3. Tasked' /\ act'["sync"] = act["sync"] /\ Main'.pc = "leaving" /\ Main'.todo = Main.found \cap JoinedRooms
  BY <1>1, Going DEF RoomsInv, Tasks, Fields, Main
<1>4. World' /\ \A E : Observing(E) BY <1>1, <1>2, SameMembers
<1>5. dead \subseteq dead' /\ unread \subseteq unread'
  <2>1. Main'.pc \notin Resting BY <1>3 DEF Resting
  <2> QED BY <2>1, <1>1, Memory
<1>6. Main.found \subseteq dead \cup unread BY <1>1 DEF RoomsInv, MainInv, Gone
<1>7. ~IsBridge' BY <1>1, <1>2 DEF IsBridge
<1>8. MainInv' BY <1>3, <1>5, <1>6, <1>7, ToReconcile
<1> QED BY <1>1, <1>2, <1>3, <1>4, <1>8, MainMoves

LEMMA LeaveRoomStep ==
  ASSUME RoomsInv, NEW r \in Rooms, LeaveRoom(r)
  PROVE  RoomsInv'
<1>1. Main.pc = "leaving" /\ UNCHANGED <<scenario, row, dmObs>> /\ Remember({}, {})
      /\ Proceed("main", [todo |-> Main.todo \ {r}])
      /\ (SetMe(r, "leave") \/ UNCHANGED <<member, view>>)
  BY DEF LeaveRoom, At, Main, lists
<1>2. Syncer.pc = "idle" /\ Main.pc # "down" /\ ~IsBridge BY <1>1, ReconcilingNow
<1>3. Tasked' /\ act'["sync"] = act["sync"] /\ Main'.pc = "leaving" /\ Main'.todo = Main.todo \ {r}
  BY <1>1, Going DEF RoomsInv, Tasks, Fields, Main
<1>4. World' /\ \A E : Observing(E)
  <2>1. CASE SetMe(r, "leave") BY <2>1, <1>1, <1>2, SetMeFacts DEF Standing
  <2>2. CASE UNCHANGED <<member, view>> BY <2>2, <1>1, <1>2, SameMembers
  <2> QED BY <1>1, <2>1, <2>2
<1>5. dead \subseteq dead' /\ unread \subseteq unread'
  <2>1. Main'.pc \notin Resting BY <1>3 DEF Resting
  <2> QED BY <2>1, <1>1, Memory
<1>6. Main.todo \subseteq dead \cup unread BY <1>1 DEF RoomsInv, MainInv, Gone
<1>7. ~IsBridge' BY <1>1, <1>2 DEF IsBridge
<1>8. MainInv' BY <1>3, <1>5, <1>6, <1>7, ToReconcile
<1> QED BY <1>1, <1>2, <1>3, <1>4, <1>8, MainMoves

\* A search starts with every joined room ahead of it.
LEMMA SearchStarts ==
  ASSUME RoomsInv, Tasked', act'["sync"] = act["sync"], Main.pc # "down", Remember({}, {}),
         UNCHANGED <<scenario, row, member, view>>, dmObs' = dmObs \/ SyncObservers,
         Main'.pc = "pick" \/ (Main'.pc = "scan" /\ IsBridge), Main'.todo = JoinedRooms, Main'.found = {},
         Main'.pc = "pick" => Main'.then = "idle" \/ (Main'.then = "hello" /\ ~IsBridge),
         Main'.rows \in [Rooms -> {"none", "eve"}],
         IsBridge => RowsKnown',
         Syncer.pc # "idle" => Main'.then \in {"idle", "post"}
  PROVE  RoomsInv'
<1>1. World' /\ \A E : Observing(E) BY SameMembers
<1>2. IsBridge' = IsBridge BY DEF IsBridge
<1>3. \A r \in Rooms : r \in Main'.todo => view'[r]["me"] = "join" BY DEF JoinedRooms
<1>4. \A r \in kept' : r \in Main'.todo
  <2>1. ASSUME NEW r \in kept' PROVE r \in Rooms /\ OneToOne(r, row)' BY Memory
  <2>2. ASSUME NEW r \in kept' PROVE view'[r]["me"] = "join" BY <2>1 DEF OneToOne, Open
  <2> QED BY <2>1, <2>2 DEF JoinedRooms
<1>5. MainInv' BY <1>2, <1>3, <1>4, ToLooking DEF Ahead
<1>6. Syncer.pc # "idle" => ServingMain' BY DEF ServingMain, SendPcs, Searches, Scans
<1> QED BY <1>1, <1>5, <1>6, MainMoves

LEMMA GoingAnew ==
  ASSUME Tasked, NEW then, Proceed("main", [NoTask EXCEPT !.pc = "pick", !.then = then, !.todo = JoinedRooms])
  PROVE  /\ Tasked' /\ act'["sync"] = act["sync"] /\ Main'.pc = "pick" /\ Main'.then = then
         /\ Main'.todo = JoinedRooms /\ Main'.found = {} /\ Main'.rows = [r \in Rooms |-> "none"]
<1> DEFINE anew == [NoTask EXCEPT !.pc = "pick", !.then = then, !.todo = JoinedRooms]
<1>1. DOMAIN NoTask = Fields BY DEF NoTask, Fields
<1>2. DOMAIN anew = Fields BY <1>1
<1>3. anew.pc = "pick" /\ anew.then = then /\ anew.todo = JoinedRooms BY <1>1 DEF Fields
<1>4. anew.found = NoTask.found /\ anew.rows = NoTask.rows BY <1>1 DEF Fields
<1>5. NoTask.found = {} /\ NoTask.rows = [r \in Rooms |-> "none"] BY DEF NoTask
<1> HIDE DEF anew
<1>6. Proceed("main", anew) BY DEF anew
<1>7. "main" \in Tasks /\ "sync" \in Tasks /\ "sync" # "main" BY DEF Tasks
<1>8. /\ Tasked' /\ act'["sync"] = act["sync"]
      /\ \A f \in Fields : act'["main"][f] = IF f \in DOMAIN anew THEN anew[f] ELSE act["main"][f]
  BY <1>6, <1>7, Going
<1>9. \A f \in Fields : act'["main"][f] = anew[f] BY <1>2, <1>8
<1> QED BY <1>3, <1>4, <1>5, <1>8, <1>9 DEF Main, Fields

LEMMA RewriteDirectStep ==
  ASSUME RoomsInv, RewriteDirect
  PROVE  RoomsInv'
<1>1. Main.pc = "leaving" /\ UNCHANGED <<scenario, row, dmObs, member, view>> /\ Remember({}, {})
      /\ (Proceed("main", [NoTask EXCEPT !.pc = "pick", !.then = "hello", !.todo = JoinedRooms]) \/ Finish("main"))
  BY DEF RewriteDirect, At, Main, lists, server
<1>2. Syncer.pc = "idle" /\ Main.pc # "down" /\ ~IsBridge BY <1>1, ReconcilingNow
<1>3. CASE Finish("main")
  <2>1. Tasked' /\ act'["sync"] = act["sync"] /\ Main' = NoTask
    BY <1>3, Finishing DEF RoomsInv, Tasks, Main
  <2>2. World' /\ \A E : Observing(E) BY <1>1, <1>2, SameMembers
  <2>3. MainInv' BY <2>1, ToRest DEF NoTask
  <2> QED BY <1>1, <1>2, <2>1, <2>2, <2>3, MainMoves
<1>4. CASE Proceed("main", [NoTask EXCEPT !.pc = "pick", !.then = "hello", !.todo = JoinedRooms])
  <2>1. /\ Tasked' /\ act'["sync"] = act["sync"] /\ Main'.pc = "pick" /\ Main'.then = "hello"
        /\ Main'.todo = JoinedRooms /\ Main'.found = {} /\ Main'.rows = [r \in Rooms |-> "none"]
    BY <1>4, GoingAnew DEF RoomsInv
  <2> QED BY <1>1, <1>2, <2>1, SearchStarts
<1> QED BY <1>1, <1>3, <1>4

LEMMA StartSendStep ==
  ASSUME RoomsInv, StartSend
  PROVE  RoomsInv'
<1>1. Main.pc = "idle" /\ UNCHANGED <<scenario, row, member, view>> /\ Remember({}, {})
      /\ (dmObs' = dmObs \/ SyncObservers)
      /\ Proceed("main", [pc |-> "pick", todo |-> JoinedRooms, rows |-> UsableRows(row)])
  BY DEF StartSend, At, Main, lists, server
<1>2. Main.found = {} /\ Main.then = "idle" /\ Main.pc # "down" BY <1>1 DEF RoomsInv, MainInv, Phases
<1>3. /\ Tasked' /\ act'["sync"] = act["sync"] /\ Main'.pc = "pick" /\ Main'.then = "idle"
      /\ Main'.todo = JoinedRooms /\ Main'.found = {} /\ Main'.rows = UsableRows(row)
  BY <1>1, <1>2, Going DEF RoomsInv, Tasks, Fields, Main
<1>4. Main'.rows \in [Rooms -> {"none", "eve"}] BY <1>3, UsableType DEF RoomsInv
<1>5. RowsKnown' BY <1>1, <1>3 DEF RowsKnown, UsableRows
<1> QED BY <1>1, <1>2, <1>3, <1>4, <1>5, SearchStarts

\* What holds while the program looks for her room.
LEMMA LookingNow ==
  ASSUME RoomsInv, Main.pc \in Searches
  PROVE  /\ Main.pc # "down" /\ Main.pc \notin Resting /\ Ahead
         /\ Main.pc \in Scans => IsBridge /\ Main.found \subseteq Candidates
         /\ Main.pc \in Scans \/ ~IsBridge =>
              /\ \A c \in Main.found : c.room \in once \cup unread
              /\ \A r \in kept : \/ r \in unread \cup Main.todo
                                 \/ \E c \in Main.found : c.room = r
                                 \/ Main.pc \in Reading /\ r = Main.room
         /\ Main.pc = "pick" => Main.then = "idle" \/ (Main.then = "hello" /\ ~IsBridge)
         /\ Syncer.pc # "idle" => Main.then \in {"idle", "post"}
<1>1. Main.pc \notin Resting /\ Main.pc # "down" BY DEF Resting, Searches, Scans, Reading
<1>2. Main.pc \in Scans \/ ~IsBridge =>
        /\ \A c \in Main.found : c.room \in once \cup unread
        /\ \A r \in kept : \/ r \in unread \cup Main.todo
                           \/ \E c \in Main.found : c.room = r
                           \/ Main.pc \in Reading /\ r = Main.room
  BY DEF RoomsInv, MainInv, Sifting, Searches
<1>3. Ahead /\ (Main.pc \in Scans => Main.found \subseteq Candidates)
  BY DEF RoomsInv, MainInv, Looking, Ahead
<1>4. /\ Main.pc \in Scans => IsBridge
      /\ Main.pc = "pick" => Main.then = "idle" \/ (Main.then = "hello" /\ ~IsBridge)
  BY DEF RoomsInv, MainInv, Phases
<1>5. Syncer.pc # "idle" => Main.then \in {"idle", "post"}
  BY DEF RoomsInv, Syncs, ServingMain, Searches, Scans, Reading
<1> QED BY <1>1, <1>2, <1>3, <1>4, <1>5

\* A step of the search that reads a room: what was found stays hers.
LEMMA PickRoomStep ==
  ASSUME RoomsInv, NEW r \in Rooms, PickRoom(r)
  PROVE  RoomsInv'
<1>1. Main.pc = "pick" /\ r \in Main.todo BY DEF PickRoom, At, Main
<1>2. PICK how \in Answers(r) :
        LET rank == IF how = "unknown" THEN 0 ELSE RankOf(Verdict(Read(r, how), dmObs[r])) IN
         /\ Learn(r, how)
         /\ Proceed("main", [todo |-> Main.todo \ {r}, found |->
              IF rank = 0 THEN Main.found
              ELSE Main.found \cup {[room |-> r, rank |-> rank, marked |-> r \in mdirect]}])
         /\ UNCHANGED <<scenario, row, dmObs>>
         /\ Remember(IF how = "unknown" THEN {r} ELSE {}, {})
  BY DEF PickRoom, lists, Main
<1> DEFINE rank == IF how = "unknown" THEN 0 ELSE RankOf(Verdict(Read(r, how), dmObs[r]))
           cand == [room |-> r, rank |-> rank, marked |-> r \in mdirect]
           E == IF how = "unknown" THEN {r} ELSE {}
<1>3. /\ Main.pc # "down" /\ Main.pc \notin Resting /\ Ahead
      /\ ~IsBridge =>
           /\ \A c \in Main.found : c.room \in once \cup unread
           /\ \A q \in kept : q \in unread \cup Main.todo \/ \E c \in Main.found : c.room = q
      /\ Main.then = "idle" \/ (Main.then = "hello" /\ ~IsBridge)
      /\ Syncer.pc # "idle" => Main.then \in {"idle", "post"}
  BY <1>1, LookingNow DEF Searches, Scans, Reading
<1>4. cand.room = r OBVIOUS
<1> HIDE DEF cand
<1>5. /\ Tasked' /\ act'["sync"] = act["sync"] /\ Main'.pc = "pick" /\ Main'.then = Main.then
      /\ Main'.rows = Main.rows /\ Main'.todo = Main.todo \ {r}
      /\ Main'.found = IF rank = 0 THEN Main.found ELSE Main.found \cup {cand}
  <2> DEFINE next == [todo |-> Main.todo \ {r}, found |->
                         IF rank = 0 THEN Main.found ELSE Main.found \cup {cand}]
  <2>1. Proceed("main", next) BY <1>2 DEF cand
  <2>2. /\ DOMAIN next = {"todo", "found"} /\ next.todo = Main.todo \ {r}
        /\ next.found = IF rank = 0 THEN Main.found ELSE Main.found \cup {cand}
    OBVIOUS
  <2> HIDE DEF next, rank
  <2>3. Tasked /\ "main" \in Tasks /\ "sync" \in Tasks /\ "sync" # "main" BY DEF RoomsInv, Tasks
  <2>4. /\ Tasked' /\ act'["sync"] = act["sync"]
        /\ \A f \in Fields : act'["main"][f] = IF f \in DOMAIN next THEN next[f] ELSE act["main"][f]
    BY <2>1, <2>3, Going
  <2> QED BY <1>1, <2>2, <2>4 DEF Main, Fields
<1>6. World' /\ (\A F : Observing(F)) /\ view'[r] = Read(r, how)
      /\ \A q \in Rooms : view'[q]["me"] = view[q]["me"]
  BY <1>2, <1>3, LearnMain
<1>7. IsBridge' = IsBridge /\ Remember(E, {}) BY <1>2 DEF IsBridge
<1>8. Main'.pc \notin Resting BY <1>5 DEF Resting
<1>9. /\ once \subseteq once' /\ unread \subseteq unread' /\ E \subseteq unread' /\ (Hers(r)' => r \in once')
      /\ \A q \in kept' : q \in Rooms /\ q \in kept /\ OneToOne(q, row)'
  BY <1>3, <1>5, <1>7, <1>8, Memory
<1>10. ASSUME ~IsBridge, rank # 0 PROVE r \in once'
  <2>1. RankOf(Verdict(view'[r], dmObs'[r])) > 0 BY <1>2, <1>6, <1>10 DEF RankOf
  <2>2. view'[r]["me"] = "join" BY <1>1, <1>3, <1>6 DEF Ahead
  <2>3. OneToOne(r, dmObs)' BY <2>1, <2>2, <1>6, <1>7, <1>10, HersNow
  <2>4. Hers(r)' BY <2>3, <1>7, <1>10 DEF Hers
  <2> QED BY <2>4, <1>9
<1>11. ASSUME ~IsBridge, r \in kept', r \notin unread' PROVE rank # 0
  <2>1. dmObs[r] = "none" /\ row'[r] = "none" BY <1>2, <1>11 DEF RoomsInv, World
  <2>2. how # "unknown" BY <1>9, <1>11
  <2>3. "eve" \notin ActiveIn(view'[r]) /\ "ann" \in ActiveIn(view'[r]) BY <2>1, <1>9, <1>11 DEF OneToOne, Open
  <2>4. Verdict(view'[r], dmObs[r]) \in {"Joined", "Invited"} BY <2>3 DEF Verdict, ActiveIn
  <2> QED BY <2>2, <2>4, <1>6 DEF RankOf
<1> HIDE DEF rank, E
<1>12. \A c \in Main'.found : c \in Main.found \/ (rank # 0 /\ c = cand) BY <1>5
<1>13. Ahead'
  <2>1. \A c \in Main'.found : c.room \in Rooms /\ view'[c.room]["me"] = "join"
    BY <1>1, <1>3, <1>4, <1>6, <1>12 DEF Ahead
  <2>2. \A q \in Rooms : q \in Main'.todo => view'[q]["me"] = "join" BY <1>3, <1>5, <1>6 DEF Ahead
  <2>3. IsBridge' => RowsKnown' BY <1>2, <1>3, <1>5, <1>7, <1>9 DEF RowsKnown, Ahead, UsableRows
  <2> QED BY <2>1, <2>2, <2>3, <1>3, <1>5 DEF Ahead
<1>14. ASSUME ~IsBridge
       PROVE  /\ \A c \in Main'.found : c.room \in once' \cup unread'
              /\ \A q \in kept' : q \in unread' \cup Main'.todo \/ \E c \in Main'.found : c.room = q
  <2>1. \A c \in Main'.found : c.room \in once' \cup unread' BY <1>3, <1>4, <1>9, <1>10, <1>12, <1>14
  <2>2. ASSUME NEW q \in kept', q # r PROVE q \in unread' \cup Main'.todo \/ \E c \in Main'.found : c.room = q
    BY <2>2, <1>3, <1>5, <1>9, <1>14
  <2>3. ASSUME r \in kept', r \notin unread' PROVE \E c \in Main'.found : c.room = r
    <3>1. cand \in Main'.found BY <2>3, <1>5, <1>11, <1>14
    <3> QED BY <3>1, <1>4
  <2> QED BY <2>1, <2>2, <2>3
<1>15. MainInv' BY <1>3, <1>5, <1>7, <1>13, <1>14, ToLooking
<1>16. Syncer.pc # "idle" => ServingMain'
  BY <1>3, <1>5 DEF ServingMain, SendPcs, Searches
<1> QED BY <1>2, <1>5, <1>6, <1>7, <1>15, <1>16, MainMoves

LEMMA GoingAgain ==
  ASSUME Tasked, Proceed("main", [NoTask EXCEPT !.pc = "pick", !.todo = JoinedRooms])
  PROVE  /\ Tasked' /\ act'["sync"] = act["sync"] /\ Main'.pc = "pick" /\ Main'.then = "idle"
         /\ Main'.todo = JoinedRooms /\ Main'.found = {} /\ Main'.rows = [r \in Rooms |-> "none"]
<1> DEFINE anew == [NoTask EXCEPT !.pc = "pick", !.todo = JoinedRooms]
<1>1. DOMAIN NoTask = Fields BY DEF NoTask, Fields
<1>2. DOMAIN anew = Fields BY <1>1
<1>3. anew.pc = "pick" /\ anew.todo = JoinedRooms BY <1>1 DEF Fields
<1>4. anew.found = NoTask.found /\ anew.rows = NoTask.rows /\ anew.then = NoTask.then BY <1>1 DEF Fields
<1>5. NoTask.found = {} /\ NoTask.rows = [r \in Rooms |-> "none"] /\ NoTask.then = "idle" BY DEF NoTask
<1> HIDE DEF anew
<1>6. Proceed("main", anew) BY DEF anew
<1>7. "main" \in Tasks /\ "sync" \in Tasks /\ "sync" # "main" BY DEF Tasks
<1>8. /\ Tasked' /\ act'["sync"] = act["sync"]
      /\ \A f \in Fields : act'["main"][f] = IF f \in DOMAIN anew THEN anew[f] ELSE act["main"][f]
  BY <1>6, <1>7, Going
<1>9. \A f \in Fields : act'["main"][f] = anew[f] BY <1>2, <1>8
<1> QED BY <1>3, <1>4, <1>5, <1>8, <1>9 DEF Main, Fields

LEMMA BackAtRest ==
  ASSUME RoomsInv, Main.pc # "down", Finish("main"), Remember({}, {}), UNCHANGED <<scenario, row, dmObs, member, view>>
  PROVE  RoomsInv'
<1>1. Tasked' /\ act'["sync"] = act["sync"] /\ Main' = NoTask
  BY Finishing DEF RoomsInv, Tasks, Main
<1>2. World' /\ \A E : Observing(E) BY SameMembers
<1>3. MainInv' BY <1>1, ToRest DEF NoTask
<1>4. ServingMain' BY <1>1 DEF ServingMain, NoTask
<1> QED BY <1>1, <1>2, <1>3, <1>4, MainMoves

LEMMA PickDoneStep ==
  ASSUME RoomsInv, PickDone
  PROVE  RoomsInv'
<1>1. Main.pc = "pick" /\ Main.todo = {} /\ UNCHANGED <<scenario, row, dmObs, member, view>> /\ Remember({}, {})
  BY DEF PickDone, At, Main, lists, server
<1>2. /\ Main.pc # "down" /\ Main.pc \notin Resting /\ Ahead
      /\ ~IsBridge =>
           /\ \A c \in Main.found : c.room \in once \cup unread
           /\ \A q \in kept : q \in unread \cup Main.todo \/ \E c \in Main.found : c.room = q
      /\ Main.then = "idle" \/ (Main.then = "hello" /\ ~IsBridge)
      /\ Syncer.pc # "idle" => Main.then \in {"idle", "post"}
  BY <1>1, LookingNow DEF Searches, Scans, Reading
<1>3. World' /\ \A E : Observing(E) BY <1>1, <1>2, SameMembers
<1>4. IsBridge' = IsBridge BY <1>1 DEF IsBridge
<1>5. Main'.pc \notin Resting => /\ once \subseteq once' /\ unread \subseteq unread'
                                 /\ \A q \in kept' : q \in kept
  BY <1>1, <1>2, Memory
<1>6. CASE IsBridge /\ \E p : Proceed("main", [pc |-> "scan", pick |-> p, found |-> {}, todo |-> JoinedRooms])
  <2>1. PICK p : Proceed("main", [pc |-> "scan", pick |-> p, found |-> {}, todo |-> JoinedRooms]) BY <1>6
  <2>2. /\ Tasked' /\ act'["sync"] = act["sync"] /\ Main'.pc = "scan" /\ Main'.then = Main.then
        /\ Main'.rows = Main.rows /\ Main'.todo = JoinedRooms /\ Main'.found = {}
    BY <2>1, Going DEF RoomsInv, Tasks, Fields, Main
  <2>3. Main'.pc \notin Resting BY <2>2 DEF Resting
  <2>4. RowsKnown' BY <1>1, <1>2, <1>5, <1>6, <2>2, <2>3 DEF RowsKnown, Ahead, UsableRows
  <2> QED BY <1>1, <1>2, <1>6, <2>2, <2>4, SearchStarts DEF Ahead
<1>7. CASE ~IsBridge /\ Main.then = "hello" /\ Proceed("main", [NoTask EXCEPT !.pc = "pick", !.todo = JoinedRooms])
  <2>1. /\ Tasked' /\ act'["sync"] = act["sync"] /\ Main'.pc = "pick" /\ Main'.then = "idle"
        /\ Main'.todo = JoinedRooms /\ Main'.found = {} /\ Main'.rows = [r \in Rooms |-> "none"]
    BY <1>7, GoingAgain DEF RoomsInv
  <2> QED BY <1>1, <1>2, <1>7, <2>1, SearchStarts
<1>8. CASE Finish("main") BY <1>1, <1>2, <1>8, BackAtRest
<1>9. CASE ~IsBridge /\ Main.then = "idle" /\ Main.found = {} /\ Proceed("main", [pc |-> "create"])
  <2>1. /\ Tasked' /\ act'["sync"] = act["sync"] /\ Main'.pc = "create" /\ Main'.then = Main.then
    BY <1>9, Going DEF RoomsInv, Tasks, Fields, Main
  <2>2. Main'.pc \notin Resting BY <2>1 DEF Resting
  <2>3. kept' \subseteq unread' BY <2>2, <1>1, <1>2, <1>5, <1>9
  <2>4. MainInv' BY <2>1, <2>3, ToSend
  <2>5. ServingMain' BY <2>1, <1>9 DEF ServingMain, SendPcs
  <2> QED BY <1>1, <1>3, <2>1, <2>4, <2>5, MainMoves
<1>10. CASE ~IsBridge /\ Main.then = "idle" /\ \E c \in Main.found :
             Proceed("main", [pc |-> IF c.marked THEN "post" ELSE "mark", then |-> "post", room |-> c.room, found |-> {}])
  <2>1. PICK c \in Main.found :
             Proceed("main", [pc |-> IF c.marked THEN "post" ELSE "mark", then |-> "post", room |-> c.room, found |-> {}])
    BY <1>10
  <2>2. /\ Tasked' /\ act'["sync"] = act["sync"] /\ Main'.pc \in {"post", "mark"} /\ Main'.then = "post"
        /\ Main'.room = c.room
    BY <2>1, Going DEF RoomsInv, Tasks, Fields, Main
  <2>3. Main'.pc \notin Resting BY <2>2 DEF Resting
  <2>4. c.room \in once' \cup unread' BY <2>3, <1>2, <1>5, <1>10
  <2>5. c.room \in Rooms /\ view'[c.room]["me"] = "join" BY <1>1, <1>2 DEF Ahead
  <2>6. MainInv'
    <3>1. CASE Main'.pc = "post" BY <3>1, <2>2, <2>4, <2>5, ToSend
    <3>2. CASE Main'.pc = "mark" BY <3>2, <2>2, <2>4, <2>5, <1>4, <1>10, ToMarking DEF Marking
    <3> QED BY <2>2, <3>1, <3>2
  <2>7. ServingMain' BY <2>2 DEF ServingMain, SendPcs, Marking
  <2> QED BY <1>1, <1>3, <2>2, <2>6, <2>7, MainMoves
<1>11. PickDone /\ act["main"] = Main BY DEF Main
<1> QED
  <2>1. \/ /\ IsBridge
          /\ \E c \in (IF Main.found = {} THEN {[room |-> 0]} ELSE Picks(Main.found)) :
               Proceed("main", [pc |-> "scan", pick |-> c.room, found |-> {}, todo |-> JoinedRooms])
        \/ /\ ~IsBridge /\ Main.then = "hello"
           /\ (Proceed("main", [NoTask EXCEPT !.pc = "pick", !.todo = JoinedRooms]) \/ Finish("main"))
        \/ /\ ~IsBridge /\ Main.then = "idle"
           /\ \/ Main.found = {} /\ Proceed("main", [pc |-> "create"])
              \/ \E c \in Picks(Main.found) :
                  Proceed("main", [pc |-> IF c.marked THEN "post" ELSE "mark", then |-> "post",
                              room |-> c.room, found |-> {}])
    BY <1>11 DEF PickDone
  <2>2. \A c \in Picks(Main.found) : c \in Main.found BY DEF Picks
  <2> QED BY <2>1, <2>2, <1>6, <1>7, <1>8, <1>9, <1>10

LEMMA PostStep ==
  ASSUME RoomsInv, Post
  PROVE  RoomsInv'
BY BackAtRest DEF Post, At, Main, lists, server

LEMMA CreateStep ==
  ASSUME RoomsInv, Create
  PROVE  RoomsInv'
<1>1. Main.pc = "create" /\ UNCHANGED <<scenario, row, dmObs>> /\ Remember({}, {})
  BY DEF Create, At, Main, lists
<1>2. CASE Finish("main") /\ UNCHANGED <<member, view>>
  BY <1>1, <1>2, BackAtRest
<1>3. CASE \E r \in Rooms :
            /\ \A u \in Users : member[r][u] = "none"
            /\ member' = [member EXCEPT ![r] = Created]
            /\ view' = [view EXCEPT ![r] = Created]
            /\ Proceed("main", [pc |-> IF IsBridge THEN "mark" ELSE "post", then |-> "post", room |-> r])
  <2>1. PICK r \in Rooms :
            /\ \A u \in Users : member[r][u] = "none"
            /\ member' = [member EXCEPT ![r] = Created]
            /\ view' = [view EXCEPT ![r] = Created]
            /\ Proceed("main", [pc |-> IF IsBridge THEN "mark" ELSE "post", then |-> "post", room |-> r])
    BY <1>3
  <2>2. Main.pc # "down" /\ \A q \in Rooms : view[q]["me"] = member[q]["me"]
    BY <1>1 DEF RoomsInv, World
  <2>3. r \notin scenario.listed /\ member[r]["me"] = "none" /\ member[r]["ann"] = "none"
    BY <2>1 DEF RoomsInv, World, Users
  <2>4. /\ member' \in [Rooms -> [Users -> Standing]] /\ view' \in [Rooms -> [Users -> Standing]]
        /\ view'[r] = Created /\ member'[r] = Created
        /\ \A q \in Rooms : q # r => member'[q] = member[q] /\ view'[q] = view[q]
    <3>1. Created \in [Users -> Standing] BY DEF Created, Users, Standing
    <3> QED BY <3>1, <2>1 DEF RoomsInv, World
  <2>5. Created["me"] = "join" /\ Created["ann"] = "invite" /\ Created["eve"] = "none"
    BY DEF Created, Users
  <2>6. World' /\ \A E : Observing(E)
    <3>1. /\ \A q \in Rooms : view'[q]["me"] = member'[q]["me"]
          /\ \A q \in Rooms : member[q]["me"] # "none" => member'[q]["me"] # "none"
          /\ \A q \in Rooms : member[q]["ann"] # "none" => member'[q]["ann"] # "none"
      BY <2>2, <2>3, <2>4
    <3> QED BY <3>1, <2>4, <1>1, WorldStep DEF RoomsInv
  <2>7. /\ Tasked' /\ act'["sync"] = act["sync"] /\ Main'.pc = (IF IsBridge THEN "mark" ELSE "post")
        /\ Main'.then = "post" /\ Main'.room = r
    BY <2>1, Going DEF RoomsInv, Tasks, Fields, Main
  <2>8. Main'.pc \notin Resting /\ IsBridge' = IsBridge BY <1>1, <2>7 DEF Resting, IsBridge
  <2>9. Hers(r)'
    <3>1. Open(r)' BY <1>1, <2>3, <2>4, <2>5 DEF Open, ActiveIn, Users
    <3>2. JoinedIn(view'[r]) \ ({row'[r]} \ {"me"}) \subseteq {"me", "eve"}
      BY <2>4, <2>5 DEF JoinedIn, Users
    <3>3. Quiet(r)' BY <3>2, AtMostTwo DEF Quiet
    <3>4. OneToOne(r, dmObs)' BY <3>1, <2>4, <2>5 DEF OneToOne, ActiveIn
    <3> QED BY <3>1, <3>3, <3>4 DEF Hers
  <2>10. r \in once' BY <2>8, <2>9, <1>1, Memory
  <2>11. MainInv'
    <3>1. CASE IsBridge
      BY <3>1, <2>3, <2>4, <2>5, <2>7, <2>10, <1>1, ToMarking DEF Marking
    <3>2. CASE ~IsBridge
      BY <3>2, <2>4, <2>5, <2>7, <2>10, ToSend
    <3> QED BY <3>1, <3>2
  <2>12. ServingMain' BY <2>7 DEF ServingMain, SendPcs, Marking
  <2>13. \A q \in Rooms : view[q]["me"] \in {"join", "invite"} => view'[q]["me"] = view[q]["me"]
    BY <2>2, <2>3, <2>4
  <2> QED BY <2>6, <2>7, <2>11, <2>12, <2>13, <1>1, MainMoves
<1> QED BY <1>2, <1>3 DEF Create

LEMMA Least ==
  ASSUME NEW T, T \subseteq Nat, T # {}
  PROVE  \E x \in T : \A y \in T : x <= y
<1>1. IsWellFoundedOn(OpToRel(<, Nat), Nat) BY NatLessThanWellFounded
<1>2. PICK x \in T : \A y \in T : ~ (<<y, x>> \in OpToRel(<, Nat))
  <2> DEFINE R == OpToRel(<, Nat)
  <2>1. IsWellFoundedOn(R, Nat) BY <1>1
  <2> HIDE DEF R
  <2>2. \E x \in T : \A y \in T : ~ (<<y, x>> \in R) BY <2>1, WFMin
  <2> QED BY <2>2 DEF R
<1>3. \A y \in T : ~(y < x) BY <1>2 DEF OpToRel
<1> QED BY <1>3

LEMMA MinIn ==
  ASSUME NEW T, T \subseteq Nat, T # {}
  PROVE  Min(T) \in T
<1>1. \E x \in T : \A y \in T : x <= y BY Least
<1> QED BY <1>1 DEF Min

\* best_dm chooses one of the rooms that were found.
BestKey(c) == 24 * (IF c.prefer THEN 1 ELSE 0) + 12 * (IF c.observed THEN 1 ELSE 0)
              + 6 * (IF c.direct THEN 1 ELSE 0) + 2 * c.rank + (IF c.pick THEN 1 ELSE 0)

LEMMA KeyBound ==
  ASSUME NEW c \in Candidates
  PROVE  BestKey(c) \in 0 .. 50
<1>1. c.rank \in {1, 2} BY DEF Candidates
<1> QED BY <1>1 DEF BestKey

LEMMA BestIsFound ==
  ASSUME NEW F, F \subseteq Candidates, F # {}
  PROVE  \E c \in F : c.room = Best(F)
<1> DEFINE top == {c \in F : \A d \in F : BestKey(d) <= BestKey(c)}
           gaps == {50 - BestKey(c) : c \in F}
<1>1. \A c \in F : BestKey(c) \in 0 .. 50 BY KeyBound
<1>2. gaps \subseteq Nat /\ gaps # {} BY <1>1
<1>3. PICK g \in gaps : \A h \in gaps : g <= h BY <1>2, Least
<1>4. PICK c \in F : g = 50 - BestKey(c) BY <1>3
<1>5. \A d \in F : BestKey(d) <= BestKey(c)
  <2> SUFFICES ASSUME NEW d \in F PROVE BestKey(d) <= BestKey(c) OBVIOUS
  <2>1. g <= 50 - BestKey(d) BY <1>3
  <2> QED BY <2>1, <1>4, <1>1
<1>6. top # {} BY <1>5
<1>7. {d.room : d \in top} \subseteq Nat BY RoomsAssumption DEF Candidates, RoomsAssumption
<1>8. Min({d.room : d \in top}) \in {d.room : d \in top} BY <1>6, <1>7, MinIn
<1>9. Best(F) = Min({d.room : d \in top}) BY DEF Best, BestKey
<1> QED BY <1>8, <1>9

LEMMA ScanDoneStep ==
  ASSUME RoomsInv, ScanDone
  PROVE  RoomsInv'
<1>1. Main.pc = "scan" /\ Main.todo = {} /\ UNCHANGED <<scenario, row, dmObs, member, view>> /\ Remember({}, {})
      /\ IF Main.found # {} THEN Proceed("main", [pc |-> "post", room |-> Best(Main.found), found |-> {}])
         ELSE Proceed("main", [pc |-> "create"]) \/ Finish("main")
  BY DEF ScanDone, At, Main, lists, server
<1>2. /\ Main.pc # "down" /\ Main.pc \notin Resting /\ Ahead /\ Main.found \subseteq Candidates
      /\ \A c \in Main.found : c.room \in once \cup unread
      /\ \A q \in kept : q \in unread \cup Main.todo \/ \E c \in Main.found : c.room = q
      /\ Syncer.pc # "idle" => Main.then \in {"idle", "post"}
  BY <1>1, LookingNow DEF Searches, Scans, Reading
<1>3. World' /\ \A E : Observing(E) BY <1>1, <1>2, SameMembers
<1>4. CASE Main.found # {} /\ Proceed("main", [pc |-> "post", room |-> Best(Main.found), found |-> {}])
  <2>1. /\ Tasked' /\ act'["sync"] = act["sync"] /\ Main'.pc = "post" /\ Main'.then = Main.then
        /\ Main'.room = Best(Main.found)
    BY <1>4, Going DEF RoomsInv, Tasks, Fields, Main
  <2>2. PICK c \in Main.found : c.room = Best(Main.found) BY <1>2, <1>4, BestIsFound
  <2>3. Main'.pc \notin Resting BY <2>1 DEF Resting
  <2>4. c.room \in once' \cup unread' BY <2>3, <1>1, <1>2, Memory
  <2>5. c.room \in Rooms /\ view'[c.room]["me"] = "join" BY <1>1, <1>2 DEF Ahead
  <2>6. MainInv' BY <2>1, <2>2, <2>4, <2>5, ToSend
  <2>7. Syncer.pc # "idle" => ServingMain' BY <2>1, <1>2 DEF ServingMain, SendPcs
  <2> QED BY <1>1, <1>3, <2>1, <2>6, <2>7, MainMoves
<1>5. CASE Main.found = {} /\ Proceed("main", [pc |-> "create"])
  <2>1. /\ Tasked' /\ act'["sync"] = act["sync"] /\ Main'.pc = "create" /\ Main'.then = Main.then
    BY <1>5, Going DEF RoomsInv, Tasks, Fields, Main
  <2>2. Main'.pc \notin Resting BY <2>1 DEF Resting
  <2>3. unread \subseteq unread' /\ \A q \in kept' : q \in kept BY <2>2, <1>1, <1>2, Memory
  <2>4. kept' \subseteq unread' BY <2>3, <1>1, <1>2, <1>5
  <2>5. MainInv' BY <2>1, <2>4, ToSend
  <2>6. Syncer.pc # "idle" => ServingMain' BY <2>1, <1>2 DEF ServingMain, SendPcs
  <2> QED BY <1>1, <1>3, <2>1, <2>5, <2>6, MainMoves
<1>6. CASE Finish("main") BY <1>1, <1>2, <1>6, BackAtRest
<1> QED BY <1>1, <1>4, <1>5, <1>6

LEMMA UsersFinite == IsFiniteSet(Users)
<1>1. IsFiniteSet({"eve"}) BY FS_Singleton
<1>2. IsFiniteSet({"eve"} \cup {"ann"}) BY <1>1, FS_AddElement
<1>3. IsFiniteSet(({"eve"} \cup {"ann"}) \cup {"me"}) BY <1>2, FS_AddElement
<1>4. ({"eve"} \cup {"ann"}) \cup {"me"} = Users BY DEF Users
<1> QED BY <1>3, <1>4

\* A room that the scan of dm_room_for counts as a pair was one when it was read ...
LEMMA CountedIsQuiet ==
  ASSUME World', NEW r \in Rooms, NEW how, NEW rows \in [Rooms -> {"none", "eve"}],
         row' = row, view'[r] = Read(r, how), rows[r] = UsableRows(row)[r],
         how # "unknown", how = "live" \/ CountsLive(r, rows),
         Counted(r, how, rows) <= 2
  PROVE  Quiet(r)'
<1> DEFINE m == view'[r]
           A == JoinedIn(m) \ ({row'[r]} \ {"me"})
           B == ActiveIn(m) \ {rows[r]}
<1>1. rows[r] = IF row'[r] = "me" THEN "none" ELSE row'[r] BY DEF UsableRows
<1>3. IsFiniteSet(Users) BY UsersFinite
<1>4. Cardinality(A) <= 2
  <2>1. CASE CountsLive(r, rows)
    <3>1. Cardinality(B) <= 2
      <4>1. CountedOpt(r, how, rows) = Cardinality(B) BY <2>1 DEF CountedOpt
      <4>2. B \subseteq Users BY DEF ActiveIn
      <4>3. Cardinality(B) \in Nat BY <4>2, <1>3, FS_Subset, FS_CardinalityType
      <4> HIDE DEF B
      <4> QED BY <4>1, <4>3 DEF Counted, NoCount
    <3>2. A \subseteq B
      BY <1>1 DEF JoinedIn, ActiveIn, Users
    <3>3. B \subseteq Users /\ IsFiniteSet(B) BY <1>3, FS_Subset DEF ActiveIn
    <3>4. Cardinality(A) <= Cardinality(B) /\ Cardinality(A) \in Nat /\ Cardinality(B) \in Nat
      <4> HIDE DEF A, B
      <4> QED BY <3>2, <3>3, FS_Subset, FS_CardinalityType
    <3> HIDE DEF A, B
    <3> QED BY <3>1, <3>4
  <2>2. CASE ~CountsLive(r, rows) /\ how = "live"
    <3> DEFINE C == JoinedIn(m)
    <3>1. C \subseteq Users /\ IsFiniteSet(C) BY <1>3, FS_Subset DEF JoinedIn
    <3>2. CountedOpt(r, how, rows) = Cardinality(C) BY <2>2 DEF CountedOpt
    <3>3. A \subseteq C OBVIOUS
    <3> HIDE DEF A, C
    <3>4. Cardinality(A) <= Cardinality(C) /\ Cardinality(A) \in Nat /\ Cardinality(C) \in Nat
      BY <3>1, <3>3, FS_Subset, FS_CardinalityType
    <3>5. Cardinality(C) <= 2 BY <3>2, <3>4 DEF Counted, NoCount
    <3> QED BY <3>4, <3>5
  <2> QED BY <2>1, <2>2
<1> QED BY <1>4 DEF Quiet

\* ... and one that is hers and nobody else's counts as one.
LEMMA HersIsCounted ==
  ASSUME World', NEW r \in Rooms, NEW how, NEW rows \in [Rooms -> {"none", "eve"}],
         row' = row, view'[r] = Read(r, how), OneToOne(r, row)', rows[r] = UsableRows(row)[r],
         how # "unknown", how = "live" \/ CountsLive(r, rows)
  PROVE  Counted(r, how, rows) <= 2
<1> DEFINE m == Read(r, how)
           B == ActiveIn(m) \ {rows[r]}
           C == JoinedIn(m)
<1>1. rows[r] = IF row'[r] = "me" THEN "none" ELSE row'[r] BY DEF UsableRows
<1>2. "ann" \in ActiveIn(m) /\ ("eve" \notin ActiveIn(m) \/ row'[r] = "eve") BY DEF OneToOne, Open
<1>4. IsFiniteSet(Users) BY UsersFinite
<1>5. CASE CountsLive(r, rows)
  <2>1. CountedOpt(r, how, rows) = Cardinality(B) BY <1>5 DEF CountedOpt
  <2>2. B \subseteq {"me", "ann"} BY <1>1, <1>2 DEF ActiveIn, Users
  <2>3. Cardinality(B) <= 2
    <3> HIDE DEF B
    <3> QED BY <2>2, AtMostTwo
  <2>4. Cardinality(B) \in Nat BY <1>4, FS_Subset, FS_CardinalityType DEF ActiveIn
  <2> HIDE DEF B
  <2> QED BY <2>1, <2>3, <2>4 DEF Counted, NoCount
<1>6. CASE ~CountsLive(r, rows) /\ how = "live"
  <2>1. CountedOpt(r, how, rows) = Cardinality(C) BY <1>6 DEF CountedOpt
  <2>2. "eve" \notin ActiveIn(m) BY <1>1, <1>2, <1>6 DEF CountsLive
  <2>3. C \subseteq {"me", "ann"} BY <2>2 DEF ActiveIn, JoinedIn, Users
  <2>4. Cardinality(C) <= 2
    <3> HIDE DEF C
    <3> QED BY <2>3, AtMostTwo
  <2>5. Cardinality(C) \in Nat BY <1>4, FS_Subset, FS_CardinalityType DEF JoinedIn
  <2> HIDE DEF C
  <2> QED BY <2>1, <2>4, <2>5 DEF Counted, NoCount
<1> QED BY <1>5, <1>6
LEMMA CountedInt ==
  ASSUME NEW r, NEW how, NEW rows
  PROVE  Counted(r, how, rows) \in Int
<1>1. \A m : Cardinality(JoinedIn(m)) \in Nat
  BY UsersFinite, FS_Subset, FS_CardinalityType DEF JoinedIn
<1>2. \A m : \A B \in SUBSET ActiveIn(m) : Cardinality(B) \in Nat
  BY UsersFinite, FS_Subset, FS_CardinalityType DEF ActiveIn
<1>3. CountedOpt(r, how, rows) \in Int
  <2>1. CASE CountsLive(r, rows) /\ how = "unknown" BY <2>1 DEF CountedOpt, NoCount
  <2>2. CASE CountsLive(r, rows) /\ how # "unknown"
    <3>1. CountedOpt(r, how, rows) = Cardinality(ActiveIn(Read(r, how)) \ {rows[r]}) BY <2>2 DEF CountedOpt
    <3> DEFINE B == ActiveIn(Read(r, how)) \ {rows[r]}
    <3>2. B \in SUBSET ActiveIn(Read(r, how)) OBVIOUS
    <3> HIDE DEF B
    <3>3. Cardinality(B) \in Nat BY <3>2, <1>2
    <3> QED BY <3>1, <3>3 DEF B
  <2>3. CASE ~CountsLive(r, rows) /\ how = "live"
    <3>1. CountedOpt(r, how, rows) = Cardinality(JoinedIn(Read(r, how))) BY <2>3 DEF CountedOpt
    <3> QED BY <3>1, <1>1
  <2>4. CASE ~CountsLive(r, rows) /\ how # "live" BY <2>4 DEF CountedOpt, SummaryCount
  <2> QED BY <2>1, <2>2, <2>3, <2>4
<1> QED BY <1>3 DEF Counted, GROUP_IF_UNKNOWN

\* A step of the scan: what it adds was hers, and a room it has done with is one of those,
\* excused, or the one it reads.
LEMMA ScanGoes ==
  ASSUME RoomsInv, Main.pc \in Scans, NEW E, Remember(E, {}), UNCHANGED <<scenario, row, dmObs>>,
         World', \A F : Observing(F), \A q \in Rooms : view'[q]["me"] = view[q]["me"],
         Tasked', act'["sync"] = act["sync"], Main'.pc \in Scans, Main'.then = Main.then,
         Main'.rows = Main.rows, Main'.todo \subseteq Main.todo,
         NEW new, Main'.found = Main.found \cup new, new \subseteq Candidates,
         \A c \in new : view[c.room]["me"] = "join" /\ c.room \in once' \cup unread',
         \A q \in kept' : q \in Main.todo \ Main'.todo \/ (Main.pc \in Reading /\ q = Main.room) =>
                            \/ q \in unread' \/ (Main'.pc \in Reading /\ q = Main'.room)
                            \/ \E c \in new : c.room = q,
         Main'.pc \in Reading => /\ Main'.room \in Rooms /\ view'[Main'.room]["me"] = "join"
                                 /\ Main'.room \notin scenario.listed,
         Main'.pc = "target" => Quiet(Main.room)' \/ Main'.room \in unread',
         Main'.pc \in {"direct", "observer"} =>
           /\ Main'.room \in once' \cup unread'
           /\ \A c \in Main'.cand : c \in Candidates /\ c.room = Main'.room
  PROVE  RoomsInv'
<1>1. /\ Main.pc # "down" /\ Main.pc \notin Resting /\ Ahead /\ IsBridge /\ Main.found \subseteq Candidates
      /\ \A c \in Main.found : c.room \in once \cup unread
      /\ \A r \in kept : \/ r \in unread \cup Main.todo
                         \/ \E c \in Main.found : c.room = r
                         \/ Main.pc \in Reading /\ r = Main.room
      /\ Syncer.pc # "idle" => Main.then \in {"idle", "post"}
  BY LookingNow DEF Searches
<1>2. Main'.pc \notin Resting BY DEF Resting, Scans, Reading
<1>3. /\ once \subseteq once' /\ unread \subseteq unread'
      /\ \A q \in kept' : q \in kept
  BY <1>1, <1>2, Memory
<1>4. IsBridge' BY <1>1 DEF IsBridge
<1>5. \A c \in new : c.room \in Rooms BY DEF Candidates
<1>6. Ahead'
  <2>1. \A c \in Main'.found : c.room \in Rooms /\ view'[c.room]["me"] = "join"
    BY <1>1, <1>5 DEF Ahead
  <2>2. \A q \in Rooms : q \in Main'.todo => view'[q]["me"] = "join" BY <1>1 DEF Ahead
  <2>3. RowsKnown' BY <1>1, <1>3 DEF RowsKnown, Ahead, UsableRows
  <2> QED BY <2>1, <2>2, <2>3, <1>1 DEF Ahead
<1>7. \A c \in Main'.found : c.room \in once' \cup unread' BY <1>1, <1>3
<1>8. \A q \in kept' : \/ q \in unread' \cup Main'.todo
                       \/ \E c \in Main'.found : c.room = q
                       \/ Main'.pc \in Reading /\ q = Main'.room
  BY <1>1, <1>3
<1>9. Main'.found \subseteq Candidates BY <1>1
<1>10. MainInv'
  <2>1. CASE Main'.pc = "scan"
    BY <2>1, <1>4, <1>6, <1>7, <1>8, <1>9, ToLooking DEF Reading
  <2>2. CASE Main'.pc \in Reading
    BY <2>2, <1>4, <1>6, <1>7, <1>8, <1>9, ToReading
  <2> QED BY <2>1, <2>2 DEF Scans
<1>11. Syncer.pc # "idle" => ServingMain'
  BY <1>1 DEF ServingMain, SendPcs, Searches
<1> QED BY <1>10, <1>11, MainMoves

\* The same where it adds nothing.
LEMMA ScanPasses ==
  ASSUME RoomsInv, Main.pc \in Scans, NEW E, Remember(E, {}), UNCHANGED <<scenario, row, dmObs>>,
         World', \A F : Observing(F), \A q \in Rooms : view'[q]["me"] = view[q]["me"],
         Tasked', act'["sync"] = act["sync"], Main'.pc \in Scans, Main'.then = Main.then,
         Main'.rows = Main.rows, Main'.todo \subseteq Main.todo, Main'.found = Main.found,
         \A q \in kept' : q \in Main.todo \ Main'.todo \/ (Main.pc \in Reading /\ q = Main.room) =>
                            q \in unread' \/ (Main'.pc \in Reading /\ q = Main'.room),
         Main'.pc \in Reading => /\ Main'.room \in Rooms /\ view'[Main'.room]["me"] = "join"
                                 /\ Main'.room \notin scenario.listed,
         Main'.pc = "target" => Quiet(Main.room)' \/ Main'.room \in unread',
         Main'.pc \in {"direct", "observer"} =>
           /\ Main'.room \in once' \cup unread'
           /\ \A c \in Main'.cand : c \in Candidates /\ c.room = Main'.room
  PROVE  RoomsInv'
<1>1. Main'.found = Main.found \cup {} OBVIOUS
<1>2. \A c \in {} : view[c.room]["me"] = "join" /\ c.room \in once' \cup unread' OBVIOUS
<1>3. \A q \in kept' : q \in Main.todo \ Main'.todo \/ (Main.pc \in Reading /\ q = Main.room) =>
                          \/ q \in unread' \/ (Main'.pc \in Reading /\ q = Main'.room)
                          \/ \E c \in {} : c.room = q
  OBVIOUS
<1>4. {} \subseteq Candidates OBVIOUS
<1> QED BY <1>1, <1>2, <1>3, <1>4, ScanGoes

\* The rows it counts with are those in force, but for a room that is excused.
LEMMA ScanningNow ==
  ASSUME RoomsInv, Main.pc \in Scans
  PROVE  /\ Main.pc # "down" /\ Main.pc \notin Resting /\ IsBridge
         /\ Main.rows \in [Rooms -> {"none", "eve"}] /\ RowsKnown
         /\ \A q \in Rooms : q \in Main.todo => view[q]["me"] = "join"
         /\ Main.pc \in Reading => /\ Main.room \in Rooms /\ view[Main.room]["me"] = "join"
                                   /\ Main.room \notin scenario.listed
<1>1. /\ Main.pc \in Reading => /\ Main.room \in Rooms /\ view[Main.room]["me"] = "join"
                                /\ Main.room \notin scenario.listed
  BY DEF RoomsInv, MainInv, InRoom, Counting
<1> QED BY <1>1, LookingNow DEF Searches, Ahead

LEMMA ScanRoomStep ==
  ASSUME RoomsInv, NEW r \in Rooms, ScanRoom(r)
  PROVE  RoomsInv'
<1>1. Main.pc = "scan" /\ r \in Main.todo /\ UNCHANGED <<scenario, row, dmObs>> /\ Main.pc \in Scans
      /\ Main.pc \notin Reading
  BY DEF ScanRoom, At, Main, lists, Scans, Reading
<1>2. /\ Main.pc # "down" /\ Main.pc \notin Resting /\ IsBridge
      /\ Main.rows \in [Rooms -> {"none", "eve"}] /\ RowsKnown
      /\ view[r]["me"] = "join"
  BY <1>1, ScanningNow
<1>3. CASE r \in scenario.listed
  <2>1. Proceed("main", [todo |-> Main.todo \ {r}]) /\ UNCHANGED <<member, view>> /\ Remember({}, {})
    BY <1>3 DEF ScanRoom, Main, server
  <2>2. /\ Tasked' /\ act'["sync"] = act["sync"] /\ Main'.pc = "scan" /\ Main'.then = Main.then
        /\ Main'.rows = Main.rows /\ Main'.todo = Main.todo \ {r} /\ Main'.found = Main.found
    BY <2>1, <1>1, Going DEF RoomsInv, Tasks, Fields, Main
  <2>3. World' /\ \A F : Observing(F) BY <2>1, <1>1, <1>2, SameMembers
  <2>4. r \notin kept'
    <3>1. r \in kept' => OneToOne(r, row)' BY <2>1, Memory
    <3>2. IsBridge' /\ r \in scenario'.listed BY <1>1, <1>2, <1>3 DEF IsBridge
    <3> QED BY <3>1, <3>2 DEF OneToOne, Open
  <2>5. Main'.pc \in Scans /\ Main'.pc \notin Reading /\ Main'.pc \notin {"target", "direct", "observer"}
    BY <2>2 DEF Scans, Reading
  <2>6. \A q \in kept' : q \in Main.todo \ Main'.todo \/ (Main.pc \in Reading /\ q = Main.room) => q \in unread'
    BY <2>2, <2>4, <1>1
  <2>7. \A q \in Rooms : view'[q]["me"] = view[q]["me"] BY <2>1
  <2>8. Main'.todo \subseteq Main.todo BY <2>2
  <2> QED BY <2>1, <2>2, <2>3, <2>5, <2>6, <2>7, <2>8, <1>1, ScanPasses
<1>4. CASE r \notin scenario.listed
  <2>1. PICK how \in Answers(r) :
          /\ Learn(r, how)
          /\ IF Counted(r, how, Main.rows) > 2 THEN Proceed("main", [todo |-> Main.todo \ {r}])
             ELSE Proceed("main", [todo |-> Main.todo \ {r}, pc |-> "target", room |-> r])
          /\ Remember(Unread(r, how, Main.rows), {})
    BY <1>4 DEF ScanRoom, Main
  <2> DEFINE E == Unread(r, how, Main.rows)
  <2>2. World' /\ (\A F : Observing(F)) /\ view'[r] = Read(r, how)
        /\ \A q \in Rooms : view'[q]["me"] = view[q]["me"]
    BY <2>1, <1>1, <1>2, LearnMain
  <2>3. Counted(r, how, Main.rows) \in Int BY CountedInt
  <2>4. /\ Tasked' /\ act'["sync"] = act["sync"] /\ Main'.then = Main.then
        /\ Main'.rows = Main.rows /\ Main'.todo = Main.todo \ {r} /\ Main'.found = Main.found
        /\ \/ Main'.pc = "scan" /\ ~(Counted(r, how, Main.rows) <= 2)
           \/ Main'.pc = "target" /\ Main'.room = r /\ Counted(r, how, Main.rows) <= 2
    <3>1. CASE Counted(r, how, Main.rows) > 2
      <4>1. Proceed("main", [todo |-> Main.todo \ {r}]) BY <2>1, <3>1
      <4>2. ~(Counted(r, how, Main.rows) <= 2) BY <2>3, <3>1
      <4> QED BY <4>1, <4>2, <1>1, Going DEF RoomsInv, Tasks, Fields, Main
    <3>2. CASE ~(Counted(r, how, Main.rows) > 2)
      <4>1. Proceed("main", [todo |-> Main.todo \ {r}, pc |-> "target", room |-> r]) BY <2>1, <3>2
      <4>2. Counted(r, how, Main.rows) <= 2 BY <2>3, <3>2
      <4> QED BY <4>1, <4>2, <1>1, Going DEF RoomsInv, Tasks, Fields, Main
    <3> QED BY <3>1, <3>2
  <2>5. Main'.pc \in Scans /\ Main'.pc \notin Resting BY <2>4 DEF Scans, Reading, Resting
  <2>6. /\ unread \subseteq unread' /\ E \subseteq unread'
        /\ (r \in kept' => OneToOne(r, row)')
    BY <2>1, <2>4, <2>5, Memory
  <2>7. r \notin E => how # "unknown" /\ (how = "live" \/ CountsLive(r, Main.rows))
    BY DEF Unread, Answers
  <2>8. r \notin unread' => Main.rows[r] = UsableRows(row)[r] /\ r \notin E
    BY <1>2, <2>6 DEF RowsKnown
  <2>9. ASSUME Counted(r, how, Main.rows) <= 2, r \notin unread' PROVE Quiet(r)'
    BY <2>2, <2>7, <2>8, <2>9, <1>1, <1>2, CountedIsQuiet
  <2>10. ASSUME r \in kept', r \notin unread' PROVE Counted(r, how, Main.rows) <= 2
    BY <2>2, <2>6, <2>7, <2>8, <2>10, <1>1, <1>2, HersIsCounted
  <2>11. Main'.pc = "target" => Quiet(Main.room)' \/ Main'.room \in unread'
    <3> SUFFICES ASSUME Main'.pc = "target", r \notin unread' PROVE Quiet(Main.room)' BY <2>4
    <3>1. Main'.room = r /\ Quiet(r)' BY <2>4, <2>9
    <3> QED BY <3>1 DEF Quiet
  <2>12. \A q \in kept' : q \in Main.todo \ Main'.todo \/ (Main.pc \in Reading /\ q = Main.room) =>
                            q \in unread' \/ (Main'.pc \in Reading /\ q = Main'.room)
    <3>1. \A q \in kept' : q \in Main.todo \ Main'.todo => q = r BY <2>4
    <3>2. r \in kept' => r \in unread' \/ (Main'.pc \in Reading /\ r = Main'.room)
      BY <2>4, <2>10 DEF Reading
    <3> QED BY <3>1, <3>2, <1>1
  <2>13. Main'.pc \in Reading => /\ Main'.room \in Rooms /\ view'[Main'.room]["me"] = "join"
                                 /\ Main'.room \notin scenario.listed
    BY <2>2, <2>4, <1>2, <1>4 DEF Reading
  <2>14. Main'.pc \notin {"direct", "observer"} /\ Main'.todo \subseteq Main.todo BY <2>4
  <2> HIDE DEF E
  <2> QED BY <2>1, <2>2, <2>4, <2>5, <2>11, <2>12, <2>13, <2>14, <1>1, ScanPasses
<1> QED BY <1>3, <1>4

LEMMA AskTargetStep ==
  ASSUME RoomsInv, AskTarget
  PROVE  RoomsInv'
<1>1. Main.pc = "target" /\ UNCHANGED <<scenario, row, dmObs>> /\ Main.pc \in Scans /\ Main.pc \in Reading
  BY DEF AskTarget, At, Main, lists, Scans, Reading
<1>2. /\ Main.pc # "down" /\ Main.pc \notin Resting /\ IsBridge /\ Main.room \in Rooms
      /\ view[Main.room]["me"] = "join" /\ Main.room \notin scenario.listed
  BY <1>1, ScanningNow
<1>3. Quiet(Main.room) \/ Main.room \in unread BY <1>1 DEF RoomsInv, MainInv, Counting
<1>a. PICK r \in Rooms : r = Main.room BY <1>2
<1> DEFINE ann(how) == IF how = "live" THEN Read(r, how)["ann"] ELSE "none"
           cand(how) == [room |-> r, rank |-> IF ann(how) = "join" THEN 2 ELSE 1,
                         prefer |-> r = scenario.reply, observed |-> FALSE, direct |-> FALSE,
                         pick |-> r = Main.pick]
<1>4. PICK how \in Member(r) :
        /\ Learn(r, how)
        /\ IF ann(how) \in {"join", "invite"}
           THEN Proceed("main", [pc |-> "direct", cand |-> {cand(how)}])
           ELSE Proceed("main", [pc |-> "scan", room |-> 0, cand |-> {}, found |-> Main.found])
        /\ Remember(IF how = "live" THEN {} ELSE {r}, {})
  BY <1>a DEF AskTarget, NextRoom, Main
<1>5. World' /\ (\A F : Observing(F)) /\ view'[r] = Read(r, how)
      /\ \A q \in Rooms : view'[q]["me"] = view[q]["me"]
  BY <1>1, <1>2, <1>4, LearnMain
<1>6. cand(how) \in Candidates /\ cand(how).room = r BY DEF Candidates
<1>7. /\ Tasked' /\ act'["sync"] = act["sync"] /\ Main'.then = Main.then
      /\ Main'.rows = Main.rows /\ Main'.todo = Main.todo /\ Main'.found = Main.found
      /\ \/ /\ Main'.pc = "direct" /\ Main'.room = r /\ ann(how) \in {"join", "invite"}
            /\ Main'.cand = {cand(how)}
         \/ Main'.pc = "scan" /\ ann(how) \notin {"join", "invite"}
  <2> HIDE DEF cand
  <2>1. CASE ann(how) \in {"join", "invite"}
    <3>1. Proceed("main", [pc |-> "direct", cand |-> {cand(how)}]) BY <1>4, <2>1
    <3> QED BY <3>1, <2>1, <1>a, Going DEF RoomsInv, Tasks, Fields, Main
  <2>2. CASE ann(how) \notin {"join", "invite"}
    <3>1. Proceed("main", [pc |-> "scan", room |-> 0, cand |-> {}, found |-> Main.found]) BY <1>4, <2>2
    <3> QED BY <3>1, <2>2, Going DEF RoomsInv, Tasks, Fields, Main
  <2> QED BY <2>1, <2>2
<1>8. Main'.pc \in Scans /\ Main'.pc \notin Resting BY <1>7 DEF Scans, Reading, Resting
<1>9. /\ unread \subseteq unread' /\ (how # "live" => r \in unread')
      /\ (Hers(r)' => r \in once') /\ (view'[r] # view[r] => r \in unread')
      /\ (r \in kept' => OneToOne(r, row)')
  <2>1. how # "live" => Remember({r}, {}) BY <1>4
  <2>2. how # "live" => r \in unread' BY <2>1, <1>7, <1>8, Memory
  <2> QED BY <2>2, <1>1, <1>a, <1>4, <1>8, Memory
<1>10. ASSUME ann(how) \in {"join", "invite"} PROVE r \in once' \cup unread'
  <2>1. CASE view'[r] # view[r] \/ r \in unread BY <2>1, <1>9
  <2>2. CASE view'[r] = view[r] /\ r \notin unread
    <3>1. Quiet(r)' BY <2>2, <1>1, <1>3, <1>a DEF Quiet
    <3>2. "ann" \in ActiveIn(view'[r]) BY <1>5, <1>10 DEF ActiveIn, Users
    <3>3. Hers(r)' BY <3>1, <3>2, <1>1, <1>2, <1>5, <1>a DEF Hers, Open, IsBridge
    <3> QED BY <3>3, <1>9
  <2> QED BY <2>1, <2>2
<1>11. ASSUME r \in kept', ann(how) \notin {"join", "invite"} PROVE r \in unread'
  <2>1. "ann" \in ActiveIn(view'[r]) BY <1>9, <1>11 DEF OneToOne, Open
  <2>2. how # "live" BY <2>1, <1>5, <1>11 DEF ActiveIn
  <2> QED BY <2>2, <1>9
<1>12. Main'.pc # "target" /\ Main'.todo \subseteq Main.todo BY <1>7
<1>13. Main'.pc \in Reading => /\ Main'.room \in Rooms /\ view'[Main'.room]["me"] = "join"
                               /\ Main'.room \notin scenario.listed
  BY <1>2, <1>5, <1>7, <1>a DEF Reading
<1>14. Main'.pc \in {"direct", "observer"} =>
         /\ Main'.room \in once' \cup unread'
         /\ \A c \in Main'.cand : c \in Candidates /\ c.room = Main'.room
  <2> HIDE DEF cand, ann
  <2> QED BY <1>6, <1>7, <1>10
<1>15. \A q \in kept' : q \in Main.todo \ Main'.todo \/ (Main.pc \in Reading /\ q = Main.room) =>
                          q \in unread' \/ (Main'.pc \in Reading /\ q = Main'.room)
  BY <1>7, <1>11, <1>a DEF Reading
<1> QED BY <1>1, <1>4, <1>5, <1>7, <1>8, <1>12, <1>13, <1>14, <1>15, ScanPasses

\* What holds once she was found in the room.
LEMMA CandidateNow ==
  ASSUME RoomsInv, Main.pc \in {"direct", "observer"}
  PROVE  /\ Main.room \in once \cup unread
         /\ \A c \in Main.cand : c \in Candidates /\ c.room = Main.room
BY DEF RoomsInv, MainInv, Counting

\* The room is done with: it is among the finds.
LEMMA CandidateFound ==
  ASSUME RoomsInv, Main.pc \in {"direct", "observer"}, NEW c \in Candidates, c.room = Main.room, WithCand(c),
         Remember({}, {}), UNCHANGED <<scenario, row, dmObs>>,
         World', \A F : Observing(F), \A q \in Rooms : view'[q]["me"] = view[q]["me"]
  PROVE  RoomsInv'
<1>1. Main.pc \in Scans /\ Main.pc \in Reading BY DEF Scans, Reading
<1>2. Main.room \in Rooms /\ view[Main.room]["me"] = "join" BY <1>1, ScanningNow
<1>3. Proceed("main", [pc |-> "scan", room |-> 0, cand |-> {}, found |-> Main.found \cup {c}])
  BY DEF WithCand, NextRoom, Main
<1>4. /\ Tasked' /\ act'["sync"] = act["sync"] /\ Main'.pc = "scan" /\ Main'.then = Main.then
      /\ Main'.rows = Main.rows /\ Main'.todo = Main.todo /\ Main'.found = Main.found \cup {c}
  BY <1>3, Going DEF RoomsInv, Tasks, Fields, Main
<1>5. Main'.pc \notin Resting BY <1>4 DEF Resting
<1>6. c.room \in once' \cup unread' BY <1>5, CandidateNow, Memory
<1>7. \A q \in kept' : q \in Main.todo \ Main'.todo \/ (Main.pc \in Reading /\ q = Main.room) =>
                         \E d \in {c} : d.room = q
  BY <1>4
<1>8. Main'.pc \in Scans /\ Main'.pc \notin Reading /\ Main'.pc \notin {"target", "direct", "observer"}
      /\ Main'.todo \subseteq Main.todo
  BY <1>4 DEF Scans, Reading
<1>9. {c} \subseteq Candidates /\ \A d \in {c} : view[d.room]["me"] = "join" /\ d.room \in once' \cup unread'
  BY <1>2, <1>6
<1> DEFINE new == {c}
<1> HIDE DEF new
<1>10. /\ Main'.found = Main.found \cup new /\ new \subseteq Candidates
       /\ \A d \in new : view[d.room]["me"] = "join" /\ d.room \in once' \cup unread'
       /\ \A q \in kept' : q \in Main.todo \ Main'.todo \/ (Main.pc \in Reading /\ q = Main.room) =>
                            \E d \in new : d.room = q
  BY <1>4, <1>7, <1>9 DEF new
<1> QED BY <1>1, <1>4, <1>8, <1>10, ScanGoes

LEMMA AskDirectStep ==
  ASSUME RoomsInv, AskDirect
  PROVE  RoomsInv'
<1>1. /\ Main.pc = "direct" /\ UNCHANGED <<scenario, row, dmObs, member, view>> /\ Remember({}, {})
      /\ Main.pc \in Scans /\ Main.pc \in Reading
  BY DEF AskDirect, At, Main, lists, server, Scans, Reading
<1>2. PICK c \in {[d EXCEPT !.direct = Main.room \in mdirect] : d \in Main.cand} :
        Proceed("main", [pc |-> "observer", cand |-> {c}]) \/ WithCand(c)
  BY DEF AskDirect, Main
<1>3. PICK d \in Main.cand : c = [d EXCEPT !.direct = Main.room \in mdirect] BY <1>2
<1>4. c \in Candidates /\ c.room = Main.room /\ Main.room \in once \cup unread
  <2>1. Main.room \in once \cup unread /\ d \in Candidates /\ d.room = Main.room
    BY <1>1, CandidateNow
  <2>2. (Main.room \in mdirect) \in BOOLEAN OBVIOUS
  <2>3. PICK b \in BOOLEAN : c = [d EXCEPT !.direct = b] BY <1>3, <2>2
  <2> QED BY <2>1, <2>3 DEF Candidates
<1>5. /\ Main.pc # "down" /\ Main.room \in Rooms /\ view[Main.room]["me"] = "join"
      /\ Main.room \notin scenario.listed
  BY <1>1, ScanningNow
<1>6. World' /\ \A F : Observing(F) BY <1>1, <1>5, SameMembers
<1>7. CASE WithCand(c) BY <1>1, <1>4, <1>6, <1>7, CandidateFound
<1>8. CASE Proceed("main", [pc |-> "observer", cand |-> {c}])
  <2>1. /\ Tasked' /\ act'["sync"] = act["sync"] /\ Main'.pc = "observer" /\ Main'.then = Main.then
        /\ Main'.rows = Main.rows /\ Main'.todo = Main.todo /\ Main'.found = Main.found
        /\ Main'.room = Main.room /\ Main'.cand = {c}
    BY <1>8, Going DEF RoomsInv, Tasks, Fields, Main
  <2>2. Main'.pc \notin Resting /\ Main'.pc \in Scans /\ Main'.pc \in Reading
    BY <2>1 DEF Resting, Scans, Reading
  <2>3. Main'.room \in once' \cup unread' BY <2>1, <2>2, <1>1, <1>4, Memory
  <2>4. \A q \in kept' : q \in Main.todo \ Main'.todo \/ (Main.pc \in Reading /\ q = Main.room) =>
                           q \in unread' \/ (Main'.pc \in Reading /\ q = Main'.room)
    BY <2>1, <2>2
  <2>5. Main'.todo \subseteq Main.todo /\ Main'.pc # "target" BY <2>1
  <2>6. \A q \in Rooms : view'[q]["me"] = view[q]["me"] BY <1>1
  <2>7. Main'.room \in Rooms /\ view'[Main'.room]["me"] = "join" /\ Main'.room \notin scenario.listed
    BY <2>1, <1>1, <1>5
  <2>8. \A e \in Main'.cand : e \in Candidates /\ e.room = Main'.room BY <2>1, <1>4
  <2> QED BY <2>1, <2>2, <2>3, <2>4, <2>5, <2>6, <2>7, <2>8, <1>1, <1>6, ScanPasses
<1> QED BY <1>2, <1>7, <1>8

LEMMA AskObserverStep ==
  ASSUME RoomsInv, AskObserver
  PROVE  RoomsInv'
<1>1. Main.pc = "observer" /\ UNCHANGED <<scenario, row, dmObs>> /\ Remember({}, {})
      /\ Main.pc \in Scans /\ Main.pc \in Reading
  BY DEF AskObserver, At, Main, lists, Scans, Reading
<1>2. Main.pc # "down" /\ Main.room \in Rooms BY <1>1, ScanningNow
<1>a. PICK r \in Rooms : r = Main.room BY <1>2
<1>3. PICK how \in Answers(r), d \in Main.cand :
        /\ Learn(r, how)
        /\ WithCand([d EXCEPT !.observed = how # "unknown" /\ RankOf(Verdict(Read(r, how), dmObs[r])) > 0])
  BY <1>a DEF AskObserver, Main
<1>4. d \in Candidates /\ d.room = Main.room BY <1>1, CandidateNow
<1>5. PICK b \in BOOLEAN : b = (how # "unknown" /\ RankOf(Verdict(Read(r, how), dmObs[r])) > 0)
  OBVIOUS
<1>6. WithCand([d EXCEPT !.observed = b]) BY <1>3, <1>5
<1>7. [d EXCEPT !.observed = b] \in Candidates /\ [d EXCEPT !.observed = b].room = Main.room
  BY <1>4 DEF Candidates
<1>8. World' /\ (\A F : Observing(F)) /\ \A q \in Rooms : view'[q]["me"] = view[q]["me"]
  BY <1>1, <1>2, <1>3, LearnMain
<1> QED BY <1>1, <1>6, <1>7, <1>8, CandidateFound

-----------------------------------------------------------------------------
(* Init, Next and the theorems about Rooms *)

LEMMA InitRoomsInv ==
  ASSUME RoomsInit
  PROVE  RoomsInv
<1>1. act["main"] = [NoTask EXCEPT !.pc = "down"] /\ act["sync"] = NoTask /\ act = [t \in Tasks |-> act[t]]
  BY DEF RoomsInit, Tasks
<1>2. Tasked
  <2>1. IsTask(NoTask) /\ IsTask([NoTask EXCEPT !.pc = "down"]) BY DEF IsTask, Fields, NoTask
  <2> QED BY <1>1, <2>1 DEF Tasked, Tasks, IsTask
<1>3. Main.pc = "down" /\ Main.found = {} /\ Main.then = "idle" BY <1>1 DEF Main, NoTask
<1>4. World
  <2>1. scenario \in Scenarios /\ member = scenario.members /\ row = scenario.row
        /\ view = [r \in Rooms |-> [u \in Users |-> "none"]] /\ dmObs = [r \in Rooms |-> "none"]
    BY DEF RoomsInit
  <2>2. /\ member \in [Rooms -> [Users -> Standing]]
        /\ row \in [Rooms -> IF IsBridge THEN Observer ELSE {"none"}]
        /\ \A r \in scenario.listed : member[r]["me"] # "none" \/ member[r]["ann"] # "none"
    BY <2>1, RoomsAssumption DEF RoomsAssumption, IsBridge
  <2>3. row \in [Rooms -> Observer] /\ (~IsBridge => \A r \in Rooms : row[r] = "none")
    BY <2>2 DEF Observer
  <2>4. view \in [Rooms -> [Users -> Standing]] /\ (\A r \in Rooms : view[r]["me"] = "none")
        /\ dmObs \in [Rooms -> {"none", "eve"}] /\ \A r \in Rooms : dmObs[r] = "none"
    BY <2>1 DEF Standing, Users
  <2> QED BY <2>1, <2>2, <2>3, <2>4, <1>3 DEF World
<1>5. Keeping BY DEF RoomsInit, Keeping
<1>6. MainInv
  BY <1>3 DEF MainInv, Phases, Joining, InRoom, Marks, Looking, Counting, Sifting, Gone, MainPcs,
              Marking, Reading, Scans, Searches
<1>7. Syncs BY <1>1 DEF Syncs, Syncer, NoTask, SyncPcs, Marking
<1> QED BY <1>2, <1>4, <1>5, <1>6, <1>7 DEF RoomsInv

\* One lemma above per action.
LEMMA NextRoomsInv ==
  ASSUME RoomsInv, [RoomsNext]_roomsVars
  PROVE  RoomsInv'
<1>1. CASE Connecting
  BY <1>1, ConnectStep, MarkJoinedStep, SettleStep, RepairDirectStep, SetJoinedRoomsStep, LeaveStaleStep,
     RewriteDirectStep, RepairRoomStep, SurveyRoomStep, ReconcileStep, AskAbsentStep, LeaveRoomStep
     DEF Connecting
<1>2. ASSUME NEW t \in Tasks, Handling(t) PROVE RoomsInv'
  <2>1. CASE t = "main"
    BY <1>2, <2>1, CountJoinedMain, MarkMain, FetchDirectMain, WriteDirectMain, TakeInviteMain DEF Handling
  <2>2. CASE t = "sync"
    BY <1>2, <2>2, CountJoinedSync, MarkSync, FetchDirectSync, WriteDirectSync, TakeInviteSync DEF Handling
  <2> QED BY <2>1, <2>2 DEF Tasks
<1>3. CASE Sending
  BY <1>3, StartSendStep, PickDoneStep, ScanDoneStep, CreateStep, PostStep, PickRoomStep, ScanRoomStep,
     AskTargetStep, AskDirectStep, AskObserverStep DEF Sending
<1>4. CASE Syncing
  BY <1>4, FileMessageStep, EndCycleStep, JudgeStep, InviteArrivesStep, SyncStep DEF Syncing
<1>5. CASE Others BY <1>5, ChangeStep, EditRowStep DEF Others
<1>6. CASE UNCHANGED roomsVars
  <2> USE <1>6 DEF roomsVars
  <2>1. Tasked' BY DEF RoomsInv, Tasked, IsTask
  <2>2. World' BY DEF RoomsInv, World, IsBridge, Main
  <2>3. Keeping' BY DEF RoomsInv, Keeping, OneToOne, Open, IsBridge
  <2>4. MainInv'
    BY DEF RoomsInv, MainInv, Phases, Joining, InRoom, Marks, Looking, RowsKnown, Counting, Quiet, Sifting, Gone,
           Main, IsBridge
  <2>5. Syncs' BY DEF RoomsInv, Syncs, Syncer, Main, ServingMain, IsBridge
  <2> QED BY <2>1, <2>2, <2>3, <2>4, <2>5 DEF RoomsInv
<1> QED BY <1>1, <1>2, <1>3, <1>4, <1>5, <1>6 DEF RoomsNext

\* Whatever a task knows of the rooms it has in hand stays true enough to act on, or the
\* room is among the excused, under every interleaving of the two tasks, of members coming
\* and going, and of edited rows.
THEOREM RoomsInvariant == RoomsSpec => []RoomsInv
<1>1. RoomsInit => RoomsInv BY InitRoomsInv
<1>2. RoomsInv /\ [RoomsNext]_roomsVars => RoomsInv' BY NextRoomsInv
<1> QED BY <1>1, <1>2, PTL DEF RoomsSpec

\* A message to a person is posted into a room that was hers at some moment of the send,
\* or whose members the send could not read, or changed between its count and the look
\* whether she is in it, or whose row was edited meanwhile: dm_room_for and find_dm_room,
\* for any number of rooms, members and edits.
THEOREM MessageReachesHer == RoomsSpec => []PersonGetsNoGroup
<1>1. RoomsInv => PersonGetsNoGroup BY DEF RoomsInv, MainInv, Marks, PersonGetsNoGroup, At, Main
<1> QED BY <1>1, RoomsInvariant, PTL

\* mark_dm writes a room into m.direct only if at some moment since the task took it up
\* nobody but she, this account and an observer was in it or invited, in both tasks.
THEOREM RecordedWereHers == RoomsSpec => []DirectOnlyPrivate
<1>1. RoomsInv => DirectOnlyPrivate BY DEF RoomsInv, MainInv, Marks, Syncs, DirectOnlyPrivate, At, Main, Syncer, Tasks
<1> QED BY <1>1, RoomsInvariant, PTL

\* ensure_dm_room and MissingDm create a room only when none was a 1:1 with her throughout
\* the send, but for rooms the send could not read or whose row was edited meanwhile.
THEOREM OneRoomForHer == RoomsSpec => []NoSecondDm
<1>1. RoomsInv => NoSecondDm BY DEF RoomsInv, MainInv, Sifting, NoSecondDm, At, Main
<1> QED BY <1>1, RoomsInvariant, PTL

\* No joined room is left by a step; or only an abandoned one, or one that is excused.
Stays == \A r \in Rooms : view[r]["me"] = "join" => view'[r]["me"] # "leave"
LeavesDead == \A r \in Rooms : view[r]["me"] = "join" /\ view'[r]["me"] = "leave" => r \in dead \cup unread

LEMMA StaysSame == ASSUME view' = view PROVE Stays
BY DEF Stays
LEMMA StaysKnown == ASSUME RoomsInv, view' = Known PROVE Stays
BY KnownFacts DEF Stays, RoomsInv, World
LEMMA StaysLearn == ASSUME RoomsInv, NEW r \in Rooms, NEW how, Learn(r, how) PROVE Stays
BY DEF Stays, RoomsInv, World, Learn, server
LEMMA StaysSynced == ASSUME RoomsInv, NEW r \in Rooms, view' = [view EXCEPT ![r] = member[r]] PROVE Stays
BY DEF Stays, RoomsInv, World
LEMMA StaysSet == ASSUME RoomsInv, NEW r \in Rooms, NEW s, s # "leave" \/ view[r]["me"] # "join", SetMe(r, s) PROVE Stays
BY DEF Stays, RoomsInv, World, SetMe, Users

LEMMA HandlingStays ==
  ASSUME RoomsInv, NEW t \in Tasks, Handling(t)
  PROVE  Stays
<1>1. CASE CountJoined(t)
  <2>1. act[t].room \in Rooms
    <3>1. CASE t = "main" BY <1>1, <3>1 DEF CountJoined, At, RoomsInv, MainInv, InRoom, Main
    <3>2. CASE t = "sync" BY <1>1, <3>2 DEF CountJoined, At, RoomsInv, Syncs, Syncer
    <3> QED BY <3>1, <3>2 DEF Tasks
  <2>2. PICK how : Learn(act[t].room, how) BY <1>1 DEF CountJoined
  <2> QED BY <2>1, <2>2, StaysLearn
<1>2. CASE Mark(t)
  <2>1. act[t].room \in Rooms
    <3>1. CASE t = "main" BY <1>2, <3>1 DEF Mark, At, RoomsInv, MainInv, InRoom, Main, Marking
    <3>2. CASE t = "sync" BY <1>2, <3>2 DEF Mark, At, RoomsInv, Syncs, Syncer
    <3> QED BY <3>1, <3>2 DEF Tasks
  <2>2. PICK how : Learn(act[t].room, how) BY <1>2 DEF Mark
  <2> QED BY <2>1, <2>2, StaysLearn
<1>3. CASE FetchDirect(t) \/ WriteDirect(t)
  BY <1>3, StaysSame DEF FetchDirect, WriteDirect, server
<1>4. ASSUME NEW r \in Rooms, TakeInvite(t, r) PROVE Stays
  <2>1. view[r]["me"] = "invite"
    <3>1. CASE t = "main" /\ At(t, "invites") /\ r \in act[t].todo
      BY <3>1 DEF At, RoomsInv, MainInv, Joining, Main
    <3>2. CASE t = "sync" /\ At(t, "invited") /\ r = act[t].room
      BY <3>2 DEF At, RoomsInv, Syncs, Syncer
    <3> QED BY <1>4, <3>1, <3>2 DEF TakeInvite
  <2>2. (\E s : SetMe(r, s)) \/ UNCHANGED <<member, view>> BY <1>4 DEF TakeInvite
  <2> QED BY <2>1, <2>2, StaysSet, StaysSame
<1> QED BY <1>1, <1>2, <1>3, <1>4 DEF Handling

LEMMA ConnectingLeaves ==
  ASSUME RoomsInv, Connecting
  PROVE  LeavesDead
<1>1. CASE Connect \/ Settle BY <1>1, StaysKnown DEF Connect, Settle, Stays, LeavesDead
<1>2. CASE MarkJoined \/ RepairDirect \/ SetJoinedRooms \/ LeaveStale \/ RewriteDirect
  BY <1>2, StaysSame DEF MarkJoined, RepairDirect, SetJoinedRooms, LeaveStale, RewriteDirect, server, Stays, LeavesDead
<1>3. ASSUME NEW r \in Rooms, RepairRoom(r) \/ SurveyRoom(r) \/ Reconcile(r) PROVE LeavesDead
  <2>1. \E how : Learn(r, how) BY <1>3 DEF RepairRoom, SurveyRoom, Reconcile
  <2> QED BY <2>1, StaysLearn DEF Stays, LeavesDead
<1>4. ASSUME NEW r \in Rooms, LeaveRoom(r) PROVE LeavesDead
  <2>1. r \in dead \cup unread BY <1>4 DEF LeaveRoom, At, RoomsInv, MainInv, Gone, Main
  <2>2. \A q \in Rooms : q # r => view'[q] = view[q] BY <1>4 DEF LeaveRoom, SetMe, RoomsInv, World
  <2> QED BY <2>1, <2>2 DEF LeavesDead
<1>5. CASE AskAbsent
  <2>1. Main.room \in Rooms /\ \E how : Learn(Main.room, how)
    BY <1>5 DEF AskAbsent, At, RoomsInv, MainInv, Gone, Main
  <2> QED BY <2>1, StaysLearn DEF Stays, LeavesDead
<1> QED BY <1>1, <1>2, <1>3, <1>4, <1>5 DEF Connecting

LEMMA RestStays ==
  ASSUME RoomsInv, Sending \/ Syncing \/ Others
  PROVE  Stays
<1>1. CASE StartSend \/ PickDone \/ AskDirect \/ ScanDone \/ Post \/ FileMessage \/ EndCycle
  BY <1>1, StaysSame DEF StartSend, PickDone, AskDirect, ScanDone, Post, FileMessage, EndCycle, server
<1>2. CASE Create
  <2>1. CASE UNCHANGED <<member, view>> BY <2>1, StaysSame
  <2>2. CASE \E r \in Rooms : view' = [view EXCEPT ![r] = Created]
    <3>1. PICK r \in Rooms : view' = [view EXCEPT ![r] = Created] BY <2>2
    <3>2. view'[r]["me"] = "join" /\ \A q \in Rooms : q # r => view'[q] = view[q]
      BY <3>1 DEF RoomsInv, World, Users, Created
    <3> QED BY <3>2 DEF Stays
  <2> QED BY <1>2, <2>1, <2>2 DEF Create
<1>3. ASSUME NEW r \in Rooms, PickRoom(r) \/ ScanRoom(r) \/ Judge(r) PROVE Stays
  <2>1. (\E how : Learn(r, how)) \/ view' = view BY <1>3 DEF PickRoom, ScanRoom, Judge, server
  <2> QED BY <2>1, StaysLearn, StaysSame
<1>4. ASSUME NEW r \in Rooms, InviteArrives(r) PROVE Stays
  BY <1>4, StaysSet DEF InviteArrives
<1>5. ASSUME NEW r \in Rooms, Sync(r) PROVE Stays BY <1>5, StaysSynced DEF Sync
<1>6. ASSUME NEW r \in Rooms, NEW u \in Users, NEW s \in Standing, Change(r, u, s) PROVE Stays
  BY <1>6, StaysSame DEF Change
<1>7. ASSUME NEW r \in Rooms, NEW o, EditRow(r, o) PROVE Stays
  BY <1>7, StaysSame DEF EditRow, server
<1>8. CASE AskTarget \/ AskObserver
  <2>1. Main.room \in Rooms
    BY <1>8 DEF AskTarget, AskObserver, At, RoomsInv, MainInv, InRoom, Main, Reading
  <2>2. \E how : Learn(Main.room, how) BY <1>8 DEF AskTarget, AskObserver, Main
  <2> QED BY <2>1, <2>2, StaysLearn
<1> QED BY <1>1, <1>2, <1>3, <1>4, <1>5, <1>6, <1>7, <1>8 DEF Sending, Syncing, Others

\* A joined room is left only by the relay's clean-up, and only if she had left it and
\* nobody else was there at some moment of it, or its member list could not be fetched.
THEOREM OnlyAbandonedLeft == RoomsSpec => LeavesOnlyAbandoned
<1>1. RoomsInv /\ [RoomsNext]_roomsVars => [LeavesDead]_roomsVars
  <2> SUFFICES ASSUME RoomsInv, RoomsNext PROVE LeavesDead OBVIOUS
  <2>1. CASE Connecting BY <2>1, ConnectingLeaves
  <2>2. CASE \E t \in Tasks : Handling(t) BY <2>2, HandlingStays DEF Stays, LeavesDead
  <2>3. CASE Sending \/ Syncing \/ Others BY <2>3, RestStays DEF Stays, LeavesDead
  <2> QED BY <2>1, <2>2, <2>3 DEF RoomsNext
<1>2. [LeavesDead]_roomsVars => [\A r \in Rooms : view[r]["me"] = "join" /\ view'[r]["me"] = "leave" => r \in dead \cup unread]_roomsVars
  BY DEF LeavesDead
<1> QED BY <1>1, <1>2, RoomsInvariant, PTL DEF RoomsSpec, LeavesOnlyAbandoned
=============================================================================
