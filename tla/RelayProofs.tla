----------------------------- MODULE RelayProofs -----------------------------
(***************************************************************************)
(* Theorems about Relay, for every set of messages, rooms and guests and    *)
(* any number of crashes.                                                   *)
(*                                                                          *)
(* Safety: a message can only be lost when the watermark of its room passes *)
(* it undispatched.  It does not, because what is outstanding is either     *)
(* queued, and then dispatched oldest first, or newer than all that is      *)
(* queued for its room (Ordered); and because what the sync token is past   *)
(* was found by the scan that follows (Consumed).                           *)
(*                                                                          *)
(* Once: what was run in this process is behind its watermark (BehindGate), *)
(* and what is still to be replayed was not touched since the start.        *)
(*                                                                          *)
(* WorkRecorded adds that whatever is worked on is in the journal or        *)
(* answered; from the three, each step is one of WorkPromise.               *)
(*                                                                          *)
(* Below them, those about Stream: how a reply comes into a room.           *)
(***************************************************************************)
EXTENDS Relay, Stream, SequenceTheorems, WellFoundedInduction, TLAPS

\* Rooms with a watermark in common are one room, and no other actionable
\* message of it has the timestamp of a message of work: else the gate drops
\* the second of them (InboundWatermarks::for_room, dispatch).
GatesSeparate ==
  /\ \A m, o \in Msgs : Gate(m) = Gate(o) => RoomOf[m] = RoomOf[o]
  /\ \A m \in Work, o \in Msgs :
       Gate(m) = Gate(o) /\ Ts[m] = Ts[o] /\ Kind[o] # "notice" => m = o

\* The three failures that lose messages do not happen.
NoLosses == Faults \cap {"crash_in_accept", "scan", "keys"} = {}

-----------------------------------------------------------------------------
(* Types *)

LEMMA GateIsOne == ASSUME NEW m \in Msgs PROVE Gate(m) \in Gates
  BY DEF Gate, Gates

LEMMA TimesAreTimes == ASSUME NEW m \in Msgs PROVE Ts[m] \in Nat /\ Ts[m] > 0
  BY RelayAssumption DEF RelayAssumption

LEMMA TypeInit == Init => TypeOK
<1> SUFFICES ASSUME Init PROVE TypeOK
  OBVIOUS
<1>1. watermark \in [Gates -> Nat] /\ wmDisk = watermark /\ \A g \in Gates : watermark[g] = 0
  BY DEF Init
<1>2. crashes \in 0..MaxCrashes
  BY RelayAssumption DEF RelayAssumption, Init
<1>3. admitted \in BOOLEAN /\ replayDue \in BOOLEAN /\ owns \in BOOLEAN
  BY DEF Init
<1> QED BY <1>1, <1>2, <1>3 DEF Init, TypeOK

LEMMA TypeCycle == TypeOK /\ Cycle => TypeOK'
<1> SUFFICES ASSUME TypeOK, Cycle PROVE TypeOK'
  OBVIOUS
<1> USE DEF TypeOK, policy, server, files, lists
<1>1. CASE Start
  <2>1. admitted' \in BOOLEAN /\ replayDue' \in BOOLEAN
    BY <1>1, Zenon DEF Start
  <2> QED BY <1>1, <2>1 DEF Start
<1>2. CASE Connect
  BY <1>2 DEF Connect, InState
<1>3. CASE ListEnds
  BY <1>3 DEF ListEnds, Unanswered, InState
<1>4. ASSUME NEW r \in Rooms, ScanRoom(r) PROVE TypeOK'
  BY <1>4 DEF ScanRoom, Missed
<1>5. CASE ScanEnds
  BY <1>5 DEF ScanEnds
<1>6. CASE BackfillEnds
  BY <1>6 DEF BackfillEnds
<1> QED BY <1>1, <1>2, <1>3, <1>4, <1>5, <1>6 DEF Cycle

LEMMA TypeAccept == ASSUME TypeOK, NEW m \in Msgs, Accept(m) PROVE TypeOK'
<1> USE DEF TypeOK, policy, server, files, lists
<1>1. Gate(m) \in Gates /\ Ts[m] \in Nat
  BY GateIsOne, TimesAreTimes
<1>2. Ts[m] > watermark[Gate(m)]
  BY DEF Accept, Dropped, Fresh
<1>3. watermark' \in [Gates -> Nat] /\ wmDisk' \in [Gates -> Nat]
  BY <1>1 DEF Accept
<1>4. \A g \in Gates : wmDisk'[g] <= watermark'[g]
  BY <1>1, <1>2 DEF Accept
<1>5. cur' \in [msg : Msgs, step : {"resend", "done", "accepted", "handling"}] \cup {Idle}
  BY DEF Accept, At
<1> QED BY <1>3, <1>4, <1>5 DEF Accept

LEMMA TypeStep == TypeOK /\ Step => TypeOK'
<1> SUFFICES ASSUME TypeOK, Step PROVE TypeOK'
  OBVIOUS
<1> USE DEF TypeOK, policy, server, files, lists
<1>1. ASSUME NEW m \in Msgs, Resend(m) PROVE TypeOK'
  BY <1>1 DEF Resend, At
<1>2. ASSUME NEW m \in Msgs, Replay(m) PROVE TypeOK'
  BY <1>2 DEF Replay, At, MarkDone
<1>3. ASSUME NEW m \in Msgs, Drop(m) PROVE TypeOK'
  BY <1>3 DEF Drop
<1>4. ASSUME NEW m \in Msgs, Accept(m) PROVE TypeOK'
  BY <1>4, TypeAccept
<1>5. CASE Enqueue
  BY <1>5 DEF Enqueue, At, Idle
<1>6. CASE HandlerReturns
  BY <1>6 DEF HandlerReturns, At, Idle
<1>7. CASE Forget
  BY <1>7 DEF Forget, MarkDone, Idle
<1> QED BY <1>1, <1>2, <1>3, <1>4, <1>5, <1>6, <1>7 DEF Step

LEMMA TypeNext == TypeOK /\ [Next]_vars => TypeOK'
<1> SUFFICES ASSUME TypeOK, [Next]_vars PROVE TypeOK'
  OBVIOUS
<1> USE DEF TypeOK, policy, server, files, lists
<1>1. ASSUME NEW m \in Msgs, Post(m) PROVE TypeOK'
  BY <1>1 DEF Post
<1>2. CASE Cycle
  BY <1>2, TypeCycle
<1>3. CASE Step
  BY <1>3, TypeStep
<1>4. CASE ResendOk \/ ResendFails
  BY <1>4 DEF ResendOk, ResendFails, At, Idle
<1>5. CASE Sync
  BY <1>5 DEF Sync
<1>6. CASE CycleEnds
  BY <1>6 DEF CycleEnds
<1>7. ASSUME NEW m \in Msgs, Task(m) PROVE TypeOK'
  BY <1>7 DEF Task, TaskRecords, TaskSends, TaskFails, TaskDone, MarkDone
<1>8. CASE Crash
  BY <1>8, RelayAssumption DEF RelayAssumption, Crash
<1>9. CASE UNCHANGED vars
  BY <1>9 DEF vars
<1> QED BY <1>1, <1>2, <1>3, <1>4, <1>5, <1>6, <1>7, <1>8, <1>9 DEF Next

\* The relay keeps its types, and no watermark file is ever ahead of the
\* memory (Watermark::advance).
THEOREM RelayTypes == Spec => []TypeOK
<1> QED BY TypeInit, TypeNext, PTL DEF Spec

-----------------------------------------------------------------------------
(* Nothing is lost *)

Dispatching == phase \in {"scan", "backfill", "live"}

\* What is still to be dispatched: work nobody has moved the watermark past.
Outstanding(m) == m \in posted \cap Work /\ Admits(m) /\ Fresh(m)

\* No message of a room is queued behind the back of an older one.
Ordered ==
  Dispatching => \A o \in Msgs, q \in queue :
                   Outstanding(o) /\ o \notin queue /\ Gate(q) = Gate(o) => Ts[q] <= Ts[o]

\* What the sync token is past is found by the scan.
Consumed ==
  Dispatching => \A o \in synced :
                   Outstanding(o) /\ (phase = "scan" => RoomOf[o] \notin toScan) => o \in queue

\* An item leaves the journal only behind its answer.
Answered ==
  /\ cur.step = "done" => cur.msg \in settled
  /\ \A m \in Msgs : tasks[m] = "sent" => m \in settled

\* Nothing is queued outside of these phases.
NoneQueued == ~Dispatching => queue = {}

\* A watermark is where it was seeded or at a message that was dispatched.
ReachedBy(g, t) ==
  t = 0 \/ \E o \in posted : Kind[o] # "notice" /\ Gate(o) = g /\ Ts[o] = t
Reached == \A g \in Gates : ReachedBy(g, watermark[g]) /\ ReachedBy(g, wmDisk[g])

Safety == TypeOK /\ NothingLost /\ Ordered /\ Consumed /\ Answered /\ NoneQueued /\ Reached

LEMMA SafetyInit == Init => Safety
<1> SUFFICES ASSUME Init PROVE Safety
  OBVIOUS
<1> QED BY TypeInit DEF Init, Safety, NothingLost, Ordered, Consumed, Answered, NoneQueued,
             Dispatching, Idle, Reached, ReachedBy

\* What a step that leaves the messages and the watermarks alone has to show.
LEMMA SafetyFrame ==
  ASSUME Safety, TypeOK', UNCHANGED <<posted, watermark, wmDisk, admitted>>,
         settled \subseteq settled',
         \A m \in Msgs : journal'[m] = "none" => journal[m] = "none" \/ m \in settled' \/ ~Admits(m),
         cur.step = "accepted" => cur' = cur \/ journal'[cur.msg] # "none",
         Ordered', Consumed', Answered', NoneQueued'
  PROVE  Safety'
<1>1. NothingLost'
  <2> SUFFICES ASSUME NEW m \in posted \cap Work, Admits(m), Ts[m] <= watermark[Gate(m)]
               PROVE  m \in settled' \/ journal'[m] # "none" \/ cur' = At(m, "accepted")
    BY DEF NothingLost, Admits
  <2>1. m \in settled \/ journal[m] # "none" \/ cur = At(m, "accepted")
    BY DEF Safety, NothingLost
  <2>2. m \in Msgs
    BY DEF Work
  <2> QED BY <2>1, <2>2 DEF At
<1>2. Reached'
  BY DEF Safety, Reached, ReachedBy
<1> QED BY <1>1, <1>2 DEF Safety

\* The newest of all is posted: nothing has moved a watermark past it.
LEMMA SafetyPost ==
  ASSUME GatesSeparate, Safety, NEW m \in Msgs, Post(m)
  PROVE  Safety'
<1> USE DEF Post, policy, files, lists
<1>1. TypeOK'
  BY TypeNext DEF Safety, Next
<1>2. m \notin posted /\ posted' = posted \cup {m} /\ \A o \in posted : Ts[o] <= Ts[m]
  OBVIOUS
<1>3. posted \subseteq Msgs /\ queue \subseteq posted /\ synced \subseteq posted
  BY DEF Safety, TypeOK
<1>4. Ts[m] \in Nat /\ Ts[m] > 0 /\ Gate(m) \in Gates
  BY GateIsOne, TimesAreTimes
<1>5. m \in Work => Ts[m] > watermark[Gate(m)]
  <2> SUFFICES ASSUME m \in Work PROVE Ts[m] > watermark[Gate(m)]
    OBVIOUS
  <2>1. CASE watermark[Gate(m)] = 0
    BY <2>1, <1>4
  <2>2. CASE watermark[Gate(m)] # 0
    <3>1. PICK o \in posted : Kind[o] # "notice" /\ Gate(o) = Gate(m) /\ Ts[o] = watermark[Gate(m)]
      BY <2>2, <1>4 DEF Safety, Reached, ReachedBy
    <3>2. o \in Msgs /\ o # m
      BY <1>2, <1>3
    <3>3. Ts[o] # Ts[m]
      BY <3>1, <3>2 DEF GatesSeparate
    <3>4. Ts[o] <= Ts[m] /\ Ts[o] \in Nat
      BY <1>2, <3>2, TimesAreTimes
    <3> QED BY <3>1, <3>3, <3>4, <1>4
  <2> QED BY <2>1, <2>2
<1>6. NothingLost'
  <2> SUFFICES ASSUME NEW o \in posted' \cap Work, Admits(o), Ts[o] <= watermark[Gate(o)]
               PROVE  o \in settled \/ journal[o] # "none" \/ cur = At(o, "accepted")
    BY DEF NothingLost, Admits
  <2>1. o \in posted
    BY <1>1, <1>2, <1>4, <1>5, GateIsOne DEF TypeOK
  <2> QED BY <2>1 DEF Safety, NothingLost
<1>7. Ordered'
  <2> SUFFICES ASSUME Dispatching, NEW o \in Msgs, NEW q \in queue, Outstanding(o)', o \notin queue,
                      Gate(q) = Gate(o)
               PROVE  Ts[q] <= Ts[o]
    BY DEF Ordered, Dispatching
  <2>1. CASE o = m
    BY <2>1, <1>2, <1>3
  <2>2. CASE o # m
    BY <2>2, <1>2 DEF Outstanding, Admits, Fresh, Safety, Ordered
  <2> QED BY <2>1, <2>2
<1>8. Consumed'
  BY <1>2, <1>3 DEF Safety, Consumed, Dispatching, Outstanding, Admits, Fresh
<1>9. Answered' /\ NoneQueued'
  BY DEF Safety, Answered, NoneQueued, Dispatching
<1>10. Reached'
  BY <1>2 DEF Safety, Reached, ReachedBy
<1> QED BY <1>1, <1>6, <1>7, <1>8, <1>9, <1>10 DEF Safety

\* The watermark is set to the oldest message queued for its room.
LEMMA SafetyAccept ==
  ASSUME GatesSeparate, Safety, NEW m \in Msgs, Accept(m)
  PROVE  Safety'
<1> USE DEF policy, server
<1>1. TypeOK'
  BY TypeAccept DEF Safety
<1>2. /\ m \in queue /\ queue' = queue \ {m} /\ cur = Idle
      /\ phase \in {"backfill", "live"}
      /\ Kind[m] # "notice" /\ Fresh(m)
      /\ \A o \in queue : RoomOf[o] = RoomOf[m] => Ts[m] <= Ts[o]
      /\ UNCHANGED <<posted, synced, phase, admitted, journal, settled, tasks, toScan>>
      /\ watermark' = [watermark EXCEPT ![Gate(m)] = Ts[m]]
      /\ cur' = IF Kind[m] = "empty" THEN Idle ELSE At(m, "accepted")
  BY DEF Accept, First, Dropped
<1>3. Gate(m) \in Gates /\ watermark \in [Gates -> Nat] /\ posted \subseteq Msgs
      /\ queue \subseteq posted /\ Work \subseteq Msgs
  BY GateIsOne DEF Safety, TypeOK, Work
<1>4. \A o \in Msgs : Fresh(o)' => Fresh(o)
  BY <1>2, <1>3, GateIsOne, TimesAreTimes DEF Fresh
<1>5. ~Fresh(m)'
  BY <1>2, <1>3, TimesAreTimes DEF Fresh
<1>6. ASSUME NEW o \in posted \cap Work, Admits(o), Fresh(o), ~Fresh(o)'
      PROVE  o = m
  <2>1. Gate(o) = Gate(m) /\ Ts[o] <= Ts[m]
    BY <1>2, <1>3, <1>6, GateIsOne, TimesAreTimes DEF Fresh
  <2>2. RoomOf[o] = RoomOf[m]
    BY <2>1, <1>3 DEF GatesSeparate
  <2>3. Ts[m] <= Ts[o]
    <3>1. CASE o \in queue
      BY <3>1, <2>2, <1>2
    <3>2. CASE o \notin queue
      BY <3>2, <2>1, <1>2, <1>3, <1>6 DEF Safety, Ordered, Dispatching, Outstanding
    <3> QED BY <3>1, <3>2
  <2>4. Ts[m] = Ts[o]
    BY <2>1, <2>3, <1>3, TimesAreTimes
  <2> QED BY <2>1, <2>4, <1>2, <1>3 DEF GatesSeparate
<1>7. NothingLost'
  <2> SUFFICES ASSUME NEW o \in posted \cap Work, Admits(o), Ts[o] <= watermark'[Gate(o)]
               PROVE  o \in settled \/ journal[o] # "none" \/ cur' = At(o, "accepted")
    BY <1>2 DEF NothingLost, Admits
  <2>1. CASE Fresh(o)
    <3>1. o \in Msgs /\ ~Fresh(o)'
      BY <1>1, <1>3, GateIsOne, TimesAreTimes DEF Fresh, TypeOK
    <3>2. o = m
      BY <3>1, <2>1, <1>6
    <3> QED BY <3>2, <1>2 DEF Work
  <2>2. CASE ~Fresh(o)
    <3>1. Ts[o] <= watermark[Gate(o)]
      BY <2>2, <1>3, GateIsOne, TimesAreTimes DEF Fresh
    <3> QED BY <3>1, <1>2 DEF Safety, NothingLost, At, Idle
  <2> QED BY <2>1, <2>2
<1>8. Ordered'
  <2> SUFFICES ASSUME NEW o \in Msgs, NEW q \in queue', Outstanding(o)', o \notin queue',
                      Gate(q) = Gate(o)
               PROVE  Ts[q] <= Ts[o]
    BY DEF Ordered
  <2>1. o # m
    BY <1>5 DEF Outstanding
  <2>2. Outstanding(o) /\ o \notin queue /\ q \in queue
    BY <2>1, <1>2, <1>4 DEF Outstanding, Admits
  <2> QED BY <2>2, <1>2 DEF Safety, Ordered, Dispatching
<1>9. Consumed'
  <2> SUFFICES ASSUME NEW o \in synced, Outstanding(o)' PROVE o \in queue'
    BY <1>2 DEF Consumed
  <2>1. o # m
    BY <1>5 DEF Outstanding
  <2>2. Outstanding(o)
    BY <1>2, <1>3, <1>4 DEF Outstanding, Admits
  <2> QED BY <2>1, <2>2, <1>2 DEF Safety, Consumed, Dispatching
<1>10. Answered' /\ NoneQueued'
  BY <1>2 DEF Safety, Answered, NoneQueued, Dispatching, At, Idle
<1>11. Reached'
  <2>1. wmDisk' \in {wmDisk, [wmDisk EXCEPT ![Gate(m)] = Ts[m]]} /\ wmDisk \in [Gates -> Nat]
    BY DEF Accept, Safety, TypeOK
  <2>2. ReachedBy(Gate(m), Ts[m])
    BY <1>2, <1>3 DEF ReachedBy
  <2> SUFFICES ASSUME NEW g \in Gates PROVE ReachedBy(g, watermark'[g]) /\ ReachedBy(g, wmDisk'[g])
    BY <1>2 DEF Reached, ReachedBy
  <2> QED BY <2>1, <2>2, <1>2, <1>3 DEF Safety, Reached
<1> QED BY <1>1, <1>7, <1>8, <1>9, <1>10, <1>11 DEF Safety

LEMMA SafetyStep ==
  ASSUME GatesSeparate, Safety, Step
  PROVE  Safety'
<1> USE DEF policy, server, files, lists
<1>1. TypeOK'
  BY TypeStep DEF Safety
<1>2. ASSUME NEW m \in Msgs, Accept(m) PROVE Safety'
  BY <1>2, SafetyAccept
<1>3. ASSUME NEW m \in Msgs, Drop(m) PROVE Safety'
  <2>1. ~Outstanding(m) /\ queue' = queue \ {m} /\ cur = Idle
    BY <1>3 DEF Drop, First, Dropped, Outstanding, Work
  <2>2. UNCHANGED <<posted, watermark, wmDisk, admitted, settled, journal, phase, synced, toScan,
                    cur, tasks>>
    BY <1>3 DEF Drop
  <2>3. Ordered' /\ Consumed'
    BY <2>1, <2>2 DEF Safety, Ordered, Consumed, Dispatching, Outstanding, Admits, Fresh
  <2>4. Answered' /\ NoneQueued'
    BY <2>1, <2>2 DEF Safety, Answered, NoneQueued, Dispatching
  <2> QED BY <1>1, <2>1, <2>2, <2>3, <2>4, SafetyFrame DEF Idle
<1>4. ASSUME UNCHANGED <<posted, watermark, wmDisk, admitted, phase, synced, toScan, queue>>
      PROVE  Ordered' /\ Consumed'
  BY <1>4 DEF Safety, Ordered, Consumed, Dispatching, Outstanding, Admits, Fresh
<1>5. ASSUME NEW m \in Msgs, Resend(m) PROVE Safety'
  <2>1. Answered' /\ NoneQueued'
    BY <1>5 DEF Resend, Safety, Answered, NoneQueued, Dispatching, At, Idle
  <2> QED BY <1>1, <1>4, <1>5, <2>1, SafetyFrame DEF Resend, Idle
<1>6. ASSUME NEW m \in Msgs, Replay(m) PROVE Safety'
  <2>1. Answered' /\ NoneQueued'
    BY <1>6 DEF Replay, Safety, Answered, NoneQueued, Dispatching, At, Idle
  <2>2. \A o \in Msgs : journal'[o] = "none" => journal[o] = "none" \/ ~Admits(o)
    BY <1>6 DEF Replay, MarkDone, Safety, TypeOK
  <2> QED BY <1>1, <1>4, <1>6, <2>1, <2>2, SafetyFrame DEF Replay, Idle
<1>7. CASE Enqueue
  <2>1. cur.msg \in Msgs /\ journal' \in [Msgs -> {"none", "pending", "deliver"}]
    BY <1>1, <1>7 DEF Enqueue, Safety, TypeOK, Idle
  <2>2. journal'[cur.msg] # "none"
        /\ \A o \in Msgs : journal'[o] = "none" => journal[o] = "none"
    BY <1>7, <2>1 DEF Enqueue, Safety, TypeOK
  <2>3. Answered' /\ NoneQueued'
    BY <1>7 DEF Enqueue, Safety, Answered, NoneQueued, Dispatching, At, Idle
  <2> QED BY <1>1, <1>4, <1>7, <2>2, <2>3, SafetyFrame DEF Enqueue
<1>8. CASE HandlerReturns
  <2>1. Answered' /\ NoneQueued'
    BY <1>8 DEF HandlerReturns, Safety, TypeOK, Answered, NoneQueued, Dispatching, At, Idle
  <2> QED BY <1>1, <1>4, <1>8, <2>1, SafetyFrame DEF HandlerReturns
<1>9. CASE Forget
  <2>1. Answered' /\ NoneQueued'
    BY <1>9 DEF Forget, Safety, Answered, NoneQueued, Dispatching, Idle
  <2>2. \A o \in Msgs : journal'[o] = "none" => journal[o] = "none" \/ o \in settled
    BY <1>9 DEF Forget, MarkDone, Safety, Answered, TypeOK
  <2> QED BY <1>1, <1>4, <1>9, <2>1, <2>2, SafetyFrame DEF Forget
<1> QED BY <1>2, <1>3, <1>5, <1>6, <1>7, <1>8, <1>9 DEF Step

\* A scan that loses no page and reads every event takes everything outstanding in its room.
LEMMA SafetyScan ==
  ASSUME GatesSeparate, NoLosses, Safety, NEW r \in Rooms, ScanRoom(r)
  PROVE  Safety'
<1> USE DEF policy, server, files
<1>1. TypeOK'
  BY TypeCycle DEF Safety, Cycle
<1>2. "scan" \notin faults /\ "keys" \notin faults
  BY DEF NoLosses, Safety, TypeOK
<1>3. queue' = queue \cup Missed(r)
  <2>1. PICK oldest \in {0}, utd \in {{}} : queue' = queue \cup {m \in Missed(r) \ utd : Ts[m] > oldest}
    BY <1>2 DEF ScanRoom
  <2>2. Missed(r) \subseteq Msgs
    BY DEF Missed, Safety, TypeOK
  <2> QED BY <2>1, <2>2, TimesAreTimes
<1>4. phase = "scan" /\ toScan' = toScan \ {r}
      /\ UNCHANGED <<posted, watermark, wmDisk, admitted, phase, synced, cur, tasks, settled, journal>>
  BY DEF ScanRoom
<1>5. \A o \in Msgs : Outstanding(o)' <=> Outstanding(o)
  BY <1>4 DEF Outstanding, Admits, Fresh
<1>6. \A o \in Msgs : Outstanding(o) /\ RoomOf[o] = r => o \in Missed(r)
  BY DEF Outstanding, Missed, Fresh
<1>7. Missed(r) \subseteq Msgs /\ queue \subseteq Msgs /\ synced \subseteq Msgs
  BY DEF Missed, Safety, TypeOK
<1>8. Ordered'
  <2> SUFFICES ASSUME NEW o \in Msgs, NEW q \in queue', Outstanding(o), o \notin queue',
                      Gate(q) = Gate(o)
               PROVE  Ts[q] <= Ts[o]
    BY <1>5 DEF Ordered
  <2>1. CASE q \in queue
    BY <2>1, <1>3, <1>4 DEF Safety, Ordered, Dispatching
  <2>2. CASE q \in Missed(r)
    BY <2>2, <1>3, <1>6, <1>7 DEF GatesSeparate, Missed
  <2> QED BY <2>1, <2>2, <1>3
<1>9. Consumed'
  BY <1>3, <1>4, <1>5, <1>6, <1>7 DEF Safety, Consumed, Dispatching
<1>10. Answered' /\ NoneQueued'
  BY <1>4 DEF Safety, Answered, NoneQueued, Dispatching
<1> QED BY <1>1, <1>4, <1>8, <1>9, <1>10, SafetyFrame

LEMMA SafetyCycle ==
  ASSUME GatesSeparate, NoLosses, Safety, Cycle
  PROVE  Safety'
<1> USE DEF policy, server, files, lists
<1>1. TypeOK'
  BY TypeCycle DEF Safety
<1>2. CASE Start
  <2>1. NothingLost'
    <3> SUFFICES ASSUME NEW m \in posted \cap Work, Admits(m)', Ts[m] <= wmDisk[Gate(m)]
                 PROVE  m \in settled \/ journal[m] # "none" \/ cur = At(m, "accepted")
      BY <1>2 DEF Start, NothingLost
    <3>1. Admits(m)
      BY <1>2 DEF Start, Admits, Safety, TypeOK
    <3>2. m \in Msgs /\ Gate(m) \in Gates
      BY GateIsOne DEF Work
    <3>3. Ts[m] <= watermark[Gate(m)]
      BY <3>2, TimesAreTimes DEF Safety, TypeOK
    <3> QED BY <3>1, <3>3 DEF Safety, NothingLost
  <2>2. Ordered' /\ Consumed' /\ Answered' /\ NoneQueued'
    BY <1>2 DEF Start, Safety, Ordered, Consumed, Dispatching, Answered, NoneQueued, Idle
  <2>3. Reached'
    BY <1>2 DEF Start, Safety, Reached, ReachedBy
  <2> QED BY <1>1, <2>1, <2>2, <2>3 DEF Safety
<1>3. CASE Connect
  <2>1. Ordered' /\ Consumed' /\ Answered' /\ NoneQueued'
    BY <1>3 DEF Connect, Safety, Ordered, Consumed, Dispatching, Answered, NoneQueued
  <2> QED BY <1>1, <1>3, <2>1, SafetyFrame DEF Connect
<1>4. CASE ListEnds
  <2>1. Answered' /\ NoneQueued'
    BY <1>4 DEF ListEnds, Safety, Answered, NoneQueued, Dispatching, Idle
  <2>2. UNCHANGED <<posted, watermark, wmDisk, admitted, synced, queue, cur, settled, journal>>
    BY <1>4 DEF ListEnds
  <2>3. CASE phase' = "replay"
    <3>1. Ordered' /\ Consumed'
      BY <2>3 DEF Ordered, Consumed, Dispatching
    <3> QED BY <1>1, <2>1, <2>2, <3>1, SafetyFrame
  <2>4. CASE phase' = "scan" /\ toScan' = Rooms
    <3>1. queue = {}
      BY <1>4 DEF ListEnds, Safety, NoneQueued, Dispatching
    <3>2. Ordered' /\ Consumed'
      BY <2>2, <2>4, <3>1, RelayAssumption
        DEF Ordered, Consumed, Outstanding, RelayAssumption, Work
    <3> QED BY <1>1, <2>1, <2>2, <3>2, SafetyFrame
  <2> QED BY <1>4, <2>3, <2>4 DEF ListEnds
<1>5. ASSUME NEW r \in Rooms, ScanRoom(r) PROVE Safety'
  BY <1>5, SafetyScan
<1>6. CASE ScanEnds
  <2>1. "scan" \notin faults
    BY DEF NoLosses, Safety, TypeOK
  <2>2. toScan = {} /\ phase = "scan" /\ phase' = "backfill"
        /\ UNCHANGED <<posted, watermark, wmDisk, admitted, synced, queue, cur, tasks, settled, journal>>
    BY <1>6, <2>1 DEF ScanEnds
  <2>3. \A o \in Msgs : Outstanding(o)' <=> Outstanding(o)
    BY <2>2 DEF Outstanding, Admits, Fresh
  <2>4. synced \subseteq Msgs
    BY DEF Safety, TypeOK
  <2>5. Ordered' /\ Consumed'
    BY <2>2, <2>3, <2>4 DEF Safety, Ordered, Consumed, Dispatching
  <2>6. Answered' /\ NoneQueued'
    BY <2>2 DEF Safety, Answered, NoneQueued, Dispatching
  <2> QED BY <1>1, <2>2, <2>5, <2>6, SafetyFrame
<1>7. CASE BackfillEnds
  <2>1. phase = "backfill" /\ phase' = "live"
        /\ UNCHANGED <<posted, watermark, wmDisk, admitted, synced, queue, cur, tasks, settled,
                       journal, toScan>>
    BY <1>7 DEF BackfillEnds
  <2>2. \A o \in Msgs : Outstanding(o)' <=> Outstanding(o)
    BY <2>1 DEF Outstanding, Admits, Fresh
  <2>3. synced \subseteq Msgs
    BY DEF Safety, TypeOK
  <2>4. Ordered' /\ Consumed'
    BY <2>1, <2>2, <2>3 DEF Safety, Ordered, Consumed, Dispatching
  <2>5. Answered' /\ NoneQueued'
    BY <2>1 DEF Safety, Answered, NoneQueued, Dispatching
  <2> QED BY <1>1, <2>1, <2>4, <2>5, SafetyFrame
<1> QED BY <1>2, <1>3, <1>4, <1>5, <1>6, <1>7 DEF Cycle

LEMMA SafetySync ==
  ASSUME GatesSeparate, Safety, Sync
  PROVE  Safety'
<1> USE DEF policy, server, files, lists
<1>1. TypeOK'
  BY TypeNext DEF Safety, Next
<1>2. /\ phase = "live" /\ queue = {} /\ cur = Idle
      /\ queue' = posted \ synced /\ synced' = posted
      /\ UNCHANGED <<posted, watermark, wmDisk, admitted, phase, cur, tasks, settled, journal>>
  BY DEF Sync
<1>3. \A o \in Msgs : Outstanding(o)' <=> Outstanding(o)
  BY <1>2 DEF Outstanding, Admits, Fresh
<1>4. synced \subseteq posted /\ posted \subseteq Msgs
  BY DEF Safety, TypeOK
<1>5. \A o \in Msgs : Outstanding(o) => o \in queue'
  BY <1>2, <1>4 DEF Safety, Consumed, Dispatching, Outstanding
<1>6. Ordered' /\ Consumed'
  BY <1>2, <1>3, <1>4, <1>5 DEF Ordered, Consumed
<1>7. Answered' /\ NoneQueued'
  BY <1>2 DEF Safety, Answered, NoneQueued, Dispatching
<1> QED BY <1>1, <1>2, <1>6, <1>7, SafetyFrame

LEMMA SafetyNext == GatesSeparate /\ NoLosses /\ Safety /\ [Next]_vars => Safety'
<1> SUFFICES ASSUME GatesSeparate, NoLosses, Safety, [Next]_vars PROVE Safety'
  OBVIOUS
<1> USE DEF policy, server, files, lists
<1>1. TypeOK'
  BY TypeNext DEF Safety
<1>2. ASSUME NEW m \in Msgs, Post(m) PROVE Safety'
  BY <1>2, SafetyPost
<1>3. CASE Cycle
  BY <1>3, SafetyCycle
<1>4. CASE Step
  BY <1>4, SafetyStep
<1>5. ASSUME UNCHANGED <<posted, watermark, wmDisk, admitted, phase, synced, toScan, queue>>
      PROVE  Ordered' /\ Consumed'
  BY <1>5 DEF Safety, Ordered, Consumed, Dispatching, Outstanding, Admits, Fresh
<1>6. CASE ResendOk \/ ResendFails
  <2>1. Answered' /\ NoneQueued'
    BY <1>6 DEF ResendOk, ResendFails, Safety, TypeOK, Answered, NoneQueued, Dispatching, At, Idle
  <2> QED BY <1>1, <1>5, <1>6, <2>1, SafetyFrame DEF ResendOk, ResendFails
<1>7. CASE Sync
  BY <1>7, SafetySync
<1>8. CASE CycleEnds
  <2>1. Ordered' /\ Consumed' /\ Answered' /\ NoneQueued'
    BY <1>8 DEF CycleEnds, Ordered, Consumed, Dispatching, Safety, Answered, NoneQueued, Idle
  <2> QED BY <1>1, <1>8, <2>1, SafetyFrame DEF CycleEnds, Idle
<1>9. ASSUME NEW m \in Msgs, Task(m) PROVE Safety'
  <2>1. Answered' /\ NoneQueued'
    BY <1>9 DEF Task, TaskRecords, TaskSends, TaskFails, TaskDone, Safety, TypeOK, Answered, NoneQueued, Dispatching
  <2>2. \A o \in Msgs : journal'[o] = "none" => journal[o] = "none" \/ o \in settled
    BY <1>9 DEF Task, TaskRecords, TaskSends, TaskFails, TaskDone, MarkDone, Safety, TypeOK, Answered
  <2>3. settled \subseteq settled' /\ cur' = cur
        /\ UNCHANGED <<posted, watermark, wmDisk, admitted, phase, synced, toScan, queue>>
    BY <1>9 DEF Task, TaskRecords, TaskSends, TaskFails, TaskDone
  <2> QED BY <1>1, <1>5, <2>1, <2>2, <2>3, SafetyFrame
<1>10. CASE Crash
  <2>1. cur.step # "accepted"
    BY <1>10 DEF Crash, NoLosses, Safety, TypeOK
  <2>2. Ordered' /\ Consumed' /\ Answered' /\ NoneQueued'
    BY <1>10 DEF Crash, Ordered, Consumed, Dispatching, Answered, NoneQueued, Idle
  <2> QED BY <1>1, <1>10, <2>1, <2>2, SafetyFrame DEF Crash
<1>11. CASE UNCHANGED vars
  <2>1. Answered' /\ NoneQueued'
    BY <1>11 DEF vars, Safety, Answered, NoneQueued, Dispatching
  <2> QED BY <1>1, <1>5, <1>11, <2>1, SafetyFrame DEF vars
<1> QED BY <1>2, <1>3, <1>4, <1>6, <1>7, <1>8, <1>9, <1>10, <1>11 DEF Next

LEMMA SafetyInvariant ==
  ASSUME GatesSeparate, NoLosses
  PROVE  Spec => []Safety
<1>1. Safety /\ [Next]_vars => Safety'
  BY SafetyNext
<1> QED BY <1>1, SafetyInit, PTL DEF Spec

\* "so a reply can never be silently dropped": every message of work behind
\* its watermark is answered, in the journal or in hand, if neither of the two
\* failures that lose messages happens.  The other failures may.
THEOREM NothingIsLost ==
  ASSUME GatesSeparate, NoLosses
  PROVE  Spec => []NothingLost
<1> QED BY SafetyInvariant, PTL DEF Safety

-----------------------------------------------------------------------------
(* Nothing is run twice *)

\* A process starts with no task, and runs nothing before it has replayed.
FreshStart ==
  /\ phase = "down" => cur = Idle /\ \A m \in Msgs : tasks[m] = "none"
  /\ replayDue => /\ phase \in {"down", "connecting", "drain"}
                  /\ phase # "down" => \A m \in Msgs : runs[m] = 0 /\ tasks[m] = "none"
  /\ cur.step = "accepted" => phase \in {"backfill", "live"}
  /\ cur.step = "handling" => phase \in {"replay", "backfill", "live"}

\* What is still to be replayed is as the process found it.
Replayable ==
  phase = "replay" => \A m \in todo : /\ journal[m] = "pending" /\ runs[m] = 0
                                      /\ tasks[m] = "none" /\ cur.msg # m

\* What was run or recorded is behind its watermark, in memory and on disk.
BehindGate ==
  /\ wmDisk = watermark
  /\ \A m \in Msgs : journal[m] # "none" \/ runs[m] # 0 => ~Fresh(m)
  /\ cur.step = "accepted" => ~Fresh(cur.msg) /\ runs[cur.msg] = 0
  /\ \A m \in Msgs : runs[m] <= 1

FilesWritten == "watermark_file" \notin faults

Once == FreshStart /\ Replayable /\ (FilesWritten => BehindGate)

LEMMA OnceInit == Init => Once
<1> SUFFICES ASSUME Init PROVE Once
  OBVIOUS
<1>1. \A m \in Msgs : runs[m] = 0 /\ journal[m] = "none" /\ tasks[m] = "none"
  BY DEF Init
<1> QED BY <1>1 DEF Init, Once, FreshStart, Replayable, BehindGate, Idle

LEMMA OnceCycle ==
  ASSUME TypeOK, Once, Cycle
  PROVE  Once'
<1> USE DEF policy, server, files, lists
<1>1. CASE Start
  <2>1. \A m \in Msgs : runs'[m] = 0
    BY <1>1 DEF Start
  <2>2. FreshStart' /\ Replayable'
    BY <1>1, <2>1 DEF Start, Once, FreshStart, Replayable, Idle
  <2>3. FilesWritten => BehindGate'
    BY <1>1, <2>1 DEF Start, Once, FreshStart, BehindGate, FilesWritten, Fresh, Idle
  <2> QED BY <1>1, <2>2, <2>3 DEF Once, Start, FilesWritten
<1>2. CASE Connect
  BY <1>2 DEF Connect, Once, FreshStart, Replayable, BehindGate, FilesWritten, Fresh
<1>3. CASE ListEnds
  <2>1. FreshStart'
    BY <1>3 DEF ListEnds, Once, FreshStart, Idle
  <2>2. Replayable'
    <3> SUFFICES ASSUME phase' = "replay" PROVE Replayable'
      BY DEF Replayable
    <3>1. phase = "drain" /\ replayDue /\ todo' = Unanswered /\ cur = Idle
          /\ UNCHANGED <<journal, runs, tasks, cur>>
      BY <1>3 DEF ListEnds
    <3>2. \A m \in Msgs : m # NoMsg
      BY RelayAssumption DEF RelayAssumption
    <3> QED BY <3>1, <3>2 DEF Once, FreshStart, Replayable, Unanswered, InState, Idle
  <2>3. FilesWritten' => BehindGate'
    BY <1>3 DEF ListEnds, Once, BehindGate, FilesWritten, Fresh
  <2> QED BY <2>1, <2>2, <2>3 DEF Once
<1>4. ASSUME NEW r \in Rooms, ScanRoom(r) PROVE Once'
  BY <1>4 DEF ScanRoom, Once, FreshStart, Replayable, BehindGate, FilesWritten, Fresh
<1>5. CASE ScanEnds
  BY <1>5 DEF ScanEnds, Once, FreshStart, Replayable, BehindGate, FilesWritten, Fresh
<1>6. CASE BackfillEnds
  BY <1>6 DEF BackfillEnds, Once, FreshStart, Replayable, BehindGate, FilesWritten, Fresh
<1> QED BY <1>1, <1>2, <1>3, <1>4, <1>5, <1>6 DEF Cycle

LEMMA OnceStep ==
  ASSUME TypeOK, Once, Step
  PROVE  Once'
<1> USE DEF policy, server, files, lists
<1>0. \A m \in Msgs : m # NoMsg /\ Ts[m] \in Nat /\ Gate(m) \in Gates
  BY RelayAssumption, GateIsOne, TimesAreTimes DEF RelayAssumption
<1>1. ASSUME NEW m \in Msgs, Resend(m) PROVE Once'
  BY <1>1 DEF Resend, Once, FreshStart, Replayable, BehindGate, FilesWritten, Fresh, At
<1>2. ASSUME NEW m \in Msgs, Replay(m) PROVE Once'
  <2>1. phase = "replay" /\ m \in todo /\ todo' = todo \ {m} /\ cur = Idle
        /\ UNCHANGED <<phase, watermark, wmDisk, faults, tasks, replayDue>>
    BY <1>2 DEF Replay
  <2>2. journal[m] = "pending" /\ runs[m] = 0 /\ tasks[m] = "none"
    BY <2>1 DEF Once, Replayable
  <2>3. /\ \A o \in Msgs : o # m => journal'[o] = journal[o] /\ runs'[o] = runs[o]
        /\ journal'[m] # "none" => journal'[m] = journal[m]
        /\ runs'[m] <= 1
        /\ cur' \in {Idle, At(m, "handling")}
    BY <1>2, <2>1, <2>2 DEF Replay, MarkDone, TypeOK
  <2>4. FreshStart'
    BY <2>1, <2>3 DEF Once, FreshStart, At, Idle
  <2>5. Replayable'
    BY <1>0, <2>1, <2>3 DEF Once, Replayable, At, Idle, TypeOK
  <2>6. FilesWritten => BehindGate'
    BY <2>1, <2>2, <2>3 DEF Once, BehindGate, FilesWritten, Fresh, At, Idle
  <2> QED BY <2>1, <2>4, <2>5, <2>6 DEF Once, FilesWritten
<1>3. ASSUME NEW m \in Msgs, Drop(m) PROVE Once'
  BY <1>3 DEF Drop, Once, FreshStart, Replayable, BehindGate, FilesWritten, Fresh
<1>4. ASSUME NEW m \in Msgs, Accept(m) PROVE Once'
  <2>1. /\ Fresh(m) /\ cur = Idle /\ phase \in {"backfill", "live"}
        /\ watermark' = [watermark EXCEPT ![Gate(m)] = Ts[m]]
        /\ cur' = IF Kind[m] = "empty" THEN Idle ELSE At(m, "accepted")
        /\ UNCHANGED <<phase, journal, runs, tasks, faults, replayDue, todo>>
    BY <1>4 DEF Accept, First, Dropped
  <2>2. FreshStart' /\ Replayable'
    BY <2>1 DEF Once, FreshStart, Replayable, At, Idle
  <2>3. FilesWritten => BehindGate'
    <3> SUFFICES ASSUME FilesWritten PROVE BehindGate'
      OBVIOUS
    <3>1. wmDisk' = watermark'
      BY <1>4, <2>1 DEF Accept, Once, BehindGate, FilesWritten
    <3>2. \A o \in Msgs : Fresh(o)' => Fresh(o)
      BY <1>0, <2>1 DEF Fresh, TypeOK
    <3>3. ~Fresh(m)'
      BY <1>0, <2>1 DEF Fresh, TypeOK
    <3> QED BY <2>1, <3>1, <3>2, <3>3 DEF Once, BehindGate, At, Idle
  <2> QED BY <2>1, <2>2, <2>3 DEF Once, FilesWritten
<1>5. CASE Enqueue
  <2>1. /\ cur.step = "accepted" /\ cur.msg \in Msgs
        /\ cur' \in {Idle, At(cur.msg, "handling")}
        /\ UNCHANGED <<phase, watermark, wmDisk, tasks, faults, replayDue, todo>>
    BY <1>5 DEF Enqueue, TypeOK, Idle
  <2>2. /\ \A o \in Msgs : o # cur.msg => journal'[o] = journal[o] /\ runs'[o] = runs[o]
        /\ runs'[cur.msg] \in {runs[cur.msg], runs[cur.msg] + 1}
    BY <1>5, <2>1 DEF Enqueue, TypeOK
  <2>3. phase \in {"backfill", "live"}
    BY <2>1 DEF Once, FreshStart
  <2>4. FreshStart' /\ Replayable'
    BY <2>1, <2>2, <2>3 DEF Once, FreshStart, Replayable, At, Idle
  <2>5. FilesWritten => BehindGate'
    BY <2>1, <2>2 DEF Once, BehindGate, FilesWritten, Fresh, At, Idle
  <2> QED BY <2>1, <2>4, <2>5 DEF Once, FilesWritten
<1>6. CASE HandlerReturns
  <2>1. cur.step = "handling" /\ cur.msg \in Msgs /\ cur' \in {Idle, At(cur.msg, "done")}
        /\ UNCHANGED <<phase, watermark, wmDisk, faults, replayDue, todo, journal, runs>>
        /\ \A m \in Msgs : m # cur.msg => tasks'[m] = tasks[m]
    BY <1>6 DEF HandlerReturns, TypeOK, Idle
  <2>2. FreshStart' /\ Replayable'
    BY <1>0, <2>1 DEF Once, FreshStart, Replayable, At, Idle, TypeOK
  <2>3. FilesWritten => BehindGate'
    BY <2>1 DEF Once, BehindGate, FilesWritten, Fresh, At, Idle
  <2> QED BY <2>1, <2>2, <2>3 DEF Once, FilesWritten
<1>7. CASE Forget
  <2>1. cur.step = "done" /\ cur.msg \in Msgs /\ cur' = Idle
        /\ UNCHANGED <<phase, watermark, wmDisk, faults, replayDue, todo, runs, tasks>>
        /\ journal' = [journal EXCEPT ![cur.msg] = "none"]
    BY <1>7 DEF Forget, MarkDone, TypeOK, Idle
  <2>2. FreshStart' /\ Replayable'
    BY <1>0, <2>1 DEF Once, FreshStart, Replayable, Idle, TypeOK
  <2>3. FilesWritten => BehindGate'
    BY <2>1 DEF Once, BehindGate, FilesWritten, Fresh, Idle, TypeOK
  <2> QED BY <2>1, <2>2, <2>3 DEF Once, FilesWritten
<1> QED BY <1>1, <1>2, <1>3, <1>4, <1>5, <1>6, <1>7 DEF Step

LEMMA OnceNext == TypeOK /\ Once /\ [Next]_vars => Once'
<1> SUFFICES ASSUME TypeOK, Once, [Next]_vars PROVE Once'
  OBVIOUS
<1> USE DEF policy, server, files, lists
<1>1. ASSUME NEW m \in Msgs, Post(m) PROVE Once'
  BY <1>1 DEF Post, Once, FreshStart, Replayable, BehindGate, FilesWritten, Fresh
<1>2. CASE Cycle
  BY <1>2, OnceCycle
<1>3. CASE Step
  BY <1>3, OnceStep
<1>4. CASE ResendOk \/ ResendFails
  <2>1. cur.step = "resend" /\ cur.msg \in Msgs /\ cur' \in {Idle, At(cur.msg, "done")}
        /\ UNCHANGED <<phase, watermark, wmDisk, faults, replayDue, todo, journal, runs, tasks>>
    BY <1>4 DEF ResendOk, ResendFails, TypeOK, Idle
  <2>2. \A m \in Msgs : m # NoMsg
    BY RelayAssumption DEF RelayAssumption
  <2>3. FreshStart' /\ Replayable'
    BY <2>1, <2>2 DEF Once, FreshStart, Replayable, At, Idle, TypeOK
  <2>4. FilesWritten => BehindGate'
    BY <2>1 DEF Once, BehindGate, FilesWritten, Fresh, At, Idle
  <2> QED BY <2>1, <2>3, <2>4 DEF Once, FilesWritten
<1>5. CASE Sync
  BY <1>5 DEF Sync, Once, FreshStart, Replayable, BehindGate, FilesWritten, Fresh
<1>6. CASE CycleEnds
  <2>1. ~replayDue /\ phase' = "connecting" /\ cur' = Idle
        /\ UNCHANGED <<watermark, wmDisk, faults, replayDue, journal, runs, tasks>>
    BY <1>6 DEF CycleEnds, Once, FreshStart
  <2> QED BY <2>1 DEF Once, FreshStart, Replayable, BehindGate, FilesWritten, Fresh, Idle
<1>7. ASSUME NEW m \in Msgs, Task(m) PROVE Once'
  <2>1. /\ tasks[m] # "none"
        /\ \A o \in Msgs : o # m => journal'[o] = journal[o] /\ tasks'[o] = tasks[o]
        /\ journal[m] = "none" => journal'[m] = "none"
        /\ UNCHANGED <<phase, watermark, wmDisk, faults, replayDue, todo, runs, cur>>
    BY <1>7 DEF Task, TaskRecords, TaskSends, TaskFails, TaskDone, MarkDone, TypeOK
  <2>2. FreshStart' /\ Replayable'
    BY <2>1 DEF Once, FreshStart, Replayable, TypeOK
  <2>3. FilesWritten => BehindGate'
    BY <2>1 DEF Once, BehindGate, FilesWritten, Fresh, TypeOK
  <2> QED BY <2>1, <2>2, <2>3 DEF Once, FilesWritten
<1>8. CASE Crash
  BY <1>8 DEF Crash, Once, FreshStart, Replayable, BehindGate, FilesWritten, Fresh, Idle
<1>9. CASE UNCHANGED vars
  BY <1>9 DEF vars, Once, FreshStart, Replayable, BehindGate, FilesWritten, Fresh
<1> QED BY <1>1, <1>2, <1>3, <1>4, <1>5, <1>6, <1>7, <1>8, <1>9 DEF Next

LEMMA OnceInvariant == Spec => [](TypeOK /\ Once)
<1>1. Init => TypeOK /\ Once
  BY TypeInit, OnceInit
<1>2. TypeOK /\ Once /\ [Next]_vars => TypeOK' /\ Once'
  BY TypeNext, OnceNext
<1> QED BY <1>1, <1>2, PTL DEF Spec

\* "a concurrent double-delivery resolves to exactly one handler run": however
\* backfill, live sync, replay and detached tasks interleave, a process hands
\* no message to its handler twice.
THEOREM HandledOnce == Spec => []OneRunPerProcess
<1>1. TypeOK /\ Once => OneRunPerProcess
  BY DEF Once, BehindGate, FilesWritten, OneRunPerProcess
<1> QED BY <1>1, OnceInvariant, PTL

\* "Never re-runs the handler (the text is cached)": with its answer in the
\* journal, a message is resent and never handled again.
THEOREM AnswersAreKept == Spec => AnsweredNotRerun
<1> DEFINE NotRerun == \A m \in Msgs : journal[m] = "deliver" => runs'[m] <= runs[m]
<1>1. ASSUME TypeOK, Once, [Next]_vars PROVE NotRerun
  <2> SUFFICES ASSUME NEW m \in Msgs, journal[m] = "deliver" PROVE runs'[m] <= runs[m]
    OBVIOUS
  <2>1. runs[m] \in Nat
    BY <1>1 DEF TypeOK
  <2>2. CASE Start
    BY <2>1, <2>2 DEF Start
  <2>3. CASE Enqueue
    BY <1>1, <2>1, <2>3 DEF Enqueue, TypeOK
  <2>4. ASSUME NEW o \in Msgs, Replay(o) PROVE runs'[m] <= runs[m]
    <3>1. o # m
      BY <1>1, <2>4 DEF Replay, Once, Replayable
    <3> QED BY <1>1, <2>1, <2>4, <3>1 DEF Replay, TypeOK
  <2>5. CASE runs' = runs
    BY <2>1, <2>5
  <2> QED BY <1>1, <2>2, <2>3, <2>4, <2>5
        DEF Next, vars, Cycle, Step, Task, Post, Connect, ListEnds, ScanRoom, ScanEnds,
            BackfillEnds, Resend, Drop, Accept, HandlerReturns, Forget, ResendOk, ResendFails,
            Sync, CycleEnds, TaskRecords, TaskSends, TaskFails, TaskDone, Crash
<1>2. TypeOK /\ Once /\ [Next]_vars => [NotRerun]_vars
  BY <1>1
<1> QED BY <1>2, OnceInvariant, PTL DEF Spec, AnsweredNotRerun

-----------------------------------------------------------------------------
(* The relay keeps WorkPromise *)

Recorded(m) == journal[m] # "none" \/ m \in settled

\* Whatever is being worked on is recorded, and only what was sent is.
WorkRecorded ==
  /\ phase \in {"drain", "replay"} => \A m \in todo : Recorded(m)
  /\ cur.step \in {"resend", "handling", "done"} => Recorded(cur.msg)
  /\ cur.step = "accepted" => cur.msg \in posted
  /\ \A m \in Msgs : tasks[m] # "none" => Recorded(m)
  /\ \A m \in Msgs : Recorded(m) => m \in posted

LEMMA WorkRecordedInit == Init => WorkRecorded
<1> SUFFICES ASSUME Init PROVE WorkRecorded
  OBVIOUS
<1>1. \A m \in Msgs : journal[m] = "none" /\ tasks[m] = "none"
  BY DEF Init
<1> QED BY <1>1 DEF Init, WorkRecorded, Recorded, Idle

LEMMA WorkRecordedCycle ==
  ASSUME WorkRecorded, TypeOK, FreshStart, Cycle
  PROVE  WorkRecorded'
<1> USE DEF policy, server, files, lists
<1>1. UNCHANGED <<posted, journal, settled, tasks, cur>>
  BY DEF Cycle, Start, Connect, ListEnds, ScanRoom, ScanEnds, BackfillEnds
<1>2. \A m \in Msgs : Recorded(m)' <=> Recorded(m)
  BY <1>1 DEF Recorded
<1>3. phase' \in {"drain", "replay"} => \A m \in todo' : Recorded(m)
  <2>1. CASE phase' = "drain"
    BY <2>1 DEF Cycle, Start, Connect, ListEnds, ScanRoom, ScanEnds, BackfillEnds, InState, Recorded
  <2>2. CASE phase' = "replay"
    BY <2>2 DEF Cycle, Start, Connect, ListEnds, ScanRoom, ScanEnds, BackfillEnds, Unanswered,
                InState, Recorded
  <2> QED BY <2>1, <2>2
<1>4. todo' \subseteq Msgs
  BY TypeCycle DEF TypeOK
<1>5. cur.step # "idle" => cur.msg \in Msgs
  BY DEF TypeOK, Idle
<1> QED BY <1>1, <1>2, <1>3, <1>4, <1>5 DEF WorkRecorded

LEMMA WorkRecordedStep ==
  ASSUME WorkRecorded, TypeOK, Answered, FreshStart, Replayable, Step
  PROVE  WorkRecorded'
<1> USE DEF policy, server, files, lists
<1>0. todo \subseteq Msgs /\ queue \subseteq posted /\ (cur # Idle => cur.msg \in Msgs)
      /\ \A m \in Msgs : m # NoMsg
  BY RelayAssumption DEF TypeOK, RelayAssumption
<1>1. ASSUME NEW m \in Msgs, Resend(m) PROVE WorkRecorded'
  BY <1>0, <1>1 DEF Resend, WorkRecorded, Recorded, At
<1>2. ASSUME NEW m \in Msgs, Replay(m) PROVE WorkRecorded'
  <2>1. /\ phase = "replay" /\ m \in todo /\ todo' = todo \ {m} /\ tasks[m] = "none"
        /\ journal[m] = "pending"
        /\ UNCHANGED <<posted, settled, tasks, phase>>
        /\ \A o \in Msgs : o # m => journal'[o] = journal[o]
        /\ journal' \in {journal, [journal EXCEPT ![m] = "none"]}
        /\ (cur' = At(m, "handling") /\ journal' = journal) \/ cur' = Idle
    BY <1>2 DEF Replay, MarkDone, Replayable, TypeOK
  <2>2. \A o \in Msgs : Recorded(o)' => Recorded(o)
    BY <2>1 DEF Recorded, TypeOK
  <2>3. \A o \in Msgs : o # m /\ Recorded(o) => Recorded(o)'
    BY <2>1 DEF Recorded
  <2> QED BY <1>0, <2>1, <2>2, <2>3 DEF WorkRecorded, Recorded, At, Idle
<1>3. ASSUME NEW m \in Msgs, Drop(m) PROVE WorkRecorded'
  BY <1>3 DEF Drop, WorkRecorded, Recorded
<1>4. ASSUME NEW m \in Msgs, Accept(m) PROVE WorkRecorded'
  BY <1>0, <1>4 DEF Accept, First, WorkRecorded, Recorded, At, Idle
<1>5. CASE Enqueue
  <2>1. /\ cur.step = "accepted" /\ cur.msg \in Msgs /\ cur.msg \in posted
        /\ journal' \in [Msgs -> {"none", "pending", "deliver"}]
        /\ journal'[cur.msg] # "none"
        /\ \A o \in Msgs : o # cur.msg => journal'[o] = journal[o]
        /\ cur' \in {Idle, At(cur.msg, "handling")}
        /\ UNCHANGED <<posted, settled, tasks, phase, todo>>
    BY <1>0, <1>5 DEF Enqueue, WorkRecorded, TypeOK, Idle
  <2> QED BY <1>0, <2>1 DEF WorkRecorded, Recorded, At, Idle
<1>6. CASE HandlerReturns
  <2>1. /\ cur.step = "handling" /\ cur.msg \in Msgs
        /\ cur' \in {Idle, At(cur.msg, "done")}
        /\ settled' \in {settled, settled \cup {cur.msg}}
        /\ \A o \in Msgs : o # cur.msg => tasks'[o] = tasks[o]
        /\ UNCHANGED <<posted, journal, phase, todo>>
    BY <1>0, <1>6 DEF HandlerReturns, TypeOK, Idle
  <2> QED BY <1>0, <2>1 DEF WorkRecorded, Recorded, At, Idle
<1>7. CASE Forget
  <2>1. /\ cur.step = "done" /\ cur.msg \in Msgs /\ cur' = Idle
        /\ journal' = [journal EXCEPT ![cur.msg] = "none"]
        /\ UNCHANGED <<posted, settled, tasks, phase, todo>>
    BY <1>0, <1>7 DEF Forget, MarkDone, TypeOK, Idle
  <2>2. cur.msg \in settled
    BY <2>1, <1>7 DEF Answered
  <2> QED BY <1>0, <2>1, <2>2 DEF WorkRecorded, Recorded, Idle, TypeOK
<1> QED BY <1>1, <1>2, <1>3, <1>4, <1>5, <1>6, <1>7 DEF Step

LEMMA WorkRecordedNext ==
  ASSUME WorkRecorded, TypeOK, Answered, FreshStart, Replayable, [Next]_vars
  PROVE  WorkRecorded'
<1> USE DEF policy, server, files, lists
<1>1. ASSUME NEW m \in Msgs, Post(m) PROVE WorkRecorded'
  BY <1>1 DEF Post, WorkRecorded, Recorded
<1>2. CASE Cycle
  BY <1>2, WorkRecordedCycle
<1>3. CASE Step
  BY <1>3, WorkRecordedStep
<1>4. CASE ResendOk \/ ResendFails
  <2>1. /\ cur.step = "resend" /\ cur.msg \in Msgs /\ cur' \in {Idle, At(cur.msg, "done")}
        /\ settled' \in {settled, settled \cup {cur.msg}}
        /\ UNCHANGED <<posted, journal, tasks, phase, todo>>
    BY <1>4 DEF ResendOk, ResendFails, TypeOK, Idle
  <2> QED BY <2>1 DEF WorkRecorded, Recorded, At, Idle, TypeOK
<1>5. CASE Sync
  BY <1>5 DEF Sync, WorkRecorded, Recorded
<1>6. CASE CycleEnds
  BY <1>6 DEF CycleEnds, WorkRecorded, Recorded, Idle
<1>7. ASSUME NEW m \in Msgs, Task(m) PROVE WorkRecorded'
  <2>1. /\ tasks[m] # "none"
        /\ tasks[m] = "sent" => m \in settled
        /\ \A o \in Msgs : o # m => tasks'[o] = tasks[o] /\ journal'[o] = journal[o]
        /\ journal'[m] = "none" => journal[m] = "none" \/ tasks[m] = "sent"
        /\ journal[m] = "none" => journal'[m] = "none"
        /\ settled' \in {settled, settled \cup {m}}
        /\ UNCHANGED <<posted, cur, phase, todo>>
    BY <1>7 DEF Task, TaskRecords, TaskSends, TaskFails, TaskDone, MarkDone, Answered, TypeOK
  <2>2. Recorded(m)
    BY <2>1 DEF WorkRecorded
  <2>3. \A o \in Msgs : Recorded(o)' <=> Recorded(o)
    BY <2>1, <2>2 DEF Recorded
  <2>4. todo \subseteq Msgs /\ (cur # Idle => cur.msg \in Msgs)
    BY DEF TypeOK
  <2> QED BY <2>1, <2>2, <2>3, <2>4 DEF WorkRecorded, Idle
<1>8. CASE Crash
  <2>1. \A m \in Msgs : tasks'[m] = "none"
    BY <1>8 DEF Crash
  <2> QED BY <1>8, <2>1 DEF Crash, WorkRecorded, Recorded, Idle
<1>9. CASE UNCHANGED vars
  BY <1>9 DEF vars, WorkRecorded, Recorded
<1> QED BY <1>1, <1>2, <1>3, <1>4, <1>5, <1>6, <1>7, <1>8, <1>9 DEF Next

\* What the refinement needs: the two invariants above and WorkRecorded.
Relation == Safety /\ Once /\ WorkRecorded

LEMMA RelationInvariant ==
  ASSUME GatesSeparate, NoLosses
  PROVE  Spec => []Relation
<1>1. Init => Relation
  BY SafetyInit, OnceInit, WorkRecordedInit DEF Relation
<1>2. Relation /\ [Next]_vars => Relation'
  BY SafetyNext, OnceNext, WorkRecordedNext DEF Relation, Safety, Once
<1> QED BY <1>1, <1>2, PTL DEF Spec

-----------------------------------------------------------------------------
(* The refinement mapping, message by message *)

StatusOf(m) ==
  IF m \in settled THEN "answered"
  ELSE IF m \notin posted THEN "unsent"
  ELSE IF journal[m] # "none" \/ cur = At(m, "accepted") THEN "owed"
  ELSE IF Admits(m) THEN "sent" ELSE "withdrawn"

LEMMA StatusIsStatusOf == status = [m \in Work |-> StatusOf(m)]
  BY DEF status, StatusOf

LEMMA StatusStays ==
  ASSUME \A m \in Work : StatusOf(m)' = StatusOf(m)
  PROVE  status' = status
  BY StatusIsStatusOf DEF status, StatusOf

LEMMA StatusMoves ==
  ASSUME NEW m \in Work, NEW v, StatusOf(m)' = v,
         \A o \in Work : o # m => StatusOf(o)' = StatusOf(o)
  PROVE  status' = [status EXCEPT ![m] = v]
<1>1. status' = [o \in Work |-> StatusOf(o)']
  BY DEF status, StatusOf
<1>2. status = [o \in Work |-> StatusOf(o)]
  BY StatusIsStatusOf
<1> QED BY <1>1, <1>2

LEMMA PromiseInit == Init => Promise!Init
<1> SUFFICES ASSUME Init PROVE status = [m \in Work |-> "unsent"]
  BY DEF Promise!Init
<1>1. \A m \in Work : StatusOf(m) = "unsent"
  BY DEF Init, StatusOf
<1> QED BY <1>1, StatusIsStatusOf

\* Guests are the messages a policy may turn away.
LEMMA PromiseWithdraw ==
  ASSUME NEW W \in SUBSET {m \in Work \cap Guests : StatusOf(m) \in {"sent", "owed"}},
         \A m \in W : StatusOf(m)' = "withdrawn",
         \A m \in Work \ W : StatusOf(m)' = StatusOf(m)
  PROVE  Promise!Next
<1>1. status' = [m \in Work |-> StatusOf(m)']
  BY DEF status, StatusOf
<1>2. \A m \in Work : status[m] = StatusOf(m)
  BY StatusIsStatusOf
<1>3. status' = [m \in Work |-> IF m \in W THEN "withdrawn" ELSE status[m]]
  BY <1>1, <1>2
<1>4. W \in SUBSET {m \in Work \cap Guests : status[m] \in {"sent", "owed"}}
  BY <1>2
<1>5. Promise!Withdraw
  BY <1>3, <1>4 DEF Promise!Withdraw
<1> QED BY <1>5 DEF Promise!Next

LEMMA PromiseAnswer ==
  ASSUME NEW m \in Work, StatusOf(m) = "owed", StatusOf(m)' = "answered",
         \A o \in Work : o # m => StatusOf(o)' = StatusOf(o)
  PROVE  Promise!Next
<1>1. status' = [status EXCEPT ![m] = "answered"]
  BY StatusMoves
<1>2. status[m] = "owed"
  BY StatusIsStatusOf
<1> QED BY <1>1, <1>2 DEF Promise!Next, Promise!Answer

LEMMA PromisePost ==
  ASSUME Relation, NEW m \in Msgs, Post(m)
  PROVE  [Promise!Next]_status
<1> USE DEF policy, files, lists
<1>1. /\ m \notin posted /\ posted' = posted \cup {m}
      /\ UNCHANGED <<settled, journal, cur, admitted>>
  BY DEF Post
<1>2. \A o \in Work : o # m => StatusOf(o)' = StatusOf(o)
  BY <1>1 DEF StatusOf, Admits
<1>3. CASE m \in Work
  <2>1. m \notin settled /\ journal[m] = "none" /\ cur # At(m, "accepted")
    BY <1>1 DEF Relation, WorkRecorded, Recorded, At
  <2>2. StatusOf(m) = "unsent"
    BY <1>1, <2>1 DEF StatusOf
  <2>3. PICK v \in {"sent"} \cup IF m \in Guests THEN {"withdrawn"} ELSE {} : StatusOf(m)' = v
    BY <1>1, <2>1 DEF StatusOf, Admits
  <2>4. status' = [status EXCEPT ![m] = v]
    BY <1>2, <1>3, <2>3, StatusMoves
  <2>5. status[m] = "unsent"
    BY <1>3, <2>2, StatusIsStatusOf
  <2>6. Promise!Send(m)
    BY <2>4, <2>5 DEF Promise!Send
  <2> QED BY <1>3, <2>6 DEF Promise!Next
<1>4. CASE m \notin Work
  BY <1>2, <1>4, StatusStays
<1> QED BY <1>3, <1>4

\* What is accepted is the oldest of its room that was sent.
LEMMA PromiseAccept ==
  ASSUME GatesSeparate, Relation, NEW m \in Msgs, Accept(m)
  PROVE  [Promise!Next]_status
<1> USE DEF policy, server
<1>1. /\ m \in queue /\ cur = Idle /\ phase \in {"backfill", "live"}
      /\ Admits(m)
      /\ \A o \in queue : RoomOf[o] = RoomOf[m] => Ts[m] <= Ts[o]
      /\ cur' = IF Kind[m] = "empty" THEN Idle ELSE At(m, "accepted")
      /\ UNCHANGED <<posted, settled, journal, admitted>>
  BY DEF Accept, First, Dropped
<1>2. \A o \in Work : o # m => StatusOf(o)' = StatusOf(o)
  BY <1>1 DEF StatusOf, Admits, At, Idle
<1>3. CASE m \notin Work \/ StatusOf(m) # "sent"
  <2>1. m \in posted
    BY <1>1 DEF Relation, Safety, TypeOK
  <2>2. m \in Work => StatusOf(m)' = StatusOf(m)
    BY <1>1, <1>3, <2>1 DEF StatusOf, Admits, Idle, At
  <2> QED BY <1>2, <2>2, StatusStays
<1>4. CASE m \in Work /\ StatusOf(m) = "sent"
  <2>1. StatusOf(m)' = "owed"
    BY <1>1, <1>4 DEF StatusOf, Work
  <2>2. status' = [status EXCEPT ![m] = "owed"] /\ status[m] = "sent"
    BY <1>2, <1>4, <2>1, StatusMoves, StatusIsStatusOf
  <2>3. ASSUME NEW o \in Work, RoomOf[o] = RoomOf[m], Ts[o] < Ts[m], StatusOf(o) = "sent"
        PROVE  FALSE
    <3>1. o \in Msgs /\ o \in posted /\ Admits(o) /\ Ts[o] \in Nat /\ Ts[m] \in Nat
          /\ Gate(o) \in Gates /\ watermark[Gate(o)] \in Nat
      BY <2>3, TimesAreTimes, GateIsOne DEF StatusOf, Work, Relation, Safety, TypeOK
    <3>2. o \notin settled /\ journal[o] = "none" /\ cur # At(o, "accepted")
      BY <2>3 DEF StatusOf
    <3>3. Outstanding(o)
      BY <3>1, <3>2 DEF Relation, Safety, NothingLost, Outstanding, Fresh
    <3>4. Gate(m) = Gate(o)
      BY <2>3 DEF Gate
    <3>5. Ts[m] <= Ts[o]
      BY <1>1, <2>3, <3>1, <3>3, <3>4 DEF Relation, Safety, Ordered, Dispatching
    <3> QED BY <2>3, <3>1, <3>5
  <2>4. \A o \in Work : RoomOf[o] = RoomOf[m] /\ Ts[o] < Ts[m] => status[o] # "sent"
    BY <2>3, StatusIsStatusOf
  <2>5. Promise!Accept(m)
    BY <2>2, <2>4 DEF Promise!Accept
  <2> QED BY <1>4, <2>5 DEF Promise!Next
<1> QED BY <1>3, <1>4

\* An answer that goes out settles what was owed, or what was settled before.
LEMMA PromiseSettles ==
  ASSUME Relation, NEW m \in Msgs, Recorded(m),
         \A o \in Msgs : cur' = At(o, "accepted") <=> cur = At(o, "accepted"),
         settled' = settled \cup {m}, UNCHANGED <<posted, journal, admitted>>
  PROVE  [Promise!Next]_status
<1>1. \A o \in Work : o # m => StatusOf(o)' = StatusOf(o)
  BY DEF StatusOf, Admits, Work
<1>2. m \in posted
  BY DEF Relation, WorkRecorded
<1>3. CASE m \notin Work \/ m \in settled
  BY <1>1, <1>3, StatusStays DEF StatusOf
<1>4. CASE m \in Work /\ m \notin settled
  <2>1. StatusOf(m) = "owed" /\ StatusOf(m)' = "answered"
    BY <1>2, <1>4 DEF StatusOf, Recorded
  <2> QED BY <1>1, <1>4, <2>1, PromiseAnswer
<1> QED BY <1>3, <1>4

\* A restart, or a replay that turns a guest away.
LEMMA PromiseStart ==
  ASSUME Relation, Start
  PROVE  [Promise!Next]_status
<1> USE DEF server, files, lists
<1>1. UNCHANGED <<posted, settled, journal, cur>> /\ admitted' \in {admitted, FALSE}
  BY DEF Start
<1> DEFINE W == {m \in Work \cap Guests : StatusOf(m) = "sent" /\ StatusOf(m)' # "sent"}
<1>2. W \in SUBSET {m \in Work \cap Guests : StatusOf(m) \in {"sent", "owed"}}
  OBVIOUS
<1>3. \A m \in W : StatusOf(m)' = "withdrawn"
  BY <1>1 DEF StatusOf
<1>4. \A m \in Work \ W : StatusOf(m)' = StatusOf(m)
  <2> SUFFICES ASSUME NEW m \in Work, m \notin W PROVE StatusOf(m)' = StatusOf(m)
    OBVIOUS
  <2>1. CASE Admits(m)' <=> Admits(m)
    BY <1>1, <2>1 DEF StatusOf
  <2>2. CASE ~(Admits(m)' <=> Admits(m))
    <3>1. admitted' # admitted
      BY <2>2, SMT DEF Admits
    <3>2. admitted' = FALSE
      BY <1>1, <3>1, Zenon
    <3>3. m \in Guests /\ Admits(m) /\ ~Admits(m)'
      BY <2>2, <3>2, Zenon DEF Admits
    <3> QED BY <1>1, <3>3 DEF StatusOf
  <2> QED BY <2>1, <2>2
<1> HIDE DEF W
<1> QED BY <1>2, <1>3, <1>4, PromiseWithdraw

LEMMA PromiseReplay ==
  ASSUME Relation, NEW m \in Msgs, Replay(m)
  PROVE  [Promise!Next]_status
<1> USE DEF policy, server, lists
<1>1. /\ phase = "replay" /\ m \in todo /\ cur = Idle
      /\ UNCHANGED <<posted, settled, admitted>>
      /\ IF Admits(m) THEN journal' = journal /\ cur' = At(m, "handling")
         ELSE journal' = [journal EXCEPT ![m] = "none"] /\ cur' = cur
  BY DEF Replay, MarkDone
<1>2. journal[m] = "pending" /\ m \in posted /\ journal \in [Msgs -> {"none", "pending", "deliver"}]
  BY <1>1 DEF Relation, Once, Replayable, WorkRecorded, Recorded, Safety, TypeOK
<1>3. \A o \in Work : o # m => StatusOf(o)' = StatusOf(o)
  BY <1>1, <1>2 DEF StatusOf, Admits, At, Idle, Work
<1>4. CASE m \notin Work \/ Admits(m) \/ m \in settled
  <2>1. m \in Work => StatusOf(m)' = StatusOf(m)
    BY <1>1, <1>2, <1>4 DEF StatusOf, Admits
  <2> QED BY <1>3, <2>1, StatusStays
<1>5. CASE m \in Work /\ ~Admits(m) /\ m \notin settled
  <2>1. StatusOf(m) = "owed" /\ StatusOf(m)' = "withdrawn"
    BY <1>1, <1>2, <1>5 DEF StatusOf, Admits, At, Idle
  <2>2. {m} \in SUBSET {o \in Work \cap Guests : StatusOf(o) \in {"sent", "owed"}}
    BY <1>5, <2>1 DEF Admits
  <2> QED BY <1>3, <2>1, <2>2, PromiseWithdraw
<1> QED BY <1>4, <1>5

\* Every other step leaves each message where it stands.
LEMMA PromiseStays ==
  ASSUME Relation, UNCHANGED <<posted, settled, admitted>>,
         \A m \in Msgs : (journal'[m] = "none" <=> journal[m] = "none") \/ m \in settled,
         \A m \in Msgs : cur' = At(m, "accepted") <=> cur = At(m, "accepted")
  PROVE  [Promise!Next]_status
<1>1. \A m \in Work : StatusOf(m)' = StatusOf(m)
  BY DEF StatusOf, Admits, Work
<1> QED BY <1>1, StatusStays

LEMMA PromiseStep ==
  ASSUME GatesSeparate, Relation, Step
  PROVE  [Promise!Next]_status
<1> USE DEF policy, server, files, lists
<1>1. ASSUME NEW m \in Msgs, Resend(m) PROVE [Promise!Next]_status
  BY <1>1, PromiseStays DEF Resend, At, Idle
<1>2. ASSUME NEW m \in Msgs, Replay(m) PROVE [Promise!Next]_status
  BY <1>2, PromiseReplay
<1>3. ASSUME NEW m \in Msgs, Drop(m) PROVE [Promise!Next]_status
  BY <1>3, PromiseStays DEF Drop
<1>4. ASSUME NEW m \in Msgs, Accept(m) PROVE [Promise!Next]_status
  BY <1>4, PromiseAccept
<1>5. CASE Enqueue
  <2>1. /\ cur.step = "accepted" /\ cur.msg \in Msgs /\ cur = At(cur.msg, "accepted")
        /\ journal'[cur.msg] # "none"
        /\ \A o \in Msgs : o # cur.msg => journal'[o] = journal[o]
        /\ \A o \in Msgs : cur' # At(o, "accepted")
        /\ UNCHANGED <<posted, settled, admitted>>
    BY <1>5 DEF Enqueue, Relation, Safety, TypeOK, Idle, At
  <2>2. \A o \in Work : StatusOf(o)' = StatusOf(o)
    BY <2>1 DEF StatusOf, Admits, At, Work
  <2> QED BY <2>2, StatusStays
<1>6. CASE HandlerReturns
  <2>1. cur.step = "handling" /\ cur.msg \in Msgs /\ cur'.step # "accepted"
        /\ UNCHANGED <<posted, journal, admitted>>
        /\ settled' \in {settled, settled \cup {cur.msg}}
    BY <1>6 DEF HandlerReturns, Relation, Safety, TypeOK, Idle, At
  <2>2. Recorded(cur.msg)
    BY <2>1 DEF Relation, WorkRecorded
  <2>3. CASE settled' = settled
    BY <2>1, <2>3, PromiseStays DEF At
  <2>4. CASE settled' = settled \cup {cur.msg}
    BY <2>1, <2>2, <2>4, PromiseSettles DEF At
  <2> QED BY <2>1, <2>3, <2>4
<1>7. CASE Forget
  <2>1. cur.step = "done" /\ cur.msg \in settled /\ cur' = Idle
        /\ journal' = [journal EXCEPT ![cur.msg] = "none"]
        /\ journal \in [Msgs -> {"none", "pending", "deliver"}]
        /\ UNCHANGED <<posted, settled, admitted>>
    BY <1>7 DEF Forget, MarkDone, Relation, Safety, TypeOK, Answered
  <2> QED BY <2>1, PromiseStays DEF At, Idle
<1> QED BY <1>1, <1>2, <1>3, <1>4, <1>5, <1>6, <1>7 DEF Step

LEMMA PromiseNext ==
  ASSUME GatesSeparate, NoLosses, Relation, [Next]_vars
  PROVE  [Promise!Next]_status
<1> USE DEF policy, server, files, lists
<1>1. ASSUME NEW m \in Msgs, Post(m) PROVE [Promise!Next]_status
  BY <1>1, PromisePost
<1>2. CASE Start
  BY <1>2, PromiseStart
<1>3. CASE Cycle /\ ~Start
  <2>1. UNCHANGED <<posted, settled, admitted, journal, cur>>
    BY <1>3 DEF Cycle, Connect, ListEnds, ScanRoom, ScanEnds, BackfillEnds
  <2> QED BY <2>1, PromiseStays
<1>4. CASE Step
  BY <1>4, PromiseStep
<1>5. CASE ResendOk
  <2>1. cur.step = "resend" /\ cur.msg \in Msgs /\ cur'.step = "done"
        /\ UNCHANGED <<posted, journal, admitted>> /\ settled' = settled \cup {cur.msg}
    BY <1>5 DEF ResendOk, Relation, Safety, TypeOK, Idle, At
  <2>2. Recorded(cur.msg)
    BY <2>1 DEF Relation, WorkRecorded
  <2> QED BY <2>1, <2>2, PromiseSettles DEF At
<1>6. CASE ResendFails \/ CycleEnds
  BY <1>6, PromiseStays DEF ResendFails, CycleEnds, At, Idle
<1>7. CASE Sync
  BY <1>7, PromiseStays DEF Sync
<1>8. ASSUME NEW m \in Msgs, Task(m) PROVE [Promise!Next]_status
  <2>1. Recorded(m)
    BY <1>8 DEF Task, TaskRecords, TaskSends, TaskFails, TaskDone, Relation, WorkRecorded
  <2>2. CASE TaskSends(m)
    BY <2>1, <2>2, PromiseSettles DEF TaskSends
  <2>3. CASE TaskRecords(m) \/ TaskFails(m) \/ TaskDone(m)
    <3>1. UNCHANGED <<posted, settled, admitted, cur>>
          /\ \A o \in Msgs : (journal'[o] = "none" <=> journal[o] = "none") \/ o \in settled
      BY <2>3 DEF TaskRecords, TaskFails, TaskDone, MarkDone, Relation, Safety, TypeOK, Answered
    <3> QED BY <3>1, PromiseStays
  <2> QED BY <1>8, <2>2, <2>3 DEF Task
<1>9. CASE Crash
  <2>1. cur.step # "accepted" /\ cur' = Idle /\ UNCHANGED <<posted, settled, admitted, journal>>
    BY <1>9 DEF Crash, NoLosses, Relation, Safety, TypeOK
  <2> QED BY <2>1, PromiseStays DEF At, Idle
<1>10. CASE UNCHANGED vars
  BY <1>10, PromiseStays DEF vars
<1> QED BY <1>1, <1>2, <1>3, <1>4, <1>5, <1>6, <1>7, <1>8, <1>9, <1>10 DEF Next

\* "makes every accepted message a promise": the daemon implements WorkPromise
\* - messages are accepted in the order of their room, stay owed through
\* rotations and crashes until an answer went out, and only guests are ever
\* turned away.
THEOREM PromiseKept ==
  ASSUME GatesSeparate, NoLosses
  PROVE  Spec => ImplementsPromise
<1>1. Relation /\ [Next]_vars => [Promise!Next]_status
  BY PromiseNext
<1> QED BY <1>1, PromiseInit, RelationInvariant, PTL DEF Spec, ImplementsPromise, Promise!Spec

-----------------------------------------------------------------------------
(***************************************************************************)
(* Module Stream: how often a dead token is tried, and what a rollover      *)
(* leaves in the room.                                                      *)
(*                                                                          *)
(* Refusals: while streaming goes on, each refusal so far was paid for by a  *)
(* death of the token, and one death is unspent while the token is dead; the *)
(* refusal of the fresh token, or of the one in its cooldown, ends it        *)
(* (Spent).  Rollover: at each step of a call the place of the live message *)
(* is known (Stands), those before it are never written again (FinalCopies) *)
(* and a freeze makes the live one the last of them (FinalGrows).           *)
(***************************************************************************)

\* The fields of the stream and of the call.
StreamFields == {"live", "lo", "hi", "opened", "gaveUp", "failures", "wait", "cool", "fresh"}
CallFields == {"pc", "todo", "attempt", "healed", "cut", "sent"}
IsStream(s) == s = [f \in StreamFields |-> s[f]]
IsCall(c) == c = [f \in CallFields |-> c[f]]

StreamSteps == {"first", "roll", "freeze", "edit", "finish"}
SendSteps == {"send", "reauth"}

\* Which steps a kind of call takes.
Kinds ==
  /\ IsStream(stream) /\ IsCall(call) /\ stream.gaveUp \in BOOLEAN
  /\ refusals \in Nat /\ deaths \in Nat
  /\ call.pc \in {"idle", "done", "error"} \cup StreamSteps \cup SendSteps
  /\ kind \in Streams => call.pc \notin SendSteps
  /\ kind \notin Streams => call.pc \notin StreamSteps

\* Every refusal spends a death of the token, but for those that end streaming.
Spent ==
  /\ kind \notin Streams => refusals = 0
  /\ kind \in Streams =>
       IF stream.gaveUp THEN refusals <= deaths + 1 /\ call.pc # "freeze"
       ELSE IF token = "dead" THEN refusals + 1 <= deaths ELSE refusals <= deaths

\* The inductive invariant of the refusals.
Patience == Kinds /\ Spent

-----------------------------------------------------------------------------
\* What a request on the token t can come back with.
CameBack(t, r) ==
  /\ r.answer \in {"ok", "failed", "refused"} /\ r.landed \in BOOLEAN
  /\ r.answer = "ok" => r.landed = TRUE
  /\ r.answer = "refused" => r.landed = FALSE
  /\ t = "dead" => r.answer = "refused"
  /\ t # "dead" => r.answer # "refused"

LEMMA SendIs == ASSUME NEW t, NEW r \in Send(t) PROVE CameBack(t, r)
<1>1. CASE t = "dead"
  <2>1. r = [landed |-> FALSE, answer |-> "refused"]
    BY <1>1 DEF Send
  <2> QED BY <1>1, <2>1 DEF CameBack
<1>2. CASE t # "dead"
  <2>1. r \in {[landed |-> TRUE, answer |-> "ok"], [landed |-> FALSE, answer |-> "failed"],
               [landed |-> TRUE, answer |-> "failed"]}
    BY <1>2 DEF Send
  <2>2. r.answer \in {"ok", "failed"} /\ r.landed \in BOOLEAN /\ (r.answer = "ok" => r.landed = TRUE)
    <3>1. r.answer \in {"ok", "failed"}
      BY <2>1
    <3>3. r.landed = TRUE \/ r.landed = FALSE
      BY <2>1
    <3>2. r.answer = "ok" => r.landed = TRUE
      BY <2>1
    <3> QED BY <3>1, <3>2, <3>3
  <2> QED BY <1>2, <2>2 DEF CameBack
<1> QED BY <1>1, <1>2

\* What a delivery can come back with.
LEMMA DeliveredIs ==
  ASSUME NEW d \in Delivered(stream.gaveUp), stream.gaveUp \in BOOLEAN
  PROVE  /\ d.answer \in {"ok", "failed", "refused"} /\ d.landed \in BOOLEAN
         /\ d.gaveUp \in BOOLEAN /\ d.refused \in 0..2
         /\ d.answer = "ok" => d.landed = TRUE
         /\ d.answer = "ok" => d.gaveUp = stream.gaveUp
         /\ token # "dead" => d.refused = 0 /\ d.token = token /\ d.gaveUp = stream.gaveUp
         /\ token = "dead" => \/ d.gaveUp /\ d.refused <= 2
                              \/ d.refused <= 1 /\ d.token = "good" /\ d.gaveUp = stream.gaveUp
         /\ d.gaveUp /\ ~stream.gaveUp => d.answer = "refused"
<1> DEFINE nothing == [landed |-> FALSE, answer |-> "refused"]
<1>1. ASSUME NEW t, NEW r \in Send(t) PROVE CameBack(t, r)
  BY <1>1, SendIs
<1>2. CASE token # "dead"
  <2>1. PICK r \in Send(token) : d = Kept(r, token, stream.cool, stream.gaveUp, 0)
    BY <1>2 DEF Delivered
  <2>2. /\ d.answer = r.answer /\ d.landed = r.landed /\ d.token = token
        /\ d.gaveUp = stream.gaveUp /\ d.refused = 0
    BY <2>1 DEF Kept
  <2>3. CameBack(token, r) /\ 0 \in 0..2
    BY <1>1, <2>1
  <2>4. d.landed \in BOOLEAN /\ d.gaveUp \in BOOLEAN /\ (d.answer = "ok" => d.landed = TRUE)
    BY <2>2, <2>3 DEF CameBack
  <2> QED BY <1>2, <2>2, <2>3, <2>4 DEF CameBack
<1>3. CASE token = "dead" /\ d \in {Kept(nothing, token, c, TRUE, 1) : c \in {stream.cool, Cooldown}}
  <2>1. d.answer = "refused" /\ d.landed = FALSE /\ d.gaveUp = TRUE /\ d.refused = 1
    BY <1>3 DEF Kept
  <2>2. 1 \in 0..2 /\ 1 <= 2
    OBVIOUS
  <2> QED BY <2>1, <2>2, <1>3
<1>4. CASE token = "dead" /\ d \in {Kept(r, Renewed, Cooldown, stream.gaveUp \/ IsUnknownToken(r.answer),
                                         IF IsUnknownToken(r.answer) THEN 2 ELSE 1) : r \in Send(Renewed)}
  <2>1. PICK r \in Send(Renewed) :
          d = Kept(r, Renewed, Cooldown, stream.gaveUp \/ IsUnknownToken(r.answer),
                   IF IsUnknownToken(r.answer) THEN 2 ELSE 1)
    BY <1>4
  <2>2. /\ d.answer = r.answer /\ d.landed = r.landed /\ d.token = Renewed
        /\ d.gaveUp = (stream.gaveUp \/ r.answer = "refused")
        /\ d.refused = IF r.answer = "refused" THEN 2 ELSE 1
    BY <2>1 DEF Kept, IsUnknownToken
  <2>3. Renewed = "good" \/ Renewed = "dead"
    BY DEF Renewed
  <2>4. CASE r.answer = "refused"
    <3>1. d.answer = "refused" /\ d.landed = FALSE /\ d.gaveUp = TRUE /\ d.refused = 2
      BY <1>1, <2>1, <2>2, <2>4 DEF CameBack
    <3>2. 2 \in 0..2 /\ 2 <= 2
      OBVIOUS
    <3> QED BY <1>4, <3>1, <3>2
  <2>5. CASE r.answer # "refused"
    <3>5. CameBack(Renewed, r)
      BY <1>1, <2>1
    <3>6. Renewed = "good" /\ 1 \in 0..2
      BY <2>3, <2>5, <3>5 DEF CameBack
    <3>1. CameBack(Renewed, r) /\ 1 \in 0..2 /\ Renewed = "good"
      BY <3>5, <3>6
    <3>2. d.landed \in BOOLEAN /\ (d.answer = "ok" => d.landed = TRUE)
      BY <2>2, <3>1 DEF CameBack
    <3>3. d.gaveUp = stream.gaveUp /\ d.gaveUp \in BOOLEAN /\ d.refused = 1 /\ d.token = "good"
      BY <2>2, <2>5, <3>1
    <3>4. d.answer \in {"ok", "failed", "refused"}
      BY <2>2, <3>1 DEF CameBack
    <3> QED BY <1>4, <3>1, <3>2, <3>3, <3>4
  <2> QED BY <2>4, <2>5
<1>5. token = "dead" => d \in {Kept(nothing, token, c, TRUE, 1) : c \in {stream.cool, Cooldown}}
                     \/ d \in {Kept(r, Renewed, Cooldown, stream.gaveUp \/ IsUnknownToken(r.answer),
                                    IF IsUnknownToken(r.answer) THEN 2 ELSE 1) : r \in Send(Renewed)}
  BY DEF Delivered
<1> QED BY <1>2, <1>3, <1>4, <1>5

\* The credit that a request leaves.
LEMMA RequestSpends ==
  ASSUME Patience, kind \in Streams, NEW d \in Delivered(stream.gaveUp), NEW shown, NEW s,
         NEW opening,
         IsStream(s), Request(d, shown, s, opening), stream.gaveUp => call.pc = "finish",
         call'.pc = "freeze" => d.gaveUp = FALSE
  PROVE  /\ IsStream(stream') /\ stream'.gaveUp = d.gaveUp /\ stream'.live = s.live
         /\ stream'.lo = s.lo /\ stream'.opened = s.opened
         /\ refusals' \in Nat /\ deaths' = deaths /\ kind' = kind /\ Spent'
<1>1. /\ stream' = [s EXCEPT !.cool = d.cool, !.gaveUp = d.gaveUp]
      /\ token' = d.token /\ deaths' = deaths /\ kind' = kind
      /\ refusals' = refusals + (IF call.pc = "finish" THEN 0 ELSE d.refused)
  BY DEF Request, scene
<1>2. /\ IsStream(stream') /\ stream'.gaveUp = d.gaveUp /\ stream'.live = s.live
      /\ stream'.lo = s.lo /\ stream'.opened = s.opened
  BY <1>1 DEF IsStream, StreamFields
<1>3. /\ d.gaveUp \in BOOLEAN /\ d.refused \in 0..2
      /\ token # "dead" => d.refused = 0 /\ d.token = token /\ d.gaveUp = stream.gaveUp
      /\ token = "dead" => \/ d.gaveUp /\ d.refused <= 2
                           \/ d.refused <= 1 /\ d.token = "good" /\ d.gaveUp = stream.gaveUp
  BY DeliveredIs DEF Patience, Kinds
<1>4. refusals \in Nat /\ deaths \in Nat /\ refusals' \in Nat
  BY <1>1, <1>3 DEF Patience, Kinds
<1>5. Spent'
  BY <1>1, <1>2, <1>3, <1>4 DEF Patience, Kinds, Spent
<1> QED BY <1>1, <1>2, <1>4, <1>5

\* A request of the stream in one of its steps.
LEMMA RequestKeeps ==
  ASSUME Patience, call.pc \in StreamSteps, NEW d \in Delivered(stream.gaveUp), NEW shown,
         NEW s, NEW opening,
         IsStream(s), Request(d, shown, s, opening), stream.gaveUp => call.pc = "finish",
         IsCall(call'), call'.pc \in {"idle", "done", "error"} \cup StreamSteps,
         call'.pc = "freeze" => d.gaveUp = FALSE
  PROVE  Patience'
<1>1. kind \in Streams
  BY DEF Patience, Kinds
<1>2. /\ IsStream(stream') /\ stream'.gaveUp = d.gaveUp
      /\ refusals' \in Nat /\ deaths' = deaths /\ kind' = kind /\ Spent'
  BY <1>1, RequestSpends
<1>3. d.gaveUp \in BOOLEAN
  BY DeliveredIs DEF Patience, Kinds
<1>4. call'.pc \notin SendSteps
  BY DEF StreamSteps, SendSteps
<1>5. Kinds'
  BY <1>1, <1>2, <1>3, <1>4 DEF Patience, Kinds
<1> QED BY <1>2, <1>5 DEF Patience

\* The gate leaves the messages alone.
LEMMA GateFields ==
  ASSUME NEW s, IsStream(s)
  PROVE  /\ IsStream(GateFailed(s)) /\ IsStream(GateReset(s))
         /\ GateFailed(s).live = s.live /\ GateFailed(s).lo = s.lo /\ GateFailed(s).hi = s.hi
         /\ GateReset(s).live = s.live /\ GateReset(s).lo = s.lo /\ GateReset(s).hi = s.hi
         /\ GateFailed(s).opened = s.opened /\ GateReset(s).opened = s.opened
BY DEF IsStream, StreamFields, GateFailed, GateReset

LEMMA SendFirstKeepsP == ASSUME Patience, SendFirst PROVE Patience'
<1>1. /\ call.pc = "first" /\ call.pc \in StreamSteps /\ IsStream(stream)
      /\ IsCall(call') /\ call'.pc = "idle"
  BY DEF SendFirst, Go, Patience, Kinds, IsCall, CallFields, StreamSteps
<1>2. CASE ~MayOpen
  BY <1>1, <1>2 DEF SendFirst, Quiet, Patience, Kinds, Spent, scene, homeserver, seen,
                    StreamSteps, SendSteps
<1>3. CASE MayOpen
  <2>1. PICK d \in Delivered(stream.gaveUp) :
          Request(d, Append(messages, Shows(stream.lo, Truncated(stream.lo, stream.hi)[2], TRUE)),
                     IF d.answer = "ok"
                     THEN [GateReset(stream) EXCEPT !.live = Len(messages) + 1, !.opened = 1, !.fresh = TRUE]
                     ELSE GateFailed(stream), TRUE)
    BY <1>3 DEF SendFirst
  <2>2. /\ IsStream(GateFailed(stream))
        /\ IsStream([GateReset(stream) EXCEPT !.live = Len(messages) + 1, !.opened = 1,
                                                 !.fresh = TRUE])
    BY <1>1, GateFields DEF IsStream, StreamFields
  <2>3. ~stream.gaveUp
    BY <1>3 DEF MayOpen
  <2> QED BY <1>1, <2>1, <2>2, <2>3, RequestKeeps
<1> QED BY <1>2, <1>3

LEMMA OpenNextKeepsP == ASSUME Patience, OpenNext PROVE Patience'
<1> DEFINE cut == pick_boundary(stream.lo, stream.hi)
<1>1. call.pc = "roll" /\ call.pc \in StreamSteps /\ IsStream(stream) /\ ~stream.gaveUp
  BY DEF OpenNext, MayOpen, Patience, Kinds, StreamSteps
<1>2. PICK d \in Delivered(stream.gaveUp) :
        /\ Request(d, Append(messages, Shows(cut + 1, Truncated(cut + 1, stream.hi)[2], TRUE)),
                   IF d.answer = "ok" THEN GateReset(stream) ELSE GateFailed(stream), TRUE)
        /\ call' = [call EXCEPT !.pc = IF d.answer = "ok" THEN "freeze" ELSE "edit",
                                !.attempt = 1, !.cut = cut]
  BY DEF OpenNext
<1>3. IsCall(call') /\ call'.pc = IF d.answer = "ok" THEN "freeze" ELSE "edit"
  BY <1>2 DEF Patience, Kinds, IsCall, CallFields
<1>4. d.answer = "ok" => d.gaveUp = FALSE
  BY <1>1, DeliveredIs DEF Patience, Kinds
<1>5. IsStream(GateFailed(stream)) /\ IsStream(GateReset(stream))
  BY <1>1, GateFields
<1>6. call'.pc \in StreamSteps /\ (call'.pc = "freeze" => d.gaveUp = FALSE)
  BY <1>3, <1>4 DEF StreamSteps
<1> HIDE DEF cut
<1> QED BY <1>1, <1>2, <1>3, <1>5, <1>6, RequestKeeps

LEMMA FreezeKeepsP == ASSUME Patience, Freeze PROVE Patience'
<1>1. call.pc = "freeze" /\ call.pc \in StreamSteps /\ IsStream(stream) /\ kind \in Streams
  BY DEF Freeze, Patience, Kinds, StreamSteps
<1>2. stream.gaveUp = FALSE
  BY <1>1 DEF Patience, Kinds, Spent
<1>3. PICK d \in Delivered(stream.gaveUp) :
        /\ Request(d, [messages EXCEPT ![stream.live] = FrozenHead(stream, call.cut)],
                   IF ~Again(d.answer)
                   THEN [stream EXCEPT !.live = Len(messages), !.lo = call.cut + 1,
                                       !.opened = @ + 1, !.fresh = TRUE]
                   ELSE stream, FALSE)
        /\ call' = IF ~Again(d.answer) THEN [call EXCEPT !.pc = "roll", !.attempt = 1]
                   ELSE [call EXCEPT !.attempt = @ + 1]
  BY DEF Freeze
<1>4. IsCall(call') /\ call'.pc = IF ~Again(d.answer) THEN "roll" ELSE "freeze"
  BY <1>1, <1>3 DEF Patience, Kinds, IsCall, CallFields
<1>5. Again(d.answer) => d.gaveUp = FALSE
  <2>1. d.gaveUp \in BOOLEAN /\ (d.gaveUp /\ ~stream.gaveUp => d.answer = "refused")
    BY DeliveredIs DEF Patience, Kinds
  <2> QED BY <1>2, <2>1 DEF Again, IsUnknownToken
<1>6. IsStream([stream EXCEPT !.live = Len(messages), !.lo = call.cut + 1, !.opened = @ + 1,
                              !.fresh = TRUE])
  BY <1>1 DEF IsStream, StreamFields
<1>7. call'.pc \in StreamSteps /\ (call'.pc = "freeze" => d.gaveUp = FALSE)
  BY <1>4, <1>5 DEF StreamSteps
<1> QED BY <1>1, <1>2, <1>3, <1>4, <1>6, <1>7, RequestKeeps

LEMMA EditKeepsP == ASSUME Patience, Edit PROVE Patience'
<1>1. /\ call.pc = "edit" /\ call.pc \in StreamSteps /\ IsStream(stream)
      /\ IsCall(call') /\ call'.pc = "idle"
  BY DEF Edit, Go, Patience, Kinds, IsCall, CallFields, StreamSteps
<1>2. CASE stream.fresh \/ (~stream.fresh /\ stream.gaveUp)
  <2>1. /\ stream' = stream \/ stream' = [stream EXCEPT !.fresh = TRUE]
        /\ UNCHANGED <<kind, token, refusals, deaths>>
    BY <1>2 DEF Edit, Quiet, scene, homeserver, seen
  <2>2. IsStream(stream') /\ stream'.gaveUp = stream.gaveUp
    BY <1>1, <2>1 DEF IsStream, StreamFields
  <2> QED BY <1>1, <2>1, <2>2 DEF Patience, Kinds, Spent, StreamSteps, SendSteps
<1>3. CASE ~stream.fresh /\ ~stream.gaveUp
  <2>1. PICK d \in Delivered(stream.gaveUp) :
          Request(d, [messages EXCEPT ![stream.live] =
                        Shows(stream.lo, Truncated(stream.lo, stream.hi)[2], TRUE)],
                  [stream EXCEPT !.fresh = TRUE], FALSE)
    BY <1>3 DEF Edit
  <2>2. IsStream([stream EXCEPT !.fresh = TRUE])
    BY <1>1 DEF IsStream, StreamFields
  <2> QED BY <1>1, <1>3, <2>1, <2>2, RequestKeeps
<1> QED BY <1>2, <1>3

LEMMA FinishChunkKeepsP == ASSUME Patience, FinishChunk PROVE Patience'
<1>1. call.pc = "finish" /\ call.pc \in StreamSteps /\ IsStream(stream)
  BY DEF FinishChunk, Patience, Kinds, StreamSteps
<1>2. PICK d \in Delivered(stream.gaveUp) :
        /\ Request(d, IF stream.live # 0 /\ call.sent = 0
                      THEN [messages EXCEPT ![stream.live] =
                              Shows(Head(call.todo)[1], Head(call.todo)[2], FALSE)]
                      ELSE Append(messages, Shows(Head(call.todo)[1], Head(call.todo)[2], FALSE)),
                   stream, FALSE)
        /\ call' = IF d.answer = "ok" THEN [call EXCEPT !.todo = Tail(@), !.attempt = 1, !.sent = @ + 1]
                   ELSE IF Again(d.answer) THEN [call EXCEPT !.attempt = @ + 1]
                   ELSE [NoCall EXCEPT !.pc = "error"]
  BY DEF FinishChunk
<1>3. IsCall(call') /\ call'.pc \in {"finish", "error"}
  BY <1>1, <1>2 DEF Patience, Kinds, IsCall, CallFields, NoCall
<1> QED BY <1>1, <1>2, <1>3, RequestKeeps DEF StreamSteps

\* The other steps of a stream: none asks the homeserver.
LEMMA QuietKeepsP ==
  ASSUME Patience,
         \/ \E k \in 1 .. 2 : Push(k)
         \/ \E at \in {"short", "long", "once"} : Set(at)
         \/ RollNoMore \/ Finish \/ Finished
  PROVE  Patience'
<1>1. UNCHANGED <<kind, token, refusals, deaths>> /\ kind \in Streams
  BY DEF Push, Set, RollNoMore, Finish, Finished, Quiet, scene, homeserver,
         seen, Streams, Patience,
         Kinds, StreamSteps
<1>2. IsStream(stream') /\ stream'.gaveUp = stream.gaveUp
  BY DEF Push, Set, RollNoMore, Finish, Finished, Patience, Kinds, IsStream,
         StreamFields
<1>3. IsCall(call') /\ call'.pc \in {"idle", "first", "roll", "edit", "finish", "done"}
  BY DEF Push, Set, RollNoMore, Finish, Finished, Go, NoCall, Patience, Kinds,
         IsCall, CallFields
<1> QED BY <1>1, <1>2, <1>3 DEF Patience, Kinds, Spent, StreamSteps, SendSteps

\* A one-shot send counts no refusal here.
LEMMA OneShotKeepsP ==
  ASSUME Patience, SendStart \/ OneAttempt \/ SendDone \/ Reauth PROVE Patience'
<1>1. UNCHANGED <<kind, stream, refusals, deaths>> /\ kind \notin Streams
  BY DEF SendStart, OneAttempt, SendDone, Reauth, Quiet, scene, homeserver,
         seen, Patience, Kinds, SendSteps
<1>2. IsCall(call') /\ call'.pc \in {"idle", "done", "error"} \cup SendSteps
  BY DEF SendStart, OneAttempt, SendDone, Reauth, Go, NoCall, Patience, Kinds,
         IsCall, CallFields, SendSteps
<1> QED BY <1>1, <1>2 DEF Patience, Kinds, Spent, StreamSteps, SendSteps

\* Time and the token.
LEMMA WorldKeepsP ==
  ASSUME Patience, Tick \/ TokenLow \/ TokenDies PROVE Patience'
<1>1. CASE Tick
  <2>1. UNCHANGED <<kind, token, call, refusals, deaths>>
    BY <1>1 DEF Tick, scene, homeserver, seen
  <2>2. IsStream(stream') /\ stream'.gaveUp = stream.gaveUp
    BY <1>1 DEF Tick, Patience, Kinds, IsStream, StreamFields
  <2> QED BY <2>1, <2>2 DEF Patience, Kinds, Spent
<1>2. CASE TokenLow
  BY <1>2 DEF TokenLow, scene, seen, Streams, Patience, Kinds, Spent
<1>3. CASE TokenDies
  BY <1>3 DEF TokenDies, scene, Patience, Kinds, Spent
<1> QED BY <1>1, <1>2, <1>3

LEMMA PatienceInit == StreamInit => Patience
BY DEF StreamInit, NewStream, NoCall, Patience, Kinds, Spent, IsStream, StreamFields, IsCall,
       CallFields, StreamSteps, SendSteps

LEMMA PatienceStep == Patience /\ [StreamNext]_(streamVars) => Patience'
<1> SUFFICES ASSUME Patience, [StreamNext]_(streamVars) PROVE Patience'
  OBVIOUS
<1>1. CASE StreamNext
  BY <1>1, SendFirstKeepsP, OpenNextKeepsP, FreezeKeepsP, EditKeepsP, FinishChunkKeepsP,
     QuietKeepsP,
     OneShotKeepsP, WorldKeepsP DEF StreamNext
<1>2. CASE UNCHANGED streamVars
  BY <1>2 DEF streamVars, scene, homeserver, seen, Patience, Kinds, Spent
<1> QED BY <1>1, <1>2

LEMMA PatienceHolds == StreamSpec => []Patience
BY PatienceInit, PatienceStep, PTL DEF StreamSpec

\* A homeserver that refuses the token hears of it once per token that died and once
\* more for the fresh one: after that ReplyStream::deliver gives streaming up until finish.
THEOREM FewRefusals == StreamSpec => []RefusalsBounded
<1>1. Patience => RefusalsBounded
  BY DEF Patience, Kinds, Spent, RefusalsBounded
<1> QED BY <1>1, PatienceHolds, PTL

-----------------------------------------------------------------------------
\* What the messages of one reply say about where the live one starts.
IsSeq(s) == \E S : s \in Seq(S)

\* Where the live message stands when the call is in the step pc.
Stands(pc, live, m) ==
  /\ pc \in {"idle", "first", "roll", "edit"} => live = Len(m)
  /\ pc = "first" => live = 0
  /\ pc \in {"roll", "edit", "freeze"} => live # 0
  /\ pc = "freeze" => Len(m) = live + 1

\* The messages before the live one are final and join up with each other and with it.
Final(live, lo, m) ==
  /\ live \in Nat /\ live <= Len(m)
  /\ \A k \in 1 .. live - 2 : m[k].hi + 1 = m[k + 1].lo
  /\ live > 1 => m[live - 1].hi + 1 = lo
  /\ \A k \in 1 .. live - 1 : m[k].cursor = FALSE

Joins == Stands(call.pc, stream.live, messages) /\ Final(stream.live, stream.lo, messages)

\* The replies FrozenJoinUp is about.
Counts == kind = "stream" /\ ~lost /\ ~unfrozen

\* The inductive invariant of the rollover.
Seamless ==
  /\ Patience
  /\ IsSeq(messages) /\ lost \in BOOLEAN /\ unfrozen \in BOOLEAN
  /\ Counts => Joins

\* Sequences whose elements are of no known type.
LEMMA SeqAppend ==
  ASSUME NEW s, IsSeq(s), NEW x
  PROVE  /\ IsSeq(Append(s, x)) /\ Len(s) \in Nat /\ Len(Append(s, x)) = Len(s) + 1
         /\ Append(s, x)[Len(s) + 1] = x
         /\ \A k \in 1 .. Len(s) : Append(s, x)[k] = s[k]
<1>1. PICK S : s \in Seq(S)
  BY DEF IsSeq
<1>2. s \in Seq(S \cup {x})
  <2>1. \A k \in 1 .. Len(s) : s[k] \in S \cup {x}
    BY <1>1, ElementOfSeq
  <2> QED BY <1>1, <2>1
<1>3. Append(s, x) \in Seq(S \cup {x})
  BY <1>2, AppendProperties
<1>4. /\ Len(Append(s, x)) = Len(s) + 1 /\ Append(s, x)[Len(s) + 1] = x
      /\ \A k \in 1 .. Len(s) : Append(s, x)[k] = s[k]
  BY <1>2, AppendProperties
<1> QED BY <1>1, <1>3, <1>4 DEF IsSeq

Put(s, i, x) == [s EXCEPT ![i] = x]

LEMMA SeqPut ==
  ASSUME NEW s, IsSeq(s), NEW i, NEW x
  PROVE  /\ IsSeq(Put(s, i, x)) /\ Len(s) \in Nat /\ Len(Put(s, i, x)) = Len(s)
         /\ i \in 1 .. Len(s) => Put(s, i, x)[i] = x
         /\ \A k \in 1 .. Len(s) : k # i => Put(s, i, x)[k] = s[k]
<1>1. PICK S : s \in Seq(S)
  BY DEF IsSeq
<1>2. s \in [1 .. Len(s) -> S] /\ Len(s) \in Nat
  BY <1>1
<1>3. Put(s, i, x) \in [1 .. Len(s) -> S \cup {x}]
  BY <1>2 DEF Put
<1>4. Put(s, i, x) \in Seq(S \cup {x}) /\ Len(Put(s, i, x)) = Len(s)
  BY <1>2, <1>3
<1> QED BY <1>2, <1>4 DEF IsSeq, Put

\* What is written from the live message on does not touch those before it.
LEMMA FinalCopies ==
  ASSUME NEW live, NEW lo, NEW m, NEW n, Final(live, lo, m), Len(n) \in Nat, live <= Len(n),
         \A k \in 1 .. live - 1 : n[k] = m[k]
  PROVE  Final(live, lo, n)
<1>1. live \in Nat
  BY DEF Final
<1>2. \A k \in 1 .. live - 2 : n[k].hi + 1 = n[k + 1].lo
  <2> SUFFICES ASSUME NEW k \in 1 .. live - 2 PROVE n[k].hi + 1 = n[k + 1].lo
    OBVIOUS
  <2>1. k \in 1 .. live - 1 /\ k + 1 \in 1 .. live - 1
    BY <1>1
  <2>2. n[k] = m[k] /\ n[k + 1] = m[k + 1]
    BY <2>1
  <2> QED BY <2>2 DEF Final
<1>3. live > 1 => n[live - 1].hi + 1 = lo
  <2> SUFFICES ASSUME live > 1 PROVE n[live - 1].hi + 1 = lo
    OBVIOUS
  <2>1. live - 1 \in 1 .. live - 1
    BY <1>1
  <2>2. n[live - 1] = m[live - 1]
    BY <2>1
  <2> QED BY <2>2 DEF Final
<1>4. \A k \in 1 .. live - 1 : n[k].cursor = FALSE
  BY DEF Final
<1> QED BY <1>1, <1>2, <1>3, <1>4 DEF Final

\* A freeze makes the live message final and the next one live.
LEMMA FinalGrows ==
  ASSUME NEW live \in Nat \ {0}, NEW lo, NEW cut, NEW m, NEW n, Final(live, lo, m),
         Len(n) = live + 1, \A k \in 1 .. live - 1 : n[k] = m[k],
         n[live].lo = lo, n[live].hi = cut, n[live].cursor = FALSE
  PROVE  Final(live + 1, cut + 1, n)
<1>1. \A k \in 1 .. live - 1 : n[k].hi + 1 = n[k + 1].lo
  <2> SUFFICES ASSUME NEW k \in 1 .. live - 1 PROVE n[k].hi + 1 = n[k + 1].lo
    OBVIOUS
  <2>1. n[k] = m[k]
    OBVIOUS
  <2>2. CASE k = live - 1
    <3>1. live > 1 /\ k + 1 = live
      BY <2>2
    <3>2. m[live - 1].hi + 1 = lo
      BY <3>1 DEF Final
    <3> QED BY <2>1, <2>2, <3>1, <3>2
  <2>3. CASE k # live - 1
    <3>1. k \in 1 .. live - 2 /\ k + 1 \in 1 .. live - 1
      BY <2>3
    <3>2. n[k + 1] = m[k + 1]
      BY <3>1
    <3>3. m[k].hi + 1 = m[k + 1].lo
      BY <3>1 DEF Final
    <3> QED BY <2>1, <3>2, <3>3
  <2> QED BY <2>2, <2>3
<1>2. \A k \in 1 .. live : n[k].cursor = FALSE
  <2> SUFFICES ASSUME NEW k \in 1 .. live PROVE n[k].cursor = FALSE
    OBVIOUS
  <2>1. CASE k = live
    BY <2>1
  <2>2. CASE k # live
    <3>1. k \in 1 .. live - 1
      BY <2>2
    <3> QED BY <3>1 DEF Final
  <2> QED BY <2>1, <2>2
<1>3. live + 1 - 2 = live - 1 /\ live + 1 - 1 = live
  OBVIOUS
<1>4. n[live + 1 - 1].hi + 1 = cut + 1
  BY <1>3
<1>5. /\ live + 1 \in Nat /\ live + 1 <= Len(n)
      /\ \A k \in 1 .. live + 1 - 2 : n[k].hi + 1 = n[k + 1].lo
      /\ \A k \in 1 .. live + 1 - 1 : n[k].cursor = FALSE
  BY <1>1, <1>2, <1>3
<1> QED BY <1>4, <1>5 DEF Final

\* A request that is not lost landed just when it was answered.
LEMMA RequestJoins ==
  ASSUME Seamless, NEW d \in Delivered(stream.gaveUp), NEW shown, NEW s, NEW opening,
         IsStream(s), IsSeq(shown), Request(d, shown, s, opening)
  PROVE  /\ stream'.live = s.live /\ stream'.lo = s.lo
         /\ IsSeq(messages') /\ lost' \in BOOLEAN /\ kind' = kind
         /\ ~lost' => ~lost
         /\ ~lost' => messages' = IF d.answer = "ok" THEN shown ELSE messages
<1>1. /\ d.landed \in BOOLEAN /\ (d.answer = "ok" => d.landed = TRUE)
  BY DeliveredIs DEF Seamless, Patience, Kinds
<1>2. /\ stream' = [s EXCEPT !.cool = d.cool, !.gaveUp = d.gaveUp]
      /\ messages' = IF d.landed THEN shown ELSE messages
      /\ lost' = (lost \/ (d.landed /\ d.answer # "ok")) /\ kind' = kind
  BY DEF Request, scene
<1>3. stream'.live = s.live /\ stream'.lo = s.lo
  BY <1>2 DEF IsStream, StreamFields
<1>4. IsSeq(messages')
  BY <1>2 DEF Seamless
<1>5. lost' \in BOOLEAN /\ (~lost' => ~lost)
  BY <1>2 DEF Seamless
<1>6. ~lost' => (d.landed <=> d.answer = "ok")
  BY <1>1, <1>2
<1> QED BY <1>2, <1>3, <1>4, <1>5, <1>6

LEMMA SendFirstKeepsS == ASSUME Seamless, SendFirst PROVE Seamless'
<1>0. Patience' /\ IsStream(stream)
  BY SendFirstKeepsP DEF Seamless, Patience, Kinds
<1>1. /\ call.pc = "first" /\ call'.pc = "idle"
  BY DEF SendFirst, Go, Seamless, Patience, Kinds, IsCall, CallFields
<1>2. CASE ~MayOpen
  <2>1. UNCHANGED <<kind, stream, messages, lost, unfrozen>>
    BY <1>2 DEF SendFirst, Quiet, scene, seen
  <2>2. Counts' => Joins'
    BY <1>1, <2>1 DEF Seamless, Counts, Joins, Stands
  <2> QED BY <1>0, <2>1, <2>2 DEF Seamless
<1>3. CASE MayOpen
  <2> DEFINE m == Append(messages, Shows(stream.lo, Truncated(stream.lo, stream.hi)[2], TRUE))
             s == [GateReset(stream) EXCEPT !.live = Len(messages) + 1, !.opened = 1, !.fresh = TRUE]
  <2>1. PICK d \in Delivered(stream.gaveUp) :
          Request(d, m, IF d.answer = "ok" THEN s ELSE GateFailed(stream), TRUE)
    BY <1>3 DEF SendFirst
  <2>2. UNCHANGED unfrozen
    BY <1>3 DEF SendFirst
  <2>3. IsStream(GateFailed(stream)) /\ IsStream(s) /\ GateFailed(stream).live = stream.live
        /\ s.live = Len(messages) + 1
    BY <1>0, GateFields DEF IsStream, StreamFields
  <2>4. IsSeq(m) /\ Len(messages) \in Nat /\ Len(m) = Len(messages) + 1
    BY SeqAppend DEF Seamless
  <2> HIDE DEF m, s
  <2>5. /\ stream'.live = IF d.answer = "ok" THEN s.live ELSE GateFailed(stream).live
        /\ IsSeq(messages') /\ lost' \in BOOLEAN /\ kind' = kind /\ (~lost' => ~lost)
        /\ ~lost' => messages' = IF d.answer = "ok" THEN m ELSE messages
    BY <2>1, <2>3, <2>4, RequestJoins
  <2>6. ASSUME Counts' PROVE Joins'
    <3>1. Counts /\ Joins
      BY <2>2, <2>5, <2>6 DEF Seamless, Counts
    <3>2. stream.live = 0 /\ Len(messages) = 0
      BY <1>1, <3>1 DEF Joins, Stands
    <3>3. stream'.live = Len(messages') /\ stream'.live \in {0, 1}
      BY <2>3, <2>4, <2>5, <2>6, <3>2 DEF Counts
    <3>4. Final(stream'.live, stream'.lo, messages')
      <4>1. CASE stream'.live = 0
        BY <3>3, <4>1 DEF Final
      <4>2. CASE stream'.live = 1
        BY <3>3, <4>2 DEF Final
      <4> QED BY <3>3, <4>1, <4>2
    <3> QED BY <1>1, <3>3, <3>4 DEF Joins, Stands
  <2> QED BY <1>0, <2>2, <2>5, <2>6 DEF Seamless
<1> QED BY <1>2, <1>3

LEMMA OpenNextKeepsS == ASSUME Seamless, OpenNext PROVE Seamless'
<1> DEFINE cut == pick_boundary(stream.lo, stream.hi)
           m == Append(messages, Shows(cut + 1, Truncated(cut + 1, stream.hi)[2], TRUE))
<1>0. Patience' /\ IsStream(stream) /\ IsCall(call) /\ call.pc = "roll"
  BY OpenNextKeepsP DEF OpenNext, Seamless, Patience, Kinds
<1>1. PICK d \in Delivered(stream.gaveUp) :
        /\ Request(d, m, IF d.answer = "ok" THEN GateReset(stream) ELSE GateFailed(stream), TRUE)
        /\ call' = [call EXCEPT !.pc = IF d.answer = "ok" THEN "freeze" ELSE "edit",
                                !.attempt = 1, !.cut = cut]
        /\ UNCHANGED unfrozen
  BY DEF OpenNext
<1>2. call'.pc = IF d.answer = "ok" THEN "freeze" ELSE "edit"
  BY <1>0, <1>1 DEF IsCall, CallFields
<1>3. /\ IsStream(GateFailed(stream)) /\ IsStream(GateReset(stream))
      /\ GateFailed(stream).live = stream.live /\ GateReset(stream).live = stream.live
      /\ GateFailed(stream).lo = stream.lo /\ GateReset(stream).lo = stream.lo
  BY <1>0, GateFields
<1>4. /\ IsSeq(m) /\ Len(messages) \in Nat /\ Len(m) = Len(messages) + 1
      /\ \A k \in 1 .. Len(messages) : m[k] = messages[k]
  BY SeqAppend DEF Seamless
<1> HIDE DEF m, cut
<1>5. /\ stream'.live = stream.live /\ stream'.lo = stream.lo
      /\ IsSeq(messages') /\ lost' \in BOOLEAN /\ kind' = kind /\ (~lost' => ~lost)
      /\ ~lost' => messages' = IF d.answer = "ok" THEN m ELSE messages
  BY <1>1, <1>3, <1>4, RequestJoins
<1>6. ASSUME Counts' PROVE Joins'
  <2>1. Counts /\ Joins
    BY <1>1, <1>5, <1>6 DEF Seamless, Counts
  <2>2. stream.live \in Nat /\ stream.live = Len(messages) /\ stream.live # 0
    BY <1>0, <2>1 DEF Joins, Stands, Final
  <2>3. \A k \in 1 .. stream.live - 1 : messages'[k] = messages[k]
    BY <1>4, <1>5, <1>6, <2>2 DEF Counts
  <2>4. /\ call'.pc = "freeze" => Len(messages') = stream.live + 1
        /\ call'.pc # "freeze" => Len(messages') = stream.live
    BY <1>2, <1>4, <1>5, <1>6, <2>2 DEF Counts
  <2>5. Len(messages') \in Nat /\ stream.live <= Len(messages')
    BY <2>2, <2>4
  <2>6. Final(stream.live, stream.lo, messages')
    BY <2>1, <2>3, <2>5, FinalCopies DEF Joins
  <2> QED BY <1>2, <1>5, <2>2, <2>4, <2>6 DEF Joins, Stands
<1> QED BY <1>0, <1>1, <1>5, <1>6 DEF Seamless

LEMMA FreezeKeepsS == ASSUME Seamless, Freeze PROVE Seamless'
<1> DEFINE m == [messages EXCEPT ![stream.live] = FrozenHead(stream, call.cut)]
           s == [stream EXCEPT !.live = Len(messages), !.lo = call.cut + 1, !.opened = @ + 1,
                               !.fresh = TRUE]
<1>0. Patience' /\ IsStream(stream) /\ IsCall(call) /\ call.pc = "freeze"
  BY FreezeKeepsP DEF Freeze, Seamless, Patience, Kinds
<1>1. PICK d \in Delivered(stream.gaveUp) :
        /\ Request(d, m, IF ~Again(d.answer) THEN s ELSE stream, FALSE)
        /\ call' = IF ~Again(d.answer) THEN [call EXCEPT !.pc = "roll", !.attempt = 1]
                   ELSE [call EXCEPT !.attempt = @ + 1]
        /\ unfrozen' = (unfrozen \/ (~Again(d.answer) /\ d.answer # "ok"))
  BY DEF Freeze
<1>2. call'.pc = IF ~Again(d.answer) THEN "roll" ELSE "freeze"
  BY <1>0, <1>1 DEF IsCall, CallFields
<1>3. IsStream(s) /\ s.live = Len(messages) /\ s.lo = call.cut + 1
  BY <1>0 DEF IsStream, StreamFields
<1>4. /\ IsSeq(m) /\ Len(messages) \in Nat /\ Len(m) = Len(messages)
      /\ stream.live \in 1 .. Len(messages) => m[stream.live] = FrozenHead(stream, call.cut)
      /\ \A k \in 1 .. Len(messages) : k # stream.live => m[k] = messages[k]
  <2>1. IsSeq(messages)
    BY DEF Seamless
  <2>2. m = Put(messages, stream.live, FrozenHead(stream, call.cut))
    BY DEF Put
  <2> HIDE DEF m
  <2> QED BY <2>1, <2>2, SeqPut
<1>5. /\ FrozenHead(stream, call.cut).lo = stream.lo /\ FrozenHead(stream, call.cut).hi = call.cut
      /\ FrozenHead(stream, call.cut).cursor = FALSE
  BY DEF FrozenHead, Shows
<1> HIDE DEF m, s
<1>6. /\ stream'.live = (IF ~Again(d.answer) THEN s ELSE stream).live
      /\ stream'.lo = (IF ~Again(d.answer) THEN s ELSE stream).lo
      /\ IsSeq(messages') /\ lost' \in BOOLEAN /\ kind' = kind /\ (~lost' => ~lost)
      /\ ~lost' => messages' = IF d.answer = "ok" THEN m ELSE messages
  BY <1>0, <1>1, <1>3, <1>4, RequestJoins
<1>7. unfrozen' \in BOOLEAN /\ (~unfrozen' => ~unfrozen /\ (Again(d.answer) \/ d.answer = "ok"))
  BY <1>1 DEF Seamless
<1>8. ASSUME Counts' PROVE Joins'
  <2>1. Counts /\ Joins
    BY <1>6, <1>7, <1>8 DEF Seamless, Counts
  <2>2. stream.live \in Nat \ {0} /\ Len(messages) = stream.live + 1
    BY <1>0, <2>1 DEF Joins, Stands, Final
  <2>3. CASE Again(d.answer)
    <3>1. messages' = messages /\ stream'.live = stream.live /\ stream'.lo = stream.lo
      BY <1>6, <1>8, <2>3 DEF Again, Counts
    <3> QED BY <1>0, <1>2, <2>1, <2>3, <3>1 DEF Joins, Stands
  <2>4. CASE ~Again(d.answer)
    <3>1. messages' = m /\ stream'.live = stream.live + 1 /\ stream'.lo = call.cut + 1
      BY <1>3, <1>6, <1>7, <1>8, <2>2, <2>4 DEF Counts
    <3>2. /\ m[stream.live].lo = stream.lo /\ m[stream.live].hi = call.cut
          /\ m[stream.live].cursor = FALSE
      BY <1>4, <1>5, <2>2
    <3>3. \A k \in 1 .. stream.live - 1 : m[k] = messages[k]
      <4> SUFFICES ASSUME NEW k \in 1 .. stream.live - 1 PROVE m[k] = messages[k]
        OBVIOUS
      <4>1. k \in 1 .. Len(messages) /\ k # stream.live
        BY <2>2
      <4> QED BY <1>4, <4>1
    <3>4. Len(m) = stream.live + 1
      BY <1>4, <2>2
    <3>5. Final(stream.live, stream.lo, messages)
      BY <2>1 DEF Joins
    <3>6. Final(stream.live + 1, call.cut + 1, m)
      BY <2>2, <3>2, <3>3, <3>4, <3>5, FinalGrows
    <3>7. Stands("roll", stream.live + 1, m)
      BY <2>2, <3>4 DEF Stands
    <3> QED BY <1>2, <2>4, <3>1, <3>6, <3>7 DEF Joins
  <2> QED BY <2>3, <2>4
<1> QED BY <1>0, <1>6, <1>7, <1>8 DEF Seamless

LEMMA EditKeepsS == ASSUME Seamless, Edit PROVE Seamless'
<1>0. Patience' /\ IsStream(stream) /\ IsCall(call) /\ call.pc = "edit" /\ call'.pc = "idle"
  BY EditKeepsP DEF Edit, Go, Seamless, Patience, Kinds, IsCall, CallFields
<1>1. CASE stream.fresh \/ (~stream.fresh /\ stream.gaveUp)
  <2>1. /\ stream' = stream \/ stream' = [stream EXCEPT !.fresh = TRUE]
        /\ UNCHANGED <<kind, messages, lost, unfrozen>>
    BY <1>1 DEF Edit, Quiet, scene, seen
  <2>2. stream'.live = stream.live /\ stream'.lo = stream.lo
    BY <1>0, <2>1 DEF IsStream, StreamFields
  <2> QED BY <1>0, <2>1, <2>2 DEF Seamless, Counts, Joins, Stands
<1>2. CASE ~stream.fresh /\ ~stream.gaveUp
  <2> DEFINE m == [messages EXCEPT ![stream.live] =
                     Shows(stream.lo, Truncated(stream.lo, stream.hi)[2], TRUE)]
             s == [stream EXCEPT !.fresh = TRUE]
  <2>1. PICK d \in Delivered(stream.gaveUp) : Request(d, m, s, FALSE) /\ UNCHANGED unfrozen
    BY <1>2 DEF Edit
  <2>2. IsStream(s) /\ s.live = stream.live /\ s.lo = stream.lo
    BY <1>0 DEF IsStream, StreamFields
  <2>3. /\ IsSeq(m) /\ Len(messages) \in Nat /\ Len(m) = Len(messages)
        /\ \A k \in 1 .. Len(messages) : k # stream.live => m[k] = messages[k]
    <3>1. IsSeq(messages)
      BY DEF Seamless
    <3> DEFINE live == Shows(stream.lo, Truncated(stream.lo, stream.hi)[2], TRUE)
    <3>2. m = Put(messages, stream.live, live)
      BY DEF Put
    <3> HIDE DEF live
    <3> HIDE DEF m
    <3> QED BY <3>1, <3>2, SeqPut
  <2> HIDE DEF m, s
  <2>4. /\ stream'.live = stream.live /\ stream'.lo = stream.lo
        /\ IsSeq(messages') /\ lost' \in BOOLEAN /\ kind' = kind /\ (~lost' => ~lost)
        /\ ~lost' => messages' = IF d.answer = "ok" THEN m ELSE messages
    BY <2>1, <2>2, <2>3, RequestJoins
  <2>5. ASSUME Counts' PROVE Joins'
    <3>1. Counts /\ Joins
      BY <2>1, <2>4, <2>5 DEF Seamless, Counts
    <3>2. stream.live \in Nat /\ Len(messages) = stream.live
      BY <1>0, <3>1 DEF Joins, Stands, Final
    <3>3. \A k \in 1 .. stream.live - 1 : messages'[k] = messages[k]
      BY <2>3, <2>4, <2>5, <3>2 DEF Counts
    <3>4. Len(messages') = stream.live
      BY <2>3, <2>4, <2>5, <3>2 DEF Counts
    <3>5. Final(stream.live, stream.lo, messages')
      BY <3>1, <3>2, <3>3, <3>4, FinalCopies DEF Joins
    <3> QED BY <1>0, <2>4, <3>4, <3>5 DEF Joins, Stands
  <2> QED BY <1>0, <2>1, <2>4, <2>5 DEF Seamless
<1> QED BY <1>1, <1>2

LEMMA FinishChunkKeepsS == ASSUME Seamless, FinishChunk PROVE Seamless'
<1> DEFINE final == Shows(Head(call.todo)[1], Head(call.todo)[2], FALSE)
           first == stream.live # 0 /\ call.sent = 0
           m == IF first THEN [messages EXCEPT ![stream.live] = final] ELSE Append(messages, final)
<1>0. Patience' /\ IsStream(stream) /\ IsCall(call) /\ call.pc = "finish"
  BY FinishChunkKeepsP DEF FinishChunk, Seamless, Patience, Kinds
<1>1. PICK d \in Delivered(stream.gaveUp) :
        /\ Request(d, m, stream, FALSE) /\ UNCHANGED unfrozen
        /\ call' = IF d.answer = "ok" THEN [call EXCEPT !.todo = Tail(@), !.attempt = 1, !.sent = @ + 1]
                   ELSE IF Again(d.answer) THEN [call EXCEPT !.attempt = @ + 1]
                   ELSE [NoCall EXCEPT !.pc = "error"]
  BY DEF FinishChunk
<1>2. call'.pc \in {"finish", "error"}
  BY <1>0, <1>1 DEF IsCall, CallFields, NoCall
<1>3. /\ IsSeq(m) /\ Len(messages) \in Nat /\ Len(m) \in {Len(messages), Len(messages) + 1}
      /\ \A k \in 1 .. Len(messages) : k # stream.live => m[k] = messages[k]
  <2> HIDE DEF final
  <2>3. IsSeq(messages)
    BY DEF Seamless
  <2>1. CASE first
    <3>1. m = Put(messages, stream.live, final)
      BY <2>1 DEF Put
    <3> HIDE DEF m
    <3> QED BY <2>3, <3>1, SeqPut
  <2>2. CASE ~first
    BY <2>2, <2>3, SeqAppend
  <2> QED BY <2>1, <2>2
<1> HIDE DEF m
<1>4. /\ stream'.live = stream.live /\ stream'.lo = stream.lo
      /\ IsSeq(messages') /\ lost' \in BOOLEAN /\ kind' = kind /\ (~lost' => ~lost)
      /\ ~lost' => messages' = IF d.answer = "ok" THEN m ELSE messages
  BY <1>0, <1>1, <1>3, RequestJoins
<1>5. ASSUME Counts' PROVE Joins'
  <2>1. Counts /\ Joins
    BY <1>1, <1>4, <1>5 DEF Seamless, Counts
  <2>2. stream.live \in Nat /\ stream.live <= Len(messages)
    BY <2>1 DEF Joins, Final
  <2>3. \A k \in 1 .. stream.live - 1 : messages'[k] = messages[k]
    BY <1>3, <1>4, <1>5, <2>2 DEF Counts
  <2>4. stream.live <= Len(messages') /\ Len(messages') \in Nat
    BY <1>3, <1>4, <1>5, <2>2 DEF Counts
  <2>5. Final(stream.live, stream.lo, messages')
    BY <2>1, <2>3, <2>4, FinalCopies DEF Joins
  <2> QED BY <1>2, <1>4, <2>5 DEF Joins, Stands
<1> QED BY <1>0, <1>1, <1>4, <1>5 DEF Seamless

\* The other steps of a reply write no message.
LEMMA QuietKeepsS ==
  ASSUME Seamless,
         \/ \E k \in 1 .. 2 : Push(k)
         \/ RollNoMore \/ Finish \/ Finished \/ Tick \/ TokenLow \/ TokenDies
  PROVE  Seamless'
<1>0. Patience' /\ IsStream(stream) /\ IsCall(call)
  BY QuietKeepsP, WorldKeepsP DEF Seamless, Patience, Kinds
<1>1. UNCHANGED <<kind, messages, lost, unfrozen>>
  BY DEF Push, RollNoMore, Finish, Finished, Tick, TokenLow, TokenDies,
         Quiet, scene, seen
<1>2. stream'.live = stream.live /\ stream'.lo = stream.lo
  BY <1>0 DEF Push, RollNoMore, Finish, Finished, Tick, TokenLow, TokenDies,
              IsStream, StreamFields
<1>3. \/ call' = call
      \/ call.pc = "idle" /\ call'.pc = IF stream.live # 0 THEN "roll" ELSE "first"
      \/ call.pc = "idle" /\ call'.pc = "idle"
      \/ call.pc = "roll" /\ call'.pc = "edit"
      \/ call.pc = "idle" /\ call'.pc = "finish"
      \/ call.pc = "finish" /\ call'.pc = "done"
  BY <1>0 DEF Push, RollNoMore, Finish, Finished, Tick, TokenLow, TokenDies,
              Go, NoCall, IsCall,
              CallFields
<1>4. Counts' => Joins'
  BY <1>1, <1>2, <1>3 DEF Seamless, Counts, Joins, Stands
<1> QED BY <1>0, <1>1, <1>4 DEF Seamless

\* A dashboard and a one-shot send are no such reply.
LEMMA OthersKeepS ==
  ASSUME Seamless,
         \/ \E at \in {"short", "long", "once"} : Set(at)
         \/ SendStart \/ OneAttempt \/ SendDone \/ Reauth
  PROVE  Seamless'
<1>0. Patience'
  BY QuietKeepsP, OneShotKeepsP DEF Seamless
<1>1. kind' = kind /\ kind # "stream" /\ unfrozen' = unfrozen
  BY DEF Set, SendStart, OneAttempt, SendDone, Reauth, Quiet, scene,
         homeserver, seen, Seamless, Patience,
         Kinds, SendSteps, Streams
<1>2. IsSeq(messages') /\ lost' \in BOOLEAN
  <2>1. CASE OneAttempt
    <3>1. \/ messages' = messages
          \/ messages' = Append(messages, Shows(Head(call.todo)[1], Head(call.todo)[2], FALSE))
      BY <2>1 DEF OneAttempt
    <3>2. lost' \in BOOLEAN
      BY <2>1 DEF OneAttempt, Seamless
    <3> QED BY <3>1, <3>2, SeqAppend DEF Seamless
  <2>2. CASE ~OneAttempt
    BY <2>2 DEF Set, SendStart, SendDone, Reauth, Quiet, seen, Seamless
  <2> QED BY <2>1, <2>2
<1> QED BY <1>0, <1>1, <1>2 DEF Seamless, Counts

LEMMA SeamlessInit == StreamInit => Seamless
<1> SUFFICES ASSUME StreamInit PROVE Seamless
  OBVIOUS
<1>1. messages = <<>> /\ stream.live = 0 /\ call.pc = "idle" /\ lost = FALSE /\ unfrozen = FALSE
  BY DEF StreamInit, NewStream, NoCall
<1>2. IsSeq(<<>>) /\ Len(<<>>) = 0
  BY EmptySeq DEF IsSeq
<1>3. Joins
  BY <1>1, <1>2 DEF Joins, Stands, Final
<1> QED BY <1>1, <1>2, <1>3, PatienceInit DEF Seamless

LEMMA SeamlessStep == Seamless /\ [StreamNext]_(streamVars) => Seamless'
<1> SUFFICES ASSUME Seamless, [StreamNext]_(streamVars) PROVE Seamless'
  OBVIOUS
<1>1. CASE StreamNext
  BY <1>1, SendFirstKeepsS, OpenNextKeepsS, FreezeKeepsS, EditKeepsS, FinishChunkKeepsS,
     QuietKeepsS,
     OthersKeepS DEF StreamNext
<1>2. CASE UNCHANGED streamVars
  BY <1>2, PatienceStep DEF streamVars, scene, homeserver, seen, Seamless, Counts, Joins
<1> QED BY <1>1, <1>2

LEMMA SeamlessHolds == StreamSpec => []Seamless
BY SeamlessInit, SeamlessStep, PTL DEF StreamSpec

\* Where a reply rolls over, the messages before the live one are final and join up with
\* it: roll_over loses no piece and shows none twice, whatever was refused or failed.
THEOREM NothingTwiceAtARollover == StreamSpec => []FrozenJoinUp
<1>1. Seamless => FrozenJoinUp
  <2> SUFFICES ASSUME Seamless, kind = "stream", ~lost, ~unfrozen, stream.live > 0
               PROVE  /\ Continuous(1, stream.live - 1)
                      /\ stream.live > 1 => messages[stream.live - 1].hi + 1 = stream.lo
                      /\ \A i \in 1 .. stream.live - 1 : ~messages[i].cursor
    BY DEF FrozenJoinUp
  <2>1. Joins
    BY DEF Seamless, Counts
  <2> QED BY <2>1 DEF Joins, Final, Continuous
<1> QED BY <1>1, SeamlessHolds, PTL

-----------------------------------------------------------------------------
(***************************************************************************)
(* Stream: what a call reports it has shown.                                *)
(*                                                                          *)
(* First the cutting of the text: split is defined by recursion, so that it *)
(* satisfies its equation is itself proved (the functions that do so up to  *)
(* n agree, and there is one for every n; SplitIs), and then what it        *)
(* returns, by the least counterexample (SplitSound).  Then two inductive   *)
(* invariants.  Told: a streamed reply knows where its live message starts  *)
(* and that it is all of the text from there (Tracks), a dashboard has one  *)
(* message at most (Board), and finish has written some of the chunks of    *)
(* what is left, after the final messages (Closing).  Repeats: a one-shot   *)
(* send has written some of the chunks of the text, in a DM after those of  *)
(* its first try, which a death of the token cut short (Sent).              *)
(***************************************************************************)

\* A set of numbers that is not empty has a least one.
LEMMA Least ==
  ASSUME NEW T, T \subseteq Nat, T # {}
  PROVE  \E x \in T : \A y \in T : x <= y
<1>1. IsWellFoundedOn(OpToRel(<, Nat), Nat) BY NatLessThanWellFounded
<1>2. PICK x \in T : \A y \in T : ~ (<<y, x>> \in OpToRel(<, Nat))
  <2> DEFINE R == OpToRel(<, Nat)
  <2>1. IsWellFoundedOn(R, Nat) BY <1>1
  <2> HIDE DEF R
  <2>2. \E x \in T : \A y \in T : ~ (<<y, x>> \in R) BY <2>1, WFMin
  <2> QED BY <2>2 DEF R
<1>3. \A y \in T : ~(y < x) BY <1>2 DEF OpToRel
<1> QED BY <1>3

LEMMA MaxIn ==
  ASSUME NEW a \in Nat, NEW b \in Nat, NEW S, S \subseteq a .. b, S # {}
  PROVE  Max(S) \in S
<1> DEFINE T == {b - x : x \in S}
<1>1. T \subseteq Nat /\ T # {} OBVIOUS
<1>2. PICK t \in T : \A u \in T : t <= u
  <2> HIDE DEF T
  <2> QED BY <1>1, Least
<1>3. PICK x \in S : t = b - x OBVIOUS
<1>4. \A y \in S : x >= y
  <2> SUFFICES ASSUME NEW y \in S PROVE x >= y OBVIOUS
  <2>1. t <= b - y BY <1>2
  <2> QED BY <1>3, <2>1
<1> QED BY <1>4 DEF Max

LEMMA MinOfTwo ==
  ASSUME NEW a \in Int, NEW b \in Int
  PROVE  Min({a, b}) = IF a <= b THEN a ELSE b
BY DEF Min

\* A cut is in the text and leaves a head that fits into a message.
LEMMA CutInWindow ==
  ASSUME NEW lo \in Nat, NEW hi \in Nat, lo <= hi
  PROVE  /\ Truncated(lo, hi) = <<lo, IF hi <= lo + Cap - 1 THEN hi ELSE lo + Cap - 1>>
         /\ pick_boundary(lo, hi) \in lo .. hi /\ pick_boundary(lo, hi) <= lo + Cap - 1
<1> DEFINE last == Min({hi, lo + Cap - 1})
           clean == {b \in breaks : b \in lo .. last /\ b - lo + 1 >= Min({Floor, Max({1, Cap \div 2})})}
<1>1. Cap \in Nat \ {0} BY StreamAssumption DEF StreamAssumption, Limits
<1>2. last = (IF hi <= lo + Cap - 1 THEN hi ELSE lo + Cap - 1) BY <1>1, MinOfTwo
<1>3. last \in lo .. hi /\ last <= lo + Cap - 1 /\ last \in Nat BY <1>1, <1>2
<1>4. Truncated(lo, hi) = <<lo, last>> BY DEF Truncated
<1>5. pick_boundary(lo, hi) = IF clean # {} THEN Max(clean) ELSE last BY DEF pick_boundary
<1>6. clean \subseteq lo .. last OBVIOUS
<1> HIDE DEF last, clean
<1>7. clean # {} => Max(clean) \in lo .. last BY <1>3, <1>6, MaxIn
<1> QED BY <1>1, <1>2, <1>3, <1>4, <1>5, <1>7

\* What split does with one more message, given what it does with fewer.
CutOnce(f, left) ==
    [text \in Nat \X Nat |->
        LET lo == text[1]  hi == text[2] IN
        IF hi - lo < Cap \/ left =< 1 THEN <<Truncated(lo, hi)>>
        ELSE LET cut == pick_boundary(lo, hi)
             IN <<(<<lo, cut>>)>> \o f[left - 1][<<cut + 1, hi>>]]
Upto(g, n) == g = [left \in 0 .. n |-> CutOnce(g, left)]

LEMMA CutSame ==
  ASSUME NEW left \in Nat, NEW f, NEW g, left > 1 => f[left - 1] = g[left - 1]
  PROVE  CutOnce(f, left) = CutOnce(g, left)
<1>1. CASE left <= 1 BY <1>1 DEF CutOnce
<1>2. CASE left > 1 BY <1>2 DEF CutOnce
<1> QED BY <1>1, <1>2

\* Splits of a bounded number of messages agree ...
LEMMA UptoUnique ==
  ASSUME NEW n \in Nat, NEW m \in Nat, n <= m, NEW g, NEW h, Upto(g, n), Upto(h, m)
  PROVE  \A k \in 0 .. n : g[k] = h[k]
<1> DEFINE T == {k \in 0 .. n : g[k] # h[k]}
<1> SUFFICES ASSUME T # {} PROVE FALSE OBVIOUS
<1>1. T \subseteq Nat OBVIOUS
<1>2. PICK k \in T : \A j \in T : k <= j
  <2> HIDE DEF T
  <2> QED BY <1>1, Least
<1>3. k \in 0 .. n /\ k \in 0 .. m OBVIOUS
<1>4. g[k] = CutOnce(g, k) /\ h[k] = CutOnce(h, k) BY <1>3 DEF Upto
<1>5. k > 1 => g[k - 1] = h[k - 1] BY <1>2, <1>3
<1>6. CutOnce(g, k) = CutOnce(h, k) BY <1>3, <1>5, CutSame
<1> QED BY <1>4, <1>6

\* ... and there is one for every number.
LEMMA UptoExists == \A n \in Nat : \E g : Upto(g, n)
<1> DEFINE T == {n \in Nat : ~ \E g : Upto(g, n)}
<1> SUFFICES ASSUME T # {} PROVE FALSE OBVIOUS
<1>1. T \subseteq Nat OBVIOUS
<1>2. PICK n \in T : \A j \in T : n <= j
  <2> HIDE DEF T
  <2> QED BY <1>1, Least
<1>3. n \in Nat /\ ~ \E g : Upto(g, n) BY <1>2
<1>4. CASE n = 0
  <2> DEFINE h == [left \in 0 .. 0 |-> CutOnce(<<>>, left)]
  <2>1. \A left \in 0 .. 0 : CutOnce(<<>>, left) = CutOnce(h, left)
    <3> SUFFICES ASSUME NEW left \in 0 .. 0 PROVE CutOnce(<<>>, left) = CutOnce(h, left) OBVIOUS
    <3> HIDE DEF h
    <3>1. left \in Nat /\ ~(left > 1) OBVIOUS
    <3> QED BY <3>1, CutSame
  <2>2. h = [left \in 0 .. 0 |-> CutOnce(h, left)] BY <2>1
  <2> QED BY <1>3, <1>4, <2>2 DEF Upto
<1>5. CASE n > 0
  <2>1. n - 1 \in Nat /\ n - 1 \notin T BY <1>2, <1>3, <1>5
  <2>2. PICK g : Upto(g, n - 1) BY <2>1
  <2> DEFINE h == [left \in 0 .. n |-> IF left = n THEN CutOnce(g, n) ELSE g[left]]
  <2>3. \A left \in 0 .. n : h[left] = CutOnce(h, left)
    <3> SUFFICES ASSUME NEW left \in 0 .. n PROVE h[left] = CutOnce(h, left) OBVIOUS
    <3>1. h[left] = CutOnce(g, left)
      <4>1. CASE left = n BY <4>1
      <4>2. CASE left # n
        <5>1. left \in 0 .. n - 1 BY <1>3, <4>2
        <5>2. g[left] = CutOnce(g, left) BY <2>2, <5>1 DEF Upto
        <5> QED BY <4>2, <5>2
      <4> QED BY <4>1, <4>2
    <3>2. left \in Nat /\ (left > 1 => h[left - 1] = g[left - 1]) BY <1>3
    <3> HIDE DEF h
    <3>3. CutOnce(g, left) = CutOnce(h, left) BY <3>2, CutSame
    <3> QED BY <3>1, <3>3
  <2>4. h = [left \in 0 .. n |-> h[left]] OBVIOUS
  <2> HIDE DEF h
  <2>5. Upto(h, n) BY <2>3, <2>4 DEF Upto
  <2> QED BY <1>3, <2>5
<1> QED BY <1>3, <1>4, <1>5

\* The recursive function is what its definition says.
LEMMA SplitIs == \A left \in Nat : split[left] = CutOnce(split, left)
<1> DEFINE pre(n) == CHOOSE g : Upto(g, n)
           F == [left \in Nat |-> pre(left)[left]]
<1>1. \A n \in Nat : Upto(pre(n), n) BY UptoExists
<1>2. ASSUME NEW n \in Nat PROVE F[n] = CutOnce(F, n)
  <2>1. F[n] = pre(n)[n] OBVIOUS
  <2>2. n \in 0 .. n /\ Upto(pre(n), n) BY <1>1
  <2>3. pre(n)[n] = CutOnce(pre(n), n) BY <2>2 DEF Upto
  <2>4. n > 1 => F[n - 1] = pre(n)[n - 1]
    <3> SUFFICES ASSUME n > 1 PROVE F[n - 1] = pre(n)[n - 1] OBVIOUS
    <3>1. n - 1 \in Nat /\ n - 1 \in 0 .. n - 1 /\ n - 1 <= n OBVIOUS
    <3>2. F[n - 1] = pre(n - 1)[n - 1] BY <3>1
    <3>3. Upto(pre(n - 1), n - 1) BY <3>1, <1>1
    <3> HIDE DEF pre, F
    <3> QED BY <2>2, <3>1, <3>2, <3>3, UptoUnique
  <2> HIDE DEF F, pre
  <2> QED BY <2>1, <2>3, <2>4, CutSame
<1>3. F = [left \in Nat |-> CutOnce(F, left)]
  <2>1. F = [left \in Nat |-> F[left]] OBVIOUS
  <2> HIDE DEF F
  <2> QED BY <1>2, <2>1
<1>4. split = CHOOSE f : f = [left \in Nat |-> CutOnce(f, left)] BY DEF split, CutOnce
<1> HIDE DEF F
<1>5. split = [left \in Nat |-> CutOnce(split, left)] BY <1>3, <1>4
<1> QED BY <1>5

-----------------------------------------------------------------------------
\* C cuts lo .. hi into consecutive pieces, or into n of them the start of it.
Splits(C, lo, hi, n) ==
  /\ C \in Seq(Nat \X Nat) /\ C # << >> /\ C[1][1] = lo
  /\ \A i \in 1 .. Len(C) - 1 : C[i][2] + 1 = C[i + 1][1]
  /\ \A i \in 1 .. Len(C) : C[i][1] <= C[i][2]
  /\ C[Len(C)][2] = hi \/ Len(C) >= n

LEMMA SplitsOne ==
  ASSUME NEW lo \in Nat, NEW m \in Nat, lo <= m, NEW hi, NEW n, m = hi \/ n = 1
  PROVE  Splits(<<(<<lo, m>>)>>, lo, hi, n)
<1> DEFINE C == <<(<<lo, m>>)>>
<1>1. C \in Seq(Nat \X Nat) /\ Len(C) = 1 /\ C[1] = <<lo, m>> /\ C # << >> OBVIOUS
<1>2. C[1][1] = lo /\ C[1][2] = m BY <1>1
<1> HIDE DEF C
<1> QED BY <1>1, <1>2 DEF Splits

LEMMA SplitsMore ==
  ASSUME NEW lo \in Nat, NEW cut \in Nat, lo <= cut, NEW hi, NEW n \in Nat, NEW D, Splits(D, cut + 1, hi, n)
  PROVE  Splits(<<(<<lo, cut>>)>> \o D, lo, hi, n + 1)
<1> DEFINE C == <<(<<lo, cut>>)>> \o D
<1>1. D \in Seq(Nat \X Nat) /\ D # << >> /\ Len(D) \in Nat \ {0}
  BY EmptySeq DEF Splits
<1>2. /\ C \in Seq(Nat \X Nat) /\ Len(C) = Len(D) + 1 /\ C[1] = <<lo, cut>>
      /\ \A i \in 1 .. Len(D) : C[i + 1] = D[i]
  BY <1>1
<1>3. C[1][1] = lo /\ C[1][2] = cut BY <1>2
<1>4. C # << >> BY <1>1, <1>2
<1>9. \A j \in 2 .. Len(C) : C[j] = D[j - 1]
  BY <1>1
<1>10. Len(C) = Len(D) + 1 /\ Len(D) \in Nat \ {0} BY <1>1, <1>2
<1> HIDE DEF C
<1>5. \A i \in 1 .. Len(C) - 1 : C[i][2] + 1 = C[i + 1][1]
  <2> SUFFICES ASSUME NEW i \in 1 .. Len(C) - 1 PROVE C[i][2] + 1 = C[i + 1][1] OBVIOUS
  <2>1. CASE i = 1
    <3>1. C[2] = D[1] BY <1>1, <1>2
    <3> QED BY <2>1, <1>3, <3>1 DEF Splits
  <2>2. CASE i > 1
    <3>1. i - 1 \in 1 .. Len(D) - 1 /\ i \in 1 .. Len(D) /\ i \in 2 .. Len(C) BY <1>10, <2>2
    <3>2. C[i] = D[i - 1] BY <1>9, <3>1
    <3>3. C[i + 1] = D[i] BY <1>2, <3>1
    <3>4. D[i - 1][2] + 1 = D[i][1] BY <3>1 DEF Splits
    <3> QED BY <3>2, <3>3, <3>4
  <2> QED BY <2>1, <2>2
<1>6. \A i \in 1 .. Len(C) : C[i][1] <= C[i][2]
  <2> SUFFICES ASSUME NEW i \in 1 .. Len(C) PROVE C[i][1] <= C[i][2] OBVIOUS
  <2>1. CASE i = 1 BY <2>1, <1>3
  <2>2. CASE i > 1
    <3>1. i - 1 \in 1 .. Len(D) /\ i \in 2 .. Len(C) BY <1>10, <2>2
    <3>2. C[i] = D[i - 1] BY <1>9, <3>1
    <3> QED BY <3>1, <3>2 DEF Splits
  <2> QED BY <2>1, <2>2
<1>7. C[Len(C)][2] = hi \/ Len(C) >= n + 1
  <2>0. Len(C) \in 2 .. Len(C) /\ Len(C) - 1 = Len(D) BY <1>10
  <2>1. C[Len(C)] = D[Len(D)] BY <1>9, <2>0
  <2> QED BY <1>1, <1>2, <2>1 DEF Splits
<1>8. Splits(C, lo, hi, n + 1) BY <1>2, <1>3, <1>4, <1>5, <1>6, <1>7 DEF Splits
<1> QED BY <1>8 DEF C

\* What split_for_matrix returns is the text from its start on, in order and nothing twice,
\* up to its end or to the limit of messages, for every text and wherever the boundaries are.
THEOREM SplitSound ==
  \A left \in Nat \ {0} : \A lo, hi \in Nat : lo <= hi => Splits(split[left][<<lo, hi>>], lo, hi, left)
<1> DEFINE Sound(left) == \A lo, hi \in Nat : lo <= hi => Splits(split[left][<<lo, hi>>], lo, hi, left)
           T == {left \in Nat \ {0} : ~Sound(left)}
<1> SUFFICES ASSUME T # {} PROVE FALSE OBVIOUS
<1>1. PICK left \in T : \A j \in T : left <= j
  <2>1. T \subseteq Nat OBVIOUS
  <2> HIDE DEF T
  <2> QED BY <2>1, Least
<1>2. left \in Nat \ {0} /\ ~Sound(left) OBVIOUS
<1>3. ASSUME NEW lo \in Nat, NEW hi \in Nat, lo <= hi PROVE Splits(split[left][<<lo, hi>>], lo, hi, left)
  <2> DEFINE cut == pick_boundary(lo, hi)
  <2>1. Cap \in Nat \ {0} BY StreamAssumption DEF StreamAssumption, Limits
  <2>2. split[left][<<lo, hi>>] =
          IF hi - lo < Cap \/ left =< 1 THEN <<Truncated(lo, hi)>>
          ELSE <<(<<lo, cut>>)>> \o split[left - 1][<<cut + 1, hi>>]
    <3>1. split[left] = CutOnce(split, left) BY <1>2, SplitIs
    <3>2. <<lo, hi>> \in Nat \X Nat /\ <<lo, hi>>[1] = lo /\ <<lo, hi>>[2] = hi OBVIOUS
    <3> QED BY <3>1, <3>2 DEF CutOnce
  <2>3. /\ Truncated(lo, hi) = <<lo, IF hi <= lo + Cap - 1 THEN hi ELSE lo + Cap - 1>>
        /\ cut \in lo .. hi /\ cut <= lo + Cap - 1
    BY <1>3, CutInWindow
  <2> HIDE DEF cut
  <2>4. CASE hi - lo < Cap \/ left <= 1
    <3> DEFINE m == IF hi <= lo + Cap - 1 THEN hi ELSE lo + Cap - 1
    <3>1. m \in Nat /\ lo <= m /\ (m = hi \/ left = 1) BY <1>2, <1>3, <2>1, <2>4
    <3>2. split[left][<<lo, hi>>] = <<(<<lo, m>>)>> BY <2>2, <2>3, <2>4
    <3> HIDE DEF m
    <3> QED BY <3>1, <3>2, SplitsOne
  <2>5. CASE ~(hi - lo < Cap \/ left <= 1)
    <3>1. left - 1 \in Nat \ {0} /\ left - 1 \notin T BY <1>1, <1>2, <2>5
    <3>2. cut \in Nat /\ cut + 1 \in Nat /\ cut + 1 <= hi /\ lo <= cut BY <2>1, <2>3, <2>5
    <3>3. Sound(left - 1) BY <3>1
    <3>4. Splits(split[left - 1][<<cut + 1, hi>>], cut + 1, hi, left - 1) BY <3>2, <3>3
    <3>5. Splits(<<(<<lo, cut>>)>> \o split[left - 1][<<cut + 1, hi>>], lo, hi, left - 1 + 1)
      BY <3>1, <3>2, <3>4, SplitsMore
    <3>6. left - 1 + 1 = left BY <1>2
    <3> QED BY <2>2, <2>5, <3>5, <3>6
  <2> QED BY <2>4, <2>5
<1> QED BY <1>2, <1>3

\* The cuts depend on the text alone, which no step changes.
SplitBy(bs) ==
  CHOOSE f : f = [left \in Nat |->
    [text \in Nat \X Nat |->
        LET lo == text[1]  hi == text[2] IN
        IF hi - lo < Cap \/ left =< 1 THEN <<Truncated(lo, hi)>>
        ELSE LET last == Min({hi, lo + Cap - 1})
                 clean == {b \in bs : b \in lo .. last /\ b - lo + 1 >= Min({Floor, Max({1, Cap \div 2})})}
                 cut == IF clean # {} THEN Max(clean) ELSE last
             IN <<(<<lo, cut>>)>> \o f[left - 1][<<cut + 1, hi>>]]]

LEMMA SplitSteady ==
  ASSUME breaks' = breaks
  PROVE  split' = split
<1>1. split = SplitBy(breaks) BY DEF split, SplitBy, pick_boundary
<1>2. split' = SplitBy(breaks') BY DEF split, SplitBy, pick_boundary
<1> QED BY <1>1, <1>2

-----------------------------------------------------------------------------
\* The message a chunk of the final text becomes.
Shown(c) == Shows(c[1], c[2], FALSE)

\* The final messages before those of finish.
Before(live) == IF live <= 1 THEN 0 ELSE live - 1

\* What a streamed reply knows of its text.
Tracks ==
  /\ produced \in Nat /\ stream.hi = produced /\ stream.lo \in Nat \ {0}
  /\ stream.opened = stream.live
  /\ stream.live <= 1 => stream.lo = 1
  /\ stream.live > 1 => messages[1].lo = 1
  /\ (stream.live # 0 \/ call.pc = "first") => stream.lo <= stream.hi
  /\ call.pc = "freeze" => call.cut \in stream.lo .. stream.hi - 1

\* A dashboard has one message at most.
Board ==
  /\ produced \in Nat /\ stream.live \in {0, 1} /\ stream.opened <= 1
  /\ call.pc \notin {"roll", "freeze"}
  /\ call.pc \notin {"finish", "done", "error"} => Len(messages) = stream.live
  /\ call.pc = "first" => stream.live = 0

\* finish has written d chunks of C into m.
Written(C, d, live, m) ==
  /\ d \in 0 .. Len(C)
  /\ Len(m) = Before(live) + (IF d # 0 THEN d ELSE IF live = 0 THEN 0 ELSE 1)
  /\ \A i \in 1 .. d : m[Before(live) + i] = Shown(C[i])

ClosingOf(C, d) ==
  /\ Splits(C, C[1][1], produced, MaxMessages)
  /\ C[1][1] = IF stream.live <= 1 THEN Base ELSE stream.lo
  /\ call.todo = SubSeq(C, d + 1, Len(C)) /\ call.sent = d
  /\ call.pc = "done" => d = Len(C)
  /\ Written(C, d, stream.live, messages)
Closing == \E C, d : ClosingOf(C, d)

OfBoard == kind = "board" /\ ~lost
Ends == kind \in Streams /\ ~lost /\ ~unfrozen /\ call.pc \in {"finish", "done"}

\* The inductive invariant of the report of finish.
Told ==
  /\ Seamless
  /\ Counts => Tracks
  /\ OfBoard => Board
  /\ Ends => Closing

-----------------------------------------------------------------------------
\* What a request of the stream leaves.
LEMMA RequestText ==
  ASSUME Seamless, NEW d \in Delivered(stream.gaveUp), NEW shown, NEW s, NEW opening,
         IsStream(s), Request(d, shown, s, opening)
  PROVE  /\ stream'.live = s.live /\ stream'.lo = s.lo /\ stream'.hi = s.hi /\ stream'.opened = s.opened
         /\ produced' = produced /\ kind' = kind
         /\ ~lost' => ~lost /\ messages' = IF d.answer = "ok" THEN shown ELSE messages
<1>1. /\ d.landed \in BOOLEAN /\ (d.answer = "ok" => d.landed = TRUE)
  BY DeliveredIs DEF Seamless, Patience, Kinds
<1>2. /\ stream' = [s EXCEPT !.cool = d.cool, !.gaveUp = d.gaveUp]
      /\ messages' = IF d.landed THEN shown ELSE messages
      /\ lost' = (lost \/ (d.landed /\ d.answer # "ok")) /\ kind' = kind /\ produced' = produced
  BY DEF Request, scene
<1>3. stream'.live = s.live /\ stream'.lo = s.lo /\ stream'.hi = s.hi /\ stream'.opened = s.opened
  BY <1>2 DEF IsStream, StreamFields
<1>4. ~lost' => ~lost /\ (d.landed <=> d.answer = "ok")
  BY <1>1, <1>2 DEF Seamless
<1> QED BY <1>2, <1>3, <1>4

LEMMA SendFirstKeepsT == ASSUME Told, SendFirst PROVE Told'
<1>0. Seamless' /\ IsStream(stream) /\ IsCall(call) /\ call.pc = "first" /\ call'.pc = "idle"
  BY SendFirstKeepsS DEF SendFirst, Go, Told, Seamless, Patience, Kinds, IsCall, CallFields
<1>1. CASE ~MayOpen
  <2>1. UNCHANGED <<kind, stream, messages, produced, lost, unfrozen>>
    BY <1>1 DEF SendFirst, Quiet, scene, seen
  <2> QED BY <1>0, <2>1 DEF Told, Counts, OfBoard, Ends, Tracks, Board
<1>2. CASE MayOpen
  <2> DEFINE m == Append(messages, Shows(stream.lo, Truncated(stream.lo, stream.hi)[2], TRUE))
             s == [GateReset(stream) EXCEPT !.live = Len(messages) + 1, !.opened = 1, !.fresh = TRUE]
  <2>1. PICK d \in Delivered(stream.gaveUp) :
          Request(d, m, IF d.answer = "ok" THEN s ELSE GateFailed(stream), TRUE) /\ UNCHANGED unfrozen
    BY <1>2 DEF SendFirst
  <2>2. /\ IsStream(GateFailed(stream)) /\ IsStream(s)
        /\ s.live = Len(messages) + 1 /\ s.opened = 1 /\ s.lo = stream.lo /\ s.hi = stream.hi
    BY <1>0, GateFields DEF IsStream, StreamFields
  <2>3. Len(messages) \in Nat /\ Len(m) = Len(messages) + 1
    BY SeqAppend DEF Told, Seamless
  <2> HIDE DEF m, s
  <2>4. CASE d.answer = "ok"
    <3>1. /\ stream'.live = Len(messages) + 1 /\ stream'.lo = stream.lo /\ stream'.hi = stream.hi
          /\ stream'.opened = 1 /\ produced' = produced /\ kind' = kind
          /\ (~lost' => ~lost /\ messages' = m)
      BY <2>1, <2>2, <2>4, RequestText DEF Told
    <3>2. ASSUME Counts' PROVE Tracks'
      <4>1. Counts /\ Tracks /\ Joins BY <2>1, <3>1, <3>2 DEF Told, Counts, Seamless
      <4>2. stream.live = 0 /\ Len(messages) = 0 BY <1>0, <4>1 DEF Joins, Stands
      <4> QED BY <1>0, <3>1, <4>1, <4>2 DEF Tracks
    <3>3. ASSUME OfBoard' PROVE Board'
      <4>1. Board BY <3>1, <3>3 DEF Told, OfBoard
      <4>2. Len(messages) = 0 BY <1>0, <4>1 DEF Board
      <4> QED BY <1>0, <2>3, <3>1, <3>3, <4>1, <4>2 DEF Board, OfBoard
    <3> QED BY <1>0, <3>2, <3>3 DEF Told, Ends
  <2>5. CASE d.answer # "ok"
    <3>1. /\ stream'.live = stream.live /\ stream'.lo = stream.lo /\ stream'.hi = stream.hi
          /\ stream'.opened = stream.opened /\ produced' = produced /\ kind' = kind
          /\ (~lost' => ~lost /\ messages' = messages)
      <4> DEFINE t == GateFailed(stream)
      <4>1. /\ IsStream(t) /\ t.live = stream.live /\ t.lo = stream.lo /\ t.hi = stream.hi
            /\ t.opened = stream.opened
        BY <1>0, GateFields
      <4>2. Request(d, m, t, TRUE) BY <2>1, <2>5
      <4> HIDE DEF t
      <4> QED BY <2>5, <4>1, <4>2, RequestText DEF Told
    <3>2. Counts' => Tracks'
      BY <1>0, <2>1, <3>1 DEF Told, Counts, Tracks
    <3>3. OfBoard' => Board'
      BY <1>0, <3>1 DEF Told, OfBoard, Board
    <3> QED BY <1>0, <3>2, <3>3 DEF Told, Ends
  <2> QED BY <2>4, <2>5
<1> QED BY <1>1, <1>2

LEMMA OpenNextKeepsT == ASSUME Told, OpenNext PROVE Told'
<1> DEFINE cut == pick_boundary(stream.lo, stream.hi)
           m == Append(messages, Shows(cut + 1, Truncated(cut + 1, stream.hi)[2], TRUE))
<1>0. Seamless' /\ IsStream(stream) /\ IsCall(call) /\ call.pc = "roll"
  BY OpenNextKeepsS DEF OpenNext, Told, Seamless, Patience, Kinds
<1>1. PICK d \in Delivered(stream.gaveUp) :
        /\ Request(d, m, IF d.answer = "ok" THEN GateReset(stream) ELSE GateFailed(stream), TRUE)
        /\ call' = [call EXCEPT !.pc = IF d.answer = "ok" THEN "freeze" ELSE "edit",
                                !.attempt = 1, !.cut = cut]
        /\ UNCHANGED unfrozen
  BY DEF OpenNext
<1>2. call'.pc \in {"freeze", "edit"} /\ call'.cut = cut
  BY <1>0, <1>1 DEF IsCall, CallFields
<1>3. /\ IsSeq(m) /\ Len(messages) \in Nat
      /\ \A k \in 1 .. Len(messages) : m[k] = messages[k]
  BY SeqAppend DEF Told, Seamless
<1>4. Held > Cap BY DEF OpenNext, Overfull
<1> HIDE DEF m
<1>5. /\ stream'.live = stream.live /\ stream'.lo = stream.lo /\ stream'.hi = stream.hi
      /\ stream'.opened = stream.opened /\ produced' = produced /\ kind' = kind
      /\ (~lost' => ~lost /\ messages' \in {m, messages})
  <2> DEFINE t == IF d.answer = "ok" THEN GateReset(stream) ELSE GateFailed(stream)
  <2>1. /\ IsStream(t) /\ t.live = stream.live /\ t.lo = stream.lo /\ t.hi = stream.hi
        /\ t.opened = stream.opened
    BY <1>0, GateFields
  <2>2. Request(d, m, t, TRUE) BY <1>1
  <2> HIDE DEF t
  <2> QED BY <2>1, <2>2, RequestText DEF Told
<1>6. ASSUME Counts' PROVE Tracks'
  <2>1. Counts /\ Tracks /\ Joins BY <1>1, <1>5, <1>6 DEF Told, Counts, Seamless
  <2>2. stream.live \in Nat \ {0} /\ Len(messages) = stream.live BY <1>0, <2>1 DEF Joins, Stands, Final
  <2>3. messages'[1] = messages[1] BY <1>3, <1>5, <1>6, <2>2 DEF Counts
  <2>4. stream.lo \in Nat /\ stream.hi \in Nat /\ stream.lo <= stream.hi BY <2>1, <2>2 DEF Tracks
  <2>5. cut \in stream.lo .. stream.hi /\ cut <= stream.lo + Cap - 1
    BY <2>4, CutInWindow
  <2>6. Cap \in Nat BY StreamAssumption DEF StreamAssumption, Limits
  <2> HIDE DEF cut
  <2>7. cut \in stream.lo .. stream.hi - 1 BY <1>4, <2>4, <2>5, <2>6 DEF Held
  <2> QED BY <1>2, <1>5, <2>1, <2>2, <2>3, <2>7 DEF Tracks
<1>7. ~OfBoard' BY <1>0, <1>5 DEF Told, OfBoard, Board
<1> QED BY <1>0, <1>2, <1>6, <1>7 DEF Told, Ends

LEMMA FreezeKeepsT == ASSUME Told, Freeze PROVE Told'
<1> DEFINE m == [messages EXCEPT ![stream.live] = FrozenHead(stream, call.cut)]
           s == [stream EXCEPT !.live = Len(messages), !.lo = call.cut + 1, !.opened = @ + 1,
                               !.fresh = TRUE]
<1>0. Seamless' /\ IsStream(stream) /\ IsCall(call) /\ call.pc = "freeze"
  BY FreezeKeepsS DEF Freeze, Told, Seamless, Patience, Kinds
<1>1. PICK d \in Delivered(stream.gaveUp) :
        /\ Request(d, m, IF ~Again(d.answer) THEN s ELSE stream, FALSE)
        /\ call' = IF ~Again(d.answer) THEN [call EXCEPT !.pc = "roll", !.attempt = 1]
                   ELSE [call EXCEPT !.attempt = @ + 1]
        /\ unfrozen' = (unfrozen \/ (~Again(d.answer) /\ d.answer # "ok"))
  BY DEF Freeze
<1>2. call'.pc = (IF ~Again(d.answer) THEN "roll" ELSE "freeze") /\ call'.cut = call.cut
  BY <1>0, <1>1 DEF IsCall, CallFields
<1>3. /\ IsStream(s) /\ s.live = Len(messages) /\ s.lo = call.cut + 1
      /\ s.hi = stream.hi /\ s.opened = stream.opened + 1
  BY <1>0 DEF IsStream, StreamFields
<1>4. /\ Len(messages) \in Nat
      /\ stream.live \in 1 .. Len(messages) => m[stream.live] = FrozenHead(stream, call.cut)
      /\ \A k \in 1 .. Len(messages) : k # stream.live => m[k] = messages[k]
  <2>1. IsSeq(messages)
    BY DEF Told, Seamless
  <2>2. m = Put(messages, stream.live, FrozenHead(stream, call.cut))
    BY DEF Put
  <2> HIDE DEF m
  <2> QED BY <2>1, <2>2, SeqPut
<1>5. FrozenHead(stream, call.cut).lo = stream.lo
  BY DEF FrozenHead, Shows
<1> HIDE DEF m, s
<1>6. ~unfrozen' => ~unfrozen /\ (Again(d.answer) \/ d.answer = "ok")
  BY <1>1 DEF Told, Seamless
<1>7. /\ produced' = produced /\ kind' = kind
      /\ (~lost' => ~lost /\ messages' = IF d.answer = "ok" THEN m ELSE messages)
  BY <1>0, <1>1, <1>3, RequestText DEF Told
<1>8. ASSUME Counts' PROVE Tracks'
  <2>1. Counts /\ Tracks /\ Joins BY <1>6, <1>7, <1>8 DEF Told, Counts, Seamless
  <2>2. stream.live \in Nat \ {0} /\ Len(messages) = stream.live + 1
    BY <1>0, <2>1 DEF Joins, Stands, Final
  <2>3. CASE Again(d.answer)
    <3>1. messages' = messages BY <1>7, <1>8, <2>3 DEF Again, Counts
    <3>2. /\ stream'.live = stream.live /\ stream'.lo = stream.lo /\ stream'.hi = stream.hi
          /\ stream'.opened = stream.opened
      BY <1>0, <1>1, <2>3, RequestText DEF Told
    <3> QED BY <1>0, <1>2, <1>7, <2>1, <2>3, <3>1, <3>2 DEF Tracks
  <2>4. CASE ~Again(d.answer)
    <3>1. messages' = m BY <1>6, <1>7, <1>8, <2>4 DEF Counts
    <3>2. /\ stream'.live = stream.live + 1 /\ stream'.lo = call.cut + 1 /\ stream'.hi = stream.hi
          /\ stream'.opened = stream.opened + 1
      BY <1>0, <1>1, <1>3, <2>2, <2>4, RequestText DEF Told
    <3>3. m[1].lo = 1
      <4>1. CASE stream.live = 1 BY <1>4, <1>5, <2>1, <2>2, <4>1 DEF Tracks
      <4>2. CASE stream.live > 1
        <5>1. m[1] = messages[1] BY <1>4, <2>2, <4>2
        <5> QED BY <2>1, <4>2, <5>1 DEF Tracks
      <4> QED BY <2>2, <4>1, <4>2
    <3>4. call.cut \in stream.lo .. stream.hi - 1 /\ stream.lo \in Nat \ {0} /\ stream.hi \in Nat
      BY <1>0, <2>1 DEF Tracks
    <3>5. call.cut + 1 \in Nat \ {0} /\ call.cut + 1 <= stream.hi BY <3>4
    <3> QED BY <1>2, <1>7, <2>1, <2>2, <2>4, <3>1, <3>2, <3>3, <3>5 DEF Tracks
  <2> QED BY <2>3, <2>4
<1>9. ~OfBoard' BY <1>0, <1>7 DEF Told, OfBoard, Board
<1> QED BY <1>0, <1>2, <1>8, <1>9 DEF Told, Ends

LEMMA EditKeepsT == ASSUME Told, Edit PROVE Told'
<1>0. Seamless' /\ IsStream(stream) /\ IsCall(call) /\ call.pc = "edit" /\ call'.pc = "idle"
  BY EditKeepsS DEF Edit, Go, Told, Seamless, Patience, Kinds, IsCall, CallFields
<1>1. CASE stream.fresh \/ (~stream.fresh /\ stream.gaveUp)
  <2>1. /\ stream' = stream \/ stream' = [stream EXCEPT !.fresh = TRUE]
        /\ UNCHANGED <<kind, messages, produced, lost, unfrozen>>
    BY <1>1 DEF Edit, Quiet, scene, seen
  <2>2. /\ stream'.live = stream.live /\ stream'.lo = stream.lo /\ stream'.hi = stream.hi
        /\ stream'.opened = stream.opened
    BY <1>0, <2>1 DEF IsStream, StreamFields
  <2>3. Counts' => Tracks' BY <1>0, <2>1, <2>2 DEF Told, Counts, Tracks
  <2>4. OfBoard' => Board' BY <1>0, <2>1, <2>2 DEF Told, OfBoard, Board
  <2> QED BY <1>0, <2>3, <2>4 DEF Told, Ends
<1>2. CASE ~stream.fresh /\ ~stream.gaveUp
  <2> DEFINE x == Shows(stream.lo, Truncated(stream.lo, stream.hi)[2], TRUE)
             m == [messages EXCEPT ![stream.live] = x]
             s == [stream EXCEPT !.fresh = TRUE]
  <2>1. PICK d \in Delivered(stream.gaveUp) : Request(d, m, s, FALSE) /\ UNCHANGED unfrozen
    BY <1>2 DEF Edit
  <2>2. /\ IsStream(s) /\ s.live = stream.live /\ s.lo = stream.lo /\ s.hi = stream.hi
        /\ s.opened = stream.opened
    BY <1>0 DEF IsStream, StreamFields
  <2>3. /\ Len(messages) \in Nat /\ Len(m) = Len(messages)
        /\ \A k \in 1 .. Len(messages) : k # stream.live => m[k] = messages[k]
    <3>1. IsSeq(messages)
      BY DEF Told, Seamless
    <3>2. m = Put(messages, stream.live, x)
      BY DEF Put
    <3> HIDE DEF x, m
    <3> QED BY <3>1, <3>2, SeqPut
  <2> HIDE DEF m, s
  <2>4. /\ stream'.live = stream.live /\ stream'.lo = stream.lo /\ stream'.hi = stream.hi
        /\ stream'.opened = stream.opened /\ produced' = produced /\ kind' = kind
        /\ (~lost' => ~lost /\ messages' \in {m, messages})
    BY <2>1, <2>2, RequestText DEF Told
  <2>5. ASSUME Counts' PROVE Tracks'
    <3>1. Counts /\ Tracks /\ Joins BY <2>1, <2>4, <2>5 DEF Told, Counts, Seamless
    <3>2. stream.live \in Nat \ {0} /\ Len(messages) = stream.live
      BY <1>0, <3>1 DEF Joins, Stands, Final
    <3>3. stream.live > 1 => messages'[1] = messages[1] BY <2>3, <2>4, <2>5, <3>2 DEF Counts
    <3> QED BY <1>0, <2>4, <3>1, <3>3 DEF Tracks
  <2>6. ASSUME OfBoard' PROVE Board'
    <3>1. Board BY <2>4, <2>6 DEF Told, OfBoard
    <3>2. Len(messages') = Len(messages) BY <2>3, <2>4, <2>6 DEF OfBoard
    <3> QED BY <1>0, <2>4, <3>1, <3>2 DEF Board
  <2> QED BY <1>0, <2>5, <2>6 DEF Told, Ends
<1> QED BY <1>1, <1>2

-----------------------------------------------------------------------------
\* The next chunk of finish, written where it belongs.
LEMMA WrittenNext ==
  ASSUME NEW C \in Seq(Nat \X Nat), NEW d \in Nat, NEW live \in Nat, NEW m, IsSeq(m), Written(C, d, live, m),
         d < Len(C), NEW n,
         n = IF live # 0 /\ d = 0 THEN Put(m, live, Shown(C[d + 1])) ELSE Append(m, Shown(C[d + 1]))
  PROVE  Written(C, d + 1, live, n)
<1> DEFINE x == Shown(C[d + 1])
           b == Before(live)
<1>1. b \in Nat /\ (live # 0 => b = live - 1) /\ (live = 0 => b = 0) BY DEF Before
<1>2. Len(m) = b + (IF d # 0 THEN d ELSE IF live = 0 THEN 0 ELSE 1) BY DEF Written
<1>5. n = IF live # 0 /\ d = 0 THEN Put(m, live, x) ELSE Append(m, x) OBVIOUS
<1>6. x = Shown(C[d + 1]) OBVIOUS
<1> HIDE DEF b, x
<1>3. CASE live # 0 /\ d = 0
  <2>1. n = Put(m, live, x) BY <1>3, <1>5
  <2>2. live \in 1 .. Len(m) /\ Len(m) = b + 1 /\ live = b + 1 BY <1>1, <1>2, <1>3
  <2>3. Len(n) = b + 1 /\ n[b + 1] = x BY <2>1, <2>2, SeqPut
  <2>4. \A i \in 1 .. d + 1 : n[b + i] = Shown(C[i])
    <3> SUFFICES ASSUME NEW i \in 1 .. d + 1 PROVE n[b + i] = Shown(C[i]) OBVIOUS
    <3>1. i = 1 /\ d + 1 = 1 BY <1>3
    <3> QED BY <1>6, <1>3, <2>3, <3>1
  <2>5. d + 1 \in 0 .. Len(C) /\ d + 1 # 0 /\ d + 1 = 1 BY <1>3
  <2> QED BY <2>3, <2>4, <2>5 DEF Written, b
<1>4. CASE ~(live # 0 /\ d = 0)
  <2>1. Len(m) = b + d BY <1>1, <1>2, <1>4
  <2>2. /\ Len(n) = b + d + 1 /\ n[b + d + 1] = x
        /\ \A k \in 1 .. b + d : n[k] = m[k]
    <3>1. n = Append(m, x) BY <1>4, <1>5
    <3>3. IsSeq(m) OBVIOUS
    <3>4. /\ Len(Append(m, x)) = Len(m) + 1 /\ Append(m, x)[Len(m) + 1] = x
          /\ \A k \in 1 .. Len(m) : Append(m, x)[k] = m[k]
      BY <3>3, SeqAppend, Zenon
    <3>2. Len(n) = Len(m) + 1 /\ n[Len(m) + 1] = x /\ \A k \in 1 .. Len(m) : n[k] = m[k]
      BY <3>1, <3>4
    <3> QED BY <2>1, <3>2
  <2>3. \A i \in 1 .. d + 1 : n[b + i] = Shown(C[i])
    <3> SUFFICES ASSUME NEW i \in 1 .. d + 1 PROVE n[b + i] = Shown(C[i]) OBVIOUS
    <3>1. CASE i = d + 1
      <4>1. b + i = b + d + 1 BY <1>1, <3>1
      <4> QED BY <1>6, <2>2, <3>1, <4>1
    <3>2. CASE i # d + 1
      <4>1. i \in 1 .. d /\ b + i \in 1 .. b + d BY <1>1, <3>2
      <4>2. n[b + i] = m[b + i] BY <2>2, <4>1
      <4> QED BY <4>1, <4>2 DEF Written, b
    <3> QED BY <3>1, <3>2
  <2>4. d + 1 \in 0 .. Len(C) /\ d + 1 # 0 /\ Len(n) = b + (d + 1) BY <1>1, <2>2
  <2> QED BY <2>3, <2>4 DEF Written, b
<1> QED BY <1>3, <1>4

\* What is left of C from its place d on.
LEMMA RestOf ==
  ASSUME NEW S, NEW C \in Seq(S), NEW d \in 0 .. Len(C)
  PROVE  /\ SubSeq(C, d + 1, Len(C)) = <<>> => d = Len(C)
         /\ SubSeq(C, d + 1, Len(C)) # <<>> =>
              /\ d < Len(C) /\ Head(SubSeq(C, d + 1, Len(C))) = C[d + 1]
              /\ Tail(SubSeq(C, d + 1, Len(C))) = SubSeq(C, d + 2, Len(C))
<1> DEFINE R == SubSeq(C, d + 1, Len(C))
<1>1. /\ R \in Seq(S) /\ Len(R) = Len(C) - d
      /\ \A i \in 1 .. Len(C) - d : R[i] = C[d + i]
  OBVIOUS
<1>2. R = <<>> <=> d = Len(C)
  <2> HIDE DEF R
  <2> QED BY <1>1, EmptySeq
<1>3. ASSUME d < Len(C) PROVE R[1] = C[d + 1] /\ Tail(R) = SubSeq(C, d + 2, Len(C))
  <2>1. R[1] = C[d + 1] BY <1>1, <1>3
  <2> DEFINE T == SubSeq(C, d + 2, Len(C))
  <2>2. T \in Seq(S) /\ Len(T) = Len(C) - d - 1 /\ \A i \in 1 .. Len(C) - d - 1 : T[i] = C[d + 1 + i]
    BY <1>3
  <2> HIDE DEF R, T
  <2>3. R # <<>> BY <1>2, <1>3
  <2>4. Tail(R) \in Seq(S) /\ Len(Tail(R)) = Len(R) - 1 /\ \A i \in 1 .. Len(R) - 1 : Tail(R)[i] = R[i + 1]
    BY <1>1, <2>3
  <2>5. \A i \in 1 .. Len(T) : Tail(R)[i] = T[i]
    <3> SUFFICES ASSUME NEW i \in 1 .. Len(T) PROVE Tail(R)[i] = T[i] OBVIOUS
    <3>1. i \in 1 .. Len(R) - 1 /\ i + 1 \in 1 .. Len(C) - d /\ d + (i + 1) = d + 1 + i BY <1>1, <2>2
    <3> QED BY <1>1, <2>2, <2>4, <3>1
  <2>6. Len(Tail(R)) = Len(T) BY <1>1, <2>2, <2>4
  <2>7. Tail(R) = T BY <2>2, <2>4, <2>5, <2>6, SeqEqual
  <2> QED BY <2>1, <2>7 DEF T
<1>4. R # <<>> => Head(R) = R[1] BY <1>1
<1>5. d <= Len(C) OBVIOUS
<1> HIDE DEF R
<1>6. R # <<>> => d < Len(C) BY <1>2, <1>5
<1>7. R = <<>> => d = Len(C) BY <1>2
<1>8. R # <<>> => Head(R) = C[d + 1] /\ Tail(R) = SubSeq(C, d + 2, Len(C)) BY <1>3, <1>4, <1>6
<1> QED BY <1>6, <1>7, <1>8 DEF R

LEMMA FinishChunkKeepsT == ASSUME Told, FinishChunk PROVE Told'
<1> DEFINE c == Head(call.todo)
           final == Shows(c[1], c[2], FALSE)
           m == IF stream.live # 0 /\ call.sent = 0 THEN [messages EXCEPT ![stream.live] = final]
                ELSE Append(messages, final)
<1>0. Seamless' /\ IsStream(stream) /\ IsCall(call) /\ call.pc = "finish" /\ kind \in Streams
  BY FinishChunkKeepsS DEF FinishChunk, Told, Seamless, Patience, Kinds, StreamSteps
<1>1. PICK d \in Delivered(stream.gaveUp) :
        /\ Request(d, m, stream, FALSE) /\ UNCHANGED unfrozen
        /\ call' = IF d.answer = "ok" THEN [call EXCEPT !.todo = Tail(@), !.attempt = 1, !.sent = @ + 1]
                   ELSE IF Again(d.answer) THEN [call EXCEPT !.attempt = @ + 1]
                   ELSE [NoCall EXCEPT !.pc = "error"]
  BY DEF FinishChunk
<1>2. /\ call'.pc \in {"finish", "error"}
      /\ d.answer = "ok" => call'.pc = "finish" /\ call'.todo = Tail(call.todo) /\ call'.sent = call.sent + 1
      /\ d.answer # "ok" /\ call'.pc = "finish" => call'.todo = call.todo /\ call'.sent = call.sent
  BY <1>0, <1>1 DEF IsCall, CallFields, NoCall
<1>3. /\ Len(messages) \in Nat
      /\ \A k \in 1 .. Len(messages) : k # stream.live => m[k] = messages[k]
  <2>1. IsSeq(messages)
    BY DEF Told, Seamless
  <2> HIDE DEF final
  <2>2. CASE stream.live # 0 /\ call.sent = 0
    <3>1. m = Put(messages, stream.live, final)
      BY <2>2 DEF Put
    <3> HIDE DEF m
    <3> QED BY <2>1, <3>1, SeqPut
  <2>3. CASE ~(stream.live # 0 /\ call.sent = 0)
    BY <2>1, <2>3, SeqAppend
  <2> QED BY <2>2, <2>3
<1>4. /\ stream'.live = stream.live /\ stream'.lo = stream.lo /\ stream'.hi = stream.hi
      /\ stream'.opened = stream.opened /\ produced' = produced /\ kind' = kind
      /\ (~lost' => ~lost /\ messages' = IF d.answer = "ok" THEN m ELSE messages)
  <2> HIDE DEF m
  <2> QED BY <1>0, <1>1, RequestText DEF Told
<1>5. ASSUME Counts' PROVE Tracks'
  <2>1. Counts /\ Tracks /\ Joins BY <1>1, <1>4, <1>5 DEF Told, Counts, Seamless
  <2>2. stream.live \in Nat /\ stream.live <= Len(messages)
    BY <2>1 DEF Joins, Final
  <2> HIDE DEF m
  <2>3. stream.live > 1 => messages'[1] = messages[1] BY <1>3, <1>4, <1>5, <2>2 DEF Counts
  <2> QED BY <1>0, <1>2, <1>4, <2>1, <2>3 DEF Tracks
<1>6. ASSUME OfBoard' PROVE Board'
  <2>1. Board BY <1>4, <1>6 DEF Told, OfBoard
  <2> QED BY <1>0, <1>2, <1>4, <2>1 DEF Board
<1>7. ASSUME Ends' PROVE Closing'
  <2>1. Ends BY <1>0, <1>1, <1>4, <1>7 DEF Ends
  <2>2. PICK C, e : ClosingOf(C, e) BY <2>1 DEF Told, Closing
  <2>3. Base' = Base BY <1>4 DEF Base
  <2>4. call'.pc = "finish" BY <1>2, <1>7 DEF Ends
  <2>5. stream.live \in Nat
    <3>1. CASE kind = "stream" BY <2>1, <3>1 DEF Told, Seamless, Ends, Counts, Joins, Final
    <3>2. CASE kind = "board" BY <2>1, <3>2 DEF Told, Ends, OfBoard, Board
    <3> QED BY <1>0, <3>1, <3>2 DEF Streams
  <2>6. C \in Seq(Nat \X Nat) /\ e \in 0 .. Len(C) /\ call.todo = SubSeq(C, e + 1, Len(C)) /\ call.sent = e
    BY <2>2 DEF ClosingOf, Splits, Written
  <2>7. CASE d.answer = "ok"
    <3>1. call.todo # <<>> BY DEF FinishChunk
    <3>2. e < Len(C) /\ c = C[e + 1] /\ Tail(call.todo) = SubSeq(C, e + 2, Len(C))
      BY <2>6, <3>1, RestOf
    <3>3. final = Shown(C[e + 1]) BY <3>2 DEF Shown
    <3>4. messages' = m BY <1>4, <1>7, <2>7 DEF Ends
    <3>5. IsSeq(messages) /\ e \in Nat /\ Written(C, e, stream.live, messages)
      BY <2>2, <2>6 DEF Told, Seamless, ClosingOf
    <3> HIDE DEF final, c
    <3>9. m = IF stream.live # 0 /\ e = 0 THEN Put(messages, stream.live, Shown(C[e + 1]))
              ELSE Append(messages, Shown(C[e + 1]))
      BY <2>6, <3>3 DEF Put
    <3> HIDE DEF m
    <3>6. Written(C, e + 1, stream.live, m)
      BY <2>5, <2>6, <3>2, <3>5, <3>9, WrittenNext
    <3>8. e + 2 = (e + 1) + 1 BY <2>6
    <3>7. ClosingOf(C, e + 1)'
      BY <1>2, <1>4, <2>2, <2>3, <2>4, <2>6, <2>7, <3>2, <3>4, <3>6, <3>8 DEF ClosingOf
    <3> QED BY <3>7 DEF Closing
  <2>8. CASE d.answer # "ok"
    <3>1. messages' = messages BY <1>4, <1>7, <2>8 DEF Ends
    <3>2. ClosingOf(C, e)' BY <1>2, <1>4, <2>2, <2>3, <2>4, <2>8, <3>1 DEF ClosingOf
    <3> QED BY <3>2 DEF Closing
  <2> QED BY <2>7, <2>8
<1> QED BY <1>0, <1>5, <1>6, <1>7 DEF Told

\* finish cuts what is left of the text.
LEMMA FinishKeepsT == ASSUME Told, Finish PROVE Told'
<1>0. Seamless' /\ IsStream(stream) /\ IsCall(call) /\ call.pc = "idle" /\ kind \in Streams
  BY QuietKeepsS DEF Finish, Told, Seamless, Patience, Kinds
<1>1. UNCHANGED <<kind, stream, messages, produced, lost, unfrozen>> /\ produced > 0
  BY DEF Finish, Quiet, scene, seen
<1>2. call'.pc = "finish" /\ call'.todo = split_for_matrix(FinalText) /\ call'.sent = 0
  BY DEF Finish, NoCall
<1>3. Counts' => Tracks' BY <1>0, <1>1, <1>2 DEF Told, Counts, Tracks
<1>4. OfBoard' => Board' BY <1>0, <1>1, <1>2 DEF Told, OfBoard, Board
<1>5. ASSUME Ends' PROVE Closing'
  <2> DEFINE from == IF stream.live <= 1 THEN Base ELSE stream.lo
  <2>1. /\ FinalText = <<from, produced>> /\ from \in Nat /\ produced \in Nat /\ from <= produced
        /\ stream.live \in Nat /\ Len(messages) = stream.live
    <3>1. CASE kind = "stream"
      <4>1. Counts /\ Tracks /\ Joins BY <1>1, <1>5, <3>1 DEF Told, Counts, Seamless, Ends
      <4>2. stream.live = Len(messages) /\ stream.live \in Nat BY <1>0, <4>1 DEF Joins, Stands, Final
      <4>3. Base = 1 BY <3>1 DEF Base
      <4>4. from \in Nat /\ from <= produced BY <1>1, <4>1, <4>2, <4>3 DEF Tracks
      <4>5. FinalText = <<from, produced>> BY <4>1 DEF FinalText, Tracks
      <4> QED BY <4>1, <4>2, <4>4, <4>5 DEF Tracks
    <3>2. CASE kind = "board"
      <4>1. Board BY <1>1, <1>5, <3>2 DEF Told, OfBoard, Ends
      <4>2. Base = produced BY <3>2 DEF Base
      <4> QED BY <1>0, <4>1, <4>2 DEF Board, FinalText
    <3> QED BY <1>0, <3>1, <3>2 DEF Streams
  <2>2. MaxMessages \in Nat \ {0} BY StreamAssumption DEF StreamAssumption, Limits
  <2>3. PICK C : C = split_for_matrix(FinalText) OBVIOUS
  <2>11. C = split[MaxMessages][<<from, produced>>] BY <2>1, <2>3 DEF split_for_matrix
  <2>4. Base' = Base BY <1>1 DEF Base
  <2> HIDE DEF from
  <2>5. Splits(C, from, produced, MaxMessages) BY <2>1, <2>2, <2>11, SplitSound
  <2>6. C[1][1] = from /\ C \in Seq(Nat \X Nat) BY <2>5 DEF Splits
  <2>7. SubSeq(C, 0 + 1, Len(C)) = C BY <2>6
  <2>8. Written(C, 0, stream.live, messages)
    <3>1. 0 \in 0 .. Len(C) BY <2>6
    <3>2. Len(messages) = Before(stream.live) + (IF stream.live = 0 THEN 0 ELSE 1) BY <2>1 DEF Before
    <3> QED BY <3>1, <3>2 DEF Written
  <2>9. call'.todo = C BY <1>2, <2>3
  <2>10. ClosingOf(C, 0)'
    <3>1. C[1][1] = IF stream.live <= 1 THEN Base ELSE stream.lo BY <2>6 DEF from
    <3> QED BY <1>1, <1>2, <2>4, <2>5, <2>6, <2>7, <2>8, <2>9, <3>1 DEF ClosingOf
  <2> QED BY <2>10 DEF Closing
<1> QED BY <1>0, <1>3, <1>4, <1>5 DEF Told

LEMMA FinishedKeepsT == ASSUME Told, Finished PROVE Told'
<1>0. Seamless' /\ IsStream(stream) /\ IsCall(call) /\ call.pc = "finish" /\ call.todo = <<>>
  BY QuietKeepsS DEF Finished, Told, Seamless, Patience, Kinds
<1>1. UNCHANGED <<kind, stream, messages, produced, lost, unfrozen>>
  BY DEF Finished, Quiet, scene, seen
<1>2. call'.pc = "done" /\ call'.todo = call.todo /\ call'.sent = call.sent
  BY <1>0 DEF Finished, Go, IsCall, CallFields
<1>3. Counts' => Tracks' BY <1>0, <1>1, <1>2 DEF Told, Counts, Tracks
<1>4. OfBoard' => Board' BY <1>0, <1>1, <1>2 DEF Told, OfBoard, Board
<1>5. ASSUME Ends' PROVE Closing'
  <2>1. Ends BY <1>0, <1>1, <1>5 DEF Ends
  <2>2. PICK C, e : ClosingOf(C, e) BY <2>1 DEF Told, Closing
  <2>3. Base' = Base BY <1>1 DEF Base
  <2>4. C \in Seq(Nat \X Nat) /\ e \in 0 .. Len(C) /\ call.todo = SubSeq(C, e + 1, Len(C))
    BY <2>2 DEF ClosingOf, Splits, Written
  <2>5. e = Len(C) BY <1>0, <2>4, RestOf
  <2>6. ClosingOf(C, e)' BY <1>1, <1>2, <2>2, <2>3, <2>5 DEF ClosingOf
  <2> QED BY <2>6 DEF Closing
<1> QED BY <1>0, <1>3, <1>4, <1>5 DEF Told

-----------------------------------------------------------------------------
LEMMA PushKeepsT == ASSUME Told, NEW k \in 1 .. 2, Push(k) PROVE Told'
<1>0. Seamless' /\ IsStream(stream) /\ IsCall(call) /\ call.pc = "idle" /\ kind = "stream"
  BY QuietKeepsS DEF Push, Told, Seamless, Patience, Kinds
<1>1. UNCHANGED <<kind, messages, lost, unfrozen>> /\ produced' = produced + k
  BY DEF Push, Quiet, scene, seen
<1>2. /\ stream'.live = stream.live /\ stream'.lo = stream.lo /\ stream'.hi = produced + k
      /\ stream'.opened = stream.opened
  BY <1>0 DEF Push, IsStream, StreamFields
<1>3. call'.pc = IF stream.live # 0 THEN "roll" ELSE IF Held + k >= FirstMin THEN "first" ELSE "idle"
  BY <1>0 DEF Push, Go, IsCall, CallFields
<1>4. ASSUME Counts' PROVE Tracks'
  <2>1. Tracks BY <1>1, <1>4 DEF Told, Counts
  <2>2. FirstMin \in Nat \ {0} BY StreamAssumption DEF StreamAssumption, Limits
  <2>3. stream.live = 0 => stream.lo = 1 BY <2>1 DEF Tracks
  <2>4. produced \in Nat /\ produced + k \in Nat /\ 1 <= produced + k BY <2>1 DEF Tracks
  <2>5. call'.pc # "freeze" BY <1>3
  <2>6. stream'.lo <= stream'.hi
    <3>1. CASE stream.live = 0 BY <1>2, <2>3, <2>4, <3>1
    <3>2. CASE stream.live # 0 BY <1>2, <2>1, <2>4, <3>2 DEF Tracks
    <3> QED BY <3>1, <3>2
  <2> QED BY <1>1, <1>2, <2>1, <2>4, <2>5, <2>6 DEF Tracks
<1>5. ~OfBoard' BY <1>0, <1>1 DEF OfBoard
<1>6. ~Ends' BY <1>3 DEF Ends
<1> QED BY <1>0, <1>4, <1>5, <1>6 DEF Told

LEMMA SetKeepsT == ASSUME Told, NEW at \in {"short", "long", "once"}, Set(at) PROVE Told'
<1>0. Seamless' /\ IsStream(stream) /\ IsCall(call) /\ call.pc = "idle" /\ kind = "board"
  BY OthersKeepS DEF Set, Told, Seamless, Patience, Kinds
<1>1. UNCHANGED <<kind, messages, lost, unfrozen>> /\ produced' = produced + 1
  BY DEF Set, Quiet, scene, seen
<1>2. stream'.live = stream.live /\ stream'.opened = stream.opened
  BY <1>0 DEF Set, IsStream, StreamFields
<1>3. call'.pc = IF stream.live # 0 THEN "edit" ELSE IF at # "short" THEN "first" ELSE "idle"
  BY <1>0 DEF Set, Go, IsCall, CallFields
<1>4. OfBoard' => Board' BY <1>0, <1>1, <1>2, <1>3 DEF Told, OfBoard, Board
<1>5. ~Counts' /\ ~Ends' BY <1>0, <1>1, <1>3 DEF Counts, Ends
<1> QED BY <1>0, <1>4, <1>5 DEF Told

LEMMA RollNoMoreKeepsT == ASSUME Told, RollNoMore PROVE Told'
<1>0. Seamless' /\ IsStream(stream) /\ IsCall(call) /\ call.pc = "roll" /\ call'.pc = "edit"
  BY QuietKeepsS DEF RollNoMore, Go, Told, Seamless, Patience, Kinds, IsCall, CallFields
<1>1. UNCHANGED <<kind, stream, messages, produced, lost, unfrozen>>
  BY DEF RollNoMore, Quiet, scene, seen
<1>3. Counts' => Tracks' BY <1>0, <1>1 DEF Told, Counts, Tracks
<1>4. ~OfBoard' BY <1>0, <1>1 DEF Told, OfBoard, Board
<1> QED BY <1>0, <1>3, <1>4 DEF Told, Ends

\* Neither time nor the token writes anything.
LEMMA WorldKeepsT == ASSUME Told, Tick \/ TokenLow \/ TokenDies PROVE Told'
<1>0. Seamless' /\ IsStream(stream)
  BY QuietKeepsS DEF Told, Seamless, Patience, Kinds
<1>1. UNCHANGED <<kind, call, messages, produced, lost, unfrozen>>
  BY DEF Tick, TokenLow, TokenDies, scene, seen
<1>2. /\ stream'.live = stream.live /\ stream'.lo = stream.lo /\ stream'.hi = stream.hi
      /\ stream'.opened = stream.opened
  BY <1>0 DEF Tick, TokenLow, TokenDies, IsStream, StreamFields
<1>3. Counts' => Tracks' BY <1>1, <1>2 DEF Told, Counts, Tracks
<1>4. OfBoard' => Board' BY <1>1, <1>2 DEF Told, OfBoard, Board
<1>5. Ends' => Closing' BY <1>1, <1>2 DEF Told, Ends, Closing, ClosingOf, Base
<1> QED BY <1>0, <1>3, <1>4, <1>5 DEF Told

\* A one-shot send is no stream.
LEMMA OneShotKeepsT == ASSUME Told, SendStart \/ OneAttempt \/ SendDone \/ Reauth PROVE Told'
<1>0. Seamless' BY OthersKeepS DEF Told
<1>1. kind' = kind /\ kind \notin Streams
  BY DEF SendStart, OneAttempt, SendDone, Reauth, Quiet, scene, Told, Seamless, Patience, Kinds, SendSteps
<1> QED BY <1>0, <1>1 DEF Told, Counts, OfBoard, Ends, Streams

LEMMA ToldInit == StreamInit => Told
<1> SUFFICES ASSUME StreamInit PROVE Told OBVIOUS
<1>1. /\ messages = <<>> /\ Len(messages) = 0 /\ produced = 0 /\ call.pc = "idle"
      /\ stream.live = 0 /\ stream.lo = 1 /\ stream.hi = 0 /\ stream.opened = 0
  BY EmptySeq DEF StreamInit, NewStream, NoCall
<1> QED BY <1>1, SeamlessInit DEF Told, Tracks, Board, Ends

LEMMA ToldStep == Told /\ [StreamNext]_(streamVars) => Told'
<1> SUFFICES ASSUME Told, [StreamNext]_(streamVars) PROVE Told' OBVIOUS
<1>1. CASE StreamNext
  BY <1>1, PushKeepsT, SetKeepsT, SendFirstKeepsT, OpenNextKeepsT, RollNoMoreKeepsT, FreezeKeepsT,
     EditKeepsT, FinishKeepsT, FinishChunkKeepsT, FinishedKeepsT, OneShotKeepsT, WorldKeepsT
  DEF StreamNext
<1>2. CASE UNCHANGED streamVars
  <2>1. Seamless' BY <1>2, SeamlessStep DEF Told
  <2>2. UNCHANGED <<kind, stream, call, messages, produced, lost, unfrozen>>
    BY <1>2 DEF streamVars, scene, seen
  <2>3. Counts' => Tracks' BY <2>2 DEF Told, Counts, Tracks
  <2>4. OfBoard' => Board' BY <2>2 DEF Told, OfBoard, Board
  <2>5. Ends' => Closing' BY <2>2 DEF Told, Ends, Closing, ClosingOf, Base
  <2> QED BY <2>1, <2>3, <2>4, <2>5 DEF Told
<1> QED BY <1>1, <1>2

LEMMA ToldHolds == StreamSpec => []Told
BY ToldInit, ToldStep, PTL DEF StreamSpec

-----------------------------------------------------------------------------
LEMMA ChunksSplit ==
  /\ Splits(Chunks, 1, MaxPieces, MaxMessages)
  /\ kind = "notify" => Len(Chunks) = 1
<1>1. MaxPieces \in Nat /\ 1 <= MaxPieces /\ MaxMessages \in Nat \ {0}
  BY StreamAssumption DEF StreamAssumption, Limits
<1>2. CASE kind = "notify"
  <2>1. Chunks = <<(<<1, MaxPieces>>)>> BY <1>2 DEF Chunks
  <2>2. Len(<<(<<1, MaxPieces>>)>>) = 1 OBVIOUS
  <2>3. Splits(<<(<<1, MaxPieces>>)>>, 1, MaxPieces, MaxMessages) BY <1>1, SplitsOne
  <2> QED BY <2>1, <2>2, <2>3
<1>3. CASE kind # "notify"
  <2>1. Chunks = split[MaxMessages][<<1, MaxPieces>>] BY <1>3 DEF Chunks, split_for_matrix
  <2>2. Splits(split[MaxMessages][<<1, MaxPieces>>], 1, MaxPieces, MaxMessages) BY <1>1, SplitSound
  <2> QED BY <1>3, <2>1, <2>2
<1> QED BY <1>2, <1>3

LEMMA ChunksSteady == ASSUME UNCHANGED <<kind, breaks>> PROVE Chunks' = Chunks
<1>1. split' = split BY SplitSteady
<1> QED BY <1>1 DEF Chunks, split_for_matrix

\* The room shows p chunks of the text, those of a call that then renewed its token, and
\* after them its first d chunks.
SentOf(d, p) ==
  /\ d \in 0 .. Len(Chunks) /\ p \in 0 .. Len(Chunks)
  /\ Len(messages) = p + d
  /\ \A i \in 1 .. p : messages[i] = Shown(Chunks[i])
  /\ \A i \in 1 .. d : messages[p + i] = Shown(Chunks[i])
  /\ p = 0 \/ (kind = "dm" /\ deaths > 0 /\ (call.pc \in SendSteps => call.healed))
  /\ call.pc \in SendSteps => call.todo = SubSeq(Chunks, d + 1, Len(Chunks))
  /\ call.pc = "done" => d = Len(Chunks)
  /\ call.pc = "reauth" => d < Len(Chunks)
Sent == \E d, p : SentOf(d, p)

OneShot ==
  /\ account \in {"in", "out"} /\ (token = "dead" \/ account = "out" => deaths > 0)
  /\ call.pc = "idle" => messages = <<>>
  /\ call.pc = "reauth" => ~call.healed /\ deaths > 0
  /\ call.pc # "idle" => produced = MaxPieces
  /\ ~lost /\ call.pc # "idle" => Sent

\* The inductive invariant of the one-shot sends.
Repeats ==
  /\ Seamless /\ kind \in Calls
  /\ kind \notin Streams => OneShot

-----------------------------------------------------------------------------
\* What one attempt does.
LEMMA AttemptDoes ==
  ASSUME Repeats, OneAttempt
  PROVE  /\ UNCHANGED <<kind, breaks, token, account, produced, deaths>>
         /\ call.pc = "send" /\ call.todo # <<>> /\ (~lost' => ~lost)
         /\ \/ /\ call'.pc = "send" /\ call'.todo = Tail(call.todo)
               /\ kind # "room" => call'.healed = call.healed
               /\ ~lost' => messages' = Append(messages, Shown(Head(call.todo)))
            \/ /\ call'.pc \in {"send", "reauth", "error"}
               /\ call'.pc # "error" => call'.todo = call.todo /\ call'.healed = call.healed
               /\ call'.pc = "reauth" => ~call.healed /\ token = "dead"
               /\ ~lost' => messages' = messages
<1>0. IsCall(call) /\ call.pc = "send" /\ call.todo # <<>> /\ lost \in BOOLEAN
  BY DEF OneAttempt, Repeats, Seamless, Patience, Kinds
<1>1. UNCHANGED <<kind, breaks, token, account, produced, deaths>>
  BY DEF OneAttempt, scene, homeserver
<1>2. PICK r \in Send(token) :
         /\ messages' = IF r.landed
                        THEN Append(messages, Shows(Head(call.todo)[1], Head(call.todo)[2], FALSE))
                        ELSE messages
         /\ lost' = (lost \/ (r.landed /\ r.answer # "ok"))
         /\ call' = CASE r.answer = "ok" ->
                           [call EXCEPT !.todo = Tail(@), !.attempt = 1,
                                        !.healed = IF kind = "room" THEN FALSE ELSE @]
                      [] kind # "notify" /\ Again(r.answer) -> [call EXCEPT !.attempt = @ + 1]
                      [] MayHeal(r.answer) -> [call EXCEPT !.pc = "reauth"]
                      [] OTHER -> [NoCall EXCEPT !.pc = "error"]
  BY DEF OneAttempt
<1>3. /\ r.answer \in {"ok", "failed", "refused"} /\ r.landed \in BOOLEAN
      /\ r.answer = "ok" => r.landed = TRUE
      /\ r.answer = "refused" => token = "dead"
  BY SendIs DEF CameBack
<1>4. ~lost' => ~lost /\ (r.landed <=> r.answer = "ok") BY <1>0, <1>2, <1>3
<1>5. CASE r.answer = "ok"
  <2>1. call' = [call EXCEPT !.todo = Tail(@), !.attempt = 1,
                             !.healed = IF kind = "room" THEN FALSE ELSE @]
    BY <1>2, <1>5 DEF Again, MayHeal, IsUnknownToken
  <2>2. /\ call'.pc = "send" /\ call'.todo = Tail(call.todo)
        /\ kind # "room" => call'.healed = call.healed
    BY <1>0, <2>1 DEF IsCall, CallFields
  <2>3. ~lost' => messages' = Append(messages, Shown(Head(call.todo)))
    BY <1>2, <1>3, <1>5 DEF Shown
  <2> QED BY <1>0, <1>1, <1>4, <2>2, <2>3
<1>6. CASE r.answer # "ok"
  <2>1. ~lost' => messages' = messages BY <1>2, <1>4, <1>6
  <2>2. \/ call' = [call EXCEPT !.attempt = @ + 1]
        \/ call' = [call EXCEPT !.pc = "reauth"] /\ MayHeal(r.answer)
        \/ call' = [NoCall EXCEPT !.pc = "error"]
    BY <1>2, <1>6
  <2>3. CASE call' = [call EXCEPT !.attempt = @ + 1]
    <3>1. call'.pc = "send" /\ call'.todo = call.todo /\ call'.healed = call.healed
      BY <1>0, <2>3 DEF IsCall, CallFields
    <3> QED BY <1>0, <1>1, <1>4, <2>1, <3>1
  <2>4. CASE call' = [call EXCEPT !.pc = "reauth"] /\ MayHeal(r.answer)
    <3>1. call'.pc = "reauth" /\ call'.todo = call.todo /\ call'.healed = call.healed
      BY <1>0, <2>4 DEF IsCall, CallFields
    <3>2. ~call.healed /\ token = "dead" BY <1>3, <2>4 DEF MayHeal, IsUnknownToken
    <3> QED BY <1>0, <1>1, <1>4, <2>1, <3>1, <3>2
  <2>5. CASE call' = [NoCall EXCEPT !.pc = "error"]
    <3>1. call'.pc = "error" BY <2>5 DEF NoCall
    <3> QED BY <1>0, <1>1, <1>4, <2>1, <3>1
  <2> QED BY <2>2, <2>3, <2>4, <2>5
<1> QED BY <1>3, <1>5, <1>6

LEMMA AttemptKeepsR == ASSUME Repeats, OneAttempt PROVE Repeats'
<1>0. Seamless' BY OthersKeepS DEF Repeats
<1>1. /\ UNCHANGED <<kind, breaks, token, account, produced, deaths>>
      /\ call.pc = "send" /\ call.todo # <<>> /\ (~lost' => ~lost)
      /\ call'.pc \in {"send", "reauth", "error"}
      /\ call'.pc = "reauth" => ~call'.healed /\ token = "dead"
  BY AttemptDoes
<1>2. kind \notin Streams BY <1>1 DEF Repeats, Seamless, Patience, Kinds, SendSteps
<1>3. Chunks' = Chunks BY <1>1, ChunksSteady
<1>4. ASSUME ~lost' PROVE Sent'
  <2>1. PICK d, p : SentOf(d, p) BY <1>1, <1>2, <1>4 DEF Repeats, OneShot, Sent
  <2>2. Chunks \in Seq(Nat \X Nat) BY ChunksSplit DEF Splits
  <2>3. /\ d \in 0 .. Len(Chunks) /\ p \in 0 .. Len(Chunks) /\ Len(messages) = p + d
        /\ call.todo = SubSeq(Chunks, d + 1, Len(Chunks))
    BY <1>1, <2>1 DEF SentOf, SendSteps
  <2>4. /\ d < Len(Chunks) /\ Head(call.todo) = Chunks[d + 1]
        /\ Tail(call.todo) = SubSeq(Chunks, d + 2, Len(Chunks))
    BY <1>1, <2>2, <2>3, RestOf
  <2>5. CASE /\ call'.pc = "send" /\ call'.todo = Tail(call.todo)
             /\ kind # "room" => call'.healed = call.healed
             /\ messages' = Append(messages, Shown(Head(call.todo)))
    <3>1. /\ Len(messages') = p + (d + 1) /\ messages'[p + (d + 1)] = Shown(Chunks[d + 1])
          /\ \A k \in 1 .. p + d : messages'[k] = messages[k]
      <4> DEFINE x == Shown(Head(call.todo))
      <4>1. IsSeq(messages) BY DEF Repeats, Seamless
      <4>2. messages' = Append(messages, x) /\ x = Shown(Chunks[d + 1]) BY <2>4, <2>5
      <4> HIDE DEF x
      <4>3. /\ Len(messages') = Len(messages) + 1 /\ messages'[Len(messages) + 1] = x
            /\ \A k \in 1 .. Len(messages) : messages'[k] = messages[k]
        BY <4>1, <4>2, SeqAppend
      <4>4. Len(messages) + 1 = p + (d + 1) BY <2>3
      <4> QED BY <2>3, <4>2, <4>3, <4>4
    <3>2. \A i \in 1 .. p : messages'[i] = Shown(Chunks[i])
      <4> SUFFICES ASSUME NEW i \in 1 .. p PROVE messages'[i] = Shown(Chunks[i]) OBVIOUS
      <4>1. i \in 1 .. p + d BY <2>3
      <4> QED BY <2>1, <3>1, <4>1 DEF SentOf
    <3>3. \A i \in 1 .. d + 1 : messages'[p + i] = Shown(Chunks[i])
      <4> SUFFICES ASSUME NEW i \in 1 .. d + 1 PROVE messages'[p + i] = Shown(Chunks[i]) OBVIOUS
      <4>1. CASE i = d + 1 BY <3>1, <4>1
      <4>2. CASE i # d + 1
        <5>1. i \in 1 .. d /\ p + i \in 1 .. p + d BY <2>3, <4>2
        <5> QED BY <2>1, <3>1, <5>1 DEF SentOf
      <4> QED BY <4>1, <4>2
    <3>4. d + 1 \in 0 .. Len(Chunks) /\ (d + 1) + 1 = d + 2 BY <2>3, <2>4
    <3>5. p = 0 \/ (kind = "dm" /\ deaths > 0 /\ call'.healed)
      BY <1>1, <2>1, <2>5 DEF SentOf, SendSteps
    <3>6. call'.todo = SubSeq(Chunks, (d + 1) + 1, Len(Chunks)) BY <2>4, <2>5, <3>4
    <3>7. SentOf(d + 1, p)' BY <1>1, <1>3, <2>3, <2>5, <3>1, <3>2, <3>3, <3>4, <3>5, <3>6 DEF SentOf
    <3> QED BY <3>7 DEF Sent
  <2>6. CASE /\ call'.pc # "error" => call'.todo = call.todo /\ call'.healed = call.healed
             /\ messages' = messages
    <3>1. SentOf(d, p)' BY <1>1, <1>3, <2>1, <2>4, <2>6 DEF SentOf, SendSteps
    <3> QED BY <3>1 DEF Sent
  <2> QED BY <1>4, <2>5, <2>6, AttemptDoes
<1>5. OneShot' BY <1>1, <1>2, <1>4 DEF Repeats, OneShot
<1> QED BY <1>0, <1>1, <1>5 DEF Repeats

LEMMA ReauthKeepsR == ASSUME Repeats, Reauth PROVE Repeats'
<1>0. Seamless' /\ IsCall(call) /\ call.pc = "reauth"
  BY OthersKeepS DEF Reauth, Repeats, Seamless, Patience, Kinds
<1>1. UNCHANGED <<kind, breaks, account, produced, deaths, messages, lost>>
  BY DEF Reauth, scene, seen
<1>2. kind \in {"dm", "room", "notify"} /\ kind \notin Streams
  BY <1>0 DEF Repeats, Calls, Streams, Seamless, Patience, Kinds, SendSteps
<1>3. \/ call'.pc = "send" /\ call'.todo = Resume /\ call'.healed = TRUE
      \/ call'.pc = "error"
  BY <1>0 DEF Reauth, IsCall, CallFields, NoCall
<1>4. Chunks' = Chunks BY <1>1, ChunksSteady
<1>5. deaths > 0 /\ ~call.healed /\ produced = MaxPieces BY <1>0, <1>2 DEF Repeats, OneShot
<1>6. ASSUME ~lost' PROVE Sent'
  <2>1. PICK d, p : SentOf(d, p) BY <1>0, <1>1, <1>2, <1>6 DEF Repeats, OneShot, Sent
  <2>2. Chunks \in Seq(Nat \X Nat) BY ChunksSplit DEF Splits
  <2>3. /\ d \in 0 .. Len(Chunks) /\ d < Len(Chunks) /\ p = 0 /\ Len(messages) = d
        /\ call.todo = SubSeq(Chunks, d + 1, Len(Chunks))
        /\ \A i \in 1 .. d : messages[i] = Shown(Chunks[i])
    BY <1>0, <1>5, <2>1 DEF SentOf, SendSteps
  <2>4. CASE call'.pc = "error" \/ kind = "room" \/ d = 0
    <3>1. call'.pc = "send" => call'.todo = SubSeq(Chunks, d + 1, Len(Chunks))
      <4>1. SubSeq(Chunks, 0 + 1, Len(Chunks)) = Chunks BY <2>2
      <4> QED BY <1>3, <2>3, <2>4, <4>1 DEF Resume
    <3>2. SentOf(d, p)' BY <1>1, <1>3, <1>4, <2>1, <2>3, <3>1 DEF SentOf, SendSteps
    <3> QED BY <3>2 DEF Sent
  <2>5. CASE ~(call'.pc = "error" \/ kind = "room" \/ d = 0)
    <3>1. kind = "dm"
      <4>1. kind # "notify" BY <2>3, <2>5, ChunksSplit
      <4> QED BY <1>2, <2>5, <4>1
    <3>2. call'.pc = "send" /\ call'.todo = Chunks /\ call'.healed = TRUE
      BY <1>3, <2>5 DEF Resume
    <3>3. SubSeq(Chunks, 0 + 1, Len(Chunks)) = Chunks BY <2>2
    <3>4. 0 \in 0 .. Len(Chunks) /\ Len(messages) = d + 0 BY <2>3
    <3>5. SentOf(0, d)' BY <1>1, <1>4, <1>5, <2>3, <3>1, <3>2, <3>3, <3>4 DEF SentOf, SendSteps
    <3> QED BY <3>5 DEF Sent
  <2> QED BY <2>4, <2>5
<1>7. (token = "dead" \/ account = "out" => deaths > 0)' BY <1>1, <1>5
<1>8. OneShot' BY <1>1, <1>2, <1>3, <1>5, <1>6, <1>7 DEF Repeats, OneShot
<1> QED BY <1>0, <1>1, <1>8 DEF Repeats

LEMMA SendStartKeepsR == ASSUME Repeats, SendStart PROVE Repeats'
<1>0. Seamless' /\ IsCall(call) /\ call.pc = "idle" /\ kind \notin Streams
  BY OthersKeepS DEF SendStart, Repeats, Seamless, Patience, Kinds
<1>1. UNCHANGED <<kind, breaks, account, deaths, messages, lost>> /\ produced' = MaxPieces
  BY DEF SendStart, scene, seen
<1>2. call'.pc = "send" /\ call'.todo = Chunks BY DEF SendStart, NoCall
<1>3. /\ messages = <<>> /\ account \in {"in", "out"}
      /\ token = "dead" \/ account = "out" => deaths > 0
  BY <1>0 DEF Repeats, OneShot
<1>4. token' \in {token, Renewed} BY DEF SendStart
<1>5. token' = "dead" => deaths > 0 BY <1>3, <1>4 DEF Renewed
<1>6. Chunks' = Chunks BY <1>1, ChunksSteady
<1>7. Sent'
  <2>1. Chunks \in Seq(Nat \X Nat) BY ChunksSplit DEF Splits
  <2>2. SubSeq(Chunks, 0 + 1, Len(Chunks)) = Chunks /\ 0 \in 0 .. Len(Chunks) BY <2>1
  <2>3. Len(messages) = 0 + 0 BY <1>3, EmptySeq
  <2>4. SentOf(0, 0)' BY <1>1, <1>2, <1>6, <2>2, <2>3 DEF SentOf, SendSteps
  <2> QED BY <2>4 DEF Sent
<1>8. OneShot' BY <1>1, <1>2, <1>3, <1>5, <1>7 DEF OneShot
<1> QED BY <1>0, <1>1, <1>8 DEF Repeats

LEMMA SendDoneKeepsR == ASSUME Repeats, SendDone PROVE Repeats'
<1>0. Seamless' /\ IsCall(call) /\ call.pc = "send" /\ call.todo = <<>> /\ call'.pc = "done"
  BY OthersKeepS DEF SendDone, Go, Repeats, Seamless, Patience, Kinds, IsCall, CallFields
<1>1. UNCHANGED <<kind, breaks, token, account, produced, deaths, messages, lost>>
  BY DEF SendDone, Quiet, scene, homeserver, seen
<1>2. kind \notin Streams BY <1>0 DEF Repeats, Seamless, Patience, Kinds, SendSteps
<1>3. Chunks' = Chunks BY <1>1, ChunksSteady
<1>4. ASSUME ~lost' PROVE Sent'
  <2>1. PICK d, p : SentOf(d, p) BY <1>0, <1>1, <1>2, <1>4 DEF Repeats, OneShot, Sent
  <2>2. Chunks \in Seq(Nat \X Nat) BY ChunksSplit DEF Splits
  <2>3. d \in 0 .. Len(Chunks) /\ call.todo = SubSeq(Chunks, d + 1, Len(Chunks))
    BY <1>0, <2>1 DEF SentOf, SendSteps
  <2>4. d = Len(Chunks) BY <1>0, <2>2, <2>3, RestOf
  <2>5. SentOf(d, p)' BY <1>0, <1>1, <1>3, <2>1, <2>4 DEF SentOf, SendSteps
  <2> QED BY <2>5 DEF Sent
<1>5. OneShot' BY <1>0, <1>1, <1>2, <1>4 DEF Repeats, OneShot
<1> QED BY <1>0, <1>1, <1>5 DEF Repeats

LEMMA WorldKeepsR == ASSUME Repeats, Tick \/ TokenLow \/ TokenDies PROVE Repeats'
<1>0. Seamless' BY QuietKeepsS DEF Repeats
<1>1. UNCHANGED <<kind, breaks, call, produced, messages, lost>> /\ deaths' \in {deaths, deaths + 1}
  BY DEF Tick, TokenLow, TokenDies, scene, homeserver, seen
<1>2. deaths \in Nat BY DEF Repeats, Seamless, Patience, Kinds
<1>3. deaths > 0 => deaths' > 0 BY <1>1, <1>2
<1>4. Chunks' = Chunks BY <1>1, ChunksSteady
<1>5. ASSUME kind \notin Streams PROVE OneShot'
  <2>1. (account \in {"in", "out"} /\ (token = "dead" \/ account = "out" => deaths > 0))'
    <3>1. CASE TokenDies BY <1>2, <1>5, <3>1 DEF TokenDies, Repeats, OneShot
    <3>2. CASE Tick \/ TokenLow
      BY <1>3, <1>5, <3>2 DEF Tick, TokenLow, homeserver, Repeats, OneShot
    <3> QED BY <3>1, <3>2
  <2>2. ASSUME ~lost', call'.pc # "idle" PROVE Sent'
    <3>1. PICK d, p : SentOf(d, p) BY <1>1, <1>5, <2>2 DEF Repeats, OneShot, Sent
    <3>2. SentOf(d, p)' BY <1>1, <1>3, <1>4, <3>1 DEF SentOf
    <3> QED BY <3>2 DEF Sent
  <2> QED BY <1>1, <1>3, <1>5, <2>1, <2>2 DEF Repeats, OneShot
<1> QED BY <1>0, <1>1, <1>5 DEF Repeats

LEMMA RepeatsInit == StreamInit => Repeats
<1> SUFFICES ASSUME StreamInit PROVE Repeats OBVIOUS
<1>1. kind \in Calls BY StreamAssumption DEF StreamInit, StreamAssumption
<1>2. OneShot BY DEF StreamInit, NoCall, OneShot
<1> QED BY <1>1, <1>2, SeamlessInit DEF Repeats

LEMMA RepeatsStep == Repeats /\ [StreamNext]_(streamVars) => Repeats'
<1> SUFFICES ASSUME Repeats, [StreamNext]_(streamVars) PROVE Repeats' OBVIOUS
<1>0. Seamless' BY SeamlessStep DEF Repeats
<1>1. CASE \/ \E k \in 1 .. 2 : Push(k)
           \/ \E at \in {"short", "long", "once"} : Set(at)
           \/ SendFirst \/ OpenNext \/ RollNoMore \/ Freeze \/ Edit
           \/ Finish \/ FinishChunk \/ Finished
  <2>1. kind \in Streams
    BY <1>1 DEF Push, Set, SendFirst, OpenNext, RollNoMore, Freeze, Edit, Finish, FinishChunk, Finished,
                Repeats, Seamless, Patience, Kinds, Streams, StreamSteps
  <2>2. kind' = kind
    BY <1>1 DEF Push, Set, SendFirst, OpenNext, RollNoMore, Freeze, Edit, Finish, FinishChunk, Finished,
                Quiet, Request, scene
  <2> QED BY <1>0, <2>1, <2>2 DEF Repeats
<1>2. CASE SendStart \/ OneAttempt \/ SendDone \/ Reauth
  BY <1>2, SendStartKeepsR, AttemptKeepsR, SendDoneKeepsR, ReauthKeepsR
<1>3. CASE Tick \/ TokenLow \/ TokenDies BY <1>3, WorldKeepsR
<1>4. CASE UNCHANGED streamVars
  <2>1. UNCHANGED <<kind, breaks, token, account, call, produced, messages, lost, deaths>>
    BY <1>4 DEF streamVars, scene, homeserver, seen
  <2>2. Chunks' = Chunks BY <2>1, ChunksSteady
  <2>3. ASSUME Sent PROVE Sent'
    <3>1. PICK d, p : SentOf(d, p) BY <2>3 DEF Sent
    <3>2. SentOf(d, p)' BY <2>1, <2>2, <3>1 DEF SentOf
    <3> QED BY <3>2 DEF Sent
  <2> QED BY <1>0, <2>1, <2>3 DEF Repeats, OneShot
<1> QED BY <1>1, <1>2, <1>3, <1>4 DEF StreamNext

LEMMA RepeatsHolds == StreamSpec => []Repeats
BY RepeatsInit, RepeatsStep, PTL DEF StreamSpec

-----------------------------------------------------------------------------
\* All chunks of C written after the first b messages.
LEMMA Joined ==
  ASSUME NEW b \in Nat, NEW C, NEW from, NEW hi, Splits(C, from, hi, MaxMessages),
         Len(messages) = b + Len(C),
         \A i \in 1 .. Len(C) : messages[b + i] = Shown(C[i]),
         b = 0 => from = Base,
         b > 0 => messages[1].lo = Base /\ messages[b].hi + 1 = from,
         \A k \in 1 .. b - 1 : messages[k].hi + 1 = messages[k + 1].lo,
         \A k \in 1 .. b : messages[k].cursor = FALSE
  PROVE  /\ Covers
         /\ \A i \in DOMAIN messages : i \in 1 .. Len(messages) => ~messages[i].cursor
         /\ messages[Len(messages)].hi = hi \/ Len(messages) >= MaxMessages
<1>1. C \in Seq(Nat \X Nat) /\ C # <<>> /\ Len(C) \in Nat \ {0} BY EmptySeq DEF Splits
<1>2. \A i \in 1 .. Len(C) : /\ messages[b + i].lo = C[i][1] /\ messages[b + i].hi = C[i][2]
                             /\ messages[b + i].cursor = FALSE
  <2> SUFFICES ASSUME NEW i \in 1 .. Len(C)
               PROVE /\ messages[b + i].lo = C[i][1] /\ messages[b + i].hi = C[i][2]
                     /\ messages[b + i].cursor = FALSE
    OBVIOUS
  <2>1. messages[b + i] = Shown(C[i]) OBVIOUS
  <2> QED BY <2>1 DEF Shown, Shows
<1>3. messages # <<>>
  <2>1. Len(messages) # 0 BY <1>1
  <2> QED BY <2>1, EmptySeq
<1>4. messages[1].lo = Base
  <2>1. CASE b = 0
    <3>1. 1 \in 1 .. Len(C) /\ b + 1 = 1 BY <1>1, <2>1
    <3>2. messages[1].lo = C[1][1] BY <1>2, <3>1
    <3> QED BY <2>1, <3>2 DEF Splits
  <2>2. CASE b > 0 BY <2>2
  <2> QED BY <2>1, <2>2
<1>5. Continuous(1, Len(messages))
  <2> SUFFICES ASSUME NEW k \in 1 .. Len(messages) - 1
               PROVE messages[k].hi + 1 = messages[k + 1].lo
    BY DEF Continuous
  <2>1. CASE k < b BY <2>1
  <2>2. CASE k = b
    <3>1. 1 \in 1 .. Len(C) /\ k + 1 = b + 1 BY <1>1, <2>2
    <3>2. messages[k + 1].lo = C[1][1] BY <1>2, <3>1
    <3> QED BY <2>2, <3>2 DEF Splits
  <2>3. CASE k > b
    <3>1. PICK i \in 1 .. Len(C) - 1 : k = b + i
      <4>1. k - b \in 1 .. Len(C) - 1 /\ k = b + (k - b) BY <1>1, <2>3
      <4> QED BY <4>1
    <3>2. i \in 1 .. Len(C) /\ i + 1 \in 1 .. Len(C) /\ k + 1 = b + (i + 1) BY <1>1, <3>1
    <3>3. messages[k].hi = C[i][2] /\ messages[k + 1].lo = C[i + 1][1] BY <1>2, <3>1, <3>2
    <3>4. C[i][2] + 1 = C[i + 1][1] BY <3>1 DEF Splits
    <3> QED BY <3>3, <3>4
  <2> QED BY <1>1, <2>1, <2>2, <2>3
<1>6. \A i \in 1 .. Len(messages) : ~messages[i].cursor
  <2> SUFFICES ASSUME NEW i \in 1 .. Len(messages) PROVE ~messages[i].cursor OBVIOUS
  <2>1. CASE i <= b BY <2>1
  <2>2. CASE i > b
    <3>1. i - b \in 1 .. Len(C) /\ i = b + (i - b) BY <1>1, <2>2
    <3> QED BY <1>2, <3>1
  <2> QED BY <2>1, <2>2
<1>7. messages[Len(messages)].hi = hi \/ Len(messages) >= MaxMessages
  <2>1. CASE C[Len(C)][2] = hi BY <1>1, <1>2, <2>1
  <2>2. CASE Len(C) >= MaxMessages
    <3>1. MaxMessages \in Nat BY StreamAssumption DEF StreamAssumption, Limits
    <3> QED BY <1>1, <2>2, <3>1
  <2> QED BY <2>1, <2>2 DEF Splits
<1> QED BY <1>3, <1>4, <1>5, <1>6, <1>7 DEF Covers

\* Nothing of what a call to a room wrote is written twice.
LEMMA ChunksRise ==
  ASSUME NEW C, NEW lo \in Nat, NEW hi, NEW n, Splits(C, lo, hi, n)
  PROVE  \A i, j \in 1 .. Len(C) : i < j => C[i][2] < C[j][1]
<1>1. C \in Seq(Nat \X Nat) /\ Len(C) \in Nat BY DEF Splits
<1> SUFFICES ASSUME NEW i \in 1 .. Len(C), NEW j \in 1 .. Len(C), i < j, ~(C[i][2] < C[j][1]) PROVE FALSE
  OBVIOUS
<1> DEFINE T == {x \in i + 1 .. Len(C) : ~(C[i][2] < C[x][1])}
<1>2. T \subseteq Nat /\ j \in T OBVIOUS
<1>3. PICK x \in T : \A y \in T : x <= y
  <2> HIDE DEF T
  <2> QED BY <1>2, Least
<1>4. x \in i + 1 .. Len(C) /\ ~(C[i][2] < C[x][1]) OBVIOUS
<1>5. x - 1 \in 1 .. Len(C) - 1 /\ x - 1 \in 1 .. Len(C) /\ (x - 1) + 1 = x BY <1>1, <1>4
<1>6. C[x - 1][2] + 1 = C[x][1] /\ C[x - 1][1] <= C[x - 1][2] BY <1>5 DEF Splits
<1>7. \A y \in 1 .. Len(C) : C[y][1] \in Nat /\ C[y][2] \in Nat
  <2> SUFFICES ASSUME NEW y \in 1 .. Len(C) PROVE C[y][1] \in Nat /\ C[y][2] \in Nat OBVIOUS
  <2>1. C[y] \in Nat \X Nat BY <1>1
  <2> QED BY <2>1
<1>8. CASE x - 1 = i BY <1>4, <1>5, <1>6, <1>7, <1>8
<1>9. CASE x - 1 # i
  <2>1. x - 1 \in i + 1 .. Len(C) /\ ~(x - 1 \in T) BY <1>3, <1>4, <1>5, <1>9
  <2>2. C[i][2] < C[x - 1][1] BY <2>1
  <2> HIDE DEF T
  <2>3. C[i][2] \in Nat /\ C[x][1] \in Nat /\ C[x - 1][1] \in Nat /\ C[x - 1][2] \in Nat
    BY <1>4, <1>5, <1>7
  <2>4. ASSUME NEW u \in Nat, NEW v \in Nat, NEW w \in Nat, NEW z \in Nat,
               u < v, v <= w, w + 1 = z, ~(u < z)
        PROVE FALSE
    BY <2>4
  <2> QED BY <1>4, <1>6, <2>2, <2>3, <2>4
<1> QED BY <1>8, <1>9

\* When finish or a one-shot send reports success, the room shows the text from its first
\* piece, in order, nothing twice, no cursor left, to its end or to the limit of messages;
\* a DM whose token was renewed in between ends with the whole text (ReplyStream::finish,
\* the chunked sends, send_dm_self_healing).
THEOREM ReportIsTrue == StreamSpec => []ReportedIsShown
<1>1. ASSUME Told, Repeats PROVE ReportedIsShown
  <2> DEFINE Whole == /\ Covers
                      /\ \A i \in DOMAIN messages : ~messages[i].cursor
                      /\ messages[Len(messages)].hi = produced \/ Len(messages) >= MaxMessages
             again == SubSeq(messages, Len(messages) - Len(Chunks) + 1, Len(messages))
             Twice == /\ kind = "dm" /\ deaths > 0
                      /\ [i \in DOMAIN again |-> <<again[i].lo, again[i].hi>>] = Chunks
  <2> SUFFICES ASSUME call.pc = "done", ~lost, ~unfrozen PROVE Whole \/ Twice
    BY DEF ReportedIsShown
  <2>1. IsSeq(messages) /\ kind \in Calls /\ DOMAIN messages = 1 .. Len(messages)
    BY <1>1 DEF Repeats, Seamless, IsSeq
  <2>2. CASE kind \in Streams
    <3>1. PICK C, d : ClosingOf(C, d) BY <1>1, <2>2 DEF Told, Ends, Closing
    <3> DEFINE b == Before(stream.live)
               from == IF stream.live <= 1 THEN Base ELSE stream.lo
    <3>2. /\ Splits(C, from, produced, MaxMessages) /\ d = Len(C) /\ Len(C) \in Nat \ {0}
          /\ Len(messages) = b + Len(C)
          /\ \A i \in 1 .. Len(C) : messages[b + i] = Shown(C[i])
      <4>1. d = Len(C) /\ Splits(C, from, produced, MaxMessages) BY <3>1 DEF ClosingOf
      <4>2. Len(C) \in Nat \ {0} BY <4>1, EmptySeq DEF Splits
      <4> QED BY <3>1, <4>1, <4>2 DEF ClosingOf, Written
    <3>3. CASE kind = "stream"
      <4>1. Counts /\ Tracks /\ Joins BY <1>1, <3>3 DEF Told, Counts, Seamless
      <4>2. stream.live \in Nat /\ Base = 1 BY <3>3, <4>1 DEF Joins, Final, Base
      <4>3. b \in Nat /\ (b > 0 => stream.live > 1 /\ b = stream.live - 1) /\ (b = 0 => stream.live <= 1)
        BY <4>2 DEF Before
      <4>4. b = 0 => from = Base BY <4>3
      <4>5. b > 0 => messages[1].lo = Base /\ messages[b].hi + 1 = from
        BY <4>1, <4>2, <4>3 DEF Tracks, Joins, Final
      <4>6. /\ \A k \in 1 .. b - 1 : messages[k].hi + 1 = messages[k + 1].lo
            /\ \A k \in 1 .. b : messages[k].cursor = FALSE
        BY <4>1, <4>2, <4>3 DEF Joins, Final
      <4> HIDE DEF b, from
      <4>7. /\ Covers /\ (messages[Len(messages)].hi = produced \/ Len(messages) >= MaxMessages)
            /\ \A i \in DOMAIN messages : i \in 1 .. Len(messages) => ~messages[i].cursor
        BY <3>2, <4>3, <4>4, <4>5, <4>6, Joined
      <4> QED BY <2>1, <4>7
    <3>4. CASE kind = "board"
      <4>1. stream.live \in {0, 1} BY <1>1, <3>4 DEF Told, OfBoard, Board
      <4>2. b = 0 /\ from = Base BY <4>1 DEF Before
      <4> HIDE DEF b, from
      <4>3. /\ \A k \in 1 .. b - 1 : messages[k].hi + 1 = messages[k + 1].lo
            /\ \A k \in 1 .. b : messages[k].cursor = FALSE
        BY <4>2
      <4>4. b \in Nat /\ ~(b > 0) BY <4>2
      <4>7. /\ Covers /\ (messages[Len(messages)].hi = produced \/ Len(messages) >= MaxMessages)
            /\ \A i \in DOMAIN messages : i \in 1 .. Len(messages) => ~messages[i].cursor
        BY <3>2, <4>2, <4>3, <4>4, Joined
      <4> QED BY <2>1, <4>7
    <3> QED BY <2>2, <3>3, <3>4 DEF Streams
  <2>3. CASE kind \notin Streams
    <3>1. PICK d, p : SentOf(d, p) BY <1>1, <2>3 DEF Repeats, OneShot, Sent
    <3>2. /\ Splits(Chunks, 1, MaxPieces, MaxMessages) /\ produced = MaxPieces /\ Base = 1
      BY <1>1, <2>3, ChunksSplit DEF Repeats, OneShot, Base, Streams
    <3>3. /\ d = Len(Chunks) /\ p \in 0 .. Len(Chunks) /\ Len(messages) = p + Len(Chunks)
          /\ \A i \in 1 .. Len(Chunks) : messages[p + i] = Shown(Chunks[i])
          /\ p = 0 \/ (kind = "dm" /\ deaths > 0)
      BY <3>1 DEF SentOf
    <3>4. CASE p = 0
      <4>1. p \in Nat /\ ~(p > 0)
            /\ (\A k \in 1 .. p - 1 : messages[k].hi + 1 = messages[k + 1].lo)
            /\ (\A k \in 1 .. p : messages[k].cursor = FALSE)
        BY <3>4
      <4>7. /\ Covers /\ (messages[Len(messages)].hi = produced \/ Len(messages) >= MaxMessages)
            /\ \A i \in DOMAIN messages : i \in 1 .. Len(messages) => ~messages[i].cursor
        BY <3>2, <3>3, <4>1, Joined
      <4> QED BY <2>1, <4>7
    <3>5. CASE p # 0
      <4>1. Chunks \in Seq(Nat \X Nat) /\ Len(Chunks) \in Nat BY <3>2 DEF Splits
      <4> DEFINE n == Len(Chunks)
      <4>2. Len(messages) - n + 1 = p + 1 /\ p \in Nat BY <3>3, <4>1
      <4>3. PICK S : messages \in Seq(S) BY <2>1 DEF IsSeq
      <4>4. /\ again = SubSeq(messages, p + 1, p + n)
        BY <3>3, <4>2
      <4>5. DOMAIN again = 1 .. n /\ \A i \in 1 .. n : again[i] = messages[p + i]
        BY <3>3, <4>1, <4>2, <4>3, <4>4
      <4> HIDE DEF again
      <4>6. \A i \in 1 .. n : <<again[i].lo, again[i].hi>> = Chunks[i]
        <5> SUFFICES ASSUME NEW i \in 1 .. n PROVE <<again[i].lo, again[i].hi>> = Chunks[i] OBVIOUS
        <5>1. again[i] = Shown(Chunks[i]) BY <3>3, <4>5
        <5>2. again[i].lo = Chunks[i][1] /\ again[i].hi = Chunks[i][2] BY <5>1 DEF Shown, Shows
        <5>3. Chunks[i] \in Nat \X Nat BY <4>1
        <5> QED BY <5>2, <5>3
      <4>7. [i \in DOMAIN again |-> <<again[i].lo, again[i].hi>>] = [i \in 1 .. n |-> Chunks[i]]
        BY <4>5, <4>6
      <4>8. [i \in 1 .. n |-> Chunks[i]] = Chunks BY <4>1
      <4> QED BY <3>3, <3>5, <4>7, <4>8
    <3> QED BY <3>4, <3>5
  <2> QED BY <2>2, <2>3
<1> QED BY <1>1, ToldHolds, RepeatsHolds, PTL

\* A chunk that was delivered to a room is never sent again, even when the token is renewed
\* between chunks (send_to_room_chunked_with_refresh), as long as no answer is lost.
THEOREM OncePerRoom == StreamSpec => []RoomChunksOnce
<1>1. ASSUME Repeats PROVE RoomChunksOnce
  <2> SUFFICES ASSUME kind = "room", ~lost, NEW i \in DOMAIN messages, NEW j \in DOMAIN messages, i < j
               PROVE messages[i].hi < messages[j].lo
    BY DEF RoomChunksOnce
  <2>1. DOMAIN messages = 1 .. Len(messages) BY <1>1 DEF Repeats, Seamless, IsSeq
  <2>2. CASE call.pc = "idle"
    <3>1. messages = <<>> BY <1>1, <2>2 DEF Repeats, OneShot, Streams
    <3> QED BY <3>1
  <2>3. CASE call.pc # "idle"
    <3>1. PICK d, p : SentOf(d, p) BY <1>1, <2>3 DEF Repeats, OneShot, Sent, Streams
    <3>2. Chunks \in Seq(Nat \X Nat) /\ Splits(Chunks, 1, MaxPieces, MaxMessages)
      BY ChunksSplit DEF Splits
    <3>3. p = 0 /\ d \in 0 .. Len(Chunks) /\ Len(messages) = d BY <3>1 DEF SentOf
    <3>4. i \in 1 .. d /\ j \in 1 .. d /\ i \in 1 .. Len(Chunks) /\ j \in 1 .. Len(Chunks)
      BY <2>1, <3>2, <3>3
    <3>5. p + i = i /\ p + j = j BY <3>3, <3>4
    <3>6. messages[i] = Shown(Chunks[i]) /\ messages[j] = Shown(Chunks[j])
      BY <3>1, <3>4, <3>5 DEF SentOf
    <3>7. messages[i].hi = Chunks[i][2] /\ messages[j].lo = Chunks[j][1] BY <3>6 DEF Shown, Shows
    <3>8. \A x, y \in 1 .. Len(Chunks) : x < y => Chunks[x][2] < Chunks[y][1]
      BY <3>2, ChunksRise
    <3> QED BY <3>4, <3>7, <3>8
  <2> QED BY <2>2, <2>3
<1> QED BY <1>1, RepeatsHolds, PTL
=============================================================================
