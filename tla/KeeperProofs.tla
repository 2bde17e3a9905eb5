---------------------------- MODULE KeeperProofs ----------------------------
(***************************************************************************)
(* Theorems about Keeper, for any number of holds and any timings.         *)
(*                                                                         *)
(* Types first.  Then that superseded holds are silent, unless a delayed   *)
(* leave may be pending that nobody knows of: at any time one hold at most *)
(* has work or a stop in progress, it is the one in the slot (InTurn), and *)
(* a pending delayed leave is that hold's, and known to it, or to the next *)
(* one, which cancels it before it publishes (Known).                      *)
(*                                                                         *)
(* Last, that a membership that ended comes back under a new chain, if     *)
(* requests take no longer than the timings leave room for: a chain that   *)
(* goes on has its membership, and the switch is pushed back or the leave  *)
(* sent in time (AllSound).                                                *)
(***************************************************************************)
EXTENDS Keeper, TLAPS

Ats == {"none"} \cup Starting \cup Running \cup Stopping \cup Over
Leaves == [by : 0..MaxHolds, left : 0..LeaveDelay]

Fresh == {"none"} \cup Starting

\* A keeper that asks for a leave to be sent has its id.
Takes == \A h \in Holds : keeper[h].at = "send_leave" => keeper[h].taken \in Ids

\* One start at a time, in the order of the holds.
InTurn == \A g, h \in Holds : g < h /\ keeper[h].at # "none" => keeper[g].at \notin Fresh

\* The slot is empty, or names a hold; who supersedes has one to supersede.
Slotted ==
  /\ slot # 0 => keeper[slot].at # "none"
  /\ \A h \in Holds : keeper[h].at = "supersede" => slot # 0

Tidy == TypeOK /\ Takes /\ InTurn /\ Slotted

-----------------------------------------------------------------------------
(* Types *)

LEMMA Timings ==
  /\ Expiry \in Nat /\ RefreshEvery \in Nat /\ LeaveDelay \in Nat
  /\ RestartEvery \in Nat /\ RetryAfter \in Nat
  /\ MaxHolds \in Nat /\ NoId \notin Ids
<1>1. /\ {Expiry, RefreshEvery, LeaveDelay, RestartEvery, RetryAfter} \subseteq Nat \ {0}
      /\ MaxHolds \in Nat /\ NoId \notin Ids
  BY KeeperAssumption DEF KeeperAssumption, Validated
<1>2. \A x \in {Expiry, RefreshEvery, LeaveDelay, RestartEvery, RetryAfter} : x \in Nat
  BY <1>1
<1> QED BY <1>1, <1>2

LEMMA MinusBound == ASSUME NEW a \in Nat, NEW b \in Nat PROVE Minus(a, b) \in Nat /\ Minus(a, b) \in 0..a
  BY DEF Minus

LEMMA TaskOps ==
  ASSUME NEW k \in Tasks, NEW c \in {"none", "unanchored", "anchored"}, NEW t \in Nat,
         NEW i \in Ids \cup {NoId}
  PROVE  /\ Rejoined(k, c, t) \in Tasks /\ Armed(k, i, t) \in Tasks /\ Unarmed(k, t) \in Tasks
         /\ Disabled(k) \in Tasks /\ RetryRefresh(k) \in Tasks
<1>1. Minus(Expiry, t) \in Nat /\ Minus(RefreshEvery, t) \in Nat
  BY Timings, MinusBound
<1> QED BY <1>1, Timings DEF Tasks, Rejoined, Armed, Unarmed, Disabled, RetryRefresh

LEMMA NewIsTask == ASSUME NEW a \in Ats PROVE [New EXCEPT !.at = a] \in Tasks
  BY DEF New, Tasks, Ats

LEMMA NewTask == New \in Tasks
  BY DEF New, Tasks

LEMMA GoesTypes ==
  ASSUME keeper \in [Holds -> Tasks], NEW h \in Holds, NEW k \in Tasks, NEW to \in Ats, Goes(h, k, to)
  PROVE  keeper' \in [Holds -> Tasks]
<1>1. [k EXCEPT !.at = to, !.age = 0] \in Tasks
  BY DEF Tasks, Ats
<1> QED BY <1>1 DEF Goes

ServerOK ==
  /\ member \in [by : 0..MaxHolds, left : 0..Expiry]
  /\ delayed \in [Ids -> Leaves]
  /\ spent \subseteq Holds /\ writer \in 0..MaxHolds

LEMMA PublishTypes ==
  ASSUME ServerOK, NEW h \in Holds, NEW left \in 0..Expiry,
         NewChain(h, left) \/ SameChain(h, left)
  PROVE  ServerOK'
<1>1. h \in 0..MaxHolds
  BY Timings DEF Holds
<1>2. /\ member' = [by |-> h, left |-> left] /\ writer' = h /\ delayed' = delayed
      /\ spent' \subseteq spent
  BY DEF NewChain, SameChain, Published
<1> QED BY <1>1, <1>2 DEF ServerOK

LEMMA ClearTypes ==
  ASSUME ServerOK, NEW h \in 0..MaxHolds, Cleared(h), delayed' \in [Ids -> Leaves]
  PROVE  ServerOK'
  BY Timings DEF ServerOK, Cleared, Empty

LEMMA LeaveTypes ==
  ASSUME ServerOK, NEW h \in Holds, NEW i,
         Schedules(h, i) \/ Restarts(i) \/ Cancels(i) \/ NotFound(i) \/ (i \in Ids /\ Fires(i))
  PROVE  ServerOK'
<1>1. [by |-> h, left |-> LeaveDelay] \in Leaves /\ NoLeave \in Leaves
  BY Timings DEF Leaves, NoLeave, Holds
<1>2. CASE Schedules(h, i)
  <2>1. delayed' = [delayed EXCEPT ![i] = [by |-> h, left |-> LeaveDelay]]
        /\ UNCHANGED <<member, spent, writer>>
    BY <1>2 DEF Schedules
  <2> QED BY <1>1, <2>1 DEF ServerOK
<1>3. CASE Restarts(i)
  <2>1. CASE i \in Ids
    <3>1. [delayed[i] EXCEPT !.left = LeaveDelay] \in Leaves
      BY <2>1, Timings DEF ServerOK, Leaves
    <3> QED BY <1>3, <3>1 DEF ServerOK, Restarts
  <2>2. CASE i \notin Ids
    BY <1>3, <2>2 DEF ServerOK, Restarts
  <2> QED BY <2>1, <2>2
<1>4. CASE Cancels(i)
  BY <1>1, <1>4 DEF ServerOK, Cancels
<1>5. CASE NotFound(i)
  BY <1>5 DEF ServerOK, NotFound, server
<1>6. CASE i \in Ids /\ Fires(i)
  <2>1. delayed' \in [Ids -> Leaves] /\ delayed[i].by \in 0..MaxHolds
    BY <1>1, <1>6 DEF ServerOK, Fires, Leaves
  <2> QED BY <1>6, <2>1, ClearTypes DEF Fires
<1> QED BY <1>2, <1>3, <1>4, <1>5, <1>6

LEMMA EffectTypes ==
  ASSUME ServerOK, keeper \in [Holds -> Tasks], Takes, NEW h \in Holds, Unheard(h)
  PROVE  ServerOK'
<1>1. CASE UNCHANGED server
  BY <1>1 DEF server, ServerOK
<1>2. CASE Effect(h)
  <2>1. Minus(Expiry, keeper[h].age) \in 0..Expiry /\ Expiry \in 0..Expiry
    <3>1. keeper[h].age \in Nat
      BY DEF Tasks
    <3> QED BY <3>1, Timings, MinusBound
  <2>2. h \in 0..MaxHolds
    BY Timings DEF Holds
  <2>3. ServerOK => delayed \in [Ids -> Leaves]
    BY DEF ServerOK
  <2>4. CASE keeper[h].at = "clear" /\ Cleared(h) /\ UNCHANGED delayed
    BY <2>2, <2>3, <2>4, ClearTypes
  <2>5. CASE keeper[h].at = "send_leave" /\ Fires(keeper[h].taken)
    BY <2>5, LeaveTypes DEF Takes
  <2> QED BY <1>2, <2>1, <2>4, <2>5, PublishTypes, LeaveTypes DEF Effect
<1> QED BY <1>1, <1>2 DEF Unheard

\* A hold goes on from one await to another.
LEMMA GoesTidy ==
  ASSUME Tidy, NEW h \in Holds, NEW k \in Tasks, NEW to \in Ats \ {"none", "supersede"},
         keeper[h].at # "none", to \in Starting => keeper[h].at \in Starting,
         to = "send_leave" => k.taken \in Ids,
         slot' \in {slot, h} \/ (keeper[h].at \in Starting /\ slot' = 0),
         Goes(h, k, to), ServerOK', slot' \in 0..MaxHolds, faults' = faults
  PROVE  Tidy'
<1>1. keeper' \in [Holds -> Tasks]
  BY GoesTypes DEF Tidy, TypeOK
<1>2. TypeOK'
  BY <1>1 DEF Tidy, TypeOK, ServerOK, Leaves
<1>3. /\ keeper'[h].at = to /\ keeper'[h].taken = k.taken
      /\ \A g \in Holds \ {h} : keeper'[g] = keeper[g]
  BY DEF Goes, Tidy, TypeOK, Tasks
<1>4. Takes'
  BY <1>3 DEF Takes, Tidy
<1>5. InTurn'
  BY <1>3 DEF InTurn, Tidy, Fresh
<1>6. slot' # 0 => keeper'[slot'].at # "none"
  <2>1. slot' # 0 => slot' \in Holds
    BY DEF Holds
  <2> QED BY <1>3, <2>1 DEF Tidy, Slotted
<1>7. ASSUME NEW g \in Holds, keeper'[g].at = "supersede" PROVE slot' # 0
  <2>1. g # h /\ keeper[g].at = "supersede" /\ slot # 0 /\ h # 0
    BY <1>3, <1>7 DEF Tidy, Slotted, Holds
  <2>2. keeper[h].at \notin Starting
    <3>1. g \in Nat /\ h \in Nat
      BY DEF Holds
    <3> QED BY <2>1, <3>1 DEF Tidy, InTurn, Fresh, Starting
  <2> QED BY <2>1, <2>2
<1> QED BY <1>2, <1>4, <1>5, <1>6, <1>7 DEF Tidy, Slotted

LEMMA TidyParts ==
  ASSUME Tidy, NEW h \in Holds
  PROVE  /\ ServerOK /\ keeper \in [Holds -> Tasks] /\ keeper[h] \in Tasks
         /\ slot \in 0..MaxHolds /\ h \in 0..MaxHolds /\ h \in Nat
         /\ keeper[h].age \in Nat /\ keeper[h].at \in Ats
         /\ Minus(Expiry, keeper[h].age) \in 0..Expiry /\ Expiry \in 0..Expiry
<1>1. /\ ServerOK /\ keeper \in [Holds -> Tasks] /\ keeper[h] \in Tasks
      /\ slot \in 0..MaxHolds
  BY DEF Tidy, TypeOK, ServerOK, Leaves
<1>2. h \in 0..MaxHolds /\ h \in Nat
  BY Timings DEF Holds
<1>3. keeper[h].age \in Nat /\ keeper[h].at \in Ats
  BY <1>1 DEF Tasks, Ats
<1>4. Minus(Expiry, keeper[h].age) \in 0..Expiry /\ Expiry \in 0..Expiry
  <2>1. keeper[h].age \in Nat /\ Expiry \in Nat
    BY <1>3, Timings
  <2>2. Expiry \in 0..Expiry
    BY <2>1
  <2> QED BY <2>1, <2>2, MinusBound
<1> QED BY <1>1, <1>2, <1>3, <1>4

LEMMA UnheardTypes ==
  ASSUME Tidy, NEW h \in Holds, Unheard(h) \/ Errs(h)
  PROVE  ServerOK'
<1>1. Unheard(h)
  BY DEF Errs
<1> QED BY <1>1, TidyParts, EffectTypes DEF Tidy

LEMMA HoldTidy ==
  ASSUME Tidy, NEW h \in Holds, Hold(h)
  PROVE  Tidy'
<1>1. ServerOK'
  BY TidyParts DEF Hold, server, ServerOK
<1>2. slot = 0 \/ slot \in Holds
  BY TidyParts DEF Holds
<1>3. /\ keeper' \in [Holds -> Tasks]
      /\ \A g \in Holds \ {h} : /\ keeper'[g].at = keeper[g].at
                                /\ keeper'[g].taken = keeper[g].taken
      /\ keeper'[h].at \in {"join", "supersede"}
      /\ keeper'[h].at = "supersede" => slot # 0
  <2>1. CASE slot = 0
    <3>1. [keeper[h] EXCEPT !.at = "join"] \in Tasks
      BY TidyParts DEF Tasks, Starting
    <3> QED BY <2>1, <3>1, TidyParts DEF Hold, Tasks
  <2>2. CASE slot # 0
    <3>1. Told(slot, "hand_over") \in {"hold", "leave", "hand_over"}
      BY <1>2, <2>2, TidyParts DEF Told, Tasks
    <3>2. keeper' = [keeper EXCEPT ![h].at = "supersede", ![slot].cmd = Told(slot, "hand_over")]
      BY <2>2 DEF Hold
    <3>3. [keeper[h] EXCEPT !.at = "supersede"] \in Tasks
      BY TidyParts DEF Tasks, Starting
    <3>4. [keeper EXCEPT ![h].at = "supersede"] \in [Holds -> Tasks]
      BY <3>3, TidyParts
    <3> QED BY <1>2, <2>2, <3>1, <3>2, <3>4, TidyParts DEF Tasks
  <2> QED BY <2>1, <2>2
<1>4. TypeOK'
  BY <1>1, <1>3, TidyParts DEF Hold, Tidy, TypeOK, ServerOK, Leaves
<1>5. Takes' /\ Slotted'
  BY <1>2, <1>3 DEF Tidy, Takes, Slotted, Hold
<1>6. InTurn'
  <2> SUFFICES ASSUME NEW f \in Holds, NEW g \in Holds, f < g, keeper'[g].at # "none"
               PROVE  keeper'[f].at \notin Fresh
    BY DEF InTurn
  <2>1. f \in Nat /\ g \in Nat /\ h \in Nat /\ f # g /\ f \in 1..(g - 1)
    BY DEF Holds
  <2>2. CASE g = h
    BY <1>3, <2>1, <2>2 DEF Hold, Fresh
  <2>3. CASE f = h
    <3>1. keeper[g].at # "none"
      BY <1>3, <2>1, <2>3
    <3> QED BY <2>1, <2>3, <3>1 DEF Tidy, InTurn, Hold, Fresh
  <2>4. CASE f # h /\ g # h
    BY <1>3, <2>4 DEF Tidy, InTurn
  <2> QED BY <2>2, <2>3, <2>4
<1> QED BY <1>4, <1>5, <1>6 DEF Tidy

LEMMA SupersedeTidy ==
  ASSUME Tidy, NEW h \in Holds, Supersede(h)
  PROVE  Tidy'
<1>1. slot \in Holds /\ keeper[h].at = "supersede" /\ keeper[slot].at # "none"
  BY TidyParts DEF Tidy, Slotted, Supersede, Holds
<1>2. ServerOK'
  <2>1. UNCHANGED server \/ Unheard(slot)
    BY DEF Supersede
  <2> QED BY <1>1, <2>1, UnheardTypes DEF Unheard
<1>3. /\ keeper' \in [Holds -> Tasks]
      /\ \A g \in Holds \ {h, slot} : keeper'[g] = keeper[g]
      /\ keeper'[slot].at \in Over
      /\ h # slot => keeper'[h].at \in {"join", "cancel"}
  <2> DEFINE a == IF keeper[slot].id = NoId THEN "join" ELSE "cancel"
             r == [keeper[h] EXCEPT !.at = a, !.taken = keeper[slot].id]
             b == IF keeper[slot].at \in Over THEN keeper[slot].at ELSE "aborted"
             q == [New EXCEPT !.at = b]
  <2>1. a \in {"join", "cancel"} /\ b \in Over
    BY DEF Over
  <2>2. r \in Tasks /\ r.at = a
    <3>1. keeper[slot].id \in Ids \cup {NoId} /\ keeper[h] \in Tasks
      BY <1>1, TidyParts DEF Tasks
    <3> HIDE DEF a
    <3> QED BY <2>1, <3>1 DEF Tasks, Starting
  <2>3. q \in Tasks /\ q.at = b
    BY <2>1, NewIsTask DEF Ats, New
  <2>4. keeper' = [[keeper EXCEPT ![h] = r] EXCEPT ![slot] = q]
    BY DEF Supersede
  <2> QED BY <1>1, <2>1, <2>2, <2>3, <2>4, TidyParts
<1>4. TypeOK'
  BY <1>2, <1>3, TidyParts DEF Supersede, Tidy, TypeOK, ServerOK, Leaves
<1>5. \A g \in Holds : \/ keeper'[g] = keeper[g]
                       \/ keeper'[g].at \in Over
                       \/ keeper'[g].at \in {"join", "cancel"} /\ keeper[g].at = "supersede"
  BY <1>1, <1>3
<1>6. Takes' /\ Slotted'
  <2>1. slot' = slot
    BY DEF Supersede
  <2>2. Takes'
    BY <1>5 DEF Tidy, Takes, Over
  <2>3. keeper'[slot].at # "none"
    BY <1>3, <1>1 DEF Over
  <2> QED BY <1>1, <2>1, <2>2, <2>3 DEF Slotted, Holds
<1>7. InTurn'
  <2> SUFFICES ASSUME NEW f \in Holds, NEW g \in Holds, f < g, keeper'[g].at # "none"
               PROVE  keeper'[f].at \notin Fresh
    BY DEF InTurn
  <2>1. keeper[g].at # "none"
    BY <1>1, <1>3, <1>5
  <2> QED BY <1>5, <2>1 DEF Tidy, InTurn, Over, Fresh, Starting
<1> QED BY <1>4, <1>6, <1>7 DEF Tidy

LEMMA CancelJoinTidy ==
  ASSUME Tidy, NEW h \in Holds, CancelStale(h) \/ Join(h)
  PROVE  Tidy'
<1>1. CASE CancelStale(h)
  <2>1. ServerOK'
    BY <1>1, TidyParts, LeaveTypes, UnheardTypes DEF CancelStale
  <2>2. [keeper[h] EXCEPT !.taken = NoId] \in Tasks
    BY TidyParts DEF Tasks
  <2> QED BY <1>1, <2>1, <2>2, TidyParts, GoesTidy DEF CancelStale, Ats, Starting
<1>2. CASE Join(h) /\ NewChain(h, Expiry)
           /\ (\E c \in Anchors : Goes(h, Unarmed(Rejoined(keeper[h], c, 0), 0), "start_arm"))
           /\ slot' = slot
  <2>1. ServerOK'
    BY <1>2, TidyParts, PublishTypes
  <2>2. PICK c \in Anchors : Goes(h, Unarmed(Rejoined(keeper[h], c, 0), 0), "start_arm")
    BY <1>2
  <2>3. Unarmed(Rejoined(keeper[h], c, 0), 0) \in Tasks
    <3>1. c \in {"none", "unanchored", "anchored"} /\ NoId \in Ids \cup {NoId}
      BY DEF Anchors
    <3>2. Rejoined(keeper[h], c, 0) \in Tasks
      BY <3>1, TidyParts, TaskOps
    <3> QED BY <3>1, <3>2, TaskOps
  <2> QED BY <1>2, <2>1, <2>2, <2>3, TidyParts, GoesTidy DEF Join, Ats, Starting
<1>3. CASE Join(h) /\ Errs(h) /\ Goes(h, New, "failed") /\ slot' = 0
  <2>1. ServerOK'
    BY <1>3, UnheardTypes
  <2>2. New \in Tasks /\ 0 \in 0..MaxHolds
    BY NewTask, Timings
  <2> QED BY <1>3, <2>1, <2>2, TidyParts, GoesTidy DEF Join, Ats, Starting, Over, Stopping
<1> QED BY <1>1, <1>2, <1>3 DEF Join

\* A step of a keeper that runs or stops, whatever it asks of the homeserver.
LEMMA AliveTidy ==
  ASSUME Tidy, NEW h \in Holds, NEW k \in Tasks, NEW to \in Ats \ ({"none"} \cup Starting),
         keeper[h].at \notin {"none", "supersede"}, to = "send_leave" => k.taken \in Ids,
         ServerOK', Goes(h, k, to), slot' \in {slot, h}, faults' = faults
  PROVE  Tidy'
<1>1. slot' \in 0..MaxHolds /\ h \in 0..MaxHolds
  BY TidyParts
<1>2. to \in Ats \ {"none", "supersede"} /\ to \notin Starting /\ keeper[h].at # "none"
  BY DEF Starting
<1> QED BY <1>1, <1>2, GoesTidy

LEMMA ArmTidy ==
  ASSUME Tidy, NEW h \in Holds, ArmLeave(h)
  PROVE  Tidy'
<1> DEFINE k == Broken(keeper[h])
<1>1. k \in Tasks /\ NoId \in Ids \cup {NoId}
  BY TidyParts DEF Broken, Tasks
<1>2. AfterArm(k) \in Ats \ ({"none"} \cup Starting)
  BY DEF AfterArm, Ats, Starting, Running, Working
<1>3. keeper[h].at \notin {"none", "supersede"} /\ slot' \in {slot, h} /\ faults' = faults
  BY TidyParts DEF ArmLeave, Broken, Tasks
<1>4. AfterArm(k) # "send_leave"
  BY DEF AfterArm
<1> HIDE DEF k
<1>5. ASSUME NEW r \in Tasks, Goes(h, r, AfterArm(k)), ServerOK' PROVE Tidy'
  BY <1>2, <1>3, <1>4, <1>5, AliveTidy
<1>6. CASE \E i \in Ids : Schedules(h, i) /\ Goes(h, Armed(k, i, RestartEvery), AfterArm(k))
  <2>1. PICK i \in Ids : Schedules(h, i) /\ Goes(h, Armed(k, i, RestartEvery), AfterArm(k))
    BY <1>6
  <2>2. Armed(k, i, RestartEvery) \in Tasks
    BY <1>1, Timings, TaskOps
  <2>3. ServerOK'
    BY <2>1, TidyParts, LeaveTypes
  <2> QED BY <1>5, <2>1, <2>2, <2>3
<1>7. CASE UNCHANGED server /\ Goes(h, Disabled(k), AfterArm(k))
  <2>1. Disabled(k) \in Tasks
    BY <1>1, Timings, TaskOps
  <2>2. ServerOK'
    BY <1>7, TidyParts DEF server, ServerOK
  <2> QED BY <1>5, <1>7, <2>1, <2>2
<1>8. CASE Errs(h) /\ Goes(h, Unarmed(k, RetryAfter), AfterArm(k))
  <2>1. Unarmed(k, RetryAfter) \in Tasks
    BY <1>1, Timings, TaskOps
  <2>2. ServerOK'
    BY <1>8, UnheardTypes
  <2> QED BY <1>5, <1>8, <2>1, <2>2
<1> QED BY <1>6, <1>7, <1>8 DEF ArmLeave, k

\* What the keeper makes of its record.
LEMMA WorkTasks ==
  ASSUME Tidy, NEW h \in Holds
  PROVE  LET k == keeper[h] IN
         /\ k \in Tasks /\ RetryRefresh(k) \in Tasks /\ Unarmed(k, 0) \in Tasks
         /\ [k EXCEPT !.chain = "anchored"] \in Tasks /\ [k EXCEPT !.chain = "none"] \in Tasks
         /\ [k EXCEPT !.valid = Minus(Expiry, k.age), !.refresh = RefreshEvery] \in Tasks
         /\ \A c \in Anchors : Rejoined(k, c, 0) \in Tasks
         /\ Rejoined(k, "anchored", k.age) \in Tasks
         /\ \A t \in Nat : Armed(k, k.id, t) \in Tasks
         /\ [k EXCEPT !.id = NoId] \in Tasks /\ [k EXCEPT !.taken = NoId] \in Tasks
<1> DEFINE k == keeper[h]
<1>1. k \in Tasks /\ k.age \in Nat /\ 0 \in Nat /\ k.id \in Ids \cup {NoId}
  BY TidyParts DEF Tasks
<1>2. Minus(Expiry, k.age) \in Nat /\ RefreshEvery \in Nat
  BY <1>1, Timings, MinusBound
<1>3. \A c \in Anchors : c \in {"none", "unanchored", "anchored"}
  BY DEF Anchors
<1> HIDE DEF k
<1>4. /\ RetryRefresh(k) \in Tasks /\ Unarmed(k, 0) \in Tasks
      /\ \A c \in Anchors : Rejoined(k, c, 0) \in Tasks
      /\ Rejoined(k, "anchored", k.age) \in Tasks
      /\ \A t \in Nat : Armed(k, k.id, t) \in Tasks
  BY <1>1, <1>3, TaskOps
<1>5. /\ [k EXCEPT !.chain = "anchored"] \in Tasks /\ [k EXCEPT !.chain = "none"] \in Tasks
      /\ [k EXCEPT !.valid = Minus(Expiry, k.age), !.refresh = RefreshEvery] \in Tasks
      /\ [k EXCEPT !.id = NoId] \in Tasks /\ [k EXCEPT !.taken = NoId] \in Tasks
  BY <1>1, <1>2 DEF Tasks
<1> QED BY <1>1, <1>4, <1>5 DEF k

LEMMA WorkTidy ==
  ASSUME Tidy, NEW h \in Holds,
         \/ StartLeaveWork(h) \/ StartRefresh(h) \/ Refresh(h) \/ Rejoin(h) \/ StartInPlace(h)
         \/ RejoinInPlace(h) \/ RestartLeave(h) \/ Check(h)
  PROVE  Tidy'
<1> DEFINE k == keeper[h]
<1>1. k.at \in Running /\ slot' = slot /\ faults' = faults
  BY DEF StartLeaveWork, StartRefresh, Refresh, Rejoin, StartInPlace, RejoinInPlace,
         RestartLeave, Check, Idle, Running, Working
<1>2. ASSUME NEW r \in Tasks, NEW to \in Running, Goes(h, r, to), ServerOK' PROVE Tidy'
  <2>1. k.at \notin {"none", "supersede"}
    BY <1>1 DEF Running, Working
  <2>2. to \in Ats \ ({"none"} \cup Starting) /\ to # "send_leave"
    BY DEF Ats, Starting, Running, Working
  <2> QED BY <1>1, <1>2, <2>1, <2>2, AliveTidy
<1>3. /\ {"idle", "arm", "restart", "check", "rearm", "rearm_gone"} \subseteq Running
      /\ {"rejoin", "refresh", "in_place"} \subseteq Running
  BY DEF Running, Working
<1>4. k \in Tasks
  BY WorkTasks
<1>5. ASSUME UNCHANGED server PROVE ServerOK'
  BY <1>5, TidyParts DEF server, ServerOK
<1>6. CASE StartLeaveWork(h)
  BY <1>2, <1>3, <1>4, <1>5, <1>6 DEF StartLeaveWork
<1>7. CASE StartRefresh(h)
  BY <1>2, <1>3, <1>5, <1>7, WorkTasks DEF StartRefresh
<1>8. CASE Refresh(h)
  <2>1. ServerOK'
    BY <1>8, TidyParts, PublishTypes, UnheardTypes DEF Refresh
  <2> QED BY <1>2, <1>3, <1>8, <2>1, WorkTasks DEF Refresh
<1>9. CASE Rejoin(h)
  <2>1. ServerOK'
    BY <1>9, TidyParts, PublishTypes, UnheardTypes DEF Rejoin
  <2> QED BY <1>2, <1>3, <1>9, <2>1, WorkTasks DEF Rejoin
<1>10. CASE StartInPlace(h)
  BY <1>2, <1>3, <1>4, <1>5, <1>10 DEF StartInPlace
<1>11. CASE RejoinInPlace(h)
  <2>1. ServerOK'
    BY <1>11, TidyParts, PublishTypes, UnheardTypes DEF RejoinInPlace
  <2> QED BY <1>2, <1>3, <1>11, <2>1, WorkTasks DEF RejoinInPlace
<1>12. CASE RestartLeave(h)
  <2>1. ServerOK'
    BY <1>12, TidyParts, LeaveTypes, UnheardTypes DEF RestartLeave
  <2> QED BY <1>2, <1>3, <1>12, <2>1, WorkTasks, Timings DEF RestartLeave
<1>13. CASE Check(h)
  BY <1>2, <1>3, <1>5, <1>13, WorkTasks DEF Check
<1> QED BY <1>6, <1>7, <1>8, <1>9, <1>10, <1>11, <1>12, <1>13

LEMMA EndTidy ==
  ASSUME Tidy, NEW h \in Holds, End(h)
  PROVE  Tidy'
<1> DEFINE k == keeper[h]
           rest == [New EXCEPT !.cmd = k.cmd, !.taken = k.id]
<1>1. k.at \in Running \cup Stopping /\ slot' = slot /\ faults' = faults
  BY DEF End, Stop, SendLeave, ClearMember, HandOver, Stopping
<1>2. ASSUME NEW r \in Tasks, NEW to \in Stopping \cup Over, to = "send_leave" => r.taken \in Ids,
             Goes(h, r, to), ServerOK'
      PROVE  Tidy'
  <2>1. k.at \notin {"none", "supersede"}
    BY <1>1 DEF Running, Working, Stopping
  <2>2. to \in Ats \ ({"none"} \cup Starting)
    BY DEF Ats, Starting, Stopping, Over
  <2> QED BY <1>1, <1>2, <2>1, <2>2, AliveTidy
<1>3. /\ {"send_leave", "clear", "hand_over"} \subseteq Stopping
      /\ {"left", "gone", "failed"} \subseteq Over
  BY DEF Stopping, Over
<1>4. k \in Tasks /\ k.id \in Ids \cup {NoId} /\ k.taken \in Ids \cup {NoId}
      /\ k.cmd \in {"hold", "leave", "hand_over"}
  BY TidyParts DEF Tasks
<1> HIDE DEF k
<1>5. New \in Tasks /\ rest \in Tasks /\ rest.taken = k.id /\ [New EXCEPT !.id = k.taken] \in Tasks
      /\ [k EXCEPT !.taken = NoId] \in Tasks
  BY <1>4 DEF New, Tasks
<1>6. CASE Stop(h)
  <2>1. ServerOK'
    BY <1>6, UnheardTypes DEF Stop
  <2>2. \E to \in {"send_leave", "clear", "gone", "hand_over"} :
           /\ Goes(h, rest, to)
           /\ to = "send_leave" => k.id # NoId
    BY <1>6 DEF Stop, k
  <2> QED BY <1>2, <1>3, <1>4, <1>5, <2>1, <2>2
<1>7. CASE SendLeave(h)
  <2>1. k.taken \in Ids
    BY <1>7 DEF SendLeave, Tidy, Takes, k
  <2>2. ServerOK'
    BY <1>7, <2>1, TidyParts, LeaveTypes, UnheardTypes DEF SendLeave, k
  <2> QED BY <1>2, <1>3, <1>5, <1>7, <2>2 DEF SendLeave, k
<1>8. CASE ClearMember(h)
  <2>1. ServerOK'
    <3>1. Cleared(h) /\ UNCHANGED delayed => delayed' \in [Ids -> Leaves]
      BY TidyParts DEF ServerOK
    <3> QED BY <1>8, <3>1, TidyParts, ClearTypes, UnheardTypes DEF ClearMember
  <2> QED BY <1>2, <1>3, <1>5, <1>8, <2>1 DEF ClearMember
<1>9. CASE HandOver(h)
  <2>1. ServerOK'
    BY <1>9, TidyParts, LeaveTypes, UnheardTypes DEF HandOver
  <2> QED BY <1>2, <1>3, <1>5, <1>9, <2>1 DEF HandOver, k
<1> QED BY <1>6, <1>7, <1>8, <1>9 DEF End

LEMMA LeaveTidy ==
  ASSUME Tidy, NEW h \in Holds, Leave(h)
  PROVE  Tidy'
<1>1. [keeper[h] EXCEPT !.cmd = "leave"] \in Tasks
  BY TidyParts DEF Tasks
<1>2. /\ keeper' \in [Holds -> Tasks]
      /\ \A g \in Holds : keeper'[g].at = keeper[g].at /\ keeper'[g].taken = keeper[g].taken
  BY <1>1, TidyParts DEF Leave, Tasks
<1>3. slot = 0 \/ slot \in Holds
  BY TidyParts DEF Holds
<1>4. TypeOK'
  BY <1>2 DEF Leave, server, Tidy, TypeOK
<1>5. Takes' /\ InTurn' /\ Slotted'
  BY <1>2, <1>3 DEF Leave, Tidy, Takes, InTurn, Slotted
<1> QED BY <1>4, <1>5 DEF Tidy

LEMMA ExpireTidy ==
  ASSUME Tidy, NEW i \in Ids, Expire(i)
  PROVE  Tidy'
<1>1. Fires(i) /\ UNCHANGED <<faults, keeper, slot>>
  BY DEF Expire
<1>2. ServerOK
  BY DEF Tidy, TypeOK, ServerOK, Leaves
<1>3. delayed' \in [Ids -> Leaves] /\ delayed[i].by \in 0..MaxHolds
  BY <1>1, <1>2, Timings DEF Fires, Leaves, NoLeave, ServerOK
<1>4. ServerOK'
  BY <1>1, <1>2, <1>3, ClearTypes DEF Fires
<1>5. TypeOK'
  BY <1>1, <1>4 DEF Tidy, TypeOK, ServerOK, Leaves
<1> QED BY <1>1, <1>5 DEF Tidy, Takes, InTurn, Slotted

\* Time leaves everything but the timers alone.
Ticked(k) == [k EXCEPT !.refresh = Minus(@, 1), !.valid = Minus(@, 1), !.leaveIn = Minus(@, 1),
                       !.age = IF k.at \in InFlight /\ @ < Expiry THEN @ + 1 ELSE @]

LEMMA TickTask ==
  ASSUME NEW k \in Tasks
  PROVE  /\ Ticked(k) \in Tasks
         /\ Ticked(k).at = k.at /\ Ticked(k).id = k.id /\ Ticked(k).taken = k.taken
         /\ Ticked(k).leave = k.leave
<1>1. k.refresh \in Nat /\ k.valid \in Nat /\ k.leaveIn \in Nat /\ k.age \in Nat
  BY DEF Tasks
<1>2. Minus(k.refresh, 1) \in Nat /\ Minus(k.valid, 1) \in Nat /\ Minus(k.leaveIn, 1) \in Nat
  BY <1>1, MinusBound
<1> DEFINE age == IF k.at \in InFlight /\ k.age < Expiry THEN k.age + 1 ELSE k.age
<1>3. age \in Nat
  BY <1>1
<1>4. Ticked(k) = [k EXCEPT !.refresh = Minus(k.refresh, 1), !.valid = Minus(k.valid, 1),
                            !.leaveIn = Minus(k.leaveIn, 1), !.age = age]
  BY DEF Ticked, Tasks
<1> HIDE DEF age
<1> QED BY <1>2, <1>3, <1>4 DEF Tasks

LEMMA TickKeepers ==
  ASSUME keeper \in [Holds -> Tasks], Tick
  PROVE  /\ keeper' \in [Holds -> Tasks]
         /\ \A h \in Holds : keeper'[h] = Ticked(keeper[h])
<1>1. keeper' = [h \in Holds |-> Ticked(keeper[h])]
  BY DEF Tick, Ticked
<1> QED BY <1>1, TickTask

LEMMA TickTidy ==
  ASSUME Tidy, Tick
  PROVE  Tidy'
<1>1. keeper \in [Holds -> Tasks] /\ ServerOK /\ (slot = 0 \/ slot \in Holds)
  BY DEF Tidy, TypeOK, ServerOK, Leaves, Holds
<1>2. /\ keeper' \in [Holds -> Tasks]
      /\ \A h \in Holds : keeper'[h].at = keeper[h].at /\ keeper'[h].taken = keeper[h].taken
  BY <1>1, TickKeepers, TickTask
<1>3. member' \in [by : 0..MaxHolds, left : 0..Expiry]
  <2>1. member.left \in 0..Expiry /\ member' = [member EXCEPT !.left = Minus(member.left, 1)]
    BY <1>1 DEF Tick, ServerOK
  <2>2. Minus(member.left, 1) \in 0..Expiry
    BY <2>1, Timings DEF Minus
  <2> QED BY <1>1, <2>1, <2>2 DEF ServerOK
<1>4. delayed' \in [Ids -> Leaves]
  <2>1. \A l \in Leaves : [l EXCEPT !.left = Minus(l.left, 1)] \in Leaves
    <3> SUFFICES ASSUME NEW l \in Leaves PROVE [l EXCEPT !.left = Minus(l.left, 1)] \in Leaves
      OBVIOUS
    <3>1. l.left \in 0..LeaveDelay
      BY DEF Leaves
    <3>2. Minus(l.left, 1) \in 0..LeaveDelay
      BY <3>1, Timings DEF Minus
    <3> QED BY <3>2 DEF Leaves
  <2>2. delayed' = [i \in Ids |-> [delayed[i] EXCEPT !.left = Minus(delayed[i].left, 1)]]
    BY <1>1 DEF Tick, ServerOK, Leaves
  <2> QED BY <1>1, <2>1, <2>2 DEF ServerOK
<1>5. UNCHANGED <<faults, slot, spent, writer>>
  BY DEF Tick
<1>6. TypeOK'
  BY <1>2, <1>3, <1>4, <1>5 DEF Tidy, TypeOK, Leaves
<1>7. Takes' /\ InTurn' /\ Slotted'
  BY <1>1, <1>2, <1>5 DEF Tidy, Takes, InTurn, Slotted
<1> QED BY <1>6, <1>7 DEF Tidy

LEMMA InitTidy == Init => Tidy
<1> SUFFICES ASSUME Init PROVE Tidy
  OBVIOUS
<1>1. New \in Tasks /\ MaxHolds \in Nat /\ 0 \in 0..Expiry /\ 0 \in 0..LeaveDelay
  BY NewTask, Timings
<1>2. TypeOK
  BY <1>1 DEF Init, TypeOK, Empty, NoLeave
<1>3. \A h \in Holds : keeper[h].at = "none"
  BY DEF Init, New
<1>4. Takes /\ InTurn /\ Slotted
  BY <1>3 DEF Init, Takes, InTurn, Slotted
<1> QED BY <1>2, <1>4 DEF Tidy

LEMMA NextTidy == Tidy /\ [Next]_vars => Tidy'
<1> SUFFICES ASSUME Tidy, [Next]_vars PROVE Tidy'
  OBVIOUS
<1>1. ASSUME NEW h \in Holds, Start(h) PROVE Tidy'
  BY <1>1, HoldTidy, SupersedeTidy, CancelJoinTidy DEF Start
<1>2. ASSUME NEW h \in Holds, Work(h) \/ StartInPlace(h) PROVE Tidy'
  BY <1>2, ArmTidy, WorkTidy DEF Work
<1>3. ASSUME NEW h \in Holds, Leave(h) PROVE Tidy'
  BY <1>3, LeaveTidy
<1>4. ASSUME NEW h \in Holds, End(h) PROVE Tidy'
  BY <1>4, EndTidy
<1>5. ASSUME NEW i \in Ids, Expire(i) PROVE Tidy'
  BY <1>5, ExpireTidy
<1>6. CASE Tick
  BY <1>6, TickTidy
<1>7. CASE UNCHANGED vars
  BY <1>7 DEF vars, Tidy, TypeOK, Takes, InTurn, Slotted
<1> QED BY <1>1, <1>2, <1>3, <1>4, <1>5, <1>6, <1>7 DEF Next

\* The keepers, the delayed leaves and the member are always of their types: no
\* timer of Schedule runs below zero, whatever fails and however long a
\* request takes.
THEOREM KeeperTypes == Spec => []TypeOK
<1>1. Tidy => TypeOK
  BY DEF Tidy
<1> QED BY <1>1, InitTidy, NextTidy, PTL DEF Spec

-----------------------------------------------------------------------------
(* Superseded holds are silent *)

Alive == Running \cup Stopping

\* Only the hold in the slot is alive, and every hold after it only starts.
OneAlive ==
  /\ \A h \in Holds : keeper[h].at \in Alive => slot = h
  /\ slot # 0 => /\ keeper[slot].at \notin Fresh
                 /\ \A h \in Holds : h > slot => keeper[h].at \in Fresh
  /\ \A h \in Holds : keeper[h].at \in Starting => slot < h
  /\ \A h \in Holds : keeper[h].at \in Starting \ {"supersede"} /\ slot # 0 =>
       keeper[slot].at \in Over

\* Which ids of delayed leaves a hold may have.
Good(k) ==
  /\ k.at \in (Fresh \ {"cancel"}) \cup (Over \ {"gone"}) \cup {"clear"} =>
       k.id = NoId /\ k.taken = NoId
  /\ k.at \in Stopping \cup {"cancel"} => k.id = NoId
  /\ k.at \in Running \cup {"gone"} => k.taken = NoId
  /\ k.at \in {"arm", "check", "rearm", "rearm_gone"} => k.id = NoId
  /\ k.at \in Running /\ k.leave # "armed" => k.id = NoId
Hygiene == \A h \in Holds : Good(keeper[h])

\* A leave that is pending is that of the hold in the slot, and known to it
\* while the next one waits for it, or else to the next one.
Waiting == \A h \in Holds : h > slot => keeper[h].at \in {"none", "supersede"}

Known ==
  \A i \in Ids : Pending(i) =>
    /\ slot # 0 /\ delayed[i].by = slot
    /\ \/ Waiting /\ i \in {keeper[slot].id, keeper[slot].taken}
       \/ \E h \in Holds : keeper[h].at = "cancel" /\ keeper[h].taken = i

\* Who has written has published.
Wrote == writer # 0 => keeper[writer].at \notin {"none", "supersede", "cancel", "join"}

Safe == OneAlive /\ Hygiene /\ Known /\ Wrote

\* No delayed leave is pending that nobody knows of.
Calm == Without(Orphans)

LEMMA CalmMeans ==
  ASSUME Calm
  PROVE  "stray" \notin faults /\ "abort" \notin faults /\ "cancel" \notin faults
         /\ "send_leave" \notin faults
  BY DEF Calm, Without, Orphans

LEMMA CalmUnheard ==
  ASSUME Calm, NEW h, Unheard(h) \/ Errs(h)
  PROVE  UNCHANGED server
  BY CalmMeans DEF Unheard, Errs

\* While a keeper is alive, the next hold only waits, and whatever is pending
\* is the keeper's own.
LEMMA AliveAlone ==
  ASSUME Tidy, Safe, NEW h \in Holds, keeper[h].at \in Alive
  PROVE  /\ slot = h /\ h # 0 /\ Waiting /\ writer <= h
         /\ \A g \in Holds : keeper[g].at \notin Starting \ {"supersede"}
         /\ \A i \in Ids : Pending(i) =>
              delayed[i].by = h /\ i \in {keeper[h].id, keeper[h].taken}
<1>1. slot = h /\ h # 0 /\ h \in Nat /\ writer \in Nat
  BY DEF Safe, OneAlive, Holds, Tidy, TypeOK
<1>2. keeper[h].at \notin Over
  BY DEF Alive, Running, Working, Stopping, Over
<1>3. \A g \in Holds : keeper[g].at \notin Starting \ {"supersede"}
  BY <1>1, <1>2 DEF Safe, OneAlive
<1>4. Waiting
  BY <1>1, <1>3 DEF Safe, OneAlive, Waiting, Fresh
<1>5. ASSUME NEW i \in Ids, Pending(i)
      PROVE  delayed[i].by = h /\ i \in {keeper[h].id, keeper[h].taken}
  BY <1>1, <1>3, <1>5 DEF Safe, Known, Starting
<1>6. writer <= h
  <2>1. CASE writer = 0
    BY <1>1, <2>1
  <2>2. CASE writer # 0
    <3>1. writer \in Holds
      BY <2>2 DEF Tidy, TypeOK, Holds
    <3>2. ~(writer > slot)
      BY <1>4, <2>2, <3>1 DEF Safe, Wrote, Waiting
    <3> QED BY <1>1, <3>1, <3>2
  <2> QED BY <2>1, <2>2
<1> QED BY <1>1, <1>3, <1>4, <1>5, <1>6

\* A step of the hold that is alive keeps the order, if what is pending after it
\* is its own and known to it.
LEMMA OwnStep ==
  ASSUME Tidy, Safe, NEW h \in Holds, keeper[h].at \in Alive, slot' = slot,
         NEW r \in Tasks, r.at \in Alive \cup Over, Good(r),
         keeper' = [keeper EXCEPT ![h] = r],
         \A i \in Ids : Pending(i)' => delayed'[i].by = h /\ i \in {r.id, r.taken},
         writer' \in {writer, h}
  PROVE  Safe' /\ writer' >= writer
<1>1. /\ slot = h /\ h # 0 /\ h \in Nat /\ Waiting /\ writer <= h /\ writer \in Nat
      /\ \A g \in Holds : keeper[g].at \notin Starting \ {"supersede"}
  BY AliveAlone DEF Holds, Tidy, TypeOK
<1>2. keeper'[h] = r /\ \A g \in Holds \ {h} : keeper'[g] = keeper[g]
  BY DEF Tidy, TypeOK
<1>3. r.at \notin Fresh /\ r.at \notin Starting
      /\ r.at \notin {"none", "supersede", "cancel", "join"}
  BY DEF Alive, Running, Working, Stopping, Over, Fresh, Starting
<1>4. OneAlive'
  <2>1. \A g \in Holds : keeper'[g].at \in Alive => slot' = g
    BY <1>1, <1>2 DEF Safe, OneAlive
  <2>2. keeper'[slot'].at \notin Fresh
    BY <1>1, <1>2, <1>3
  <2>3. \A g \in Holds : g > slot' => keeper'[g].at \in Fresh
    BY <1>1, <1>2 DEF Safe, OneAlive
  <2>4. \A g \in Holds : keeper'[g].at \in Starting => slot' < g
    BY <1>1, <1>2, <1>3 DEF Safe, OneAlive
  <2>5. \A g \in Holds : keeper'[g].at \notin Starting \ {"supersede"}
    BY <1>1, <1>2, <1>3
  <2> QED BY <2>1, <2>2, <2>3, <2>4, <2>5 DEF OneAlive
<1>5. Hygiene'
  BY <1>2 DEF Safe, Hygiene
<1>6. Waiting'
  BY <1>1, <1>2 DEF Waiting
<1>7. Known'
  <2> SUFFICES ASSUME NEW i \in Ids, Pending(i)'
               PROVE  /\ slot' # 0 /\ delayed'[i].by = slot'
                      /\ Waiting' /\ i \in {keeper'[slot'].id, keeper'[slot'].taken}
    BY DEF Known
  <2> QED BY <1>1, <1>2, <1>6
<1>8. Wrote'
  BY <1>1, <1>2, <1>3 DEF Safe, Wrote, Tidy, TypeOK, Holds
<1>9. writer' >= writer
  BY <1>1
<1> QED BY <1>4, <1>5, <1>7, <1>8, <1>9 DEF Safe

\* From one await of a running keeper to another.
LEMMA RunsOn ==
  ASSUME Tidy, Safe, NEW h \in Holds, keeper[h].at \in Running, slot' = slot,
         NEW k \in Tasks, NEW to \in Running, Goes(h, k, to), k.taken = NoId,
         to \in {"arm", "check", "rearm", "rearm_gone"} \/ k.leave # "armed" => k.id = NoId,
         \A i \in Ids : Pending(i)' => delayed'[i].by = h /\ i = k.id,
         writer' \in {writer, h}
  PROVE  Safe' /\ writer' >= writer
<1> DEFINE r == [k EXCEPT !.at = to, !.age = 0]
<1>1. /\ r \in Tasks /\ r.at = to /\ r.id = k.id /\ r.taken = k.taken /\ r.leave = k.leave
      /\ keeper' = [keeper EXCEPT ![h] = r]
  BY DEF Goes, Tasks
<1>2. to \notin Fresh \cup Over \cup Stopping /\ to \in Alive /\ keeper[h].at \in Alive
  BY DEF Fresh, Starting, Over, Stopping, Running, Working, Alive
<1> HIDE DEF r
<1>3. Good(r)
  BY <1>1, <1>2 DEF Good, Stopping, Over, Fresh, Starting
<1> QED BY <1>1, <1>2, <1>3, OwnStep

\* What a running keeper knows.
LEMMA RunFacts ==
  ASSUME Tidy, Safe, NEW h \in Holds, keeper[h].at \in Running
  PROVE  LET k == keeper[h] IN
         /\ k \in Tasks /\ k.taken = NoId
         /\ k.at \in {"arm", "check", "rearm", "rearm_gone"} \/ k.leave # "armed" => k.id = NoId
         /\ \A i \in Ids : Pending(i) => delayed[i].by = h /\ i = k.id
<1> DEFINE k == keeper[h]
<1>1. /\ k.taken = NoId
      /\ k.at \in {"arm", "check", "rearm", "rearm_gone"} \/ k.leave # "armed" => k.id = NoId
  BY DEF Safe, Hygiene, Good
<1>2. k.at \in Alive /\ k \in Tasks
  BY TidyParts DEF Alive
<1>3. \A i \in Ids : Pending(i) => delayed[i].by = h /\ i = k.id
  BY <1>1, <1>2, AliveAlone, Timings
<1> QED BY <1>1, <1>2, <1>3

\* With the leaves as they are, or this keeper's own put off, every pending
\* one remains its own.
LEMMA SameLeaves ==
  ASSUME Tidy, Safe, NEW h \in Holds, keeper[h].at \in Running,
         \/ delayed' = delayed
         \/ \E i : delayed' = [delayed EXCEPT ![i].left = LeaveDelay]
  PROVE  \A i \in Ids : Pending(i)' => delayed'[i].by = h /\ i = keeper[h].id
<1>1. \A i \in Ids : delayed'[i].by = delayed[i].by
  <2>1. delayed \in [Ids -> Leaves]
    BY DEF Tidy, TypeOK, Leaves
  <2> QED BY <2>1 DEF Leaves
<1> QED BY <1>1, RunFacts DEF Pending

LEMMA ArmSafe ==
  ASSUME Tidy, Safe, Calm, NEW h \in Holds, ArmLeave(h), keeper[h].at # "start_arm"
  PROVE  Safe' /\ writer' >= writer
<1> DEFINE k == Broken(keeper[h])
<1>1. keeper[h].at \in {"arm", "rearm", "rearm_gone"} /\ slot' = slot
  BY TidyParts DEF ArmLeave, Broken, Tasks
<1>2. keeper[h].at \in Running
  BY <1>1 DEF Running, Working
<1>3. k \in Tasks /\ k.id = NoId /\ k.taken = NoId
  BY <1>1, <1>2, RunFacts DEF Broken, Tasks
<1>4. \A i \in Ids : ~Pending(i)
  BY <1>1, <1>2, RunFacts, Timings
<1>5. AfterArm(k) \in Running /\ AfterArm(k) \notin {"arm", "check", "rearm", "rearm_gone"}
  BY DEF AfterArm, Running, Working
<1> HIDE DEF k
<1>6. CASE \E i \in Ids : Schedules(h, i) /\ Goes(h, Armed(k, i, RestartEvery), AfterArm(k))
  <2>1. PICK i \in Ids : Schedules(h, i) /\ Goes(h, Armed(k, i, RestartEvery), AfterArm(k))
    BY <1>6
  <2>2. Armed(k, i, RestartEvery) \in Tasks
    BY <1>3, Timings, TaskOps
  <2>3. /\ Armed(k, i, RestartEvery).id = i /\ Armed(k, i, RestartEvery).taken = NoId
        /\ Armed(k, i, RestartEvery).leave = "armed"
    BY <1>3 DEF Armed, Tasks
  <2>4. \A j \in Ids : Pending(j)' => delayed'[j].by = h /\ j = i
    BY <1>4, <2>1 DEF Schedules, Pending, Tidy, TypeOK
  <2>5. writer' = writer
    BY <2>1 DEF Schedules
  <2> QED BY <1>1, <1>2, <1>5, <2>1, <2>2, <2>3, <2>4, <2>5, RunsOn
<1>7. ASSUME NEW r \in Tasks, r.id = NoId, r.taken = NoId, UNCHANGED server, Goes(h, r, AfterArm(k))
      PROVE  Safe' /\ writer' >= writer
  <2>1. writer' = writer /\ \A i \in Ids : ~Pending(i)'
    BY <1>4, <1>7 DEF server, Pending
  <2> QED BY <1>1, <1>2, <1>5, <1>7, <2>1, RunsOn
<1>8. Disabled(k) \in Tasks /\ Unarmed(k, RetryAfter) \in Tasks
  BY <1>3, Timings, TaskOps
<1>9. /\ Disabled(k).id = NoId /\ Disabled(k).taken = NoId
      /\ Unarmed(k, RetryAfter).id = NoId /\ Unarmed(k, RetryAfter).taken = NoId
  BY <1>3 DEF Disabled, Unarmed, Tasks
<1> QED BY <1>6, <1>7, <1>8, <1>9, CalmUnheard DEF ArmLeave, k

\* What the keeper writes into its record leaves the ids alone.
SameIds(a, b) == a.id = b.id /\ a.taken = b.taken /\ a.leave = b.leave

LEMMA WorkFields ==
  ASSUME NEW k \in Tasks, NEW c, NEW t, NEW u
  PROVE  /\ SameIds(RetryRefresh(k), k) /\ SameIds(Rejoined(k, c, t), k)
         /\ SameIds([k EXCEPT !.chain = c], k)
         /\ SameIds([k EXCEPT !.valid = t, !.refresh = u], k)
         /\ Armed(k, k.id, t).id = k.id /\ Armed(k, k.id, t).taken = k.taken
         /\ Armed(k, k.id, t).leave = "armed"
         /\ Unarmed(k, t).id = k.id /\ Unarmed(k, t).taken = k.taken
         /\ [k EXCEPT !.id = NoId].id = NoId /\ [k EXCEPT !.id = NoId].taken = k.taken
         /\ [k EXCEPT !.taken = NoId].taken = NoId /\ [k EXCEPT !.taken = NoId].id = k.id
  BY DEF Tasks, SameIds, RetryRefresh, Rejoined, Armed, Unarmed

LEMMA WorkSafe ==
  ASSUME Tidy, Safe, Calm, NEW h \in Holds,
         \/ StartLeaveWork(h) \/ StartRefresh(h) \/ Refresh(h) \/ Rejoin(h) \/ StartInPlace(h)
         \/ RejoinInPlace(h) \/ RestartLeave(h) \/ Check(h)
  PROVE  Safe' /\ writer' >= writer
<1> DEFINE k == keeper[h]
           Keeps(r, to) == SameIds(r, k) /\ to \notin {"arm", "check", "rearm", "rearm_gone"}
<1>1. k.at \in Running /\ slot' = slot /\ k \in Tasks
  BY TidyParts
  DEF StartLeaveWork, StartRefresh, Refresh, Rejoin, StartInPlace, RejoinInPlace,
      RestartLeave, Check, Idle, Running, Working
<1>2. /\ {"idle", "arm", "restart", "check", "rearm", "rearm_gone"} \subseteq Running
      /\ {"rejoin", "refresh", "in_place"} \subseteq Running
  BY DEF Running, Working
<1>3. ASSUME UNCHANGED server PROVE writer' \in {writer, h} /\ delayed' = delayed
  BY <1>3 DEF server
<1>4. ASSUME NEW left, NewChain(h, left) \/ SameChain(h, left)
      PROVE  writer' \in {writer, h} /\ delayed' = delayed
  BY <1>4 DEF NewChain, SameChain, Published
<1>5. ASSUME NEW r \in Tasks, NEW to \in Running, Goes(h, r, to), Keeps(r, to),
             writer' \in {writer, h}, delayed' = delayed
      PROVE  Safe' /\ writer' >= writer
  BY <1>1, <1>5, RunFacts, SameLeaves, RunsOn DEF SameIds
<1>6. CASE StartLeaveWork(h)
  <2>1. UNCHANGED server /\ Goes(h, k, IF k.leave = "armed" THEN "restart" ELSE "arm")
    BY <1>6 DEF StartLeaveWork
  <2>2. CASE k.leave = "armed"
    <3>1. Keeps(k, "restart") /\ Goes(h, k, "restart")
      BY <2>1, <2>2 DEF SameIds
    <3> QED BY <1>1, <1>2, <1>3, <1>5, <2>1, <3>1
  <2>3. CASE k.leave # "armed"
    BY <1>1, <1>2, <1>3, <2>1, <2>3, RunFacts, SameLeaves, RunsOn
  <2> QED BY <2>2, <2>3
<1>7. CASE StartRefresh(h)
  <2> DEFINE a == [k EXCEPT !.chain = "anchored"]
             b == [k EXCEPT !.chain = "none"]
  <2>1. a \in Tasks /\ b \in Tasks /\ Keeps(a, "refresh") /\ Keeps(b, "rejoin")
    BY <1>1, WorkTasks, WorkFields
  <2>2. UNCHANGED server /\ (Goes(h, a, "refresh") \/ Goes(h, b, "rejoin"))
    BY <1>7 DEF StartRefresh
  <2> HIDE DEF a, b, k, Keeps
  <2> QED BY <1>2, <1>3, <1>5, <2>1, <2>2
<1>8. RetryRefresh(k) \in Tasks /\ Keeps(RetryRefresh(k), "idle") /\ Keeps(k, "idle")
  BY <1>1, WorkTasks, WorkFields DEF SameIds
<1>9. CASE Refresh(h)
  <2> DEFINE a == [k EXCEPT !.valid = Minus(Expiry, k.age), !.refresh = RefreshEvery]
  <2>1. a \in Tasks /\ Keeps(a, "idle")
    BY <1>1, WorkTasks, WorkFields
  <2>2. \/ SameChain(h, Minus(Expiry, k.age)) /\ Goes(h, a, "idle")
        \/ UNCHANGED server /\ Goes(h, RetryRefresh(k), "idle")
    BY <1>9, CalmUnheard DEF Refresh
  <2> HIDE DEF a, k, Keeps
  <2> QED BY <1>2, <1>3, <1>4, <1>5, <1>8, <2>1, <2>2
<1>10. CASE Rejoin(h)
  <2>1. \A c \in Anchors : Rejoined(k, c, 0) \in Tasks /\ Keeps(Rejoined(k, c, 0), "idle")
    BY <1>1, WorkTasks, WorkFields
  <2>2. \/ NewChain(h, Expiry) /\ \E c \in Anchors : Goes(h, Rejoined(k, c, 0), "idle")
        \/ UNCHANGED server /\ Goes(h, RetryRefresh(k), "idle")
    BY <1>10, CalmUnheard DEF Rejoin
  <2> HIDE DEF k, Keeps
  <2> QED BY <1>2, <1>3, <1>4, <1>5, <1>8, <2>1, <2>2
<1>11. CASE StartInPlace(h)
  <2>1. Keeps(k, "in_place")
    BY DEF SameIds
  <2> QED BY <1>1, <1>2, <1>3, <1>5, <1>11, <2>1 DEF StartInPlace
<1>12. CASE RejoinInPlace(h)
  <2>1. /\ Rejoined(k, "anchored", k.age) \in Tasks
        /\ Keeps(Rejoined(k, "anchored", k.age), "idle")
    BY <1>1, WorkTasks, WorkFields
  <2>2. \/ /\ NewChain(h, Minus(Expiry, k.age))
           /\ Goes(h, Rejoined(k, "anchored", k.age), "idle")
        \/ UNCHANGED server /\ Goes(h, k, "idle")
    BY <1>12, CalmUnheard DEF RejoinInPlace
  <2> HIDE DEF k, Keeps
  <2> QED BY <1>1, <1>2, <1>3, <1>4, <1>5, <1>8, <2>1, <2>2
<1>13. CASE RestartLeave(h)
  <2>1. \A t \in Nat : /\ Armed(k, k.id, t) \in Tasks
                       /\ Armed(k, k.id, t).id = k.id /\ Armed(k, k.id, t).taken = k.taken
                       /\ Armed(k, k.id, t).leave = "armed"
    BY <1>1, WorkTasks, WorkFields
  <2>2. ASSUME NEW t \in Nat, Goes(h, Armed(k, k.id, t), "idle"), writer' = writer,
               delayed' = delayed \/ \E i : delayed' = [delayed EXCEPT ![i].left = LeaveDelay]
        PROVE  Safe' /\ writer' >= writer
    BY <1>1, <1>2, <2>1, <2>2, RunFacts, SameLeaves, RunsOn
  <2>3. CASE Restarts(k.id) /\ Goes(h, Armed(k, k.id, RestartEvery), "idle")
    BY <2>2, <2>3, Timings DEF Restarts
  <2>4. CASE NotFound(k.id) /\ Goes(h, [k EXCEPT !.id = NoId], "check")
    <3> DEFINE r == [k EXCEPT !.id = NoId]
    <3>1. r \in Tasks /\ r.id = NoId /\ r.taken = k.taken
      BY <1>1, WorkTasks, WorkFields
    <3>2. (\A i \in Ids : ~Pending(i)') /\ writer' = writer
      BY <1>1, <2>4, RunFacts DEF NotFound, server, Pending
    <3>3. Goes(h, r, "check") /\ k.taken = NoId
      BY <1>1, <2>4, RunFacts
    <3> HIDE DEF r
    <3> QED BY <1>1, <1>2, <3>1, <3>2, <3>3, RunsOn
  <2>5. CASE /\ Unheard(h)
             /\ Goes(h, Armed(k, k.id, IF RetryAfter < RestartEvery THEN RetryAfter ELSE RestartEvery),
                     "idle")
    <3>1. UNCHANGED server
      BY <2>5, CalmUnheard
    <3> QED BY <2>2, <2>5, <3>1, Timings DEF server
  <2> QED BY <1>13, <2>3, <2>4, <2>5 DEF RestartLeave
<1>14. CASE Check(h)
  <2>1. k.at = "check" /\ UNCHANGED server
        /\ \E to \in {"rearm", "rearm_gone"} : Goes(h, Unarmed(k, 0), to)
    BY <1>14 DEF Check
  <2>2. /\ Unarmed(k, 0) \in Tasks /\ Unarmed(k, 0).id = k.id /\ Unarmed(k, 0).taken = k.taken
    BY <1>1, WorkTasks, WorkFields
  <2>3. k.id = NoId /\ k.taken = NoId
    BY <1>1, <2>1, RunFacts
  <2> QED BY <1>1, <1>2, <1>3, <2>1, <2>2, <2>3, SameLeaves, RunsOn
<1> QED BY <1>6, <1>7, <1>9, <1>10, <1>11, <1>12, <1>13, <1>14

\* From one await of a keeper to one of its stop, or to its end.
LEMMA StopsOn ==
  ASSUME Tidy, Safe, NEW h \in Holds, keeper[h].at \in Alive, slot' = slot,
         NEW k \in Tasks, NEW to \in Stopping \cup Over, Goes(h, k, to),
         k.id = NoId \/ to = "gone", k.taken = NoId \/ to \in {"send_leave", "hand_over"},
         \A i \in Ids : Pending(i)' => delayed'[i].by = h /\ i \in {k.id, k.taken},
         writer' \in {writer, h}
  PROVE  Safe' /\ writer' >= writer
<1> DEFINE r == [k EXCEPT !.at = to, !.age = 0]
<1>1. /\ r \in Tasks /\ r.at = to /\ r.id = k.id /\ r.taken = k.taken
      /\ keeper' = [keeper EXCEPT ![h] = r]
  BY DEF Goes, Tasks
<1>2. to \notin Fresh \cup Running /\ to \in Alive \cup Over
  BY DEF Fresh, Starting, Over, Stopping, Running, Working, Alive
<1> HIDE DEF r
<1>3. Good(r)
  BY <1>1, <1>2 DEF Good, Stopping, Over, Running, Working, Fresh, Starting
<1> QED BY <1>1, <1>2, <1>3, OwnStep

LEMMA EndSafe ==
  ASSUME Tidy, Safe, Calm, NEW h \in Holds, End(h)
  PROVE  Safe' /\ writer' >= writer
<1> DEFINE k == keeper[h]
<1>1. /\ k.at \in Alive /\ slot' = slot /\ k \in Tasks
      /\ k.id \in Ids \cup {NoId} /\ k.taken \in Ids \cup {NoId} /\ NoId \notin Ids
  BY TidyParts, Timings DEF End, Stop, SendLeave, ClearMember, HandOver, Alive, Stopping, Tasks
<1>2. \A i \in Ids : Pending(i) => delayed[i].by = h /\ i \in {k.id, k.taken}
  BY <1>1, AliveAlone
<1>3. /\ {"send_leave", "clear", "hand_over"} \subseteq Stopping
      /\ {"left", "gone", "failed"} \subseteq Over
  BY DEF Stopping, Over
<1>4. New \in Tasks /\ New.id = NoId /\ New.taken = NoId
  BY NewTask DEF New
<1>5. ASSUME UNCHANGED server
      PROVE  /\ writer' \in {writer, h}
             /\ \A i \in Ids : Pending(i)' => delayed'[i].by = h /\ i \in {k.id, k.taken}
  BY <1>2, <1>5 DEF server, Pending
<1>6. CASE Stop(h)
  <2> DEFINE rest == [New EXCEPT !.cmd = k.cmd, !.taken = k.id]
  <2>1. rest \in Tasks /\ rest.id = NoId /\ rest.taken = k.id
    BY <1>1, <1>4 DEF Tasks, New
  <2>2. UNCHANGED server /\ k.taken = NoId
    BY <1>6, CalmUnheard, RunFacts DEF Stop
  <2>3. \E to \in {"send_leave", "clear", "gone", "hand_over"} :
           /\ Goes(h, rest, to)
           /\ k.id = NoId \/ to \in {"send_leave", "hand_over"}
    BY <1>6 DEF Stop
  <2> HIDE DEF rest, k
  <2> QED BY <1>1, <1>3, <1>5, <2>1, <2>2, <2>3, StopsOn DEF k
<1>7. ASSUME k.at \in Stopping PROVE k.id = NoId
  BY <1>7 DEF Safe, Hygiene, Good
<1>8. CASE SendLeave(h)
  <2>1. k.at = "send_leave" /\ k.id = NoId /\ k.taken \in Ids
    BY <1>3, <1>7, <1>8 DEF SendLeave, Tidy, Takes
  <2>2. CASE Fires(k.taken) /\ Goes(h, New, "left")
    <3>1. delayed' = [delayed EXCEPT ![k.taken] = NoLeave] /\ writer' = delayed[k.taken].by
          /\ Pending(k.taken)
      BY <2>2 DEF Fires, Cleared
    <3>2. \A i \in Ids : ~Pending(i)'
      BY <1>1, <1>2, <2>1, <3>1 DEF Pending, NoLeave, Tidy, TypeOK
    <3>3. writer' = h
      BY <1>2, <2>1, <3>1
    <3> QED BY <1>1, <1>3, <1>4, <2>2, <3>2, <3>3, StopsOn
  <2>3. CASE NotFound(k.taken) /\ Goes(h, [k EXCEPT !.taken = NoId], "clear")
    <3> DEFINE r == [k EXCEPT !.taken = NoId]
    <3>1. r \in Tasks /\ r.id = NoId /\ r.taken = NoId
      BY <1>1, <2>1, WorkTasks, WorkFields
    <3>2. (\A i \in Ids : ~Pending(i)') /\ writer' = writer
      BY <1>1, <1>2, <2>1, <2>3 DEF NotFound, server, Pending
    <3>3. Goes(h, r, "clear")
      BY <2>3
    <3> HIDE DEF r
    <3> QED BY <1>1, <1>3, <3>1, <3>2, <3>3, StopsOn
  <2> QED BY <1>8, <2>2, <2>3, CalmMeans DEF SendLeave
<1>9. CASE ClearMember(h)
  <2>1. k.at = "clear" /\ k.id = NoId /\ k.taken = NoId
    BY <1>9 DEF ClearMember, Safe, Hygiene, Good
  <2>2. \A i \in Ids : ~Pending(i)
    BY <1>1, <1>2, <2>1
  <2>3. delayed' = delayed /\ writer' \in {writer, h}
    BY <1>9, CalmUnheard DEF ClearMember, Cleared, server
  <2>4. \A i \in Ids : ~Pending(i)'
    BY <2>2, <2>3 DEF Pending
  <2> QED BY <1>1, <1>3, <1>4, <1>9, <2>3, <2>4, StopsOn DEF ClearMember
<1>10. CASE HandOver(h)
  <2>1. k.at = "hand_over" /\ k.id = NoId
    BY <1>3, <1>7, <1>10 DEF HandOver
  <2>2. CASE (Cancels(k.taken) \/ NotFound(k.taken)) /\ Goes(h, New, "gone")
    <3>1. (\A i \in Ids : ~Pending(i)') /\ writer' = writer
      BY <1>1, <1>2, <2>1, <2>2
      DEF Cancels, NotFound, server, Pending, NoLeave, Tidy, TypeOK
    <3> QED BY <1>1, <1>3, <1>4, <2>2, <3>1, StopsOn
  <2>3. CASE Errs(h) /\ Goes(h, [New EXCEPT !.id = k.taken], "gone")
    <3> DEFINE r == [New EXCEPT !.id = k.taken]
    <3>1. r \in Tasks /\ r.id = k.taken /\ r.taken = NoId
      BY <1>1, <1>4 DEF Tasks, New
    <3>2. UNCHANGED server
      BY <2>3, CalmUnheard
    <3>3. Goes(h, r, "gone")
      BY <2>3
    <3>4. \A i \in Ids : Pending(i)' => delayed'[i].by = h /\ i \in {r.id, r.taken}
      BY <1>1, <1>5, <2>1, <3>1, <3>2
    <3> HIDE DEF r
    <3> QED BY <1>1, <1>3, <1>5, <3>1, <3>2, <3>3, <3>4, StopsOn
  <2> QED BY <1>10, <2>2, <2>3 DEF HandOver
<1> QED BY <1>6, <1>8, <1>9, <1>10 DEF End

\* While a hold starts, it is the only one, the later ones have not begun, and
\* no keeper is alive once it has gone past the supersede.
LEMMA StartingAlone ==
  ASSUME Tidy, Safe, NEW h \in Holds, keeper[h].at \in Starting
  PROVE  /\ slot < h /\ slot \in Nat /\ h \in Nat /\ writer \in Nat /\ writer <= h
         /\ \A g \in Holds : g > h => keeper[g].at = "none"
         /\ \A g \in Holds \ {h} : keeper[g].at \notin Starting
         /\ keeper[h].at # "supersede" =>
              /\ \A g \in Holds : keeper[g].at \notin Alive
              /\ \A i \in Ids : Pending(i) => keeper[h].at = "cancel" /\ keeper[h].taken = i
<1>1. slot < h /\ slot \in Nat /\ h \in Nat /\ writer \in Nat /\ (slot = 0 \/ slot \in Holds)
  BY DEF Safe, OneAlive, Tidy, TypeOK, Holds
<1>2. \A g \in Holds : g \in Nat /\ (g > h => keeper[g].at = "none")
  BY DEF Tidy, InTurn, Fresh, Holds
<1>3. ASSUME NEW g \in Holds \ {h} PROVE keeper[g].at \notin Starting
  <2>1. keeper[h].at # "none" /\ "none" \notin Starting
    BY DEF Starting
  <2>2. CASE g < h
    BY <1>3, <2>1, <2>2 DEF Tidy, InTurn, Fresh
  <2>3. CASE g > h
    BY <1>2, <1>3, <2>1, <2>3
  <2> QED BY <1>1, <1>2, <1>3, <2>2, <2>3
<1>4. writer <= h
  <2>1. CASE writer # 0
    <3>1. writer \in Holds /\ keeper[writer].at # "none"
      BY <2>1 DEF Safe, Wrote, Tidy, TypeOK, Holds
    <3> QED BY <1>1, <1>2, <3>1
  <2> QED BY <1>1, <2>1
<1>5. ASSUME keeper[h].at # "supersede", NEW g \in Holds PROVE keeper[g].at \notin Alive
  <2> SUFFICES ASSUME keeper[g].at \in Alive PROVE FALSE
    OBVIOUS
  <2>1. slot = g /\ slot # 0
    BY DEF Safe, OneAlive, Holds
  <2>2. keeper[g].at \in Over
    BY <1>5, <2>1 DEF Safe, OneAlive
  <2> QED BY <2>2 DEF Over, Alive, Running, Working, Stopping
<1>6. ASSUME keeper[h].at # "supersede", NEW i \in Ids, Pending(i)
      PROVE  keeper[h].at = "cancel" /\ keeper[h].taken = i
  <2>1. ~Waiting
    BY <1>1, <1>6 DEF Waiting, Starting
  <2>2. PICK g \in Holds : keeper[g].at = "cancel" /\ keeper[g].taken = i
    BY <1>6, <2>1 DEF Safe, Known
  <2>3. g = h
    BY <1>3, <2>2 DEF Starting
  <2> QED BY <2>2, <2>3
<1> QED BY <1>1, <1>2, <1>3, <1>4, <1>5, <1>6

\* A start that goes on from one await to another, with nothing pending.
LEMMA StartsOn ==
  ASSUME Tidy, Safe, NEW h \in Holds, keeper[h].at \in Starting \ {"supersede"},
         NEW k \in Tasks, NEW to \in {"join", "start_arm", "failed"}, Goes(h, k, to),
         to = "join" => keeper[h].at = "cancel",
         k.id = NoId, k.taken = NoId,
         slot' \in {slot, 0}, slot' = 0 \/ to # "failed",
         \A i \in Ids : ~Pending(i)',
         writer' = writer \/ (writer' = h /\ to = "start_arm")
  PROVE  Safe' /\ writer' >= writer
<1> DEFINE r == [k EXCEPT !.at = to, !.age = 0]
<1>1. /\ r.at = to /\ r.id = NoId /\ r.taken = NoId
      /\ keeper'[h] = r /\ \A g \in Holds \ {h} : keeper'[g] = keeper[g]
  BY DEF Goes, Tasks, Tidy, TypeOK
<1> HIDE DEF r
<1>2. /\ slot < h /\ slot \in Nat /\ h \in Nat /\ writer \in Nat /\ writer <= h
      /\ \A g \in Holds : g > h => keeper[g].at = "none"
      /\ \A g \in Holds \ {h} : keeper[g].at \notin Starting
      /\ \A g \in Holds : keeper[g].at \notin Alive
  BY StartingAlone
<1>3. to \notin Alive
  BY DEF Alive, Running, Working, Stopping
<1>4. slot = 0 \/ slot \in Holds \ {h}
  BY <1>2 DEF Tidy, TypeOK, Holds
<1>5. OneAlive'
  <2>1. \A g \in Holds : keeper'[g].at \notin Alive
    BY <1>1, <1>2, <1>3
  <2>2. slot' # 0 => keeper'[slot'] = keeper[slot] /\ slot' = slot /\ slot # 0 /\ to \in Starting
    BY <1>1, <1>4 DEF Starting
  <2>3. slot' # 0 => /\ keeper'[slot'].at \notin Fresh
                     /\ \A g \in Holds : g > slot' => keeper'[g].at \in Fresh
    BY <1>1, <2>2 DEF Safe, OneAlive, Fresh
  <2>4. ASSUME NEW g \in Holds, keeper'[g].at \in Starting
        PROVE  slot' < g /\ (slot' # 0 => keeper'[slot'].at \in Over)
    <3>1. g = h
      BY <1>1, <1>2, <2>4
    <3> QED BY <1>2, <2>2, <3>1 DEF Safe, OneAlive
  <2> QED BY <2>1, <2>3, <2>4 DEF OneAlive
<1>6. Good(r)
  BY <1>1 DEF Good, Stopping, Running, Working
<1>7. Hygiene'
  BY <1>1, <1>6 DEF Safe, Hygiene
<1>8. Known'
  BY DEF Known
<1>9. Wrote'
  <2>1. CASE writer' = h /\ to = "start_arm"
    BY <1>1, <2>1 DEF Wrote
  <2>2. CASE writer' = writer
    <3>1. CASE writer = h
      <4>1. keeper[h].at = "start_arm"
        BY <1>2, <3>1 DEF Safe, Wrote, Starting, Holds
      <4>2. to # "join"
        BY <4>1
      <4> QED BY <1>1, <2>2, <3>1, <4>2 DEF Wrote
    <3>2. CASE writer # h
      BY <1>1, <2>2, <3>2 DEF Safe, Wrote, Tidy, TypeOK, Holds
    <3> QED BY <3>1, <3>2
  <2> QED BY <2>1, <2>2
<1> QED BY <1>2, <1>5, <1>7, <1>8, <1>9 DEF Safe

LEMMA HoldSafe ==
  ASSUME Tidy, Safe, NEW h \in Holds, Hold(h)
  PROVE  Safe' /\ writer' >= writer
<1>1. /\ keeper[h].at = "none" /\ slot' = slot /\ writer' = writer /\ delayed' = delayed
      /\ writer \in Nat /\ h \in Nat /\ h # 0 /\ (slot = 0 \/ slot \in Holds) /\ slot \in Nat
  BY DEF Hold, server, Tidy, TypeOK, Holds
<1>2. ASSUME slot # 0 PROVE slot < h
  <2>1. slot \in Holds /\ keeper[slot].at \notin Fresh
    BY <1>1, <1>2 DEF Safe, OneAlive
  <2>2. ~(h < slot) \/ keeper[slot].at = "none"
    BY <1>1, <2>1 DEF Tidy, InTurn, Fresh
  <2> QED BY <1>1, <2>1, <2>2 DEF Fresh, Holds
<1>3. \A g \in Holds \ {h} : keeper[g].at \notin Starting
  <2> SUFFICES ASSUME NEW g \in Holds \ {h} PROVE keeper[g].at \notin Starting
    OBVIOUS
  <2>1. g \in Nat /\ (g < h => g \in 1..(h - 1))
    BY <1>1 DEF Holds
  <2>2. CASE g < h
    BY <2>1, <2>2 DEF Hold
  <2>3. CASE g > h
    <3>1. keeper[g].at = "none"
      BY <1>1, <2>1, <2>3 DEF Tidy, InTurn, Fresh
    <3> QED BY <3>1 DEF Starting
  <2> QED BY <1>1, <2>1, <2>2, <2>3
<1>4. /\ \A g \in Holds \ {h} : /\ keeper'[g].at = keeper[g].at /\ keeper'[g].id = keeper[g].id
                                /\ keeper'[g].taken = keeper[g].taken
                                /\ keeper'[g].leave = keeper[g].leave
      /\ keeper'[h].id = keeper[h].id /\ keeper'[h].taken = keeper[h].taken
      /\ keeper'[h].at = IF slot = 0 THEN "join" ELSE "supersede"
  <2>1. CASE slot = 0
    BY <2>1 DEF Hold, Tidy, TypeOK, Tasks
  <2>2. CASE slot # 0
    BY <1>1, <1>2, <2>2 DEF Hold, Tidy, TypeOK, Tasks
  <2> QED BY <2>1, <2>2
<1>5. slot # 0 => /\ keeper'[slot].at = keeper[slot].at /\ keeper'[slot].id = keeper[slot].id
                  /\ keeper'[slot].taken = keeper[slot].taken
  BY <1>1, <1>2, <1>4
<1>6. OneAlive'
  <2>1. keeper'[h].at \notin Alive /\ keeper'[h].at \in Fresh
    BY <1>4 DEF Alive, Running, Working, Stopping, Fresh, Starting
  <2>2. \A g \in Holds : keeper'[g].at \in Alive => slot' = g
    BY <1>1, <1>4, <2>1 DEF Safe, OneAlive
  <2>3. slot' # 0 => /\ keeper'[slot'].at \notin Fresh
                     /\ \A g \in Holds : g > slot' => keeper'[g].at \in Fresh
    BY <1>1, <1>4, <1>5, <2>1 DEF Safe, OneAlive
  <2>4. ASSUME NEW g \in Holds, keeper'[g].at \in Starting
        PROVE  slot' < g /\ (keeper'[g].at # "supersede" => slot' = 0)
    <3>1. g = h
      BY <1>3, <1>4, <2>4
    <3> QED BY <1>1, <1>2, <1>4, <3>1
  <2> QED BY <2>2, <2>3, <2>4 DEF OneAlive
<1>7. Hygiene'
  <2>1. ASSUME NEW g \in Holds \ {h} PROVE Good(keeper'[g])
    BY <1>4 DEF Safe, Hygiene, Good
  <2>2. keeper[h].id = NoId /\ keeper[h].taken = NoId
    BY <1>1 DEF Safe, Hygiene, Good, Fresh
  <2>3. Good(keeper'[h])
    BY <1>4, <2>2 DEF Good, Stopping, Running, Working
  <2> QED BY <2>1, <2>3 DEF Hygiene
<1>8. Known'
  <2> SUFFICES ASSUME NEW i \in Ids, Pending(i)'
               PROVE  /\ slot' # 0 /\ delayed'[i].by = slot'
                      /\ Waiting' /\ i \in {keeper'[slot'].id, keeper'[slot'].taken}
    BY DEF Known
  <2>1. Pending(i)
    BY <1>1 DEF Pending
  <2>2. \A g \in Holds : keeper[g].at # "cancel"
    BY <1>1, <1>3 DEF Starting
  <2>3. /\ slot # 0 /\ delayed[i].by = slot /\ Waiting
        /\ i \in {keeper[slot].id, keeper[slot].taken}
    BY <2>1, <2>2 DEF Safe, Known
  <2>4. Waiting'
    BY <1>1, <1>4, <2>3 DEF Waiting
  <2> QED BY <1>1, <1>5, <2>3, <2>4
<1>9. Wrote'
  <2>1. writer # 0 => writer \in Holds \ {h}
    BY <1>1 DEF Safe, Wrote, Tidy, TypeOK, Holds
  <2> QED BY <1>1, <1>4, <2>1 DEF Safe, Wrote
<1> QED BY <1>1, <1>6, <1>7, <1>8, <1>9 DEF Safe

LEMMA SupersedeSafe ==
  ASSUME Tidy, Safe, Calm, NEW h \in Holds, Supersede(h)
  PROVE  Safe' /\ writer' >= writer
<1> DEFINE prev == keeper[slot]
<1>1. keeper[h].at = "supersede" /\ keeper[h].at \in Starting /\ prev.at \in Over
      /\ UNCHANGED server /\ slot' = slot /\ slot # 0
  BY CalmMeans DEF Supersede, Starting, Tidy, Slotted
<1>2. /\ slot < h /\ slot \in Nat /\ h \in Nat /\ writer \in Nat
      /\ \A g \in Holds : g > h => keeper[g].at = "none"
      /\ \A g \in Holds \ {h} : keeper[g].at \notin Starting
  BY <1>1, StartingAlone
<1>3. slot \in Holds /\ slot # h /\ writer' = writer /\ delayed' = delayed
  BY <1>1, <1>2 DEF Tidy, TypeOK, Holds, server
<1>4. /\ \A g \in Holds \ {h, slot} : keeper'[g] = keeper[g]
      /\ keeper'[slot].at = prev.at /\ keeper'[slot].id = NoId /\ keeper'[slot].taken = NoId
      /\ keeper'[h].at = IF prev.id = NoId THEN "join" ELSE "cancel"
      /\ keeper'[h].id = keeper[h].id /\ keeper'[h].taken = prev.id
  <2>1. keeper' = [keeper EXCEPT
          ![h].at = IF prev.id = NoId THEN "join" ELSE "cancel", ![h].taken = prev.id,
          ![slot] = [New EXCEPT !.at = prev.at]]
    BY <1>1 DEF Supersede
  <2>2. prev \in Tasks /\ keeper[h] \in Tasks
    BY <1>3, TidyParts
  <2> HIDE DEF prev
  <2> QED BY <1>3, <2>1, <2>2 DEF Tidy, TypeOK, Tasks, New
<1>5. OneAlive'
  <2>1. prev.at \notin Alive /\ prev.at \notin Fresh
    BY <1>1 DEF Over, Alive, Running, Working, Stopping, Fresh, Starting
  <2>2. keeper'[h].at \notin Alive /\ keeper'[h].at \in Fresh
    BY <1>4 DEF Alive, Running, Working, Stopping, Fresh, Starting
  <2>3. \A g \in Holds : keeper'[g].at \in Alive => slot' = g
    BY <1>1, <1>4, <2>1, <2>2 DEF Safe, OneAlive
  <2>4. slot' # 0 => /\ keeper'[slot'].at \notin Fresh
                     /\ \A g \in Holds : g > slot' => keeper'[g].at \in Fresh
    BY <1>1, <1>2, <1>4, <2>1, <2>2 DEF Safe, OneAlive
  <2>5. ASSUME NEW g \in Holds, keeper'[g].at \in Starting
        PROVE  slot' < g /\ keeper'[slot'].at \in Over
    <3>1. g = h
      BY <1>1, <1>2, <1>4, <2>1, <2>5 DEF Fresh
    <3> QED BY <1>1, <1>2, <1>4, <3>1
  <2> QED BY <2>3, <2>4, <2>5 DEF OneAlive
<1>6. keeper[h].id = NoId /\ keeper[h].taken = NoId
  BY <1>1 DEF Safe, Hygiene, Good, Fresh
<1>7. Hygiene'
  <2>1. Good(keeper'[slot])
    BY <1>1, <1>4 DEF Good, Over, Stopping, Running, Working
  <2>2. Good(keeper'[h])
    BY <1>4, <1>6 DEF Good, Stopping, Running, Working, Fresh, Starting, Over
  <2> QED BY <1>4, <2>1, <2>2 DEF Safe, Hygiene
<1>8. Known'
  <2> SUFFICES ASSUME NEW i \in Ids, Pending(i)'
               PROVE  /\ slot' # 0 /\ delayed'[i].by = slot'
                      /\ keeper'[h].at = "cancel" /\ keeper'[h].taken = i
    BY DEF Known
  <2>1. Pending(i)
    BY <1>3 DEF Pending
  <2>2. \A g \in Holds : keeper[g].at # "cancel"
    BY <1>1, <1>2 DEF Starting
  <2>3. delayed[i].by = slot /\ i \in {prev.id, prev.taken}
    BY <2>1, <2>2 DEF Safe, Known
  <2>4. prev.taken = NoId
    BY <1>1, <1>3 DEF Safe, Hygiene, Good
  <2> QED BY <1>1, <1>3, <1>4, <2>3, <2>4, Timings
<1>9. Wrote'
  <2>1. writer # 0 => writer \in Holds \ {h}
    BY <1>1 DEF Safe, Wrote, Tidy, TypeOK, Holds
  <2> QED BY <1>3, <1>4, <2>1 DEF Safe, Wrote
<1> QED BY <1>2, <1>3, <1>5, <1>7, <1>8, <1>9 DEF Safe

LEMMA CancelJoinSafe ==
  ASSUME Tidy, Safe, Calm, NEW h \in Holds, CancelStale(h) \/ Join(h)
  PROVE  Safe' /\ writer' >= writer
<1> DEFINE k == keeper[h]
<1>1. k.at \in {"cancel", "join"} /\ k.at \in Starting \ {"supersede"} /\ k \in Tasks
  BY TidyParts DEF CancelStale, Join, Starting
<1>2. k.id = NoId /\ (k.at = "join" => k.taken = NoId)
  BY <1>1 DEF Safe, Hygiene, Good, Fresh
<1>3. \A i \in Ids : Pending(i) => k.at = "cancel" /\ k.taken = i
  BY <1>1, StartingAlone
<1>4. CASE CancelStale(h)
  <2> DEFINE r == [k EXCEPT !.taken = NoId]
  <2>1. k.at = "cancel" /\ slot' = slot /\ Goes(h, r, "join")
        /\ (Cancels(k.taken) \/ NotFound(k.taken))
    BY <1>4, CalmMeans DEF CancelStale
  <2>2. (\A i \in Ids : ~Pending(i)') /\ writer' = writer
    BY <1>3, <2>1 DEF Cancels, NotFound, server, Pending, NoLeave, Tidy, TypeOK
  <2>3. r \in Tasks /\ r.id = NoId /\ r.taken = NoId
    BY <1>1, <1>2, WorkTasks, WorkFields
  <2> HIDE DEF r
  <2> QED BY <1>1, <2>1, <2>2, <2>3, StartsOn
<1>5. CASE Join(h)
  <2>1. k.at = "join" /\ k.taken = NoId /\ \A i \in Ids : ~Pending(i)
    BY <1>2, <1>3, <1>5 DEF Join
  <2>2. CASE /\ NewChain(h, Expiry)
             /\ \E c \in Anchors : Goes(h, Unarmed(Rejoined(k, c, 0), 0), "start_arm")
             /\ slot' = slot
    <3>1. PICK c \in Anchors : Goes(h, Unarmed(Rejoined(k, c, 0), 0), "start_arm")
      BY <2>2
    <3> DEFINE q == Rejoined(k, c, 0)
    <3>2. q \in Tasks /\ q.id = NoId /\ q.taken = NoId
      <4>1. q \in Tasks
        BY WorkTasks
      <4>2. SameIds(q, k)
        BY <1>1, WorkFields
      <4> QED BY <1>2, <2>1, <4>1, <4>2 DEF SameIds
    <3> HIDE DEF q
    <3>3. Unarmed(q, 0) \in Tasks /\ Unarmed(q, 0).id = NoId /\ Unarmed(q, 0).taken = NoId
      BY <3>2, TaskOps, WorkFields
    <3>4. Goes(h, Unarmed(q, 0), "start_arm")
      BY <3>1 DEF q
    <3>5. (\A i \in Ids : ~Pending(i)') /\ writer' = h
      BY <2>1, <2>2 DEF NewChain, Published, Pending
    <3> QED BY <1>1, <2>2, <3>3, <3>4, <3>5, StartsOn
  <2>3. CASE Errs(h) /\ Goes(h, New, "failed") /\ slot' = 0
    <3>1. (\A i \in Ids : ~Pending(i)') /\ writer' = writer
      BY <2>1, <2>3, CalmUnheard DEF server, Pending
    <3>2. New \in Tasks /\ New.id = NoId /\ New.taken = NoId
      BY NewTask DEF New
    <3> QED BY <1>1, <2>3, <3>1, <3>2, StartsOn
  <2> QED BY <1>5, <2>2, <2>3 DEF Join
<1> QED BY <1>4, <1>5

\* The keeper is spawned and registered.
LEMMA SpawnSafe ==
  ASSUME Tidy, Safe, Calm, NEW h \in Holds, ArmLeave(h), keeper[h].at = "start_arm"
  PROVE  Safe' /\ writer' >= writer
<1> DEFINE k == Broken(keeper[h])
<1>1. k = keeper[h] /\ AfterArm(k) = "idle" /\ slot' = h
  <2>1. k = [keeper[h] EXCEPT !.chain = keeper[h].chain]
    BY DEF Broken
  <2>2. keeper[h] \in Tasks
    BY TidyParts
  <2>3. k = keeper[h]
    BY <2>1, <2>2 DEF Tasks
  <2> QED BY <2>3 DEF ArmLeave, AfterArm
<1>2. k \in Tasks /\ k.id = NoId /\ k.taken = NoId
  BY <1>1, TidyParts DEF Safe, Hygiene, Good, Fresh, Starting
<1> HIDE DEF k
<1>3. /\ h \in Nat /\ h # 0 /\ writer \in Nat /\ writer <= h
      /\ \A g \in Holds : g > h => keeper[g].at = "none"
      /\ \A g \in Holds \ {h} : keeper[g].at \notin Starting
      /\ \A g \in Holds : keeper[g].at \notin Alive
      /\ \A i \in Ids : ~Pending(i)
  BY StartingAlone DEF Starting, Holds
<1>4. \E r \in Tasks :
        /\ Goes(h, r, "idle") /\ r.taken = NoId /\ (r.leave # "armed" => r.id = NoId)
        /\ \A i \in Ids : Pending(i)' => delayed'[i].by = h /\ i = r.id
        /\ writer' = writer
  <2>1. CASE \E i \in Ids : Schedules(h, i) /\ Goes(h, Armed(k, i, RestartEvery), "idle")
    <3>1. PICK i \in Ids : Schedules(h, i) /\ Goes(h, Armed(k, i, RestartEvery), "idle")
      BY <2>1
    <3> DEFINE r == Armed(k, i, RestartEvery)
    <3>2. r \in Tasks
      BY <1>2, Timings, TaskOps
    <3>3. r.id = i /\ r.taken = NoId /\ r.leave = "armed"
      BY <1>2 DEF Armed, Tasks
    <3>4. \A j \in Ids : Pending(j)' => delayed'[j].by = h /\ j = i
      BY <1>3, <3>1 DEF Schedules, Pending, Tidy, TypeOK
    <3>5. writer' = writer /\ Goes(h, r, "idle")
      BY <3>1 DEF Schedules
    <3> HIDE DEF r
    <3> QED BY <3>2, <3>3, <3>4, <3>5
  <2>2. ASSUME NEW r \in Tasks, r.id = NoId, r.taken = NoId, UNCHANGED server, Goes(h, r, "idle")
        PROVE  /\ Goes(h, r, "idle") /\ r.taken = NoId /\ (r.leave # "armed" => r.id = NoId)
               /\ \A i \in Ids : Pending(i)' => delayed'[i].by = h /\ i = r.id
               /\ writer' = writer
    BY <1>3, <2>2 DEF server, Pending
  <2>3. Disabled(k) \in Tasks /\ Unarmed(k, RetryAfter) \in Tasks
    BY <1>2, Timings, TaskOps
  <2>4. /\ Disabled(k).id = NoId /\ Disabled(k).taken = NoId
        /\ Unarmed(k, RetryAfter).id = NoId /\ Unarmed(k, RetryAfter).taken = NoId
    BY <1>2 DEF Disabled, Unarmed, Tasks
  <2>5. \/ \E i \in Ids : Schedules(h, i) /\ Goes(h, Armed(k, i, RestartEvery), "idle")
        \/ UNCHANGED server /\ Goes(h, Disabled(k), "idle")
        \/ UNCHANGED server /\ Goes(h, Unarmed(k, RetryAfter), "idle")
    BY <1>1, CalmUnheard DEF ArmLeave, k
  <2> QED BY <2>1, <2>2, <2>3, <2>4, <2>5
<1>5. PICK r \in Tasks :
        /\ Goes(h, r, "idle") /\ r.taken = NoId /\ (r.leave # "armed" => r.id = NoId)
        /\ \A i \in Ids : Pending(i)' => delayed'[i].by = h /\ i = r.id
        /\ writer' = writer
  BY <1>4
<1>6. /\ keeper'[h].at = "idle" /\ keeper'[h].id = r.id /\ keeper'[h].taken = NoId
      /\ keeper'[h].leave = r.leave
      /\ \A g \in Holds \ {h} : keeper'[g] = keeper[g]
  BY <1>5 DEF Goes, Tidy, TypeOK, Tasks
<1>7. "idle" \notin Fresh /\ "none" \in Fresh /\ "none" \notin Starting
  BY DEF Fresh, Starting
<1>8. OneAlive'
  <2>1. \A g \in Holds : keeper'[g].at \in Alive => slot' = g
    BY <1>1, <1>3, <1>6
  <2>2. keeper'[slot'].at \notin Fresh /\ \A g \in Holds : g > slot' => keeper'[g].at \in Fresh
    BY <1>1, <1>3, <1>6, <1>7
  <2>3. \A g \in Holds : keeper'[g].at \notin Starting
    BY <1>3, <1>6, <1>7 DEF Fresh
  <2> QED BY <2>1, <2>2, <2>3 DEF OneAlive
<1>9. Hygiene'
  <2>1. Good(keeper'[h])
    BY <1>5, <1>6 DEF Good, Fresh, Starting, Stopping, Over
  <2> QED BY <1>6, <2>1 DEF Safe, Hygiene
<1>10. Known'
  <2>1. Waiting'
    BY <1>1, <1>3, <1>6 DEF Waiting
  <2> QED BY <1>1, <1>3, <1>5, <1>6, <2>1 DEF Known
<1>11. Wrote' /\ writer' >= writer
  BY <1>3, <1>5, <1>6 DEF Safe, Wrote, Tidy, TypeOK, Holds
<1> QED BY <1>8, <1>9, <1>10, <1>11 DEF Safe

\* Steps that leave every hold where it is, and its ids.
LEMMA StillSafe ==
  ASSUME Tidy, Safe, slot' = slot,
         \A h \in Holds : /\ keeper'[h].at = keeper[h].at /\ keeper'[h].id = keeper[h].id
                         /\ keeper'[h].taken = keeper[h].taken
                         /\ keeper'[h].leave = keeper[h].leave,
         \A i \in Ids : Pending(i)' => Pending(i) /\ delayed'[i].by = delayed[i].by,
         writer' = writer \/ (writer' = slot /\ slot # 0)
  PROVE  Safe'
<1>1. (slot = 0 \/ slot \in Holds) /\ (writer = 0 \/ writer \in Holds)
  BY DEF Tidy, TypeOK, Holds
<1>2. OneAlive'
  BY <1>1 DEF Safe, OneAlive
<1>3. Hygiene'
  BY DEF Safe, Hygiene, Good
<1>4. Waiting => Waiting'
  BY DEF Waiting
<1>5. Known'
  BY <1>1, <1>4 DEF Safe, Known
<1>6. Wrote'
  BY <1>1 DEF Safe, Wrote, OneAlive, Fresh, Starting
<1> QED BY <1>2, <1>3, <1>5, <1>6 DEF Safe

\* A delayed leave that goes off is that of the last hold that has published.
LEMMA ExpireSafe ==
  ASSUME Tidy, Safe, NEW i \in Ids, Expire(i)
  PROVE  Safe' /\ writer' >= writer
<1>1. /\ Pending(i) /\ writer' = delayed[i].by /\ delayed' = [delayed EXCEPT ![i] = NoLeave]
      /\ keeper' = keeper /\ slot' = slot
  BY DEF Expire, Fires, Cleared
<1>2. slot # 0 /\ delayed[i].by = slot /\ slot \in Nat /\ writer \in Nat
  BY <1>1 DEF Safe, Known, Tidy, TypeOK, Holds
<1>3. ~(writer > slot)
  <2> SUFFICES ASSUME writer > slot PROVE FALSE
    OBVIOUS
  <2>1. /\ writer \in Holds /\ keeper[writer].at \in Fresh
        /\ keeper[writer].at \notin {"none", "supersede", "cancel", "join"}
    BY <1>2 DEF Safe, Wrote, OneAlive, Tidy, TypeOK, Holds
  <2>2. keeper[writer].at \in Starting /\ keeper[writer].at \notin {"supersede", "cancel"}
    BY <2>1 DEF Fresh
  <2> QED BY <1>1, <2>1, <2>2, StartingAlone
<1>4. \A j \in Ids : Pending(j)' => Pending(j) /\ delayed'[j].by = delayed[j].by
  BY <1>1 DEF Pending, NoLeave, Tidy, TypeOK
<1> QED BY <1>1, <1>2, <1>3, <1>4, StillSafe

LEMMA NextSafe ==
  ASSUME Tidy, Safe, Calm, [Next]_vars
  PROVE  Safe' /\ writer' >= writer
<1>0. writer >= writer
  BY DEF Tidy, TypeOK
<1>1. ASSUME NEW h \in Holds, Start(h) PROVE Safe' /\ writer' >= writer
  BY <1>1, HoldSafe, SupersedeSafe, CancelJoinSafe DEF Start
<1>2. ASSUME NEW h \in Holds, Work(h) \/ StartInPlace(h) PROVE Safe' /\ writer' >= writer
  BY <1>2, ArmSafe, SpawnSafe, WorkSafe DEF Work
<1>3. ASSUME NEW h \in Holds, Leave(h) PROVE Safe' /\ writer' >= writer
  <2>1. \A g \in Holds : /\ keeper'[g].at = keeper[g].at /\ keeper'[g].id = keeper[g].id
                        /\ keeper'[g].taken = keeper[g].taken
                        /\ keeper'[g].leave = keeper[g].leave
    BY <1>3 DEF Leave, Tidy, TypeOK, Tasks
  <2>2. slot' = slot /\ writer' = writer /\ delayed' = delayed
    BY <1>3 DEF Leave, server
  <2> QED BY <1>0, <2>1, <2>2, StillSafe DEF Pending
<1>4. ASSUME NEW h \in Holds, End(h) PROVE Safe' /\ writer' >= writer
  BY <1>4, EndSafe
<1>5. ASSUME NEW i \in Ids, Expire(i) PROVE Safe' /\ writer' >= writer
  BY <1>5, ExpireSafe
<1>6. CASE Tick
  <2>1. keeper \in [Holds -> Tasks] /\ delayed \in [Ids -> Leaves]
    BY DEF Tidy, TypeOK, Leaves
  <2>2. \A g \in Holds : /\ keeper'[g].at = keeper[g].at /\ keeper'[g].id = keeper[g].id
                        /\ keeper'[g].taken = keeper[g].taken
                        /\ keeper'[g].leave = keeper[g].leave
    BY <1>6, <2>1, TickKeepers, TickTask
  <2>3. slot' = slot /\ writer' = writer /\ \A i \in Ids : delayed'[i].by = delayed[i].by
    BY <1>6, <2>1 DEF Tick, Leaves
  <2> QED BY <1>0, <2>2, <2>3, StillSafe DEF Pending
<1>7. CASE UNCHANGED vars
  <2>1. slot' = slot /\ writer' = writer /\ keeper' = keeper /\ delayed' = delayed
    BY <1>7 DEF vars
  <2> QED BY <1>0, <2>1, StillSafe DEF Pending
<1> QED BY <1>1, <1>2, <1>3, <1>4, <1>5, <1>6, <1>7 DEF Next

LEMMA InitSafe == Init => Safe
<1> SUFFICES ASSUME Init PROVE Safe
  OBVIOUS
<1>1. /\ \A h \in Holds : keeper[h].at = "none" /\ keeper[h].id = NoId /\ keeper[h].taken = NoId
      /\ slot = 0 /\ writer = 0 /\ \A i \in Ids : ~Pending(i)
  BY DEF Init, New, Pending, NoLeave
<1>2. OneAlive
  BY <1>1 DEF OneAlive, Alive, Running, Working, Stopping, Starting
<1>3. Hygiene
  BY <1>1 DEF Hygiene, Good, Running, Working, Stopping
<1> QED BY <1>1, <1>2, <1>3 DEF Safe, Known, Wrote

LEMMA FaultsStay == ASSUME [Next]_vars PROVE faults' = faults
<1>1. \A h \in Holds : Start(h) => faults' = faults
  BY DEF Start, Hold, Supersede, CancelStale, Join
<1>2. \A h \in Holds : Work(h) => faults' = faults
  BY DEF Work, ArmLeave, StartLeaveWork, StartRefresh, Refresh, Rejoin, RejoinInPlace,
         RestartLeave, Check
<1>3. \A h \in Holds : StartInPlace(h) \/ Leave(h) \/ End(h) => faults' = faults
  BY DEF StartInPlace, Leave, End, Stop, SendLeave, ClearMember, HandOver
<1>4. \A i \in Ids : Expire(i) => faults' = faults
  BY DEF Expire
<1>5. Tick \/ UNCHANGED vars => faults' = faults
  BY DEF Tick, vars
<1> QED BY <1>1, <1>2, <1>3, <1>4, <1>5 DEF Next

\* As long as no delayed leave can be pending that nobody knows of, neither a
\* superseded hold nor its delayed leave touches the membership once the next
\* one has published: supersede stops it first and cancels what it leaves.
THEOREM SupersededSilent == Spec => WritersInOrder
<1> DEFINE Inv == Tidy /\ (Calm => Safe)
<1>1. Init => Inv
  BY InitTidy, InitSafe
<1>2. Inv /\ [Next]_vars => Inv'
  BY NextTidy, NextSafe, FaultsStay DEF Calm, Without
<1>3. Inv /\ [Next]_vars => [Without(Orphans) => writer' >= writer]_vars
  BY NextSafe DEF Calm
<1> QED BY <1>1, <1>2, <1>3, PTL DEF Spec, WritersInOrder

-----------------------------------------------------------------------------
(* A chain ends with a leave *)

\* The failures under which a keeper may continue a chain a leave has ended:
\* also those after which it knows too late that its leave was sent.
Strict == Without(Orphans \cup {"restart", "slow"})

\* Requests take no longer than the timings leave room for.
Roomy == /\ RequestTime \in Nat /\ RestartEvery + RequestTime <= LeaveDelay
         /\ RequestTime <= Expiry

Live == Running \cup {"start_arm"}

\* A keeper that is not due to restart its leave will restart it in time.
OnTime(k, d) ==
  k.leave = "armed" =>
    /\ k.id \in Ids
    /\ k.leaveIn > 0 =>
         /\ d[k.id].by # 0
         /\ d[k.id].left + RestartEvery >= k.leaveIn + LeaveDelay

\* While a chain is continued it has not ended, and no leave is sent before
\* the request is over.
Continues(h, k, d, s) ==
  /\ k.age <= RequestTime /\ h \notin s
  /\ k.leave = "armed" =>
       k.id \in Ids /\ d[k.id].by # 0 /\ d[k.id].left + k.age > RequestTime

\* The leave is gone, and the keeper is to look after it before anything else.
Missed(k, d) ==
  k.leave = "armed" /\ k.leaveIn = 0 /\ (k.id \in Ids => d[k.id].by = 0)

\* The membership is gone, and the keeper will not continue its chain.
Ended(k, m, d) ==
  /\ m = Empty
  /\ \/ k.chain = "none" \/ k.at = "rearm_gone"
     \/ k.at \in {"idle", "restart", "check", "in_place"} /\ Missed(k, d)

\* What holds of hold h with task k: m, d and s are member, delayed and spent.
Sound(h, k, m, d, s) ==
  /\ k.at \in Running \ {"check"} => OnTime(k, d)
  /\ k.at = "restart" => k.leave = "armed"
  /\ k.at = "refresh" => Continues(h, k, d, s)
  /\ k.at = "rejoin" => k.chain = "none"
  /\ k.at \in Live /\ h \in s => Ended(k, m, d)

AllSound == \A h \in Holds : Sound(h, keeper[h], member, delayed, spent)

\* No membership comes back with a chain a leave has ended.
NoOldChain == member = Empty /\ member' # Empty => member'.by \notin spent'

LEMMA StrictMeans ==
  ASSUME Strict
  PROVE  Calm /\ "restart" \notin faults /\ "slow" \notin faults
  BY DEF Strict, Calm, Without

\* No other hold has published and is not over.
Alone(h) == \A g \in Holds \ {h} : keeper[g].at \notin Live

LEMMA LiveAlone ==
  ASSUME Tidy, Safe, NEW h \in Holds,
         keeper[h].at \in Alive \/ keeper[h].at \in Starting \ {"supersede"}
  PROVE  Alone(h)
<1> SUFFICES ASSUME NEW g \in Holds \ {h}, keeper[g].at \in Live PROVE FALSE
  BY DEF Alone
<1>1. keeper[g].at \in Alive \/ keeper[g].at \in Starting \ {"supersede"}
  BY DEF Live, Alive, Starting
<1>2. CASE keeper[h].at \in Alive
  BY <1>1, <1>2, AliveAlone
<1>3. CASE keeper[h].at \in Starting \ {"supersede"}
  BY <1>1, <1>3, StartingAlone
<1> QED BY <1>2, <1>3

\* A step of the only live hold.
LEMMA OwnSound ==
  ASSUME Tidy, NEW h \in Holds, Alone(h), NEW r, keeper' = [keeper EXCEPT ![h] = r],
         Sound(h, r, member', delayed', spent')
  PROVE  AllSound'
<1>1. keeper'[h] = r /\ \A g \in Holds \ {h} : keeper'[g] = keeper[g]
  BY DEF Tidy, TypeOK
<1>2. ASSUME NEW g \in Holds \ {h} PROVE Sound(g, keeper'[g], member', delayed', spent')
  <2>1. keeper'[g].at \notin Live
    BY <1>1 DEF Alone
  <2> QED BY <2>1 DEF Sound, Live, Running, Working
<1> QED BY <1>1, <1>2 DEF AllSound

\* A step of it that changes nothing of what it knows of its leave and chain.
SameKnown(a, b) == a.id = b.id /\ a.leave = b.leave /\ a.leaveIn = b.leaveIn

LEMMA KnownFields ==
  ASSUME NEW k \in Tasks, NEW c, NEW t, NEW u
  PROVE  /\ SameKnown(RetryRefresh(k), k) /\ RetryRefresh(k).chain = k.chain
         /\ SameKnown(Rejoined(k, c, t), k) /\ Rejoined(k, c, t).chain = c
         /\ SameKnown([k EXCEPT !.chain = c], k) /\ [k EXCEPT !.chain = c].chain = c
         /\ SameKnown([k EXCEPT !.valid = t, !.refresh = u], k)
         /\ [k EXCEPT !.valid = t, !.refresh = u].chain = k.chain
         /\ Armed(k, c, t).id = c /\ Armed(k, c, t).leave = "armed" /\ Armed(k, c, t).leaveIn = t
         /\ Armed(k, c, t).chain = k.chain
         /\ Unarmed(k, t).id = k.id /\ Unarmed(k, t).leave = "unarmed" /\ Unarmed(k, t).leaveIn = t
         /\ Unarmed(k, t).chain = k.chain
         /\ [k EXCEPT !.id = NoId].id = NoId /\ [k EXCEPT !.id = NoId].leave = k.leave
         /\ [k EXCEPT !.id = NoId].leaveIn = k.leaveIn /\ [k EXCEPT !.id = NoId].chain = k.chain
  BY DEF Tasks, SameKnown, RetryRefresh, Rejoined, Armed, Unarmed

\* The record a keeper goes on with.
LEMMA GoesRecord ==
  ASSUME NEW h, NEW k \in Tasks, NEW to, Goes(h, k, to)
  PROVE  \E r : /\ keeper' = [keeper EXCEPT ![h] = r] /\ r.at = to /\ r.age = 0
                /\ SameKnown(r, k) /\ r.chain = k.chain
<1> DEFINE r == [k EXCEPT !.at = to, !.age = 0]
<1>1. /\ keeper' = [keeper EXCEPT ![h] = r] /\ r.at = to /\ r.age = 0
      /\ SameKnown(r, k) /\ r.chain = k.chain
  BY DEF Goes, Tasks, SameKnown
<1> QED BY <1>1

LEMMA GoesSound ==
  ASSUME Tidy, Roomy, NEW h \in Holds, Alone(h), NEW k \in Tasks, NEW to, Goes(h, k, to),
         to \in Running \ {"check"} => OnTime(k, delayed'),
         to = "restart" => k.leave = "armed",
         to = "refresh" =>
           /\ h \notin spent'
           /\ k.leave = "armed" =>
                /\ k.id \in Ids /\ delayed'[k.id].by # 0
                /\ delayed'[k.id].left \in Nat /\ delayed'[k.id].left > RequestTime,
         to = "rejoin" => k.chain = "none",
         to \in Live /\ h \in spent' =>
           /\ member' = Empty
           /\ \/ k.chain = "none" \/ to = "rearm_gone"
              \/ to \in {"idle", "restart", "check", "in_place"} /\ Missed(k, delayed')
  PROVE  AllSound'
<1>1. PICK r : /\ keeper' = [keeper EXCEPT ![h] = r] /\ r.at = to /\ r.age = 0
               /\ SameKnown(r, k) /\ r.chain = k.chain
  BY GoesRecord
<1>2. /\ to \in Running \ {"check"} => OnTime(r, delayed')
      /\ to = "restart" => r.leave = "armed"
  BY <1>1 DEF OnTime, SameKnown
<1>3. to = "refresh" => Continues(h, r, delayed', spent')
  <2> SUFFICES ASSUME to = "refresh" PROVE Continues(h, r, delayed', spent')
    OBVIOUS
  <2>1. r.age <= RequestTime /\ h \notin spent'
    BY <1>1 DEF Roomy
  <2>2. ASSUME r.leave = "armed"
        PROVE  r.id \in Ids /\ delayed'[r.id].by # 0 /\ delayed'[r.id].left + r.age > RequestTime
    <3>1. /\ r.id \in Ids /\ delayed'[r.id].by # 0
          /\ delayed'[r.id].left \in Nat /\ delayed'[r.id].left > RequestTime
      BY <1>1, <2>2 DEF SameKnown
    <3> QED BY <1>1, <3>1
  <2> QED BY <2>1, <2>2 DEF Continues
<1>4. to \in Live /\ h \in spent' => Ended(r, member', delayed')
  BY <1>1 DEF Ended, Missed, SameKnown
<1> QED BY <1>1, <1>2, <1>3, <1>4, OwnSound DEF Sound

\* What publishing does to the chains.
LEMMA Publishes ==
  ASSUME NEW h \in Holds, NEW left
  PROVE  /\ NewChain(h, left) => NoOldChain /\ h \notin spent' /\ delayed' = delayed
         /\ SameChain(h, left) /\ h \notin spent => NoOldChain /\ h \notin spent' /\ delayed' = delayed
  BY DEF NewChain, SameChain, Published, NoOldChain

LEMMA StillOld == ASSUME member' = member \/ member' = Empty PROVE NoOldChain
  BY DEF NoOldChain

\* What is known of a hold that runs.
LEMMA SoundFacts ==
  ASSUME AllSound, NEW h \in Holds, keeper[h].at \in Running
  PROVE  LET k == keeper[h] IN
         /\ k.at # "check" => OnTime(k, delayed)
         /\ k.at = "restart" => k.leave = "armed"
         /\ h \in spent => Ended(k, member, delayed)
  BY DEF AllSound, Sound, Live

LEMMA BeginsSound ==
  ASSUME Tidy, Safe, Roomy, AllSound, NEW h \in Holds,
         StartLeaveWork(h) \/ StartRefresh(h) \/ StartInPlace(h)
  PROVE  AllSound' /\ NoOldChain
<1> DEFINE k == keeper[h]
<1>1. k.at = "idle" /\ UNCHANGED server
  BY DEF StartLeaveWork, StartRefresh, StartInPlace, Idle
<1>2. k.at \in Running /\ k.at \in Alive
  BY <1>1 DEF Running, Alive
<1>3. k \in Tasks /\ Alone(h)
  BY <1>2, TidyParts, LiveAlone
<1>4. OnTime(k, delayed) /\ (h \in spent => Ended(k, member, delayed))
  BY <1>1, <1>2, SoundFacts
<1>5. NoOldChain /\ member' = member /\ delayed' = delayed /\ spent' = spent
  BY <1>1, StillOld DEF server
<1>6. CASE StartLeaveWork(h)
  <2>1. Goes(h, k, IF k.leave = "armed" THEN "restart" ELSE "arm")
    BY <1>6 DEF StartLeaveWork
  <2>2. CASE k.leave = "armed"
    <3>1. Goes(h, k, "restart")
      BY <2>1, <2>2
    <3>2. h \in spent' => member' = Empty /\ (k.chain = "none" \/ Missed(k, delayed'))
      BY <1>1, <1>4, <1>5 DEF Ended
    <3> HIDE DEF k
    <3> QED BY <1>3, <1>4, <1>5, <2>2, <3>1, <3>2, GoesSound
  <2>3. CASE k.leave # "armed"
    <3>1. Goes(h, k, "arm")
      BY <2>1, <2>3
    <3>2. h \in spent' => member' = Empty /\ k.chain = "none"
      BY <1>1, <1>4, <1>5, <2>3 DEF Ended, Missed
    <3> HIDE DEF k
    <3> QED BY <1>3, <1>4, <1>5, <3>1, <3>2, GoesSound
  <2> QED BY <2>2, <2>3
<1>7. CASE StartRefresh(h)
  <2>1. ~LeaveDue(k)
    BY <1>7 DEF StartRefresh
  <2>2. k.leave = "armed" => k.leaveIn > 0
    BY <1>3, <2>1 DEF LeaveDue, Tasks
  <2>3. ASSUME Goes(h, [k EXCEPT !.chain = "none"], "rejoin")
        PROVE  AllSound'
    <3> DEFINE r == [k EXCEPT !.chain = "none"]
    <3>1. r \in Tasks /\ SameKnown(r, k) /\ r.chain = "none"
      BY <1>3, <2>3, KnownFields DEF Tasks
    <3>2. Goes(h, r, "rejoin")
      BY <2>3
    <3> HIDE DEF r
    <3>3. OnTime(r, delayed')
      BY <1>4, <1>5, <3>1 DEF OnTime, SameKnown
    <3>4. h \in spent' => member' = Empty
      BY <1>4, <1>5 DEF Ended
    <3> QED BY <1>3, <3>1, <3>2, <3>3, <3>4, GoesSound
  <2>4. ASSUME Goes(h, [k EXCEPT !.chain = "anchored"], "refresh"), k.chain # "none"
        PROVE  AllSound'
    <3> DEFINE r == [k EXCEPT !.chain = "anchored"]
    <3>1. r \in Tasks /\ SameKnown(r, k)
      BY <1>3, KnownFields DEF Tasks
    <3>2. Goes(h, r, "refresh")
      BY <2>4
    <3>3. h \notin spent'
      BY <1>1, <1>3, <1>4, <1>5, <2>2, <2>4 DEF Ended, Missed, Tasks
    <3>4. k.leave = "armed" =>
            /\ k.id \in Ids /\ delayed[k.id].by # 0
            /\ delayed[k.id].left \in Nat /\ delayed[k.id].left > RequestTime
      <4> SUFFICES ASSUME k.leave = "armed"
                   PROVE  /\ k.id \in Ids /\ delayed[k.id].by # 0
                          /\ delayed[k.id].left \in Nat /\ delayed[k.id].left > RequestTime
        OBVIOUS
      <4>1. /\ k.id \in Ids /\ delayed[k.id].by # 0
            /\ delayed[k.id].left + RestartEvery >= k.leaveIn + LeaveDelay
        BY <1>4, <2>2 DEF OnTime
      <4>2. delayed[k.id].left \in Nat /\ k.leaveIn \in Nat /\ k.leaveIn > 0
        BY <1>3, <2>2, <4>1 DEF Tasks, Tidy, TypeOK
      <4> HIDE DEF k
      <4>3. delayed[k.id].left > RequestTime
        BY <4>1, <4>2, Timings DEF Roomy
      <4> QED BY <4>1, <4>2, <4>3
    <3> HIDE DEF r
    <3>5. OnTime(r, delayed')
      BY <1>4, <1>5, <3>1 DEF OnTime, SameKnown
    <3>6. r.leave = "armed" =>
            /\ r.id \in Ids /\ delayed'[r.id].by # 0
            /\ delayed'[r.id].left \in Nat /\ delayed'[r.id].left > RequestTime
      BY <1>5, <3>1, <3>4 DEF SameKnown
    <3> QED BY <1>3, <3>1, <3>2, <3>3, <3>5, <3>6, GoesSound
  <2> QED BY <1>5, <1>7, <2>3, <2>4 DEF StartRefresh
<1>8. CASE StartInPlace(h)
  <2>1. Goes(h, k, "in_place")
    BY <1>8 DEF StartInPlace
  <2>2. h \in spent' => member' = Empty /\ (k.chain = "none" \/ Missed(k, delayed'))
    BY <1>1, <1>4, <1>5 DEF Ended
  <2> HIDE DEF k
  <2> QED BY <1>3, <1>4, <1>5, <2>1, <2>2, GoesSound
<1> QED BY <1>5, <1>6, <1>7, <1>8

\* Publishing, or failing to: the chain is the new one, or none that has ended.
LEMMA PublishSound ==
  ASSUME Tidy, Safe, Strict, Roomy, AllSound, NEW h \in Holds,
         Refresh(h) \/ Rejoin(h) \/ RejoinInPlace(h)
  PROVE  AllSound' /\ NoOldChain
<1> DEFINE k == keeper[h]
<1>1. k.at \in {"refresh", "rejoin", "in_place"}
  BY DEF Refresh, Rejoin, RejoinInPlace
<1>2. k.at \in Running /\ k.at \in Alive
  BY <1>1 DEF Running, Working, Alive
<1>3. k \in Tasks /\ Alone(h)
  BY <1>2, TidyParts, LiveAlone
<1>4. OnTime(k, delayed) /\ (h \in spent => Ended(k, member, delayed))
  BY <1>1, <1>2, SoundFacts
<1>5. Calm
  BY StrictMeans
<1>6. ASSUME NEW r \in Tasks, SameKnown(r, k), Goes(h, r, "idle"),
             delayed' = delayed, h \notin spent', NoOldChain
      PROVE  AllSound' /\ NoOldChain
  <2>1. OnTime(r, delayed')
    BY <1>4, <1>6 DEF OnTime, SameKnown
  <2> QED BY <1>3, <1>6, <2>1, GoesSound
<1>7. ASSUME NEW r \in Tasks, SameKnown(r, k), Goes(h, r, "idle"), UNCHANGED server,
             h \in spent => r.chain = "none" \/ Missed(k, delayed)
      PROVE  AllSound' /\ NoOldChain
  <2>1. OnTime(r, delayed') /\ NoOldChain
    BY <1>4, <1>7, StillOld DEF OnTime, SameKnown, server
  <2>2. h \in spent' => member' = Empty /\ (r.chain = "none" \/ Missed(r, delayed'))
    BY <1>4, <1>7 DEF Ended, server, Missed, SameKnown
  <2> QED BY <1>3, <1>7, <2>1, <2>2, GoesSound
<1>8. Minus(Expiry, k.age) \in Nat
  BY <1>3, Timings, MinusBound DEF Tasks
<1>9. CASE Refresh(h)
  <2>1. h \notin spent
    BY <1>9 DEF Refresh, AllSound, Sound, Continues
  <2>2. CASE /\ SameChain(h, Minus(Expiry, k.age))
             /\ Goes(h, [k EXCEPT !.valid = Minus(Expiry, k.age), !.refresh = RefreshEvery], "idle")
    <3> DEFINE r == [k EXCEPT !.valid = Minus(Expiry, k.age), !.refresh = RefreshEvery]
    <3>1. r \in Tasks
      BY <1>3, <1>8, Timings DEF Tasks
    <3>2. SameKnown(r, k)
      BY <1>3, KnownFields
    <3>3. Goes(h, r, "idle")
      BY <2>2
    <3> HIDE DEF r, k
    <3> QED BY <1>6, <2>1, <2>2, <3>1, <3>2, <3>3, Publishes
  <2>3. CASE Errs(h) /\ Goes(h, RetryRefresh(k), "idle")
    <3>1. RetryRefresh(k) \in Tasks /\ SameKnown(RetryRefresh(k), k)
      BY <1>3, KnownFields, TaskOps, Timings
    <3>2. UNCHANGED server
      BY <1>5, <2>3, CalmUnheard
    <3> HIDE DEF k
    <3> QED BY <1>7, <2>1, <2>3, <3>1, <3>2
  <2> QED BY <1>9, <2>2, <2>3 DEF Refresh
<1>10. CASE Rejoin(h)
  <2>1. k.chain = "none"
    BY <1>10 DEF Rejoin, AllSound, Sound
  <2>2. ASSUME NEW c \in Anchors, NewChain(h, Expiry), Goes(h, Rejoined(k, c, 0), "idle")
        PROVE  AllSound' /\ NoOldChain
    <3>1. Rejoined(k, c, 0) \in Tasks /\ SameKnown(Rejoined(k, c, 0), k)
      <4>1. c \in {"none", "unanchored", "anchored"}
        BY DEF Anchors
      <4> QED BY <1>3, <4>1, KnownFields, TaskOps
    <3> HIDE DEF k
    <3> QED BY <1>6, <2>2, <3>1, Publishes
  <2>3. CASE Errs(h) /\ Goes(h, RetryRefresh(k), "idle")
    <3>1. /\ RetryRefresh(k) \in Tasks /\ SameKnown(RetryRefresh(k), k)
          /\ RetryRefresh(k).chain = "none"
      BY <1>3, <2>1, KnownFields, TaskOps, Timings
    <3>2. UNCHANGED server
      BY <1>5, <2>3, CalmUnheard
    <3> HIDE DEF k
    <3> QED BY <1>7, <2>3, <3>1, <3>2
  <2> QED BY <1>10, <2>2, <2>3 DEF Rejoin
<1>11. CASE RejoinInPlace(h)
  <2>1. h \in spent => k.chain = "none" \/ Missed(k, delayed)
    BY <1>4, <1>11 DEF RejoinInPlace, Ended
  <2>2. CASE NewChain(h, Minus(Expiry, k.age)) /\ Goes(h, Rejoined(k, "anchored", k.age), "idle")
    <3>1. /\ Rejoined(k, "anchored", k.age) \in Tasks
          /\ SameKnown(Rejoined(k, "anchored", k.age), k)
      <4>1. k.age \in Nat
        BY <1>3 DEF Tasks
      <4> QED BY <1>3, <4>1, KnownFields, TaskOps
    <3> HIDE DEF k
    <3> QED BY <1>6, <2>2, <3>1, Publishes
  <2>3. CASE Errs(h) /\ Goes(h, k, "idle")
    <3>1. UNCHANGED server /\ SameKnown(k, k)
      BY <1>5, <2>3, CalmUnheard DEF SameKnown
    <3> HIDE DEF k
    <3> QED BY <1>3, <1>7, <2>1, <2>3, <3>1
  <2> QED BY <1>11, <2>2, <2>3 DEF RejoinInPlace
<1> QED BY <1>9, <1>10, <1>11

\* A restart puts the leave off; one that comes too late finds nothing pending,
\* and the membership is looked after before its chain is continued.
LEMMA RestartSound ==
  ASSUME Tidy, Safe, Strict, Roomy, AllSound, NEW h \in Holds, RestartLeave(h)
  PROVE  AllSound' /\ NoOldChain
<1> DEFINE k == keeper[h]
<1>1. k.at = "restart" /\ k.at \in Running /\ k.at \in Alive
  BY DEF RestartLeave, Running, Working, Alive
<1>2. k \in Tasks /\ Alone(h)
  BY <1>1, TidyParts, LiveAlone
<1>3. /\ OnTime(k, delayed) /\ (h \in spent => Ended(k, member, delayed))
      /\ k.leave = "armed" /\ k.id \in Ids /\ delayed \in [Ids -> Leaves]
  BY <1>1, SoundFacts DEF OnTime, Tidy, TypeOK, Leaves
<1>4. CASE Restarts(k.id) /\ Goes(h, Armed(k, k.id, RestartEvery), "idle")
  <2> DEFINE r == Armed(k, k.id, RestartEvery)
  <2>1. /\ r.id = k.id /\ r.leaveIn = RestartEvery /\ r.chain = k.chain
    BY <1>2 DEF Armed, Tasks
  <2>2. r \in Tasks
    BY <1>2, <1>3, Timings, TaskOps
  <2>3. Goes(h, r, "idle") /\ member' = member /\ spent' = spent
    BY <1>4 DEF Restarts
  <2>4. delayed[k.id].by # 0 /\ delayed'[k.id].by # 0 /\ delayed'[k.id].left = LeaveDelay
    BY <1>3, <1>4 DEF Restarts, Pending, Leaves
  <2> HIDE DEF r
  <2>5. OnTime(r, delayed')
    BY <1>3, <2>1, <2>4, Timings DEF OnTime
  <2>6. h \in spent' => member' = Empty /\ r.chain = "none"
    BY <1>1, <1>3, <2>1, <2>3, <2>4 DEF Ended, Missed
  <2> HIDE DEF k
  <2> QED BY <1>2, <2>2, <2>3, <2>5, <2>6, GoesSound, StillOld
<1>5. CASE NotFound(k.id) /\ Goes(h, [k EXCEPT !.id = NoId], "check")
  <2> DEFINE r == [k EXCEPT !.id = NoId]
  <2>1. r.id = NoId /\ r.leave = "armed" /\ r.leaveIn = k.leaveIn /\ r.chain = k.chain
    BY <1>2, <1>3, KnownFields
  <2>2. r \in Tasks
    BY <1>2 DEF Tasks
  <2>3. Goes(h, r, "check") /\ member' = member /\ spent' = spent /\ delayed[k.id].by = 0
    BY <1>5 DEF NotFound, server, Pending
  <2>4. k.leaveIn = 0
    BY <1>2, <1>3, <2>3 DEF OnTime, Tasks
  <2> HIDE DEF r
  <2>5. Missed(r, delayed')
    BY <2>1, <2>4, Timings DEF Missed
  <2>6. h \in spent' => member' = Empty
    BY <1>3, <2>3 DEF Ended
  <2> HIDE DEF k
  <2> QED BY <1>2, <2>2, <2>3, <2>5, <2>6, GoesSound, StillOld
<1> QED BY <1>4, <1>5, StrictMeans DEF RestartLeave

\* The look after a lost leave: a membership that is there has its chain.
LEMMA CheckSound ==
  ASSUME Tidy, Safe, Roomy, AllSound, NEW h \in Holds, Check(h)
  PROVE  AllSound' /\ NoOldChain
<1> DEFINE k == keeper[h]
           r == Unarmed(k, 0)
<1>1. k.at = "check" /\ k.at \in Running /\ k.at \in Alive
  BY DEF Check, Running, Working, Alive
<1>2. k \in Tasks /\ Alone(h)
  BY <1>1, TidyParts, LiveAlone
<1>3. h \in spent => member = Empty
  BY <1>1, SoundFacts DEF Ended
<1>4. member' = member /\ spent' = spent
  BY DEF Check, server
<1>5. r \in Tasks /\ r.leave = "unarmed"
  BY <1>2 DEF Unarmed, Tasks
<1>6. (member # Empty /\ Goes(h, r, "rearm")) \/ Goes(h, r, "rearm_gone")
  BY DEF Check
<1> HIDE DEF k, r
<1>7. OnTime(r, delayed')
  BY <1>5 DEF OnTime
<1> QED BY <1>2, <1>3, <1>4, <1>5, <1>6, <1>7, GoesSound, StillOld

\* A newly armed leave is sent only LeaveDelay later.
LEMMA ArmSound ==
  ASSUME Tidy, Safe, Strict, Roomy, AllSound, NEW h \in Holds, ArmLeave(h)
  PROVE  AllSound' /\ NoOldChain
<1> DEFINE k == Broken(keeper[h])
           to == AfterArm(k)
<1>1. k.at = keeper[h].at /\ k.at \in {"start_arm", "arm", "rearm", "rearm_gone"}
  BY TidyParts DEF ArmLeave, Broken, Tasks
<1>2. keeper[h].at \in Alive \/ keeper[h].at \in Starting \ {"supersede"}
  BY <1>1 DEF Running, Working, Alive, Starting
<1>3. k \in Tasks /\ Alone(h)
  BY <1>2, TidyParts, LiveAlone DEF Broken, Tasks
<1>4. h \in spent => member = Empty /\ k.chain = "none"
  <2> SUFFICES ASSUME h \in spent PROVE member = Empty /\ k.chain = "none"
    OBVIOUS
  <2>1. Ended(keeper[h], member, delayed)
    BY <1>1 DEF AllSound, Sound, Live, Running, Working
  <2>2. keeper[h].at # "rearm_gone" => keeper[h].chain = "none"
    BY <1>1, <2>1 DEF Ended
  <2> QED BY <2>1, <2>2, TidyParts DEF Ended, Broken, Tasks
<1>5. to \in {"idle", "rejoin"} /\ (to = "rejoin" => k.chain = "none")
  BY TidyParts DEF AfterArm, Broken, Tasks
<1> HIDE DEF k, to
<1>6. ASSUME NEW r \in Tasks, r.chain = k.chain, Goes(h, r, to), member' = member,
             spent' = spent, OnTime(r, delayed')
      PROVE  AllSound' /\ NoOldChain
  BY <1>3, <1>4, <1>5, <1>6, GoesSound, StillOld
<1>7. ASSUME NEW i \in Ids, Schedules(h, i), Goes(h, Armed(k, i, RestartEvery), to)
      PROVE  AllSound' /\ NoOldChain
  <2> DEFINE r == Armed(k, i, RestartEvery)
  <2>1. r \in Tasks /\ r.id = i /\ r.leaveIn = RestartEvery /\ r.chain = k.chain
    BY <1>3, Timings DEF Armed, Tasks
  <2>2. /\ member' = member /\ spent' = spent
        /\ delayed'[i].by # 0 /\ delayed'[i].left = LeaveDelay
    BY <1>7 DEF Schedules, Tidy, TypeOK, Holds
  <2>3. Goes(h, r, to)
    BY <1>7
  <2> HIDE DEF r
  <2>4. OnTime(r, delayed')
    BY <2>1, <2>2, Timings DEF OnTime
  <2> QED BY <1>6, <2>1, <2>2, <2>3, <2>4
<1>8. ASSUME NEW r \in Tasks, r.leave # "armed", r.chain = k.chain, Goes(h, r, to), UNCHANGED server
      PROVE  AllSound' /\ NoOldChain
  BY <1>6, <1>8 DEF OnTime, server
<1>9. /\ Disabled(k) \in Tasks /\ Disabled(k).leave # "armed" /\ Disabled(k).chain = k.chain
      /\ Unarmed(k, RetryAfter) \in Tasks /\ Unarmed(k, RetryAfter).leave # "armed"
      /\ Unarmed(k, RetryAfter).chain = k.chain
  <2>1. Disabled(k).leave # "armed" /\ Disabled(k).chain = k.chain
    BY <1>3 DEF Disabled, Tasks
  <2> QED BY <1>3, <2>1, Timings, TaskOps, KnownFields
<1>10. \/ \E i \in Ids : Schedules(h, i) /\ Goes(h, Armed(k, i, RestartEvery), to)
       \/ UNCHANGED server /\ Goes(h, Disabled(k), to)
       \/ UNCHANGED server /\ Goes(h, Unarmed(k, RetryAfter), to)
  BY StrictMeans, CalmUnheard DEF ArmLeave, k, to
<1> QED BY <1>7, <1>8, <1>9, <1>10

\* Where no hold is live there is nothing to know.
LEMMA NoneLive ==
  ASSUME \A g \in Holds : keeper'[g].at \notin Live
  PROVE  AllSound'
<1> SUFFICES ASSUME NEW g \in Holds PROVE Sound(g, keeper'[g], member', delayed', spent')
  BY DEF AllSound
<1> QED BY DEF Sound, Live, Running, Working

\* A step that leaves to each hold what it knows, or takes it out of its run.
LEMMA StillSound ==
  ASSUME Tidy, AllSound, UNCHANGED <<member, delayed, spent>>,
         \A g \in Holds : \/ keeper'[g].at \notin Live
                         \/ /\ SameKnown(keeper'[g], keeper[g])
                            /\ keeper'[g].at = keeper[g].at /\ keeper'[g].age = keeper[g].age
                            /\ keeper'[g].chain = keeper[g].chain
  PROVE  AllSound'
<1> SUFFICES ASSUME NEW g \in Holds PROVE Sound(g, keeper'[g], member, delayed, spent)
  BY DEF AllSound
<1>1. CASE keeper'[g].at \notin Live
  BY <1>1 DEF Sound, Live, Running, Working
<1>2. CASE /\ SameKnown(keeper'[g], keeper[g])
           /\ keeper'[g].at = keeper[g].at /\ keeper'[g].age = keeper[g].age
           /\ keeper'[g].chain = keeper[g].chain
  BY <1>2 DEF AllSound, Sound, SameKnown, OnTime, Continues, Ended, Missed
<1> QED BY <1>1, <1>2

LEMMA EndSound ==
  ASSUME Tidy, Safe, Strict, NEW h \in Holds, End(h)
  PROVE  AllSound' /\ NoOldChain
<1> DEFINE k == keeper[h]
<1>1. k.at \in Alive /\ k \in Tasks
  BY TidyParts DEF End, Stop, SendLeave, ClearMember, HandOver, Alive, Stopping
<1>2. Alone(h)
  BY <1>1, LiveAlone
<1>3. \E r \in Tasks, to \in Stopping \cup Over : Goes(h, r, to)
  <2>1. {"send_leave", "clear", "gone", "hand_over", "left", "failed"} \subseteq Stopping \cup Over
    BY DEF Stopping, Over
  <2>2. New \in Tasks /\ [New EXCEPT !.cmd = k.cmd, !.taken = k.id] \in Tasks
        /\ [k EXCEPT !.taken = NoId] \in Tasks /\ [New EXCEPT !.id = k.taken] \in Tasks
    BY <1>1, NewTask DEF Tasks, New
  <2>3. CASE Stop(h)
    BY <2>1, <2>2, <2>3 DEF Stop
  <2>4. CASE SendLeave(h)
    BY <2>1, <2>2, <2>4 DEF SendLeave
  <2>5. CASE ClearMember(h)
    BY <2>1, <2>2, <2>5 DEF ClearMember
  <2>6. CASE HandOver(h)
    BY <2>1, <2>2, <2>6 DEF HandOver
  <2> QED BY <2>3, <2>4, <2>5, <2>6 DEF End
<1>4. PICK r \in Tasks, to \in Stopping \cup Over : Goes(h, r, to)
  BY <1>3
<1>5. keeper'[h].at = to /\ \A g \in Holds \ {h} : keeper'[g] = keeper[g]
  BY <1>4, TidyParts DEF Goes, Tasks
<1>6. to \notin Live
  BY DEF Live, Running, Working, Stopping, Over
<1>7. AllSound'
  BY <1>2, <1>5, <1>6, NoneLive DEF Alone
<1>8. member' = member \/ member' = Empty
  <2>1. Unheard(h) \/ Errs(h) => member' = member
    BY StrictMeans, CalmUnheard DEF server
  <2>2. \A i : Cancels(i) \/ NotFound(i) => member' = member
    BY DEF Cancels, NotFound, server
  <2>3. \A i : Fires(i) => member' = Empty
    BY DEF Fires, Cleared
  <2>4. Cleared(h) => member' = Empty
    BY DEF Cleared
  <2> QED BY <2>1, <2>2, <2>3, <2>4 DEF End, Stop, SendLeave, ClearMember, HandOver
<1> QED BY <1>7, <1>8, StillOld

LEMMA StartSound ==
  ASSUME Tidy, Safe, Strict, Roomy, AllSound, NEW h \in Holds, Start(h)
  PROVE  AllSound' /\ NoOldChain
<1>0. keeper[h] \in Tasks /\ keeper \in [Holds -> Tasks] /\ slot \in 0..MaxHolds
  BY TidyParts
<1>1. CASE Hold(h)
  <2>1. UNCHANGED server /\ keeper[h].at = "none"
    BY <1>1 DEF Hold
  <2>2. "join" \notin Live /\ "supersede" \notin Live
    BY DEF Live, Running, Working
  <2>3. CASE slot = 0
    <3>1. keeper' = [keeper EXCEPT ![h].at = "join"]
      BY <1>1, <2>3 DEF Hold
    <3>2. keeper'[h].at = "join" /\ \A g \in Holds \ {h} : keeper'[g] = keeper[g]
      BY <1>0, <3>1 DEF Tasks
    <3> QED BY <2>1, <2>2, <3>2, StillSound, StillOld DEF server, SameKnown
  <2>4. CASE slot # 0
    <3>1. keeper' = [keeper EXCEPT ![h].at = "supersede", ![slot].cmd = Told(slot, "hand_over")]
      BY <1>1, <2>4 DEF Hold
    <3>2. slot \in Holds /\ slot # h
      BY <1>0, <2>1, <2>4 DEF Holds, Tidy, Slotted
    <3>3. keeper'[h].at = "supersede" /\ \A g \in Holds \ {h, slot} : keeper'[g] = keeper[g]
      BY <1>0, <3>1, <3>2 DEF Tasks
    <3>4. keeper'[slot] = [keeper[slot] EXCEPT !.cmd = Told(slot, "hand_over")]
      BY <1>0, <3>1, <3>2
    <3>5. /\ SameKnown(keeper'[slot], keeper[slot])
          /\ keeper'[slot].at = keeper[slot].at /\ keeper'[slot].age = keeper[slot].age
          /\ keeper'[slot].chain = keeper[slot].chain
      BY <1>0, <3>2, <3>4 DEF SameKnown, Tasks
    <3> QED BY <2>1, <2>2, <3>3, <3>5, StillSound, StillOld DEF server, SameKnown
  <2> QED BY <2>3, <2>4
<1>2. CASE Supersede(h)
  <2>1. /\ keeper[h].at = "supersede" /\ keeper[slot].at \in Over /\ UNCHANGED server
        /\ slot # 0 /\ slot \in Holds
    BY <1>0, <1>2, StrictMeans, CalmMeans DEF Supersede, Tidy, Slotted, Holds
  <2>2. keeper[h].at \in Starting /\ slot # h
    BY <2>1 DEF Starting, Over
  <2>3. /\ \A g \in Holds \ {h, slot} : keeper'[g] = keeper[g]
        /\ keeper'[slot].at = keeper[slot].at /\ keeper'[h].at \in {"join", "cancel"}
    <3> DEFINE p == keeper[slot]
    <3>1. keeper' = [keeper EXCEPT ![h].at = IF p.id = NoId THEN "join" ELSE "cancel",
                                   ![h].taken = p.id, ![slot] = [New EXCEPT !.at = p.at]]
      BY <1>2, <2>1 DEF Supersede
    <3> HIDE DEF p
    <3>2. /\ \A g \in Holds \ {h, slot} : keeper'[g] = keeper[g]
          /\ keeper'[slot].at = p.at /\ keeper'[h].at \in {"join", "cancel"}
      BY <1>0, <2>1, <2>2, <3>1 DEF Tasks, New
    <3> QED BY <3>2 DEF p
  <2>4. ASSUME NEW g \in Holds PROVE keeper'[g].at \notin Live
    <3>1. CASE g = h
      BY <2>3, <3>1 DEF Live, Running, Working
    <3>2. CASE g = slot
      BY <2>1, <2>3, <3>2 DEF Live, Running, Working, Over
    <3>3. CASE g \notin {h, slot}
      <4>1. keeper[g].at \notin Starting /\ keeper[g].at \notin Alive
        BY <2>2, <3>3, StartingAlone DEF Safe, OneAlive
      <4> QED BY <2>3, <3>3, <4>1 DEF Live, Starting, Alive
    <3> QED BY <3>1, <3>2, <3>3
  <2> QED BY <2>1, <2>4, NoneLive, StillOld DEF server
<1>3. ASSUME keeper[h].at \in Starting \ {"supersede"}, NEW r \in Tasks, NEW to \in {"join", "failed"},
             Goes(h, r, to), member' = member
      PROVE  AllSound' /\ NoOldChain
  <2>1. keeper'[h].at = to /\ \A g \in Holds \ {h} : keeper'[g] = keeper[g]
    BY <1>0, <1>3 DEF Goes, Tasks
  <2>2. to \notin Live
    BY DEF Live, Running, Working
  <2>3. Alone(h)
    BY <1>3, LiveAlone
  <2> QED BY <1>3, <2>1, <2>2, <2>3, NoneLive, StillOld DEF Alone
<1>4. CASE CancelStale(h)
  <2>1. keeper[h].at = "cancel" /\ keeper[h].at \in Starting \ {"supersede"}
    BY <1>4 DEF CancelStale, Starting
  <2>2. [keeper[h] EXCEPT !.taken = NoId] \in Tasks
    BY <1>0 DEF Tasks
  <2>3. member' = member /\ Goes(h, [keeper[h] EXCEPT !.taken = NoId], "join")
    BY <1>4, StrictMeans, CalmUnheard DEF CancelStale, Cancels, NotFound, server
  <2> QED BY <1>3, <2>1, <2>2, <2>3
<1>5. CASE Join(h)
  <2>1. keeper[h].at = "join" /\ keeper[h].at \in Starting \ {"supersede"}
    BY <1>5 DEF Join, Starting
  <2>2. ASSUME NEW c \in Anchors, NewChain(h, Expiry),
               Goes(h, Unarmed(Rejoined(keeper[h], c, 0), 0), "start_arm")
        PROVE  AllSound' /\ NoOldChain
    <3> DEFINE r == Unarmed(Rejoined(keeper[h], c, 0), 0)
    <3>1. r \in Tasks
      <4>1. c \in {"none", "unanchored", "anchored"}
        BY DEF Anchors
      <4>2. Rejoined(keeper[h], c, 0) \in Tasks
        BY <1>0, <4>1, TaskOps, Timings
      <4> QED BY <4>2, TaskOps
    <3>2. Goes(h, r, "start_arm") /\ Alone(h)
      BY <2>1, <2>2, LiveAlone
    <3> HIDE DEF r
    <3>3. "start_arm" \notin Running
      BY DEF Running, Working
    <3> QED BY <2>2, <3>1, <3>2, <3>3, GoesSound, Publishes
  <2>3. CASE Errs(h) /\ Goes(h, New, "failed")
    <3>1. member' = member
      BY <2>3, StrictMeans, CalmUnheard DEF server
    <3> QED BY <1>3, <2>1, <2>3, <3>1, NewTask
  <2> QED BY <1>5, <2>2, <2>3 DEF Join
<1> QED BY <1>1, <1>2, <1>4, <1>5 DEF Start

\* A delayed leave that goes off finds its keeper about to look after it, or
\* about to publish anew: never with a refresh under way.
LEMMA ExpireSound ==
  ASSUME Tidy, Safe, Roomy, AllSound, NEW i \in Ids, Expire(i)
  PROVE  AllSound' /\ NoOldChain
<1>1. /\ delayed[i].left = 0 /\ delayed[i].by # 0 /\ member' = Empty /\ keeper' = keeper
      /\ delayed' = [delayed EXCEPT ![i] = NoLeave] /\ delayed \in [Ids -> Leaves]
  BY DEF Expire, Fires, Pending, Cleared, Tidy, TypeOK, Leaves
<1>2. ASSUME NEW h \in Holds, keeper[h].at \in Live
      PROVE  Sound(h, keeper[h], member', delayed', spent')
  <2> DEFINE k == keeper[h]
  <2>1. keeper[h].at # "start_arm"
    <3> SUFFICES ASSUME keeper[h].at = "start_arm" PROVE FALSE
      OBVIOUS
    <3>1. keeper[h].at \in Starting /\ keeper[h].at # "supersede" /\ keeper[h].at # "cancel"
      BY DEF Starting
    <3> QED BY <1>1, <3>1, StartingAlone DEF Pending
  <2>2. keeper[h].at \in Running
    BY <1>2, <2>1 DEF Live
  <2>3. /\ k \in Tasks /\ i = k.id
        /\ k.at \notin {"arm", "check", "rearm", "rearm_gone"} /\ k.leave = "armed"
    BY <1>1, <2>2, RunFacts, Timings DEF Pending
  <2>4. OnTime(k, delayed)
    BY <2>2, <2>3, SoundFacts
  <2>5. k.leaveIn = 0
    <3>1. k.leaveIn > 0 => RestartEvery >= k.leaveIn + LeaveDelay
      BY <1>1, <2>3, <2>4, Timings DEF OnTime
    <3>2. k.leaveIn \in Nat /\ RestartEvery < LeaveDelay
      BY <2>3, KeeperAssumption DEF Tasks, KeeperAssumption, Validated
    <3> HIDE DEF k
    <3> QED BY <3>1, <3>2, Timings
  <2>6. k.at # "refresh"
    <3> SUFFICES ASSUME k.at = "refresh" PROVE FALSE
      OBVIOUS
    <3>1. k.age <= RequestTime /\ delayed[i].left + k.age > RequestTime
      BY <2>3 DEF AllSound, Sound, Continues
    <3>2. k.age \in Nat
      BY <2>3 DEF Tasks
    <3> HIDE DEF k
    <3> QED BY <1>1, <3>1, <3>2 DEF Roomy
  <2>7. k.at = "rejoin" => k.chain = "none"
    BY DEF AllSound, Sound
  <2>8. k.at \in {"idle", "restart", "in_place", "rejoin"}
    BY <2>2, <2>3, <2>6 DEF Running, Working
  <2>9. delayed'[k.id].by = 0
    BY <1>1, <2>3 DEF NoLeave
  <2> HIDE DEF k
  <2>10. Missed(k, delayed') /\ OnTime(k, delayed')
    BY <2>3, <2>5, <2>9 DEF Missed, OnTime
  <2>11. Ended(k, member', delayed')
    BY <1>1, <2>7, <2>8, <2>10 DEF Ended
  <2>12. Sound(h, k, member', delayed', spent')
    BY <2>3, <2>6, <2>7, <2>10, <2>11 DEF Sound
  <2> QED BY <2>12 DEF k
<1>3. \A h \in Holds : keeper[h].at \notin Live => Sound(h, keeper[h], member', delayed', spent')
  BY DEF Sound, Live, Running, Working
<1> QED BY <1>1, <1>2, <1>3, StillOld DEF AllSound

\* Time: a request that is not over yet gets older as the leave gets nearer.
LEMMA TickSound ==
  ASSUME Tidy, Strict, Roomy, AllSound, Tick
  PROVE  AllSound' /\ NoOldChain
<1>1. /\ keeper \in [Holds -> Tasks] /\ delayed \in [Ids -> Leaves]
      /\ member \in [by : 0..MaxHolds, left : 0..Expiry]
  BY DEF Tidy, TypeOK, Leaves
<1>2. spent' = spent /\ ~Urgent /\ member' = [member EXCEPT !.left = Minus(member.left, 1)]
  BY <1>1 DEF Tick
<1>3. member = Empty => member' = Empty
  BY <1>2 DEF Empty, Minus
<1>4. ASSUME NEW i \in Ids
      PROVE  /\ delayed'[i].by = delayed[i].by
             /\ delayed[i].left \in Nat /\ delayed'[i].left = Minus(delayed[i].left, 1)
             /\ delayed[i].by # 0 => delayed[i].left > 0
  <2>1. delayed[i].left \in Nat /\ delayed[i] \in Leaves
    BY <1>1, Timings DEF Leaves
  <2>2. delayed' = [j \in Ids |-> [delayed[j] EXCEPT !.left = Minus(delayed[j].left, 1)]]
    BY <1>1 DEF Tick, Leaves
  <2>3. delayed[i].by # 0 => delayed[i].left # 0
    BY <1>2 DEF Urgent, Pending
  <2> QED BY <2>1, <2>2, <2>3 DEF Leaves
<1>5. ASSUME NEW h \in Holds PROVE Sound(h, keeper'[h], member', delayed', spent')
  <2> DEFINE k == keeper[h]
             n == keeper'[h]
  <2>1. /\ n = Ticked(k) /\ k \in Tasks
        /\ n.at = k.at /\ n.id = k.id /\ n.leave = k.leave
    BY <1>1, TickKeepers, TickTask
  <2>2. /\ n.chain = k.chain /\ n.leaveIn = Minus(k.leaveIn, 1)
        /\ n.age = IF k.at \in InFlight /\ k.age < Expiry THEN k.age + 1 ELSE k.age
    BY <2>1 DEF Ticked, Tasks
  <2>3. k.leaveIn \in Nat /\ k.age \in Nat
    BY <2>1 DEF Tasks
  <2>4. Sound(h, k, member, delayed, spent)
    BY DEF AllSound
  <2>5. k.at = "refresh" => k.age # RequestTime
    BY <1>2, StrictMeans DEF Urgent, InFlight, Working
  <2> HIDE DEF k, n
  <2>6. OnTime(k, delayed) => OnTime(n, delayed')
    <3> SUFFICES ASSUME OnTime(k, delayed), k.leave = "armed"
                 PROVE  /\ n.id \in Ids
                        /\ n.leaveIn > 0 => /\ delayed'[n.id].by # 0
                                            /\ delayed'[n.id].left + RestartEvery >= n.leaveIn + LeaveDelay
      BY <2>1 DEF OnTime
    <3>1. k.id \in Ids
      BY DEF OnTime
    <3>2. ASSUME n.leaveIn > 0
          PROVE  /\ delayed'[n.id].by # 0
                 /\ delayed'[n.id].left + RestartEvery >= n.leaveIn + LeaveDelay
      <4>1. k.leaveIn > 0 /\ n.leaveIn = k.leaveIn - 1
        BY <2>2, <2>3, <3>2 DEF Minus
      <4>2. delayed[k.id].by # 0 /\ delayed[k.id].left + RestartEvery >= k.leaveIn + LeaveDelay
        BY <4>1 DEF OnTime
      <4>3. /\ delayed[k.id].left \in Nat /\ delayed[k.id].left > 0
            /\ delayed'[k.id].left = delayed[k.id].left - 1 /\ delayed'[k.id].by # 0
        BY <1>4, <3>1, <4>2 DEF Minus
      <4>4. delayed'[k.id].left + RestartEvery >= n.leaveIn + LeaveDelay
        BY <2>3, <4>1, <4>2, <4>3, Timings
      <4> QED BY <2>1, <4>3, <4>4
    <3> QED BY <2>1, <3>1, <3>2
  <2>7. k.at = "refresh" => Continues(h, n, delayed', spent')
    <3> SUFFICES ASSUME k.at = "refresh" PROVE Continues(h, n, delayed', spent')
      OBVIOUS
    <3>1. /\ k.age <= RequestTime /\ h \notin spent
          /\ k.leave = "armed" =>
               k.id \in Ids /\ delayed[k.id].by # 0 /\ delayed[k.id].left + k.age > RequestTime
      BY <2>4 DEF Sound, Continues
    <3>2. n.age = k.age + 1 /\ n.age <= RequestTime
      <4>1. k.age < RequestTime /\ k.at \in InFlight
        BY <2>3, <2>5, <3>1 DEF Roomy, InFlight, Working
      <4>2. k.age < Expiry
        BY <2>3, <4>1, Timings DEF Roomy
      <4> QED BY <2>2, <2>3, <4>1, <4>2 DEF Roomy
    <3>3. ASSUME k.leave = "armed"
          PROVE  k.id \in Ids /\ delayed'[k.id].by # 0 /\ delayed'[k.id].left + n.age > RequestTime
      <4>1. k.id \in Ids /\ delayed[k.id].by # 0 /\ delayed[k.id].left + k.age > RequestTime
        BY <3>1, <3>3
      <4>2. /\ delayed[k.id].left \in Nat /\ delayed[k.id].left > 0
            /\ delayed'[k.id].left = delayed[k.id].left - 1 /\ delayed'[k.id].by # 0
        BY <1>4, <4>1 DEF Minus
      <4> QED BY <2>3, <3>2, <4>1, <4>2 DEF Roomy
    <3> QED BY <1>2, <2>1, <3>1, <3>2, <3>3 DEF Continues
  <2>8. Ended(k, member, delayed) => Ended(n, member', delayed')
    <3>1. Missed(k, delayed) => Missed(n, delayed')
      <4>1. k.leaveIn = 0 => n.leaveIn = 0
        BY <2>2 DEF Minus
      <4>2. k.id \in Ids => delayed'[k.id].by = delayed[k.id].by
        BY <1>4
      <4> QED BY <2>1, <4>1, <4>2 DEF Missed
    <3> QED BY <1>3, <2>1, <2>2, <3>1 DEF Ended
  <2>9. Sound(h, n, member', delayed', spent')
    BY <1>2, <2>1, <2>2, <2>4, <2>6, <2>7, <2>8 DEF Sound
  <2> QED BY <2>9 DEF n
<1> QED BY <1>3, <1>5 DEF AllSound, NoOldChain

LEMMA NextSound ==
  ASSUME Tidy, Safe, Strict, Roomy, AllSound, [Next]_vars
  PROVE  AllSound' /\ NoOldChain
<1>1. ASSUME NEW h \in Holds, Start(h) PROVE AllSound' /\ NoOldChain
  BY <1>1, StartSound
<1>2. ASSUME NEW h \in Holds, Work(h) \/ StartInPlace(h) PROVE AllSound' /\ NoOldChain
  BY <1>2, ArmSound, BeginsSound, PublishSound, RestartSound, CheckSound DEF Work
<1>3. ASSUME NEW h \in Holds, Leave(h) PROVE AllSound' /\ NoOldChain
  <2>1. \A g \in Holds : /\ SameKnown(keeper'[g], keeper[g])
                        /\ keeper'[g].at = keeper[g].at /\ keeper'[g].age = keeper[g].age
                        /\ keeper'[g].chain = keeper[g].chain
    BY <1>3 DEF Leave, Tidy, TypeOK, Tasks, SameKnown
  <2> QED BY <1>3, <2>1, StillSound, StillOld DEF Leave, server
<1>4. ASSUME NEW h \in Holds, End(h) PROVE AllSound' /\ NoOldChain
  BY <1>4, EndSound
<1>5. ASSUME NEW i \in Ids, Expire(i) PROVE AllSound' /\ NoOldChain
  BY <1>5, ExpireSound
<1>6. CASE Tick
  BY <1>6, TickSound
<1>7. CASE UNCHANGED vars
  BY <1>7, StillSound, StillOld DEF vars, SameKnown
<1> QED BY <1>1, <1>2, <1>3, <1>4, <1>5, <1>6, <1>7 DEF Next

LEMMA InitSound == Init => AllSound
  BY DEF Init, New, AllSound, Sound, Live, Running, Working

\* "re-using the old created_ts after a leave is not [safe]": a membership
\* that a leave has removed comes back only with a chain of its own, whatever
\* request, pause of the host or newer hold the leave races with - if requests
\* take no longer than the timings leave room for, the restart of the leave
\* does not fail, and no delayed leave is pending that nobody knows of.
THEOREM ChainsEnd == ASSUME Roomy PROVE Spec => ChainsEndWithLeave
<1> DEFINE Inv == Tidy /\ (Calm => Safe) /\ (Strict => AllSound)
<1>1. Init => Inv
  BY InitTidy, InitSafe, InitSound
<1>2. Inv /\ [Next]_vars => Inv'
  <2> SUFFICES ASSUME Inv, [Next]_vars PROVE Inv'
    OBVIOUS
  <2>1. Tidy' /\ (Calm' => Safe')
    BY NextTidy, NextSafe, FaultsStay DEF Calm, Without
  <2>2. Strict' => AllSound'
    BY NextSound, FaultsStay, StrictMeans DEF Strict, Without
  <2> QED BY <2>1, <2>2
<1>3. Inv /\ [Next]_vars =>
        [Without(Orphans \cup {"restart", "slow"}) =>
           (member = Empty /\ member' # Empty => member'.by \notin spent')]_vars
  BY NextSound, StrictMeans DEF Strict, NoOldChain
<1> QED BY <1>1, <1>2, <1>3, PTL DEF Spec, ChainsEndWithLeave

=============================================================================
