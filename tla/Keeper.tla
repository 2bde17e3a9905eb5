------------------------------- MODULE Keeper -------------------------------
(***************************************************************************)
(* The keeper of a call membership                                         *)
(* (src/crates/aqua-matrix-agent/src/rtc_member.rs: Schedule, Keeper,      *)
(* supersede, hold_keyed, RtcMembership).                                  *)
(*                                                                         *)
(* A hold publishes our call.member state, sends it again before it        *)
(* expires, and keeps a delayed leave armed at the homeserver, which       *)
(* removes us if we go silent.  A newer hold of the same room and device   *)
(* supersedes the older one: it makes it hand over, then publishes.  Every *)
(* request takes time, may fail, and is dropped when its keeper is told to *)
(* stop.                                                                   *)
(*                                                                         *)
(* Time is kept in timers that count down: nothing depends on its origin.  *)
(***************************************************************************)
EXTENDS Naturals

CONSTANTS
  MaxHolds,      \* bound: holds of the membership
  Ids,           \* bound: ids of delayed leaves in use at once
  NoId,
  Expiry, RefreshEvery, LeaveDelay, RestartEvery, RetryAfter,  \* RtcMemberTiming
  RequestTime,   \* what a request takes at most, unless "slow"
  Faults         \* which failures come together, see Fault

Fault == {"errors",       \* a request may fail, but for the next three
          "restart",      \* the restart of the delayed leave may fail
          "send_leave",   \* asking for the delayed leave to be sent may fail
          "cancel",       \* supersede may fail to cancel the leave left to it
          "slow",         \* requests take longer than the timings leave room for
          "pause",        \* the host stands still between two requests
          "unsupported",  \* no MSC4140
          "stray",        \* a dropped or failed request is carried out all the same
          "abort"}        \* a keeper takes longer than LEAVE_TIMEOUT to stop

Holds == 1..MaxHolds

\* RtcMemberTiming::validate
Validated ==
  /\ {Expiry, RefreshEvery, LeaveDelay, RestartEvery, RetryAfter} \subseteq Nat \ {0}
  /\ RefreshEvery < Expiry /\ RestartEvery < LeaveDelay

ASSUME KeeperAssumption ==
  /\ Validated
  /\ MaxHolds \in Nat /\ NoId \notin Ids
  /\ RequestTime \in Nat
  /\ Faults \subseteq SUBSET Fault

VARIABLES
  faults,   \* the failures this behaviour has
  member,   \* the call.member state: who published it, how long it is valid
  delayed,  \* the delayed leaves the homeserver holds: whose, and when due
  keeper,   \* each hold: its task and its Schedule
  slot,     \* the hold in the registry, or 0
  spent,    \* history: holds whose chain (created_ts) a leave has ended
  writer    \* history: the hold that last changed `member`

vars == <<faults, member, delayed, keeper, slot, spent, writer>>
server == <<member, delayed, spent, writer>>

-----------------------------------------------------------------------------
Empty == [by |-> 0, left |-> 0]
NoLeave == [by |-> 0, left |-> 0]

\* Where the task of a hold is: the await it stands at.
Starting == {"supersede", "cancel", "join", "start_arm"}
Working  == {"arm", "restart", "check", "rearm", "rearm_gone", "rejoin", "refresh", "in_place"}
Running  == Working \cup {"idle"}
Stopping == {"send_leave", "clear", "hand_over"}
Over     == {"left", "gone", "failed", "aborted"}
\* A request is under way, sent on with a new token if the old one is refused
\* (with_token).
InFlight == (Starting \ {"supersede"}) \cup Working \cup Stopping

\* cmd: what it was told; id: delay_id, shared with the registry; taken: an id
\* taken from there; chain: chain_event and created_ts; then the Schedule.
New == [at |-> "none", age |-> 0, cmd |-> "hold", id |-> NoId, taken |-> NoId, chain |-> "none",
        refresh |-> 0, valid |-> 0, leave |-> "unarmed", leaveIn |-> 0]

Goes(h, k, to) == keeper' = [keeper EXCEPT ![h] = [k EXCEPT !.at = to, !.age = 0]]

\* Slip: let it go below zero.
PlainMinus(a, b) == a - b

\* saturating_sub
Minus(a, b) == IF a > b THEN a - b ELSE 0

\* Schedule::joined, rejoined; leave_armed, leave_arm_failed, leave_lost
Rejoined(k, c, ago) ==
  [k EXCEPT !.chain = c, !.valid = Minus(Expiry, ago), !.refresh = Minus(RefreshEvery, ago)]

\* Slip: look after the delayed leave when its time is up.
ArmedLate(k, i, wait) == [k EXCEPT !.id = i, !.leave = "armed", !.leaveIn = LeaveDelay]

Armed(k, i, wait) == [k EXCEPT !.id = i, !.leave = "armed", !.leaveIn = wait]
Unarmed(k, wait)  == [k EXCEPT !.leave = "unarmed", !.leaveIn = wait]
Disabled(k)       == [k EXCEPT !.leave = "disabled", !.leaveIn = 0]
RetryRefresh(k)   == [k EXCEPT !.refresh = RetryAfter]

LeaveDue(k) == k.leave # "disabled" /\ k.leaveIn = 0
Due(k) == LeaveDue(k) \/ k.refresh = 0

\* anchor_created_ts: the read of the event's timestamp may fail.
Anchors == {"anchored"} \cup IF "errors" \in faults THEN {"unanchored"} ELSE {}

-----------------------------------------------------------------------------
(* What the homeserver does with a request *)

Pending(i) == delayed[i].by # 0

Published(h, left) ==
  /\ member' = [by |-> h, left |-> left] /\ writer' = h
  /\ UNCHANGED delayed

NewChain(h, left) == Published(h, left) /\ spent' = spent \ {h}
SameChain(h, left) == Published(h, left) /\ UNCHANGED spent

Cleared(h) == member' = Empty /\ writer' = h /\ spent' = Holds

Schedules(h, i) ==
  /\ ~Pending(i) /\ \A g \in Holds : i \notin {keeper[g].id, keeper[g].taken}
  /\ delayed' = [delayed EXCEPT ![i] = [by |-> h, left |-> LeaveDelay]]
  /\ UNCHANGED <<member, spent, writer>>

Restarts(i) ==
  /\ Pending(i)
  /\ delayed' = [delayed EXCEPT ![i].left = LeaveDelay]
  /\ UNCHANGED <<member, spent, writer>>

Cancels(i) ==
  /\ Pending(i)
  /\ delayed' = [delayed EXCEPT ![i] = NoLeave]
  /\ UNCHANGED <<member, spent, writer>>

\* The delayed leave is sent: on its time, or on request.
Fires(i) ==
  /\ Pending(i)
  /\ delayed' = [delayed EXCEPT ![i] = NoLeave]
  /\ Cleared(delayed[i].by)

NotFound(i) == ~Pending(i) /\ UNCHANGED server

\* The request h waits for is carried out.
Effect(h) ==
  LET k == keeper[h] IN
  \/ k.at \in {"join", "rejoin"} /\ NewChain(h, Expiry)
  \/ k.at = "in_place" /\ NewChain(h, Minus(Expiry, k.age))
  \/ k.at = "refresh" /\ SameChain(h, Minus(Expiry, k.age))
  \/ k.at \in {"start_arm", "arm", "rearm", "rearm_gone"} /\ \E i \in Ids : Schedules(h, i)
  \/ k.at = "restart" /\ Restarts(k.id)
  \/ k.at \in {"cancel", "hand_over"} /\ Cancels(k.taken)
  \/ k.at = "send_leave" /\ Fires(k.taken)
  \/ k.at = "clear" /\ Cleared(h) /\ UNCHANGED delayed

\* Nobody waits for the answer any more, or none came.
Unheard(h) == UNCHANGED server \/ ("stray" \in faults /\ Effect(h))
Errs(h) == "errors" \in faults /\ Unheard(h)

-----------------------------------------------------------------------------
(* hold_keyed: one start at a time *)

Told(h, what) == IF keeper[h].cmd = "hold" THEN what ELSE keeper[h].cmd

Hold(h) ==
  /\ keeper[h].at = "none"
  /\ \A g \in 1..(h - 1) : keeper[g].at \notin Starting \cup {"none"}
  /\ keeper' = IF slot = 0
               THEN [keeper EXCEPT ![h].at = "join"]
               ELSE [keeper EXCEPT ![h].at = "supersede", ![slot].cmd = Told(slot, "hand_over")]
  /\ UNCHANGED <<faults, server, slot>>

\* supersede: the previous keeper has stopped, or is aborted; then the delayed
\* leave it left in the slot is cancelled.
Supersede(h) ==
  LET prev == keeper[slot] IN
  /\ keeper[h].at = "supersede"
  /\ \/ prev.at \in Over /\ UNCHANGED server
     \/ prev.at \notin Over /\ "abort" \in faults /\ Unheard(slot)
  /\ keeper' = [keeper EXCEPT
       ![h].at = IF prev.id = NoId THEN "join" ELSE "cancel",
       ![h].taken = prev.id,
       ![slot] = [New EXCEPT !.at = IF prev.at \in Over THEN prev.at ELSE "aborted"]]
  /\ UNCHANGED <<faults, slot>>

\* A failure of this cancel is only logged.
CancelStale(h) ==
  LET k == keeper[h] IN
  /\ k.at = "cancel"
  /\ Cancels(k.taken) \/ NotFound(k.taken) \/ ("cancel" \in faults /\ Unheard(h))
  /\ Goes(h, [k EXCEPT !.taken = NoId], "join")
  /\ UNCHANGED <<faults, slot>>

\* start_shared: publish, or give up; the slot is empty since supersede.
Join(h) ==
  LET k == keeper[h] IN
  /\ k.at = "join"
  /\ \/ /\ NewChain(h, Expiry)
        /\ \E c \in Anchors : Goes(h, Unarmed(Rejoined(k, c, 0), 0), "start_arm")
        /\ UNCHANGED slot
     \/ Errs(h) /\ Goes(h, New, "failed") /\ slot' = 0
  /\ UNCHANGED faults

-----------------------------------------------------------------------------
(* The keeper: Keeper::tick and what it is due to do *)

Idle(h) == keeper[h].at = "idle" /\ keeper[h].cmd = "hold"

\* arm_leave, and what follows it: at the start the keeper is spawned and
\* registered, after a lost leave the membership may have to be re-published.
AfterArm(k) == IF k.at = "rearm_gone" THEN "rejoin" ELSE "idle"

\* A rejoin: until it succeeds there is no chain that may be continued.
Broken(k) == [k EXCEPT !.chain = IF k.at = "rearm_gone" THEN "none" ELSE @]

ArmLeave(h) ==
  LET k == Broken(keeper[h])
      to(r) == Goes(h, r, AfterArm(k))
  IN
  /\ k.at \in {"start_arm", "arm", "rearm", "rearm_gone"} /\ k.cmd = "hold"
  /\ \/ "unsupported" \notin faults /\ \E i \in Ids : Schedules(h, i) /\ to(Armed(k, i, RestartEvery))
     \/ "unsupported" \in faults /\ UNCHANGED server /\ to(Disabled(k))
     \/ "unsupported" \notin faults /\ Errs(h) /\ to(Unarmed(k, RetryAfter))
  /\ slot' = IF k.at = "start_arm" THEN h ELSE slot
  /\ UNCHANGED faults

\* Schedule::due: the delayed leave goes first.
StartLeaveWork(h) ==
  LET k == keeper[h] IN
  /\ Idle(h) /\ LeaveDue(k)
  /\ Goes(h, k, IF k.leave = "armed" THEN "restart" ELSE "arm")
  /\ UNCHANGED <<faults, server, slot>>

\* Slip: nothing to continue, nothing to do.
RefreshOnly(h) ==
  LET k == keeper[h] IN
  /\ Idle(h) /\ ~LeaveDue(k) /\ k.refresh = 0
  /\ IF k.chain # "none"
     THEN Goes(h, [k EXCEPT !.chain = "anchored"], "refresh")
     ELSE Goes(h, RetryRefresh(k), "idle")
  /\ UNCHANGED <<faults, server, slot>>

\* refresh: continue the chain if there is one, it has not lapsed, and its
\* created_ts is known, if need be after another look; else rejoin.
StartRefresh(h) ==
  LET k == keeper[h] IN
  /\ Idle(h) /\ ~LeaveDue(k) /\ k.refresh = 0
  /\ \/ k.chain # "none" /\ k.valid > 0 /\ Goes(h, [k EXCEPT !.chain = "anchored"], "refresh")
     \/ /\ k.chain = "none" \/ k.valid = 0 \/ (k.chain = "unanchored" /\ "errors" \in faults)
        /\ Goes(h, [k EXCEPT !.chain = "none"], "rejoin")
  /\ UNCHANGED <<faults, server, slot>>

Refresh(h) ==
  LET k == keeper[h] IN
  /\ k.at = "refresh" /\ k.cmd = "hold"
  /\ \/ /\ SameChain(h, Minus(Expiry, k.age))
        /\ Goes(h, [k EXCEPT !.valid = Minus(Expiry, k.age), !.refresh = RefreshEvery], "idle")
     \/ Errs(h) /\ Goes(h, RetryRefresh(k), "idle")
  /\ UNCHANGED <<faults, slot>>

Rejoin(h) ==
  LET k == keeper[h] IN
  /\ k.at = "rejoin" /\ k.cmd = "hold"
  /\ \/ NewChain(h, Expiry) /\ \E c \in Anchors : Goes(h, Rejoined(k, c, 0), "idle")
     \/ Errs(h) /\ Goes(h, RetryRefresh(k), "idle")
  /\ UNCHANGED <<faults, slot>>

\* RtcMembership::rejoin, served when nothing is due or the task wakes late.
StartInPlace(h) ==
  LET k == keeper[h] IN
  /\ Idle(h) /\ (~Due(k) \/ "pause" \in faults)
  /\ Goes(h, k, "in_place")
  /\ UNCHANGED <<faults, server, slot>>

\* rejoin_in_place: a created_ts of our own making, so it is known.
RejoinInPlace(h) ==
  LET k == keeper[h] IN
  /\ k.at = "in_place" /\ k.cmd = "hold"
  /\ \/ NewChain(h, Minus(Expiry, k.age)) /\ Goes(h, Rejoined(k, "anchored", k.age), "idle")
     \/ Errs(h) /\ Goes(h, k, "idle")
  /\ UNCHANGED <<faults, slot>>

\* Slip: a delayed leave that is gone counts as restarted.
RestartBlindly(h) ==
  LET k == keeper[h] IN
  /\ k.at = "restart" /\ k.cmd = "hold"
  /\ Restarts(k.id) \/ NotFound(k.id)
  /\ Goes(h, Armed(k, k.id, RestartEvery), "idle")
  /\ UNCHANGED <<faults, slot>>

\* restart_leave
RestartLeave(h) ==
  LET k == keeper[h] IN
  /\ k.at = "restart" /\ k.cmd = "hold"
  /\ \/ Restarts(k.id) /\ Goes(h, Armed(k, k.id, RestartEvery), "idle")
     \/ NotFound(k.id) /\ Goes(h, [k EXCEPT !.id = NoId], "check")
     \/ /\ "restart" \in faults /\ Unheard(h)
        /\ Goes(h, Armed(k, k.id, IF RetryAfter < RestartEvery THEN RetryAfter ELSE RestartEvery),
                "idle")
  /\ UNCHANGED <<faults, slot>>

\* Slip: the membership is assumed to be there.
CheckBlindly(h) ==
  LET k == keeper[h] IN
  /\ k.at = "check" /\ k.cmd = "hold"
  /\ Goes(h, Unarmed(k, 0), "rearm")
  /\ UNCHANGED <<faults, server, slot>>

\* member_is_live after the leave was lost: an error counts as gone.
Check(h) ==
  LET k == keeper[h] IN
  /\ k.at = "check" /\ k.cmd = "hold"
  /\ \/ member # Empty /\ Goes(h, Unarmed(k, 0), "rearm")
     \/ (member = Empty \/ "errors" \in faults) /\ Goes(h, Unarmed(k, 0), "rearm_gone")
  /\ UNCHANGED <<faults, server, slot>>

-----------------------------------------------------------------------------
(* Stopping: Keeper::run *)

\* RtcMembership::leave or drop; a condition that is fatal ends it the same way.
Leave(h) ==
  /\ keeper[h].at \in Running /\ keeper[h].cmd = "hold"
  /\ keeper' = [keeper EXCEPT ![h].cmd = "leave"]
  /\ UNCHANGED <<faults, server, slot>>

\* The command preempts the request in flight.  leave and hand_over take the
\* id of the delayed leave.
Stop(h) ==
  LET k == keeper[h]
      rest == [New EXCEPT !.cmd = k.cmd, !.taken = k.id]
  IN
  /\ k.at \in Running /\ k.cmd # "hold"
  /\ Unheard(h)
  /\ IF k.cmd = "leave"
     THEN Goes(h, rest, IF k.id = NoId THEN "clear" ELSE "send_leave")
     ELSE Goes(h, rest, IF k.id = NoId THEN "gone" ELSE "hand_over")
  /\ UNCHANGED <<faults, slot>>

SendLeave(h) ==
  LET k == keeper[h] IN
  /\ k.at = "send_leave"
  /\ \/ Fires(k.taken) /\ Goes(h, New, "left")
     \/ /\ NotFound(k.taken) \/ ("send_leave" \in faults /\ Unheard(h))
        /\ Goes(h, [k EXCEPT !.taken = NoId], "clear")
  /\ UNCHANGED <<faults, slot>>

ClearMember(h) ==
  /\ keeper[h].at = "clear"
  /\ \/ Cleared(h) /\ UNCHANGED delayed /\ Goes(h, New, "left")
     \/ Errs(h) /\ Goes(h, New, "failed")
  /\ UNCHANGED <<faults, slot>>

\* Slip: what could not be cancelled is forgotten.
HandOverForgets(h) ==
  LET k == keeper[h] IN
  /\ k.at = "hand_over"
  /\ Cancels(k.taken) \/ NotFound(k.taken) \/ Errs(h)
  /\ Goes(h, New, "gone")
  /\ UNCHANGED <<faults, slot>>

\* A delayed leave that could not be cancelled stays in the slot.
HandOver(h) ==
  LET k == keeper[h] IN
  /\ k.at = "hand_over"
  /\ \/ (Cancels(k.taken) \/ NotFound(k.taken)) /\ Goes(h, New, "gone")
     \/ Errs(h) /\ Goes(h, [New EXCEPT !.id = k.taken], "gone")
  /\ UNCHANGED <<faults, slot>>

-----------------------------------------------------------------------------
(* Time *)

\* What does not wait: a leave that is due, a task that can go on.
Urgent ==
  \/ \E i \in Ids : Pending(i) /\ delayed[i].left = 0
  \/ \E h \in Holds :
       LET k == keeper[h] IN
       \/ k.at \in InFlight /\ k.age = RequestTime /\ "slow" \notin faults
       \/ k.at \in Running /\ k.cmd # "hold"
       \/ k.at = "supersede" /\ keeper[slot].at \in Over
       \/ k.at = "idle" /\ Due(k) /\ "pause" \notin faults

Tick ==
  /\ ~Urgent
  /\ member' = [member EXCEPT !.left = Minus(@, 1)]
  /\ delayed' = [i \in Ids |-> [delayed[i] EXCEPT !.left = Minus(@, 1)]]
  /\ keeper' = [h \in Holds |->
       [keeper[h] EXCEPT !.refresh = Minus(@, 1), !.valid = Minus(@, 1), !.leaveIn = Minus(@, 1),
                         !.age = IF keeper[h].at \in InFlight /\ @ < Expiry THEN @ + 1 ELSE @]]
  /\ UNCHANGED <<faults, slot, spent, writer>>

\* The homeserver sends a delayed leave whose time has come.
Expire(i) ==
  /\ delayed[i].left = 0 /\ Fires(i)
  /\ UNCHANGED <<faults, keeper, slot>>

-----------------------------------------------------------------------------
Init ==
  /\ faults \in Faults
  /\ member = Empty /\ delayed = [i \in Ids |-> NoLeave]
  /\ keeper = [h \in Holds |-> New] /\ slot = 0
  /\ spent = {} /\ writer = 0

Start(h) == Hold(h) \/ Supersede(h) \/ CancelStale(h) \/ Join(h)
Work(h)  == \/ ArmLeave(h) \/ StartLeaveWork(h) \/ StartRefresh(h) \/ Refresh(h) \/ Rejoin(h)
            \/ RejoinInPlace(h) \/ RestartLeave(h) \/ Check(h)
End(h)   == Stop(h) \/ SendLeave(h) \/ ClearMember(h) \/ HandOver(h)

Next == \/ \E h \in Holds : Start(h) \/ Work(h) \/ StartInPlace(h) \/ Leave(h) \/ End(h)
        \/ \E i \in Ids : Expire(i)
        \/ Tick

Spec == Init /\ [][Next]_vars

\* A task whose await is ready is polled, and works off what is due; time goes
\* on; publishing that is tried again and again gets through.
Fairness ==
  /\ SF_vars(Tick) /\ WF_vars(\E i \in Ids : Expire(i))
  /\ WF_vars(\E h \in Holds : Work(h) \/ Stop(h))
  /\ SF_vars(\E h \in Holds : StartLeaveWork(h))
  /\ SF_vars(\E h \in Holds : StartRefresh(h))
  /\ SF_vars(\E h \in Holds : Refresh(h) /\ keeper'[h].refresh = RefreshEvery)
  /\ SF_vars(\E h \in Holds : Rejoin(h) /\ keeper'[h].chain # "none")

FairSpec == Spec /\ Fairness

-----------------------------------------------------------------------------
(* Properties *)

Tasks == [at : {"none"} \cup Starting \cup Running \cup Stopping \cup Over, age : Nat,
          cmd : {"hold", "leave", "hand_over"}, id : Ids \cup {NoId}, taken : Ids \cup {NoId},
          chain : {"none", "unanchored", "anchored"}, refresh : Nat, valid : Nat,
          leave : {"disabled", "unarmed", "armed"}, leaveIn : Nat]

\* The shape of every variable: no timer runs below zero, and nothing is valid
\* or pending for longer than its timing says.
TypeOK ==
  /\ faults \in Faults
  /\ member \in [by : 0..MaxHolds, left : 0..Expiry]
  /\ delayed \in [Ids -> [by : 0..MaxHolds, left : 0..LeaveDelay]]
  /\ keeper \in [Holds -> Tasks]
  /\ slot \in 0..MaxHolds /\ spent \subseteq Holds /\ writer \in 0..MaxHolds

Without(fs) == faults \cap fs = {}

\* Failures after which a delayed leave nobody knows of is pending.
Orphans == {"stray", "abort", "cancel", "send_leave"}

\* "a previous keeper of this membership can no longer clear it": what an
\* older hold, or its delayed leave, does to the membership is over once a
\* newer one has published.
SupersededIsSilent == [][writer' >= writer]_vars

\* The same, unless a delayed leave nobody knows of may be pending.
WritersInOrder == [][Without(Orphans) => writer' >= writer]_vars

\* "re-using the old created_ts after a leave is not [safe]": a membership
\* comes back after a leave only with a created_ts of its own.
NewChainAfterLeave ==
  [][member = Empty /\ member' # Empty => member'.by \notin spent']_vars

ChainsEndWithLeave ==
  [][Without(Orphans \cup {"restart", "slow"}) =>
       (member = Empty /\ member' # Empty => member'.by \notin spent')]_vars

\* "a crash removes the member within leave_delay": while a keeper takes its
\* switch for armed, with no restart overdue, a leave is pending that removes
\* what it has published, wherever its process dies.
SwitchHolds ==
  Without({"restart"}) =>
    \A h \in Holds :
      LET k == keeper[h] IN
      k.at \in Running /\ k.leave = "armed" /\ k.leaveIn > 0 /\ member.by = h
        => Pending(k.id)

\* "keeps that membership for as long as the returned RtcMembership lives": if
\* nothing fails and requests take no longer than the timings leave room for,
\* the membership of a running keeper is never empty nor expired.
HeldStaysLive ==
  Without(Fault \ {"unsupported"}) =>
    \A h \in Holds : keeper[h].at \in Running => member.by = h /\ member.left > 0

\* "If our membership disappears mid-call or lapses, it is re-published":
\* whatever fails, a held membership is there again after a while.
ComesBack ==
  \A h \in Holds : keeper[h].at \in Running ~> \/ keeper[h].at \notin Running
                                               \/ member.by = h /\ member.left > 0
=============================================================================
