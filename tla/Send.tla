--------------------------------- MODULE Send ---------------------------------
(***************************************************************************)
(* Sending a message and waiting for its reply                              *)
(* (src/crates/aqua-messenger/src/engine.rs send, WaitForReply and ingest;  *)
(* ratelimit.rs).                                                           *)
(*                                                                          *)
(* Sessions are served concurrently.  A send reserves a slot of its         *)
(* recipient's budget, reads the inbox cursor, awaits the transport, and    *)
(* gives the slot back when the transport fails.  The session may then wait *)
(* for entries behind that cursor; the inbound side records an entry and    *)
(* wakes the waiters in two steps.  What the inbox keeps is module Inbox:   *)
(* here nothing is evicted.  The allow-list and reply targets are left out. *)
(***************************************************************************)
EXTENDS Naturals, Sequences, FiniteSets

CONSTANTS
  Sessions,
  People,     \* allow-listed recipients (persons or rooms)
  Flaky,      \* those the transport may fail to reach
  MaxCount,   \* Limits::rate_count
  Window,     \* Limits::rate_window_secs
  MaxTime,    \* bound: the clock
  MaxSends,   \* bound: sends
  MaxSeq      \* bound: inbox entries

ASSUME SendAssumption ==
  /\ Flaky \subseteq People
  /\ MaxCount \in Nat \ {0} /\ Window \in Nat \ {0}
  /\ MaxTime \in Nat /\ MaxSends \in Nat /\ MaxSeq \in Nat

VARIABLES
  now,
  budget,    \* RateLimiter::sends, the reservation times of each recipient
  sends,     \* the sends begun: who, to whom, when, the cursor, the outcome
  inbox,     \* entries by seq: sender, the send it answers (0 = none), shown
  pc,        \* where each session is
  mine,      \* each session's latest send (0 = none)
  woken,     \* sessions whose Notified has fired
  notifies,  \* notify_waiters calls still to come
  freed      \* history: when failed sends to a recipient gave a slot back

vars == <<now, budget, sends, inbox, pc, mine, woken, notifies, freed>>

-----------------------------------------------------------------------------
(* RateLimiter *)

\* The reservations at the front that are `age` old or older.
Expired(q, age) == {i \in DOMAIN q : \A j \in 1..i : now - q[j] >= age}

\* Slip: forget a reservation one unit early.
TrimEarly(q) == SubSeq(q, Cardinality(Expired(q, Window - 1)) + 1, Len(q))

\* trim: reservations are popped from the front when the window is past them
Trim(q) == SubSeq(q, Cardinality(Expired(q, Window)) + 1, Len(q))

\* Slip: one more than the budget.
Overfull(q) == Len(q) > MaxCount

\* try_acquire refuses
Full(q) == Len(q) >= MaxCount

\* Slip: a failed send keeps its slot.
Kept(q) == q

\* release: the most recent reservation, whoever made it; not trimmed
Release(q) == IF q = <<>> THEN q ELSE SubSeq(q, 1, Len(q) - 1)

-----------------------------------------------------------------------------
(* A send *)

Goto(s, l) == pc' = [pc EXCEPT ![s] = l]

\* send up to try_acquire; refused, the session is back at once.
Reserve(s, p) ==
  /\ pc[s] = "idle" /\ Len(sends) < MaxSends
  /\ LET q == Trim(budget[p]) IN
       IF Full(q)
       THEN budget' = [budget EXCEPT ![p] = q] /\ UNCHANGED <<sends, mine, pc>>
       ELSE /\ budget' = [budget EXCEPT ![p] = Append(q, now)]
            /\ sends' = Append(sends, [to |-> p, at |-> now, cursor |-> 0,
                                       reached |-> FALSE, failed |-> FALSE])
            /\ mine' = [mine EXCEPT ![s] = Len(sends')]
            /\ Goto(s, "reserved")
  /\ UNCHANGED <<now, inbox, woken, notifies, freed>>

\* inbox_seq is the high water mark, read before the transport is awaited.
ReadCursor(s) ==
  /\ pc[s] = "reserved"
  /\ sends' = [sends EXCEPT ![mine[s]].cursor = Len(inbox)]
  /\ Goto(s, "sending")
  /\ UNCHANGED <<now, budget, inbox, mine, woken, notifies, freed>>

\* The message reaches its recipient; the transport has not returned yet.
Reach(s) ==
  /\ pc[s] = "sending" /\ ~sends[mine[s]].reached
  /\ sends' = [sends EXCEPT ![mine[s]].reached = TRUE]
  /\ UNCHANGED <<now, budget, inbox, pc, mine, woken, notifies, freed>>

\* Slip: the cursor is read when the transport is back.
CursorOnReturn(s) ==
  /\ pc[s] = "sending" /\ sends[mine[s]].reached
  /\ sends' = [sends EXCEPT ![mine[s]].cursor = Len(inbox)]
  /\ \E l \in {"idle", "wait"} : Goto(s, l)
  /\ UNCHANGED <<now, budget, inbox, mine, woken, notifies, freed>>

\* Ok: the session goes on, or calls wait_for_reply behind the cursor.
SendOk(s) ==
  /\ pc[s] = "sending" /\ sends[mine[s]].reached
  /\ \E l \in {"idle", "wait"} : Goto(s, l)
  /\ UNCHANGED <<now, budget, sends, inbox, mine, woken, notifies, freed>>

\* Err, also when the outcome is unknown (a timeout after the message went out).
SendFails(s) ==
  /\ pc[s] = "sending" /\ sends[mine[s]].to \in Flaky
  /\ sends' = [sends EXCEPT ![mine[s]].failed = TRUE]
  /\ budget' = [budget EXCEPT ![sends[mine[s]].to] = Release(@)]
  /\ freed' = [freed EXCEPT ![sends[mine[s]].to] = Append(@, now)]
  /\ Goto(s, "idle")
  /\ UNCHANGED <<now, inbox, mine, woken, notifies>>

-----------------------------------------------------------------------------
(* WaitForReply: one turn of its loop is Listen, Look, Sleep and Wake *)

\* What the query with after_seq finds.
Found(s) ==
  {k \in DOMAIN inbox : /\ inbox[k].from = sends[mine[s]].to
                        /\ k > sends[mine[s]].cursor
                        /\ ~inbox[k].shown}

\* The session is answered; its Notified is dropped.
Leave(s) == Goto(s, "idle") /\ woken' = woken \ {s}

\* notified.enable(): before the inbox is looked at
Listen(s) ==
  /\ pc[s] = "wait"
  /\ Goto(s, "listening") /\ woken' = woken \ {s}
  /\ UNCHANGED <<now, budget, sends, inbox, mine, notifies, freed>>

\* Query and mark_seen under one lock.
Look(s) ==
  /\ pc[s] = "listening"
  /\ inbox' = [k \in DOMAIN inbox |->
                 IF k \in Found(s) THEN [inbox[k] EXCEPT !.shown = TRUE] ELSE inbox[k]]
  /\ IF Found(s) = {} THEN Goto(s, "looked") /\ UNCHANGED woken ELSE Leave(s)
  /\ UNCHANGED <<now, budget, sends, mine, notifies, freed>>

\* The select! is polled.
Sleep(s) ==
  /\ pc[s] = "looked"
  /\ Goto(s, "asleep")
  /\ UNCHANGED <<now, budget, sends, inbox, mine, woken, notifies, freed>>

Wake(s) ==
  /\ pc[s] = "asleep" /\ s \in woken
  /\ Goto(s, "wait")
  /\ UNCHANGED <<now, budget, sends, inbox, mine, woken, notifies, freed>>

\* The deadline, which may also win against a Notified that fired.
TimedOut(s) ==
  /\ pc[s] = "asleep" /\ Leave(s)
  /\ UNCHANGED <<now, budget, sends, inbox, mine, notifies, freed>>

-----------------------------------------------------------------------------
(* The inbound side *)

\* Engine::ingest: the entry, under the lock ...
Ingest(p, re) ==
  /\ Len(inbox) < MaxSeq
  /\ re # 0 => sends[re].reached /\ sends[re].to = p
  /\ inbox' = Append(inbox, [from |-> p, re |-> re, shown |-> FALSE])
  /\ notifies' = notifies + 1
  /\ UNCHANGED <<now, budget, sends, pc, mine, woken, freed>>

\* Slip: interest is registered when the session goes to sleep.
Asleep(s) == pc[s] = "asleep"

\* Which sessions a notify_waiters call reaches.
Listening(s) == pc[s] \in {"listening", "looked", "asleep"}

\* ... and notify_waiters, after it.
Notify ==
  /\ notifies > 0
  /\ notifies' = notifies - 1
  /\ woken' = woken \cup {s \in Sessions : Listening(s)}
  /\ UNCHANGED <<now, budget, sends, inbox, pc, mine, freed>>

Tick ==
  /\ now < MaxTime /\ now' = now + 1
  /\ UNCHANGED <<budget, sends, inbox, pc, mine, woken, notifies, freed>>

-----------------------------------------------------------------------------
Init ==
  /\ now = 0
  /\ budget = [p \in People |-> <<>>]
  /\ sends = <<>> /\ inbox = <<>>
  /\ pc = [s \in Sessions |-> "idle"] /\ mine = [s \in Sessions |-> 0]
  /\ woken = {} /\ notifies = 0
  /\ freed = [p \in People |-> <<>>]

Send(s) == (\E p \in People : Reserve(s, p)) \/ ReadCursor(s) \/ Reach(s) \/ SendOk(s) \/ SendFails(s)
Wait(s) == Listen(s) \/ Look(s) \/ Sleep(s) \/ Wake(s)

Next ==
  \/ \E s \in Sessions : Send(s) \/ Wait(s) \/ TimedOut(s)
  \/ \E p \in People, re \in 0..Len(sends) : Ingest(p, re)
  \/ Notify \/ Tick

Spec == Init /\ [][Next]_vars

\* The runtime polls a task that is ready; nothing is said of the deadline.
FairSpec == Spec /\ WF_vars(Notify) /\ \A s \in Sessions : WF_vars(Wait(s))

-----------------------------------------------------------------------------
(* Properties *)

\* The shape of every variable; a recipient's queue never outgrows its budget.
TypeOK ==
  /\ now \in 0..MaxTime
  /\ budget \in [People -> Seq(0..MaxTime)]
  /\ \A p \in People : Len(budget[p]) <= MaxCount
  /\ sends \in Seq([to : People, at : 0..MaxTime, cursor : Nat, reached : BOOLEAN,
                    failed : BOOLEAN])
  /\ inbox \in Seq([from : People, re : 0..Len(sends), shown : BOOLEAN])
  /\ pc \in [Sessions -> {"idle", "reserved", "sending", "wait", "listening", "looked", "asleep"}]
  /\ mine \in [Sessions -> 0..Len(sends)]
  /\ woken \subseteq Sessions /\ notifies \in Nat
  /\ freed \in [People -> Seq(0..MaxTime)]

\* The sends of the current window.
InWindow(p) == {i \in DOMAIN sends : sends[i].to = p /\ now - sends[i].at < Window}

\* Those that were not reported failed.
Used(p) == {i \in InWindow(p) : ~sends[i].failed}

\* The slots given back in the current window.
FreedInWindow(p) == {k \in DOMAIN freed[p] : now - freed[p][k] < Window}

\* "at most this many sends ... per this many seconds (sliding window)", where a
\* failed send gives one slot back and no more: the sends of a window exceed the
\* budget by no more than the failures of the same window, however the sends of
\* several sessions overlap and whichever reservation a release takes.
BudgetKept == \A p \in People : Cardinality(InWindow(p)) <= MaxCount + Cardinality(FreedInWindow(p))

\* Stronger, and false (in no run): no more than the budget that were not failed.
BudgetKeptForAll == \A p \in People : Cardinality(Used(p)) <= MaxCount

\* A failed send costs nothing, also when other sends to the recipient overlap
\* it or its reservation has already expired: who is told RATE LIMITED finds
\* that many sends of the window under way or made.
NoSlotLost == \A p \in People : Len(Trim(budget[p])) <= Cardinality(Used(p))

\* "pass this as after_seq to wait only for replies that arrive after its
\* send": an answer always lies behind the cursor of the send it answers, even
\* when it arrives before that send has returned.
RepliesFollowCursor ==
  \A k \in DOMAIN inbox : inbox[k].re # 0 => k > sends[inbox[k].re].cursor

\* Where a session is in wait_for_reply
Waiting(s) == pc[s] \in {"wait", "listening", "looked", "asleep"}

\* The answers to its send that no session has been shown.
Unshown(s) == {k \in DOMAIN inbox : inbox[k].re = mine[s] /\ ~inbox[k].shown}

\* "an ingest between the check and the await cannot be missed": an answer
\* that is there ends the wait, or another session takes it.  The deadline is
\* not what ends it: nothing makes it come.
AnswerEndsWait ==
  \A s \in Sessions : Waiting(s) /\ Unshown(s) # {} ~> ~Waiting(s) \/ Unshown(s) = {}
=============================================================================
