------------------------------ MODULE SendProofs ------------------------------
(***************************************************************************)
(* Proofs about module Send: the cursor a session gets from a send is        *)
(* behind every answer to it, and the sends to a recipient within a window   *)
(* exceed the budget by no more than the releases in it, for every number of *)
(* sessions, recipients, sends and entries.                                  *)
(*                                                                           *)
(* The argument for the cursor: a send is answered only once it has reached  *)
(* its recipient, it is sent only after its cursor was read, its session     *)
(* alone writes it, and the inbox only grows.                                *)
(*                                                                           *)
(* For the budget: whatever time t the window is cut at, the sends since t   *)
(* are no more than the reservations and the releases since t (Covered); a   *)
(* reservation leaves its queue from the front, past the window, or by a     *)
(* release, which takes one.                                                 *)
(*                                                                           *)
(* Below them, those about Gating: a question and its answer, a document.    *)
(***************************************************************************)
EXTENDS Send, Gating, SequenceTheorems, FiniteSetTheorems, TLAPS

SendRecord == [to : People, at : Nat, cursor : Nat, reached : BOOLEAN, failed : BOOLEAN]
EntryRecord == [from : People, re : Nat, shown : BOOLEAN]

\* The shape of what the argument is about.
Shape ==
  /\ sends \in Seq(SendRecord) /\ inbox \in Seq(EntryRecord)
  /\ now \in Nat
  /\ mine \in [Sessions -> 0..Len(sends)]
  /\ pc \in [Sessions -> {"idle", "reserved", "sending", "wait", "listening", "looked", "asleep"}]

\* A send is its session's own, and nothing of it went out before "sending".
Ownership ==
  /\ \A s \in Sessions : pc[s] # "idle" => mine[s] # 0
  /\ \A s, t \in Sessions : mine[s] = mine[t] /\ mine[s] # 0 => s = t
  /\ \A s \in Sessions : pc[s] = "reserved" => ~sends[mine[s]].reached

\* No cursor is ahead of the inbox; what is answered has gone out before.
Cursors ==
  /\ \A i \in DOMAIN sends : sends[i].cursor <= Len(inbox)
  /\ \A k \in DOMAIN inbox :
       inbox[k].re # 0 =>
         /\ inbox[k].re \in DOMAIN sends
         /\ sends[inbox[k].re].reached
         /\ k > sends[inbox[k].re].cursor

Invariant == Shape /\ Ownership /\ Cursors

-----------------------------------------------------------------------------
\* Rewriting fields of one send keeps the others and the number of sends.
LEMMA SendRewritten ==
  ASSUME Shape, NEW i \in DOMAIN sends, NEW r \in SendRecord,
         sends' = [sends EXCEPT ![i] = r]
  PROVE  /\ sends' \in Seq(SendRecord) /\ Len(sends') = Len(sends)
         /\ DOMAIN sends' = DOMAIN sends
         /\ sends'[i] = r /\ \A j \in DOMAIN sends : j # i => sends'[j] = sends[j]
BY ExceptSeq DEF Shape

\* A session that is sending has a send of its own.
LEMMA OwnSend ==
  ASSUME Shape, Ownership, NEW s \in Sessions, pc[s] # "idle"
  PROVE  mine[s] \in DOMAIN sends /\ sends[mine[s]] \in SendRecord
BY ElementOfSeq DEF Shape, Ownership

LEMMA InvariantInit == Init => Invariant
BY EmptySeq DEF Init, Invariant, Shape, Ownership, Cursors

\* Nothing here changes but where a session is, in ways the invariant allows.
LEMMA OnlyMoves ==
  ASSUME Invariant, NEW s \in Sessions, NEW l \in {"idle", "wait", "listening", "looked", "asleep"},
         Goto(s, l), pc[s] # "idle", UNCHANGED <<now, sends, inbox, mine>>
  PROVE  Invariant'
BY DEF Invariant, Shape, Ownership, Cursors, Goto

LEMMA ReserveKeeps ==
  ASSUME Invariant, NEW s \in Sessions, NEW p \in People, Reserve(s, p)
  PROVE  Invariant'
<1> DEFINE q == Trim(budget[p])
           r == [to |-> p, at |-> now, cursor |-> 0, reached |-> FALSE, failed |-> FALSE]
<1> USE DEF Invariant
<1>1. CASE Full(q)
  BY <1>1 DEF Reserve, Shape, Ownership, Cursors
<1>2. CASE ~Full(q)
  <2>1. sends' = Append(sends, r) /\ pc[s] = "idle" /\ pc' = [pc EXCEPT ![s] = "reserved"]
        /\ mine' = [mine EXCEPT ![s] = Len(sends')] /\ UNCHANGED <<now, inbox>>
    BY <1>2 DEF Reserve, Goto
  <2>2. r \in SendRecord
    BY DEF Shape, SendRecord
  <2> HIDE DEF r
  <2>3. sends' \in Seq(SendRecord) /\ Len(sends') = Len(sends) + 1 /\ Len(sends) \in Nat
        /\ DOMAIN sends = 1..Len(sends) /\ DOMAIN sends' = 1..Len(sends')
        /\ sends'[Len(sends) + 1] = r /\ \A i \in DOMAIN sends : sends'[i] = sends[i]
    BY <2>1, <2>2, AppendProperties, LenProperties DEF Shape
  <2>4. Shape'
    BY <2>1, <2>3 DEF Shape
  <2>5. r.reached = FALSE /\ r.cursor = 0
    BY DEF r
  <2>6. Ownership'
    <3>1. \A t \in Sessions : mine[t] \in 0..Len(sends) /\ mine'[t] = IF t = s THEN Len(sends) + 1 ELSE mine[t]
      BY <2>1, <2>3 DEF Shape
    <3>2. \A t \in Sessions : pc'[t] = IF t = s THEN "reserved" ELSE pc[t]
      BY <2>1 DEF Shape
    <3>3. \A t \in Sessions : pc'[t] = "reserved" => ~sends'[mine'[t]].reached
      <4>1. SUFFICES ASSUME NEW t \in Sessions, t # s, pc[t] = "reserved"
                     PROVE  ~sends'[mine[t]].reached
        BY <2>3, <2>5, <3>1, <3>2
      <4>2. mine[t] \in DOMAIN sends /\ ~sends[mine[t]].reached
        BY <4>1, OwnSend DEF Ownership
      <4> QED BY <4>2, <2>3
    <3> QED BY <2>3, <3>1, <3>2, <3>3 DEF Ownership
  <2>7. Cursors'
    BY <2>1, <2>3, <2>5, LenProperties DEF Shape, Cursors
  <2> QED BY <2>4, <2>6, <2>7
<1> QED BY <1>1, <1>2

LEMMA ReadCursorKeeps ==
  ASSUME Invariant, NEW s \in Sessions, ReadCursor(s)
  PROVE  Invariant'
<1> DEFINE i == mine[s]
           r == [sends[i] EXCEPT !.cursor = Len(inbox)]
<1> USE DEF Invariant
<1>1. i \in DOMAIN sends /\ sends[i] \in SendRecord /\ ~sends[i].reached
  BY OwnSend DEF ReadCursor, Ownership
<1>2. Len(inbox) \in Nat
  BY LenProperties DEF Shape
<1>3. r \in SendRecord /\ r.cursor = Len(inbox) /\ r.reached = FALSE
  BY <1>1, <1>2 DEF SendRecord
<1>4. sends' = [sends EXCEPT ![i] = r] /\ pc[s] = "reserved" /\ pc' = [pc EXCEPT ![s] = "sending"]
      /\ UNCHANGED <<now, inbox, mine>>
  BY DEF ReadCursor, Goto
<1> HIDE DEF r
<1>5. sends' \in Seq(SendRecord) /\ Len(sends') = Len(sends) /\ DOMAIN sends' = DOMAIN sends
      /\ sends'[i] = r /\ \A j \in DOMAIN sends : j # i => sends'[j] = sends[j]
  BY <1>1, <1>3, <1>4, SendRewritten
<1>6. Shape'
  BY <1>4, <1>5 DEF Shape
<1>7. Ownership'
  <2>1. \A t \in Sessions : pc'[t] = "reserved" => t # s /\ pc[t] = "reserved"
    BY <1>4 DEF Shape
  <2>2. \A t \in Sessions : pc[t] = "reserved" => mine[t] \in DOMAIN sends
    BY OwnSend
  <2>3. \A t \in Sessions : pc'[t] = "reserved" => ~sends'[mine'[t]].reached
    BY <1>1, <1>3, <1>4, <1>5, <2>1, <2>2 DEF Ownership
  <2>4. \A t \in Sessions : pc'[t] # "idle" => pc[t] # "idle"
    BY <1>4 DEF Shape
  <2> QED BY <1>4, <2>3, <2>4 DEF Ownership
<1>8. Cursors'
  <2>1. \A j \in DOMAIN sends : sends'[j].cursor <= Len(inbox)
    BY <1>2, <1>3, <1>5 DEF Cursors
  <2>2. \A k \in DOMAIN inbox : inbox[k].re # 0 => inbox[k].re \in DOMAIN sends /\ inbox[k].re # i
    BY <1>1 DEF Cursors
  <2> QED BY <1>4, <1>5, <2>1, <2>2 DEF Cursors
<1> QED BY <1>6, <1>7, <1>8

\* The send of a session that is sending changes, but not its cursor, and it
\* does not become unsent.
LEMMA SendProgress ==
  ASSUME Invariant, NEW s \in Sessions, pc[s] = "sending", NEW r \in SendRecord,
         sends' = [sends EXCEPT ![mine[s]] = r],
         r.cursor = sends[mine[s]].cursor, sends[mine[s]].reached => r.reached,
         pc' = pc \/ Goto(s, "idle"), UNCHANGED <<now, inbox, mine>>
  PROVE  Invariant'
<1> DEFINE i == mine[s]
<1> USE DEF Invariant
<1>1. i \in DOMAIN sends
  BY OwnSend
<1>2. sends' \in Seq(SendRecord) /\ Len(sends') = Len(sends) /\ DOMAIN sends' = DOMAIN sends
      /\ sends'[i] = r /\ \A j \in DOMAIN sends : j # i => sends'[j] = sends[j]
  BY <1>1, SendRewritten
<1>3. Shape'
  BY <1>2 DEF Shape, Goto
<1>4. \A t \in Sessions : pc'[t] # "idle" => pc'[t] = pc[t]
  BY DEF Shape, Goto
<1>5. Ownership'
  <2>1. \A t \in Sessions : pc[t] = "reserved" => mine[t] \in DOMAIN sends /\ mine[t] # i
    BY <1>1, OwnSend, LenProperties DEF Ownership, Shape
  <2>2. \A t \in Sessions : pc'[t] = "reserved" => ~sends'[mine'[t]].reached
    BY <1>2, <1>4, <2>1 DEF Ownership
  <2> QED BY <1>4, <2>2 DEF Ownership
<1>6. Cursors'
  BY <1>1, <1>2 DEF Cursors
<1> QED BY <1>3, <1>5, <1>6

LEMMA ReachKeeps ==
  ASSUME Invariant, NEW s \in Sessions, Reach(s)
  PROVE  Invariant'
<1> DEFINE r == [sends[mine[s]] EXCEPT !.reached = TRUE]
<1>1. mine[s] \in DOMAIN sends /\ sends[mine[s]] \in SendRecord
  BY OwnSend DEF Invariant, Reach
<1>2. r \in SendRecord /\ r.cursor = sends[mine[s]].cursor /\ r.reached
  BY <1>1 DEF SendRecord
<1>3. sends' = [sends EXCEPT ![mine[s]] = r] /\ pc[s] = "sending" /\ pc' = pc
      /\ UNCHANGED <<now, inbox, mine>>
  BY DEF Reach
<1> HIDE DEF r
<1> QED BY <1>2, <1>3, SendProgress

LEMMA SendFailsKeeps ==
  ASSUME Invariant, NEW s \in Sessions, SendFails(s)
  PROVE  Invariant'
<1> DEFINE r == [sends[mine[s]] EXCEPT !.failed = TRUE]
<1>1. mine[s] \in DOMAIN sends /\ sends[mine[s]] \in SendRecord
  BY OwnSend DEF Invariant, SendFails
<1>2. r \in SendRecord /\ r.cursor = sends[mine[s]].cursor /\ r.reached = sends[mine[s]].reached
  BY <1>1 DEF SendRecord
<1>3. sends' = [sends EXCEPT ![mine[s]] = r] /\ pc[s] = "sending" /\ Goto(s, "idle")
      /\ UNCHANGED <<now, inbox, mine>>
  BY DEF SendFails
<1> HIDE DEF r
<1> QED BY <1>2, <1>3, SendProgress

LEMMA LookKeeps ==
  ASSUME Invariant, NEW s \in Sessions, Look(s)
  PROVE  Invariant'
<1> USE DEF Invariant
<1>1. inbox \in [1..Len(inbox) -> EntryRecord] /\ Len(inbox) \in Nat /\ DOMAIN inbox = 1..Len(inbox)
  BY LenProperties DEF Shape
<1>2. \A k \in DOMAIN inbox : inbox'[k] \in EntryRecord /\ inbox'[k].re = inbox[k].re
  BY <1>1 DEF Look, EntryRecord
<1>3. inbox' \in [1..Len(inbox) -> EntryRecord]
  BY <1>1, <1>2 DEF Look
<1>4. inbox' \in Seq(EntryRecord) /\ DOMAIN inbox' = DOMAIN inbox /\ Len(inbox') = Len(inbox)
  BY <1>1, <1>3, IsASeq, LenProperties
<1>5. \E l \in {"idle", "looked"} : Goto(s, l)
  BY DEF Look, Leave
<1>6. pc[s] = "listening" /\ UNCHANGED <<now, sends, mine>>
  BY DEF Look
<1>7. Shape' /\ Ownership'
  BY <1>4, <1>5, <1>6 DEF Shape, Ownership, Goto
<1>8. Cursors'
  BY <1>2, <1>4, <1>6 DEF Cursors
<1> QED BY <1>7, <1>8

LEMMA IngestKeeps ==
  ASSUME Invariant, NEW p \in People, NEW re \in 0..Len(sends), Ingest(p, re)
  PROVE  Invariant'
<1> DEFINE e == [from |-> p, re |-> re, shown |-> FALSE]
<1> USE DEF Invariant
<1>1. e \in EntryRecord /\ e.re = re
  BY LenProperties DEF EntryRecord, Shape
<1>2. inbox' = Append(inbox, e) /\ UNCHANGED <<now, sends, pc, mine>>
      /\ (re # 0 => sends[re].reached)
  BY DEF Ingest
<1> HIDE DEF e
<1>3. inbox' \in Seq(EntryRecord) /\ Len(inbox') = Len(inbox) + 1 /\ Len(inbox) \in Nat
      /\ DOMAIN inbox = 1..Len(inbox) /\ DOMAIN inbox' = 1..Len(inbox')
      /\ inbox'[Len(inbox) + 1] = e /\ \A k \in DOMAIN inbox : inbox'[k] = inbox[k]
  BY <1>1, <1>2, AppendProperties, LenProperties DEF Shape
<1>4. Shape' /\ Ownership'
  BY <1>2, <1>3 DEF Shape, Ownership
<1>5. DOMAIN sends = 1..Len(sends) /\ Len(sends) \in Nat /\ \A i \in DOMAIN sends : sends[i].cursor \in Nat
  <2>1. DOMAIN sends = 1..Len(sends) /\ Len(sends) \in Nat /\ sends \in [1..Len(sends) -> SendRecord]
    BY LenProperties DEF Shape
  <2> QED BY <2>1 DEF SendRecord
<1>6. Cursors'
  <2>1. \A i \in DOMAIN sends : sends[i].cursor <= Len(inbox')
    BY <1>3, <1>5 DEF Cursors
  <2>2. re # 0 => re \in DOMAIN sends /\ Len(inbox) + 1 > sends[re].cursor
    BY <1>3, <1>5 DEF Cursors
  <2> QED BY <1>1, <1>2, <1>3, <2>1, <2>2 DEF Cursors
<1> QED BY <1>4, <1>6

LEMMA InvariantStep == Invariant /\ [Next]_vars => Invariant'
<1> SUFFICES ASSUME Invariant, [Next]_vars PROVE Invariant'
  OBVIOUS
<1>1. ASSUME NEW s \in Sessions, NEW p \in People, Reserve(s, p) PROVE Invariant'
  BY <1>1, ReserveKeeps
<1>2. ASSUME NEW s \in Sessions, ReadCursor(s) PROVE Invariant'
  BY <1>2, ReadCursorKeeps
<1>3. ASSUME NEW s \in Sessions, Reach(s) PROVE Invariant'
  BY <1>3, ReachKeeps
<1>4. ASSUME NEW s \in Sessions, SendOk(s) PROVE Invariant'
  BY <1>4, OnlyMoves DEF SendOk
<1>5. ASSUME NEW s \in Sessions, SendFails(s) PROVE Invariant'
  BY <1>5, SendFailsKeeps
<1>6. ASSUME NEW s \in Sessions, Listen(s) \/ Sleep(s) \/ Wake(s) \/ TimedOut(s) PROVE Invariant'
  BY <1>6, OnlyMoves DEF Listen, Sleep, Wake, TimedOut, Leave
<1>7. ASSUME NEW s \in Sessions, Look(s) PROVE Invariant'
  BY <1>7, LookKeeps
<1>8. ASSUME NEW p \in People, NEW re \in 0..Len(sends), Ingest(p, re) PROVE Invariant'
  BY <1>8, IngestKeeps
<1>9. CASE Notify \/ Tick \/ UNCHANGED vars
  BY <1>9 DEF Notify, Tick, vars, Invariant, Shape, Ownership, Cursors
<1> QED BY <1>1, <1>2, <1>3, <1>4, <1>5, <1>6, <1>7, <1>8, <1>9 DEF Next, Send, Wait

\* What Engine::send returns as inbox_seq can be passed as after_seq without
\* missing the answer: every answer to a send lies behind its cursor, for any
\* number of sessions, recipients, failures and messages.
THEOREM CursorPrecedesReplies == Spec => []RepliesFollowCursor
<1>1. Invariant => RepliesFollowCursor
  BY DEF Invariant, Cursors, RepliesFollowCursor
<1> QED BY <1>1, InvariantInit, InvariantStep, PTL DEF Spec

-----------------------------------------------------------------------------
(* The budget of a recipient *)

\* The sends to a recipient since a time, and the reservations of a queue since then.
Since(p, t) == {i \in DOMAIN sends : sends[i].to = p /\ sends[i].at >= t}
Slots(q, t) == {k \in DOMAIN q : q[k] >= t}

Queues ==
  /\ budget \in [People -> Seq(Nat)] /\ freed \in [People -> Seq(Nat)]
  /\ \A p \in People : Len(budget[p]) <= MaxCount

\* The reservations and the releases since a time.
Room(p, t) == Cardinality(Slots(budget[p], t)) + Cardinality(Slots(freed[p], t))

\* As far back as the window reaches, every send has its reservation, or a
\* release took one.
Covered ==
  \A p \in People, t \in Nat : now < t + Window => Cardinality(Since(p, t)) <= Room(p, t)

\* No send is to come.
Past == \A i \in DOMAIN sends : sends[i].at <= now

Budgets == Queues /\ Covered /\ Past

LEMMA Limits == MaxCount \in Nat \ {0} /\ Window \in Nat \ {0}
BY SendAssumption DEF SendAssumption

LEMMA UpTo ==
  ASSUME NEW n \in Nat
  PROVE  IsFiniteSet(1..n) /\ Cardinality(1..n) = n
BY FS_Interval

LEMMA SlotsFinite ==
  ASSUME NEW q \in Seq(Nat), NEW t
  PROVE  /\ IsFiniteSet(Slots(q, t)) /\ Cardinality(Slots(q, t)) \in Nat
         /\ Cardinality(Slots(q, t)) <= Len(q)
<1>1. DOMAIN q = 1..Len(q) /\ Len(q) \in Nat
  BY LenProperties
<1>2. IsFiniteSet(1..Len(q)) /\ Cardinality(1..Len(q)) = Len(q)
  BY <1>1, UpTo
<1>3. Slots(q, t) \in SUBSET (1..Len(q))
  BY <1>1 DEF Slots
<1>4. IsFiniteSet(Slots(q, t)) /\ Cardinality(Slots(q, t)) <= Len(q)
  BY <1>2, <1>3, FS_Subset
<1> QED BY <1>4, FS_CardinalityType

LEMMA SinceFinite ==
  ASSUME Shape, NEW p, NEW t
  PROVE  IsFiniteSet(Since(p, t)) /\ Cardinality(Since(p, t)) \in Nat
<1>1. DOMAIN sends = 1..Len(sends) /\ Len(sends) \in Nat
  BY LenProperties DEF Shape
<1>2. IsFiniteSet(1..Len(sends))
  BY <1>1, UpTo
<1>3. Since(p, t) \in SUBSET (1..Len(sends))
  BY <1>1 DEF Since
<1>4. IsFiniteSet(Since(p, t))
  BY <1>2, <1>3, FS_Subset
<1> QED BY <1>4, FS_CardinalityType

\* What is popped stands before everything the window still covers.
LEMMA ExpiredFirst ==
  ASSUME NEW q \in Seq(Nat), now \in Nat
  PROVE  /\ Cardinality(Expired(q, Window)) \in 0..Len(q)
         /\ \A k \in DOMAIN q : now - q[k] < Window => k > Cardinality(Expired(q, Window))
<1> DEFINE E == Expired(q, Window)
<1>1. DOMAIN q = 1..Len(q) /\ Len(q) \in Nat /\ \A k \in DOMAIN q : q[k] \in Nat
  BY LenProperties, ElementOfSeq
<1>2. E \in SUBSET (1..Len(q))
  BY <1>1 DEF Expired
<1>3. IsFiniteSet(E) /\ Cardinality(E) <= Len(q)
  <2>1. IsFiniteSet(1..Len(q)) /\ Cardinality(1..Len(q)) = Len(q)
    BY <1>1, UpTo
  <2> QED BY <1>2, <2>1, FS_Subset
<1>4. Cardinality(E) \in Nat
  BY <1>3, FS_CardinalityType
<1>5. ASSUME NEW k \in DOMAIN q, now - q[k] < Window PROVE k > Cardinality(E)
  <2>1. k \in 1..Len(q) /\ q[k] \in Nat /\ Window \in Nat
    BY <1>1, Limits
  <2>2. ASSUME NEW i \in E PROVE i <= k - 1
    <3>1. i \in 1..Len(q) /\ \A j \in 1..i : now - q[j] >= Window
      BY <1>1, <2>2 DEF Expired
    <3>2. ~(k \in 1..i)
      BY <1>5, <2>1, <3>1
    <3> QED BY <2>1, <3>1, <3>2
  <2>3. E \in SUBSET (1..(k - 1))
    BY <1>2, <2>1, <2>2
  <2>4. IsFiniteSet(1..(k - 1)) /\ Cardinality(1..(k - 1)) = k - 1
    <3>1. k - 1 \in Nat
      BY <2>1
    <3> QED BY <3>1, UpTo
  <2>5. Cardinality(E) <= k - 1
    BY <2>3, <2>4, FS_Subset
  <2> QED BY <1>4, <2>1, <2>5
<1> QED BY <1>1, <1>3, <1>4, <1>5

\* Trimming forgets no reservation the window covers.
LEMMA TrimKeeps ==
  ASSUME NEW q \in Seq(Nat), now \in Nat
  PROVE  /\ Trim(q) \in Seq(Nat) /\ Len(Trim(q)) <= Len(q)
         /\ \A t \in Nat : now < t + Window => Cardinality(Slots(q, t)) <= Cardinality(Slots(Trim(q), t))
<1> DEFINE d == Cardinality(Expired(q, Window))
           r == SubSeq(q, d + 1, Len(q))
<1>1. d \in 0..Len(q) /\ \A k \in DOMAIN q : now - q[k] < Window => k > d
  BY ExpiredFirst
<1>2. DOMAIN q = 1..Len(q) /\ Len(q) \in Nat /\ \A k \in DOMAIN q : q[k] \in Nat
  BY LenProperties, ElementOfSeq
<1>3. Trim(q) = r
  BY DEF Trim
<1> HIDE DEF d
<1>4. /\ r \in Seq(Nat) /\ Len(r) = Len(q) - d
      /\ \A i \in 1..(Len(q) - d) : r[i] = q[d + i]
  <2>1. d + 1 \in Int /\ Len(q) \in Int /\ \A i \in (d + 1)..Len(q) : q[i] \in Nat
    <3>1. d \in Nat /\ Len(q) \in Nat
      BY <1>1, <1>2
    <3>2. \A i \in (d + 1)..Len(q) : i \in DOMAIN q
      BY <1>2, <3>1
    <3> QED BY <1>2, <3>1, <3>2
  <2>2. /\ r \in Seq(Nat)
        /\ Len(r) = IF d + 1 <= Len(q) THEN Len(q) - (d + 1) + 1 ELSE 0
        /\ \A i \in 1..(Len(q) - (d + 1) + 1) : r[i] = q[(d + 1) + i - 1]
    BY <2>1, SubSeqProperties
  <2>3. d \in Nat /\ Len(q) \in Nat /\ d <= Len(q)
    BY <1>1, <1>2
  <2>4. Len(r) = Len(q) - d
    BY <2>2, <2>3
  <2>5. \A i \in 1..(Len(q) - d) : i \in 1..(Len(q) - (d + 1) + 1) /\ (d + 1) + i - 1 = d + i
    BY <2>3
  <2> QED BY <2>2, <2>4, <2>5
<1> HIDE DEF r
<1>5. ASSUME NEW t \in Nat, now < t + Window
      PROVE  Cardinality(Slots(q, t)) <= Cardinality(Slots(r, t))
  <2> DEFINE f == [k \in Slots(q, t) |-> k - d]
  <2>1. DOMAIN r = 1..(Len(q) - d)
    BY <1>4, LenProperties
  <2>2. ASSUME NEW k \in Slots(q, t) PROVE k - d \in Slots(r, t)
    <3>1. k \in 1..Len(q) /\ q[k] \in Nat /\ q[k] >= t
      BY <1>2, <2>2 DEF Slots
    <3>2. now - q[k] < Window
      BY <1>5, <3>1, Limits
    <3>3. k > d
      BY <1>1, <1>2, <3>1, <3>2
    <3>4. k - d \in 1..(Len(q) - d) /\ d + (k - d) = k
      BY <1>1, <1>2, <3>1, <3>3
    <3>5. r[k - d] = q[k]
      BY <1>4, <3>4
    <3> QED BY <2>1, <3>1, <3>4, <3>5 DEF Slots
  <2>3. f \in [Slots(q, t) -> Slots(r, t)]
    BY <2>2
  <2>4. \A k, l \in Slots(q, t) : f[k] = f[l] => k = l
    <3>1. \A k \in Slots(q, t) : k \in Int
      BY <1>2 DEF Slots
    <3>2. d \in Int
      BY <1>1, <1>2
    <3> QED BY <3>1, <3>2
  <2> HIDE DEF f
  <2>5. f \in Injection(Slots(q, t), Slots(r, t))
    BY <2>3, <2>4 DEF Injection, IsInjective
  <2>6. IsFiniteSet(Slots(r, t))
    BY <1>4, SlotsFinite
  <2> QED BY <2>5, <2>6, FS_Injection
<1> QED BY <1>1, <1>2, <1>3, <1>4, <1>5

\* A new reservation is one more since any time that is not to come.
LEMMA SlotAdded ==
  ASSUME NEW q \in Seq(Nat), now \in Nat, NEW t \in Nat
  PROVE  Cardinality(Slots(Append(q, now), t)) = Cardinality(Slots(q, t)) + (IF now >= t THEN 1 ELSE 0)
<1>1. /\ Len(Append(q, now)) = Len(q) + 1 /\ Append(q, now) \in Seq(Nat)
      /\ Append(q, now)[Len(q) + 1] = now /\ \A k \in 1..Len(q) : Append(q, now)[k] = q[k]
  BY AppendProperties
<1>2. DOMAIN q = 1..Len(q) /\ Len(q) \in Nat /\ DOMAIN Append(q, now) = 1..(Len(q) + 1)
  BY <1>1, LenProperties
<1>3. IsFiniteSet(Slots(q, t)) /\ Len(q) + 1 \notin Slots(q, t) /\ Cardinality(Slots(q, t)) \in Nat
  <2>1. Len(q) + 1 \notin Slots(q, t)
    BY <1>2 DEF Slots
  <2> QED BY <2>1, SlotsFinite
<1>4. CASE now >= t
  <2>1. Slots(Append(q, now), t) = Slots(q, t) \cup {Len(q) + 1}
    BY <1>1, <1>2, <1>4 DEF Slots
  <2> QED BY <1>3, <1>4, <2>1, FS_AddElement
<1>5. CASE ~(now >= t)
  <2>1. Slots(Append(q, now), t) = Slots(q, t)
    BY <1>1, <1>2, <1>5 DEF Slots
  <2> QED BY <1>3, <1>5, <2>1
<1> QED BY <1>4, <1>5

\* A queue holds no more than its budget, and so no more sends fall in a window
\* than that and the releases of the window.
LEMMA CoveredKeepsBudget == Invariant /\ Budgets => BudgetKept
<1> SUFFICES ASSUME Invariant, Budgets, NEW p \in People
             PROVE  Cardinality(InWindow(p)) <= MaxCount + Cardinality(FreedInWindow(p))
  BY DEF BudgetKept
<1> DEFINE t == IF now < Window THEN 0 ELSE now - Window + 1
<1>1. now \in Nat /\ Shape /\ Window \in Nat \ {0} /\ MaxCount \in Nat
  BY Limits DEF Invariant, Shape
<1>2. t \in Nat /\ now < t + Window /\ \A u \in Nat : now - u < Window <=> u >= t
  BY <1>1
<1>3. \A i \in DOMAIN sends : sends[i].at \in Nat
  <2>1. \A i \in DOMAIN sends : sends[i] \in SendRecord
    BY <1>1, ElementOfSeq, LenProperties DEF Shape
  <2> QED BY <2>1 DEF SendRecord
<1>4. budget[p] \in Seq(Nat) /\ Len(budget[p]) <= MaxCount /\ freed[p] \in Seq(Nat)
  BY DEF Budgets, Queues
<1> HIDE DEF t
<1>5. InWindow(p) = Since(p, t)
  BY <1>2, <1>3 DEF InWindow, Since
<1>6. FreedInWindow(p) = Slots(freed[p], t)
  <2>1. \A k \in DOMAIN freed[p] : freed[p][k] \in Nat
    BY <1>4, ElementOfSeq, LenProperties
  <2> QED BY <1>2, <2>1 DEF FreedInWindow, Slots
<1>7. Cardinality(Since(p, t)) \in Nat /\ Cardinality(Slots(freed[p], t)) \in Nat
  BY <1>1, <1>4, SinceFinite, SlotsFinite
<1>8. Cardinality(Since(p, t)) <= Room(p, t)
  BY <1>2 DEF Budgets, Covered
<1>9. Cardinality(Slots(budget[p], t)) <= Len(budget[p]) /\ Cardinality(Slots(budget[p], t)) \in Nat
  BY <1>4, SlotsFinite
<1>10. Len(budget[p]) \in Nat
  BY <1>4, LenProperties
<1> QED BY <1>1, <1>4, <1>5, <1>6, <1>7, <1>8, <1>9, <1>10 DEF Room

LEMMA BudgetsInit == Init => Budgets
<1> SUFFICES ASSUME Init PROVE Budgets
  OBVIOUS
<1>1. /\ budget = [p \in People |-> <<>>] /\ freed = [p \in People |-> <<>>]
      /\ <<>> \in Seq(Nat) /\ Len(<<>>) = 0 /\ MaxCount \in Nat
  BY EmptySeq, Limits DEF Init
<1>2. Queues
  BY <1>1 DEF Queues
<1>3. ASSUME NEW p \in People, NEW t \in Nat PROVE Cardinality(Since(p, t)) <= Room(p, t)
  <2>1. Since(p, t) = {} /\ Slots(budget[p], t) = {} /\ Slots(freed[p], t) = {}
    BY <1>1 DEF Init, Since, Slots
  <2> QED BY <2>1, FS_EmptySet DEF Room
<1>4. Past
  BY DEF Init, Past
<1> QED BY <1>2, <1>3, <1>4 DEF Budgets, Covered

\* Queues that are not touched, and sends whose recipients and times stay.
LEMMA SameSends ==
  ASSUME Budgets, DOMAIN sends' = DOMAIN sends, now \in Nat, now' \in Nat, now' >= now,
         \A i \in DOMAIN sends : sends'[i].to = sends[i].to /\ sends'[i].at = sends[i].at,
         \A i \in DOMAIN sends : sends[i].at \in Nat,
         Queues', UNCHANGED <<budget, freed>>
  PROVE  Budgets'
<1>1. Past'
  BY DEF Budgets, Past
<1>2. ASSUME NEW p \in People, NEW t \in Nat, now' < t + Window
      PROVE  Cardinality(Since(p, t)') <= Room(p, t)'
  <2>1. Since(p, t)' = Since(p, t) /\ Room(p, t)' = Room(p, t)
    BY DEF Since, Room, Slots
  <2>2. now < t + Window
    BY <1>2, Limits
  <2>3. Cardinality(Since(p, t)) <= Room(p, t)
    BY <2>2 DEF Budgets, Covered
  <2> QED BY <2>1, <2>3
<1> QED BY <1>1, <1>2 DEF Budgets, Covered

\* The times of the sends are times.
LEMMA SendTimes ==
  ASSUME Shape
  PROVE  \A i \in DOMAIN sends : sends[i].at \in Nat
<1>1. \A i \in DOMAIN sends : sends[i] \in SendRecord
  BY ElementOfSeq, LenProperties DEF Shape
<1> QED BY <1>1 DEF SendRecord

\* A send record that is rewritten keeps its recipient and its time.
LEMMA RewrittenTimes ==
  ASSUME Invariant, NEW s \in Sessions, pc[s] # "idle", NEW r \in SendRecord,
         r.to = sends[mine[s]].to, r.at = sends[mine[s]].at, sends' = [sends EXCEPT ![mine[s]] = r]
  PROVE  /\ DOMAIN sends' = DOMAIN sends
         /\ \A i \in DOMAIN sends : sends'[i].to = sends[i].to /\ sends'[i].at = sends[i].at
<1>1. Shape /\ Ownership
  BY DEF Invariant
<1>2. mine[s] \in DOMAIN sends
  BY <1>1, OwnSend
<1>3. /\ DOMAIN sends' = DOMAIN sends /\ sends'[mine[s]] = r
      /\ \A j \in DOMAIN sends : j # mine[s] => sends'[j] = sends[j]
  BY <1>1, <1>2, SendRewritten
<1> QED BY <1>3

LEMMA RewrittenSends ==
  ASSUME Invariant, Budgets, NEW s \in Sessions, pc[s] # "idle", NEW r \in SendRecord,
         r.to = sends[mine[s]].to, r.at = sends[mine[s]].at, sends' = [sends EXCEPT ![mine[s]] = r],
         now' = now, Queues', UNCHANGED <<budget, freed>>
  PROVE  Budgets'
<1>1. now' >= now /\ now' \in Nat /\ Shape
  BY DEF Invariant, Shape
<1> QED BY <1>1, RewrittenTimes, SendTimes, SameSends

LEMMA QueuesKept ==
  ASSUME Queues, UNCHANGED <<budget, freed>>
  PROVE  Queues'
BY DEF Queues

\* The recipient's queue is trimmed, and gets the reservation of the new send.
LEMMA BudgetsReserve ==
  ASSUME Invariant, Budgets, NEW s \in Sessions, NEW p \in People, Reserve(s, p)
  PROVE  Budgets'
<1> DEFINE q == Trim(budget[p])
<1>t. /\ Shape /\ now \in Nat /\ now' = now /\ budget \in [People -> Seq(Nat)]
      /\ \A o \in People : Len(budget[o]) <= MaxCount
      /\ sends \in Seq(SendRecord) /\ DOMAIN sends = 1..Len(sends) /\ Len(sends) \in Nat
      /\ MaxCount \in Nat /\ Window \in Nat /\ freed' = freed /\ freed \in [People -> Seq(Nat)]
  BY Limits, LenProperties DEF Invariant, Shape, Budgets, Queues, Reserve
<1>1. /\ q \in Seq(Nat) /\ Len(q) <= Len(budget[p])
      /\ \A t \in Nat : now < t + Window => Cardinality(Slots(budget[p], t)) <= Cardinality(Slots(q, t))
  <2>1. budget[p] \in Seq(Nat)
    BY <1>t
  <2> QED BY <1>t, <2>1, TrimKeeps
<1>2. /\ Len(q) \in Nat /\ Len(budget[p]) \in Nat /\ Len(budget[p]) <= MaxCount
  BY <1>t, <1>1, LenProperties
<1>3. CASE Full(q)
  <2>1. budget' = [budget EXCEPT ![p] = q] /\ sends' = sends
    BY <1>3 DEF Reserve
  <2> HIDE DEF q
  <2>2. Queues'
    BY <1>t, <1>1, <1>2, <2>1 DEF Queues
  <2>3. ASSUME NEW o \in People, NEW t \in Nat, now' < t + Window
        PROVE  Cardinality(Since(o, t)') <= Cardinality(Slots(budget'[o], t)) + Cardinality(Slots(freed[o], t))
    <3>1. Since(o, t)' = Since(o, t)
      BY <2>1 DEF Since
    <3>2. /\ Cardinality(Since(o, t)) <= Cardinality(Slots(budget[o], t)) + Cardinality(Slots(freed[o], t))
          /\ Cardinality(Since(o, t)) \in Nat /\ Cardinality(Slots(freed[o], t)) \in Nat
      BY <1>t, <2>3, SinceFinite, SlotsFinite DEF Budgets, Covered, Room
    <3>3. CASE o = p
      <4>1. Cardinality(Slots(budget[p], t)) <= Cardinality(Slots(q, t)) /\ budget'[p] = q
        BY <1>t, <1>1, <2>1, <2>3
      <4>2. Cardinality(Slots(budget[p], t)) \in Nat /\ Cardinality(Slots(q, t)) \in Nat
        BY <1>t, <1>1, SlotsFinite
      <4> QED BY <3>1, <3>2, <3>3, <4>1, <4>2
    <3>4. CASE o # p
      BY <1>t, <2>1, <3>1, <3>2, <3>4
    <3> QED BY <3>3, <3>4
  <2>4. Past'
    BY <1>t, <2>1 DEF Budgets, Past
  <2> QED BY <1>t, <2>2, <2>3, <2>4 DEF Budgets, Covered, Room, Slots
<1>4. CASE ~Full(q)
  <2> DEFINE r == [to |-> p, at |-> now, cursor |-> 0, reached |-> FALSE, failed |-> FALSE]
  <2>1. budget' = [budget EXCEPT ![p] = Append(q, now)] /\ sends' = Append(sends, r) /\ Len(q) < MaxCount
    BY <1>t, <1>2, <1>4 DEF Reserve, Full
  <2>2. r \in SendRecord /\ r.to = p /\ r.at = now
    BY <1>t DEF SendRecord
  <2> HIDE DEF q, r
  <2>3. /\ DOMAIN sends' = 1..(Len(sends) + 1) /\ sends'[Len(sends) + 1] = r
        /\ \A i \in 1..Len(sends) : sends'[i] = sends[i]
    BY <1>t, <2>1, <2>2, AppendProperties, LenProperties
  <2>4. Append(q, now) \in Seq(Nat) /\ Len(Append(q, now)) <= MaxCount
    BY <1>t, <1>1, <1>2, <2>1, AppendProperties
  <2>5. Queues'
    BY <1>t, <2>1, <2>4 DEF Queues
  <2>6. ASSUME NEW o \in People, NEW t \in Nat, now' < t + Window
        PROVE  Cardinality(Since(o, t)') <= Cardinality(Slots(budget'[o], t)) + Cardinality(Slots(freed[o], t))
    <3>1. /\ Cardinality(Since(o, t)) <= Cardinality(Slots(budget[o], t)) + Cardinality(Slots(freed[o], t))
          /\ Cardinality(Since(o, t)) \in Nat /\ Cardinality(Slots(freed[o], t)) \in Nat
          /\ IsFiniteSet(Since(o, t))
      BY <1>t, <2>6, SinceFinite, SlotsFinite DEF Budgets, Covered, Room
    <3>2. CASE o = p
      <4>1. Cardinality(Slots(budget[p], t)) <= Cardinality(Slots(q, t)) /\ budget'[p] = Append(q, now)
        BY <1>t, <1>1, <2>1, <2>6
      <4>2. Cardinality(Slots(budget[p], t)) \in Nat /\ Cardinality(Slots(q, t)) \in Nat
        BY <1>t, <1>1, SlotsFinite
      <4>3. Cardinality(Slots(Append(q, now), t)) = Cardinality(Slots(q, t)) + (IF now >= t THEN 1 ELSE 0)
        BY <1>t, <1>1, SlotAdded
      <4>4. CASE now >= t
        <5>1. Since(o, t)' = Since(o, t) \cup {Len(sends) + 1} /\ Len(sends) + 1 \notin Since(o, t)
          BY <1>t, <2>2, <2>3, <3>2, <4>4 DEF Since
        <5>2. Cardinality(Since(o, t)') = Cardinality(Since(o, t)) + 1
          BY <3>1, <5>1, FS_AddElement
        <5> QED BY <3>1, <3>2, <4>1, <4>2, <4>3, <4>4, <5>2
      <4>5. CASE ~(now >= t)
        <5>1. Since(o, t)' = Since(o, t)
          BY <1>t, <2>2, <2>3, <4>5 DEF Since
        <5> QED BY <3>1, <3>2, <4>1, <4>2, <4>3, <4>5, <5>1
      <4> QED BY <4>4, <4>5
    <3>3. CASE o # p
      <4>1. Since(o, t)' = Since(o, t)
        BY <1>t, <2>2, <2>3, <3>3 DEF Since
      <4>2. budget'[o] = budget[o]
        BY <1>t, <2>1, <3>3
      <4> QED BY <3>1, <4>1, <4>2
    <3> QED BY <3>2, <3>3
  <2>7. Past'
    <3>1. ASSUME NEW i \in DOMAIN sends' PROVE sends'[i].at <= now
      <4>1. CASE i = Len(sends) + 1
        BY <1>t, <2>2, <2>3, <4>1
      <4>2. CASE i # Len(sends) + 1
        <5>1. i \in DOMAIN sends /\ sends'[i] = sends[i]
          BY <1>t, <2>3, <4>2
        <5> QED BY <5>1 DEF Budgets, Past
      <4> QED BY <4>1, <4>2
    <3> QED BY <1>t, <3>1 DEF Past
  <2> QED BY <1>t, <2>5, <2>6, <2>7 DEF Budgets, Covered, Room, Slots
<1> QED BY <1>3, <1>4

\* What a release takes is one reservation.
LEMMA ReleaseTakes ==
  ASSUME NEW q \in Seq(Nat)
  PROVE  /\ Release(q) \in Seq(Nat) /\ Len(Release(q)) <= Len(q)
         /\ \A t \in Nat : Cardinality(Slots(q, t)) <= Cardinality(Slots(Release(q), t)) + 1
<1>1. DOMAIN q = 1..Len(q) /\ Len(q) \in Nat /\ \A k \in DOMAIN q : q[k] \in Nat
  BY LenProperties, ElementOfSeq
<1>2. CASE q = <<>>
  <2>1. Release(q) = q
    BY <1>2 DEF Release
  <2>2. \A t \in Nat : Cardinality(Slots(q, t)) \in Nat
    BY SlotsFinite
  <2> QED BY <1>1, <2>1, <2>2
<1>3. CASE q # <<>>
  <2> DEFINE f == SubSeq(q, 1, Len(q) - 1)
  <2>1. Len(q) >= 1
    BY <1>1, <1>3, EmptySeq
  <2>2. \A i \in 1..(Len(q) - 1) : q[i] \in Nat
    BY <1>1
  <2>3. /\ f \in Seq(Nat) /\ Len(f) = IF 1 <= Len(q) - 1 THEN Len(q) - 1 - 1 + 1 ELSE 0
        /\ \A i \in 1..(Len(q) - 1 - 1 + 1) : f[i] = q[1 + i - 1]
    BY <1>1, <2>2, SubSeqProperties
  <2>4. Release(q) = f
    BY <1>3 DEF Release
  <2> HIDE DEF f
  <2>5. Len(f) = Len(q) - 1 /\ DOMAIN f = 1..(Len(q) - 1)
    <3>1. Len(f) = Len(q) - 1
      <4>1. Len(f) = IF 1 <= Len(q) - 1 THEN Len(q) - 1 - 1 + 1 ELSE 0
        BY <2>3
      <4>2. \A n \in Nat : n >= 1 => (IF 1 <= n - 1 THEN n - 1 - 1 + 1 ELSE 0) = n - 1
        OBVIOUS
      <4> QED BY <1>1, <2>1, <4>1, <4>2
    <3> QED BY <2>3, <3>1, LenProperties
  <2>6. \A i \in 1..(Len(q) - 1) : f[i] = q[i]
    <3>1. \A i \in 1..(Len(q) - 1) : i \in 1..(Len(q) - 1 - 1 + 1) /\ 1 + i - 1 = i
      BY <1>1, <2>1
    <3> QED BY <2>3, <3>1
  <2>7. ASSUME NEW t \in Nat PROVE Cardinality(Slots(q, t)) <= Cardinality(Slots(f, t)) + 1
    <3>1. IsFiniteSet(Slots(f, t)) /\ Cardinality(Slots(f, t)) \in Nat
      BY <2>3, SlotsFinite
    <3>2. Slots(q, t) \in SUBSET (Slots(f, t) \cup {Len(q)})
      BY <1>1, <2>5, <2>6 DEF Slots
    <3>3. /\ IsFiniteSet(Slots(f, t) \cup {Len(q)})
          /\ Cardinality(Slots(f, t) \cup {Len(q)}) \in Nat
          /\ Cardinality(Slots(f, t) \cup {Len(q)}) <= Cardinality(Slots(f, t)) + 1
      <4>1. /\ IsFiniteSet(Slots(f, t) \cup {Len(q)})
            /\ Cardinality(Slots(f, t) \cup {Len(q)})
                 = IF Len(q) \in Slots(f, t) THEN Cardinality(Slots(f, t)) ELSE Cardinality(Slots(f, t)) + 1
        BY <3>1, FS_AddElement
      <4> QED BY <3>1, <4>1
    <3>4. Cardinality(Slots(q, t)) <= Cardinality(Slots(f, t) \cup {Len(q)})
      BY <3>2, <3>3, FS_Subset
    <3>5. Cardinality(Slots(q, t)) \in Nat
      BY SlotsFinite
    <3> QED BY <3>1, <3>3, <3>4, <3>5
  <2>8. Len(f) <= Len(q)
    BY <1>1, <2>5
  <2> QED BY <2>3, <2>4, <2>7, <2>8
<1> QED BY <1>2, <1>3

\* A failed send gives a slot back.
LEMMA BudgetsSendFails ==
  ASSUME Invariant, Budgets, NEW s \in Sessions, SendFails(s)
  PROVE  Budgets'
<1> DEFINE p == sends[mine[s]].to
           r == [sends[mine[s]] EXCEPT !.failed = TRUE]
<1>1. mine[s] \in DOMAIN sends /\ sends[mine[s]] \in SendRecord
  BY OwnSend DEF Invariant, SendFails
<1>2. r \in SendRecord /\ r.to = sends[mine[s]].to /\ r.at = sends[mine[s]].at /\ p \in People
  BY <1>1 DEF SendRecord
<1>3. /\ sends' = [sends EXCEPT ![mine[s]] = r] /\ pc[s] # "idle" /\ now' = now
      /\ budget' = [budget EXCEPT ![p] = Release(budget[p])]
      /\ freed' = [freed EXCEPT ![p] = Append(freed[p], now)]
  BY DEF SendFails
<1> HIDE DEF r, p
<1>4. /\ budget \in [People -> Seq(Nat)] /\ freed \in [People -> Seq(Nat)]
      /\ \A o \in People : Len(budget[o]) <= MaxCount
      /\ MaxCount \in Nat /\ now \in Nat /\ Shape
  BY Limits DEF Budgets, Queues, Invariant, Shape
<1>5. budget[p] \in Seq(Nat) /\ freed[p] \in Seq(Nat)
  BY <1>2, <1>4
<1>6. /\ Release(budget[p]) \in Seq(Nat) /\ Len(Release(budget[p])) <= MaxCount
      /\ Append(freed[p], now) \in Seq(Nat)
  <2>1. Len(Release(budget[p])) \in Nat /\ Len(budget[p]) \in Nat
    BY <1>5, ReleaseTakes, LenProperties
  <2> QED BY <1>2, <1>4, <1>5, <2>1, ReleaseTakes, AppendProperties
<1>7. Queues'
  BY <1>3, <1>4, <1>6 DEF Queues
<1>8. /\ DOMAIN sends' = DOMAIN sends
      /\ \A i \in DOMAIN sends : sends'[i].to = sends[i].to /\ sends'[i].at = sends[i].at
  BY <1>2, <1>3, RewrittenTimes
<1>9. Past'
  BY <1>3, <1>8 DEF Budgets, Past
<1>10. ASSUME NEW o \in People, NEW t \in Nat, now' < t + Window
       PROVE  Cardinality(Since(o, t)') <= Room(o, t)'
  <2>1. Since(o, t)' = Since(o, t)
    BY <1>8 DEF Since
  <2>2. Cardinality(Since(o, t)) <= Room(o, t) /\ Cardinality(Since(o, t)) \in Nat
    BY <1>3, <1>4, <1>10, SinceFinite DEF Budgets, Covered
  <2>3. CASE o # p
    <3>1. budget'[o] = budget[o] /\ freed'[o] = freed[o]
      BY <1>3, <1>4, <2>3
    <3>2. Room(o, t)' = Room(o, t)
      BY <3>1 DEF Room, Slots
    <3> QED BY <2>1, <2>2, <3>2
  <2>4. CASE o = p /\ now >= t
    <3>1. Cardinality(Slots(budget[p], t)) <= Cardinality(Slots(Release(budget[p]), t)) + 1
      BY <1>5, ReleaseTakes
    <3>2. Cardinality(Slots(Append(freed[p], now), t)) = Cardinality(Slots(freed[p], t)) + 1
      BY <1>4, <1>5, <2>4, SlotAdded
    <3>3. /\ Cardinality(Slots(budget[p], t)) \in Nat /\ Cardinality(Slots(freed[p], t)) \in Nat
          /\ Cardinality(Slots(Release(budget[p]), t)) \in Nat
      BY <1>5, <1>6, SlotsFinite
    <3>4. budget'[o] = Release(budget[p]) /\ freed'[o] = Append(freed[p], now)
      BY <1>2, <1>3, <1>4, <2>4
    <3>5. Room(o, t)' = Cardinality(Slots(Release(budget[p]), t)) + Cardinality(Slots(Append(freed[p], now), t))
      BY <3>4 DEF Room, Slots
    <3> QED BY <2>1, <2>2, <2>4, <3>1, <3>2, <3>3, <3>5 DEF Room
  <2>5. CASE o = p /\ ~(now >= t)
    <3>1. \A i \in DOMAIN sends : ~(sends[i].at >= t)
      <4>1. \A i \in DOMAIN sends : sends[i].at \in Nat /\ sends[i].at <= now
        BY <1>4, SendTimes DEF Budgets, Past
      <4> QED BY <1>4, <2>5, <4>1
    <3>2. Since(o, t) = {}
      BY <3>1 DEF Since
    <3>3. budget'[o] \in Seq(Nat) /\ freed'[o] \in Seq(Nat)
      BY <1>7 DEF Queues
    <3>4. Cardinality(Slots(budget'[o], t)) \in Nat /\ Cardinality(Slots(freed'[o], t)) \in Nat
      BY <3>3, SlotsFinite
    <3>5. Room(o, t)' = Cardinality(Slots(budget'[o], t)) + Cardinality(Slots(freed'[o], t))
      BY DEF Room, Slots
    <3>6. Cardinality(Since(o, t)') = 0
      BY <2>1, <3>2, FS_EmptySet
    <3> QED BY <3>4, <3>5, <3>6
  <2> QED BY <2>3, <2>4, <2>5
<1> QED BY <1>7, <1>9, <1>10 DEF Budgets, Covered

LEMMA BudgetsStep == Invariant /\ Budgets /\ [Next]_vars => Budgets'
<1> SUFFICES ASSUME Invariant, Budgets, [Next]_vars PROVE Budgets'
  OBVIOUS
<1>t. now \in Nat /\ Queues
  BY DEF Invariant, Shape, Budgets
<1>1. ASSUME UNCHANGED <<sends, budget, freed>>, now' = now \/ now' = now + 1 PROVE Budgets'
  <2>1. now' \in Nat /\ now' >= now /\ Queues'
    BY <1>t, <1>1, QueuesKept
  <2> QED BY <1>t, <1>1, <2>1, SendTimes, SameSends DEF Invariant
<1>2. ASSUME NEW s \in Sessions, NEW p \in People, Reserve(s, p) PROVE Budgets'
  BY <1>2, BudgetsReserve
<1>3. ASSUME NEW s \in Sessions, SendFails(s) PROVE Budgets'
  BY <1>3, BudgetsSendFails
<1>4. ASSUME NEW s \in Sessions, ReadCursor(s) PROVE Budgets'
  <2> DEFINE r == [sends[mine[s]] EXCEPT !.cursor = Len(inbox)]
  <2>1. mine[s] \in DOMAIN sends /\ sends[mine[s]] \in SendRecord /\ Len(inbox) \in Nat
    BY <1>4, OwnSend, LenProperties DEF Invariant, ReadCursor, Shape
  <2>2. r \in SendRecord /\ r.to = sends[mine[s]].to /\ r.at = sends[mine[s]].at
    BY <2>1 DEF SendRecord
  <2>3. sends' = [sends EXCEPT ![mine[s]] = r] /\ pc[s] # "idle" /\ now' = now
        /\ UNCHANGED <<budget, freed>>
    BY <1>4 DEF ReadCursor
  <2> HIDE DEF r
  <2> QED BY <1>t, <2>2, <2>3, QueuesKept, RewrittenSends
<1>5. ASSUME NEW s \in Sessions, Reach(s) PROVE Budgets'
  <2> DEFINE r == [sends[mine[s]] EXCEPT !.reached = TRUE]
  <2>1. mine[s] \in DOMAIN sends /\ sends[mine[s]] \in SendRecord
    BY <1>5, OwnSend DEF Invariant, Reach
  <2>2. r \in SendRecord /\ r.to = sends[mine[s]].to /\ r.at = sends[mine[s]].at
    BY <2>1 DEF SendRecord
  <2>3. sends' = [sends EXCEPT ![mine[s]] = r] /\ pc[s] # "idle" /\ now' = now
        /\ UNCHANGED <<budget, freed>>
    BY <1>5 DEF Reach
  <2> HIDE DEF r
  <2> QED BY <1>t, <2>2, <2>3, QueuesKept, RewrittenSends
<1>6. ASSUME NEW s \in Sessions, SendOk(s) \/ Wait(s) \/ TimedOut(s) PROVE Budgets'
  BY <1>1, <1>6 DEF SendOk, Wait, Listen, Look, Sleep, Wake, TimedOut
<1>7. ASSUME NEW p \in People, NEW re \in 0..Len(sends), Ingest(p, re) PROVE Budgets'
  BY <1>1, <1>7 DEF Ingest
<1>8. CASE Notify \/ Tick \/ UNCHANGED vars
  BY <1>1, <1>8 DEF Notify, Tick, vars
<1> QED BY <1>2, <1>3, <1>4, <1>5, <1>6, <1>7, <1>8 DEF Next, Send

\* However many sessions send to a recipient at once, no more sends fall into one
\* window than rate_count and the failed sends that gave a slot back in it
\* (ratelimit.rs: try_acquire, trim, release).
THEOREM BudgetIsKept == Spec => []BudgetKept
BY CoveredKeepsBudget, InvariantInit, InvariantStep, BudgetsInit, BudgetsStep, PTL DEF Spec

-----------------------------------------------------------------------------
(***************************************************************************)
(* Module Gating: an answer to its asker, and a document once.             *)
(*                                                                         *)
(* The argument is per target: no step touches the row of another, but     *)
(* for the temporary file, which only says whose bytes are sent.  The open *)
(* question is the one its call asks for as long as the call listens and   *)
(* has no answer (Registered), since it is put into the map before it is   *)
(* sent and every path that ends takes it out.  The documents that came    *)
(* and those still to come, from the call under way and from what was      *)
(* pasted, are no more than the calls (Balanced); a run that fired leaves  *)
(* nothing to its backstop (Fresh).                                        *)
(***************************************************************************)
RunRecord == [n : Nat, on : BOOLEAN, calls : Nat, fired : BOOLEAN, pasted : BOOLEAN,
              told : {"none", "delivered", "inline"}]
\* Where a call can be.
Places == {"none", "connect"} \cup AskStep \cup MdStep
CallRecord == [at : Places, got : {"none", "answer"}, data : Targets \cup {"none"}]

\* The shape of every variable.
Arranged ==
  /\ scenario \in Scenarios
  /\ run \in [Targets -> RunRecord] /\ waiting \in [Targets -> Nat]
  /\ call \in [Targets -> CallRecord]
  /\ asked \in [Targets -> Nat] /\ open \in [Targets -> Nat]
  /\ posted \in [Targets -> SUBSET Nat] /\ killed \in [Targets -> SUBSET Nat]
  /\ granted \in [Targets -> SUBSET (Nat \X Nat)]
  /\ dms \in [Targets -> Seq(Nat)] /\ sent \in [Targets -> Nat]
  /\ temp \in [Targets \cup {"shared"} -> Targets \cup {"none"}]
  /\ arrived \in [Targets -> Seq(Targets)]

\* Nothing names a question that was not asked.
Bounded(t) ==
  /\ run[t].n <= MaxRuns /\ run[t].calls <= MaxCalls
  /\ asked[t] <= MaxAsked /\ sent[t] <= MaxDms
  /\ open[t] <= asked[t]
  /\ posted[t] \subseteq 1..asked[t] /\ killed[t] \subseteq 1..asked[t]
  /\ granted[t] \subseteq (1..asked[t]) \X (0..asked[t])
  /\ dms[t] \in Seq(0..asked[t])

\* A call is made by a live run, to the tool of its scenario.
Settled(t) ==
  /\ scenario.tool[t] = "ask" => call[t].at \notin MdStep /\ ~run[t].fired
  /\ scenario.tool[t] = "md" => call[t].at \notin AskStep
  /\ ~run[t].on => At(t, "none")
  /\ call[t].at \in {"none", "connect"} => call[t].got = "none"
  /\ At(t, "upload") => call[t].data \in Targets
  /\ scenario.tool[t] = "ask" /\ At(t, "connect") => asked[t] < MaxAsked

\* The question of a call that listens is the open one, until its answer came.
Registered(t) ==
  /\ Listens(t) /\ call[t].got = "none" => open[t] = asked[t]
  /\ At(t, "sending") /\ call[t].got = "answer" => open[t] = 0
  /\ call[t].at \in AskStep => asked[t] > 0
  /\ open[t] # 0 => \/ open[t] \in killed[t]
                    \/ open[t] = asked[t] /\ call[t].at \in {"sending", "waiting", "failed", "expired"}

\* Nothing comes to the user before the tool is reached.
Fresh(t) ==
  /\ run[t].on /\ ~run[t].fired => arrived[t] = <<>>
  /\ call[t].at \in MdStep => run[t].fired

\* Where a call still delivers, and what a run still owes its user.
Delivering == {"connect", "attach", "upload", "inline"}
Owed(t) == (IF run[t].pasted THEN 1 ELSE 0) + (IF call[t].at \in Delivering THEN 1 ELSE 0)

\* No more came, or is owed, than was called for; a run without a call has its backstop.
Balanced(t) ==
  \/ Faulty("answer")
  \/ /\ scenario.tool[t] = "md" /\ run[t].on => Len(arrived[t]) + Owed(t) <= run[t].calls
     /\ Len(arrived[t]) <= 1 \/ Len(arrived[t]) <= run[t].calls

Row(t) == Bounded(t) /\ Settled(t) /\ Registered(t) /\ Fresh(t) /\ Balanced(t)

\* The inductive invariant of Gating.
Conversation == Arranged /\ \A t \in Targets : Row(t)

\* The step is none of u's.
Same(u) ==
  /\ scenario' = scenario
  /\ run'[u] = run[u] /\ call'[u] = call[u] /\ asked'[u] = asked[u] /\ open'[u] = open[u]
  /\ posted'[u] = posted[u] /\ killed'[u] = killed[u] /\ granted'[u] = granted[u]
  /\ dms'[u] = dms[u] /\ sent'[u] = sent[u] /\ arrived'[u] = arrived[u]

\* A step of one target leaves the rows of the others.
LEMMA OneRow ==
  ASSUME Conversation, NEW t \in Targets, Arranged', Row(t)', \A u \in Targets : u # t => Same(u)
  PROVE  Conversation'
<1>1. ASSUME NEW u \in Targets, u # t PROVE Row(u)'
  <2>1. Row(u) /\ Same(u)
    BY <1>1 DEF Conversation
  <2> QED BY <2>1 DEF Same, Row, Bounded, Settled, Registered, Fresh, Balanced, Owed, At, Listens, Faulty
<1> QED BY <1>1 DEF Conversation

\* A step that delivers nothing, and after which no more is owed.
LEMMA BalanceKept ==
  ASSUME Arranged, NEW t \in Targets, Balanced(t), scenario' = scenario, arrived'[t] = arrived[t],
         run'[t].calls = run[t].calls, run'[t].on => run[t].on,
         \/ scenario.tool[t] = "ask"
         \/ /\ run'[t].pasted => run[t].pasted
            /\ call'[t].at \in Delivering => call[t].at \in Delivering
  PROVE  Balanced(t)'
<1>1. Len(arrived[t]) \in Nat /\ run[t].calls \in Nat
  BY DEF Arranged, RunRecord
<1>2. CASE scenario.tool[t] = "ask"
  BY <1>2 DEF Balanced, Faulty
<1>3. CASE scenario.tool[t] # "ask"
  <2>1. Owed(t)' <= Owed(t) /\ Owed(t)' \in Nat /\ Owed(t) \in Nat
    BY <1>3 DEF Owed
  <2> QED BY <1>1, <1>3, <2>1 DEF Balanced, Faulty
<1> QED BY <1>2, <1>3

\* One entry of a function is put; the others stay.
LEMMA Put ==
  ASSUME NEW S, NEW R, NEW f \in [S -> R], NEW x \in S, NEW e \in R
  PROVE  /\ [f EXCEPT ![x] = e] \in [S -> R]
         /\ [f EXCEPT ![x] = e][x] = e
         /\ \A y \in S : y # x => [f EXCEPT ![x] = e][y] = f[y]
OBVIOUS

\* A call that goes on keeps what is in its channel.
LEMMA Moved ==
  ASSUME Arranged, NEW t \in Targets, NEW l \in Places, Moves(t, l)
  PROVE  /\ call' \in [Targets -> CallRecord]
         /\ call'[t].at = l /\ call'[t].got = call[t].got /\ call'[t].data = call[t].data
         /\ \A u \in Targets : u # t => call'[u] = call[u]
<1>1. call[t] \in CallRecord
  BY DEF Arranged
<1>4. [call[t] EXCEPT !.at = l] \in CallRecord
  BY <1>1 DEF CallRecord
<1>2. call' = [call EXCEPT ![t] = [call[t] EXCEPT !.at = l]]
  BY DEF Moves
<1>3. call'[t] = [call[t] EXCEPT !.at = l]
  BY <1>2, <1>4, Put DEF Arranged
<1> QED BY <1>1, <1>2, <1>3, <1>4, Put DEF Arranged, CallRecord

\* The model has the result of its call.
LEMMA Ended ==
  ASSUME Arranged, NEW t \in Targets, Ends(t)
  PROVE  /\ call' \in [Targets -> CallRecord]
         /\ call'[t].at = "none" /\ call'[t].got = "none" /\ call'[t].data = "none"
         /\ \A u \in Targets : u # t => call'[u] = call[u]
<1>1. NoCall \in CallRecord
  BY DEF NoCall, CallRecord, Places
<1>2. call'[t] = NoCall
  BY <1>1, Put DEF Arranged, Ends
<1> QED BY <1>1, <1>2, Put DEF Arranged, Ends, NoCall

\* A call that only moves on, and nothing else.
LEMMA OneMove ==
  ASSUME Conversation, NEW t \in Targets, NEW l \in Places, Moves(t, l),
         UNCHANGED <<scenario, run, waiting, ask, user, md>>,
         Settled(t)', Registered(t)', Fresh(t)', Balanced(t)'
  PROVE  Conversation'
<1>1. Arranged'
  BY Moved DEF Conversation, Arranged, ask, user, md
<1>2. \A u \in Targets : u # t => Same(u)
  BY Moved DEF Conversation, Same, ask, user, md
<1>3. Bounded(t)'
  BY DEF Conversation, Row, Bounded, ask, user, md
<1> QED BY <1>1, <1>2, <1>3, OneRow DEF Row

\* The same for a call that ends.
LEMMA OneEnd ==
  ASSUME Conversation, NEW t \in Targets, Ends(t),
         UNCHANGED <<scenario, run, waiting, ask, user, md>>,
         call[t].at \notin {"sending", "waiting", "failed", "expired"}
  PROVE  Conversation'
<1>1. Arranged'
  BY Ended DEF Conversation, Arranged, ask, user, md
<1>2. \A u \in Targets : u # t => Same(u)
  BY Ended DEF Conversation, Same, ask, user, md
<1>3. Row(t)'
  <2>1. Arranged /\ Row(t)
    BY DEF Conversation
  <2>2. call'[t].at = "none" /\ call'[t].got = "none"
    BY <2>1, Ended
  <2>3. Bounded(t)' /\ Settled(t)'
    BY <2>1, <2>2 DEF Row, Bounded, Settled, At, AskStep, MdStep, ask, user, md
  <2>4. Registered(t)' /\ Fresh(t)'
    BY <2>1, <2>2 DEF Row, Registered, Fresh, Listens, Faulty, At, AskStep, MdStep, ask, user, md
  <2>5. Balanced(t)'
    BY <2>1, <2>2, BalanceKept DEF Row, Delivering, ask, user, md
  <2> QED BY <2>3, <2>4, <2>5 DEF Row
<1> QED BY <1>1, <1>2, <1>3, OneRow DEF Row

\* The steps that only move a call on.
LEMMA CallMoves ==
  ASSUME Conversation, NEW t \in Targets,
         CallAsk(t) \/ QuestionSent(t) \/ QuestionFails(t) \/ Expire(t)
  PROVE  Conversation'
<1>0. GatingAssumption /\ Arranged /\ Row(t)
  BY GatingAssumption DEF Conversation
<1>1. CASE CallAsk(t)
  <2>1. "connect" \in Places /\ Moves(t, "connect") /\ UNCHANGED <<scenario, run, waiting, ask, user, md>>
    BY <1>1 DEF CallAsk, Places
  <2>2. call'[t].at = "connect" /\ call'[t].got = call[t].got
    BY <2>1, <1>0, Moved
  <2>3. Settled(t)' /\ Registered(t)' /\ Fresh(t)'
    BY <1>0, <1>1, <2>1, <2>2
       DEF CallAsk, Row, Settled, Registered, Fresh, Listens, Faulty, At, AskStep, MdStep, ask, user, md
  <2>4. Balanced(t)'
    BY <1>0, <1>1, <2>1, BalanceKept DEF CallAsk, Row, md
  <2> QED BY <2>1, <2>3, <2>4, OneMove
<1>2. CASE QuestionSent(t)
  <2> DEFINE l == IF call[t].got = "answer" THEN "answered" ELSE "waiting"
  <2>1. l \in Places /\ Moves(t, l) /\ UNCHANGED <<scenario, run, waiting, ask, user, md>>
    BY <1>2 DEF QuestionSent, Places, AskStep
  <2>2. call'[t].at = l /\ call'[t].got = call[t].got
    BY <2>1, <1>0, Moved
  <2>3. call[t].got \in {"none", "answer"}
    BY <1>0 DEF Arranged, CallRecord
  <2>4. Settled(t)' /\ Fresh(t)'
    BY <1>0, <1>2, <2>1, <2>2
       DEF QuestionSent, Row, Settled, Registered, Fresh, Listens, Faulty, At, AskStep, MdStep, ask, user, md
  <2>5. Registered(t)'
    BY <1>0, <1>2, <2>1, <2>2, <2>3
       DEF QuestionSent, Row, Registered, Listens, At, AskStep, ask, user, md
  <2>6. Balanced(t)'
    BY <1>0, <2>1, <2>2, BalanceKept DEF Row, Delivering, md
  <2> QED BY <2>1, <2>4, <2>5, <2>6, OneMove
<1>3. CASE QuestionFails(t)
  <2>1. "failed" \in Places /\ Moves(t, "failed") /\ UNCHANGED <<scenario, run, waiting, ask, user, md>>
    BY <1>3 DEF QuestionFails, Places, AskStep
  <2>2. call'[t].at = "failed" /\ call'[t].got = call[t].got
    BY <2>1, <1>0, Moved
  <2>3. Settled(t)' /\ Registered(t)' /\ Fresh(t)'
    BY <1>0, <1>3, <2>1, <2>2
       DEF QuestionFails, Row, Settled, Registered, Fresh, Listens, Faulty, At, AskStep, MdStep, ask, user, md
  <2>4. Balanced(t)'
    BY <1>0, <2>1, <2>2, BalanceKept DEF Row, Delivering, md
  <2> QED BY <2>1, <2>3, <2>4, OneMove
<1>4. CASE Expire(t)
  <2>1. "expired" \in Places /\ Moves(t, "expired") /\ UNCHANGED <<scenario, run, waiting, ask, user, md>>
    BY <1>4 DEF Expire, Places, AskStep
  <2>2. call'[t].at = "expired" /\ call'[t].got = call[t].got
    BY <2>1, <1>0, Moved
  <2>3. Settled(t)' /\ Registered(t)' /\ Fresh(t)'
    BY <1>0, <1>4, <2>1, <2>2
       DEF Expire, Row, Settled, Registered, Fresh, Listens, Faulty, At, AskStep, MdStep, ask, user, md
  <2>4. Balanced(t)'
    BY <1>0, <2>1, <2>2, BalanceKept DEF Row, Delivering, md
  <2> QED BY <2>1, <2>3, <2>4, OneMove
<1> QED BY <1>1, <1>2, <1>3, <1>4

\* The steps that only end a call.
LEMMA CallEnds ==
  ASSUME Conversation, NEW t \in Targets, NoAskBridge(t) \/ AskResult(t)
  PROVE  Conversation'
<1>1. Ends(t) /\ UNCHANGED <<scenario, run, waiting, ask, user, md>>
  BY DEF NoAskBridge, AskResult
<1>2. call[t].at \notin {"sending", "waiting", "failed", "expired"}
  BY DEF NoAskBridge, AskResult, At
<1> QED BY <1>1, <1>2, OneEnd

\* A list of questions stays one when more are asked.
LEMMA MoreAsked ==
  ASSUME NEW n \in Nat, NEW m \in Nat, n <= m, NEW s \in Seq(0..n)
  PROVE  s \in Seq(0..m)
<1>1. \A i \in 1..Len(s) : s[i] \in 0..m
  BY ElementOfSeq
<1> QED BY <1>1

LEMMA WriteKeeps ==
  ASSUME Conversation, NEW t \in Targets, Write(t) PROVE Conversation'
<1>0. GatingAssumption /\ Arranged /\ Row(t)
  BY GatingAssumption DEF Conversation
<1>1. PICK q \in posted[t] \cup {0} : dms' = [dms EXCEPT ![t] = Append(dms[t], q)]
  BY DEF Write
<1>2. q \in 0..asked[t] /\ asked[t] \in Nat
  BY <1>0 DEF Row, Bounded, Arranged
<1>3. Append(dms[t], q) \in Seq(0..asked[t]) /\ Append(dms[t], q) \in Seq(Nat)
  BY <1>0, <1>2, AppendProperties DEF Row, Bounded, Arranged
<1>4. /\ dms' \in [Targets -> Seq(Nat)] /\ dms'[t] = Append(dms[t], q)
      /\ \A u \in Targets : u # t => dms'[u] = dms[u]
  BY <1>0, <1>1, <1>3, Put DEF Arranged
<1>5. /\ sent' \in [Targets -> Nat] /\ sent'[t] = sent[t] + 1
      /\ \A u \in Targets : u # t => sent'[u] = sent[u]
  BY <1>0 DEF Write, Arranged
<1>6. UNCHANGED <<scenario, run, waiting, call, asked, open, posted, killed, granted, temp, arrived>>
  BY DEF Write, ask, md
<1>7. Arranged'
  BY <1>0, <1>4, <1>5, <1>6 DEF Arranged
<1>8. Bounded(t)'
  <2>1. sent'[t] <= MaxDms
    BY <1>0, <1>5 DEF Write, Arranged, GatingAssumption
  <2> QED BY <2>1, <1>0, <1>3, <1>4, <1>6 DEF Row, Bounded
<1>9. Settled(t)' /\ Registered(t)' /\ Fresh(t)'
  BY <1>0, <1>6 DEF Row, Settled, Registered, Fresh, At, Listens, Faulty
<1>10. \A u \in Targets : u # t => Same(u)
  BY <1>4, <1>5, <1>6 DEF Same
<1>11. Balanced(t)'
  BY <1>0, <1>6, BalanceKept DEF Row
<1> QED BY <1>7, <1>8, <1>9, <1>10, <1>11, OneRow DEF Row

LEMMA PostKeeps ==
  ASSUME Conversation, NEW t \in Targets, Post(t) PROVE Conversation'
<1>0. GatingAssumption /\ Arranged /\ Row(t)
  BY GatingAssumption DEF Conversation
<1>1. asked[t] \in Nat /\ asked[t] > 0 /\ call[t].at \in AskStep
  BY <1>0 DEF Post, Row, Registered, Arranged, At, AskStep
<1>2. posted[t] \cup {asked[t]} \in SUBSET Nat /\ posted[t] \cup {asked[t]} \subseteq 1..asked[t]
  BY <1>0, <1>1 DEF Row, Bounded, Arranged
<1>3. /\ posted' \in [Targets -> SUBSET Nat] /\ posted'[t] = posted[t] \cup {asked[t]}
      /\ \A u \in Targets : u # t => posted'[u] = posted[u]
  BY <1>0, <1>2, Put DEF Post, Arranged
<1>4. UNCHANGED <<scenario, run, waiting, call, asked, open, dms, sent, killed, granted, temp, arrived>>
  BY DEF Post, user, md
<1>5. Arranged'
  BY <1>0, <1>3, <1>4 DEF Arranged
<1>6. Row(t)'
  <2>1. Balanced(t)'
    BY <1>0, <1>4, BalanceKept DEF Row
  <2> QED BY <1>0, <1>2, <1>3, <1>4, <2>1 DEF Row, Bounded, Settled, Registered, Fresh, At, Listens, Faulty
<1>7. \A u \in Targets : u # t => Same(u)
  BY <1>3, <1>4 DEF Same
<1> QED BY <1>5, <1>6, <1>7, OneRow

LEMMA AcceptAskKeeps ==
  ASSUME Conversation, NEW t \in Targets, AcceptAsk(t) PROVE Conversation'
<1>0. GatingAssumption /\ Arranged /\ Row(t)
  BY GatingAssumption DEF Conversation
<1>1. /\ "sending" \in Places /\ Moves(t, "sending") /\ call[t].at = "connect"
      /\ UNCHANGED <<scenario, run, waiting, posted, killed, granted, dms, sent, temp, arrived>>
  BY DEF AcceptAsk, Places, AskStep, At, user, md
<1>2. /\ call' \in [Targets -> CallRecord] /\ call'[t].at = "sending" /\ call'[t].got = "none"
      /\ \A u \in Targets : u # t => call'[u] = call[u]
  BY <1>0, <1>1, Moved DEF Row, Settled
<1>3. asked[t] \in Nat /\ asked[t] + 1 \in Nat
  BY <1>0 DEF Arranged
<1>4. /\ asked' \in [Targets -> Nat] /\ asked'[t] = asked[t] + 1
      /\ \A u \in Targets : u # t => asked'[u] = asked[u]
  BY <1>0, <1>3, Put DEF AcceptAsk, Register, Arranged
<1>5. /\ open' \in [Targets -> Nat] /\ open'[t] = asked[t] + 1
      /\ \A u \in Targets : u # t => open'[u] = open[u]
  BY <1>0, <1>3, Put DEF AcceptAsk, Register, Arranged
<1>6. Arranged'
  BY <1>0, <1>1, <1>2, <1>4, <1>5 DEF Arranged
<1>7. Bounded(t)'
  <2>1. asked[t] + 1 <= MaxAsked /\ MaxAsked \in Nat
    BY <1>0, <1>1, <1>3 DEF AcceptAsk, Row, Settled, At, GatingAssumption
  <2>2. dms[t] \in Seq(0..asked[t] + 1)
    BY <1>0, <1>3, MoreAsked DEF Row, Bounded
  <2>3. 1..asked[t] \subseteq 1..asked[t] + 1 /\ 0..asked[t] \subseteq 0..asked[t] + 1
    BY <1>3
  <2>4. granted[t] \subseteq (1..asked[t] + 1) \X (0..asked[t] + 1)
    BY <2>3, <1>0 DEF Row, Bounded
  <2>5. posted[t] \subseteq 1..asked[t] + 1 /\ killed[t] \subseteq 1..asked[t] + 1
    BY <2>3, <1>0 DEF Row, Bounded
  <2> QED BY <2>1, <2>2, <2>4, <2>5, <1>0, <1>1, <1>3, <1>4, <1>5 DEF Row, Bounded
<1>8. Settled(t)' /\ Registered(t)' /\ Fresh(t)'
  BY <1>0, <1>1, <1>2, <1>3, <1>4, <1>5
     DEF AcceptAsk, Row, Settled, Registered, Fresh, Listens, Faulty, At, AskStep, MdStep
<1>9. \A u \in Targets : u # t => Same(u)
  BY <1>1, <1>2, <1>4, <1>5 DEF Same
<1>10. Balanced(t)'
  BY <1>0, <1>1, <1>2, BalanceKept DEF Row, Delivering
<1> QED BY <1>6, <1>7, <1>8, <1>9, <1>10, OneRow DEF Row

LEMMA DenyKeeps ==
  ASSUME Conversation, NEW t \in Targets, Deny(t) PROVE Conversation'
<1>0. GatingAssumption /\ Arranged /\ Row(t)
  BY GatingAssumption DEF Conversation
<1>1. /\ "denied" \in Places /\ Moves(t, "denied") /\ call[t].at \in {"failed", "expired"}
      /\ UNCHANGED <<scenario, run, waiting, asked, posted, killed, granted, dms, sent, temp, arrived>>
  BY DEF Deny, Places, AskStep, At, user, md
<1>2. /\ call' \in [Targets -> CallRecord] /\ call'[t].at = "denied"
      /\ \A u \in Targets : u # t => call'[u] = call[u]
  BY <1>0, <1>1, Moved
<1>3. /\ open' \in [Targets -> Nat] /\ open'[t] = 0
      /\ \A u \in Targets : u # t => open'[u] = open[u]
  BY <1>0, Put DEF Deny, Clear, Arranged
<1>4. Arranged'
  BY <1>0, <1>1, <1>2, <1>3 DEF Arranged
<1>5. Bounded(t)'
  <2>1. asked[t] \in Nat /\ 0 <= asked[t]
    BY <1>0 DEF Arranged
  <2>2. open'[t] <= asked'[t]
    BY <1>1, <1>3, <2>1
  <2> QED BY <1>0, <1>1, <2>2 DEF Row, Bounded
<1>6. Settled(t)' /\ Registered(t)' /\ Fresh(t)'
  BY <1>0, <1>1, <1>2, <1>3
     DEF Row, Settled, Registered, Fresh, Listens, Faulty, At, AskStep, MdStep
<1>7. \A u \in Targets : u # t => Same(u)
  BY <1>1, <1>2, <1>3 DEF Same
<1>8. Balanced(t)'
  BY <1>0, <1>1, <1>2, BalanceKept DEF Row, Delivering
<1> QED BY <1>4, <1>5, <1>6, <1>7, <1>8, OneRow DEF Row

\* What a DM does to the call whose question is open.
LEMMA Received ==
  ASSUME Arranged, NEW t \in Targets, Row(t), NEW dm \in 0..asked[t], open[t] # 0, Receive(t, dm)
  PROVE  /\ call' \in [Targets -> CallRecord] /\ granted' \in [Targets -> SUBSET (Nat \X Nat)]
         /\ \A u \in Targets : u # t => call'[u] = call[u] /\ granted'[u] = granted[u]
         /\ granted'[t] \subseteq (1..asked[t]) \X (0..asked[t])
         /\ call'[t].data = call[t].data
         /\ IF Listens(t) /\ open[t] = asked[t]
              THEN /\ call'[t].got = "answer"
                   /\ call'[t].at = IF call[t].at = "waiting" THEN "answered" ELSE call[t].at
              ELSE call'[t] = call[t]
<1>1. CASE Listens(t) /\ open[t] = asked[t]
  <2> DEFINE l == IF call[t].at = "waiting" THEN "answered" ELSE call[t].at
             c == [call[t] EXCEPT !.got = "answer", !.at = l]
             g == granted[t] \cup {<<open[t], dm>>}
  <2>1. call[t] \in CallRecord
    BY DEF Arranged
  <2>2. c \in CallRecord /\ c.got = "answer" /\ c.at = l /\ c.data = call[t].data
    BY <2>1 DEF CallRecord, Places, AskStep
  <2>3. call' = [call EXCEPT ![t] = c]
    BY <1>1 DEF Receive
  <2>4. /\ call' \in [Targets -> CallRecord] /\ call'[t] = c
        /\ \A u \in Targets : u # t => call'[u] = call[u]
    BY <2>2, <2>3, Put DEF Arranged
  <2>5. asked[t] \in Nat /\ open[t] \in 1..asked[t]
    BY DEF Row, Bounded, Arranged
  <2>6. <<open[t], dm>> \in (1..asked[t]) \X (0..asked[t]) /\ <<open[t], dm>> \in Nat \X Nat
    BY <2>5
  <2>7. g \in SUBSET (Nat \X Nat) /\ g \subseteq (1..asked[t]) \X (0..asked[t])
    BY <2>6 DEF Row, Bounded, Arranged
  <2>8. /\ granted' \in [Targets -> SUBSET (Nat \X Nat)] /\ granted'[t] = g
        /\ \A u \in Targets : u # t => granted'[u] = granted[u]
    <3>1. granted' = [granted EXCEPT ![t] = g]
      BY <1>1 DEF Receive
    <3> QED BY <2>7, <3>1, Put DEF Arranged
  <2> QED BY <1>1, <2>2, <2>4, <2>7, <2>8
<1>2. CASE ~(Listens(t) /\ open[t] = asked[t])
  BY <1>2 DEF Receive, Arranged, Row, Bounded
<1> QED BY <1>1, <1>2

LEMMA HandleDmKeeps ==
  ASSUME Conversation, NEW t \in Targets, HandleDm(t) PROVE Conversation'
<1>0. GatingAssumption /\ Arranged /\ Row(t)
  BY GatingAssumption DEF Conversation
<1>1. UNCHANGED <<scenario, run, asked, posted, killed, sent, temp, arrived>>
  BY DEF HandleDm, md
<1>2. /\ Tail(dms[t]) \in Seq(Nat) /\ Tail(dms[t]) \in Seq(0..asked[t])
      /\ Head(dms[t]) \in 0..asked[t]
  BY <1>0, HeadTailProperties DEF HandleDm, Row, Bounded, Arranged
<1>3. /\ dms' \in [Targets -> Seq(Nat)] /\ dms'[t] = Tail(dms[t])
      /\ \A u \in Targets : u # t => dms'[u] = dms[u]
  BY <1>0, <1>2, Put DEF HandleDm, Arranged
<1>4. CASE open[t] # 0
  <2>1. UNCHANGED waiting /\ Receive(t, Head(dms[t]))
    BY <1>4 DEF HandleDm
  <2>2. /\ open' \in [Targets -> Nat] /\ open'[t] = 0
        /\ \A u \in Targets : u # t => open'[u] = open[u]
    <3>1. open' = [open EXCEPT ![t] = 0] BY <1>4 DEF HandleDm
    <3>2. open \in [Targets -> Nat] BY <1>0 DEF Arranged
    <3> QED BY <3>1, <3>2, Put
  <2>3. /\ call' \in [Targets -> CallRecord] /\ granted' \in [Targets -> SUBSET (Nat \X Nat)]
        /\ \A u \in Targets : u # t => call'[u] = call[u] /\ granted'[u] = granted[u]
        /\ granted'[t] \subseteq (1..asked[t]) \X (0..asked[t])
        /\ call'[t].data = call[t].data
        /\ IF Listens(t) /\ open[t] = asked[t]
             THEN /\ call'[t].got = "answer"
                  /\ call'[t].at = IF call[t].at = "waiting" THEN "answered" ELSE call[t].at
             ELSE call'[t] = call[t]
    BY <1>0, <1>2, <1>4, <2>1, Received
  <2>4. Arranged'
    BY <1>0, <1>1, <1>3, <2>1, <2>2, <2>3 DEF Arranged
  <2>5. Bounded(t)'
    BY <1>0, <1>1, <1>2, <1>3, <2>2, <2>3 DEF Row, Bounded, Arranged
  <2>6. Settled(t)' /\ Registered(t)' /\ Fresh(t)'
    BY <1>0, <1>1, <2>2, <2>3
       DEF Row, Settled, Registered, Fresh, Listens, Faulty, At, AskStep, MdStep
  <2>7. \A u \in Targets : u # t => Same(u)
    BY <1>1, <1>3, <2>2, <2>3 DEF Same
  <2>8. Balanced(t)'
    BY <1>0, <1>1, <2>3, BalanceKept DEF Row, Delivering
  <2> QED BY <2>4, <2>5, <2>6, <2>7, <2>8, OneRow DEF Row
<1>5. CASE open[t] = 0
  <2>1. UNCHANGED <<open, call, granted>> /\ waiting' = [waiting EXCEPT ![t] = waiting[t] + 1]
    BY <1>5 DEF HandleDm
  <2>2. waiting' \in [Targets -> Nat]
    BY <2>1, <1>0 DEF Arranged
  <2>3. Arranged'
    BY <1>0, <1>1, <1>3, <2>1, <2>2 DEF Arranged
  <2>4. Row(t)'
    <3>1. Balanced(t)'
      BY <1>0, <1>1, <2>1, BalanceKept DEF Row
    <3> QED BY <1>0, <1>1, <1>2, <1>3, <2>1, <3>1
       DEF Row, Bounded, Settled, Registered, Fresh, Listens, Faulty, At
  <2>5. \A u \in Targets : u # t => Same(u)
    BY <1>1, <1>3, <2>1 DEF Same
  <2> QED BY <2>3, <2>4, <2>5, OneRow
<1> QED BY <1>4, <1>5

\* What the steps of a run write: its record ...
LEMMA RunWritten ==
  ASSUME Arranged, NEW t \in Targets, NEW r \in RunRecord, run' = [run EXCEPT ![t] = r]
  PROVE  /\ run' \in [Targets -> RunRecord] /\ run'[t] = r
         /\ \A u \in Targets : u # t => run'[u] = run[u]
BY Put DEF Arranged

\* ... and the document of its user.
LEMMA ArrivedWritten ==
  ASSUME Arranged, NEW t \in Targets, NEW s \in Seq(Targets), arrived' = [arrived EXCEPT ![t] = s]
  PROVE  /\ arrived' \in [Targets -> Seq(Targets)] /\ arrived'[t] = s
         /\ \A u \in Targets : u # t => arrived'[u] = arrived[u]
BY Put DEF Arranged

LEMMA StartRunKeeps ==
  ASSUME Conversation, NEW t \in Targets, StartRun(t) PROVE Conversation'
<1>0. GatingAssumption /\ Arranged /\ Row(t)
  BY GatingAssumption DEF Conversation
<1> DEFINE r == [n |-> run[t].n + 1, on |-> TRUE, calls |-> 0, fired |-> FALSE, pasted |-> FALSE, told |-> "none"]
<1>1. UNCHANGED <<scenario, call, asked, open, posted, killed, granted, dms, sent, temp>>
  BY DEF StartRun, ask, user
<1>2. run[t] \in RunRecord
  BY <1>0 DEF Arranged
<1>3. run[t].n \in Nat /\ run[t].n < MaxRuns /\ MaxRuns \in Nat
  BY <1>0, <1>2 DEF RunRecord, StartRun, GatingAssumption
<1>4. r \in RunRecord /\ r.n <= MaxRuns /\ r.calls <= MaxCalls
  BY <1>0, <1>3 DEF RunRecord, GatingAssumption
<1>5. run' = [run EXCEPT ![t] = r]
  <2>1. run' = [run EXCEPT ![t] = NewRun(run[t].n + 1)]
    BY DEF StartRun
  <2> QED BY <2>1 DEF NewRun
<1>6. /\ run' \in [Targets -> RunRecord] /\ run'[t] = r
      /\ \A u \in Targets : u # t => run'[u] = run[u]
  BY <1>0, <1>4, <1>5, RunWritten
<1>7. /\ arrived' \in [Targets -> Seq(Targets)] /\ arrived'[t] = <<>>
      /\ \A u \in Targets : u # t => arrived'[u] = arrived[u]
  BY <1>0, EmptySeq, ArrivedWritten DEF StartRun
<1>8. waiting[t] - 1 \in Nat /\ waiting' = [waiting EXCEPT ![t] = waiting[t] - 1]
  BY <1>0 DEF StartRun, Arranged
<1>9. waiting' \in [Targets -> Nat]
  BY <1>0, <1>8 DEF Arranged
<1>10. Arranged'
  BY <1>0, <1>1, <1>6, <1>7, <1>9 DEF Arranged
<1>11. Bounded(t)'
  BY <1>0, <1>1, <1>4, <1>6 DEF Row, Bounded
<1>12. At(t, "none")
  BY <1>0 DEF StartRun, Row, Settled
<1>13. Settled(t)' /\ Registered(t)'
  BY <1>0, <1>1, <1>6, <1>12 DEF Row, Settled, Registered, Listens, At, AskStep, MdStep
<1>14. Len(<<>>) = 0
  OBVIOUS
<1>15. Fresh(t)'
  BY <1>0, <1>1, <1>6, <1>7, <1>12, <1>14 DEF Row, Fresh, At, Faulty, MdStep
<1>16. \A u \in Targets : u # t => Same(u)
  BY <1>1, <1>6, <1>7 DEF Same
<1>17. Balanced(t)'
  <2>1. Owed(t)' = 0 /\ Len(arrived'[t]) = 0 /\ run'[t].calls = 0
    BY <1>1, <1>6, <1>7, <1>12, <1>14 DEF Owed, At, Delivering
  <2> QED BY <2>1 DEF Balanced
<1> QED BY <1>10, <1>11, <1>13, <1>15, <1>16, <1>17, OneRow DEF Row

\* One document more on none is one.
LEMMA FirstDocument ==
  ASSUME NEW t \in Targets, NEW x \in Targets, Arranged
  PROVE  /\ Append(arrived[t], x) \in Seq(Targets)
         /\ arrived[t] = <<>> => Len(Append(arrived[t], x)) = 1
         /\ Len(Append(arrived[t], x)) = Len(arrived[t]) + 1 /\ Len(arrived[t]) \in Nat
         /\ arrived[t] \in Seq(Targets)
BY AppendProperties DEF Arranged

LEMMA EndRunKeeps ==
  ASSUME Conversation, NEW t \in Targets, EndRun(t) PROVE Conversation'
<1>0. GatingAssumption /\ Arranged /\ Row(t)
  BY GatingAssumption DEF Conversation
<1> DEFINE r == [run[t] EXCEPT !.on = FALSE]
           given == scenario.tool[t] = "md" /\ (run[t].pasted \/ ~run[t].fired)
           s == IF given THEN Append(arrived[t], t) ELSE arrived[t]
<1>1. UNCHANGED <<scenario, waiting, call, asked, open, posted, killed, granted, dms, sent, temp>>
  BY DEF EndRun, ask, user
<1>2. run[t] \in RunRecord
  BY <1>0 DEF Arranged
<1>3. /\ r \in RunRecord /\ r.n = run[t].n /\ r.on = FALSE /\ r.fired = run[t].fired
      /\ r.pasted = run[t].pasted /\ r.calls = run[t].calls
  BY <1>2 DEF RunRecord
<1>4. /\ run' \in [Targets -> RunRecord] /\ run'[t] = r
      /\ \A u \in Targets : u # t => run'[u] = run[u]
  BY <1>0, <1>3, RunWritten DEF EndRun
<1>5. s \in Seq(Targets)
  BY <1>0, FirstDocument
<1>6. arrived' = [arrived EXCEPT ![t] = s]
  BY DEF EndRun
<1>7. /\ arrived' \in [Targets -> Seq(Targets)] /\ arrived'[t] = s
      /\ \A u \in Targets : u # t => arrived'[u] = arrived[u]
  BY <1>0, <1>5, <1>6, ArrivedWritten
<1>8. Arranged'
  BY <1>0, <1>1, <1>4, <1>7 DEF Arranged
<1>9. Bounded(t)'
  BY <1>0, <1>1, <1>3, <1>4 DEF Row, Bounded
<1>10. Settled(t)' /\ Registered(t)'
  BY <1>0, <1>1, <1>3, <1>4 DEF EndRun, Row, Settled, Registered, Listens, At, AskStep, MdStep
<1>11. Fresh(t)'
  BY <1>0, <1>1, <1>3, <1>4 DEF EndRun, Row, Fresh, At, MdStep
<1>12. Balanced(t)'
  <2>1. /\ Len(arrived[t]) \in Nat /\ run[t].calls \in Nat /\ run[t].on
        /\ Len(Append(arrived[t], t)) = Len(arrived[t]) + 1
    BY <1>0, <1>2, FirstDocument DEF EndRun, RunRecord
  <2>2. arrived'[t] = s /\ run'[t].calls = run[t].calls /\ run'[t].on = FALSE /\ scenario' = scenario
    BY <1>1, <1>3, <1>4, <1>7
  <2>3. SUFFICES ASSUME ~Faulty("answer") PROVE Len(s) <= 1 \/ Len(s) <= run[t].calls
    BY <2>2 DEF Balanced, Faulty
  <2>4. CASE ~given
    BY <1>0, <2>3, <2>4 DEF Row, Balanced
  <2>5. CASE given /\ ~run[t].fired
    <3>1. arrived[t] = <<>>
      BY <1>0, <2>1, <2>5 DEF Row, Fresh
    <3> QED BY <1>0, <2>5, <3>1, FirstDocument
  <2>6. CASE given /\ run[t].pasted
    <3>1. Owed(t) >= 1 /\ Owed(t) \in Nat
      BY <2>6 DEF Owed
    <3>2. Len(arrived[t]) + Owed(t) <= run[t].calls
      BY <1>0, <2>1, <2>3, <2>6 DEF Row, Balanced
    <3> QED BY <2>1, <2>6, <3>1, <3>2
  <2> QED BY <2>4, <2>5, <2>6
<1>13. \A u \in Targets : u # t => Same(u)
  BY <1>1, <1>4, <1>7 DEF Same
<1> QED BY <1>8, <1>9, <1>10, <1>11, <1>12, <1>13, OneRow DEF Row

LEMMA DropRunKeeps ==
  ASSUME Conversation, NEW t \in Targets, DropRun(t) PROVE Conversation'
<1>0. GatingAssumption /\ Arranged /\ Row(t)
  BY GatingAssumption DEF Conversation
<1> DEFINE r == [run[t] EXCEPT !.on = FALSE]
           k == IF call[t].at \in AskStep THEN killed[t] \cup {asked[t]} ELSE killed[t]
           last == IF scenario.tool[t] = "md" /\ ~run[t].fired THEN <<t>> ELSE <<>>
<1>1. /\ UNCHANGED <<scenario, waiting, asked, open, posted, granted, dms, sent, temp>>
      /\ run[t].on /\ Ends(t)
  BY DEF DropRun, user
<1>2. run[t] \in RunRecord
  BY <1>0 DEF Arranged
<1>3. /\ r \in RunRecord /\ r.n = run[t].n /\ r.on = FALSE /\ r.fired = run[t].fired
      /\ r.pasted = run[t].pasted /\ r.calls = run[t].calls
  BY <1>2 DEF RunRecord
<1>4. /\ run' \in [Targets -> RunRecord] /\ run'[t] = r
      /\ \A u \in Targets : u # t => run'[u] = run[u]
  BY <1>0, <1>3, RunWritten DEF DropRun
<1>5. asked[t] \in Nat /\ (call[t].at \in AskStep => asked[t] \in 1..asked[t])
  BY <1>0 DEF Row, Registered, Arranged
<1>6. k \in SUBSET Nat /\ k \subseteq 1..asked[t]
  BY <1>0, <1>5 DEF Row, Bounded, Arranged
<1>7. /\ killed' \in [Targets -> SUBSET Nat] /\ killed'[t] = k
      /\ \A u \in Targets : u # t => killed'[u] = killed[u]
  <2>1. killed' = [killed EXCEPT ![t] = k]
    BY DEF DropRun
  <2> QED BY <1>0, <1>6, <2>1, Put DEF Arranged
<1>8. /\ call' \in [Targets -> CallRecord] /\ call'[t].at = "none" /\ call'[t].got = "none"
      /\ \A u \in Targets : u # t => call'[u] = call[u]
  BY <1>0, <1>1, Ended
<1>9. PICK f \in {<<>>, InFlight(t)} : arrived' = [arrived EXCEPT ![t] = (arrived[t] \o f) \o last]
  BY DEF DropRun
<1>10. /\ f \in Seq(Targets) /\ Len(f) <= 1
       /\ f # <<>> => call[t].at \in {"upload", "inline"}
  <2>1. call[t].at = "upload" => call[t].data \in Targets
    BY <1>0 DEF Row, Settled, At
  <2>2. /\ call[t].at = "upload" => InFlight(t) = <<call[t].data>>
        /\ call[t].at = "inline" => InFlight(t) = <<t>>
        /\ call[t].at \notin {"upload", "inline"} => InFlight(t) = <<>>
    BY DEF InFlight, At
  <2>3. \A x \in Targets : <<x>> \in Seq(Targets) /\ Len(<<x>>) = 1
    OBVIOUS
  <2>4. <<>> \in Seq(Targets) /\ Len(<<>>) = 0
    OBVIOUS
  <2>5. f = <<>> => f \in Seq(Targets) /\ Len(f) <= 1
    BY <2>4
  <2>6. CASE f = InFlight(t)
    <3>1. CASE call[t].at = "upload"
      <4>1. f = <<call[t].data>> /\ call[t].data \in Targets
        BY <2>1, <2>2, <2>6, <3>1
      <4>2. f \in Seq(Targets) /\ Len(f) = 1
        BY <2>3, <4>1
      <4> QED BY <3>1, <4>2
    <3>2. CASE call[t].at = "inline"
      <4>1. f = <<t>>
        BY <2>2, <2>6, <3>2
      <4>2. f \in Seq(Targets) /\ Len(f) = 1
        BY <2>3, <4>1
      <4> QED BY <3>2, <4>2
    <3>3. CASE call[t].at \notin {"upload", "inline"}
      <4>1. f = <<>>
        BY <2>2, <2>6, <3>3
      <4> QED BY <2>5, <4>1
    <3> QED BY <3>1, <3>2, <3>3
  <2> QED BY <2>5, <2>6
<1>11. last \in Seq(Targets) /\ Len(last) <= 1
  OBVIOUS
<1> DEFINE s == (arrived[t] \o f) \o last
<1>12. /\ arrived[t] \in Seq(Targets) /\ arrived[t] \o f \in Seq(Targets) /\ s \in Seq(Targets)
       /\ Len(s) = Len(arrived[t]) + Len(f) + Len(last)
  <2>1. arrived[t] \in Seq(Targets)
    BY <1>0 DEF Arranged
  <2>2. arrived[t] \o f \in Seq(Targets) /\ Len(arrived[t] \o f) = Len(arrived[t]) + Len(f)
    BY <2>1, <1>10
  <2> QED BY <2>1, <2>2, <1>11
<1>13. /\ arrived' \in [Targets -> Seq(Targets)] /\ arrived'[t] = s
       /\ \A u \in Targets : u # t => arrived'[u] = arrived[u]
  BY <1>0, <1>9, <1>12, ArrivedWritten
<1>14. Arranged'
  BY <1>0, <1>1, <1>4, <1>7, <1>8, <1>13 DEF Arranged
<1>15. Bounded(t)'
  BY <1>0, <1>1, <1>3, <1>4, <1>6, <1>7 DEF Row, Bounded
<1>16. Settled(t)'
  BY <1>0, <1>1, <1>3, <1>4, <1>8 DEF Row, Settled, At, AskStep, MdStep
<1>17. Registered(t)'
  BY <1>0, <1>1, <1>7, <1>8 DEF Row, Registered, Listens, At, AskStep, MdStep
<1>18. Faulty("answer") \/ Len(s) <= 1 \/ Len(s) <= run[t].calls
  <2>1. /\ Len(arrived[t]) \in Nat /\ Len(f) \in Nat /\ Len(last) \in Nat /\ run[t].calls \in Nat
    BY <1>2, <1>10, <1>11, <1>12 DEF RunRecord
  <2>2. Len(<<>>) = 0
    OBVIOUS
  <2> HIDE DEF s, last
  <2>3. CASE ~run[t].fired
    <3>1. arrived[t] = <<>> /\ call[t].at \notin MdStep
      BY <1>0, <1>1, <2>3 DEF Row, Fresh
    <3>2. f = <<>>
      BY <3>1, <1>10 DEF MdStep
    <3> QED BY <3>1, <3>2, <2>1, <2>2, <1>11, <1>12
  <2>4. CASE run[t].fired
    <3>1. last = <<>>
      BY <2>4 DEF last
    <3>2. CASE f = <<>>
      <4>1. Len(s) = Len(arrived[t])
        BY <3>1, <3>2, <2>1, <2>2, <1>12
      <4> QED BY <4>1, <1>0 DEF Row, Balanced
    <3>3. CASE f # <<>>
      <4>1. scenario.tool[t] = "md" /\ call[t].at \in {"upload", "inline"}
        <5>1. scenario \in Scenarios /\ scenario.tool[t] \in Tool
          BY <1>0 DEF Arranged, GatingAssumption
        <5> QED BY <1>0, <1>10, <3>3, <5>1 DEF Row, Settled, MdStep, Tool
      <4>2. Owed(t) \in Nat /\ Owed(t) >= 1
        BY <4>1 DEF Owed, Delivering
      <4>3. Faulty("answer") \/ Len(arrived[t]) + Owed(t) <= run[t].calls
        BY <4>1, <1>0, <1>1 DEF Row, Balanced
      <4> QED BY <2>1, <2>2, <1>10, <1>12, <3>1, <4>2, <4>3
    <3> QED BY <3>2, <3>3
  <2> QED BY <2>3, <2>4
<1>19. Fresh(t)' /\ Balanced(t)'
  <2>1. arrived'[t] = s /\ run'[t].calls = run[t].calls /\ run'[t].on = FALSE /\ scenario' = scenario
    BY <1>1, <1>3, <1>4, <1>13
  <2>2. Fresh(t)'
    BY <1>8, <2>1 DEF Fresh, MdStep
  <2> HIDE DEF s
  <2> QED BY <1>18, <2>1, <2>2 DEF Balanced, Faulty
<1>20. \A u \in Targets : u # t => Same(u)
  BY <1>1, <1>4, <1>7, <1>8, <1>13 DEF Same
<1> QED BY <1>14, <1>15, <1>16, <1>17, <1>19, <1>20, OneRow DEF Row

LEMMA NoMdBridgeKeeps ==
  ASSUME Conversation, NEW t \in Targets, NoMdBridge(t) PROVE Conversation'
<1>0. GatingAssumption /\ Arranged /\ Row(t)
  BY GatingAssumption DEF Conversation
<1> DEFINE r == [run[t] EXCEPT !.pasted = TRUE]
<1>1. /\ UNCHANGED <<scenario, waiting, asked, open, posted, killed, granted, dms, sent, temp, arrived>>
      /\ scenario.tool[t] = "md" /\ call[t].at = "connect" /\ Ends(t)
  BY DEF NoMdBridge, ask, user, md, At
<1>2. run[t] \in RunRecord
  BY <1>0 DEF Arranged
<1>3. /\ r \in RunRecord /\ r.n = run[t].n /\ r.on = run[t].on /\ r.fired = run[t].fired
      /\ r.pasted = TRUE /\ r.calls = run[t].calls
  BY <1>2 DEF RunRecord
<1>4. /\ run' \in [Targets -> RunRecord] /\ run'[t] = r
      /\ \A u \in Targets : u # t => run'[u] = run[u]
  BY <1>0, <1>3, RunWritten DEF NoMdBridge
<1>5. /\ call' \in [Targets -> CallRecord] /\ call'[t].at = "none" /\ call'[t].got = "none"
      /\ \A u \in Targets : u # t => call'[u] = call[u]
  BY <1>0, <1>1, Ended
<1>6. Arranged'
  BY <1>0, <1>1, <1>4, <1>5 DEF Arranged
<1>7. Bounded(t)'
  BY <1>0, <1>1, <1>3, <1>4 DEF Row, Bounded
<1>8. Settled(t)' /\ Registered(t)' /\ Fresh(t)'
  BY <1>0, <1>1, <1>3, <1>4, <1>5
     DEF Row, Settled, Registered, Fresh, Listens, Faulty, At, AskStep, MdStep
<1>9. \A u \in Targets : u # t => Same(u)
  BY <1>1, <1>4, <1>5 DEF Same
<1>10. Balanced(t)'
  <2>1. Len(arrived[t]) \in Nat /\ run[t].calls \in Nat
    BY <1>0, <1>2 DEF Arranged, RunRecord
  <2>2. Owed(t) >= 1 /\ Owed(t) \in Nat /\ Owed(t)' = 1
    BY <1>1, <1>3, <1>4, <1>5 DEF Owed, Delivering
  <2> QED BY <1>0, <1>1, <1>3, <1>4, <2>1, <2>2 DEF Row, Balanced, Faulty
<1> QED BY <1>6, <1>7, <1>8, <1>9, <1>10, OneRow DEF Row

LEMMA AcceptMdKeeps ==
  ASSUME Conversation, NEW t \in Targets, AcceptMd(t) PROVE Conversation'
<1>0. GatingAssumption /\ Arranged /\ Row(t)
  BY GatingAssumption DEF Conversation
<1> DEFINE r == [run[t] EXCEPT !.fired = TRUE]
<1>1. /\ UNCHANGED <<scenario, waiting, asked, open, posted, killed, granted, dms, sent, arrived>>
      /\ scenario.tool[t] = "md" /\ call[t].at = "connect"
  BY DEF AcceptMd, ask, user, At
<1>2. run[t] \in RunRecord
  BY <1>0 DEF Arranged
<1>3. /\ r \in RunRecord /\ r.n = run[t].n /\ r.on = run[t].on /\ r.fired = TRUE
      /\ r.pasted = run[t].pasted /\ r.calls = run[t].calls
  BY <1>2 DEF RunRecord
<1>4. /\ run' \in [Targets -> RunRecord] /\ run'[t] = r
      /\ \A u \in Targets : u # t => run'[u] = run[u]
  BY <1>0, <1>3, RunWritten DEF AcceptMd, Fire
<1>5. PICK l \in {"attach", "inline"} : Moves(t, l)
  BY DEF AcceptMd
<1>6. l \in Places
  BY DEF Places, MdStep
<1>7. /\ call' \in [Targets -> CallRecord] /\ call'[t].at = l /\ call'[t].got = call[t].got
      /\ \A u \in Targets : u # t => call'[u] = call[u]
  BY <1>0, <1>5, <1>6, Moved
<1>8. temp' \in [Targets \cup {"shared"} -> Targets \cup {"none"}]
  BY <1>0 DEF AcceptMd, Arranged
<1>9. Arranged'
  BY <1>0, <1>1, <1>4, <1>7, <1>8 DEF Arranged
<1>10. Bounded(t)'
  BY <1>0, <1>1, <1>3, <1>4 DEF Row, Bounded
<1>11. run[t].on
  BY <1>0, <1>1 DEF Row, Settled, At
<1>12. Settled(t)' /\ Registered(t)'
  BY <1>0, <1>1, <1>3, <1>4, <1>5, <1>7, <1>11
     DEF Row, Settled, Registered, Listens, At, AskStep, MdStep
<1>13. Fresh(t)'
  BY <1>0, <1>1, <1>3, <1>4, <1>5, <1>7, <1>11 DEF Row, Fresh, Faulty, At, AskStep, MdStep
<1>14. \A u \in Targets : u # t => Same(u)
  BY <1>1, <1>4, <1>7 DEF Same
<1>15. Balanced(t)'
  BY <1>0, <1>1, <1>3, <1>4, BalanceKept DEF Row, Delivering
<1> QED BY <1>9, <1>10, <1>12, <1>13, <1>14, <1>15, OneRow DEF Row

LEMMA ReadTempKeeps ==
  ASSUME Conversation, NEW t \in Targets, ReadTemp(t) PROVE Conversation'
<1>0. GatingAssumption /\ Arranged /\ Row(t)
  BY GatingAssumption DEF Conversation
<1> DEFINE d == temp[Path(t)]
           l == IF d = "none" THEN "inline" ELSE "upload"
           c == [call[t] EXCEPT !.at = l, !.data = d]
<1>1. /\ UNCHANGED <<scenario, run, waiting, asked, open, posted, killed, granted, dms, sent, temp, arrived>>
      /\ call[t].at = "attach"
  BY DEF ReadTemp, ask, user, md, At
<1>2. d \in Targets \cup {"none"}
  BY <1>0 DEF Arranged, Path
<1>3. call[t] \in CallRecord
  BY <1>0 DEF Arranged
<1>4. /\ c \in CallRecord /\ c.at = l /\ c.got = call[t].got /\ c.data = d
      /\ l = "upload" => d \in Targets
  <2> HIDE DEF d
  <2> QED BY <1>2, <1>3 DEF CallRecord, Places, MdStep
<1>5. /\ call' \in [Targets -> CallRecord] /\ call'[t] = c
      /\ \A u \in Targets : u # t => call'[u] = call[u]
  <2>1. call' = [call EXCEPT ![t] = c]
    BY DEF ReadTemp
  <2> QED BY <1>0, <1>4, <2>1, Put DEF Arranged
<1> HIDE DEF d, c
<1>6. Arranged'
  BY <1>0, <1>1, <1>5 DEF Arranged
<1>7. Bounded(t)'
  BY <1>0, <1>1 DEF Row, Bounded
<1>8. Settled(t)' /\ Registered(t)' /\ Fresh(t)'
  BY <1>0, <1>1, <1>4, <1>5
     DEF Row, Settled, Registered, Fresh, Listens, Faulty, At, AskStep, MdStep
<1>9. \A u \in Targets : u # t => Same(u)
  BY <1>1, <1>5 DEF Same
<1>10. Balanced(t)'
  BY <1>0, <1>1, BalanceKept DEF Row, Delivering
<1> QED BY <1>6, <1>7, <1>8, <1>9, <1>10, OneRow DEF Row

LEMMA AttachKeeps ==
  ASSUME Conversation, NEW t \in Targets, Attach(t) PROVE Conversation'
<1>0. GatingAssumption /\ Arranged /\ Row(t)
  BY GatingAssumption DEF Conversation
<1>1. /\ UNCHANGED <<scenario, run, waiting, asked, open, posted, killed, granted, dms, sent>>
      /\ call[t].at = "upload" /\ call[t].data \in Targets
  BY <1>0 DEF Attach, ask, user, At, Row, Settled
<1>2. temp' \in [Targets \cup {"shared"} -> Targets \cup {"none"}]
  BY <1>0 DEF Attach, Arranged
<1>3. PICK l \in {"attached", "inline"}, s \in {arrived[t], Append(arrived[t], call[t].data)} :
        /\ Moves(t, l) /\ arrived' = [arrived EXCEPT ![t] = s]
        /\ l = "inline" => Faulty("answer") \/ s = arrived[t]
  <2>1. [arrived EXCEPT ![t] = arrived[t]] = arrived
    BY <1>0 DEF Arranged
  <2> QED BY <2>1 DEF Attach
<1>4. l \in Places
  BY DEF Places, MdStep
<1>5. /\ call' \in [Targets -> CallRecord] /\ call'[t].at = l /\ call'[t].got = call[t].got
      /\ \A u \in Targets : u # t => call'[u] = call[u]
  BY <1>0, <1>3, <1>4, Moved
<1>6. s \in Seq(Targets)
  BY <1>0, <1>1, FirstDocument DEF Arranged
<1>7. /\ arrived' \in [Targets -> Seq(Targets)] /\ arrived'[t] = s
      /\ \A u \in Targets : u # t => arrived'[u] = arrived[u]
  BY <1>0, <1>3, <1>6, ArrivedWritten
<1>8. Arranged'
  BY <1>0, <1>1, <1>2, <1>5, <1>7 DEF Arranged
<1>9. Bounded(t)'
  BY <1>0, <1>1 DEF Row, Bounded
<1>10. scenario.tool[t] = "md" /\ run[t].fired /\ run[t].on
  <2>1. scenario.tool[t] \in Tool
    BY <1>0 DEF Arranged, GatingAssumption
  <2> QED BY <1>0, <1>1, <2>1 DEF Row, Fresh, Settled, MdStep, At, Tool
<1>11. Fresh(t)'
  BY <1>1, <1>10 DEF Fresh
<1>12. Balanced(t)'
  <2>1. s = arrived[t] => Balanced(t)'
    BY <1>0, <1>1, <1>7, BalanceKept DEF Row, Delivering
  <2>2. CASE s = Append(arrived[t], call[t].data) /\ l = "attached"
    <3>1. Len(s) = Len(arrived[t]) + 1 /\ Len(arrived[t]) \in Nat /\ run[t].calls \in Nat
      BY <1>0, <1>1, <2>2, FirstDocument DEF Arranged, RunRecord
    <3>2. Owed(t) = Owed(t)' + 1 /\ Owed(t)' \in Nat
      BY <1>1, <1>5, <2>2 DEF Owed, Delivering
    <3> QED BY <1>0, <1>1, <1>7, <1>10, <3>1, <3>2 DEF Row, Balanced, Faulty
  <2>3. Faulty("answer") => Balanced(t)'
    BY <1>1 DEF Balanced, Faulty
  <2> QED BY <1>3, <2>1, <2>2, <2>3
<1>13. Settled(t)' /\ Registered(t)'
  BY <1>0, <1>1, <1>3, <1>5, <1>10 DEF Row, Settled, Registered, Listens, At, AskStep, MdStep
<1>15. \A u \in Targets : u # t => Same(u)
  BY <1>1, <1>5, <1>7 DEF Same
<1> QED BY <1>8, <1>9, <1>11, <1>12, <1>13, <1>15, OneRow DEF Row

LEMMA InlineKeeps ==
  ASSUME Conversation, NEW t \in Targets, Inline(t) PROVE Conversation'
<1>0. GatingAssumption /\ Arranged /\ Row(t)
  BY GatingAssumption DEF Conversation
<1>1. /\ UNCHANGED <<scenario, run, waiting, asked, open, posted, killed, granted, dms, sent, temp>>
      /\ call[t].at = "inline"
      /\ "told_inline" \in Places /\ Moves(t, "told_inline")
  BY DEF Inline, ask, user, At, Places, MdStep
<1>2. /\ call' \in [Targets -> CallRecord] /\ call'[t].at = "told_inline" /\ call'[t].got = call[t].got
      /\ \A u \in Targets : u # t => call'[u] = call[u]
  BY <1>0, <1>1, Moved
<1>3. PICK s \in {arrived[t], Append(arrived[t], t)} : arrived' = [arrived EXCEPT ![t] = s]
  <2>1. [arrived EXCEPT ![t] = arrived[t]] = arrived
    BY <1>0 DEF Arranged
  <2> QED BY <2>1 DEF Inline
<1>4. s \in Seq(Targets)
  <2>1. arrived[t] \in Seq(Targets) /\ Append(arrived[t], t) \in Seq(Targets)
    BY <1>0, FirstDocument
  <2> QED BY <2>1, <1>3
<1>5. /\ arrived' \in [Targets -> Seq(Targets)] /\ arrived'[t] = s
      /\ \A u \in Targets : u # t => arrived'[u] = arrived[u]
  BY <1>0, <1>3, <1>4, ArrivedWritten
<1>6. Arranged'
  BY <1>0, <1>1, <1>2, <1>5 DEF Arranged
<1>7. Bounded(t)'
  BY <1>0, <1>1 DEF Row, Bounded
<1>8. scenario.tool[t] = "md" /\ run[t].fired /\ run[t].on
  <2>1. scenario.tool[t] \in Tool
    BY <1>0 DEF Arranged, GatingAssumption
  <2> QED BY <1>0, <1>1, <2>1 DEF Row, Fresh, Settled, MdStep, At, Tool
<1>9. Settled(t)' /\ Registered(t)'
  BY <1>0, <1>1, <1>2, <1>8 DEF Row, Settled, Registered, Listens, At, AskStep, MdStep
<1>10. Fresh(t)'
  BY <1>1, <1>8 DEF Fresh
<1>11. Balanced(t)'
  <2>1. /\ Len(s) <= Len(arrived[t]) + 1 /\ Len(s) \in Nat /\ Len(arrived[t]) \in Nat
        /\ run[t].calls \in Nat
    <3>1. arrived[t] \in Seq(Targets) /\ run[t] \in RunRecord
      BY <1>0 DEF Arranged
    <3>2. Len(arrived[t]) \in Nat /\ Len(Append(arrived[t], t)) = Len(arrived[t]) + 1
      BY <3>1
    <3>3. Len(s) = Len(arrived[t]) \/ Len(s) = Len(arrived[t]) + 1
      BY <1>3, <3>2
    <3>4. run[t].calls \in Nat
      BY <3>1 DEF RunRecord
    <3> QED BY <3>2, <3>3, <3>4
  <2>2. Owed(t) = Owed(t)' + 1 /\ Owed(t)' \in Nat
    BY <1>1, <1>2 DEF Owed, Delivering
  <2> QED BY <1>0, <1>1, <1>5, <1>8, <2>1, <2>2 DEF Row, Balanced, Faulty
<1>12. \A u \in Targets : u # t => Same(u)
  BY <1>1, <1>2, <1>5 DEF Same
<1> QED BY <1>6, <1>7, <1>9, <1>10, <1>11, <1>12, OneRow DEF Row

LEMMA MdResultKeeps ==
  ASSUME Conversation, NEW t \in Targets, MdResult(t) PROVE Conversation'
<1>0. GatingAssumption /\ Arranged /\ Row(t)
  BY GatingAssumption DEF Conversation
<1>1. /\ UNCHANGED <<scenario, waiting, asked, open, posted, killed, granted, dms, sent, temp, arrived>>
      /\ call[t].at \in {"attached", "told_inline"} /\ Ends(t)
  BY DEF MdResult, ask, user, md, At
<1>2. PICK o \in {"delivered", "inline"} : run' = [run EXCEPT ![t].told = o]
  BY DEF MdResult, Tells
<1> DEFINE r == [run[t] EXCEPT !.told = o]
<1>3. run[t] \in RunRecord
  BY <1>0 DEF Arranged
<1>4. /\ r \in RunRecord /\ r.n = run[t].n /\ r.on = run[t].on /\ r.fired = run[t].fired
      /\ r.pasted = run[t].pasted /\ r.calls = run[t].calls
  BY <1>3 DEF RunRecord
<1>5. /\ run' \in [Targets -> RunRecord] /\ run'[t] = r
      /\ \A u \in Targets : u # t => run'[u] = run[u]
  BY <1>0, <1>2, <1>4, RunWritten
<1>6. /\ call' \in [Targets -> CallRecord] /\ call'[t].at = "none" /\ call'[t].got = "none"
      /\ \A u \in Targets : u # t => call'[u] = call[u]
  BY <1>0, <1>1, Ended
<1>7. Arranged'
  BY <1>0, <1>1, <1>5, <1>6 DEF Arranged
<1>8. Bounded(t)'
  BY <1>0, <1>1, <1>4, <1>5 DEF Row, Bounded
<1>9. Settled(t)' /\ Registered(t)' /\ Fresh(t)'
  BY <1>0, <1>1, <1>4, <1>5, <1>6
     DEF Row, Settled, Registered, Fresh, Listens, Faulty, At, AskStep, MdStep
<1>10. \A u \in Targets : u # t => Same(u)
  BY <1>1, <1>5, <1>6 DEF Same
<1>11. Balanced(t)'
  BY <1>0, <1>1, <1>4, <1>5, <1>6, BalanceKept DEF Row, Delivering
<1> QED BY <1>7, <1>8, <1>9, <1>10, <1>11, OneRow DEF Row

\* The model calls the document tool: one call more, and one document more to come.
LEMMA CallMdKeeps ==
  ASSUME Conversation, NEW t \in Targets, CallMd(t) PROVE Conversation'
<1>0. GatingAssumption /\ Arranged /\ Row(t)
  BY GatingAssumption DEF Conversation
<1> DEFINE r == [run[t] EXCEPT !.calls = run[t].calls + 1]
<1>1. /\ UNCHANGED <<scenario, waiting, asked, open, posted, killed, granted, dms, sent, temp, arrived>>
      /\ scenario.tool[t] = "md" /\ call[t].at = "none" /\ run[t].on /\ run[t].calls < MaxCalls
      /\ "connect" \in Places /\ Moves(t, "connect") /\ run' = [run EXCEPT ![t] = r]
  BY DEF CallMd, ask, user, md, At, Places
<1>2. run[t] \in RunRecord
  BY <1>0 DEF Arranged
<1>3. /\ r \in RunRecord /\ r.n = run[t].n /\ r.on /\ r.fired = run[t].fired
      /\ r.pasted = run[t].pasted /\ r.calls = run[t].calls + 1 /\ run[t].calls \in Nat
      /\ r.calls <= MaxCalls
  BY <1>0, <1>1, <1>2 DEF RunRecord, GatingAssumption
<1>4. /\ run' \in [Targets -> RunRecord] /\ run'[t] = r
      /\ \A u \in Targets : u # t => run'[u] = run[u]
  BY <1>0, <1>1, <1>3, RunWritten
<1>5. /\ call' \in [Targets -> CallRecord] /\ call'[t].at = "connect" /\ call'[t].got = call[t].got
      /\ \A u \in Targets : u # t => call'[u] = call[u]
  BY <1>0, <1>1, Moved
<1>6. Arranged'
  BY <1>0, <1>1, <1>4, <1>5 DEF Arranged
<1>7. Bounded(t)'
  BY <1>0, <1>1, <1>3, <1>4 DEF Row, Bounded
<1>8. Settled(t)' /\ Registered(t)' /\ Fresh(t)'
  BY <1>0, <1>1, <1>3, <1>4, <1>5
     DEF Row, Settled, Registered, Fresh, Listens, Faulty, At, AskStep, MdStep
<1>9. Balanced(t)'
  <2>1. Owed(t)' = Owed(t) + 1 /\ Owed(t) \in Nat /\ Len(arrived[t]) \in Nat
    BY <1>0, <1>1, <1>3, <1>4, <1>5 DEF Owed, Delivering, Arranged
  <2> QED BY <1>0, <1>1, <1>3, <1>4, <2>1 DEF Row, Balanced, Faulty
<1>10. \A u \in Targets : u # t => Same(u)
  BY <1>1, <1>4, <1>5 DEF Same
<1> QED BY <1>6, <1>7, <1>8, <1>9, <1>10, OneRow DEF Row

LEMMA ConversationInit == GatingInit => Conversation
<1> SUFFICES ASSUME GatingInit PROVE Conversation
  OBVIOUS
<1>1. Arranged
  <2>1. [NewRun(0) EXCEPT !.on = FALSE] \in RunRecord
    BY DEF NewRun, RunRecord
  <2>2. NoCall \in CallRecord
    BY DEF NoCall, CallRecord, Places
  <2> QED BY <2>1, <2>2, EmptySeq DEF GatingInit, Arranged
<1>2. ASSUME NEW t \in Targets PROVE Row(t)
  <2>1. /\ run[t] = [NewRun(0) EXCEPT !.on = FALSE] /\ call[t] = NoCall /\ asked[t] = 0
        /\ open[t] = 0 /\ posted[t] = {} /\ killed[t] = {} /\ granted[t] = {} /\ dms[t] = <<>>
        /\ sent[t] = 0 /\ arrived[t] = <<>>
    BY DEF GatingInit
  <2>2. /\ run[t].n = 0 /\ run[t].on = FALSE /\ run[t].fired = FALSE /\ run[t].pasted = FALSE /\ run[t].calls = 0
        /\ call[t].at = "none" /\ call[t].got = "none"
    BY <2>1 DEF NewRun, NoCall
  <2>3. Bounded(t)
    BY <2>1, <2>2, EmptySeq, GatingAssumption DEF Bounded, GatingAssumption
  <2>4. Len(<<>>) = 0
    OBVIOUS
  <2>5. Settled(t) /\ Registered(t) /\ Fresh(t)
    BY <2>1, <2>2, <2>4 DEF Settled, Registered, Fresh, Listens, Faulty, At, AskStep, MdStep
  <2>6. Balanced(t)
    BY <2>1, <2>2, <2>4 DEF Balanced
  <2> QED BY <2>3, <2>5, <2>6 DEF Row
<1> QED BY <1>1, <1>2 DEF Conversation

LEMMA ConversationStep == Conversation /\ [GatingNext]_gatingVars => Conversation'
<1> SUFFICES ASSUME Conversation, [GatingNext]_gatingVars PROVE Conversation'
  OBVIOUS
<1>1. CASE GatingNext
  <2>1. PICK t \in Targets :
          \/ Write(t) \/ HandleDm(t) \/ StartRun(t) \/ EndRun(t) \/ DropRun(t) \/ CallAsk(t)
          \/ CallMd(t) \/ NoAskBridge(t) \/ NoMdBridge(t) \/ QuestionFails(t) \/ Daemon(t)
    BY <1>1 DEF GatingNext
  <2> QED BY <2>1, WriteKeeps, HandleDmKeeps, StartRunKeeps, EndRunKeeps, DropRunKeeps, CallMoves,
             CallMdKeeps, CallEnds, NoMdBridgeKeeps, AcceptAskKeeps, PostKeeps, DenyKeeps, AcceptMdKeeps,
             ReadTempKeeps, AttachKeeps, InlineKeeps, MdResultKeeps DEF Daemon
<1>2. CASE UNCHANGED gatingVars
  BY <1>2 DEF gatingVars, Conversation, Arranged, Row, Bounded, Settled, Registered, Fresh,
              Balanced, Owed, At, Listens, Faulty
<1> QED BY <1>1, <1>2

LEMMA ConversationHolds == GatingSpec => []Conversation
BY ConversationInit, ConversationStep, PTL DEF GatingSpec

\* Every variable of Gating has the type the code gives it; no question in the map, in a
\* DM or granted is one that was never asked.
THEOREM GatingTypeCorrect == GatingSpec => []GatingTypeOK
<1>1. Conversation => GatingTypeOK
  <2> SUFFICES ASSUME Conversation PROVE GatingTypeOK
    OBVIOUS
  <2>1. GatingAssumption /\ Arranged /\ \A t \in Targets : Bounded(t)
    BY GatingAssumption DEF Conversation, Row
  <2>2. run \in [Targets -> [n : 0..MaxRuns, on : BOOLEAN, calls : 0..MaxCalls, fired : BOOLEAN, pasted : BOOLEAN,
                             told : {"none", "delivered", "inline"}]]
    <3>1. ASSUME NEW t \in Targets
          PROVE  run[t] \in [n : 0..MaxRuns, on : BOOLEAN, calls : 0..MaxCalls, fired : BOOLEAN, pasted : BOOLEAN,
                             told : {"none", "delivered", "inline"}]
      <4>1. /\ run[t] \in RunRecord /\ run[t].n <= MaxRuns /\ MaxRuns \in Nat
            /\ run[t].calls <= MaxCalls /\ MaxCalls \in Nat
        BY <2>1 DEF Arranged, Bounded, GatingAssumption
      <4>2. run[t].n \in Nat /\ run[t].calls \in Nat
        BY <4>1 DEF RunRecord
      <4>3. run[t].n \in 0..MaxRuns /\ run[t].calls \in 0..MaxCalls
        BY <4>1, <4>2
      <4> QED BY <4>1, <4>3 DEF RunRecord
    <3> QED BY <2>1, <3>1 DEF Arranged
  <2>3. asked \in [Targets -> 0..MaxAsked] /\ sent \in [Targets -> 0..MaxDms]
    BY <2>1 DEF Arranged, Bounded, GatingAssumption
  <2>4. \A t \in Targets : /\ open[t] \in 0..asked[t] /\ posted[t] \subseteq 1..asked[t]
                           /\ killed[t] \subseteq 1..asked[t]
                           /\ granted[t] \subseteq (1..asked[t]) \X (0..asked[t])
    <3>1. ASSUME NEW t \in Targets PROVE open[t] \in 0..asked[t]
      <4>1. open[t] \in Nat /\ asked[t] \in Nat /\ open[t] <= asked[t]
        BY <2>1 DEF Arranged, Bounded
      <4> QED BY <4>1
    <3> QED BY <2>1, <3>1 DEF Bounded
  <2>5. \A t \in Targets : dms[t] \in Seq(0..asked[t])
    BY <2>1 DEF Bounded
  <2> QED BY <2>1, <2>2, <2>3, <2>4, <2>5 DEF GatingTypeOK, Arranged, CallRecord, Places
<1> QED BY <1>1, ConversationHolds, PTL

\* The map of pending questions keeps no question nobody asks any more, unless its run was
\* killed: PendingMap::ask removes its entry on every path that ends.
THEOREM NoOrphanQuestion == GatingSpec => []EntryHasAsker
<1>1. Conversation => EntryHasAsker
  BY DEF Conversation, Row, Registered, EntryHasAsker
<1> QED BY <1>1, ConversationHolds, PTL

\* A DM that answers the open question while its asker waits goes to that asker, also when
\* it overtakes the send of the question (PendingMap::ask registers before it sends).
THEOREM AnswersArrive == GatingSpec => AnswerReachesItsAsker
<1> DEFINE Reaches ==
      \A t \in Targets :
        Len(dms'[t]) < Len(dms[t]) /\ Listens(t) /\ Head(dms[t]) = asked[t] /\ call[t].got = "none"
          => call'[t].got = "answer"
<1>1. Conversation /\ [GatingNext]_gatingVars => [Reaches]_gatingVars
  <2> SUFFICES ASSUME Conversation, GatingNext, NEW t \in Targets, Len(dms'[t]) < Len(dms[t]),
                      Listens(t), call[t].got = "none"
               PROVE  call'[t].got = "answer"
    OBVIOUS
  <2>1. Arranged /\ Row(t)
    BY DEF Conversation
  <2>2. Len(dms[t]) \in Nat
    BY <2>1 DEF Arranged
  <2>3. HandleDm(t)
    <3>1. PICK u \in Targets :
            \/ Write(u) \/ HandleDm(u) \/ StartRun(u) \/ EndRun(u) \/ DropRun(u) \/ CallAsk(u)
            \/ CallMd(u) \/ NoAskBridge(u) \/ NoMdBridge(u) \/ QuestionFails(u) \/ Daemon(u)
      BY DEF GatingNext
    <3>2. dms' # dms
      BY <2>2
    <3>3. Write(u) \/ HandleDm(u)
      BY <3>1, <3>2
         DEF StartRun, EndRun, DropRun, CallAsk, CallMd, NoAskBridge, NoMdBridge, QuestionFails,
             Daemon, AcceptAsk, Post, QuestionSent, Expire, Deny, AskResult, AcceptMd, ReadTemp,
             Attach, Inline, MdResult, user
    <3>4. ~Write(u)
      <4> SUFFICES ASSUME Write(u) PROVE FALSE
        OBVIOUS
      <4>1. PICK q \in posted[u] \cup {0} : dms' = [dms EXCEPT ![u] = Append(dms[u], q)]
        BY DEF Write
      <4>2. q \in Nat
        BY <2>1, <4>1 DEF Arranged
      <4>3. Len(Append(dms[u], q)) = Len(dms[u]) + 1
        BY <2>1, <4>2, AppendProperties DEF Arranged
      <4> QED BY <2>1, <2>2, <4>1, <4>3 DEF Arranged
    <3>5. u = t
      BY <2>1, <2>2, <3>3, <3>4 DEF HandleDm, Arranged
    <3> QED BY <3>3, <3>4, <3>5
  <2>4. open[t] # 0 /\ open[t] = asked[t]
    BY <2>1 DEF Row, Registered, Listens, At, AskStep
  <2>5. Head(dms[t]) \in 0..asked[t]
    BY <2>1, <2>3, HeadTailProperties DEF HandleDm, Row, Bounded
  <2>6. Receive(t, Head(dms[t]))
    BY <2>3, <2>4 DEF HandleDm
  <2> QED BY <2>1, <2>4, <2>5, <2>6, Received
<1> QED BY <1>1, ConversationHolds, PTL DEF GatingSpec, AnswerReachesItsAsker

\* A run gives its user its document once for each call of the tool, and once if there was
\* none: a paste and the backstop of MdBridge do not come on top of a delivery, also when the
\* run is killed in the middle of it; unless a send arrives that is reported failed.
THEOREM DocumentComesOnce == GatingSpec => []DocumentOnce
<1>1. Conversation => DocumentOnce
  BY DEF Conversation, Row, Balanced, DocumentOnce
<1> QED BY <1>1, ConversationHolds, PTL
=============================================================================
