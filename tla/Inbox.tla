-------------------------------- MODULE Inbox --------------------------------
(***************************************************************************)
(* The durable inbox of a messenger daemon                                 *)
(* (src/crates/aqua-messenger/src/inbox.rs) with the request handlers that *)
(* use it under its lock (engine.rs: read_inbox, wait_for_reply,           *)
(* mark_processed).                                                        *)
(*                                                                         *)
(* The inbox is kept in memory and rewritten to two files: the sequence    *)
(* high-water mark (inbox.seq), then the entries (inbox.jsonl).  Each file *)
(* is replaced atomically, the pair is not: a request is split at its file *)
(* writes, so that a crash can fall before, between or after them.  The    *)
(* inbox lock is held until the last write of a request.                   *)
(*                                                                         *)
(* Messages are offered again and again: live sync, the backfill after a   *)
(* reconnect and the backfill after a restart all go through ingest.       *)
(***************************************************************************)
EXTENDS Naturals, Sequences, FiniteSets

CONSTANTS
  Events,         \* Matrix event ids that may be offered
  Ts,             \* origin_server_ts of each event
  MediaEvents,    \* the events of a media kind
  Sessions,       \* the sessions that read and mark
  Nobody,         \* no mark (Option::None)
  Policies,       \* the InboxPolicy values an operator may start it with
  DiskFaults,     \* the policies of inboxes whose file writes may fail (persist only logs it)
  MaxSeq,         \* bound: sequence numbers handed out
  MaxClock,       \* bound: the host clock
  MaxRestarts     \* bound: crashes

\* max_age = 0 stands for None.
InboxPolicy == [max_entries : Nat, max_age : Nat, hard_cap : BOOLEAN,
                accept_media : BOOLEAN, track_processed : BOOLEAN]

ASSUME InboxAssumption ==
  /\ Ts \in [Events -> Nat]
  /\ MediaEvents \subseteq Events
  /\ Nobody \notin Sessions
  /\ Policies \subseteq InboxPolicy
  /\ DiskFaults \subseteq Policies
  /\ MaxSeq \in Nat /\ MaxClock \in Nat /\ MaxRestarts \in Nat

VARIABLES
  policy,       \* Inbox.policy, fixed by the operator
  entries,      \* Inbox.entries, a set: the file order is the seq order
  known,        \* Inbox.seen: event ids already ingested
  nextSeq,      \* Inbox.next_seq
  persistedSeq, \* Inbox.persisted_seq
  disk,         \* the two files
  writes,       \* the persists of the running request still to be done
  reply,        \* what the running request will answer
  clock,        \* host clock
  restarts,
  shown,        \* history: how often (up to twice) an event was handed out as new, from
                \* the first read on that marked it
  told,         \* history: highest high_water any session was given
  acked,        \* history: processed marks a session was told are recorded
  capped        \* history: events evicted by the entry cap

content == <<policy, entries, known, nextSeq>>
history == <<shown, told, acked, capped>>
vars == <<policy, entries, known, nextSeq, persistedSeq, disk, writes, reply, clock,
          restarts, shown, told, acked, capped>>

-----------------------------------------------------------------------------
(* Entries and their handling state *)

Marker == Sessions \cup {Nobody}
Entry == [seq : Nat, event : Events, seenBy : Marker, doneBy : Marker]

StateOf(e) == IF e.doneBy # Nobody THEN "processed"
              ELSE IF e.seenBy # Nobody THEN "seen" ELSE "new"

IsNew(e) == StateOf(e) = "new"

OpenStates == IF policy.track_processed THEN {"new", "seen"} ELSE {"new"}

\* Slip: the next number instead of the last one.
HighWaterAhead == nextSeq

HighWater == nextSeq - 1

EventsOf(E) == {e.event : e \in E}

\* The answer of a request: entries handed out (as they were when read),
\* those of them handed out as new, whether they were marked seen
\* (mark_read), high_water; or the processed marks made.
NoReply == [kind |-> "none"]
ReadReply(S, marking) ==
  [kind |-> "entries", shown |-> S, fresh |-> {e \in S : IsNew(e)}, marking |-> marking,
   high |-> HighWater]
MarkReply(M) == [kind |-> "marked", marks |-> M]

-----------------------------------------------------------------------------
(* InboxPolicy enforcement *)

Cutoff(now) == IF policy.max_age = 0 \/ now < policy.max_age THEN 0 ELSE now - policy.max_age

Allowed(ev) == policy.accept_media \/ ev \notin MediaEvents

InAge(ev, now) == Ts[ev] >= Cutoff(now)

\* Slip: eviction in order of arrival.
BeforeByArrival(e, f) == e.seq < f.seq

\* Eviction order: processed before seen under the soft cap, then the oldest
\* server timestamp, then the lowest seq.
Before(e, f) ==
  LET late(x) == ~policy.hard_cap /\ StateOf(x) = "seen"
  IN  \/ ~late(e) /\ late(f)
      \/ /\ late(e) = late(f)
         /\ \/ Ts[e.event] < Ts[f.event]
            \/ Ts[e.event] = Ts[f.event] /\ e.seq < f.seq

\* Slip: the soft cap evicts like the hard one.
EvictableAll(E) == E

Evictable(E) == {e \in E : policy.hard_cap \/ ~IsNew(e)}

\* Slip: the cap is reached one entry late.
CapVictimsLate(E) ==
  {e \in Evictable(E) :
     Cardinality({f \in Evictable(E) : Before(f, e)}) + policy.max_entries + 1 < Cardinality(E)}

\* The `excess` first evictable entries.
CapVictims(E) ==
  {e \in Evictable(E) :
     Cardinality({f \in Evictable(E) : Before(f, e)}) + policy.max_entries < Cardinality(E)}

Retained(E, now) == {e \in E : Allowed(e.event) /\ InAge(e.event, now)}

Prune(E, now) == Retained(E, now) \ CapVictims(Retained(E, now))

\* Slip: an id is forgotten at the cutoff, its entry only past it.
RememberStrict(K, now) == IF policy.max_age = 0 THEN K ELSE {ev \in K : Ts[ev] > Cutoff(now)}

Remember(K, now) == IF policy.max_age = 0 THEN K ELSE {ev \in K : InAge(ev, now)}

\* persist() is called only when something changed.
Save(old, new) == IF old = new THEN <<>> ELSE <<new>>

-----------------------------------------------------------------------------
(* Requests.  Each runs under the inbox lock. *)

Free == writes = <<>> /\ reply = NoReply

\* Slip: a request reads the inbox as the last message left it.
EnforcedNot == entries

\* The enforcement every request starts with.
Enforced == Prune(entries, clock)
NoteCapped(E) == capped' = capped \cup EventsOf(CapVictims(Retained(E, clock)))

Ingest(ev) ==
  LET e     == [seq |-> nextSeq, event |-> ev, seenBy |-> Nobody, doneBy |-> Nobody]
      grown == entries \cup {e}
      kept  == Prune(grown, clock)
  IN  /\ Free /\ nextSeq <= MaxSeq
      /\ ev \notin known /\ Allowed(ev) /\ InAge(ev, clock)
      /\ nextSeq' = nextSeq + 1
      /\ known' = Remember(known \cup {ev}, clock)
      /\ entries' = kept
      /\ writes' = IF e \in kept \/ kept # grown THEN <<kept>> ELSE <<>>
      /\ NoteCapped(grown)
      /\ UNCHANGED <<policy, persistedSeq, disk, reply, clock, restarts, shown, told, acked>>

\* Enforce, then turn the enforced entries into `after`: each of the two
\* persists if it changed something.
Rewrite(after) ==
  /\ entries' = after
  /\ known' = Remember(known, clock)
  /\ writes' = Save(entries, Enforced) \o Save(Enforced, after)
  /\ NoteCapped(entries)
  /\ UNCHANGED <<policy, nextSeq, persistedSeq, disk, clock, restarts, shown, told, acked>>

Enforce == Free /\ Rewrite(Enforced) /\ UNCHANGED reply

\* Inbox::query: entries in one of the states, after the cursor, newest kept.
Query(E, states, since, limit) ==
  LET match == {e \in E : StateOf(e) \in states /\ e.seq > since}
  IN  {e \in match : Cardinality({f \in match : f.seq > e.seq}) < limit}

MarkSeen(E, S, s) ==
  {IF e \in S /\ IsNew(e) THEN [e EXCEPT !.seenBy = s] ELSE e : e \in E}

\* Slip: what is handed out is marked in memory only.
HandOutUnsaved(s, states, since, limit, marking) ==
  LET S == Query(Enforced, states, since, limit)
  IN  /\ entries' = IF marking THEN MarkSeen(Enforced, S, s) ELSE Enforced
      /\ writes' = Save(entries, Enforced)
      /\ reply' = ReadReply(S, marking)
      /\ known' = Remember(known, clock) /\ NoteCapped(entries)
      /\ UNCHANGED <<policy, nextSeq, persistedSeq, disk, clock, restarts, shown, told, acked>>

\* Query what is left, mark what is handed out, answer.
HandOut(s, states, since, limit, marking) ==
  LET S == Query(Enforced, states, since, limit)
  IN  /\ Rewrite(IF marking THEN MarkSeen(Enforced, S, s) ELSE Enforced)
      /\ reply' = ReadReply(S, marking)

ReadInbox(s) ==
  /\ Free
  /\ \E unreadOnly, marking \in BOOLEAN, since \in 0..HighWater, limit \in {1, MaxSeq} :
       HandOut(s, IF unreadOnly THEN OpenStates ELSE {"new", "seen", "processed"},
               since, limit, marking)

\* One round of wait_for_reply that finds something.  A round that finds
\* nothing is an Enforce.
WaitForReply(s) ==
  /\ Free
  /\ \E since \in 0..HighWater :
       /\ Query(Enforced, {"new"}, since, MaxSeq) # {}
       /\ HandOut(s, {"new"}, since, MaxSeq, TRUE)

\* The seqs a mark_processed names and, with up_to_seq, what is open up to it.
Targets(E, seqs, upTo) ==
  seqs \cup {e.seq : e \in {x \in E : StateOf(x) \in OpenStates /\ x.seq <= upTo}}

\* Slip: the last mark wins.
MarkDoneAgain(E, T, s) == {IF e.seq \in T THEN [e EXCEPT !.doneBy = s] ELSE e : e \in E}

MarkDone(E, T, s) ==
  {IF e.seq \in T /\ e.doneBy = Nobody THEN [e EXCEPT !.doneBy = s] ELSE e : e \in E}

MarkProcessed(s) ==
  /\ Free /\ policy.track_processed
  /\ \E n, upTo \in 0..HighWater :
       LET T     == Targets(Enforced, {n} \ {0}, upTo)
           fresh == {e \in Enforced : e.seq \in T /\ e.doneBy = Nobody}
       IN  /\ T # {}
           /\ Rewrite(MarkDone(Enforced, T, s))
           /\ reply' = MarkReply({[seq |-> e.seq, by |-> s] : e \in fresh})

-----------------------------------------------------------------------------
(* try_persist: inbox.seq if it moved, then inbox.jsonl *)

WriteSeq ==
  /\ writes # <<>> /\ persistedSeq # HighWater
  /\ disk' = [disk EXCEPT !.seq = HighWater]
  /\ persistedSeq' = HighWater
  /\ UNCHANGED <<content, writes, reply, clock, restarts, history>>

WriteEntries ==
  /\ writes # <<>> /\ persistedSeq = HighWater
  /\ disk' = [disk EXCEPT !.entries = Head(writes)]
  /\ writes' = Tail(writes)
  /\ UNCHANGED <<content, persistedSeq, reply, clock, restarts, history>>

\* Either write fails: the error is logged and the request goes on.
WriteFails ==
  /\ policy \in DiskFaults /\ writes # <<>>
  /\ writes' = Tail(writes)
  /\ UNCHANGED <<content, persistedSeq, disk, reply, clock, restarts, history>>

\* What an answer adds to `shown`: what it hands out as new, if it marked it or
\* an earlier answer did.
Counts(ev) ==
  /\ ev \in EventsOf(reply.fresh) /\ shown[ev] < 2
  /\ reply.marking \/ shown[ev] > 0

\* The request is over: its answer reaches the session.
Answer ==
  /\ writes = <<>> /\ reply # NoReply
  /\ reply' = NoReply
  /\ IF reply.kind = "entries"
     THEN /\ shown' = [ev \in Events |->
                         shown[ev] + IF Counts(ev) THEN 1 ELSE 0]
          /\ told' = IF reply.high > told THEN reply.high ELSE told
          /\ UNCHANGED acked
     ELSE acked' = acked \cup reply.marks /\ UNCHANGED <<shown, told>>
  /\ UNCHANGED <<content, persistedSeq, disk, writes, clock, restarts, capped>>

-----------------------------------------------------------------------------
(* Crash, restart (load_with) and time *)

\* Slip: numbering restarts from the entries that are left.
SeqOfEntries == CHOOSE n \in {0} \cup {e.seq : e \in disk.entries} :
                  \A e \in disk.entries : e.seq <= n

\* The highest number on disk, in either file.
SeqOnDisk == CHOOSE n \in {disk.seq} \cup {e.seq : e \in disk.entries} :
               \A m \in {disk.seq} \cup {e.seq : e \in disk.entries} : m <= n

Restart ==
  /\ restarts < MaxRestarts
  /\ restarts' = restarts + 1
  /\ entries' = Prune(disk.entries, clock)
  /\ known' = Remember(EventsOf(disk.entries), clock)
  /\ nextSeq' = SeqOnDisk + 1
  /\ persistedSeq' = disk.seq
  /\ writes' = Save(disk.entries, Prune(disk.entries, clock))
  /\ reply' = NoReply
  /\ NoteCapped(disk.entries)
  \* An event the cap evicted is forgotten with the process (its id was only
  \* in memory): what is promised about it starts over.
  /\ shown' = [ev \in Events |->
                 IF ev \in capped /\ ev \notin EventsOf(disk.entries) THEN 0 ELSE shown[ev]]
  /\ UNCHANGED <<policy, disk, clock, told, acked>>

\* The clock matters to the age bound alone.
Tick ==
  /\ policy.max_age # 0 /\ clock < MaxClock
  /\ clock' = clock + 1
  /\ UNCHANGED <<content, persistedSeq, disk, writes, reply, restarts, history>>

-----------------------------------------------------------------------------
Init ==
  /\ policy \in Policies
  /\ entries = {} /\ known = {} /\ nextSeq = 1 /\ persistedSeq = 0
  /\ disk = [seq |-> 0, entries |-> {}]
  /\ writes = <<>> /\ reply = NoReply
  /\ clock = 0 /\ restarts = 0
  /\ shown = [ev \in Events |-> 0] /\ told = 0 /\ acked = {} /\ capped = {}

Request == \/ \E ev \in Events : Ingest(ev)
           \/ Enforce
           \/ \E s \in Sessions : ReadInbox(s)
           \/ \E s \in Sessions : WaitForReply(s)
           \/ \E s \in Sessions : MarkProcessed(s)

Persist == WriteSeq \/ WriteEntries \/ WriteFails

Next == Request \/ Persist \/ Answer \/ Restart \/ Tick

Spec == Init /\ [][Next]_vars

-----------------------------------------------------------------------------
(* Properties *)

EntrySets == SUBSET [seq : 1..MaxSeq, event : Events, seenBy : Marker, doneBy : Marker]

\* The shape of every variable (one type invariant for the module).
TypeOK ==
  /\ policy \in Policies
  /\ entries \in EntrySets /\ known \subseteq Events
  /\ nextSeq \in 1..(MaxSeq + 1) /\ persistedSeq \in 0..MaxSeq
  /\ disk \in [seq : 0..MaxSeq, entries : EntrySets]
  /\ writes \in Seq(EntrySets)
  /\ \/ reply = NoReply
     \/ reply \in [kind : {"entries"}, shown : EntrySets, fresh : EntrySets,
                   marking : BOOLEAN, high : 0..MaxSeq]
     \/ reply \in [kind : {"marked"}, marks : SUBSET [seq : 1..MaxSeq, by : Sessions]]
  /\ clock \in 0..MaxClock /\ restarts \in 0..MaxRestarts
  /\ shown \in [Events -> Nat] /\ told \in 0..MaxSeq
  /\ acked \subseteq [seq : 1..MaxSeq, by : Sessions] /\ capped \subseteq Events

\* No event is in the inbox twice, in memory or on disk, however often live
\* sync and the backfills offer it and wherever a crash falls.
OneEntryPerEvent ==
  \A E \in {entries, disk.entries} : \A e, f \in E : e.event = f.event => e = f

\* "seq never goes backwards" (module doc): a number a session was given as a
\* cursor is never handed out again, so a wait on it cannot miss a message.
\* Needs the write order of try_persist, both sources of load_with, and files
\* that can be written.
CursorNeverReused == policy \in DiskFaults \/ told < nextSeq

\* `new` tells a session that no other session was shown the message: once a
\* read that marks (mark_read, every wait_for_reply) handed an event out as new,
\* no later answer, marking or not, hands it out as new, across restarts too,
\* unless the cap evicted it and a restart forgot it, or the file kept no mark
\* of it.  A read with mark_read off leaves what it shows as it is: before the
\* first marking read an event may be shown as new any number of times.
NotNewOnceMarked == policy \in DiskFaults \/ \A ev \in Events : shown[ev] <= 1

\* Stronger, and false (in no run): "`new` tells this session that no other
\* session has looked at it yet" (engine.rs), whatever its reads mark.
NewMeansUnshown ==
  [][reply.kind = "entries" /\ reply' = NoReply /\ restarts' = restarts
     => \A e \in entries' : e.event \in EventsOf(reply.shown) => ~IsNew(e)]_vars

\* A processed mark is final once its session was told so: no later request
\* and no restart may undo it or give it to another session (if its file can be
\* written).
ProcessedMarkKept ==
  policy \in DiskFaults \/ \A m \in acked : \A e \in entries : e.seq = m.seq => e.doneBy = m.by

\* With the hard cap the inbox never holds more than max_entries.
HardCapHolds == policy.hard_cap => Cardinality(entries) <= policy.max_entries

\* Without the hard cap a running daemon drops an entry nobody was shown only
\* when it is past the age bound.
UnreadDroppedOnlyByAge ==
  [][\A e \in entries :
       ~policy.hard_cap /\ IsNew(e) /\ e.seq \notin {f.seq : f \in entries'}
         /\ restarts' = restarts
       => ~InAge(e.event, clock)]_vars

\* Nothing past the age bound is handed out, however long after the last
\* message or timer the read comes.
NothingExpiredHandedOut ==
  [][reply' # reply /\ reply'.kind = "entries"
     => \A e \in reply'.shown : InAge(e.event, clock)]_vars

\* "(stateless, so a re-offered evicted event is evicted again)": ingesting an
\* event the cap evicted before displaces nothing else (while files are written).
ReofferedStaysEvicted ==
  [][\A ev \in capped :
       policy.hard_cap /\ policy \notin DiskFaults
         /\ ev \notin EventsOf(entries) /\ ev \in EventsOf(entries')
         /\ restarts' = restarts
       => \A e \in entries : InAge(e.event, clock) => e \in entries']_vars

=============================================================================
