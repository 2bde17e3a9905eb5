----------------------------- MODULE InboxProofs -----------------------------
(***************************************************************************)
(* Theorems about Inbox, for every set of events and sessions, every        *)
(* policy and every bound.                                                  *)
(*                                                                         *)
(* The inductive invariant relates the three places an entry lives in: the  *)
(* inbox in memory, the file, and the contents a running request still has  *)
(* to write.  It is the conjunction of TypeOK and                           *)
(*   Numbering  - no number in any of them exceeds the high-water mark, and *)
(*                none on disk exceeds the mark on disk (the write order);  *)
(*   Uniqueness - events and numbers identify entries in each of them, and  *)
(*                every event held is known to the duplicate check;         *)
(*   Durability - once a request is answered, what it answered is on disk   *)
(*                (in an inbox whose file writes do not fail);             *)
(*   Once       - an event that was shown as new is new in none of them and *)
(*                is not taken in again; what a running read is about to    *)
(*                show was not shown before;                                *)
(*   Lawful     - each of them holds only what the policy accepts;          *)
(*   Displaced  - what the hard cap evicted and one of them lacks has       *)
(*                max_entries newer events in it (if timestamps differ).    *)
(***************************************************************************)
EXTENDS Inbox, SequenceTheorems, FiniteSetTheorems, TLAPS

\* Every set of entries the inbox is, was written as, or will be written as.
Snapshots == {entries, disk.entries} \cup {writes[i] : i \in DOMAIN writes}

Below(E, n) == \A e \in E : e.seq <= n

Identified(E) == \A e, f \in E : e.event = f.event \/ e.seq = f.seq => e = f

Honours(E, M) == \A m \in M : \A e \in E : e.seq = m.seq => e.doneBy = m.by

Marks == [seq : 1..MaxSeq, by : Sessions]

Numbering ==
  /\ persistedSeq = disk.seq
  /\ disk.seq <= HighWater
  /\ Below(disk.entries, disk.seq)
  /\ \A E \in Snapshots : Below(E, HighWater)

Uniqueness ==
  /\ \A E \in Snapshots : Identified(E)
  /\ EventsOf(entries) \subseteq known

Durability ==
  /\ writes = <<>> => disk.seq = HighWater /\ disk.entries = entries
  /\ writes # <<>> => writes[Len(writes)] = entries
  /\ told <= disk.seq
  /\ reply.kind = "entries" => reply.high <= HighWater
  /\ \A m \in acked : m.seq <= disk.seq
  /\ \A E \in Snapshots : Honours(E, acked)
  /\ reply.kind = "marked" => /\ \A m \in reply.marks : m.seq <= HighWater
                              /\ Honours(entries, reply.marks)

\* A comes from B by dropping entries, marking them seen, and marking
\* processed those that were not: what was shown stays shown.
Inherits(A, B) ==
  /\ A \in EntrySets
  /\ \A a \in A : \E b \in B : /\ a.seq = b.seq /\ a.event = b.event
                               /\ b.doneBy # Nobody => a.doneBy = b.doneBy
                               /\ ~IsNew(b) => ~IsNew(a)
  /\ Identified(B) => Identified(A)

-----------------------------------------------------------------------------
(* What the operators of the model return *)

\* Enforcing the policy only drops entries, and drops every expired one.
LEMMA PruneSubset ==
  ASSUME NEW E, NEW now
  PROVE  /\ Prune(E, now) \subseteq E
         /\ \A e \in Prune(E, now) : InAge(e.event, now)
BY DEF Prune, Retained

LEMMA PruneInherits ==
  ASSUME NEW E \in EntrySets, NEW now
  PROVE  Inherits(Prune(E, now), E)
BY PruneSubset, SMT DEF Inherits, Identified, EntrySets

\* Marking a set of entries seen keeps who they are and whether they are done.
LEMMA MarkSeenInherits ==
  ASSUME NEW E \in EntrySets, NEW S, NEW s \in Sessions
  PROVE  Inherits(MarkSeen(E, S, s), E)
<1> DEFINE f(e) == IF e \in S /\ IsNew(e) THEN [e EXCEPT !.seenBy = s] ELSE e
<1>1. MarkSeen(E, S, s) = {f(e) : e \in E}
  BY DEF MarkSeen
<1>2. \A e \in E : /\ f(e) \in [seq : 1..MaxSeq, event : Events, seenBy : Marker, doneBy : Marker]
                   /\ f(e).seq = e.seq /\ f(e).event = e.event /\ f(e).doneBy = e.doneBy
                   /\ ~IsNew(e) => ~IsNew(f(e))
  BY DEF EntrySets, Marker
<1> HIDE DEF f
<1>3. Identified(E) => Identified(MarkSeen(E, S, s))
  BY <1>1, <1>2 DEF Identified
<1>4. MarkSeen(E, S, s) \in EntrySets
  BY <1>1, <1>2 DEF EntrySets
<1> QED BY <1>1, <1>2, <1>3, <1>4 DEF Inherits

\* Marking processed never touches a mark that is there (mark_processed:
\* "an entry already processed keeps its first mark").
LEMMA MarkDoneInherits ==
  ASSUME NEW E \in EntrySets, NEW T, NEW s \in Sessions
  PROVE  Inherits(MarkDone(E, T, s), E)
<1> DEFINE f(e) == IF e.seq \in T /\ e.doneBy = Nobody THEN [e EXCEPT !.doneBy = s] ELSE e
<1>1. MarkDone(E, T, s) = {f(e) : e \in E}
  BY DEF MarkDone
<1>2. \A e \in E : /\ f(e) \in [seq : 1..MaxSeq, event : Events, seenBy : Marker, doneBy : Marker]
                   /\ f(e).seq = e.seq /\ f(e).event = e.event
                   /\ e.doneBy # Nobody => f(e).doneBy = e.doneBy
  BY DEF EntrySets, Marker
<1>n. \A e \in E : ~IsNew(e) => ~IsNew(f(e))
  <2>1. \A e \in E : f(e) = e \/ f(e).doneBy = s
    BY DEF EntrySets
  <2>2. s # Nobody
    BY InboxAssumption DEF InboxAssumption
  <2> HIDE DEF f
  <2> QED BY <2>1, <2>2 DEF IsNew, StateOf
<1> HIDE DEF f
<1>3. Identified(E) => Identified(MarkDone(E, T, s))
  BY <1>1, <1>2 DEF Identified
<1>4. MarkDone(E, T, s) \in EntrySets
  BY <1>1, <1>2 DEF EntrySets
<1> QED BY <1>1, <1>2, <1>n, <1>3, <1>4 DEF Inherits

LEMMA InheritsTransitive ==
  ASSUME NEW A, NEW B, NEW C, Inherits(A, B), Inherits(B, C)
  PROVE  Inherits(A, C)
BY DEF Inherits

\* What an inherited set of entries keeps of the one it comes from.
LEMMA InheritsKeeps ==
  ASSUME NEW A, NEW B, Inherits(A, B)
  PROVE  /\ EventsOf(A) \subseteq EventsOf(B)
         /\ \A n : Below(B, n) => Below(A, n)
         /\ \A M \in SUBSET Marks : Honours(B, M) => Honours(A, M)
         /\ Identified(B) => Identified(A)
BY InboxAssumption DEF Inherits, EventsOf, Below, Honours, Marks

\* The contents a request writes, in order: the last one is what it leaves in
\* memory, and it writes nothing only when it changed nothing.
Saved(a, b, c) == Save(a, b) \o Save(b, c)

LEMMA SavedTwice ==
  ASSUME NEW a \in EntrySets, NEW b \in EntrySets, NEW c \in EntrySets
  PROVE  /\ Saved(a, b, c) \in Seq(EntrySets)
         /\ \A i \in DOMAIN Saved(a, b, c) : Saved(a, b, c)[i] \in {b, c}
         /\ Saved(a, b, c) = <<>> => a = b /\ b = c
         /\ Saved(a, b, c) # <<>> => Saved(a, b, c)[Len(Saved(a, b, c))] = c
<1> USE DEF Saved
<1>1. CASE a = b /\ b = c
  BY <1>1 DEF Save
<1>2. CASE a # b /\ b = c
  BY <1>2 DEF Save
<1>3. CASE a = b /\ b # c
  BY <1>3 DEF Save
<1>4. CASE a # b /\ b # c
  <2>1. Save(a, b) = <<b>> /\ Save(b, c) = <<c>>
    BY <1>4 DEF Save
  <2>2. /\ <<b>> \o <<c>> \in Seq(EntrySets) /\ Len(<<b>> \o <<c>>) = 2
        /\ (<<b>> \o <<c>>)[1] = b /\ (<<b>> \o <<c>>)[2] = c
    OBVIOUS
  <2> QED BY <2>1, <2>2
<1> QED BY <1>1, <1>2, <1>3, <1>4

-----------------------------------------------------------------------------
(* Types, numbers and uniqueness *)

Structure == TypeOK /\ Numbering /\ Uniqueness

\* The entries the restart and every request start from.
LEMMA SnapshotTypes ==
  ASSUME Structure
  PROVE  /\ \A E \in Snapshots : E \in EntrySets /\ Identified(E) /\ Below(E, HighWater)
         /\ HighWater \in 0..MaxSeq /\ SeqOnDisk = disk.seq
<1>1. HighWater \in 0..MaxSeq
  BY InboxAssumption DEF Structure, TypeOK, HighWater
<1>2. \A i \in DOMAIN writes : writes[i] \in EntrySets
  BY DEF Structure, TypeOK
<1>3. SeqOnDisk = disk.seq
  <2> DEFINE N == {disk.seq} \cup {e.seq : e \in disk.entries}
  <2>1. disk.seq \in N /\ \A m \in N : m <= disk.seq
    BY DEF Structure, TypeOK, Numbering, Below
  <2>2. N \subseteq Nat
    BY DEF Structure, TypeOK, EntrySets
  <2>3. \A n \in N : (\A m \in N : m <= n) => n = disk.seq
    BY <2>1, <2>2
  <2> QED BY <2>1, <2>3 DEF SeqOnDisk
<1> QED BY <1>1, <1>2, <1>3 DEF Structure, TypeOK, Numbering, Uniqueness, Snapshots

\* A request that rewrites the inbox: what it leaves in memory and what it
\* writes are both inherited from what was there.
LEMMA RewriteKeeps ==
  ASSUME Structure, NEW after, Inherits(after, Enforced), Rewrite(after)
  PROVE  /\ Inherits(Enforced, entries) /\ Inherits(after, entries)
         /\ writes' \in Seq(EntrySets) /\ known' \subseteq Events
         /\ Snapshots' \subseteq {disk.entries, Enforced, after}
         /\ Numbering' /\ Uniqueness'
         /\ writes' = <<>> => entries = after /\ Enforced = after
         /\ writes' # <<>> => writes'[Len(writes')] = after
<1>1. entries \in EntrySets /\ Enforced \in EntrySets /\ after \in EntrySets
  BY PruneInherits DEF Structure, TypeOK, Enforced, Inherits
<1>2. Inherits(Enforced, entries)
  BY PruneInherits DEF Structure, TypeOK, Enforced
<1>3. Inherits(after, entries)
  BY <1>2, InheritsTransitive
<1>4. /\ writes' \in Seq(EntrySets)
      /\ \A i \in DOMAIN writes' : writes'[i] \in {Enforced, after}
      /\ writes' = <<>> => entries = Enforced /\ Enforced = after
      /\ writes' # <<>> => writes'[Len(writes')] = after
  <2>1. writes' = Saved(entries, Enforced, after)
    BY DEF Rewrite, Saved
  <2> QED BY <1>1, <2>1, SavedTwice
<1>5. entries' = after /\ disk' = disk
  BY DEF Rewrite
<1>6. Snapshots' \subseteq {disk.entries, Enforced, after}
  BY <1>4, <1>5 DEF Snapshots
<1>7. entries \in Snapshots /\ disk.entries \in Snapshots
  BY DEF Snapshots
<1>8. Numbering'
  <2>1. HighWater' = HighWater
    BY DEF Rewrite, HighWater
  <2>2. \A E \in {disk.entries, Enforced, after} : Below(E, HighWater)
    BY <1>2, <1>3, <1>7, InheritsKeeps, SnapshotTypes
  <2>3. \A E \in Snapshots' : Below(E, HighWater')
    BY <1>6, <2>1, <2>2
  <2> QED BY <1>5, <2>1, <2>3 DEF Numbering, Structure, Rewrite
<1>9. Uniqueness'
  <2>1. \A E \in {disk.entries, Enforced, after} : Identified(E)
    BY <1>2, <1>3, <1>7, InheritsKeeps, SnapshotTypes
  <2>2. EventsOf(after) \subseteq known'
    <3>1. EventsOf(after) \subseteq EventsOf(Enforced)
      BY InheritsKeeps
    <3>2. \A ev \in EventsOf(Enforced) : ev \in known /\ InAge(ev, clock)
      BY PruneSubset DEF EventsOf, Enforced, Structure, Uniqueness
    <3> QED BY <3>1, <3>2 DEF Rewrite, Remember
  <2> QED BY <1>5, <1>6, <2>1, <2>2 DEF Uniqueness
<1>10. known' \subseteq Events
  BY DEF Rewrite, Remember, Structure, TypeOK
<1> QED BY <1>2, <1>3, <1>4, <1>6, <1>8, <1>9, <1>10

LEMMA StructureInit == Init => Structure
<1> SUFFICES ASSUME Init PROVE Structure
  OBVIOUS
<1>1. TypeOK
  BY InboxAssumption DEF Init, TypeOK, EntrySets
<1>2. Snapshots = {{}}
  BY DEF Init, Snapshots
<1>3. Numbering /\ Uniqueness
  BY <1>2 DEF Init, Numbering, Uniqueness, Below, Identified, HighWater, EventsOf
<1> QED BY <1>1, <1>3 DEF Structure

\* A new entry gets a number above all others and an event nobody holds.
LEMMA StructureIngest ==
  ASSUME Structure, NEW ev \in Events, Ingest(ev)
  PROVE  Structure'
<1> DEFINE e     == [seq |-> nextSeq, event |-> ev, seenBy |-> Nobody, doneBy |-> Nobody]
           grown == entries \cup {e}
           kept  == Prune(grown, clock)
<1>1. /\ entries' = kept /\ nextSeq' = nextSeq + 1 /\ nextSeq <= MaxSeq /\ ev \notin known
      /\ known' = Remember(known \cup {ev}, clock)
      /\ writes' = IF e \in kept \/ kept # grown THEN <<kept>> ELSE <<>>
      /\ capped' = capped \cup EventsOf(CapVictims(Retained(grown, clock)))
      /\ UNCHANGED <<policy, persistedSeq, disk, reply, clock, restarts, shown, told, acked>>
  BY DEF Ingest, NoteCapped
<1>2. nextSeq \in 1..MaxSeq /\ e \in [seq : 1..MaxSeq, event : Events, seenBy : Marker, doneBy : Marker]
  BY <1>1, InboxAssumption DEF Structure, TypeOK, Marker
<1>3. grown \in EntrySets /\ Identified(grown)
  <2>1. \A f \in entries : f.seq \in Nat /\ f.seq < nextSeq /\ f.event # ev
    <3>1. entries \in EntrySets /\ Below(entries, nextSeq - 1)
      BY SnapshotTypes DEF Snapshots, HighWater
    <3>2. \A f \in entries : f.seq \in Nat /\ f.seq <= nextSeq - 1
      BY <3>1 DEF EntrySets, Below
    <3>3. \A f \in entries : f.event \in known
      BY DEF Structure, Uniqueness, EventsOf
    <3> QED BY <1>1, <1>2, <3>2, <3>3
  <2>2. grown \in EntrySets
    BY <1>2 DEF Structure, TypeOK, EntrySets
  <2>3. \A f, g \in entries : f.event = g.event \/ f.seq = g.seq => f = g
    BY DEF Structure, Uniqueness, Snapshots, Identified
  <2>4. e.seq = nextSeq /\ e.event = ev
    OBVIOUS
  <2> HIDE DEF e
  <2>5. Identified(grown)
    BY <1>2, <2>1, <2>3, <2>4 DEF Identified
  <2> QED BY <2>2, <2>5
<1> HIDE DEF e
<1>4. kept \in EntrySets /\ Identified(kept) /\ kept \subseteq grown
  BY <1>3, PruneInherits, PruneSubset, InheritsKeeps DEF Inherits
<1>5. \A f \in kept : InAge(f.event, clock)
  BY PruneSubset
<1>6. capped' \subseteq Events
  <2>1. \A f \in CapVictims(Retained(grown, clock)) : f \in grown
    BY DEF CapVictims, Evictable, Retained
  <2>2. \A f \in grown : f.event \in Events
    BY <1>3 DEF EntrySets
  <2>3. EventsOf(CapVictims(Retained(grown, clock))) \subseteq Events
    BY <2>1, <2>2 DEF EventsOf
  <2> QED BY <1>1, <2>3 DEF Structure, TypeOK
<1>7. \A f \in grown : f = e \/ f \in entries
  OBVIOUS
<1>8. writes' \in {<<kept>>, <<>>}
  BY <1>1
<1> HIDE DEF kept, grown
<1>9. HighWater' = nextSeq /\ HighWater = nextSeq - 1
  BY <1>1, <1>2 DEF HighWater
<1>10. Snapshots' \subseteq {disk.entries, kept}
  <2>1. \A i \in DOMAIN writes' : writes'[i] = kept
    BY <1>8
  <2>2. {writes'[i] : i \in DOMAIN writes'} \subseteq {kept}
    BY <2>1
  <2> QED BY <1>1, <2>2 DEF Snapshots
<1>11. TypeOK'
  <2>1. writes' \in Seq(EntrySets)
    <3>1. <<kept>> \in Seq(EntrySets)
      BY <1>4
    <3>2. <<>> \in Seq(EntrySets)
      OBVIOUS
    <3>3. CASE writes' = <<kept>>
      BY <3>1, <3>3
    <3>4. CASE writes' = <<>>
      BY <3>2, <3>4
    <3> QED BY <1>8, <3>3, <3>4
  <2>2. known' \subseteq Events
    BY <1>1 DEF Structure, TypeOK, Remember
  <2>3. nextSeq' \in 1..(MaxSeq + 1)
    BY <1>1, <1>2, InboxAssumption
  <2> QED BY <1>1, <1>4, <1>6, <2>1, <2>2, <2>3 DEF Structure, TypeOK
<1>12. Numbering'
  <2>1. \A E \in {entries, disk.entries} : E \in EntrySets /\ Below(E, nextSeq - 1)
    BY <1>9, SnapshotTypes DEF Snapshots
  <2>2. \A E \in {entries, disk.entries} : \A f \in E : f.seq <= nextSeq
    BY <1>2, <2>1 DEF Below, EntrySets
  <2>3. e.seq = nextSeq /\ nextSeq <= nextSeq
    BY <1>2 DEF e
  <2>4. Below(kept, nextSeq) /\ Below(disk.entries, nextSeq)
    BY <1>4, <1>7, <2>2, <2>3 DEF Below
  <2>5. \A E \in Snapshots' : Below(E, HighWater')
    BY <1>9, <1>10, <2>4
  <2> QED BY <1>1, <1>2, <1>9, <2>5 DEF Numbering, Structure, TypeOK
<1>13. Uniqueness'
  <2>1. Identified(disk.entries)
    BY SnapshotTypes DEF Snapshots
  <2>2. \A f \in kept : f.event \in known \cup {ev} /\ InAge(f.event, clock)
    BY <1>4, <1>5, <1>7 DEF Structure, Uniqueness, EventsOf, e
  <2>3. EventsOf(kept) \subseteq known'
    BY <1>1, <2>2 DEF EventsOf, Remember
  <2> QED BY <1>1, <1>4, <1>10, <2>1, <2>3 DEF Uniqueness
<1> QED BY <1>11, <1>12, <1>13 DEF Structure

ReplyType ==
  {NoReply}
    \cup [kind : {"entries"}, shown : EntrySets, fresh : EntrySets,
            marking : BOOLEAN, high : 0..MaxSeq]
    \cup [kind : {"marked"}, marks : SUBSET Marks]

LEMMA StructureRewrite ==
  ASSUME Structure, NEW after, Inherits(after, Enforced), Rewrite(after), reply' \in ReplyType
  PROVE  Structure'
<1>1. /\ writes' \in Seq(EntrySets) /\ known' \subseteq Events /\ Numbering' /\ Uniqueness'
      /\ entries' \in EntrySets
  BY RewriteKeeps DEF Rewrite, Inherits
<1>2. capped' \subseteq Events
  <2>1. \A e \in CapVictims(Retained(entries, clock)) : e.event \in Events
    BY DEF CapVictims, Evictable, Retained, Structure, TypeOK, EntrySets
  <2>2. EventsOf(CapVictims(Retained(entries, clock))) \subseteq Events
    BY <2>1 DEF EventsOf
  <2> QED BY <2>2 DEF Rewrite, NoteCapped, Structure, TypeOK
<1>3. UNCHANGED <<policy, nextSeq, persistedSeq, disk, clock, restarts, shown, told, acked>>
  BY DEF Rewrite
<1>4. TypeOK'
  BY <1>1, <1>2, <1>3 DEF Structure, TypeOK, ReplyType, Marks
<1> QED BY <1>1, <1>4 DEF Structure

LEMMA EnforcedTypes ==
  ASSUME Structure
  PROVE  Enforced \in EntrySets /\ Inherits(Enforced, Enforced)
BY PruneInherits DEF Structure, TypeOK, Enforced, Inherits

\* What a read leaves in memory and answers.
LEMMA HandOutKeeps ==
  ASSUME Structure, NEW s \in Sessions, NEW states, NEW since, NEW limit,
         NEW marking \in BOOLEAN, HandOut(s, states, since, limit, marking)
  PROVE  \E after : /\ Inherits(after, Enforced) /\ Rewrite(after)
                    /\ reply'.kind = "entries" /\ reply'.high = HighWater /\ reply' \in ReplyType
<1> DEFINE S == Query(Enforced, states, since, limit)
           after == IF marking THEN MarkSeen(Enforced, S, s) ELSE Enforced
<1>1. Inherits(after, Enforced)
  BY EnforcedTypes, MarkSeenInherits
<1>2. Rewrite(after) /\ reply' = ReadReply(S, marking)
  BY DEF HandOut
<1>3. S \subseteq Enforced
  BY DEF Query
<1> HIDE DEF S
<1>4. S \in EntrySets /\ {e \in S : IsNew(e)} \in EntrySets
  BY <1>3, EnforcedTypes DEF EntrySets
<1>5. /\ reply'.kind = "entries" /\ reply'.high = HighWater /\ reply' \in ReplyType
  BY <1>2, <1>4, SnapshotTypes DEF ReadReply, ReplyType
<1> QED BY <1>1, <1>2, <1>5

LEMMA ReadKeeps ==
  ASSUME Structure, NEW s \in Sessions, ReadInbox(s) \/ WaitForReply(s)
  PROVE  \E after : /\ Inherits(after, Enforced) /\ Rewrite(after)
                    /\ reply'.kind = "entries" /\ reply'.high = HighWater /\ reply' \in ReplyType
<1>1. CASE ReadInbox(s)
  <2>1. PICK unreadOnly \in BOOLEAN, marking \in BOOLEAN, since \in 0..HighWater,
             limit \in {1, MaxSeq} :
          HandOut(s, IF unreadOnly THEN OpenStates ELSE {"new", "seen", "processed"},
                  since, limit, marking)
    BY <1>1 DEF ReadInbox
  <2> QED BY <2>1, HandOutKeeps
<1>2. CASE WaitForReply(s)
  <2>1. PICK since : HandOut(s, {"new"}, since, MaxSeq, TRUE)
    BY <1>2 DEF WaitForReply
  <2> QED BY <2>1, HandOutKeeps
<1> QED BY <1>1, <1>2

LEMMA MarkProcessedKeeps ==
  ASSUME Structure, NEW s \in Sessions, MarkProcessed(s)
  PROVE  \E after : /\ Inherits(after, Enforced) /\ Rewrite(after)
                    /\ reply'.kind = "marked" /\ reply' \in ReplyType
                    /\ \A m \in reply'.marks : m.seq <= HighWater
                    /\ Honours(after, reply'.marks)
<1>1. PICK T : /\ Rewrite(MarkDone(Enforced, T, s))
               /\ reply' = MarkReply({[seq |-> e.seq, by |-> s] :
                             e \in {e \in Enforced : e.seq \in T /\ e.doneBy = Nobody}})
  BY DEF MarkProcessed
<1> DEFINE fresh == {e \in Enforced : e.seq \in T /\ e.doneBy = Nobody}
           marks == {[seq |-> e.seq, by |-> s] : e \in fresh}
<1>2. Inherits(MarkDone(Enforced, T, s), Enforced)
  BY EnforcedTypes, MarkDoneInherits
<1>3. \A e \in Enforced : e.seq \in 1..MaxSeq /\ e.seq <= HighWater
  <2>1. Enforced \subseteq entries /\ entries \in Snapshots
    BY PruneSubset DEF Enforced, Snapshots
  <2> QED BY <2>1, SnapshotTypes DEF EntrySets, Below
<1>4. marks \in SUBSET Marks /\ \A m \in marks : m.seq <= HighWater
  BY <1>3 DEF Marks
<1>5. Honours(MarkDone(Enforced, T, s), marks)
  <2>1. Identified(Enforced)
    BY PruneInherits, SnapshotTypes, InheritsKeeps DEF Enforced, Snapshots
  <2>2. ASSUME NEW m \in marks, NEW d \in MarkDone(Enforced, T, s), d.seq = m.seq
        PROVE  d.doneBy = m.by
    <3>1. PICK e \in fresh : m = [seq |-> e.seq, by |-> s]
      OBVIOUS
    <3>2. PICK f \in Enforced :
            d = IF f.seq \in T /\ f.doneBy = Nobody THEN [f EXCEPT !.doneBy = s] ELSE f
      BY DEF MarkDone
    <3>3. f \in [seq : 1..MaxSeq, event : Events, seenBy : Marker, doneBy : Marker]
      BY EnforcedTypes DEF EntrySets
    <3>4. f = e
      BY <2>1, <2>2, <3>1, <3>2, <3>3 DEF Identified
    <3> QED BY <3>1, <3>2, <3>3, <3>4
  <2> QED BY <2>2 DEF Honours
<1>6. reply' = [kind |-> "marked", marks |-> marks]
  BY <1>1 DEF MarkReply
<1> HIDE DEF marks
<1>7. /\ reply'.kind = "marked" /\ reply' \in ReplyType
      /\ \A m \in reply'.marks : m.seq <= HighWater
      /\ Honours(MarkDone(Enforced, T, s), reply'.marks)
  BY <1>4, <1>5, <1>6 DEF ReplyType
<1> QED BY <1>1, <1>2, <1>7

\* A file write changes no number in memory; what reaches the file is one of
\* the snapshots, after the mark on disk has caught up.
LEMMA StructurePersist ==
  ASSUME Structure, Persist
  PROVE  Structure'
<1>1. /\ UNCHANGED <<content, reply, clock, restarts, history>>
      /\ writes \in Seq(EntrySets)
      /\ \/ disk' = [disk EXCEPT !.seq = HighWater] /\ persistedSeq' = HighWater /\ writes' = writes
         \/ /\ writes # <<>> /\ persistedSeq = HighWater
            /\ disk' = [disk EXCEPT !.entries = Head(writes)]
            /\ writes' = Tail(writes) /\ persistedSeq' = persistedSeq
         \/ writes # <<>> /\ writes' = Tail(writes) /\ UNCHANGED <<disk, persistedSeq>>
  BY DEF Persist, WriteSeq, WriteEntries, WriteFails, Structure, TypeOK
<1>2. disk \in [seq : 0..MaxSeq, entries : EntrySets] /\ HighWater \in 0..MaxSeq
  BY SnapshotTypes DEF Structure, TypeOK
<1>3. writes # <<>> => /\ Head(writes) = writes[1] /\ 1 \in DOMAIN writes
                       /\ \A i \in DOMAIN Tail(writes) : /\ i + 1 \in DOMAIN writes
                                                         /\ Tail(writes)[i] = writes[i + 1]
                       /\ Tail(writes) \in Seq(EntrySets)
  BY <1>1
<1>4. writes # <<>> => Head(writes) \in Snapshots
                       /\ \A i \in DOMAIN Tail(writes) : Tail(writes)[i] \in Snapshots
  BY <1>3 DEF Snapshots
<1>5. Snapshots' \subseteq Snapshots /\ disk'.entries \in Snapshots
  <2>1. entries \in Snapshots /\ disk.entries \in Snapshots /\ \A i \in DOMAIN writes : writes[i] \in Snapshots
    BY DEF Snapshots
  <2>2. disk'.entries \in Snapshots
    BY <1>1, <1>2, <1>4, <2>1
  <2>3. \A i \in DOMAIN writes' : writes'[i] \in Snapshots
    BY <1>1, <1>4, <2>1
  <2> QED BY <1>1, <2>1, <2>2, <2>3 DEF Snapshots, content
<1>6. TypeOK'
  <2>1. disk' \in [seq : 0..MaxSeq, entries : EntrySets] /\ persistedSeq' \in 0..MaxSeq
    BY <1>1, <1>2, <1>4, SnapshotTypes DEF Structure, TypeOK
  <2>2. writes' \in Seq(EntrySets)
    BY <1>1, <1>3
  <2> QED BY <1>1, <2>1, <2>2 DEF Structure, TypeOK, content, history
<1>7. HighWater' = HighWater
  BY <1>1 DEF content, HighWater
<1>8. Below(disk'.entries, disk'.seq) /\ disk'.seq <= HighWater /\ persistedSeq' = disk'.seq
  <2>1. Below(disk.entries, disk.seq) /\ disk.seq <= HighWater /\ persistedSeq = disk.seq
    BY DEF Structure, Numbering
  <2>2. Below(disk.entries, HighWater) /\ (writes # <<>> => Below(Head(writes), HighWater))
    BY <1>4, SnapshotTypes DEF Snapshots
  <2> QED BY <1>1, <1>2, <2>1, <2>2
<1>9. Numbering'
  BY <1>5, <1>7, <1>8, SnapshotTypes DEF Numbering
<1>10. Uniqueness'
  BY <1>1, <1>5, SnapshotTypes DEF Uniqueness, Structure, content
<1> QED BY <1>6, <1>9, <1>10 DEF Structure

LEMMA StructureAnswer ==
  ASSUME Structure, Answer
  PROVE  Structure'
<1>1. UNCHANGED <<content, persistedSeq, disk, writes, clock, restarts, capped>> /\ reply' = NoReply
  BY DEF Answer
<1>2. Snapshots' = Snapshots /\ HighWater' = HighWater
  BY <1>1 DEF Snapshots, HighWater, content
<1>3. Numbering' /\ Uniqueness'
  BY <1>1, <1>2 DEF Structure, Numbering, Uniqueness, content
<1>4. shown' \in [Events -> Nat] /\ told' \in 0..MaxSeq /\ acked' \subseteq Marks
  <2>1. CASE reply.kind = "entries"
    <3>1. reply.high \in 0..MaxSeq
      BY <2>1 DEF Answer, Structure, TypeOK, NoReply
    <3> QED BY <2>1, <3>1 DEF Answer, Structure, TypeOK, Marks
  <2>2. CASE reply.kind # "entries"
    <3>1. reply.marks \subseteq Marks
      BY <2>2 DEF Answer, Structure, TypeOK, Marks
    <3> QED BY <2>2, <3>1 DEF Answer, Structure, TypeOK, Marks
  <2> QED BY <2>1, <2>2
<1>5. TypeOK'
  BY <1>1, <1>4 DEF Structure, TypeOK, Marks, content
<1> QED BY <1>3, <1>5 DEF Structure

\* A restart finds on disk only what was a snapshot, and numbers above it.
LEMMA StructureRestart ==
  ASSUME Structure, Restart
  PROVE  Structure'
<1> DEFINE kept == Prune(disk.entries, clock)
<1>1. /\ entries' = kept /\ known' = Remember(EventsOf(disk.entries), clock)
      /\ nextSeq' = disk.seq + 1 /\ persistedSeq' = disk.seq
      /\ writes' = Save(disk.entries, kept) /\ reply' = NoReply
      /\ UNCHANGED <<policy, disk, clock, told, acked>>
      /\ restarts' = restarts + 1 /\ restarts < MaxRestarts
  BY SnapshotTypes DEF Restart
<1>2. disk.entries \in EntrySets /\ disk.entries \in Snapshots /\ disk.seq \in 0..MaxSeq
  BY DEF Structure, TypeOK, Snapshots
<1>3. /\ kept \in EntrySets /\ kept \subseteq disk.entries /\ Inherits(kept, disk.entries)
      /\ \A e \in kept : InAge(e.event, clock)
  BY <1>2, PruneInherits, PruneSubset DEF Inherits
<1>4. shown' \in [Events -> Nat] /\ capped' \subseteq Events
  <2>1. \A e \in CapVictims(Retained(disk.entries, clock)) : e.event \in Events
    BY <1>2 DEF CapVictims, Evictable, Retained, EntrySets
  <2>2. EventsOf(CapVictims(Retained(disk.entries, clock))) \subseteq Events
    BY <2>1 DEF EventsOf
  <2>3. capped' \subseteq Events
    BY <2>2 DEF Restart, NoteCapped, Structure, TypeOK
  <2>4. shown' \in [Events -> Nat]
    BY DEF Restart, Structure, TypeOK
  <2> QED BY <2>3, <2>4
<1> HIDE DEF kept
<1>5. writes' \in Seq(EntrySets) /\ \A i \in DOMAIN writes' : writes'[i] = kept
  <2>1. CASE disk.entries = kept
    BY <1>1, <2>1 DEF Save
  <2>2. CASE disk.entries # kept
    BY <1>1, <1>3, <2>2 DEF Save
  <2> QED BY <2>1, <2>2
<1>6. \A E \in Snapshots' : E \in {kept, disk.entries}
  BY <1>1, <1>5 DEF Snapshots
<1>7. known' \subseteq Events
  BY <1>1, <1>2 DEF Remember, EventsOf, EntrySets
<1>8. TypeOK'
  <2>1. nextSeq' \in 1..(MaxSeq + 1) /\ persistedSeq' \in 0..MaxSeq /\ restarts' \in 0..MaxRestarts
    BY <1>1, <1>2, InboxAssumption DEF Structure, TypeOK
  <2> QED BY <1>1, <1>3, <1>4, <1>5, <1>7, <2>1 DEF Structure, TypeOK
<1>9. Numbering'
  <2>1. HighWater' = disk.seq
    BY <1>1, <1>2 DEF HighWater
  <2>2. Below(disk.entries, disk.seq) /\ Below(kept, disk.seq)
    BY <1>3, InheritsKeeps DEF Structure, Numbering
  <2> QED BY <1>1, <1>2, <1>6, <2>1, <2>2 DEF Numbering
<1>10. Uniqueness'
  <2>1. Identified(disk.entries) /\ Identified(kept)
    BY <1>2, <1>3, InheritsKeeps, SnapshotTypes
  <2>2. EventsOf(kept) \subseteq known'
    BY <1>1, <1>3 DEF EventsOf, Remember
  <2> QED BY <1>1, <1>6, <2>1, <2>2 DEF Uniqueness
<1> QED BY <1>8, <1>9, <1>10 DEF Structure

LEMMA StructureTick ==
  ASSUME Structure, Tick
  PROVE  Structure'
<1>1. UNCHANGED <<content, persistedSeq, disk, writes, reply, restarts, history>>
  BY DEF Tick
<1>2. Snapshots' = Snapshots /\ HighWater' = HighWater
  BY <1>1 DEF Snapshots, HighWater, content
<1>3. Numbering' /\ Uniqueness'
  BY <1>1, <1>2 DEF Structure, Numbering, Uniqueness, content
<1>4. clock' \in 0..MaxClock
  BY InboxAssumption DEF Tick, Structure, TypeOK
<1>5. TypeOK'
  BY <1>1, <1>4 DEF Structure, TypeOK, content, history
<1> QED BY <1>3, <1>5 DEF Structure

LEMMA StructureStep == Structure /\ [Next]_vars => Structure'
<1> SUFFICES ASSUME Structure, [Next]_vars PROVE Structure'
  OBVIOUS
<1>1. ASSUME NEW ev \in Events, Ingest(ev) PROVE Structure'
  BY <1>1, StructureIngest
<1>2. CASE Enforce
  <2>1. reply' \in ReplyType
    BY <1>2 DEF Enforce, Structure, TypeOK, ReplyType, Marks
  <2> QED BY <1>2, <2>1, EnforcedTypes, StructureRewrite DEF Enforce
<1>3. ASSUME NEW s \in Sessions, ReadInbox(s) \/ WaitForReply(s) PROVE Structure'
  BY <1>3, ReadKeeps, StructureRewrite
<1>4. ASSUME NEW s \in Sessions, MarkProcessed(s) PROVE Structure'
  BY <1>4, MarkProcessedKeeps, StructureRewrite
<1>5. CASE Persist
  BY <1>5, StructurePersist
<1>6. CASE Answer
  BY <1>6, StructureAnswer
<1>7. CASE Restart
  BY <1>7, StructureRestart
<1>8. CASE Tick
  BY <1>8, StructureTick
<1>9. CASE UNCHANGED vars
  <2>1. Snapshots' = Snapshots /\ HighWater' = HighWater
    BY <1>9 DEF vars, Snapshots, HighWater
  <2> QED BY <1>9, <2>1 DEF vars, Structure, TypeOK, Numbering, Uniqueness
<1> QED BY <1>1, <1>2, <1>3, <1>4, <1>5, <1>6, <1>7, <1>8, <1>9 DEF Next, Request

LEMMA StructureInvariant == Spec => []Structure
BY StructureInit, StructureStep, PTL DEF Spec

\* The inbox is well typed in every reachable state, file writes that fail
\* and crashes at any point included.
THEOREM TypeCorrect == Spec => []TypeOK
BY StructureInvariant, PTL DEF Structure

\* No event is ever in the inbox twice, in memory or on disk (inbox.rs
\* "Dedupe is by Matrix event_id"), even when file writes fail.
THEOREM NoDuplicateEvents == Spec => []OneEntryPerEvent
<1>1. Structure => OneEntryPerEvent
  BY DEF Structure, Uniqueness, Snapshots, Identified, OneEntryPerEvent
<1> QED BY <1>1, StructureInvariant, PTL

-----------------------------------------------------------------------------
(* What was answered is on disk, provided file writes succeed *)

LEMMA DurabilityInit == Init => Durability
BY DEF Init, Durability, HighWater, NoReply, Snapshots, Honours

LEMMA DurabilityRewrite ==
  ASSUME Structure, Durability, NEW after, Free, Inherits(after, Enforced), Rewrite(after),
         \/ reply' = reply
         \/ reply'.kind = "entries" /\ reply'.high = HighWater
         \/ /\ reply'.kind = "marked" /\ Honours(after, reply'.marks)
            /\ \A m \in reply'.marks : m.seq <= HighWater
  PROVE  Durability'
<1>1. /\ entries' = after
      /\ UNCHANGED <<nextSeq, disk, told, acked>>
  BY DEF Rewrite
<1>2. /\ Inherits(Enforced, entries) /\ Inherits(after, entries)
      /\ Snapshots' \subseteq {disk.entries, Enforced, after}
      /\ writes' = <<>> => entries = after
      /\ writes' # <<>> => writes'[Len(writes')] = after
  BY RewriteKeeps
<1>3. HighWater' = HighWater /\ HighWater \in 0..MaxSeq
  BY <1>1, SnapshotTypes DEF HighWater
<1>4. disk.seq = HighWater /\ disk.entries = entries /\ reply = NoReply
  BY DEF Free, Durability
<1>5. entries \in Snapshots /\ disk.entries \in Snapshots /\ acked \in SUBSET Marks
  BY DEF Snapshots, Structure, TypeOK, Marks
<1>6. \A E \in Snapshots' : Honours(E, acked')
  <2>1. Honours(entries, acked)
    BY <1>5 DEF Durability
  <2>2. \A E \in {disk.entries, Enforced, after} : Honours(E, acked)
    BY <1>2, <1>4, <1>5, <2>1, InheritsKeeps
  <2> QED BY <1>1, <1>2, <2>2
<1>7. /\ reply'.kind = "entries" => reply'.high <= HighWater'
      /\ reply'.kind = "marked" => /\ \A m \in reply'.marks : m.seq <= HighWater'
                                   /\ Honours(entries', reply'.marks)
  BY <1>1, <1>3, <1>4 DEF NoReply
<1> QED BY <1>1, <1>2, <1>3, <1>4, <1>6, <1>7 DEF Durability

LEMMA DurabilityIngest ==
  ASSUME Structure, Durability, NEW ev \in Events, Ingest(ev)
  PROVE  Durability'
<1> DEFINE e     == [seq |-> nextSeq, event |-> ev, seenBy |-> Nobody, doneBy |-> Nobody]
           grown == entries \cup {e}
           kept  == Prune(grown, clock)
<1>1. /\ entries' = kept /\ nextSeq' = nextSeq + 1 /\ reply = NoReply /\ writes = <<>>
      /\ writes' = IF e \in kept \/ kept # grown THEN <<kept>> ELSE <<>>
      /\ UNCHANGED <<disk, reply, told, acked>>
  BY DEF Ingest, Free
<1>2. kept \subseteq grown
  BY PruneSubset
<1>3. writes' = <<kept>>
  BY <1>1
<1>4. \A m \in acked : m.seq < nextSeq
  <2>1. disk.seq <= nextSeq - 1 /\ disk.seq \in Nat /\ nextSeq \in Nat
    BY DEF Structure, Numbering, TypeOK, HighWater
  <2>2. \A m \in acked : m.seq \in Nat /\ m.seq <= disk.seq
    BY DEF Structure, TypeOK, Durability
  <2> QED BY <2>1, <2>2
<1>5. e.seq = nextSeq
  OBVIOUS
<1> HIDE DEF e
<1>6. Honours(grown, acked)
  <2>1. Honours(entries, acked)
    BY DEF Durability, Snapshots
  <2>2. acked \subseteq Marks /\ nextSeq \in Nat
    BY DEF Structure, TypeOK, Marks
  <2>3. \A m \in acked : m.seq # e.seq
    BY <1>4, <1>5, <2>2 DEF Marks
  <2> QED BY <2>1, <2>3 DEF Honours
<1>7. Honours(kept, acked) /\ Honours(disk.entries, acked)
  BY <1>2, <1>6 DEF Honours, Durability, Snapshots
<1> HIDE DEF kept, grown
<1>8. writes' # <<>> /\ writes'[Len(writes')] = kept /\ \A i \in DOMAIN writes' : writes'[i] = kept
  BY <1>3
<1>9. \A E \in Snapshots' : E \in {kept, disk.entries}
  BY <1>1, <1>8 DEF Snapshots
<1> QED BY <1>1, <1>7, <1>8, <1>9 DEF Durability, NoReply

LEMMA DurabilityPersist ==
  ASSUME policy \notin DiskFaults, Structure, Durability, Persist
  PROVE  Durability'
<1>1. /\ UNCHANGED <<content, reply, clock, restarts, history>> /\ writes # <<>>
      /\ writes \in Seq(EntrySets)
      /\ \/ /\ disk' = [disk EXCEPT !.seq = HighWater] /\ writes' = writes
         \/ /\ persistedSeq = HighWater /\ disk' = [disk EXCEPT !.entries = Head(writes)]
            /\ writes' = Tail(writes)
  BY DEF Persist, WriteSeq, WriteEntries, WriteFails, Structure, TypeOK
<1>2. /\ disk \in [seq : 0..MaxSeq, entries : EntrySets] /\ HighWater \in 0..MaxSeq
      /\ disk.seq <= HighWater /\ persistedSeq = disk.seq /\ HighWater' = HighWater
  BY <1>1, SnapshotTypes DEF Structure, TypeOK, Numbering, HighWater, content
<1>3. disk.seq <= disk'.seq /\ disk'.seq <= HighWater /\ disk'.seq \in 0..MaxSeq
  BY <1>1, <1>2
<1>4. CASE disk' = [disk EXCEPT !.seq = HighWater] /\ writes' = writes
  <2>1. Snapshots' = Snapshots /\ entries' = entries
    BY <1>1, <1>2, <1>4 DEF Snapshots, content
  <2>2. told' <= disk'.seq /\ \A m \in acked' : m.seq <= disk'.seq
    BY <1>1, <1>2, <1>3 DEF Durability, history, Structure, TypeOK
  <2> QED BY <1>1, <1>2, <1>4, <2>1, <2>2 DEF Durability, history
<1>5. CASE /\ persistedSeq = HighWater /\ disk' = [disk EXCEPT !.entries = Head(writes)]
           /\ writes' = Tail(writes)
  <2>1. /\ Head(writes) = writes[1] /\ 1 \in DOMAIN writes
        /\ \A i \in DOMAIN Tail(writes) : i + 1 \in DOMAIN writes /\ Tail(writes)[i] = writes[i + 1]
        /\ Tail(writes) = <<>> => Head(writes) = writes[Len(writes)]
        /\ Tail(writes) # <<>> => Tail(writes)[Len(Tail(writes))] = writes[Len(writes)]
    <3>1. Len(writes) \in Nat \ {0} /\ DOMAIN writes = 1..Len(writes)
      BY <1>1
    <3>2. /\ Len(Tail(writes)) = Len(writes) - 1 /\ Tail(writes) \in Seq(EntrySets)
          /\ \A i \in 1..(Len(writes) - 1) : Tail(writes)[i] = writes[i + 1]
          /\ Head(writes) = writes[1]
      BY <1>1, HeadTailProperties
    <3>3. Tail(writes) = <<>> <=> Len(Tail(writes)) = 0
      BY <3>2, EmptySeq
    <3>4. DOMAIN Tail(writes) = 1..(Len(writes) - 1)
      BY <3>2
    <3>5. CASE Len(writes) = 1
      BY <3>1, <3>2, <3>3, <3>4, <3>5
    <3>6. CASE Len(writes) > 1
      BY <3>1, <3>2, <3>3, <3>4, <3>6
    <3> QED BY <3>1, <3>5, <3>6
  <2>2. entries' = entries /\ disk'.seq = HighWater /\ disk'.entries = Head(writes)
    BY <1>1, <1>2, <1>5 DEF content
  <2>3. Head(writes) \in Snapshots /\ \A i \in DOMAIN writes' : writes'[i] \in Snapshots
    BY <1>5, <2>1 DEF Snapshots
  <2>4. \A E \in Snapshots' : E \in Snapshots
    BY <2>2, <2>3 DEF Snapshots
  <2>5. /\ writes' = <<>> => disk'.entries = entries'
        /\ writes' # <<>> => writes'[Len(writes')] = entries'
    BY <1>1, <1>5, <2>1, <2>2 DEF Durability
  <2>6. told' <= disk'.seq /\ \A m \in acked' : m.seq <= disk'.seq
    BY <1>1, <1>2, <1>3 DEF Durability, history, Structure, TypeOK
  <2> QED BY <1>1, <1>2, <2>2, <2>4, <2>5, <2>6 DEF Durability, history
<1> QED BY <1>1, <1>4, <1>5

\* The answer leaves after the last write: all it says is on disk by then.
LEMMA DurabilityAnswer ==
  ASSUME Structure, Durability, Answer
  PROVE  Durability'
<1>1. /\ UNCHANGED <<content, persistedSeq, disk, writes, clock, restarts, capped>>
      /\ reply' = NoReply /\ writes = <<>>
  BY DEF Answer
<1>2. Snapshots' = Snapshots /\ HighWater' = HighWater /\ disk.seq = HighWater /\ disk.entries = entries
  BY <1>1 DEF Snapshots, HighWater, content, Durability
<1>3. \A E \in Snapshots : E = entries
  BY <1>1, <1>2 DEF Snapshots
<1>4. told' <= disk.seq /\ \A m \in acked' : m.seq <= disk.seq
  BY <1>2 DEF Answer, Durability, NoReply, Structure, TypeOK
<1>5. Honours(entries, acked')
  BY DEF Answer, Durability, NoReply, Honours, Snapshots, Structure, TypeOK
<1> QED BY <1>1, <1>2, <1>3, <1>4, <1>5 DEF Durability, NoReply, content

LEMMA DurabilityRestart ==
  ASSUME Structure, Durability, Restart
  PROVE  Durability'
<1> DEFINE kept == Prune(disk.entries, clock)
<1>1. /\ entries' = kept /\ nextSeq' = disk.seq + 1 /\ writes' = Save(disk.entries, kept)
      /\ reply' = NoReply /\ UNCHANGED <<disk, told, acked>>
  BY SnapshotTypes DEF Restart
<1>2. disk.entries \in EntrySets /\ disk.seq \in Nat /\ kept \subseteq disk.entries
  BY PruneSubset DEF Structure, TypeOK
<1>3. Honours(disk.entries, acked) /\ Honours(kept, acked)
  BY <1>2 DEF Durability, Snapshots, Honours
<1> HIDE DEF kept
<1>4. /\ \A i \in DOMAIN writes' : writes'[i] = kept
      /\ writes' = <<>> => disk.entries = kept
      /\ writes' # <<>> => writes'[Len(writes')] = kept
  <2>1. CASE disk.entries = kept
    BY <1>1, <2>1 DEF Save
  <2>2. CASE disk.entries # kept
    BY <1>1, <2>2 DEF Save
  <2> QED BY <2>1, <2>2
<1>5. \A E \in Snapshots' : E \in {kept, disk.entries}
  BY <1>1, <1>4 DEF Snapshots
<1>6. HighWater' = disk.seq
  BY <1>1, <1>2 DEF HighWater
<1> QED BY <1>1, <1>3, <1>4, <1>5, <1>6 DEF Durability, NoReply

LEMMA DurabilityStep ==
  ASSUME policy \notin DiskFaults, Structure, Durability, [Next]_vars
  PROVE  Durability'
<1>1. ASSUME NEW ev \in Events, Ingest(ev) PROVE Durability'
  BY <1>1, DurabilityIngest
<1>2. CASE Enforce
  BY <1>2, EnforcedTypes, DurabilityRewrite DEF Enforce
<1>3. ASSUME NEW s \in Sessions, ReadInbox(s) \/ WaitForReply(s) PROVE Durability'
  <2>1. Free
    BY <1>3 DEF ReadInbox, WaitForReply
  <2> QED BY <1>3, <2>1, ReadKeeps, DurabilityRewrite
<1>4. ASSUME NEW s \in Sessions, MarkProcessed(s) PROVE Durability'
  <2>1. Free
    BY <1>4 DEF MarkProcessed
  <2> QED BY <1>4, <2>1, MarkProcessedKeeps, DurabilityRewrite
<1>5. CASE Persist
  BY <1>5, DurabilityPersist
<1>6. CASE Answer
  BY <1>6, DurabilityAnswer
<1>7. CASE Restart
  BY <1>7, DurabilityRestart
<1>8. CASE Tick
  <2>1. UNCHANGED <<content, disk, writes, reply, history>>
    BY <1>8 DEF Tick
  <2>2. Snapshots' = Snapshots /\ HighWater' = HighWater
    BY <2>1 DEF Snapshots, HighWater, content
  <2> QED BY <2>1, <2>2 DEF Durability, content, history
<1>9. CASE UNCHANGED vars
  <2>1. Snapshots' = Snapshots /\ HighWater' = HighWater
    BY <1>9 DEF vars, Snapshots, HighWater
  <2> QED BY <1>9, <2>1 DEF vars, Durability
<1> QED BY <1>1, <1>2, <1>3, <1>4, <1>5, <1>6, <1>7, <1>8, <1>9 DEF Next, Request

\* The policy of an inbox is read once, at its start.
LEMMA PolicyStays ==
  ASSUME [Next]_vars
  PROVE  policy' = policy
<1>1. ASSUME NEW ev \in Events, Ingest(ev) PROVE policy' = policy
  BY <1>1 DEF Ingest
<1>2. CASE Enforce
  BY <1>2 DEF Enforce, Rewrite
<1>3. ASSUME NEW s \in Sessions, ReadInbox(s) \/ WaitForReply(s) PROVE policy' = policy
  BY <1>3 DEF ReadInbox, WaitForReply, HandOut, Rewrite
<1>4. ASSUME NEW s \in Sessions, MarkProcessed(s) PROVE policy' = policy
  BY <1>4 DEF MarkProcessed, Rewrite
<1>5. CASE Persist
  BY <1>5 DEF Persist, WriteSeq, WriteEntries, WriteFails, content
<1>6. CASE Answer \/ Restart \/ Tick \/ UNCHANGED vars
  BY <1>6 DEF Answer, Restart, Tick, content, vars
<1> QED BY <1>1, <1>2, <1>3, <1>4, <1>5, <1>6 DEF Next, Request

\* What is on disk keeps every promise, in an inbox whose files can be written.
Durable == policy \in DiskFaults \/ Durability

LEMMA DurabilityInvariant == Spec => [](Structure /\ Durable)
<1>1. Init => Durable
  BY DurabilityInit DEF Durable
<1>2. Structure /\ Durable /\ [Next]_vars => Durable'
  <2> SUFFICES ASSUME Structure, Durable, [Next]_vars, policy \notin DiskFaults
               PROVE  Durability'
    BY PolicyStays DEF Durable
  <2> QED BY DurabilityStep DEF Durable
<1> QED BY <1>1, <1>2, StructureInvariant, PTL DEF Spec

\* A high-water mark a session was given is never handed out again, wherever
\* the daemon crashes between its file writes (module doc: "seq never goes
\* backwards"): a wait with that cursor misses no later message.
THEOREM CursorsStayValid == Spec => []CursorNeverReused
<1>1. Structure /\ Durable => CursorNeverReused
  <2> SUFFICES ASSUME Structure, Durability PROVE told < nextSeq
    BY DEF CursorNeverReused, Durable
  <2>1. told <= disk.seq /\ disk.seq <= nextSeq - 1
    BY DEF Structure, Numbering, Durability, HighWater
  <2>2. told \in Nat /\ disk.seq \in Nat /\ nextSeq \in Nat
    BY DEF Structure, TypeOK
  <2> QED BY <2>1, <2>2
<1> QED BY <1>1, DurabilityInvariant, PTL

\* A processed mark a session was told of is final: no later mark, policy
\* enforcement, crash or restart changes it (mark_processed: "Final").
THEOREM MarksAreFinal == Spec => []ProcessedMarkKept
<1>1. Durable => ProcessedMarkKept
  BY DEF Durable, Durability, Snapshots, Honours, ProcessedMarkKept
<1> QED BY <1>1, DurabilityInvariant, PTL

-----------------------------------------------------------------------------
(* What a step may never do *)

\* A read or a wait hands out nothing past the age bound, whenever the last
\* enforcement was ("Never hand out what the inbox policy already dropped").
THEOREM ReadsRespectAge == Spec => NothingExpiredHandedOut
<1> DEFINE Fresh == reply' # reply /\ reply'.kind = "entries"
                    => \A e \in reply'.shown : InAge(e.event, clock)
<1>1. ASSUME NEW s, NEW states, NEW since, NEW limit, NEW marking,
             HandOut(s, states, since, limit, marking)
      PROVE  Fresh
  <2>1. reply'.shown = Query(Enforced, states, since, limit)
    BY <1>1 DEF HandOut, ReadReply
  <2>2. reply'.shown \subseteq Prune(entries, clock)
    BY <2>1 DEF Query, Enforced
  <2> QED BY <2>2, PruneSubset
<1>2. ASSUME NEW s \in Sessions, ReadInbox(s) PROVE Fresh
  <2>1. PICK unreadOnly \in BOOLEAN, marking \in BOOLEAN, since \in 0..HighWater,
             limit \in {1, MaxSeq} :
          HandOut(s, IF unreadOnly THEN OpenStates ELSE {"new", "seen", "processed"},
                  since, limit, marking)
    BY <1>2 DEF ReadInbox
  <2> QED BY <1>1, <2>1
<1>3. ASSUME NEW s \in Sessions, WaitForReply(s) PROVE Fresh
  <2>1. PICK since : HandOut(s, {"new"}, since, MaxSeq, TRUE)
    BY <1>3 DEF WaitForReply
  <2> QED BY <1>1, <2>1
<1>4. ASSUME NEW s \in Sessions, MarkProcessed(s) PROVE reply'.kind = "marked"
  BY <1>4 DEF MarkProcessed, MarkReply
<1>5. Restart \/ Answer => reply'.kind = "none"
  BY DEF Restart, Answer, NoReply
<1>6. ASSUME NEW ev \in Events, Ingest(ev) PROVE reply' = reply
  BY <1>6 DEF Ingest
<1>7. Enforce \/ Persist \/ Tick \/ UNCHANGED vars => reply' = reply
  BY DEF Enforce, Persist, WriteSeq, WriteEntries, WriteFails, Tick, vars
<1>8. [Next]_vars => Fresh
  BY <1>2, <1>3, <1>4, <1>5, <1>6, <1>7 DEF Next, Request
<1>9. [Next]_vars => [Fresh]_vars
  BY <1>8
<1> QED BY <1>9, PTL DEF Spec, NothingExpiredHandedOut

-----------------------------------------------------------------------------
(* An event is shown as new once *)

\* The entries of an event, if any, are no longer new.
Read(E, ev) == \A e \in E : e.event = ev => ~IsNew(e)

\* An event is held, or was dropped for its age or by the cap.
HeldOr(E, ev) == ev \in EventsOf(E) \/ ~InAge(ev, clock) \/ ev \in capped

\* An event that a marking read showed is not ingested again, and is new nowhere.
Offered(ev) ==
  /\ ev \in known \/ ~InAge(ev, clock)
  /\ \A E \in Snapshots : Read(E, ev) /\ HeldOr(E, ev)

\* What a request is about to show as new was not shown by a marking read before
\* and, if it marks, is held as read.
Showing(ev) ==
  /\ shown[ev] = 0
  /\ reply.marking => ev \in EventsOf(entries) /\ Read(entries, ev)

Once ==
  /\ \A E \in Snapshots : \A e \in E : Allowed(e.event)
  /\ \A ev \in Events : shown[ev] = 0 \/ (shown[ev] = 1 /\ Offered(ev))
  /\ reply.kind = "entries" => \A ev \in EventsOf(reply.fresh) : Showing(ev)

\* The age bound and the media rule stay what they are while neither clock nor policy moves.
LEMMA SameRules ==
  ASSUME policy' = policy, clock' = clock
  PROVE  \A ev : (InAge(ev, clock)' <=> InAge(ev, clock)) /\ (Allowed(ev)' <=> Allowed(ev))
BY DEF InAge, Cutoff, Allowed

\* What Prune drops of a lawful inbox is past the age bound, or over the cap.
LEMMA PruneLoses ==
  ASSUME NEW E, \A e \in E : Allowed(e.event), NEW now, NEW ev \in EventsOf(E)
  PROVE  \/ ev \in EventsOf(Prune(E, now)) \/ ~InAge(ev, now)
         \/ ev \in EventsOf(CapVictims(Retained(E, now)))
<1>1. PICK e \in E : e.event = ev
  BY DEF EventsOf
<1>2. InAge(ev, now) => e \in Retained(E, now)
  BY <1>1 DEF Retained
<1>3. InAge(ev, now) => e \in Prune(E, now) \/ e \in CapVictims(Retained(E, now))
  BY <1>2 DEF Prune
<1> QED BY <1>1, <1>3 DEF EventsOf

\* What was read and what was lawful before still is after entries were inherited.
LEMMA InheritsRead ==
  ASSUME NEW A, NEW B, Inherits(A, B)
  PROVE  /\ \A ev : Read(B, ev) => Read(A, ev)
         /\ (\A e \in B : Allowed(e.event)) => \A e \in A : Allowed(e.event)
BY DEF Inherits, Read

\* A request shows, marks or only enforces: nothing shown before becomes new again.
LEMMA OnceRewrite ==
  ASSUME Structure, Durability, Once, Free, NEW after, Inherits(after, Enforced), Rewrite(after),
         EventsOf(Enforced) \subseteq EventsOf(after),
         \/ reply' = reply
         \/ reply'.kind # "entries"
         \/ \A ev \in EventsOf(reply'.fresh) :
              /\ reply'.marking => ev \in EventsOf(after) /\ Read(after, ev)
              /\ \E e \in Enforced : e.event = ev /\ IsNew(e)
  PROVE  Once'
<1>1. /\ entries' = after /\ known' = Remember(known, clock)
      /\ capped' = capped \cup EventsOf(CapVictims(Retained(entries, clock)))
      /\ UNCHANGED <<policy, disk, clock, shown>>
  BY DEF Rewrite, NoteCapped
<1>2. /\ Inherits(Enforced, entries) /\ Inherits(after, entries)
      /\ Snapshots' \subseteq {disk.entries, Enforced, after}
  BY RewriteKeeps
<1>3. disk.entries = entries /\ reply = NoReply /\ entries \in Snapshots
  BY DEF Free, Durability, Snapshots
<1>4. \A ev : (InAge(ev, clock)' <=> InAge(ev, clock)) /\ (Allowed(ev)' <=> Allowed(ev))
  BY <1>1, SameRules
<1>5. \A e \in entries : Allowed(e.event)
  BY <1>3 DEF Once
<1>6. \A E \in Snapshots' : \A e \in E : Allowed(e.event)
  BY <1>2, <1>3, <1>5, InheritsRead
<1>7. ASSUME NEW ev \in Events, shown[ev] # 0 PROVE shown'[ev] = 1 /\ Offered(ev)'
  <2>1. shown[ev] = 1 /\ Offered(ev)
    BY <1>7 DEF Once
  <2>2. (ev \in known \/ ~InAge(ev, clock)) /\ Read(entries, ev) /\ HeldOr(entries, ev)
    BY <1>3, <2>1 DEF Offered
  <2>3. ev \in known' \/ ~InAge(ev, clock)
    BY <1>1, <2>2 DEF Remember
  <2>4. \A E \in Snapshots' : Read(E, ev)
    BY <1>2, <1>3, <2>2, InheritsRead
  <2>5. ev \in EventsOf(Enforced) \/ ~InAge(ev, clock) \/ ev \in capped'
    <3>1. CASE ev \in EventsOf(entries)
      <4>1. \/ ev \in EventsOf(Prune(entries, clock)) \/ ~InAge(ev, clock)
            \/ ev \in EventsOf(CapVictims(Retained(entries, clock)))
        BY <1>5, <3>1, PruneLoses
      <4> QED BY <1>1, <4>1 DEF Enforced
    <3> QED BY <1>1, <2>2, <3>1 DEF HeldOr
  <2>6. \A E \in Snapshots' : ev \in EventsOf(E) \/ ~InAge(ev, clock) \/ ev \in capped'
    BY <1>1, <1>2, <1>3, <2>2, <2>5 DEF HeldOr
  <2> QED BY <1>1, <1>4, <2>1, <2>3, <2>4, <2>6 DEF Offered, HeldOr, Read
<1>8. ASSUME reply'.kind = "entries", NEW ev \in EventsOf(reply'.fresh) PROVE Showing(ev)'
  <2>1. reply'.kind # NoReply.kind
    BY <1>8 DEF NoReply
  <2>2. /\ reply'.marking => ev \in EventsOf(after) /\ Read(after, ev)
        /\ \E e \in Enforced : e.event = ev /\ IsNew(e)
    BY <1>3, <1>8, <2>1
  <2>3. PICK e \in Enforced : e.event = ev /\ IsNew(e)
    BY <2>2
  <2>4. e \in entries /\ ev \in Events
    <3>1. e \in entries
      BY PruneSubset DEF Enforced
    <3> QED BY <2>3, <3>1 DEF Structure, TypeOK, EntrySets
  <2>5. ~Offered(ev)
    BY <1>3, <2>3, <2>4 DEF Offered, Read
  <2>6. shown[ev] = 0
    BY <2>4, <2>5 DEF Once
  <2> QED BY <1>1, <2>2, <2>6 DEF Showing, Read
<1>9. \A ev \in Events : shown'[ev] = 0 \/ (shown'[ev] = 1 /\ Offered(ev)')
  BY <1>1, <1>7
<1>10. (\A E \in Snapshots : \A e \in E : Allowed(e.event))'
  BY <1>4, <1>6
<1> QED BY <1>8, <1>9, <1>10 DEF Once

\* A message that is taken in was not shown before.
LEMMA OnceIngest ==
  ASSUME Structure, Durability, Once, NEW ev \in Events, Ingest(ev)
  PROVE  Once'
<1> DEFINE e     == [seq |-> nextSeq, event |-> ev, seenBy |-> Nobody, doneBy |-> Nobody]
           grown == entries \cup {e}
           kept  == Prune(grown, clock)
<1>1. /\ entries' = kept /\ ev \notin known /\ Allowed(ev) /\ InAge(ev, clock)
      /\ known' = Remember(known \cup {ev}, clock) /\ writes = <<>> /\ reply = NoReply
      /\ writes' = IF e \in kept \/ kept # grown THEN <<kept>> ELSE <<>>
      /\ capped' = capped \cup EventsOf(CapVictims(Retained(grown, clock)))
      /\ UNCHANGED <<policy, disk, reply, clock, shown>>
  BY DEF Ingest, Free, NoteCapped
<1>2. e.event = ev
  OBVIOUS
<1>3. disk.entries = entries /\ entries \in Snapshots
  BY <1>1 DEF Durability, Snapshots
<1>4. kept \subseteq grown
  BY PruneSubset
<1> HIDE DEF e
<1>5. \A f \in grown : Allowed(f.event)
  BY <1>1, <1>2, <1>3 DEF Once
<1>6. \A x \in EventsOf(entries) : \/ x \in EventsOf(kept) \/ ~InAge(x, clock) \/ x \in capped'
  <2>1. ASSUME NEW x \in EventsOf(entries)
        PROVE  \/ x \in EventsOf(kept) \/ ~InAge(x, clock) \/ x \in capped'
    <3>1. x \in EventsOf(grown)
      BY DEF EventsOf
    <3>2. \/ x \in EventsOf(Prune(grown, clock)) \/ ~InAge(x, clock)
          \/ x \in EventsOf(CapVictims(Retained(grown, clock)))
      <4> HIDE DEF grown
      <4> QED BY <1>5, <3>1, PruneLoses
    <3> QED BY <1>1, <3>2
  <2> QED BY <2>1
<1>7. writes' \in {<<kept>>, <<>>}
  BY <1>1
<1> HIDE DEF kept
<1>8. Snapshots' \subseteq {disk.entries, kept}
  <2>1. \A i \in DOMAIN writes' : writes'[i] = kept
    BY <1>7
  <2>2. {writes'[i] : i \in DOMAIN writes'} \subseteq {kept}
    BY <2>1
  <2> QED BY <1>1, <2>2 DEF Snapshots
<1>9. \A x : (InAge(x, clock)' <=> InAge(x, clock)) /\ (Allowed(x)' <=> Allowed(x))
  BY <1>1, SameRules
<1>10. \A E \in Snapshots' : \A f \in E : Allowed(f.event)
  BY <1>3, <1>4, <1>5, <1>8
<1>11. ASSUME NEW x \in Events, shown[x] # 0 PROVE shown'[x] = 1 /\ Offered(x)'
  <2>1. shown[x] = 1 /\ Offered(x)
    BY <1>11 DEF Once
  <2>2. (x \in known \/ ~InAge(x, clock)) /\ Read(entries, x) /\ HeldOr(entries, x)
    BY <1>3, <2>1 DEF Offered
  <2>3. x # ev
    BY <1>1, <2>2
  <2>4. x \in known' \/ ~InAge(x, clock)
    BY <1>1, <2>2 DEF Remember
  <2>5. Read(kept, x)
    BY <1>2, <1>4, <2>2, <2>3 DEF Read
  <2>6. \A E \in Snapshots' : Read(E, x)
    BY <1>3, <1>8, <2>2, <2>5
  <2>7. \A E \in Snapshots' : x \in EventsOf(E) \/ ~InAge(x, clock) \/ x \in capped'
    BY <1>1, <1>3, <1>6, <1>8, <2>2 DEF HeldOr
  <2> QED BY <1>1, <1>9, <2>1, <2>4, <2>6, <2>7 DEF Offered, HeldOr, Read
<1>12. \A x \in Events : shown'[x] = 0 \/ (shown'[x] = 1 /\ Offered(x)')
  BY <1>1, <1>11
<1>13. (\A E \in Snapshots : \A f \in E : Allowed(f.event))'
  BY <1>9, <1>10
<1>14. reply'.kind # "entries"
  BY <1>1 DEF NoReply
<1> QED BY <1>12, <1>13, <1>14 DEF Once

\* A file write leaves one snapshot less, or none.
LEMMA SnapshotsPersist ==
  ASSUME Structure, Persist
  PROVE  Snapshots' \subseteq Snapshots
<1>1. /\ entries' = entries /\ writes \in Seq(EntrySets) /\ disk \in [seq : 0..MaxSeq, entries : EntrySets]
      /\ \/ disk' = [disk EXCEPT !.seq = HighWater] /\ writes' = writes
         \/ writes # <<>> /\ disk' = [disk EXCEPT !.entries = Head(writes)] /\ writes' = Tail(writes)
         \/ writes # <<>> /\ writes' = Tail(writes) /\ disk' = disk
  BY DEF Persist, WriteSeq, WriteEntries, WriteFails, Structure, TypeOK, content
<1>2. writes # <<>> => /\ Head(writes) = writes[1] /\ 1 \in DOMAIN writes
                       /\ \A i \in DOMAIN Tail(writes) : /\ i + 1 \in DOMAIN writes
                                                         /\ Tail(writes)[i] = writes[i + 1]
  BY <1>1
<1>3. disk'.entries \in Snapshots /\ \A i \in DOMAIN writes' : writes'[i] \in Snapshots
  BY <1>1, <1>2 DEF Snapshots
<1>4. entries' \in Snapshots
  BY <1>1 DEF Snapshots
<1> QED BY <1>3, <1>4 DEF Snapshots

\* No snapshot is new, and no event gets younger: what was shown stays shown.
LEMMA OnceKept ==
  ASSUME Structure, Once, Snapshots' \subseteq Snapshots, UNCHANGED <<policy, entries, known, reply, shown, capped>>,
         \A ev \in Events : InAge(ev, clock)' => InAge(ev, clock)
  PROVE  Once'
<1>1. \A ev : Allowed(ev)' <=> Allowed(ev)
  BY DEF Allowed
<1>2. (\A E \in Snapshots : \A e \in E : Allowed(e.event))'
  BY <1>1 DEF Once
<1>3. \A ev \in Events : Offered(ev) => Offered(ev)'
  BY DEF Offered, HeldOr, Read
<1>4. \A ev \in Events : shown'[ev] = 0 \/ (shown'[ev] = 1 /\ Offered(ev)')
  BY <1>3 DEF Once
<1>5. reply'.kind = "entries" => \A ev \in EventsOf(reply'.fresh) : Showing(ev)'
  BY DEF Once, Showing, Read
<1> QED BY <1>2, <1>4, <1>5 DEF Once

\* The answer of a read counts what it showed, once.
LEMMA OnceAnswer ==
  ASSUME Structure, Durability, Once, Answer
  PROVE  Once'
<1>1. /\ UNCHANGED <<content, disk, writes, clock, capped>> /\ reply' = NoReply /\ writes = <<>>
      /\ reply # NoReply
  BY DEF Answer
<1>2. Snapshots' = Snapshots /\ disk.entries = entries
  BY <1>1 DEF Snapshots, content, Durability
<1>3. \A E \in Snapshots : E = entries
  BY <1>1, <1>2 DEF Snapshots
<1>4. \A ev : (InAge(ev, clock)' <=> InAge(ev, clock)) /\ (Allowed(ev)' <=> Allowed(ev))
  BY <1>1, SameRules DEF content
<1>5. (\A E \in Snapshots : \A e \in E : Allowed(e.event))'
  BY <1>2, <1>4 DEF Once
<1>6. \A ev : Offered(ev) => Offered(ev)'
  BY <1>1, <1>2, <1>4 DEF Offered, HeldOr, Read, content
<1>7. ASSUME NEW ev \in Events PROVE shown'[ev] = 0 \/ (shown'[ev] = 1 /\ Offered(ev)')
  <2>1. CASE reply.kind = "entries" /\ Counts(ev)
    <3>1. Showing(ev) /\ reply.marking
      BY <2>1 DEF Once, Counts, Showing
    <3>2. shown'[ev] = 1
      BY <2>1, <3>1 DEF Answer, Showing
    <3>3. ev \in known
      BY <3>1 DEF Showing, Structure, Uniqueness
    <3>4. Offered(ev)
      BY <1>3, <3>1, <3>3 DEF Showing, Offered, HeldOr
    <3> QED BY <1>6, <3>2, <3>4
  <2>2. CASE ~(reply.kind = "entries" /\ Counts(ev))
    <3>1. shown'[ev] = shown[ev]
      BY <2>2 DEF Answer, Structure, TypeOK
    <3> QED BY <1>6, <3>1 DEF Once
  <2> QED BY <2>1, <2>2
<1> QED BY <1>1, <1>5, <1>7 DEF Once, NoReply

\* A restart forgets an event only with its promise: it is on disk as read, past the age bound,
\* or was evicted and starts over.
LEMMA OnceRestart ==
  ASSUME Structure, Durability, Once, Restart
  PROVE  Once'
<1> DEFINE kept == Prune(disk.entries, clock)
<1>1. /\ entries' = kept /\ known' = Remember(EventsOf(disk.entries), clock)
      /\ writes' = Save(disk.entries, kept) /\ reply' = NoReply /\ UNCHANGED <<policy, disk, clock>>
      /\ capped' = capped \cup EventsOf(CapVictims(Retained(disk.entries, clock)))
      /\ shown' = [ev \in Events |-> IF ev \in capped /\ ev \notin EventsOf(disk.entries) THEN 0 ELSE shown[ev]]
  BY DEF Restart, NoteCapped
<1>2. disk.entries \in Snapshots /\ kept \subseteq disk.entries
  BY PruneSubset DEF Snapshots
<1>3. \A e \in disk.entries : Allowed(e.event)
  BY <1>2 DEF Once
<1>4. \A ev \in EventsOf(disk.entries) : \/ ev \in EventsOf(kept) \/ ~InAge(ev, clock) \/ ev \in capped'
  BY <1>1, <1>3, PruneLoses
<1> HIDE DEF kept
<1>5. \A E \in Snapshots' : E \in {kept, disk.entries}
  <2>1. \A i \in DOMAIN writes' : writes'[i] = kept
    BY <1>1 DEF Save
  <2> QED BY <1>1, <2>1 DEF Snapshots
<1>6. \A ev : (InAge(ev, clock)' <=> InAge(ev, clock)) /\ (Allowed(ev)' <=> Allowed(ev))
  BY <1>1, SameRules
<1>7. (\A E \in Snapshots : \A e \in E : Allowed(e.event))'
  BY <1>2, <1>3, <1>5, <1>6
<1>8. ASSUME NEW ev \in Events, shown'[ev] # 0 PROVE shown'[ev] = 1 /\ Offered(ev)'
  <2>1. ~(ev \in capped /\ ev \notin EventsOf(disk.entries)) /\ shown'[ev] = shown[ev]
    BY <1>1, <1>8
  <2>2. shown[ev] = 1 /\ Offered(ev)
    BY <1>8, <2>1 DEF Once
  <2>3. Read(disk.entries, ev) /\ (ev \in EventsOf(disk.entries) \/ ~InAge(ev, clock))
    BY <1>2, <2>1, <2>2 DEF Offered, HeldOr
  <2>4. ev \in known' \/ ~InAge(ev, clock)
    BY <1>1, <2>3 DEF Remember
  <2>5. \A E \in Snapshots' : Read(E, ev)
    BY <1>2, <1>5, <2>3 DEF Read
  <2>6. \A E \in Snapshots' : ev \in EventsOf(E) \/ ~InAge(ev, clock) \/ ev \in capped'
    BY <1>4, <1>5, <2>3
  <2> QED BY <1>6, <2>1, <2>2, <2>4, <2>5, <2>6 DEF Offered, HeldOr, Read
<1> QED BY <1>1, <1>7, <1>8 DEF Once, NoReply

\* Marking keeps every event.
LEMMA MarksKeepEvents ==
  ASSUME NEW E \in EntrySets, NEW S, NEW T, NEW s
  PROVE  /\ EventsOf(E) \subseteq EventsOf(MarkSeen(E, S, s))
         /\ EventsOf(E) \subseteq EventsOf(MarkDone(E, T, s))
<1>1. ASSUME NEW e \in E
      PROVE  /\ \E f \in MarkSeen(E, S, s) : f.event = e.event
             /\ \E f \in MarkDone(E, T, s) : f.event = e.event
  <2>0. e \in [seq : 1..MaxSeq, event : Events, seenBy : Marker, doneBy : Marker]
    BY DEF EntrySets
  <2>1. (IF e \in S /\ IsNew(e) THEN [e EXCEPT !.seenBy = s] ELSE e) \in MarkSeen(E, S, s)
    BY DEF MarkSeen
  <2>2. (IF e \in S /\ IsNew(e) THEN [e EXCEPT !.seenBy = s] ELSE e).event = e.event
    BY <2>0
  <2>3. (IF e.seq \in T /\ e.doneBy = Nobody THEN [e EXCEPT !.doneBy = s] ELSE e) \in MarkDone(E, T, s)
    BY DEF MarkDone
  <2>4. (IF e.seq \in T /\ e.doneBy = Nobody THEN [e EXCEPT !.doneBy = s] ELSE e).event = e.event
    BY <2>0
  <2> QED BY <2>1, <2>2, <2>3, <2>4
<1> QED BY <1>1 DEF EventsOf

\* What a marking read hands out as new is marked seen in what it leaves.
LEMMA HandOutMarks ==
  ASSUME Structure, NEW s \in Sessions, NEW states, NEW since, NEW limit,
         NEW marking \in BOOLEAN, HandOut(s, states, since, limit, marking)
  PROVE  \E after : /\ Inherits(after, Enforced) /\ Rewrite(after)
                    /\ EventsOf(Enforced) \subseteq EventsOf(after)
                    /\ \A ev \in EventsOf(reply'.fresh) :
                         /\ reply'.marking => ev \in EventsOf(after) /\ Read(after, ev)
                         /\ \E e \in Enforced : e.event = ev /\ IsNew(e)
<1> DEFINE S == Query(Enforced, states, since, limit)
           after == IF marking THEN MarkSeen(Enforced, S, s) ELSE Enforced
<1>1. Inherits(after, Enforced)
  BY EnforcedTypes, MarkSeenInherits
<1>2. Rewrite(after) /\ reply' = ReadReply(S, marking)
  BY DEF HandOut
<1>3. S \subseteq Enforced
  BY DEF Query
<1>4. EventsOf(Enforced) \subseteq EventsOf(after)
  BY EnforcedTypes, MarksKeepEvents
<1>5. Identified(Enforced) /\ Enforced \in EntrySets
  BY EnforcedTypes, PruneInherits, SnapshotTypes, InheritsKeeps DEF Enforced, Snapshots
<1>6. s # Nobody
  BY InboxAssumption DEF InboxAssumption
<1>7. reply'.fresh = {e \in S : IsNew(e)} /\ reply'.marking = marking
  BY <1>2 DEF ReadReply
<1> HIDE DEF S
<1>8. ASSUME NEW ev \in EventsOf(reply'.fresh)
      PROVE  /\ marking => ev \in EventsOf(after) /\ Read(after, ev)
             /\ \E e \in Enforced : e.event = ev /\ IsNew(e)
  <2>1. PICK e \in S : IsNew(e) /\ e.event = ev
    BY <1>7, <1>8 DEF EventsOf
  <2>2. e \in Enforced
    BY <1>3, <2>1
  <2>3. ev \in EventsOf(after)
    BY <1>4, <2>1, <2>2 DEF EventsOf
  <2>4. ASSUME NEW a \in after, a.event = ev, marking PROVE ~IsNew(a)
    <3>1. PICK f \in Enforced : a = IF f \in S /\ IsNew(f) THEN [f EXCEPT !.seenBy = s] ELSE f
      BY <2>1, <2>4 DEF MarkSeen
    <3>2. f \in [seq : 1..MaxSeq, event : Events, seenBy : Marker, doneBy : Marker]
      BY <1>5 DEF EntrySets
    <3>3. f.event = ev
      BY <2>4, <3>1, <3>2
    <3>4. f = e
      BY <1>5, <2>1, <2>2, <3>3 DEF Identified
    <3>5. a.seenBy = s
      BY <2>1, <3>1, <3>2, <3>4
    <3> QED BY <1>6, <3>5 DEF IsNew, StateOf
  <2> QED BY <2>1, <2>2, <2>3, <2>4 DEF Read
<1> HIDE DEF after
<1> QED BY <1>1, <1>2, <1>4, <1>7, <1>8

LEMMA OnceRead ==
  ASSUME Structure, Durability, Once, NEW s \in Sessions, ReadInbox(s) \/ WaitForReply(s)
  PROVE  Once'
<1>1. Free
  BY DEF ReadInbox, WaitForReply
<1>2. \E states, since, limit : \E marking \in BOOLEAN : HandOut(s, states, since, limit, marking)
  <2>1. CASE ReadInbox(s)
    BY <2>1 DEF ReadInbox
  <2>2. CASE WaitForReply(s)
    <3>1. TRUE \in BOOLEAN
      OBVIOUS
    <3> QED BY <2>2, <3>1 DEF WaitForReply
  <2> QED BY <2>1, <2>2
<1>3. PICK after : /\ Inherits(after, Enforced) /\ Rewrite(after)
                   /\ EventsOf(Enforced) \subseteq EventsOf(after)
                   /\ \A ev \in EventsOf(reply'.fresh) :
                        /\ reply'.marking => ev \in EventsOf(after) /\ Read(after, ev)
                        /\ \E e \in Enforced : e.event = ev /\ IsNew(e)
  BY <1>2, HandOutMarks
<1> QED BY <1>1, <1>3, OnceRewrite

LEMMA OnceMark ==
  ASSUME Structure, Durability, Once, NEW s \in Sessions, MarkProcessed(s)
  PROVE  Once'
<1>1. Free
  BY DEF MarkProcessed
<1>2. PICK T, M : Rewrite(MarkDone(Enforced, T, s)) /\ reply' = MarkReply(M)
  BY DEF MarkProcessed
<1>3. reply'.kind # "entries"
  BY <1>2 DEF MarkReply
<1>4. Inherits(MarkDone(Enforced, T, s), Enforced)
  BY EnforcedTypes, MarkDoneInherits
<1>5. EventsOf(Enforced) \subseteq EventsOf(MarkDone(Enforced, T, s))
  BY EnforcedTypes, MarksKeepEvents
<1> QED BY <1>1, <1>2, <1>3, <1>4, <1>5, OnceRewrite

\* Time only takes events past the age bound.
LEMMA OnceTick ==
  ASSUME Structure, Once, Tick
  PROVE  Once'
<1>1. /\ UNCHANGED <<policy, entries, known, disk, writes, reply, shown, capped>>
      /\ clock' = clock + 1 /\ clock \in Nat
  BY DEF Tick, content, history, Structure, TypeOK
<1>2. Snapshots' = Snapshots
  BY <1>1 DEF Snapshots
<1>3. policy.max_age \in Nat
  BY InboxAssumption DEF InboxAssumption, InboxPolicy, Structure, TypeOK
<1>4. \A ev \in Events : Ts[ev] \in Nat
  BY InboxAssumption DEF InboxAssumption
<1>5. Cutoff(clock)' >= Cutoff(clock) /\ Cutoff(clock)' \in Nat /\ Cutoff(clock) \in Nat
  BY <1>1, <1>3 DEF Cutoff
<1> HIDE DEF Cutoff
<1>6. \A ev \in Events : InAge(ev, clock)' => InAge(ev, clock)
  BY <1>4, <1>5 DEF InAge
<1> QED BY <1>1, <1>2, <1>6, OnceKept

LEMMA OnceInit == Init => Once
<1> SUFFICES ASSUME Init PROVE Once
  OBVIOUS
<1>1. \A E \in Snapshots : E = {}
  BY DEF Init, Snapshots
<1>2. reply.kind # "entries"
  BY DEF Init, NoReply
<1>3. \A ev \in Events : shown[ev] = 0
  BY DEF Init
<1> QED BY <1>1, <1>2, <1>3 DEF Once

LEMMA OnceStep ==
  ASSUME Structure, Durability, Once, [Next]_vars
  PROVE  Once'
<1>1. ASSUME NEW ev \in Events, Ingest(ev) PROVE Once'
  BY <1>1, OnceIngest
<1>2. CASE Enforce
  <2>1. EventsOf(Enforced) \subseteq EventsOf(Enforced)
    OBVIOUS
  <2>2. Free /\ Rewrite(Enforced) /\ reply' = reply
    BY <1>2 DEF Enforce
  <2> QED BY <2>1, <2>2, EnforcedTypes, OnceRewrite
<1>3. ASSUME NEW s \in Sessions, ReadInbox(s) \/ WaitForReply(s) PROVE Once'
  BY <1>3, OnceRead
<1>4. ASSUME NEW s \in Sessions, MarkProcessed(s) PROVE Once'
  BY <1>4, OnceMark
<1>5. CASE Persist
  <2>1. UNCHANGED <<policy, clock, entries, known, reply, shown, capped>>
    BY <1>5 DEF Persist, WriteSeq, WriteEntries, WriteFails, content, history
  <2>2. \A ev \in Events : InAge(ev, clock)' => InAge(ev, clock)
    BY <2>1, SameRules
  <2> QED BY <1>5, <2>1, <2>2, SnapshotsPersist, OnceKept
<1>6. CASE Answer
  BY <1>6, OnceAnswer
<1>7. CASE Restart
  BY <1>7, OnceRestart
<1>8. CASE Tick
  BY <1>8, OnceTick
<1>9. CASE UNCHANGED vars
  <2>1. UNCHANGED <<policy, clock, entries, known, reply, shown, capped>> /\ Snapshots' = Snapshots
    BY <1>9 DEF vars, Snapshots
  <2>2. \A ev \in Events : InAge(ev, clock)' => InAge(ev, clock)
    BY <2>1, SameRules
  <2> QED BY <2>1, <2>2, OnceKept
<1> QED BY <1>1, <1>2, <1>3, <1>4, <1>5, <1>6, <1>7, <1>8, <1>9 DEF Next, Request

\* What was shown as new is on record, in an inbox whose files can be written.
OnRecord == policy \in DiskFaults \/ Once

LEMMA OnceInvariant == Spec => []OnRecord
<1>1. Init => OnRecord
  BY OnceInit DEF OnRecord
<1>2. Structure /\ Durable /\ OnRecord /\ [Next]_vars => OnRecord'
  <2> SUFFICES ASSUME Structure, Durable, OnRecord, [Next]_vars, policy \notin DiskFaults
               PROVE  Once'
    BY PolicyStays DEF OnRecord
  <2> QED BY OnceStep DEF OnRecord, Durable
<1> QED BY <1>1, <1>2, DurabilityInvariant, PTL DEF Spec

\* Once a read that marks handed an event out as new, no later answer hands it
\* out as new, however often live sync and the backfills offer it, and wherever
\* a crash falls between marking it seen, writing the mark and answering (module
\* doc: "new (no session was shown it yet)"), unless the cap evicted it and a
\* restart forgot its id, or its file cannot be written.
THEOREM NotNewAgain == Spec => []NotNewOnceMarked
<1>1. OnRecord => NotNewOnceMarked
  BY DEF OnRecord, Once, NotNewOnceMarked
<1> QED BY <1>1, OnceInvariant, PTL

-----------------------------------------------------------------------------
(* Without the hard cap, only age takes what nobody was shown *)

\* The entries of E are still in A, with whatever marks.
Covers(A, E) == \A e \in E : \E a \in A : a.seq = e.seq /\ a.event = e.event

LEMMA MarksCover ==
  ASSUME NEW E \in EntrySets, NEW S, NEW T, NEW s
  PROVE  Covers(MarkSeen(E, S, s), E) /\ Covers(MarkDone(E, T, s), E) /\ Covers(E, E)
<1>1. ASSUME NEW e \in E
      PROVE  /\ \E f \in MarkSeen(E, S, s) : f.seq = e.seq /\ f.event = e.event
             /\ \E f \in MarkDone(E, T, s) : f.seq = e.seq /\ f.event = e.event
  <2>0. e \in [seq : 1..MaxSeq, event : Events, seenBy : Marker, doneBy : Marker]
    BY DEF EntrySets
  <2> DEFINE f == IF e \in S /\ IsNew(e) THEN [e EXCEPT !.seenBy = s] ELSE e
             g == IF e.seq \in T /\ e.doneBy = Nobody THEN [e EXCEPT !.doneBy = s] ELSE e
  <2>1. f \in MarkSeen(E, S, s) /\ g \in MarkDone(E, T, s)
    BY DEF MarkSeen, MarkDone
  <2>2. f.seq = e.seq /\ f.event = e.event /\ g.seq = e.seq /\ g.event = e.event
    BY <2>0
  <2> HIDE DEF f, g
  <2> QED BY <2>1, <2>2
<1> QED BY <1>1 DEF Covers

\* What a request other than a message makes of the inbox: marks on what enforcement left.
LEMMA RequestRewrites ==
  ASSUME Structure,
         Enforce \/ \E s \in Sessions : ReadInbox(s) \/ WaitForReply(s) \/ MarkProcessed(s)
  PROVE  \E after : Inherits(after, Enforced) /\ Covers(after, Enforced) /\ Rewrite(after) /\ Free
<1>1. CASE Enforce
  BY <1>1, EnforcedTypes DEF Enforce, Covers
<1>2. ASSUME NEW s \in Sessions, NEW states, NEW since, NEW limit, NEW marking \in BOOLEAN,
             Free, HandOut(s, states, since, limit, marking)
      PROVE  \E after : Inherits(after, Enforced) /\ Covers(after, Enforced) /\ Rewrite(after) /\ Free
  <2> DEFINE S == Query(Enforced, states, since, limit)
  <2>1. CASE marking
    <3>1. Rewrite(MarkSeen(Enforced, S, s))
      BY <1>2, <2>1 DEF HandOut
    <3> QED BY <1>2, <3>1, EnforcedTypes, MarkSeenInherits, MarksCover
  <2>2. CASE ~marking
    <3>1. Rewrite(Enforced)
      BY <1>2, <2>2 DEF HandOut
    <3> QED BY <1>2, <3>1, EnforcedTypes DEF Covers
  <2> QED BY <2>1, <2>2
<1>3. ASSUME NEW s \in Sessions, ReadInbox(s) \/ WaitForReply(s)
      PROVE  \E after : Inherits(after, Enforced) /\ Covers(after, Enforced) /\ Rewrite(after) /\ Free
  <2>1. Free
    BY <1>3 DEF ReadInbox, WaitForReply
  <2>2. \E states, since, limit : \E marking \in BOOLEAN : HandOut(s, states, since, limit, marking)
    <3>1. CASE ReadInbox(s)
      BY <3>1 DEF ReadInbox
    <3>2. CASE WaitForReply(s)
      <4>1. TRUE \in BOOLEAN
        OBVIOUS
      <4> QED BY <3>2, <4>1 DEF WaitForReply
    <3> QED BY <1>3, <3>1, <3>2
  <2> QED BY <1>2, <2>1, <2>2
<1>4. ASSUME NEW s \in Sessions, MarkProcessed(s)
      PROVE  \E after : Inherits(after, Enforced) /\ Covers(after, Enforced) /\ Rewrite(after) /\ Free
  <2>1. PICK T : Rewrite(MarkDone(Enforced, T, s)) /\ Free
    BY <1>4 DEF MarkProcessed
  <2> QED BY <2>1, EnforcedTypes, MarkDoneInherits, MarksCover
<1> QED BY <1>1, <1>3, <1>4

\* A message joins the inbox, and the policy is enforced on both.
LEMMA IngestGrows ==
  ASSUME Structure, NEW ev \in Events, Ingest(ev)
  PROVE  \E e : LET grown == entries \cup {e}
                IN  /\ e.event = ev /\ grown \in EntrySets /\ Identified(grown)
                    /\ entries' = Prune(grown, clock)
                    /\ Snapshots' \subseteq {disk.entries, entries'}
                    /\ capped' = capped \cup EventsOf(CapVictims(Retained(grown, clock)))
<1> DEFINE e     == [seq |-> nextSeq, event |-> ev, seenBy |-> Nobody, doneBy |-> Nobody]
           grown == entries \cup {e}
           kept  == Prune(grown, clock)
<1>1. /\ entries' = kept /\ nextSeq <= MaxSeq /\ ev \notin known
      /\ writes' = IF e \in kept \/ kept # grown THEN <<kept>> ELSE <<>>
      /\ capped' = capped \cup EventsOf(CapVictims(Retained(grown, clock))) /\ disk' = disk
  BY DEF Ingest, NoteCapped
<1>2. nextSeq \in 1..MaxSeq /\ e \in [seq : 1..MaxSeq, event : Events, seenBy : Marker, doneBy : Marker]
  BY <1>1, InboxAssumption DEF Structure, TypeOK, Marker
<1>3. e.seq = nextSeq /\ e.event = ev
  OBVIOUS
<1>4. \A f \in entries : f.seq \in Nat /\ f.seq < nextSeq /\ f.event # ev
  <2>1. entries \in EntrySets /\ Below(entries, nextSeq - 1)
    BY SnapshotTypes DEF Snapshots, HighWater
  <2>2. \A f \in entries : f.seq \in Nat /\ f.seq <= nextSeq - 1
    BY <2>1 DEF EntrySets, Below
  <2>3. \A f \in entries : f.event \in known
    BY DEF Structure, Uniqueness, EventsOf
  <2> QED BY <1>1, <1>2, <2>2, <2>3
<1>5. grown \in EntrySets
  BY <1>2 DEF Structure, TypeOK, EntrySets
<1>6. \A f, g \in entries : f.event = g.event \/ f.seq = g.seq => f = g
  BY DEF Structure, Uniqueness, Snapshots, Identified
<1>7. writes' \in {<<kept>>, <<>>}
  BY <1>1
<1> HIDE DEF e, kept
<1>8. Identified(grown)
  BY <1>2, <1>3, <1>4, <1>6 DEF Identified
<1>9. \A i \in DOMAIN writes' : writes'[i] = kept
  BY <1>7
<1>10. Snapshots' \subseteq {disk.entries, entries'}
  BY <1>1, <1>9 DEF Snapshots
<1> QED BY <1>1, <1>3, <1>5, <1>8, <1>10 DEF kept

\* A restart enforces the policy on the file.
LEMMA RestartReads ==
  ASSUME Structure, Restart
  PROVE  /\ entries' = Prune(disk.entries, clock) /\ disk' = disk /\ clock' = clock
         /\ Snapshots' \subseteq {disk.entries, entries'}
         /\ capped' = capped \cup EventsOf(CapVictims(Retained(disk.entries, clock)))
         /\ disk.entries \in EntrySets /\ Identified(disk.entries) /\ disk.entries \in Snapshots
<1>1. /\ entries' = Prune(disk.entries, clock) /\ UNCHANGED <<disk, clock>>
      /\ writes' = Save(disk.entries, Prune(disk.entries, clock))
      /\ capped' = capped \cup EventsOf(CapVictims(Retained(disk.entries, clock)))
  BY DEF Restart, NoteCapped
<1>2. disk.entries \in EntrySets /\ Identified(disk.entries) /\ disk.entries \in Snapshots
  BY SnapshotTypes DEF Snapshots
<1>3. \A i \in DOMAIN writes' : writes'[i] = entries'
  BY <1>1 DEF Save
<1> QED BY <1>1, <1>2, <1>3 DEF Snapshots

\* Every entry held, written or to be written is of a kind the policy accepts.
Lawful == \A E \in Snapshots : \A e \in E : Allowed(e.event)

LEMMA LawfulStep ==
  ASSUME Structure, Lawful, [Next]_vars
  PROVE  Lawful'
<1>0. policy' = policy /\ \A ev : Allowed(ev)' <=> Allowed(ev)
  BY PolicyStays DEF Allowed
<1>s. entries \in Snapshots /\ disk.entries \in Snapshots
  BY DEF Snapshots
<1>1. ASSUME NEW ev \in Events, Ingest(ev) PROVE Lawful'
  <2>1. PICK e : LET grown == entries \cup {e}
                 IN  /\ e.event = ev /\ entries' = Prune(grown, clock)
                     /\ Snapshots' \subseteq {disk.entries, entries'}
    BY <1>1, IngestGrows
  <2>2. Allowed(ev)
    BY <1>1 DEF Ingest
  <2>3. \A f \in entries \cup {e} : Allowed(f.event)
    BY <1>s, <2>1, <2>2 DEF Lawful
  <2>4. entries' \subseteq entries \cup {e}
    BY <2>1, PruneSubset
  <2> QED BY <1>0, <1>s, <2>1, <2>3, <2>4 DEF Lawful
<1>2. ASSUME Enforce \/ \E s \in Sessions : ReadInbox(s) \/ WaitForReply(s) \/ MarkProcessed(s)
      PROVE  Lawful'
  <2>1. PICK after : Inherits(after, Enforced) /\ Rewrite(after)
    BY <1>2, RequestRewrites
  <2>2. /\ Inherits(Enforced, entries) /\ Inherits(after, entries)
        /\ Snapshots' \subseteq {disk.entries, Enforced, after}
    BY <2>1, RewriteKeeps
  <2>3. \A E \in {disk.entries, Enforced, after} : \A e \in E : Allowed(e.event)
    BY <1>s, <2>2, InheritsRead DEF Lawful
  <2> QED BY <1>0, <2>2, <2>3 DEF Lawful
<1>3. CASE Persist
  BY <1>0, <1>3, SnapshotsPersist DEF Lawful
<1>4. CASE Restart
  <2>1. entries' \subseteq disk.entries
    BY <1>4, RestartReads, PruneSubset
  <2> QED BY <1>0, <1>4, <1>s, <2>1, RestartReads DEF Lawful
<1>5. CASE Answer \/ Tick \/ UNCHANGED vars
  <2>1. Snapshots' = Snapshots
    BY <1>5 DEF Answer, Tick, content, vars, Snapshots
  <2> QED BY <1>0, <2>1 DEF Lawful
<1> QED BY <1>1, <1>2, <1>3, <1>4, <1>5 DEF Next, Request

LEMMA LawfulInvariant == Spec => [](Structure /\ Lawful)
<1>1. Init => Lawful
  <2> SUFFICES ASSUME Init PROVE Lawful
    OBVIOUS
  <2>1. \A E \in Snapshots : E = {}
    BY DEF Init, Snapshots
  <2> QED BY <2>1 DEF Lawful
<1>2. Structure /\ Lawful /\ [Next]_vars => Lawful'
  BY LawfulStep
<1> QED BY <1>1, <1>2, StructureInvariant, PTL DEF Spec

\* What enforcement drops of the unread is past the age bound.
LEMMA PruneSparesUnread ==
  ASSUME ~policy.hard_cap, NEW E, NEW now, NEW e \in E, IsNew(e), Allowed(e.event)
  PROVE  e \in Prune(E, now) \/ ~InAge(e.event, now)
BY DEF Prune, Retained, CapVictims, Evictable

\* Without the hard cap, an entry no session was shown leaves the inbox of a
\* running daemon by age alone (prune_at: "without a hard cap only entries a
\* session was shown"), whatever requests, marks and messages come between.
THEOREM UnreadLeavesByAge == Spec => UnreadDroppedOnlyByAge
<1> DEFINE Spared == \A e \in entries :
       ~policy.hard_cap /\ IsNew(e) /\ e.seq \notin {f.seq : f \in entries'}
         /\ restarts' = restarts
       => ~InAge(e.event, clock)
<1>1. ASSUME Structure, Lawful, [Next]_vars PROVE Spared
  <2>s. \A e \in entries : Allowed(e.event)
    BY <1>1 DEF Lawful, Snapshots
  <2>0. restarts \in Nat
    BY <1>1 DEF Structure, TypeOK
  <2>1. ASSUME NEW ev \in Events, Ingest(ev) PROVE Spared
    <3>1. PICK e : entries' = Prune(entries \cup {e}, clock)
      BY <1>1, <2>1, IngestGrows
    <3> QED BY <2>s, <3>1, PruneSparesUnread
  <2>2. ASSUME Enforce \/ \E s \in Sessions : ReadInbox(s) \/ WaitForReply(s) \/ MarkProcessed(s)
        PROVE  Spared
    <3>1. PICK after : Covers(after, Enforced) /\ Rewrite(after)
      BY <1>1, <2>2, RequestRewrites
    <3>2. entries' = after
      BY <3>1 DEF Rewrite
    <3>3. \A e \in entries : ~policy.hard_cap /\ IsNew(e) => e \in Enforced \/ ~InAge(e.event, clock)
      BY <2>s, PruneSparesUnread DEF Enforced
    <3>4. \A e \in Enforced : e.seq \in {f.seq : f \in entries'}
      BY <3>1, <3>2 DEF Covers
    <3> QED BY <3>3, <3>4
  <2>3. CASE Persist \/ Answer \/ Tick \/ UNCHANGED vars
    <3>1. entries' = entries
      BY <2>3 DEF Persist, WriteSeq, WriteEntries, WriteFails, Answer, Tick, content, vars
    <3> QED BY <3>1
  <2>4. CASE Restart
    <3>1. restarts' # restarts
      BY <2>0, <2>4 DEF Restart
    <3> QED BY <3>1
  <2> QED BY <1>1, <2>1, <2>2, <2>3, <2>4 DEF Next, Request
<1>2. Structure /\ Lawful /\ [Next]_vars => [Spared]_vars
  BY <1>1
<1> QED BY <1>2, LawfulInvariant, PTL DEF Spec, UnreadDroppedOnlyByAge

-----------------------------------------------------------------------------
(* The hard cap: who is evicted, and how many are left *)

\* The entries of an inbox are finitely many, as many as their events.
LEMMA EntriesFinite ==
  ASSUME NEW E \in EntrySets, Identified(E)
  PROVE  /\ IsFiniteSet(E) /\ IsFiniteSet(EventsOf(E))
         /\ Cardinality(EventsOf(E)) = Cardinality(E)
<1> DEFINE seqOf == [e \in E |-> e.seq]
           eventOf == [e \in E |-> e.event]
<1>1. seqOf \in Injection(E, 1..MaxSeq)
  BY DEF Injection, IsInjective, EntrySets, Identified
<1>2. IsFiniteSet(1..MaxSeq)
  BY InboxAssumption, FS_Interval DEF InboxAssumption
<1>3. IsFiniteSet(E)
  <2> HIDE DEF seqOf
  <2> QED BY <1>1, <1>2, FS_Injection
<1>4. eventOf \in Surjection(E, EventsOf(E))
  BY DEF Surjection, EventsOf
<1>5. eventOf \in Injection(E, EventsOf(E))
  BY DEF Injection, IsInjective, EventsOf, Identified
<1> HIDE DEF eventOf
<1> QED BY <1>3, <1>4, <1>5, FS_Surjection

\* Part of an inbox is an inbox.
LEMMA PartOf ==
  ASSUME NEW E \in EntrySets, Identified(E), NEW P \in SUBSET E
  PROVE  P \in EntrySets /\ Identified(P) /\ IsFiniteSet(P)
<1>1. P \in EntrySets /\ Identified(P)
  BY DEF EntrySets, Identified
<1> QED BY <1>1, EntriesFinite

Ahead(E, e) == {f \in E : Before(f, e)}
Behind(E, e) == {f \in E : Before(e, f)}

\* With the hard cap, the eviction order is a strict total order.
LEMMA EvictionOrder ==
  ASSUME policy.hard_cap, NEW E \in EntrySets, Identified(E)
  PROVE  /\ \A e, f \in E : e # f => Before(e, f) \/ Before(f, e)
         /\ \A e \in E : ~Before(e, e)
         /\ \A e, f, g \in E : Before(e, f) /\ Before(f, g) => Before(e, g)
<1>1. \A e \in E : e.seq \in Nat /\ Ts[e.event] \in Nat
  BY InboxAssumption DEF InboxAssumption, EntrySets
<1>2. \A e, f \in E : Before(e, f) <=> (Ts[e.event] < Ts[f.event]
                                       \/ (Ts[e.event] = Ts[f.event] /\ e.seq < f.seq))
  <2>1. \A e : (~policy.hard_cap /\ StateOf(e) = "seen") = FALSE
    OBVIOUS
  <2> QED BY <2>1, Zenon DEF Before
<1>3. \A e, f \in E : e.seq = f.seq => e = f
  BY DEF Identified
<1>4. ASSUME NEW e \in E, NEW f \in E, e # f PROVE Before(e, f) \/ Before(f, e)
  <2>1. e.seq \in Nat /\ f.seq \in Nat /\ Ts[e.event] \in Nat /\ Ts[f.event] \in Nat /\ e.seq # f.seq
    BY <1>1, <1>3, <1>4
  <2>2. \/ Ts[e.event] < Ts[f.event] \/ Ts[f.event] < Ts[e.event]
        \/ Ts[e.event] = Ts[f.event] /\ (e.seq < f.seq \/ f.seq < e.seq)
    BY <2>1
  <2> QED BY <1>2, <2>2
<1>5. ASSUME NEW e \in E PROVE ~Before(e, e)
  BY <1>1, <1>2
<1>6. ASSUME NEW e \in E, NEW f \in E, NEW g \in E, Before(e, f), Before(f, g) PROVE Before(e, g)
  BY <1>1, <1>2, <1>6
<1> QED BY <1>4, <1>5, <1>6

\* Some entry is evicted first, and some last.
LEMMA FirstAndLast ==
  ASSUME policy.hard_cap, NEW E \in EntrySets, Identified(E), E # {}
  PROVE  /\ \E e \in E : \A f \in E : f = e \/ Before(e, f)
         /\ \E e \in E : \A f \in E : f = e \/ Before(f, e)
<1>1. IsFiniteSet(E)
  BY EntriesFinite
<1>2. \A T \in SUBSET SUBSET E : T # {} =>
        \E X \in T : \A Y \in T : ~(Y \subseteq X /\ Y # X)
  <2> SUFFICES ASSUME NEW T \in SUBSET SUBSET E, T # {}
               PROVE  \E X \in T : \A Y \in T : ~(Y \subseteq X /\ Y # X)
    OBVIOUS
  <2>1. IsWellFoundedOn(StrictSubsetOrdering(E), SUBSET E)
    BY <1>1, FS_StrictSubsetOrderingWellFounded, FS_FiniteSubsetsOfFinite
  <2>2. PICK X \in T : \A Y \in T : <<Y, X>> \notin StrictSubsetOrdering(E)
    BY <2>1, WFMin
  <2> QED BY <2>2 DEF StrictSubsetOrdering
<1>3. \E e \in E : \A f \in E : f = e \/ Before(e, f)
  <2>1. PICK e \in E : \A f \in E : ~(Ahead(E, f) \subseteq Ahead(E, e) /\ Ahead(E, f) # Ahead(E, e))
    <3> DEFINE T == {Ahead(E, e) : e \in E}
    <3>1. T \in SUBSET SUBSET E /\ T # {}
      BY DEF Ahead
    <3>2. PICK X \in T : \A Y \in T : ~(Y \subseteq X /\ Y # X)
      <4> HIDE DEF T
      <4> QED BY <1>2, <3>1
    <3> QED BY <3>2
  <2>2. ASSUME NEW f \in E, Before(f, e) PROVE FALSE
    <3>1. Ahead(E, f) \subseteq Ahead(E, e)
      BY <2>2, EvictionOrder DEF Ahead
    <3>2. f \in Ahead(E, e) /\ f \notin Ahead(E, f)
      BY <2>2, EvictionOrder DEF Ahead
    <3> QED BY <2>1, <3>1, <3>2
  <2> QED BY <2>2, EvictionOrder
<1>4. \E e \in E : \A f \in E : f = e \/ Before(f, e)
  <2>1. PICK e \in E : \A f \in E : ~(Behind(E, f) \subseteq Behind(E, e) /\ Behind(E, f) # Behind(E, e))
    <3> DEFINE T == {Behind(E, e) : e \in E}
    <3>1. T \in SUBSET SUBSET E /\ T # {}
      BY DEF Behind
    <3>2. PICK X \in T : \A Y \in T : ~(Y \subseteq X /\ Y # X)
      <4> HIDE DEF T
      <4> QED BY <1>2, <3>1
    <3> QED BY <3>2
  <2>2. ASSUME NEW f \in E, Before(e, f) PROVE FALSE
    <3>1. Behind(E, f) \subseteq Behind(E, e)
      BY <2>2, EvictionOrder DEF Behind
    <3>2. f \in Behind(E, e) /\ f \notin Behind(E, f)
      BY <2>2, EvictionOrder DEF Behind
    <3> QED BY <2>1, <3>1, <3>2
  <2> QED BY <2>2, EvictionOrder
<1> QED BY <1>3, <1>4

LEMMA CapIsNat == ASSUME Structure PROVE policy.max_entries \in Nat
  BY InboxAssumption DEF InboxAssumption, InboxPolicy, Structure, TypeOK

\* An entry is evicted when there are max_entries the cap prefers to it.
LEMMA VictimsAre ==
  ASSUME policy.hard_cap, policy.max_entries \in Nat, NEW E \in EntrySets, Identified(E), NEW e \in E
  PROVE  e \in CapVictims(E) <=> Cardinality(Behind(E, e)) >= policy.max_entries
<1>1. IsFiniteSet(Ahead(E, e)) /\ IsFiniteSet(Behind(E, e))
  BY PartOf DEF Ahead, Behind
<1>2. Ahead(E, e) \cap Behind(E, e) = {} /\ e \notin Ahead(E, e) \cup Behind(E, e)
  BY EvictionOrder DEF Ahead, Behind
<1>3. E = (Ahead(E, e) \cup Behind(E, e)) \cup {e}
  BY EvictionOrder DEF Ahead, Behind
<1>4. Cardinality(Ahead(E, e)) \in Nat /\ Cardinality(Behind(E, e)) \in Nat
  BY <1>1, FS_CardinalityType
<1>5. /\ IsFiniteSet(Ahead(E, e) \cup Behind(E, e))
      /\ Cardinality(Ahead(E, e) \cup Behind(E, e)) = Cardinality(Ahead(E, e)) + Cardinality(Behind(E, e))
  <2>1. Cardinality({}) = 0
    BY FS_EmptySet
  <2>2. Cardinality(Ahead(E, e) \cup Behind(E, e))
          = Cardinality(Ahead(E, e)) + Cardinality(Behind(E, e)) - Cardinality(Ahead(E, e) \cap Behind(E, e))
        /\ IsFiniteSet(Ahead(E, e) \cup Behind(E, e))
    BY <1>1, FS_Union
  <2>3. Cardinality(Ahead(E, e) \cap Behind(E, e)) = 0
    BY <1>2, <2>1
  <2> QED BY <1>4, <2>2, <2>3
<1>6. Cardinality(E) = Cardinality(Ahead(E, e)) + Cardinality(Behind(E, e)) + 1
  BY <1>2, <1>3, <1>4, <1>5, FS_AddElement
<1>7. Evictable(E) = E
  BY DEF Evictable
<1>8. e \in CapVictims(E) <=> Cardinality(Ahead(E, e)) + policy.max_entries < Cardinality(E)
  BY <1>7 DEF CapVictims, Ahead
<1> QED BY <1>4, <1>6, <1>8

\* Whatever is preferred to an entry of S is in S too: if S has max_entries, the cap leaves it as many.
LEMMA CapLeaves ==
  ASSUME policy.hard_cap, policy.max_entries \in Nat, NEW E \in EntrySets, Identified(E),
         NEW S \in SUBSET E, \A e \in S : Behind(E, e) \subseteq S,
         Cardinality(S) >= policy.max_entries
  PROVE  Cardinality(S \ CapVictims(E)) >= policy.max_entries
<1> DEFINE V == S \cap CapVictims(E)
<1>1. CASE V = {}
  <2>1. S \ CapVictims(E) = S
    BY <1>1
  <2> QED BY <2>1
<1>2. CASE V # {}
  <2>1. V \in EntrySets /\ Identified(V)
    BY PartOf
  <2>2. PICK v \in V : \A w \in V : w = v \/ Before(w, v)
    BY <1>2, <2>1, FirstAndLast
  <2>3. v \in E /\ V \subseteq E
    OBVIOUS
  <2>4. Behind(E, v) \cap CapVictims(E) = {}
    <3>1. ASSUME NEW w \in Behind(E, v), w \in CapVictims(E) PROVE FALSE
      <4>1. w \in V /\ Before(v, w)
        BY <3>1 DEF Behind
      <4> HIDE DEF V
      <4>2. w \in E
        BY <2>3, <4>1
      <4> QED BY <2>2, <2>3, <4>1, <4>2, EvictionOrder
    <3> QED BY <3>1
  <2>5. Behind(E, v) \subseteq S \ CapVictims(E)
    BY <2>4
  <2>6. Cardinality(Behind(E, v)) >= policy.max_entries
    BY <2>3, VictimsAre
  <2>7. IsFiniteSet(S \ CapVictims(E))
    <3>1. S \ CapVictims(E) \in SUBSET E
      OBVIOUS
    <3> QED BY <3>1, PartOf
  <2>8. /\ Cardinality(Behind(E, v)) \in Nat /\ Cardinality(S \ CapVictims(E)) \in Nat
        /\ Cardinality(Behind(E, v)) <= Cardinality(S \ CapVictims(E))
    <3>1. IsFiniteSet(Behind(E, v))
      BY <2>5, <2>7, FS_Subset
    <3> QED BY <2>5, <2>7, <3>1, FS_Subset, FS_CardinalityType
  <2> QED BY <2>6, <2>8
<1> QED BY <1>1, <1>2

\* The cap leaves no more than max_entries.
LEMMA CapBounds ==
  ASSUME policy.hard_cap, policy.max_entries \in Nat, NEW E \in EntrySets, Identified(E)
  PROVE  Cardinality(E \ CapVictims(E)) <= policy.max_entries
<1> DEFINE P == E \ CapVictims(E)
<1>1. P \in EntrySets /\ Identified(P) /\ IsFiniteSet(P) /\ P \subseteq E
  BY PartOf
<1>2. CASE P = {}
  BY <1>2, FS_EmptySet
<1>3. CASE P # {}
  <2>1. PICK p \in P : \A q \in P : q = p \/ Before(p, q)
    <3> HIDE DEF P
    <3> QED BY <1>1, <1>3, FirstAndLast
  <2>2. P \ {p} \subseteq Behind(E, p)
    BY <2>1 DEF Behind
  <2>3. p \in E /\ ~(Cardinality(Behind(E, p)) >= policy.max_entries)
    BY VictimsAre
  <2>4. IsFiniteSet(Behind(E, p))
    BY <2>3, PartOf DEF Behind
  <2> HIDE DEF P
  <2>5. /\ Cardinality(P \ {p}) = Cardinality(P) - 1 /\ Cardinality(P \ {p}) <= Cardinality(Behind(E, p))
        /\ Cardinality(P) \in Nat /\ Cardinality(Behind(E, p)) \in Nat
    BY <1>1, <2>1, <2>2, <2>4, FS_RemoveElement, FS_Subset, FS_CardinalityType
  <2> QED BY <2>3, <2>5 DEF P
<1> QED BY <1>2, <1>3

LEMMA RetainedPart ==
  ASSUME NEW E \in EntrySets, Identified(E), NEW now
  PROVE  /\ Retained(E, now) \in EntrySets /\ Identified(Retained(E, now)) /\ IsFiniteSet(Retained(E, now))
         /\ Prune(E, now) \in EntrySets /\ Identified(Prune(E, now)) /\ IsFiniteSet(Prune(E, now))
<1>1. Retained(E, now) \in SUBSET E /\ Prune(E, now) \in SUBSET E
  BY DEF Retained, Prune
<1> QED BY <1>1, PartOf

LEMMA PruneBounds ==
  ASSUME Structure, policy.hard_cap, NEW E \in EntrySets, Identified(E), NEW now
  PROVE  Cardinality(Prune(E, now)) <= policy.max_entries
BY RetainedPart, CapIsNat, CapBounds DEF Prune

\* Entries with the same events, or fewer, are as many, or fewer.
LEMMA FewerEvents ==
  ASSUME NEW A \in EntrySets, Identified(A), NEW B \in EntrySets, Identified(B),
         EventsOf(A) \subseteq EventsOf(B)
  PROVE  /\ Cardinality(A) <= Cardinality(B)
         /\ Cardinality(A) \in Nat /\ Cardinality(B) \in Nat
<1>1. /\ IsFiniteSet(EventsOf(B)) /\ IsFiniteSet(A) /\ IsFiniteSet(B)
      /\ Cardinality(EventsOf(A)) = Cardinality(A) /\ Cardinality(EventsOf(B)) = Cardinality(B)
  BY EntriesFinite
<1>2. Cardinality(EventsOf(A)) <= Cardinality(EventsOf(B))
  BY <1>1, FS_Subset
<1> QED BY <1>1, <1>2, FS_CardinalityType

LEMMA CapStep ==
  ASSUME Structure, HardCapHolds, [Next]_vars
  PROVE  HardCapHolds'
<1> SUFFICES ASSUME policy.hard_cap PROVE Cardinality(entries') <= policy.max_entries
  BY PolicyStays DEF HardCapHolds
<1>1. ASSUME NEW ev \in Events, Ingest(ev) PROVE Cardinality(entries') <= policy.max_entries
  <2>1. PICK e : /\ entries \cup {e} \in EntrySets /\ Identified(entries \cup {e})
                 /\ entries' = Prune(entries \cup {e}, clock)
    BY <1>1, IngestGrows
  <2> QED BY <2>1, PruneBounds
<1>2. ASSUME Enforce \/ \E s \in Sessions : ReadInbox(s) \/ WaitForReply(s) \/ MarkProcessed(s)
      PROVE  Cardinality(entries') <= policy.max_entries
  <2>1. PICK after : Inherits(after, Enforced) /\ Rewrite(after)
    BY <1>2, RequestRewrites
  <2>2. entries' = after
    BY <2>1 DEF Rewrite
  <2>3. entries \in EntrySets /\ Identified(entries)
    BY SnapshotTypes DEF Snapshots
  <2>4. /\ Enforced \in EntrySets /\ Identified(Enforced)
        /\ Cardinality(Enforced) <= policy.max_entries
    BY <2>3, RetainedPart, PruneBounds DEF Enforced
  <2>5. after \in EntrySets /\ Identified(after) /\ EventsOf(after) \subseteq EventsOf(Enforced)
    BY <2>1, <2>4, InheritsKeeps DEF Inherits
  <2>6. /\ Cardinality(after) <= Cardinality(Enforced)
        /\ Cardinality(after) \in Nat /\ Cardinality(Enforced) \in Nat
    BY <2>4, <2>5, FewerEvents
  <2> QED BY <2>2, <2>4, <2>6, CapIsNat
<1>3. CASE Restart
  BY <1>3, RestartReads, PruneBounds
<1>4. CASE Persist \/ Answer \/ Tick \/ UNCHANGED vars
  <2>1. entries' = entries
    BY <1>4 DEF Persist, WriteSeq, WriteEntries, WriteFails, Answer, Tick, content, vars
  <2> QED BY <2>1 DEF HardCapHolds
<1> QED BY <1>1, <1>2, <1>3, <1>4 DEF Next, Request

\* With the hard cap the inbox never holds more than max_entries after a message,
\* a request or a restart (prune_at drops the first `excess` of its order, which
\* ties and marks do not disturb): it is bounded however many messages come.
THEOREM CapHolds == Spec => []HardCapHolds
<1>1. Init => HardCapHolds
  <2> SUFFICES ASSUME Init PROVE HardCapHolds
    OBVIOUS
  <2>1. policy.max_entries \in Nat /\ entries = {}
    BY InboxAssumption DEF Init, InboxAssumption, InboxPolicy
  <2> QED BY <2>1, FS_EmptySet DEF HardCapHolds
<1>2. Structure /\ HardCapHolds /\ [Next]_vars => HardCapHolds'
  BY CapStep
<1> QED BY <1>1, <1>2, StructureInvariant, PTL DEF Spec

-----------------------------------------------------------------------------
(* An evicted event that is offered again displaces nothing *)

\* Server timestamps tell events apart: prune_at breaks ties by seq, which a
\* message offered again gets anew.
Distinct == \A e, f \in Events : Ts[e] = Ts[f] => e = f

Newer(E, ev) == {f \in E : Ts[f.event] > Ts[ev]}

\* An event E does not hold, and might take in again, would be over the cap of E.
Over(E, ev) == InAge(ev, clock) /\ ev \notin EventsOf(E) => Cardinality(Newer(E, ev)) >= policy.max_entries

Displaced ==
  policy.hard_cap => \A E \in Snapshots : \A ev \in capped : Over(E, ev)

\* Who comes behind an entry is newer than it.
LEMMA BehindIsNewer ==
  ASSUME Distinct, policy.hard_cap, NEW E \in EntrySets, Identified(E), NEW e \in E
  PROVE  Behind(E, e) = Newer(E, e.event)
<1>1. \A f \in E : Ts[f.event] \in Nat /\ f.event \in Events
  BY InboxAssumption DEF InboxAssumption, EntrySets
<1>2. \A f \in E : Before(e, f) <=> (Ts[e.event] < Ts[f.event]
                                      \/ (Ts[e.event] = Ts[f.event] /\ e.seq < f.seq))
  <2>1. \A x : (~policy.hard_cap /\ StateOf(x) = "seen") = FALSE
    OBVIOUS
  <2> QED BY <2>1, Zenon DEF Before
<1>3. \A f \in E : Ts[e.event] = Ts[f.event] => f = e
  BY <1>1 DEF Distinct, Identified
<1>4. e.seq \in Nat
  BY DEF EntrySets
<1>5. ASSUME NEW f \in E PROVE Before(e, f) <=> Ts[f.event] > Ts[e.event]
  BY <1>1, <1>2, <1>3, <1>4
<1> QED BY <1>5 DEF Behind, Newer

LEMMA NewerClosed ==
  ASSUME Distinct, policy.hard_cap, NEW E \in EntrySets, Identified(E), NEW ev \in Events
  PROVE  Newer(E, ev) \in SUBSET E /\ \A e \in Newer(E, ev) : Behind(E, e) \subseteq Newer(E, ev)
<1>1. \A f \in E : Ts[f.event] \in Nat /\ Ts[ev] \in Nat
  BY InboxAssumption DEF InboxAssumption, EntrySets
<1>2. ASSUME NEW e \in Newer(E, ev), NEW f \in Behind(E, e) PROVE f \in Newer(E, ev)
  <2>1. e \in E /\ Ts[e.event] > Ts[ev]
    BY DEF Newer
  <2>2. f \in E /\ Ts[f.event] > Ts[e.event]
    BY <2>1, BehindIsNewer DEF Newer
  <2> QED BY <1>1, <2>1, <2>2 DEF Newer
<1> QED BY <1>2 DEF Newer

\* The policy retains what is newer than a message of age.
LEMMA NewerRetained ==
  ASSUME Structure, NEW E \in EntrySets, \A e \in E : Allowed(e.event), NEW ev \in Events, InAge(ev, clock)
  PROVE  Newer(Retained(E, clock), ev) = Newer(E, ev)
<1>1. \A f \in E : Ts[f.event] \in Nat /\ Ts[ev] \in Nat
  BY InboxAssumption DEF InboxAssumption, EntrySets
<1>2. Cutoff(clock) \in Nat
  <2>1. policy.max_age \in Nat /\ clock \in Nat
    BY InboxAssumption DEF InboxAssumption, InboxPolicy, Structure, TypeOK
  <2> QED BY <2>1 DEF Cutoff
<1>3. ASSUME NEW f \in E, Ts[f.event] > Ts[ev] PROVE InAge(f.event, clock)
  BY <1>1, <1>2, <1>3 DEF InAge
<1> QED BY <1>3 DEF Newer, Retained

\* Enforcement keeps evicted events over the cap, those it evicts included.
LEMMA PruneOver ==
  ASSUME Distinct, Structure, policy.hard_cap, NEW E \in EntrySets, Identified(E),
         \A e \in E : Allowed(e.event), NEW ev \in Events, Over(E, ev)
  PROVE  Over(Prune(E, clock), ev)
<1> SUFFICES ASSUME InAge(ev, clock), ev \notin EventsOf(Prune(E, clock))
             PROVE  Cardinality(Newer(Prune(E, clock), ev)) >= policy.max_entries
  BY DEF Over
<1> DEFINE R == Retained(E, clock)
<1>1. R \in EntrySets /\ Identified(R)
  BY RetainedPart
<1>2. Newer(R, ev) = Newer(E, ev)
  BY NewerRetained
<1>3. policy.max_entries \in Nat
  BY CapIsNat
<1>4. Cardinality(Newer(R, ev)) >= policy.max_entries
  <2>1. CASE ev \in EventsOf(E)
    <3>1. PICK e \in E : e.event = ev
      BY <2>1 DEF EventsOf
    <3>2. e \in R /\ e \notin Prune(E, clock)
      BY <3>1 DEF Retained, EventsOf
    <3>3. e \in CapVictims(R)
      BY <3>2 DEF Prune
    <3> HIDE DEF R
    <3> QED BY <1>1, <1>3, <3>1, <3>2, <3>3, VictimsAre, BehindIsNewer
  <2>2. CASE ev \notin EventsOf(E)
    BY <1>2, <2>2 DEF Over
  <2> QED BY <2>1, <2>2
<1>5. Newer(Prune(E, clock), ev) = Newer(R, ev) \ CapVictims(R)
  BY DEF Newer, Prune
<1> HIDE DEF R
<1> QED BY <1>1, <1>3, <1>4, <1>5, NewerClosed, CapLeaves

\* Marks change nothing of it.
LEMMA MarksOver ==
  ASSUME NEW A, NEW B \in EntrySets, Identified(B), Inherits(A, B), Covers(A, B), policy.max_entries \in Nat,
         NEW ev, Over(B, ev)
  PROVE  Over(A, ev)
<1>1. A \in EntrySets /\ Identified(A) /\ EventsOf(A) \subseteq EventsOf(B)
  BY InheritsKeeps DEF Inherits
<1>2. EventsOf(B) \subseteq EventsOf(A)
  BY DEF Covers, EventsOf
<1>3. EventsOf(Newer(B, ev)) \subseteq EventsOf(Newer(A, ev))
  BY DEF Covers, EventsOf, Newer
<1>4. /\ Newer(A, ev) \in EntrySets /\ Identified(Newer(A, ev))
      /\ Newer(B, ev) \in EntrySets /\ Identified(Newer(B, ev))
  <2>1. Newer(A, ev) \in SUBSET A /\ Newer(B, ev) \in SUBSET B
    BY DEF Newer
  <2> QED BY <1>1, <2>1, PartOf
<1>5. /\ Cardinality(Newer(B, ev)) <= Cardinality(Newer(A, ev))
      /\ Cardinality(Newer(B, ev)) \in Nat /\ Cardinality(Newer(A, ev)) \in Nat
  BY <1>3, <1>4, FewerEvents
<1> QED BY <1>2, <1>5 DEF Over

\* The rules and the cap stay what they are while neither clock nor policy moves.
LEMMA SameOver ==
  ASSUME policy' = policy, clock' = clock
  PROVE  \A E, ev : Over(E, ev)' <=> Over(E, ev)
BY SameRules DEF Over, Newer

LEMMA DisplacedRewrite ==
  ASSUME Distinct, Structure, Durability, Lawful, Displaced, policy.hard_cap,
         NEW after, Inherits(after, Enforced), Covers(after, Enforced), Rewrite(after), Free
  PROVE  Displaced'
<1>1. /\ capped' = capped \cup EventsOf(CapVictims(Retained(entries, clock)))
      /\ UNCHANGED <<policy, clock>>
  BY DEF Rewrite, NoteCapped
<1>2. /\ Snapshots' \subseteq {entries, Enforced, after}
      /\ entries \in Snapshots /\ entries \in EntrySets /\ Identified(entries)
  <2>1. disk.entries = entries /\ entries \in Snapshots
    BY DEF Free, Durability, Snapshots
  <2> QED BY <2>1, RewriteKeeps, SnapshotTypes
<1>3. ASSUME NEW ev \in capped' PROVE ev \in Events /\ Over(entries, ev)
  <2>1. CASE ev \in capped
    BY <1>2, <2>1 DEF Displaced, Structure, TypeOK
  <2>2. CASE ev \in EventsOf(CapVictims(Retained(entries, clock)))
    <3>1. ev \in EventsOf(entries)
      BY <2>2 DEF EventsOf, CapVictims, Evictable, Retained
    <3>2. ev \in Events
      BY <1>2, <3>1 DEF EventsOf, EntrySets
    <3> QED BY <3>1, <3>2 DEF Over
  <2> QED BY <1>1, <1>3, <2>1, <2>2
<1>4. \A e \in entries : Allowed(e.event)
  BY <1>2 DEF Lawful
<1>5. ASSUME NEW ev \in capped' PROVE Over(Enforced, ev)
  BY <1>2, <1>3, <1>4, PruneOver DEF Enforced
<1>6. Enforced \in EntrySets /\ Identified(Enforced)
  BY <1>2, RetainedPart DEF Enforced
<1>7. ASSUME NEW ev \in capped' PROVE Over(after, ev)
  BY <1>5, <1>6, CapIsNat, MarksOver
<1>8. \A E \in Snapshots' : \A ev \in capped' : Over(E, ev)
  BY <1>2, <1>3, <1>5, <1>7
<1>9. \A E \in Snapshots' : \A ev \in capped' : Over(E, ev)'
  BY <1>1, <1>8, SameOver
<1> QED BY <1>9 DEF Displaced

LEMMA DisplacedIngest ==
  ASSUME Distinct, Structure, Durability, Lawful, Displaced, policy.hard_cap,
         NEW ev \in Events, Ingest(ev)
  PROVE  /\ Displaced'
         /\ ev \in capped => ev \notin EventsOf(entries')
<1>1. PICK e : LET grown == entries \cup {e}
               IN  /\ e.event = ev /\ grown \in EntrySets /\ Identified(grown)
                   /\ entries' = Prune(grown, clock)
                   /\ Snapshots' \subseteq {disk.entries, entries'}
                   /\ capped' = capped \cup EventsOf(CapVictims(Retained(grown, clock)))
  BY IngestGrows
<1> DEFINE grown == entries \cup {e}
           R     == Retained(grown, clock)
<1>2. /\ UNCHANGED <<policy, clock>> /\ writes = <<>> /\ Allowed(ev) /\ InAge(ev, clock) /\ ev \notin known
  BY DEF Ingest, Free
<1>3. /\ disk.entries = entries /\ entries \in Snapshots /\ entries \in EntrySets /\ Identified(entries)
      /\ ev \notin EventsOf(entries)
  <2>1. disk.entries = entries /\ entries \in Snapshots
    BY <1>2 DEF Durability, Snapshots
  <2> QED BY <1>2, <2>1, SnapshotTypes DEF Structure, Uniqueness
<1>4. \A f \in grown : Allowed(f.event)
  BY <1>1, <1>2, <1>3 DEF Lawful
<1>5. /\ grown \in EntrySets /\ Identified(grown) /\ R \in EntrySets /\ Identified(R)
      /\ policy.max_entries \in Nat
  BY <1>1, RetainedPart, CapIsNat
<1>6. \A x \in Events : /\ Newer(entries, x) \subseteq Newer(grown, x)
                        /\ Cardinality(Newer(entries, x)) <= Cardinality(Newer(grown, x))
                        /\ Cardinality(Newer(entries, x)) \in Nat /\ Cardinality(Newer(grown, x)) \in Nat
  <2>1. ASSUME NEW x \in Events
        PROVE  IsFiniteSet(Newer(grown, x)) /\ Newer(entries, x) \subseteq Newer(grown, x)
    <3>1. Newer(grown, x) \in SUBSET grown /\ Newer(entries, x) \subseteq Newer(grown, x)
      BY DEF Newer
    <3> HIDE DEF grown
    <3> QED BY <1>5, <3>1, PartOf
  <2> HIDE DEF grown
  <2> QED BY <2>1, FS_Subset, FS_CardinalityType
<1>7. e \in R
  BY <1>1, <1>2 DEF Retained
<1>8. Behind(R, e) = Newer(entries, ev)
  <2>1. Behind(R, e) = Newer(R, ev)
    <3> HIDE DEF R
    <3> QED BY <1>1, <1>5, <1>7, BehindIsNewer
  <2>2. Newer(R, ev) = Newer(grown, ev)
    <3> HIDE DEF grown
    <3> QED BY <1>2, <1>4, <1>5, NewerRetained
  <2>3. Newer(grown, ev) = Newer(entries, ev)
    <3>1. Ts[ev] \in Nat
      BY InboxAssumption DEF InboxAssumption
    <3>2. ~(Ts[e.event] > Ts[ev])
      BY <1>1, <3>1
    <3> QED BY <3>2 DEF Newer
  <2> QED BY <2>1, <2>2, <2>3
<1>9. e \in CapVictims(R) <=> Cardinality(Newer(entries, ev)) >= policy.max_entries
  <2> HIDE DEF R
  <2> QED BY <1>5, <1>7, <1>8, VictimsAre
<1>10. ASSUME NEW x \in capped' PROVE x \in Events /\ Over(entries, x) /\ Over(grown, x)
  <2>1. CASE x \in capped
    <3>1. x \in Events /\ Over(entries, x)
      BY <1>3, <2>1 DEF Displaced, Structure, TypeOK
    <3>2. EventsOf(entries) \subseteq EventsOf(grown)
      BY DEF EventsOf
    <3> QED BY <1>5, <1>6, <3>1, <3>2 DEF Over
  <2>2. CASE x \in EventsOf(CapVictims(R))
    <3>1. PICK f \in CapVictims(R) : f.event = x
      BY <2>2 DEF EventsOf
    <3>2. f \in grown
      BY DEF CapVictims, Evictable, Retained
    <3>3. x \in EventsOf(grown) /\ x \in Events
      BY <1>5, <3>1, <3>2 DEF EventsOf, EntrySets
    <3>4. x \in EventsOf(entries) \/ (f = e /\ x = ev)
      BY <1>1, <3>1, <3>2 DEF EventsOf
    <3>5. Over(entries, x)
      BY <1>9, <3>1, <3>4 DEF Over
    <3> QED BY <3>3, <3>5 DEF Over
  <2> QED BY <1>1, <1>10, <2>1, <2>2
<1>11. \A x \in capped' : Over(entries, x) /\ Over(entries', x)
  <2>1. ASSUME NEW x \in capped' PROVE Over(entries', x)
    <3> HIDE DEF grown
    <3>1. entries' = Prune(grown, clock)
      BY <1>1 DEF grown
    <3> QED BY <1>4, <1>5, <1>10, <3>1, PruneOver
  <2> QED BY <1>10, <2>1
<1>12. \A E \in Snapshots' : \A x \in capped' : Over(E, x)'
  BY <1>1, <1>2, <1>3, <1>11, SameOver
<1>13. ASSUME ev \in capped PROVE ev \notin EventsOf(entries')
  <2>1. Cardinality(Newer(entries, ev)) >= policy.max_entries
    BY <1>2, <1>3, <1>13 DEF Displaced, Over
  <2>2. e \notin entries'
    BY <1>1, <1>9, <2>1 DEF Prune
  <2>3. entries' \subseteq grown
    BY <1>1, PruneSubset
  <2> QED BY <1>3, <2>2, <2>3 DEF EventsOf
<1> QED BY <1>12, <1>13 DEF Displaced

LEMMA DisplacedRestart ==
  ASSUME Distinct, Structure, Lawful, Displaced, policy.hard_cap, Restart
  PROVE  Displaced'
<1> DEFINE D == disk.entries
<1>1. /\ entries' = Prune(D, clock) /\ Snapshots' \subseteq {D, entries'}
      /\ capped' = capped \cup EventsOf(CapVictims(Retained(D, clock)))
      /\ D \in EntrySets /\ Identified(D) /\ D \in Snapshots
      /\ UNCHANGED <<policy, clock>>
  BY RestartReads DEF Restart
<1>2. \A e \in D : Allowed(e.event)
  BY <1>1 DEF Lawful
<1>3. ASSUME NEW ev \in capped' PROVE ev \in Events /\ Over(D, ev)
  <2>1. CASE ev \in capped
    BY <1>1, <2>1 DEF Displaced, Structure, TypeOK
  <2>2. CASE ev \in EventsOf(CapVictims(Retained(D, clock)))
    <3>1. ev \in EventsOf(D)
      BY <2>2 DEF EventsOf, CapVictims, Evictable, Retained
    <3>2. ev \in Events
      BY <1>1, <3>1 DEF EventsOf, EntrySets
    <3> QED BY <3>1, <3>2 DEF Over
  <2> QED BY <1>1, <1>3, <2>1, <2>2
<1> HIDE DEF D
<1>4. ASSUME NEW ev \in capped' PROVE Over(entries', ev)
  BY <1>1, <1>2, <1>3, PruneOver
<1>5. \A E \in Snapshots' : \A ev \in capped' : Over(E, ev)'
  BY <1>1, <1>3, <1>4, SameOver
<1> QED BY <1>5 DEF Displaced

\* A file write, an answer and time bring no new snapshot and evict nothing.
LEMMA DisplacedKept ==
  ASSUME Structure, Displaced, Persist \/ Answer \/ Tick \/ UNCHANGED vars
  PROVE  Displaced'
<1>1. Snapshots' \subseteq Snapshots /\ policy' = policy /\ capped' = capped
  <2>1. CASE Persist
    BY <2>1, SnapshotsPersist DEF Persist, WriteSeq, WriteEntries, WriteFails, content, history
  <2>2. CASE Answer \/ Tick \/ UNCHANGED vars
    BY <2>2 DEF Answer, Tick, content, history, vars, Snapshots
  <2> QED BY <2>1, <2>2
<1>2. clock' = clock \/ clock' = clock + 1
  BY DEF Persist, WriteSeq, WriteEntries, WriteFails, Answer, Tick, vars
<1>3. \A ev \in Events : InAge(ev, clock)' => InAge(ev, clock)
  <2>1. CASE clock' = clock
    BY <1>1, <2>1, SameRules
  <2>2. CASE clock' = clock + 1
    <3>1. policy.max_age \in Nat /\ clock \in Nat /\ \A ev \in Events : Ts[ev] \in Nat
      BY InboxAssumption DEF InboxAssumption, InboxPolicy, Structure, TypeOK
    <3>2. Cutoff(clock)' >= Cutoff(clock) /\ Cutoff(clock)' \in Nat /\ Cutoff(clock) \in Nat
      BY <1>1, <2>2, <3>1 DEF Cutoff
    <3> HIDE DEF Cutoff
    <3> QED BY <3>1, <3>2 DEF InAge
  <2> QED BY <1>2, <2>1, <2>2
<1>4. \A E : \A ev \in Events : Over(E, ev) => Over(E, ev)'
  BY <1>1, <1>3 DEF Over, Newer
<1>5. capped \subseteq Events
  BY DEF Structure, TypeOK
<1> QED BY <1>1, <1>4, <1>5 DEF Displaced

\* Evicted events stay over the cap, in an inbox whose files can be written.
StaysOver == policy \in DiskFaults \/ Displaced

LEMMA DisplacedInvariant ==
  ASSUME Distinct
  PROVE  Spec => [](Structure /\ Durable /\ Lawful /\ StaysOver)
<1>1. Init => StaysOver
  BY DEF Init, StaysOver, Displaced
<1>2. Structure /\ Durable /\ Lawful /\ StaysOver /\ [Next]_vars => StaysOver'
  <2> SUFFICES ASSUME Structure, Durable, Lawful, StaysOver, [Next]_vars, policy \notin DiskFaults
               PROVE  Displaced'
    BY PolicyStays DEF StaysOver
  <2>1. Durability /\ Displaced
    BY DEF Durable, StaysOver
  <2>2. CASE ~policy.hard_cap
    BY <2>2, PolicyStays DEF Displaced
  <2>3. CASE policy.hard_cap
    <3>1. ASSUME NEW ev \in Events, Ingest(ev) PROVE Displaced'
      BY <2>1, <2>3, <3>1, DisplacedIngest
    <3>2. ASSUME Enforce \/ \E s \in Sessions : ReadInbox(s) \/ WaitForReply(s) \/ MarkProcessed(s)
          PROVE  Displaced'
      BY <2>1, <2>3, <3>2, RequestRewrites, DisplacedRewrite
    <3>3. CASE Restart
      BY <2>1, <2>3, <3>3, DisplacedRestart
    <3>4. CASE Persist \/ Answer \/ Tick \/ UNCHANGED vars
      BY <2>1, <3>4, DisplacedKept
    <3> QED BY <3>1, <3>2, <3>3, <3>4 DEF Next, Request
  <2> QED BY <2>2, <2>3
<1> QED BY <1>1, <1>2, DurabilityInvariant, LawfulInvariant, PTL DEF Spec

\* A message the hard cap evicted and a backfill offers again is evicted again and
\* displaces nothing (prune_at: "so a re-offered evicted event is evicted
\* again"): max_entries newer ones were left when it went, and enforcement takes
\* older ones first, for every set of events with distinct server timestamps.
THEOREM EvictedStaysOut ==
  ASSUME Distinct
  PROVE  Spec => ReofferedStaysEvicted
<1> DEFINE Stays == \A ev \in capped :
       policy.hard_cap /\ policy \notin DiskFaults
         /\ ev \notin EventsOf(entries) /\ ev \in EventsOf(entries')
         /\ restarts' = restarts
       => \A e \in entries : InAge(e.event, clock) => e \in entries'
<1>1. ASSUME Structure, Durable, Lawful, StaysOver, [Next]_vars PROVE Stays
  <2> SUFFICES ASSUME NEW ev \in capped, policy.hard_cap, policy \notin DiskFaults,
                      ev \notin EventsOf(entries), ev \in EventsOf(entries'), restarts' = restarts
               PROVE  FALSE
    OBVIOUS
  <2>1. Durability /\ Displaced
    BY <1>1 DEF Durable, StaysOver
  <2>2. ASSUME NEW x \in Events, Ingest(x) PROVE FALSE
    <3>1. PICK e : e.event = x /\ entries' = Prune(entries \cup {e}, clock)
      BY <1>1, <2>2, IngestGrows
    <3>2. entries' \subseteq entries \cup {e}
      BY <3>1, PruneSubset
    <3>3. ev = x
      BY <3>1, <3>2 DEF EventsOf
    <3>4. x \notin EventsOf(entries')
      BY <1>1, <2>1, <2>2, <3>3, DisplacedIngest
    <3> QED BY <3>3, <3>4
  <2>3. ASSUME Enforce \/ \E s \in Sessions : ReadInbox(s) \/ WaitForReply(s) \/ MarkProcessed(s)
        PROVE  FALSE
    <3>1. PICK after : Inherits(after, Enforced) /\ Rewrite(after)
      BY <1>1, <2>3, RequestRewrites
    <3>2. Inherits(after, entries) /\ entries' = after
      BY <1>1, <3>1, RewriteKeeps DEF Rewrite
    <3> QED BY <3>2, InheritsKeeps
  <2>4. CASE Restart
    BY <1>1, <2>4 DEF Restart, Structure, TypeOK
  <2>5. CASE Persist \/ Answer \/ Tick \/ UNCHANGED vars
    BY <2>5 DEF Persist, WriteSeq, WriteEntries, WriteFails, Answer, Tick, content, vars
  <2> QED BY <1>1, <2>2, <2>3, <2>4, <2>5 DEF Next, Request
<1>2. Structure /\ Durable /\ Lawful /\ StaysOver /\ [Next]_vars => [Stays]_vars
  BY <1>1
<1> QED BY <1>2, DisplacedInvariant, PTL DEF Spec, ReofferedStaysEvicted

=============================================================================
