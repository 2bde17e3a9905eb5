---------------------------- MODULE AccessProofs -----------------------------
(***************************************************************************)
(* The lists in force are those of the file, requests are granted by the   *)
(* file, and a fetch serves the entry's own attachment: for every          *)
(* allow-list file, every inbox and any number of requests, edits and      *)
(* mishaps of Access.                                                      *)
(***************************************************************************)
EXTENDS Access, SequenceTheorems, TLAPS

\* A list in memory has the fields of AllowList, and flags that are true or false.
ListLike(l) ==
  /\ l = [people |-> l.people, rooms |-> l.rooms, observers |-> l.observers, ever |-> l.ever,
          stamp |-> l.stamp, broken |-> l.broken, refused |-> l.refused, loaded |-> l.loaded]
  /\ l.broken \in BOOLEAN /\ l.refused \in BOOLEAN /\ l.loaded \in BOOLEAN

\* The lists are the built-in recipients' alone.
BuiltIn(l) == l.people = fixed /\ l.rooms = <<>> /\ l.observers = <<>>

-----------------------------------------------------------------------------
(* What a load makes of a list *)

LEMMA UnloadedIs ==
  ASSUME NEW n, NEW stamp, n = [Unloaded(fixed) EXCEPT !.stamp = stamp]
  PROVE  ListLike(n) /\ BuiltIn(n) /\ n.stamp = stamp /\ n.broken = FALSE /\ n.loaded = FALSE
BY DEF Unloaded, ListLike, BuiltIn

LEMMA ClosedIs ==
  ASSUME NEW l, ListLike(l), NEW n, n = Closed(l, fixed)
  PROVE  /\ ListLike(n) /\ BuiltIn(n) /\ n.stamp = l.stamp
         /\ n.broken = l.broken /\ n.refused = l.refused /\ n.loaded = l.loaded
BY DEF Closed, ListLike, BuiltIn

LEMMA GoodIs ==
  ASSUME NEW l, ListLike(l), NEW f, NEW n, n = GoodLoad(l, f, fixed)
  PROVE  /\ ListLike(n) /\ n.stamp = l.stamp
         /\ n.people = Recipients(f, fixed) /\ n.rooms = f.rooms /\ n.observers = f.observers
         /\ n.broken = FALSE /\ n.refused = FALSE /\ n.loaded = TRUE
BY DEF GoodLoad, ListLike

LEMMA BrokenIs ==
  ASSUME NEW l, ListLike(l), NEW n, n = BrokenLoad(l, fixed)
  PROVE  ListLike(n) /\ BuiltIn(n) /\ n.stamp = l.stamp /\ n.broken = TRUE /\ n.refused = FALSE
<1> DEFINE c == Closed(l, fixed)
<1>1. ListLike(c) /\ BuiltIn(c) /\ c.stamp = l.stamp
  BY ClosedIs
<1>2. n = [c EXCEPT !.refused = FALSE, !.broken = TRUE]
  BY DEF BrokenLoad
<1> HIDE DEF c
<1> QED BY <1>1, <1>2 DEF ListLike, BuiltIn

LEMMA OwnerIs ==
  ASSUME NEW l, ListLike(l), NEW n, n = OwnerOnly(l, fixed)
  PROVE  /\ ListLike(n) /\ BuiltIn(n) /\ n.stamp = l.stamp
         /\ n.broken = FALSE /\ n.refused = FALSE /\ n.loaded = TRUE
<1> DEFINE c == Closed(l, fixed)
<1>1. ListLike(c) /\ BuiltIn(c) /\ c.stamp = l.stamp
  BY ClosedIs
<1>2. n = [c EXCEPT !.refused = FALSE, !.broken = FALSE, !.loaded = TRUE]
  BY DEF OwnerOnly
<1> HIDE DEF c
<1> QED BY <1>1, <1>2 DEF ListLike, BuiltIn

\* A file with a bad observer row changes no list that is good, and closes another.
LEMMA RefusedIs ==
  ASSUME NEW l, ListLike(l), NEW n, n = RefusedLoad(l, fixed)
  PROVE  /\ ListLike(n) /\ n.stamp = l.stamp /\ n.refused = TRUE /\ n.loaded = l.loaded
         /\ Keeps(l) => n.people = l.people /\ n.rooms = l.rooms /\ n.observers = l.observers
                        /\ n.broken = FALSE
         /\ ~Keeps(l) => BuiltIn(n) /\ n.broken = TRUE
<1>1. CASE Keeps(l)
  <2>1. n = [l EXCEPT !.refused = TRUE]
    BY <1>1 DEF RefusedLoad
  <2> QED BY <2>1, <1>1 DEF ListLike, Keeps
<1>2. CASE ~Keeps(l)
  <2> DEFINE c == Closed(l, fixed)
  <2>1. ListLike(c) /\ BuiltIn(c) /\ c.stamp = l.stamp /\ c.loaded = l.loaded
    BY ClosedIs
  <2>2. n = [c EXCEPT !.refused = TRUE, !.broken = TRUE]
    BY <1>2 DEF RefusedLoad
  <2> HIDE DEF c
  <2> QED BY <1>2, <2>1, <2>2 DEF ListLike, BuiltIn
<1> QED BY <1>1, <1>2

-----------------------------------------------------------------------------
(* A list follows the last file that decided about it *)

Sound(d) == d.verdict = "good" \/ (d.verdict = "absent" /\ fixed # <<>>)

Follows(l, d) ==
  /\ l.people = IF d.verdict = "good" THEN Recipients(d.file, fixed) ELSE fixed
  /\ l.rooms = IF d.verdict = "good" THEN d.file.rooms ELSE <<>>
  /\ l.observers = IF d.verdict = "good" THEN d.file.observers ELSE <<>>
  /\ d.verdict = "good" => l.loaded = TRUE /\ l.broken = FALSE
  /\ l.loaded = TRUE /\ l.broken = FALSE => Sound(d)

\* The file that decides once f has been read.
Decides(f, d) == IF Verdict(f, fixed) = "observer" THEN d ELSE [verdict |-> Verdict(f, fixed), file |-> f]

LEMMA LoadFollows ==
  ASSUME NEW l, NEW d, ListLike(l), Follows(l, d), NEW f, NEW n, n = Load(l, f)
  PROVE  /\ ListLike(n) /\ n.stamp = l.stamp
         /\ Follows(n, Decides(f, d))
         /\ n.loaded = TRUE \/ n.broken = TRUE
         /\ n.refused = TRUE <=> Verdict(f, fixed) = "observer"
<1> DEFINE v == Verdict(f, fixed)
           e == [verdict |-> v, file |-> f]
<1>1. CASE v = "good"
  <2>1. n = GoodLoad(l, f, fixed)
    BY <1>1 DEF Load
  <2>2. /\ ListLike(n) /\ n.stamp = l.stamp
        /\ n.people = Recipients(f, fixed) /\ n.rooms = f.rooms /\ n.observers = f.observers
        /\ n.broken = FALSE /\ n.refused = FALSE /\ n.loaded = TRUE
    BY <2>1, GoodIs
  <2>3. Decides(f, d) = e /\ e.verdict = "good" /\ e.file = f
    BY <1>1 DEF Decides
  <2> HIDE DEF e
  <2>4. Follows(n, e)
    BY <2>2, <2>3 DEF Follows, Sound
  <2> QED BY <1>1, <2>2, <2>3, <2>4
<1>2. CASE v = "observer"
  <2>1. n = RefusedLoad(l, fixed) /\ Decides(f, d) = d
    BY <1>2 DEF Load, Decides
  <2>2. /\ ListLike(n) /\ n.stamp = l.stamp /\ n.refused = TRUE /\ n.loaded = l.loaded
        /\ Keeps(l) => n.people = l.people /\ n.rooms = l.rooms /\ n.observers = l.observers
                       /\ n.broken = FALSE
        /\ ~Keeps(l) => BuiltIn(n) /\ n.broken = TRUE
    BY <2>1, RefusedIs
  <2>3. CASE Keeps(l)
    <3>1. l.loaded = TRUE /\ l.broken = FALSE
      BY <2>3 DEF Keeps, ListLike
    <3>2. Follows(n, d)
      BY <2>2, <2>3, <3>1 DEF Follows
    <3> QED BY <1>2, <2>1, <2>2, <3>1, <3>2
  <2>4. CASE ~Keeps(l)
    <3>1. d.verdict # "good"
      BY <2>4 DEF Keeps, Follows
    <3>2. Follows(n, d)
      BY <2>2, <2>4, <3>1 DEF Follows, BuiltIn
    <3> QED BY <1>2, <2>1, <2>2, <2>4, <3>2
  <2> QED BY <2>3, <2>4
<1>3. CASE v = "absent" /\ fixed # <<>>
  <2>1. n = OwnerOnly(l, fixed)
    BY <1>3 DEF Load
  <2>2. /\ ListLike(n) /\ BuiltIn(n) /\ n.stamp = l.stamp
        /\ n.broken = FALSE /\ n.refused = FALSE /\ n.loaded = TRUE
    BY <2>1, OwnerIs
  <2>3. Decides(f, d) = e /\ e.verdict = "absent"
    BY <1>3 DEF Decides
  <2> HIDE DEF e
  <2>4. Follows(n, e)
    BY <1>3, <2>2, <2>3 DEF Follows, BuiltIn, Sound
  <2> QED BY <1>3, <2>2, <2>3, <2>4
<1>4. CASE v \notin {"good", "observer"} /\ ~(v = "absent" /\ fixed # <<>>)
  <2>1. n = BrokenLoad(l, fixed)
    BY <1>4 DEF Load
  <2>2. ListLike(n) /\ BuiltIn(n) /\ n.stamp = l.stamp /\ n.broken = TRUE /\ n.refused = FALSE
    BY <2>1, BrokenIs
  <2>3. Decides(f, d) = e /\ e.verdict # "good"
    BY <1>4 DEF Decides
  <2> HIDE DEF e
  <2>4. Follows(n, e)
    BY <2>2, <2>3 DEF Follows, BuiltIn
  <2> QED BY <1>4, <2>2, <2>3, <2>4
<1> QED BY <1>1, <1>2, <1>3, <1>4

LEMMA DecidesOnce == \A f, d : Decides(f, Decides(f, d)) = Decides(f, d)
BY DEF Decides

-----------------------------------------------------------------------------
(* The list in force *)

\* While the stamp noted is the file's and nobody is between the look and the read, the file
\* is the one that was read; a stamp never runs ahead of the file.
Loads ==
  /\ ListLike(list) /\ Follows(list, decisive)
  /\ reading = "boot" => list.loaded = FALSE
  /\ reading # "boot" => list.loaded = TRUE \/ list.broken = TRUE
  /\ disk.saves \in Nat /\ disk.saves > 0 /\ list.stamp \in Nat /\ list.stamp <= disk.saves
  /\ reading = "none" /\ list.stamp # 0 /\ list.stamp = Stamp(disk) =>
       /\ decisive = Decides(disk.file, decisive)
       /\ list.refused = TRUE <=> Verdict(disk.file, fixed) = "observer"

LEMMA LoadsInForce == Loads => InForceIsOnDisk
<1> SUFFICES ASSUME Loads PROVE InForceIsOnDisk
  OBVIOUS
<1> DEFINE v == Verdict(disk.file, fixed)
<1>1. ASSUME reading = "none", list.stamp # 0, list.stamp = Stamp(disk)
      PROVE  IF v = "observer" THEN list.refused
             ELSE decisive = [verdict |-> v, file |-> disk.file] /\ ~list.refused
  <2>1. decisive = Decides(disk.file, decisive) /\ (list.refused = TRUE <=> v = "observer")
    BY <1>1 DEF Loads
  <2>2. list.refused \in BOOLEAN
    BY DEF Loads, ListLike
  <2>3. v # "observer" => decisive = [verdict |-> v, file |-> disk.file]
    BY <2>1 DEF Decides
  <2> QED BY <2>1, <2>2, <2>3
<1> QED BY <1>1 DEF Loads, Follows, InForceIsOnDisk

LEMMA StampIs ==
  ASSUME NEW d, d.saves \in Nat
  PROVE  Stamp(d) \in Nat /\ (Stamp(d) = d.saves \/ Stamp(d) = 0)
BY DEF Stamp

\* A list that has just been made, with the stamp of the file, follows nothing yet.
LEMMA FreshLoads ==
  ASSUME NEW l, NEW d, NEW k, l = [Unloaded(fixed) EXCEPT !.stamp = Stamp(k)], k.saves \in Nat,
         d.verdict # "good"
  PROVE  ListLike(l) /\ Follows(l, d) /\ l.loaded = FALSE /\ l.stamp \in Nat /\ l.stamp <= k.saves
<1>1. ListLike(l) /\ BuiltIn(l) /\ l.stamp = Stamp(k) /\ l.broken = FALSE /\ l.loaded = FALSE
  BY UnloadedIs
<1> QED BY <1>1, StampIs DEF Follows, BuiltIn

LEMMA LoadsInit == Init => Loads
<1> SUFFICES ASSUME Init PROVE Loads
  OBVIOUS
<1>1. PICK f : disk = [file |-> f, saves |-> 1]
  BY DEF Init
<1>2. disk.saves = 1 /\ decisive.verdict # "good"
  BY <1>1 DEF Init, Undecided
<1>3. ListLike(list) /\ Follows(list, decisive) /\ list.loaded = FALSE /\ list.stamp \in Nat /\ list.stamp <= disk.saves
  BY <1>2, FreshLoads DEF Init
<1>4. reading = "boot"
  BY DEF Init
<1> QED BY <1>2, <1>3, <1>4 DEF Loads

LEMMA LoadsReload ==
  ASSUME Loads, Reload, disk' = disk, scenario' = scenario
  PROVE  Loads' /\ decisive' = Decides(disk.file, decisive)
<1>1. list' = Load(list, disk.file) /\ reading' = "none" /\ decisive' = Decides(disk.file, decisive)
  BY DEF Reload, Decides
<1>2. /\ ListLike(list') /\ list'.stamp = list.stamp
      /\ Follows(list', Decides(disk.file, decisive))
      /\ list'.loaded = TRUE \/ list'.broken = TRUE
      /\ list'.refused = TRUE <=> Verdict(disk.file, fixed) = "observer"
  <2>1. ListLike(list) /\ Follows(list, decisive)
    BY DEF Loads
  <2>2. list' = Load(list, disk.file)
    BY <1>1
  <2> QED BY <2>1, <2>2, LoadFollows
<1>3. decisive' = Decides(disk.file, decisive')
  BY <1>1, DecidesOnce
<1>4. fixed' = fixed
  BY DEF fixed
<1>5. ListLike(list)' /\ Follows(list, decisive)'
  BY <1>1, <1>2, <1>4 DEF ListLike, Follows, Sound
<1>6. decisive' = Decides(disk.file, decisive)'
  BY <1>3, <1>4 DEF Decides
<1> QED BY <1>1, <1>2, <1>4, <1>5, <1>6 DEF Loads

\* The list, the file, its reader and what decided stay as they are.
LEMMA LoadsKept ==
  ASSUME Loads, UNCHANGED <<scenario, disk, list, reading, decisive>>
  PROVE  Loads'
<1>1. fixed' = fixed
  BY DEF fixed
<1> QED BY <1>1 DEF Loads, ListLike, Follows, Sound, Decides, Stamp

\* The operator saves a file: its stamp is later than any noted.
LEMMA LoadsSave ==
  ASSUME Loads, NEW f, Save(f)
  PROVE  Loads'
<1>1. disk' = [file |-> f, saves |-> disk.saves + 1] /\ UNCHANGED <<scenario, list, reading, decisive>>
  BY DEF Save
<1>2. disk'.saves = disk.saves + 1 /\ fixed' = fixed
  BY <1>1 DEF fixed
<1>3. disk'.saves \in Nat /\ disk'.saves > 0 /\ list.stamp < disk'.saves
  BY <1>2 DEF Loads
<1>4. list.stamp # 0 => list.stamp # Stamp(disk')
  BY <1>3, StampIs DEF Loads
<1>5. Stamp(disk)' = Stamp(disk')
  BY DEF Stamp
<1> QED BY <1>1, <1>2, <1>3, <1>4, <1>5 DEF Loads, ListLike, Follows, Sound

\* A look that finds another stamp notes it, and the list is being read from then on.
LEMMA LoadsLook ==
  ASSUME Loads, NEW o \in Ops, Look(o)
  PROVE  Loads'
<1>1. CASE Stamp(disk) = list.stamp /\ list.stamp # 0
  BY <1>1, LoadsKept DEF Look
<1>2. CASE ~(Stamp(disk) = list.stamp /\ list.stamp # 0)
  <2>1. list' = [list EXCEPT !.stamp = Stamp(disk)] /\ reading' = o /\ reading = "none"
        /\ UNCHANGED <<scenario, disk, decisive>>
    BY <1>2 DEF Look
  <2>2. o # "none" /\ o # "boot"
    BY AccessAssumption DEF AccessAssumption
  <2>3. /\ ListLike(list') /\ list'.stamp = Stamp(disk)
        /\ list'.people = list.people /\ list'.rooms = list.rooms /\ list'.observers = list.observers
        /\ list'.loaded = list.loaded /\ list'.broken = list.broken
    BY <2>1 DEF Loads, ListLike
  <2>4. Stamp(disk) \in Nat /\ Stamp(disk) <= disk.saves
    BY StampIs DEF Loads
  <2>5. fixed' = fixed
    BY <2>1 DEF fixed
  <2>6. ListLike(list)' /\ Follows(list, decisive)'
    BY <2>1, <2>3, <2>5 DEF Loads, ListLike, Follows, Sound
  <2> QED BY <2>1, <2>2, <2>3, <2>4, <2>6 DEF Loads
<1> QED BY <1>1, <1>2

\* A daemon that starts anew.
LEMMA LoadsFresh ==
  ASSUME Loads, list' = [Unloaded(fixed) EXCEPT !.stamp = Stamp(disk)], reading' = "boot",
         decisive'.verdict # "good", UNCHANGED <<scenario, disk>>
  PROVE  Loads'
<1>1. /\ ListLike(list') /\ Follows(list', decisive') /\ list'.loaded = FALSE
      /\ list'.stamp \in Nat /\ list'.stamp <= disk.saves
  BY FreshLoads DEF Loads
<1>2. fixed' = fixed
  BY DEF fixed
<1>3. ListLike(list)' /\ Follows(list, decisive)'
  BY <1>1, <1>2 DEF ListLike, Follows, Sound
<1> QED BY <1>1, <1>3 DEF Loads

LEMMA LoadsNext == Loads /\ [Next]_vars => Loads'
<1> SUFFICES ASSUME Loads, [Next]_vars PROVE Loads'
  OBVIOUS
<1>1. CASE UNCHANGED vars
  BY <1>1, LoadsKept DEF vars
<1>2. ASSUME NEW o \in Ops,
             Send(o) \/ Fetch(o) \/ Inbound(o) \/ Download(o) \/ StoreBytes(o) \/ StoreMeta(o) \/ StoreFails(o)
      PROVE  Loads'
  BY <1>2, LoadsKept DEF Send, Fetch, Inbound, Begin, Download, StoreBytes, StoreMeta, StoreFails
<1>3. ASSUME NEW o \in Ops, Look(o) PROVE Loads'
  BY <1>3, LoadsLook
<1>4. ASSUME NEW o \in Ops, Read(o) PROVE Loads'
  BY <1>4, LoadsReload DEF Read
<1>5. CASE Boot
  BY <1>5, LoadsReload DEF Boot
<1>6. CASE BootRefused
  <2>1. decisive.verdict # "good"
    BY <1>6 DEF BootRefused, Loads, Follows
  <2> QED BY <2>1, <1>6, LoadsFresh DEF BootRefused
<1>7. CASE Restart
  <2>1. decisive'.verdict # "good"
    BY <1>7 DEF Restart, Undecided
  <2> QED BY <2>1, <1>7, LoadsFresh DEF Restart
<1>8. ASSUME NEW f \in scenario.files, Save(f) PROVE Loads'
  BY <1>8, LoadsSave
<1>9. ASSUME NEW s \in Seqs, Touch(s) PROVE Loads'
  BY <1>9, LoadsKept DEF Touch
<1> QED BY <1>1, <1>2, <1>3, <1>4, <1>5, <1>6, <1>7, <1>8, <1>9 DEF Next

LEMMA LoadsInvariant == Spec => []Loads
BY LoadsInit, LoadsNext, PTL DEF Spec

\* The lists in force are those of the last file that was not refused for an observer row, and
\* that is the file on disk whenever its stamp is the one noted (allowlist.rs: reload).
THEOREM ListsInForce == Spec => []InForceIsOnDisk
BY LoadsInvariant, LoadsInForce, PTL

-----------------------------------------------------------------------------
(* Requests *)

Steps == {"idle", "look", "read", "await", "store", "meta"}
Results == DOMAIN Events \cup {"none", "altered", "refused", "sent", "filed"}

\* The requests there can be while the files are these.
Requests(files) ==
  [at : Steps, kind : {"none", "send", "fetch", "inbound"}, todo : Seq(Wanted \cup Mentioned), seq : Nat,
   ev : DOMAIN Events \cup {"none"}, group : BOOLEAN, got : Results, since : SUBSET files]

\* A fetch in progress is about an entry of the inbox, a request that looks at the list has run
\* since the file was saved, and what a fetch has served is its own.
Orderly(r, box, file) ==
  /\ r.at # "idle" /\ r.kind = "fetch" => r.seq \in 1..Len(box) /\ r.ev = box[r.seq].ev
  /\ r.at \in {"await", "store", "meta"} => r.kind = "fetch"
  /\ r.kind = "inbound" => r.ev \in DOMAIN Events
  /\ r.at \in {"look", "read"} => file \in r.since
  /\ r.at = "idle" /\ r.ev # "none" => r.got \in {r.ev, "refused"}

Entries == [ev : DOMAIN Events, listed : BOOLEAN]

Asks ==
  /\ scenario \in Scenarios /\ disk.file \in scenario.files
  /\ inbox \in Seq(Entries) /\ Len(inbox) <= MaxSeq
  /\ bytes \in [Seqs -> DOMAIN Events \cup {"none", "altered"}]
  /\ meta \in [Seqs -> DOMAIN Events \cup {"none"}]
  /\ op \in [Ops -> Requests(scenario.files)]
  /\ \A o \in Ops : Orderly(op[o], inbox, disk.file)

LEMMA IdleFits ==
  ASSUME NEW files, NEW box, NEW file
  PROVE  Idle \in Requests(files) /\ Orderly(Idle, box, file)
BY DEF Idle, Requests, Steps, Results, Orderly

\* An answer: the request is idle again, and a fetch keeps the name of what it asked for.
LEMMA AnswerFits ==
  ASSUME NEW files, NEW box, NEW file, NEW e \in DOMAIN Events \cup {"none"}, NEW got \in Results,
         e # "none" => got \in {e, "refused"}, NEW a, a = [Idle EXCEPT !.ev = e, !.got = got]
  PROVE  a \in Requests(files) /\ Orderly(a, box, file)
<1>1. Idle \in Requests(files) /\ Idle.at = "idle" /\ Idle.kind = "none"
  BY IdleFits DEF Idle
<1>2. a \in Requests(files) /\ a.at = "idle" /\ a.kind = "none" /\ a.ev = e /\ a.got = got
  BY <1>1 DEF Requests
<1> QED BY <1>2 DEF Orderly

LEMMA MoreEntries ==
  ASSUME NEW files, NEW r \in Requests(files), NEW box \in Seq(Entries), NEW e \in Entries, NEW file,
         Orderly(r, box, file)
  PROVE  Orderly(r, Append(box, e), file)
<1>1. /\ Len(Append(box, e)) = Len(box) + 1 /\ Len(box) \in Nat
      /\ \A i \in 1..Len(box) : Append(box, e)[i] = box[i]
  BY AppendProperties, LenProperties
<1> QED BY <1>1 DEF Orderly

\* One request changes, and the inbox stays or has one entry more.
LEMMA AsksPut ==
  ASSUME Asks, NEW o \in Ops, NEW r \in Requests(scenario.files), op' = [op EXCEPT ![o] = r],
         inbox' = inbox \/ \E e \in Entries : inbox' = Append(inbox, e) /\ Len(inbox) # MaxSeq,
         Orderly(r, inbox', disk.file), UNCHANGED <<scenario, disk>>,
         bytes' \in [Seqs -> DOMAIN Events \cup {"none", "altered"}],
         meta' \in [Seqs -> DOMAIN Events \cup {"none"}]
  PROVE  Asks'
<1>1. op' \in [Ops -> Requests(scenario.files)] /\ op'[o] = r /\ \A p \in Ops : p # o => op'[p] = op[p]
  BY DEF Asks
<1>2. \A p \in Ops : op[p] \in Requests(scenario.files) /\ Orderly(op[p], inbox, disk.file)
  BY DEF Asks
<1>3. MaxSeq \in Nat
  BY AccessAssumption DEF AccessAssumption
<1>4. CASE inbox' = inbox
  BY <1>1, <1>2, <1>4 DEF Asks, Orderly
<1>5. ASSUME NEW e \in Entries, inbox' = Append(inbox, e), Len(inbox) # MaxSeq PROVE Asks'
  <2>1. inbox \in Seq(Entries) /\ Len(inbox) <= MaxSeq /\ Len(inbox) \in Nat
    BY LenProperties DEF Asks
  <2>2. inbox' \in Seq(Entries) /\ Len(inbox') <= MaxSeq
    BY <2>1, <1>3, <1>5, AppendProperties
  <2>3. \A p \in Ops : p # o => Orderly(op'[p], inbox', disk.file)
    BY <2>1, <1>1, <1>2, <1>5, MoreEntries
  <2>4. \A p \in Ops : Orderly(op'[p], inbox', disk'.file)
    BY <2>3, <1>1
  <2> QED BY <2>2, <2>4, <1>1 DEF Asks, Orderly
<1> QED BY <1>4, <1>5

\* A request begins: it looks at the list, and the file of now is among those it may go by.
LEMMA AsksBegin ==
  ASSUME Asks, NEW o \in Ops, NEW r \in Requests(scenario.files), Begin(o, r),
         r.kind = "fetch" => r.seq \in 1..Len(inbox) /\ r.ev = inbox[r.seq].ev,
         r.kind = "inbound" => r.ev \in DOMAIN Events
  PROVE  Asks'
<1> DEFINE n == [r EXCEPT !.at = "look", !.since = {disk.file}]
<1>1. disk.file \in scenario.files
  BY DEF Asks
<1>2. /\ n \in Requests(scenario.files) /\ n.at = "look" /\ n.since = {disk.file}
      /\ n.kind = r.kind /\ n.seq = r.seq /\ n.ev = r.ev
  BY <1>1 DEF Requests, Steps
<1>3. op' = [op EXCEPT ![o] = n] /\ UNCHANGED <<scenario, disk, inbox, bytes, meta>>
  BY DEF Begin, store
<1> HIDE DEF n
<1>4. Orderly(n, inbox, disk.file)
  BY <1>2 DEF Orderly
<1>5. bytes' \in [Seqs -> DOMAIN Events \cup {"none", "altered"}] /\ meta' \in [Seqs -> DOMAIN Events \cup {"none"}]
  BY <1>3 DEF Asks
<1> QED BY <1>2, <1>3, <1>4, <1>5, AsksPut

LEMMA AsksRequest ==
  ASSUME Asks, NEW o \in Ops, Send(o) \/ Fetch(o) \/ Inbound(o)
  PROVE  Asks'
<1>t. Idle \in Requests(scenario.files) /\ Idle.kind = "none" /\ inbox \in Seq(Entries) /\ Len(inbox) \in Nat
  BY IdleFits, LenProperties DEF Idle, Asks
<1>1. CASE Send(o)
  <2>1. PICK to \in Wanted, m \in Mentioned, s \in 0..Len(inbox) :
          Begin(o, [Idle EXCEPT !.kind = "send", !.seq = s,
                                !.todo = IF m = "nobody" THEN <<to>> ELSE <<m, to>>])
    BY <1>1 DEF Send
  <2> DEFINE todo == IF m = "nobody" THEN <<to>> ELSE <<m, to>>
             r == [Idle EXCEPT !.kind = "send", !.seq = s, !.todo = todo]
  <2>2. todo \in Seq(Wanted \cup Mentioned) /\ s \in Nat
    <3>1. <<to>> \in Seq(Wanted \cup Mentioned)
      OBVIOUS
    <3>2. <<m, to>> \in Seq(Wanted \cup Mentioned)
      OBVIOUS
    <3>3. s \in Nat
      BY <1>t
    <3>4. todo \in Seq(Wanted \cup Mentioned)
      BY <3>1, <3>2
    <3> HIDE DEF todo
    <3> QED BY <3>3, <3>4
  <2> HIDE DEF todo
  <2>3. r \in Requests(scenario.files) /\ r.kind = "send"
    BY <2>2, <1>t DEF Requests
  <2>4. Begin(o, r)
    BY <2>1 DEF todo
  <2> HIDE DEF r
  <2> QED BY <2>3, <2>4, AsksBegin
<1>2. CASE Fetch(o)
  <2>1. PICK s \in 1..Len(inbox) : Begin(o, [Idle EXCEPT !.kind = "fetch", !.seq = s, !.ev = inbox[s].ev])
    BY <1>2 DEF Fetch
  <2> DEFINE r == [Idle EXCEPT !.kind = "fetch", !.seq = s, !.ev = inbox[s].ev]
  <2>2. inbox[s] \in Entries /\ s \in Nat
    BY <1>t, ElementOfSeq
  <2>3. r \in Requests(scenario.files) /\ r.kind = "fetch" /\ r.seq = s /\ r.ev = inbox[s].ev
    BY <2>2, <1>t DEF Requests, Entries
  <2>4. Begin(o, r)
    BY <2>1
  <2> HIDE DEF r
  <2> QED BY <2>3, <2>4, AsksBegin
<1>3. CASE Inbound(o)
  <2>1. PICK e \in DOMAIN Events, g \in BOOLEAN :
          Begin(o, [Idle EXCEPT !.kind = "inbound", !.ev = e, !.group = g])
    BY <1>3 DEF Inbound
  <2> DEFINE r == [Idle EXCEPT !.kind = "inbound", !.ev = e, !.group = g]
  <2>2. r \in Requests(scenario.files) /\ r.kind = "inbound" /\ r.ev = e
    BY <1>t DEF Requests
  <2>3. Begin(o, r)
    BY <2>1
  <2> HIDE DEF r
  <2> QED BY <2>2, <2>3, AsksBegin
<1> QED BY <1>1, <1>2, <1>3

\* The list is asked: the answer, the next name of a send, an entry filed, or a download begun.
LEMMA AsksDecide ==
  ASSUME Asks, NEW o \in Ops, op[o].at \in {"look", "read"}, NEW l, Decide(o, l),
         UNCHANGED <<scenario, disk, bytes, meta>>
  PROVE  Asks'
<1>t. /\ op[o] \in Requests(scenario.files) /\ Orderly(op[o], inbox, disk.file)
      /\ inbox \in Seq(Entries) /\ disk.file \in scenario.files
      /\ op[o].ev \in DOMAIN Events \cup {"none"}
      /\ bytes' \in [Seqs -> DOMAIN Events \cup {"none", "altered"}] /\ meta' \in [Seqs -> DOMAIN Events \cup {"none"}]
  BY DEF Asks, Requests
<1>1. ASSUME NEW got \in Results, op[o].kind = "fetch" => got \in {op[o].ev, "refused"}, Answer(o, got),
             inbox' = inbox \/ \E e \in Entries : inbox' = Append(inbox, e) /\ Len(inbox) # MaxSeq
      PROVE  Asks'
  <2> DEFINE e == IF op[o].kind = "fetch" THEN op[o].ev ELSE "none"
             a == [Idle EXCEPT !.ev = e, !.got = got]
  <2>1. op' = [op EXCEPT ![o] = a]
    BY <1>1 DEF Answer
  <2>2. e \in DOMAIN Events \cup {"none"} /\ (e # "none" => got \in {e, "refused"})
    BY <1>1, <1>t
  <2> HIDE DEF e
  <2>3. a \in Requests(scenario.files) /\ Orderly(a, inbox', disk.file)
    BY <2>2, AnswerFits
  <2> HIDE DEF a
  <2> QED BY <2>1, <2>3, <1>1, <1>t, AsksPut
<1>2. CASE DecideSend(o, l)
  <2>1. op[o].kind = "send" /\ inbox' = inbox
    BY <1>2 DEF DecideSend
  <2>2. ASSUME op' = [op EXCEPT ![o].todo = Tail(@), ![o].at = "look", ![o].since = {disk.file}],
               Len(op[o].todo) = 2
        PROVE  Asks'
    <3> DEFINE r == [op[o] EXCEPT !.todo = Tail(@), !.at = "look", !.since = {disk.file}]
    <3>1. op[o].todo \in Seq(Wanted \cup Mentioned) /\ op[o].todo # <<>>
      <4>1. op[o].todo \in Seq(Wanted \cup Mentioned)
        BY <1>t DEF Requests
      <4> QED BY <4>1, <2>2, EmptySeq
    <3>2. Tail(op[o].todo) \in Seq(Wanted \cup Mentioned)
      BY <3>1, HeadTailProperties
    <3>3. r \in Requests(scenario.files) /\ r.at = "look" /\ r.since = {disk.file} /\ r.kind = "send"
      BY <3>2, <2>1, <1>t DEF Requests, Steps
    <3>4. op' = [op EXCEPT ![o] = r]
      BY <2>2
    <3> HIDE DEF r
    <3>5. Orderly(r, inbox', disk.file)
      BY <3>3 DEF Orderly
    <3> QED BY <2>1, <3>3, <3>4, <3>5, <1>t, AsksPut
  <2>3. ASSUME NEW got \in {"sent", "refused"}, Answer(o, got) PROVE Asks'
    BY <2>1, <2>3, <1>1 DEF Results
  <2> QED BY <1>2, <2>2, <2>3 DEF DecideSend
<1>3. CASE DecideInbound(o, l)
  <2>1. op[o].kind = "inbound"
    BY <1>3 DEF DecideInbound
  <2> DEFINE e == [ev |-> op[o].ev, listed |-> HasId(l.rooms, Events[op[o].ev].room)]
  <2>2. e \in Entries
    <3>1. HasId(l.rooms, Events[op[o].ev].room) \in BOOLEAN
      BY DEF HasId
    <3>2. op[o].ev \in DOMAIN Events
      BY <2>1, <1>t DEF Orderly
    <3> QED BY <3>1, <3>2 DEF Entries
  <2>3. \E got \in {"refused", "filed"} : Answer(o, got)
    BY <1>3 DEF DecideInbound
  <2>4. inbox' = inbox \/ (inbox' = Append(inbox, e) /\ Len(inbox) # MaxSeq)
    BY <1>3 DEF DecideInbound
  <2> HIDE DEF e
  <2> QED BY <2>1, <2>2, <2>3, <2>4, <1>1 DEF Results
<1>4. CASE DecideFetch(o, l)
  <2> DEFINE s == op[o].seq
  <2>1. op[o].kind = "fetch" /\ inbox' = inbox /\ op[o].at # "idle"
    BY <1>4 DEF DecideFetch
  <2>2. s \in 1..Len(inbox) /\ op[o].ev = inbox[s].ev
    BY <2>1, <1>t DEF Orderly
  <2>3. ASSUME Answer(o, "refused") PROVE Asks'
    BY <2>1, <2>3, <1>1 DEF Results
  <2>4. ASSUME Answer(o, bytes[s]), Lookup(s) PROVE Asks'
    <3>1. bytes[s] = op[o].ev
      BY <2>2, <2>4 DEF Lookup
    <3>2. op[o].ev \in Results
      BY <1>t DEF Results
    <3> QED BY <2>1, <2>4, <3>1, <3>2, <1>1
  <2>5. ASSUME op' = [op EXCEPT ![o].at = "await", ![o].since = {}] PROVE Asks'
    <3> DEFINE r == [op[o] EXCEPT !.at = "await", !.since = {}]
    <3>1. /\ r \in Requests(scenario.files) /\ r.at = "await" /\ r.kind = "fetch"
          /\ r.seq = op[o].seq /\ r.ev = op[o].ev
      BY <2>1, <1>t DEF Requests, Steps
    <3>2. op' = [op EXCEPT ![o] = r]
      BY <2>5
    <3> HIDE DEF r
    <3>3. Orderly(r, inbox', disk.file)
      BY <3>1, <2>1, <2>2 DEF Orderly
    <3> QED BY <2>1, <3>1, <3>2, <3>3, <1>t, AsksPut
  <2> QED BY <1>4, <2>3, <2>4, <2>5 DEF DecideFetch
<1> QED BY <1>2, <1>3, <1>4 DEF Decide

\* A look answers at once, or goes on to read the file.
LEMMA AsksLook ==
  ASSUME Asks, NEW o \in Ops, Look(o)
  PROVE  Asks'
<1>1. op[o].at = "look" /\ UNCHANGED <<scenario, disk, bytes, meta>>
  BY DEF Look, store
<1>2. CASE Decide(o, list)
  BY <1>1, <1>2, AsksDecide
<1>3. ASSUME op' = [op EXCEPT ![o].at = "read"], inbox' = inbox PROVE Asks'
  <2> DEFINE r == [op[o] EXCEPT !.at = "read"]
  <2>1. /\ op[o] \in Requests(scenario.files) /\ Orderly(op[o], inbox, disk.file)
        /\ bytes' \in [Seqs -> DOMAIN Events \cup {"none", "altered"}]
        /\ meta' \in [Seqs -> DOMAIN Events \cup {"none"}]
    BY <1>1 DEF Asks
  <2>2. /\ r \in Requests(scenario.files) /\ r.at = "read" /\ r.kind = op[o].kind
        /\ r.seq = op[o].seq /\ r.ev = op[o].ev /\ r.since = op[o].since
    BY <2>1 DEF Requests, Steps
  <2>3. op' = [op EXCEPT ![o] = r]
    BY <1>3
  <2> HIDE DEF r
  <2>4. Orderly(r, inbox', disk.file)
    BY <1>1, <1>3, <2>1, <2>2 DEF Orderly
  <2> QED BY <1>1, <1>3, <2>1, <2>2, <2>3, <2>4, AsksPut
<1> QED BY <1>2, <1>3 DEF Look

LEMMA AsksRead ==
  ASSUME Asks, NEW o \in Ops, Read(o)
  PROVE  Asks'
<1>1. op[o].at = "read" /\ UNCHANGED <<scenario, disk, bytes, meta>> /\ Decide(o, list')
  BY DEF Read, store
<1> QED BY <1>1, AsksDecide

-----------------------------------------------------------------------------
(* Downloads, and the directory *)

LEMMA WithoutFits ==
  ASSUME NEW D, NEW S, "none" \in D, NEW f \in [S -> D], NEW gone
  PROVE  Without(f, gone) \in [S -> D]
BY DEF Without

LEMMA PruneFits ==
  ASSUME NEW b \in [Seqs -> DOMAIN Events \cup {"none", "altered"}], NEW m \in [Seqs -> DOMAIN Events \cup {"none"}],
         NEW fb, NEW fm, Prune(b, m, fb, fm)
  PROVE  /\ bytes' \in [Seqs -> DOMAIN Events \cup {"none", "altered"}]
         /\ meta' \in [Seqs -> DOMAIN Events \cup {"none"}]
<1>1. PICK ob, om : bytes' = Without(b, ob) /\ meta' = Without(m, om)
  BY DEF Prune
<1>2. Without(b, ob) \in [Seqs -> DOMAIN Events \cup {"none", "altered"}]
  BY WithoutFits
<1>3. Without(m, om) \in [Seqs -> DOMAIN Events \cup {"none"}]
  BY WithoutFits
<1> QED BY <1>1, <1>2, <1>3

\* What a fetch in progress is about.
LEMMA FetchIs ==
  ASSUME Asks, NEW o \in Ops, op[o].at \in {"await", "store", "meta"}
  PROVE  /\ op[o] \in Requests(scenario.files) /\ op[o].kind = "fetch"
         /\ op[o].seq \in 1..Len(inbox) /\ op[o].ev = inbox[op[o].seq].ev
         /\ op[o].seq \in Seqs /\ op[o].ev \in DOMAIN Events
<1>1. /\ op[o] \in Requests(scenario.files) /\ Orderly(op[o], inbox, disk.file)
      /\ inbox \in Seq(Entries) /\ Len(inbox) <= MaxSeq
  BY DEF Asks
<1>2. op[o].kind = "fetch" /\ op[o].seq \in 1..Len(inbox) /\ op[o].ev = inbox[op[o].seq].ev
  BY <1>1 DEF Orderly
<1>3. Len(inbox) \in Nat /\ MaxSeq \in Nat
  BY <1>1, LenProperties, AccessAssumption DEF AccessAssumption
<1>4. op[o].seq \in Seqs
  BY <1>1, <1>2, <1>3 DEF Seqs
<1>5. inbox[op[o].seq] \in Entries
  BY <1>1, <1>2, ElementOfSeq
<1> QED BY <1>1, <1>2, <1>4, <1>5 DEF Entries

\* A fetch in progress ends with what it is about, or is refused.
LEMMA AsksAnswer ==
  ASSUME Asks, NEW o \in Ops, op[o].at \in {"await", "store", "meta"},
         NEW got \in {op[o].ev, "refused"}, Answer(o, got), UNCHANGED <<scenario, disk, inbox>>,
         bytes' \in [Seqs -> DOMAIN Events \cup {"none", "altered"}],
         meta' \in [Seqs -> DOMAIN Events \cup {"none"}]
  PROVE  Asks'
<1> DEFINE a == [Idle EXCEPT !.ev = op[o].ev, !.got = got]
<1>1. op[o].kind = "fetch" /\ op[o].ev \in DOMAIN Events
  BY FetchIs
<1>2. op' = [op EXCEPT ![o] = a]
  BY <1>1 DEF Answer
<1>3. got \in Results /\ op[o].ev \in DOMAIN Events \cup {"none"}
  BY <1>1 DEF Results
<1>4. a \in Requests(scenario.files) /\ Orderly(a, inbox', disk.file)
  BY <1>3, AnswerFits
<1> HIDE DEF a
<1> QED BY <1>2, <1>4, AsksPut

\* A fetch in progress takes its next step.
LEMMA AsksOn ==
  ASSUME Asks, NEW o \in Ops, op[o].at \in {"await", "store", "meta"},
         NEW at \in {"store", "meta"}, op' = [op EXCEPT ![o].at = at], UNCHANGED <<scenario, disk, inbox>>,
         bytes' \in [Seqs -> DOMAIN Events \cup {"none", "altered"}],
         meta' \in [Seqs -> DOMAIN Events \cup {"none"}]
  PROVE  Asks'
<1> DEFINE r == [op[o] EXCEPT !.at = at]
<1>1. /\ op[o] \in Requests(scenario.files) /\ op[o].kind = "fetch"
      /\ op[o].seq \in 1..Len(inbox) /\ op[o].ev = inbox[op[o].seq].ev
  BY FetchIs
<1>2. /\ r \in Requests(scenario.files) /\ r.at = at /\ r.kind = "fetch"
      /\ r.seq = op[o].seq /\ r.ev = op[o].ev
  BY <1>1 DEF Requests, Steps
<1>3. op' = [op EXCEPT ![o] = r]
  OBVIOUS
<1> HIDE DEF r
<1>4. Orderly(r, inbox', disk.file)
  BY <1>1, <1>2 DEF Orderly
<1> QED BY <1>2, <1>3, <1>4, AsksPut

LEMMA AsksStore ==
  ASSUME Asks, NEW o \in Ops, Download(o) \/ StoreBytes(o) \/ StoreMeta(o) \/ StoreFails(o)
  PROVE  Asks'
<1>t. /\ bytes \in [Seqs -> DOMAIN Events \cup {"none", "altered"}]
      /\ meta \in [Seqs -> DOMAIN Events \cup {"none"}]
  BY DEF Asks
<1>1. CASE Download(o)
  <2>1. op[o].at = "await" /\ UNCHANGED <<scenario, disk, inbox>> /\ bytes' = bytes /\ meta' = meta
    BY <1>1 DEF Download, store
  <2>2. CASE Answer(o, "refused")
    BY <1>t, <2>1, <2>2, AsksAnswer
  <2>3. CASE op' = [op EXCEPT ![o].at = "store"]
    BY <1>t, <2>1, <2>3, AsksOn
  <2> QED BY <1>1, <2>2, <2>3 DEF Download
<1>2. CASE StoreBytes(o)
  <2>1. /\ op[o].at = "store" /\ UNCHANGED <<scenario, disk, inbox>> /\ meta' = meta
        /\ bytes' = [bytes EXCEPT ![op[o].seq] = op[o].ev] /\ op' = [op EXCEPT ![o].at = "meta"]
    BY <1>2 DEF StoreBytes
  <2>2. op[o].ev \in DOMAIN Events
    BY <2>1, FetchIs
  <2>3. bytes' \in [Seqs -> DOMAIN Events \cup {"none", "altered"}]
    BY <1>t, <2>1, <2>2
  <2> QED BY <1>t, <2>1, <2>3, AsksOn
<1>3. CASE StoreMeta(o)
  <2> DEFINE m == [meta EXCEPT ![op[o].seq] = op[o].ev]
  <2>1. /\ op[o].at = "meta" /\ UNCHANGED <<scenario, disk, inbox>>
        /\ Prune(bytes, m, {op[o].seq}, {op[o].seq}) /\ Answer(o, op[o].ev)
    BY <1>3 DEF StoreMeta
  <2>2. op[o].ev \in DOMAIN Events
    BY <2>1, FetchIs
  <2>3. m \in [Seqs -> DOMAIN Events \cup {"none"}]
    BY <1>t, <2>2
  <2> HIDE DEF m
  <2>4. /\ bytes' \in [Seqs -> DOMAIN Events \cup {"none", "altered"}]
        /\ meta' \in [Seqs -> DOMAIN Events \cup {"none"}]
    BY <1>t, <2>1, <2>3, PruneFits
  <2> QED BY <2>1, <2>4, AsksAnswer
<1>4. CASE StoreFails(o)
  <2>1. /\ op[o].at \in {"store", "meta"} /\ UNCHANGED <<scenario, disk, inbox>>
        /\ Prune(bytes, meta, IF op[o].at = "meta" THEN {op[o].seq} ELSE {}, {}) /\ Answer(o, "refused")
    BY <1>4 DEF StoreFails
  <2>2. /\ bytes' \in [Seqs -> DOMAIN Events \cup {"none", "altered"}]
        /\ meta' \in [Seqs -> DOMAIN Events \cup {"none"}]
    BY <1>t, <2>1, PruneFits
  <2> QED BY <2>1, <2>2, AsksAnswer
<1> QED BY <1>1, <1>2, <1>3, <1>4

-----------------------------------------------------------------------------
(* The operator, mishaps, and all of it *)

LEMMA AsksSave ==
  ASSUME Asks, NEW f \in scenario.files, Save(f)
  PROVE  Asks'
<1>1. /\ disk' = [file |-> f, saves |-> disk.saves + 1]
      /\ op' = [o \in Ops |-> IF op[o].at \in {"look", "read"}
                              THEN [op[o] EXCEPT !.since = @ \cup {f}] ELSE op[o]]
      /\ UNCHANGED <<scenario, inbox, bytes, meta>>
  BY DEF Save, store
<1>2. ASSUME NEW o \in Ops
      PROVE  op'[o] \in Requests(scenario.files) /\ Orderly(op'[o], inbox, f)
  <2>1. op[o] \in Requests(scenario.files) /\ Orderly(op[o], inbox, disk.file)
    BY DEF Asks
  <2>2. CASE op[o].at \in {"look", "read"}
    <3> DEFINE r == [op[o] EXCEPT !.since = @ \cup {f}]
    <3>1. /\ r \in Requests(scenario.files) /\ r.at = op[o].at /\ r.kind = op[o].kind
          /\ r.seq = op[o].seq /\ r.ev = op[o].ev /\ r.got = op[o].got /\ f \in r.since
      BY <2>1 DEF Requests
    <3>2. op'[o] = r
      BY <1>1, <2>2
    <3> HIDE DEF r
    <3>3. Orderly(r, inbox, f)
      BY <2>1, <3>1 DEF Orderly
    <3> QED BY <3>1, <3>2, <3>3
  <2>3. CASE op[o].at \notin {"look", "read"}
    <3>1. op'[o] = op[o]
      BY <1>1, <2>3
    <3> QED BY <2>1, <2>3, <3>1 DEF Orderly
  <2> QED BY <2>2, <2>3
<1>3. op' \in [Ops -> Requests(scenario.files)]
  BY <1>1, <1>2
<1>4. \A o \in Ops : Orderly(op'[o], inbox', disk'.file)
  BY <1>1, <1>2
<1> QED BY <1>1, <1>3, <1>4 DEF Asks, Orderly

\* The daemon ends: no request is in progress, and the inbox may be gone.
LEMMA AsksRestart ==
  ASSUME Asks, Restart
  PROVE  Asks'
<1>1. /\ op' = [o \in Ops |-> Idle] /\ (inbox' = inbox \/ inbox' = <<>>)
      /\ Prune(bytes, meta, {}, {}) /\ UNCHANGED <<scenario, disk>>
  BY DEF Restart
<1>2. inbox' \in Seq(Entries) /\ Len(inbox') <= MaxSeq
  <2>1. Len(<<>>) = 0 /\ <<>> \in Seq(Entries) /\ MaxSeq \in Nat
    BY EmptySeq, AccessAssumption DEF AccessAssumption
  <2>2. CASE inbox' = inbox
    BY <2>2 DEF Asks
  <2>3. CASE inbox' = <<>>
    BY <2>1, <2>3
  <2> QED BY <1>1, <2>2, <2>3
<1>3. /\ bytes' \in [Seqs -> DOMAIN Events \cup {"none", "altered"}]
      /\ meta' \in [Seqs -> DOMAIN Events \cup {"none"}]
  BY <1>1, PruneFits DEF Asks
<1>4. \A o \in Ops : op'[o] \in Requests(scenario.files) /\ Orderly(op'[o], inbox', disk'.file)
  BY <1>1, IdleFits
<1>5. op' \in [Ops -> Requests(scenario.files)]
  BY <1>1, <1>4
<1> QED BY <1>1, <1>2, <1>3, <1>4, <1>5 DEF Asks, Orderly

LEMMA AsksKept ==
  ASSUME Asks, UNCHANGED <<scenario, disk, op, inbox, meta>>,
         bytes' \in [Seqs -> DOMAIN Events \cup {"none", "altered"}]
  PROVE  Asks'
BY DEF Asks, Orderly

LEMMA AsksInit == Init => Asks
<1> SUFFICES ASSUME Init PROVE Asks
  OBVIOUS
<1>1. PICK f \in scenario.files : disk = [file |-> f, saves |-> 1]
  BY DEF Init
<1>2. disk.file \in scenario.files /\ scenario \in Scenarios
  BY <1>1 DEF Init
<1>3. inbox \in Seq(Entries) /\ Len(inbox) <= MaxSeq
  BY EmptySeq, AccessAssumption DEF Init, AccessAssumption
<1>4. /\ bytes \in [Seqs -> DOMAIN Events \cup {"none", "altered"}]
      /\ meta \in [Seqs -> DOMAIN Events \cup {"none"}]
  BY DEF Init, Seqs
<1>5. \A o \in Ops : op[o] \in Requests(scenario.files) /\ Orderly(op[o], inbox, disk.file)
  BY IdleFits DEF Init
<1>6. op \in [Ops -> Requests(scenario.files)]
  BY <1>5 DEF Init
<1> QED BY <1>2, <1>3, <1>4, <1>5, <1>6 DEF Asks

LEMMA AsksNext == Asks /\ [Next]_vars => Asks'
<1> SUFFICES ASSUME Asks, [Next]_vars PROVE Asks'
  OBVIOUS
<1>t. bytes \in [Seqs -> DOMAIN Events \cup {"none", "altered"}]
  BY DEF Asks
<1>1. CASE UNCHANGED vars
  BY <1>1, <1>t, AsksKept DEF vars, store
<1>2. ASSUME NEW o \in Ops, Send(o) \/ Fetch(o) \/ Inbound(o) PROVE Asks'
  BY <1>2, AsksRequest
<1>3. ASSUME NEW o \in Ops, Look(o) PROVE Asks'
  BY <1>3, AsksLook
<1>4. ASSUME NEW o \in Ops, Read(o) PROVE Asks'
  BY <1>4, AsksRead
<1>5. ASSUME NEW o \in Ops, Download(o) \/ StoreBytes(o) \/ StoreMeta(o) \/ StoreFails(o) PROVE Asks'
  BY <1>5, AsksStore
<1>6. CASE Boot \/ BootRefused
  BY <1>6, <1>t, AsksKept DEF Boot, BootRefused, store
<1>7. CASE Restart
  BY <1>7, AsksRestart
<1>8. ASSUME NEW f \in scenario.files, Save(f) PROVE Asks'
  BY <1>8, AsksSave
<1>9. ASSUME NEW s \in Seqs, Touch(s) PROVE Asks'
  <2>1. bytes' \in [Seqs -> DOMAIN Events \cup {"none", "altered"}]
    BY <1>9, <1>t DEF Touch
  <2> QED BY <1>9, <2>1, AsksKept DEF Touch
<1> QED BY <1>1, <1>2, <1>3, <1>4, <1>5, <1>6, <1>7, <1>8, <1>9 DEF Next

LEMMA AsksInvariant == Spec => []Asks
BY AsksInit, AsksNext, PTL DEF Spec

\* What a fetch serves is the attachment of the entry that was asked for (attachments.rs:
\* lookup, store).
THEOREM FetchServesItsOwn == Spec => []ServedIsItsOwn
<1>1. Asks => ServedIsItsOwn
  BY DEF Asks, Orderly, ServedIsItsOwn
<1> QED BY <1>1, AsksInvariant, PTL

-----------------------------------------------------------------------------
(* Type correctness *)

Bounds ==
  /\ disk.saves \in 1..(MaxEdits + 1)
  /\ reading \in Ops \cup {"none", "boot"}

LEMMA BoundsInit == Init => Bounds
<1> SUFFICES ASSUME Init PROVE Bounds
  OBVIOUS
<1>1. disk.saves = 1 /\ reading = "boot" /\ MaxEdits \in Nat
  BY AccessAssumption DEF Init, AccessAssumption
<1> QED BY <1>1 DEF Bounds

LEMMA BoundsNext == Bounds /\ [Next]_vars => Bounds'
<1> SUFFICES ASSUME Bounds, [Next]_vars PROVE Bounds'
  OBVIOUS
<1>1. CASE UNCHANGED <<disk, reading>>
  BY <1>1 DEF Bounds
<1>2. ASSUME NEW o \in Ops,
             Send(o) \/ Fetch(o) \/ Inbound(o) \/ Download(o) \/ StoreBytes(o) \/ StoreMeta(o) \/ StoreFails(o)
      PROVE  Bounds'
  BY <1>2, <1>1 DEF Send, Fetch, Inbound, Begin, Download, StoreBytes, StoreMeta, StoreFails
<1>3. ASSUME NEW o \in Ops, Look(o) \/ Read(o) PROVE Bounds'
  BY <1>3 DEF Look, Read, Reload, Bounds
<1>4. CASE Boot \/ BootRefused \/ Restart
  BY <1>4 DEF Boot, BootRefused, Restart, Reload, Bounds
<1>5. ASSUME NEW f \in scenario.files, Save(f) PROVE Bounds'
  <2>1. disk' = [file |-> f, saves |-> disk.saves + 1] /\ reading' = reading /\ disk.saves < MaxEdits + 1
    BY <1>5 DEF Save
  <2>2. disk'.saves = disk.saves + 1 /\ disk.saves \in 1..(MaxEdits + 1) /\ MaxEdits \in Nat
    BY <2>1, AccessAssumption DEF Bounds, AccessAssumption
  <2>3. disk'.saves \in 1..(MaxEdits + 1)
    BY <2>1, <2>2
  <2> QED BY <2>1, <2>3 DEF Bounds
<1>6. ASSUME NEW s \in Seqs, Touch(s) PROVE Bounds'
  BY <1>6, <1>1 DEF Touch
<1> QED BY <1>1, <1>2, <1>3, <1>4, <1>5, <1>6 DEF Next, vars

\* Every request, the list, the inbox and the directory of attachments have their type.
THEOREM TypeCorrect == Spec => []TypeOK
<1>1. Loads /\ Asks /\ Bounds => TypeOK
  <2> SUFFICES ASSUME Loads, Asks, Bounds PROVE TypeOK
    OBVIOUS
  <2>1. list.stamp \in 0..(MaxEdits + 1)
    <3>1. list.stamp \in Nat /\ list.stamp <= disk.saves
      BY DEF Loads
    <3>2. disk.saves \in 1..(MaxEdits + 1) /\ MaxEdits \in Nat
      BY AccessAssumption DEF Bounds, AccessAssumption
    <3> QED BY <3>1, <3>2
  <2>2. \A b \in {list.broken, list.refused, list.loaded} : b \in BOOLEAN
    <3>1. list.broken \in BOOLEAN /\ list.refused \in BOOLEAN /\ list.loaded \in BOOLEAN
      BY DEF Loads, ListLike
    <3> QED BY <3>1
  <2>3. \A o \in Ops : op[o].at \in {"idle", "look", "read", "await", "store", "meta"}
    BY DEF Asks, Requests, Steps
  <2>4. /\ disk.file \in scenario.files /\ Len(inbox) <= MaxSeq
        /\ bytes \in [Seqs -> DOMAIN Events \cup {"none", "altered"}]
        /\ meta \in [Seqs -> DOMAIN Events \cup {"none"}]
    BY DEF Asks
  <2> QED BY <2>1, <2>2, <2>3, <2>4 DEF TypeOK, Bounds
<1> QED BY <1>1, LoadsInvariant, AsksInvariant, BoundsInit, BoundsNext, PTL DEF Spec

-----------------------------------------------------------------------------
(* Requests are granted by the file *)

\* A list that has been read and is not broken follows a file that names recipients.
ReadList(l, d) == Follows(l, d) /\ (l.loaded = TRUE \/ l.broken = TRUE) /\ l.broken \in BOOLEAN

\* Who is named by the rows is the name or the id of one of them.
LEMMA NamesARow ==
  ASSUME NEW rows, NEW who, NamedIn(rows, who) \/ HasId(rows, who)
  PROVE  \E x \in ToSet(rows) : who \in {x.name, x.id}
BY DEF NamedIn, HasId, ToSet

\* What a list that follows f allows, f allows.
LEMMA ListAllows ==
  ASSUME NEW l, NEW f, ReadList(l, Decides(f, decisive)), NEW r,
         \/ r.kind = "send" /\ Resolves(l, Head(r.todo))
         \/ r.kind = "inbound" /\ Accepts(l, Events[r.ev].sender, Events[r.ev].room, r.group)
         \/ r.kind = "fetch" /\ FetchPermitted(l, Events[r.ev].sender, Events[r.ev].room)
  PROVE  AllowedBy(r, f)
<1> DEFINE v == Verdict(f, fixed)
           src == IF v = "observer" THEN decisive ELSE [verdict |-> v, file |-> f]
           good == src.verdict = "good"
           people == IF good THEN Recipients(src.file, fixed) ELSE fixed
           rooms == IF good THEN src.file.rooms ELSE <<>>
           sound == good \/ (src.verdict = "absent" /\ fixed # <<>>)
<1>1. src = Decides(f, decisive)
  BY DEF Decides
<1>2. l.people = people /\ l.rooms = rooms
  BY <1>1 DEF ReadList, Follows
<1>3. l.broken = FALSE => sound
  BY <1>1 DEF ReadList, Follows, Sound
<1>4. AllowedBy(r, f) = CASE r.kind = "send" -> \E x \in ToSet(people) \cup ToSet(rooms) : Head(r.todo) \in {x.name, x.id}
                          [] r.kind = "inbound" -> \/ HasId(rooms, Events[r.ev].room)
                                                   \/ ~r.group /\ HasId(people, Events[r.ev].sender)
                          [] OTHER -> sound /\ (HasId(rooms, Events[r.ev].room) \/ HasId(people, Events[r.ev].sender))
  BY DEF AllowedBy
<1> HIDE DEF src, v, people, rooms, sound
<1>5. CASE r.kind = "send" /\ Resolves(l, Head(r.todo))
  <2>1. \/ NamedIn(people, Head(r.todo)) \/ HasId(people, Head(r.todo))
        \/ NamedIn(rooms, Head(r.todo)) \/ HasId(rooms, Head(r.todo))
    BY <1>2, <1>5 DEF Resolves, ResolvesPerson, ResolvesRoom
  <2>2. \E x \in ToSet(people) \cup ToSet(rooms) : Head(r.todo) \in {x.name, x.id}
    BY <2>1, NamesARow
  <2> QED BY <1>4, <1>5, <2>2
<1>6. CASE r.kind = "inbound" /\ Accepts(l, Events[r.ev].sender, Events[r.ev].room, r.group)
  BY <1>2, <1>4, <1>6 DEF Accepts
<1>7. CASE r.kind = "fetch" /\ FetchPermitted(l, Events[r.ev].sender, Events[r.ev].room)
  <2>1. l.broken = FALSE
    BY <1>7 DEF FetchPermitted, ReadList
  <2> QED BY <1>2, <1>3, <1>4, <1>7, <2>1 DEF FetchPermitted
<1> QED BY <1>5, <1>6, <1>7

\* A request that was granted has passed the list it was decided by.
LEMMA GrantPasses ==
  ASSUME Asks, NEW o \in Ops, NEW l, Decide(o, l), Granted(o), op[o].at \in {"look", "read"}
  PROVE  \/ op[o].kind = "send" /\ Resolves(l, Head(op[o].todo))
         \/ op[o].kind = "inbound" /\ Accepts(l, Events[op[o].ev].sender, Events[op[o].ev].room, op[o].group)
         \/ op[o].kind = "fetch" /\ FetchPermitted(l, Events[op[o].ev].sender, Events[op[o].ev].room)
<1>t. op \in [Ops -> Requests(scenario.files)] /\ Orderly(op[o], inbox, disk.file)
  BY DEF Asks
<1>1. ASSUME Answer(o, "refused") PROVE FALSE
  <2>1. op'[o] = [Idle EXCEPT !.ev = IF op[o].kind = "fetch" THEN op[o].ev ELSE "none", !.got = "refused"]
    BY <1>t, <1>1 DEF Answer
  <2>2. op'[o].at = "idle" /\ op'[o].got = "refused"
    BY <2>1 DEF Idle
  <2> QED BY <2>2 DEF Granted
<1>2. CASE DecideSend(o, l)
  <2>1. Resolves(l, Head(op[o].todo))
    BY <1>1, <1>2 DEF DecideSend, Resolves
  <2> QED BY <1>2, <2>1 DEF DecideSend
<1>3. CASE DecideInbound(o, l)
  BY <1>1, <1>3 DEF DecideInbound
<1>4. CASE DecideFetch(o, l)
  <2>1. op[o].kind = "fetch" /\ op[o].ev = inbox[op[o].seq].ev
    BY <1>t, <1>4 DEF DecideFetch, Orderly
  <2>2. FetchPermitted(l, EventOf(op[o].seq).sender, EventOf(op[o].seq).room)
    BY <1>1, <1>4 DEF DecideFetch
  <2> QED BY <2>1, <2>2 DEF EventOf
<1> QED BY <1>2, <1>3, <1>4 DEF Decide

Allowed(o) == \E f \in op[o].since : AllowedBy(op[o], f)

\* A request decided by a list that follows the file on disk is granted only as that file allows.
LEMMA DecidedByTheFile ==
  ASSUME Asks, NEW o \in Ops, NEW l, Decide(o, l), Granted(o), op[o].at \in {"look", "read"},
         ReadList(l, Decides(disk.file, decisive))
  PROVE  Allowed(o)
<1>1. disk.file \in op[o].since
  BY DEF Asks, Orderly
<1>2. \/ op[o].kind = "send" /\ Resolves(l, Head(op[o].todo))
      \/ op[o].kind = "inbound" /\ Accepts(l, Events[op[o].ev].sender, Events[op[o].ev].room, op[o].group)
      \/ op[o].kind = "fetch" /\ FetchPermitted(l, Events[op[o].ev].sender, Events[op[o].ev].room)
  BY GrantPasses
<1>3. AllowedBy(op[o], disk.file)
  BY <1>2, ListAllows
<1> QED BY <1>1, <1>3 DEF Allowed

\* A step that decides nothing grants nothing.
LEMMA NoGrant ==
  ASSUME Asks, NEW o \in Ops,
         \/ op'[o].at = op[o].at /\ op'[o].todo = op[o].todo
         \/ op'[o] = Idle
         \/ op[o].at \notin {"look", "read"}
         \/ op'[o].at = "read"
  PROVE  ~Granted(o)
BY DEF Granted, Idle

\* Only one request changes.
LEMMA OthersAsk ==
  ASSUME Asks, NEW o \in Ops, NEW r, op' = [op EXCEPT ![o] = r]
  PROVE  \A p \in Ops : p # o => op'[p] = op[p]
BY DEF Asks

LEMMA DecideChangesOne ==
  ASSUME Asks, NEW o \in Ops, NEW l, Decide(o, l)
  PROVE  \A p \in Ops : p # o => op'[p] = op[p]
<1>1. op \in [Ops -> Requests(scenario.files)]
  BY DEF Asks
<1> QED BY <1>1 DEF Decide, DecideSend, DecideInbound, DecideFetch, Answer

GrantsFollow == \A o \in Ops : Granted(o) => Allowed(o)

LEMMA GrantsNext == Loads /\ Asks /\ [Next]_vars => GrantsFollow
<1> SUFFICES ASSUME Loads, Asks, [Next]_vars, NEW p \in Ops, Granted(p)
             PROVE  Allowed(p)
  BY DEF GrantsFollow
<1>t. op \in [Ops -> Requests(scenario.files)]
  BY DEF Asks
<1>1. CASE UNCHANGED op
  BY <1>1, NoGrant
<1>2. ASSUME NEW o \in Ops, Send(o) \/ Fetch(o) \/ Inbound(o)
      PROVE  Allowed(p)
  <2>1. PICK r : Begin(o, r)
    BY <1>2 DEF Send, Fetch, Inbound
  <2>2. op[o].at = "idle" /\ \A q \in Ops : q # o => op'[q] = op[q]
    BY <2>1, <1>t DEF Begin
  <2> QED BY <2>2, NoGrant
<1>3. ASSUME NEW o \in Ops, Download(o) \/ StoreBytes(o) \/ StoreMeta(o) \/ StoreFails(o)
      PROVE  Allowed(p)
  <2>1. op[o].at \notin {"look", "read"} /\ \A q \in Ops : q # o => op'[q] = op[q]
    BY <1>3, <1>t DEF Download, StoreBytes, StoreMeta, StoreFails, Answer
  <2> QED BY <2>1, NoGrant
<1>4. ASSUME NEW o \in Ops, Look(o)
      PROVE  Allowed(p)
  <2>1. op[o].at = "look" /\ reading = "none"
    BY <1>4 DEF Look
  <2>2. CASE Stamp(disk) = list.stamp /\ list.stamp # 0
    <3>1. Decide(o, list)
      BY <1>4, <2>2 DEF Look
    <3>2. ReadList(list, Decides(disk.file, decisive))
      <4>1. /\ Follows(list, decisive) /\ decisive = Decides(disk.file, decisive)
            /\ list.loaded = TRUE \/ list.broken = TRUE
            /\ list.broken \in BOOLEAN
        BY <2>1, <2>2 DEF Loads, ListLike
      <4> QED BY <4>1 DEF ReadList
    <3>3. CASE p = o
      BY <2>1, <3>1, <3>2, <3>3, DecidedByTheFile
    <3>4. CASE p # o
      BY <3>1, <3>4, DecideChangesOne, NoGrant
    <3> QED BY <3>3, <3>4
  <2>3. CASE ~(Stamp(disk) = list.stamp /\ list.stamp # 0)
    <3>1. op' = [op EXCEPT ![o].at = "read"]
      BY <1>4, <2>3 DEF Look
    <3>2. op'[o].at = "read" /\ \A q \in Ops : q # o => op'[q] = op[q]
      BY <3>1, <1>t DEF Requests
    <3> QED BY <3>2, NoGrant
  <2> QED BY <2>2, <2>3
<1>5. ASSUME NEW o \in Ops, Read(o)
      PROVE  Allowed(p)
  <2>1. op[o].at = "read" /\ Reload /\ Decide(o, list') /\ disk' = disk /\ scenario' = scenario
    BY <1>5 DEF Read
  <2>2. ReadList(list', Decides(disk.file, decisive))
    <3>1. Loads' /\ decisive' = Decides(disk.file, decisive) /\ reading' = "none" /\ fixed' = fixed
      BY <2>1, LoadsReload DEF Reload, fixed
    <3>2. Follows(list', Decides(disk.file, decisive))
      BY <3>1 DEF Loads, Follows, Sound
    <3>3. (list'.loaded = TRUE \/ list'.broken = TRUE) /\ list'.broken \in BOOLEAN
      BY <3>1 DEF Loads, ListLike
    <3> QED BY <3>2, <3>3 DEF ReadList
  <2>3. CASE p = o
    BY <2>1, <2>2, <2>3, DecidedByTheFile
  <2>4. CASE p # o
    BY <2>1, <2>4, DecideChangesOne, NoGrant
  <2> QED BY <2>3, <2>4
<1>6. CASE Boot \/ BootRefused
  BY <1>6, <1>1 DEF Boot, BootRefused
<1>7. CASE Restart
  <2>1. op'[p] = Idle
    BY <1>7 DEF Restart
  <2> QED BY <2>1, NoGrant
<1>8. ASSUME NEW f \in scenario.files, Save(f) PROVE Allowed(p)
  <2>1. op'[p] = op[p] \/ op'[p] = [op[p] EXCEPT !.since = @ \cup {f}]
    BY <1>8 DEF Save
  <2>2. op'[p].at = op[p].at /\ op'[p].todo = op[p].todo
    BY <2>1, <1>t DEF Requests
  <2> QED BY <2>2, NoGrant
<1>9. ASSUME NEW s \in Seqs, Touch(s) PROVE Allowed(p)
  BY <1>9, <1>1 DEF Touch
<1> QED BY <1>1, <1>2, <1>3, <1>4, <1>5, <1>6, <1>7, <1>8, <1>9 DEF Next, vars

\* A send is addressed, a message filed and an attachment fetched or served again only if a file
\* that was on disk while the request ran allows it (engine.rs: resolve_to, classify_inbound,
\* fetch_permitted, allow_current).
THEOREM FileGrants == Spec => GrantsFollowTheFile
<1>1. GrantsFollow => \A o \in Ops : Granted(o) => \E f \in op[o].since : AllowedBy(op[o], f)
  BY DEF GrantsFollow, Allowed
<1>2. Loads /\ Asks /\ [Next]_vars =>
        [\A o \in Ops : Granted(o) => \E f \in op[o].since : AllowedBy(op[o], f)]_vars
  BY <1>1, GrantsNext
<1> QED BY <1>2, LoadsInvariant, AsksInvariant, PTL DEF Spec, GrantsFollowTheFile

=============================================================================
