------------------------------- MODULE Access -------------------------------
(***************************************************************************)
(* Who may be messaged, whose messages are recorded and whose attachments  *)
(* are fetched (src/crates/aqua-messenger/src: allowlist.rs, the checks of *)
(* engine.rs, attachments.rs).                                             *)
(*                                                                         *)
(* An operator edits allowlist.toml while the daemon runs.  Every request  *)
(* looks at the file's modification time and reads the file again when it  *)
(* changed, under the list's lock; between the look and the read the file  *)
(* may change once more.  Fetched attachments are kept in a directory, as  *)
(* two files each, and served again from there; the daemon may die between *)
(* the two writes, the directory may be touched by others, and a deleted   *)
(* inbox numbers its entries from 1 again.                                 *)
(***************************************************************************)
EXTENDS Naturals, SequencesExt

CONSTANTS
  Scenarios,  \* what may come together: built-in recipients (none on the host,
              \* the owner of an agent), files, requests, faults
  Malformed,  \* ids and names that are not well-formed
  Self,       \* the messenger's own account, which no observer may be
  Events,     \* inbound messages with an attachment: sender, room, size
  Wanted,     \* what a session puts in `to`
  Mentioned,  \* whom a session mentions, or "nobody"
  Ops,        \* requests in progress at once
  MaxEdits,   \* bound: edits of the file
  MaxSeq,     \* bound: inbox entries
  MaxMishaps  \* bound: restarts, wipes and touched files

FileState == {"ok", "garbled", "unreadable", "absent"}

ASSUME AccessAssumption ==
  /\ \A c \in Scenarios :
       /\ \A f \in c.files : f.state \in FileState
       /\ c.kinds \subseteq {"send", "fetch", "inbound"}
       /\ c.faults \subseteq {"kill", "wipe", "touch", "write"}
  /\ {"boot", "none"} \cap Ops = {}
  /\ MaxEdits \in Nat /\ MaxSeq \in Nat /\ MaxMishaps \in Nat

VARIABLES
  scenario,
  disk,      \* the allow-list file: its content and how often it was saved
  list,      \* AllowList
  reading,   \* who holds the list's lock while it reads the file, or "none"
  op,        \* the requests
  inbox,     \* the inbox: the event of each seq, and whether its room was listed
  bytes,     \* attachments/<seq>-<name>: whose bytes it holds, or "none"
  meta,      \* attachments/<seq>-<name>.meta.json: event id and sha256, or "none"
  mishaps,   \* restarts, wipes and touched files so far
  decisive   \* history: the last file read that was not refused for an observer

store == <<bytes, meta>>
vars == <<scenario, disk, list, reading, op, inbox, bytes, meta, mishaps, decisive>>

-----------------------------------------------------------------------------
Faulty(f) == f \in scenario.faults
fixed == scenario.fixed      \* AllowList::fixed

(* What a file says. *)

Names(rows) == [i \in DOMAIN rows |-> rows[i].name]
NamedIn(rows, n) == \E i \in DOMAIN rows : rows[i].name = n
HasId(rows, id) == \E i \in DOMAIN rows : rows[i].id = id

\* Names are unique over both lists; a room is listed once.
PeopleAndRooms(f) ==
  /\ \A r \in ToSet(f.people) \cup ToSet(f.rooms) : {r.name, r.id} \cap Malformed = {}
  /\ IsInjective(Names(f.people \o f.rooms))
  /\ IsInjective([i \in DOMAIN f.rooms |-> f.rooms[i].id])

\* A file cannot give a built-in name to somebody else, or to a room.
CheckFixed(f, built) ==
  \A i \in DOMAIN built :
    /\ \A r \in ToSet(f.people) : r.name = built[i].name => r.id = built[i].id
    /\ ~NamedIn(f.rooms, built[i].name)

\* An observer is no recipient and not the messenger, sits alone in one room
\* that is not listed, and has a name of its own.
ParseObservers(f, built) ==
  LET o == f.observers
      people == f.people \o built
  IN /\ \A r \in ToSet(o) :
          /\ {r.name, r.id, r.room} \cap Malformed = {}
          /\ r.id # Self
          /\ ~HasId(people, r.id)
          /\ ~HasId(f.rooms, r.room)
          /\ ~NamedIn(people \o f.rooms, r.name)
     /\ IsInjective(Names(o))
     /\ IsInjective([i \in DOMAIN o |-> o[i].room])

\* parse_with: the observers are checked last, so another error wins.
ParseWith(f, built) ==
  IF f.state = "garbled" \/ ~PeopleAndRooms(f) \/ ~CheckFixed(f, built) THEN "file"
  ELSE IF ~ParseObservers(f, built) THEN "observer"
  ELSE "good"

Verdict(f, built) ==
  IF f.state \in {"unreadable", "absent"} THEN f.state ELSE ParseWith(f, built)

\* The built-in recipients first; a person already there is not added again.
AddPerson(people, r) == IF HasId(people, r.id) THEN people ELSE Append(people, r)
Recipients(f, built) == FoldLeft(AddPerson, built, f.people)

-----------------------------------------------------------------------------
(* The list in memory. *)

\* The modification time; 0 where the file has none.
Stamp(d) == IF d.file.state = "absent" THEN 0 ELSE d.saves

Closed(l, built) == [l EXCEPT !.people = built, !.rooms = <<>>, !.observers = <<>>]

Unloaded(built) ==
  [people |-> built, rooms |-> <<>>, observers |-> <<>>, ever |-> {}, stamp |-> 0,
   broken |-> FALSE, refused |-> FALSE, loaded |-> FALSE]

\* A file with a bad observer row leaves the lists of a good one in force.
Keeps(l) == l.loaded /\ ~l.broken

\* What reload makes of the file it has read.
GoodLoad(l, f, built) ==
  [l EXCEPT !.people = Recipients(f, built), !.rooms = f.rooms, !.observers = f.observers,
            !.ever = @ \cup {r.room : r \in ToSet(f.observers)},
            !.broken = FALSE, !.refused = FALSE, !.loaded = TRUE]
RefusedLoad(l, built) ==
  IF Keeps(l) THEN [l EXCEPT !.refused = TRUE]
  ELSE [Closed(l, built) EXCEPT !.refused = TRUE, !.broken = TRUE]
BrokenLoad(l, built) == [Closed(l, built) EXCEPT !.refused = FALSE, !.broken = TRUE]
OwnerOnly(l, built) == [Closed(l, built) EXCEPT !.refused = FALSE, !.broken = FALSE, !.loaded = TRUE]

\* A slip for the checks: the rest of a file with a bad observer row is taken.
LoadRest(l, f) ==
  LET v == Verdict(f, fixed)
  IN CASE v \in {"good", "observer"} -> GoodLoad(l, [f EXCEPT !.observers = <<>>], fixed)
       [] v = "absent" /\ fixed # <<>> -> OwnerOnly(l, fixed)
       [] OTHER -> BrokenLoad(l, fixed)

Load(l, f) ==
  LET v == Verdict(f, fixed)
  IN CASE v = "good" -> GoodLoad(l, f, fixed)
       [] v = "observer" -> RefusedLoad(l, fixed)
       [] v = "absent" /\ fixed # <<>> -> OwnerOnly(l, fixed)
       [] OTHER -> BrokenLoad(l, fixed)

\* resolve_target: a person by name or id, else a listed room.
ResolvesPerson(l, who) == NamedIn(l.people, who) \/ HasId(l.people, who)
ResolvesRoom(l, who) == NamedIn(l.rooms, who) \/ HasId(l.rooms, who)
Resolves(l, who) == ResolvesPerson(l, who) \/ ResolvesRoom(l, who)

Id(rows, who) == rows[SelectInSeq(rows, LAMBDA r : who \in {r.name, r.id})].id

\* classify_inbound: any member in a listed room, else a DM of a recipient.
Accepts(l, sender, room, group) ==
  HasId(l.rooms, room) \/ (~group /\ HasId(l.people, sender))

\* fetch_permitted: checked at the fetch too, and not with a broken list.
FetchPermitted(l, sender, room) ==
  ~l.broken /\ (HasId(l.rooms, room) \/ HasId(l.people, sender))

-----------------------------------------------------------------------------
(* Requests. *)

Idle == [at |-> "idle", kind |-> "none", todo |-> <<>>, seq |-> 0, ev |-> "none",
         group |-> FALSE, got |-> "none", since |-> {}]

NoFile == [state |-> "absent", people |-> <<>>, rooms |-> <<>>, observers |-> <<>>]
Undecided == [verdict |-> "none", file |-> NoFile]

Init ==
  /\ scenario \in Scenarios
  /\ \E f \in scenario.files : disk = [file |-> f, saves |-> 1]
  /\ list = [Unloaded(fixed) EXCEPT !.stamp = Stamp(disk)]
  /\ reading = "boot"
  /\ op = [o \in Ops |-> Idle]
  /\ inbox = <<>>
  /\ bytes = [s \in 1..MaxSeq |-> "none"]
  /\ meta = [s \in 1..MaxSeq |-> "none"]
  /\ mishaps = 0
  /\ decisive = Undecided

EventOf(s) == Events[inbox[s].ev]

\* resolve_reply: a reply goes where its original was posted.
Fits(l, who, s) ==
  \/ s = 0
  \/ IF ResolvesPerson(l, who)
     THEN ~inbox[s].listed /\ EventOf(s).sender = Id(l.people, who)
     ELSE EventOf(s).room = Id(l.rooms, who)

\* A slip for the checks: a file with the entry's number will do.
LookupBySeq(s) == bytes[s] # "none" /\ meta[s] # "none"

\* The attachment of an entry, from the directory: same event, same bytes.
Lookup(s) == meta[s] = inbox[s].ev /\ bytes[s] = inbox[s].ev

Begin(o, r) ==
  /\ op[o].at = "idle" /\ r.kind \in scenario.kinds
  /\ op' = [op EXCEPT ![o] = [r EXCEPT !.at = "look", !.since = {disk.file}]]
  /\ UNCHANGED <<scenario, disk, list, reading, inbox, store, mishaps, decisive>>

\* The mention, if any, is resolved first, then the recipient.
Send(o) ==
  \E to \in Wanted, m \in Mentioned, s \in 0..Len(inbox) :
    /\ m # "nobody" => s = 0
    /\ Begin(o, [Idle EXCEPT !.kind = "send", !.seq = s,
                             !.todo = IF m = "nobody" THEN <<to>> ELSE <<m, to>>])

\* One fetch at a time (fetch_lock); the entry is read before the list is.
Fetch(o) ==
  /\ \A p \in Ops : op[p].kind # "fetch"
  /\ \E s \in 1..Len(inbox) : Begin(o, [Idle EXCEPT !.kind = "fetch", !.seq = s, !.ev = inbox[s].ev])

Inbound(o) ==
  \E e \in DOMAIN Events, g \in BOOLEAN :
    Begin(o, [Idle EXCEPT !.kind = "inbound", !.ev = e, !.group = g])


Answer(o, got) ==
  op' = [op EXCEPT ![o] = [Idle EXCEPT !.ev = IF op[o].kind = "fetch" THEN op[o].ev ELSE "none",
                                       !.got = got]]

DecideSend(o, l) ==
  LET who == Head(op[o].todo)
  IN /\ op[o].kind = "send"
     /\ IF Len(op[o].todo) = 2 /\ ResolvesPerson(l, who)
        THEN op' = [op EXCEPT ![o].todo = Tail(@), ![o].at = "look", ![o].since = {disk.file}]
        ELSE Answer(o, IF Len(op[o].todo) = 1 /\ Resolves(l, who) /\ Fits(l, who, op[o].seq)
                       THEN "sent" ELSE "refused")
     /\ UNCHANGED inbox

\* An event that is offered again is not filed again.
DecideInbound(o, l) ==
  LET e == op[o].ev
      room == Events[e].room
  IN /\ op[o].kind = "inbound"
     /\ IF ~Accepts(l, Events[e].sender, room, op[o].group)
        THEN Answer(o, "refused") /\ UNCHANGED inbox
        ELSE /\ Answer(o, "filed")
             /\ IF (\E i \in DOMAIN inbox : inbox[i].ev = e) \/ Len(inbox) = MaxSeq
                THEN UNCHANGED inbox
                ELSE inbox' = Append(inbox, [ev |-> e, listed |-> HasId(l.rooms, room)])

\* The list is asked before the directory is: a removed sender's attachment is
\* not served from there either.
DecideFetch(o, l) ==
  LET s == op[o].seq
  IN /\ op[o].kind = "fetch"
     /\ IF ~FetchPermitted(l, EventOf(s).sender, EventOf(s).room) THEN Answer(o, "refused")
        ELSE IF Lookup(s) THEN Answer(o, bytes[s])
        ELSE IF EventOf(s).size = "declared" THEN Answer(o, "refused")
        ELSE op' = [op EXCEPT ![o].at = "await", ![o].since = {}]
     /\ UNCHANGED inbox

Decide(o, l) == DecideSend(o, l) \/ DecideInbound(o, l) \/ DecideFetch(o, l)

\* A slip for the checks: a list that has loaded is good for the next request.
LookOnce(o) ==
  /\ op[o].at = "look" /\ reading = "none"
  /\ IF list.loaded
     THEN Decide(o, list) /\ UNCHANGED <<list, reading>>
     ELSE /\ list' = [list EXCEPT !.stamp = Stamp(disk)]
          /\ reading' = o
          /\ op' = [op EXCEPT ![o].at = "read"]
          /\ UNCHANGED inbox
  /\ UNCHANGED <<scenario, disk, store, mishaps, decisive>>

\* allow_current: the stamp is noted before the file is read, so an edit in
\* between is seen by the next request.
Look(o) ==
  /\ op[o].at = "look" /\ reading = "none"
  /\ IF Stamp(disk) = list.stamp /\ list.stamp # 0
     THEN Decide(o, list) /\ UNCHANGED <<list, reading>>
     ELSE /\ list' = [list EXCEPT !.stamp = Stamp(disk)]
          /\ reading' = o
          /\ op' = [op EXCEPT ![o].at = "read"]
          /\ UNCHANGED inbox
  /\ UNCHANGED <<scenario, disk, store, mishaps, decisive>>

\* The file is read and takes effect.
Reload ==
  /\ list' = Load(list, disk.file)
  /\ reading' = "none"
  /\ decisive' = LET v == Verdict(disk.file, fixed)
                 IN IF v = "observer" THEN decisive ELSE [verdict |-> v, file |-> disk.file]

Read(o) ==
  /\ op[o].at = "read"
  /\ Reload
  /\ Decide(o, list')
  /\ UNCHANGED <<scenario, disk, store, mishaps>>

Boot ==
  /\ reading = "boot"
  /\ ~(fixed = <<>> /\ Verdict(disk.file, fixed) = "observer")
  /\ Reload
  /\ UNCHANGED <<scenario, disk, op, inbox, store, mishaps>>

\* The host daemon does not start on a bad observer row; systemd starts it anew.
BootRefused ==
  /\ reading = "boot"
  /\ fixed = <<>> /\ Verdict(disk.file, fixed) = "observer"
  /\ list' = [Unloaded(fixed) EXCEPT !.stamp = Stamp(disk)]
  /\ UNCHANGED <<scenario, disk, reading, op, inbox, store, mishaps, decisive>>

-----------------------------------------------------------------------------
(* Downloads, and the directory. *)

Without(f, gone) == [s \in DOMAIN f |-> IF s \in gone THEN "none" ELSE f[s]]
Seqs == 1..MaxSeq

\* prune: old files go, whatever they hold; those written just now are not old.
Prune(b, m, freshBytes, freshMeta) ==
  \E oldBytes \in SUBSET (Seqs \ freshBytes), oldMeta \in SUBSET (Seqs \ freshMeta) :
    bytes' = Without(b, oldBytes) /\ meta' = Without(m, oldMeta)

Download(o) ==
  /\ op[o].at = "await"
  /\ \/ op' = [op EXCEPT ![o].at = "store"] /\ UNCHANGED store
     \/ Answer(o, "refused") /\ UNCHANGED store                   \* the transport fails
  /\ UNCHANGED <<scenario, disk, list, reading, inbox, mishaps, decisive>>

\* AttachmentStore::store: bytes over the cap are not written.
StoreBytes(o) ==
  /\ op[o].at = "store" /\ EventOf(op[o].seq).size # "hidden"
  /\ bytes' = [bytes EXCEPT ![op[o].seq] = op[o].ev]
  /\ op' = [op EXCEPT ![o].at = "meta"]
  /\ UNCHANGED <<scenario, disk, list, reading, inbox, meta, mishaps, decisive>>

StoreMeta(o) ==
  /\ op[o].at = "meta"
  /\ Prune(bytes, [meta EXCEPT ![op[o].seq] = op[o].ev], {op[o].seq}, {op[o].seq})
  /\ Answer(o, op[o].ev)
  /\ UNCHANGED <<scenario, disk, list, reading, inbox, mishaps, decisive>>

StoreFails(o) ==
  /\ \/ op[o].at = "store" /\ (EventOf(op[o].seq).size = "hidden" \/ Faulty("write"))
     \/ op[o].at = "meta" /\ Faulty("write")
  /\ Prune(bytes, meta, IF op[o].at = "meta" THEN {op[o].seq} ELSE {}, {})
  /\ Answer(o, "refused")
  /\ UNCHANGED <<scenario, disk, list, reading, inbox, mishaps, decisive>>

-----------------------------------------------------------------------------
(* The operator, and mishaps. *)

\* Requests in progress have now run while this content was the file's.
Save(f) ==
  /\ disk.saves < MaxEdits + 1 /\ f # disk.file
  /\ disk' = [file |-> f, saves |-> disk.saves + 1]
  /\ op' = [o \in Ops |-> IF op[o].at \in {"look", "read"}
                          THEN [op[o] EXCEPT !.since = @ \cup {f}] ELSE op[o]]
  /\ UNCHANGED <<scenario, list, reading, inbox, store, mishaps, decisive>>

\* The bytes of a stored attachment are changed by somebody else.
Touch(s) ==
  /\ Faulty("touch") /\ mishaps < MaxMishaps /\ bytes[s] # "none"
  /\ bytes' = [bytes EXCEPT ![s] = "altered"]
  /\ mishaps' = mishaps + 1
  /\ UNCHANGED <<scenario, disk, list, reading, op, inbox, meta, decisive>>

\* The daemon ends and starts again, perhaps with its inbox deleted; old
\* attachments are removed when it starts.
Restart ==
  /\ Faulty("kill") /\ mishaps < MaxMishaps
  /\ mishaps' = mishaps + 1
  /\ list' = [Unloaded(fixed) EXCEPT !.stamp = Stamp(disk)]
  /\ reading' = "boot"
  /\ op' = [o \in Ops |-> Idle]
  /\ inbox' \in {inbox} \cup (IF Faulty("wipe") THEN {<<>>} ELSE {})
  /\ Prune(bytes, meta, {}, {})
  /\ decisive' = Undecided
  /\ UNCHANGED <<scenario, disk>>

Next ==
  \/ \E o \in Ops : Send(o) \/ Fetch(o) \/ Inbound(o) \/ Look(o) \/ Read(o)
                    \/ Download(o) \/ StoreBytes(o) \/ StoreMeta(o) \/ StoreFails(o)
  \/ Boot \/ BootRefused \/ Restart
  \/ \E f \in scenario.files : Save(f)
  \/ \E s \in Seqs : Touch(s)

Spec == Init /\ [][Next]_vars

-----------------------------------------------------------------------------
(* Properties. *)

TypeOK ==
  /\ disk.file \in scenario.files /\ disk.saves \in 1..(MaxEdits + 1)
  /\ list.stamp \in 0..(MaxEdits + 1)
  /\ \A b \in {list.broken, list.refused, list.loaded} : b \in BOOLEAN
  /\ reading \in Ops \cup {"none", "boot"}
  /\ \A o \in Ops : op[o].at \in {"idle", "look", "read", "await", "store", "meta"}
  /\ Len(inbox) <= MaxSeq
  /\ bytes \in [Seqs -> DOMAIN Events \cup {"none", "altered"}]
  /\ meta \in [Seqs -> DOMAIN Events \cup {"none"}]

\* The lists in force are those of the last file that was not refused for an
\* observer, and nobody's but the built-in recipients' when that file was bad;
\* while the modification time is the one noted, that file is the one on disk
\* (allowlist.rs: reload; an edit between the look and the read is not lost).
InForceIsOnDisk ==
  LET good == decisive.verdict = "good"
      f == decisive.file
      v == Verdict(disk.file, fixed)
  IN /\ list.people = IF good THEN Recipients(f, fixed) ELSE fixed
     /\ list.rooms = IF good THEN f.rooms ELSE <<>>
     /\ list.observers = IF good THEN f.observers ELSE <<>>
     /\ reading = "none" /\ list.stamp # 0 /\ list.stamp = Stamp(disk) =>
          IF v = "observer" THEN list.refused
          ELSE decisive = [verdict |-> v, file |-> disk.file] /\ ~list.refused

\* What a file allows a request, read at its best.
AllowedBy(r, f) ==
  LET v == Verdict(f, fixed)
      src == IF v = "observer" THEN decisive ELSE [verdict |-> v, file |-> f]
      good == src.verdict = "good"
      people == IF good THEN Recipients(src.file, fixed) ELSE fixed
      rooms == IF good THEN src.file.rooms ELSE <<>>
      sound == good \/ (src.verdict = "absent" /\ fixed # <<>>)
  IN CASE r.kind = "send" -> \E x \in ToSet(people) \cup ToSet(rooms) : Head(r.todo) \in {x.name, x.id}
       [] r.kind = "inbound" -> \/ HasId(rooms, Events[r.ev].room)
                                \/ ~r.group /\ HasId(people, Events[r.ev].sender)
       [] OTHER -> sound /\ (HasId(rooms, Events[r.ev].room) \/ HasId(people, Events[r.ev].sender))

Granted(o) ==
  /\ op[o].at \in {"look", "read"}
  /\ \/ op'[o].at = "await"
     \/ op'[o].at = "look" /\ op'[o].todo # op[o].todo
     \/ op'[o].at = "idle" /\ op'[o].got \notin {"none", "refused"}

\* A send is addressed, a message filed and an attachment fetched or served
\* again only if a file that was on disk while the request ran allows it
\* (engine.rs: resolve_to, classify_inbound, fetch_permitted, allow_current).
GrantsFollowTheFile ==
  [][\A o \in Ops : Granted(o) => \E f \in op[o].since : AllowedBy(op[o], f)]_vars

\* What a fetch serves is the attachment of the entry that was asked for,
\* whatever was stored, half stored, touched or numbered alike before
\* (attachments.rs: lookup, store).
ServedIsItsOwn ==
  \A o \in Ops : op[o].at = "idle" /\ op[o].ev # "none" => op[o].got \in {op[o].ev, "refused"}

=============================================================================
