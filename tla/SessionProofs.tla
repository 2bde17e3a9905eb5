---------------------------- MODULE SessionProofs ----------------------------
(***************************************************************************)
(* The session lock, the device of a call's session, and the published     *)
(* identity, for any number of tasks, tokens and devices and under every   *)
(* failure of Session.                                                     *)
(***************************************************************************)
EXTENDS Session, TLAPS

Places == Locked \cup Building \cup {"idle", "lock", "retry", "poisoned", "exit", "down"}
Hand == [at : Places, cf : Sessions, client : Clients, new : Sessions, keys : BOOLEAN, own : BOOLEAN]

\* The types, but for the numbers.
Shape ==
  /\ kind \in [Tasks -> KindOfTask] /\ want \in Devices
  /\ file \in [client : Clients, session : Sessions]
  /\ store \in [dev : Devices \cup {NoDev}, keys : BOOLEAN]
  /\ account \in [master : BOOLEAN, current : BOOLEAN]
  /\ task \in [Tasks -> Hand]
  /\ held \in [Tasks -> Devices \cup {NoDev}]

\* What a task that renews the session has in hand, and the lock is its.
Placed(t) ==
  /\ task[t].at \in Locked => lock = t
  /\ task[t].at \in {"register", "whoami", "refresh"} =>
       /\ task[t].cf \in {NoSession, file.session}
       /\ Is(t, "keeper") => task[t].cf = NoSession \/ task[t].cf.dev = held[t]
  /\ task[t].at = "refresh" => task[t].cf.rt # NoId
  /\ task[t].at = "save" /\ Is(t, "keeper") => task[t].new.dev = held[t]

\* No process, no task.
Quiet == ~Up => \A t \in Tasks : task[t].at \in {"idle", "down"}

\* The stored refresh token is good, or its successor is lost or about to be stored.
Grant == \/ file.session.rt \in live \cup {NoId} \/ burnt
         \/ \E t \in Tasks : task[t].at = "save"

Exclusive == Shape /\ (\A t \in Tasks : Placed(t)) /\ Quiet /\ Grant

-----------------------------------------------------------------------------
LEMMA IdleTyped ==
  /\ NoSession \in Sessions /\ NoSession.rt = NoId
  /\ Idle \in Hand /\ Idle.at = "idle"
BY SessionAssumption
   DEF SessionAssumption, NoSession, Sessions, Idle, Hand, Places, Locked, Building, Clients

LEMMA GoesTo ==
  ASSUME task \in [Tasks -> Hand], NEW t \in Tasks, NEW k \in Hand, NEW to \in Places, Goes(t, k, to)
  PROVE  /\ task' \in [Tasks -> Hand]
         /\ task'[t].at = to
         /\ task'[t].cf = k.cf /\ task'[t].new = k.new /\ task'[t].keys = k.keys
         /\ task'[t].client = k.client /\ task'[t].own = k.own
         /\ \A u \in Tasks \ {t} : task'[u] = task[u]
<1>1. [k EXCEPT !.at = to] \in Hand
  BY DEF Hand
<1>2. /\ [k EXCEPT !.at = to].at = to
      /\ [k EXCEPT !.at = to].cf = k.cf /\ [k EXCEPT !.at = to].new = k.new
      /\ [k EXCEPT !.at = to].keys = k.keys /\ [k EXCEPT !.at = to].client = k.client
      /\ [k EXCEPT !.at = to].own = k.own
  BY DEF Hand
<1>3. task' = [task EXCEPT ![t] = [k EXCEPT !.at = to]]
  BY DEF Goes
<1> QED
  BY <1>1, <1>2, <1>3

LEMMA InitExclusive == Init => Exclusive
<1> SUFFICES ASSUME Init PROVE Exclusive
  OBVIOUS
<1>1. task = [t \in Tasks |-> [Idle EXCEPT !.at = IF Is(t, "main") THEN "down" ELSE "idle"]]
  BY DEF Init, Dead
<1>2. \A t \in Tasks : [Idle EXCEPT !.at = IF Is(t, "main") THEN "down" ELSE "idle"] \in Hand
                       /\ [Idle EXCEPT !.at = IF Is(t, "main") THEN "down" ELSE "idle"].at \in {"idle", "down"}
  BY IdleTyped DEF Hand, Places
<1>3. task \in [Tasks -> Hand] /\ \A t \in Tasks : task[t].at \in {"idle", "down"}
  BY <1>1, <1>2
<1>4. kind \in [Tasks -> KindOfTask]
  BY SessionAssumption DEF SessionAssumption, Init
<1>5. file.session = NoSession /\ file \in [client : Clients, session : Sessions]
  BY IdleTyped DEF Init, Clients
<1>6. Shape
  BY <1>3, <1>4, <1>5, SessionAssumption DEF SessionAssumption, Init, Shape
<1>7. \A t \in Tasks : Placed(t)
  BY <1>3 DEF Placed, Locked
<1>8. Quiet /\ Grant
  BY <1>3, <1>5, IdleTyped DEF Quiet, Grant
<1> QED
  BY <1>6, <1>7, <1>8 DEF Exclusive

\* An attempt that ends: the task waits for its next one, and the lock is not its.
LEMMA FailsTo ==
  ASSUME task \in [Tasks -> Hand], NEW t \in Tasks, NEW class, Fails(t, class)
  PROVE  /\ task' \in [Tasks -> Hand]
         /\ task'[t].at \in {"exit", "retry", "poisoned", "idle"}
         /\ \A u \in Tasks \ {t} : task'[u] = task[u]
         /\ lock' = IF lock = t THEN "none" ELSE lock
<1> DEFINE to == IF Is(t, "main") THEN (IF GivesUp(fatal') THEN "exit" ELSE "retry")
                 ELSE IF class = "identity" THEN "poisoned" ELSE "idle"
<1>1. to \in {"exit", "retry", "poisoned", "idle"} /\ to \in Places
  BY DEF Places
<1>2. Goes(t, Idle, to) /\ lock' = IF lock = t THEN "none" ELSE lock
  BY DEF Fails
<1> HIDE DEF to
<1> QED
  BY <1>1, <1>2, GoesTo, IdleTyped

\* What one step of one task keeps.
LEMMA Step ==
  ASSUME Exclusive, Shape', NEW t \in Tasks, Up, kind' = kind,
         task'[t].at # "down",
         \A u \in Tasks \ {t} : /\ task'[u].at = task[u].at
                                /\ task'[u].cf = task[u].cf /\ task'[u].new = task[u].new,
         \A u \in Tasks \ {t} : lock = u /\ task[u].at \in Locked => lock' = u /\ held'[u] = held[u],
         file'.session = file.session \/ lock = t,
         Placed(t)', Grant'
  PROVE  Exclusive'
<1>1. ASSUME NEW u \in Tasks PROVE Placed(u)'
  <2>1. CASE u = t
    BY <2>1
  <2>2. CASE u # t /\ task[u].at \notin Locked
    BY <2>2 DEF Placed, Locked
  <2>3. CASE u # t /\ task[u].at \in Locked
    <3>1. lock = u /\ lock # t /\ lock' = u /\ held'[u] = held[u] /\ file'.session = file.session
      BY <2>3 DEF Exclusive, Placed
    <3> QED
      BY <2>3, <3>1 DEF Exclusive, Placed, Is
  <2> QED
    BY <2>1, <2>2, <2>3
<1>2. Up'
  BY DEF Up, Is
<1> QED
  BY <1>1, <1>2 DEF Exclusive, Quiet

LEMMA GrantStays ==
  ASSUME Exclusive, NEW t \in Tasks, task[t].at # "save",
         \A u \in Tasks \ {t} : task'[u].at = task[u].at,
         file'.session = file.session,
         burnt => burnt', burnt' \/ (file.session.rt \in live => file.session.rt \in live')
  PROVE  Grant'
BY DEF Exclusive, Grant

\* A step after which the task does not hold the lock.
LEMMA Away ==
  ASSUME Exclusive, Shape', NEW t \in Tasks, Up, kind' = kind,
         task[t].at # "save", task'[t].at \notin Locked \cup {"down"},
         \A u \in Tasks \ {t} : /\ task'[u].at = task[u].at
                                /\ task'[u].cf = task[u].cf /\ task'[u].new = task[u].new,
         lock' = lock \/ lock' = IF lock = t THEN "none" ELSE lock,
         \A u \in Tasks \ {t} : lock = u /\ task[u].at \in Locked => held'[u] = held[u],
         file'.session = file.session,
         burnt => burnt', burnt' \/ (file.session.rt \in live => file.session.rt \in live')
  PROVE  Exclusive'
<1>1. Grant'
  BY GrantStays
<1>2. Placed(t)'
  BY DEF Placed, Locked
<1>3. \A u \in Tasks \ {t} : lock = u => lock' = u
  OBVIOUS
<1> QED
  BY <1>1, <1>2, <1>3, Step

\* A token the file has is not forgotten by the issue of another one.
LEMMA Issued ==
  ASSUME NEW i, NEW r, NEW back, Issue(i, r, back), file.session.rt \in live
  PROVE  file.session.rt \in back \/ file.session.rt \in live'
BY DEF Issue, InUse

\* A task that is under way, so the process is.
LEMMA Running ==
  ASSUME Exclusive, NEW t \in Tasks, task[t].at \notin {"idle", "down"}
  PROVE  Up
BY DEF Exclusive, Quiet

\* An attempt that ends in the middle, with no token traded in but one that is given up.
LEMMA FailKeeps ==
  ASSUME Exclusive, NEW t \in Tasks, NEW class, Fails(t, class), Up, task[t].at # "save",
         kind' = kind, want' = want, file' = file, store' = store, account' = account, held' = held,
         burnt => burnt', burnt' \/ (file.session.rt \in live => file.session.rt \in live')
  PROVE  Exclusive'
<1>1. /\ task' \in [Tasks -> Hand]
      /\ task'[t].at \in {"exit", "retry", "poisoned", "idle"}
      /\ \A u \in Tasks \ {t} : task'[u] = task[u]
      /\ lock' = IF lock = t THEN "none" ELSE lock
  BY FailsTo DEF Exclusive, Shape
<1>2. Shape'
  BY <1>1 DEF Exclusive, Shape
<1>3. task'[t].at \notin Locked \cup {"down"}
  BY <1>1 DEF Locked
<1> QED
  BY <1>1, <1>2, <1>3, Away

\* One that goes on without the lock, or gives it back.
LEMMA GoKeeps ==
  ASSUME Exclusive, NEW t \in Tasks, NEW k \in Hand, NEW to \in Places, Goes(t, k, to),
         to \notin Locked \cup {"down"}, Up, task[t].at # "save",
         lock' = lock \/ lock' = IF lock = t THEN "none" ELSE lock,
         \A u \in Tasks \ {t} : lock = u /\ task[u].at \in Locked => held'[u] = held[u],
         kind' = kind, want' = want, file' = file,
         store' \in [dev : Devices \cup {NoDev}, keys : BOOLEAN],
         account' \in [master : BOOLEAN, current : BOOLEAN], held' \in [Tasks -> Devices \cup {NoDev}],
         burnt' = burnt, live' = live
  PROVE  Exclusive'
<1>1. /\ task' \in [Tasks -> Hand] /\ task'[t].at = to
      /\ \A u \in Tasks \ {t} : task'[u] = task[u]
  BY GoesTo DEF Exclusive, Shape
<1>2. Shape'
  BY <1>1 DEF Exclusive, Shape
<1> QED
  BY <1>1, <1>2, Away

\* One that goes on with the lock.
LEMMA HoldKeeps ==
  ASSUME Exclusive, NEW t \in Tasks, NEW k \in Hand, NEW to \in Places, Goes(t, k, to), Up,
         to # "down", task[t].at # "save", lock \in {t, "none"}, lock' = t,
         to \in {"register", "whoami", "refresh"} =>
            /\ k.cf \in {NoSession, file.session}
            /\ Is(t, "keeper") => k.cf = NoSession \/ k.cf.dev = held[t],
         to = "refresh" => k.cf.rt # NoId,
         to = "save" /\ Is(t, "keeper") => k.new.dev = held[t],
         kind' = kind, want' = want, file' \in [client : Clients, session : Sessions],
         file'.session = file.session, store' = store, account' = account, held' = held,
         burnt' = burnt,
         to = "save" \/ (file.session.rt \in live => file.session.rt \in live')
  PROVE  Exclusive'
<1>1. /\ task' \in [Tasks -> Hand] /\ task'[t].at = to /\ task'[t].cf = k.cf /\ task'[t].new = k.new
      /\ \A u \in Tasks \ {t} : task'[u] = task[u]
  BY GoesTo DEF Exclusive, Shape
<1>2. Shape'
  BY <1>1 DEF Exclusive, Shape
<1>3. Placed(t)'
  BY <1>1 DEF Placed, Is
<1>4. Grant'
  <2>1. CASE to = "save"
    BY <1>1, <2>1 DEF Grant
  <2>2. CASE to # "save"
    BY <1>1, <2>2, GrantStays
  <2> QED
    BY <2>1, <2>2
<1>5. \A u \in Tasks \ {t} : lock # u
  BY SessionAssumption DEF SessionAssumption
<1> QED
  BY <1>1, <1>2, <1>3, <1>4, <1>5, Step

-----------------------------------------------------------------------------
(* The renewal, action by action *)

LEMMA BeginKeeps == ASSUME Exclusive, NEW t \in Tasks, Begin(t) PROVE Exclusive'
<1>1. Up /\ task[t].at \in {"idle", "retry"} /\ UNCHANGED <<fixed, file, tokens, crypto>>
  BY DEF Begin
<1>2. CASE Goes(t, Idle, "lock") /\ lock' = lock
  BY <1>1, <1>2, IdleTyped, GoKeeps DEF Exclusive, Shape, fixed, tokens, crypto, Places, Locked
<1>3. CASE Fails(t, "fatal")
  BY <1>1, <1>3, FailKeeps DEF fixed, tokens, crypto
<1> QED
  BY <1>2, <1>3 DEF Begin

\* Which tier comes first.
LEMMA TierOf ==
  ASSUME NEW t \in Tasks, NEW s
  PROVE  /\ Tier(t, s) \in {"auth", "whoami", "refresh"}
         /\ Tier(t, s) = "refresh" => s.rt # NoId
BY DEF Tier

LEMMA LoadKeeps == ASSUME Exclusive, NEW t \in Tasks, Load(t) PROVE Exclusive'
<1> DEFINE c == Cached
           k == [Idle EXCEPT !.cf = c, !.client = file.client]
           to == IF file.client = "none" THEN "register" ELSE Tier(t, c)
<1>1. Up /\ task[t].at = "lock" /\ lock = "none" /\ UNCHANGED <<fixed, file, tokens, crypto>>
  BY Running DEF Load, Locks
<1>2. c \in {NoSession, file.session} /\ c \in Sessions /\ file.client \in Clients
  BY IdleTyped DEF Cached, Exclusive, Shape
<1>3. CASE Fails(t, "identity")
  BY <1>1, <1>3, FailKeeps DEF fixed, tokens, crypto
<1>4. CASE ~Fails(t, "identity")
  <2>1. lock' = t /\ Goes(t, k, to) /\ (c = NoSession \/ Expected(t, c.dev))
    BY <1>4 DEF Load
  <2>2. to \in Places /\ to # "down" /\ to # "save" /\ (to = "refresh" => c.rt # NoId)
    BY TierOf DEF Places, Locked
  <2>3. k \in Hand /\ k.cf = c
    BY <1>2, IdleTyped DEF Hand
  <2>4. Is(t, "keeper") => c = NoSession \/ c.dev = held[t]
    BY <2>1 DEF Expected
  <2> HIDE DEF c, k, to
  <2> QED
    BY <1>1, <1>2, <2>1, <2>2, <2>3, <2>4, HoldKeeps DEF Exclusive, Shape, fixed, tokens, crypto
<1> QED
  BY <1>3, <1>4

\* The requests that may fail under the lock.
LEMMA NetKeeps ==
  ASSUME Exclusive, NEW t \in Tasks, task[t].at \notin {"idle", "down", "save"},
         Network(t) \/ Refused(t), UNCHANGED <<fixed, file, tokens, crypto>>
  PROVE  Exclusive'
<1>1. Up
  BY Running
<1> QED
  BY <1>1, FailKeeps DEF Network, Refused, fixed, tokens, crypto

LEMMA RegisterKeeps == ASSUME Exclusive, NEW t \in Tasks, Register(t) PROVE Exclusive'
<1> DEFINE r == Registered(task[t])
           to == Tier(t, task[t].cf)
<1>1. Up /\ task[t].at = "register" /\ task[t] \in Hand /\ UNCHANGED <<fixed, tokens, crypto>>
  BY Running DEF Register, Exclusive, Shape
<1>2. CASE Saves([file EXCEPT !.client = "known"]) /\ Goes(t, r, to) /\ lock' = lock
  <2>1. /\ r \in Hand /\ r.cf = task[t].cf
        /\ file' \in [client : Clients, session : Sessions] /\ file'.session = file.session
    BY <1>1, <1>2 DEF Registered, Hand, Clients, Saves, Exclusive, Shape
  <2>2. to \in Places /\ to # "down" /\ to # "save" /\ (to = "refresh" => r.cf.rt # NoId)
    BY <2>1, TierOf DEF Places, Locked
  <2>3. lock = t /\ r.cf \in {NoSession, file.session}
        /\ (Is(t, "keeper") => r.cf = NoSession \/ r.cf.dev = held[t])
    BY <1>1, <2>1 DEF Exclusive, Placed, Locked
  <2> HIDE DEF r, to
  <2> QED
    BY <1>1, <1>2, <2>1, <2>2, <2>3, HoldKeeps DEF fixed, tokens, crypto
<1>3. CASE SaveFails /\ Fails(t, "fatal")
  BY <1>1, <1>3, FailKeeps DEF SaveFails, fixed, tokens, crypto
<1>4. CASE (Network(t) \/ Refused(t)) /\ UNCHANGED file
  BY <1>1, <1>4, NetKeeps
<1> QED
  BY <1>2, <1>3, <1>4 DEF Register

\* The session is there: the lock is free, and whoever is to build a client goes on.
LEMMA AcquiredTo ==
  ASSUME Exclusive, NEW t \in Tasks, NEW k \in Hand, Acquired(t, k)
  PROVE  /\ lock' = "none" /\ task' \in [Tasks -> Hand]
         /\ task'[t].at \in {"idle", "build"}
         /\ \A u \in Tasks \ {t} : task'[u] = task[u]
<1> DEFINE i == [Idle EXCEPT !.new.dev = k.new.dev]
           to == IF Is(t, "keeper") THEN "idle" ELSE "build"
<1>1. k.new \in Sessions
  BY DEF Hand
<1>2. i \in Hand
  BY <1>1, IdleTyped DEF Hand, Sessions
<1>3. to \in Places /\ to \in {"idle", "build"} /\ Goes(t, i, to) /\ lock' = "none"
  BY DEF Places, Building, Acquired
<1> HIDE DEF i, to
<1> QED
  BY <1>2, <1>3, GoesTo DEF Exclusive, Shape

LEMMA WhoamiKeeps == ASSUME Exclusive, NEW t \in Tasks, Whoami(t) PROVE Exclusive'
<1>1. Up /\ task[t].at = "whoami" /\ task[t] \in Hand /\ UNCHANGED <<fixed, file, tokens, crypto>>
  BY Running DEF Whoami, Exclusive, Shape
<1>2. lock = t
  BY <1>1 DEF Exclusive, Placed, Locked
<1>3. CASE Acquired(t, [task[t] EXCEPT !.new = task[t].cf])
  <2>1. [task[t] EXCEPT !.new = task[t].cf] \in Hand
    BY <1>1 DEF Hand
  <2>2. /\ lock' = "none" /\ task' \in [Tasks -> Hand]
        /\ task'[t].at \in {"idle", "build"}
        /\ \A u \in Tasks \ {t} : task'[u] = task[u]
    BY <1>3, <2>1, AcquiredTo
  <2>3. Shape'
    BY <1>1, <2>2 DEF Exclusive, Shape, fixed, crypto
  <2>4. task'[t].at \notin Locked \cup {"down"}
    BY <2>2 DEF Locked
  <2> QED
    BY <1>1, <1>2, <2>2, <2>3, <2>4, Away DEF fixed, tokens, crypto
<1>4. CASE Network(t)
  BY <1>1, <1>4, NetKeeps
<1>5. CASE Goes(t, task[t], "auth") /\ lock' = lock
  <2>1. "auth" \in Places
    BY DEF Places, Locked
  <2> QED
    BY <1>1, <1>2, <1>5, <2>1, HoldKeeps DEF Exclusive, Shape, fixed, tokens, crypto
<1> QED
  BY <1>3, <1>4, <1>5 DEF Whoami

LEMMA UnheardKeeps == ASSUME Exclusive, NEW t \in Tasks, RefreshUnheard(t) PROVE Exclusive'
<1>1. /\ Up /\ task[t].at = "refresh" /\ Fails(t, "transient")
      /\ UNCHANGED <<fixed, file, crypto>>
      /\ UNCHANGED tokens \/ burnt'
  BY Running DEF RefreshUnheard, Unheard
<1> QED
  BY <1>1, FailKeeps DEF fixed, tokens, crypto

\* A refresh that is answered gives up the old token, and has the new one in hand.
LEMMA RefreshKeeps == ASSUME Exclusive, NEW t \in Tasks, Refresh(t) PROVE Exclusive'
<1>1. /\ Up /\ task[t].at = "refresh" /\ task[t] \in Hand /\ lock = t /\ lock' = t /\ burnt' = burnt
      /\ UNCHANGED <<fixed, file, crypto>>
  BY Running DEF Refresh, Exclusive, Shape, Placed, Locked
<1>2. CASE \E i \in Ids, rotate \in BOOLEAN :
             Rotates(task[t], i, rotate) /\ Goes(t, Refreshed(task[t], i, rotate), "save")
  <2>1. PICK i \in Ids, rotate \in BOOLEAN : Goes(t, Refreshed(task[t], i, rotate), "save")
    BY <1>2
  <2> DEFINE n == [id |-> i, rt |-> IF rotate THEN i ELSE task[t].cf.rt, dev |-> task[t].cf.dev]
             k == [task[t] EXCEPT !.new = n]
  <2>2. task[t].cf \in Sessions
    BY <1>1 DEF Hand
  <2>3. n \in Sessions /\ n.dev = task[t].cf.dev
    BY <2>2 DEF Sessions
  <2>4. Goes(t, k, "save")
    BY <2>1 DEF Refreshed
  <2> HIDE DEF n
  <2>5. k \in Hand /\ k.new = n
    BY <1>1, <2>3 DEF Hand
  <2>6. Is(t, "keeper") => task[t].cf.dev = held[t]
    BY <1>1, IdleTyped DEF Exclusive, Placed
  <2>7. "save" \in Places
    BY DEF Places, Locked
  <2> HIDE DEF k
  <2> QED
    BY <1>1, <2>3, <2>4, <2>5, <2>6, <2>7, HoldKeeps DEF Exclusive, Shape, fixed, crypto
<1>3. CASE Goes(t, task[t], "auth") /\ UNCHANGED <<live, fresh>>
  <2>1. "auth" \in Places
    BY DEF Places, Locked
  <2> QED
    BY <1>1, <1>3, <2>1, HoldKeeps DEF Exclusive, Shape, fixed, crypto
<1> QED
  BY <1>2, <1>3 DEF Refresh

LEMMA LoginKeeps == ASSUME Exclusive, NEW t \in Tasks, Login(t) PROVE Exclusive'
<1>1. /\ Up /\ task[t].at \in {"auth", "auth_again"} /\ task[t] \in Hand /\ lock = t /\ burnt' = burnt
      /\ UNCHANGED <<fixed, file, crypto>>
  BY Running DEF Login, Exclusive, Shape, Placed, Locked
<1>2. CASE /\ \E i \in Ids, d \in Granted(task[t]), r \in BOOLEAN :
                /\ Issue(i, r, {})
                /\ Goes(t, [task[t] EXCEPT !.new = [id |-> i, rt |-> IF r THEN i ELSE NoId, dev |-> d]],
                        "identify")
           /\ lock' = lock
  <2>1. PICK i \in Ids, d \in Granted(task[t]), r \in BOOLEAN :
          /\ Issue(i, r, {})
          /\ Goes(t, [task[t] EXCEPT !.new = [id |-> i, rt |-> IF r THEN i ELSE NoId, dev |-> d]],
                  "identify")
    BY <1>2
  <2> DEFINE n == [id |-> i, rt |-> IF r THEN i ELSE NoId, dev |-> d]
             k == [task[t] EXCEPT !.new = n]
  <2>2. d \in Devices
    BY DEF Granted, Exclusive, Shape
  <2>3. n \in Sessions
    BY <2>2 DEF Sessions
  <2> HIDE DEF n
  <2>4. k \in Hand /\ "identify" \in Places
    BY <1>1, <2>3 DEF Hand, Places, Locked
  <2>5. Goes(t, k, "identify")
    BY <2>1 DEF n
  <2>6. file.session.rt \in live => file.session.rt \in live'
    BY <2>1, Issued
  <2> HIDE DEF k
  <2> QED
    BY <1>1, <1>2, <2>4, <2>5, <2>6, HoldKeeps DEF Exclusive, Shape, fixed, crypto
<1>3. CASE Unknown(t) /\ UNCHANGED <<live, fresh>>
  <2>1. CASE Goes(t, task[t], "reregister") /\ lock' = lock
    <3>1. "reregister" \in Places
      BY DEF Places, Locked
    <3> QED
      BY <1>1, <1>3, <2>1, <3>1, HoldKeeps DEF Exclusive, Shape, fixed, crypto
  <2>2. CASE Fails(t, "fatal")
    BY <1>1, <1>3, <2>2, FailKeeps DEF fixed, crypto
  <2> QED
    BY <1>3, <2>1, <2>2 DEF Unknown
<1>4. CASE (Network(t) \/ Refused(t)) /\ UNCHANGED <<live, fresh>>
  BY <1>1, <1>4, NetKeeps DEF tokens
<1> QED
  BY <1>2, <1>3, <1>4 DEF Login

LEMMA ReregisterKeeps == ASSUME Exclusive, NEW t \in Tasks, Reregister(t) PROVE Exclusive'
<1> DEFINE r == Registered(task[t])
<1>1. Up /\ task[t].at = "reregister" /\ task[t] \in Hand /\ lock = t /\ UNCHANGED <<fixed, tokens, crypto>>
  BY Running DEF Reregister, Exclusive, Shape, Placed, Locked
<1>2. CASE /\ Saves([file EXCEPT !.client = "known"]) \/ SaveFails
           /\ Goes(t, r, "auth_again") /\ lock' = lock
  <2>1. r \in Hand /\ "auth_again" \in Places
    BY <1>1 DEF Registered, Hand, Clients, Places, Locked
  <2>2. file' \in [client : Clients, session : Sessions] /\ file'.session = file.session
    BY <1>2 DEF Clients, Saves, SaveFails, Exclusive, Shape
  <2> HIDE DEF r
  <2> QED
    BY <1>1, <1>2, <2>1, <2>2, HoldKeeps DEF fixed, tokens, crypto
<1>3. CASE (Network(t) \/ Refused(t)) /\ UNCHANGED file
  BY <1>1, <1>3, NetKeeps
<1> QED
  BY <1>2, <1>3 DEF Reregister

LEMMA IdentifyKeeps == ASSUME Exclusive, NEW t \in Tasks, Identify(t) PROVE Exclusive'
<1>1. /\ Up /\ task[t].at = "identify" /\ task[t] \in Hand /\ lock = t
      /\ UNCHANGED <<fixed, file, tokens, crypto>>
  BY Running DEF Identify, Exclusive, Shape, Placed, Locked
<1>2. CASE Expected(t, task[t].new.dev) /\ Goes(t, task[t], "save") /\ lock' = lock
  <2>1. "save" \in Places /\ (Is(t, "keeper") => task[t].new.dev = held[t])
    BY <1>2 DEF Places, Locked, Expected
  <2> QED
    BY <1>1, <1>2, <2>1, HoldKeeps DEF Exclusive, Shape, fixed, tokens, crypto
<1>3. CASE Fails(t, "identity")
  BY <1>1, <1>3, FailKeeps DEF fixed, tokens, crypto
<1>4. CASE Network(t) \/ Refused(t)
  BY <1>1, <1>4, NetKeeps
<1> QED
  BY <1>2, <1>3, <1>4 DEF Identify

LEMMA SaveKeeps == ASSUME Exclusive, NEW t \in Tasks, Save(t) PROVE Exclusive'
<1>1. /\ Up /\ task[t].at = "save" /\ task[t] \in Hand /\ lock = t /\ live' = live
      /\ UNCHANGED <<fixed, crypto>> /\ burnt' = (file'.session.rt \notin live \cup {NoId})
      /\ Acquired(t, task[t])
  BY Running DEF Save, Exclusive, Shape, Placed, Locked
<1>2. /\ lock' = "none" /\ task' \in [Tasks -> Hand]
      /\ task'[t].at \in {"idle", "build"}
      /\ \A u \in Tasks \ {t} : task'[u] = task[u]
  BY <1>1, AcquiredTo
<1>3. task[t].new \in Sessions
  BY <1>1 DEF Hand
<1>4. file' \in [client : Clients, session : Sessions]
  BY <1>3 DEF Save, Saves, SaveFails, Exclusive, Shape
<1>5. Shape'
  BY <1>1, <1>2, <1>4 DEF Exclusive, Shape, fixed, crypto
<1>6. Placed(t)'
  BY <1>2 DEF Placed, Locked
<1>7. Grant'
  BY <1>1 DEF Grant
<1> QED
  BY <1>1, <1>2, <1>5, <1>6, <1>7, Step DEF fixed, crypto

LEMMA CancelKeeps == ASSUME Exclusive, NEW t \in Tasks, Cancel(t) PROVE Exclusive'
<1>1. /\ task[t].at \notin {"idle", "down", "save"} /\ Fails(t, "transient")
      /\ UNCHANGED <<fixed, file, crypto>>
      /\ UNCHANGED tokens \/ burnt'
  BY DEF Cancel, Locked
<1>2. Up
  BY <1>1, Running
<1> QED
  BY <1>1, <1>2, FailKeeps DEF fixed, tokens, crypto

LEMMA NextCallKeeps == ASSUME Exclusive, NEW t \in Tasks, NextCall(t) PROVE Exclusive'
<1>1. /\ Up /\ task[t].at = "poisoned" /\ Goes(t, Idle, "idle") /\ held' = [held EXCEPT ![t] = NoDev]
      /\ UNCHANGED <<fixed, file, tokens, lock, store, account>>
  BY Running DEF NextCall
<1> QED
  BY <1>1, IdleTyped, GoKeeps DEF Exclusive, Shape, fixed, tokens, Places, Locked

LEMMA RenewsKeeps == ASSUME Exclusive, NEW t \in Tasks, Renews(t) PROVE Exclusive'
BY BeginKeeps, LoadKeeps, RegisterKeeps, WhoamiKeeps, UnheardKeeps, RefreshKeeps, LoginKeeps,
   ReregisterKeeps, IdentifyKeeps, SaveKeeps, CancelKeeps, NextCallKeeps DEF Renews

-----------------------------------------------------------------------------
(* connect, and the surroundings *)

LEMMA BuildKeeps == ASSUME Exclusive, NEW t \in Tasks, Build(t) PROVE Exclusive'
<1> DEFINE mine == Opens(task[t].new.dev)
           k == task[t]
<1>1. Up /\ task[t].at = "build" /\ task[t] \in Hand /\ UNCHANGED <<fixed, file, tokens, account, held>>
  BY Running DEF Build, Exclusive, Shape
<1>2. CASE Fails(t, "fatal") /\ UNCHANGED store
  BY <1>1, <1>2, FailKeeps DEF fixed, tokens
<1>3. CASE ~(Fails(t, "fatal") /\ UNCHANGED store)
  <2>1. /\ store' = [dev |-> k.new.dev, keys |-> mine /\ store.keys]
        /\ task' = [u \in Tasks |->
              IF u = t THEN [k EXCEPT !.at = "sync", !.keys = store'.keys, !.own = TRUE]
              ELSE [task[u] EXCEPT !.own = @ /\ mine]]
        /\ lock' = lock
    BY <1>3 DEF Build
  <2>2. mine \in BOOLEAN
    BY DEF Opens
  <2>3. store' \in [dev : Devices \cup {NoDev}, keys : BOOLEAN] /\ store'.keys \in BOOLEAN
    <3>1. k.new.dev \in Devices \cup {NoDev} /\ (mine /\ store.keys) \in BOOLEAN
      BY <1>1, <2>2 DEF Hand, Sessions
    <3> QED
      BY <2>1, <3>1
  <2> HIDE DEF mine
  <2>4. [k EXCEPT !.at = "sync", !.keys = store'.keys, !.own = TRUE] \in Hand
        /\ [k EXCEPT !.at = "sync", !.keys = store'.keys, !.own = TRUE].at = "sync"
    BY <1>1, <2>3 DEF Hand, Places, Building
  <2>5. ASSUME NEW u \in Tasks \ {t}
        PROVE  /\ task'[u] \in Hand
               /\ task'[u].at = task[u].at /\ task'[u].cf = task[u].cf /\ task'[u].new = task[u].new
    <3>1. task[u] \in Hand /\ task'[u] = [task[u] EXCEPT !.own = @ /\ mine]
      BY <2>1 DEF Exclusive, Shape
    <3>2. (task[u].own /\ mine) \in BOOLEAN
      OBVIOUS
    <3> QED
      BY <3>1, <3>2 DEF Hand
  <2>6. task' \in [Tasks -> Hand] /\ task'[t].at = "sync"
    BY <2>1, <2>4, <2>5
  <2>7. Shape'
    BY <1>1, <2>3, <2>6 DEF Exclusive, Shape, fixed
  <2>8. task'[t].at \notin Locked \cup {"down"}
    BY <2>6 DEF Locked
  <2> QED
    BY <1>1, <2>1, <2>5, <2>7, <2>8, Away DEF fixed, tokens
<1> QED
  BY <1>2, <1>3

LEMMA SyncKeeps == ASSUME Exclusive, NEW t \in Tasks, InitialSync(t) PROVE Exclusive'
<1>1. /\ Up /\ task[t].at = "sync" /\ task[t] \in Hand
      /\ UNCHANGED <<fixed, file, tokens, store, account>>
  BY Running DEF InitialSync, Exclusive, Shape
<1>2. CASE Goes(t, task[t], AfterSync) /\ UNCHANGED <<lock, held>>
  BY <1>1, <1>2, GoKeeps DEF AfterSync, Exclusive, Shape, fixed, tokens, Places, Building, Locked
<1>3. CASE held' = [held EXCEPT ![t] = task[t].new.dev] /\ Goes(t, Idle, "idle") /\ lock' = lock
  <2>1. task[t].new.dev \in Devices \cup {NoDev}
    BY <1>1 DEF Hand, Sessions
  <2>2. held' \in [Tasks -> Devices \cup {NoDev}] /\ \A u \in Tasks \ {t} : held'[u] = held[u]
    BY <1>3, <2>1 DEF Exclusive, Shape
  <2>3. "idle" \in Places /\ "idle" \notin Locked \cup {"down"}
    BY DEF Places, Locked
  <2> QED
    BY <1>1, <1>3, <2>2, <2>3, IdleTyped, GoKeeps DEF Exclusive, Shape, fixed, tokens
<1>4. CASE Network(t) /\ UNCHANGED held
  BY <1>1, <1>4, FailKeeps DEF Network, fixed, tokens
<1> QED
  BY <1>2, <1>3, <1>4 DEF InitialSync

\* connect hands its client to the tasks that wait for one: none of them has the lock.
LEMMA DoneKeeps ==
  ASSUME Exclusive, NEW t \in Tasks, NEW dev \in Devices \cup {NoDev}, Done(t, dev), Up,
         task[t].at \in Building, lock' = lock, UNCHANGED <<fixed, file, tokens>>, store' = store,
         account' \in [master : BOOLEAN, current : BOOLEAN]
  PROVE  Exclusive'
<1>1. /\ held' \in [Tasks -> Devices \cup {NoDev}]
      /\ \A u \in Tasks \ {t} : task[u].at \in Locked => held'[u] = held[u]
  BY DEF Done, Exclusive, Shape, Locked
<1>2. Goes(t, Idle, "idle") /\ "idle" \in Places /\ "idle" \notin Locked \cup {"down"}
  BY DEF Done, Places, Locked
<1>3. task[t].at # "save"
  BY DEF Building
<1> QED
  BY <1>1, <1>2, <1>3, IdleTyped, GoKeeps DEF Exclusive, Shape, fixed, tokens

LEMMA RestoreKeeps == ASSUME Exclusive, NEW t \in Tasks, Restore(t) PROVE Exclusive'
<1>1. /\ Up /\ task[t].at = "recover" /\ task[t] \in Hand
      /\ UNCHANGED <<fixed, file, tokens, lock, account, held>>
  BY Running DEF Restore, Exclusive, Shape
<1>2. PICK keys \in {task[t].keys \/ (keyfile = "opens" /\ account.current)}
                     \cup (IF Has("restore") THEN {task[t].keys} ELSE {}) :
        Goes(t, [task[t] EXCEPT !.keys = keys], "sign") /\ Keeps(task[t], keys)
  BY DEF Restore
<1>3. keys \in BOOLEAN
  <2>1. task[t].keys \in BOOLEAN
    BY <1>1 DEF Hand
  <2> QED
    BY <1>2, <2>1
<1> DEFINE k == [task[t] EXCEPT !.keys = keys]
<1>4. k \in Hand /\ Goes(t, k, "sign") /\ "sign" \in Places /\ "sign" \notin Locked \cup {"down"}
  BY <1>1, <1>2, <1>3 DEF Hand, Places, Building, Locked
<1>5. store' \in [dev : Devices \cup {NoDev}, keys : BOOLEAN]
  BY <1>2, <1>3 DEF Keeps, Exclusive, Shape
<1> HIDE DEF k
<1> QED
  BY <1>1, <1>4, <1>5, GoKeeps DEF Exclusive, Shape, fixed, tokens

LEMMA SignKeeps == ASSUME Exclusive, NEW t \in Tasks, CrossSign(t) PROVE Exclusive'
<1>1. /\ Up /\ task[t].at = "sign" /\ task[t] \in Hand /\ UNCHANGED <<fixed, file, tokens>>
      /\ task[t].new.dev \in Devices \cup {NoDev}
      /\ "enable" \in Places /\ "enable" \notin Locked \cup {"down"}
  BY Running DEF CrossSign, Exclusive, Shape, Hand, Sessions, Places, Building, Locked
<1>2. CASE Goes(t, task[t], "enable") /\ UNCHANGED <<lock, held, account, store>>
  BY <1>1, <1>2, GoKeeps DEF Exclusive, Shape, fixed, tokens
<1>3. CASE Done(t, task[t].new.dev) /\ UNCHANGED <<lock, account, store>>
  <2>1. task[t].at \in Building
    BY <1>1 DEF Building
  <2> QED
    BY <1>1, <1>3, <2>1, DoneKeeps DEF Exclusive, Shape
<1>4. CASE /\ Goes(t, [task[t] EXCEPT !.keys = TRUE], "enable") /\ Keeps(task[t], TRUE)
           /\ account' = [master |-> TRUE, current |-> FALSE] /\ UNCHANGED <<lock, held>>
  <2> DEFINE k == [task[t] EXCEPT !.keys = TRUE]
  <2>1. k \in Hand /\ Goes(t, k, "enable")
    BY <1>1, <1>4 DEF Hand
  <2>2. /\ store' \in [dev : Devices \cup {NoDev}, keys : BOOLEAN]
        /\ account' \in [master : BOOLEAN, current : BOOLEAN]
    BY <1>4 DEF Keeps, Exclusive, Shape
  <2> HIDE DEF k
  <2> QED
    BY <1>1, <1>4, <2>1, <2>2, GoKeeps DEF Exclusive, Shape, fixed, tokens
<1>5. CASE Fails(t, "fatal") /\ UNCHANGED <<account, store, held>>
  BY <1>1, <1>5, FailKeeps DEF fixed, tokens
<1> QED
  BY <1>2, <1>3, <1>4, <1>5 DEF CrossSign

LEMMA EnableKeeps == ASSUME Exclusive, NEW t \in Tasks, Enable(t) \/ Persist(t) PROVE Exclusive'
<1>1. /\ Up /\ task[t].at \in {"enable", "persist"} /\ task[t].at \in Building /\ task[t] \in Hand
      /\ UNCHANGED <<fixed, file, tokens, lock, store>>
      /\ task[t].new.dev \in Devices \cup {NoDev}
  BY Running DEF Enable, Persist, Exclusive, Shape, Hand, Sessions, Building
<1>2. CASE Done(t, task[t].new.dev) /\ UNCHANGED account
  BY <1>1, <1>2, DoneKeeps DEF Exclusive, Shape
<1>3. CASE /\ account' = [account EXCEPT !.current = task[t].keys]
           /\ Goes(t, task[t], "persist") /\ UNCHANGED held
  <2>1. account' \in [master : BOOLEAN, current : BOOLEAN]
    BY <1>1, <1>3 DEF Hand, Exclusive, Shape
  <2>2. "persist" \in Places /\ "persist" \notin Locked \cup {"down"}
    BY DEF Places, Building, Locked
  <2> QED
    BY <1>1, <1>3, <2>1, <2>2, GoKeeps DEF Exclusive, Shape, fixed, tokens
<1> QED
  BY <1>2, <1>3 DEF Enable, Persist

LEMMA ConnectsKeeps == ASSUME Exclusive, NEW t \in Tasks, Connects(t) PROVE Exclusive'
BY BuildKeeps, SyncKeeps, RestoreKeeps, SignKeeps, EnableKeeps DEF Connects

\* A step of the surroundings that moves no task.
LEMMA StillKeeps ==
  ASSUME Exclusive, Shape', kind' = kind, lock' = lock, held' = held, file'.session = file.session,
         \A u \in Tasks : /\ task'[u].at = task[u].at
                          /\ task'[u].cf = task[u].cf /\ task'[u].new = task[u].new,
         burnt => burnt', burnt' \/ (file.session.rt \in live => file.session.rt \in live')
  PROVE  Exclusive'
<1>1. \A u \in Tasks : Placed(u)'
  BY DEF Exclusive, Placed, Is
<1>2. Quiet'
  BY DEF Exclusive, Quiet, Up, Is
<1>3. Grant'
  BY DEF Exclusive, Grant
<1> QED
  BY <1>1, <1>2, <1>3 DEF Exclusive

LEMMA StopKeeps == ASSUME Exclusive, Stop PROVE Exclusive'
<1>1. ASSUME NEW t \in Tasks PROVE task'[t] \in Hand /\ task'[t].at \in {"idle", "down"}
  BY IdleTyped DEF Stop, Dead, Hand, Places
<1>2. task' \in [Tasks -> Hand]
  BY <1>1 DEF Stop, Dead
<1>3. Shape'
  BY <1>2 DEF Stop, Exclusive, Shape, fixed
<1>4. \A t \in Tasks : Placed(t)'
  BY <1>1 DEF Placed, Locked
<1>5. Quiet' /\ Grant'
  BY <1>1 DEF Quiet, Grant, Stop
<1> QED
  BY <1>3, <1>4, <1>5 DEF Exclusive

LEMMA RestartKeeps == ASSUME Exclusive, Restart PROVE Exclusive'
<1>1. ASSUME NEW t \in Tasks
      PROVE  task'[t] \in Hand /\ task'[t].at = IF Is(t, "main") THEN "retry" ELSE "idle"
  BY IdleTyped DEF Restart, Hand, Places
<1>2. task' \in [Tasks -> Hand]
  BY <1>1 DEF Restart
<1>3. Shape'
  <2>1. store' \in [dev : Devices \cup {NoDev}, keys : BOOLEAN]
    <3>1. store \in [dev : Devices \cup {NoDev}, keys : BOOLEAN]
          /\ [dev |-> NoDev, keys |-> FALSE] \in [dev : Devices \cup {NoDev}, keys : BOOLEAN]
      BY DEF Exclusive, Shape
    <3> QED
      BY <3>1 DEF Restart
  <2>2. want' \in Devices
    BY DEF Restart, Exclusive, Shape
  <2> QED
    BY <1>2, <2>1, <2>2 DEF Restart, Exclusive, Shape
<1>4. \A t \in Tasks : Placed(t)'
  BY <1>1 DEF Placed, Locked
<1>5. Quiet'
  <2>1. kind' = kind
    BY DEF Restart
  <2> QED
    BY <1>1, <2>1 DEF Quiet, Up, Is
<1>6. Grant'
  <2>1. \A t \in Tasks : task[t].at # "save"
    BY DEF Exclusive, Quiet, Restart
  <2> QED
    BY <2>1 DEF Exclusive, Grant, Restart, tokens
<1> QED
  BY <1>3, <1>4, <1>5, <1>6 DEF Exclusive

LEMMA ExpireKeeps == ASSUME Exclusive, Expire PROVE Exclusive'
<1>1. UNCHANGED <<fixed, lock, crypto>>
  BY DEF Expire
<1>2. CASE UNCHANGED <<file, task>> /\ (UNCHANGED <<live, burnt>> \/ burnt')
  <2>1. Shape'
    BY <1>1, <1>2 DEF Exclusive, Shape, fixed, crypto
  <2> QED
    BY <1>1, <1>2, <2>1, StillKeeps DEF fixed, crypto
<1>3. CASE /\ file' = [file EXCEPT !.client = "forgotten"]
           /\ task' = [t \in Tasks |-> IF task[t].client = "known"
                                       THEN [task[t] EXCEPT !.client = "forgotten"] ELSE task[t]]
           /\ UNCHANGED <<live, burnt>>
  <2>1. ASSUME NEW u \in Tasks
        PROVE  /\ task'[u] \in Hand
               /\ task'[u].at = task[u].at /\ task'[u].cf = task[u].cf /\ task'[u].new = task[u].new
    <3>1. task[u] \in Hand
      BY DEF Exclusive, Shape
    <3> QED
      BY <1>3, <3>1 DEF Hand, Clients
  <2>2. task' \in [Tasks -> Hand]
    BY <1>3, <2>1
  <2>3. file' \in [client : Clients, session : Sessions] /\ file'.session = file.session
    BY <1>3 DEF Exclusive, Shape, Clients
  <2>4. Shape'
    BY <1>1, <2>2, <2>3 DEF Exclusive, Shape, fixed, crypto
  <2> QED
    BY <1>1, <1>3, <2>1, <2>3, <2>4, StillKeeps DEF fixed, crypto
<1> QED
  BY <1>2, <1>3 DEF Expire

LEMMA StepExclusive == Exclusive /\ [Next]_vars => Exclusive'
<1> SUFFICES ASSUME Exclusive, [Next]_vars PROVE Exclusive'
  OBVIOUS
<1>1. CASE Clears \/ UNCHANGED vars
  <2>1. UNCHANGED <<kind, want, file, store, account, task, held, lock, burnt, live>>
    BY <1>1 DEF Clears, vars, tokens, crypto
  <2>2. Shape'
    BY <2>1 DEF Exclusive, Shape
  <2> QED
    BY <2>1, <2>2, StillKeeps
<1>2. CASE Crash \/ Exit
  BY <1>2, StopKeeps DEF Crash, Exit
<1> QED
  BY <1>1, <1>2, RenewsKeeps, ConnectsKeeps, RestartKeeps, ExpireKeeps DEF Next

\* A refresh token that was traded in is never presented again unless its successor got
\* lost, by any number of tasks that renew the session.
THEOREM GrantsAreSpentOnce == Spec => []GrantsSpentOnce
<1>1. Exclusive => GrantsSpentOnce
  <2> SUFFICES ASSUME Exclusive, NEW t \in Tasks, task[t].at = "refresh"
               PROVE  task[t].cf.rt \in live \/ burnt
    BY DEF GrantsSpentOnce
  <2>1. lock = t /\ task[t].cf = file.session /\ task[t].cf.rt # NoId
    BY IdleTyped DEF Exclusive, Placed, Locked
  <2>2. \A u \in Tasks : task[u].at = "save" => lock = u
    BY DEF Exclusive, Placed, Locked
  <2> QED
    BY <2>1, <2>2 DEF Exclusive, Grant
<1> QED
  BY InitExclusive, StepExclusive, <1>1, PTL DEF Spec

\* What a call puts into the session file is of the device the call is on, whatever device
\* a server picks.
THEOREM CallsKeepTheirDevice == Spec => KeeperKeepsDevice
<1>1. Exclusive /\ [Next]_vars =>
        [\A t \in Tasks : Is(t, "keeper") /\ file'.session # file.session /\ lock = t
                          => file'.session.dev = held[t]]_vars
  <2> SUFFICES ASSUME Exclusive, Next, NEW t \in Tasks, Is(t, "keeper"),
                      file'.session # file.session, lock = t
               PROVE  file'.session.dev = held[t]
    OBVIOUS
  <2>1. PICK u \in Tasks : Save(u)
    <3>1. ASSUME NEW u \in Tasks, Renews(u), ~Save(u) PROVE file'.session = file.session
      <4>1. CASE Register(u) \/ Reregister(u)
        BY <4>1 DEF Register, Reregister, Saves, SaveFails, Exclusive, Shape
      <4> QED
        BY <3>1, <4>1 DEF Renews, Begin, Load, Whoami, RefreshUnheard, Refresh, Login, Identify,
                         Cancel, NextCall
    <3>2. ASSUME NEW u \in Tasks, Connects(u) PROVE file' = file
      BY <3>2 DEF Connects, Build, InitialSync, Restore, CrossSign, Enable, Persist
    <3>3. CASE Crash \/ Exit \/ Restart \/ Expire \/ Clears
      BY <3>3 DEF Crash, Exit, Stop, Restart, Expire, Clears, Exclusive, Shape
    <3> QED
      BY <3>1, <3>2, <3>3 DEF Next
  <2>2. u = t /\ task[t].at = "save"
    BY <2>1 DEF Save, Exclusive, Placed, Locked
  <2>3. file' = [file EXCEPT !.session = task[t].new]
    BY <2>1, <2>2 DEF Save, Saves, SaveFails
  <2>4. file'.session = task[t].new
    BY <2>3 DEF Exclusive, Shape
  <2> QED
    BY <2>2, <2>4 DEF Exclusive, Placed
<1> QED
  BY InitExclusive, StepExclusive, <1>1, PTL DEF Spec, KeeperKeepsDevice

-----------------------------------------------------------------------------
(* The published identity *)

Late == {"recover", "sign", "enable", "persist"}

\* Only connect gets to the identity, and who gets to cross-signing without the keys could
\* not have had them from the recovery key.
Restored ==
  /\ \A t, u \in Tasks : Is(t, "main") /\ Is(u, "main") => t = u
  /\ \A t \in Tasks : task[t].at \in Late => Is(t, "main")
  /\ \A t \in Tasks : task[t].at = "sign" /\ ~task[t].keys /\ keyfile = "opens" /\ account.current
                      => "restore" \in faults

LEMMA InitRestored == Init => Restored
<1> SUFFICES ASSUME Init PROVE Restored
  OBVIOUS
<1>1. PICK s \in Scenarios : kind = s.kind
  BY DEF Init
<1>2. \A t \in Tasks : task[t].at \in {"idle", "down"}
  <2>1. task = [t \in Tasks |-> [Idle EXCEPT !.at = IF Is(t, "main") THEN "down" ELSE "idle"]]
    BY DEF Init, Dead
  <2> QED
    BY <2>1, IdleTyped DEF Hand
<1> QED
  BY <1>1, <1>2, SessionAssumption DEF SessionAssumption, Restored, Is, Late

\* Where a step leads, whatever the task has in hand after it.
LEMMA GoneTo ==
  ASSUME Exclusive, Exclusive', NEW t \in Tasks, NEW k, NEW to, Goes(t, k, to)
  PROVE  task'[t].at = to /\ \A u \in Tasks \ {t} : task'[u] = task[u]
<1>1. task'[t] = [k EXCEPT !.at = to] /\ \A u \in Tasks \ {t} : task'[u] = task[u]
  BY DEF Goes, Exclusive, Shape
<1>2. "at" \in DOMAIN task'[t]
  <2>1. task'[t] \in Hand
    BY DEF Exclusive, Shape
  <2> QED
    BY <2>1 DEF Hand
<1>3. [k EXCEPT !.at = to].at = to
  BY <1>1, <1>2
<1> QED
  BY <1>1, <1>3

LEMMA FailsAway ==
  ASSUME Exclusive, NEW t \in Tasks, NEW class, Fails(t, class)
  PROVE  task'[t].at \notin Late /\ \A u \in Tasks \ {t} : task'[u] = task[u]
BY FailsTo DEF Exclusive, Shape, Late

\* A step that takes nobody to the identity.
LEMMA ElsewhereRestored ==
  ASSUME Restored, UNCHANGED <<kind, keyfile, account, faults>>,
         \A u \in Tasks : task'[u].at \in Late => task'[u].at = task[u].at /\ task'[u].keys = task[u].keys
  PROVE  Restored'
BY DEF Restored, Is, Late

\* A step of connect past its recovery: nobody else is there.
LEMMA OwnRestored ==
  ASSUME Restored, NEW t \in Tasks, task[t].at \in Late, kind' = kind, task'[t].at # "sign",
         \A u \in Tasks \ {t} : task'[u].at = task[u].at
  PROVE  Restored'
<1>1. Is(t, "main")
  BY DEF Restored
<1>2. \A u \in Tasks : task'[u].at \in Late => u = t
  BY <1>1 DEF Restored
<1> QED
  BY <1>1, <1>2 DEF Restored, Is, Late

\* A renewal ends before the identity.
LEMMA RenewsRestored == ASSUME Exclusive, Restored, NEW t \in Tasks, Renews(t) PROVE Restored'
<1>1. UNCHANGED <<kind, keyfile, account, faults>>
  BY DEF Renews, Begin, Load, Register, Whoami, RefreshUnheard, Refresh, Login, Reregister,
         Identify, Save, Cancel, NextCall, fixed, crypto
<1>2. Exclusive'
  BY RenewsKeeps
<1>3. (\E k, to : Goes(t, k, to) /\ to \notin Late) \/ (\E class : Fails(t, class))
  <2>1. {"lock", "register", "auth", "auth_again", "reregister", "identify", "save", "idle", "build"}
          \cap Late = {}
    BY DEF Late
  <2>2. \A s : Tier(t, s) \notin Late
    BY DEF Tier, Late
  <2>3. CASE Begin(t) \/ Cancel(t) \/ RefreshUnheard(t) \/ NextCall(t)
    BY <2>1, <2>3 DEF Begin, Cancel, RefreshUnheard, Unheard, NextCall
  <2>4. CASE Load(t)
    BY <2>1, <2>2, <2>4 DEF Load
  <2>5. CASE Register(t) \/ Reregister(t)
    BY <2>1, <2>2, <2>5 DEF Register, Reregister, Network, Refused
  <2>6. CASE Whoami(t) \/ Save(t)
    BY <2>1, <2>6 DEF Whoami, Save, Acquired, Network
  <2>7. CASE Refresh(t)
    BY <2>1, <2>7 DEF Refresh
  <2>8. CASE Login(t)
    BY <2>1, <2>8 DEF Login, Unknown, Network, Refused
  <2>9. CASE Identify(t)
    BY <2>1, <2>9 DEF Identify, Network, Refused
  <2> QED
    BY <2>3, <2>4, <2>5, <2>6, <2>7, <2>8, <2>9 DEF Renews
<1>4. task'[t].at \notin Late /\ \A u \in Tasks \ {t} : task'[u] = task[u]
  BY <1>2, <1>3, GoneTo, FailsAway
<1> QED
  BY <1>1, <1>4, ElsewhereRestored

LEMMA BuildRestored == ASSUME Exclusive, Restored, NEW t \in Tasks, Build(t) PROVE Restored'
<1>1. UNCHANGED <<kind, keyfile, account, faults>>
  BY DEF Build, fixed
<1>2. CASE Fails(t, "fatal")
  BY <1>1, <1>2, FailsAway, ElsewhereRestored
<1>3. CASE ~Fails(t, "fatal")
  <2> DEFINE mine == Opens(task[t].new.dev)
  <2>1. task' = [u \in Tasks |->
           IF u = t THEN [task[t] EXCEPT !.at = "sync", !.keys = store'.keys, !.own = TRUE]
           ELSE [task[u] EXCEPT !.own = @ /\ mine]]
    BY <1>3 DEF Build
  <2> HIDE DEF mine
  <2>2. \A u \in Tasks : task[u] \in Hand
    BY DEF Exclusive, Shape
  <2>3. task'[t].at = "sync"
    BY <2>1, <2>2 DEF Hand
  <2>4. \A u \in Tasks \ {t} : task'[u].at = task[u].at /\ task'[u].keys = task[u].keys
    BY <2>1, <2>2 DEF Hand
  <2>5. "sync" \notin Late
    BY DEF Late
  <2> QED
    BY <1>1, <2>3, <2>4, <2>5, ElsewhereRestored
<1> QED
  BY <1>2, <1>3

LEMMA SyncRestored == ASSUME Exclusive, Restored, NEW t \in Tasks, InitialSync(t) PROVE Restored'
<1>1. UNCHANGED <<kind, keyfile, account, faults>> /\ Exclusive'
  BY SyncKeeps DEF InitialSync, fixed
<1>2. CASE Is(t, "main") /\ Goes(t, task[t], "recover")
  <2>1. task'[t].at = "recover" /\ \A u \in Tasks \ {t} : task'[u] = task[u]
    BY <1>1, <1>2, GoneTo
  <2> QED
    BY <1>1, <1>2, <2>1 DEF Restored, Is, Late
<1>3. CASE Goes(t, Idle, "idle") \/ Fails(t, "transient")
  <2>1. task'[t].at \notin Late /\ \A u \in Tasks \ {t} : task'[u] = task[u]
    <3>1. "idle" \notin Late
      BY DEF Late
    <3> QED
      BY <1>1, <1>3, <3>1, GoneTo, FailsAway
  <2> QED
    BY <1>1, <2>1, ElsewhereRestored
<1> QED
  BY <1>2, <1>3 DEF InitialSync, AfterSync, Network

\* Without the keys after this, the recovery key was no use, or recover() failed.
LEMMA RestoreRestored == ASSUME Exclusive, Restored, NEW t \in Tasks, Restore(t) PROVE Restored'
<1>1. UNCHANGED <<kind, keyfile, account, faults>> /\ task[t].at = "recover" /\ task[t] \in Hand
  BY DEF Restore, fixed, Exclusive, Shape
<1>2. PICK keys \in {task[t].keys \/ (keyfile = "opens" /\ account.current)}
                     \cup (IF Has("restore") THEN {task[t].keys} ELSE {}) :
        Goes(t, [task[t] EXCEPT !.keys = keys], "sign")
  BY DEF Restore
<1>3. ~keys /\ keyfile = "opens" /\ account.current => "restore" \in faults
  BY <1>2 DEF Has
<1>4. keys \in BOOLEAN
  <2>1. task[t].keys \in BOOLEAN
    BY <1>1 DEF Hand
  <2> QED
    BY <1>2, <2>1
<1> DEFINE k == [task[t] EXCEPT !.keys = keys]
<1>5. k \in Hand /\ k.keys = keys /\ Goes(t, k, "sign") /\ "sign" \in Places
  BY <1>1, <1>2, <1>4 DEF Hand, Places, Building
<1> HIDE DEF k
<1>6. /\ task'[t].at = "sign" /\ task'[t].keys = keys
      /\ \A u \in Tasks \ {t} : task'[u] = task[u]
  BY <1>5, GoesTo DEF Exclusive, Shape
<1>7. Is(t, "main")
  BY <1>1 DEF Restored, Late
<1> QED
  BY <1>1, <1>3, <1>6, <1>7 DEF Restored, Is, Late

LEMMA SignsRestored ==
  ASSUME Exclusive, Restored, NEW t \in Tasks, CrossSign(t) \/ Enable(t) \/ Persist(t)
  PROVE  Restored'
<1>1. kind' = kind /\ task[t].at \in Late /\ Exclusive'
  BY SignKeeps, EnableKeeps DEF CrossSign, Enable, Persist, fixed, Late
<1>2. (\E k, to : Goes(t, k, to) /\ to # "sign") \/ Fails(t, "fatal")
  <2>1. CASE CrossSign(t)
    <3>1. \/ \E k : Goes(t, k, "enable")
          \/ Goes(t, Idle, "idle")
          \/ Fails(t, "fatal")
      BY <2>1 DEF CrossSign, Done
    <3> QED
      BY <3>1
  <2>2. CASE Enable(t)
    <3>1. Goes(t, Idle, "idle") \/ Goes(t, task[t], "persist")
      BY <2>2 DEF Enable, Done
    <3> QED
      BY <3>1
  <2>3. CASE Persist(t)
    BY <2>3 DEF Persist, Done
  <2> QED
    BY <2>1, <2>2, <2>3
<1>3. task'[t].at # "sign" /\ \A u \in Tasks \ {t} : task'[u] = task[u]
  BY <1>1, <1>2, GoneTo, FailsAway DEF Late
<1> QED
  BY <1>1, <1>3, OwnRestored

LEMMA StepRestored == Exclusive /\ Restored /\ [Next]_vars => Restored'
<1> SUFFICES ASSUME Exclusive, Restored, [Next]_vars PROVE Restored'
  OBVIOUS
<1>1. CASE Clears \/ UNCHANGED vars
  <2>1. UNCHANGED <<kind, keyfile, account, faults, task>>
    BY <1>1 DEF Clears, vars, crypto
  <2> QED
    BY <2>1, ElsewhereRestored
<1>2. CASE Crash \/ Exit
  <2>1. UNCHANGED <<kind, keyfile, account, faults>>
    BY <1>2 DEF Crash, Exit, Stop, fixed
  <2>2. \A u \in Tasks : task'[u].at \notin Late
    <3>1. ASSUME NEW u \in Tasks PROVE task'[u].at \in {"idle", "down"}
      BY <1>2, IdleTyped DEF Crash, Exit, Stop, Dead, Hand
    <3> QED
      BY <3>1 DEF Late
  <2> QED
    BY <2>1, <2>2, ElsewhereRestored
<1>3. CASE Restart
  <2>1. UNCHANGED <<kind, keyfile, account, faults>>
    BY <1>3 DEF Restart
  <2>2. \A u \in Tasks : task'[u].at \notin Late
    <3>1. ASSUME NEW u \in Tasks PROVE task'[u].at \in {"idle", "retry"}
      BY <1>3, IdleTyped DEF Restart, Hand
    <3> QED
      BY <3>1 DEF Late
  <2> QED
    BY <2>1, <2>2, ElsewhereRestored
<1>4. CASE Expire
  <2>1. UNCHANGED <<kind, keyfile, account, faults>>
    BY <1>4 DEF Expire, fixed, crypto
  <2>2. \A u \in Tasks : task'[u].at = task[u].at /\ task'[u].keys = task[u].keys
    <3>1. \A u \in Tasks : task[u] \in Hand
      BY DEF Exclusive, Shape
    <3> QED
      BY <1>4, <3>1 DEF Expire, Hand
  <2> QED
    BY <2>1, <2>2, ElsewhereRestored
<1> QED
  BY <1>1, <1>2, <1>3, <1>4, RenewsRestored, BuildRestored, SyncRestored, RestoreRestored,
     SignsRestored DEF Next, Connects

\* The published master key is replaced only by the primary, and not while the recovery
\* key opens a secret storage that has it, unless recover() itself fails: through every
\* crash, wipe and failure of the network, the disk and the servers.
THEOREM IdentityKept == Spec => MasterKept
<1>1. Restored /\ [Next]_vars =>
        [reset' # reset => role = "primary"
           /\ (keyfile = "opens" /\ account.current => "restore" \in faults)]_vars
  <2> SUFFICES ASSUME Restored, Next, reset' # reset
               PROVE  role = "primary" /\ (keyfile = "opens" /\ account.current => "restore" \in faults)
    OBVIOUS
  <2>1. PICK t \in Tasks : CrossSign(t)
    <3>1. ASSUME NEW t \in Tasks, Renews(t) PROVE reset' = reset
      BY <3>1 DEF Renews, Begin, Load, Register, Whoami, RefreshUnheard, Refresh, Login, Reregister,
             Identify, Save, Cancel, NextCall, crypto
    <3>2. ASSUME NEW t \in Tasks, Connects(t), ~CrossSign(t) PROVE reset' = reset
      BY <3>2 DEF Connects, Build, InitialSync, Restore, Enable, Persist
    <3>3. CASE Crash \/ Exit \/ Restart \/ Expire \/ Clears
      BY <3>3 DEF Crash, Exit, Stop, Restart, Expire, Clears, crypto
    <3> QED
      BY <3>1, <3>2, <3>3 DEF Next
  <2>2. task[t].at = "sign" /\ ~task[t].keys /\ role = "primary"
    BY <2>1 DEF CrossSign
  <2> QED
    BY <2>2 DEF Restored
<1> QED
  BY InitExclusive, StepExclusive, InitRestored, StepRestored, <1>1, PTL DEF Spec, MasterKept
=============================================================================
