------------------------------- MODULE Session -------------------------------
(***************************************************************************)
(* Sessions, tokens and the crypto identity of one agent store             *)
(* (src/crates/aqua-matrix-agent/src: lib.rs connect, reauth_inner,        *)
(* mint_session_token, acquire_session_for; net_retry.rs; recovery.rs;     *)
(* device_role.rs).                                                        *)
(*                                                                         *)
(* The tasks of one process renew one session, kept in config.toml, under  *)
(* a lock.  A session is an access token, which lasts minutes, and a       *)
(* refresh token, which is good for one use.  connect goes on with the     *)
(* crypto store, which is bound to a device, and with the account's        *)
(* cross-signing identity, which a recovery key may bring back.  A process *)
(* may crash between any two steps; requests fail, or are carried out and  *)
(* their answers lost.                                                     *)
(***************************************************************************)
EXTENDS Naturals, FiniteSets

CONSTANTS
  Tasks,      \* who renews the session
  Ids, NoId,  \* tokens, by the grant that issued them
  Devices, NoDev,
  Home,       \* stable_device_id: the device derived from the key
  MaxFatal,   \* connect_with_outage_retry: max_fatal
  Scenarios   \* who the tasks are, the role of the device, and which failures come together

\* What a task renews the session for: connect; RestSession::rotate; reauth_inner;
\* fresh_room.
KindOfTask == {"main", "keeper", "send", "stream"}
Role == {"primary", "secondary"}

Fault == {"network",   \* a request or its answer may be lost, or its task dropped meanwhile
          "crash",     \* the process may end at any point
          "expiry",    \* the servers forget grants, tokens and registered clients
          "disk",      \* a write may fail
          "reject",    \* the servers refuse what they should grant
          "device",    \* the operator names another device at a restart
          "scope",     \* the server picks the device of a login itself
          "restore",   \* recover() may fail
          "store"}     \* the crypto store may be gone at a restart

ASSUME SessionAssumption ==
  /\ Scenarios \subseteq [kind : [Tasks -> KindOfTask], role : Role, faults : SUBSET Fault]
  /\ \A s \in Scenarios : \A t, u \in Tasks : s.kind[t] = "main" /\ s.kind[u] = "main" => t = u
  /\ NoId \notin Ids /\ NoDev \notin Devices /\ Home \in Devices
  /\ "none" \notin Tasks
  /\ MaxFatal \in Nat \ {0}

VARIABLES
  faults,    \* the failures of this behaviour
  calm,      \* from here on none happens
  kind,      \* who the tasks are
  role,      \* AgentConfig::device_role
  want,      \* resolve_effective_device_id
  file,      \* config.toml: the OIDC client and the cached session
  store,     \* the crypto store: its device, and whether it has our signing keys
  keyfile,   \* recovery.key: none, opens (secret storage), or wrong
  account,   \* the homeserver's: master key published, secret storage has its current keys
  live,      \* refresh tokens siwx-oidc takes
  fresh,     \* access tokens with more than 30 s to go
  lock,      \* session_lock: the task that has it, or "none"
  task,      \* where each task is, and what it has in hand
  fatal,     \* connect_with_outage_retry: non-transient failures
  held,      \* the device each task's client was built for
  burnt,     \* history: the stored refresh token is spent, its successor not stored
  reset      \* history: a published master key was replaced

vars == <<faults, calm, kind, role, want, file, store, keyfile, account, live, fresh, lock, task, fatal, held,
          burnt, reset>>
fixed  == <<faults, calm, kind, role, want>>
tokens == <<live, fresh, burnt>>
crypto == <<store, keyfile, account, held, reset>>

-----------------------------------------------------------------------------
NoSession == [id |-> NoId, rt |-> NoId, dev |-> NoDev]
Idle == [at |-> "idle", cf |-> NoSession, client |-> "none", new |-> NoSession, keys |-> FALSE,
         own |-> FALSE]

\* The awaits of a task: with the session lock, and after it.
Locked == {"register", "whoami", "refresh", "auth", "reregister", "auth_again", "identify", "save"}
Building == {"build", "sync", "recover", "sign", "enable", "persist"}

Is(t, k) == kind[t] = k
Has(f) == f \in faults /\ ~calm
Up == \E t \in Tasks : Is(t, "main") /\ task[t].at # "down"

Goes(t, k, to) == task' = [task EXCEPT ![t] = [k EXCEPT !.at = to]]

\* Slip: one failure more.
OneMore(n) == n > MaxFatal

GivesUp(n) == n >= MaxFatal

\* An attempt ends with an error: the lock is dropped; connect is tried again, and given
\* up after MaxFatal failures that are not the network's; a keeper whose session would be
\* another device's asks for no other.
Fails(t, class) ==
  /\ lock' = IF lock = t THEN "none" ELSE lock
  /\ fatal' = IF Is(t, "main") /\ class = "fatal" THEN fatal + 1 ELSE fatal
  /\ Goes(t, Idle, IF Is(t, "main") THEN (IF GivesUp(fatal') THEN "exit" ELSE "retry")
                   ELSE IF class = "identity" THEN "poisoned" ELSE "idle")

\* A request that does not get through, or not back: net_retry calls it transient.
Network(t) == Has("network") /\ Fails(t, "transient")
Refused(t) == Has("reject") /\ Fails(t, "fatal")

-----------------------------------------------------------------------------
(* acquire_session_for *)

\* The cache divergence guard
Cached == IF file.session.dev = want THEN file.session ELSE NoSession

\* Slip: nobody checks.
AnyDevice(t, d) == TRUE

\* check_identity: the keeper only takes a session for the device of its call.
Expected(t, d) == Is(t, "keeper") => d = held[t]

\* force_new, and which tier comes first
Tier(t, s) ==
  IF s = NoSession THEN "auth"
  ELSE IF Is(t, "main") /\ s.id \in fresh THEN "whoami"
  ELSE IF s.rt # NoId THEN "refresh"
  ELSE "auth"

\* check_secondary
MayConnect == role = "secondary" => keyfile # "none"

\* connect, or a rotation a task asks for
Begin(t) ==
  /\ Up
  /\ IF Is(t, "main") THEN task[t].at \in {"idle", "retry"}
                       ELSE task[t].at = "idle" /\ held[t] # NoDev
  /\ IF Is(t, "main") => MayConnect THEN Goes(t, Idle, "lock") /\ UNCHANGED <<lock, fatal>>
                                   ELSE Fails(t, "fatal")
  /\ UNCHANGED <<fixed, file, tokens, crypto>>

\* Slip: two clients of one store do not wait for each other.
Unlocked(t) == TRUE

Locks(t) == lock = "none"

\* The lock and ConfigFile::load, then resolve_oidc_client
Load(t) ==
  LET s == Cached IN
  /\ task[t].at = "lock" /\ Locks(t)
  /\ IF s # NoSession /\ ~Expected(t, s.dev)
     THEN Fails(t, "identity")
     ELSE /\ lock' = t
          /\ Goes(t, [Idle EXCEPT !.cf = s, !.client = file.client],
                  IF file.client = "none" THEN "register" ELSE Tier(t, s))
          /\ UNCHANGED fatal
  /\ UNCHANGED <<fixed, file, tokens, crypto>>

\* ConfigFile::save: written beside it and renamed, all or nothing.
Saves(f) == file' = f
SaveFails == Has("disk") /\ UNCHANGED file

\* register_oidc_client
Registered(k) == [k EXCEPT !.client = "known"]

\* resolve_oidc_client: a client is registered if none is cached, and its save must succeed.
Register(t) ==
  LET k == task[t] IN
  /\ k.at = "register"
  /\ \/ /\ Saves([file EXCEPT !.client = "known"])
        /\ Goes(t, Registered(k), Tier(t, k.cf))
        /\ UNCHANGED <<lock, fatal>>
     \/ SaveFails /\ Fails(t, "fatal")
     \/ (Network(t) \/ Refused(t)) /\ UNCHANGED file
  /\ UNCHANGED <<fixed, tokens, crypto>>

\* The session is acquired: connect and reauth_inner go on, the keeper has its token.
Acquired(t, k) ==
  /\ lock' = "none"
  /\ Goes(t, [Idle EXCEPT !.new.dev = k.new.dev], IF Is(t, "keeper") THEN "idle" ELSE "build")

\* Tier 1: the cached access token is asked about.
Whoami(t) ==
  LET k == task[t] IN
  /\ k.at = "whoami"
  /\ \/ Acquired(t, [k EXCEPT !.new = k.cf]) /\ UNCHANGED fatal
     \/ Network(t)
     \/ Has("reject") /\ Goes(t, k, "auth") /\ UNCHANGED <<lock, fatal>>
  /\ UNCHANGED <<fixed, file, tokens, crypto>>

InUse == {file.session.id, file.session.rt}
           \cup UNION {{task[t].cf.id, task[t].cf.rt, task[t].new.id, task[t].new.rt} : t \in Tasks}
NextId == CHOOSE i \in Ids : i \notin InUse

\* siwx-oidc issues the next grant, and takes one back; tokens nobody has are left out.
Issue(i, with_rt, back) ==
  /\ i = NextId /\ i \in Ids \ InUse
  /\ live' = ((live \cap InUse) \ back) \cup (IF with_rt THEN {i} ELSE {})
  /\ fresh' = (fresh \cap InUse) \cup {i}

\* It takes a refresh token: it may or may not hand out another one.
Rotates(k, i, rotate) ==
  k.cf.rt \in live /\ Issue(i, rotate, IF rotate THEN {k.cf.rt} ELSE {})

Refreshed(k, i, rotate) ==
  [k EXCEPT !.new = [id |-> i, rt |-> IF rotate THEN i ELSE k.cf.rt, dev |-> k.cf.dev]]

\* Slip: any failed refresh leads to a fresh login.
FallsThrough(t) == Goes(t, task[t], "auth") /\ UNCHANGED <<lock, fatal>>

\* A refresh nobody has judged ends the attempt, and the grant is kept.
Unheard(t) == Fails(t, "transient")

\* Tier 2
RefreshUnheard(t) ==
  LET k == task[t] IN
  /\ k.at = "refresh" /\ Unheard(t)
  /\ Has("network")
  /\ \/ UNCHANGED tokens
     \/ /\ \E i \in Ids : Rotates(k, i, TRUE)
        /\ burnt' = TRUE
  /\ UNCHANGED <<fixed, file, crypto>>

Refresh(t) ==
  LET k == task[t] IN
  /\ k.at = "refresh"
  /\ \/ \E i \in Ids, rotate \in BOOLEAN :
          Rotates(k, i, rotate) /\ Goes(t, Refreshed(k, i, rotate), "save")
     \/ (k.cf.rt \notin live \/ Has("reject")) /\ Goes(t, k, "auth") /\ UNCHANGED <<live, fresh>>
  /\ UNCHANGED <<fixed, file, lock, fatal, burnt, crypto>>

\* The device a login is given, see stable_device_id
Granted(k) == IF Has("scope") THEN Devices ELSE {want}

\* Slip: a client the server has forgotten stays.
StaysForgotten(t) == Fails(t, "fatal")

\* is_unregistered_client: it is registered anew, once.
Unknown(t) ==
  IF task[t].at = "auth" THEN Goes(t, task[t], "reregister") /\ UNCHANGED <<lock, fatal>>
                         ELSE Fails(t, "fatal")

\* Tier 3: a login with the agent's key
Login(t) ==
  LET k == task[t] IN
  /\ k.at \in {"auth", "auth_again"}
  /\ \/ /\ k.client = "known"
        /\ \E i \in Ids, d \in Granted(k), r \in BOOLEAN :
             /\ Issue(i, r, {}) /\ (~r => Has("reject"))
             /\ Goes(t, [k EXCEPT !.new = [id |-> i, rt |-> IF r THEN i ELSE NoId, dev |-> d]],
                     "identify")
        /\ UNCHANGED <<lock, fatal>>
     \/ k.client = "forgotten" /\ Unknown(t) /\ UNCHANGED <<live, fresh>>
     \/ (Network(t) \/ Refused(t)) /\ UNCHANGED <<live, fresh>>
  /\ UNCHANGED <<fixed, file, burnt, crypto>>

\* A failure of this save is only logged.
Reregister(t) ==
  LET k == task[t] IN
  /\ k.at = "reregister"
  /\ \/ /\ Saves([file EXCEPT !.client = "known"]) \/ SaveFails
        /\ Goes(t, Registered(k), "auth_again") /\ UNCHANGED <<lock, fatal>>
     \/ (Network(t) \/ Refused(t)) /\ UNCHANGED file
  /\ UNCHANGED <<fixed, tokens, crypto>>

\* resolve_identity of the new token, then check_identity, before anything is kept
Identify(t) ==
  LET k == task[t] IN
  /\ k.at = "identify"
  /\ \/ IF ~Expected(t, k.new.dev) THEN Fails(t, "identity")
        ELSE Goes(t, k, "save") /\ UNCHANGED <<lock, fatal>>
     \/ Network(t) \/ Refused(t)
  /\ UNCHANGED <<fixed, file, tokens, crypto>>

\* config_file.save; no await since the answer, and a failure is only logged.
Save(t) ==
  LET k == task[t] IN
  /\ k.at = "save"
  /\ Saves([file EXCEPT !.session = k.new]) \/ SaveFails
  /\ burnt' = (file'.session.rt \notin live \cup {NoId})
  /\ Acquired(t, k)
  /\ UNCHANGED <<fixed, fatal, live, fresh, crypto>>

\* The future of a rotation is dropped at an await: rotate_timeout, or the task
\* that asked for it is aborted.  The request may be carried out all the same.
Cancel(t) ==
  LET k == task[t] IN
  /\ Has("network") /\ ~Is(t, "main") /\ k.at \in (Locked \ {"save"}) \cup {"lock", "build", "sync"}
  /\ Fails(t, "transient")
  /\ \/ UNCHANGED tokens
     \/ /\ k.at = "refresh" /\ \E i \in Ids : Rotates(k, i, TRUE)
        /\ burnt' = TRUE
  /\ UNCHANGED <<fixed, file, crypto>>

-----------------------------------------------------------------------------
(* connect after acquire_session; the first two also in reauth_inner *)

Wipes(t) == role = "primary" /\ kind[t] \in {"main", "send"}

\* The store is the device's, or nobody's yet (restore_session, is_store_mismatch).
Opens(dev) == store.dev \in {NoDev, dev}

\* build_and_restore, with one wipe and retry; a store without a device takes ours.
\* Clients that have a wiped store open go on with files nobody will open again.
Build(t) ==
  LET k == task[t]  mine == Opens(k.new.dev) IN
  /\ k.at = "build"
  /\ IF mine \/ Wipes(t)
     THEN /\ store' = [dev |-> k.new.dev, keys |-> mine /\ store.keys]
          /\ task' = [u \in Tasks |->
                 IF u = t THEN [k EXCEPT !.at = "sync", !.keys = store'.keys, !.own = TRUE]
                 ELSE [task[u] EXCEPT !.own = @ /\ mine]]
          /\ UNCHANGED <<lock, fatal>>
     ELSE Fails(t, "fatal") /\ UNCHANGED store
  /\ UNCHANGED <<fixed, file, tokens, keyfile, account, held, reset>>

\* Slip: cross-signing is looked at before the recovery key.
SignsFirst == "sign"

AfterSync == "recover"

\* The initial sync; reauth_inner replaces the client when it is through.
InitialSync(t) ==
  LET k == task[t] IN
  /\ k.at = "sync"
  /\ \/ IF Is(t, "main")
        THEN Goes(t, k, AfterSync) /\ UNCHANGED <<lock, fatal, held>>
        ELSE /\ held' = [held EXCEPT ![t] = k.new.dev]
             /\ Goes(t, Idle, "idle") /\ UNCHANGED <<lock, fatal>>
     \/ Network(t) /\ UNCHANGED held
  /\ UNCHANGED <<fixed, file, tokens, store, keyfile, account, reset>>

\* connect returns, and detached tasks start from a clone: ConnectOutcome::Connected.
Done(t, dev) ==
  /\ held' = [u \in Tasks |-> IF u = t \/ task[u].at = "idle" THEN dev ELSE held[u]]
  /\ Goes(t, Idle, "idle") /\ fatal' = 0

Keeps(k, keys) == store' = IF k.own THEN [store EXCEPT !.keys = keys] ELSE store

\* recovery::restore_if_needed: what it cannot restore is only logged.
Restore(t) ==
  LET k == task[t] IN
  /\ k.at = "recover"
  /\ \E keys \in {k.keys \/ (keyfile = "opens" /\ account.current)}
                   \cup (IF Has("restore") THEN {k.keys} ELSE {}) :
        Goes(t, [k EXCEPT !.keys = keys], "sign") /\ Keeps(k, keys)
  /\ UNCHANGED <<fixed, file, tokens, lock, fatal, keyfile, account, held, reset>>

\* cross_signing_action; a failed bootstrap is only logged.
CrossSign(t) ==
  LET k == task[t] IN
  /\ k.at = "sign"
  /\ \/ /\ k.keys /\ UNCHANGED <<account, store, reset, lock>>
        /\ IF role = "primary" THEN Goes(t, k, "enable") /\ UNCHANGED <<held, fatal>>
                               ELSE Done(t, k.new.dev)
     \/ /\ ~k.keys /\ role = "primary"
        /\ UNCHANGED <<lock, fatal, held>>
        /\ \/ /\ Goes(t, [k EXCEPT !.keys = TRUE], "enable") /\ Keeps(k, TRUE)
              /\ account' = [master |-> TRUE, current |-> FALSE]
              /\ reset' = (reset \/ account.master)
           \/ Has("reject") /\ Goes(t, k, "enable") /\ UNCHANGED <<account, store, reset>>
     \/ ~k.keys /\ role = "secondary" /\ Fails(t, "fatal") /\ UNCHANGED <<account, store, reset, held>>
  /\ UNCHANGED <<fixed, file, tokens, keyfile>>

\* recovery::enable_and_persist_if_absent: secret storage gets a new key ...
Enable(t) ==
  LET k == task[t] IN
  /\ k.at = "enable"
  /\ \/ /\ keyfile # "none" \/ Has("network")
        /\ Done(t, k.new.dev) /\ UNCHANGED account
     \/ /\ keyfile = "none"
        /\ account' = [account EXCEPT !.current = k.keys]
        /\ Goes(t, k, "persist") /\ UNCHANGED <<held, fatal>>
  /\ UNCHANGED <<fixed, file, tokens, lock, store, keyfile, reset>>

\* ... which is written down; a write that fails may leave half a key.
Persist(t) ==
  /\ task[t].at = "persist"
  /\ keyfile' \in {"opens"} \cup IF Has("disk") THEN {"none", "wrong"} ELSE {}
  /\ Done(t, task[t].new.dev)
  /\ UNCHANGED <<fixed, file, tokens, lock, store, account, reset>>

-----------------------------------------------------------------------------
(* The surroundings *)

\* The next call starts a keeper of its own.
NextCall(t) ==
  /\ task[t].at = "poisoned"
  /\ Goes(t, Idle, "idle") /\ held' = [held EXCEPT ![t] = NoDev]
  /\ UNCHANGED <<fixed, file, tokens, lock, fatal, store, keyfile, account, reset>>

Dead == [t \in Tasks |-> [Idle EXCEPT !.at = IF Is(t, "main") THEN "down" ELSE "idle"]]

Stop ==
  /\ task' = Dead /\ held' = [t \in Tasks |-> NoDev] /\ lock' = "none" /\ fatal' = 0
  /\ burnt' = (file.session.rt \notin live \cup {NoId})
  /\ UNCHANGED <<fixed, file, live, fresh, store, keyfile, account, reset>>

Crash == Up /\ Has("crash") /\ Stop
Exit == (\E t \in Tasks : task[t].at = "exit") /\ Stop

\* A supervisor starts the process again, with the operator's configuration of the day.
Restart ==
  /\ ~Up
  /\ want' \in {want} \cup IF Has("device") THEN Devices ELSE {}
  /\ store' \in {store} \cup IF Has("store") THEN {[dev |-> NoDev, keys |-> FALSE]} ELSE {}
  /\ task' = [t \in Tasks |-> [Idle EXCEPT !.at = IF Is(t, "main") THEN "retry" ELSE "idle"]]
  /\ UNCHANGED <<faults, calm, kind, role, file, tokens, lock, fatal, keyfile, account, held, reset>>

\* Time passes: access tokens run down, grants and clients are forgotten.
Expire ==
  /\ \/ fresh # {} /\ fresh' = {} /\ UNCHANGED <<live, burnt, file, task>>
     \/ /\ Has("expiry") /\ live # {} /\ live' = {} /\ burnt' = TRUE
        /\ UNCHANGED <<fresh, file, task>>
     \/ /\ Has("expiry") /\ file.client = "known"
        /\ file' = [file EXCEPT !.client = "forgotten"]
        /\ task' = [t \in Tasks |-> IF task[t].client = "known"
                                    THEN [task[t] EXCEPT !.client = "forgotten"] ELSE task[t]]
        /\ UNCHANGED <<live, fresh, burnt>>
  /\ UNCHANGED <<fixed, lock, fatal, crypto>>

\* Nothing fails from now on.
Clears == ~calm /\ calm' = TRUE /\ UNCHANGED <<faults, kind, role, want, file, lock, task, fatal, tokens, crypto>>

Init ==
  /\ \E s \in Scenarios : kind = s.kind /\ role = s.role /\ faults = s.faults
  /\ calm = FALSE /\ want = Home
  /\ file = [client |-> "none", session |-> NoSession]
  /\ store = [dev |-> NoDev, keys |-> FALSE]
  /\ keyfile = IF role = "primary" THEN "none" ELSE "opens"
  /\ account = [master |-> role = "secondary", current |-> role = "secondary"]
  /\ live = {} /\ fresh = {} /\ lock = "none" /\ fatal = 0
  /\ task = Dead /\ held = [t \in Tasks |-> NoDev]
  /\ burnt = FALSE /\ reset = FALSE

Renews(t) ==
  \/ Begin(t) \/ Load(t) \/ Register(t) \/ Whoami(t) \/ RefreshUnheard(t) \/ Refresh(t)
  \/ Login(t) \/ Reregister(t) \/ Identify(t) \/ Save(t) \/ Cancel(t) \/ NextCall(t)

Connects(t) ==
  Build(t) \/ InitialSync(t) \/ Restore(t) \/ CrossSign(t) \/ Enable(t) \/ Persist(t)

Next ==
  \/ \E t \in Tasks : Renews(t) \/ Connects(t)
  \/ Crash \/ Exit \/ Restart \/ Expire \/ Clears

Spec == Init /\ [][Next]_vars

\* The runtime polls every task whose await is over, tokio's lock is handed to the
\* tasks in the order they asked for it, and a supervisor restarts the process.
Fairness ==
  /\ \A t \in Tasks : WF_vars(Renews(t)) /\ SF_vars(Load(t)) /\ WF_vars(Connects(t))
  /\ WF_vars(Exit) /\ WF_vars(Restart)
FairSpec == Spec /\ Fairness

-----------------------------------------------------------------------------
Sessions == [id : Ids \cup {NoId}, rt : Ids \cup {NoId}, dev : Devices \cup {NoDev}]
Clients == {"none", "known", "forgotten"}

TypeOK ==
  /\ [kind |-> kind, role |-> role, faults |-> faults] \in Scenarios
  /\ calm \in BOOLEAN /\ want \in Devices
  /\ file \in [client : Clients, session : Sessions]
  /\ store \in [dev : Devices \cup {NoDev}, keys : BOOLEAN]
  /\ keyfile \in {"none", "opens", "wrong"}
  /\ account \in [master : BOOLEAN, current : BOOLEAN]
  /\ live \subseteq Ids /\ fresh \subseteq Ids
  /\ lock \in Tasks \cup {"none"} /\ fatal \in 0..MaxFatal
  /\ task \in [Tasks -> [at : Locked \cup Building \cup {"idle", "lock", "retry", "poisoned", "exit", "down"},
                         cf : Sessions, client : Clients, new : Sessions, keys : BOOLEAN, own : BOOLEAN]]
  /\ held \in [Tasks -> Devices \cup {NoDev}]
  /\ burnt \in BOOLEAN /\ reset \in BOOLEAN

\* A refresh token that was traded in is never presented again, whichever tasks
\* renew the session at once, unless its successor got lost: the answer, the write
\* or the process (session_lock, lib.rs L165-189).
GrantsSpentOnce == \A t \in Tasks : task[t].at = "refresh" => task[t].cf.rt \in live \/ burnt

\* A login with the key never takes the place of a refresh token that is good and
\* that nobody has judged, whatever the network does (lib.rs L994-998).
GoodGrantKept ==
  \A t \in Tasks : task[t].at \in {"auth", "reregister", "auth_again"} /\ "reject" \notin faults
                 => task[t].cf.rt \notin live

\* The keeper of a call never puts a session of another device than its call's into
\* config.toml, even if the server picks the device (lib.rs L621, L1075-1085).
KeeperKeepsDevice ==
  [][\A t \in Tasks : Is(t, "keeper") /\ file'.session # file.session /\ lock = t
                      => file'.session.dev = held[t]]_vars

\* A published master key is replaced only by the primary, and not while the
\* recovery key opens a secret storage that has it, unless recover() itself fails.
MasterKept ==
  [][reset' # reset => role = "primary" /\ (keyfile = "opens" /\ account.current => "restore" \in faults)]_vars

\* docs/RECOVERY.md: with recovery.key present a wiped store leads to no new identity.
IdentitySurvivesWipe == [][reset' # reset => ~(keyfile = "opens" /\ account.current)]_vars

\* However often connects failed: when failures end, the primary is connected again.
Connected_(t) == task[t].at = "idle" /\ held[t] = want /\ held[t] = store.dev
Reconnects == calm /\ role = "primary" ~> \A t \in Tasks : Is(t, "main") => Connected_(t)

=============================================================================
