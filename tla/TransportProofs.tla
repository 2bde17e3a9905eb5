--------------------------- MODULE TransportProofs ---------------------------
(***************************************************************************)
(* The sends of Transport keep SendPromise, arrive in the order the        *)
(* channel took them, and never run on a client that is not the live one,  *)
(* for any number of commands and clients and any size of the channel.     *)
(***************************************************************************)
EXTENDS Transport, FiniteSetTheorems, SequenceTheorems, TLAPS

Records == [at : Place, late : BOOLEAN, on : 0..MaxClients, chunk : 1..2, try : 1..MaxAttempts]

-----------------------------------------------------------------------------
(* Types *)

LEMMA FreshTyped == New \in Records /\ Over \in Records /\ New.at = "new" /\ Over.at = "done"
<1>1. 0 \in 0..MaxClients /\ 1 \in 1..2 /\ 1 \in 1..MaxAttempts
  BY TransportAssumption DEF TransportAssumption
<1>2. New \in Records /\ New.at = "new"
  BY <1>1 DEF New, Records, Place
<1>3. Over \in Records /\ Over.at = "done"
  BY <1>2 DEF Over, Records, Place
<1> QED BY <1>2, <1>3

LEMMA EndsTyped ==
  ASSUME TypeOK, NEW c \in Cmds, NEW outcome \in Told, Ends(c, outcome)
  PROVE  /\ cmd' \in [Cmds -> Records] /\ told' \in [Cmds -> Told]
         /\ cmd'[c] = Over
         /\ \A d \in Cmds : d # c => cmd'[d] = cmd[d] /\ told'[d] = told[d]
         /\ told'[c] = IF told[c] = "none" THEN outcome ELSE told[c]
BY FreshTyped DEF TypeOK, Ends, Reply, Records

LEMMA TypeInit == Init => TypeOK
<1> SUFFICES ASSUME Init PROVE TypeOK
  OBVIOUS
<1>1. cmd \in [Cmds -> Records] /\ told \in [Cmds -> Told]
  BY FreshTyped DEF Init, Told
<1>2. Len(queue) = 0 /\ queue \in Seq(Cmds) /\ pushed \in Seq(Cmds) /\ room \in Seq(Cmds \X (1..2) \X BOOLEAN)
  BY DEF Init
<1>3. carry = None /\ built \in 0..MaxClients /\ client \in {0, built}
  BY TransportAssumption DEF Init, TransportAssumption
<1>6. token \in BOOLEAN
  BY DEF Init
<1>4. Len(queue) <= QueueCap
  BY <1>2, TransportAssumption DEF TransportAssumption
<1>5. scenario \in Scenarios /\ loop \in {"connecting", "cycle", "detaching", "stopped"}
  BY DEF Init
<1> QED BY <1>1, <1>2, <1>3, <1>4, <1>5, <1>6 DEF TypeOK, Records

\* The types of the other variables, for the actions that touch them one at a time.
Rest ==
  /\ queue \in Seq(Cmds) /\ Len(queue) <= QueueCap
  /\ carry \in Cmds \cup {None}
  /\ carry # None => At(carry, "carried")
  /\ loop \in {"connecting", "cycle", "detaching", "stopped"}
  /\ built \in 0..MaxClients /\ client \in {0, built} /\ token \in BOOLEAN
  /\ pushed \in Seq(Cmds) /\ room \in Seq(Cmds \X (1..2) \X BOOLEAN)

LEMMA TypeIs ==
  TypeOK <=> /\ scenario \in Scenarios
             /\ cmd \in [Cmds -> Records]
             /\ told \in [Cmds -> Told]
             /\ Rest
BY DEF TypeOK, Rest, Records

\* What an action makes of one command.
Becomes(c, p, on, chunk) ==
  /\ cmd' \in [Cmds -> Records]
  /\ \A d \in Cmds : d # c => cmd'[d] = cmd[d]
  /\ cmd'[c].at = p /\ cmd'[c].on = on /\ cmd'[c].chunk = chunk

LEMMA Edited ==
  ASSUME TypeOK, NEW c \in Cmds, NEW r \in Records, cmd' = [cmd EXCEPT ![c] = r]
  PROVE  Becomes(c, r.at, r.on, r.chunk)
BY DEF Becomes, TypeOK, Records

LEMMA Numbers ==
  ASSUME TypeOK
  PROVE  client \in 0..MaxClients /\ 0 \in 0..MaxClients /\ 1 \in 1..2 /\ client \in Nat /\ 1 \in 1..MaxAttempts
BY TransportAssumption DEF TypeOK, TransportAssumption

LEMMA Known == ASSUME TypeOK, NEW c \in Cmds PROVE cmd[c] \in Records
BY DEF TypeOK, Records

LEMMA CallBecomes ==
  ASSUME TypeOK, NEW c \in Cmds, Call(c)
  PROVE  Becomes(c, "pushing", cmd[c].on, cmd[c].chunk)
<1> DEFINE r == [cmd[c] EXCEPT !.at = "pushing"]
<1>1. r \in Records /\ r.at = "pushing" /\ r.on = cmd[c].on /\ r.chunk = cmd[c].chunk
  BY Known DEF Records, Place
<1>2. cmd' = [cmd EXCEPT ![c] = r]
  BY DEF Call
<1> HIDE DEF r
<1> QED BY <1>1, <1>2, Edited

LEMMA PushBecomes ==
  ASSUME TypeOK, NEW c \in Cmds, Push(c)
  PROVE  Becomes(c, "queued", cmd[c].on, cmd[c].chunk)
<1> DEFINE r == [cmd[c] EXCEPT !.at = "queued"]
<1>1. r \in Records /\ r.at = "queued" /\ r.on = cmd[c].on /\ r.chunk = cmd[c].chunk
  BY Known DEF Records, Place
<1>2. cmd' = [cmd EXCEPT ![c] = r]
  BY DEF Push
<1> HIDE DEF r
<1> QED BY <1>1, <1>2, Edited

LEMMA PassesBecomes ==
  ASSUME TypeOK, NEW c \in Cmds, Passes(c)
  PROVE  Becomes(c, cmd[c].at, cmd[c].on, cmd[c].chunk)
<1> DEFINE r == [cmd[c] EXCEPT !.late = TRUE]
<1>1. r \in Records /\ r.at = cmd[c].at /\ r.on = cmd[c].on /\ r.chunk = cmd[c].chunk
  BY Known DEF Records
<1>2. cmd' = [cmd EXCEPT ![c] = r]
  BY DEF Passes
<1> HIDE DEF r
<1> QED BY <1>1, <1>2, Edited

LEMMA StartsBecomes ==
  ASSUME TypeOK, NEW c \in Cmds, Start(c), ~cmd[c].late
  PROVE  Becomes(c, "running", client, cmd[c].chunk) /\ told' = told
<1> DEFINE r == [cmd[c] EXCEPT !.at = "running", !.on = client]
<1>1. r \in Records /\ r.at = "running" /\ r.on = client /\ r.chunk = cmd[c].chunk
  BY Known, Numbers DEF Records, Place
<1>2. cmd' = [cmd EXCEPT ![c] = r] /\ told' = told
  BY DEF Start
<1> HIDE DEF r
<1> QED BY <1>1, <1>2, Edited

LEMMA LiveCallBecomes ==
  ASSUME TypeOK, NEW c \in Cmds, LiveCall(c), client # 0
  PROVE  Becomes(c, "running", client, cmd[c].chunk) /\ told' = told
<1> DEFINE r == [cmd[c] EXCEPT !.at = "running", !.on = client]
<1>1. r \in Records /\ r.at = "running" /\ r.on = client /\ r.chunk = cmd[c].chunk
  BY Known, Numbers DEF Records, Place
<1>2. cmd' = [cmd EXCEPT ![c] = r] /\ told' = told
  BY DEF LiveCall
<1> HIDE DEF r
<1> QED BY <1>1, <1>2, Edited

LEMMA CarriesBecomes ==
  ASSUME TypeOK, NEW c \in Cmds, Carries(c)
  PROVE  Becomes(c, "carried", 0, 1)
<1> DEFINE r == [cmd[c] EXCEPT !.at = "carried", !.on = 0, !.chunk = 1, !.try = 1]
<1>1. r \in Records /\ r.at = "carried" /\ r.on = 0 /\ r.chunk = 1
  BY Known, Numbers DEF Records, Place
<1>2. cmd' = [cmd EXCEPT ![c] = r]
  BY DEF Carries
<1> HIDE DEF r
<1> QED BY <1>1, <1>2, Edited

\* A chunk that is not the last one is acknowledged.
LEMMA SendBecomes ==
  ASSUME TypeOK, NEW c \in Cmds, Send(c), cmd[c].chunk # Chunks(c), cmd[c].chunk \in 1..Chunks(c)
  PROVE  Becomes(c, "running", cmd[c].on, cmd[c].chunk + 1) /\ told' = told
<1> DEFINE r == [cmd[c] EXCEPT !.chunk = @ + 1, !.try = 1]
<1>1. cmd[c].chunk + 1 \in 1..2 /\ 1 \in 1..MaxAttempts
  BY Numbers DEF Chunks
<1>2. r \in Records /\ r.at = cmd[c].at /\ r.on = cmd[c].on /\ r.chunk = cmd[c].chunk + 1
  BY <1>1, Known DEF Records
<1>3. cmd' = [cmd EXCEPT ![c] = r] /\ told' = told /\ cmd[c].at = "running"
  BY DEF Send, At
<1> HIDE DEF r
<1> QED BY <1>2, <1>3, Edited

LEMMA RetriesBecomes ==
  ASSUME TypeOK, NEW c \in Cmds, Retries(c)
  PROVE  Becomes(c, "running", cmd[c].on, cmd[c].chunk) /\ told' = told
<1> DEFINE r == [cmd[c] EXCEPT !.try = @ + 1]
<1>1. cmd[c].try + 1 \in 1..MaxAttempts
  <2>1. cmd[c].try \in 1..MaxAttempts /\ MaxAttempts \in Nat \ {0}
    BY Known, TransportAssumption DEF Records, TransportAssumption
  <2>2. Attempts(c) \in Nat /\ Attempts(c) <= MaxAttempts
    BY <2>1 DEF Attempts
  <2> QED BY <2>1, <2>2 DEF Retries
<1>2. r \in Records /\ r.at = cmd[c].at /\ r.on = cmd[c].on /\ r.chunk = cmd[c].chunk
  BY <1>1, Known DEF Records
<1>3. cmd' = [cmd EXCEPT ![c] = r] /\ told' = told /\ cmd[c].at = "running"
  BY DEF Retries, At
<1> HIDE DEF r
<1> QED BY <1>2, <1>3, Edited

LEMMA EndsBecomes ==
  ASSUME TypeOK, NEW c \in Cmds, NEW outcome \in Told, Ends(c, outcome)
  PROVE  Becomes(c, "done", Over.on, Over.chunk)
BY FreshTyped, Edited DEF Ends

\* The next chunk of a command is one of its chunks.
InChunks == \A c \in Cmds : cmd[c].chunk \in 1..Chunks(c)
Typed == TypeOK /\ InChunks

\* The parts of TypeOK that speak of cmd and told, and the rest.
LEMMA TypedBy ==
  ASSUME NEW c \in Cmds, NEW p, NEW on, NEW chunk, TypeOK, InChunks,
         Becomes(c, p, on, chunk), chunk \in 1..Chunks(c), scenario' = scenario,
         told' \in [Cmds -> Told], Rest'
  PROVE  Typed'
<1>1. scenario' \in Scenarios /\ cmd' \in [Cmds -> Records]
  BY DEF TypeOK, Becomes
<1>2. \A d \in Cmds : cmd'[d].chunk \in 1..(IF d \in scenario'.long THEN 2 ELSE 1)
  BY DEF Becomes, InChunks, Chunks
<1> QED BY <1>1, <1>2 DEF Typed, TypeOK, InChunks, Rest, Records, Chunks

LEMMA OneChunk == \A c \in Cmds : 1 \in 1..Chunks(c) /\ Over.chunk \in 1..Chunks(c)
<1>1. Over.chunk = 1
  BY DEF Over, New
<1> QED BY <1>1 DEF Chunks

\* A step that leaves the commands where they are.
LEMMA TypedSide ==
  ASSUME Typed, UNCHANGED <<scenario, cmd>>, told' \in [Cmds -> Told], Rest'
  PROVE  Typed'
BY DEF Typed, TypeOK, InChunks, Rest, Records, Chunks

LEMMA TypedCaller ==
  ASSUME Typed, NEW c \in Cmds,
         Call(c) \/ Push(c) \/ PushFails(c) \/ Passes(c) \/ GivesUp(c)
  PROVE  Typed'
<1>t. TypeOK /\ InChunks /\ told \in [Cmds -> Told] /\ Rest /\ cmd[c].chunk \in 1..Chunks(c)
  BY TypeIs DEF Typed, InChunks
<1>u. scenario' = scenario
  BY DEF Call, Push, PushFails, Passes, GivesUp
<1>1. CASE Call(c)
  <2>1. Becomes(c, "pushing", cmd[c].on, cmd[c].chunk)
    BY <1>1, <1>t, CallBecomes
  <2>2. Rest' /\ told' \in [Cmds -> Told]
    BY <2>1, <1>1, <1>t DEF Call, Rest, At, side, Becomes
  <2> QED BY <2>1, <2>2, <1>t, <1>u, TypedBy
<1>2. CASE Push(c)
  <2>1. Becomes(c, "queued", cmd[c].on, cmd[c].chunk)
    BY <1>2, <1>t, PushBecomes
  <2>2. queue' \in Seq(Cmds) /\ pushed' \in Seq(Cmds) /\ Len(queue') = Len(queue) + 1
    BY <1>2, <1>t DEF Push, Rest
  <2>3. Len(queue') <= QueueCap
    BY <2>2, <1>2, <1>t, TransportAssumption DEF Push, Rest, TransportAssumption
  <2>4. Rest' /\ told' \in [Cmds -> Told]
    BY <2>1, <2>2, <2>3, <1>2, <1>t DEF Push, Rest, At, side, Becomes
  <2> QED BY <2>1, <2>4, <1>t, <1>u, TypedBy
<1>3. CASE PushFails(c)
  <2>1. Becomes(c, "done", Over.on, Over.chunk) /\ told' \in [Cmds -> Told]
    BY <1>3, <1>t, EndsBecomes, EndsTyped DEF PushFails, Told
  <2>2. Rest'
    BY <2>1, <1>3, <1>t DEF PushFails, Rest, At, side, Becomes
  <2> QED BY <2>1, <2>2, <1>t, <1>u, TypedBy, OneChunk
<1>4. CASE Passes(c)
  <2>1. Becomes(c, cmd[c].at, cmd[c].on, cmd[c].chunk)
    BY <1>4, <1>t, PassesBecomes
  <2>2. Rest' /\ told' \in [Cmds -> Told]
    BY <2>1, <1>4, <1>t DEF Passes, Rest, At, side, Becomes
  <2> QED BY <2>1, <2>2, <1>t, <1>u, TypedBy
<1>5. CASE GivesUp(c)
  <2>1. Rest' /\ told' \in [Cmds -> Told] /\ cmd' = cmd
    BY <1>5, <1>t DEF GivesUp, Rest, At, side, Reply, Told
  <2> QED BY <2>1, <1>u, TypedSide
<1> QED BY <1>1, <1>2, <1>3, <1>4, <1>5

\* The steps that change the client and the loop only.
Turns == Connect \/ CycleEnds \/ TokenDies \/ Attach \/ AskDetach \/ Detach

LEMMA TypedTurns == ASSUME Typed, Turns PROVE Typed'
<1>t. told \in [Cmds -> Told] /\ Rest /\ MaxClients \in Nat
  BY TypeIs, TransportAssumption DEF Typed, TransportAssumption
<1>1. UNCHANGED <<scenario, cmd, told, queue, carry, pushed, room>>
  BY DEF Turns, Connect, CycleEnds, TokenDies, Attach, AskDetach, Detach
<1>2. /\ loop' \in {"connecting", "cycle", "detaching", "stopped"}
      /\ built' \in 0..MaxClients /\ client' \in {0, built'} /\ token' \in BOOLEAN
  <2>1. CASE Connect \/ Attach
    <3>1. built' = built + 1 /\ built < MaxClients /\ client' = built' /\ loop' = "cycle"
      BY <2>1 DEF Connect, Attach
    <3>2. token' = TRUE
      BY <2>1 DEF Connect, Attach
    <3>3. built \in 0..MaxClients
      BY <1>t DEF Rest
    <3>4. built' \in 0..MaxClients
      BY <3>1, <3>3, <1>t
    <3> QED BY <3>1, <3>2, <3>4
  <2>2. CASE CycleEnds \/ Detach
    BY <2>2, <1>t DEF CycleEnds, Detach, Rest
  <2>3. CASE TokenDies \/ AskDetach
    BY <2>3, <1>t DEF TokenDies, AskDetach, Rest
  <2> QED BY <2>1, <2>2, <2>3 DEF Turns
<1>3. Rest'
  BY <1>1, <1>2, <1>t DEF Rest, At
<1> QED BY <1>1, <1>3, <1>t, TypedSide

\* How the loop ends, or the process.
LEMMA StopsEffect ==
  ASSUME TypeOK, Shutdown \/ Fatal
  PROVE  \E outcome, rest \in {"shutdown", "dropped", "gone"} : Stops(outcome, rest)
BY DEF Shutdown, Fatal

LEMMA TypedStops ==
  ASSUME Typed, NEW outcome \in {"shutdown", "dropped", "gone"},
         NEW rest \in {"shutdown", "dropped", "gone"}, Stops(outcome, rest)
  PROVE  Typed'
<1>t. TypeOK /\ InChunks /\ told \in [Cmds -> Told] /\ Rest /\ scenario' = scenario
  BY TypeIs DEF Typed, Stops
<1>1. cmd' \in [Cmds -> Records]
  BY <1>t, FreshTyped, Known DEF Stops
<1>2. told' \in [Cmds -> Told]
  BY <1>t DEF Stops, Told
<1>3. queue' = <<>> /\ carry' = None /\ loop' = "stopped" /\ client' = 0 /\ token' = FALSE
      /\ UNCHANGED <<built, pushed, room>>
  BY DEF Stops
<1>4. queue' \in Seq(Cmds) /\ Len(queue') <= QueueCap
  BY <1>3, TransportAssumption DEF TransportAssumption
<1>5. Rest'
  BY <1>3, <1>4, <1>t DEF Rest
<1>6. \A d \in Cmds : cmd'[d] = Over \/ cmd'[d] = cmd[d]
  BY DEF Stops
<1>7. \A d \in Cmds : cmd'[d].chunk \in 1..(IF d \in scenario'.long THEN 2 ELSE 1)
  BY <1>6, <1>t, OneChunk DEF InChunks, Chunks
<1>8. scenario' \in Scenarios
  BY <1>t DEF TypeOK
<1> QED BY <1>1, <1>2, <1>5, <1>7, <1>8 DEF Typed, TypeOK, InChunks, Rest, Records, Chunks

\* What the cycle takes next.
LEMMA MineIs ==
  ASSUME TypeOK, Mine # None
  PROVE  /\ Mine \in Cmds
         /\ (Mine = carry) \/ (carry = None /\ queue # <<>> /\ Mine = queue[1])
BY DEF TypeOK, Mine

LEMMA TypedExecute == ASSUME Typed, Execute PROVE Typed'
<1>t. TypeOK /\ InChunks /\ told \in [Cmds -> Told] /\ Rest /\ scenario' = scenario
  BY TypeIs DEF Typed, Execute
<1> DEFINE c == Mine
<1>c. c \in Cmds /\ Start(c) /\ (c = carry \/ (carry = None /\ queue # <<>> /\ c = queue[1]))
  BY <1>t, MineIs DEF Execute
<1>1. queue' \in Seq(Cmds) /\ Len(queue') <= QueueCap
  BY <1>t, <1>c, TransportAssumption DEF Execute, Rest, TransportAssumption
<1>2. carry' = None
  BY <1>c DEF Execute
<1>3. Rest'
  BY <1>1, <1>2, <1>t DEF Execute, Rest, side
<1> HIDE DEF c
<1>4. CASE cmd[c].late
  <2>1. Ends(c, "deadline") /\ "deadline" \in Told
    BY <1>4, <1>c DEF Start, Told
  <2>2. Becomes(c, "done", Over.on, Over.chunk) /\ told' \in [Cmds -> Told]
    BY <2>1, <1>c, <1>t, EndsBecomes, EndsTyped
  <2> QED BY <2>2, <1>3, <1>c, <1>t, OneChunk, TypedBy
<1>5. CASE ~cmd[c].late
  <2>1. Becomes(c, "running", client, cmd[c].chunk) /\ told' = told
    BY <1>5, <1>c, <1>t, StartsBecomes
  <2>2. cmd[c].chunk \in 1..Chunks(c)
    BY <1>c, <1>t DEF InChunks
  <2> QED BY <2>1, <2>2, <1>3, <1>c, <1>t, TypedBy
<1> QED BY <1>4, <1>5

\* The operations on a client.
LEMMA TypedRuns ==
  ASSUME Typed, NEW c \in Cmds,
         Send(c) \/ Retries(c) \/ Fails(c) \/ TimesOut(c) \/ Rejected(c) \/ LiveCall(c)
  PROVE  Typed'
<1>t. TypeOK /\ InChunks /\ told \in [Cmds -> Told] /\ Rest /\ cmd[c].chunk \in 1..Chunks(c)
      /\ cmd[c].chunk \in 1..2
  BY TypeIs DEF Typed, InChunks, Chunks
<1>u. scenario' = scenario
  BY DEF Send, Retries, Fails, TimesOut, Rejected, LiveCall
<1>r. \/ room' = room
      \/ \E h \in BOOLEAN : room' = Append(room, <<c, cmd[c].chunk, h>>)
  BY DEF Send, Retries, Fails, TimesOut, Rejected, LiveCall, Unanswered, Arrives
<1>s. room' \in Seq(Cmds \X (1..2) \X BOOLEAN)
  <2>1. room \in Seq(Cmds \X (1..2) \X BOOLEAN)
    BY <1>t DEF Rest
  <2>2. ASSUME NEW h \in BOOLEAN, room' = Append(room, <<c, cmd[c].chunk, h>>)
        PROVE  room' \in Seq(Cmds \X (1..2) \X BOOLEAN)
    <3>1. <<c, cmd[c].chunk, h>> \in Cmds \X (1..2) \X BOOLEAN
      BY <1>t
    <3> QED BY <3>1, <2>1, <2>2, AppendProperties
  <2> QED BY <2>1, <2>2, <1>r
<1>1. CASE Send(c) /\ cmd[c].chunk # Chunks(c)
  <2>1. Becomes(c, "running", cmd[c].on, cmd[c].chunk + 1) /\ told' = told
    BY <1>1, <1>t, SendBecomes
  <2>2. Rest'
    BY <2>1, <1>1, <1>s, <1>t DEF Send, Rest, At, side, Becomes
  <2>3. cmd[c].chunk + 1 \in 1..Chunks(c)
    BY <1>1, <1>t DEF Chunks
  <2> QED BY <2>1, <2>2, <2>3, <1>t, <1>u, TypedBy
<1>2. ASSUME NEW outcome \in Told, At(c, "running"), Ends(c, outcome),
             UNCHANGED <<queue, carry, side, pushed>>
      PROVE Typed'
  <2>1. Becomes(c, "done", Over.on, Over.chunk) /\ told' \in [Cmds -> Told]
    BY <1>2, <1>t, EndsBecomes, EndsTyped
  <2>2. Rest'
    BY <2>1, <1>2, <1>s, <1>t DEF Rest, At, side, Becomes
  <2> QED BY <2>1, <2>2, <1>t, <1>u, TypedBy, OneChunk
<1>3. CASE Send(c) /\ cmd[c].chunk = Chunks(c)
  BY <1>2, <1>3 DEF Send, Told
<1>4. CASE Fails(c) \/ TimesOut(c)
  BY <1>2, <1>4 DEF Fails, TimesOut, Told
<1>8. CASE Retries(c)
  <2>1. Becomes(c, "running", cmd[c].on, cmd[c].chunk) /\ told' = told
    BY <1>8, <1>t, RetriesBecomes
  <2>2. Rest'
    BY <2>1, <1>8, <1>s, <1>t DEF Retries, Rest, At, side, Becomes
  <2> QED BY <2>1, <2>2, <1>t, <1>u, TypedBy
<1>9. CASE Rejected(c) /\ Is("live")
  BY <1>2, <1>9 DEF Rejected, Is, side, Told
<1>5. CASE Rejected(c) /\ Is("queue")
  <2>0. Carries(c) /\ loop' = "connecting" /\ client' = 0
    BY <1>5 DEF Rejected, Is
  <2>1. Becomes(c, "carried", 0, 1) /\ told' = told
    BY <2>0, <1>t, CarriesBecomes DEF Carries
  <2>2. Rest'
    BY <2>0, <2>1, <1>5, <1>s, <1>t DEF Rejected, Carries, Rest, At, Becomes
  <2> QED BY <2>1, <2>2, <1>t, <1>u, TypedBy, OneChunk
<1>6. CASE LiveCall(c) /\ client # 0
  <2>1. Becomes(c, "running", client, cmd[c].chunk) /\ told' = told
    BY <1>6, <1>t, LiveCallBecomes
  <2>2. Rest'
    BY <2>1, <1>6, <1>s, <1>t DEF LiveCall, Rest, At, side, Becomes
  <2> QED BY <2>1, <2>2, <1>t, <1>u, TypedBy
<1>7. CASE LiveCall(c) /\ client = 0
  <2>1. Becomes(c, "done", Over.on, Over.chunk) /\ told' \in [Cmds -> Told]
    BY <1>7, <1>t, EndsBecomes, EndsTyped DEF LiveCall, Told
  <2>2. Rest'
    BY <2>1, <1>7, <1>s, <1>t DEF LiveCall, Rest, At, side, Becomes
  <2> QED BY <2>1, <2>2, <1>t, <1>u, TypedBy, OneChunk
<1> QED BY <1>1, <1>3, <1>4, <1>5, <1>6, <1>7, <1>8, <1>9 DEF Rejected

LEMMA TypedNext == Typed /\ [Next]_vars => Typed'
<1> SUFFICES ASSUME Typed, [Next]_vars PROVE Typed'
  OBVIOUS
<1>1. CASE UNCHANGED vars
  <2>1. told' \in [Cmds -> Told] /\ Rest'
    BY <1>1, TypeIs DEF vars, Rest, At, Typed
  <2> QED BY <2>1, <1>1, TypedSide DEF vars
<1>2. CASE Shutdown \/ Fatal
  BY <1>2, StopsEffect, TypedStops DEF Typed
<1> QED BY <1>1, <1>2, TypedTurns, TypedExecute, TypedCaller, TypedRuns DEF Next, Turns

LEMMA TypedInit == Init => Typed
<1> SUFFICES ASSUME Init PROVE Typed
  OBVIOUS
<1>1. \A c \in Cmds : cmd[c].chunk = 1
  BY DEF Init, New
<1> QED BY <1>1, TypeInit, OneChunk DEF Typed, InChunks

\* Every variable keeps its type, for every scenario and every size.
THEOREM TypeCorrect == Spec => []TypeOK
<1>1. Typed => TypeOK
  BY DEF Typed
<1> QED BY <1>1, TypedInit, TypedNext, PTL DEF Spec

-----------------------------------------------------------------------------
(* Which command runs on which client *)

\* There is a client in a cycle, and until a detach is done.
ClientUp == client # 0 <=> loop \in {"cycle", "detaching"}

\* The cycle runs commands inline.
OneAtATime == Is("queue") => \A c, d \in Running : c = d

CarriedHere ==
  /\ \A c \in Cmds : At(c, "carried") <=> c = carry
  /\ carry # None => Running = {} /\ Is("queue")

QueuedHere ==
  /\ \A c \in Cmds : At(c, "queued") <=> \E i \in DOMAIN queue : queue[i] = c
  /\ \A i, j \in DOMAIN queue : queue[i] = queue[j] => i = j

Custody == ClientUp /\ OneAtATime /\ OneClient /\ CarriedHere /\ QueuedHere

LEMMA CustodyInit == Init => Custody
<1> SUFFICES ASSUME Init PROVE Custody
  OBVIOUS
<1>1. \A c \in Cmds : cmd[c].at = "new" /\ c # carry
  BY TransportAssumption DEF Init, New, TransportAssumption
<1>2. DOMAIN queue = {}
  BY DEF Init
<1> QED BY <1>1, <1>2 DEF Init, Custody, ClientUp, OneAtATime, OneClient, CarriedHere, QueuedHere, Running, At

\* A step of one command that neither takes a client nor is waiting in the loop.
LEMMA CustodyAside ==
  ASSUME Custody, NEW c \in Cmds, NEW p, NEW on, NEW chunk, Becomes(c, p, on, chunk),
         UNCHANGED <<scenario, queue, carry, side>>,
         \/ p = cmd[c].at /\ on = cmd[c].on
         \/ cmd[c].at \in {"new", "pushing", "running"} /\ p \in {"pushing", "done"}
  PROVE  Custody'
<1>1. Running' \subseteq Running
  BY DEF Running, At, Becomes
<1>2. OneAtATime' /\ ClientUp'
  BY <1>1 DEF Custody, OneAtATime, ClientUp, Is, side
<1>3. \A d \in Running' : d \in Running /\ cmd'[d].on = cmd[d].on
  BY <1>1 DEF Running, At, Becomes
<1>4. OneClient'
  BY <1>3 DEF Custody, OneClient, side
<1>5. \A d \in Cmds : (At(d, "carried")' <=> At(d, "carried")) /\ (At(d, "queued")' <=> At(d, "queued"))
  BY DEF At, Becomes
<1>6. CarriedHere'
  BY <1>1, <1>5 DEF Custody, CarriedHere, Is
<1>7. QueuedHere'
  BY <1>5 DEF Custody, QueuedHere
<1> QED BY <1>2, <1>4, <1>6, <1>7 DEF Custody

LEMMA CustodyPush ==
  ASSUME Custody, Typed, NEW c \in Cmds, Push(c)
  PROVE  Custody'
<1>t. TypeOK /\ queue \in Seq(Cmds)
  BY DEF Typed, TypeOK
<1>b. Becomes(c, "queued", cmd[c].on, cmd[c].chunk) /\ cmd[c].at = "pushing"
  BY <1>t, PushBecomes DEF Push, At
<1>u. UNCHANGED <<scenario, carry, side>> /\ queue' = Append(queue, c)
  BY DEF Push
<1>1. Running' = Running /\ \A d \in Running : cmd'[d] = cmd[d]
  BY <1>b DEF Running, At, Becomes
<1>2. OneAtATime' /\ ClientUp' /\ OneClient'
  BY <1>1, <1>u DEF Custody, OneAtATime, ClientUp, OneClient, Is, side
<1>3. CarriedHere'
  BY <1>1, <1>b, <1>u DEF Custody, CarriedHere, At, Becomes, Is
<1>4. /\ DOMAIN queue' = 1..(Len(queue) + 1) /\ DOMAIN queue = 1..Len(queue)
      /\ queue'[Len(queue) + 1] = c /\ \A i \in 1..Len(queue) : queue'[i] = queue[i]
      /\ Len(queue) \in Nat
  BY <1>t, <1>u, AppendProperties, LenProperties
<1>5. \A i \in DOMAIN queue : queue[i] # c
  BY <1>b, <1>t DEF Custody, QueuedHere, At
<1>6. \A i, j \in DOMAIN queue' : queue'[i] = queue'[j] => i = j
  BY <1>4, <1>5 DEF Custody, QueuedHere
<1>7. \A d \in Cmds : At(d, "queued")' <=> \E i \in DOMAIN queue' : queue'[i] = d
  <2> SUFFICES ASSUME NEW d \in Cmds PROVE At(d, "queued")' <=> \E i \in DOMAIN queue' : queue'[i] = d
    OBVIOUS
  <2>1. CASE d = c
    BY <2>1, <1>b, <1>4 DEF At, Becomes
  <2>2. CASE d # c
    <3>1. At(d, "queued")' <=> \E i \in DOMAIN queue : queue[i] = d
      BY <2>2, <1>b DEF At, Becomes, Custody, QueuedHere
    <3>2. (\E i \in DOMAIN queue : queue[i] = d) <=> \E i \in DOMAIN queue' : queue'[i] = d
      BY <2>2, <1>4
    <3> QED BY <3>1, <3>2
  <2> QED BY <2>1, <2>2
<1> QED BY <1>2, <1>3, <1>6, <1>7 DEF Custody, QueuedHere

LEMMA CustodyTurns == ASSUME Custody, Typed, Turns PROVE Custody'
<1>1. UNCHANGED <<scenario, cmd, queue, carry>>
  BY DEF Turns, Connect, CycleEnds, TokenDies, Attach, AskDetach, Detach
<1>t. built \in Nat /\ loop \in {"connecting", "cycle", "detaching", "stopped"}
  BY TransportAssumption DEF Typed, TypeOK, TransportAssumption
<1>2. Running' = Running /\ QueuedHere' /\ CarriedHere' /\ OneAtATime'
  BY <1>1 DEF Custody, Running, QueuedHere, CarriedHere, OneAtATime, At, Is
<1>3. ClientUp'
  BY <1>t DEF Turns, Connect, CycleEnds, TokenDies, Attach, AskDetach, Detach, Custody, ClientUp
<1>4. client' = client \/ Running = {}
  <2>1. CASE Connect \/ Attach
    BY <2>1 DEF Connect, Attach, Custody, ClientUp, OneClient
  <2> QED BY <2>1 DEF Turns, CycleEnds, TokenDies, AskDetach, Detach, Unused
<1>5. OneClient'
  BY <1>1, <1>2, <1>4 DEF Custody, OneClient
<1> QED BY <1>2, <1>3, <1>5 DEF Custody

LEMMA CustodyStops ==
  ASSUME Custody, Typed, Shutdown \/ Fatal
  PROVE  Custody'
<1>1. Running = {}
  BY DEF Shutdown, Fatal, Custody, ClientUp, OneClient
<1>2. PICK outcome, rest \in {"shutdown", "dropped", "gone"} : Stops(outcome, rest)
  BY StopsEffect DEF Typed
<1>3. /\ \A d \in Cmds : cmd'[d] = IF cmd[d].at \in {"queued", "carried"} THEN Over ELSE cmd[d]
      /\ queue' = <<>> /\ carry' = None /\ loop' = "stopped" /\ client' = 0 /\ scenario' = scenario
  BY <1>2 DEF Stops
<1>4. \A d \in Cmds : cmd'[d].at \notin {"queued", "carried"} /\ (cmd'[d].at = "running" => cmd[d].at = "running")
  BY <1>3, FreshTyped
<1>5. Running' = {}
  BY <1>1, <1>4 DEF Running, At
<1>6. DOMAIN queue' = {} /\ \A d \in Cmds : d # carry'
  BY <1>3, TransportAssumption DEF TransportAssumption
<1> QED BY <1>3, <1>4, <1>5, <1>6
    DEF Custody, ClientUp, OneAtATime, OneClient, CarriedHere, QueuedHere, At

LEMMA TailOf ==
  ASSUME NEW S, NEW q \in Seq(S), q # <<>>
  PROVE  /\ DOMAIN q = 1..Len(q) /\ Len(q) \in Nat \ {0} /\ Head(q) = q[1]
         /\ DOMAIN Tail(q) = 1..(Len(q) - 1)
         /\ \A i \in DOMAIN Tail(q) : Tail(q)[i] = q[i + 1] /\ i + 1 \in DOMAIN q
BY HeadTailProperties, EmptySeq, LenProperties

\* What the cycle takes leaves the queue or the carry, and answered or running it is the
\* only one.
LEMMA CustodyTakes ==
  ASSUME Custody, Typed, Execute, NEW c \in Cmds, c = Mine, NEW p \in {"running", "done"},
         NEW on, NEW chunk, Becomes(c, p, on, chunk), p = "running" => on = client
  PROVE  Custody'
<1>t. TypeOK /\ queue \in Seq(Cmds) /\ Running = {} /\ Is("queue") /\ client # 0
  BY DEF Typed, TypeOK, Execute, Custody, ClientUp
<1>u. UNCHANGED <<scenario, side>> /\ carry' = None
  BY <1>t, MineIs DEF Execute
<1>1. Running' \subseteq {c} /\ (c \in Running' => cmd'[c].on = client)
  BY <1>t DEF Running, At, Becomes
<1>2. OneAtATime' /\ ClientUp' /\ OneClient'
  BY <1>1, <1>t, <1>u DEF Custody, OneAtATime, ClientUp, OneClient, side
<1>3. CASE c = carry
  <2>1. queue' = queue
    BY <1>3 DEF Execute
  <2>2. \A d \in Cmds : ~At(d, "carried")' /\ (At(d, "queued")' <=> At(d, "queued"))
    BY <1>3 DEF Custody, CarriedHere, At, Becomes
  <2>3. CarriedHere' /\ QueuedHere'
    BY <2>1, <2>2, <1>u, TransportAssumption DEF Custody, CarriedHere, QueuedHere, TransportAssumption
  <2> QED BY <2>3, <1>2 DEF Custody
<1>4. CASE c # carry
  <2>1. carry = None /\ queue # <<>> /\ c = queue[1] /\ queue' = Tail(queue)
    BY <1>4, <1>t, MineIs DEF Execute
  <2>2. \A d \in Cmds : ~At(d, "carried")'
    BY <2>1, TransportAssumption DEF Custody, CarriedHere, At, Becomes, TransportAssumption
  <2>3. CarriedHere'
    BY <2>2, <1>u, TransportAssumption DEF CarriedHere, TransportAssumption
  <2>4. /\ DOMAIN queue = 1..Len(queue) /\ Len(queue) \in Nat \ {0} /\ DOMAIN queue' = 1..(Len(queue) - 1)
        /\ \A i \in DOMAIN queue' : queue'[i] = queue[i + 1] /\ i + 1 \in DOMAIN queue
    BY <2>1, <1>t, TailOf
  <2>5. \A i, j \in DOMAIN queue' : queue'[i] = queue'[j] => i = j
    <3> SUFFICES ASSUME NEW i \in DOMAIN queue', NEW j \in DOMAIN queue', queue'[i] = queue'[j] PROVE i = j
      OBVIOUS
    <3>1. i + 1 = j + 1
      BY <2>4 DEF Custody, QueuedHere
    <3> QED BY <3>1, <2>4
  <2>6. ASSUME NEW d \in Cmds PROVE At(d, "queued")' <=> \E i \in DOMAIN queue' : queue'[i] = d
    <3>1. CASE d = c
      <4>1. ~At(d, "queued")'
        BY <3>1 DEF At, Becomes
      <4>2. ASSUME NEW i \in DOMAIN queue', queue'[i] = d PROVE FALSE
        <5>1. 1 \in DOMAIN queue /\ i + 1 \in DOMAIN queue /\ queue[i + 1] = queue[1] /\ i \in 1..(Len(queue) - 1)
          BY <4>2, <3>1, <2>1, <2>4
        <5>2. i + 1 = 1
          BY <5>1 DEF Custody, QueuedHere
        <5> QED BY <5>1, <5>2, <2>4
      <4> QED BY <4>1, <4>2
    <3>2. CASE d # c
      <4>1. At(d, "queued")' <=> \E i \in DOMAIN queue : queue[i] = d
        BY <3>2 DEF At, Becomes, Custody, QueuedHere
      <4>2. ASSUME NEW i \in DOMAIN queue, queue[i] = d PROVE \E k \in DOMAIN queue' : queue'[k] = d
        <5>1. i # 1 /\ i \in 1..Len(queue)
          BY <4>2, <3>2, <2>1, <2>4
        <5>2. i - 1 \in DOMAIN queue' /\ (i - 1) + 1 = i
          BY <5>1, <2>4
        <5>3. queue'[i - 1] = d
          BY <5>2, <4>2, <2>4
        <5> QED BY <5>2, <5>3
      <4> QED BY <4>1, <4>2, <2>4
    <3> QED BY <3>1, <3>2
  <2>7. QueuedHere'
    BY <2>5, <2>6 DEF QueuedHere
  <2> QED BY <2>3, <2>7, <1>2 DEF Custody
<1> QED BY <1>3, <1>4

LEMMA ExecuteBecomes ==
  ASSUME Typed, Execute
  PROVE  \E c \in Cmds, p \in {"running", "done"}, on, chunk \in Nat :
           c = Mine /\ Becomes(c, p, on, chunk) /\ (p = "running" => on = client)
<1>1. TypeOK /\ Mine \in Cmds /\ Start(Mine)
  BY MineIs DEF Execute, Typed
<1>n. cmd[Mine].chunk \in Nat /\ client \in Nat /\ Over.on \in Nat /\ Over.chunk \in Nat
  BY <1>1, Known, Numbers DEF Over, New, Records
<1>2. CASE cmd[Mine].late
  <2>1. Becomes(Mine, "done", Over.on, Over.chunk)
    BY <1>1, <1>2, EndsBecomes DEF Start, Told
  <2> QED BY <2>1, <1>1, <1>n
<1>3. CASE ~cmd[Mine].late
  <2>1. Becomes(Mine, "running", client, cmd[Mine].chunk)
    BY <1>1, <1>3, StartsBecomes
  <2> QED BY <2>1, <1>1, <1>n
<1> QED BY <1>2, <1>3

LEMMA CustodyRejected ==
  ASSUME Custody, Typed, NEW c \in Cmds, Rejected(c), Is("queue")
  PROVE  Custody'
<1>r. Carries(c) /\ loop' = "connecting" /\ client' = 0
  BY DEF Rejected, Is
<1>b. Becomes(c, "carried", 0, 1) /\ Running = {c} /\ carry = None
  BY <1>r, CarriesBecomes DEF Typed, Rejected, Custody, OneAtATime, CarriedHere, Running
<1>u. UNCHANGED <<scenario, queue>> /\ carry' = c /\ loop' = "connecting" /\ client' = 0
  BY <1>r DEF Rejected, Carries
<1>1. Running' = {} /\ \A d \in Cmds : (At(d, "carried")' <=> d = c) /\ (At(d, "queued")' <=> At(d, "queued"))
  <2>1. \A d \in Cmds : d # c => ~At(d, "carried") /\ ~At(d, "running")
    BY <1>b, TransportAssumption DEF Custody, CarriedHere, Running, TransportAssumption
  <2>2. At(c, "running")
    BY DEF Rejected
  <2> QED BY <2>1, <2>2, <1>b DEF Running, At, Becomes
<1>2. CarriedHere' /\ QueuedHere'
  BY <1>1, <1>u DEF Custody, CarriedHere, QueuedHere, Rejected, Is
<1> QED BY <1>1, <1>2, <1>u DEF Custody, ClientUp, OneAtATime, OneClient

LEMMA CustodyLive ==
  ASSUME Custody, Typed, NEW c \in Cmds, LiveCall(c), client # 0
  PROVE  Custody'
<1>b. Becomes(c, "running", client, cmd[c].chunk) /\ cmd[c].at = "new" /\ Is("live")
  BY LiveCallBecomes DEF Typed, LiveCall, At
<1>u. UNCHANGED <<scenario, queue, carry, side>>
  BY DEF LiveCall
<1>l. carry = None
  BY <1>b DEF Custody, CarriedHere, Is
<1>1. \A d \in Cmds : (At(d, "carried")' <=> At(d, "carried")) /\ (At(d, "queued")' <=> At(d, "queued"))
  BY <1>b DEF At, Becomes
<1>2. CarriedHere' /\ QueuedHere'
  BY <1>1, <1>l, <1>u DEF Custody, CarriedHere, QueuedHere
<1>3. \A d \in Running' : (d = c /\ cmd'[d].on = client) \/ (d \in Running /\ cmd'[d] = cmd[d])
  BY <1>b DEF Running, At, Becomes
<1>4. OneClient' /\ ClientUp' /\ OneAtATime'
  BY <1>3, <1>b, <1>u DEF Custody, OneClient, ClientUp, OneAtATime, Is, side
<1> QED BY <1>2, <1>4 DEF Custody

LEMMA CustodyNext == Custody /\ Typed /\ [Next]_vars => Custody'
<1> SUFFICES ASSUME Custody, Typed, [Next]_vars PROVE Custody'
  OBVIOUS
<1>t. TypeOK /\ InChunks /\ MaxClients \in Nat
  BY TransportAssumption DEF Typed, TransportAssumption
<1>1. CASE UNCHANGED vars
  BY <1>1 DEF vars, Custody, ClientUp, OneAtATime, OneClient, CarriedHere, QueuedHere, Running, At, Is
<1>2. CASE Execute
  BY <1>2, ExecuteBecomes, CustodyTakes
<1>3. ASSUME NEW c \in Cmds, Call(c) \/ PushFails(c) \/ Passes(c) PROVE Custody'
  <2>1. UNCHANGED <<scenario, queue, carry, side>>
    BY <1>3 DEF Call, PushFails, Passes
  <2>2. CASE Call(c)
    BY <2>1, <2>2, <1>t, CallBecomes, CustodyAside DEF Call, At
  <2>3. CASE PushFails(c)
    BY <2>1, <2>3, <1>t, EndsBecomes, CustodyAside DEF PushFails, At, Told
  <2>4. CASE Passes(c)
    BY <2>1, <2>4, <1>t, PassesBecomes, CustodyAside
  <2> QED BY <1>3, <2>2, <2>3, <2>4
<1>4. ASSUME NEW c \in Cmds, GivesUp(c) PROVE Custody'
  BY <1>4 DEF GivesUp, side, Custody, ClientUp, OneAtATime, OneClient, CarriedHere, QueuedHere, Running, At, Is
<1>5. ASSUME NEW c \in Cmds, Send(c) PROVE Custody'
  <2>1. UNCHANGED <<scenario, queue, carry, side>> /\ cmd[c].at = "running" /\ cmd[c].chunk \in 1..Chunks(c)
    BY <1>5, <1>t DEF Send, InChunks, At
  <2>2. CASE cmd[c].chunk = Chunks(c)
    BY <2>1, <2>2, <1>5, <1>t, EndsBecomes, CustodyAside DEF Send, Told
  <2>3. CASE cmd[c].chunk # Chunks(c)
    BY <2>1, <2>3, <1>5, <1>t, SendBecomes, CustodyAside
  <2> QED BY <2>2, <2>3
<1>6. ASSUME NEW c \in Cmds, Fails(c) \/ TimesOut(c) PROVE Custody'
  BY <1>6, <1>t, EndsBecomes, CustodyAside DEF Fails, TimesOut, At, Told
<1>8. ASSUME NEW c \in Cmds, Retries(c) PROVE Custody'
  <2>1. Becomes(c, "running", cmd[c].on, cmd[c].chunk) /\ cmd[c].at = "running"
        /\ UNCHANGED <<scenario, queue, carry, side>>
    BY <1>8, <1>t, RetriesBecomes DEF Retries, At
  <2> QED BY <2>1, CustodyAside
<1>9. ASSUME NEW c \in Cmds, Rejected(c) PROVE Custody'
  <2>1. CASE Is("live")
    <3>1. Ends(c, "failed") /\ cmd[c].at = "running" /\ UNCHANGED <<scenario, queue, carry, side>>
      BY <1>9, <2>1 DEF Rejected, Is, At, side
    <3> QED BY <3>1, <1>t, EndsBecomes, CustodyAside DEF Told
  <2> QED BY <2>1, <1>9, CustodyRejected DEF Rejected
<1>7. ASSUME NEW c \in Cmds, LiveCall(c) PROVE Custody'
  <2>1. CASE client = 0
    BY <2>1, <1>7, <1>t, EndsBecomes, CustodyAside DEF LiveCall, At, Told
  <2> QED BY <2>1, <1>7, CustodyLive
<1> QED BY <1>1, <1>2, <1>3, <1>4, <1>5, <1>6, <1>7, <1>8, <1>9, CustodyPush, CustodyTurns, CustodyStops
        DEF Next, Turns

LEMMA CustodyInvariant == Spec => [](Typed /\ Custody)
BY TypedInit, TypedNext, CustodyInit, CustodyNext, PTL DEF Spec

\* No operation runs on a client that was given back or replaced (inproc.rs: detach waits for
\* the readers; matrix.rs: the loop runs commands inline).
THEOREM NoStaleClient == Spec => []OneClient
<1>1. Custody => OneClient
  BY DEF Custody
<1> QED BY <1>1, CustodyInvariant, PTL

-----------------------------------------------------------------------------
(* The order of arrival *)

\* The channel took a before b, or they are the same.
Before(took, a, b) == \E k, l \in DOMAIN took : k <= l /\ took[k] = a /\ took[l] = b

Held(c) == cmd[c].at \in {"running", "carried"}
InLoop(c) == Held(c) \/ At(c, "queued")
Arrived(c) == \E i \in DOMAIN room : room[i][1] = c

\* What has arrived comes before what the loop holds, that before what is queued, and the
\* queue is in the order of the channel.
Line ==
  Is("queue") =>
    /\ \A c \in Cmds : InLoop(c) \/ Arrived(c) => Before(pushed, c, c)
    /\ \A a, c \in Cmds : Arrived(a) /\ InLoop(c) => Before(pushed, a, c)
    /\ \A c, d \in Cmds : Held(c) /\ At(d, "queued") => Before(pushed, c, d)
    /\ \A i, j \in DOMAIN queue : i <= j => Before(pushed, queue[i], queue[j])

LEMMA LineInit == Init => Line /\ ArriveInOrder
<1> SUFFICES ASSUME Init PROVE Line /\ ArriveInOrder
  OBVIOUS
<1>1. DOMAIN queue = {} /\ DOMAIN room = {} /\ \A c \in Cmds : cmd[c].at = "new"
  BY DEF Init, New
<1> QED BY <1>1 DEF Line, ArriveInOrder, Held, InLoop, Arrived, At

\* Nothing new is pushed and nothing arrives; commands leave the loop, or the cycle takes
\* the carried one, or gives it back.
LEMMA LineKeeps ==
  ASSUME Line, ArriveInOrder, UNCHANGED <<scenario, pushed, room>>,
         \A c \in Cmds : (Held(c)' => Held(c)) /\ (At(c, "queued")' => At(c, "queued")),
         queue' = queue \/ DOMAIN queue' = {}
  PROVE  Line' /\ ArriveInOrder'
<1>1. ArriveInOrder'
  BY DEF ArriveInOrder, Is
<1>2. \A c \in Cmds : (InLoop(c)' => InLoop(c)) /\ (Arrived(c)' <=> Arrived(c))
  BY DEF InLoop, Arrived
<1>3. Line'
  BY <1>2 DEF Line, Is
<1> QED BY <1>1, <1>3

LEMMA BeforeGrows ==
  ASSUME NEW took \in Seq(Cmds), NEW c \in Cmds, NEW longer, longer = Append(took, c)
  PROVE  /\ \A a, b : Before(took, a, b) => Before(longer, a, b)
         /\ \A a : Before(took, a, a) => Before(longer, a, c)
         /\ Before(longer, c, c)
<1>1. /\ DOMAIN took = 1..Len(took) /\ DOMAIN longer = 1..(Len(took) + 1) /\ Len(took) \in Nat
      /\ longer[Len(took) + 1] = c /\ \A i \in 1..Len(took) : longer[i] = took[i]
  BY AppendProperties, LenProperties
<1> QED BY <1>1 DEF Before

LEMMA LinePush ==
  ASSUME Line, ArriveInOrder, Typed, Custody, NEW c \in Cmds, Push(c)
  PROVE  Line' /\ ArriveInOrder'
<1>t. TypeOK /\ queue \in Seq(Cmds) /\ pushed \in Seq(Cmds) /\ room \in Seq(Cmds \X (1..2) \X BOOLEAN) /\ Is("queue")
  BY DEF Typed, TypeOK, Push
<1>b. Becomes(c, "queued", cmd[c].on, cmd[c].chunk) /\ cmd[c].at = "pushing"
  BY <1>t, PushBecomes DEF Push, At
<1>u. UNCHANGED <<scenario, room>> /\ queue' = Append(queue, c) /\ pushed' = Append(pushed, c)
  BY DEF Push
<1>g. /\ \A a, b : Before(pushed, a, b) => Before(pushed', a, b)
      /\ \A a : Before(pushed, a, a) => Before(pushed', a, c)
      /\ Before(pushed', c, c)
  BY <1>t, <1>u, BeforeGrows
<1>1. /\ DOMAIN queue' = 1..(Len(queue) + 1) /\ DOMAIN queue = 1..Len(queue)
      /\ queue'[Len(queue) + 1] = c /\ \A i \in 1..Len(queue) : queue'[i] = queue[i]
      /\ Len(queue) \in Nat
  BY <1>t, <1>u, AppendProperties, LenProperties
<1>2. \A d \in Cmds : /\ Held(d)' <=> Held(d)
                      /\ At(d, "queued")' <=> At(d, "queued") \/ d = c
                      /\ InLoop(d)' <=> InLoop(d) \/ d = c
                      /\ Arrived(d)' <=> Arrived(d)
  BY <1>b, <1>u DEF Held, At, InLoop, Arrived, Becomes
<1>3. \A i \in DOMAIN queue : queue[i] \in Cmds /\ InLoop(queue[i])
  BY <1>t DEF Custody, QueuedHere, InLoop
<1>4. \A i, j \in DOMAIN queue' : i <= j => Before(pushed', queue'[i], queue'[j])
  <2> SUFFICES ASSUME NEW i \in DOMAIN queue', NEW j \in DOMAIN queue', i <= j
               PROVE  Before(pushed', queue'[i], queue'[j])
    OBVIOUS
  <2>1. CASE j = Len(queue) + 1 /\ i \in DOMAIN queue
    <3>1. Before(pushed, queue[i], queue[i])
      BY <2>1, <1>3, <1>t DEF Line
    <3> QED BY <3>1, <2>1, <1>1, <1>g
  <2>2. CASE j = Len(queue) + 1 /\ i = j
    BY <2>2, <1>1, <1>g
  <2>3. CASE j \in DOMAIN queue
    <3>1. i \in DOMAIN queue /\ Before(pushed, queue[i], queue[j])
      BY <2>3, <1>1, <1>t DEF Line
    <3> QED BY <3>1, <2>3, <1>1, <1>g
  <2> QED BY <2>1, <2>2, <2>3, <1>1
<1>5. Line'
  <2>1. \A d \in Cmds : InLoop(d)' \/ Arrived(d)' => Before(pushed', d, d)
    BY <1>2, <1>g, <1>t DEF Line
  <2>2. \A a, d \in Cmds : Arrived(a)' /\ InLoop(d)' => Before(pushed', a, d)
    BY <1>2, <1>g, <1>t DEF Line
  <2>3. \A a, d \in Cmds : Held(a)' /\ At(d, "queued")' => Before(pushed', a, d)
    <3>1. \A a \in Cmds : Held(a) => Before(pushed, a, a)
      BY <1>t DEF Line, InLoop
    <3> QED BY <3>1, <1>2, <1>g, <1>t DEF Line
  <2> QED BY <2>1, <2>2, <2>3, <1>4 DEF Line
<1>6. ArriveInOrder'
  <2>1. \A i, j \in DOMAIN room : i < j => Before(pushed, room[i][1], room[j][1])
    BY <1>t DEF ArriveInOrder, Before
  <2>2. \A i, j \in DOMAIN room' : i < j => Before(pushed', room'[i][1], room'[j][1])
    BY <2>1, <1>u, <1>g
  <2> QED BY <2>2 DEF ArriveInOrder, Before
<1> QED BY <1>5, <1>6

LEMMA LineTakes ==
  ASSUME Line, ArriveInOrder, Typed, Custody, Execute
  PROVE  Line' /\ ArriveInOrder'
<1>t. TypeOK /\ queue \in Seq(Cmds) /\ Is("queue") /\ Running = {}
  BY DEF Typed, TypeOK, Execute
<1>u. UNCHANGED <<scenario, pushed, room>>
  BY DEF Execute
<1>b. PICK c \in Cmds, p \in {"running", "done"}, on, chunk \in Nat : c = Mine /\ Becomes(c, p, on, chunk)
  BY ExecuteBecomes
<1>1. CASE c = carry
  <2>1. Held(c) /\ queue' = queue
    BY <1>1, <1>b DEF Execute, Held, Custody, CarriedHere, At
  <2>2. \A d \in Cmds : (Held(d)' => Held(d)) /\ (At(d, "queued")' => At(d, "queued"))
    BY <2>1, <1>b DEF Held, At, Becomes
  <2> QED BY <2>1, <2>2, <1>u, LineKeeps
<1>2. CASE c # carry
  <2>1. carry = None /\ queue # <<>> /\ c = queue[1] /\ queue' = Tail(queue)
    BY <1>2, <1>b, <1>t, MineIs DEF Execute
  <2>2. /\ DOMAIN queue = 1..Len(queue) /\ Len(queue) \in Nat \ {0} /\ DOMAIN queue' = 1..(Len(queue) - 1)
        /\ \A i \in DOMAIN queue' : queue'[i] = queue[i + 1] /\ i + 1 \in DOMAIN queue
    BY <2>1, <1>t, TailOf
  <2>3. At(c, "queued") /\ \A d \in Cmds : ~Held(d)
    <3>1. 1 \in DOMAIN queue
      BY <2>2
    <3> QED BY <3>1, <2>1, <1>t, TransportAssumption
            DEF Custody, QueuedHere, CarriedHere, Held, Running, At, TransportAssumption
  <2>4. \A d \in Cmds : /\ Held(d)' => d = c
                        /\ At(d, "queued")' => At(d, "queued")
                        /\ InLoop(d)' => InLoop(d)
                        /\ Arrived(d)' <=> Arrived(d)
    BY <2>3, <1>b, <1>u DEF Held, At, InLoop, Arrived, Becomes
  <2>5. \A d \in Cmds : At(d, "queued") => Before(pushed, c, d)
    <3> SUFFICES ASSUME NEW d \in Cmds, At(d, "queued") PROVE Before(pushed, c, d)
      OBVIOUS
    <3>1. PICK j \in DOMAIN queue : queue[j] = d
      BY DEF Custody, QueuedHere
    <3>2. 1 \in DOMAIN queue /\ 1 <= j
      BY <2>2
    <3> QED BY <3>1, <3>2, <2>1, <1>t DEF Line
  <2>6. \A i, j \in DOMAIN queue' : i <= j => Before(pushed, queue'[i], queue'[j])
    <3> SUFFICES ASSUME NEW i \in DOMAIN queue', NEW j \in DOMAIN queue', i <= j
                 PROVE  Before(pushed, queue'[i], queue'[j])
      OBVIOUS
    <3>1. i + 1 \in DOMAIN queue /\ j + 1 \in DOMAIN queue /\ i + 1 <= j + 1
      BY <2>2
    <3>2. Before(pushed, queue[i + 1], queue[j + 1])
      BY <3>1, <1>t DEF Line
    <3> QED BY <3>2, <2>2
  <2>7. Line'
    BY <2>4, <2>5, <2>6, <1>t, <1>u DEF Line
  <2>8. ArriveInOrder'
    BY <1>u DEF ArriveInOrder, Is
  <2> QED BY <2>7, <2>8
<1> QED BY <1>1, <1>2

\* A chunk arrives from the command that runs.
LEMMA LineArrives ==
  ASSUME Line, ArriveInOrder, Typed, Custody, Is("queue"), NEW c \in Cmds, At(c, "running"),
         NEW p \in {"running", "done"}, NEW on, NEW chunk, Becomes(c, p, on, chunk),
         NEW k \in 1..2, NEW h \in BOOLEAN, room' = Append(room, <<c, k, h>>),
         UNCHANGED <<scenario, queue, pushed>>
  PROVE  Line' /\ ArriveInOrder'
<1>t. room \in Seq(Cmds \X (1..2) \X BOOLEAN) /\ <<c, k, h>> \in Cmds \X (1..2) \X BOOLEAN
  BY DEF Typed, TypeOK
<1>1. /\ DOMAIN room' = 1..(Len(room) + 1) /\ DOMAIN room = 1..Len(room) /\ Len(room) \in Nat
      /\ room'[Len(room) + 1] = <<c, k, h>> /\ \A i \in 1..Len(room) : room'[i] = room[i]
  BY <1>t, AppendProperties, LenProperties
<1>2. \A d \in Cmds : InLoop(d) => d = c \/ At(d, "queued")
  BY TransportAssumption
     DEF InLoop, Held, Custody, OneAtATime, CarriedHere, Running, At, TransportAssumption
<1>3. Held(c) /\ InLoop(c)
  BY DEF Held, InLoop, At
<1>4. \A d \in Cmds : /\ Held(d)' => Held(d)
                      /\ At(d, "queued")' => At(d, "queued")
                      /\ InLoop(d)' => InLoop(d)
  BY <1>3 DEF Held, At, InLoop, Becomes
<1>5. \A d \in Cmds : Arrived(d)' => Arrived(d) \/ d = c
  BY <1>1 DEF Arrived
<1>6. Line'
  <2>1. \A d \in Cmds : InLoop(d)' \/ Arrived(d)' => Before(pushed, d, d)
    BY <1>3, <1>4, <1>5 DEF Line
  <2>2. \A a, d \in Cmds : Arrived(a)' /\ InLoop(d)' => Before(pushed, a, d)
    <3>1. \A d \in Cmds : InLoop(d) => Before(pushed, c, d)
      BY <1>2, <1>3 DEF Line
    <3> QED BY <3>1, <1>4, <1>5 DEF Line
  <2> QED BY <2>1, <2>2, <1>4 DEF Line, Is
<1>7. \A i, j \in DOMAIN room' : i < j => Before(pushed, room'[i][1], room'[j][1])
  <2> SUFFICES ASSUME NEW i \in DOMAIN room', NEW j \in DOMAIN room', i < j
               PROVE  Before(pushed, room'[i][1], room'[j][1])
    OBVIOUS
  <2>1. CASE j \in DOMAIN room
    <3>1. i \in DOMAIN room
      BY <2>1, <1>1
    <3> QED BY <2>1, <3>1, <1>1 DEF ArriveInOrder, Before
  <2>2. CASE j = Len(room) + 1
    <3>1. i \in DOMAIN room /\ room[i][1] \in Cmds
      BY <2>2, <1>1, <1>t
    <3>2. Arrived(room[i][1])
      BY <3>1 DEF Arrived
    <3>3. Before(pushed, room[i][1], c)
      BY <3>1, <3>2, <1>3 DEF Line
    <3> QED BY <3>1, <3>3, <2>2, <1>1
  <2> QED BY <2>1, <2>2, <1>1
<1>8. ArriveInOrder'
  BY <1>7 DEF ArriveInOrder, Before
<1> QED BY <1>6, <1>8

LEMMA LineRuns ==
  ASSUME Line, ArriveInOrder, Typed, Custody, NEW c \in Cmds,
         Send(c) \/ Retries(c) \/ Fails(c) \/ TimesOut(c), Is("queue")
  PROVE  Line' /\ ArriveInOrder'
<1>t. TypeOK /\ cmd[c].chunk \in 1..2 /\ cmd[c].chunk \in 1..Chunks(c)
  BY DEF Typed, TypeOK, InChunks
<1>u. At(c, "running") /\ UNCHANGED <<scenario, queue, pushed>>
      /\ (room' = room \/ \E h \in BOOLEAN : room' = Append(room, <<c, cmd[c].chunk, h>>))
  BY DEF Send, Retries, Fails, TimesOut, Unanswered, Arrives
<1>b. \E p \in {"running", "done"}, on, chunk \in Nat : Becomes(c, p, on, chunk)
  <2>n. Over.on \in Nat /\ Over.chunk \in Nat /\ cmd[c].on \in Nat /\ cmd[c].chunk + 1 \in Nat
        /\ cmd[c].chunk \in Nat
    BY <1>t, Known, TransportAssumption DEF Over, New, Records, TransportAssumption
  <2>1. CASE Send(c) /\ cmd[c].chunk # Chunks(c)
    BY <2>1, <2>n, <1>t, SendBecomes
  <2>2. CASE Send(c) /\ cmd[c].chunk = Chunks(c)
    BY <2>2, <2>n, <1>t, EndsBecomes DEF Send, Told
  <2>3. CASE Fails(c) \/ TimesOut(c)
    BY <2>3, <2>n, <1>t, EndsBecomes DEF Fails, TimesOut, Told
  <2>4. CASE Retries(c)
    BY <2>4, <2>n, <1>t, RetriesBecomes
  <2> QED BY <2>1, <2>2, <2>3, <2>4
<1>p. PICK p \in {"running", "done"}, on, chunk \in Nat : Becomes(c, p, on, chunk)
  BY <1>b
<1>1. CASE room' = room
  <2>1. \A d \in Cmds : (Held(d)' => Held(d)) /\ (At(d, "queued")' => At(d, "queued"))
    BY <1>p, <1>u DEF Held, At, Becomes
  <2> QED BY <2>1, <1>1, <1>u, LineKeeps
<1>2. ASSUME NEW h \in BOOLEAN, room' = Append(room, <<c, cmd[c].chunk, h>>) PROVE Line' /\ ArriveInOrder'
  BY <1>2, <1>t, <1>u, <1>p, LineArrives
<1> QED BY <1>1, <1>2, <1>u

LEMMA LineNext == Line /\ ArriveInOrder /\ Typed /\ Custody /\ [Next]_vars => Line' /\ ArriveInOrder'
<1> SUFFICES ASSUME Line, ArriveInOrder, Typed, Custody, [Next]_vars PROVE Line' /\ ArriveInOrder'
  OBVIOUS
<1>t. TypeOK
  BY DEF Typed
<1>1. CASE UNCHANGED <<scenario, pushed, room, cmd, queue>>
  BY <1>1, LineKeeps DEF Held, At
<1>2. CASE Turns \/ UNCHANGED vars \/ \E c \in Cmds : GivesUp(c)
  BY <1>1, <1>2 DEF Turns, Connect, CycleEnds, TokenDies, Attach, AskDetach, Detach, GivesUp, vars
<1>3. CASE Execute
  BY <1>3, LineTakes
<1>4. CASE Shutdown \/ Fatal
  <2>1. PICK outcome, rest \in {"shutdown", "dropped", "gone"} : Stops(outcome, rest)
    BY <1>4, <1>t, StopsEffect
  <2>2. \A d \in Cmds : cmd'[d] = Over \/ cmd'[d] = cmd[d]
    BY <2>1 DEF Stops
  <2>3. \A d \in Cmds : (Held(d)' => Held(d)) /\ (At(d, "queued")' => At(d, "queued"))
    BY <2>2, FreshTyped DEF Held, At
  <2>4. DOMAIN queue' = {} /\ UNCHANGED <<scenario, pushed, room>>
    BY <2>1 DEF Stops
  <2> QED BY <2>3, <2>4, LineKeeps
<1>5. ASSUME NEW c \in Cmds, Call(c) \/ PushFails(c) \/ Passes(c) \/ (Rejected(c) /\ Is("queue"))
      PROVE  Line' /\ ArriveInOrder'
  <2>1. UNCHANGED <<scenario, queue, pushed, room>>
    BY <1>5 DEF Call, PushFails, Passes, Rejected, Carries, Is
  <2>2. CASE Call(c)
    <3>1. \A d \in Cmds : (Held(d)' => Held(d)) /\ (At(d, "queued")' => At(d, "queued"))
      BY <2>2, <1>t, CallBecomes DEF Held, At, Becomes
    <3> QED BY <3>1, <2>1, LineKeeps
  <2>3. CASE PushFails(c)
    <3>1. \A d \in Cmds : (Held(d)' => Held(d)) /\ (At(d, "queued")' => At(d, "queued"))
      BY <2>3, <1>t, EndsBecomes DEF PushFails, Told, Held, At, Becomes
    <3> QED BY <3>1, <2>1, LineKeeps
  <2>4. CASE Passes(c)
    <3>1. \A d \in Cmds : (Held(d)' => Held(d)) /\ (At(d, "queued")' => At(d, "queued"))
      BY <2>4, <1>t, PassesBecomes DEF Held, At, Becomes
    <3> QED BY <3>1, <2>1, LineKeeps
  <2>5. CASE Rejected(c) /\ Is("queue")
    <3>1. \A d \in Cmds : (Held(d)' => Held(d)) /\ (At(d, "queued")' => At(d, "queued"))
      BY <2>5, <1>t, CarriesBecomes DEF Rejected, Is, Held, At, Becomes
    <3> QED BY <3>1, <2>1, LineKeeps
  <2> QED BY <1>5, <2>2, <2>3, <2>4, <2>5
<1>6. CASE ~Is("queue") /\ scenario' = scenario
  BY <1>6 DEF Line, ArriveInOrder, Is
<1>7. ASSUME NEW c \in Cmds, Send(c) \/ Retries(c) \/ Fails(c) \/ TimesOut(c)
      PROVE  Line' /\ ArriveInOrder'
  BY <1>6, <1>7, LineRuns DEF Send, Retries, Fails, TimesOut
<1>9. ASSUME NEW c \in Cmds, Rejected(c) PROVE Line' /\ ArriveInOrder'
  BY <1>5, <1>6, <1>9 DEF Rejected
<1>8. ASSUME NEW c \in Cmds, LiveCall(c) PROVE Line' /\ ArriveInOrder'
  BY <1>6, <1>8 DEF LiveCall, Is
<1> QED BY <1>2, <1>3, <1>4, <1>5, <1>7, <1>8, <1>9, LinePush DEF Next, Turns

\* The daemon's sends arrive in the order the channel took them, whatever is rejected, carried
\* or given up in between (matrix.rs: the carried command comes before the queue).
THEOREM SendsInOrder == Spec => []ArriveInOrder
<1>1. Init => Line /\ ArriveInOrder
  BY LineInit
<1> QED BY <1>1, LineNext, CustodyInvariant, PTL DEF Spec

-----------------------------------------------------------------------------
(* What the callers are told *)

\* Before a command is done nobody heard of its arrival in full, and its caller was told
\* nothing, or has given up.
Unfinished == \A c \in Cmds : ~At(c, "done") => Unheard(c) = Whole(c) /\ told[c] \in {"none", "unknown"}

\* A step that delivers nothing in full.
Tells ==
  /\ told' \in [Cmds -> Told]
  /\ \A c \in Cmds :
       /\ Whole(c)' = Whole(c) /\ Unheard(c)' = Unheard(c)
       /\ ~At(c, "done")' => ~At(c, "done") /\ told'[c] \in {told[c], "unknown"}
       /\ told'[c] # told[c] => told[c] = "none" /\ told'[c] # "sent" /\ ~At(c, "done")

\* A request that is not answered tells the caller nothing, or that the send is over.
Unsure(c) ==
  \/ told' = told
  \/ /\ told[c] = "none" /\ At(c, "done")'
     /\ \E o \in {"failed", "unknown"} : told' = [told EXCEPT ![c] = o]

\* The last chunk of a command arrives; once that is acknowledged the command is done.
Delivers(c, heard) ==
  /\ ~At(c, "done") /\ told' \in [Cmds -> Told]
  /\ Whole(c)' = Whole(c) \cup {Len(room) + 1}
  /\ IF heard
     THEN /\ Unheard(c)' = Unheard(c) /\ At(c, "done")'
          /\ told' = [told EXCEPT ![c] = IF @ = "none" THEN "sent" ELSE @]
     ELSE Unheard(c)' = Unheard(c) \cup {Len(room) + 1} /\ Unsure(c)
  /\ \A d \in Cmds : d # c => Whole(d)' = Whole(d) /\ Unheard(d)' = Unheard(d) /\ cmd'[d] = cmd[d]

LEMMA UnfinishedInit == Init => Unfinished
BY DEF Init, Unfinished, Whole, Unheard

LEMMA UnfinishedStep ==
  ASSUME Unfinished, TypeOK, Tells \/ \E c \in Cmds, h \in BOOLEAN : Delivers(c, h)
  PROVE  Unfinished'
<1>1. CASE Tells
  BY <1>1 DEF Unfinished, Tells
<1>2. ASSUME NEW c \in Cmds, NEW h \in BOOLEAN, Delivers(c, h) PROVE Unfinished'
  <2>1. \A d \in Cmds : d # c => told'[d] = told[d]
    BY <1>2 DEF Delivers, Unsure, TypeOK
  <2>2. ~At(c, "done")' => Unheard(c)' = Whole(c)' /\ told'[c] = told[c]
    BY <1>2 DEF Delivers, Unsure, Unfinished
  <2> QED BY <1>2, <2>1, <2>2 DEF Unfinished, Delivers, At
<1> QED BY <1>1, <1>2

\* The words of SendPromise.
LEMMA Words ==
  \A o \in Told : /\ Word(o) \in Promise!Outcome
                  /\ Word(o) = "none" <=> o = "none"
                  /\ Word(o) = "sent" <=> o = "sent"
                  /\ Word(o) = "not_sent" <=> o \in Unsent
BY DEF Told, Word, Unsent, Promise!Outcome

\* What SendPromise sees.
Answers == [c \in Cmds |-> Word(told[c])]
Copies == [c \in Cmds |-> Cardinality(Whole(c))]
Lost == [c \in Cmds |-> Cardinality(Unheard(c))]

LEMMA PromiseTells ==
  ASSUME Unfinished, TypeOK, Tells
  PROVE  Promise!Next
<1>1. Copies' = Copies /\ Lost' = Lost
  BY DEF Tells, Copies, Lost
<1>2. Answers' = [c \in Cmds |-> Word(told'[c])]
  BY DEF Answers
<1>3. Answers' \in [Cmds -> Promise!Outcome]
  BY <1>2, Words DEF Tells
<1>4. ASSUME NEW c \in Cmds, Answers'[c] # Answers[c]
      PROVE  Answers[c] = "none" /\ Answers'[c] # "sent" /\ Copies[c] = Lost[c]
  <2>1. told[c] \in Told /\ told'[c] \in Told /\ told'[c] # told[c]
    BY <1>2, <1>4 DEF TypeOK, Tells, Answers
  <2>2. told[c] = "none" /\ told'[c] # "sent" /\ Whole(c) = Unheard(c)
    BY <2>1 DEF Tells, Unfinished
  <2> QED BY <1>2, <2>1, <2>2, Words DEF Answers, Copies, Lost
<1>5. Promise!Tell
  BY <1>1, <1>3, <1>4 DEF Promise!Tell, Promise!Acknowledged, Answers, Copies, Lost
<1> QED BY <1>5 DEF Promise!Next

\* The deliveries of a send are finitely many.
LEMMA Finite ==
  ASSUME TypeOK, NEW c \in Cmds
  PROVE  /\ IsFiniteSet(Whole(c)) /\ IsFiniteSet(Unheard(c))
         /\ Len(room) + 1 \notin Whole(c) /\ Len(room) + 1 \notin Unheard(c)
         /\ Cardinality(Whole(c)) \in Nat /\ Cardinality(Unheard(c)) \in Nat
<1>1. DOMAIN room = 1..Len(room) /\ Len(room) \in Nat
  BY DEF TypeOK
<1>2. Whole(c) \subseteq 1..Len(room) /\ Unheard(c) \subseteq 1..Len(room)
  BY <1>1 DEF Whole, Unheard
<1>3. IsFiniteSet(1..Len(room))
  BY <1>1, FS_Interval
<1>4. IsFiniteSet(Whole(c)) /\ IsFiniteSet(Unheard(c))
  BY <1>2, <1>3, FS_Subset
<1>5. Len(room) + 1 \notin Whole(c) /\ Len(room) + 1 \notin Unheard(c)
  BY <1>1, <1>2
<1> QED BY <1>4, <1>5, FS_CardinalityType

\* One member of a function of Cmds goes up by one.
LEMMA Counted ==
  ASSUME NEW F, NEW G, NEW c \in Cmds, F = [d \in Cmds |-> F[d]], G = [d \in Cmds |-> G[d]],
         G[c] = F[c] + 1, \A d \in Cmds : d # c => G[d] = F[d]
  PROVE  G = [F EXCEPT ![c] = @ + 1]
OBVIOUS

LEMMA PromiseDelivers ==
  ASSUME Unfinished, TypeOK, NEW c \in Cmds, NEW h \in BOOLEAN, Delivers(c, h)
  PROVE  Promise!Next
<1>1. Whole(c) = Unheard(c) /\ told[c] \in {"none", "unknown"}
  BY DEF Unfinished, Delivers
<1>2. Copies[c] = Lost[c] /\ Answers[c] # "not_sent"
  BY <1>1 DEF Copies, Lost, Answers, Word, Unsent
<1>p. /\ Copies' = [d \in Cmds |-> Cardinality(Whole(d)')]
      /\ Lost' = [d \in Cmds |-> Cardinality(Unheard(d)')]
      /\ Answers' = [d \in Cmds |-> Word(told'[d])]
  BY DEF Copies, Lost, Answers
<1>3. Copies' = [Copies EXCEPT ![c] = @ + 1]
  <2>1. Cardinality(Whole(c)') = Cardinality(Whole(c)) + 1
    BY Finite, FS_AddElement DEF Delivers
  <2>2. \A d \in Cmds : d # c => Cardinality(Whole(d)') = Cardinality(Whole(d))
    BY DEF Delivers
  <2> QED BY <2>1, <2>2, <1>p, Counted DEF Copies
<1>4. CASE h
  <2>1. Lost' = Lost
    <3>1. \A d \in Cmds : Cardinality(Unheard(d)') = Cardinality(Unheard(d))
      BY <1>4 DEF Delivers
    <3> QED BY <3>1, <1>p DEF Lost
  <2>2. Answers' = [Answers EXCEPT ![c] = IF @ = "none" THEN "sent" ELSE @]
    <3>1. told' = [told EXCEPT ![c] = IF @ = "none" THEN "sent" ELSE @]
      BY <1>4 DEF Delivers
    <3>2. \A d \in Cmds : Word(told'[d]) =
            IF d = c THEN (IF Word(told[c]) = "none" THEN "sent" ELSE Word(told[c])) ELSE Word(told[d])
      BY <3>1, <1>1 DEF TypeOK, Word, Unsent
    <3> QED BY <3>2, <1>p DEF Answers
  <2>3. Promise!Deliver(c)
    BY <1>2, <1>3, <2>1, <2>2 DEF Promise!Deliver, Promise!Acknowledged, Answers, Copies, Lost
  <2> QED BY <2>3 DEF Promise!Next
<1>5. CASE ~h
  <2>1. Lost' = [Lost EXCEPT ![c] = @ + 1]
    <3>1. Cardinality(Unheard(c)') = Cardinality(Unheard(c)) + 1
      BY <1>5, Finite, FS_AddElement DEF Delivers
    <3>2. \A d \in Cmds : d # c => Cardinality(Unheard(d)') = Cardinality(Unheard(d))
      BY DEF Delivers
    <3> QED BY <3>1, <3>2, <1>p, Counted DEF Lost
  <2>2. Answers' = Answers \/ (Answers[c] = "none" /\ Answers' = [Answers EXCEPT ![c] = "unknown"])
    <3>1. CASE told' = told
      BY <3>1, <1>p DEF Answers
    <3>2. ASSUME NEW o \in {"failed", "unknown"}, told[c] = "none", told' = [told EXCEPT ![c] = o]
          PROVE  Answers[c] = "none" /\ Answers' = [Answers EXCEPT ![c] = "unknown"]
      <4>1. \A d \in Cmds : Word(told'[d]) = IF d = c THEN "unknown" ELSE Word(told[d])
        BY <3>2 DEF TypeOK, Word, Unsent
      <4> QED BY <4>1, <3>2, <1>p DEF Answers, Word, Unsent
    <3> QED BY <3>1, <3>2, <1>5 DEF Delivers, Unsure
  <2>3. Promise!Deliver(c)
    BY <1>2, <1>3, <2>1, <2>2 DEF Promise!Deliver, Promise!Acknowledged, Answers, Copies, Lost
  <2> QED BY <2>3 DEF Promise!Next
<1> QED BY <1>4, <1>5

\* A step that leaves the room alone.
LEMMA WholeStays ==
  ASSUME room' = room, scenario' = scenario
  PROVE  \A c \in Cmds : Whole(c)' = Whole(c) /\ Unheard(c)' = Unheard(c)
BY DEF Whole, Unheard, Chunks

LEMMA WholeGrows ==
  ASSUME Typed, NEW c \in Cmds, NEW k \in 1..2, NEW h \in BOOLEAN, room' = Append(room, <<c, k, h>>),
         scenario' = scenario
  PROVE  \A d \in Cmds :
           IF d = c /\ k = Chunks(c)
           THEN /\ Whole(d)' = Whole(d) \cup {Len(room) + 1}
                /\ Unheard(d)' = IF h THEN Unheard(d) ELSE Unheard(d) \cup {Len(room) + 1}
           ELSE Whole(d)' = Whole(d) /\ Unheard(d)' = Unheard(d)
<1>t. room \in Seq(Cmds \X (1..2) \X BOOLEAN) /\ <<c, k, h>> \in Cmds \X (1..2) \X BOOLEAN
  BY DEF Typed, TypeOK
<1>1. /\ DOMAIN room' = 1..(Len(room) + 1) /\ DOMAIN room = 1..Len(room) /\ Len(room) \in Nat
      /\ room'[Len(room) + 1] = <<c, k, h>> /\ \A i \in 1..Len(room) : room'[i] = room[i]
  BY <1>t, AppendProperties, LenProperties
<1> DEFINE n == Len(room) + 1
<1>2. room'[n][1] = c /\ room'[n][2] = k /\ room'[n][3] = h /\ n \notin 1..Len(room)
      /\ DOMAIN room' = 1..Len(room) \cup {n}
  BY <1>1
<1> SUFFICES ASSUME NEW d \in Cmds
             PROVE  IF d = c /\ k = Chunks(c)
                    THEN /\ Whole(d)' = Whole(d) \cup {n}
                         /\ Unheard(d)' = IF h THEN Unheard(d) ELSE Unheard(d) \cup {n}
                    ELSE Whole(d)' = Whole(d) /\ Unheard(d)' = Unheard(d)
  OBVIOUS
<1>3. Chunks(d)' = Chunks(d)
  BY DEF Chunks
<1>4. /\ Whole(d)' = {i \in 1..Len(room) \cup {n} : room'[i][1] = d /\ room'[i][2] = Chunks(d)}
      /\ Whole(d) = {i \in 1..Len(room) : room[i][1] = d /\ room[i][2] = Chunks(d)}
  BY <1>1, <1>2, <1>3 DEF Whole
<1>5. /\ Unheard(d)' = {i \in Whole(d)' : ~room'[i][3]}
      /\ Unheard(d) = {i \in Whole(d) : ~room[i][3]}
  BY DEF Unheard
<1> HIDE DEF n
<1>6. Whole(d)' = IF d = c /\ k = Chunks(c) THEN Whole(d) \cup {n} ELSE Whole(d)
  BY <1>1, <1>2, <1>4
<1>7. Whole(d) \subseteq 1..Len(room)
  BY <1>4
<1>8. Unheard(d)' = IF d = c /\ k = Chunks(c) /\ ~h THEN Unheard(d) \cup {n} ELSE Unheard(d)
  BY <1>1, <1>2, <1>5, <1>6, <1>7
<1> QED BY <1>6, <1>8

\* What a step of each kind tells and delivers.
LEMMA TellsOrDelivers ==
  ASSUME Typed, Custody, Next
  PROVE  Tells \/ \E c \in Cmds, h \in BOOLEAN : Delivers(c, h)
<1>t. TypeOK /\ told \in [Cmds -> Told] /\ InChunks
  BY DEF Typed, TypeOK
<1>1. ASSUME UNCHANGED <<scenario, room, cmd, told>> PROVE Tells
  BY <1>1, <1>t, WholeStays DEF Tells, At
<1>2. CASE Turns
  BY <1>1, <1>2 DEF Turns, Connect, CycleEnds, TokenDies, Attach, AskDetach, Detach
<1>3. ASSUME NEW c \in Cmds, GivesUp(c) PROVE Tells
  <2>1. told' = [told EXCEPT ![c] = "unknown"] /\ told[c] = "none" /\ UNCHANGED <<scenario, room, cmd>>
    BY <1>3, <1>t DEF GivesUp, Reply
  <2>2. told' \in [Cmds -> Told]
    BY <2>1, <1>t DEF Told
  <2>3. ~At(c, "done")
    BY <1>3 DEF GivesUp, At
  <2>4. \A d \in Cmds : told'[d] = IF d = c THEN "unknown" ELSE told[d]
    BY <2>1, <1>t
  <2>5. \A d \in Cmds : At(d, "done")' <=> At(d, "done")
    BY <2>1 DEF At
  <2> QED BY <2>1, <2>2, <2>3, <2>4, <2>5, WholeStays DEF Tells
<1>4. ASSUME NEW c \in Cmds, NEW p, NEW on, NEW chunk, Becomes(c, p, on, chunk),
             UNCHANGED <<scenario, room, told>>, ~At(c, "done")
      PROVE  Tells
  <2>1. \A d \in Cmds : ~At(d, "done")' => ~At(d, "done")
    BY <1>4 DEF At, Becomes
  <2> QED BY <2>1, <1>4, <1>t, WholeStays DEF Tells
<1>5. ASSUME NEW c \in Cmds, NEW outcome \in Told \ {"none", "sent"}, Ends(c, outcome), ~At(c, "done"),
             \A d \in Cmds : Whole(d)' = Whole(d) /\ Unheard(d)' = Unheard(d)
      PROVE  Tells
  <2>1. Becomes(c, "done", Over.on, Over.chunk)
    BY <1>5, <1>t, EndsBecomes
  <2>2. /\ told' \in [Cmds -> Told]
        /\ \A d \in Cmds : d # c => told'[d] = told[d]
        /\ told'[c] = IF told[c] = "none" THEN outcome ELSE told[c]
    BY <1>5, <1>t, EndsTyped
  <2>3. \A d \in Cmds : ~At(d, "done")' => ~At(d, "done") /\ told'[d] = told[d]
    BY <2>1, <2>2 DEF At, Becomes
  <2>4. \A d \in Cmds : told'[d] # told[d] => d = c /\ told[d] = "none" /\ told'[d] = outcome
    BY <2>2
  <2> QED BY <2>2, <2>3, <2>4, <1>5 DEF Tells
<1>6. ASSUME NEW c \in Cmds, NEW outcome \in {"failed", "unknown"}, Ends(c, outcome), ~At(c, "done"),
             scenario' = scenario, room' = Append(room, <<c, cmd[c].chunk, FALSE>>), cmd[c].chunk = Chunks(c)
      PROVE  Delivers(c, FALSE)
  <2>1. Becomes(c, "done", Over.on, Over.chunk)
    BY <1>6, <1>t, EndsBecomes DEF Told
  <2>2. told' \in [Cmds -> Told]
    BY <1>6, <1>t, EndsTyped DEF Told
  <2>3. Unsure(c)
    <3>1. told' = [told EXCEPT ![c] = IF @ = "none" THEN outcome ELSE @]
      BY <1>6 DEF Ends, Reply
    <3>2. CASE told[c] = "none"
      BY <3>1, <3>2, <2>1 DEF Unsure, At, Becomes
    <3>3. CASE told[c] # "none"
      BY <3>1, <3>3, <1>t DEF Unsure
    <3> QED BY <3>2, <3>3
  <2>4. cmd[c].chunk \in 1..2
    BY <1>t DEF TypeOK
  <2>5. /\ Whole(c)' = Whole(c) \cup {Len(room) + 1} /\ Unheard(c)' = Unheard(c) \cup {Len(room) + 1}
        /\ \A d \in Cmds : d # c => Whole(d)' = Whole(d) /\ Unheard(d)' = Unheard(d)
    BY <2>4, <1>6, WholeGrows
  <2> QED BY <2>1, <2>2, <2>3, <2>5, <1>6 DEF Delivers, Becomes
<1>7. CASE Execute
  <2>1. Mine \in Cmds /\ Start(Mine) /\ UNCHANGED <<scenario, room>>
        /\ (Mine = carry \/ (queue # <<>> /\ Mine = queue[1]))
    BY <1>7, <1>t, MineIs DEF Execute
  <2>2. ~At(Mine, "done")
    <3>1. CASE Mine = carry
      BY <3>1, <2>1 DEF Custody, CarriedHere, At
    <3>2. CASE queue # <<>> /\ Mine = queue[1]
      <4>1. 1 \in DOMAIN queue
        BY <3>2, <1>t, TailOf DEF TypeOK
      <4> QED BY <4>1, <3>2, <2>1 DEF Custody, QueuedHere, At
    <3> QED BY <2>1, <3>1, <3>2
  <2>3. \A d \in Cmds : Whole(d)' = Whole(d) /\ Unheard(d)' = Unheard(d)
    BY <2>1, WholeStays
  <2>4. CASE cmd[Mine].late
    <3>1. Ends(Mine, "deadline") /\ "deadline" \in Told \ {"none", "sent"}
      BY <2>1, <2>4 DEF Start, Told
    <3> QED BY <3>1, <2>1, <2>2, <2>3, <1>5
  <2>5. CASE ~cmd[Mine].late
    <3>1. Becomes(Mine, "running", client, cmd[Mine].chunk) /\ told' = told
      BY <2>1, <2>5, <1>t, StartsBecomes
    <3> QED BY <3>1, <2>1, <2>2, <1>4
  <2> QED BY <2>4, <2>5
<1>8. CASE Shutdown \/ Fatal
  <2>1. PICK outcome, rest \in {"shutdown", "dropped", "gone"} : Stops(outcome, rest)
    BY <1>8, <1>t, StopsEffect
  <2>2. /\ \A d \in Cmds : told'[d] = IF told[d] # "none" THEN told[d]
                                   ELSE IF d = carry THEN outcome
                                   ELSE IF cmd[d].at = "queued" THEN rest ELSE told[d]
        /\ \A d \in Cmds : cmd'[d] = IF cmd[d].at \in {"queued", "carried"} THEN Over ELSE cmd[d]
        /\ UNCHANGED <<scenario, room>>
    BY <2>1 DEF Stops
  <2>3. told' \in [Cmds -> Told]
    BY <2>1, <1>t DEF Stops, Told
  <2>4. \A d \in Cmds : ~At(d, "done")' => /\ cmd[d].at \notin {"queued", "carried"}
                                          /\ ~At(d, "done")
                                          /\ told'[d] = told[d]
    <3> SUFFICES ASSUME NEW d \in Cmds, ~At(d, "done")'
                 PROVE  cmd[d].at \notin {"queued", "carried"} /\ ~At(d, "done") /\ told'[d] = told[d]
      OBVIOUS
    <3>1. cmd[d].at \notin {"queued", "carried"} /\ ~At(d, "done")
      BY <2>2, FreshTyped DEF At
    <3>2. d # carry
      BY <3>1 DEF Custody, CarriedHere, At
    <3> QED BY <3>1, <3>2, <2>2
  <2>5. \A d \in Cmds : told'[d] # told[d] =>
          /\ told[d] = "none" /\ told'[d] # "sent"
          /\ ~At(d, "done")
    BY <2>2 DEF Custody, CarriedHere, At
  <2> QED BY <2>2, <2>3, <2>4, <2>5, WholeStays DEF Tells
<1>9. ASSUME NEW c \in Cmds, Call(c) \/ Push(c) \/ PushFails(c) \/ Passes(c) \/ Rejected(c) PROVE Tells
  <2>1. UNCHANGED <<scenario, room>> /\ ~At(c, "done")
    BY <1>9 DEF Call, Push, PushFails, Passes, Rejected, At
  <2>2. CASE Call(c)
    BY <2>1, <2>2, <1>4, <1>t, CallBecomes DEF Call
  <2>3. CASE Push(c)
    BY <2>1, <2>3, <1>4, <1>t, PushBecomes DEF Push
  <2>4. CASE PushFails(c)
    <3>1. Ends(c, "not_running") /\ "not_running" \in Told \ {"none", "sent"}
      BY <2>4 DEF PushFails, Told
    <3> QED BY <3>1, <2>1, <1>5, WholeStays
  <2>5. CASE Passes(c)
    BY <2>1, <2>5, <1>4, <1>t, PassesBecomes DEF Passes
  <2>6. CASE Rejected(c) /\ Is("queue")
    BY <2>1, <2>6, <1>4, <1>t, CarriesBecomes DEF Rejected, Is, Carries
  <2>7. CASE Rejected(c) /\ Is("live")
    <3>1. Ends(c, "failed") /\ "failed" \in Told \ {"none", "sent"}
      BY <2>7 DEF Rejected, Is, Told
    <3> QED BY <3>1, <2>1, <1>5, WholeStays
  <2> QED BY <1>9, <2>2, <2>3, <2>4, <2>5, <2>6, <2>7 DEF Rejected
<1>10. ASSUME NEW c \in Cmds, Send(c) PROVE Tells \/ Delivers(c, TRUE)
  <2>1. /\ cmd[c].at = "running" /\ scenario' = scenario /\ ~At(c, "done")
        /\ room' = Append(room, <<c, cmd[c].chunk, TRUE>>)
        /\ cmd[c].chunk \in 1..2 /\ cmd[c].chunk \in 1..Chunks(c)
    BY <1>10, <1>t DEF Send, Arrives, At, TypeOK, InChunks
  <2>2. CASE cmd[c].chunk = Chunks(c)
    <3>1. Ends(c, "sent") /\ "sent" \in Told
      BY <1>10, <2>2 DEF Send, Told
    <3>2. Becomes(c, "done", Over.on, Over.chunk) /\ told' \in [Cmds -> Told]
      BY <3>1, <1>t, EndsBecomes, EndsTyped
    <3>3. told' = [told EXCEPT ![c] = IF @ = "none" THEN "sent" ELSE @]
      BY <3>1 DEF Ends, Reply
    <3>4. /\ Whole(c)' = Whole(c) \cup {Len(room) + 1} /\ Unheard(c)' = Unheard(c)
          /\ \A d \in Cmds : d # c => Whole(d)' = Whole(d) /\ Unheard(d)' = Unheard(d)
      BY <2>1, <2>2, WholeGrows
    <3> QED BY <3>2, <3>3, <3>4, <2>1 DEF Delivers, Becomes, At
  <2>3. CASE cmd[c].chunk # Chunks(c)
    <3>1. Becomes(c, "running", cmd[c].on, cmd[c].chunk + 1) /\ told' = told
      BY <1>10, <2>1, <2>3, <1>t, SendBecomes
    <3>2. \A d \in Cmds : Whole(d)' = Whole(d) /\ Unheard(d)' = Unheard(d)
      BY <2>1, <2>3, WholeGrows
    <3>3. \A d \in Cmds : ~At(d, "done")' => ~At(d, "done")
      BY <3>1, <2>1 DEF At, Becomes
    <3> QED BY <3>1, <3>2, <3>3, <1>t DEF Tells
  <2> QED BY <2>2, <2>3
<1>13. ASSUME NEW c \in Cmds, Retries(c) PROVE Tells \/ Delivers(c, FALSE)
  <2>1. /\ scenario' = scenario /\ ~At(c, "done") /\ told' = told
        /\ room' = room \/ room' = Append(room, <<c, cmd[c].chunk, FALSE>>)
        /\ cmd[c].chunk \in 1..2
    BY <1>13, <1>t DEF Retries, Unanswered, Arrives, At, TypeOK
  <2>2. Becomes(c, "running", cmd[c].on, cmd[c].chunk)
    BY <1>13, <1>t, RetriesBecomes
  <2>3. CASE room' = room
    BY <2>1, <2>2, <2>3, <1>4
  <2>4. CASE room' = Append(room, <<c, cmd[c].chunk, FALSE>>) /\ cmd[c].chunk = Chunks(c)
    <3>1. /\ Whole(c)' = Whole(c) \cup {Len(room) + 1} /\ Unheard(c)' = Unheard(c) \cup {Len(room) + 1}
          /\ \A d \in Cmds : d # c => Whole(d)' = Whole(d) /\ Unheard(d)' = Unheard(d)
      BY <2>1, <2>4, WholeGrows
    <3> QED BY <3>1, <2>1, <2>2, <1>t DEF Delivers, Unsure, Becomes
  <2>5. CASE room' = Append(room, <<c, cmd[c].chunk, FALSE>>) /\ cmd[c].chunk # Chunks(c)
    <3>1. \A d \in Cmds : Whole(d)' = Whole(d) /\ Unheard(d)' = Unheard(d)
      BY <2>1, <2>5, WholeGrows
    <3>2. \A d \in Cmds : ~At(d, "done")' => ~At(d, "done")
      BY <2>1, <2>2 DEF At, Becomes
    <3> QED BY <3>1, <3>2, <2>1, <1>t DEF Tells
  <2> QED BY <2>1, <2>3, <2>4, <2>5
<1>11. ASSUME NEW c \in Cmds, Fails(c) \/ TimesOut(c) PROVE Tells \/ Delivers(c, FALSE)
  <2>1. /\ scenario' = scenario /\ ~At(c, "done")
        /\ room' = room \/ room' = Append(room, <<c, cmd[c].chunk, FALSE>>)
        /\ cmd[c].chunk \in 1..2
    BY <1>11, <1>t DEF Fails, TimesOut, Unanswered, Arrives, At, TypeOK
  <2>o. PICK outcome \in {"failed", "unknown"} : Ends(c, outcome)
    BY <1>11 DEF Fails, TimesOut
  <2>w. outcome \in Told \ {"none", "sent"}
    BY DEF Told
  <2>2. CASE room' = room
    BY <2>1, <2>2, <2>o, <2>w, <1>5, WholeStays
  <2>3. CASE room' = Append(room, <<c, cmd[c].chunk, FALSE>>) /\ cmd[c].chunk = Chunks(c)
    BY <2>1, <2>3, <2>o, <1>6
  <2>4. CASE room' = Append(room, <<c, cmd[c].chunk, FALSE>>) /\ cmd[c].chunk # Chunks(c)
    <3>1. \A d \in Cmds : Whole(d)' = Whole(d) /\ Unheard(d)' = Unheard(d)
      BY <2>1, <2>4, WholeGrows
    <3> QED BY <3>1, <2>1, <2>o, <2>w, <1>5
  <2> QED BY <2>1, <2>2, <2>3, <2>4
<1>12. ASSUME NEW c \in Cmds, LiveCall(c) PROVE Tells
  <2>1. UNCHANGED <<scenario, room>> /\ ~At(c, "done")
    BY <1>12 DEF LiveCall, At
  <2>2. CASE client = 0
    <3>1. Ends(c, "not_connected") /\ "not_connected" \in Told \ {"none", "sent"}
      BY <1>12, <2>2 DEF LiveCall, Told
    <3> QED BY <3>1, <2>1, <1>5, WholeStays
  <2>3. CASE client # 0
    BY <2>1, <2>3, <1>12, <1>4, <1>t, LiveCallBecomes
  <2> QED BY <2>2, <2>3
<1> QED BY <1>2, <1>3, <1>7, <1>8, <1>9, <1>10, <1>11, <1>12, <1>13 DEF Next, Turns

LEMMA PromiseInit == Init => Promise!Init
<1> SUFFICES ASSUME Init PROVE Promise!Init
  OBVIOUS
<1>1. \A c \in Cmds : Word(told[c]) = "none"
  BY DEF Init, Word, Unsent
<1>2. \A c \in Cmds : Cardinality(Whole(c)) = 0 /\ Cardinality(Unheard(c)) = 0
  <2>1. \A c \in Cmds : Whole(c) = {} /\ Unheard(c) = {}
    BY DEF Init, Whole, Unheard
  <2> QED BY <2>1, FS_EmptySet
<1> QED BY <1>1, <1>2 DEF Promise!Init

LEMMA PromiseStays ==
  ASSUME UNCHANGED vars
  PROVE  UNCHANGED <<[c \in Cmds |-> Word(told[c])], [c \in Cmds |-> Cardinality(Whole(c))],
                     [c \in Cmds |-> Cardinality(Unheard(c))]>>
BY WholeStays DEF vars

\* Both transports implement SendPromise: each step is a delivery, an answer or a stutter of it.
THEOREM TransportKeepsPromise == Spec => KeepsPromise
<1> DEFINE Seen == <<[c \in Cmds |-> Word(told[c])], [c \in Cmds |-> Cardinality(Whole(c))],
                     [c \in Cmds |-> Cardinality(Unheard(c))]>>
<1>1. Init => Unfinished /\ Promise!Init
  BY UnfinishedInit, PromiseInit
<1>2. Unfinished /\ Typed /\ Custody /\ [Next]_vars => Unfinished' /\ [Promise!Next]_Seen
  <2> SUFFICES ASSUME Unfinished, Typed, Custody, [Next]_vars
               PROVE  Unfinished' /\ [Promise!Next]_Seen
    OBVIOUS
  <2>1. CASE UNCHANGED vars
    <3>1. Unfinished'
      BY <2>1, WholeStays DEF vars, Unfinished, At
    <3> QED BY <3>1, <2>1, PromiseStays
  <2>2. CASE Next
    <3>1. Tells \/ \E c \in Cmds, h \in BOOLEAN : Delivers(c, h)
      BY <2>2, TellsOrDelivers
    <3> QED BY <3>1, UnfinishedStep, PromiseTells, PromiseDelivers DEF Typed
  <2> QED BY <2>1, <2>2
<1> QED BY <1>1, <1>2, CustodyInvariant, PTL DEF Spec, KeepsPromise, Promise!Spec
=============================================================================
