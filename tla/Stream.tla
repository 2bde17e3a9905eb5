------------------------------- MODULE Stream -------------------------------
(***************************************************************************)
(* One reply on its way into a room (aqua-matrix-agent lib.rs): a           *)
(* ReplyStream that opens messages, edits the live one as text arrives,     *)
(* rolls over to a new one when it is full and writes the end in finish;    *)
(* and the one-shot sends, in chunks or with a self-healing token.          *)
(*                                                                          *)
(* The text is the pieces 1 .. MaxPieces in order (for a dashboard, the     *)
(* lines, of which only the newest counts); a message shows lo .. hi.  A    *)
(* send may fail, may land without its answer, and is refused on a dead     *)
(* token.  Rendering, Markdown and code fences are layout and left out.     *)
(***************************************************************************)
EXTENDS Integers, Sequences, SequencesExt, FiniteSetsExt

CONSTANTS
    MaxPieces,    \* pieces the run produces, a bound
    Cap,          \* STREAM_ROLLOVER_BYTES: pieces one message holds
    Floor,        \* STREAM_MIN_SPLIT_BYTES
    FirstMin,     \* FIRST_MESSAGE_MIN_BYTES
    MaxMessages,  \* STREAM_MAX_MESSAGES
    Attempts,     \* FINALIZE_MAX_ATTEMPTS
    MaxWait,      \* OPEN_RETRY_MAX in ticks
    Cooldown,     \* STREAM_REFRESH_COOLDOWN in ticks
    MaxTicks,     \* ticks of the clock, a bound
    MaxDeaths,    \* times the token dies, a bound
    Scenarios     \* records [kind, breaks, faults] one of which is chosen at the start

\* the limits the source fixes, and the bounds of the instance
Limits ==
    /\ {Cap, Floor, FirstMin, MaxMessages, Attempts} \subseteq Nat \ {0}
    /\ {MaxWait, Cooldown} \subseteq Nat
    /\ Floor =< Cap
Calls == {"stream", "board", "dm", "room", "notify"}
ASSUME StreamAssumption ==
    /\ Limits /\ MaxPieces \in Nat \ {0} /\ {MaxTicks, MaxDeaths} \subseteq Nat
    /\ \A s \in Scenarios : s.kind \in Calls

VARIABLES
    kind,     \* which of Calls is made
    breaks,   \* pieces after which the text has a clean boundary
    flaws,    \* subset of {"fails", "lost", "norefresh"}
    now,      \* ticks so far
    token,    \* the handle's access token: "good" | "low" | "dead"
    account,  \* "in" | "out": whether a refresh still yields a token that works
    messages, \* the room's messages of this reply, in order
    stream,   \* the ReplyStream's fields
    call,     \* the call that is running: its step, chunks to do, attempt
    produced, \* pieces produced so far
    deaths, refusals, failedOpens, \* times the token died, refusals and failed opens while streaming
    lost, unfrozen \* an answer was lost; a message could not be frozen

scene == <<kind, breaks, flaws>>
homeserver == <<token, account>>
seen == <<deaths, refusals, failedOpens, lost, unfrozen>>
streamVars == <<scene, now, homeserver, messages, stream, call, produced, seen>>

Streams == {"stream", "board"}
NoCall == [pc |-> "idle", todo |-> << >>, attempt |-> 1, healed |-> FALSE, cut |-> 0, sent |-> 0]
\* where the text that counts begins
Base == IF kind = "board" THEN produced ELSE 1
Shows(lo, hi, cursor) == [lo |-> lo, hi |-> hi, cursor |-> cursor]

(***************************************************************************)
(* Cutting the text.                                                        *)
(***************************************************************************)
\* the largest boundary in the window that leaves no tiny head, else a hard cut
pick_boundary(lo, hi) ==
    LET last == Min({hi, lo + Cap - 1})
        clean == {b \in breaks : b \in lo .. last /\ b - lo + 1 >= Min({Floor, Max({1, Cap \div 2})})}
    IN IF clean # {} THEN Max(clean) ELSE last

\* the last allowed message shows the start of what is left
Truncated(lo, hi) == <<lo, Min({hi, lo + Cap - 1})>>

\* split[left][text]: the text <<lo, hi>> in at most left chunks
split[left \in Nat] ==
    [text \in Nat \X Nat |->
        LET lo == text[1]  hi == text[2] IN
        IF hi - lo < Cap \/ left =< 1 THEN <<Truncated(lo, hi)>>
        ELSE LET cut == pick_boundary(lo, hi)
             IN <<(<<lo, cut>>)>> \o split[left - 1][<<cut + 1, hi>>]]
split_for_matrix(text) == split[MaxMessages][text]

(***************************************************************************)
(* One request to the homeserver, and deliver.                              *)
(***************************************************************************)
Backoff(failures) == Min({MaxWait, 2 ^ (failures - 1)})

\* an answer that says the token is dead, not that the server or the network failed
IsUnknownToken(answer) == answer = "refused"

\* room.send on the token t
Send(t) ==
    IF t = "dead" THEN {[landed |-> FALSE, answer |-> "refused"]}
    ELSE {[landed |-> TRUE, answer |-> "ok"]}
         \cup (IF "fails" \in flaws THEN {[landed |-> FALSE, answer |-> "failed"]} ELSE {})
         \cup (IF "lost" \in flaws THEN {[landed |-> TRUE, answer |-> "failed"]} ELSE {})

Renewed == IF account = "in" THEN "good" ELSE "dead"

\* deliver: a refusal mints one fresh session and repeats the send once; otherwise
\* streaming is given up
Kept(r, t, c, g, n) == [landed |-> r.landed, answer |-> r.answer, token |-> t, cool |-> c,
                        gaveUp |-> g, refused |-> n]
RefreshAlways(g) ==
    IF token # "dead" THEN {Kept(r, token, stream.cool, g, 0) : r \in Send(token)}
    ELSE {Kept(r, Renewed, Cooldown, g, IF IsUnknownToken(r.answer) THEN 2 ELSE 1) : r \in Send(Renewed)}
Delivered(g) ==
    LET nothing == [landed |-> FALSE, answer |-> "refused"] IN
    IF token # "dead" THEN {Kept(r, token, stream.cool, g, 0) : r \in Send(token)}
    ELSE IF stream.cool > 0 THEN {Kept(nothing, token, stream.cool, TRUE, 1)}
    ELSE (IF "norefresh" \in flaws THEN {Kept(nothing, token, Cooldown, TRUE, 1)} ELSE {})
         \cup {Kept(r, Renewed, Cooldown, g \/ IsUnknownToken(r.answer),
                    IF IsUnknownToken(r.answer) THEN 2 ELSE 1) : r \in Send(Renewed)}

\* what a request of the stream leaves behind: d the answer, shown the room if it
\* landed, s the stream's other fields, opening whether it opens a message
Request(d, shown, s, opening) ==
    /\ token' = d.token
    /\ messages' = IF d.landed THEN shown ELSE messages
    /\ stream' = [s EXCEPT !.cool = d.cool, !.gaveUp = d.gaveUp]
    /\ refusals' = refusals + (IF call.pc = "finish" THEN 0 ELSE d.refused)
    /\ failedOpens' = failedOpens + (IF opening /\ d.answer # "ok" THEN 1 ELSE 0)
    /\ lost' = (lost \/ (d.landed /\ d.answer # "ok"))
    /\ UNCHANGED <<scene, now, account, produced, deaths>>

Go(pc) == call' = [call EXCEPT !.pc = pc, !.attempt = 1]

(***************************************************************************)
(* ReplyStream.                                                             *)
(***************************************************************************)
NewStream == [live |-> 0, lo |-> 1, hi |-> 0, opened |-> 0, gaveUp |-> FALSE,
              failures |-> 0, wait |-> 0, cool |-> 0, fresh |-> TRUE]
Held == stream.hi - stream.lo + 1
OpenAnyTime == ~stream.gaveUp
MayOpen == ~stream.gaveUp /\ stream.wait = 0
Quiet == UNCHANGED <<scene, now, homeserver, messages, seen>>
GateFailed(s) == [s EXCEPT !.failures = @ + 1, !.wait = Backoff(s.failures + 1)]
GateReset(s) == [s EXCEPT !.failures = 0, !.wait = 0]

\* push: k more pieces; before the first message they are only held back
Push(k) ==
    /\ kind = "stream" /\ call.pc = "idle" /\ produced + k =< MaxPieces
    /\ produced' = produced + k
    /\ stream' = [stream EXCEPT !.hi = produced + k]
    /\ Go(IF stream.live # 0 THEN "roll"
          ELSE IF Held + k >= FirstMin THEN "first" ELSE "idle")
    /\ Quiet

\* set (of a line too short to open a message with, or not) and set_now, which
\* neither holds back nor waits: the body is replaced
Set(at) ==
    /\ kind = "board" /\ call.pc = "idle" /\ produced < MaxPieces
    /\ produced' = produced + 1
    /\ stream' = [stream EXCEPT !.lo = produced + 1, !.hi = produced + 1,
                                !.fresh = IF at = "once" /\ stream.live # 0 THEN FALSE ELSE @]
    /\ Go(IF stream.live # 0 THEN "edit"
          ELSE IF at # "short" THEN "first" ELSE "idle")
    /\ Quiet

\* send_first, if the gate is open and streaming was not given up
SendFirst ==
    /\ call.pc = "first"
    /\ Go("idle")
    /\ \/ /\ ~MayOpen
          /\ UNCHANGED <<stream, produced>> /\ Quiet
       \/ /\ MayOpen
          /\ \E d \in Delivered(stream.gaveUp) :
               /\ Request(d, Append(messages, Shows(stream.lo, Truncated(stream.lo, stream.hi)[2], TRUE)),
                          IF d.answer = "ok"
                          THEN [GateReset(stream) EXCEPT !.live = Len(messages) + 1, !.opened = 1, !.fresh = TRUE]
                          ELSE GateFailed(stream), TRUE)
               /\ UNCHANGED unfrozen

\* roll_over opens the continuation first, then freezes the head; a failure to
\* open leaves the stream as it was
Overfull == Held > Cap /\ stream.opened < MaxMessages
OpenNext ==
    LET cut == pick_boundary(stream.lo, stream.hi) IN
    /\ call.pc = "roll" /\ Overfull /\ MayOpen
    /\ \E d \in Delivered(stream.gaveUp) :
         /\ Request(d, Append(messages, Shows(cut + 1, Truncated(cut + 1, stream.hi)[2], TRUE)),
                    IF d.answer = "ok" THEN GateReset(stream) ELSE GateFailed(stream), TRUE)
         /\ call' = [call EXCEPT !.pc = IF d.answer = "ok" THEN "freeze" ELSE "edit",
                                 !.attempt = 1, !.cut = cut]
         /\ UNCHANGED unfrozen
RollNoMore ==
    /\ call.pc = "roll" /\ ~(Overfull /\ MayOpen)
    /\ Go("edit")
    /\ UNCHANGED <<stream, produced>> /\ Quiet

\* retry_finalize: another attempt, unless it was refused or was the last one
Again(answer) == answer # "ok" /\ ~IsUnknownToken(answer) /\ call.attempt < Attempts

HeadAsShown(s, cut) == Shows(s.lo, Truncated(s.lo, s.hi)[2], FALSE)
FrozenHead(s, cut) == Shows(s.lo, cut, FALSE)
\* the freeze edit of roll_over, retried; its failure is passed over
Freeze ==
    /\ call.pc = "freeze"
    /\ \E d \in Delivered(stream.gaveUp) :
         LET over == ~Again(d.answer) IN
         /\ Request(d, [messages EXCEPT ![stream.live] = FrozenHead(stream, call.cut)],
                    IF over THEN [stream EXCEPT !.live = Len(messages), !.lo = call.cut + 1,
                                                !.opened = @ + 1, !.fresh = TRUE]
                    ELSE stream, FALSE)
         /\ call' = IF over THEN [call EXCEPT !.pc = "roll", !.attempt = 1]
                    ELSE [call EXCEPT !.attempt = @ + 1]
         /\ unfrozen' = (unfrozen \/ (over /\ d.answer # "ok"))

\* the throttled edit, best effort
Edit ==
    /\ call.pc = "edit"
    /\ Go("idle")
    /\ \/ /\ stream.fresh
          /\ UNCHANGED <<stream, produced>> /\ Quiet
       \/ /\ ~stream.fresh /\ stream.gaveUp
          /\ stream' = [stream EXCEPT !.fresh = TRUE]
          /\ UNCHANGED produced /\ Quiet
       \/ /\ ~stream.fresh /\ ~stream.gaveUp
          /\ \E d \in Delivered(stream.gaveUp) :
               /\ Request(d, [messages EXCEPT ![stream.live] =
                                Shows(stream.lo, Truncated(stream.lo, stream.hi)[2], TRUE)],
                          [stream EXCEPT !.fresh = TRUE], FALSE)
               /\ UNCHANGED unfrozen

WholeResult == <<Base, produced>>
\* the text finish writes: the whole result, or after a rollover the tail
FinalText == IF stream.opened =< 1 THEN <<Base, produced>> ELSE <<stream.lo, stream.hi>>

\* finish takes the stream: nothing is pushed after it
Finish ==
    /\ kind \in Streams /\ call.pc = "idle" /\ produced > 0
    /\ call' = [NoCall EXCEPT !.pc = "finish", !.todo = split_for_matrix(FinalText)]
    /\ UNCHANGED <<stream, produced>> /\ Quiet

\* a chunk of finish: the first replaces the live message, the others are new
FinishChunk ==
    LET c == Head(call.todo)
        final == Shows(c[1], c[2], FALSE) IN
    /\ call.pc = "finish" /\ call.todo # << >>
    /\ \E d \in Delivered(stream.gaveUp) :
         /\ Request(d, IF stream.live # 0 /\ call.sent = 0
                       THEN [messages EXCEPT ![stream.live] = final]
                       ELSE Append(messages, final), stream, FALSE)
         /\ call' = IF d.answer = "ok" THEN [call EXCEPT !.todo = Tail(@), !.attempt = 1, !.sent = @ + 1]
                    ELSE IF Again(d.answer) THEN [call EXCEPT !.attempt = @ + 1]
                    ELSE [NoCall EXCEPT !.pc = "error"]
         /\ UNCHANGED unfrozen
Finished ==
    /\ call.pc = "finish" /\ call.todo = << >>
    /\ Go("done")
    /\ UNCHANGED <<stream, produced>> /\ Quiet

(***************************************************************************)
(* The one-shot sends of the whole text.                                    *)
(***************************************************************************)
Chunks == IF kind = "notify" THEN <<(<<1, MaxPieces>>)>> ELSE split_for_matrix(<<1, MaxPieces>>)

\* the call begins; send_dm_self_healing first renews a token about to expire
SendStart ==
    /\ kind \notin Streams /\ call.pc = "idle" /\ produced = 0
    /\ produced' = MaxPieces
    /\ call' = [NoCall EXCEPT !.pc = "send", !.todo = Chunks]
    /\ token' \in IF kind = "notify" /\ token # "good"
                  THEN {token, Renewed} ELSE {token}
    /\ UNCHANGED <<scene, now, account, messages, stream, seen>>

\* the token is renewed once for the call or, to a room, for the chunk
MayHeal(answer) == IsUnknownToken(answer) /\ ~call.healed

\* one attempt: a self-healing send makes one, the others those of retry_finalize
OneAttempt ==
    /\ call.pc = "send" /\ call.todo # << >>
    /\ \E r \in Send(token) :
         /\ messages' = IF r.landed
                        THEN Append(messages, Shows(Head(call.todo)[1], Head(call.todo)[2], FALSE))
                        ELSE messages
         /\ lost' = (lost \/ (r.landed /\ r.answer # "ok"))
         /\ call' = CASE r.answer = "ok" ->
                           [call EXCEPT !.todo = Tail(@), !.attempt = 1,
                                        !.healed = IF kind = "room" THEN FALSE ELSE @]
                      [] kind # "notify" /\ Again(r.answer) -> [call EXCEPT !.attempt = @ + 1]
                      [] MayHeal(r.answer) -> [call EXCEPT !.pc = "reauth"]
                      [] OTHER -> [NoCall EXCEPT !.pc = "error"]
    /\ UNCHANGED <<scene, now, homeserver, stream, produced, deaths, refusals, failedOpens, unfrozen>>
SendDone ==
    /\ call.pc = "send" /\ call.todo = << >>
    /\ Go("done")
    /\ UNCHANGED <<stream, produced>> /\ Quiet

ResumeAll == Chunks
\* what is sent after the renewal: to a room the refused chunk, in a DM all chunks again
Resume == IF kind = "room" THEN call.todo ELSE Chunks
\* reauth, then what was refused again
Reauth ==
    /\ call.pc = "reauth"
    /\ \/ /\ token' = Renewed
          /\ call' = [call EXCEPT !.pc = "send", !.todo = Resume, !.attempt = 1, !.healed = TRUE]
       \/ /\ "norefresh" \in flaws
          /\ call' = [NoCall EXCEPT !.pc = "error"]
          /\ UNCHANGED token
    /\ UNCHANGED <<scene, now, account, messages, stream, produced, seen>>

(***************************************************************************)
(* Time and the token.                                                      *)
(***************************************************************************)
Down(n) == Max({0, n - 1})
Tick ==
    /\ now < MaxTicks
    /\ now' = now + 1
    /\ stream' = [stream EXCEPT !.wait = Down(@), !.cool = Down(@), !.fresh = FALSE]
    /\ UNCHANGED <<scene, homeserver, messages, call, produced, seen>>

\* the token runs low, dies (it expired, or the daemon's own cycle replaced it),
\* or the account is signed out
TokenLow ==
    /\ kind = "notify" /\ token = "good"
    /\ token' = "low"
    /\ UNCHANGED <<scene, now, account, messages, stream, call, produced, seen>>
TokenDies ==
    /\ deaths < MaxDeaths /\ token # "dead"
    /\ token' = "dead" /\ deaths' = deaths + 1
    /\ account' \in {account, "out"}
    /\ UNCHANGED <<scene, now, messages, stream, call, produced, refusals, failedOpens, lost, unfrozen>>

StreamInit ==
    /\ \E s \in Scenarios : kind = s.kind /\ breaks = s.breaks /\ flaws = s.faults
    /\ now = 0 /\ token = "good" /\ account = "in"
    /\ messages = << >> /\ stream = NewStream /\ call = NoCall /\ produced = 0
    /\ deaths = 0 /\ refusals = 0 /\ failedOpens = 0
    /\ lost = FALSE /\ unfrozen = FALSE

StreamNext ==
    \/ \E k \in 1 .. 2 : Push(k)
    \/ \E at \in {"short", "long", "once"} : Set(at)
    \/ SendFirst \/ OpenNext \/ RollNoMore \/ Freeze \/ Edit
    \/ Finish \/ FinishChunk \/ Finished
    \/ SendStart \/ OneAttempt \/ SendDone \/ Reauth
    \/ Tick \/ TokenLow \/ TokenDies

StreamSpec == StreamInit /\ [][StreamNext]_streamVars

(***************************************************************************)
(* Properties.                                                              *)
(***************************************************************************)
StreamTypeOK ==
    /\ now \in 0 .. MaxTicks /\ produced \in 0 .. MaxPieces
    /\ token \in {"good", "low", "dead"} /\ account \in {"in", "out"}
    /\ stream.live \in 0 .. Len(messages)
    /\ \A i \in DOMAIN messages : messages[i].lo \in 1 .. MaxPieces /\ messages[i].hi \in 1 .. MaxPieces

\* messages i .. j show consecutive pieces
Continuous(i, j) == \A k \in i .. j - 1 : messages[k].hi + 1 = messages[k + 1].lo
Covers == /\ messages # << >> /\ messages[1].lo = Base
          /\ Continuous(1, Len(messages))

\* When finish or a one-shot send reports success, the room shows the text from its
\* first piece, in order, nothing twice, no streaming cursor left, up to its end or
\* to the limit of messages - unless an answer was lost, or an earlier message could
\* not be frozen, which roll_over passes over (finish, roll_over, the chunked sends).
\* A send to a DM that renewed its token sends its first chunks again: it ends with
\* the whole text.
ReportedIsShown ==
    call.pc = "done" /\ ~lost /\ ~unfrozen =>
        \/ /\ Covers
           /\ \A i \in DOMAIN messages : ~messages[i].cursor
           /\ messages[Len(messages)].hi = produced \/ Len(messages) >= MaxMessages
        \/ /\ kind = "dm" /\ deaths > 0
           /\ LET again == SubSeq(messages, Len(messages) - Len(Chunks) + 1, Len(messages))
              IN [i \in DOMAIN again |-> <<again[i].lo, again[i].hi>>] = Chunks

\* While nothing is on its way, the messages before the live one are final and join up
\* with it: a piece is neither lost nor shown twice where a reply rolls over, whatever
\* token died in between (roll_over, push).
FrozenJoinUp ==
    call.pc \in {"idle", "first", "finish", "error"} /\ kind = "stream" /\ ~lost /\ ~unfrozen /\ stream.live > 0 =>
        /\ Continuous(1, stream.live - 1)
        /\ stream.live > 1 => messages[stream.live - 1].hi + 1 = stream.lo
        /\ \A i \in 1 .. stream.live - 1 : ~messages[i].cursor

\* A homeserver that refuses the token hears of it once per token that died and once
\* more for the fresh one: streaming then stops until finish (deliver, gave_up; the
\* incident of about 450 requests in 20 seconds).
RefusalsBounded == refusals =< deaths + 1

\* Failed attempts to open a message are spaced by the gate's backoff, however many
\* chunks are pushed meanwhile (OpenGate, send_first, roll_over).
OpensSpaced == failedOpens =< now + 1 + stream.opened

\* A chunk that was delivered to a room is never sent twice, even when the token is
\* renewed between chunks (send_to_room_chunked_with_refresh): unless an answer was lost,
\* when the chunk that arrived unheard is sent again.
RoomChunksOnce ==
    kind = "room" /\ ~lost =>
        \A i, j \in DOMAIN messages : i < j => messages[i].hi < messages[j].lo

\* What OPEN_RETRY_BASE's comment says: finish delivers the whole reply whatever
\* happened while streaming.
WholeWhateverHappened ==
    call.pc = "done" /\ kind = "stream" /\ ~lost => Covers
=============================================================================
