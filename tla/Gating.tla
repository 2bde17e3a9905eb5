------------------------------- MODULE Gating -------------------------------
(***************************************************************************)
(* Questions to the user, and documents for the user, from inside a run of *)
(* the model (src/crates/aqua-matrix-gating/src: pending.rs,               *)
(* ask_bridge.rs, md_bridge.rs; src/crates/aqua-matrix-ask-mcp and         *)
(* aqua-matrix-md-mcp: main.rs, jsonrpc.rs, ipc.rs).                       *)
(*                                                                         *)
(* A run serves one target; the backend's run_lock lets one run of a       *)
(* target live at a time.  The model calls a tool of an MCP server, which  *)
(* sends the call through the run's socket to the daemon and waits.  A     *)
(* question is sent as a DM, and the target's next DM is its answer; a     *)
(* document is attached from a temporary file, or sent inline.  A run may  *)
(* be killed with a call in flight, and sends fail.                        *)
(***************************************************************************)
EXTENDS Naturals, Sequences

CONSTANTS
  Targets,
  Scenarios,   \* the tool each target's runs call, and which failures come together
  MaxAsked,    \* bound: questions to a target
  MaxRuns,     \* bound: runs of a target
  MaxCalls,    \* bound: calls of the document tool in a run
  MaxDms       \* bound: DMs of a target (and no more than runs, if they are all it starts)

Tool == {"ask", "md"}
Fault == {"socket",  \* the run's socket cannot be reached
          "send",    \* a send fails and nothing arrives
          "answer",  \* a send arrives and is reported failed
          "kill",    \* a run ends with a call in flight
          "disk",    \* the temporary file cannot be written
          "name"}    \* the runs of all targets name their documents alike

ASSUME GatingAssumption ==
  /\ Scenarios \subseteq [tool : [Targets -> Tool], faults : SUBSET Fault]
  /\ MaxAsked \in Nat /\ MaxRuns \in Nat /\ MaxCalls \in Nat /\ MaxDms \in Nat

VARIABLES
  scenario,
  run,      \* the target's run: its number, live or not, how often it called the document
            \* tool, and what became of the document
  waiting,  \* prompts that wait for the run lock
  call,     \* the call of the run: where it is, and the answer in its channel
  asked,    \* questions put to the target so far; the last is the call's
  open,     \* PendingMap: the question whose sender is in the map, or 0
  posted,   \* questions that reached the target's room
  dms,      \* the target's DMs not yet handled: the question each is about, or 0
  sent,     \* how many DMs the target has sent
  temp,     \* MEDIA_TMP_DIR: whose document is in each file, or "none"
  killed,   \* history: questions whose run was killed
  granted,  \* history: the DMs that became answers
  arrived   \* history: whose document came to the target, for its latest run

ask == <<asked, open, posted, killed, granted>>
md == <<temp, arrived>>
user == <<dms, sent>>
gatingVars == <<scenario, run, waiting, call, asked, open, posted, dms, sent, temp, killed, granted, arrived>>

-----------------------------------------------------------------------------
Faulty(f) == f \in scenario.faults

\* What a call waits for, per tool.
AskStep == {"sending", "waiting", "failed", "expired", "answered", "denied"}
MdStep == {"attach", "upload", "inline", "attached", "told_inline"}
NoCall == [at |-> "none", got |-> "none", data |-> "none"]
NewRun(n) == [n |-> n, on |-> TRUE, calls |-> 0, fired |-> FALSE, pasted |-> FALSE, told |-> "none"]

\* safe_md_filename: the name comes from the model, so two runs may choose one.
Path(t) == IF Faulty("name") THEN "shared" ELSE t

GatingInit ==
  /\ scenario \in Scenarios
  /\ run = [t \in Targets |-> [NewRun(0) EXCEPT !.on = FALSE]]
  /\ waiting = [t \in Targets |-> 0]
  /\ call = [t \in Targets |-> NoCall]
  /\ asked = [t \in Targets |-> 0]
  /\ open = [t \in Targets |-> 0]
  /\ posted = [t \in Targets |-> {}]
  /\ dms = [t \in Targets |-> <<>>]
  /\ sent = [t \in Targets |-> 0]
  /\ temp = [p \in Targets \cup {"shared"} |-> "none"]
  /\ killed = [t \in Targets |-> {}]
  /\ granted = [t \in Targets |-> {}]
  /\ arrived = [t \in Targets |-> <<>>]

At(t, s) == call[t].at = s
Moves(t, s) == call' = [call EXCEPT ![t].at = s]

\* jsonrpc::handle: the model has the result of its call.
Ends(t) == call' = [call EXCEPT ![t] = NoCall]

-----------------------------------------------------------------------------
(* Runs and DMs *)

\* The user writes: about a question that reached the room, or something new.
Write(t) ==
  /\ sent[t] < MaxDms /\ (scenario.tool[t] = "md" => sent[t] < MaxRuns)
  /\ \E q \in posted[t] \cup {0} : dms' = [dms EXCEPT ![t] = Append(@, q)]
  /\ sent' = [sent EXCEPT ![t] = @ + 1]
  /\ UNCHANGED <<scenario, run, waiting, call, ask, md>>

\* The asker's receiver is still there.
Listens(t) == At(t, "sending") \/ At(t, "waiting")

\* What the removed sender's send does: a receiver that is gone is ignored.
Receive(t, dm) ==
  IF Listens(t) /\ open[t] = asked[t]
    THEN /\ call' = [call EXCEPT ![t].got = "answer",
                                 ![t].at = IF @ = "waiting" THEN "answered" ELSE @]
         /\ granted' = [granted EXCEPT ![t] = @ \cup {<<open[t], dm>>}]
    ELSE UNCHANGED <<call, granted>>

\* PendingMap::try_resolve, first in handle_message: the DM is an answer, or a prompt.
HandleDm(t) ==
  /\ dms[t] # <<>>
  /\ dms' = [dms EXCEPT ![t] = Tail(@)]
  /\ IF open[t] # 0
       THEN /\ open' = [open EXCEPT ![t] = 0]
            /\ Receive(t, Head(dms[t]))
            /\ UNCHANGED waiting
       ELSE /\ waiting' = [waiting EXCEPT ![t] = @ + 1]
            /\ UNCHANGED <<open, call, granted>>
  /\ UNCHANGED <<scenario, run, asked, posted, killed, sent, md>>

\* The backend takes the run lock and sets up the bridges (AskBridge::setup, MdBridge::setup).
StartRun(t) ==
  /\ ~run[t].on /\ waiting[t] > 0 /\ run[t].n < MaxRuns
  /\ run' = [run EXCEPT ![t] = NewRun(@.n + 1)]
  /\ waiting' = [waiting EXCEPT ![t] = @ - 1]
  /\ arrived' = [arrived EXCEPT ![t] = <<>>]
  /\ UNCHANGED <<scenario, call, ask, user, temp>>

\* The answer of the run, and the backend's backstop: a document the tool never had
\* and the model did not paste is attached.
EndRun(t) ==
  /\ run[t].on /\ At(t, "none")
  /\ run' = [run EXCEPT ![t].on = FALSE]
  /\ arrived' = [arrived EXCEPT ![t] =
       IF scenario.tool[t] = "md" /\ (run[t].pasted \/ ~run[t].fired) THEN Append(@, t) ELSE @]
  /\ UNCHANGED <<scenario, waiting, call, ask, user, temp>>

\* The document of a send that was begun, which may arrive when its task is gone.
InFlight(t) ==
  CASE At(t, "upload") -> <<call[t].data>> [] At(t, "inline") -> <<t>> [] OTHER -> <<>>

\* Drop of a bridge with a call in flight: the accept loop is aborted where it stands,
\* and the entry of a question stays in the map.
DropRun(t) ==
  /\ Faulty("kill") /\ run[t].on /\ ~At(t, "none")
  /\ run' = [run EXCEPT ![t].on = FALSE]
  /\ killed' = [killed EXCEPT ![t] = IF call[t].at \in AskStep THEN @ \cup {asked[t]} ELSE @]
  /\ \E flying \in {<<>>, InFlight(t)} :
       arrived' = [arrived EXCEPT ![t] =
         @ \o flying \o (IF scenario.tool[t] = "md" /\ ~run[t].fired THEN <<t>> ELSE <<>>)]
  /\ Ends(t)
  /\ UNCHANGED <<scenario, waiting, asked, open, posted, granted, user, temp>>

\* The model calls ask_human: one request of the MCP server's loop, one connection.
CallAsk(t) ==
  /\ scenario.tool[t] = "ask"
  /\ run[t].on /\ At(t, "none") /\ asked[t] < MaxAsked
  /\ Moves(t, "connect")
  /\ UNCHANGED <<scenario, run, waiting, ask, user, md>>

\* The model calls send_markdown_file, any number of times.
CallMd(t) ==
  /\ scenario.tool[t] = "md"
  /\ run[t].on /\ At(t, "none") /\ run[t].calls < MaxCalls
  /\ run' = [run EXCEPT ![t].calls = @ + 1]
  /\ Moves(t, "connect")
  /\ UNCHANGED <<scenario, waiting, ask, user, md>>

\* ask_over_socket: no bridge is a denial.
NoAskBridge(t) ==
  /\ Faulty("socket") /\ scenario.tool[t] = "ask" /\ At(t, "connect")
  /\ Ends(t)
  /\ UNCHANGED <<scenario, run, waiting, ask, user, md>>

\* deliver_over_socket: nothing was sent, so the model pastes the document.
NoMdBridge(t) ==
  /\ Faulty("socket") /\ scenario.tool[t] = "md" /\ At(t, "connect")
  /\ run' = [run EXCEPT ![t].pasted = TRUE]
  /\ Ends(t)
  /\ UNCHANGED <<scenario, waiting, ask, user, md>>

-----------------------------------------------------------------------------
(* ask_human *)

\* Slip: the last question of the run is counted, not the one asked.
RegisterTwice(t) ==
  /\ asked' = [asked EXCEPT ![t] = @ + 1]
  /\ open' = [open EXCEPT ![t] = asked[t] + 2]

\* Slip: the question is registered when it has been sent.
RegisterLate(t) ==
  /\ asked' = [asked EXCEPT ![t] = @ + 1]
  /\ UNCHANGED open

\* PendingMap::ask registers the question before it is sent.
Register(t) ==
  /\ asked' = [asked EXCEPT ![t] = @ + 1]
  /\ open' = [open EXCEPT ![t] = asked[t] + 1]

\* The accept loop of the ask bridge takes the connection.
AcceptAsk(t) ==
  /\ scenario.tool[t] = "ask" /\ At(t, "connect")
  /\ Register(t)
  /\ Moves(t, "sending")
  /\ UNCHANGED <<scenario, run, waiting, posted, killed, granted, user, md>>

\* The homeserver has the question; send_dm has not returned yet.
Post(t) ==
  /\ At(t, "sending") /\ asked[t] \notin posted[t]
  /\ posted' = [posted EXCEPT ![t] = @ \cup {asked[t]}]
  /\ UNCHANGED <<scenario, run, waiting, call, asked, open, killed, granted, user, md>>

\* send_dm returns: an answer that was faster is already in the channel.
QuestionSent(t) ==
  /\ At(t, "sending") /\ asked[t] \in posted[t]
  /\ Moves(t, IF call[t].got = "answer" THEN "answered" ELSE "waiting")
  /\ UNCHANGED <<scenario, run, waiting, ask, user, md>>

QuestionFails(t) ==
  /\ At(t, "sending") /\ Faulty(IF asked[t] \in posted[t] THEN "answer" ELSE "send")
  /\ Moves(t, "failed")
  /\ UNCHANGED <<scenario, run, waiting, ask, user, md>>

\* Slip: the wait for the answer has no end.
WaitsOn(t) == FALSE /\ UNCHANGED gatingVars

\* The receiver goes with the timeout, before the entry does.
Expire(t) ==
  /\ At(t, "waiting")
  /\ Moves(t, "expired")
  /\ UNCHANGED <<scenario, run, waiting, ask, user, md>>

\* Slip: a question that timed out stays in the map.
Forgets(t) == UNCHANGED open

\* PendingMap::clear: whatever entry the target has.
Clear(t) == open' = [open EXCEPT ![t] = 0]

Deny(t) ==
  /\ At(t, "failed") \/ At(t, "expired")
  /\ Clear(t)
  /\ Moves(t, "denied")
  /\ UNCHANGED <<scenario, run, waiting, asked, posted, killed, granted, user, md>>

\* The reply line goes back: granted with the answer, or denied.
AskResult(t) ==
  /\ At(t, "answered") \/ At(t, "denied")
  /\ Ends(t)
  /\ UNCHANGED <<scenario, run, waiting, ask, user, md>>

-----------------------------------------------------------------------------
(* send_markdown_file *)

\* Slip: a bridge that has delivered is what counts as fired.
FiresAfter(t) == UNCHANGED run

\* The accept loop of the md bridge: fired before anything is delivered.
Fire(t) == run' = [run EXCEPT ![t].fired = TRUE]

AcceptMd(t) ==
  /\ scenario.tool[t] = "md" /\ At(t, "connect")
  /\ Fire(t)
  /\ \/ /\ temp' = [temp EXCEPT ![Path(t)] = t]
        /\ Moves(t, "attach")
     \/ /\ Faulty("disk")
        /\ Moves(t, "inline")
        /\ UNCHANGED temp
  /\ UNCHANGED <<scenario, waiting, ask, user, arrived>>

\* send_file reads the file; one that is gone is a failed send.
ReadTemp(t) ==
  /\ At(t, "attach")
  /\ call' = [call EXCEPT ![t].at = IF temp[Path(t)] = "none" THEN "inline" ELSE "upload",
                          ![t].data = temp[Path(t)]]
  /\ UNCHANGED <<scenario, run, waiting, ask, user, md>>

\* The attachment is sent or fails, and the file is removed either way.
Attach(t) ==
  /\ At(t, "upload")
  /\ temp' = [temp EXCEPT ![Path(t)] = "none"]
  /\ \/ /\ arrived' = [arrived EXCEPT ![t] = Append(@, call[t].data)]
        /\ Moves(t, "attached")
     \/ /\ Faulty("answer")
        /\ arrived' = [arrived EXCEPT ![t] = Append(@, call[t].data)]
        /\ Moves(t, "inline")
     \/ /\ Faulty("send")
        /\ Moves(t, "inline")
        /\ UNCHANGED arrived
  /\ UNCHANGED <<scenario, run, waiting, ask, user>>

\* inline_fallback: the same reply whether the chunks were sent or not.
Inline(t) ==
  /\ At(t, "inline")
  /\ \/ arrived' = [arrived EXCEPT ![t] = Append(@, t)]
     \/ Faulty("send") /\ UNCHANGED arrived
  /\ Moves(t, "told_inline")
  /\ UNCHANGED <<scenario, run, waiting, ask, user, temp>>

\* The text of the tool result.
Tells(t, outcome) == run' = [run EXCEPT ![t].told = outcome]

\* outcome_from_result: attached, or "sent inline, do NOT resend".
MdResult(t) ==
  /\ At(t, "attached") \/ At(t, "told_inline")
  /\ Tells(t, IF At(t, "attached") THEN "delivered" ELSE "inline")
  /\ Ends(t)
  /\ UNCHANGED <<scenario, waiting, ask, user, md>>

-----------------------------------------------------------------------------
Daemon(t) ==
  \/ AcceptAsk(t) \/ Post(t) \/ QuestionSent(t) \/ Expire(t) \/ Deny(t) \/ AskResult(t)
  \/ AcceptMd(t) \/ ReadTemp(t) \/ Attach(t) \/ Inline(t) \/ MdResult(t)

GatingNext ==
  \E t \in Targets :
    \/ Write(t) \/ HandleDm(t) \/ StartRun(t) \/ EndRun(t) \/ DropRun(t) \/ CallAsk(t)
    \/ CallMd(t) \/ NoAskBridge(t) \/ NoMdBridge(t) \/ QuestionFails(t) \/ Daemon(t)

GatingSpec == GatingInit /\ [][GatingNext]_gatingVars

\* The daemon's tasks run, sends return and timeouts end; users and models may do nothing.
Fairness == \A t \in Targets : WF_gatingVars(Daemon(t))
GatingFairSpec == GatingSpec /\ Fairness

-----------------------------------------------------------------------------
(* Properties *)

\* Every variable has the type the code gives it.
GatingTypeOK ==
  /\ scenario \in Scenarios
  /\ run \in [Targets -> [n : 0..MaxRuns, on : BOOLEAN, calls : 0..MaxCalls, fired : BOOLEAN, pasted : BOOLEAN,
                          told : {"none", "delivered", "inline"}]]
  /\ waiting \in [Targets -> Nat]
  /\ call \in [Targets -> [at : {"none", "connect"} \cup AskStep \cup MdStep,
                           got : {"none", "answer"}, data : Targets \cup {"none"}]]
  /\ asked \in [Targets -> 0..MaxAsked]
  /\ \A t \in Targets :
       /\ open[t] \in 0..asked[t]
       /\ posted[t] \subseteq 1..asked[t] /\ killed[t] \subseteq 1..asked[t]
       /\ granted[t] \subseteq (1..asked[t]) \X (0..asked[t])
       /\ dms[t] \in Seq(0..asked[t])
  /\ sent \in [Targets -> 0..MaxDms]
  /\ temp \in [Targets \cup {"shared"} -> Targets \cup {"none"}]
  /\ arrived \in [Targets -> Seq(Targets)]

\* A DM that answers the open question while its asker waits goes to that asker, however
\* early it comes: it neither starts a run nor is swallowed (pending.rs: registered
\* BEFORE the question is sent).
AnswerReachesItsAsker ==
  [][\A t \in Targets :
       Len(dms'[t]) < Len(dms[t]) /\ Listens(t) /\ Head(dms[t]) = asked[t] /\ call[t].got = "none"
         => call'[t].got = "answer"]_gatingVars

\* The map never keeps a question nobody asks any more, unless the run of that very
\* question was killed: after a timeout or a failed send the target's next DM is a prompt
\* again (ask removes its entry on every path that ends).
EntryHasAsker ==
  \A t \in Targets :
    open[t] # 0 => \/ open[t] \in killed[t]
                   \/ open[t] = asked[t] /\ call[t].at \in {"sending", "waiting", "failed", "expired"}

\* A run gives its user the document once for each call of the tool, and once if there
\* was none: a pasted document and the backstop take the place of a delivery and do not
\* come on top of one, also when the run is killed in the middle of it (fired is set
\* before the delivery).  Unless a send arrives that is reported failed.
DocumentOnce ==
  \/ Faulty("answer")
  \/ \A t \in Targets : Len(arrived[t]) <= 1 \/ Len(arrived[t]) <= run[t].calls

\* Every call of a tool ends in a tool result, or with its run.
EveryCallAnswered == \A t \in Targets : ~At(t, "none") ~> At(t, "none")

\* What PendingMap promises, "there is no question/answer correlation ambiguity": an
\* answer granted to a question is not the answer to an earlier one.
AnswersItsQuestion == \A t \in Targets : \A g \in granted[t] : g[2] \in {0, g[1]}

\* What the md bridge promises, "the content is never lost": the user has the document
\* of a run whose model was told that it was delivered, or sent inline.
ContentNotLost ==
  \A t \in Targets : run[t].told # "none" => \E i \in DOMAIN arrived[t] : arrived[t][i] = t
=============================================================================
