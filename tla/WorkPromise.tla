----------------------------- MODULE WorkPromise -----------------------------
(***************************************************************************)
(* What a relay daemon promises about the messages it is sent ("every       *)
(* accepted message a promise (answered-or-errored, delivery confirmed)     *)
(* across restarts AND token rotation", relay/src/lib.rs run_daemon): a     *)
(* message is accepted in the order of its room, and from then on it is     *)
(* owed an answer until it is answered.  Relay implements this.             *)
(***************************************************************************)
EXTENDS Naturals

CONSTANTS
  Work,     \* the messages that carry work
  RoomOf,   \* the room of each
  Ts,       \* its origin_server_ts
  Guests    \* those of a sender other than the target

VARIABLE status

States == {"unsent", "sent", "owed", "answered", "withdrawn"}

Init == status = [m \in Work |-> "unsent"]

\* A message that reaches the homeserver; a guest may not be admitted.
Send(m) ==
  /\ status[m] = "unsent"
  /\ \E s \in {"sent"} \cup IF m \in Guests THEN {"withdrawn"} ELSE {} :
       status' = [status EXCEPT ![m] = s]

\* No older message of the room may be left behind.
Accept(m) ==
  /\ status[m] = "sent"
  /\ \A o \in Work : RoomOf[o] = RoomOf[m] /\ Ts[o] < Ts[m] => status[o] # "sent"
  /\ status' = [status EXCEPT ![m] = "owed"]

Answer(m) ==
  /\ status[m] = "owed"
  /\ status' = [status EXCEPT ![m] = "answered"]

\* A restart with a narrower room policy turns guests away.
Withdraw ==
  \E W \in SUBSET {m \in Work \cap Guests : status[m] \in {"sent", "owed"}} :
    status' = [m \in Work |-> IF m \in W THEN "withdrawn" ELSE status[m]]

Next == (\E m \in Work : Send(m) \/ Accept(m) \/ Answer(m)) \/ Withdraw

Spec == Init /\ [][Next]_status
=============================================================================
