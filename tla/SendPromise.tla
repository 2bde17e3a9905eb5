----------------------------- MODULE SendPromise -----------------------------
(***************************************************************************)
(* What a messenger transport promises the engine about a send: it is      *)
(* delivered and acknowledged once at most, any other copy is one whose    *)
(* answer was lost, and nothing follows the acknowledged one; a caller     *)
(* told "sent" has it delivered; and for a caller told that it was not     *)
(* sent no delivery was acknowledged, and none comes later.  Of a send     *)
(* that failed or did not end in time only the first is promised.          *)
(***************************************************************************)
EXTENDS Naturals

CONSTANTS Cmds

VARIABLES
  told,      \* what each caller was told
  delivered, \* how often each command was delivered
  unheard    \* how many of these deliveries nobody acknowledged

Outcome == {"none", "sent", "not_sent", "unknown"}

Init ==
  /\ told = [c \in Cmds |-> "none"]
  /\ delivered = [c \in Cmds |-> 0] /\ unheard = [c \in Cmds |-> 0]

Acknowledged(c) == delivered[c] # unheard[c]

Deliver(c) ==
  /\ ~Acknowledged(c) /\ told[c] # "not_sent"
  /\ delivered' = [delivered EXCEPT ![c] = @ + 1]
  /\ \/ /\ UNCHANGED unheard
        /\ told' = [told EXCEPT ![c] = IF @ = "none" THEN "sent" ELSE @]
     \/ /\ unheard' = [unheard EXCEPT ![c] = @ + 1]
        /\ told' = told \/ (told[c] = "none" /\ told' = [told EXCEPT ![c] = "unknown"])

\* A process that ends tells all callers at once.
Tell ==
  /\ UNCHANGED <<delivered, unheard>>
  /\ told' \in [Cmds -> Outcome]
  /\ \A c \in Cmds :
       told'[c] # told[c] => told[c] = "none" /\ told'[c] # "sent" /\ ~Acknowledged(c)

Next == Tell \/ \E c \in Cmds : Deliver(c)

Spec == Init /\ [][Next]_<<told, delivered, unheard>>
=============================================================================
