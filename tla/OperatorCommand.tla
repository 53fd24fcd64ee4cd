--------------------------- MODULE OperatorCommand ---------------------------
(*****************************************************************************)
(* What an operator is promised about a command on the retry schedule: it    *)
(* takes effect at most once, its answer is final, and the answer says       *)
(* APPLIED exactly when the schedule ledger holds the command.               *)
(*****************************************************************************)
CONSTANT Requests
VARIABLES
  outcome,    \* what the operator has been told about each command
  effected    \* the commands that changed the schedule

ANSWERS == {"APPLIED", "CONFLICT", "REJECTED"}
vars == <<outcome, effected>>

Init == /\ outcome = [r \in Requests |-> "NONE"]
        /\ effected = {}

Ask(r) ==
  /\ outcome[r] = "NONE"
  /\ outcome' = [outcome EXCEPT ![r] = "OPEN"]
  /\ UNCHANGED effected

\* The page refuses a command on a job it shows as out of the operator's reach.
Refuse(r) ==
  /\ outcome[r] = "NONE"
  /\ outcome' = [outcome EXCEPT ![r] = "REJECTED"]
  /\ UNCHANGED effected

TakeEffect(r) ==
  /\ outcome[r] = "OPEN"
  /\ r \notin effected
  /\ effected' = effected \cup {r}
  /\ UNCHANGED outcome

Answer(r) ==
  /\ outcome[r] = "OPEN"
  /\ \E a \in ANSWERS :
       /\ (a = "APPLIED") <=> (r \in effected)
       /\ outcome' = [outcome EXCEPT ![r] = a]
  /\ UNCHANGED effected

\* A local client reads the answer of the very call that takes effect.
EffectAndAnswer(r) ==
  /\ outcome[r] = "OPEN"
  /\ r \notin effected
  /\ effected' = effected \cup {r}
  /\ outcome' = [outcome EXCEPT ![r] = "APPLIED"]

Next == \E r \in Requests :
  Ask(r) \/ Refuse(r) \/ TakeEffect(r) \/ Answer(r) \/ EffectAndAnswer(r)

Spec == Init /\ [][Next]_vars
=============================================================================
