----------------------------- MODULE PromiseLedger -----------------------------
(***************************************************************************)
(* What automatic intake promises, with no transactions, no revisions and  *)
(* no language model: an input is taken in at most once, its obligations   *)
(* are classified in that one step, an undecided one is decided at most    *)
(* once, a decision is final, and each accepted obligation owns a task of  *)
(* its own.                                                                *)
(***************************************************************************)
CONSTANTS Obligations, Inputs, TaskIds, NoTaskId

VARIABLES consumed,     \* inputs taken in
          verdict,      \* unknown, pending, created, rejected or duplicate
          owns          \* the task an accepted obligation became

ledgerVars == <<consumed, verdict, owns>>

Unowned(t) == \A o \in Obligations : owns[o] # t

Init ==
    /\ consumed = {}
    /\ verdict = [o \in Obligations |-> "unknown"]
    /\ owns = [o \in Obligations |-> NoTaskId]

\* At least one of the inputs is new, and every obligation found in them is too.
Intake(inputs, found) ==
    /\ ~(inputs \subseteq consumed)
    /\ \A o \in found : verdict[o] = "unknown"
    /\ consumed' = consumed \cup inputs
    /\ \E class \in [found -> {"pending", "created", "duplicate"}] :
          /\ verdict' = [o \in Obligations |-> IF o \in found THEN class[o] ELSE verdict[o]]
          /\ \E new \in [{o \in found : class[o] = "created"} -> TaskIds] :
                /\ \A o \in DOMAIN new : Unowned(new[o])
                /\ \A o, q \in DOMAIN new : new[o] = new[q] => o = q
                /\ owns' = [o \in Obligations |-> IF o \in DOMAIN new THEN new[o] ELSE owns[o]]

Accept(o, t) ==
    /\ verdict[o] = "pending"
    /\ Unowned(t)
    /\ verdict' = [verdict EXCEPT ![o] = "created"]
    /\ owns' = [owns EXCEPT ![o] = t]
    /\ UNCHANGED consumed

Refuse(o) ==
    /\ verdict[o] = "pending"
    /\ verdict' = [verdict EXCEPT ![o] = "rejected"]
    /\ UNCHANGED <<consumed, owns>>

Next ==
    \/ \E inputs \in SUBSET Inputs, found \in SUBSET Obligations : Intake(inputs, found)
    \/ \E o \in Obligations, t \in TaskIds : Accept(o, t)
    \/ \E o \in Obligations : Refuse(o)

Spec == Init /\ [][Next]_ledgerVars
===============================================================================
