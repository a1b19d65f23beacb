------------------------------- MODULE EventLog -------------------------------
(***************************************************************************)
(* The events table (internal/events/store.go).  Every business           *)
(* transaction appends rows; seq is AUTOINCREMENT, so a number is never    *)
(* handed out twice even after its row has been deleted.                   *)
(*                                                                         *)
(* Assumption: the stamps of the rows grow with seq, so retention removes  *)
(* a prefix and the stored rows are always firstSeq..lastSeq.  Task and    *)
(* project events are stamped inside their transaction, which holds the    *)
(* only connection (storage/db.go:22); chat events a moment before it.     *)
(* What an inversion leaves behind, a hole in the middle, README.md:135    *)
(* excludes from what the stream guarantees, and so does this module.      *)
(***************************************************************************)
EXTENDS Naturals

VARIABLES firstSeq,     \* seq of the oldest stored row, lastSeq + 1 when none is stored
          lastSeq       \* the largest seq ever handed out, 0 before the first

logVars == <<firstSeq, lastSeq>>

LogTypeOK ==
    /\ firstSeq \in Nat \ {0}
    /\ lastSeq \in Nat
    /\ firstSeq <= lastSeq + 1

LogInit ==
    /\ firstSeq = 1
    /\ lastSeq = 0

Stored == firstSeq .. lastSeq

\* MAX(seq) and MIN(seq) read NULL on an empty table, which the store returns as 0.
MaxSeq == IF firstSeq > lastSeq THEN 0 ELSE lastSeq
MinSeq == IF firstSeq > lastSeq THEN 0 ELSE firstSeq

\* n rows inserted by one transaction (n may be 0: the log is then unchanged).
Insert(n) ==
    /\ lastSeq' = lastSeq + n
    /\ UNCHANGED firstSeq

DeleteOneTooMany(keep) ==
    /\ keep \in firstSeq + 1 .. lastSeq + 1
    /\ firstSeq' = keep + 1
    /\ UNCHANGED lastSeq

\* Retention deletes every row older than its cutoff: the rows before `keep`.
DeleteOlderThan(keep) ==
    /\ keep \in firstSeq + 1 .. lastSeq + 1
    /\ firstSeq' = keep
    /\ UNCHANGED lastSeq
===============================================================================
