-------------------------------- MODULE ImapPoll --------------------------------
(***************************************************************************)
(* Polling one folder of a mailbox (internal/channel/imap.go, pollOnce):   *)
(* the cursor in table cursors, generations of the mailbox (UIDVALIDITY),  *)
(* FETCH responses in any order, messages that are expunged meanwhile, and *)
(* handlers that fail.  Bodies, senders and credentials are left out.      *)
(***************************************************************************)
EXTENDS Naturals, FiniteSetsExt

CONSTANTS MaxUid, MaxValidity     \* bounds on messages and generations of the mailbox

ASSUME ImapPollAssumption == MaxUid \in Nat \ {0} /\ MaxValidity \in Nat \ {0}

Uids == 1 .. MaxUid

VARIABLES onFirstConnect,   \* the configuration: "monitor" or "backfill"
          mail,             \* external: the messages of the folder
          uidNext, validity,
          mailCursor,       \* SQLiteStateStore
          mailPoll,         \* the poll that runs
          handledMail,      \* auxiliary: messages whose handler has succeeded, by generation
          existing          \* auxiliary: messages a first connection found in monitor mode

imapVars == <<onFirstConnect, mail, uidNext, validity, mailCursor, mailPoll, handledMail, existing>>

NoCursor   == [uid |-> 0, folder |-> 0]
NoMailPoll == [pc |-> "idle", start |-> 0, validity |-> 0, uids |-> {}, last |-> 0, failed |-> FALSE]

ImapTypeOK ==
    /\ onFirstConnect \in {"monitor", "backfill"}
    /\ mail \in [Uids -> {"none", "matching", "filtered", "expunged"}]
    /\ uidNext \in 1 .. MaxUid + 1 /\ validity \in 1 .. MaxValidity
    /\ \A u \in Uids : mail[u] = "none" <=> u >= uidNext
    /\ mailCursor \in [uid : 0 .. MaxUid, folder : 0 .. MaxValidity]
    /\ mailPoll.pc \in {"idle", "search", "fetch"} /\ mailPoll.uids \subseteq Uids
    /\ mailPoll.last \in 0 .. MaxUid /\ mailPoll.failed \in BOOLEAN
    /\ handledMail \subseteq (1 .. MaxValidity) \X Uids /\ existing \subseteq (1 .. MaxValidity) \X Uids

ImapInit ==
    /\ onFirstConnect \in {"monitor", "backfill"}
    /\ mail = [u \in Uids |-> "none"]
    /\ uidNext = 1 /\ validity = 1
    /\ mailCursor = NoCursor
    /\ mailPoll = NoMailPoll
    /\ handledMail = {} /\ existing = {}

Present == {u \in Uids : mail[u] \in {"matching", "filtered"}}

-------------------------------------------------------------------------------
(* The mailbox (external).                                                 *)

Arrive == \E sender \in {"matching", "filtered"} :
    /\ uidNext <= MaxUid
    /\ mail' = [mail EXCEPT ![uidNext] = sender]
    /\ uidNext' = uidNext + 1
    /\ UNCHANGED <<onFirstConnect, validity, mailCursor, mailPoll, handledMail, existing>>

Expunge == \E u \in Present :
    /\ mail' = [mail EXCEPT ![u] = "expunged"]
    /\ UNCHANGED <<onFirstConnect, uidNext, validity, mailCursor, mailPoll, handledMail, existing>>

\* The folder is made anew between two polls, with its messages numbered from one.
Recreate == \E n \in 0 .. 1 :
    /\ mailPoll.pc = "idle" /\ validity < MaxValidity
    /\ validity' = validity + 1
    /\ mail' = [u \in Uids |-> IF u <= n THEN "matching" ELSE "none"]
    /\ uidNext' = n + 1
    /\ UNCHANGED <<onFirstConnect, mailCursor, mailPoll, handledMail, existing>>

-------------------------------------------------------------------------------
(* pollOnce.                                                               *)

\* A cursor of another generation is no cursor.
Valid == mailCursor.folder = validity

SaveCursor(uid, folder) == mailCursor' = [uid |-> uid, folder |-> folder]

\* Monitor mode without a cursor: what is there is skipped.
SkipExisting ==
    /\ mailPoll.pc = "idle" /\ ~Valid /\ onFirstConnect = "monitor"
    /\ SaveCursor(uidNext - 1, validity)
    /\ existing' = existing \cup {<<validity, u>> : u \in Present}
    /\ UNCHANGED <<onFirstConnect, mail, uidNext, validity, mailPoll, handledMail>>

StartUid == IF Valid THEN mailCursor.uid + 1 ELSE 1

\* A poll with no UID assigned since the cursor ends here.
SelectFolder ==
    /\ mailPoll.pc = "idle" /\ (Valid \/ onFirstConnect = "backfill")
    /\ StartUid < uidNext
    /\ mailPoll' = [NoMailPoll EXCEPT !.pc = "search", !.start = StartUid, !.validity = validity]
    /\ UNCHANGED <<onFirstConnect, mail, uidNext, validity, mailCursor, handledMail, existing>>

\* SEARCH UID start:* (external): a range that ends in * holds the last message of the
\* folder, also when its UID is below start.
SearchResult(start) == {u \in Present : u >= start \/ u = Max(Present)}

Search ==
    /\ mailPoll.pc = "search"
    /\ mailPoll' = IF Present = {} THEN NoMailPoll
                   ELSE [mailPoll EXCEPT !.pc = "fetch", !.uids = SearchResult(mailPoll.start)]
    /\ UNCHANGED <<onFirstConnect, mail, uidNext, validity, mailCursor, handledMail, existing>>

Later(u) == IF u > mailPoll.last THEN u ELSE mailPoll.last

\* One response of FETCH, in the order of the server; one that fails is the last handled.
FetchFiltered == \E u \in mailPoll.uids :
    /\ mailPoll.pc = "fetch" /\ mail[u] = "filtered"
    /\ mailPoll' = [mailPoll EXCEPT !.uids = @ \ {u}, !.last = Later(u)]
    /\ UNCHANGED <<onFirstConnect, mail, uidNext, validity, mailCursor, handledMail, existing>>

FetchHandled == \E u \in mailPoll.uids :
    /\ mailPoll.pc = "fetch" /\ mail[u] = "matching"
    /\ mailPoll' = [mailPoll EXCEPT !.uids = @ \ {u}, !.last = Later(u)]
    /\ handledMail' = handledMail \cup {<<validity, u>>}
    /\ UNCHANGED <<onFirstConnect, mail, uidNext, validity, mailCursor, existing>>

HandlerError == \E u \in mailPoll.uids :
    /\ mailPoll.pc = "fetch" /\ mail[u] = "matching"
    /\ mailPoll' = [mailPoll EXCEPT !.uids = {}, !.failed = TRUE]
    /\ UNCHANGED <<onFirstConnect, mail, uidNext, validity, mailCursor, handledMail, existing>>

\* An expunged message has no response.
FetchNothing == \E u \in mailPoll.uids :
    /\ mailPoll.pc = "fetch" /\ mail[u] = "expunged"
    /\ mailPoll' = [mailPoll EXCEPT !.uids = @ \ {u}]
    /\ UNCHANGED <<onFirstConnect, mail, uidNext, validity, mailCursor, handledMail, existing>>

\* A handler error keeps the cursor of before the poll, whatever else succeeded in it.
SavesAnyway == mailPoll.last > 0
Advances == ~mailPoll.failed /\ mailPoll.last > 0

FetchEnds ==
    /\ mailPoll.pc = "fetch" /\ mailPoll.uids = {}
    /\ IF Advances THEN SaveCursor(mailPoll.last, mailPoll.validity) ELSE UNCHANGED mailCursor
    /\ mailPoll' = NoMailPoll
    /\ UNCHANGED <<onFirstConnect, mail, uidNext, validity, handledMail, existing>>

\* A FETCH error, a lost connection or a stop: nothing is saved.
PollFails ==
    /\ mailPoll.pc # "idle"
    /\ mailPoll' = NoMailPoll
    /\ UNCHANGED <<onFirstConnect, mail, uidNext, validity, mailCursor, handledMail, existing>>

ImapNext ==
    \/ Arrive \/ Expunge \/ Recreate
    \/ SkipExisting \/ SelectFolder \/ Search
    \/ FetchFiltered \/ FetchHandled \/ HandlerError \/ FetchNothing \/ FetchEnds \/ PollFails

ImapSpec == ImapInit /\ [][ImapNext]_imapVars

-------------------------------------------------------------------------------
(* Properties.                                                             *)

\* The cursor passes no message that should be handled and has not been, in whatever order
\* FETCH answers, handlers fail and messages come and go.
MailNotSkipped == \A u \in 1 .. mailCursor.uid :
    /\ Valid /\ mail[u] = "matching" /\ <<validity, u>> \notin existing
    => <<validity, u>> \in handledMail

\* Monitor mode never handles a message that was there at the first connection.
ExistingSkipped == handledMail \cap existing = {}
=============================================================================
