----------------------------- MODULE TelegramIntake -----------------------------
(***************************************************************************)
(* The poll loop of a Telegram account (internal/channel/telegram.go) and  *)
(* where it hands its updates: group messages to the automatic intake,     *)
(* forwards of one owner to forward_buffer, the owner's own messages to    *)
(* the channel of the ForwardDispatcher or to the chat queue; then the     *)
(* dispatcher and the sweeper (internal/pipeline/forward_*.go).  A receipt *)
(* stands for the transaction of AutoTasks that consumes an input.         *)
(***************************************************************************)
EXTENDS Integers

CONSTANTS LastUpdate,           \* updates are 1 .. LastUpdate
          ForwardSignalCap,     \* capacity of the dispatcher's channel
          MaxTelegramFaults     \* bound on crashes and failed calls

ASSUME TelegramAssumption == /\ LastUpdate \in Nat /\ ForwardSignalCap \in Nat \ {0}
                             /\ MaxTelegramFaults \in Nat

VARIABLES updateKind,   \* a promise of the owner in a confirmed group, a forward, a message
          onJoin,       \* the configured mode: whether a restart goes back to the cursor
          kept,         \* the first update the Telegram server still returns
          watch,        \* Watch: its step, offset, position in the batch and end of it
          updateCursor, \* the stored cursor
          forwards,     \* rows of forward_buffer
          receipts,     \* inputs a transaction has consumed
          signals,      \* signals in the dispatcher's channel
          dispatch,     \* the dispatcher and the snapshot it submits
          chats,        \* messages in the chat queue, in memory
          telegramFaults

telegramVars == <<updateKind, onJoin, kept, watch, updateCursor, forwards, receipts, signals,
                  dispatch, chats, telegramFaults>>
backVars == <<forwards, receipts, signals, dispatch, chats>>
watchVars == <<kept, watch, updateCursor>>
fixedVars == <<updateKind, onJoin>>

Updates == 1 .. LastUpdate

TelegramTypeOK ==
    /\ updateKind \in [Updates -> {"group", "forward", "dm"}]
    /\ onJoin \in {"monitor", "backfill"}
    /\ kept \in 1 .. LastUpdate + 1
    /\ watch \in [pc : {"fetch", "handle", "save"}, offset : 0 .. LastUpdate + 1,
                  next : 0 .. LastUpdate + 1, end : 0 .. LastUpdate, good : 0 .. LastUpdate]
    /\ updateCursor \in 0 .. LastUpdate
    /\ forwards \subseteq Updates /\ receipts \subseteq Updates /\ chats \subseteq Updates
    /\ signals \in 0 .. ForwardSignalCap
    /\ dispatch.pc \in {"idle", "submit"} /\ dispatch.batch \subseteq forwards
    /\ telegramFaults \in 0 .. MaxTelegramFaults

Fetching(offset) == [pc |-> "fetch", offset |-> offset, next |-> 0, end |-> 0, good |-> 0]
NoDispatch == [pc |-> "idle", batch |-> {}]

TelegramInit ==
    /\ updateKind \in [Updates -> {"group", "forward", "dm"}]
    /\ onJoin \in {"monitor", "backfill"}
    /\ kept = 1 /\ updateCursor = 0
    /\ watch = Fetching(0)
    /\ forwards = {} /\ receipts = {} /\ chats = {}
    /\ signals = 0 /\ dispatch = NoDispatch
    /\ telegramFaults = 0

TelegramFault == telegramFaults < MaxTelegramFaults /\ telegramFaults' = telegramFaults + 1

-------------------------------------------------------------------------------
(* The poll loop.                                                          *)

\* The server forgets what lies below the offset of a call, and returns updates in order.
GetUpdates ==
    /\ watch.pc = "fetch"
    /\ LET first == IF watch.offset > kept THEN watch.offset ELSE kept
       IN \E last \in first .. LastUpdate :
              /\ kept' = first
              /\ watch' = [watch EXCEPT !.pc = "handle", !.next = first, !.end = last, !.good = 0]
    /\ UNCHANGED <<fixedVars, updateCursor, backVars, telegramFaults>>

At(u, k) == watch.pc = "handle" /\ watch.next = u /\ updateKind[u] = k

\* processRawUpdate returns true: the loop goes on to the next update of the batch.
Advance(u) ==
    watch' = [watch EXCEPT !.offset = u + 1, !.next = u + 1, !.good = u,
                           !.pc = IF u = watch.end THEN "save" ELSE "handle"]

\* It returns false: the rest of the batch is left for the next call.
StopBatch == watch' = [watch EXCEPT !.pc = "save"]

\* A message of a group returns to the loop when its receipt is committed.
GroupMessage(u) ==
    /\ At(u, "group")
    /\ receipts' = receipts \cup {u}
    /\ Advance(u)
    /\ UNCHANGED <<fixedVars, kept, updateCursor, forwards, signals, dispatch, chats, telegramFaults>>

GroupErrorLogged(u) == Advance(u)
GroupError(u) == StopBatch

GroupMessageFails(u) ==
    /\ At(u, "group") /\ TelegramFault
    /\ GroupError(u)
    /\ UNCHANGED <<fixedVars, kept, updateCursor, backVars>>

ForwardMessage(u) ==
    /\ At(u, "forward")
    /\ forwards' = forwards \cup {u}
    /\ Advance(u)
    /\ UNCHANGED <<fixedVars, kept, updateCursor, receipts, signals, dispatch, chats, telegramFaults>>

ForwardMessageFails(u) ==
    /\ At(u, "forward") /\ TelegramFault
    /\ StopBatch
    /\ UNCHANGED <<fixedVars, kept, updateCursor, backVars>>

\* A message of the owner is a trigger when there are forwards.
TriggerMessage(u) ==
    /\ At(u, "dm") /\ forwards # {} /\ signals < ForwardSignalCap
    /\ signals' = signals + 1
    /\ Advance(u)
    /\ UNCHANGED <<fixedVars, kept, updateCursor, forwards, receipts, dispatch, chats, telegramFaults>>

\* The channel stayed full until the timeout.
TriggerTimesOut(u) ==
    /\ At(u, "dm") /\ forwards # {} /\ signals = ForwardSignalCap
    /\ StopBatch
    /\ UNCHANGED <<fixedVars, kept, updateCursor, backVars, telegramFaults>>

\* Without forwards, or when they cannot be read, the message goes to the chat queue.
ChatMessage(u) ==
    /\ At(u, "dm")
    /\ IF forwards = {} THEN UNCHANGED telegramFaults ELSE TelegramFault
    /\ chats' = chats \cup {u}
    /\ Advance(u)
    /\ UNCHANGED <<fixedVars, kept, updateCursor, forwards, receipts, signals, dispatch>>

\* One cursor for the batch, at the last update that was handled; a failure is only logged.
SaveUpdateCursor ==
    /\ watch.pc = "save"
    /\ IF watch.good = 0 THEN UNCHANGED <<updateCursor, telegramFaults>>
       ELSE \/ updateCursor' = watch.good /\ UNCHANGED telegramFaults
            \/ TelegramFault /\ UNCHANGED updateCursor
    /\ watch' = Fetching(watch.offset)
    /\ UNCHANGED <<fixedVars, kept, backVars>>

-------------------------------------------------------------------------------
(* Dispatcher, sweeper, chat consumer, restart.                            *)

\* processSignal loads the forwards there are; a signal that finds none is dropped.
ReceiveSignal ==
    /\ dispatch.pc = "idle" /\ signals > 0
    /\ signals' = signals - 1
    /\ dispatch' = IF forwards = {} THEN NoDispatch ELSE [pc |-> "submit", batch |-> forwards]
    /\ UNCHANGED <<fixedVars, watchVars, forwards, receipts, chats, telegramFaults>>

\* enrichFn or LoadBatch fails.
ReceiveSignalFails ==
    /\ dispatch.pc = "idle" /\ signals > 0 /\ TelegramFault
    /\ signals' = signals - 1
    /\ UNCHANGED <<fixedVars, watchVars, forwards, receipts, dispatch, chats>>

\* DeleteEntriesTx: the entries of the snapshot leave, those with an older receipt too.
WholeChat(batch) == forwards
UnprocessedOnly(batch) == batch \ receipts
Deleted(batch) == batch

SubmitForwards ==
    /\ dispatch.pc = "submit"
    /\ receipts' = receipts \cup dispatch.batch
    /\ forwards' = forwards \ Deleted(dispatch.batch)
    /\ dispatch' = NoDispatch
    /\ UNCHANGED <<fixedVars, watchVars, signals, chats, telegramFaults>>

SubmitForwardsFails ==
    /\ dispatch.pc = "submit" /\ TelegramFault
    /\ dispatch' = NoDispatch
    /\ UNCHANGED <<fixedVars, watchVars, forwards, receipts, signals, chats>>

\* Submit drops the signal of a sweep when the channel is full.
SweepForwards ==
    /\ forwards # {} /\ signals < ForwardSignalCap
    /\ signals' = signals + 1
    /\ UNCHANGED <<fixedVars, watchVars, forwards, receipts, dispatch, chats, telegramFaults>>

AnswerChat(u) ==
    /\ u \in chats
    /\ chats' = chats \ {u}
    /\ UNCHANGED <<fixedVars, watchVars, forwards, receipts, signals, dispatch, telegramFaults>>

Restart ==
    /\ TelegramFault
    /\ watch' = Fetching(IF onJoin = "monitor" /\ updateCursor > 0 THEN updateCursor + 1 ELSE 0)
    /\ signals' = 0 /\ dispatch' = NoDispatch /\ chats' = {}
    /\ UNCHANGED <<fixedVars, kept, updateCursor, forwards, receipts>>

TelegramNext ==
    \/ GetUpdates \/ SaveUpdateCursor
    \/ \E u \in Updates :
           \/ GroupMessage(u) \/ GroupMessageFails(u)
           \/ ForwardMessage(u) \/ ForwardMessageFails(u)
           \/ TriggerMessage(u) \/ TriggerTimesOut(u) \/ ChatMessage(u) \/ AnswerChat(u)
    \/ ReceiveSignal \/ ReceiveSignalFails \/ SubmitForwards \/ SubmitForwardsFails
    \/ SweepForwards \/ Restart

TelegramSpec == TelegramInit /\ [][TelegramNext]_telegramVars

\* The dispatcher's goroutine takes the next signal and ends what it began, and the sweeper's
\* ticker comes round to forwards older than its timeout.
TelegramFairness == /\ WF_telegramVars(ReceiveSignal) /\ WF_telegramVars(SubmitForwards)
                    /\ WF_telegramVars(SweepForwards)

-------------------------------------------------------------------------------
(* Properties.                                                             *)

\* An update the loop will not ask for again, in this process or after a restart.
Acknowledged(u) == u < watch.offset \/ u <= updateCursor \/ u < kept

\* A group message is acknowledged only when its receipt is committed, however batches stop,
\* cursors fail to be saved and the process restarts ("do not acknowledge automatic input
\* until its durable intake transaction commits", internal/pipeline/pipeline.go).
GroupProcessed == \A u \in Updates :
    updateKind[u] = "group" /\ Acknowledged(u) => u \in receipts

\* An acknowledged forward is in the buffer or was submitted: one that arrives between the
\* dispatcher's snapshot and its commit is not deleted with the snapshot.
ForwardKept == \A u \in Updates :
    updateKind[u] = "forward" /\ Acknowledged(u) => u \in forwards \cup receipts

\* A buffered forward is submitted and leaves the buffer, although triggers are lost in
\* crashes, failed submissions and a full channel: the sweeper takes over.
ForwardsEnd == \A u \in Updates : u \in forwards ~> u \in receipts /\ u \notin forwards
===============================================================================
