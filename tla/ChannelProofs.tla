------------------------------ MODULE ChannelProofs ------------------------------
(***************************************************************************)
(* Proofs about the channels (internal/channel): the update loop of        *)
(* Telegram (TelegramIntake), the welcome of a guarded chat (GuardedChat), *)
(* the questions about automatic tasks (TaskQuestions), and the cursor of  *)
(* an IMAP folder (ImapPoll), for any number of updates, messages,         *)
(* welcomes, faults and restarts.                                          *)
(***************************************************************************)
EXTENDS TelegramIntake, GuardedChat, TaskQuestions, ImapPoll, SelectionProofs, TLAPS

(***************************************************************************)
(* The update loop: nothing is acknowledged before it is stored.           *)
(***************************************************************************)

\* What an update carries is where nothing can take it away: a consumed input, or a row.
Stored(u) ==
    /\ updateKind[u] = "group" => u \in receipts
    /\ updateKind[u] = "forward" => u \in forwards \cup receipts

\* Updates the loop has passed: acknowledged, about to become the cursor, or behind it in the
\* batch it works on.
Passed(u) ==
    Acknowledged(u) \/ u <= watch.good \/ (watch.pc = "handle" /\ u < watch.next)

PassedStored == \A u \in Updates : Passed(u) => Stored(u)

TelegramInv == TelegramTypeOK /\ PassedStored

WatchStates == [pc : {"fetch", "handle", "save"}, offset : 0 .. LastUpdate + 1,
                next : 0 .. LastUpdate + 1, end : 0 .. LastUpdate, good : 0 .. LastUpdate]

\* Where the next call starts: its own offset, or the oldest update the server has.
FirstKept == IF watch.offset > kept THEN watch.offset ELSE kept

-------------------------------------------------------------------------------
(* Types.                                                                  *)

\* A loop that starts to fetch is well typed wherever it starts.
LEMMA FetchingType ==
    ASSUME NEW offset \in 0 .. LastUpdate + 1
    PROVE  Fetching(offset) \in WatchStates
BY TelegramAssumption DEF Fetching, WatchStates

\* So is one that has handled an update, or has given a batch up.
LEMMA AdvanceType ==
    ASSUME watch \in WatchStates, NEW u \in Updates, Advance(u) \/ StopBatch
    PROVE  watch' \in WatchStates
<1>1. CASE StopBatch
  BY <1>1 DEF StopBatch, WatchStates
<1>2. CASE Advance(u)
  <2>1. u \in 0 .. LastUpdate /\ u + 1 \in 0 .. LastUpdate + 1
    BY TelegramAssumption DEF Updates
  <2>2. (IF u = watch.end THEN "save" ELSE "handle") \in {"fetch", "handle", "save"}
    OBVIOUS
  <2>. QED
    BY <1>2, <2>1, <2>2 DEF Advance, WatchStates
<1>. QED
  BY <1>1, <1>2

\* The process starts with values of their types.
LEMMA TelegramInitType == TelegramInit => TelegramTypeOK
<1>. SUFFICES ASSUME TelegramInit PROVE TelegramTypeOK
  OBVIOUS
<1>1. watch \in WatchStates
  BY TelegramAssumption, FetchingType DEF TelegramInit
<1>. QED
  BY <1>1, TelegramAssumption DEF TelegramInit, TelegramTypeOK, WatchStates, NoDispatch

\* The steps of the loop keep the types.
LEMMA LoopType ==
    ASSUME TelegramTypeOK, NEW u \in Updates,
           \/ GroupMessage(u) \/ GroupMessageFails(u) \/ ForwardMessage(u)
           \/ ForwardMessageFails(u) \/ TriggerMessage(u) \/ TriggerTimesOut(u) \/ ChatMessage(u)
    PROVE  TelegramTypeOK'
<1>. USE DEF TelegramTypeOK, fixedVars, backVars, TelegramFault
<1>1. watch' \in WatchStates
  BY AdvanceType DEF GroupMessage, GroupMessageFails, GroupError, ForwardMessage,
     ForwardMessageFails, TriggerMessage, TriggerTimesOut, ChatMessage, WatchStates
<1>2. CASE GroupMessage(u)
  BY <1>1, <1>2 DEF GroupMessage, WatchStates
<1>3. CASE GroupMessageFails(u)
  BY <1>1, <1>3, TelegramAssumption DEF GroupMessageFails, WatchStates
<1>4. CASE ForwardMessage(u)
  BY <1>1, <1>4 DEF ForwardMessage, WatchStates
<1>5. CASE ForwardMessageFails(u)
  BY <1>1, <1>5, TelegramAssumption DEF ForwardMessageFails, WatchStates
<1>6. CASE TriggerMessage(u)
  BY <1>1, <1>6, TelegramAssumption DEF TriggerMessage, WatchStates
<1>7. CASE TriggerTimesOut(u)
  BY <1>1, <1>7 DEF TriggerTimesOut, WatchStates
<1>8. CASE ChatMessage(u)
  BY <1>1, <1>8, TelegramAssumption DEF ChatMessage, WatchStates
<1>. QED
  BY <1>2, <1>3, <1>4, <1>5, <1>6, <1>7, <1>8

\* The other steps keep them too.
LEMMA TelegramStepType == TelegramTypeOK /\ [TelegramNext]_telegramVars => TelegramTypeOK'
<1>. SUFFICES ASSUME TelegramTypeOK, [TelegramNext]_telegramVars PROVE TelegramTypeOK'
  OBVIOUS
<1>. USE DEF TelegramTypeOK, fixedVars, backVars, watchVars, TelegramFault
<1>1. CASE GetUpdates
  <2>1. PICK last \in FirstKept .. LastUpdate :
           /\ kept' = FirstKept
           /\ watch' = [watch EXCEPT !.pc = "handle", !.next = FirstKept, !.end = last, !.good = 0]
    BY <1>1 DEF GetUpdates, FirstKept
  <2>2. FirstKept \in 1 .. LastUpdate /\ last \in 1 .. LastUpdate
    BY <2>1, TelegramAssumption DEF FirstKept
  <2>3. kept' \in 1 .. LastUpdate + 1
    BY <2>1, <2>2, TelegramAssumption
  <2>4. FirstKept \in 0 .. LastUpdate + 1 /\ last \in 0 .. LastUpdate /\ 0 \in 0 .. LastUpdate
    BY <2>2, TelegramAssumption
  <2>5. watch' \in WatchStates
    BY <2>1, <2>4 DEF WatchStates
  <2>. QED
    BY <1>1, <2>3, <2>5 DEF GetUpdates, WatchStates
<1>2. CASE SaveUpdateCursor
  <2>1. watch' \in WatchStates
    BY <1>2, FetchingType DEF SaveUpdateCursor
  <2>2. updateCursor' \in 0 .. LastUpdate /\ telegramFaults' \in 0 .. MaxTelegramFaults
    BY <1>2, TelegramAssumption DEF SaveUpdateCursor
  <2>. QED
    BY <1>2, <2>1, <2>2 DEF SaveUpdateCursor, WatchStates
<1>3. ASSUME NEW u \in Updates, AnswerChat(u) PROVE TelegramTypeOK'
  BY <1>3 DEF AnswerChat
<1>4. CASE ReceiveSignal
  BY <1>4, TelegramAssumption DEF ReceiveSignal, NoDispatch
<1>5. CASE ReceiveSignalFails
  BY <1>5, TelegramAssumption DEF ReceiveSignalFails
<1>6. CASE SubmitForwards
  BY <1>6 DEF SubmitForwards, NoDispatch, Deleted
<1>7. CASE SubmitForwardsFails
  BY <1>7, TelegramAssumption DEF SubmitForwardsFails, NoDispatch
<1>8. CASE SweepForwards
  BY <1>8, TelegramAssumption DEF SweepForwards
<1>9. CASE Restart
  <2>1. watch' \in WatchStates
    BY <1>9, FetchingType, TelegramAssumption DEF Restart
  <2>. QED
    BY <1>9, <2>1, TelegramAssumption DEF Restart, NoDispatch, WatchStates
<1>10. CASE UNCHANGED telegramVars
  BY <1>10 DEF telegramVars
<1>. QED
  BY <1>1, <1>2, <1>3, <1>4, <1>5, <1>6, <1>7, <1>8, <1>9, <1>10, LoopType DEF TelegramNext

-------------------------------------------------------------------------------
(* What is passed is stored.                                               *)

\* The submission of a batch moves rows to receipts, and no other step takes rows away.
LEMMA StoredStays ==
    ASSUME NEW u \in Updates, Stored(u), UNCHANGED updateKind,
           receipts \subseteq receipts', forwards \cup receipts \subseteq forwards' \cup receipts'
    PROVE  Stored(u)'
BY DEF Stored

\* The loop goes one update on, and only when that update is stored.
LEMMA AdvanceStored ==
    ASSUME TelegramTypeOK, PassedStored, NEW u \in Updates, watch.pc = "handle", watch.next = u,
           Advance(u), Stored(u)', UNCHANGED <<updateKind, kept, updateCursor>>,
           receipts \subseteq receipts', forwards \cup receipts \subseteq forwards' \cup receipts'
    PROVE  PassedStored'
<1>. SUFFICES ASSUME NEW x \in Updates, Passed(x)' PROVE Stored(x)'
  BY DEF PassedStored
<1>1. x = u \/ Passed(x)
  <2>1. /\ watch'.offset = u + 1 /\ watch'.next = u + 1 /\ watch'.good = u
    BY DEF Advance, TelegramTypeOK
  <2>. QED
    BY <2>1, TelegramAssumption DEF Passed, Acknowledged, Updates, TelegramTypeOK
<1>. QED
  BY <1>1, StoredStays DEF PassedStored

\* Steps that pass no update.
LEMMA NothingPassed ==
    ASSUME PassedStored, UNCHANGED updateKind,
           receipts \subseteq receipts', forwards \cup receipts \subseteq forwards' \cup receipts',
           \A u \in Updates : Passed(u)' => Passed(u)
    PROVE  PassedStored'
BY StoredStays DEF PassedStored

\* Every step keeps the invariant: one case per action.
LEMMA StoredStep ==
    TelegramTypeOK /\ PassedStored /\ [TelegramNext]_telegramVars => PassedStored'
<1>. SUFFICES ASSUME TelegramTypeOK, PassedStored, [TelegramNext]_telegramVars
              PROVE  PassedStored'
  OBVIOUS
<1>. USE DEF fixedVars, backVars, watchVars
<1>1. CASE GetUpdates
  <2>1. PICK last \in FirstKept .. LastUpdate :
           /\ kept' = FirstKept
           /\ watch' = [watch EXCEPT !.pc = "handle", !.next = FirstKept, !.end = last, !.good = 0]
    BY <1>1 DEF GetUpdates, FirstKept
  <2>2. \A u \in Updates : Passed(u)' => Passed(u)
    <3>1. /\ watch'.offset = watch.offset /\ watch'.next = FirstKept /\ watch'.good = 0
          /\ updateCursor' = updateCursor
      BY <1>1, <2>1 DEF GetUpdates, TelegramTypeOK
    <3>. QED
      BY <2>1, <3>1, TelegramAssumption DEF FirstKept, Passed, Acknowledged, Updates, TelegramTypeOK
  <2>. QED
    BY <1>1, <2>2, NothingPassed DEF GetUpdates
<1>2. CASE SaveUpdateCursor
  <2>1. \A u \in Updates : Passed(u)' => Passed(u)
    <3>1. watch'.offset = watch.offset /\ watch'.pc = "fetch" /\ watch'.good = 0
      BY <1>2 DEF SaveUpdateCursor, Fetching
    <3>2. updateCursor' = updateCursor \/ updateCursor' = watch.good
      BY <1>2 DEF SaveUpdateCursor
    <3>. QED
      BY <1>2, <3>1, <3>2 DEF SaveUpdateCursor, Passed, Acknowledged, Updates
  <2>. QED
    BY <1>2, <2>1, NothingPassed DEF SaveUpdateCursor
<1>3. ASSUME NEW u \in Updates,
             \/ GroupMessage(u) \/ ForwardMessage(u) \/ TriggerMessage(u) \/ ChatMessage(u)
      PROVE  PassedStored'
  <2>1. /\ Advance(u) /\ watch.pc = "handle" /\ watch.next = u
        /\ UNCHANGED <<updateKind, kept, updateCursor>>
        /\ receipts \subseteq receipts' /\ forwards \subseteq forwards'
    BY <1>3 DEF GroupMessage, ForwardMessage, TriggerMessage, ChatMessage, At
  <2>2. Stored(u)'
    BY <1>3 DEF GroupMessage, ForwardMessage, TriggerMessage, ChatMessage, At, Stored
  <2>. QED
    BY <2>1, <2>2, AdvanceStored
<1>4. ASSUME NEW u \in Updates,
             GroupMessageFails(u) \/ ForwardMessageFails(u) \/ TriggerTimesOut(u)
      PROVE  PassedStored'
  <2>1. /\ StopBatch /\ UNCHANGED <<updateKind, kept, updateCursor, forwards, receipts>>
    BY <1>4 DEF GroupMessageFails, GroupError, ForwardMessageFails, TriggerTimesOut
  <2>2. /\ watch'.offset = watch.offset /\ watch'.good = watch.good /\ watch'.pc = "save"
    BY <2>1 DEF StopBatch, TelegramTypeOK
  <2>3. \A x \in Updates : Passed(x)' => Passed(x)
    BY <2>1, <2>2 DEF Passed, Acknowledged
  <2>. QED
    BY <2>1, <2>3, NothingPassed
<1>5. ASSUME UNCHANGED <<updateKind, watchVars>>,
             receipts \subseteq receipts', forwards \cup receipts \subseteq forwards' \cup receipts'
      PROVE  PassedStored'
  <2>1. \A x \in Updates : Passed(x)' => Passed(x)
    BY <1>5 DEF Passed, Acknowledged
  <2>. QED
    BY <1>5, <2>1, NothingPassed
<1>6. ASSUME NEW u \in Updates, AnswerChat(u) PROVE PassedStored'
  BY <1>5, <1>6 DEF AnswerChat
<1>7. CASE ReceiveSignal \/ ReceiveSignalFails \/ SubmitForwardsFails \/ SweepForwards
  BY <1>5, <1>7 DEF ReceiveSignal, ReceiveSignalFails, SubmitForwardsFails, SweepForwards
<1>8. CASE SubmitForwards
  BY <1>5, <1>8 DEF SubmitForwards, Deleted
<1>9. CASE Restart
  <2>1. \A u \in Updates : Passed(u)' => Passed(u)
    <3>1. /\ watch'.offset \in {0, updateCursor + 1} /\ watch'.pc = "fetch" /\ watch'.good = 0
      BY <1>9 DEF Restart, Fetching
    <3>. QED
      BY <1>9, <3>1 DEF Restart, Passed, Acknowledged, Updates, TelegramTypeOK
  <2>. QED
    BY <1>9, <2>1, NothingPassed DEF Restart
<1>10. CASE UNCHANGED telegramVars
  BY <1>5, <1>10 DEF telegramVars
<1>. QED
  BY <1>1, <1>2, <1>3, <1>4, <1>6, <1>7, <1>8, <1>9, <1>10 DEF TelegramNext

\* The inductive invariant: types, and that what the loop has passed is stored.
THEOREM TelegramInvariant == TelegramSpec => []TelegramInv
<1>1. TelegramInit => TelegramInv
  <2>. SUFFICES ASSUME TelegramInit PROVE PassedStored
    BY TelegramInitType DEF TelegramInv
  <2>1. \A u \in Updates : ~Passed(u)
    BY DEF TelegramInit, Fetching, Passed, Acknowledged, Updates
  <2>. QED
    BY <2>1 DEF PassedStored
<1>2. TelegramInv /\ [TelegramNext]_telegramVars => TelegramInv'
  BY TelegramStepType, StoredStep DEF TelegramInv
<1>. QED
  BY <1>1, <1>2, PTL DEF TelegramSpec

\* The loop's place in its batch, its cursor and the buffer of forwards stay within the updates
\* there are, whatever the server answers (telegram.go, Watch).
THEOREM TelegramTyped == TelegramSpec => []TelegramTypeOK
<1>1. TelegramInv => TelegramTypeOK
  BY DEF TelegramInv
<1>. QED
  BY <1>1, TelegramInvariant, PTL

\* A group message is acknowledged only after its receipt is committed, with any number of
\* stopped batches, lost cursors and restarts (telegram.go, Watch and processRawUpdate).
THEOREM GroupMessagesProcessed == TelegramSpec => []GroupProcessed
<1>1. TelegramInv => GroupProcessed
  BY DEF TelegramInv, PassedStored, Passed, Stored, GroupProcessed
<1>. QED
  BY <1>1, TelegramInvariant, PTL

\* An acknowledged forward is in the buffer or was submitted, whatever the dispatcher deletes
\* (forward_dispatcher.go, processSignal).
THEOREM ForwardsKept == TelegramSpec => []ForwardKept
<1>1. TelegramInv => ForwardKept
  BY DEF TelegramInv, PassedStored, Passed, Stored, ForwardKept
<1>. QED
  BY <1>1, TelegramInvariant, PTL

(***************************************************************************)
(* The guard: a welcome in time keeps the chat, a restart admits nobody.   *)
(***************************************************************************)

LoopStates == [pc : {"start", "poll", "batch", "upsert", "erase", "leave", "eraseLate"},
               fetched : 0 .. MaxGuardUpdates, handled : 0 .. MaxGuardUpdates,
               acked : 0 .. MaxGuardUpdates, welcome : 0 .. MaxWelcomes]

Fates == [confirmed : SUBSET Welcomes, left : SUBSET Welcomes, owner : BOOLEAN,
          ownerLeft : BOOLEAN]

\* The batch consists of updates that exist, and a step that is still to finish an update has
\* not counted it yet.
UpdatesInv ==
    /\ Len(chatUpdates) <= MaxGuardUpdates
    /\ loop.fetched <= Len(chatUpdates)
    /\ loop.pc \in {"upsert", "erase"} => loop.handled < loop.fetched

GuardShape == GuardTypeOK /\ UpdatesInv

\* Confirmed welcomes were sent and chats were left for late ones; what is pending or in the
\* table is neither, and neither is what the loop is about to confirm or to leave for.
FateInv ==
    /\ fate.confirmed \subseteq 1 .. welcomes /\ fate.left \subseteq 1 .. late
    /\ fate.left \cap fate.confirmed = {}
    /\ {pending, guardRow} \cap fate.confirmed = {} /\ pending \notin fate.left
    /\ loop.pc \in {"start", "erase", "leave"} => pending = 0
    /\ loop.pc = "erase" => loop.welcome \in (1 .. welcomes) \ fate.left
    /\ loop.pc = "leave" => loop.welcome \in (1 .. late) \ fate.confirmed
    /\ loop.pc = "upsert" => pending = welcomes /\ welcomes > 0

\* An update that says the bot was added is still to be handled, or handled again.
AddedAhead == \E i \in loop.handled + 1 .. Len(chatUpdates) : chatUpdates[i].kind = "added"

\* Nobody is admitted: the last welcome was confirmed, or its row is there and the step the loop
\* is at will not forget it.
Watched ==
    \/ welcomes \in fate.confirmed
    \/ /\ guardRow = welcomes /\ welcomes > 0
       /\ loop.pc \in {"poll", "batch"} => pending = welcomes
       /\ loop.pc = "erase" => loop.welcome = welcomes
       /\ loop.pc \notin {"upsert", "eraseLate"}

\* Where the loop stands among the updates: the step that is still to finish an update is one
\* for an update of its kind.
PlaceInv ==
    /\ loop.handled <= Len(chatUpdates)
    /\ loop.pc = "upsert" => Update.kind = "added"
    /\ loop.pc = "erase" => Update.kind = "confirm"

AdmitInv == ~callFailed /\ inChat /\ ~AddedAhead /\ ~fate.owner => Watched

-------------------------------------------------------------------------------
(* Types.                                                                  *)

\* The chat and the process start with values of their types.
LEMMA GuardInitShape == GuardInit => GuardShape
<1>. SUFFICES ASSUME GuardInit PROVE GuardShape
  OBVIOUS
<1>1. <<>> \in Seq(GuardUpdates) /\ Len(<<>>) = 0
  OBVIOUS
<1>2. 0 \in 0 .. MaxGuardUpdates /\ 0 \in 0 .. MaxWelcomes /\ 0 \in 0 .. MaxGuardFaults
  BY GuardAssumption
<1>3. loop \in LoopStates /\ loop.acked <= loop.handled /\ loop.fetched = 0 /\ loop.pc = "poll"
  BY <1>2 DEF GuardInit, LoopStates
<1>4. fate \in Fates
  BY DEF GuardInit, Fates
<1>5. 0 \in 0 .. 0 /\ 0 <= MaxGuardUpdates
  BY GuardAssumption
<1>6. GuardTypeOK
  BY <1>1, <1>2, <1>3, <1>4, <1>5 DEF GuardInit, GuardTypeOK, LoopStates, Fates
<1>7. UpdatesInv
  BY <1>1, <1>3, <1>5 DEF GuardInit, UpdatesInv
<1>. QED
  BY <1>6, <1>7 DEF GuardShape

\* The loop's record by itself.
LEMMA GuardLoopType == GuardShape => loop \in LoopStates /\ loop.acked <= loop.handled
BY DEF GuardShape, GuardTypeOK, LoopStates

\* The next update of a batch is one of the chat's.
LEMMA UpdateType ==
    ASSUME GuardShape, loop.handled < loop.fetched
    PROVE  Update \in GuardUpdates /\ loop.handled + 1 \in 1 .. Len(chatUpdates)
<1>1. loop.handled + 1 \in 1 .. Len(chatUpdates)
  BY DEF GuardShape, GuardTypeOK, UpdatesInv
<1>. QED
  BY <1>1 DEF Update, GuardShape, GuardTypeOK

\* A welcome that is confirmed is one that was sent.
LEMMA ConfirmedType ==
    ASSUME GuardShape, ConfirmChat PROVE pending \in 1 .. welcomes
<1>1. Update \in GuardUpdates /\ Update.kind = "confirm"
  BY UpdateType DEF ConfirmChat, InBatch
<1>2. Update.welcome \in Welcomes
  BY <1>1 DEF GuardUpdates
<1>. QED
  BY <1>2, GuardAssumption DEF ConfirmChat, GuardShape, GuardTypeOK, Welcomes

\* Appending an update leaves the earlier ones where they are.
LEMMA AppendShape ==
    ASSUME GuardShape, NEW u \in GuardUpdates, Len(chatUpdates) < MaxGuardUpdates,
           chatUpdates' = Append(chatUpdates, u)
    PROVE  /\ chatUpdates' \in Seq(GuardUpdates) /\ Len(chatUpdates') = Len(chatUpdates) + 1
           /\ Len(chatUpdates') <= MaxGuardUpdates
           /\ chatUpdates'[Len(chatUpdates) + 1] = u
           /\ \A i \in 1 .. Len(chatUpdates) : chatUpdates'[i] = chatUpdates[i]
BY GuardAssumption DEF GuardShape, GuardTypeOK

\* The loop goes on to the next update.
LEMMA HandledType ==
    ASSUME GuardShape, loop.handled < loop.fetched, loop' = Handled
    PROVE  /\ loop' \in LoopStates /\ loop'.acked <= loop'.handled /\ loop'.pc = "batch"
           /\ loop'.fetched = loop.fetched /\ loop'.handled = loop.handled + 1
           /\ loop'.welcome = loop.welcome /\ loop'.acked = loop.acked
<1>1. loop.handled + 1 \in 0 .. MaxGuardUpdates
  BY GuardAssumption DEF GuardShape, GuardTypeOK, UpdatesInv
<1>2. loop' \in LoopStates /\ loop'.handled = loop.handled + 1 /\ loop'.acked = loop.acked
  BY <1>1, GuardLoopType DEF Handled, LoopStates
<1>3. loop.acked \in Int /\ loop.handled \in Int /\ loop.acked <= loop.handled
  BY GuardLoopType DEF LoopStates
<1>. QED
  BY <1>2, <1>3, GuardLoopType DEF Handled, LoopStates

\* The chat's own steps keep the shape.
LEMMA ChatShape ==
    ASSUME GuardShape,
           (\E owner \in BOOLEAN : BotAdded(owner)) \/ BotRemoved \/ DeadlinePasses
              \/ \E w \in Welcomes : OwnerConfirms(w)
    PROVE  GuardShape'
<1>. USE DEF GuardShape, GuardTypeOK, UpdatesInv, NoFault
<1>1. ASSUME NEW owner \in BOOLEAN, BotAdded(owner) PROVE GuardShape'
  <2>1. [kind |-> "added", owner |-> owner] \in GuardUpdates
    BY DEF GuardUpdates
  <2>2. /\ chatUpdates' \in Seq(GuardUpdates) /\ Len(chatUpdates') = Len(chatUpdates) + 1
        /\ Len(chatUpdates') <= MaxGuardUpdates
    BY <1>1, <2>1, AppendShape DEF BotAdded
  <2>. QED
    BY <1>1, <2>2 DEF BotAdded
<1>2. ASSUME NEW w \in Welcomes, OwnerConfirms(w) PROVE GuardShape'
  <2>1. [kind |-> "confirm", welcome |-> w] \in GuardUpdates
    BY DEF GuardUpdates
  <2>2. /\ chatUpdates' \in Seq(GuardUpdates) /\ Len(chatUpdates') = Len(chatUpdates) + 1
        /\ Len(chatUpdates') <= MaxGuardUpdates
    BY <1>2, <2>1, AppendShape DEF OwnerConfirms
  <2>. QED
    BY <1>2, <2>2 DEF OwnerConfirms
<1>3. CASE BotRemoved
  BY <1>3 DEF BotRemoved
<1>4. CASE DeadlinePasses
  BY <1>4 DEF DeadlinePasses
<1>. QED
  BY <1>1, <1>2, <1>3, <1>4

\* The shape after a step of the loop that appends no update.
LEMMA LoopShape ==
    ASSUME GuardShape, UNCHANGED chatUpdates, inChat' \in BOOLEAN, NoFault \/ CallFails,
           loop' \in LoopStates, loop'.acked <= loop'.handled, loop'.fetched <= Len(chatUpdates),
           loop'.pc \in {"upsert", "erase"} => loop'.handled < loop'.fetched,
           welcomes' \in 0 .. MaxWelcomes, UNCHANGED late, welcomes <= welcomes',
           pending' \in 0 .. welcomes', guardRow' \in 0 .. welcomes',
           fate' \in Fates
    PROVE  GuardShape'
<1>1. guardFaults' \in 0 .. MaxGuardFaults /\ callFailed' \in BOOLEAN
  <2>1. guardFaults \in 0 .. MaxGuardFaults /\ callFailed \in BOOLEAN
    BY DEF GuardShape, GuardTypeOK
  <2>2. CASE NoFault
    BY <2>1, <2>2 DEF NoFault
  <2>3. CASE CallFails
    BY <2>1, <2>3, GuardAssumption DEF CallFails, GuardFault
  <2>. QED
    BY <2>2, <2>3
<1>2. late' \in 0 .. welcomes'
  BY DEF GuardShape, GuardTypeOK
<1>. QED
  BY <1>1, <1>2 DEF GuardShape, GuardTypeOK, UpdatesInv, LoopStates, Fates

\* The steps that handle updates keep the shape.
LEMMA BatchShape ==
    ASSUME GuardShape, FateInv,
           \/ PollGuard \/ AddedByOwner \/ SendWelcome \/ SendWelcomeFails \/ UpsertPending
           \/ ConfirmChat \/ IgnoreConfirmation \/ DeletePending \/ EndBatch
    PROVE  GuardShape'
<1>. USE GuardLoopType DEF InBatch
<1>0. /\ inChat \in BOOLEAN /\ late \in Nat
      /\ welcomes \in 0 .. MaxWelcomes /\ pending \in 0 .. welcomes /\ guardRow \in 0 .. welcomes
      /\ loop.fetched <= Len(chatUpdates) /\ Len(chatUpdates) \in 0 .. MaxGuardUpdates
      /\ loop.pc \in {"upsert", "erase"} => loop.handled < loop.fetched
      /\ welcomes <= welcomes /\ 0 \in 0 .. welcomes /\ pending \in 0 .. MaxWelcomes
  BY GuardAssumption DEF GuardShape, GuardTypeOK, UpdatesInv
<1>00. fate \in Fates
  BY DEF GuardShape, GuardTypeOK, Fates
<1>1. CASE PollGuard
  <2>1. /\ loop' \in LoopStates /\ loop'.acked = loop.handled /\ loop'.handled = loop.handled
        /\ loop'.fetched = Len(chatUpdates) /\ loop'.pc = "batch"
    BY <1>1, <1>0 DEF PollGuard, LoopStates
  <2>2. loop'.acked <= loop'.handled /\ loop'.fetched <= Len(chatUpdates)
    BY <2>1, <1>0 DEF LoopStates
  <2>. QED
    BY <1>0, <1>00, <1>1, <2>1, <2>2, LoopShape DEF PollGuard
<1>2. CASE AddedByOwner
  <2>1. fate' \in Fates
    BY <1>2, <1>00 DEF AddedByOwner, Fates
  <2>. QED
    BY <1>0, <1>2, <2>1, HandledType, LoopShape DEF AddedByOwner
<1>3. CASE SendWelcome
  <2>1. /\ welcomes + 1 \in 0 .. MaxWelcomes /\ welcomes + 1 \in 0 .. welcomes + 1
        /\ welcomes <= welcomes + 1 /\ guardRow \in 0 .. welcomes + 1
    BY <1>3, <1>0, GuardAssumption DEF SendWelcome
  <2>2. /\ loop' \in LoopStates /\ loop'.acked = loop.acked /\ loop'.handled = loop.handled
        /\ loop'.fetched = loop.fetched /\ loop.handled < loop.fetched
    BY <1>3 DEF SendWelcome, LoopStates
  <2>3. fate' \in Fates
    BY <1>3, <1>00 DEF SendWelcome, Fates
  <2>. QED
    BY <1>0, <1>3, <2>1, <2>2, <2>3, LoopShape DEF SendWelcome
<1>4. CASE SendWelcomeFails
  <2>1. fate' \in Fates
    BY <1>4, <1>00 DEF SendWelcomeFails, Fates
  <2>. QED
    BY <1>0, <1>4, <2>1, HandledType, LoopShape DEF SendWelcomeFails
<1>5. CASE UpsertPending
  <2>1. guardRow' \in 0 .. welcomes /\ (NoFault \/ CallFails)
    BY <1>0, <1>5 DEF UpsertPending
  <2>. QED
    BY <1>0, <1>00, <1>5, <2>1, HandledType, LoopShape DEF UpsertPending
<1>6. CASE ConfirmChat
  <2>1. /\ loop' \in LoopStates /\ loop'.acked = loop.acked /\ loop'.handled = loop.handled
        /\ loop'.fetched = loop.fetched
    BY <1>0, <1>6 DEF ConfirmChat, LoopStates
  <2>. QED
    BY <1>0, <1>00, <1>6, <2>1, LoopShape DEF ConfirmChat
<1>7. CASE IgnoreConfirmation
  BY <1>0, <1>00, <1>7, HandledType, LoopShape DEF IgnoreConfirmation
<1>8. CASE DeletePending
  <2>1. /\ loop' \in LoopStates /\ loop'.acked <= loop'.handled /\ loop'.pc = "batch"
        /\ loop'.fetched = loop.fetched
    BY <1>0, <1>8, HandledType DEF DeletePending
  <2>2. guardRow' \in 0 .. welcomes /\ (NoFault \/ CallFails)
    BY <1>0, <1>8 DEF DeletePending, RowErased
  <2>3. CASE UNCHANGED fate
    BY <1>0, <1>00, <1>8, <2>1, <2>2, <2>3, LoopShape DEF DeletePending
  <2>4. CASE fate' = [fate EXCEPT !.confirmed = @ \cup {loop.welcome}] /\ loop.welcome \in Welcomes
    <3>1. fate' \in Fates
      BY <1>00, <2>4 DEF Fates
    <3>. QED
      BY <1>0, <1>8, <2>1, <2>2, <3>1, LoopShape DEF DeletePending
  <2>. QED
    <3>1. loop.welcome \in Welcomes
      BY <1>0, <1>8, GuardAssumption DEF DeletePending, FateInv, Welcomes
    <3>. QED
      BY <1>8, <2>3, <2>4, <3>1 DEF DeletePending
<1>9. CASE EndBatch
  <2>1. /\ loop' \in LoopStates /\ loop'.acked <= loop'.handled /\ loop'.pc = "poll"
        /\ loop'.fetched = loop.fetched
    <3>1. CASE loop' = [loop EXCEPT !.pc = "poll", !.acked = loop.handled]
      <4>1. loop.handled \in 0 .. MaxGuardUpdates /\ loop.handled <= loop.handled
        BY GuardAssumption DEF LoopStates
      <4>. QED
        BY <3>1, <4>1 DEF LoopStates
    <3>2. CASE loop' = [loop EXCEPT !.pc = "poll"]
      BY <3>2 DEF LoopStates
    <3>. QED
      BY <1>9, <3>1, <3>2 DEF EndBatch
  <2>. QED
    BY <1>0, <1>00, <1>9, <2>1, LoopShape DEF EndBatch
<1>. QED
  BY <1>1, <1>2, <1>3, <1>4, <1>5, <1>6, <1>7, <1>8, <1>9

\* Deadlines, crashes and recoveries keep the shape.
LEMMA RestartShape ==
    ASSUME GuardShape, FateInv,
           \/ ExpirePending \/ LeaveChat \/ LeaveChatFails \/ DeleteLate
           \/ GuardRestart \/ RecoverPending
    PROVE  GuardShape'
<1>. USE GuardLoopType
<1>0. /\ inChat \in BOOLEAN
      /\ welcomes \in 0 .. MaxWelcomes /\ pending \in 0 .. welcomes /\ guardRow \in 0 .. welcomes
      /\ loop.fetched <= Len(chatUpdates) /\ welcomes <= welcomes /\ 0 \in 0 .. welcomes
      /\ pending \in 0 .. MaxWelcomes /\ guardRow \in 0 .. MaxWelcomes
  BY GuardAssumption DEF GuardShape, GuardTypeOK, UpdatesInv
<1>00. fate \in Fates
  BY DEF GuardShape, GuardTypeOK, Fates
<1>1. ASSUME UNCHANGED <<chatUpdates, welcomes, late>>, NoFault \/ CallFails,
             loop' \in LoopStates, loop'.acked <= loop'.handled,
             loop'.fetched = loop.fetched, loop'.pc \notin {"upsert", "erase"},
             inChat' \in BOOLEAN, pending' \in 0 .. welcomes, guardRow' \in 0 .. welcomes,
             fate' \in Fates
      PROVE  GuardShape'
  BY <1>0, <1>1, LoopShape
<1>2. CASE ExpirePending
  <2>1. /\ loop' \in LoopStates /\ loop'.acked = loop.acked /\ loop'.handled = loop.handled
        /\ loop'.fetched = loop.fetched /\ loop'.pc = "leave"
    BY <1>0, <1>2 DEF ExpirePending, LoopStates
  <2>. QED
    BY <1>0, <1>00, <1>1, <1>2, <2>1 DEF ExpirePending
<1>3. CASE LeaveChat
  <2>1. /\ loop' \in LoopStates /\ loop'.acked = loop.acked /\ loop'.handled = loop.handled
        /\ loop'.fetched = loop.fetched /\ loop'.pc = "eraseLate"
    BY <1>3 DEF LeaveChat, LoopStates
  <2>2. fate' \in Fates
    <3>1. loop.welcome \in 1 .. late /\ late \in 0 .. welcomes
      BY <1>3 DEF LeaveChat, FateInv, GuardShape, GuardTypeOK
    <3>11. loop.welcome \in Welcomes
      BY <1>0, <3>1, GuardAssumption DEF Welcomes
    <3>2. fate.ownerLeft \/ fate.owner \in BOOLEAN
      BY <1>00 DEF Fates
    <3>3. fate.left \cup {loop.welcome} \in SUBSET Welcomes
      BY <1>00, <3>11 DEF Fates
    <3>. QED
      BY <1>00, <1>3, <3>2, <3>3 DEF Fates, LeaveChat
  <2>. QED
    BY <1>0, <1>1, <1>3, <2>1, <2>2 DEF LeaveChat
<1>4. CASE LeaveChatFails
  <2>1. /\ loop' \in LoopStates /\ loop'.acked = loop.acked /\ loop'.handled = loop.handled
        /\ loop'.fetched = loop.fetched /\ loop'.pc = "eraseLate"
    BY <1>4 DEF LeaveChatFails, LoopStates
  <2>. QED
    BY <1>0, <1>00, <1>1, <1>4, <2>1 DEF LeaveChatFails
<1>5. CASE DeleteLate
  <2>1. /\ loop' \in LoopStates /\ loop'.acked = loop.acked /\ loop'.handled = loop.handled
        /\ loop'.fetched = loop.fetched /\ loop'.pc = "poll"
    BY <1>5 DEF DeleteLate, LoopStates
  <2>2. guardRow' \in 0 .. welcomes /\ (NoFault \/ CallFails)
    BY <1>0, <1>5 DEF DeleteLate
  <2>. QED
    BY <1>0, <1>00, <1>1, <1>5, <2>1, <2>2 DEF DeleteLate
<1>6. CASE GuardRestart
  <2>1. /\ loop' \in LoopStates /\ loop'.acked = loop'.handled
        /\ loop'.fetched = loop.fetched /\ loop'.pc = "start"
    BY <1>6 DEF GuardRestart, LoopStates
  <2>2. loop'.acked <= loop'.handled
    BY <2>1, GuardAssumption DEF LoopStates
  <2>3. guardFaults' \in 0 .. MaxGuardFaults
    BY <1>6, GuardAssumption DEF GuardRestart, GuardFault, GuardShape, GuardTypeOK
  <2>4. callFailed' \in BOOLEAN /\ late' \in 0 .. welcomes'
    BY <1>6 DEF GuardRestart, GuardShape, GuardTypeOK
  <2>5. GuardTypeOK'
    BY <1>6, <1>0, <1>00, <2>1, <2>2, <2>3, <2>4
       DEF GuardRestart, GuardShape, GuardTypeOK, LoopStates, Fates
  <2>. QED
    BY <1>6, <2>1, <2>5 DEF GuardRestart, GuardShape, UpdatesInv
<1>7. CASE RecoverPending
  <2>1. /\ loop' \in LoopStates /\ loop'.acked = loop.acked /\ loop'.handled = loop.handled
        /\ loop'.fetched = loop.fetched /\ loop'.pc \in {"poll", "leave"}
    BY <1>0, <1>7 DEF RecoverPending, LoopStates
  <2>2. pending' \in 0 .. welcomes /\ (NoFault \/ CallFails)
    BY <1>0, <1>7 DEF RecoverPending, Restores
  <2>. QED
    BY <1>0, <1>00, <1>1, <1>7, <2>1, <2>2 DEF RecoverPending
<1>. QED
  BY <1>2, <1>3, <1>4, <1>5, <1>6, <1>7

\* Every step keeps the shape.
LEMMA GuardStepShape ==
    GuardShape /\ FateInv /\ [GuardNext]_guardVars => GuardShape'
<1>1. GuardShape /\ UNCHANGED guardVars => GuardShape'
  BY DEF guardVars, GuardShape, GuardTypeOK, UpdatesInv
<1>. QED
  BY <1>1, ChatShape, BatchShape, RestartShape DEF GuardNext

-------------------------------------------------------------------------------
(* Confirmed or left.                                                      *)

\* The numbers of the types, for the steps below.
LEMMA Numbers ==
    ASSUME GuardShape
    PROVE  /\ welcomes \in Nat /\ late \in Nat /\ late <= welcomes
           /\ pending \in 0 .. welcomes /\ guardRow \in 0 .. welcomes
           /\ fate \in Fates /\ loop \in LoopStates
BY GuardAssumption DEF GuardShape, GuardTypeOK, Fates, LoopStates

\* Every step keeps apart what was confirmed and what was left: one case per kind of step.
LEMMA FateStep ==
    GuardShape /\ FateInv /\ [GuardNext]_guardVars => FateInv'
<1>. SUFFICES ASSUME GuardShape, FateInv, [GuardNext]_guardVars PROVE FateInv'
  OBVIOUS
<1>. USE Numbers
<1>1. ASSUME UNCHANGED <<pending, guardRow, welcomes, late, fate>>,
             \/ loop'.pc = loop.pc /\ loop'.welcome = loop.welcome
             \/ loop'.pc \in {"poll", "batch"}
      PROVE  FateInv'
  BY <1>1 DEF FateInv
<1>2. ASSUME NEW owner \in BOOLEAN, BotAdded(owner) PROVE FateInv'
  BY <1>1, <1>2 DEF BotAdded
<1>3. ASSUME NEW w \in Welcomes, OwnerConfirms(w) PROVE FateInv'
  BY <1>1, <1>3 DEF OwnerConfirms
<1>4. CASE BotRemoved
  BY <1>1, <1>4 DEF BotRemoved
<1>5. CASE DeadlinePasses
  BY <1>5 DEF DeadlinePasses, FateInv
<1>6. CASE PollGuard \/ IgnoreConfirmation \/ EndBatch
  <2>1. loop'.pc \in {"poll", "batch"}
    BY <1>6 DEF PollGuard, IgnoreConfirmation, EndBatch, Handled, LoopStates
  <2>. QED
    BY <1>1, <1>6, <2>1 DEF PollGuard, IgnoreConfirmation, EndBatch
<1>7. CASE AddedByOwner \/ SendWelcomeFails
  <2>1. loop'.pc = "batch" /\ fate'.confirmed = fate.confirmed /\ fate'.left = fate.left
    BY <1>7 DEF AddedByOwner, SendWelcomeFails, Handled, LoopStates, Fates
  <2>. QED
    BY <1>7, <2>1 DEF AddedByOwner, SendWelcomeFails, FateInv
<1>8. CASE SendWelcome
  <2>1. loop'.pc = "upsert" /\ fate'.confirmed = fate.confirmed /\ fate'.left = fate.left
    BY <1>8 DEF SendWelcome, LoopStates, Fates
  <2>. QED
    BY <1>8, <2>1 DEF SendWelcome, FateInv
<1>9. CASE UpsertPending
  <2>1. loop'.pc = "batch"
    BY <1>9 DEF UpsertPending, Handled, LoopStates
  <2>. QED
    BY <1>9, <2>1 DEF UpsertPending, FateInv
<1>10. CASE ConfirmChat
  <2>1. loop'.pc = "erase" /\ loop'.welcome = pending
    BY <1>10 DEF ConfirmChat, LoopStates
  <2>2. pending \in 1 .. welcomes
    BY <1>10, ConfirmedType
  <2>. QED
    BY <1>10, <2>1, <2>2 DEF ConfirmChat, FateInv
<1>11. CASE DeletePending
  <2>1. loop'.pc = "batch" /\ pending = 0
    BY <1>11 DEF DeletePending, Handled, LoopStates, FateInv
  <2>2. CASE UNCHANGED <<guardRow, fate>>
    BY <1>11, <2>1, <2>2 DEF DeletePending, FateInv
  <2>3. CASE guardRow' = RowErased /\ fate' = [fate EXCEPT !.confirmed = @ \cup {loop.welcome}]
    <3>1. fate'.confirmed = fate.confirmed \cup {loop.welcome} /\ fate'.left = fate.left
      BY <2>3 DEF Fates
    <3>. QED
      BY <1>11, <2>1, <2>3, <3>1 DEF DeletePending, RowErased, FateInv
  <2>. QED
    BY <1>11, <2>2, <2>3 DEF DeletePending
<1>12. CASE ExpirePending
  <2>1. loop'.pc = "leave" /\ loop'.welcome = pending
    BY <1>12 DEF ExpirePending, LoopStates
  <2>. QED
    BY <1>12, <2>1 DEF ExpirePending, FateInv
<1>13. CASE LeaveChat
  <2>1. /\ loop'.pc = "eraseLate" /\ fate'.confirmed = fate.confirmed
        /\ fate'.left = fate.left \cup {loop.welcome}
    BY <1>13 DEF LeaveChat, LoopStates, Fates
  <2>. QED
    BY <1>13, <2>1 DEF LeaveChat, FateInv
<1>14. CASE LeaveChatFails
  <2>1. loop'.pc = "eraseLate"
    BY <1>14 DEF LeaveChatFails, LoopStates
  <2>. QED
    BY <1>14, <2>1 DEF LeaveChatFails, FateInv
<1>15. CASE DeleteLate
  <2>1. loop'.pc = "poll"
    BY <1>15 DEF DeleteLate, LoopStates
  <2>. QED
    BY <1>15, <2>1 DEF DeleteLate, FateInv
<1>16. CASE GuardRestart
  <2>1. loop'.pc = "start"
    BY <1>16 DEF GuardRestart, LoopStates
  <2>. QED
    BY <1>16, <2>1 DEF GuardRestart, FateInv
<1>17. CASE RecoverPending
  <2>1. CASE guardRow \notin 1 .. late /\ pending' = Restores /\ loop' = [loop EXCEPT !.pc = "poll"]
    <3>1. loop'.pc = "poll"
      BY <2>1 DEF LoopStates
    <3>. QED
      BY <1>17, <2>1, <3>1 DEF RecoverPending, Restores, FateInv
  <2>2. CASE /\ guardRow \in 1 .. late /\ UNCHANGED pending
             /\ loop' = [loop EXCEPT !.pc = "leave", !.welcome = guardRow]
    <3>1. loop'.pc = "leave" /\ loop'.welcome = guardRow
      BY <2>2 DEF LoopStates
    <3>. QED
      BY <1>17, <2>2, <3>1 DEF RecoverPending, FateInv
  <2>3. CASE UNCHANGED pending /\ loop' = [loop EXCEPT !.pc = "poll"]
    <3>1. loop'.pc = "poll"
      BY <2>3 DEF LoopStates
    <3>. QED
      BY <1>17, <2>3, <3>1 DEF RecoverPending, FateInv
  <2>. QED
    BY <1>17, <2>1, <2>2, <2>3 DEF RecoverPending
<1>18. CASE UNCHANGED guardVars
  BY <1>1, <1>18 DEF guardVars
<1>. QED
  BY <1>2, <1>3, <1>4, <1>5, <1>6, <1>7, <1>8, <1>9, <1>10, <1>11, <1>12, <1>13, <1>14, <1>15,
     <1>16, <1>17, <1>18 DEF GuardNext

\* What was confirmed is never left: the invariant that carries it.
THEOREM GuardInvariant == GuardSpec => [](GuardShape /\ FateInv)
<1>1. GuardInit => GuardShape /\ FateInv
  BY GuardInitShape DEF GuardInit, FateInv
<1>2. GuardShape /\ FateInv /\ [GuardNext]_guardVars => (GuardShape /\ FateInv)'
  BY GuardStepShape, FateStep
<1>. QED
  BY <1>1, <1>2, PTL DEF GuardSpec

\* The loop never acknowledges an update it has not handled, and what is pending or in the table
\* is a welcome that was sent (telegram.go, handleJoin and recoverPendingFromStore).
THEOREM GuardTyped == GuardSpec => []GuardTypeOK
<1>1. GuardShape /\ FateInv => GuardTypeOK
  BY DEF GuardShape
<1>. QED
  BY <1>1, GuardInvariant, PTL

\* The bot does not leave for a welcome whose confirmation it has recorded, whatever crashes
\* come between the answer and the deadline (telegram.go, confirmChat and
\* recoverPendingFromStore).
THEOREM ConfirmedNeverLeft == GuardSpec => []LeftOnlyUnconfirmed
<1>1. FateInv => LeftOnlyUnconfirmed
  BY DEF FateInv, LeftOnlyUnconfirmed
<1>. QED
  BY <1>1, GuardInvariant, PTL

-------------------------------------------------------------------------------
(* Restarts admit nobody.                                                  *)

\* An update that is appended leaves the additions that are ahead where they are, and the one
\* at hand; an addition is itself ahead.
LEMMA AheadAppend ==
    ASSUME GuardShape, PlaceInv, NEW u \in GuardUpdates, Len(chatUpdates) < MaxGuardUpdates,
           chatUpdates' = Append(chatUpdates, u), UNCHANGED loop
    PROVE  /\ PlaceInv'
           /\ u.kind = "added" => AddedAhead'
           /\ AddedAhead => AddedAhead'
<1>. USE GuardLoopType
<1>1. /\ Len(chatUpdates') = Len(chatUpdates) + 1 /\ chatUpdates'[Len(chatUpdates) + 1] = u
      /\ \A i \in 1 .. Len(chatUpdates) : chatUpdates'[i] = chatUpdates[i]
  BY AppendShape
<1>2. loop.handled \in Nat /\ Len(chatUpdates) \in Nat /\ loop.handled <= Len(chatUpdates)
  BY GuardAssumption DEF LoopStates, PlaceInv, GuardShape, GuardTypeOK
<1>3. PlaceInv'
  <2>1. loop.handled < loop.fetched => Update' = Update
    BY <1>1, <1>2, UpdateType DEF Update
  <2>2. loop.pc \in {"upsert", "erase"} => loop.handled < loop.fetched
    BY DEF GuardShape, UpdatesInv
  <2>. QED
    BY <1>1, <1>2, <2>1, <2>2 DEF PlaceInv
<1>4. u.kind = "added" => AddedAhead'
  <2>1. Len(chatUpdates) + 1 \in loop'.handled + 1 .. Len(chatUpdates')
    BY <1>1, <1>2
  <2>. QED
    BY <1>1, <2>1 DEF AddedAhead
<1>5. ASSUME AddedAhead PROVE AddedAhead'
  <2>1. PICK i \in loop.handled + 1 .. Len(chatUpdates) : chatUpdates[i].kind = "added"
    BY <1>5 DEF AddedAhead
  <2>2. i \in loop'.handled + 1 .. Len(chatUpdates') /\ i \in 1 .. Len(chatUpdates)
    BY <1>1, <1>2
  <2>. QED
    BY <1>1, <2>1, <2>2 DEF AddedAhead
<1>. QED
  BY <1>3, <1>4, <1>5

\* Without a new update, only the end of an addition takes one out of what is ahead: a loop
\* that stays where it is or goes back leaves all of them.
LEMMA AheadMoves ==
    ASSUME GuardShape, UNCHANGED chatUpdates, AddedAhead, loop' \in LoopStates,
           \/ loop'.handled \in 0 .. loop.handled
           \/ loop'.handled = loop.handled + 1 /\ Update.kind # "added"
    PROVE  AddedAhead'
<1>. USE GuardLoopType
<1>1. PICK i \in loop.handled + 1 .. Len(chatUpdates) : chatUpdates[i].kind = "added"
  BY DEF AddedAhead
<1>2. i # loop.handled + 1 \/ loop'.handled \in 0 .. loop.handled
  BY <1>1 DEF Update
<1>3. loop.handled \in Nat /\ loop'.handled \in Nat /\ Len(chatUpdates) \in Nat
  BY GuardAssumption DEF LoopStates, GuardShape, GuardTypeOK
<1>4. i \in loop'.handled + 1 .. Len(chatUpdates)
  BY <1>2, <1>3
<1>. QED
  BY <1>1, <1>4 DEF AddedAhead

\* While an addition is handled it is ahead.
LEMMA AheadNow ==
    ASSUME GuardShape, loop.handled < loop.fetched, Update.kind = "added" PROVE AddedAhead
BY UpdateType DEF Update, AddedAhead, GuardShape, GuardTypeOK, UpdatesInv

\* The loop keeps its place: handled updates exist, and a step in the middle of one is of its
\* kind.
LEMMA PlaceStep ==
    GuardShape /\ GuardShape' /\ PlaceInv /\ [GuardNext]_guardVars => PlaceInv'
<1>. SUFFICES ASSUME GuardShape, GuardShape', PlaceInv, [GuardNext]_guardVars PROVE PlaceInv'
  OBVIOUS
<1>. USE GuardLoopType
<1>0. loop.fetched <= Len(chatUpdates) /\ Len(chatUpdates) \in Nat
  BY DEF GuardShape, GuardTypeOK, UpdatesInv
<1>1. ASSUME UNCHANGED chatUpdates, loop'.handled = loop.handled,
             loop'.pc \in {"upsert", "erase"} => loop'.pc = loop.pc
      PROVE  PlaceInv'
  BY <1>1 DEF PlaceInv, Update
<1>2. ASSUME UNCHANGED chatUpdates, loop.handled < loop.fetched, loop' = Handled
      PROVE  PlaceInv'
  <2>1. loop'.handled = loop.handled + 1 /\ loop'.pc = "batch"
    BY <1>2, HandledType
  <2>. QED
    BY <1>0, <1>2, <2>1 DEF PlaceInv, LoopStates
<1>3. ASSUME NEW owner \in BOOLEAN, BotAdded(owner) PROVE PlaceInv'
  BY <1>3, AheadAppend DEF BotAdded, GuardUpdates
<1>4. ASSUME NEW w \in Welcomes, OwnerConfirms(w) PROVE PlaceInv'
  BY <1>4, AheadAppend DEF OwnerConfirms, GuardUpdates
<1>5. CASE BotRemoved \/ DeadlinePasses \/ UNCHANGED guardVars
  BY <1>1, <1>5 DEF BotRemoved, DeadlinePasses, guardVars
<1>6. CASE AddedByOwner \/ SendWelcomeFails \/ IgnoreConfirmation
  BY <1>2, <1>6 DEF AddedByOwner, SendWelcomeFails, IgnoreConfirmation, InBatch
<1>7. CASE UpsertPending \/ DeletePending
  <2>1. loop.handled < loop.fetched
    BY <1>7 DEF UpsertPending, DeletePending, GuardShape, UpdatesInv
  <2>. QED
    BY <1>2, <1>7, <2>1 DEF UpsertPending, DeletePending
<1>8. CASE SendWelcome
  <2>1. loop'.pc = "upsert" /\ loop'.handled = loop.handled
    BY <1>8 DEF SendWelcome, LoopStates
  <2>. QED
    BY <1>8, <2>1 DEF SendWelcome, PlaceInv, Update
<1>9. CASE ConfirmChat
  <2>1. loop'.pc = "erase" /\ loop'.handled = loop.handled
    BY <1>9 DEF ConfirmChat, LoopStates
  <2>. QED
    BY <1>9, <2>1 DEF ConfirmChat, PlaceInv, Update
<1>10. CASE PollGuard
  BY <1>1, <1>10 DEF PollGuard, LoopStates
<1>11. CASE EndBatch
  BY <1>1, <1>11 DEF EndBatch, LoopStates
<1>12. CASE ExpirePending
  BY <1>1, <1>12 DEF ExpirePending, LoopStates
<1>13. CASE LeaveChat \/ LeaveChatFails \/ DeleteLate
  BY <1>1, <1>13 DEF LeaveChat, LeaveChatFails, DeleteLate, LoopStates
<1>14. CASE RecoverPending
  BY <1>1, <1>14 DEF RecoverPending, LoopStates
<1>15. CASE GuardRestart
  <2>1. loop'.pc = "start" /\ loop'.handled = loop.acked
    BY <1>15 DEF GuardRestart, LoopStates
  <2>. QED
    BY <1>0, <1>15, <2>1 DEF GuardRestart, PlaceInv, LoopStates
<1>. QED
  BY <1>3, <1>4, <1>5, <1>6, <1>7, <1>8, <1>9, <1>10, <1>11, <1>12, <1>13, <1>14, <1>15 DEF GuardNext

\* As long as no call fails, a chat the bot was added to stays watched: one case per action.
LEMMA AdmitStep ==
    GuardShape /\ GuardShape' /\ FateInv /\ PlaceInv /\ AdmitInv /\ [GuardNext]_guardVars
    => AdmitInv'
<1>. SUFFICES ASSUME GuardShape, GuardShape', FateInv, PlaceInv, AdmitInv,
                     [GuardNext]_guardVars, ~callFailed', inChat', ~AddedAhead', ~fate'.owner
              PROVE  Watched'
  BY DEF AdmitInv
<1>. USE Numbers
<1>0. loop' \in LoopStates /\ fate' \in Fates
  BY DEF GuardShape, GuardTypeOK, LoopStates, Fates
<1>00. loop.handled \in 0 .. loop.handled /\ loop.acked \in 0 .. loop.handled
  BY GuardLoopType, GuardAssumption DEF LoopStates
<1>1. CASE UNCHANGED guardVars
  BY <1>1 DEF guardVars, Watched, AdmitInv, AddedAhead
<1>2. ASSUME NEW owner \in BOOLEAN, BotAdded(owner) PROVE Watched'
  BY <1>2, AheadAppend DEF BotAdded, GuardUpdates
<1>3. ASSUME NEW w \in Welcomes, OwnerConfirms(w) PROVE Watched'
  <2>1. [kind |-> "confirm", welcome |-> w] \in GuardUpdates
    BY DEF GuardUpdates
  <2>2. ~AddedAhead
    BY <1>3, <2>1, AheadAppend DEF OwnerConfirms
  <2>. QED
    BY <1>3, <2>2 DEF OwnerConfirms, NoFault, AdmitInv, Watched
<1>4. CASE BotRemoved \/ LeaveChat
  BY <1>4 DEF BotRemoved, LeaveChat
<1>5. CASE DeadlinePasses
  BY <1>5 DEF DeadlinePasses, NoFault, AdmitInv, Watched, AddedAhead
<1>6. CASE AddedByOwner
  BY <1>6 DEF AddedByOwner, Fates
<1>7. CASE SendWelcome
  <2>1. AddedAhead /\ loop'.handled = loop.handled /\ UNCHANGED chatUpdates
    BY <1>7, AheadNow DEF SendWelcome, InBatch, LoopStates
  <2>. QED
    BY <2>1 DEF AddedAhead
<1>8. CASE SendWelcomeFails \/ LeaveChatFails
  BY <1>8 DEF SendWelcomeFails, LeaveChatFails, CallFails
<1>9. CASE UpsertPending
  <2>1. loop'.pc = "batch" /\ guardRow' = pending /\ pending = welcomes /\ welcomes > 0
    BY <1>9 DEF UpsertPending, CallFails, Handled, LoopStates, FateInv
  <2>. QED
    BY <1>9, <2>1 DEF UpsertPending, Watched
<1>10. ASSUME UNCHANGED <<chatUpdates, inChat>>, NoFault, fate'.owner = fate.owner,
              loop'.handled = loop.handled
       PROVE  Watched
  <2>1. loop'.handled \in 0 .. loop.handled
    BY <1>00, <1>10
  <2>2. ~AddedAhead
    BY <1>0, <1>10, <2>1, AheadMoves
  <2>. QED
    BY <1>10, <2>2 DEF AdmitInv, NoFault
<1>20. ASSUME UNCHANGED <<chatUpdates, inChat>>, NoFault, fate'.owner = fate.owner,
              loop'.handled = loop.handled + 1, Update.kind # "added"
       PROVE  Watched
  <2>1. ~AddedAhead
    BY <1>0, <1>20, AheadMoves
  <2>. QED
    BY <1>20, <2>1 DEF AdmitInv, NoFault
<1>11. CASE PollGuard \/ EndBatch
  <2>1. /\ loop'.handled = loop.handled /\ loop'.pc \in {"poll", "batch"}
        /\ loop.pc \in {"poll", "batch"} /\ NoFault
        /\ UNCHANGED <<inChat, chatUpdates, pending, guardRow, welcomes, fate>>
    BY <1>11 DEF PollGuard, EndBatch, CallFails, LoopStates
  <2>2. Watched
    BY <1>10, <2>1
  <2>. QED
    BY <2>1, <2>2 DEF Watched
<1>12. CASE IgnoreConfirmation
  <2>1. loop'.handled = loop.handled + 1 /\ loop'.pc = "batch" /\ Update.kind # "added"
    BY <1>12 DEF IgnoreConfirmation, Handled, LoopStates
  <2>2. Watched
    BY <1>12, <1>20, <2>1 DEF IgnoreConfirmation
  <2>. QED
    BY <1>12, <2>1, <2>2 DEF IgnoreConfirmation, InBatch, Watched
<1>13. CASE ConfirmChat
  <2>1. loop'.handled = loop.handled /\ loop'.pc = "erase" /\ loop'.welcome = pending
    BY <1>13 DEF ConfirmChat, LoopStates
  <2>2. Watched
    BY <1>10, <1>13, <2>1 DEF ConfirmChat
  <2>. QED
    BY <1>13, <2>1, <2>2 DEF ConfirmChat, InBatch, Watched
<1>14. CASE DeletePending
  <2>1. /\ loop'.handled = loop.handled + 1 /\ loop'.pc = "batch" /\ Update.kind # "added"
        /\ NoFault /\ fate' = [fate EXCEPT !.confirmed = @ \cup {loop.welcome}]
    BY <1>14 DEF DeletePending, CallFails, Handled, LoopStates, PlaceInv
  <2>2. fate'.confirmed = fate.confirmed \cup {loop.welcome} /\ fate'.owner = fate.owner
    BY <2>1 DEF Fates
  <2>3. Watched
    BY <1>14, <1>20, <2>1, <2>2 DEF DeletePending
  <2>. QED
    BY <1>14, <2>1, <2>2, <2>3 DEF DeletePending, Watched
<1>15. CASE ExpirePending
  <2>1. loop'.handled = loop.handled /\ loop'.pc = "leave"
    BY <1>15 DEF ExpirePending, LoopStates
  <2>2. Watched
    BY <1>10, <1>15, <2>1 DEF ExpirePending
  <2>. QED
    BY <1>15, <2>1, <2>2 DEF ExpirePending, Watched
<1>16. CASE DeleteLate
  <2>1. loop'.handled = loop.handled /\ loop'.pc = "poll" /\ NoFault
    BY <1>16 DEF DeleteLate, CallFails, LoopStates
  <2>2. Watched
    BY <1>10, <1>16, <2>1 DEF DeleteLate
  <2>. QED
    BY <1>16, <2>2 DEF DeleteLate, Watched
<1>17. CASE GuardRestart
  <2>1. loop'.handled = loop.acked /\ loop'.pc = "start"
    BY <1>17 DEF GuardRestart, LoopStates
  <2>2. ~AddedAhead
    <3>1. loop'.handled \in 0 .. loop.handled /\ UNCHANGED chatUpdates
      BY <1>00, <1>17, <2>1 DEF GuardRestart
    <3>. QED
      BY <1>0, <3>1, AheadMoves
  <2>3. Watched
    BY <1>17, <2>2 DEF GuardRestart, AdmitInv
  <2>. QED
    BY <1>17, <2>1, <2>3 DEF GuardRestart, Watched
<1>18. CASE RecoverPending
  <2>1. /\ loop'.handled = loop.handled /\ NoFault
        /\ (loop'.pc = "poll" /\ pending' = guardRow) \/ loop'.pc = "leave"
    BY <1>18 DEF RecoverPending, CallFails, Restores, LoopStates
  <2>2. Watched
    BY <1>10, <1>18, <2>1 DEF RecoverPending
  <2>. QED
    BY <1>18, <2>1, <2>2 DEF RecoverPending, Watched
<1>. QED
  BY <1>1, <1>2, <1>3, <1>4, <1>5, <1>6, <1>7, <1>8, <1>9, <1>11, <1>12, <1>13, <1>14, <1>15,
     <1>16, <1>17, <1>18 DEF GuardNext

\* A chat that somebody else than the owner added the bot to has an unanswered or a confirmed
\* welcome whenever the bot waits for updates, unless a call has failed: the row of
\* guard_pending and the cursor of the batch survive what the memory does not (telegram.go,
\* recoverPendingFromStore).
THEOREM NobodyAdmittedByRestarts == GuardSpec => []RestartsAdmitNobody
<1>1. GuardInit => PlaceInv /\ AdmitInv
  BY DEF GuardInit, PlaceInv, AdmitInv
<1>2. PlaceInv /\ AdmitInv /\ (GuardShape /\ FateInv) /\ (GuardShape /\ FateInv)'
      /\ [GuardNext]_guardVars => (PlaceInv /\ AdmitInv)'
  BY PlaceStep, AdmitStep
<1>3. GuardShape /\ FateInv /\ PlaceInv /\ AdmitInv => RestartsAdmitNobody
  <2>. SUFFICES ASSUME GuardShape, AdmitInv, loop.pc = "poll", inChat,
                       loop.handled = Len(chatUpdates), ~fate.owner, ~callFailed
                PROVE  pending # 0 \/ welcomes \in fate.confirmed
    BY DEF RestartsAdmitNobody
  <2>1. ~AddedAhead
    BY DEF AddedAhead, GuardShape, GuardTypeOK
  <2>. QED
    BY <2>1, Numbers DEF AdmitInv, Watched
<1>. QED
  BY <1>1, <1>2, <1>3, GuardInvariant, PTL DEF GuardSpec

(***************************************************************************)
(* The questions: asked once, and answered with what is stored.            *)
(***************************************************************************)

Decisions == {"created", "rejected"}
Rows == [status : {"none", "pending", "created", "rejected"}, asked : 0 .. MaxQuestions]

\* The asker works through candidates that waited when it listed them, and has sent a message
\* before it records one.
AskerInv ==
    /\ asker.pc # "idle" => asker.list # {}
    /\ \A c \in asker.list : candidate[c].status # "none"
    /\ asker.pc = "mark" => Len(messages) > 0

\* Messages are about candidates that waited, and buttons belong to messages.
MessagesInv ==
    /\ \A m \in 1 .. Len(messages) : candidate[messages[m].about].status # "none"
    /\ \A i \in 1 .. Len(presses) : presses[i].message <= Len(messages)
    /\ answering.pc # "idle" => answering.press > 0

\* What is about to be shown is what is stored, and a decision is final.
AnswerInv ==
    answering.pc = "edit" =>
        /\ answering.shows \in Decisions
        /\ candidate[messages[presses[answering.press].message].about].status = answering.shows

\* The messages about a candidate.
About(c) == {m \in 1 .. Len(messages) : messages[m].about = c}

\* The message about c has been sent and not been recorded yet.
Marking(c) == asker.pc = "mark" /\ c = subject

\* Who is still to be asked: on the list, or to be listed.
ToAsk(c) ==
    /\ ~Marking(c)
    /\ \/ c \in asker.list
       \/ candidate[c].status = "none"
       \/ candidate[c].status = "pending" /\ candidate[c].asked = 0

\* Every message but one was not recorded; for who is still to be asked, every one.
AskedInv ==
    /\ \A c \in Candidates : Cardinality(About(c)) <= unasked[c] + IF ToAsk(c) THEN 0 ELSE 1
    /\ \A c \in Candidates : unasked[c] <= questionFaults

QuestionsInv == QuestionsTypeOK /\ AskerInv /\ MessagesInv /\ OutcomeShown /\ AnswerInv /\ AskedInv

-------------------------------------------------------------------------------
(* Types.                                                                  *)

\* The oldest candidate of a list that is not empty is on it.
LEMMA SubjectListed ==
    ASSUME QuestionsTypeOK, asker.list # {}
    PROVE  subject \in asker.list /\ subject \in Candidates
<1>1. asker.list \in SUBSET Int /\ IsFiniteSet(asker.list) /\ asker.list \subseteq Candidates
  <2>1. asker.list \in SUBSET Candidates
    BY DEF QuestionsTypeOK
  <2>2. IsFiniteSet(asker.list)
    BY <2>1, TaskQuestionsAssumption, FS_Subset
  <2>3. ASSUME NEW c \in asker.list PROVE c \in Int
    <3>1. c \in Candidates
      BY <2>1
    <3>2. c \in Nat
      BY <3>1, TaskQuestionsAssumption
    <3>. QED
      BY <3>2
  <2>. QED
    BY <2>1, <2>2, <2>3
<1>2. \E k \in asker.list : \A l \in asker.list : k <= l
  BY <1>1, LeastExists
<1>. QED
  BY <1>1, <1>2 DEF subject, Min

\* One member of a sequence is replaced.
LEMMA Replaced ==
    ASSUME NEW S, NEW seq \in Seq(S), NEW i \in 1 .. Len(seq), NEW x \in S
    PROVE  /\ [seq EXCEPT ![i] = x] \in Seq(S)
           /\ Len([seq EXCEPT ![i] = x]) = Len(seq)
           /\ \A k \in 1 .. Len(seq) : [seq EXCEPT ![i] = x][k] = IF k = i THEN x ELSE seq[k]
OBVIOUS

\* One is appended.
LEMMA Appended ==
    ASSUME NEW S, NEW seq \in Seq(S), NEW x \in S
    PROVE  /\ Append(seq, x) \in Seq(S)
           /\ Len(Append(seq, x)) = Len(seq) + 1
           /\ Append(seq, x)[Len(seq) + 1] = x
           /\ \A k \in 1 .. Len(seq) : Append(seq, x)[k] = seq[k]
OBVIOUS

LEMMA QuestionsInitInv == QuestionsInit => QuestionsInv
<1>. SUFFICES ASSUME QuestionsInit PROVE QuestionsInv
  OBVIOUS
<1>1. QuestionsTypeOK
  BY TaskQuestionsAssumption DEF QuestionsInit, QuestionsTypeOK, IdleAsker, NoCallback
<1>2. AskerInv /\ MessagesInv /\ OutcomeShown /\ AnswerInv
  BY DEF QuestionsInit, AskerInv, MessagesInv, OutcomeShown, AnswerInv, IdleAsker, NoCallback
<1>3. AskedInv
  <2>1. \A c \in Candidates : About(c) = {}
    BY DEF QuestionsInit, About
  <2>. QED
    <3>1. \A c \in Candidates : Cardinality(About(c)) = 0 /\ unasked[c] = 0
      BY <2>1, FS_EmptySet DEF QuestionsInit
    <3>. QED
      BY <3>1, TaskQuestionsAssumption DEF QuestionsInit, AskedInv
<1>. QED
  BY <1>1, <1>2, <1>3 DEF QuestionsInv

\* The steps of the goroutine that asks.
LEMMA AskerType ==
    ASSUME QuestionsInv,
           ListQuestions \/ SendQuestion \/ SendQuestionFails \/ MarkQuestionSent \/ MarkQuestionFails
    PROVE  QuestionsTypeOK'
<1>1. QuestionsTypeOK /\ AskerInv /\ AskedInv
  BY DEF QuestionsInv
<1>2. asker.pc # "idle" => subject \in Candidates
  BY <1>1, SubjectListed DEF AskerInv
<1>3. \A c \in Candidates : unasked[c] \in Nat /\ unasked[c] <= questionFaults
  BY <1>1, TaskQuestionsAssumption DEF QuestionsTypeOK, AskedInv
<1>4. QuestionFault /\ subject \in Candidates =>
        /\ [unasked EXCEPT ![subject] = @ + 1] \in [Candidates -> 0 .. MaxQuestionFaults]
        /\ questionFaults' \in 0 .. MaxQuestionFaults
  BY <1>1, <1>3, TaskQuestionsAssumption DEF QuestionFault, QuestionsTypeOK
<1>5. subject \in Candidates /\ Len(messages) < MaxQuestions =>
        /\ Append(messages, [about |-> subject, shows |-> "buttons"]) \in Seq(Message)
        /\ Len(Append(messages, [about |-> subject, shows |-> "buttons"])) <= MaxQuestions
  BY <1>1, TaskQuestionsAssumption DEF QuestionsTypeOK, Message
<1>6. IdleAsker \in [pc : {"idle", "send", "mark"}, list : SUBSET Candidates]
  BY DEF IdleAsker
<1>. USE DEF QuestionsTypeOK
<1>7. CASE ListQuestions
  BY <1>1, <1>7 DEF ListQuestions, PendingQuestions
<1>8. CASE SendQuestion
  BY <1>1, <1>2, <1>5, <1>8 DEF SendQuestion
<1>9. CASE SendQuestionFails
  BY <1>1, <1>2, <1>4, <1>5, <1>6, <1>9 DEF SendQuestionFails, QuestionFault
<1>10. CASE MarkQuestionSent
  <2>1. asker' \in [pc : {"idle", "send", "mark"}, list : SUBSET Candidates]
    BY <1>1, <1>6, <1>10 DEF MarkQuestionSent, NextQuestion
  <2>2. Len(messages) \in 0 .. MaxQuestions
    BY <1>1
  <2>3. candidate' \in [Candidates -> [status : {"none", "pending", "created", "rejected"},
                                       asked : 0 .. MaxQuestions]]
    BY <1>1, <1>2, <1>10, <2>2 DEF MarkQuestionSent
  <2>. QED
    BY <1>1, <1>10, <2>1, <2>3 DEF MarkQuestionSent
<1>11. CASE MarkQuestionFails
  BY <1>1, <1>2, <1>4, <1>6, <1>11 DEF MarkQuestionFails, QuestionFault
<1>. QED
  BY <1>7, <1>8, <1>9, <1>10, <1>11

\* The candidate a message that a callback came from is about.
LEMMA CallbackAbout ==
    ASSUME QuestionsInv, answering.pc # "idle"
    PROVE  LET i == answering.press
               m == presses[i].message
           IN  /\ i \in 1 .. Len(presses) /\ presses[i] \in Press
               /\ m \in 1 .. Len(messages) /\ messages[m] \in Message
               /\ messages[m].about \in Candidates /\ candidate[messages[m].about].status # "none"
<1>. DEFINE i == answering.press
            m == presses[i].message
<1>1. QuestionsTypeOK /\ MessagesInv
  BY DEF QuestionsInv
<1>2. i \in 1 .. Len(presses) /\ presses[i] \in Press
  BY <1>1 DEF QuestionsTypeOK, MessagesInv
<1>3. m \in 1 .. Len(messages) /\ messages[m] \in Message
  BY <1>1, <1>2 DEF QuestionsTypeOK, MessagesInv, Press
<1>. QED
  BY <1>1, <1>2, <1>3 DEF MessagesInv, Message

\* The steps of the owner, of the callbacks and of the intake, and a restart.
LEMMA OwnerType ==
    ASSUME QuestionsInv,
           \/ \E c \in Candidates : CandidateWaits(c)
           \/ \E m \in 1 .. MaxQuestions, approve \in BOOLEAN : PressButton(m, approve)
           \/ \E i \in 1 .. Len(presses) : TakeCallback(i) \/ Redeliver(i)
           \/ Decide \/ DecideFails \/ EditMessage \/ QuestionsCrash
    PROVE  QuestionsTypeOK'
<1>1. QuestionsTypeOK /\ AskerInv /\ AskedInv /\ MessagesInv
  BY DEF QuestionsInv
<1>2. \A c \in Candidates : unasked[c] \in Nat /\ unasked[c] <= questionFaults
  BY <1>1, TaskQuestionsAssumption DEF QuestionsTypeOK, AskedInv
<1>3. QuestionFault => questionFaults' \in 0 .. MaxQuestionFaults
  BY <1>1, TaskQuestionsAssumption DEF QuestionFault, QuestionsTypeOK
<1>4. NoCallback \in [pc : {"idle", "decide", "edit"}, press : 0 .. Len(presses), shows : {"buttons", "created", "rejected"}]
  BY <1>1 DEF NoCallback, QuestionsTypeOK
<1>5. ASSUME NEW i \in 1 .. Len(presses), NEW open \in BOOLEAN,
             presses' = [presses EXCEPT ![i].open = open]
      PROVE  presses' \in Seq(Press) /\ Len(presses') = Len(presses)
  <2>0. presses[i] \in Press
    BY <1>1 DEF QuestionsTypeOK
  <2>1. [presses[i] EXCEPT !.open = open] \in Press
    BY <2>0 DEF Press
  <2>2. presses' = [presses EXCEPT ![i] = [presses[i] EXCEPT !.open = open]]
    BY <1>5
  <2>. QED
    BY <1>1, <2>1, <2>2, Replaced DEF QuestionsTypeOK
<1>. USE DEF QuestionsTypeOK
<1>6. ASSUME NEW c \in Candidates, CandidateWaits(c) PROVE QuestionsTypeOK'
  BY <1>1, <1>6 DEF CandidateWaits
<1>7. ASSUME NEW m \in 1 .. MaxQuestions, NEW approve \in BOOLEAN, PressButton(m, approve) PROVE QuestionsTypeOK'
  <2>1. [message |-> m, approve |-> approve, open |-> TRUE, keyboard |-> messages[m].shows = "buttons"] \in Press
    BY DEF Press
  <2>2. presses' \in Seq(Press) /\ Len(presses') = Len(presses) + 1 /\ Len(presses) \in Nat
    BY <1>1, <1>7, <2>1, Appended DEF PressButton
  <2>. QED
    BY <1>1, <1>7, <2>2, TaskQuestionsAssumption DEF PressButton
<1>8. ASSUME NEW i \in 1 .. Len(presses), TakeCallback(i) PROVE QuestionsTypeOK'
  <2>1. CASE taskQuestionMatches(presses[i])
    BY <1>1, <1>8, <2>1 DEF TakeCallback
  <2>2. CASE ~taskQuestionMatches(presses[i])
    BY <1>1, <1>5, <1>8, <2>2 DEF TakeCallback
  <2>. QED
    BY <2>1, <2>2
<1>9. ASSUME NEW i \in 1 .. Len(presses), Redeliver(i) PROVE QuestionsTypeOK'
  BY <1>1, <1>3, <1>5, <1>9 DEF Redeliver
<1>10. CASE Decide
  <2>. DEFINE c == messages[presses[answering.press].message].about
              row == Decided(candidate[c], presses[answering.press].approve)
  <2>1. c \in Candidates /\ candidate[c].status # "none"
    BY <1>10, CallbackAbout DEF Decide
  <2>2. row \in Rows /\ row.status \in Decisions
    BY <1>1, <2>1 DEF Decided, Rows, Decisions
  <2>3. /\ candidate' = [candidate EXCEPT ![c] = row]
        /\ answering' = [pc |-> "edit", press |-> answering.press, shows |-> row.status]
        /\ UNCHANGED <<messages, asker, presses, unasked, questionFaults>>
    BY <1>10 DEF Decide, Shown
  <2>. HIDE DEF row, c
  <2>4. candidate' \in [Candidates -> [status : {"none", "pending", "created", "rejected"}, asked : 0 .. MaxQuestions]]
    BY <1>1, <2>1, <2>2, <2>3 DEF Rows
  <2>. QED
    BY <1>1, <2>2, <2>3, <2>4 DEF Decisions
<1>11. CASE DecideFails
  BY <1>1, <1>3, <1>4, <1>11 DEF DecideFails, QuestionFault
<1>12. CASE EditMessage
  <2>. DEFINE i == answering.press
              m == presses[i].message
  <2>1. i \in 1 .. Len(presses) /\ m \in 1 .. Len(messages) /\ messages[m] \in Message
    BY <1>12, CallbackAbout DEF EditMessage
  <2>2. [messages[m] EXCEPT !.shows = answering.shows] \in Message
    BY <1>1, <2>1 DEF Message
  <2>3. messages' = messages \/ messages' = [messages EXCEPT ![m] = [messages[m] EXCEPT !.shows = answering.shows]]
    BY <1>12 DEF EditMessage
  <2>4. messages' \in Seq(Message) /\ Len(messages') <= MaxQuestions
    <3>1. [messages EXCEPT ![m] = [messages[m] EXCEPT !.shows = answering.shows]] \in Seq(Message)
      BY <1>1, <2>1, <2>2, Replaced
    <3>2. Len([messages EXCEPT ![m] = [messages[m] EXCEPT !.shows = answering.shows]]) = Len(messages)
      BY <1>1, <2>1, <2>2, Replaced
    <3>. QED
      BY <1>1, <2>3, <3>1, <3>2
  <2>5. presses' \in Seq(Press) /\ Len(presses') = Len(presses)
    BY <1>5, <1>12, <2>1 DEF EditMessage
  <2>6. questionFaults' \in 0 .. MaxQuestionFaults
    BY <1>1, <1>3, <1>12 DEF EditMessage
  <2>. QED
    BY <1>1, <1>4, <1>12, <2>4, <2>5, <2>6 DEF EditMessage
<1>13. CASE QuestionsCrash
  <2>1. unasked' \in [Candidates -> 0 .. MaxQuestionFaults]
    <3>1. asker.pc = "mark" => subject \in Candidates
      BY <1>1, SubjectListed DEF AskerInv
    <3>. QED
      BY <1>1, <1>2, <1>13, <3>1, TaskQuestionsAssumption DEF QuestionsCrash, QuestionFault
  <2>. QED
    BY <1>1, <1>3, <1>4, <1>13, <2>1 DEF QuestionsCrash, IdleAsker
<1>. QED
  BY <1>6, <1>7, <1>8, <1>9, <1>10, <1>11, <1>12, <1>13

LEMMA QuestionsStepType ==
    ASSUME QuestionsInv, [QuestionsNext]_questionVars
    PROVE  QuestionsTypeOK'
<1>1. CASE UNCHANGED questionVars
  BY <1>1 DEF questionVars, QuestionsInv, QuestionsTypeOK
<1>. QED
  BY <1>1, AskerType, OwnerType DEF QuestionsNext

-------------------------------------------------------------------------------
(* What is shown.                                                          *)

\* A status that is no longer "none" stays so, and a decision stays what it is.
StatusesKept == \A c \in Candidates :
    /\ candidate[c].status # "none" => candidate'[c].status # "none"
    /\ candidate[c].status \in Decisions => candidate'[c].status = candidate[c].status

\* Messages keep what they are about.
MessagesKept ==
    /\ Len(messages) <= Len(messages')
    /\ \A m \in 1 .. Len(messages) : messages'[m].about = messages[m].about

\* Callbacks keep the message they came from, and a new one comes from a message there is.
PressesKept ==
    /\ Len(presses) <= Len(presses')
    /\ \A i \in 1 .. Len(presses) : presses'[i].message = presses[i].message
    /\ \A i \in 1 .. Len(presses') : i <= Len(presses) \/ presses'[i].message <= Len(messages)

\* What may be sent: a message about a candidate that waits, with buttons.
Sends(c) ==
    /\ c \in Candidates /\ candidate[c].status # "none"
    /\ messages' = Append(messages, [about |-> c, shows |-> "buttons"])

\* What may be edited: a message comes to show what is stored.
Edits(m) ==
    /\ m \in 1 .. Len(messages)
    /\ \E outcome \in Decisions :
          /\ candidate[messages[m].about].status = outcome
          /\ messages' = [messages EXCEPT ![m] = [messages[m] EXCEPT !.shows = outcome]]

\* A message that is sent, and one that is edited.
LEMMA MessagesMove ==
    ASSUME QuestionsInv, StatusesKept,
           \/ messages' = messages
           \/ \E c : Sends(c)
           \/ \E m : Edits(m)
    PROVE  /\ MessagesKept
           /\ OutcomeShown'
           /\ \A m \in 1 .. Len(messages') : candidate'[messages'[m].about].status # "none"
<1>1. messages \in Seq(Message) /\ OutcomeShown /\ Len(messages) \in Nat
  BY DEF QuestionsInv, QuestionsTypeOK
<1>2. \A m \in 1 .. Len(messages) :
        /\ messages[m] \in Message /\ messages[m].about \in Candidates
        /\ candidate[messages[m].about].status # "none"
  <2>1. MessagesInv
    BY DEF QuestionsInv
  <2>2. ASSUME NEW m \in 1 .. Len(messages) PROVE messages[m] \in Message
    BY <1>1
  <2>3. \A m \in 1 .. Len(messages) : messages[m].about \in Candidates
    BY <2>2 DEF Message
  <2>. QED
    BY <2>1, <2>2, <2>3 DEF MessagesInv
<1>3. \A m \in 1 .. Len(messages) : messages[m].shows # "buttons" =>
        candidate'[messages[m].about].status = messages[m].shows
  <2>1. ASSUME NEW m \in 1 .. Len(messages), messages[m].shows # "buttons"
        PROVE  candidate'[messages[m].about].status = messages[m].shows
    <3>1. candidate[messages[m].about].status = messages[m].shows
      BY <1>1, <2>1 DEF OutcomeShown
    <3>2. messages[m].shows \in Decisions
      BY <1>2, <2>1 DEF Message, Decisions
    <3>. QED
      BY <1>2, <3>1, <3>2 DEF StatusesKept
  <2>. QED
    BY <2>1
<1>4. CASE messages' = messages
  BY <1>1, <1>2, <1>3, <1>4 DEF MessagesKept, OutcomeShown, StatusesKept
<1>5. ASSUME NEW c, Sends(c)
      PROVE  /\ MessagesKept
             /\ OutcomeShown'
             /\ \A m \in 1 .. Len(messages') : candidate'[messages'[m].about].status # "none"
  <2>. DEFINE new == [about |-> c, shows |-> "buttons"]
  <2>1. new \in Message /\ c \in Candidates /\ candidate'[c].status # "none"
    BY <1>5 DEF Sends, Message, StatusesKept
  <2>2. /\ Len(messages') = Len(messages) + 1 /\ messages'[Len(messages) + 1] = new
        /\ \A k \in 1 .. Len(messages) : messages'[k] = messages[k]
    BY <1>1, <1>5, <2>1, Appended DEF Sends
  <2>3. \A m \in 1 .. Len(messages') : m \in 1 .. Len(messages) \/ m = Len(messages) + 1
    BY <1>1, <2>2
  <2>. QED
    BY <1>1, <1>2, <1>3, <2>1, <2>2, <2>3 DEF MessagesKept, OutcomeShown, StatusesKept
<1>6. ASSUME NEW m, Edits(m)
      PROVE  /\ MessagesKept
             /\ OutcomeShown'
             /\ \A k \in 1 .. Len(messages') : candidate'[messages'[k].about].status # "none"
  <2>1. PICK outcome \in Decisions :
          /\ m \in 1 .. Len(messages) /\ candidate[messages[m].about].status = outcome
          /\ messages' = [messages EXCEPT ![m] = [messages[m] EXCEPT !.shows = outcome]]
    BY <1>6 DEF Edits
  <2>2. /\ [messages[m] EXCEPT !.shows = outcome] \in Message
        /\ [messages[m] EXCEPT !.shows = outcome].about = messages[m].about
        /\ [messages[m] EXCEPT !.shows = outcome].shows = outcome
    BY <1>2, <2>1 DEF Message, Decisions
  <2>3. /\ Len(messages') = Len(messages)
        /\ \A k \in 1 .. Len(messages) : messages'[k] = IF k = m THEN [messages[m] EXCEPT !.shows = outcome]
                                                       ELSE messages[k]
    BY <1>1, <2>1, <2>2
  <2>4. candidate'[messages[m].about].status = outcome
    BY <1>2, <2>1 DEF StatusesKept
  <2>. QED
    BY <1>1, <1>2, <1>3, <2>1, <2>2, <2>3, <2>4 DEF MessagesKept, OutcomeShown, StatusesKept
<1>. QED
  BY <1>4, <1>5, <1>6

\* What the statuses and the callbacks do in a step, and what is done to the messages.
LEMMA AskerMoves ==
    ASSUME QuestionsInv,
           ListQuestions \/ SendQuestion \/ SendQuestionFails \/ MarkQuestionSent \/ MarkQuestionFails
    PROVE  /\ StatusesKept
           /\ UNCHANGED <<presses, answering>>
           /\ messages' = messages \/ \E c : Sends(c)
<1>1. QuestionsTypeOK /\ AskerInv
  BY DEF QuestionsInv
<1>2. asker.pc # "idle" => subject \in Candidates /\ candidate[subject].status # "none"
  BY <1>1, SubjectListed DEF AskerInv
<1>3. candidate' = candidate => StatusesKept
  BY DEF StatusesKept
<1>4. CASE ListQuestions
  BY <1>3, <1>4 DEF ListQuestions
<1>5. CASE SendQuestion
  <2>1. Sends(subject)
    BY <1>2, <1>5 DEF SendQuestion, Sends
  <2>. QED
    BY <1>3, <1>5, <2>1 DEF SendQuestion
<1>6. CASE SendQuestionFails
  <2>1. messages' = messages \/ Sends(subject)
    BY <1>2, <1>6 DEF SendQuestionFails, Sends
  <2>. QED
    BY <1>3, <1>6, <2>1 DEF SendQuestionFails
<1>7. CASE MarkQuestionSent
  <2>1. \A c \in Candidates : candidate'[c].status = candidate[c].status
    BY <1>1, <1>2, <1>7 DEF MarkQuestionSent, QuestionsTypeOK
  <2>. QED
    BY <1>7, <2>1 DEF MarkQuestionSent, StatusesKept
<1>8. CASE MarkQuestionFails
  BY <1>3, <1>8 DEF MarkQuestionFails
<1>. QED
  BY <1>4, <1>5, <1>6, <1>7, <1>8

LEMMA OwnerMoves ==
    ASSUME QuestionsInv,
           \/ \E c \in Candidates : CandidateWaits(c)
           \/ \E m \in 1 .. MaxQuestions, approve \in BOOLEAN : PressButton(m, approve)
           \/ \E i \in 1 .. Len(presses) : TakeCallback(i) \/ Redeliver(i)
           \/ Decide \/ DecideFails \/ EditMessage \/ QuestionsCrash
    PROVE  /\ StatusesKept
           /\ PressesKept
           /\ messages' = messages \/ \E m : Edits(m)
<1>1. QuestionsTypeOK /\ AnswerInv
  BY DEF QuestionsInv
<1>2. candidate' = candidate => StatusesKept
  BY DEF StatusesKept
<1>3. presses' = presses => PressesKept
  BY <1>1 DEF PressesKept, QuestionsTypeOK
<1>4. ASSUME NEW i \in 1 .. Len(presses), NEW open \in BOOLEAN,
             presses' = [presses EXCEPT ![i].open = open]
      PROVE  PressesKept
  <2>1. presses[i] \in Press /\ presses \in Seq(Press)
    BY <1>1 DEF QuestionsTypeOK
  <2>2. /\ [presses[i] EXCEPT !.open = open] \in Press
        /\ [presses[i] EXCEPT !.open = open].message = presses[i].message
    BY <2>1 DEF Press
  <2>3. presses' = [presses EXCEPT ![i] = [presses[i] EXCEPT !.open = open]]
    BY <1>4
  <2>4. /\ Len(presses') = Len(presses)
        /\ \A k \in 1 .. Len(presses) :
              presses'[k] = IF k = i THEN [presses[i] EXCEPT !.open = open] ELSE presses[k]
    BY <2>1, <2>2, <2>3, Replaced
  <2>5. \A k \in 1 .. Len(presses) : presses'[k].message = presses[k].message
    BY <2>2, <2>4
  <2>6. Len(presses) \in Nat
    BY <2>1
  <2>. QED
    BY <2>4, <2>5, <2>6 DEF PressesKept
<1>5. ASSUME NEW c \in Candidates, CandidateWaits(c)
      PROVE  StatusesKept /\ PressesKept /\ messages' = messages
  <2>1. candidate[c].status = "none" /\ candidate'[c].status = "pending"
    BY <1>1, <1>5 DEF CandidateWaits, QuestionsTypeOK
  <2>2. \A d \in Candidates : d # c => candidate'[d] = candidate[d]
    BY <1>1, <1>5 DEF CandidateWaits, QuestionsTypeOK
  <2>. QED
    BY <1>3, <1>5, <2>1, <2>2 DEF CandidateWaits, StatusesKept, Decisions
<1>6. ASSUME NEW m \in 1 .. MaxQuestions, NEW approve \in BOOLEAN, PressButton(m, approve)
      PROVE  StatusesKept /\ PressesKept /\ messages' = messages
  <2>1. [message |-> m, approve |-> approve, open |-> TRUE, keyboard |-> messages[m].shows = "buttons"] \in Press
    BY DEF Press
  <2>2. presses \in Seq(Press) /\ Len(presses) \in Nat
    BY <1>1 DEF QuestionsTypeOK
  <2>3. /\ Len(presses') = Len(presses) + 1 /\ presses'[Len(presses) + 1].message = m
        /\ \A k \in 1 .. Len(presses) : presses'[k] = presses[k]
    BY <1>6, <2>1, <2>2, Appended DEF PressButton
  <2>4. m <= Len(messages)
    BY <1>6 DEF PressButton
  <2>5. \A k \in 1 .. Len(presses') : k <= Len(presses) \/ k = Len(presses) + 1
    BY <2>2, <2>3
  <2>. QED
    BY <1>2, <1>6, <2>2, <2>3, <2>4, <2>5 DEF PressButton, PressesKept
<1>7. ASSUME NEW i \in 1 .. Len(presses), TakeCallback(i)
      PROVE  StatusesKept /\ PressesKept /\ messages' = messages
  BY <1>2, <1>3, <1>4, <1>7 DEF TakeCallback
<1>8. ASSUME NEW i \in 1 .. Len(presses), Redeliver(i)
      PROVE  StatusesKept /\ PressesKept /\ messages' = messages
  BY <1>2, <1>4, <1>8 DEF Redeliver
<1>9. CASE Decide
  <2>. DEFINE c == messages[presses[answering.press].message].about
              row == Decided(candidate[c], presses[answering.press].approve)
  <2>1. c \in Candidates /\ candidate[c].status # "none"
    BY <1>9, CallbackAbout DEF Decide
  <2>2. row.status \in Decisions /\ (candidate[c].status \in Decisions => row.status = candidate[c].status)
    BY <1>1, <2>1 DEF QuestionsTypeOK, Decided, Decisions
  <2>3. candidate' = [candidate EXCEPT ![c] = row] /\ UNCHANGED <<messages, presses>>
    BY <1>9 DEF Decide
  <2>. HIDE DEF c, row
  <2>4. candidate'[c] = row /\ \A d \in Candidates : d # c => candidate'[d] = candidate[d]
    BY <1>1, <2>1, <2>3 DEF QuestionsTypeOK
  <2>. QED
    BY <1>3, <2>1, <2>2, <2>3, <2>4 DEF StatusesKept, Decisions
<1>10. CASE DecideFails
  BY <1>2, <1>3, <1>10 DEF DecideFails
<1>11. CASE EditMessage
  <2>1. answering.press \in 1 .. Len(presses)
    BY <1>11, CallbackAbout DEF EditMessage
  <2>2. PressesKept
    BY <1>4, <1>11, <2>1 DEF EditMessage
  <2>3. messages' = messages \/ Edits(presses[answering.press].message)
    <3>. DEFINE m == presses[answering.press].message
    <3>1. m \in 1 .. Len(messages)
      BY <1>11, CallbackAbout DEF EditMessage
    <3>2. answering.shows \in Decisions /\ candidate[messages[m].about].status = answering.shows
      BY <1>1, <1>11 DEF EditMessage, AnswerInv
    <3>3. messages' = messages \/ messages' = [messages EXCEPT ![m] = [messages[m] EXCEPT !.shows = answering.shows]]
      BY <1>11 DEF EditMessage
    <3>. QED
      BY <3>1, <3>2, <3>3 DEF Edits
  <2>. QED
    BY <1>2, <1>11, <2>2, <2>3 DEF EditMessage
<1>12. CASE QuestionsCrash
  BY <1>2, <1>3, <1>12 DEF QuestionsCrash
<1>. QED
  BY <1>5, <1>6, <1>7, <1>8, <1>9, <1>10, <1>11, <1>12

LEMMA QuestionsMove ==
    ASSUME QuestionsInv, [QuestionsNext]_questionVars
    PROVE  /\ StatusesKept /\ PressesKept /\ MessagesKept /\ OutcomeShown'
           /\ \A m \in 1 .. Len(messages') : candidate'[messages'[m].about].status # "none"
<1>1. QuestionsTypeOK
  BY DEF QuestionsInv
<1>2. /\ StatusesKept /\ PressesKept
      /\ messages' = messages \/ (\E c : Sends(c)) \/ (\E m : Edits(m))
  <2>1. CASE UNCHANGED questionVars
    BY <1>1, <2>1 DEF questionVars, StatusesKept, PressesKept, QuestionsTypeOK
  <2>2. presses' = presses => PressesKept
    BY <1>1 DEF PressesKept, QuestionsTypeOK
  <2>3. CASE ListQuestions \/ SendQuestion \/ SendQuestionFails \/ MarkQuestionSent \/ MarkQuestionFails
    BY <2>2, <2>3, AskerMoves
  <2>. QED
    BY <2>1, <2>3, OwnerMoves DEF QuestionsNext
<1>. QED
  BY <1>2, MessagesMove


\* What becomes of the callback that is worked on.
LEMMA AnsweringMoves ==
    ASSUME QuestionsInv, [QuestionsNext]_questionVars
    PROVE  \/ answering' = answering
           \/ answering'.pc = "idle"
           \/ answering'.pc = "decide" /\ answering'.press > 0
           \/ Decide
<1>1. CASE UNCHANGED questionVars
  BY <1>1 DEF questionVars
<1>2. CASE ListQuestions \/ SendQuestion \/ SendQuestionFails \/ MarkQuestionSent \/ MarkQuestionFails
  BY <1>2, AskerMoves
<1>3. CASE \/ \E c \in Candidates : CandidateWaits(c)
           \/ \E m \in 1 .. MaxQuestions, approve \in BOOLEAN : PressButton(m, approve)
  BY <1>3 DEF CandidateWaits, PressButton
<1>4. ASSUME NEW i \in 1 .. Len(presses), TakeCallback(i) \/ Redeliver(i)
      PROVE  answering' = answering \/ (answering'.pc = "decide" /\ answering'.press > 0)
  BY <1>4 DEF TakeCallback, Redeliver
<1>5. CASE DecideFails \/ EditMessage \/ QuestionsCrash
  BY <1>5 DEF DecideFails, EditMessage, QuestionsCrash, NoCallback
<1>. QED
  BY <1>1, <1>2, <1>3, <1>4, <1>5 DEF QuestionsNext

LEMMA QuestionsStepAnswer ==
    ASSUME QuestionsInv, [QuestionsNext]_questionVars
    PROVE  MessagesInv' /\ AnswerInv'
<1>1. QuestionsTypeOK /\ MessagesInv /\ AnswerInv /\ QuestionsTypeOK'
  BY QuestionsStepType DEF QuestionsInv
<1>2. /\ StatusesKept /\ PressesKept /\ MessagesKept
      /\ \A m \in 1 .. Len(messages') : candidate'[messages'[m].about].status # "none"
  BY QuestionsMove
<1>3. /\ Len(messages) \in Nat /\ Len(messages') \in Nat /\ Len(presses) \in Nat /\ Len(presses') \in Nat
      /\ \A i \in 1 .. Len(presses') : presses'[i].message \in Nat
  <2>1. \A i \in 1 .. Len(presses') : presses'[i] \in Press
    BY <1>1 DEF QuestionsTypeOK
  <2>2. \A i \in 1 .. Len(presses') : presses'[i].message \in Nat
    BY <2>1, TaskQuestionsAssumption DEF Press
  <2>. QED
    BY <1>1, <2>2 DEF QuestionsTypeOK
<1>4. ASSUME NEW i \in 1 .. Len(presses') PROVE presses'[i].message <= Len(messages')
  <2>1. presses'[i].message <= Len(messages)
    <3>1. CASE i \in 1 .. Len(presses)
      BY <1>1, <1>2, <3>1 DEF MessagesInv, PressesKept
    <3>. QED
      BY <1>2, <1>3, <3>1 DEF PressesKept
  <2>. QED
    BY <1>2, <1>3, <2>1 DEF MessagesKept
<1>5. answering'.pc # "idle" => answering'.press > 0
  <2>1. Decide => answering.press > 0 /\ answering'.press = answering.press
    BY <1>1 DEF Decide, MessagesInv
  <2>. QED
    BY <1>1, <2>1, AnsweringMoves DEF MessagesInv
<1>6. MessagesInv'
  BY <1>2, <1>4, <1>5 DEF MessagesInv
<1>7. AnswerInv'
  <2>. DEFINE i == answering.press
              m == presses[i].message
  <2>1. SUFFICES ASSUME answering'.pc = "edit" PROVE AnswerInv'
    BY DEF AnswerInv
  <2>2. answering.pc # "idle" => /\ i \in 1 .. Len(presses)
                                 /\ m \in 1 .. Len(messages) /\ messages[m].about \in Candidates
    BY CallbackAbout
  <2>3. answering.pc # "idle" => messages'[presses'[i].message].about = messages[m].about
    BY <1>2, <2>2 DEF PressesKept, MessagesKept
  <2>4. CASE answering' = answering
    BY <1>1, <1>2, <2>1, <2>2, <2>3, <2>4 DEF AnswerInv, StatusesKept
  <2>5. CASE Decide
    <3>. DEFINE c == messages[m].about
                row == Decided(candidate[c], presses[i].approve)
    <3>1. c \in Candidates /\ candidate[c].status # "none" /\ messages'[presses'[i].message].about = c
      BY <2>2, <2>3, <2>5, CallbackAbout DEF Decide
    <3>2. row.status \in Decisions
      BY <1>1, <3>1 DEF QuestionsTypeOK, Decided, Decisions
    <3>3. /\ candidate' = [candidate EXCEPT ![c] = row]
          /\ answering' = [pc |-> "edit", press |-> i, shows |-> row.status]
      BY <2>5 DEF Decide, Shown
    <3>. HIDE DEF row
    <3>4. candidate'[c] = row
      BY <1>1, <3>1, <3>3 DEF QuestionsTypeOK
    <3>5. answering'.shows = row.status /\ answering'.press = i
      BY <3>3
    <3>6. candidate'[messages'[presses'[answering'.press].message].about] = row
      BY <3>1, <3>4, <3>5
    <3>. QED
      BY <3>2, <3>5, <3>6 DEF AnswerInv
  <2>. QED
    BY <2>1, <2>4, <2>5, AnsweringMoves
<1>. QED
  BY <1>6, <1>7

-------------------------------------------------------------------------------
(* What is asked.                                                          *)

LEMMA AboutFinite ==
    ASSUME QuestionsTypeOK, NEW c
    PROVE  IsFiniteSet(About(c)) /\ Cardinality(About(c)) \in Nat
<1>1. Len(messages) \in Nat
  BY DEF QuestionsTypeOK
<1>2. IsFiniteSet(1 .. Len(messages))
  BY <1>1, FS_Interval
<1>3. IsFiniteSet(About(c))
  BY <1>2, FS_Subset DEF About
<1>. QED
  BY <1>3, FS_CardinalityType

\* As many messages as before are about the same candidates.
LEMMA AboutKept ==
    ASSUME MessagesKept, Len(messages') = Len(messages), NEW c
    PROVE  About(c)' = About(c)
BY DEF MessagesKept, About

\* One more is about the one that was asked about.
LEMMA AboutSent ==
    ASSUME QuestionsTypeOK, NEW s, Sends(s), NEW c \in Candidates
    PROVE  /\ c = s => Cardinality(About(c)') = Cardinality(About(c)) + 1
           /\ c # s => About(c)' = About(c)
<1>. DEFINE new == [about |-> s, shows |-> "buttons"]
<1>1. messages \in Seq(Message) /\ Len(messages) \in Nat /\ new \in Message
  BY DEF QuestionsTypeOK, Sends, Message
<1>2. /\ Len(messages') = Len(messages) + 1
      /\ messages'[Len(messages) + 1] = new
      /\ \A k \in 1 .. Len(messages) : messages'[k] = messages[k]
  BY <1>1, Appended DEF Sends
<1>3. 1 .. Len(messages') = (1 .. Len(messages)) \cup {Len(messages) + 1}
  BY <1>1, <1>2
<1>4. Len(messages) + 1 \notin 1 .. Len(messages)
  BY <1>1
<1>5. About(c)' = {k \in 1 .. Len(messages') : messages'[k].about = c}
  BY DEF About
<1>6. ASSUME c # s PROVE About(c)' = About(c)
  BY <1>2, <1>3, <1>5, <1>6 DEF About
<1>7. ASSUME c = s PROVE Cardinality(About(c)') = Cardinality(About(c)) + 1
  <2>1. About(c)' = About(c) \cup {Len(messages) + 1}
    BY <1>2, <1>3, <1>5, <1>7 DEF About
  <2>2. Len(messages) + 1 \notin About(c) /\ IsFiniteSet(About(c))
    BY <1>4, AboutFinite DEF About
  <2>. QED
    BY <2>1, <2>2, FS_AddElement
<1>. QED
  BY <1>6, <1>7

\* What a step does to the account of one candidate: nothing that costs, a question sent to who was
\* to be asked, one sent and not recorded, or one that was sent earlier and is not recorded now.
AccountMoves(c, n, m) ==
    \/ m = n /\ unasked'[c] = unasked[c] /\ (ToAsk(c)' => ToAsk(c))
    \/ m = n + 1 /\ unasked'[c] = unasked[c] /\ ToAsk(c) /\ ~ToAsk(c)'
    \/ m = n + 1 /\ unasked'[c] = unasked[c] + 1 /\ ToAsk(c) /\ QuestionFault
    \/ m = n /\ unasked'[c] = unasked[c] + 1 /\ QuestionFault

\* Such moves keep the accounts.
LEMMA AccountsKept ==
    ASSUME QuestionsTypeOK, QuestionsTypeOK', AskedInv,
           \A c \in Candidates : AccountMoves(c, Cardinality(About(c)), Cardinality(About(c)')),
           questionFaults' = questionFaults \/ QuestionFault
    PROVE  AskedInv'
<1>1. SUFFICES ASSUME NEW c \in Candidates
               PROVE  /\ Cardinality(About(c)') <= unasked'[c] + IF ToAsk(c)' THEN 0 ELSE 1
                      /\ unasked'[c] <= questionFaults'
  BY DEF AskedInv
<1>. DEFINE n == Cardinality(About(c))
            m == Cardinality(About(c)')
            u == unasked[c]
<1>2. u \in Nat /\ unasked'[c] \in Nat /\ questionFaults \in Nat
  BY TaskQuestionsAssumption DEF QuestionsTypeOK
<1>3. n \in Nat
  BY AboutFinite
<1>4. (ToAsk(c) => n <= u) /\ n <= u + 1 /\ u <= questionFaults
  <2>1. n <= u + (IF ToAsk(c) THEN 0 ELSE 1) /\ u <= questionFaults
    BY DEF AskedInv
  <2>2. CASE ToAsk(c)
    BY <1>2, <1>3, <2>1, <2>2
  <2>3. CASE ~ToAsk(c)
    BY <1>2, <1>3, <2>1, <2>3
  <2>. QED
    BY <2>2, <2>3
<1>5. QuestionFault => questionFaults' = questionFaults + 1
  BY DEF QuestionFault
<1>6. AccountMoves(c, n, m)
  OBVIOUS
<1>. HIDE DEF n, m
<1>7. (ToAsk(c)' => m <= unasked'[c]) /\ m <= unasked'[c] + 1
  BY <1>2, <1>3, <1>4, <1>6 DEF AccountMoves
<1>8. unasked'[c] <= questionFaults'
  BY <1>2, <1>4, <1>5, <1>6 DEF AccountMoves
<1>9. Cardinality(About(c)') <= unasked'[c] + IF ToAsk(c)' THEN 0 ELSE 1
  <2>1. m = Cardinality(About(c)') /\ m \in Nat
    BY <1>3, <1>6 DEF AccountMoves, m
  <2>2. CASE ToAsk(c)'
    BY <1>2, <1>7, <2>1, <2>2
  <2>3. CASE ~ToAsk(c)'
    BY <1>2, <1>7, <2>1, <2>3
  <2>. QED
    BY <2>2, <2>3
<1>. QED
  BY <1>8, <1>9

\* The accounts under the steps of the goroutine that asks.
LEMMA AskerAccounts ==
    ASSUME QuestionsInv, NEW c \in Candidates,
           ListQuestions \/ SendQuestion \/ SendQuestionFails \/ MarkQuestionSent \/ MarkQuestionFails
    PROVE  AccountMoves(c, Cardinality(About(c)), Cardinality(About(c)'))
<1>1. QuestionsTypeOK /\ AskerInv
  BY DEF QuestionsInv
<1>2. asker.pc # "idle" => subject \in asker.list /\ subject \in Candidates /\ candidate[subject].status # "none"
  BY <1>1, SubjectListed DEF AskerInv
<1>3. messages' = messages => About(c)' = About(c)
  BY DEF About
<1>4. subject' = Min(asker'.list)
  BY DEF subject
<1>5. CASE ListQuestions
  <2>1. asker'.pc = "send" /\ asker'.list = PendingQuestions /\ asker.pc = "idle"
        /\ UNCHANGED <<candidate, messages, unasked>>
    BY <1>5 DEF ListQuestions
  <2>2. ToAsk(c)' => ToAsk(c)
    BY <2>1 DEF ToAsk, Marking, PendingQuestions, NotAsked
  <2>. QED
    BY <1>3, <2>1, <2>2 DEF AccountMoves
<1>6. CASE SendQuestion
  <2>1. asker'.list = asker.list /\ asker'.pc = "mark" /\ asker.pc = "send" /\ UNCHANGED <<candidate, unasked>>
    BY <1>1, <1>6 DEF SendQuestion, QuestionsTypeOK
  <2>2. subject' = subject
    BY <1>4, <2>1 DEF subject
  <2>3. Sends(subject)
    BY <1>2, <1>6 DEF SendQuestion, Sends
  <2>4. CASE c = subject
    <3>1. ToAsk(c) /\ ~ToAsk(c)'
      BY <1>2, <2>1, <2>2, <2>4 DEF ToAsk, Marking
    <3>. QED
      BY <1>1, <2>1, <2>3, <2>4, <3>1, AboutSent DEF AccountMoves
  <2>5. CASE c # subject
    <3>1. ToAsk(c)' => ToAsk(c)
      BY <2>1, <2>2, <2>5 DEF ToAsk, Marking
    <3>. QED
      BY <1>1, <2>1, <2>3, <2>5, <3>1, AboutSent DEF AccountMoves
  <2>. QED
    BY <2>4, <2>5
<1>7. CASE SendQuestionFails
  <2>1. asker'.list = {} /\ asker'.pc = "idle" /\ asker.pc = "send" /\ candidate' = candidate /\ QuestionFault
    BY <1>7 DEF SendQuestionFails, IdleAsker
  <2>2. ToAsk(c)' => ToAsk(c)
    BY <2>1 DEF ToAsk, Marking
  <2>3. CASE UNCHANGED <<messages, unasked>>
    BY <1>3, <2>2, <2>3 DEF AccountMoves
  <2>4. CASE Sends(subject) /\ unasked' = [unasked EXCEPT ![subject] = @ + 1]
    <3>1. CASE c = subject
      <4>1. ToAsk(c) /\ unasked'[c] = unasked[c] + 1
        BY <1>1, <1>2, <2>1, <2>4, <3>1 DEF ToAsk, Marking, QuestionsTypeOK
      <4>. QED
        BY <1>1, <2>1, <2>4, <3>1, <4>1, AboutSent DEF AccountMoves
    <3>2. CASE c # subject
      <4>1. unasked'[c] = unasked[c]
        BY <1>1, <2>4, <3>2 DEF QuestionsTypeOK
      <4>. QED
        BY <1>1, <2>2, <2>4, <3>2, <4>1, AboutSent DEF AccountMoves
    <3>. QED
      BY <3>1, <3>2
  <2>. QED
    BY <1>2, <1>7, <2>1, <2>3, <2>4 DEF SendQuestionFails, Sends
<1>8. CASE MarkQuestionSent
  <2>1. asker.pc = "mark" /\ UNCHANGED <<messages, unasked>>
    BY <1>8 DEF MarkQuestionSent
  <2>2. asker'.pc # "mark" /\ asker'.list = asker.list \ {subject}
    BY <1>2, <1>8, <2>1 DEF MarkQuestionSent, NextQuestion, IdleAsker
  <2>3. ToAsk(c)' => ToAsk(c)
    <3>1. CASE c = subject
      <4>1. candidate'[c].status = candidate[c].status
        BY <1>1, <1>2, <1>8, <2>1, <3>1 DEF MarkQuestionSent, QuestionsTypeOK
      <4>2. candidate[c].status = "pending" => candidate'[c].asked # 0
        <5>1. Len(messages) > 0 /\ Len(messages) \in Nat
          BY <1>1, <2>1 DEF AskerInv, QuestionsTypeOK
        <5>. QED
          BY <1>1, <1>2, <1>8, <2>1, <3>1, <5>1 DEF MarkQuestionSent, QuestionsTypeOK
      <4>3. c \notin asker'.list
        BY <2>2, <3>1
      <4>. QED
        BY <1>2, <2>1, <3>1, <4>1, <4>2, <4>3 DEF ToAsk
    <3>2. CASE c # subject
      <4>1. candidate'[c] = candidate[c]
        BY <1>1, <1>8, <3>2 DEF MarkQuestionSent, QuestionsTypeOK
      <4>. QED
        BY <2>1, <2>2, <3>2, <4>1 DEF ToAsk, Marking
    <3>. QED
      BY <3>1, <3>2
  <2>. QED
    BY <1>3, <2>1, <2>3 DEF AccountMoves
<1>9. CASE MarkQuestionFails
  <2>1. /\ asker.pc = "mark" /\ asker'.pc = "idle" /\ asker'.list = {} /\ QuestionFault
        /\ UNCHANGED <<candidate, messages>>
    BY <1>9 DEF MarkQuestionFails, IdleAsker
  <2>2. CASE c = subject
    <3>1. unasked'[c] = unasked[c] + 1
      BY <1>1, <1>9, <2>2 DEF MarkQuestionFails, QuestionsTypeOK
    <3>. QED
      BY <1>3, <2>1, <3>1 DEF AccountMoves
  <2>3. CASE c # subject
    <3>1. unasked'[c] = unasked[c]
      BY <1>1, <1>9, <2>3 DEF MarkQuestionFails, QuestionsTypeOK
    <3>2. ToAsk(c)' => ToAsk(c)
      BY <2>1, <2>3 DEF ToAsk, Marking
    <3>. QED
      BY <1>3, <2>1, <3>1, <3>2 DEF AccountMoves
  <2>. QED
    BY <2>2, <2>3
<1>. QED
  BY <1>5, <1>6, <1>7, <1>8, <1>9

\* And under the others: they ask nobody.
LEMMA OwnerAccounts ==
    ASSUME QuestionsInv, NEW c \in Candidates, MessagesKept, StatusesKept,
           \/ \E d \in Candidates : CandidateWaits(d)
           \/ \E m \in 1 .. MaxQuestions, approve \in BOOLEAN : PressButton(m, approve)
           \/ \E i \in 1 .. Len(presses) : TakeCallback(i) \/ Redeliver(i)
           \/ Decide \/ DecideFails \/ EditMessage \/ QuestionsCrash
    PROVE  AccountMoves(c, Cardinality(About(c)), Cardinality(About(c)'))
<1>1. QuestionsTypeOK /\ AskerInv
  BY DEF QuestionsInv
<1>2. asker' = asker => subject' = subject
  BY DEF subject
<1>3. messages' = messages => About(c)' = About(c)
  BY DEF About
<1>4. UNCHANGED <<candidate, asker>> => ToAsk(c)' = ToAsk(c)
  BY <1>2 DEF ToAsk, Marking
<1>5. ASSUME NEW d \in Candidates, CandidateWaits(d)
      PROVE  AccountMoves(c, Cardinality(About(c)), Cardinality(About(c)'))
  <2>1. ToAsk(c)' => ToAsk(c)
    <3>1. c # d => candidate'[c] = candidate[c]
      BY <1>1, <1>5 DEF CandidateWaits, QuestionsTypeOK
    <3>2. c = d => candidate[c].status = "none"
      BY <1>5 DEF CandidateWaits
    <3>. QED
      BY <1>2, <1>5, <3>1, <3>2 DEF CandidateWaits, ToAsk, Marking
  <2>. QED
    BY <1>3, <1>5, <2>1 DEF CandidateWaits, AccountMoves
<1>6. ASSUME UNCHANGED <<candidate, messages, asker, unasked>>
      PROVE  AccountMoves(c, Cardinality(About(c)), Cardinality(About(c)'))
  BY <1>3, <1>4, <1>6 DEF AccountMoves
<1>7. CASE Decide
  <2>. DEFINE s == messages[presses[answering.press].message].about
              row == Decided(candidate[s], presses[answering.press].approve)
  <2>1. s \in Candidates
    BY <1>7, CallbackAbout DEF Decide
  <2>2. /\ candidate' = [candidate EXCEPT ![s] = row]
        /\ UNCHANGED <<messages, asker, unasked>>
    BY <1>7 DEF Decide
  <2>3. candidate[c].asked = candidate'[c].asked
        /\ (candidate'[c].status = "pending" => candidate[c].status = "pending")
    <3>1. row.asked = candidate[s].asked /\ (row.status = "pending" => candidate[s].status = "pending")
      BY <1>1, <2>1 DEF Decided, QuestionsTypeOK
    <3>. HIDE DEF s, row
    <3>. QED
      BY <1>1, <2>1, <2>2, <3>1 DEF QuestionsTypeOK
  <2>4. candidate'[c].status = "none" => candidate[c].status = "none"
    BY DEF StatusesKept
  <2>5. ToAsk(c)' => ToAsk(c)
    BY <1>2, <2>2, <2>3, <2>4 DEF ToAsk, Marking
  <2>. QED
    BY <1>3, <2>2, <2>5 DEF AccountMoves
<1>8. CASE EditMessage
  <2>1. Len(messages') = Len(messages)
    BY <1>1, <1>8 DEF EditMessage, QuestionsTypeOK
  <2>. QED
    BY <1>4, <1>8, <2>1, AboutKept DEF EditMessage, AccountMoves
<1>9. CASE QuestionsCrash
  <2>1. asker'.pc = "idle" /\ asker'.list = {} /\ QuestionFault /\ UNCHANGED <<candidate, messages>>
    BY <1>9 DEF QuestionsCrash, IdleAsker
  <2>2. CASE Marking(c)
    <3>1. unasked'[c] = unasked[c] + 1
      BY <1>1, <1>9, <2>2 DEF QuestionsCrash, Marking, QuestionsTypeOK
    <3>. QED
      BY <1>3, <2>1, <3>1 DEF AccountMoves
  <2>3. CASE ~Marking(c)
    <3>1. unasked'[c] = unasked[c]
      BY <1>1, <1>9, <2>3 DEF QuestionsCrash, Marking, QuestionsTypeOK
    <3>2. ToAsk(c)' => ToAsk(c)
      BY <2>1, <2>3 DEF ToAsk
    <3>. QED
      BY <1>3, <2>1, <3>1, <3>2 DEF AccountMoves
  <2>. QED
    BY <2>2, <2>3
<1>10. ASSUME NEW m, NEW approve, PressButton(m, approve) PROVE UNCHANGED <<candidate, messages, asker, unasked>>
  BY <1>10 DEF PressButton
<1>11. ASSUME NEW i, TakeCallback(i) \/ Redeliver(i) PROVE UNCHANGED <<candidate, messages, asker, unasked>>
  BY <1>11 DEF TakeCallback, Redeliver
<1>12. ASSUME DecideFails PROVE UNCHANGED <<candidate, messages, asker, unasked>>
  BY <1>12 DEF DecideFails
<1>. QED
  BY <1>5, <1>6, <1>7, <1>8, <1>9, <1>10, <1>11, <1>12

\* The asker keeps to candidates that wait.
LEMMA QuestionsStepAsker ==
    ASSUME QuestionsInv, [QuestionsNext]_questionVars
    PROVE  AskerInv'
<1>1. QuestionsTypeOK /\ AskerInv /\ StatusesKept /\ MessagesKept
  BY QuestionsMove DEF QuestionsInv
<1>2. Len(messages) \in Nat /\ Len(messages') \in Nat /\ asker.list \subseteq Candidates
  BY <1>1, QuestionsStepType DEF QuestionsTypeOK
<1>3. asker.pc # "idle" => subject \in asker.list
  BY <1>1, SubjectListed DEF AskerInv
<1>4. CASE asker' = asker
  BY <1>1, <1>2, <1>4 DEF AskerInv, StatusesKept, MessagesKept
<1>5. CASE asker' = IdleAsker
  BY <1>5 DEF AskerInv, IdleAsker
<1>6. CASE ListQuestions
  BY <1>1, <1>6 DEF ListQuestions, PendingQuestions, AskerInv, StatusesKept
<1>7. CASE SendQuestion
  <2>1. asker' = [asker EXCEPT !.pc = "mark"] /\ candidate' = candidate /\ asker.pc = "send"
    BY <1>7 DEF SendQuestion
  <2>2. asker'.list = asker.list
    BY <1>1, <2>1 DEF QuestionsTypeOK
  <2>3. Len(messages') > 0
    BY <1>1, <1>2, <1>7 DEF SendQuestion, QuestionsTypeOK
  <2>. QED
    BY <1>1, <2>1, <2>2, <2>3 DEF AskerInv
<1>8. CASE MarkQuestionSent
  <2>1. asker' = NextQuestion /\ asker.pc = "mark"
    BY <1>8 DEF MarkQuestionSent
  <2>2. asker.list # {subject} => asker.list \ {subject} # {}
    BY <1>3, <2>1
  <2>3. CASE asker.list = {subject}
    BY <1>5, <2>1, <2>3 DEF NextQuestion
  <2>4. CASE asker.list # {subject}
    <3>1. asker'.pc = "send" /\ asker'.list = asker.list \ {subject}
      BY <2>1, <2>4 DEF NextQuestion
    <3>. QED
      BY <1>1, <1>2, <2>2, <2>4, <3>1 DEF AskerInv, StatusesKept
  <2>. QED
    BY <2>3, <2>4
<1>9. ASSUME NEW m, NEW approve, PressButton(m, approve) PROVE asker' = asker
  BY <1>9 DEF PressButton
<1>10. ASSUME NEW i, TakeCallback(i) \/ Redeliver(i) PROVE asker' = asker
  BY <1>10 DEF TakeCallback, Redeliver
<1>11. ASSUME NEW c, CandidateWaits(c) PROVE asker' = asker
  BY <1>11 DEF CandidateWaits
<1>12. ASSUME Decide \/ DecideFails \/ EditMessage PROVE asker' = asker
  BY <1>12 DEF Decide, DecideFails, EditMessage
<1>13. ASSUME SendQuestionFails \/ MarkQuestionFails \/ QuestionsCrash PROVE asker' = IdleAsker
  BY <1>13 DEF SendQuestionFails, MarkQuestionFails, QuestionsCrash
<1>14. UNCHANGED questionVars => asker' = asker
  BY DEF questionVars
<1>. QED
  BY <1>4, <1>5, <1>6, <1>7, <1>8, <1>9, <1>10, <1>11, <1>12, <1>13, <1>14 DEF QuestionsNext

LEMMA QuestionsStepAsked ==
    ASSUME QuestionsInv, [QuestionsNext]_questionVars
    PROVE  AskedInv'
<1>1. QuestionsTypeOK /\ AskedInv /\ QuestionsTypeOK' /\ MessagesKept /\ StatusesKept
  BY QuestionsStepType, QuestionsMove DEF QuestionsInv
<1>2. CASE UNCHANGED questionVars
  BY <1>1, <1>2 DEF questionVars, AskedInv, About, ToAsk, Marking, subject
<1>3. CASE QuestionsNext
  <2>1. \A c \in Candidates : AccountMoves(c, Cardinality(About(c)), Cardinality(About(c)'))
    <3>1. CASE ListQuestions \/ SendQuestion \/ SendQuestionFails \/ MarkQuestionSent \/ MarkQuestionFails
      BY <3>1, AskerAccounts
    <3>. QED
      BY <1>1, <1>3, <3>1, OwnerAccounts DEF QuestionsNext
  <2>2. questionFaults' = questionFaults \/ QuestionFault
    BY <1>3 DEF QuestionsNext, CandidateWaits, ListQuestions, SendQuestion, SendQuestionFails,
                MarkQuestionSent, MarkQuestionFails, PressButton, TakeCallback, Redeliver, Decide,
                DecideFails, EditMessage, QuestionsCrash
  <2>. QED
    BY <1>1, <2>1, <2>2, AccountsKept
<1>. QED
  BY <1>2, <1>3

\* The inductive invariant of the questions: the asker works through candidates that waited, a
\* callback shows what is stored, and the messages about a candidate are accounted for
\* (telegram_task_questions.go).
THEOREM QuestionsInvariant == QuestionsSpec => []QuestionsInv
<1>1. QuestionsInv /\ [QuestionsNext]_questionVars => QuestionsInv'
  BY QuestionsStepType, QuestionsMove, QuestionsStepAnswer, QuestionsStepAsker, QuestionsStepAsked
     DEF QuestionsInv
<1>. QED
  BY QuestionsInitInv, <1>1, PTL DEF QuestionsSpec

\* Candidates, messages, callbacks and the asker keep their types, and no callback is about a
\* message that was never sent (telegram_task_questions.go).
THEOREM QuestionsTyped == QuestionsSpec => []QuestionsTypeOK
<1>1. QuestionsInv => QuestionsTypeOK
  BY DEF QuestionsInv
<1>. QED
  BY QuestionsInvariant, <1>1, PTL

\* A message never shows another outcome than the one stored, whichever of several questions about
\* a promise is answered and however often its callback comes (handleTaskCallback).
THEOREM OutcomesShown == QuestionsSpec => []OutcomeShown
<1>1. QuestionsInv => OutcomeShown
  BY DEF QuestionsInv
<1>. QED
  BY QuestionsInvariant, <1>1, PTL

\* A promise is asked about once more only if a question that was sent could not be recorded
\* (sendTaskQuestions).
THEOREM AskedAgainIfUnrecorded == QuestionsSpec => []AskedOnce
<1>1. ASSUME QuestionsInv PROVE AskedOnce
  <2>1. ASSUME NEW c \in Candidates PROVE Quantify(1 .. Len(messages), LAMBDA m : messages[m].about = c) <= 1 + unasked[c]
    <3>1. Quantify(1 .. Len(messages), LAMBDA m : messages[m].about = c) = Cardinality(About(c))
      BY DEF Quantify, About
    <3>2. unasked[c] \in Nat /\ Cardinality(About(c)) \in Nat
      BY <1>1, AboutFinite, TaskQuestionsAssumption DEF QuestionsInv, QuestionsTypeOK
    <3>3. Cardinality(About(c)) <= unasked[c] + IF ToAsk(c) THEN 0 ELSE 1
      BY <1>1 DEF QuestionsInv, AskedInv
    <3>4. Cardinality(About(c)) <= 1 + unasked[c]
      BY <3>2, <3>3
    <3>. QED
      BY <3>1, <3>4
  <2>. QED
    BY <2>1 DEF AskedOnce
<1>. QED
  BY QuestionsInvariant, <1>1, PTL

(***************************************************************************)
(* The IMAP cursor: no message that should be handled is passed.           *)
(***************************************************************************)

\* A message that is matched needs no more care: it was handled, or skipped on purpose.
Settled(u) == <<validity, u>> \in handledMail \/ <<validity, u>> \in existing

\* A poll works in the generation it selected, and starts after the cursor or at the beginning.
StartInv ==
    /\ mailCursor.folder <= validity
    /\ Valid => mailCursor.uid < uidNext
    /\ mailPoll.pc # "idle" =>
           /\ mailPoll.validity = validity
           /\ mailPoll.start = StartUid

\* A poll that has not searched yet has passed nothing.
SearchInv == mailPoll.pc = "search" => mailPoll.last = 0

\* What the poll has looked at lies below what it will look at: up to the last message it holds
\* or has passed, each that is matched is settled or still to come.
PollInv == mailPoll.pc = "fetch" =>
    /\ mailPoll.last < uidNext
    /\ \A v \in mailPoll.uids : v < uidNext
    /\ ~mailPoll.failed =>
           \A u \in Uids, v \in mailPoll.uids \cup {mailPoll.last} :
               mailPoll.start <= u /\ u <= v /\ mail[u] = "matching" =>
                   u \in mailPoll.uids \/ Settled(u)

\* The record of a poll.
MailPollStates == [pc : {"idle", "search", "fetch"}, start : 1 .. MaxUid + 1,
                   validity : 1 .. MaxValidity, uids : SUBSET Uids, last : 0 .. MaxUid,
                   failed : BOOLEAN]

ImapInv ==
    /\ ImapTypeOK /\ StartInv /\ SearchInv /\ PollInv /\ MailNotSkipped
    /\ mailPoll = NoMailPoll \/ mailPoll \in MailPollStates

-------------------------------------------------------------------------------
(* The poll.                                                               *)

\* The fields of a poll, whichever step it is at.
LEMMA MailPollFields ==
    ASSUME ImapInv
    PROVE  /\ mailPoll \in [pc : {"idle", "search", "fetch"}, start : 0 .. MaxUid + 1,
                             validity : 0 .. MaxValidity, uids : SUBSET Uids,
                             last : 0 .. MaxUid, failed : BOOLEAN]
           /\ mailPoll.pc # "idle" => mailPoll \in MailPollStates
<1>1. CASE mailPoll = NoMailPoll
  BY <1>1, ImapPollAssumption DEF NoMailPoll
<1>2. CASE mailPoll \in MailPollStates
  BY <1>2, ImapPollAssumption DEF MailPollStates
<1>. QED
  BY <1>1, <1>2 DEF ImapInv

\* Messages in the folder, and where a poll would start.
LEMMA MailNumbers ==
    ASSUME ImapTypeOK
    PROVE  /\ uidNext \in Nat /\ validity \in Nat /\ MaxUid \in Nat
           /\ mailCursor.uid \in Nat /\ mailCursor.folder \in Nat
           /\ \A u \in Uids : u \in Nat /\ (mail[u] # "none" <=> u < uidNext)
           /\ StartUid \in 1 .. MaxUid + 1
BY ImapPollAssumption DEF ImapTypeOK, Uids, StartUid

\* Every step keeps the types.
LEMMA ImapTypeStep == ASSUME ImapInv, [ImapNext]_imapVars PROVE ImapTypeOK'
<1>. USE ImapPollAssumption, MailPollFields, MailNumbers DEF ImapInv, ImapTypeOK
<1>1. CASE Arrive
  <2>1. PICK sender \in {"matching", "filtered"} : mail' = [mail EXCEPT ![uidNext] = sender]
    BY <1>1 DEF Arrive
  <2>2. uidNext \in Uids /\ uidNext' = uidNext + 1 /\ uidNext' \in 1 .. MaxUid + 1
    BY <1>1 DEF Arrive, Uids
  <2>3. mail' \in [Uids -> {"none", "matching", "filtered", "expunged"}]
    BY <2>1
  <2>4. \A u \in Uids : mail'[u] = "none" <=> u >= uidNext'
    BY <2>1, <2>2
  <2>. QED
    BY <1>1, <2>2, <2>3, <2>4 DEF Arrive
<1>2. CASE Expunge
  <2>1. PICK u \in Present : mail' = [mail EXCEPT ![u] = "expunged"]
    BY <1>2 DEF Expunge
  <2>2. mail' \in [Uids -> {"none", "matching", "filtered", "expunged"}]
    BY <2>1
  <2>3. \A v \in Uids : mail'[v] = "none" <=> v >= uidNext
    BY <2>1 DEF Present
  <2>. QED
    BY <1>2, <2>2, <2>3 DEF Expunge
<1>3. CASE Recreate
  <2>1. PICK n \in 0 .. 1 : /\ mail' = [u \in Uids |-> IF u <= n THEN "matching" ELSE "none"]
                            /\ uidNext' = n + 1
    BY <1>3 DEF Recreate
  <2>2. mail' \in [Uids -> {"none", "matching", "filtered", "expunged"}]
    BY <2>1
  <2>3. \A v \in Uids : mail'[v] = "none" <=> v >= uidNext'
    BY <2>1
  <2>4. uidNext' \in 1 .. MaxUid + 1 /\ validity' \in 1 .. MaxValidity
    BY <1>3, <2>1 DEF Recreate
  <2>. QED
    BY <1>3, <2>2, <2>3, <2>4 DEF Recreate
<1>4. CASE SkipExisting
  <2>1. mailCursor' \in [uid : 0 .. MaxUid, folder : 0 .. MaxValidity]
    BY <1>4 DEF SkipExisting, SaveCursor
  <2>2. existing' \subseteq (1 .. MaxValidity) \X Uids
    BY <1>4 DEF SkipExisting, Present
  <2>. QED
    BY <1>4, <2>1, <2>2 DEF SkipExisting
<1>5. ASSUME UNCHANGED <<onFirstConnect, mail, uidNext, validity, mailCursor, handledMail, existing>>,
             mailPoll'.pc \in {"idle", "search", "fetch"}, mailPoll'.uids \subseteq Uids,
             mailPoll'.last \in 0 .. MaxUid, mailPoll'.failed \in BOOLEAN
      PROVE  ImapTypeOK'
  BY <1>5
<1>6. CASE SelectFolder
  BY <1>5, <1>6 DEF SelectFolder, NoMailPoll
<1>7. CASE Search
  <2>1. SearchResult(mailPoll.start) \subseteq Uids
    BY DEF SearchResult, Present
  <2>. QED
    <3>1. /\ UNCHANGED <<onFirstConnect, mail, uidNext, validity, mailCursor, handledMail, existing>>
          /\ \/ mailPoll' = NoMailPoll
             \/ mailPoll' = [mailPoll EXCEPT !.pc = "fetch", !.uids = SearchResult(mailPoll.start)]
      BY <1>7 DEF Search
    <3>2. CASE mailPoll' = NoMailPoll
      BY <1>5, <3>1, <3>2 DEF NoMailPoll
    <3>3. CASE mailPoll' = [mailPoll EXCEPT !.pc = "fetch", !.uids = SearchResult(mailPoll.start)]
      <4>1. /\ mailPoll'.pc = "fetch" /\ mailPoll'.uids \subseteq Uids
            /\ mailPoll'.last = mailPoll.last /\ mailPoll'.failed = mailPoll.failed
        BY <2>1, <3>3
      <4>. QED
        BY <1>5, <3>1, <4>1
    <3>. QED
      BY <3>1, <3>2, <3>3
<1>8. CASE FetchFiltered
  <2>1. PICK u \in mailPoll.uids :
            mailPoll' = [mailPoll EXCEPT !.uids = mailPoll.uids \ {u}, !.last = Later(u)]
    BY <1>8 DEF FetchFiltered
  <2>2. Later(u) \in 0 .. MaxUid
    BY <2>1 DEF Later, Uids
  <2>. QED
    BY <1>5, <1>8, <2>1, <2>2 DEF FetchFiltered
<1>9. CASE FetchHandled
  <2>1. PICK u \in mailPoll.uids :
            /\ mailPoll' = [mailPoll EXCEPT !.uids = mailPoll.uids \ {u}, !.last = Later(u)]
            /\ handledMail' = handledMail \cup {<<validity, u>>}
    BY <1>9 DEF FetchHandled
  <2>2. Later(u) \in 0 .. MaxUid /\ u \in Uids
    BY <2>1 DEF Later, Uids
  <2>3. handledMail' \subseteq (1 .. MaxValidity) \X Uids
    BY <2>1, <2>2
  <2>. QED
    <3>1. /\ mailPoll'.pc \in {"idle", "search", "fetch"} /\ mailPoll'.uids \subseteq Uids
          /\ mailPoll'.last \in 0 .. MaxUid /\ mailPoll'.failed \in BOOLEAN
      BY <2>1, <2>2
    <3>. QED
      BY <1>9, <2>3, <3>1 DEF FetchHandled
<1>10. CASE HandlerError
  BY <1>5, <1>10 DEF HandlerError
<1>11. CASE FetchNothing
  BY <1>5, <1>11 DEF FetchNothing
<1>12. CASE FetchEnds
  <2>1. mailCursor' \in [uid : 0 .. MaxUid, folder : 0 .. MaxValidity]
    BY <1>12 DEF FetchEnds, SaveCursor
  <2>. QED
    BY <1>12, <2>1 DEF FetchEnds, NoMailPoll
<1>13. CASE PollFails
  BY <1>5, <1>13 DEF PollFails, NoMailPoll
<1>14. CASE UNCHANGED imapVars
  BY <1>14 DEF imapVars
<1>. QED
  BY <1>1, <1>2, <1>3, <1>4, <1>6, <1>7, <1>8, <1>9, <1>10, <1>11, <1>12, <1>13, <1>14 DEF ImapNext

\* A poll that is not idle is at one of two steps, and each step of it keeps its shape.
LEMMA PollShapeStep ==
    ASSUME ImapInv, [ImapNext]_imapVars
    PROVE  mailPoll' = NoMailPoll \/ mailPoll' \in MailPollStates
<1>. USE ImapPollAssumption, MailPollFields, MailNumbers DEF ImapInv
<1>1. CASE UNCHANGED mailPoll
  BY <1>1
<1>2. CASE SelectFolder
  <2>1. mailPoll' = [NoMailPoll EXCEPT !.pc = "search", !.start = StartUid, !.validity = validity]
    BY <1>2 DEF SelectFolder
  <2>2. validity \in 1 .. MaxValidity /\ StartUid \in 1 .. MaxUid + 1
    BY DEF ImapTypeOK
  <2>3. mailPoll' = [pc |-> "search", start |-> StartUid, validity |-> validity, uids |-> {},
                     last |-> 0, failed |-> FALSE]
    BY <2>1 DEF NoMailPoll
  <2>. QED
    BY <2>2, <2>3 DEF MailPollStates
<1>3. CASE Search
  <2>1. SearchResult(mailPoll.start) \in SUBSET Uids /\ mailPoll \in MailPollStates
    BY <1>3 DEF SearchResult, Present, Search
  <2>2. [mailPoll EXCEPT !.pc = "fetch", !.uids = SearchResult(mailPoll.start)] \in MailPollStates
    BY <2>1 DEF MailPollStates
  <2>. QED
    BY <1>3, <2>2 DEF Search
<1>4. ASSUME NEW u \in mailPoll.uids, mailPoll.pc = "fetch",
             \/ mailPoll' = [mailPoll EXCEPT !.uids = mailPoll.uids \ {u}, !.last = Later(u)]
             \/ mailPoll' = [mailPoll EXCEPT !.uids = {}, !.failed = TRUE]
             \/ mailPoll' = [mailPoll EXCEPT !.uids = mailPoll.uids \ {u}]
      PROVE  mailPoll' \in MailPollStates
  <2>1. mailPoll \in MailPollStates /\ u \in Uids /\ Later(u) \in 0 .. MaxUid
    BY <1>4 DEF Later, Uids
  <2>2. CASE mailPoll' = [mailPoll EXCEPT !.uids = mailPoll.uids \ {u}, !.last = Later(u)]
    BY <2>1, <2>2 DEF MailPollStates
  <2>3. CASE mailPoll' = [mailPoll EXCEPT !.uids = {}, !.failed = TRUE]
    BY <2>1, <2>3 DEF MailPollStates
  <2>4. CASE mailPoll' = [mailPoll EXCEPT !.uids = mailPoll.uids \ {u}]
    BY <2>1, <2>4 DEF MailPollStates
  <2>. QED
    BY <1>4, <2>2, <2>3, <2>4
<1>5. CASE FetchFiltered \/ FetchHandled \/ HandlerError \/ FetchNothing
  BY <1>4, <1>5 DEF FetchFiltered, FetchHandled, HandlerError, FetchNothing
<1>6. CASE FetchEnds \/ PollFails
  BY <1>6 DEF FetchEnds, PollFails
<1>. QED
  BY <1>1, <1>2, <1>3, <1>5, <1>6 DEF ImapNext, Arrive, Expunge, Recreate, SkipExisting, imapVars

\* Only a selection begins a search, with nothing passed yet.
LEMMA SearchStep == ASSUME ImapInv, [ImapNext]_imapVars PROVE SearchInv'
<1>. USE ImapPollAssumption, MailPollFields DEF ImapInv, SearchInv
<1>1. CASE UNCHANGED mailPoll
  BY <1>1
<1>2. CASE SelectFolder
  BY <1>2 DEF SelectFolder, NoMailPoll
<1>3. CASE Search
  <2>1. mailPoll'.pc # "search"
    BY <1>3 DEF Search, NoMailPoll
  <2>. QED
    BY <2>1
<1>4. CASE FetchFiltered \/ FetchHandled \/ HandlerError \/ FetchNothing
  <2>1. mailPoll'.pc = "fetch"
    BY <1>4 DEF FetchFiltered, FetchHandled, HandlerError, FetchNothing
  <2>. QED
    BY <2>1
<1>5. CASE FetchEnds \/ PollFails
  BY <1>5 DEF FetchEnds, PollFails, NoMailPoll
<1>. QED
  BY <1>1, <1>2, <1>3, <1>4, <1>5 DEF ImapNext, Arrive, Expunge, Recreate, SkipExisting, imapVars

\* A poll keeps the generation and the start it was given, because only its end moves the cursor
\* and the folder is made anew between polls.
LEMMA StartStep == ASSUME ImapInv, [ImapNext]_imapVars PROVE StartInv'
<1>. USE ImapPollAssumption, MailPollFields, MailNumbers DEF ImapInv
<1>1. ASSUME UNCHANGED <<validity, mailCursor>>, uidNext' \in Nat, uidNext' >= uidNext,
             mailPoll'.pc = "idle" \/ (/\ mailPoll.pc # "idle"
                                       /\ mailPoll'.validity = mailPoll.validity
                                       /\ mailPoll'.start = mailPoll.start)
      PROVE  StartInv'
  BY <1>1 DEF StartInv, Valid, StartUid
<1>2. CASE Arrive \/ Expunge
  <2>1. uidNext' \in {uidNext, uidNext + 1} /\ UNCHANGED <<validity, mailCursor, mailPoll>>
    BY <1>2 DEF Arrive, Expunge
  <2>. QED
    BY <1>1, <2>1
<1>3. CASE Recreate
  <2>1. validity' = validity + 1 /\ UNCHANGED <<mailCursor, mailPoll>> /\ mailPoll.pc = "idle"
    BY <1>3 DEF Recreate
  <2>. QED
    BY <2>1 DEF StartInv, Valid
<1>4. CASE SkipExisting
  <2>1. /\ mailCursor'.uid = uidNext - 1 /\ mailCursor'.folder = validity
        /\ UNCHANGED <<uidNext, validity, mailPoll>> /\ mailPoll.pc = "idle"
    BY <1>4 DEF SkipExisting, SaveCursor
  <2>. QED
    BY <2>1 DEF StartInv, Valid
<1>5. CASE SelectFolder
  <2>1. /\ mailPoll'.start = StartUid /\ mailPoll'.validity = validity
        /\ UNCHANGED <<uidNext, validity, mailCursor>>
    BY <1>5 DEF SelectFolder, NoMailPoll
  <2>. QED
    BY <2>1 DEF StartInv, Valid, StartUid
<1>6. CASE Search
  <2>1. CASE mailPoll' = NoMailPoll
    BY <1>1, <1>6, <2>1 DEF Search, NoMailPoll
  <2>2. CASE mailPoll' = [mailPoll EXCEPT !.pc = "fetch", !.uids = SearchResult(mailPoll.start)]
    <3>1. mailPoll'.validity = mailPoll.validity /\ mailPoll'.start = mailPoll.start
      BY <2>2
    <3>2. UNCHANGED <<uidNext, validity, mailCursor>> /\ mailPoll.pc # "idle"
      BY <1>6 DEF Search
    <3>. QED
      BY <1>1, <3>1, <3>2
  <2>. QED
    BY <1>6, <2>1, <2>2 DEF Search
<1>7. CASE FetchFiltered \/ FetchHandled \/ HandlerError \/ FetchNothing
  <2>1. PICK u \in mailPoll.uids :
           \/ mailPoll' = [mailPoll EXCEPT !.uids = mailPoll.uids \ {u}, !.last = Later(u)]
           \/ mailPoll' = [mailPoll EXCEPT !.uids = {}, !.failed = TRUE]
           \/ mailPoll' = [mailPoll EXCEPT !.uids = mailPoll.uids \ {u}]
    BY <1>7 DEF FetchFiltered, FetchHandled, HandlerError, FetchNothing
  <2>2. mailPoll'.validity = mailPoll.validity /\ mailPoll'.start = mailPoll.start
    BY <2>1
  <2>3. UNCHANGED <<uidNext, validity, mailCursor>> /\ mailPoll.pc # "idle"
    BY <1>7 DEF FetchFiltered, FetchHandled, HandlerError, FetchNothing
  <2>. QED
    BY <1>1, <2>2, <2>3
<1>8. CASE FetchEnds
  <2>1. /\ mailPoll' = NoMailPoll /\ UNCHANGED <<uidNext, validity>> /\ mailPoll.pc = "fetch"
        /\ \/ mailCursor' = mailCursor
           \/ mailCursor'.uid = mailPoll.last /\ mailCursor'.folder = mailPoll.validity
    BY <1>8 DEF FetchEnds, SaveCursor
  <2>2. mailPoll.last < uidNext /\ mailPoll.validity = validity
    BY <2>1 DEF PollInv, StartInv
  <2>. QED
    BY <2>1, <2>2 DEF StartInv, Valid, NoMailPoll
<1>9. CASE PollFails
  BY <1>1, <1>9 DEF PollFails, NoMailPoll
<1>10. CASE UNCHANGED imapVars
  BY <1>1, <1>10 DEF imapVars
<1>. QED
  BY <1>2, <1>3, <1>4, <1>5, <1>6, <1>7, <1>8, <1>9, <1>10 DEF ImapNext

\* No response of a poll leaves a matched message behind: it is handled, or the poll has failed.
LEMMA PollStep == ASSUME ImapInv, [ImapNext]_imapVars PROVE PollInv'
<1>. USE ImapPollAssumption, MailPollFields, MailNumbers DEF ImapInv
<1>1. ASSUME mailPoll'.pc # "fetch" PROVE PollInv'
  BY <1>1 DEF PollInv
<1>2. ASSUME UNCHANGED <<mailPoll, validity, handledMail, existing>>, uidNext' \in Nat,
             uidNext' >= uidNext,
             \A u \in Uids : mail'[u] = "matching" => mail[u] = "matching" \/ u >= uidNext
      PROVE  PollInv'
  <2>. SUFFICES ASSUME mailPoll.pc = "fetch" PROVE PollInv'
    BY <1>2 DEF PollInv
  <2>1. mailPoll.last < uidNext' /\ \A v \in mailPoll.uids : v < uidNext'
    BY <1>2 DEF PollInv
  <2>2. ASSUME ~mailPoll.failed, NEW u \in Uids, NEW v \in mailPoll.uids \cup {mailPoll.last},
               mailPoll.start <= u, u <= v, mail'[u] = "matching"
        PROVE  u \in mailPoll.uids \/ Settled(u)
    <3>1. v < uidNext /\ v \in Nat /\ u \in Nat
      BY DEF PollInv, Uids
    <3>2. mail[u] = "matching"
      BY <1>2, <2>2, <3>1
    <3>. QED
      BY <2>2, <3>2 DEF PollInv
  <2>3. \A u \in Uids : Settled(u)' <=> Settled(u)
    BY <1>2 DEF Settled
  <2>. QED
    BY <1>2, <2>1, <2>2, <2>3 DEF PollInv
<1>3. CASE Arrive
  <2>1. PICK sender \in {"matching", "filtered"} : mail' = [mail EXCEPT ![uidNext] = sender]
    BY <1>3 DEF Arrive
  <2>2. \A u \in Uids : u # uidNext => mail'[u] = mail[u]
    BY <2>1 DEF ImapTypeOK
  <2>. QED
    BY <1>2, <1>3, <2>2 DEF Arrive
<1>4. CASE Expunge
  <2>1. \A u \in Uids : mail'[u] = mail[u] \/ mail'[u] = "expunged"
    BY <1>4 DEF Expunge, ImapTypeOK
  <2>. QED
    BY <1>2, <1>4, <2>1 DEF Expunge
<1>5. CASE Search
  <2>1. CASE mailPoll' = NoMailPoll
    BY <1>1, <2>1 DEF NoMailPoll
  <2>2. CASE mailPoll' = [mailPoll EXCEPT !.pc = "fetch", !.uids = SearchResult(mailPoll.start)]
    <3>1. /\ mailPoll'.uids = SearchResult(mailPoll.start) /\ mailPoll'.start = mailPoll.start
          /\ mailPoll'.last = mailPoll.last
      BY <2>2
    <3>2. UNCHANGED <<mail, uidNext, validity, handledMail, existing>> /\ mailPoll.pc = "search"
      BY <1>5 DEF Search
    <3>3. \A v \in SearchResult(mailPoll.start) : v \in Uids /\ v < uidNext
      BY DEF SearchResult, Present
    <3>4. mailPoll.last = 0
      BY <3>2 DEF SearchInv
    <3>5. \A u \in Uids : mailPoll.start <= u /\ mail[u] = "matching"
                            => u \in SearchResult(mailPoll.start)
      BY DEF SearchResult, Present
    <3>6. \A u \in Uids, v \in mailPoll'.uids \cup {mailPoll'.last} :
             mailPoll'.start <= u /\ u <= v /\ mail'[u] = "matching" => u \in mailPoll'.uids
      BY <3>1, <3>2, <3>5
    <3>7. mailPoll'.last < uidNext' /\ \A v \in mailPoll'.uids : v < uidNext'
      BY <3>1, <3>2, <3>3, <3>4 DEF ImapTypeOK
    <3>. QED
      BY <3>6, <3>7 DEF PollInv
  <2>. QED
    BY <1>5, <2>1, <2>2 DEF Search
<1>6. ASSUME NEW u \in mailPoll.uids, mailPoll.pc = "fetch",
             UNCHANGED <<mail, uidNext, validity, existing>>,
             mailPoll'.uids = mailPoll.uids \ {u},
             mailPoll'.last \in {mailPoll.last, u},
             mailPoll'.start = mailPoll.start, mailPoll'.failed = mailPoll.failed,
             handledMail \subseteq handledMail',
             mail[u] = "matching" => <<validity, u>> \in handledMail'
      PROVE  PollInv'
  <2>1. mailPoll'.last < uidNext /\ \A v \in mailPoll'.uids : v < uidNext
    BY <1>6 DEF PollInv
  <2>2. ASSUME ~mailPoll.failed, NEW w \in Uids, NEW v \in mailPoll'.uids \cup {mailPoll'.last},
               mailPoll.start <= w, w <= v, mail[w] = "matching"
        PROVE  w \in mailPoll'.uids \/ Settled(w)'
    <3>1. v \in mailPoll.uids \cup {mailPoll.last}
      BY <1>6, <2>2
    <3>2. w \in mailPoll.uids \/ Settled(w)
      BY <1>6, <2>2, <3>1 DEF PollInv
    <3>3. Settled(w) => Settled(w)'
      BY <1>6 DEF Settled
    <3>4. CASE w = u
      BY <1>6, <2>2, <3>4 DEF Settled
    <3>. QED
      BY <1>6, <3>2, <3>3, <3>4
  <2>. QED
    BY <1>6, <2>1, <2>2 DEF PollInv
<1>7. CASE FetchFiltered
  <2>1. PICK u \in mailPoll.uids :
            /\ mailPoll' = [mailPoll EXCEPT !.uids = mailPoll.uids \ {u}, !.last = Later(u)]
            /\ mail[u] = "filtered"
    BY <1>7 DEF FetchFiltered
  <2>2. /\ mailPoll'.uids = mailPoll.uids \ {u} /\ mailPoll'.last \in {mailPoll.last, u}
        /\ mailPoll'.start = mailPoll.start /\ mailPoll'.failed = mailPoll.failed
    BY <2>1 DEF Later
  <2>3. /\ mailPoll.pc = "fetch"
        /\ UNCHANGED <<mail, uidNext, validity, existing, handledMail>>
    BY <1>7 DEF FetchFiltered
  <2>. QED
    BY <1>6, <2>1, <2>2, <2>3
<1>8. CASE FetchHandled
  <2>1. PICK u \in mailPoll.uids :
            /\ mailPoll' = [mailPoll EXCEPT !.uids = mailPoll.uids \ {u}, !.last = Later(u)]
            /\ handledMail' = handledMail \cup {<<validity, u>>}
    BY <1>8 DEF FetchHandled
  <2>2. /\ mailPoll'.uids = mailPoll.uids \ {u} /\ mailPoll'.last \in {mailPoll.last, u}
        /\ mailPoll'.start = mailPoll.start /\ mailPoll'.failed = mailPoll.failed
    BY <2>1 DEF Later
  <2>3. mailPoll.pc = "fetch" /\ UNCHANGED <<mail, uidNext, validity, existing>>
    BY <1>8 DEF FetchHandled
  <2>. QED
    BY <1>6, <2>1, <2>2, <2>3
<1>9. CASE HandlerError
  <2>1. /\ mailPoll' = [mailPoll EXCEPT !.uids = {}, !.failed = TRUE] /\ mailPoll.pc = "fetch"
        /\ UNCHANGED <<mail, uidNext, validity, existing, handledMail>>
    BY <1>9 DEF HandlerError
  <2>2. mailPoll'.last = mailPoll.last /\ mailPoll'.uids = {} /\ mailPoll'.failed = TRUE
    BY <2>1
  <2>. QED
    BY <2>1, <2>2 DEF PollInv
<1>10. CASE FetchNothing
  <2>1. PICK u \in mailPoll.uids :
            /\ mailPoll' = [mailPoll EXCEPT !.uids = mailPoll.uids \ {u}]
            /\ mail[u] = "expunged"
    BY <1>10 DEF FetchNothing
  <2>2. /\ mailPoll'.uids = mailPoll.uids \ {u} /\ mailPoll'.last = mailPoll.last
        /\ mailPoll'.start = mailPoll.start /\ mailPoll'.failed = mailPoll.failed
    BY <2>1
  <2>3. /\ mailPoll.pc = "fetch"
        /\ UNCHANGED <<mail, uidNext, validity, existing, handledMail>>
    BY <1>10 DEF FetchNothing
  <2>. QED
    BY <1>6, <2>1, <2>2, <2>3
<1>11. CASE SelectFolder
  <2>1. mailPoll'.pc = "search"
    BY <1>11 DEF SelectFolder, NoMailPoll
  <2>. QED
    BY <1>1, <2>1
<1>12. CASE Recreate \/ SkipExisting \/ FetchEnds \/ PollFails
  <2>1. mailPoll'.pc = "idle"
    BY <1>12 DEF Recreate, SkipExisting, FetchEnds, PollFails, NoMailPoll
  <2>. QED
    BY <1>1, <2>1
<1>13. CASE UNCHANGED imapVars
  BY <1>2, <1>13 DEF imapVars
<1>. QED
  BY <1>3, <1>4, <1>5, <1>7, <1>8, <1>9, <1>10, <1>11, <1>12, <1>13 DEF ImapNext

\* The cursor moves only over messages that are settled.
LEMMA MailStep == ASSUME ImapInv, [ImapNext]_imapVars PROVE MailNotSkipped'
<1>. USE ImapPollAssumption, MailPollFields, MailNumbers DEF ImapInv
<1>1. ASSUME UNCHANGED <<validity, mailCursor, existing>>, handledMail \subseteq handledMail',
             Valid => \A u \in Uids : u < uidNext /\ mail'[u] = "matching" => mail[u] = "matching"
      PROVE  MailNotSkipped'
  <2>. SUFFICES ASSUME NEW u \in 1 .. mailCursor.uid, Valid, mail'[u] = "matching",
                       <<validity, u>> \notin existing
                PROVE  <<validity, u>> \in handledMail'
    BY <1>1 DEF MailNotSkipped, Valid
  <2>1. u \in Uids /\ u < uidNext
    BY DEF StartInv, ImapTypeOK, Uids
  <2>2. mail[u] = "matching"
    BY <1>1, <2>1
  <2>. QED
    BY <1>1, <2>2 DEF MailNotSkipped
<1>2. CASE Arrive
  <2>1. PICK sender \in {"matching", "filtered"} : mail' = [mail EXCEPT ![uidNext] = sender]
    BY <1>2 DEF Arrive
  <2>2. \A u \in Uids : u # uidNext => mail'[u] = mail[u]
    BY <2>1 DEF ImapTypeOK
  <2>. QED
    BY <1>1, <1>2, <2>2 DEF Arrive
<1>3. CASE Expunge
  <2>1. \A u \in Uids : mail'[u] = mail[u] \/ mail'[u] = "expunged"
    BY <1>3 DEF Expunge, ImapTypeOK
  <2>. QED
    BY <1>1, <1>3, <2>1 DEF Expunge
<1>4. CASE Recreate
  <2>1. validity' = validity + 1 /\ mailCursor' = mailCursor
    BY <1>4 DEF Recreate
  <2>2. ~Valid'
    BY <2>1 DEF StartInv, Valid
  <2>. QED
    BY <2>2 DEF MailNotSkipped
<1>5. CASE SkipExisting
  <2>1. /\ mailCursor'.uid = uidNext - 1
        /\ existing' = existing \cup {<<validity, u>> : u \in Present}
        /\ UNCHANGED <<mail, validity>>
    BY <1>5 DEF SkipExisting, SaveCursor
  <2>2. ASSUME NEW u \in 1 .. uidNext - 1, mail[u] = "matching" PROVE <<validity, u>> \in existing'
    <3>1. u \in Uids
      BY DEF ImapTypeOK, Uids
    <3>2. u \in Present
      BY <2>2, <3>1 DEF Present
    <3>. QED
      BY <2>1, <3>2
  <2>. QED
    BY <2>1, <2>2 DEF MailNotSkipped
<1>6. CASE FetchEnds
  <2>1. /\ UNCHANGED <<mail, validity, existing, handledMail>> /\ mailPoll.pc = "fetch"
        /\ mailPoll.uids = {}
        /\ \/ mailCursor' = mailCursor
           \/ /\ mailCursor'.uid = mailPoll.last /\ mailCursor'.folder = mailPoll.validity
              /\ ~mailPoll.failed
    BY <1>6 DEF FetchEnds, SaveCursor, Advances
  <2>2. CASE mailCursor' = mailCursor
    BY <1>1, <2>1, <2>2
  <2>3. CASE mailCursor'.uid = mailPoll.last /\ ~mailPoll.failed
    <3>. SUFFICES ASSUME NEW u \in 1 .. mailPoll.last, mail[u] = "matching",
                         <<validity, u>> \notin existing
                  PROVE  <<validity, u>> \in handledMail
      BY <2>1, <2>3 DEF MailNotSkipped
    <3>1. u \in Uids
      BY DEF Uids
    <3>2. CASE mailPoll.start <= u
      <4>1. u \in mailPoll.uids \/ Settled(u)
        BY <2>1, <2>3, <3>1, <3>2 DEF PollInv
      <4>. QED
        BY <2>1, <4>1 DEF Settled
    <3>3. CASE ~(mailPoll.start <= u)
      <4>1. mailPoll.start = StartUid /\ mailPoll.start \in Nat
        BY <2>1 DEF StartInv
      <4>2. Valid /\ u \in 1 .. mailCursor.uid
        BY <3>3, <4>1 DEF StartUid
      <4>. QED
        BY <4>2 DEF MailNotSkipped
    <3>. QED
      BY <3>2, <3>3
  <2>. QED
    BY <2>1, <2>2, <2>3
<1>7. CASE FetchHandled
  <2>1. handledMail \subseteq handledMail'
    BY <1>7 DEF FetchHandled
  <2>. QED
    BY <1>1, <1>7, <2>1 DEF FetchHandled
<1>8. CASE SelectFolder \/ Search \/ FetchFiltered \/ HandlerError \/ FetchNothing \/ PollFails
  BY <1>1, <1>8 DEF SelectFolder, Search, FetchFiltered, HandlerError, FetchNothing, PollFails
<1>9. CASE UNCHANGED imapVars
  BY <1>1, <1>9 DEF imapVars
<1>. QED
  BY <1>2, <1>3, <1>4, <1>5, <1>6, <1>7, <1>8, <1>9 DEF ImapNext

-------------------------------------------------------------------------------
(* The theorems.                                                           *)

\* The inductive invariant: types, where a poll starts and what it has looked at, for every
\* number of messages and generations.
THEOREM ImapInvariant == ImapSpec => []ImapInv
<1>1. ImapInit => ImapInv
  <2>. SUFFICES ASSUME ImapInit PROVE ImapInv
    OBVIOUS
  <2>1. ImapTypeOK
    BY ImapPollAssumption DEF ImapInit, ImapTypeOK, NoCursor, NoMailPoll, Uids
  <2>. QED
    BY <2>1 DEF ImapInit, ImapInv, StartInv, SearchInv, PollInv, MailNotSkipped,
                 NoCursor, NoMailPoll, Valid
<1>2. ImapInv /\ [ImapNext]_imapVars => ImapInv'
  <2>. SUFFICES ASSUME ImapInv, [ImapNext]_imapVars PROVE ImapInv'
    OBVIOUS
  <2>1. mailPoll' = NoMailPoll \/ mailPoll' \in MailPollStates
    BY PollShapeStep
  <2>2. ImapTypeOK' /\ StartInv' /\ SearchInv' /\ PollInv' /\ MailNotSkipped'
    BY ImapTypeStep, StartStep, SearchStep, PollStep, MailStep
  <2>. QED
    BY <2>1, <2>2 DEF ImapInv
<1>. QED
  BY <1>1, <1>2, PTL DEF ImapSpec

\* The cursor, the poll and what was handled stay within the messages and generations of the
\* folder (imap.go, pollOnce).
THEOREM ImapTyped == ImapSpec => []ImapTypeOK
<1>1. ImapInv => ImapTypeOK
  BY DEF ImapInv
<1>. QED
  BY <1>1, ImapInvariant, PTL

\* No message is lost by a poll: everything below the cursor that should have been handled has
\* been, whatever fails and in whatever order the server answers (imap.go, pollOnce).
THEOREM MailIsNotSkipped == ImapSpec => []MailNotSkipped
<1>1. ImapInv => MailNotSkipped
  BY DEF ImapInv
<1>. QED
  BY <1>1, ImapInvariant, PTL
===============================================================================
