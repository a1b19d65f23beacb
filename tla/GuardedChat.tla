------------------------------- MODULE GuardedChat -------------------------------
(***************************************************************************)
(* The bot guard of one group chat (internal/channel/telegram.go): the     *)
(* welcome to a chat somebody else than the owner added the bot to, the    *)
(* confirmation, the deadline, and the row of guard_pending that survives  *)
(* a restart.  Other updates and the texts are left out.                   *)
(***************************************************************************)
EXTENDS Sequences, Integers

CONSTANTS MaxGuardUpdates,      \* bound on the updates of the chat
          MaxWelcomes,          \* bound on the welcomes sent
          MaxGuardFaults        \* bound on crashes and failed calls

ASSUME GuardAssumption == /\ MaxGuardUpdates \in Nat /\ MaxWelcomes \in Nat
                          /\ MaxGuardFaults \in Nat

VARIABLES inChat,       \* the bot is a member
          chatUpdates,  \* my_chat_member and confirmations, as Telegram delivers them
          loop,         \* the poll loop: its step, the updates fetched and handled, the
                        \* number it would not ask for again, and the welcome at hand
          pending,      \* w.pending: the welcome the chat must answer, 0 when there is none
          guardRow,     \* the row of guard_pending, 0 when there is none
          welcomes,     \* welcomes sent so far
          late,         \* the deadlines of welcomes 1 .. late have passed
          fate,         \* auxiliary: welcomes confirmed, chats left for, the last adder
          callFailed,   \* auxiliary: a call to Telegram or the database has failed
          guardFaults

guardVars == <<inChat, chatUpdates, loop, pending, guardRow, welcomes, late, fate, callFailed,
               guardFaults>>

Welcomes == 1 .. MaxWelcomes
GuardUpdates == [kind : {"added"}, owner : BOOLEAN] \cup [kind : {"confirm"}, welcome : Welcomes]

GuardTypeOK ==
    /\ inChat \in BOOLEAN /\ callFailed \in BOOLEAN
    /\ chatUpdates \in Seq(GuardUpdates)
    /\ loop \in [pc : {"start", "poll", "batch", "upsert", "erase", "leave", "eraseLate"},
                 fetched : 0 .. MaxGuardUpdates, handled : 0 .. MaxGuardUpdates,
                 acked : 0 .. MaxGuardUpdates, welcome : 0 .. MaxWelcomes]
    /\ loop.acked <= loop.handled
    /\ welcomes \in 0 .. MaxWelcomes /\ late \in 0 .. welcomes
    /\ pending \in 0 .. welcomes /\ guardRow \in 0 .. welcomes
    /\ fate \in [confirmed : SUBSET Welcomes, left : SUBSET Welcomes, owner : BOOLEAN,
                 ownerLeft : BOOLEAN]
    /\ guardFaults \in 0 .. MaxGuardFaults

GuardInit ==
    /\ inChat = FALSE /\ chatUpdates = <<>>
    /\ loop = [pc |-> "poll", fetched |-> 0, handled |-> 0, acked |-> 0, welcome |-> 0]
    /\ pending = 0 /\ guardRow = 0 /\ welcomes = 0 /\ late = 0
    /\ fate = [confirmed |-> {}, left |-> {}, owner |-> FALSE, ownerLeft |-> FALSE]
    /\ callFailed = FALSE /\ guardFaults = 0

GuardFault == guardFaults < MaxGuardFaults /\ guardFaults' = guardFaults + 1
CallFails == GuardFault /\ callFailed' = TRUE
NoFault == UNCHANGED <<callFailed, guardFaults>>

-------------------------------------------------------------------------------
(* The chat.                                                               *)

BotAdded(owner) ==
    /\ ~inChat /\ Len(chatUpdates) < MaxGuardUpdates
    /\ inChat' = TRUE
    /\ chatUpdates' = Append(chatUpdates, [kind |-> "added", owner |-> owner])
    /\ UNCHANGED <<loop, pending, guardRow, welcomes, late, fate>> /\ NoFault

\* The update of a removal changes nothing (isBotAdded is false).
BotRemoved ==
    /\ inChat
    /\ inChat' = FALSE
    /\ UNCHANGED <<chatUpdates, loop, pending, guardRow, welcomes, late, fate>> /\ NoFault

\* A reply or a reaction of the owner to a welcome.
OwnerConfirms(w) ==
    /\ inChat /\ w <= welcomes /\ Len(chatUpdates) < MaxGuardUpdates
    /\ chatUpdates' = Append(chatUpdates, [kind |-> "confirm", welcome |-> w])
    /\ UNCHANGED <<inChat, loop, pending, guardRow, welcomes, late, fate>> /\ NoFault

DeadlinePasses ==
    /\ late < welcomes
    /\ late' = late + 1
    /\ UNCHANGED <<inChat, chatUpdates, loop, pending, guardRow, welcomes, fate>> /\ NoFault

-------------------------------------------------------------------------------
(* The loop.                                                               *)

PollGuard ==
    /\ loop.pc = "poll" /\ loop.handled < Len(chatUpdates)
    /\ loop' = [loop EXCEPT !.pc = "batch", !.fetched = Len(chatUpdates), !.acked = loop.handled]
    /\ UNCHANGED <<inChat, chatUpdates, pending, guardRow, welcomes, late, fate>> /\ NoFault

InBatch == loop.pc = "batch" /\ loop.handled < loop.fetched
Update == chatUpdates[loop.handled + 1]
Handled == [loop EXCEPT !.pc = "batch", !.handled = @ + 1]

\* handleJoin: nothing to confirm when the owner added the bot.
AddedByOwner ==
    /\ InBatch /\ Update.kind = "added" /\ Update.owner
    /\ fate' = [fate EXCEPT !.owner = TRUE]
    /\ loop' = Handled
    /\ UNCHANGED <<inChat, chatUpdates, pending, guardRow, welcomes, late>> /\ NoFault

SendWelcome ==
    /\ InBatch /\ Update.kind = "added" /\ ~Update.owner
    /\ inChat /\ welcomes < MaxWelcomes
    /\ welcomes' = welcomes + 1
    /\ pending' = welcomes + 1
    /\ fate' = [fate EXCEPT !.owner = FALSE]
    /\ loop' = [loop EXCEPT !.pc = "upsert"]
    /\ UNCHANGED <<inChat, chatUpdates, guardRow, late>> /\ NoFault

\* Without a welcome nothing is pending.
SendWelcomeFails ==
    /\ InBatch /\ Update.kind = "added" /\ ~Update.owner
    /\ IF inChat THEN CallFails ELSE NoFault
    /\ fate' = [fate EXCEPT !.owner = FALSE]
    /\ loop' = Handled
    /\ UNCHANGED <<inChat, chatUpdates, pending, guardRow, welcomes, late>>

UpsertPending ==
    /\ loop.pc = "upsert"
    /\ \/ guardRow' = pending /\ NoFault
       \/ CallFails /\ UNCHANGED guardRow
    /\ loop' = Handled
    /\ UNCHANGED <<inChat, chatUpdates, pending, welcomes, late, fate>>

\* confirmChat, when the owner answers the welcome that is pending.
ConfirmChat ==
    /\ InBatch /\ Update.kind = "confirm" /\ Update.welcome = pending
    /\ pending' = 0
    /\ loop' = [loop EXCEPT !.pc = "erase", !.welcome = pending]
    /\ UNCHANGED <<inChat, chatUpdates, guardRow, welcomes, late, fate>> /\ NoFault

IgnoreConfirmation ==
    /\ InBatch /\ Update.kind = "confirm" /\ Update.welcome # pending
    /\ loop' = Handled
    /\ UNCHANGED <<inChat, chatUpdates, pending, guardRow, welcomes, late, fate>> /\ NoFault

RowStays == guardRow
RowErased == 0

DeletePending ==
    /\ loop.pc = "erase"
    /\ \/ /\ guardRow' = RowErased
          /\ fate' = [fate EXCEPT !.confirmed = @ \cup {loop.welcome}]
          /\ NoFault
       \/ CallFails /\ UNCHANGED <<guardRow, fate>>
    /\ loop' = Handled
    /\ UNCHANGED <<inChat, chatUpdates, pending, welcomes, late>>

\* The cursor of the batch is saved, or not.
EndBatch ==
    /\ loop.pc = "batch" /\ loop.handled = loop.fetched
    /\ \/ loop' = [loop EXCEPT !.pc = "poll", !.acked = loop.handled] /\ NoFault
       \/ loop' = [loop EXCEPT !.pc = "poll"] /\ CallFails
    /\ UNCHANGED <<inChat, chatUpdates, pending, guardRow, welcomes, late, fate>>

-------------------------------------------------------------------------------
(* Deadlines and restarts.                                                 *)

\* checkAndExpirePending, before every poll.
ExpirePending ==
    /\ loop.pc = "poll" /\ pending \in 1 .. late
    /\ pending' = 0
    /\ loop' = [loop EXCEPT !.pc = "leave", !.welcome = pending]
    /\ UNCHANGED <<inChat, chatUpdates, guardRow, welcomes, late, fate>> /\ NoFault

LeaveChat ==
    /\ loop.pc = "leave" /\ inChat
    /\ inChat' = FALSE
    /\ fate' = [fate EXCEPT !.left = @ \cup {loop.welcome},
                            !.ownerLeft = fate.ownerLeft \/ fate.owner]
    /\ loop' = [loop EXCEPT !.pc = "eraseLate"]
    /\ UNCHANGED <<chatUpdates, pending, guardRow, welcomes, late>> /\ NoFault

\* Only logged: the entry goes all the same.
LeaveChatFails ==
    /\ loop.pc = "leave"
    /\ IF inChat THEN CallFails ELSE NoFault
    /\ loop' = [loop EXCEPT !.pc = "eraseLate"]
    /\ UNCHANGED <<inChat, chatUpdates, pending, guardRow, welcomes, late, fate>>

DeleteLate ==
    /\ loop.pc = "eraseLate"
    /\ \/ guardRow' = 0 /\ NoFault
       \/ CallFails /\ UNCHANGED guardRow
    /\ loop' = [loop EXCEPT !.pc = "poll"]
    /\ UNCHANGED <<inChat, chatUpdates, pending, welcomes, late, fate>>

GuardRestart ==
    /\ GuardFault /\ UNCHANGED callFailed
    /\ pending' = 0
    /\ loop' = [loop EXCEPT !.pc = "start", !.handled = loop.acked]
    /\ UNCHANGED <<inChat, chatUpdates, guardRow, welcomes, late, fate>>

\* recoverPendingFromStore; a list that fails leaves nothing pending.
ForgetsRow == 0
Restores == guardRow

RecoverPending ==
    /\ loop.pc = "start"
    /\ \/ /\ guardRow \notin 1 .. late
          /\ pending' = Restores /\ NoFault
          /\ loop' = [loop EXCEPT !.pc = "poll"]
       \/ /\ guardRow \in 1 .. late
          /\ loop' = [loop EXCEPT !.pc = "leave", !.welcome = guardRow]
          /\ UNCHANGED pending /\ NoFault
       \/ /\ CallFails /\ UNCHANGED pending
          /\ loop' = [loop EXCEPT !.pc = "poll"]
    /\ UNCHANGED <<inChat, chatUpdates, guardRow, welcomes, late, fate>>

GuardNext ==
    \/ \E owner \in BOOLEAN : BotAdded(owner)
    \/ BotRemoved \/ DeadlinePasses
    \/ \E w \in Welcomes : OwnerConfirms(w)
    \/ PollGuard \/ AddedByOwner \/ SendWelcome \/ SendWelcomeFails \/ UpsertPending
    \/ ConfirmChat \/ IgnoreConfirmation \/ DeletePending \/ EndBatch
    \/ ExpirePending \/ LeaveChat \/ LeaveChatFails \/ DeleteLate
    \/ GuardRestart \/ RecoverPending

GuardSpec == GuardInit /\ [][GuardNext]_guardVars

-------------------------------------------------------------------------------
(* Properties.                                                             *)

\* The bot does not leave for a welcome the owner has confirmed and whose row is deleted,
\* whatever restarts come between the confirmation and the deadline.
LeftOnlyUnconfirmed == fate.left \cap fate.confirmed = {}

\* Restarts alone let no chat through: while the bot waits for updates in a chat it has seen
\* somebody else add it to, a welcome is pending or was confirmed, unless a call has failed
\* (a welcome that was not sent, a row not written, a leave that was refused).
RestartsAdmitNobody ==
    /\ loop.pc = "poll" /\ inChat /\ loop.handled = Len(chatUpdates)
    /\ chatUpdates # <<>> /\ ~fate.owner /\ ~callFailed
    => pending # 0 \/ welcomes \in fate.confirmed

\* "If the owner themselves added the bot, no confirmation is needed" (telegram.go:1011): it
\* does not leave a chat that the owner was the last to add it to.
OwnerAddedStays == ~fate.ownerLeft
===============================================================================
