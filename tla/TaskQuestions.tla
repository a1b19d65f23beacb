----------------------------- MODULE TaskQuestions ------------------------------
(***************************************************************************)
(* Questions about the automatic tasks that wait for the owner             *)
(* (internal/channel/telegram_task_questions.go): the goroutine that sends *)
(* and records them, the buttons of the messages in the owner's chat, and  *)
(* the callbacks, which come again after a failure or a restart.           *)
(***************************************************************************)
EXTENDS Naturals, Sequences, FiniteSetsExt

CONSTANTS Candidates,           \* identifiers in the order of their creation
          MaxQuestions,         \* bound on the messages sent
          MaxPresses,           \* bound on the buttons pressed
          MaxQuestionFaults     \* bound on crashes and failed calls

ASSUME TaskQuestionsAssumption ==
    /\ Candidates \subseteq Nat /\ IsFiniteSet(Candidates)
    /\ MaxQuestions \in Nat /\ MaxPresses \in Nat /\ MaxQuestionFaults \in Nat

VARIABLES candidate,    \* table auto_task_candidates
          messages,     \* the bot's messages in the chat: about whom, and what they show
          asker,        \* RunTaskQuestions: what is left of the list it works through, the
                        \* oldest first, and whether that one's message was sent
          presses,      \* callbacks Telegram still delivers
          answering,    \* handleTaskCallback: its step, the callback and what was decided
          unasked,      \* auxiliary: how often a question sent was not recorded
          questionFaults

questionVars == <<candidate, messages, asker, presses, answering, unasked, questionFaults>>

IdleAsker  == [pc |-> "idle", list |-> {}]
NoCallback == [pc |-> "idle", press |-> 0, shows |-> "buttons"]
Message    == [about : Candidates, shows : {"buttons", "created", "rejected"}]
Press      == [message : 1 .. MaxQuestions, approve : BOOLEAN, keyboard : BOOLEAN, open : BOOLEAN]

QuestionsTypeOK ==
    /\ candidate \in [Candidates -> [status : {"none", "pending", "created", "rejected"},
                                 asked : 0 .. MaxQuestions]]
    /\ messages \in Seq(Message) /\ Len(messages) <= MaxQuestions
    /\ asker \in [pc : {"idle", "send", "mark"}, list : SUBSET Candidates]
    /\ presses \in Seq(Press) /\ Len(presses) <= MaxPresses
    /\ answering \in [pc : {"idle", "decide", "edit"}, press : 0 .. Len(presses),
                      shows : {"buttons", "created", "rejected"}]
    /\ unasked \in [Candidates -> 0 .. MaxQuestionFaults]
    /\ questionFaults \in 0 .. MaxQuestionFaults

QuestionsInit ==
    /\ candidate = [c \in Candidates |-> [status |-> "none", asked |-> 0]]
    /\ messages = <<>> /\ presses = <<>>
    /\ asker = IdleAsker /\ answering = NoCallback
    /\ unasked = [c \in Candidates |-> 0]
    /\ questionFaults = 0

QuestionFault == questionFaults < MaxQuestionFaults /\ questionFaults' = questionFaults + 1

\* The intake leaves a promise it cannot decide to the owner.
CandidateWaits(c) ==
    /\ candidate[c].status = "none"
    /\ \A d \in Candidates : d < c => candidate[d].status # "none"
    /\ candidate' = [candidate EXCEPT ![c].status = "pending"]
    /\ UNCHANGED <<messages, asker, presses, answering, unasked, questionFaults>>

-------------------------------------------------------------------------------
(* sendTaskQuestions.                                                      *)

Unrecorded(c) == candidate[c].asked >= 0
NotAsked(c)   == candidate[c].asked = 0

PendingQuestions == {c \in Candidates : candidate[c].status = "pending" /\ NotAsked(c)}

ListQuestions ==
    /\ asker.pc = "idle" /\ PendingQuestions # {}
    /\ asker' = [pc |-> "send", list |-> PendingQuestions]
    /\ UNCHANGED <<candidate, messages, presses, answering, unasked, questionFaults>>

subject == Min(asker.list)

\* The candidate is as it was listed: it may have been decided since.
SendQuestion ==
    /\ asker.pc = "send" /\ Len(messages) < MaxQuestions
    /\ messages' = Append(messages, [about |-> subject, shows |-> "buttons"])
    /\ asker' = [asker EXCEPT !.pc = "mark"]
    /\ UNCHANGED <<candidate, presses, answering, unasked, questionFaults>>

\* The first error ends the round; what is left waits for the next one.  A message whose
\* answer is lost has been sent all the same.
SendQuestionFails ==
    /\ asker.pc = "send" /\ QuestionFault
    /\ \/ UNCHANGED <<messages, unasked>>
       \/ /\ Len(messages) < MaxQuestions
          /\ messages' = Append(messages, [about |-> subject, shows |-> "buttons"])
          /\ unasked' = [unasked EXCEPT ![subject] = @ + 1]
    /\ asker' = IdleAsker
    /\ UNCHANGED <<candidate, presses, answering>>

NextQuestion ==
    IF asker.list = {subject} THEN IdleAsker ELSE [pc |-> "send", list |-> asker.list \ {subject}]

\* A statement that leaves decided candidates alone.
MarkQuestionSent ==
    /\ asker.pc = "mark"
    /\ candidate' = [candidate EXCEPT ![subject].asked =
                         IF candidate[subject].status = "pending" /\ @ = 0 THEN Len(messages) ELSE @]
    /\ asker' = NextQuestion
    /\ UNCHANGED <<messages, presses, answering, unasked, questionFaults>>

MarkQuestionFails ==
    /\ asker.pc = "mark" /\ QuestionFault
    /\ unasked' = [unasked EXCEPT ![subject] = @ + 1]
    /\ asker' = IdleAsker
    /\ UNCHANGED <<candidate, messages, presses, answering>>

-------------------------------------------------------------------------------
(* The owner and handleTaskCallback.                                       *)

\* A client may show the buttons a little longer than the message has them.
PressButton(m, approve) ==
    /\ m <= Len(messages) /\ Len(presses) < MaxPresses
    /\ presses' = Append(presses, [message |-> m, approve |-> approve, open |-> TRUE,
                                   keyboard |-> messages[m].shows = "buttons"])
    /\ UNCHANGED <<candidate, messages, asker, answering, unasked, questionFaults>>

\* The recorded message, or one whose own buttons name the candidate.
taskQuestionMatches(p) ==
    candidate[messages[p.message].about].asked = p.message \/ p.keyboard

\* Updates come in order, and one that fails comes again before the others.
TakeCallback(i) ==
    /\ answering.pc = "idle" /\ presses[i].open
    /\ \A k \in 1 .. i - 1 : ~presses[k].open
    /\ IF taskQuestionMatches(presses[i])
       THEN answering' = [pc |-> "decide", press |-> i, shows |-> "buttons"] /\ UNCHANGED presses
       ELSE presses' = [presses EXCEPT ![i].open = FALSE] /\ UNCHANGED answering
    /\ UNCHANGED <<candidate, messages, asker, unasked, questionFaults>>

Decided(row, approve) ==
    IF row.status # "pending" THEN row
    ELSE [row EXCEPT !.status = IF approve THEN "created" ELSE "rejected"]

\* The message shows what is stored, whoever decided it.
ShownAsPressed(row, approve) == IF approve THEN "created" ELSE "rejected"
Shown(row, approve) == row.status

Decide ==
    /\ answering.pc = "decide"
    /\ LET p   == presses[answering.press]
           c   == messages[p.message].about
           row == Decided(candidate[c], p.approve)
       IN  /\ candidate' = [candidate EXCEPT ![c] = row]
           /\ answering' = [pc |-> "edit", press |-> answering.press, shows |-> Shown(row, p.approve)]
    /\ UNCHANGED <<messages, asker, presses, unasked, questionFaults>>

\* The callback is not acknowledged.
DecideFails ==
    /\ answering.pc = "decide" /\ QuestionFault
    /\ answering' = NoCallback
    /\ UNCHANGED <<candidate, messages, asker, presses, unasked>>

\* The message loses its buttons, unless the call fails, which is only logged; the callback
\* comes again when its batch's cursor is not saved.
EditMessage ==
    /\ answering.pc = "edit"
    /\ \/ /\ messages' = [messages EXCEPT ![presses[answering.press].message].shows = answering.shows]
          /\ UNCHANGED questionFaults
       \/ QuestionFault /\ UNCHANGED messages
    /\ presses' = [presses EXCEPT ![answering.press].open = FALSE]
    /\ answering' = NoCallback
    /\ UNCHANGED <<candidate, asker, unasked>>

Redeliver(i) ==
    /\ ~presses[i].open /\ answering.pc = "idle" /\ QuestionFault
    /\ presses' = [presses EXCEPT ![i].open = TRUE]
    /\ UNCHANGED <<candidate, messages, asker, answering, unasked>>

QuestionsCrash ==
    /\ QuestionFault
    /\ unasked' = IF asker.pc = "mark" THEN [unasked EXCEPT ![subject] = @ + 1] ELSE unasked
    /\ asker' = IdleAsker /\ answering' = NoCallback
    /\ UNCHANGED <<candidate, messages, presses>>

QuestionsNext ==
    \/ \E c \in Candidates : CandidateWaits(c)
    \/ ListQuestions \/ SendQuestion \/ SendQuestionFails \/ MarkQuestionSent \/ MarkQuestionFails
    \/ \E m \in 1 .. MaxQuestions, approve \in BOOLEAN : PressButton(m, approve)
    \/ \E i \in 1 .. Len(presses) : TakeCallback(i) \/ Redeliver(i)
    \/ Decide \/ DecideFails \/ EditMessage \/ QuestionsCrash

QuestionsSpec == QuestionsInit /\ [][QuestionsNext]_questionVars

-------------------------------------------------------------------------------
(* Properties.                                                             *)

\* Whichever of several questions about a promise is answered, in whatever order and however
\* often its callback comes, a message never shows another outcome than the one stored.
OutcomeShown == \A m \in 1 .. Len(messages) :
    messages[m].shows # "buttons" => candidate[messages[m].about].status = messages[m].shows

\* The owner is asked about a promise once more only if a question that was sent could not be
\* recorded (telegram_task_questions.go:120).
AskedOnce == \A c \in Candidates :
    Quantify(1 .. Len(messages), LAMBDA m : messages[m].about = c) <= 1 + unasked[c]
=============================================================================
