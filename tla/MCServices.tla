------------------------------- MODULE MCServices -------------------------------
(***************************************************************************)
(* Components that share no state, checked together: a behaviour runs one  *)
(* of them and the others stay as they started, so the states of a run are *)
(* the sum of theirs and not the product.                                  *)
(***************************************************************************)
EXTENDS Pairing, IdempotencyCache, RelayInstances, ProjectNames, ImapPoll, GuardedChat,
        VoiceJobs, TelegramIntake, TaskQuestions, PushDispatch, TLC

VARIABLE part       \* the component that runs

servicesVars == <<part, pairingVars, idempotencyVars, instancesVars, projectsVars, imapVars,
                  guardVars, voiceVars, telegramVars, questionVars, pushVars>>

Parts == {"pairing", "idempotency", "instances", "projects", "imap", "guard", "voice",
          "telegram", "questions", "push"}

\* Where a component that does not run could start in several states it starts in one.
Init ==
    /\ part \in Parts
    /\ PairingInit /\ IdempotencyInit /\ InstancesInit /\ ProjectsInit
    /\ ImapInit /\ GuardInit /\ VoiceInit /\ TelegramInit /\ QuestionsInit /\ PushInit
    /\ part # "imap" => onFirstConnect = "monitor"
    /\ part # "telegram" => onJoin = "monitor" /\ \A u \in Updates : updateKind[u] = "group"
    /\ part # "push" => \A d \in Devices : device[d].tokens = NoTokens

\* Only the component named p takes steps.
Rest(p) ==
    /\ part = p /\ UNCHANGED part
    /\ p # "pairing" => UNCHANGED pairingVars
    /\ p # "idempotency" => UNCHANGED idempotencyVars
    /\ p # "instances" => UNCHANGED instancesVars
    /\ p # "projects" => UNCHANGED projectsVars
    /\ p # "imap" => UNCHANGED imapVars
    /\ p # "guard" => UNCHANGED guardVars
    /\ p # "push" => UNCHANGED pushVars
    /\ p # "voice" => UNCHANGED voiceVars
    /\ p # "telegram" => UNCHANGED telegramVars
    /\ p # "questions" => UNCHANGED questionVars

Next ==
    \/ Rest("pairing") /\ PairingNext
    \/ Rest("idempotency") /\ IdempotencyNext
    \/ Rest("instances") /\ InstancesNext
    \/ Rest("projects") /\ ProjectsNext
    \/ Rest("imap") /\ ImapNext
    \/ Rest("guard") /\ GuardNext
    \/ Rest("push") /\ PushNext
    \/ Rest("voice") /\ VoiceNext
    \/ Rest("telegram") /\ TelegramNext
    \/ Rest("questions") /\ QuestionsNext

Spec == Init /\ [][Next]_servicesVars

\* Every table, map and handler of the components holds values of its type.
TypeOK ==
    /\ part = "pairing" => PairingTypeOK
    /\ part = "idempotency" => IdempotencyTypeOK
    /\ part = "instances" => InstancesTypeOK
    /\ part = "projects" => ProjectsTypeOK
    /\ part = "imap" => ImapTypeOK
    /\ part = "guard" => GuardTypeOK
    /\ part = "push" => PushTypeOK
    /\ part = "voice" => VoiceTypeOK
    /\ part = "telegram" => TelegramTypeOK
    /\ part = "questions" => QuestionsTypeOK
===============================================================================
