------------------------------- MODULE MCDelivery -------------------------------
(***************************************************************************)
(* The three queues whose entries must end, checked together as in         *)
(* MCServices: a behaviour runs one of them, under the fairness of all.    *)
(***************************************************************************)
EXTENDS VoiceJobs, TelegramIntake, PushDispatch, TLC

\* What Selection defines without recursion is SelectSeq.
ASSUME SelectionIsSelectSeq ==
    \A n \in 0 .. 4 : \A seq \in [1 .. n -> 1 .. 3], S \in SUBSET (1 .. 3) :
        SelectIn(seq, S) = SelectSeq(seq, LAMBDA i : i \in S)

VARIABLE part       \* the component that runs

deliveryVars == <<part, voiceVars, telegramVars, pushVars>>

Init ==
    /\ part \in {"voice", "telegram", "push"}
    /\ VoiceInit /\ TelegramInit /\ PushInit
    /\ part # "telegram" => onJoin = "monitor" /\ \A u \in Updates : updateKind[u] = "group"
    /\ part # "push" => \A d \in Devices : device[d].tokens = NoTokens

Next ==
    /\ UNCHANGED part
    /\ \/ part = "voice"    /\ VoiceNext    /\ UNCHANGED <<telegramVars, pushVars>>
       \/ part = "telegram" /\ TelegramNext /\ UNCHANGED <<voiceVars, pushVars>>
       \/ part = "push"     /\ PushNext     /\ UNCHANGED <<voiceVars, telegramVars>>

Spec == Init /\ [][Next]_deliveryVars

\* In its initial state no component owes a step, so the fairness of one binds only where
\* that component runs.
LiveSpec == Spec /\ VoiceFairness /\ TelegramFairness /\ PushFairness
===============================================================================
