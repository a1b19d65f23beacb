------------------------------- MODULE MCDevices --------------------------------
(***************************************************************************)
(* What a device hands over, its push tokens and its recordings, checked   *)
(* one or the other in a behaviour as in MCServices, with more changes of  *)
(* the tokens and more failures of the recordings than MCServices has room *)
(* for: two changes may cross and a third follow, two statements may fail. *)
(***************************************************************************)
EXTENDS VoiceJobs, PushDispatch, TLC

VARIABLE part       \* the component that runs

devicesVars == <<part, voiceVars, pushVars>>

Init ==
    /\ part \in {"voice", "push"}
    /\ VoiceInit /\ PushInit
    /\ part = "voice" => \A d \in Devices : device[d].tokens = NoTokens

Next ==
    /\ UNCHANGED part
    /\ \/ part = "voice" /\ VoiceNext /\ UNCHANGED pushVars
       \/ part = "push"  /\ PushNext  /\ UNCHANGED voiceVars

Spec == Init /\ [][Next]_devicesVars

\* The handlers of PATCH have no identity.
Symmetry == Permutations(Patches)
===============================================================================
