----------------------------- MODULE ServicesProofs -----------------------------
(***************************************************************************)
(* The components of MCServices next to each other: each of them behaves   *)
(* as its own specification says, whichever of them runs, so what is       *)
(* proved of a component holds of the whole.                               *)
(***************************************************************************)
EXTENDS MCServices, HttpProofs, ChannelProofs, UsecaseProofs, PushDispatchProofs

LEMMA AllStart ==
  Init => /\ PairingInit
          /\ IdempotencyInit
          /\ InstancesInit
          /\ ProjectsInit
          /\ ImapInit
          /\ GuardInit
          /\ VoiceInit
          /\ TelegramInit
          /\ QuestionsInit
          /\ PushInit
BY DEF Init

\* A step of the whole is a step of one component, and the others stay as they are.
LEMMA EachSteps ==
  ASSUME [Next]_servicesVars
  PROVE  /\ [PairingNext]_pairingVars
         /\ [IdempotencyNext]_idempotencyVars
         /\ [InstancesNext]_instancesVars
         /\ [ProjectsNext]_projectsVars
         /\ [ImapNext]_imapVars
         /\ [GuardNext]_guardVars
         /\ [VoiceNext]_voiceVars
         /\ [TelegramNext]_telegramVars
         /\ [QuestionsNext]_questionVars
         /\ [PushNext]_pushVars
<1>1. CASE Rest("pairing") /\ PairingNext
  BY <1>1 DEF Rest
<1>2. CASE Rest("idempotency") /\ IdempotencyNext
  BY <1>2 DEF Rest
<1>3. CASE Rest("instances") /\ InstancesNext
  BY <1>3 DEF Rest
<1>4. CASE Rest("projects") /\ ProjectsNext
  BY <1>4 DEF Rest
<1>5. CASE Rest("imap") /\ ImapNext
  BY <1>5 DEF Rest
<1>6. CASE Rest("guard") /\ GuardNext
  BY <1>6 DEF Rest
<1>7. CASE Rest("voice") /\ VoiceNext
  BY <1>7 DEF Rest
<1>8. CASE Rest("telegram") /\ TelegramNext
  BY <1>8 DEF Rest
<1>9. CASE Rest("questions") /\ QuestionsNext
  BY <1>9 DEF Rest
<1>10. CASE Rest("push") /\ PushNext
  BY <1>10 DEF Rest
<1>11. CASE UNCHANGED servicesVars
  BY <1>11 DEF servicesVars
<1>. QED
  BY <1>1, <1>2, <1>3, <1>4, <1>5, <1>6, <1>7, <1>8, <1>9, <1>10, <1>11 DEF Next

\* Each component behaves as its own specification says, whichever of them runs: what one
\* module keeps of the daemon and its relay (cmd/), no other of these modules changes.
THEOREM ServicesBehave ==
  Spec => /\ PairingSpec
          /\ IdempotencySpec
          /\ InstancesSpec
          /\ ProjectsSpec
          /\ ImapSpec
          /\ GuardSpec
          /\ VoiceSpec
          /\ TelegramSpec
          /\ QuestionsSpec
          /\ PushSpec
BY AllStart, EachSteps, PTL DEF Spec, PairingSpec, IdempotencySpec, InstancesSpec, ProjectsSpec, ImapSpec, GuardSpec, VoiceSpec, TelegramSpec, QuestionsSpec, PushSpec

\* The tables, maps and handlers of the ten components hold values of their types, for every
\* value of the constants (the stores under storage/, push/, devices/, pairing/ and relay/).
THEOREM ServicesTyped == Spec => []TypeOK
<1>1. /\ PairingTypeOK
      /\ IdempotencyTypeOK
      /\ InstancesTypeOK
      /\ ProjectsTypeOK
      /\ ImapTypeOK
      /\ GuardTypeOK
      /\ VoiceTypeOK
      /\ TelegramTypeOK
      /\ QuestionsTypeOK
      /\ PushTypeOK
      => TypeOK
  BY DEF TypeOK
<1>. QED
  BY <1>1, ServicesBehave, PairingTyped, IdempotencyTyped, InstancesTyped, ProjectsTyped, ImapTyped, GuardTyped, VoiceTyped, TelegramTyped, QuestionsTyped, PushTyped, PTL
================================================================================
