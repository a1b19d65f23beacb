------------------------------ MODULE UsecaseProofs ------------------------------
(***************************************************************************)
(* Proofs about the use cases beside the intake (internal/usecase): voice  *)
(* messages (VoiceJobs), and projects with their aliases, channels and     *)
(* task numbers (ProjectNames), for any number of jobs, faults, projects,  *)
(* names, tasks and users.                                                 *)
(***************************************************************************)
EXTENDS VoiceJobs, ProjectNames, SelectionProofs, TLAPS

(***************************************************************************)
(* Voice: however replies, timers, errors, crashes and the sweep           *)
(* interleave, a job does not end unsaid, is told once per run, and keeps  *)
(* its audio while it is queued.                                           *)
(***************************************************************************)

WorkerStates == [pc : {"idle", "claimed", "race", "retry", "fail", "complete"},
                 job : Voices \cup {0}]
Sayings == [heard : Nat, signals : Nat, cut : Nat, lost : BOOLEAN, dropped : BOOLEAN]

\* The upload makes its file before its row, and the row before the worker can see it.
UploadInv == \A j \in Voices :
    /\ upload[j] \in {"none", "stored"} => voice[j].row = "none"
    /\ upload[j] = "stored" => j \in audio

\* How a job may leave the queue: told, or with a failure that could not be stored, or without
\* anybody to tell.
Over(j) == said[j].signals > 0 \/ said[j].lost \/ said[j].dropped

\* The job of the worker is in the queue, and it is about to leave it only if it may.
WorkerInv == worker.pc # "idle" =>
    /\ voice[worker.job].row = "queued"
    /\ worker.pc = "complete" => Over(worker.job)

\* Whether the run of a job that has not been interrupted has told its transcript, or its end.
Heard(j)  == voice[j].row = "gone" \/ (worker.job = j /\ worker.pc \in {"race", "fail", "complete"})
Ended(j)  == voice[j].row = "gone" \/ (worker.job = j /\ worker.pc = "complete")
Once(b)   == IF b THEN 1 ELSE 0

\* Each telling but the one of the last run belongs to a run that was interrupted.
SaidInv == \A j \in Voices :
    /\ said[j].heard <= said[j].cut + Once(Heard(j))
    /\ said[j].signals <= said[j].cut + Once(Ended(j))

VoiceInv ==
    /\ VoiceTypeOK /\ UploadInv /\ WorkerInv /\ SaidInv
    /\ AudioKept /\ EndIsSignalled

-------------------------------------------------------------------------------
(* Types.                                                                  *)

\* The parts of the types that the proofs work with.
LEMMA VoiceParts ==
    ASSUME VoiceTypeOK
    PROVE  /\ voice \in [Voices -> [row : {"none", "queued", "gone"},
                                    attempts : 0 .. MaxVoiceAttempts - 1, due : BOOLEAN]]
           /\ upload \in [Voices -> {"none", "stored", "done"}]
           /\ said \in [Voices -> Sayings]
           /\ worker \in WorkerStates /\ (worker.pc # "idle" => worker.job \in Voices)
           /\ armed => worker.pc = "race"
BY DEF VoiceTypeOK, Sayings, WorkerStates

\* The queue's rows keep their type.
LEMMA RowType ==
    ASSUME VoiceTypeOK, [VoiceNext]_voiceVars
    PROVE  voice' \in [Voices -> [row : {"none", "queued", "gone"},
                                  attempts : 0 .. MaxVoiceAttempts - 1, due : BOOLEAN]]
<1>. USE VoiceParts, VoiceJobsAssumption
<1>1. CASE UNCHANGED voice
  BY <1>1
<1>2. ASSUME NEW j \in Voices, EnqueueVoice(j) \/ VoiceBackoffElapses(j) \/ CompleteVoice(j)
      PROVE  voice' \in [Voices -> [row : {"none", "queued", "gone"},
                                    attempts : 0 .. MaxVoiceAttempts - 1, due : BOOLEAN]]
  <2>1. CASE EnqueueVoice(j)
    <3>1. [row |-> "queued", attempts |-> 0, due |-> TRUE]
            \in [row : {"none", "queued", "gone"}, attempts : 0 .. MaxVoiceAttempts - 1, due : BOOLEAN]
      OBVIOUS
    <3>. QED
      BY <2>1, <3>1 DEF EnqueueVoice
  <2>2. CASE VoiceBackoffElapses(j)
    BY <2>2 DEF VoiceBackoffElapses
  <2>3. CASE CompleteVoice(j)
    BY <2>3 DEF CompleteVoice
  <2>. QED
    BY <1>2, <2>1, <2>2, <2>3
<1>3. ASSUME NEW j \in Voices, RescheduleVoice(j)
      PROVE  voice' \in [Voices -> [row : {"none", "queued", "gone"},
                                    attempts : 0 .. MaxVoiceAttempts - 1, due : BOOLEAN]]
  <2>1. voice[j].attempts + 1 \in 0 .. MaxVoiceAttempts - 1
    BY <1>3 DEF RescheduleVoice, LastAttempt
  <2>2. voice' = [voice EXCEPT ![j] = [voice[j] EXCEPT !.attempts = voice[j].attempts + 1, !.due = FALSE]]
    BY <1>3 DEF RescheduleVoice, NextAttempts
  <2>3. [voice[j] EXCEPT !.attempts = voice[j].attempts + 1, !.due = FALSE]
            \in [row : {"none", "queued", "gone"}, attempts : 0 .. MaxVoiceAttempts - 1, due : BOOLEAN]
    BY <2>1
  <2>. QED
    BY <2>2, <2>3
<1>4. CASE UNCHANGED voiceVars
  BY <1>1, <1>4 DEF voiceVars
<1>. QED
  BY <1>1, <1>2, <1>3, <1>4
     DEF VoiceNext, VoiceStep, StoreAudio, EnqueueVoiceFails, SweepOrphan, ClaimVoice,
         DropUnserved, TranscribeFails, TranscriptUseless, Consume, DropVoice, FailVoice, TakeReply,
         TakeError, AckTimer, HardDeadline, CompleteVoiceFails, AgentTouches, AgentEnds, ForeignTaskEvent,
         ToggleStream, VoiceCrash

\* Sayings keep their type.
LEMMA SaidType == ASSUME VoiceTypeOK, [VoiceNext]_voiceVars PROVE said' \in [Voices -> Sayings]
<1>. USE VoiceParts
<1>1. CASE UNCHANGED said
  BY <1>1
<1>2. ASSUME NEW j \in Voices, Consume(j) PROVE said' \in [Voices -> Sayings]
  BY <1>2 DEF Consume, Sayings
<1>3. ASSUME NEW j \in Voices, EmitReply(j) PROVE said' \in [Voices -> Sayings]
  BY <1>3 DEF EmitReply, Sayings
<1>4. ASSUME NEW j \in Voices, FailVoice(j) PROVE said' \in [Voices -> Sayings]
  <2>1. CASE said' = [said EXCEPT ![j].signals = said[j].signals + 1]
    BY <2>1 DEF Sayings
  <2>2. CASE said' = [said EXCEPT ![j].lost = TRUE]
    BY <2>2 DEF Sayings
  <2>. QED
    BY <1>4, <2>1, <2>2 DEF FailVoice
<1>5. ASSUME NEW j \in Voices, CompleteVoiceFails(j) PROVE said' \in [Voices -> Sayings]
  BY <1>5 DEF CompleteVoiceFails, Sayings
<1>6. CASE VoiceCrash
  BY <1>6 DEF VoiceCrash, Sayings
<1>7. ASSUME NEW j \in Voices, TakeReply(j) \/ AckTimer(j) \/ HardDeadline(j)
      PROVE  said' \in [Voices -> Sayings]
  BY <1>1, <1>3, <1>7 DEF TakeReply, AckTimer, HardDeadline, GiveUp
<1>8. ASSUME NEW j \in Voices, DropUnserved(j) PROVE said' \in [Voices -> Sayings]
  BY <1>8 DEF DropUnserved, Sayings
<1>9. CASE UNCHANGED voiceVars
  BY <1>1, <1>9 DEF voiceVars
<1>. QED
  BY <1>1, <1>2, <1>4, <1>5, <1>6, <1>7, <1>8, <1>9
     DEF VoiceNext, VoiceStep, StoreAudio, EnqueueVoice, EnqueueVoiceFails, SweepOrphan, ClaimVoice,
         TranscribeFails, TranscriptUseless, RescheduleVoice, DropVoice, CompleteVoice, TakeError,
         VoiceBackoffElapses, AgentTouches, AgentEnds, ForeignTaskEvent, ToggleStream

\* Every step keeps the types.
LEMMA VoiceTypeStep == ASSUME VoiceTypeOK, [VoiceNext]_voiceVars PROVE VoiceTypeOK'
<1>. USE VoiceParts
<1>1. voice' \in [Voices -> [row : {"none", "queued", "gone"},
                             attempts : 0 .. MaxVoiceAttempts - 1, due : BOOLEAN]]
  BY RowType
<1>2. said' \in [Voices -> Sayings]
  BY SaidType
<1>3. ASSUME audio' \subseteq Voices, upload' \in [Voices -> {"none", "stored", "done"}],
             worker' \in WorkerStates, worker'.pc # "idle" => worker'.job \in Voices,
             agent' \in [Voices -> [pc : {"none", "running", "replied", "failed"}, touched : BOOLEAN]],
             armed' \in BOOLEAN /\ (armed' => worker'.pc = "race"),
             stream' \in BOOLEAN, served' \in BOOLEAN, unpushed' \in BOOLEAN, voiceFaults' \in 0 .. MaxVoiceFaults
      PROVE  VoiceTypeOK'
  BY <1>1, <1>2, <1>3 DEF VoiceTypeOK, Sayings, WorkerStates
<1>4. VoiceFault \/ UNCHANGED voiceFaults => voiceFaults' \in 0 .. MaxVoiceFaults
  BY VoiceJobsAssumption DEF VoiceFault, VoiceTypeOK
<1>. USE DEF VoiceTypeOK, WorkerStates
<1>5. ASSUME NEW j \in Voices, StoreAudio(j) \/ EnqueueVoice(j) \/ EnqueueVoiceFails(j) \/ SweepOrphan(j)
      PROVE  VoiceTypeOK'
  BY <1>3, <1>4, <1>5 DEF StoreAudio, EnqueueVoice, EnqueueVoiceFails, SweepOrphan
<1>6. ASSUME NEW j \in Voices, ClaimVoice(j) \/ TranscribeFails(j) \/ TranscriptUseless(j)
      PROVE  VoiceTypeOK'
  <2>1. worker' \in WorkerStates /\ worker'.job \in Voices /\ worker.pc # "race"
    BY <1>6 DEF ClaimVoice, TranscribeFails, TranscriptUseless, On, Go
  <2>. QED
    BY <1>3, <1>4, <1>6, <2>1 DEF ClaimVoice, TranscribeFails, TranscriptUseless
<1>7. ASSUME NEW j \in Voices, Consume(j) PROVE VoiceTypeOK'
  <2>1. agent' \in [Voices -> [pc : {"none", "running", "replied", "failed"}, touched : BOOLEAN]]
    BY <1>7 DEF Consume
  <2>2. worker'.pc = "race" /\ worker' \in WorkerStates /\ worker'.job \in Voices
    BY <1>7 DEF Consume, On, Go
  <2>. QED
    BY <1>3, <1>4, <1>7, <2>1, <2>2 DEF Consume
<1>8. ASSUME NEW j \in Voices, DropUnserved(j) \/ RescheduleVoice(j) \/ DropVoice(j) \/ FailVoice(j)
             \/ CompleteVoice(j) \/ CompleteVoiceFails(j)
      PROVE  VoiceTypeOK'
  <2>1. /\ worker'.pc \in {"idle", "fail", "complete"} /\ worker'.job = worker.job
        /\ worker' \in WorkerStates /\ worker.pc # "idle" /\ worker.pc # "race"
    BY <1>8 DEF DropUnserved, RescheduleVoice, DropVoice, FailVoice, CompleteVoice, CompleteVoiceFails, On, Go, Dropped
  <2>2. VoiceFault \/ UNCHANGED voiceFaults
    BY <1>8 DEF DropUnserved, RescheduleVoice, DropVoice, FailVoice, CompleteVoice, CompleteVoiceFails
  <2>3. UNCHANGED <<audio, upload, agent, armed, stream, served, unpushed>>
    BY <1>8 DEF DropUnserved, RescheduleVoice, DropVoice, FailVoice, CompleteVoice, CompleteVoiceFails
  <2>. QED
    BY <1>3, <1>4, <2>1, <2>2, <2>3
<1>9. ASSUME NEW j \in Voices, VoiceBackoffElapses(j) PROVE VoiceTypeOK'
  BY <1>3, <1>4, <1>9 DEF VoiceBackoffElapses
<1>10. ASSUME UNCHANGED <<audio, upload, worker, stream, served, voiceFaults>>, RecordTaskEvent,
              agent' \in [Voices -> [pc : {"none", "running", "replied", "failed"}, touched : BOOLEAN]]
       PROVE  VoiceTypeOK'
  <2>1. armed' \in BOOLEAN /\ (armed' => worker'.pc = "race")
    BY <1>10 DEF RecordTaskEvent
  <2>2. unpushed' \in BOOLEAN
    BY <1>10, Zenon DEF RecordTaskEvent
  <2>. QED
    BY <1>3, <1>4, <1>10, <2>1, <2>2
<1>11. ASSUME NEW j \in Voices, AgentTouches(j) PROVE VoiceTypeOK'
  BY <1>10, <1>11 DEF AgentTouches
<1>12. CASE ForeignTaskEvent
  BY <1>10, <1>12 DEF ForeignTaskEvent
<1>13. ASSUME NEW j \in Voices, AgentEnds(j) PROVE VoiceTypeOK'
  <2>1. PICK end \in {"replied", "failed"} : agent' = [agent EXCEPT ![j].pc = end]
    BY <1>13 DEF AgentEnds
  <2>2. agent' \in [Voices -> [pc : {"none", "running", "replied", "failed"}, touched : BOOLEAN]]
    BY <2>1
  <2>. QED
    BY <1>3, <1>4, <1>13, <2>2 DEF AgentEnds
<1>14. ASSUME NEW j \in Voices, TakeReply(j) \/ TakeError(j) \/ AckTimer(j) \/ HardDeadline(j)
       PROVE  VoiceTypeOK'
  <2>1. /\ worker'.pc \in {"race", "fail", "complete"} /\ worker'.job = worker.job
        /\ worker' \in WorkerStates /\ worker.pc = "race" /\ armed' \in BOOLEAN /\ (armed' => worker'.pc = "race")
    BY <1>14 DEF TakeReply, TakeError, AckTimer, HardDeadline, EmitReply, GiveUp, LeaveRace, On, Go,
                 AfterReply, AfterError
  <2>2. VoiceFault \/ UNCHANGED voiceFaults
    BY <1>14 DEF TakeReply, TakeError, AckTimer, HardDeadline, EmitReply, GiveUp
  <2>3. UNCHANGED <<audio, upload, agent, stream, served, unpushed>>
    BY <1>14 DEF TakeReply, TakeError, AckTimer, HardDeadline
  <2>. QED
    BY <1>3, <1>4, <2>1, <2>2, <2>3
<1>15. CASE ToggleStream
  <2>1. stream' \in BOOLEAN
    BY <1>15, Zenon DEF ToggleStream
  <2>. QED
    BY <1>3, <1>4, <1>15, <2>1 DEF ToggleStream
<1>16. CASE VoiceCrash
  <2>1. agent' \in [Voices -> [pc : {"none", "running", "replied", "failed"}, touched : BOOLEAN]]
    BY <1>16 DEF VoiceCrash, NoAgent
  <2>2. upload' \in [Voices -> {"none", "stored", "done"}]
    BY <1>16 DEF VoiceCrash
  <2>3. worker'.pc = "idle"
    BY <1>16 DEF VoiceCrash
  <2>. QED
    BY <1>3, <1>4, <1>16, <2>1, <2>2, <2>3 DEF VoiceCrash
<1>17. CASE UNCHANGED voiceVars
  BY <1>3, <1>4, <1>17 DEF voiceVars
<1>. QED
  BY <1>5, <1>6, <1>7, <1>8, <1>9, <1>11, <1>12, <1>13, <1>14, <1>15, <1>16, <1>17
     DEF VoiceNext, VoiceStep

-------------------------------------------------------------------------------
(* The audio.                                                              *)

\* A file goes only when no job needs it: before its row, or after it.
LEMMA AudioStep ==
    ASSUME VoiceInv, [VoiceNext]_voiceVars PROVE UploadInv' /\ AudioKept'
<1>. USE VoiceParts DEF VoiceInv, UploadInv, AudioKept
<1>1. ASSUME UNCHANGED <<audio, upload>>,
             \A i \in Voices : voice'[i].row = voice[i].row \/ (voice[i].row = "queued" /\ voice'[i].row = "gone")
      PROVE  UploadInv' /\ AudioKept'
  BY <1>1
<1>2. ASSUME NEW j \in Voices, StoreAudio(j) PROVE UploadInv' /\ AudioKept'
  BY <1>2 DEF StoreAudio
<1>3. ASSUME NEW j \in Voices, EnqueueVoice(j) PROVE UploadInv' /\ AudioKept'
  BY <1>3 DEF EnqueueVoice
<1>4. ASSUME NEW j \in Voices, EnqueueVoiceFails(j) PROVE UploadInv' /\ AudioKept'
  BY <1>4 DEF EnqueueVoiceFails
<1>5. ASSUME NEW j \in Voices, SweepOrphan(j) PROVE UploadInv' /\ AudioKept'
  BY <1>5 DEF SweepOrphan, Orphan
<1>6. CASE VoiceCrash
  BY <1>6 DEF VoiceCrash
<1>7. ASSUME NEW j \in Voices, RescheduleVoice(j) PROVE UploadInv' /\ AudioKept'
  <2>1. \A i \in Voices : voice'[i].row = voice[i].row
    BY <1>7 DEF RescheduleVoice
  <2>. QED
    BY <1>1, <1>7, <2>1 DEF RescheduleVoice
<1>8. ASSUME NEW j \in Voices, VoiceBackoffElapses(j) PROVE UploadInv' /\ AudioKept'
  BY <1>1, <1>8 DEF VoiceBackoffElapses
<1>9. ASSUME NEW j \in Voices, CompleteVoice(j) PROVE UploadInv' /\ AudioKept'
  <2>1. voice[j].row = "queued"
    BY <1>9 DEF CompleteVoice, On, WorkerInv
  <2>. QED
    BY <1>1, <1>9, <2>1 DEF CompleteVoice
<1>10. CASE UNCHANGED voiceVars
  BY <1>1, <1>10 DEF voiceVars
<1>11. CASE UNCHANGED <<voice, audio, upload>>
  BY <1>1, <1>11
<1>. QED
  BY <1>2, <1>3, <1>4, <1>5, <1>6, <1>7, <1>8, <1>9, <1>10, <1>11
     DEF VoiceNext, VoiceStep, ClaimVoice, DropUnserved, TranscribeFails, TranscriptUseless, Consume, DropVoice,
         FailVoice, TakeReply, TakeError, AckTimer, HardDeadline, CompleteVoiceFails, AgentTouches,
         AgentEnds, ForeignTaskEvent, ToggleStream

-------------------------------------------------------------------------------
(* The end of a job.                                                       *)

\* A job comes to "complete" only by a reply, by voice_failed, by a failure that was lost, or
\* without a consumer.
LEMMA EndStep ==
    ASSUME VoiceInv, [VoiceNext]_voiceVars PROVE WorkerInv' /\ EndIsSignalled'
<1>. USE VoiceParts DEF VoiceInv, EndIsSignalled, Over
<1>1. ASSUME UNCHANGED <<voice, said>>,
             \/ worker'.pc = "idle"
             \/ worker'.pc # "complete" /\ worker'.job \in Voices /\ voice[worker'.job].row = "queued"
      PROVE  WorkerInv' /\ EndIsSignalled'
  BY <1>1 DEF WorkerInv
<1>2. ASSUME UNCHANGED <<worker, said>>,
             \A i \in Voices : voice'[i].row = voice[i].row
                               \/ (voice[i].row = "none" /\ voice'[i].row = "queued")
      PROVE  WorkerInv' /\ EndIsSignalled'
  BY <1>2 DEF WorkerInv
<1>3. ASSUME NEW j \in Voices, EnqueueVoice(j) PROVE WorkerInv' /\ EndIsSignalled'
  BY <1>2, <1>3 DEF EnqueueVoice, UploadInv
<1>4. ASSUME NEW j \in Voices, VoiceBackoffElapses(j) PROVE WorkerInv' /\ EndIsSignalled'
  BY <1>2, <1>4 DEF VoiceBackoffElapses
<1>5. ASSUME NEW j \in Voices,
             ClaimVoice(j) \/ TranscribeFails(j) \/ TranscriptUseless(j) \/ DropVoice(j) \/ TakeError(j)
      PROVE  WorkerInv' /\ EndIsSignalled'
  <2>1. /\ UNCHANGED <<voice, said>> /\ worker'.job = j /\ voice[j].row = "queued"
        /\ worker'.pc # "complete"
    BY <1>5 DEF ClaimVoice, TranscribeFails, TranscriptUseless, DropVoice, TakeError, On, Go, Dropped,
                LeaveRace, AfterError, WorkerInv, WorkerStates
  <2>. QED
    BY <1>1, <2>1
<1>6. ASSUME NEW j \in Voices, Consume(j) PROVE WorkerInv' /\ EndIsSignalled'
  <2>1. worker'.job = j /\ worker'.pc = "race" /\ voice[j].row = "queued" /\ voice' = voice
    BY <1>6 DEF Consume, On, Go, WorkerInv, WorkerStates
  <2>2. \A i \in Voices : /\ said'[i].signals = said[i].signals /\ said'[i].lost = said[i].lost
                          /\ said'[i].dropped = said[i].dropped
    BY <1>6 DEF Consume, Sayings
  <2>. QED
    BY <2>1, <2>2 DEF WorkerInv
<1>7. ASSUME NEW j \in Voices, RescheduleVoice(j) PROVE WorkerInv' /\ EndIsSignalled'
  <2>1. /\ \A i \in Voices : voice'[i].row = voice[i].row
        /\ worker'.pc = "idle" /\ said' = said
    BY <1>7 DEF RescheduleVoice, Go, WorkerStates
  <2>. QED
    BY <2>1 DEF WorkerInv
<1>8. ASSUME NEW j \in Voices, FailVoice(j) PROVE WorkerInv' /\ EndIsSignalled'
  <2>1. worker'.job = j /\ worker'.pc = "complete" /\ voice[j].row = "queued" /\ voice' = voice
    BY <1>8 DEF FailVoice, On, Go, WorkerInv, WorkerStates
  <2>2. CASE said' = [said EXCEPT ![j].signals = said[j].signals + 1]
    BY <2>1, <2>2 DEF WorkerInv, Sayings
  <2>3. CASE said' = [said EXCEPT ![j].lost = TRUE]
    BY <2>1, <2>3 DEF WorkerInv, Sayings
  <2>. QED
    BY <1>8, <2>2, <2>3 DEF FailVoice
<1>9. ASSUME NEW j \in Voices, CompleteVoice(j) PROVE WorkerInv' /\ EndIsSignalled'
  <2>1. /\ Over(j)
        /\ said' = said /\ worker'.pc = "idle"
    BY <1>9 DEF CompleteVoice, On, Go, WorkerInv, WorkerStates
  <2>2. \A i \in Voices : i # j => voice'[i] = voice[i]
    BY <1>9 DEF CompleteVoice
  <2>. QED
    BY <2>1, <2>2 DEF WorkerInv
<1>10. ASSUME NEW j \in Voices, CompleteVoiceFails(j) PROVE WorkerInv' /\ EndIsSignalled'
  <2>1. worker'.pc = "idle" /\ voice' = voice
    BY <1>10 DEF CompleteVoiceFails, Go, WorkerStates
  <2>2. \A i \in Voices : /\ said'[i].signals = said[i].signals /\ said'[i].lost = said[i].lost
                          /\ said'[i].dropped = said[i].dropped
    BY <1>10 DEF CompleteVoiceFails, Sayings
  <2>. QED
    BY <2>1, <2>2 DEF WorkerInv
<1>11. ASSUME NEW j \in Voices, worker.pc = "race", worker.job = j, voice' = voice,
              \/ EmitReply(j)
              \/ said' = said /\ worker'.job = j /\ worker'.pc \in {"race", "fail"}
       PROVE  WorkerInv' /\ EndIsSignalled'
  <2>1. voice[j].row = "queued"
    BY <1>11 DEF WorkerInv
  <2>2. CASE said' = said /\ worker'.job = j /\ worker'.pc \in {"race", "fail"}
    BY <1>1, <1>11, <2>1, <2>2
  <2>3. CASE said' = [said EXCEPT ![j].signals = said[j].signals + 1] /\ LeaveRace(AfterReply)
    <3>1. worker'.job = j /\ worker'.pc = "complete"
      BY <1>11, <2>3 DEF LeaveRace, Go, AfterReply, WorkerStates
    <3>. QED
      BY <1>11, <2>1, <2>3, <3>1 DEF WorkerInv, Sayings
  <2>4. CASE said' = said /\ LeaveRace("fail")
    <3>1. worker'.job = j /\ worker'.pc = "fail"
      BY <1>11, <2>4 DEF LeaveRace, Go, WorkerStates
    <3>. QED
      BY <1>1, <1>11, <2>1, <2>4, <3>1
  <2>. QED
    BY <1>11, <2>2, <2>3, <2>4 DEF EmitReply
<1>12. ASSUME NEW j \in Voices, TakeReply(j) \/ AckTimer(j) \/ HardDeadline(j)
       PROVE  WorkerInv' /\ EndIsSignalled'
  <2>1. worker.pc = "race" /\ worker.job = j /\ voice' = voice
    BY <1>12 DEF TakeReply, AckTimer, HardDeadline, On
  <2>2. GiveUp => said' = said /\ worker'.job = j /\ worker'.pc \in {"race", "fail"}
    BY <2>1 DEF GiveUp, LeaveRace, Go, WorkerStates
  <2>3. EmitReply(j) \/ GiveUp \/ UNCHANGED <<worker, said>>
    BY <1>12 DEF TakeReply, AckTimer, HardDeadline
  <2>. QED
    BY <1>11, <2>1, <2>2, <2>3
<1>13. CASE VoiceCrash
  <2>1. worker'.pc = "idle" /\ voice' = voice
    BY <1>13 DEF VoiceCrash, WorkerStates
  <2>2. \A i \in Voices : /\ said'[i].signals = said[i].signals /\ said'[i].lost = said[i].lost
                          /\ said'[i].dropped = said[i].dropped
    BY <1>13 DEF VoiceCrash, Sayings
  <2>. QED
    BY <2>1, <2>2 DEF WorkerInv
<1>14. ASSUME NEW j \in Voices, DropUnserved(j) PROVE WorkerInv' /\ EndIsSignalled'
  <2>1. worker'.job = j /\ worker'.pc = "complete" /\ voice[j].row = "queued" /\ voice' = voice
    BY <1>14 DEF DropUnserved, On, Go, WorkerInv, WorkerStates
  <2>2. said' = [said EXCEPT ![j].dropped = TRUE]
    BY <1>14 DEF DropUnserved
  <2>. QED
    BY <2>1, <2>2 DEF WorkerInv, Sayings
<1>15. CASE UNCHANGED <<voice, worker, said>>
  BY <1>2, <1>15
<1>. QED
  BY <1>3, <1>4, <1>5, <1>6, <1>7, <1>8, <1>9, <1>10, <1>12, <1>13, <1>14, <1>15
     DEF VoiceNext, VoiceStep, StoreAudio, EnqueueVoiceFails, SweepOrphan, AgentTouches, AgentEnds,
         ForeignTaskEvent, ToggleStream, voiceVars

-------------------------------------------------------------------------------
(* How often a job is told.                                                *)

\* Each step tells at most once, and a run that ends untold to the queue is counted as cut.
LEMMA SaidStep == ASSUME VoiceInv, [VoiceNext]_voiceVars PROVE SaidInv'
<1>. USE VoiceParts DEF VoiceInv
<1>1. ASSUME UNCHANGED said,
             \A i \in Voices : (Heard(i) => Heard(i)') /\ (Ended(i) => Ended(i)')
      PROVE  SaidInv'
  <2>1. \A i \in Voices : Once(Heard(i)) <= Once(Heard(i)') /\ Once(Ended(i)) <= Once(Ended(i)')
    BY <1>1 DEF Once
  <2>2. \A i \in Voices : /\ Once(Heard(i)) \in Nat /\ Once(Heard(i)') \in Nat
                          /\ Once(Ended(i)) \in Nat /\ Once(Ended(i)') \in Nat
    BY DEF Once
  <2>3. \A i \in Voices : said[i].heard \in Nat /\ said[i].signals \in Nat /\ said[i].cut \in Nat
    BY DEF Sayings
  <2>. QED
    BY <1>1, <2>1, <2>2, <2>3 DEF SaidInv
<1>2. ASSUME NEW j \in Voices,
             ClaimVoice(j) \/ TranscribeFails(j) \/ TranscriptUseless(j) \/ DropVoice(j) \/ TakeError(j)
      PROVE  SaidInv'
  <2>1. /\ UNCHANGED <<voice, said>> /\ worker'.job = j
        /\ \/ worker.pc \in {"idle", "claimed", "retry"}
           \/ worker.pc = "race" /\ worker.job = j /\ worker'.pc = "fail"
    BY <1>2 DEF ClaimVoice, TranscribeFails, TranscriptUseless, DropVoice, TakeError, On, Go,
                LeaveRace, AfterError, WorkerStates
  <2>. QED
    BY <1>1, <2>1 DEF Heard, Ended
<1>3. ASSUME NEW j \in Voices, said' \in [Voices -> Sayings],
             \A i \in Voices : i # j => /\ said'[i] = said[i]
                                        /\ (Heard(i) => Heard(i)') /\ (Ended(i) => Ended(i)'),
             said'[j].heard <= said'[j].cut + Once(Heard(j)'),
             said'[j].signals <= said'[j].cut + Once(Ended(j)')
      PROVE  SaidInv'
  <2>1. ASSUME NEW i \in Voices, i # j
        PROVE  /\ said'[i].heard <= said'[i].cut + Once(Heard(i)')
               /\ said'[i].signals <= said'[i].cut + Once(Ended(i)')
    <3>1. /\ said[i].heard <= said[i].cut + Once(Heard(i))
          /\ said[i].signals <= said[i].cut + Once(Ended(i))
      BY DEF SaidInv
    <3>2. said[i].heard \in Nat /\ said[i].signals \in Nat /\ said[i].cut \in Nat
      BY DEF Sayings
    <3>3. said'[i] = said[i] /\ (Heard(i) => Heard(i)') /\ (Ended(i) => Ended(i)')
      BY <1>3, <2>1
    <3>. QED
      BY <3>1, <3>2, <3>3 DEF Once
  <2>. QED
    BY <1>3, <2>1 DEF SaidInv
<1>4. \A i \in Voices : /\ said[i].heard \in Nat /\ said[i].signals \in Nat /\ said[i].cut \in Nat
                         /\ said[i].heard <= said[i].cut + Once(Heard(i))
                         /\ said[i].signals <= said[i].cut + Once(Ended(i))
  BY DEF SaidInv, Sayings
<1>5. said' \in [Voices -> Sayings]
  BY SaidType
<1>6. ASSUME NEW j \in Voices, Consume(j) PROVE SaidInv'
  <2>1. /\ worker'.job = j /\ worker'.pc = "race" /\ worker.job = j /\ worker.pc = "claimed"
        /\ voice' = voice /\ voice[j].row = "queued"
    BY <1>6 DEF Consume, On, Go, WorkerInv, WorkerStates
  <2>2. said' = [said EXCEPT ![j].heard = said[j].heard + 1]
    BY <1>6 DEF Consume
  <2>3. /\ ~Heard(j) /\ Heard(j)' /\ ~Ended(j) /\ ~Ended(j)'
        /\ \A i \in Voices : i # j => (Heard(i) => Heard(i)') /\ (Ended(i) => Ended(i)')
    BY <2>1 DEF Heard, Ended
  <2>4. /\ said'[j].heard = said[j].heard + 1 /\ said'[j].cut = said[j].cut
        /\ said'[j].signals = said[j].signals /\ \A i \in Voices : i # j => said'[i] = said[i]
    BY <2>2 DEF Sayings
  <2>5. said'[j].heard <= said'[j].cut + 1 /\ said'[j].signals <= said'[j].cut + 0
    BY <1>4, <2>3, <2>4 DEF Once
  <2>. QED
    BY <1>3, <1>5, <2>3, <2>4, <2>5 DEF Once
<1>7. ASSUME NEW j \in Voices, worker.pc \in {"race", "fail"}, worker.job = j, voice' = voice,
             worker'.pc = "complete", worker'.job = j,
             said' = [said EXCEPT ![j].signals = said[j].signals + 1]
      PROVE  SaidInv'
  <2>1. voice[j].row = "queued"
    BY <1>7 DEF WorkerInv
  <2>2. /\ Heard(j) /\ Heard(j)' /\ ~Ended(j) /\ Ended(j)'
        /\ \A i \in Voices : i # j => (Heard(i) => Heard(i)') /\ (Ended(i) => Ended(i)')
    BY <1>7, <2>1 DEF Heard, Ended
  <2>3. /\ said'[j].heard = said[j].heard /\ said'[j].cut = said[j].cut
        /\ said'[j].signals = said[j].signals + 1 /\ \A i \in Voices : i # j => said'[i] = said[i]
    BY <1>7 DEF Sayings
  <2>4. said'[j].heard <= said'[j].cut + 1 /\ said'[j].signals <= said'[j].cut + 1
    BY <1>4, <2>2, <2>3 DEF Once
  <2>. QED
    BY <1>3, <1>5, <2>2, <2>3, <2>4 DEF Once
<1>8. ASSUME NEW j \in Voices, FailVoice(j) PROVE SaidInv'
  <2>1. /\ worker.job = j /\ worker.pc = "fail" /\ voice' = voice
        /\ worker'.job = j /\ worker'.pc = "complete"
    BY <1>8 DEF FailVoice, On, Go, WorkerStates
  <2>2. CASE said' = [said EXCEPT ![j].signals = said[j].signals + 1]
    BY <1>7, <2>1, <2>2
  <2>3. CASE said' = [said EXCEPT ![j].lost = TRUE]
    <3>1. voice[j].row = "queued"
      BY <2>1 DEF WorkerInv
    <3>2. /\ Heard(j) /\ Heard(j)' /\ ~Ended(j)
          /\ \A i \in Voices : i # j => (Heard(i) => Heard(i)') /\ (Ended(i) => Ended(i)')
      BY <2>1, <3>1 DEF Heard, Ended
    <3>3. /\ said'[j].heard = said[j].heard /\ said'[j].cut = said[j].cut
          /\ said'[j].signals = said[j].signals /\ \A i \in Voices : i # j => said'[i] = said[i]
      BY <2>3 DEF Sayings
    <3>4. said'[j].heard <= said'[j].cut + 1 /\ said'[j].signals <= said'[j].cut + Once(Ended(j)')
      BY <1>4, <3>2, <3>3 DEF Once
    <3>. QED
      BY <1>3, <1>5, <3>2, <3>3, <3>4 DEF Once
  <2>. QED
    BY <1>8, <2>2, <2>3 DEF FailVoice
<1>9. ASSUME NEW j \in Voices, TakeReply(j) \/ AckTimer(j) \/ HardDeadline(j) PROVE SaidInv'
  <2>1. worker.pc = "race" /\ worker.job = j /\ voice' = voice
    BY <1>9 DEF TakeReply, AckTimer, HardDeadline, On
  <2>2. ASSUME said' = said, worker'.job = j, worker'.pc \in {"race", "fail"} PROVE SaidInv'
    BY <1>1, <2>1, <2>2 DEF Heard, Ended
  <2>3. CASE said' = [said EXCEPT ![j].signals = said[j].signals + 1] /\ LeaveRace(AfterReply)
    <3>1. worker'.job = j /\ worker'.pc = "complete"
      BY <2>1, <2>3 DEF LeaveRace, Go, AfterReply, WorkerStates
    <3>. QED
      BY <1>7, <2>1, <2>3, <3>1
  <2>4. CASE said' = said /\ LeaveRace("fail")
    <3>1. worker'.job = j /\ worker'.pc = "fail"
      BY <2>1, <2>4 DEF LeaveRace, Go, WorkerStates
    <3>. QED
      BY <2>2, <2>4, <3>1
  <2>5. CASE UNCHANGED <<worker, said>>
    BY <2>1, <2>2, <2>5
  <2>. QED
    BY <1>9, <2>3, <2>4, <2>5 DEF TakeReply, AckTimer, HardDeadline, EmitReply, GiveUp
<1>10. ASSUME NEW j \in Voices, RescheduleVoice(j) PROVE SaidInv'
  <2>1. \A i \in Voices : voice'[i].row = voice[i].row
    BY <1>10 DEF RescheduleVoice
  <2>2. worker.pc = "retry" /\ said' = said
    BY <1>10 DEF RescheduleVoice, On
  <2>. QED
    BY <1>1, <2>1, <2>2 DEF Heard, Ended
<1>11. ASSUME NEW j \in Voices, EnqueueVoice(j) \/ VoiceBackoffElapses(j) PROVE SaidInv'
  <2>1. \A i \in Voices : voice[i].row = "gone" => voice'[i].row = "gone"
    BY <1>11 DEF EnqueueVoice, VoiceBackoffElapses, UploadInv
  <2>2. UNCHANGED <<worker, said>>
    BY <1>11 DEF EnqueueVoice, VoiceBackoffElapses
  <2>. QED
    BY <1>1, <2>1, <2>2 DEF Heard, Ended
<1>12. ASSUME NEW j \in Voices, CompleteVoice(j) PROVE SaidInv'
  <2>1. voice'[j].row = "gone" /\ \A i \in Voices : i # j => voice'[i] = voice[i]
    BY <1>12 DEF CompleteVoice
  <2>2. worker.pc = "complete" /\ worker.job = j /\ said' = said
    BY <1>12 DEF CompleteVoice, On
  <2>. QED
    BY <1>1, <2>1, <2>2 DEF Heard, Ended
<1>13. ASSUME NEW j \in Voices, worker.pc # "idle", worker.job = j, worker'.pc = "idle", voice' = voice,
              said' = [said EXCEPT ![j].cut = said[j].cut + 1]
       PROVE  SaidInv'
  <2>1. \A i \in Voices : i # j => (Heard(i) => Heard(i)') /\ (Ended(i) => Ended(i)')
    BY <1>13 DEF Heard, Ended
  <2>2. /\ said'[j].heard = said[j].heard /\ said'[j].cut = said[j].cut + 1
        /\ said'[j].signals = said[j].signals /\ \A i \in Voices : i # j => said'[i] = said[i]
    BY <1>13 DEF Sayings
  <2>3. /\ said'[j].heard <= said'[j].cut + Once(Heard(j)')
        /\ said'[j].signals <= said'[j].cut + Once(Ended(j)')
    BY <1>4, <2>2 DEF Once
  <2>. QED
    BY <1>3, <1>5, <2>1, <2>2, <2>3
<1>14. ASSUME NEW j \in Voices, CompleteVoiceFails(j) PROVE SaidInv'
  <2>1. worker.pc = "complete" /\ worker.job = j /\ worker'.pc = "idle" /\ voice' = voice
    BY <1>14 DEF CompleteVoiceFails, On, Go, WorkerStates
  <2>. QED
    BY <1>13, <1>14, <2>1 DEF CompleteVoiceFails
<1>15. CASE VoiceCrash
  <2>1. worker'.pc = "idle" /\ worker'.job = worker.job /\ voice' = voice
    BY <1>15 DEF VoiceCrash, WorkerStates
  <2>2. CASE worker.pc = "idle"
    <3>1. \A i \in Voices : said'[i] = said[i]
      BY <1>15, <2>2 DEF VoiceCrash
    <3>2. said' = said
      BY <1>5, <3>1
    <3>. QED
      BY <1>1, <2>1, <2>2, <3>2 DEF Heard, Ended
  <2>3. CASE worker.pc # "idle"
    <3>1. said' = [said EXCEPT ![worker.job].cut = said[worker.job].cut + 1]
      BY <1>5, <1>15, <2>3 DEF VoiceCrash
    <3>. QED
      BY <1>13, <2>1, <2>3, <3>1
  <2>. QED
    BY <2>2, <2>3
<1>16. ASSUME NEW j \in Voices, DropUnserved(j) PROVE SaidInv'
  <2>1. /\ worker.job = j /\ worker.pc = "claimed" /\ voice' = voice
        /\ worker'.job = j /\ worker'.pc = "complete"
    BY <1>16 DEF DropUnserved, On, Go, WorkerStates
  <2>2. voice[j].row = "queued"
    BY <2>1 DEF WorkerInv
  <2>3. /\ ~Heard(j) /\ ~Ended(j)
        /\ \A i \in Voices : i # j => (Heard(i) => Heard(i)') /\ (Ended(i) => Ended(i)')
    BY <2>1, <2>2 DEF Heard, Ended
  <2>4. /\ said'[j].heard = said[j].heard /\ said'[j].cut = said[j].cut
        /\ said'[j].signals = said[j].signals /\ \A i \in Voices : i # j => said'[i] = said[i]
    BY <1>16 DEF DropUnserved, Sayings
  <2>5. /\ said'[j].heard <= said'[j].cut + Once(Heard(j)')
        /\ said'[j].signals <= said'[j].cut + Once(Ended(j)')
    BY <1>4, <2>3, <2>4 DEF Once
  <2>. QED
    BY <1>3, <1>5, <2>3, <2>4, <2>5
<1>17. CASE UNCHANGED <<voice, worker, said>>
  BY <1>1, <1>17 DEF Heard, Ended
<1>. QED
  BY <1>2, <1>6, <1>8, <1>9, <1>10, <1>11, <1>12, <1>14, <1>15, <1>16, <1>17
     DEF VoiceNext, VoiceStep, StoreAudio, EnqueueVoiceFails, SweepOrphan, AgentTouches, AgentEnds,
         ForeignTaskEvent, ToggleStream, voiceVars

-------------------------------------------------------------------------------
(* The theorems.                                                           *)

\* The inductive invariant of the queue, the uploads, the worker and what the client was told.
THEOREM VoiceInvariant == VoiceSpec => []VoiceInv
<1>1. VoiceInit => VoiceInv
  <2>. SUFFICES ASSUME VoiceInit PROVE VoiceInv
    OBVIOUS
  <2>1. VoiceTypeOK
    <3>1. 0 \in 0 .. MaxVoiceAttempts - 1 /\ 0 \in 0 .. MaxVoiceFaults
      BY VoiceJobsAssumption
    <3>2. voice \in [Voices -> [row : {"none", "queued", "gone"},
                                attempts : 0 .. MaxVoiceAttempts - 1, due : BOOLEAN]]
      BY <3>1 DEF VoiceInit
    <3>3. agent \in [Voices -> [pc : {"none", "running", "replied", "failed"}, touched : BOOLEAN]]
      BY DEF VoiceInit, NoAgent
    <3>4. said \in [Voices -> [heard : Nat, signals : Nat, cut : Nat, lost : BOOLEAN,
                              dropped : BOOLEAN]]
      BY DEF VoiceInit
    <3>. QED
      BY <3>1, <3>2, <3>3, <3>4 DEF VoiceInit, VoiceTypeOK
  <2>2. UploadInv /\ WorkerInv /\ AudioKept /\ EndIsSignalled
    BY DEF VoiceInit, UploadInv, WorkerInv, AudioKept, EndIsSignalled, Over
  <2>3. SaidInv
    <3>1. \A j \in Voices : said[j].heard = 0 /\ said[j].signals = 0 /\ said[j].cut = 0
      BY DEF VoiceInit
    <3>2. \A j \in Voices : 0 <= 0 + Once(Heard(j)) /\ 0 <= 0 + Once(Ended(j))
      BY DEF Once
    <3>. QED
      BY <3>1, <3>2 DEF SaidInv
  <2>. QED
    BY <2>1, <2>2, <2>3 DEF VoiceInv
<1>2. VoiceInv /\ [VoiceNext]_voiceVars => VoiceInv'
  <2>. SUFFICES ASSUME VoiceInv, [VoiceNext]_voiceVars PROVE VoiceInv'
    OBVIOUS
  <2>1. VoiceTypeOK'
    BY VoiceTypeStep DEF VoiceInv
  <2>2. UploadInv' /\ AudioKept' /\ WorkerInv' /\ EndIsSignalled' /\ SaidInv'
    BY AudioStep, EndStep, SaidStep
  <2>. QED
    BY <2>1, <2>2 DEF VoiceInv
<1>. QED
  BY <1>1, <1>2, PTL DEF VoiceSpec

\* Rows, files and the worker keep their types: a worker that is busy has a job, its timer runs
\* only during the race, and no row counts more attempts than it may have (voice_queue.go,
\* worker.go).
THEOREM VoiceTyped == VoiceSpec => []VoiceTypeOK
<1>1. VoiceInv => VoiceTypeOK
  BY DEF VoiceInv
<1>. QED
  BY <1>1, VoiceInvariant, PTL

\* No voice message disappears unsaid: a job leaves the queue after a reply or voice_failed,
\* with a failure that could not be stored, or in a process without the interface its client
\* speaks (transcribe/worker.go, client_voice_consumer.go).
THEOREM EndsAreSignalled == VoiceSpec => []EndIsSignalled
<1>1. VoiceInv => EndIsSignalled
  BY DEF VoiceInv
<1>. QED
  BY <1>1, VoiceInvariant, PTL

\* However the reply, the timer, the deadline and errors race, one run tells the transcript
\* once and its end once (client_voice_consumer.go, Consume).
THEOREM RunsAreToldOnce == VoiceSpec => []SaidOncePerRun
<1>1. VoiceInv => SaidOncePerRun
  <2>. SUFFICES ASSUME VoiceInv, NEW j \in Voices
                PROVE  said[j].heard <= 1 + said[j].cut /\ said[j].signals <= 1 + said[j].cut
    BY DEF SaidOncePerRun
  <2>1. said[j].heard \in Nat /\ said[j].signals \in Nat /\ said[j].cut \in Nat
    BY VoiceParts DEF VoiceInv, Sayings
  <2>. QED
    BY <2>1 DEF VoiceInv, SaidInv, Once
<1>. QED
  BY <1>1, VoiceInvariant, PTL

\* The sweep of uploads leaves the file of a queued job alone, however long it is queued
\* (retention.go, sweepOrphanVoiceUploads).
THEOREM AudioIsKept == VoiceSpec => []AudioKept
<1>1. VoiceInv => AudioKept
  BY DEF VoiceInv
<1>. QED
  BY <1>1, VoiceInvariant, PTL

(***************************************************************************)
(* Projects: the cached list is stale only while a change has yet to       *)
(* invalidate it, what belongs to a project belongs to one there is, and   *)
(* what people write for a task is one task.                               *)
(***************************************************************************)

\* The list that was read: a row and its aliases per project.
ProjectRow == [row : {"none", "stored", "deleted"}, name : Names \cup {Inbox}, slug : Slugs \cup {Inbox},
               counter : 0 .. MaxNumber]
ReadLists == {<<>>} \cup UNION {[S -> [row : ProjectRow, aliases : SUBSET Names]] : S \in SUBSET Projects}

Works == [pc : {"idle", "fill", "tx", "invalidate"},
          kind : {"none", "bind", "task", "create", "update", "addAlias"},
          project : Projects \cup {NoProject}, name : Names \cup {Inbox},
          wanted : SUBSET (Names \cup Channels \cup Tasks), list : ReadLists]

\* What an operation carries from its reads to its transaction.
Carries(w) ==
    /\ w.kind = "task" => w.project \in Projects /\ w.wanted \subseteq Tasks
    /\ w.kind = "bind" => w.name \in Names /\ w.wanted \subseteq Channels
    /\ w.kind = "create" => w.name \in Names /\ w.wanted \subseteq Names
    /\ w.kind \in {"update", "addAlias"} => w.project \in Projects \ {Inbox} /\ w.wanted \subseteq Names

WorkInv == work \in [Users -> Works] /\ \A u \in Users : Carries(work[u])

Invalidating == \E u \in Users : work[u].pc = "invalidate"

\* Who fills the cache holds its lock, and stores what is in the tables, or somebody who has
\* changed them has yet to invalidate it.
CacheInv ==
    /\ cache \in [set : BOOLEAN, list : ReadLists]
    /\ filler \in Users \cup {NoProject}
    /\ \A u \in Users : work[u].pc = "fill" <=> filler = u
    /\ \A u \in Users : work[u].pc = "fill" => work[u].list = Snapshot \/ Invalidating
    /\ cache.set => cache.list = Snapshot \/ Invalidating

\* The projects: their names and slugs are theirs alone.
RowsInv ==
    /\ project \in [Projects -> ProjectRow]
    /\ Inbox \in Live
    /\ \A p, q \in Live : p # q => project[p].name # project[q].name /\ project[p].slug # project[q].slug

\* What belongs to a project belongs to one there is.
BelongInv ==
    /\ alias \in [Names -> Live \cup {NoProject}] /\ \A a \in Names : alias[a] # Inbox
    /\ binding \in [Channels -> Live \cup {NoProject}]
    /\ task \in [Tasks -> [project : Live \cup {NoProject}, number : 0 .. MaxNumber]]

\* The number n of p was given: p counts it, or is gone.
Counts(p, n) == project[p].row = "deleted" \/ (project[p].row = "stored" /\ n <= project[p].counter)

\* Tasks of a project have numbers of their own, up to its counter.
NumbersInv ==
    /\ \A t \in Tasks : task[t].project # NoProject =>
          task[t].number \in 1 .. project[task[t].project].counter
    /\ \A t, o \in Tasks : t # o /\ task[t].project = task[o].project /\ task[t].project # NoProject =>
          task[t].number # task[o].number
    /\ given \in [Projects \X (1 .. MaxNumber) -> Nat]
    /\ \A p \in Projects, n \in 1 .. MaxNumber :
          given[<<p, n>>] <= 1 /\ (given[<<p, n>>] # 0 => Counts(p, n))

ProjectsInv == WorkInv /\ CacheInv /\ RowsInv /\ BelongInv /\ NumbersInv

LEMMA ProjectsInitInv == ProjectsInit => ProjectsInv
<1>. SUFFICES ASSUME ProjectsInit PROVE ProjectsInv
  OBVIOUS
<1>1. Idle \in Works /\ Carries(Idle) /\ Idle.pc = "idle"
  BY DEF Idle, Works, ReadLists, Carries
<1>2. WorkInv
  BY <1>1 DEF ProjectsInit, WorkInv
<1>3. CacheInv
  BY <1>1, ProjectNamesAssumption DEF ProjectsInit, CacheInv, ReadLists
<1>4. \A p \in Projects : project[p].row = IF p = Inbox THEN "stored" ELSE "none"
  BY DEF ProjectsInit, NoRow
<1>5. RowsInv
  <2>1. project \in [Projects -> ProjectRow]
    BY ProjectNamesAssumption DEF ProjectsInit, NoRow, ProjectRow
  <2>2. Live = {Inbox}
    BY <1>4, ProjectNamesAssumption DEF Live
  <2>. QED
    BY <2>1, <2>2 DEF RowsInv
<1>6. BelongInv
  BY ProjectNamesAssumption DEF ProjectsInit, BelongInv
<1>7. NumbersInv
  BY DEF ProjectsInit, NumbersInv
<1>. QED
  BY <1>2, <1>3, <1>5, <1>6, <1>7 DEF ProjectsInv

-------------------------------------------------------------------------------
(* The operations.                                                         *)

\* A user enters a step of an operation.
LEMMA Becomes ==
    ASSUME WorkInv, NEW u \in Users, NEW w \in Works, Carries(w), Become(u, w)
    PROVE  /\ WorkInv'
           /\ work'[u] = w
           /\ \A v \in Users : v # u => work'[v] = work[v]
<1>1. work \in [Users -> Works] /\ work' = [work EXCEPT ![u] = w]
  BY DEF WorkInv, Become
<1>2. work' \in [Users -> Works] /\ work'[u] = w /\ \A v \in Users : v # u => work'[v] = work[v]
  BY <1>1
<1>. QED
  BY <1>2 DEF WorkInv, Carries

LEMMA IdleWorks ==
    /\ Idle \in Works /\ Carries(Idle) /\ Idle.pc = "idle"
    /\ [Idle EXCEPT !.pc = "invalidate"] \in Works /\ Carries([Idle EXCEPT !.pc = "invalidate"])
    /\ [Idle EXCEPT !.pc = "invalidate"].pc = "invalidate"
BY DEF Idle, Works, ReadLists, Carries

LEMMA OpWorks ==
    ASSUME NEW kind \in {"bind", "task", "create", "update", "addAlias"},
           NEW p \in Projects \cup {NoProject}, NEW n \in Names \cup {Inbox},
           NEW wanted \in SUBSET (Names \cup Channels \cup Tasks)
    PROVE  /\ Op(kind, p, n, wanted) \in Works
           /\ Op(kind, p, n, wanted).pc = "tx" /\ Op(kind, p, n, wanted).kind = kind
           /\ Op(kind, p, n, wanted).project = p /\ Op(kind, p, n, wanted).name = n
           /\ Op(kind, p, n, wanted).wanted = wanted
BY DEF Op, Works, ReadLists

LEMMA AliasOpWorks ==
    ASSUME NEW op \in AliasOps
    PROVE  op \in Works /\ Carries(op)
<1>1. PICK kind \in {"create", "update", "addAlias"}, p \in (Projects \ {Inbox}) \cup {NoProject},
           n \in Names \cup {Inbox}, wanted \in (SUBSET Names) \ {{}} : op = Op(kind, p, n, wanted)
  BY DEF AliasOps
<1>2. (op.kind = "create") = (op.project = NoProject) /\ (op.kind = "create") = (op.name \in Names)
  BY DEF AliasOps
<1>3. op \in Works /\ op.kind = kind /\ op.project = p /\ op.name = n /\ op.wanted = wanted
  BY <1>1, OpWorks
<1>. QED
  BY <1>2, <1>3 DEF Carries

\* What the comparison of the aliases leads to.
LEMMA CheckedWorks ==
    ASSUME NEW w \in Works, Carries(w), NEW list
    PROVE  /\ Checked(w, list) \in Works /\ Carries(Checked(w, list))
           /\ Checked(w, list).pc \in {"idle", "tx"}
<1>1. [w EXCEPT !.pc = "tx"] \in Works
  BY DEF Works
<1>2. [[w EXCEPT !.pc = "tx"] EXCEPT !.list = <<>>] \in Works
  BY <1>1 DEF Works, ReadLists
<1>3. /\ [[w EXCEPT !.pc = "tx"] EXCEPT !.list = <<>>].pc = "tx"
      /\ Carries([[w EXCEPT !.pc = "tx"] EXCEPT !.list = <<>>])
  BY DEF Works, Carries
<1>. QED
  BY <1>2, <1>3, IdleWorks DEF Checked

LEMMA SnapshotLists ==
    ASSUME RowsInv
    PROVE  Snapshot \in ReadLists
<1>1. Live \in SUBSET Projects
  BY DEF Live
<1>2. Snapshot \in [Live -> [row : ProjectRow, aliases : SUBSET Names]]
  BY DEF Snapshot, RowsInv, AliasesOf, Live
<1>. QED
  BY <1>1, <1>2 DEF ReadLists

\* An operation whose transaction may run.
LEMMA OpsWork ==
    ASSUME WorkInv, NEW u \in Users, NEW kind, NEW ps, NEW names, NEW op \in Ops(u, kind, ps, names)
    PROVE  /\ work[u].pc \in {"idle", "tx"}
           /\ \/ op = work[u] /\ work[u].kind = kind
              \/ \E p \in ps, n \in names : op = Op(kind, p, n, {})
BY DEF Ops, AtOnce, Committing

-------------------------------------------------------------------------------
(* The cached list.                                                        *)

\* A step that touches neither the cache nor its lock, and the tables only if an invalidation
\* follows.
LEMMA CacheKept ==
    ASSUME WorkInv, CacheInv, NEW u \in Users, NEW w \in Works, Carries(w), Become(u, w),
           UNCHANGED <<cache, filler>>,
           work[u].pc \in {"idle", "tx"}, w.pc # "fill",
           w.pc = "invalidate" \/ UNCHANGED <<project, alias>>
    PROVE  WorkInv' /\ CacheInv'
<1>1. WorkInv' /\ work'[u] = w /\ \A v \in Users : v # u => work'[v] = work[v]
  BY Becomes
<1>2. \A v \in Users : work'[v].pc = "fill" <=> filler' = v
  BY <1>1 DEF CacheInv
<1>3. \A v \in Users : work'[v].pc = "fill" => work'[v].list = work[v].list /\ work[v].pc = "fill"
  BY <1>1
<1>4. CASE w.pc = "invalidate"
  <2>1. Invalidating'
    BY <1>1, <1>4 DEF Invalidating
  <2>. QED
    BY <1>1, <1>2, <2>1 DEF CacheInv
<1>5. CASE UNCHANGED <<project, alias>>
  <2>1. Snapshot' = Snapshot
    BY <1>5 DEF Snapshot, Live, AliasesOf
  <2>2. Invalidating => Invalidating'
    BY <1>1 DEF Invalidating
  <2>. QED
    BY <1>1, <1>2, <1>3, <2>1, <2>2 DEF CacheInv
<1>. QED
  BY <1>4, <1>5

\* An operation that has committed.
LEMMA CommitKeeps ==
    ASSUME WorkInv, CacheInv, NEW u \in Users, Committed(u), work[u].pc \in {"idle", "tx"}
    PROVE  WorkInv' /\ CacheInv'
BY CacheKept, IdleWorks DEF Committed

LEMMA CommitsStep ==
    ASSUME ProjectsInv, NEW u \in Users,
           \/ CreateProject(u) \/ UpdateAliases(u) \/ RenameProject(u)
           \/ AddProjectAlias(u) \/ RemoveProjectAlias(u) \/ DeleteProject(u)
           \/ BindCreated(u) \/ CreateTask(u) \/ MoveTask(u)
    PROVE  WorkInv' /\ CacheInv'
<1>1. WorkInv /\ CacheInv
  BY DEF ProjectsInv
<1>2. CASE CreateProject(u)
  BY <1>1, <1>2, CommitKeeps, OpsWork DEF CreateProject
<1>3. CASE UpdateAliases(u)
  BY <1>1, <1>3, CommitKeeps, OpsWork DEF UpdateAliases
<1>4. CASE RenameProject(u) \/ RemoveProjectAlias(u) \/ DeleteProject(u) \/ MoveTask(u)
  BY <1>1, <1>4, CommitKeeps DEF RenameProject, RemoveProjectAlias, DeleteProject, MoveTask, AtOnce
<1>5. CASE AddProjectAlias(u) \/ BindCreated(u) \/ CreateTask(u)
  BY <1>1, <1>5, CommitKeeps DEF AddProjectAlias, BindCreated, CreateTask, Committing
<1>. QED
  BY <1>2, <1>3, <1>4, <1>5

LEMMA ReadsStep ==
    ASSUME ProjectsInv, NEW u \in Users,
           \/ AskBind(u) \/ AskTask(u) \/ ListStore(u)
           \/ \E op \in AliasOps : ListHit(u, op) \/ ListRead(u, op)
           \/ BindFound(u) \/ RollBack(u) \/ Invalidate(u)
    PROVE  WorkInv' /\ CacheInv'
<1>1. WorkInv /\ CacheInv /\ RowsInv /\ work[u] \in Works /\ Carries(work[u])
  BY DEF ProjectsInv, WorkInv
<1>2. CASE AskBind(u)
  <2>1. PICK n \in Names, c \in Channels, p \in Projects \cup {NoProject} : Become(u, Op("bind", p, n, {c}))
    BY <1>2 DEF AskBind, Live
  <2>2. Op("bind", p, n, {c}) \in Works /\ Carries(Op("bind", p, n, {c})) /\ Op("bind", p, n, {c}).pc = "tx"
    BY OpWorks DEF Carries
  <2>. QED
    BY <1>1, <1>2, <2>1, <2>2, CacheKept DEF AskBind, AtOnce
<1>3. CASE AskTask(u)
  <2>1. PICK t \in Tasks, c \in Channels : Become(u, Op("task", IF binding[c] \in Live THEN binding[c] ELSE Inbox, Inbox, {t}))
    BY <1>3 DEF AskTask
  <2>. DEFINE p == IF binding[c] \in Live THEN binding[c] ELSE Inbox
  <2>2. p \in Projects
    BY ProjectNamesAssumption DEF Live
  <2>3. Op("task", p, Inbox, {t}) \in Works /\ Carries(Op("task", p, Inbox, {t})) /\ Op("task", p, Inbox, {t}).pc = "tx"
    BY <2>2, OpWorks DEF Carries
  <2>. QED
    BY <1>1, <1>3, <2>1, <2>3, CacheKept DEF AskTask, AtOnce
<1>4. ASSUME NEW op \in AliasOps, ListHit(u, op) PROVE WorkInv' /\ CacheInv'
  <2>1. /\ Checked(op, cache.list) \in Works /\ Carries(Checked(op, cache.list))
        /\ Checked(op, cache.list).pc \in {"idle", "tx"}
    BY AliasOpWorks, CheckedWorks
  <2>. QED
    BY <1>1, <1>4, <2>1, CacheKept DEF ListHit, AtOnce
<1>5. ASSUME NEW op \in AliasOps, ListRead(u, op) PROVE WorkInv' /\ CacheInv'
  <2>. DEFINE w == [[op EXCEPT !.pc = "fill"] EXCEPT !.list = Snapshot]
  <2>1. op \in Works /\ Carries(op) /\ Snapshot \in ReadLists
    BY <1>1, AliasOpWorks, SnapshotLists
  <2>2. [op EXCEPT !.pc = "fill"] \in Works
    BY <2>1 DEF Works
  <2>3. w \in Works /\ Carries(w) /\ w.pc = "fill" /\ w.list = Snapshot
    BY <2>1, <2>2 DEF Works, Carries
  <2>4. Become(u, w) /\ filler = NoProject /\ filler' = u /\ ~cache.set /\ UNCHANGED <<project, alias, cache>>
    BY <1>5 DEF ListRead
  <2>. HIDE DEF w
  <2>5. WorkInv' /\ work'[u] = w /\ \A v \in Users : v # u => work'[v] = work[v]
    BY <1>1, <2>3, <2>4, Becomes
  <2>6. Snapshot' = Snapshot
    BY <2>4 DEF Snapshot, Live, AliasesOf
  <2>7. \A v \in Users : work[v].pc # "fill"
    BY <1>1, <2>4, ProjectNamesAssumption DEF CacheInv
  <2>. QED
    BY <1>1, <2>3, <2>4, <2>5, <2>6, <2>7 DEF CacheInv
<1>6. CASE ListStore(u)
  <2>. DEFINE w == Checked(work[u], work[u].list)
  <2>1. w \in Works /\ Carries(w) /\ w.pc \in {"idle", "tx"}
    BY <1>1, CheckedWorks
  <2>2. /\ Become(u, w) /\ work[u].pc = "fill" /\ cache' = [set |-> TRUE, list |-> work[u].list]
        /\ filler' = NoProject /\ UNCHANGED <<project, alias>>
    BY <1>6 DEF ListStore
  <2>. HIDE DEF w
  <2>3. WorkInv' /\ work'[u] = w /\ \A v \in Users : v # u => work'[v] = work[v]
    BY <1>1, <2>1, <2>2, Becomes
  <2>4. Snapshot' = Snapshot
    BY <2>2 DEF Snapshot, Live, AliasesOf
  <2>5. filler = u /\ \A v \in Users : v # u => work[v].pc # "fill"
    BY <1>1, <2>2 DEF CacheInv
  <2>6. \A v \in Users : work'[v].pc # "fill"
    BY <2>1, <2>3, <2>5
  <2>7. work[u].list = Snapshot \/ Invalidating
    BY <1>1, <2>2 DEF CacheInv
  <2>8. Invalidating => Invalidating'
    BY <2>2, <2>3 DEF Invalidating
  <2>9. cache' \in [set : BOOLEAN, list : ReadLists]
    BY <1>1, <2>2 DEF Works
  <2>. QED
    BY <2>2, <2>3, <2>4, <2>6, <2>7, <2>8, <2>9, ProjectNamesAssumption DEF CacheInv
<1>7. CASE BindFound(u) \/ RollBack(u)
  BY <1>1, <1>7, CacheKept, IdleWorks DEF BindFound, RollBack, Committing
<1>8. CASE Invalidate(u)
  <2>1. /\ Become(u, Idle) /\ filler = NoProject /\ filler' = NoProject
        /\ cache' = [set |-> FALSE, list |-> <<>>]
    BY <1>8 DEF Invalidate, MayInvalidate
  <2>2. WorkInv' /\ work'[u] = Idle /\ \A v \in Users : v # u => work'[v] = work[v]
    BY <1>1, <2>1, Becomes, IdleWorks
  <2>3. \A v \in Users : work'[v].pc # "fill"
    BY <1>1, <2>1, <2>2, IdleWorks, ProjectNamesAssumption DEF CacheInv
  <2>4. cache' \in [set : BOOLEAN, list : ReadLists] /\ ~cache'.set
    BY <2>1 DEF ReadLists
  <2>. QED
    BY <2>1, <2>2, <2>3, <2>4, ProjectNamesAssumption DEF CacheInv
<1>. QED
  BY <1>2, <1>3, <1>4, <1>5, <1>6, <1>7, <1>8

-------------------------------------------------------------------------------
(* The projects.                                                           *)

\* Some suffix of a name is free, for there are more of them than other projects.
LEMMA FreeSlugFree ==
    ASSUME RowsInv, NEW p \in Projects, p \notin Live, NEW n \in Names
    PROVE  FreeSlug(n) \in Slugs /\ \A q \in Live : project[q].slug # FreeSlug(n)
<1>. DEFINE N == Cardinality(Projects)
            free == {k \in 1 .. N : \A q \in Live : project[q].slug # <<n, k>>}
<1>1. N \in Nat /\ IsFiniteSet(1 .. N) /\ Cardinality(1 .. N) = N
  BY ProjectNamesAssumption, FS_CardinalityType, FS_Interval
<1>2. IsFiniteSet(Live) /\ Cardinality(Live) \in Nat /\ Cardinality(Live) < N
  <2>1. Live \in SUBSET (Projects \ {p})
    BY DEF Live
  <2>2. IsFiniteSet(Projects \ {p}) /\ Cardinality(Projects \ {p}) = N - 1
    BY ProjectNamesAssumption, FS_RemoveElement
  <2>3. IsFiniteSet(Live) /\ Cardinality(Live) <= Cardinality(Projects \ {p})
    BY <2>1, <2>2, FS_Subset
  <2>4. Cardinality(Live) \in Nat
    BY <2>3, FS_CardinalityType
  <2>. QED
    BY <1>1, <2>2, <2>3, <2>4
<1>3. free # {}
  <2>1. SUFFICES ASSUME free = {} PROVE FALSE
    OBVIOUS
  <2>. DEFINE holder == [k \in 1 .. N |-> CHOOSE q \in Live : project[q].slug = <<n, k>>]
  <2>2. \A k \in 1 .. N : holder[k] \in Live /\ project[holder[k]].slug = <<n, k>>
    BY <2>1
  <2>3. holder \in [1 .. N -> Live]
    BY <2>2
  <2>. HIDE DEF holder
  <2>4. \E j, k \in 1 .. N : j # k /\ holder[j] = holder[k]
    BY <1>1, <1>2, <2>3, FS_PigeonHole
  <2>. QED
    BY <2>2, <2>4
<1>4. free \in SUBSET Int /\ IsFiniteSet(free)
  BY <1>1, FS_Subset
<1>. HIDE DEF free
<1>5. \E k \in free : \A l \in free : k <= l
  BY <1>3, <1>4, LeastExists
<1>6. Min(free) \in free
  BY <1>5 DEF Min
<1>7. Min(free) \in 1 .. N /\ \A q \in Live : project[q].slug # <<n, Min(free)>>
  BY <1>6 DEF free
<1>8. FreeSlug(n) = <<n, Min(free)>>
  BY DEF FreeSlug, free
<1>. QED
  BY <1>7, <1>8 DEF Slugs

\* Projects stay what they are, and their counters do not go back.
RowsGrow == \A q \in Projects : project[q].row # "none" =>
    project'[q].row = project[q].row /\ project'[q].counter >= project[q].counter

LEMMA LiveGrows == ASSUME RowsGrow PROVE Live \subseteq Live'
BY DEF RowsGrow, Live

LEMMA RowsCreated ==
    ASSUME RowsInv, NEW p \in Projects \ {Inbox}, NEW n \in Names, CreateProjectTx(p, n)
    PROVE  RowsInv' /\ RowsGrow /\ p \in Live'
<1>. DEFINE row == [row |-> "stored", name |-> n, slug |-> FreeSlug(n), counter |-> 0]
<1>1. project[p].row = "none" /\ NameFree(n, p) /\ project' = [project EXCEPT ![p] = row]
  BY DEF CreateProjectTx
<1>2. p \notin Live
  BY <1>1 DEF Live
<1>3. FreeSlug(n) \in Slugs /\ \A q \in Live : project[q].slug # FreeSlug(n)
  BY <1>2, FreeSlugFree
<1>4. row \in ProjectRow
  BY <1>3, ProjectNamesAssumption DEF ProjectRow
<1>5. /\ project' \in [Projects -> ProjectRow] /\ project'[p] = row
      /\ \A q \in Projects : q # p => project'[q] = project[q]
  BY <1>1, <1>4 DEF RowsInv
<1>6. Live' = Live \cup {p}
  BY <1>5 DEF Live
<1>7. \A q \in Live : project[q].name # n
  BY <1>1, <1>2 DEF NameFree
<1>8. \A q, r \in Live' : q # r => project'[q].name # project'[r].name /\ project'[q].slug # project'[r].slug
  <2>1. \A q \in Live : q \in Projects /\ q # p
    BY <1>2 DEF Live
  <2>. QED
    BY <1>3, <1>5, <1>6, <1>7, <2>1 DEF RowsInv
<1>. QED
  <2>1. RowsInv'
    BY <1>5, <1>6, <1>8 DEF RowsInv
  <2>2. RowsGrow
    <3>1. \A q \in Projects : project[q].counter \in Nat
      BY ProjectNamesAssumption DEF RowsInv, ProjectRow
    <3>. QED
      BY <1>1, <1>5, <3>1 DEF RowsGrow
  <2>. QED
    BY <1>6, <2>1, <2>2

LEMMA RowsRenamed ==
    ASSUME RowsInv, NEW u, RenameProject(u)
    PROVE  RowsInv' /\ RowsGrow
<1>1. PICK p \in Live \ {Inbox}, n \in Names :
        \/ NameFree(n, p) /\ project' = [project EXCEPT ![p].name = n]
        \/ /\ \A q \in Live \ {p} : project[q].slug # <<n, 1>>
           /\ project' = [project EXCEPT ![p].slug = <<n, 1>>]
  BY DEF RenameProject
<1>2. p \in Projects /\ project[p] \in ProjectRow /\ project[p].row = "stored"
  BY DEF RowsInv, Live
<1>3. <<n, 1>> \in Slugs
  <2>1. Cardinality(Projects) \in Nat /\ Cardinality(Projects) # 0
    BY ProjectNamesAssumption, FS_CardinalityType, FS_EmptySet
  <2>. QED
    BY <2>1 DEF Slugs
<1>4. PICK row \in ProjectRow :
        /\ project' = [project EXCEPT ![p] = row]
        /\ row.row = project[p].row /\ row.counter = project[p].counter
        /\ \/ row.name = n /\ NameFree(n, p) /\ row.slug = project[p].slug
           \/ row.name = project[p].name /\ row.slug = <<n, 1>> /\ \A q \in Live \ {p} : project[q].slug # <<n, 1>>
  <2>1. CASE NameFree(n, p) /\ project' = [project EXCEPT ![p].name = n]
    <3>1. [project[p] EXCEPT !.name = n] \in ProjectRow
      BY <1>2 DEF ProjectRow
    <3>2. project' = [project EXCEPT ![p] = [project[p] EXCEPT !.name = n]]
      BY <2>1
    <3>3. /\ [project[p] EXCEPT !.name = n].row = project[p].row
          /\ [project[p] EXCEPT !.name = n].counter = project[p].counter
          /\ [project[p] EXCEPT !.name = n].name = n
          /\ [project[p] EXCEPT !.name = n].slug = project[p].slug
      BY <1>2 DEF ProjectRow
    <3>. QED
      BY <2>1, <3>1, <3>2, <3>3
  <2>2. CASE /\ \A q \in Live \ {p} : project[q].slug # <<n, 1>>
             /\ project' = [project EXCEPT ![p].slug = <<n, 1>>]
    <3>1. [project[p] EXCEPT !.slug = <<n, 1>>] \in ProjectRow
      BY <1>2, <1>3 DEF ProjectRow
    <3>2. project' = [project EXCEPT ![p] = [project[p] EXCEPT !.slug = <<n, 1>>]]
      BY <2>2
    <3>3. /\ [project[p] EXCEPT !.slug = <<n, 1>>].row = project[p].row
          /\ [project[p] EXCEPT !.slug = <<n, 1>>].counter = project[p].counter
          /\ [project[p] EXCEPT !.slug = <<n, 1>>].name = project[p].name
          /\ [project[p] EXCEPT !.slug = <<n, 1>>].slug = <<n, 1>>
      BY <1>2 DEF ProjectRow
    <3>. QED
      BY <2>2, <3>1, <3>2, <3>3
  <2>. QED
    BY <1>1, <2>1, <2>2
<1>5. /\ project' \in [Projects -> ProjectRow] /\ project'[p] = row
      /\ \A q \in Projects : q # p => project'[q] = project[q]
  BY <1>2, <1>4 DEF RowsInv
<1>6. Live' = Live /\ \A q \in Live : q \in Projects
  BY <1>4, <1>5 DEF Live
<1>7. RowsGrow
  BY <1>4, <1>5, ProjectNamesAssumption DEF RowsGrow, ProjectRow, RowsInv
<1>8. ASSUME NEW q \in Live, q # p
      PROVE  project'[q].name # row.name /\ project'[q].slug # row.slug
  BY <1>1, <1>4, <1>5, <1>6, <1>8 DEF NameFree, RowsInv
<1>9. \A q, r \in Live : q # r => project'[q].name # project'[r].name /\ project'[q].slug # project'[r].slug
  BY <1>5, <1>6, <1>8 DEF RowsInv
<1>. QED
  BY <1>5, <1>6, <1>7, <1>9 DEF RowsInv

\* A counter advances.
LEMMA CountedRow ==
    ASSUME RowsInv, NEW p \in Live, NEW k \in Nat, project[p].counter + k <= MaxNumber
    PROVE  /\ Counted(p, k) \in [Projects -> ProjectRow]
           /\ Counted(p, k)[p].counter = project[p].counter + k
           /\ Counted(p, k)[p].row = project[p].row
           /\ Counted(p, k)[p].name = project[p].name /\ Counted(p, k)[p].slug = project[p].slug
           /\ \A q \in Projects : q # p => Counted(p, k)[q] = project[q]
<1>1. p \in Projects /\ project[p] \in ProjectRow /\ project \in [Projects -> ProjectRow]
  BY DEF RowsInv, Live
<1>. DEFINE row == [project[p] EXCEPT !.counter = @ + k]
<1>2. row \in ProjectRow /\ row.counter = project[p].counter + k /\ row.row = project[p].row
      /\ row.name = project[p].name /\ row.slug = project[p].slug
  BY <1>1, ProjectNamesAssumption DEF ProjectRow
<1>3. Counted(p, k) = [project EXCEPT ![p] = row]
  BY DEF Counted
<1>. HIDE DEF row
<1>. QED
  BY <1>1, <1>2, <1>3

LEMMA RowsCounted ==
    ASSUME RowsInv, NEW p \in Live, NEW k \in Nat, project[p].counter + k <= MaxNumber,
           project' = Counted(p, k)
    PROVE  RowsInv' /\ RowsGrow /\ project'[p].counter = project[p].counter + k
<1>1. /\ project' \in [Projects -> ProjectRow]
      /\ project'[p].counter = project[p].counter + k
      /\ project'[p].row = project[p].row /\ project'[p].name = project[p].name /\ project'[p].slug = project[p].slug
      /\ \A q \in Projects : q # p => project'[q] = project[q]
  BY CountedRow
<1>2. Live' = Live
  BY <1>1 DEF Live
<1>3. \A q \in Live : project'[q].name = project[q].name /\ project'[q].slug = project[q].slug
  BY <1>1 DEF Live
<1>4. RowsInv'
  BY <1>1, <1>2, <1>3 DEF RowsInv
<1>5. \A q \in Projects : project[q].counter \in Nat
  BY ProjectNamesAssumption DEF RowsInv, ProjectRow
<1>6. RowsGrow
  BY <1>1, <1>5 DEF RowsGrow
<1>. QED
  BY <1>1, <1>4, <1>6

-------------------------------------------------------------------------------
(* What belongs to a project.                                              *)

LEMMA BelongGrows ==
    ASSUME BelongInv, RowsGrow
    PROVE  /\ alias \in [Names -> Live' \cup {NoProject}]
           /\ binding \in [Channels -> Live' \cup {NoProject}]
           /\ task \in [Tasks -> [project : Live' \cup {NoProject}, number : 0 .. MaxNumber]]
<1>1. Live \subseteq Live'
  BY LiveGrows
<1>. QED
  BY <1>1 DEF BelongInv

\* Nothing is numbered.
LEMMA NumbersKept ==
    ASSUME RowsInv, BelongInv, NumbersInv, RowsInv', RowsGrow, UNCHANGED <<task, given>>
    PROVE  NumbersInv'
<1>1. \A q \in Projects : project[q].counter \in Nat /\ project'[q].counter \in Nat
  BY ProjectNamesAssumption DEF RowsInv, ProjectRow
<1>2. ASSUME NEW t \in Tasks, task[t].project # NoProject
      PROVE  task[t].number \in 1 .. project'[task[t].project].counter
  <2>1. task[t].project \in Live
    BY <1>2 DEF BelongInv
  <2>2. task[t].project \in Projects /\ project'[task[t].project].counter >= project[task[t].project].counter
    BY <2>1 DEF Live, RowsGrow
  <2>3. task[t].number \in 1 .. project[task[t].project].counter
    BY <1>2 DEF NumbersInv
  <2>. QED
    BY <1>1, <2>2, <2>3
<1>3. ASSUME NEW p \in Projects, NEW n \in 1 .. MaxNumber, Counts(p, n) PROVE Counts(p, n)'
  BY <1>1, <1>3 DEF Counts, RowsGrow
<1>. QED
  BY <1>2, <1>3 DEF NumbersInv

\* A task gets the next number of a project.
LEMMA NumberGiven ==
    ASSUME RowsInv, BelongInv, NumbersInv, NEW t \in Tasks, NEW p \in Live,
           project[p].counter + 1 <= MaxNumber,
           project' = Counted(p, 1), Number(t, p, project[p].counter + 1),
           given' = [given EXCEPT ![<<p, project[p].counter + 1>>] = @ + 1]
    PROVE  /\ RowsInv' /\ RowsGrow /\ NumbersInv'
           /\ task' \in [Tasks -> [project : Live' \cup {NoProject}, number : 0 .. MaxNumber]]
<1>. DEFINE n == project[p].counter + 1
<1>1. RowsInv' /\ RowsGrow /\ project'[p].counter = n
  BY RowsCounted
<1>2. \A q \in Projects : project[q].counter \in Nat /\ project'[q].counter \in Nat
  BY <1>1, ProjectNamesAssumption DEF RowsInv, ProjectRow
<1>3. p \in Projects /\ p # NoProject /\ project[p].row = "stored" /\ n \in 1 .. MaxNumber
      /\ p \in Live'
  BY <1>1, <1>2, LiveGrows, ProjectNamesAssumption DEF Live
<1>4. task' = [task EXCEPT ![t] = [project |-> p, number |-> n]]
  BY DEF Number
<1>5. task' \in [Tasks -> [project : Live' \cup {NoProject}, number : 0 .. MaxNumber]]
  BY <1>1, <1>3, <1>4, BelongGrows
<1>6. /\ task'[t].project = p /\ task'[t].number = n
      /\ \A o \in Tasks : o # t => task'[o] = task[o]
  BY <1>4 DEF BelongInv
<1>7. ASSUME NEW o \in Tasks, task[o].project # NoProject
      PROVE  /\ task[o].number \in 1 .. project[task[o].project].counter
             /\ task[o].project \in Projects
             /\ project'[task[o].project].counter >= project[task[o].project].counter
  BY <1>1, <1>7 DEF NumbersInv, BelongInv, Live, RowsGrow
<1>8. \A o \in Tasks : task'[o].project # NoProject => task'[o].number \in 1 .. project'[task'[o].project].counter
  BY <1>1, <1>2, <1>3, <1>6, <1>7
<1>9. ASSUME NEW o \in Tasks, o # t, task[o].project = p PROVE task[o].number # n
  BY <1>2, <1>3, <1>7, <1>9
<1>10. \A o, r \in Tasks : o # r /\ task'[o].project = task'[r].project /\ task'[o].project # NoProject =>
          task'[o].number # task'[r].number
  BY <1>6, <1>9 DEF NumbersInv
<1>11. given' \in [Projects \X (1 .. MaxNumber) -> Nat]
  BY <1>3 DEF NumbersInv
<1>12. ASSUME NEW q \in Projects, NEW m \in 1 .. MaxNumber
       PROVE  given'[<<q, m>>] <= 1 /\ (given'[<<q, m>>] # 0 => Counts(q, m)')
  <2>1. CASE q = p /\ m = n
    <3>1. given[<<p, n>>] = 0
      <4>1. ~Counts(p, n)
        BY <1>2, <1>3 DEF Counts
      <4>. QED
        BY <1>3, <4>1 DEF NumbersInv
    <3>2. given'[<<q, m>>] = 1
      BY <1>3, <2>1, <3>1 DEF NumbersInv
    <3>3. m = project'[q].counter /\ project'[q].row = "stored"
      BY <1>1, <1>3, <2>1 DEF RowsGrow
    <3>4. Counts(q, m)'
      BY <1>2, <3>3 DEF Counts
    <3>. QED
      BY <3>2, <3>4
  <2>2. CASE ~(q = p /\ m = n)
    <3>1. given'[<<q, m>>] = given[<<q, m>>]
      BY <1>3, <2>2 DEF NumbersInv
    <3>2. Counts(q, m) => Counts(q, m)'
      BY <1>1, <1>2 DEF Counts, RowsGrow
    <3>. QED
      BY <3>1, <3>2 DEF NumbersInv
  <2>. QED
    BY <2>1, <2>2
<1>13. NumbersInv'
  BY <1>8, <1>10, <1>11, <1>12 DEF NumbersInv
<1>. QED
  BY <1>1, <1>5, <1>13

-------------------------------------------------------------------------------
(* The deletion of a project.                                              *)

\* The tasks of a project take places of their own among them.
LEMMA PlacesDistinct ==
    ASSUME BelongInv, NumbersInv, RowsInv, NEW p \in Live
    PROVE  /\ IsFiniteSet(Moved(p)) /\ Cardinality(Moved(p)) \in Nat
           /\ \A t \in Moved(p) : Place(t) \in 1 .. Cardinality(Moved(p))
           /\ \A t, o \in Moved(p) : t # o => Place(t) # Place(o)
<1>. DEFINE upTo(t) == {o \in Moved(p) : task[o].number <= task[t].number}
<1>1. IsFiniteSet(Moved(p)) /\ Cardinality(Moved(p)) \in Nat
  <2>1. Moved(p) \in SUBSET Tasks
    BY DEF Moved
  <2>. QED
    BY <2>1, ProjectNamesAssumption, FS_Subset, FS_CardinalityType
<1>2. \A t \in Moved(p) : t \in Tasks /\ task[t].number \in Nat /\ Place(t) = Cardinality(upTo(t))
  <2>1. ASSUME NEW t \in Moved(p) PROVE t \in Tasks /\ task[t].project = p
    BY DEF Moved
  <2>2. ASSUME NEW t \in Moved(p) PROVE task[t].number \in Nat
    <3>1. task[t].number \in 0 .. MaxNumber
      BY <2>1 DEF BelongInv
    <3>. QED
      BY <3>1, ProjectNamesAssumption
  <2>3. ASSUME NEW t \in Moved(p) PROVE Place(t) = Cardinality(upTo(t))
    BY <2>1 DEF Place
  <2>. QED
    BY <2>1, <2>2, <2>3
<1>3. ASSUME NEW t \in Moved(p)
      PROVE  /\ IsFiniteSet(upTo(t)) /\ Cardinality(upTo(t)) \in 1 .. Cardinality(Moved(p))
  <2>1. IsFiniteSet(upTo(t)) /\ Cardinality(upTo(t)) <= Cardinality(Moved(p))
    BY <1>1, FS_Subset
  <2>2. t \in upTo(t)
    <3>1. task[t].number \in Nat
      BY <1>2
    <3>2. task[t].number <= task[t].number
      BY <3>1
    <3>. QED
      BY <3>2
  <2>3. Cardinality(upTo(t)) \in Nat /\ Cardinality(upTo(t)) # 0
    BY <2>1, <2>2, FS_EmptySet, FS_CardinalityType
  <2>. QED
    BY <1>1, <2>1, <2>3
<1>4. ASSUME NEW t \in Moved(p), NEW o \in Moved(p), task[t].number < task[o].number
      PROVE  Cardinality(upTo(t)) # Cardinality(upTo(o))
  <2>1. upTo(t) \in SUBSET upTo(o) /\ o \in upTo(o) /\ o \notin upTo(t)
    <3>1. task[t].number \in Nat /\ task[o].number \in Nat
      BY <1>2
    <3>2. task[o].number <= task[o].number /\ ~(task[o].number <= task[t].number)
      BY <1>4, <3>1
    <3>3. ASSUME NEW x \in upTo(t) PROVE x \in upTo(o)
      <4>1. task[x].number \in Nat /\ task[x].number <= task[t].number
        BY <1>2
      <4>2. task[x].number <= task[o].number
        BY <1>4, <3>1, <4>1
      <4>. QED
        BY <4>2
    <3>. QED
      BY <3>2, <3>3
  <2>. QED
    BY <1>3, <2>1, FS_Subset
<1>5. ASSUME NEW t \in Moved(p), NEW o \in Moved(p), t # o
      PROVE  Place(t) # Place(o)
  <2>1. task[t].number # task[o].number
    BY <1>5, ProjectNamesAssumption DEF Moved, NumbersInv, Live
  <2>2. task[t].number < task[o].number \/ task[o].number < task[t].number
    <3>1. task[t].number \in Nat /\ task[o].number \in Nat
      BY <1>2
    <3>. QED
      BY <2>1, <3>1
  <2>. QED
    BY <1>2, <1>4, <2>2
<1>. QED
  BY <1>1, <1>2, <1>3, <1>5

LEMMA RowsDeleted ==
    ASSUME RowsInv, NEW p \in Live \ {Inbox}, NEW k \in Nat, project[Inbox].counter + k <= MaxNumber,
           project' = [Counted(Inbox, k) EXCEPT ![p] = [NoRow EXCEPT !.row = "deleted"]]
    PROVE  /\ RowsInv' /\ Live' = Live \ {p}
           /\ project'[p].row = "deleted"
           /\ project'[Inbox].row = "stored" /\ project'[Inbox].counter = project[Inbox].counter + k
           /\ \A q \in Projects \ {p, Inbox} : project'[q] = project[q]
<1>. DEFINE gone == [NoRow EXCEPT !.row = "deleted"]
<1>1. gone \in ProjectRow /\ gone.row = "deleted"
  BY ProjectNamesAssumption DEF NoRow, ProjectRow
<1>2. Inbox \in Live /\ p \in Projects /\ p # Inbox /\ Inbox \in Projects
  BY DEF RowsInv, Live
<1>3. /\ Counted(Inbox, k) \in [Projects -> ProjectRow]
      /\ Counted(Inbox, k)[Inbox].counter = project[Inbox].counter + k
      /\ Counted(Inbox, k)[Inbox].row = project[Inbox].row
      /\ Counted(Inbox, k)[Inbox].name = project[Inbox].name
      /\ Counted(Inbox, k)[Inbox].slug = project[Inbox].slug
      /\ \A q \in Projects : q # Inbox => Counted(Inbox, k)[q] = project[q]
  BY <1>2, CountedRow
<1>. HIDE DEF gone
<1>4. /\ project' \in [Projects -> ProjectRow] /\ project'[p] = gone
      /\ \A q \in Projects : q # p => project'[q] = Counted(Inbox, k)[q]
  BY <1>1, <1>2, <1>3 DEF gone
<1>5. Live' = Live \ {p}
  BY <1>1, <1>2, <1>3, <1>4 DEF Live
<1>6. \A q \in Live' : project'[q].name = project[q].name /\ project'[q].slug = project[q].slug
  BY <1>2, <1>3, <1>4, <1>5 DEF Live
<1>7. RowsInv'
  BY <1>2, <1>4, <1>5, <1>6 DEF RowsInv
<1>8. project[Inbox].row = "stored"
  BY <1>2 DEF Live
<1>. QED
  BY <1>1, <1>2, <1>3, <1>4, <1>5, <1>7, <1>8

LEMMA DeleteStep ==
    ASSUME RowsInv, BelongInv, NumbersInv, NEW u, DeleteProject(u)
    PROVE  RowsInv' /\ BelongInv' /\ NumbersInv'
<1>1. PICK p \in Live \ {Inbox} :
        /\ project[Inbox].counter + Cardinality(Moved(p)) <= MaxNumber
        /\ project' = [Counted(Inbox, Cardinality(Moved(p))) EXCEPT ![p] = [NoRow EXCEPT !.row = "deleted"]]
        /\ task' = [t \in Tasks |-> IF t \in Moved(p) THEN [project |-> Inbox, number |-> InboxNumber(t)]
                                     ELSE task[t]]
        /\ given' = [g \in DOMAIN given |->
                        given[g] + Cardinality({t \in Moved(p) : g = <<Inbox, InboxNumber(t)>>})]
        /\ binding' = [c \in Channels |-> IF binding[c] = p THEN NoProject ELSE binding[c]]
        /\ alias' = [a \in Names |-> IF alias[a] = p THEN NoProject ELSE alias[a]]
  BY DEF DeleteProject
<1>. DEFINE moved == Moved(p)
            k == Cardinality(Moved(p))
            c0 == project[Inbox].counter
<1>2. /\ IsFiniteSet(moved) /\ k \in Nat
      /\ \A t \in moved : Place(t) \in 1 .. k
      /\ \A t, o \in moved : t # o => Place(t) # Place(o)
  BY <1>1, PlacesDistinct
<1>3. /\ RowsInv' /\ Live' = Live \ {p} /\ project'[p].row = "deleted"
      /\ project'[Inbox].row = "stored" /\ project'[Inbox].counter = c0 + k
      /\ \A q \in Projects \ {p, Inbox} : project'[q] = project[q]
  BY <1>1, <1>2, RowsDeleted
<1>4. /\ c0 \in Nat /\ Inbox \in Live /\ Inbox \in Live' /\ Inbox \in Projects /\ Inbox # NoProject
      /\ p \in Projects /\ p # Inbox /\ p # NoProject
      /\ \A q \in Projects : project[q].counter \in Nat
  BY <1>1, <1>3, ProjectNamesAssumption DEF RowsInv, ProjectRow, Live
<1>5. \A t \in moved : InboxNumber(t) \in (c0 + 1) .. (c0 + k)
  <2>1. ASSUME NEW t \in moved PROVE InboxNumber(t) \in (c0 + 1) .. (c0 + k)
    <3>1. Place(t) \in 1 .. k /\ InboxNumber(t) = c0 + Place(t)
      BY <1>2 DEF InboxNumber
    <3>. HIDE DEF c0, k
    <3>. QED
      BY <1>2, <1>4, <3>1
  <2>. QED
    BY <2>1
<1>6. \A t, o \in moved : t # o => InboxNumber(t) # InboxNumber(o)
  <2>1. ASSUME NEW t \in moved, NEW o \in moved, t # o PROVE InboxNumber(t) # InboxNumber(o)
    <3>1. Place(t) \in 1 .. k /\ Place(o) \in 1 .. k /\ Place(t) # Place(o)
      BY <1>2, <2>1
    <3>2. InboxNumber(t) = c0 + Place(t) /\ InboxNumber(o) = c0 + Place(o)
      BY DEF InboxNumber
    <3>. HIDE DEF c0, k
    <3>. QED
      BY <1>2, <1>4, <3>1, <3>2
  <2>. QED
    BY <2>1
<1>7. /\ \A t \in moved : task'[t].project = Inbox /\ task'[t].number = InboxNumber(t)
      /\ \A t \in Tasks : t \notin moved => task'[t] = task[t] /\ task[t].project # p
      /\ moved \subseteq Tasks
  BY <1>1 DEF Moved
<1>8. BelongInv'
  <2>1. alias' \in [Names -> Live' \cup {NoProject}] /\ \A a \in Names : alias'[a] # Inbox
    BY <1>1, <1>3, <1>4 DEF BelongInv
  <2>2. binding' \in [Channels -> Live' \cup {NoProject}]
    BY <1>1, <1>3 DEF BelongInv
  <2>3. task' \in [Tasks -> [project : Live' \cup {NoProject}, number : 0 .. MaxNumber]]
    <3>1. ASSUME NEW t \in Tasks PROVE task'[t] \in [project : Live' \cup {NoProject}, number : 0 .. MaxNumber]
      <4>1. CASE t \in moved
        <5>1. InboxNumber(t) \in 0 .. MaxNumber
          <6>1. InboxNumber(t) \in (c0 + 1) .. (c0 + k) /\ c0 + k <= MaxNumber
            BY <1>1, <1>5, <4>1
          <6>. HIDE DEF c0, k
          <6>. QED
            BY <1>2, <1>4, <6>1, ProjectNamesAssumption
        <5>. QED
          BY <1>1, <1>4, <4>1, <5>1
      <4>2. CASE t \notin moved
        BY <1>3, <1>7, <4>2 DEF BelongInv
      <4>. QED
        BY <4>1, <4>2
    <3>2. task' = [t \in Tasks |-> task'[t]]
      BY <1>1
    <3>. QED
      BY <3>1, <3>2
  <2>. QED
    BY <2>1, <2>2, <2>3 DEF BelongInv
<1>9. ASSUME NEW t \in Tasks, t \notin moved, task[t].project # NoProject
      PROVE  /\ task[t].number \in 1 .. project[task[t].project].counter
             /\ task[t].project \in Projects /\ task[t].project # p
  BY <1>7, <1>9 DEF NumbersInv, BelongInv, Live
<1>10. ASSUME NEW t \in Tasks, task'[t].project # NoProject
       PROVE  task'[t].number \in 1 .. project'[task'[t].project].counter
  <2>1. CASE t \in moved
    <3>1. InboxNumber(t) \in (c0 + 1) .. (c0 + k) /\ task'[t].number = InboxNumber(t)
          /\ project'[task'[t].project].counter = c0 + k
      BY <1>3, <1>5, <1>7, <2>1
    <3>. HIDE DEF c0, k
    <3>. QED
      BY <1>2, <1>4, <3>1
  <2>2. CASE t \notin moved /\ task[t].project = Inbox
    <3>1. task'[t].number \in 1 .. c0 /\ project'[task'[t].project].counter = c0 + k
      BY <1>3, <1>4, <1>7, <1>9, <2>2
    <3>. HIDE DEF c0, k
    <3>. QED
      BY <1>2, <1>4, <3>1
  <2>3. CASE t \notin moved /\ task[t].project # Inbox
    BY <1>3, <1>7, <1>9, <1>10, <2>3
  <2>. QED
    BY <2>1, <2>2, <2>3
<1>11. ASSUME NEW t \in Tasks, NEW o \in Tasks, t # o, task'[t].project = task'[o].project,
              task'[t].project # NoProject
       PROVE  task'[t].number # task'[o].number
  <2>0. ASSUME NEW x \in moved, NEW y \in Tasks, y \notin moved, task'[y].project = Inbox
        PROVE  task'[x].number # task'[y].number
    <3>1. task'[y].number \in 1 .. c0
      BY <1>4, <1>7, <1>9, <2>0
    <3>2. task'[x].number \in (c0 + 1) .. (c0 + k)
      BY <1>5, <1>7
    <3>. HIDE DEF c0, k
    <3>. QED
      BY <1>2, <1>4, <3>1, <3>2
  <2>1. CASE t \in moved /\ o \in moved
    BY <1>6, <1>7, <1>11, <2>1
  <2>2. CASE t \notin moved /\ o \notin moved
    BY <1>7, <1>11, <2>2 DEF NumbersInv
  <2>3. CASE t \in moved /\ o \notin moved
    BY <1>7, <1>11, <2>0, <2>3
  <2>4. CASE t \notin moved /\ o \in moved
    BY <1>7, <1>11, <2>0, <2>4
  <2>. QED
    BY <2>1, <2>2, <2>3, <2>4
<1>12. ASSUME NEW q \in Projects, NEW n \in 1 .. MaxNumber
       PROVE  /\ given'[<<q, n>>] \in Nat /\ given'[<<q, n>>] <= 1
              /\ given'[<<q, n>>] # 0 => Counts(q, n)'
  <2>. DEFINE these == {t \in moved : <<q, n>> = <<Inbox, InboxNumber(t)>>}
  <2>1. /\ given'[<<q, n>>] = given[<<q, n>>] + Cardinality(these)
        /\ given[<<q, n>>] \in Nat /\ given[<<q, n>>] <= 1
        /\ given[<<q, n>>] # 0 => Counts(q, n)
    BY <1>1 DEF NumbersInv
  <2>2. Counts(q, n) => Counts(q, n)'
    <3>1. CASE q = Inbox
      <4>1. project'[q].counter = c0 + k /\ project[q].counter = c0 /\ project[q].row = "stored"
            /\ project'[q].row = "stored"
        BY <1>3, <1>4, <3>1 DEF Live
      <4>. HIDE DEF c0, k
      <4>. QED
        BY <1>2, <1>4, <4>1 DEF Counts
    <3>2. CASE q # Inbox
      BY <1>3, <3>2 DEF Counts
    <3>. QED
      BY <3>1, <3>2
  <2>3. CASE these = {}
    BY <2>1, <2>2, <2>3, FS_EmptySet
  <2>4. CASE these # {}
    <3>1. PICK t \in moved : q = Inbox /\ n = InboxNumber(t)
      BY <2>4
    <3>2. these = {t}
      BY <1>6, <3>1
    <3>3. Cardinality(these) = 1
      BY <3>2, FS_Singleton
    <3>4. n \in (c0 + 1) .. (c0 + k)
      BY <1>5, <3>1
    <3>5. ~Counts(q, n)
      <4>1. project[q].row = "stored" /\ project[q].counter = c0
        BY <1>4, <3>1 DEF Live
      <4>. HIDE DEF c0, k
      <4>. QED
        BY <1>2, <1>4, <3>4, <4>1 DEF Counts
    <3>6. Counts(q, n)'
      <4>1. project'[q].row = "stored" /\ project'[q].counter = c0 + k
        BY <1>3, <3>1
      <4>. HIDE DEF c0, k
      <4>. QED
        BY <1>2, <1>4, <3>4, <4>1 DEF Counts
    <3>. QED
      BY <2>1, <3>3, <3>5, <3>6
  <2>. QED
    BY <2>3, <2>4
<1>13. given' \in [Projects \X (1 .. MaxNumber) -> Nat]
  <2>1. DOMAIN given = Projects \X (1 .. MaxNumber)
    BY DEF NumbersInv
  <2>2. ASSUME NEW g \in Projects \X (1 .. MaxNumber) PROVE given'[g] \in Nat
    <3>1. PICK q \in Projects, n \in 1 .. MaxNumber : g = <<q, n>>
      OBVIOUS
    <3>. QED
      BY <1>12, <3>1
  <2>3. given' = [g \in Projects \X (1 .. MaxNumber) |-> given'[g]]
    BY <1>1, <2>1
  <2>. QED
    BY <2>2, <2>3
<1>14. NumbersInv'
  BY <1>10, <1>11, <1>12, <1>13 DEF NumbersInv
<1>. QED
  BY <1>3, <1>8, <1>14

-------------------------------------------------------------------------------
(* The other transactions.                                                 *)

LEMMA TablesStep ==
    ASSUME ProjectsInv, NEW u \in Users,
           \/ CreateProject(u) \/ UpdateAliases(u) \/ RenameProject(u)
           \/ AddProjectAlias(u) \/ RemoveProjectAlias(u) \/ DeleteProject(u)
           \/ BindFound(u) \/ BindCreated(u) \/ CreateTask(u) \/ MoveTask(u)
    PROVE  RowsInv' /\ BelongInv' /\ NumbersInv'
<1>1. /\ WorkInv /\ RowsInv /\ BelongInv /\ NumbersInv /\ work[u] \in Works /\ Carries(work[u])
      /\ \A q \in Projects : project[q].counter \in Nat
  BY ProjectNamesAssumption DEF ProjectsInv, WorkInv, RowsInv, ProjectRow
<1>2. project' = project => RowsInv' /\ RowsGrow
  BY <1>1 DEF RowsInv, Live, RowsGrow
<1>3. CASE CreateProject(u)
  <2>1. PICK p \in Projects \ {Inbox}, op \in Ops(u, "create", {NoProject}, Names) :
          /\ CreateProjectTx(p, op.name)
          /\ alias' = [a \in Names |-> IF a \in op.wanted THEN p ELSE alias[a]]
    BY <1>3 DEF CreateProject
  <2>2. op.name \in Names
    <3>1. CASE op = work[u] /\ work[u].kind = "create"
      BY <1>1, <3>1 DEF Carries
    <3>2. ASSUME NEW q \in {NoProject}, NEW n \in Names, op = Op("create", q, n, {}) PROVE op.name \in Names
      BY <3>2 DEF Op
    <3>. QED
      BY <1>1, <3>1, <3>2, OpsWork
  <2>3. RowsInv' /\ RowsGrow /\ p \in Live' /\ p # Inbox
    BY <1>1, <2>1, <2>2, RowsCreated
  <2>4. alias' \in [Names -> Live' \cup {NoProject}] /\ \A a \in Names : alias'[a] # Inbox
    BY <1>1, <2>1, <2>3, BelongGrows DEF BelongInv
  <2>. QED
    BY <1>1, <1>3, <2>3, <2>4, BelongGrows, NumbersKept DEF CreateProject, BelongInv
<1>4. CASE UpdateAliases(u)
  <2>1. PICK op \in Ops(u, "update", Projects \ {Inbox}, {Inbox}) :
          /\ op.project \in Live
          /\ alias' = [a \in Names |-> IF a \in op.wanted THEN op.project
                                       ELSE IF alias[a] = op.project THEN NoProject ELSE alias[a]]
    BY <1>4 DEF UpdateAliases
  <2>2. op.project # Inbox
    <3>1. CASE op = work[u] /\ work[u].kind = "update"
      BY <1>1, <3>1 DEF Carries
    <3>2. ASSUME NEW q \in Projects \ {Inbox}, NEW n \in {Inbox}, op = Op("update", q, n, {}) PROVE op.project # Inbox
      BY <3>2 DEF Op
    <3>. QED
      BY <1>1, <3>1, <3>2, OpsWork
  <2>3. RowsInv' /\ RowsGrow /\ Live' = Live
    BY <1>2, <1>4 DEF UpdateAliases, Live
  <2>4. alias' \in [Names -> Live' \cup {NoProject}] /\ \A a \in Names : alias'[a] # Inbox
    BY <1>1, <2>1, <2>2, <2>3, ProjectNamesAssumption DEF BelongInv
  <2>. QED
    BY <1>1, <1>4, <2>3, <2>4, BelongGrows, NumbersKept DEF UpdateAliases, BelongInv
<1>5. CASE RenameProject(u)
  <2>1. RowsInv' /\ RowsGrow
    BY <1>1, <1>5, RowsRenamed
  <2>. QED
    BY <1>1, <1>5, <2>1, BelongGrows, NumbersKept DEF RenameProject, BelongInv
<1>6. CASE AddProjectAlias(u)
  <2>1. PICK a \in work[u].wanted :
          /\ work[u].kind = "addAlias" /\ work[u].project \in Live
          /\ alias' = [alias EXCEPT ![a] = work[u].project]
    BY <1>6 DEF AddProjectAlias, Committing
  <2>2. a \in Names /\ work[u].project # Inbox
    BY <1>1, <2>1 DEF Carries
  <2>3. RowsInv' /\ RowsGrow /\ Live' = Live
    BY <1>2, <1>6 DEF AddProjectAlias, Live
  <2>4. alias' \in [Names -> Live' \cup {NoProject}] /\ \A b \in Names : alias'[b] # Inbox
    BY <1>1, <2>1, <2>2, <2>3 DEF BelongInv
  <2>. QED
    BY <1>1, <1>6, <2>3, <2>4, BelongGrows, NumbersKept DEF AddProjectAlias, BelongInv
<1>7. CASE RemoveProjectAlias(u)
  <2>1. RowsInv' /\ RowsGrow /\ Live' = Live
    BY <1>2, <1>7 DEF RemoveProjectAlias, Live
  <2>2. alias' \in [Names -> Live' \cup {NoProject}] /\ \A b \in Names : alias'[b] # Inbox
    BY <1>1, <1>7, <2>1, ProjectNamesAssumption DEF BelongInv, RemoveProjectAlias
  <2>. QED
    BY <1>1, <1>7, <2>1, <2>2, BelongGrows, NumbersKept DEF RemoveProjectAlias, BelongInv
<1>8. CASE DeleteProject(u)
  BY <1>1, <1>8, DeleteStep
<1>9. CASE BindFound(u)
  <2>1. PICK c \in work[u].wanted :
          work[u].kind = "bind" /\ work[u].project \in Live /\ binding' = [binding EXCEPT ![c] = work[u].project]
    BY <1>9 DEF BindFound, FoundStill, Committing
  <2>2. RowsInv' /\ RowsGrow /\ Live' = Live
    BY <1>2, <1>9 DEF BindFound, Live
  <2>3. binding' \in [Channels -> Live' \cup {NoProject}]
    BY <1>1, <2>1, <2>2 DEF BelongInv
  <2>. QED
    BY <1>1, <1>9, <2>2, <2>3, BelongGrows, NumbersKept DEF BindFound, BelongInv
<1>10. CASE BindCreated(u)
  <2>1. PICK c \in work[u].wanted, p \in Projects \ {Inbox} :
          /\ work[u].kind = "bind"
          /\ CreateProjectTx(p, work[u].name)
          /\ binding' = [binding EXCEPT ![c] = p]
    BY <1>10 DEF BindCreated, Committing
  <2>2. work[u].name \in Names
    BY <1>1, <2>1 DEF Carries
  <2>3. RowsInv' /\ RowsGrow /\ p \in Live'
    BY <1>1, <2>1, <2>2, RowsCreated
  <2>4. binding' \in [Channels -> Live' \cup {NoProject}]
    BY <1>1, <2>1, <2>3, BelongGrows
  <2>. QED
    BY <1>1, <1>10, <2>3, <2>4, BelongGrows, NumbersKept DEF BindCreated, BelongInv
<1>11. ASSUME NEW t \in Tasks, NEW p \in Live, project[p].counter + 1 <= MaxNumber,
              project' = Counted(p, 1), Number(t, p, project[p].counter + 1),
              given' = [given EXCEPT ![<<p, project[p].counter + 1>>] = @ + 1],
              UNCHANGED <<alias, binding>>
       PROVE  RowsInv' /\ BelongInv' /\ NumbersInv'
  <2>1. /\ RowsInv' /\ RowsGrow /\ NumbersInv'
        /\ task' \in [Tasks -> [project : Live' \cup {NoProject}, number : 0 .. MaxNumber]]
    BY <1>1, <1>11, NumberGiven
  <2>. QED
    BY <1>1, <1>11, <2>1, BelongGrows DEF BelongInv
<1>12. CASE CreateTask(u)
  <2>1. PICK t \in work[u].wanted :
          LET p == work[u].project  n == project[p].counter + 1 IN
          /\ work[u].kind = "task" /\ p \in Live /\ n <= MaxNumber
          /\ project' = Counted(p, 1) /\ Number(t, p, n)
          /\ given' = [given EXCEPT ![<<p, n>>] = @ + 1]
          /\ UNCHANGED <<alias, binding>>
    BY <1>12 DEF CreateTask, Committing
  <2>2. t \in Tasks
    BY <1>1, <2>1 DEF Carries
  <2>. QED
    BY <1>11, <2>1, <2>2
<1>13. CASE MoveTask(u)
  BY <1>11, <1>13 DEF MoveTask
<1>. QED
  BY <1>3, <1>4, <1>5, <1>6, <1>7, <1>8, <1>9, <1>10, <1>12, <1>13

\* Reads leave the tables as they are.
LEMMA TablesRest ==
    ASSUME ProjectsInv, UNCHANGED <<project, alias, binding, task, given>>
    PROVE  RowsInv' /\ BelongInv' /\ NumbersInv'
<1>1. RowsInv /\ BelongInv /\ NumbersInv
  BY DEF ProjectsInv
<1>2. Live' = Live
  BY DEF Live
<1>3. RowsInv'
  BY <1>1, <1>2 DEF RowsInv
<1>4. BelongInv'
  BY <1>1, <1>2 DEF BelongInv
<1>5. NumbersInv'
  BY <1>1 DEF NumbersInv, Counts
<1>. QED
  BY <1>3, <1>4, <1>5

\* The inductive invariant of the projects: what operations carry, the cache and its lock, the
\* uniqueness of names and slugs, references, and numbers (projects.go, cached_task_store.go).
THEOREM ProjectsInvariant == ProjectsSpec => []ProjectsInv
<1>1. ProjectsInv /\ UNCHANGED projectsVars => ProjectsInv'
  <2>1. SUFFICES ASSUME ProjectsInv, UNCHANGED projectsVars PROVE ProjectsInv'
    OBVIOUS
  <2>2. RowsInv' /\ BelongInv' /\ NumbersInv'
    BY <2>1, TablesRest DEF projectsVars
  <2>3. WorkInv'
    BY <2>1 DEF projectsVars, ProjectsInv, WorkInv
  <2>4. Snapshot' = Snapshot /\ (Invalidating' <=> Invalidating)
    BY <2>1 DEF projectsVars, Snapshot, Live, AliasesOf, Invalidating
  <2>5. CacheInv'
    BY <2>1, <2>4 DEF projectsVars, ProjectsInv, CacheInv
  <2>. QED
    BY <2>2, <2>3, <2>5 DEF ProjectsInv
<1>2. ProjectsInv /\ ProjectsNext => ProjectsInv'
  <2>1. SUFFICES ASSUME ProjectsInv, NEW u \in Users,
                        \/ AskBind(u) \/ AskTask(u) \/ ListStore(u)
                        \/ \E op \in AliasOps : ListHit(u, op) \/ ListRead(u, op)
                        \/ CreateProject(u) \/ UpdateAliases(u) \/ RenameProject(u)
                        \/ AddProjectAlias(u) \/ RemoveProjectAlias(u) \/ DeleteProject(u)
                        \/ BindFound(u) \/ BindCreated(u) \/ CreateTask(u) \/ MoveTask(u)
                        \/ RollBack(u) \/ Invalidate(u)
                 PROVE  ProjectsInv'
    BY DEF ProjectsNext
  <2>2. WorkInv' /\ CacheInv'
    BY <2>1, ReadsStep, CommitsStep
  <2>3. ASSUME \/ AskBind(u) \/ AskTask(u) \/ ListStore(u)
               \/ \E op \in AliasOps : ListHit(u, op) \/ ListRead(u, op)
               \/ RollBack(u) \/ Invalidate(u)
        PROVE  UNCHANGED <<project, alias, binding, task, given>>
    BY <2>3 DEF AskBind, AskTask, ListStore, ListHit, ListRead, RollBack, Invalidate
  <2>4. RowsInv' /\ BelongInv' /\ NumbersInv'
    BY <2>1, <2>3, TablesRest, TablesStep
  <2>. QED
    BY <2>2, <2>4 DEF ProjectsInv
<1>. QED
  BY ProjectsInitInv, <1>1, <1>2, PTL DEF ProjectsSpec

\* The tables of the projects stay well typed, and no two projects have the same name or slug
\* (projects.go, createProjectTx and UpdateProject).
THEOREM ProjectsTyped == ProjectsSpec => []ProjectsTypeOK
<1>1. ASSUME ProjectsInv PROVE ProjectsTypeOK
  <2>1. WorkInv /\ CacheInv /\ RowsInv /\ BelongInv
    BY <1>1 DEF ProjectsInv
  <2>2. Live \subseteq Projects
    BY DEF Live
  <2>3. cache.set \in BOOLEAN /\ DOMAIN cache.list \subseteq Projects
    <3>1. DOMAIN <<>> = {}
      OBVIOUS
    <3>2. cache.set \in BOOLEAN /\ cache.list \in ReadLists
      BY <2>1 DEF CacheInv
    <3>. QED
      BY <3>1, <3>2 DEF ReadLists
  <2>4. \A u \in Users : work[u].pc \in {"idle", "fill", "tx", "invalidate"}
    BY <2>1 DEF WorkInv, Works
  <2>5. AliasesOf(Inbox) = {}
    BY <2>1 DEF BelongInv, AliasesOf
  <2>6. task \in [Tasks -> [project : Projects \cup {NoProject}, number : 0 .. MaxNumber]]
    BY <2>1, <2>2 DEF BelongInv
  <2>7. binding \in [Channels -> Projects \cup {NoProject}]
    BY <2>1, <2>2 DEF BelongInv
  <2>. QED
    BY <2>1, <2>3, <2>4, <2>5, <2>6, <2>7 DEF ProjectsTypeOK, RowsInv, BelongInv, CacheInv, ProjectRow
<1>. QED
  BY ProjectsInvariant, <1>1, PTL

\* The cached list differs from the tables only while an operation that has committed has yet to
\* invalidate it, whoever reads, stores and changes it in between (cached_task_store.go).
THEOREM CacheFollowsTables == ProjectsSpec => []CacheStaleOnlyBriefly
<1>1. ProjectsInv => CacheStaleOnlyBriefly
  BY DEF ProjectsInv, CacheInv, CacheStaleOnlyBriefly, Invalidating
<1>. QED
  BY ProjectsInvariant, <1>1, PTL

\* No channel and no task names a project that is gone, whatever was looked up before it was
\* deleted (projects.go, EnsureChannelProject; task_store.go, DeleteProjectTx).
THEOREM NoDanglingReferences == ProjectsSpec => []ReferencesLive
<1>1. ProjectsInv => ReferencesLive
  BY DEF ProjectsInv, BelongInv, ReferencesLive
<1>. QED
  BY ProjectsInvariant, <1>1, PTL

\* project#7 is one task, and a project gives no number twice, whatever is moved or deleted: while
\* the project lives and keeps its slug it is never another task (task_store.go, GetTaskByRef,
\* MoveTaskTx and DeleteProjectTx).
THEOREM ReferencesAreUnique == ProjectsSpec => []OneTaskPerReference
<1>1. ASSUME ProjectsInv PROVE OneTaskPerReference
  <2>1. RowsInv /\ BelongInv /\ NumbersInv
    BY <1>1 DEF ProjectsInv
  <2>2. ASSUME NEW g \in Projects \X (1 .. MaxNumber) PROVE given[g] <= 1
    <3>1. PICK q \in Projects, n \in 1 .. MaxNumber : g = <<q, n>>
      OBVIOUS
    <3>. QED
      BY <2>1, <3>1 DEF NumbersInv
  <2>3. ASSUME NEW t \in Tasks, NEW o \in Tasks, task[t].project # NoProject,
               task[o].project # NoProject, DisplayID(t) = DisplayID(o)
        PROVE  t = o
    <3>1. task[t].project \in Live /\ task[o].project \in Live
      BY <2>1, <2>3 DEF BelongInv
    <3>2. project[task[t].project].slug = project[task[o].project].slug /\ task[t].number = task[o].number
      BY <2>3 DEF DisplayID
    <3>3. task[t].project = task[o].project
      BY <2>1, <3>1, <3>2 DEF RowsInv
    <3>. QED
      BY <2>1, <2>3, <3>2, <3>3 DEF NumbersInv
  <2>. QED
    BY <2>1, <2>2, <2>3 DEF NumbersInv, OneTaskPerReference
<1>. QED
  BY ProjectsInvariant, <1>1, PTL
====
