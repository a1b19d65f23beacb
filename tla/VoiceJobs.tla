------------------------------- MODULE VoiceJobs --------------------------------
(***************************************************************************)
(* Voice messages of one device: the upload (internal/api/chat_voice.go),  *)
(* voice_queue, the worker (internal/transcribe/worker.go), the race of    *)
(* the agent's reply against an acknowledgement timer                      *)
(* (internal/usecase/client_voice_consumer.go) and the sweep of uploads.   *)
(* Transcripts, texts and task identifiers are left out, and so is the     *)
(* chat_reply event that ChatService.HandleMessage publishes with every    *)
(* reply of the agent, also with one that comes after a synthetic answer:  *)
(* what ends a voice message for the client is chat_message_created of the *)
(* agent, or voice_failed.                                                 *)
(***************************************************************************)
EXTENDS Naturals

CONSTANTS Voices,           \* jobs: their order is that of the queue's keys
          MaxVoiceAttempts,
          MaxVoiceFaults    \* bound on crashes and failed writes

ASSUME VoiceJobsAssumption == /\ Voices \subseteq Nat /\ MaxVoiceAttempts \in Nat \ {0}
                              /\ MaxVoiceFaults \in Nat

VARIABLES voice,        \* rows of voice_queue
          audio,        \* jobs whose file is in the uploads directory
          upload,       \* the handler of the upload
          worker,       \* what the worker is doing, and for which job
          agent,        \* the goroutine in ChatService.HandleMessage, per job
          armed,        \* ackTimer runs
          stream,       \* the device has an SSE stream open
          served,       \* this process has the HTTP interface, and a consumer for its jobs
          said,         \* auxiliary: transcripts, terminal signals, interruptions
          unpushed,     \* auxiliary: an event was recorded that is neither streamed nor pushed
          voiceFaults

voiceVars == <<voice, audio, upload, worker, agent, armed, stream, served, said,
              unpushed, voiceFaults>>

NoAgent == [pc |-> "none", touched |-> FALSE]

VoiceTypeOK ==
    /\ voice \in [Voices -> [row : {"none", "queued", "gone"}, attempts : 0 .. MaxVoiceAttempts - 1,
                             due : BOOLEAN]]
    /\ audio \subseteq Voices
    /\ upload \in [Voices -> {"none", "stored", "done"}]
    /\ worker \in [pc : {"idle", "claimed", "race", "retry", "fail", "complete"}, job : Voices \cup {0}]
    /\ worker.pc # "idle" => worker.job \in Voices
    /\ agent \in [Voices -> [pc : {"none", "running", "replied", "failed"}, touched : BOOLEAN]]
    /\ armed \in BOOLEAN /\ (armed => worker.pc = "race")
    /\ stream \in BOOLEAN /\ served \in BOOLEAN /\ unpushed \in BOOLEAN
    /\ said \in [Voices -> [heard : Nat, signals : Nat, cut : Nat, lost : BOOLEAN, dropped : BOOLEAN]]
    /\ voiceFaults \in 0 .. MaxVoiceFaults

VoiceInit ==
    /\ voice = [j \in Voices |-> [row |-> "none", attempts |-> 0, due |-> FALSE]]
    /\ audio = {}
    /\ upload = [j \in Voices |-> "none"]
    /\ worker = [pc |-> "idle", job |-> 0]
    /\ agent = [j \in Voices |-> NoAgent]
    /\ armed = FALSE /\ stream = FALSE /\ served = TRUE /\ unpushed = FALSE
    /\ said = [j \in Voices |-> [heard |-> 0, signals |-> 0, cut |-> 0, lost |-> FALSE, dropped |-> FALSE]]
    /\ voiceFaults = 0

VoiceFault == voiceFaults < MaxVoiceFaults /\ voiceFaults' = voiceFaults + 1
Go(pc) == worker' = [worker EXCEPT !.pc = pc]
On(j, pc) == worker.pc = pc /\ worker.job = j

-------------------------------------------------------------------------------
(* The upload and the sweep.                                               *)

\* The file is complete before it is renamed into the directory.
StoreAudio(j) ==
    /\ upload[j] = "none" /\ served
    /\ upload' = [upload EXCEPT ![j] = "stored"]
    /\ audio' = audio \cup {j}
    /\ UNCHANGED <<voice, worker, agent, armed, stream, served, said, unpushed, voiceFaults>>

EnqueueVoice(j) ==
    /\ upload[j] = "stored"
    /\ upload' = [upload EXCEPT ![j] = "done"]
    /\ voice' = [voice EXCEPT ![j] = [row |-> "queued", attempts |-> 0, due |-> TRUE]]
    /\ UNCHANGED <<audio, worker, agent, armed, stream, served, said, unpushed, voiceFaults>>

\* The deferred cleanup of the handler removes the file of a job that is not queued.
EnqueueVoiceFails(j) ==
    /\ upload[j] = "stored" /\ VoiceFault
    /\ upload' = [upload EXCEPT ![j] = "done"]
    /\ audio' = audio \ {j}
    /\ UNCHANGED <<voice, worker, agent, armed, stream, served, said, unpushed>>

\* A file older than a day is removed unless its job is queued, which it may be for longer.
AlwaysOrphan(j) == TRUE
Orphan(j) == voice[j].row # "queued"

SweepOrphan(j) ==
    /\ j \in audio /\ upload[j] = "done" /\ Orphan(j)
    /\ audio' = audio \ {j}
    /\ UNCHANGED <<voice, upload, worker, agent, armed, stream, served, said, unpushed, voiceFaults>>

-------------------------------------------------------------------------------
(* The worker.                                                             *)

ClaimVoice(j) ==
    /\ worker.pc = "idle"
    /\ voice[j].row = "queued" /\ voice[j].due
    /\ \A i \in Voices : voice[i].row = "queued" /\ voice[i].due => j <= i
    /\ worker' = [pc |-> "claimed", job |-> j]
    /\ UNCHANGED <<voice, audio, upload, agent, armed, stream, served, said, unpushed, voiceFaults>>

\* A job left over by a process that had the interface: without a downloader or a consumer it
\* is completed, and nobody is told.
DropUnserved(j) ==
    /\ On(j, "claimed") /\ ~served
    /\ Go("complete")
    /\ said' = [said EXCEPT ![j].dropped = TRUE]
    /\ UNCHANGED <<voice, audio, upload, agent, armed, stream, served, unpushed, voiceFaults>>

\* A download without its file, a failing transcription or the first transaction of Consume.
TranscribeFails(j) ==
    /\ On(j, "claimed") /\ served
    /\ Go("retry")
    /\ UNCHANGED <<voice, audio, upload, agent, armed, stream, served, said, unpushed, voiceFaults>>

\* An unsupported format, or silence.
TranscriptUseless(j) ==
    /\ On(j, "claimed") /\ served /\ j \in audio
    /\ Go("fail")
    /\ UNCHANGED <<voice, audio, upload, agent, armed, stream, served, said, unpushed, voiceFaults>>

\* The transcript is committed to the history, then the agent starts and the consumer
\* subscribes to the events of the device.
Consume(j) ==
    /\ On(j, "claimed") /\ served /\ j \in audio
    /\ Go("race")
    /\ agent' = [agent EXCEPT ![j] = [pc |-> "running", touched |-> FALSE]]
    /\ said' = [said EXCEPT ![j].heard = @ + 1]
    /\ UNCHANGED <<voice, audio, upload, armed, stream, served, unpushed, voiceFaults>>

\* rescheduleOrDrop; a reschedule that fails drops the job, too.
LastAttempt(j) == voice[j].attempts + 1 >= MaxVoiceAttempts

AttemptNotCounted(n) == n
NextAttempts(n) == n + 1

RescheduleVoice(j) ==
    /\ On(j, "retry") /\ ~LastAttempt(j)
    /\ voice' = [voice EXCEPT ![j] = [voice[j] EXCEPT !.attempts = NextAttempts(@), !.due = FALSE]]
    /\ Go("idle")
    /\ UNCHANGED <<audio, upload, agent, armed, stream, served, said, unpushed, voiceFaults>>

DroppedSilently == "complete"
Dropped == "fail"

DropVoice(j) ==
    /\ On(j, "retry")
    /\ IF LastAttempt(j) THEN UNCHANGED voiceFaults ELSE VoiceFault
    /\ Go(Dropped)
    /\ UNCHANGED <<voice, audio, upload, agent, armed, stream, served, said, unpushed>>

VoiceBackoffElapses(j) ==
    /\ voice[j].row = "queued" /\ ~voice[j].due
    /\ voice' = [voice EXCEPT ![j].due = TRUE]
    /\ UNCHANGED <<audio, upload, worker, agent, armed, stream, served, said, unpushed, voiceFaults>>

\* Fail stores voice_failed, or logs that it could not.
FailVoice(j) ==
    /\ On(j, "fail")
    /\ \/ said' = [said EXCEPT ![j].signals = @ + 1] /\ UNCHANGED voiceFaults
       \/ said' = [said EXCEPT ![j].lost = TRUE] /\ VoiceFault
    /\ Go("complete")
    /\ UNCHANGED <<voice, audio, upload, agent, armed, stream, served, unpushed>>

CompleteVoice(j) ==
    /\ On(j, "complete")
    /\ voice' = [voice EXCEPT ![j].row = "gone"]
    /\ Go("idle")
    /\ UNCHANGED <<audio, upload, agent, armed, stream, served, said, unpushed, voiceFaults>>

\* The row stays and is due: the next claim runs the job again.
CompleteVoiceFails(j) ==
    /\ On(j, "complete") /\ VoiceFault
    /\ Go("idle")
    /\ said' = [said EXCEPT ![j].cut = @ + 1]
    /\ UNCHANGED <<voice, audio, upload, agent, armed, stream, served, unpushed>>

-------------------------------------------------------------------------------
(* The agent and the race of its reply.                                    *)

\* Broker.IsActive of the device: a subscription of the consumer counts like a stream.
IsActive == stream \/ worker.pc = "race"

\* A task event is recorded, by the agent or from elsewhere: the transaction enqueues a
\* push unless the device is active.  The event arms the timer of a consumer that listens.
RecordTaskEvent ==
    /\ unpushed' = (unpushed \/ (IsActive /\ ~stream))
    /\ armed' \in {armed, worker.pc = "race"}

AgentTouches(j) ==
    /\ agent[j].pc = "running" /\ ~agent[j].touched
    /\ agent' = [agent EXCEPT ![j].touched = TRUE]
    /\ RecordTaskEvent
    /\ UNCHANGED <<voice, audio, upload, worker, stream, served, said, voiceFaults>>

ForeignTaskEvent ==
    /\ worker.pc = "race" /\ ~armed
    /\ RecordTaskEvent
    /\ UNCHANGED <<voice, audio, upload, worker, agent, stream, served, said, voiceFaults>>

AgentEnds(j) == \E end \in {"replied", "failed"} :
    /\ agent[j].pc = "running"
    /\ agent' = [agent EXCEPT ![j].pc = end]
    /\ UNCHANGED <<voice, audio, upload, worker, armed, stream, served, said, unpushed, voiceFaults>>

LeaveRace(pc) == Go(pc) /\ armed' = FALSE

\* emitAgentReply, whose failure becomes voice_failed.
RacesOn == "race"
AfterReply == "complete"

EmitReply(j) ==
    \/ /\ LeaveRace(AfterReply)
       /\ said' = [said EXCEPT ![j].signals = @ + 1]
       /\ UNCHANGED voiceFaults
    \/ LeaveRace("fail") /\ VoiceFault /\ UNCHANGED said

GiveUp == LeaveRace("fail") /\ UNCHANGED <<said, voiceFaults>>

\* An empty reply is an answer only if tasks were touched.
TakeReply(j) ==
    /\ On(j, "race") /\ agent[j].pc = "replied"
    /\ EmitReply(j) \/ (~agent[j].touched /\ GiveUp)
    /\ UNCHANGED <<voice, audio, upload, agent, stream, served, unpushed>>

AfterError == "fail"

TakeError(j) ==
    /\ On(j, "race") /\ agent[j].pc = "failed"
    /\ LeaveRace(AfterError)
    /\ UNCHANGED <<voice, audio, upload, agent, stream, served, said, unpushed, voiceFaults>>

\* The timer answers in the agent's place, once the agent has touched a task.
AckTimer(j) ==
    /\ On(j, "race") /\ armed
    /\ \/ agent[j].touched /\ EmitReply(j)
       \/ ~agent[j].touched /\ armed' = FALSE /\ UNCHANGED <<worker, said, voiceFaults>>
    /\ UNCHANGED <<voice, audio, upload, agent, stream, served, unpushed>>

\* The agent is not stopped: it may touch tasks after the job has ended.
HardDeadline(j) ==
    /\ On(j, "race")
    /\ IF agent[j].touched THEN EmitReply(j) ELSE GiveUp
    /\ UNCHANGED <<voice, audio, upload, agent, stream, served, unpushed>>

-------------------------------------------------------------------------------
(* The rest of the world.                                                  *)

ToggleStream ==
    /\ served
    /\ stream' = ~stream
    /\ UNCHANGED <<voice, audio, upload, worker, agent, armed, served, said, unpushed, voiceFaults>>

\* A stop or a crash: with the context cancelled nothing more is written, so the claimed
\* job stays queued and due, with the attempts it had.  The next process may be configured
\* without the interface.
VoiceCrash ==
    /\ VoiceFault
    /\ worker' = [worker EXCEPT !.pc = "idle"]
    /\ said' = [j \in Voices |-> IF worker.pc # "idle" /\ worker.job = j
                                 THEN [said[j] EXCEPT !.cut = @ + 1] ELSE said[j]]
    /\ agent' = [j \in Voices |-> NoAgent]
    /\ upload' = [j \in Voices |-> IF upload[j] = "stored" THEN "done" ELSE upload[j]]
    /\ armed' = FALSE /\ stream' = FALSE /\ served' \in BOOLEAN
    /\ UNCHANGED <<voice, audio, unpushed>>

VoiceStep(j) ==
    \/ ClaimVoice(j) \/ DropUnserved(j) \/ TranscribeFails(j) \/ TranscriptUseless(j) \/ Consume(j)
    \/ RescheduleVoice(j) \/ DropVoice(j) \/ FailVoice(j) \/ CompleteVoice(j)
    \/ TakeReply(j) \/ TakeError(j) \/ AckTimer(j) \/ HardDeadline(j)

VoiceNext ==
    \/ \E j \in Voices :
        \/ StoreAudio(j) \/ EnqueueVoice(j) \/ EnqueueVoiceFails(j) \/ SweepOrphan(j)
        \/ VoiceStep(j) \/ CompleteVoiceFails(j) \/ VoiceBackoffElapses(j)
        \/ AgentTouches(j) \/ AgentEnds(j)
    \/ ForeignTaskEvent \/ ToggleStream \/ VoiceCrash

\* The worker's loop runs on, its timers fire and back-offs elapse.
VoiceFairness ==
    /\ WF_voiceVars(\E j \in Voices : VoiceStep(j))
    /\ \A j \in Voices : WF_voiceVars(HardDeadline(j)) /\ WF_voiceVars(VoiceBackoffElapses(j))

VoiceSpec == VoiceInit /\ [][VoiceNext]_voiceVars

-------------------------------------------------------------------------------
(* Properties.                                                             *)

\* A job leaves the queue only after the client has been told how it ended, by a reply or
\* by voice_failed; only a failure that cannot be stored is lost, and a job is dropped untold
\* only by a process that has no interface for its client.
EndIsSignalled == \A j \in Voices :
    voice[j].row = "gone" => said[j].signals > 0 \/ said[j].lost \/ said[j].dropped

\* However the reply, the timer, the deadline and an error race, a run of a job tells the
\* transcript and the end once each; only a run that was interrupted is told again.
SaidOncePerRun == \A j \in Voices :
    said[j].heard <= 1 + said[j].cut /\ said[j].signals <= 1 + said[j].cut

\* The audio of a queued job is there for its next attempt, also when the back-offs or an
\* outage last longer than the age at which the sweep removes files.
AudioKept == \A j \in Voices : voice[j].row = "queued" => j \in audio

\* An event that is recorded while the device has no stream open is pushed to it.
PushedWithoutStream == ~unpushed

\* A queued voice message is answered in the end, or its failure is reported.
VoiceEnds == \A j \in Voices : voice[j].row = "queued" ~> voice[j].row = "gone"
=============================================================================
