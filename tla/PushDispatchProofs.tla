-------------------------- MODULE PushDispatchProofs --------------------------
(***************************************************************************)
(* Proofs about PushDispatch: the relay holds the tokens of a device's row *)
(* whenever the last change of them ran alone, a delivered job was taken   *)
(* by a provider, a push is repeated only when the outcome of an attempt   *)
(* was lost, and a job that was decided stays decided, for any number of   *)
(* devices, handlers and jobs.                                             *)
(***************************************************************************)
EXTENDS PushDispatch, SelectionProofs, TLAPS

AskPcs    == {"idle", "posted", "sending", "refused", "answered"}
DispPcs   == {"idle", "event", "device", "wait", "clear", "settle"}

\* Records with the fields of a handler, a row and the dispatcher, whatever they hold.
IsAsk(r)  == r \in [pc : {r.pc}, dev : {r.dev}, req : {r.req}, token : {r.token},
                    waited : {r.waited}, status : {r.status}]
IsJob(r)  == r \in [state : {r.state}, dev : {r.dev}, pushable : {r.pushable}, attempts : {r.attempts}]
IsDisp(r) == r \in [pc : {r.pc}, batch : {r.batch}, ask : {r.ask}, verdict : {r.verdict}]

\* The tables and handlers have their shape.
PushShape ==
    /\ DeviceTypeOK
    /\ reg \in [Devices -> TokenPair]
    /\ DOMAIN ask = Asks
    /\ \A a \in Asks : IsAsk(ask[a]) /\ ask[a].pc \in AskPcs /\ ask[a].waited \in BOOLEAN
    /\ DOMAIN job = Jobs
    /\ \A j \in Jobs : IsJob(job[j])
    /\ IsDisp(disp)
    /\ disp.pc \in DispPcs

\* The request the dispatcher waits for is the only one anybody waits for, and is about the
\* job in hand.
AskInv ==
    /\ disp.pc \in {"wait", "clear"} =>
           /\ disp.ask \in Asks
           /\ ask[disp.ask].waited
           /\ ask[disp.ask].req = current
    /\ disp.pc = "clear" => ask[disp.ask].pc = "answered" /\ ask[disp.ask].status = "invalid_token"
    /\ \A a \in Asks :
           /\ ask[a].waited => disp.pc \in {"wait", "clear"} /\ disp.ask = a
           /\ ask[a].pc = "answered" => ask[a].waited /\ ask[a].status \in Statuses \ {"none"}
           /\ ask[a].pc = "idle" => ask[a] = NoAsk

\* Handlers that are idle have no device.
IdleInv ==
    /\ \A p \in Patches : IF patch[p].pc = "idle" THEN patch[p].dev = None ELSE patch[p].dev \in Devices
    /\ \A r \in Revokers : IF revoker[r].pc = "idle" THEN revoker[r].dev = None ELSE revoker[r].dev \in Devices

NoPatchOn(d)   == \A p \in Patches : patch[p].dev # d
NoRevokerOn(d) == \A r \in Revokers : revoker[r].dev # d
NoAskOn(d)     == \A a \in Asks : ask[a].dev # d

Refused(a) == ask[a].pc = "answered" /\ ask[a].status = "invalid_token"

\* A PATCH that runs alone is a PATCH of an active device, and sends the tokens of its row.
LonePatch(d) == \A p \in Patches : patch[p].dev = d =>
    /\ NoRevokerOn(d) /\ NoAskOn(d)
    /\ \A q \in Patches \ {p} : patch[q].dev # d
    /\ device[d].status = "active"
    /\ patch[p].pc = "relay" => patch[p].tokens = device[d].tokens

\* A revocation that runs alone tells the relay after it has changed the row.
LoneRevoker(d) == \A r \in Revokers : revoker[r].dev = d =>
    /\ NoPatchOn(d) /\ NoAskOn(d)
    /\ \A s \in Revokers \ {r} : revoker[s].dev # d
    /\ revoker[r].pc = "relay" => device[d].status # "active"

\* A push that runs alone began in step, and ends with both sides empty when its token is refused
\* and the relay could delete the registration.
LoneAsk(d) == \A a \in Asks : ask[a].dev = d =>
    /\ NoPatchOn(d) /\ NoRevokerOn(d)
    /\ \A b \in Asks \ {a} : ask[b].dev # d
    /\ ask[a].waited
    /\ device[d].status = "active"
    /\ reg[d] = IF Refused(a) THEN NoTokens ELSE Registered(d)

InStep(d) ==
    /\ LonePatch(d) /\ LoneRevoker(d) /\ LoneAsk(d)
    /\ ~Busy(d) => reg[d] = Registered(d)

StepInv == \A d \in Devices : settled[d] => InStep(d)

\* What an answer or a verdict says happened.
SentInv ==
    /\ accepted \in [Jobs -> Nat]
    /\ \A a \in Asks : ask[a].pc = "answered" /\ ask[a].status = "sent" /\ ask[a].req \in Jobs =>
           accepted[ask[a].req] > 0
    /\ disp.pc = "settle" /\ disp.verdict = "delivered" /\ current \in Jobs => accepted[current] > 0
    /\ DeliveredWasAccepted

PushInv == PushShape /\ AskInv /\ IdleInv /\ StepInv /\ SentInv

-------------------------------------------------------------------------------
(* What the steps are made of.                                             *)

\* Two fields of a record change and the others stay.
LEMMA AnsweredRecord ==
    ASSUME NEW r, IsAsk(r), NEW s, NEW q, q = [r EXCEPT !.pc = "answered", !.status = s]
    PROVE  /\ IsAsk(q) /\ q.pc = "answered" /\ q.status = s
           /\ q.dev = r.dev /\ q.req = r.req /\ q.waited = r.waited
BY DEF IsAsk

\* The answer of a handler changes that handler alone, and leaves its device or frees it.
LEMMA AnswerFrame ==
    ASSUME PushShape, NEW a \in Asks, NEW status \in Statuses \ {"none"}, ask' = Answered(a, status)
    PROVE  /\ DOMAIN ask' = Asks
           /\ \A b \in Asks \ {a} : ask'[b] = ask[b]
           /\ IF ask[a].waited
              THEN /\ IsAsk(ask'[a]) /\ ask'[a].pc = "answered" /\ ask'[a].status = status
                   /\ ask'[a].dev = ask[a].dev /\ ask'[a].req = ask[a].req
                   /\ ask'[a].waited = ask[a].waited
              ELSE ask'[a] = NoAsk
<1>1. IsAsk(ask[a]) /\ DOMAIN ask = Asks
  BY DEF PushShape
<1>2. CASE ask[a].waited
  <2>1. ask'[a] = [ask[a] EXCEPT !.pc = "answered", !.status = status]
    BY <1>1, <1>2 DEF Answered
  <2>2. DOMAIN ask' = Asks /\ \A b \in Asks \ {a} : ask'[b] = ask[b]
    BY <1>1, <1>2 DEF Answered
  <2>. QED
    BY <1>1, <1>2, <2>1, <2>2, AnsweredRecord
<1>3. CASE ~ask[a].waited
  BY <1>1, <1>3 DEF Answered
<1>. QED
  BY <1>2, <1>3

\* The same for a handler that goes on to the provider.
LEMMA SendingFrame ==
    ASSUME PushShape, NEW a \in Asks, NEW t,
           ask' = [ask EXCEPT ![a] = [ask[a] EXCEPT !.pc = "sending", !.token = t]]
    PROVE  /\ DOMAIN ask' = Asks
           /\ \A b \in Asks \ {a} : ask'[b] = ask[b]
           /\ IsAsk(ask'[a]) /\ ask'[a].pc = "sending"
           /\ ask'[a].dev = ask[a].dev /\ ask'[a].req = ask[a].req
           /\ ask'[a].waited = ask[a].waited /\ ask'[a].status = ask[a].status
<1>1. IsAsk(ask[a]) /\ DOMAIN ask = Asks
  BY DEF PushShape
<1>2. ask'[a] = [ask[a] EXCEPT !.pc = "sending", !.token = t]
  BY <1>1
<1>3. DOMAIN ask' = Asks /\ \A b \in Asks \ {a} : ask'[b] = ask[b]
  BY <1>1
<1>. QED
  BY <1>1, <1>2, <1>3 DEF IsAsk

\* A step of a relay handler: its own record moves on, and the registration of its device at most.
HandlerStep(a) ==
    /\ DOMAIN ask' = Asks
    /\ \A b \in Asks \ {a} : ask'[b] = ask[b]
    /\ IsAsk(ask'[a]) /\ ask'[a].pc \in AskPcs
    /\ \/ /\ ask'[a] = NoAsk
          /\ ~ask[a].waited
       \/ /\ ask'[a].dev = ask[a].dev /\ ask'[a].req = ask[a].req /\ ask'[a].waited = ask[a].waited
          /\ ask'[a].pc # "idle"
          /\ ask'[a].pc = "answered" => ask[a].waited /\ ask'[a].status \in Statuses \ {"none"}
    /\ \A d \in Devices : d # ask[a].dev => reg'[d] = reg[d]
    /\ reg' \in [Devices -> TokenPair]
    /\ ask[a].pc \notin {"idle", "answered"}
    /\ UNCHANGED <<device, patch, revoker, job, due, disp>>
    /\ UNCHANGED settled \/ Interrupts(ask[a].dev)

\* Whatever it does, a handler of the relay takes a HandlerStep.
LEMMA HandlerFrame ==
    ASSUME PushInv, NEW a \in Asks, RelayStep(a)
    PROVE  HandlerStep(a)
<1>. USE DEF PushInv, PushShape, IsAsk, AskPcs, HandlerStep, NoAsk, deviceVars, queueVars, auxVars
<1>0. \A d \in Devices : ([reg EXCEPT ![ask[a].dev] = NoTokens])[d] =
          IF d = ask[a].dev THEN NoTokens ELSE reg[d]
  OBVIOUS
<1>1. NoTokens \in TokenPair
  BY DEF NoTokens, TokenPair
<1>2. \A status \in Statuses \ {"none"} : ask' = Answered(a, status) /\ ask[a].pc # "idle" =>
          /\ DOMAIN ask' = Asks
          /\ \A b \in Asks \ {a} : ask'[b] = ask[b]
          /\ IsAsk(ask'[a]) /\ ask'[a].pc \in AskPcs
          /\ \/ ask'[a] = NoAsk /\ ~ask[a].waited
             \/ /\ ask'[a].dev = ask[a].dev /\ ask'[a].req = ask[a].req /\ ask'[a].waited = ask[a].waited
                /\ ask'[a].pc # "idle"
                /\ ask'[a].pc = "answered" => ask[a].waited /\ ask'[a].status \in Statuses \ {"none"}
  <2>. SUFFICES ASSUME NEW status \in Statuses \ {"none"}, ask' = Answered(a, status), ask[a].pc # "idle"
                PROVE  /\ DOMAIN ask' = Asks
                       /\ \A b \in Asks \ {a} : ask'[b] = ask[b]
                       /\ IsAsk(ask'[a]) /\ ask'[a].pc \in AskPcs
                       /\ \/ ask'[a] = NoAsk /\ ~ask[a].waited
                          \/ /\ ask'[a].dev = ask[a].dev /\ ask'[a].req = ask[a].req
                             /\ ask'[a].waited = ask[a].waited /\ ask'[a].pc # "idle"
                             /\ ask'[a].pc = "answered" => ask[a].waited /\ ask'[a].status \in Statuses \ {"none"}
    OBVIOUS
  <2>1. /\ DOMAIN ask' = Asks
        /\ \A b \in Asks \ {a} : ask'[b] = ask[b]
        /\ IF ask[a].waited
           THEN /\ IsAsk(ask'[a]) /\ ask'[a].pc = "answered" /\ ask'[a].status = status
                /\ ask'[a].dev = ask[a].dev /\ ask'[a].req = ask[a].req
                /\ ask'[a].waited = ask[a].waited
           ELSE ask'[a] = NoAsk
    BY AnswerFrame
  <2>2. CASE ask[a].waited
    BY <2>1, <2>2
  <2>3. CASE ~ask[a].waited
    BY <2>1, <2>3
  <2>. QED
    BY <2>2, <2>3
<1>3. CASE ProviderTakes(a)
  BY <1>2, <1>3 DEF ProviderTakes, ProviderAccepts, Statuses
<1>3a. CASE ProviderTakesUnheard(a)
  BY <1>2, <1>3a DEF ProviderTakesUnheard, ProviderAnswerLost, Statuses
<1>3b. CASE RefusalKept(a)
  <2>1. "invalid_token" \in Statuses \ {"none"}
    BY DEF Statuses
  <2>. QED
    BY <1>2, <1>3b, <2>1 DEF RefusalKept, ForgetFails
<1>4. CASE RelayLoad(a) /\ UNCHANGED <<deviceVars, queueVars, disp, auxVars>>
  <2>1. CASE \E status \in Statuses \ {"none"} : ask' = Answered(a, status)
    BY <1>2, <1>4, <2>1 DEF RelayLoad
  <2>2. CASE ask' = [ask EXCEPT ![a] = [ask[a] EXCEPT !.pc = "sending", !.token = selectSender(ask[a].dev)]]
    <3>1. /\ DOMAIN ask' = Asks
          /\ \A b \in Asks \ {a} : ask'[b] = ask[b]
          /\ IsAsk(ask'[a]) /\ ask'[a].pc = "sending"
          /\ ask'[a].dev = ask[a].dev /\ ask'[a].req = ask[a].req
          /\ ask'[a].waited = ask[a].waited /\ ask'[a].status = ask[a].status
      BY <2>2, SendingFrame
    <3>4. ask[a].pc = "posted" /\ UNCHANGED <<reg, device, patch, revoker, settled, job, due, disp>>
      BY <1>4 DEF RelayLoad
    <3>. QED
      BY <3>1, <3>4
  <2>. QED
    BY <1>4, <2>1, <2>2 DEF RelayLoad, Statuses
<1>5. CASE ProviderRefuses(a) /\ UNCHANGED <<deviceVars, queueVars, disp, auxVars>>
  BY <1>5 DEF ProviderRefuses
<1>6. CASE ProviderFails(a) /\ UNCHANGED <<deviceVars, queueVars, disp, auxVars>>
  BY <1>2, <1>6 DEF ProviderFails, Statuses
<1>7. CASE ForgetRegistration(a) /\ UNCHANGED <<deviceVars, queueVars, disp, auxVars>>
  <2>1. "invalid_token" \in Statuses \ {"none"}
    BY DEF Statuses
  <2>2. reg' \in [Devices -> TokenPair] /\ \A d \in Devices : d # ask[a].dev => reg'[d] = reg[d]
    BY <1>0, <1>1, <1>7 DEF ForgetRegistration, DeleteRegistration
  <2>. QED
    BY <1>2, <1>7, <2>1, <2>2 DEF ForgetRegistration
<1>8. CASE RelayAbandons(a) /\ UNCHANGED <<deviceVars, queueVars, disp, auxVars>>
  BY <1>8 DEF RelayAbandons
<1>. QED
  BY <1>3, <1>3a, <1>3b, <1>4, <1>5, <1>6, <1>7, <1>8 DEF RelayStep

\* The batch moves on, a verdict is to be settled, or the dispatcher is at another step.
LEMMA DispAdvances ==
    ASSUME disp' = Advanced
    PROVE  IsDisp(disp') /\ disp'.pc \in {"event", "idle"}
BY DEF Advanced, IsDisp, IdleDisp

\* A verdict is about the job in hand.
LEMMA DispSettles ==
    ASSUME PushShape, NEW v, disp' = Settles(v)
    PROVE  IsDisp(disp') /\ disp'.pc = "settle" /\ disp'.verdict = v /\ disp'.batch = disp.batch
<1>1. IsDisp(disp)
  BY DEF PushShape
<1>. QED
  BY <1>1 DEF Settles, IsDisp

\* The dispatcher goes on with the same job.
LEMMA DispGoesTo ==
    ASSUME PushShape, NEW pc, disp' = [disp EXCEPT !.pc = pc]
    PROVE  IsDisp(disp') /\ disp'.pc = pc /\ disp'.batch = disp.batch /\ disp'.ask = disp.ask
<1>1. IsDisp(disp)
  BY DEF PushShape
<1>. QED
  BY <1>1 DEF IsDisp

\* The dispatcher waits for the answer to the request it has made.
LEMMA DispWaits ==
    ASSUME PushShape, NEW a, disp' = [disp EXCEPT !.pc = "wait", !.ask = a]
    PROVE  IsDisp(disp') /\ disp'.pc = "wait" /\ disp'.ask = a /\ disp'.batch = disp.batch
<1>1. IsDisp(disp)
  BY DEF PushShape
<1>. QED
  BY <1>1 DEF IsDisp

\* A batch that was read starts with its first event.
LEMMA DispReads ==
    ASSUME NextBatch
    PROVE  IsDisp(disp') /\ disp'.pc = "event"
<1>1. PICK b : disp' = [IdleDisp EXCEPT !.pc = "event", !.batch = b]
  BY DEF NextBatch
<1>. QED
  BY <1>1 DEF IdleDisp, IsDisp

\* The dispatcher has nothing in hand.
LEMMA DispStops ==
    ASSUME disp' = IdleDisp
    PROVE  IsDisp(disp') /\ disp'.pc = "idle"
BY DEF IsDisp, IdleDisp

\* The rows of the queue keep their shape, whatever a step does to them.
JobsShape == DOMAIN job = Jobs /\ \A j \in Jobs : IsJob(job[j])
AsksShape == DOMAIN ask = Asks /\ \A a \in Asks : IsAsk(ask[a]) /\ ask[a].pc \in AskPcs /\ ask[a].waited \in BOOLEAN
DispShape == IsDisp(disp) /\ disp.pc \in DispPcs

\* The shape of the state, table by table.
LEMMA ShapeParts == PushShape <=> DeviceTypeOK /\ reg \in [Devices -> TokenPair] /\ AsksShape /\ JobsShape /\ DispShape
BY DEF PushShape, AsksShape, JobsShape, DispShape

\* A handler nobody waits for any more keeps its shape.
LEMMA UnwaitedShape ==
    ASSUME PushShape, NEW a \in Asks
    PROVE  /\ IsAsk(Unwaited(a)) /\ Unwaited(a).pc \in AskPcs /\ Unwaited(a).waited = FALSE
           /\ Unwaited(a) = NoAsk \/ (Unwaited(a).dev = ask[a].dev /\ Unwaited(a).pc = ask[a].pc
                                      /\ ask[a].pc # "answered" /\ Unwaited(a).status = ask[a].status)
<1>1. IsAsk(ask[a]) /\ ask[a].pc \in AskPcs
  BY DEF PushShape
<1>2. CASE ask[a].pc = "answered"
  BY <1>2 DEF Unwaited, NoAsk, IsAsk, AskPcs
<1>3. CASE ask[a].pc # "answered"
  BY <1>1, <1>3 DEF Unwaited, IsAsk, AskPcs
<1>. QED
  BY <1>2, <1>3

\* Every step keeps the shape of the queue.
LEMMA JobsStep ==
    ASSUME PushShape, [PushNext]_pushVars
    PROVE  JobsShape'
<1>. SUFFICES ASSUME JobsShape PROVE JobsShape'
  BY ShapeParts
<1>1. CASE UNCHANGED job
  BY <1>1 DEF JobsShape
<1>2. ASSUME NEW j \in Jobs, NEW d \in Devices, Enqueue(j, d) PROVE JobsShape'
  BY <1>2 DEF Enqueue, JobsShape, IsJob
<1>3. ASSUME NEW j \in Jobs, RowDeleted(j) PROVE JobsShape'
  BY <1>3 DEF RowDeleted, JobsShape, IsJob
<1>4. ASSUME NEW d \in Devices, DeleteDevice(d) PROVE JobsShape'
  BY <1>4 DEF DeleteDevice, JobsShape, IsJob
<1>5. CASE Settle
  <2>1. \A j \in Jobs : IsJob(SettledRow(job[j], disp.verdict))
    BY DEF JobsShape, IsJob, SettledRow
  <2>. QED
    BY <1>5, <2>1 DEF Settle, JobsShape
<1>6. CASE DispatcherStep /\ ~Settle
  BY <1>1, <1>6 DEF DispatcherStep, NextBatch, LoadEvent, LoadDeviceDrops, LoadDevicePushes, Receive,
                    NoAnswer, ClearTokens, queueVars
<1>7. CASE (\E j \in Jobs : BackoffElapsed(j)) \/ StatementFails \/ Crash \/ (\E a \in Asks : RelayStep(a)) \/ DeviceChange
  BY <1>1, <1>7 DEF BackoffElapsed, StatementFails, Crash, RelayStep, ProviderTakes, ProviderTakesUnheard, RefusalKept,
                     DeviceChange, queueVars
<1>. QED
  BY <1>1, <1>2, <1>3, <1>4, <1>5, <1>6, <1>7 DEF PushNext, pushVars, queueVars

\* Every step keeps the shape of the dispatcher.
LEMMA DispStep ==
    ASSUME PushShape, [PushNext]_pushVars
    PROVE  DispShape'
<1>. SUFFICES ASSUME DispShape PROVE DispShape'
  BY ShapeParts
<1>1. CASE UNCHANGED disp
  BY <1>1 DEF DispShape, IsDisp
<1>2. CASE \E pc \in DispPcs : disp' = [disp EXCEPT !.pc = pc]
  <2>1. PICK pc \in DispPcs : disp' = [disp EXCEPT !.pc = pc]
    BY <1>2
  <2>. QED
    BY <2>1, DispGoesTo DEF DispShape
<1>3. CASE \E v : disp' = Settles(v)
  <2>1. PICK v : disp' = Settles(v)
    BY <1>3
  <2>. QED
    BY <2>1, DispSettles DEF DispShape, DispPcs
<1>4. CASE disp' = Advanced
  BY <1>4, DispAdvances DEF DispShape, DispPcs
<1>5. CASE disp' = IdleDisp
  BY <1>5, DispStops DEF DispShape, DispPcs
<1>6. CASE \E a : disp' = [disp EXCEPT !.pc = "wait", !.ask = a]
  <2>1. PICK a : disp' = [disp EXCEPT !.pc = "wait", !.ask = a]
    BY <1>6
  <2>. QED
    BY <2>1, DispWaits DEF DispShape, DispPcs
<1>8. CASE DispatcherStep
  <2>1. CASE NextBatch
    BY <2>1, DispReads DEF DispShape, DispPcs
  <2>2. CASE LoadEvent
    BY <1>2, <1>3, <2>2 DEF LoadEvent, DispPcs
  <2>3. CASE LoadDeviceDrops
    BY <1>3, <2>3 DEF LoadDeviceDrops
  <2>4. CASE \E a \in Asks : LoadDevicePushes(a)
    BY <1>6, <2>4 DEF LoadDevicePushes
  <2>5. CASE Receive
    BY <1>2, <1>3, <2>5 DEF Receive, DispPcs
  <2>6. CASE NoAnswer
    BY <1>3, <2>6 DEF NoAnswer, SilenceRetries
  <2>7. CASE ClearTokens
    BY <1>3, <2>7 DEF ClearTokens
  <2>8. CASE Settle
    BY <1>4, <2>8 DEF Settle
  <2>. QED
    BY <1>8, <2>1, <2>2, <2>3, <2>4, <2>5, <2>6, <2>7, <2>8 DEF DispatcherStep
<1>9. CASE StatementFails
  BY <1>3, <1>4, <1>9 DEF StatementFails
<1>10. CASE Crash
  BY <1>5, <1>10 DEF Crash
<1>11. CASE \/ \E j \in Jobs : (\E d \in Devices : Enqueue(j, d)) \/ BackoffElapsed(j) \/ RowDeleted(j)
            \/ \E d \in Devices : DeleteDevice(d)
            \/ \E a \in Asks : RelayStep(a)
            \/ DeviceChange
  BY <1>1, <1>11 DEF Enqueue, BackoffElapsed, RowDeleted, DeleteDevice, RelayStep, ProviderTakes, ProviderTakesUnheard, RefusalKept,
                     DeviceChange
<1>. QED
  BY <1>1, <1>8, <1>9, <1>10, <1>11 DEF PushNext, pushVars

\* Every step keeps the shape of the relay's handlers.
LEMMA AsksStep ==
    ASSUME PushInv, [PushNext]_pushVars
    PROVE  AsksShape'
<1>. PushShape /\ AsksShape
  BY ShapeParts DEF PushInv
<1>1. CASE UNCHANGED ask
  BY <1>1 DEF AsksShape
<1>2. ASSUME NEW a \in Asks, LoadDevicePushes(a) PROVE AsksShape'
  BY <1>2 DEF LoadDevicePushes, AsksShape, IsAsk, NoAsk, AskPcs
<1>3. CASE ask' = [ask EXCEPT ![disp.ask] = NoAsk]
  BY <1>3 DEF AsksShape, IsAsk, NoAsk, AskPcs
<1>4. CASE NoAnswer
  <2>1. PICK r : r = Unwaited(disp.ask) /\ ask' = [ask EXCEPT ![disp.ask] = r]
    BY <1>4 DEF NoAnswer
  <2>2. DOMAIN ask' = Asks /\ \A a \in Asks : ask'[a] = IF a = disp.ask THEN r ELSE ask[a]
    BY <2>1 DEF AsksShape
  <2>. QED
    BY <2>1, <2>2, UnwaitedShape DEF AsksShape
<1>5. CASE Crash
  <2>1. DOMAIN ask' = Asks /\ \A a \in Asks : ask'[a] = IF ask[a].waited THEN Unwaited(a) ELSE ask[a]
    BY <1>5 DEF Crash
  <2>. QED
    BY <2>1, UnwaitedShape DEF AsksShape
<1>6. ASSUME NEW a \in Asks, RelayStep(a) PROVE AsksShape'
  <2>1. HandlerStep(a)
    BY <1>6, HandlerFrame
  <2>. QED
    <3>1. CASE ask'[a] = NoAsk
      <4>1. NoAsk.waited \in BOOLEAN
        BY DEF NoAsk
      <4>2. ask'[a].waited \in BOOLEAN
        BY <3>1, <4>1
      <4>. QED
        BY <2>1, <4>2 DEF HandlerStep, AsksShape
    <3>2. CASE ask'[a].waited = ask[a].waited
      BY <2>1, <3>2 DEF HandlerStep, AsksShape
    <3>. QED
      BY <2>1, <3>1, <3>2 DEF HandlerStep
<1>7. CASE DispatcherStep
  <2>1. CASE NextBatch \/ LoadEvent \/ LoadDeviceDrops \/ Settle
    BY <1>1, <2>1 DEF NextBatch, LoadEvent, LoadDeviceDrops, Settle, relayVars
  <2>2. CASE Receive
    BY <1>1, <1>3, <2>2 DEF Receive
  <2>3. CASE ClearTokens
    BY <1>3, <2>3 DEF ClearTokens
  <2>. QED
    BY <1>2, <1>4, <1>7, <2>1, <2>2, <2>3 DEF DispatcherStep
<1>8. CASE StatementFails
  BY <1>1, <1>3, <1>8 DEF StatementFails
<1>9. CASE \/ \E j \in Jobs : (\E d \in Devices : Enqueue(j, d)) \/ BackoffElapsed(j) \/ RowDeleted(j)
           \/ \E d \in Devices : DeleteDevice(d)
           \/ DeviceChange
  BY <1>1, <1>9 DEF Enqueue, BackoffElapsed, RowDeleted, DeleteDevice, DeleteRevoked, DeviceChange, relayVars,
         DeviceStart, DeviceStep, PatchStart, RevokeStart, PatchGet, PatchWrite, PatchReread, PatchRelay,
         PatchFail, Revoke, RevokeRelay, RevokeFail
<1>. QED
  BY <1>1, <1>5, <1>6, <1>7, <1>8, <1>9 DEF PushNext, pushVars, relayVars

\* Steps that change no device, handler of a device or registration.
LEMMA OtherStepsKeepDevices ==
    ASSUME PushNext, ~(\E d \in Devices : DeleteDevice(d)), ~DeviceChange, ~ClearTokens, ~Crash,
           ~(\E a \in Asks : RelayStep(a))
    PROVE  UNCHANGED <<reg, device, patch, revoker>>
<1>1. CASE \E j \in Jobs : (\E d \in Devices : Enqueue(j, d)) \/ BackoffElapsed(j) \/ RowDeleted(j)
  BY <1>1 DEF Enqueue, BackoffElapsed, RowDeleted, relayVars, deviceVars
<1>2. CASE DispatcherStep
  BY <1>2 DEF DispatcherStep, NextBatch, LoadEvent, LoadDeviceDrops, LoadDevicePushes, Receive, NoAnswer,
          Settle, relayVars, deviceVars
<1>3. CASE StatementFails
  BY <1>3 DEF StatementFails
<1>. QED
  BY <1>1, <1>2, <1>3 DEF PushNext

\* The handlers of PATCH and of a revocation.
PatchRecords == [pc : {"idle", "get", "write", "reread", "relay"}, dev : Devices \cup {None},
                 apns : ApnsTokens \cup {None, Keep}, fcm : FcmTokens \cup {None, Keep},
                 tokens : TokenPair]
RevokerRecords == [pc : {"idle", "write", "relay"}, dev : Devices \cup {None}]
DeviceRecords  == [status : {"active", "revoked", "deleted"}, tokens : TokenPair]

DeviceTables ==
    /\ device \in [Devices -> DeviceRecords]
    /\ patch \in [Patches -> PatchRecords]
    /\ revoker \in [Revokers -> RevokerRecords]
    /\ settled \in [Devices -> BOOLEAN]

\* The types of rows and handlers, table by table.
LEMMA DeviceTypeParts == (DeviceTypeOK <=> DeviceTables) /\ (DeviceTypeOK' <=> DeviceTables')
BY DEF DeviceTypeOK, DeviceTables, PatchRecords, RevokerRecords, DeviceRecords

\* A statement by id changes the tokens of a row that exists, and nothing else.
LEMMA TokensUpdated ==
    ASSUME device \in [Devices -> DeviceRecords], NEW d, NEW t \in TokenPair, UpdatePushTokens(d, t)
    PROVE  /\ device' \in [Devices -> DeviceRecords]
           /\ \A e \in Devices :
                 /\ device'[e].status = device[e].status
                 /\ e # d => device'[e] = device[e]
                 /\ e = d /\ device[e].status # "deleted" => device'[e].tokens = t
<1>1. device' = [e \in Devices |-> IF e = d
                    THEN [device[e] EXCEPT !.tokens = IF device[d].status = "deleted" THEN @ ELSE t]
                    ELSE device[e]]
  BY DEF UpdatePushTokens
<1>2. ASSUME NEW e \in Devices
      PROVE  /\ device'[e] \in DeviceRecords
             /\ device'[e].status = device[e].status
             /\ e # d => device'[e] = device[e]
             /\ e = d /\ device[e].status # "deleted" => device'[e].tokens = t
  BY <1>1 DEF DeviceRecords
<1>. QED
  BY <1>1, <1>2

\* Rows and registrations stay well typed.
LEMMA DeviceTypeStep ==
    ASSUME PushInv, [PushNext]_pushVars
    PROVE  DeviceTypeOK' /\ reg' \in [Devices -> TokenPair]
<1>. SUFFICES DeviceTables' /\ reg' \in [Devices -> TokenPair]
  BY DeviceTypeParts
<1>. USE PushRelayAssumption DEF DeviceTables
<1>0. DeviceTables /\ reg \in [Devices -> TokenPair] /\ IdleInv /\ NoTokens \in TokenPair
  BY DeviceTypeParts DEF PushInv, PushShape, NoTokens, TokenPair
<1>a. ASSUME NEW p \in Patches, patch[p] \in PatchRecords, NEW t \in TokenPair,
             NEW pc \in {"write", "relay"},
             patch' = [patch EXCEPT ![p] = [patch[p] EXCEPT !.pc = pc, !.tokens = t]]
      PROVE  patch' \in [Patches -> PatchRecords]
  <2>1. PICK r : r = [patch[p] EXCEPT !.pc = pc, !.tokens = t]
    OBVIOUS
  <2>2. r \in PatchRecords
    BY <1>a, <2>1 DEF PatchRecords
  <2>. QED
    BY <1>0, <1>a, <2>1, <2>2
<1>1. settled' \in [Devices -> BOOLEAN]
  <2>1. CASE \E d : Begins(d) \/ Interrupts(d)
    BY <1>0, <2>1 DEF Begins, Interrupts
  <2>2. CASE UNCHANGED settled
    BY <1>0, <2>2
  <2>3. CASE Crash
    BY <1>0, <2>3 DEF Crash
  <2>4. CASE \E a \in Asks : LoadDevicePushes(a)
    BY <1>0, <2>4 DEF LoadDevicePushes
  <2>5. CASE StatementFails
    BY <1>0, <2>5 DEF StatementFails
  <2>6. CASE DispatcherStep
    BY <2>1, <2>2, <2>4, <2>6 DEF DispatcherStep, NextBatch, LoadEvent, LoadDeviceDrops, Receive, NoAnswer,
          ClearTokens, Settle, deviceVars
  <2>7. CASE \/ \E j \in Jobs : (\E d \in Devices : Enqueue(j, d)) \/ BackoffElapsed(j) \/ RowDeleted(j)
             \/ \E d \in Devices : DeleteDevice(d)
             \/ \E a \in Asks : RelayStep(a)
    BY <2>1, <2>2, <2>7 DEF Enqueue, BackoffElapsed, RowDeleted, DeleteDevice, DeleteRevoked, RelayStep,
          ProviderTakes, ProviderTakesUnheard, RefusalKept, deviceVars
  <2>8. CASE DeviceChange
    <3>1. CASE DeviceStart
      BY <2>1, <3>1 DEF DeviceStart, PatchStart, RevokeStart
    <3>2. CASE DeviceStep
      BY <2>1, <2>2, <3>2 DEF DeviceStep, PatchGet, PatchWrite, PatchReread, PatchRelay, PatchFail, Revoke,
             RevokeRelay, RevokeFail
    <3>. QED
      BY <2>8, <3>1, <3>2 DEF DeviceChange
  <2>. QED
    BY <2>2, <2>3, <2>5, <2>6, <2>7, <2>8 DEF PushNext, pushVars, deviceVars
<1>2. CASE UNCHANGED <<reg, device, patch, revoker>>
  BY <1>0, <1>1, <1>2
<1>3. CASE DeviceChange
  <2>1. ASSUME NEW d \in Devices, NEW p \in Patches, NEW apns \in ApnsTokens \cup {None, Keep},
               NEW fcm \in FcmTokens \cup {None, Keep}, PatchStart(p, d, apns, fcm)
        PROVE  DeviceTables' /\ reg' \in [Devices -> TokenPair]
    BY <1>0, <1>1, <2>1 DEF PatchStart, NoPatch, PatchRecords, relayVars
  <2>2. ASSUME NEW d \in Devices, NEW r \in Revokers, RevokeStart(r, d)
        PROVE  DeviceTables' /\ reg' \in [Devices -> TokenPair]
    BY <1>0, <1>1, <2>2 DEF RevokeStart, RevokerRecords, relayVars
  <2>3. ASSUME NEW p \in Patches, PatchGet(p) PROVE DeviceTables' /\ reg' \in [Devices -> TokenPair]
    <3>1. patch[p].dev \in Devices
      BY <1>0, <2>3 DEF PatchGet, IdleInv
    <3>2. Merged(p) \in TokenPair
      BY <1>0, <2>3, <3>1 DEF Merged, TokenPair, PatchRecords, DeviceRecords
    <3>. QED
      BY <1>0, <1>1, <1>a, <2>3, <3>2 DEF PatchGet, relayVars
  <2>4. ASSUME NEW p \in Patches, PatchWrite(p) PROVE DeviceTables' /\ reg' \in [Devices -> TokenPair]
    <3>1. patch[p].tokens \in TokenPair
      BY <1>0 DEF PatchRecords
    <3>2. device' \in [Devices -> DeviceRecords]
      BY <1>0, <2>4, <3>1, TokensUpdated DEF PatchWrite
    <3>3. patch' \in [Patches -> PatchRecords]
      BY <1>0, <2>4 DEF PatchWrite, PatchRecords
    <3>. QED
      BY <1>0, <1>1, <2>4, <3>2, <3>3 DEF PatchWrite, relayVars
  <2>5. ASSUME NEW p \in Patches, PatchReread(p) PROVE DeviceTables' /\ reg' \in [Devices -> TokenPair]
    <3>1. patch[p].dev \in Devices
      BY <1>0, <2>5 DEF PatchReread, IdleInv
    <3>. QED
      BY <1>0, <1>1, <1>a, <2>5, <3>1 DEF PatchReread, DeviceRecords, relayVars
  <2>6. ASSUME NEW p \in Patches, PatchRelay(p) PROVE DeviceTables' /\ reg' \in [Devices -> TokenPair]
    <3>1. PatchEnds(p) /\ UNCHANGED <<device, revoker>> /\ reg' \in [Devices -> TokenPair]
      BY <1>0, <2>6 DEF PatchRelay, UpsertRegistration, DeleteRegistration, PatchRecords
    <3>. QED
      BY <1>0, <1>1, <3>1 DEF PatchEnds, NoPatch, PatchRecords
  <2>7. ASSUME NEW p \in Patches, PatchFail(p) PROVE DeviceTables' /\ reg' \in [Devices -> TokenPair]
    BY <1>0, <1>1, <2>7 DEF PatchFail, PatchEnds, NoPatch, PatchRecords, relayVars
  <2>8. ASSUME NEW r \in Revokers, Revoke(r) PROVE DeviceTables' /\ reg' \in [Devices -> TokenPair]
    <3>1. device' \in [Devices -> DeviceRecords]
      <4>1. device' = [d \in Devices |-> IF d = revoker[r].dev
                         THEN [device[d] EXCEPT !.status = IF @ = "active" THEN "revoked" ELSE @]
                         ELSE device[d]]
        BY <1>0, <2>8 DEF Revoke
      <4>2. \A d \in Devices : device'[d] \in DeviceRecords
        BY <1>0, <4>1 DEF DeviceRecords
      <4>. QED
        BY <4>1, <4>2
    <3>2. revoker' \in [Revokers -> RevokerRecords]
      BY <1>0, <2>8 DEF Revoke, RevokerRecords
    <3>. QED
      BY <1>0, <1>1, <2>8, <3>1, <3>2 DEF Revoke, relayVars
  <2>9. ASSUME NEW r \in Revokers, RevokeRelay(r) \/ RevokeFail(r)
        PROVE DeviceTables' /\ reg' \in [Devices -> TokenPair]
    <3>1. reg' \in [Devices -> TokenPair]
      BY <1>0, <2>9 DEF RevokeRelay, RevokeFail, DeleteRegistration, relayVars
    <3>. QED
      BY <1>0, <1>1, <2>9, <3>1 DEF RevokeRelay, RevokeFail, NoRevoker, RevokerRecords
  <2>. QED
    BY <1>3, <2>1, <2>2, <2>3, <2>4, <2>5, <2>6, <2>7, <2>8, <2>9 DEF DeviceChange, DeviceStart, DeviceStep
<1>4. ASSUME NEW d \in Devices, DeleteDevice(d) PROVE DeviceTables' /\ reg' \in [Devices -> TokenPair]
  BY <1>0, <1>1, <1>4 DEF DeleteDevice, DeleteRevoked, DeviceRecords, relayVars
<1>5. CASE ClearTokens
  <2>2. device' \in [Devices -> DeviceRecords]
    BY <1>0, <1>5, TokensUpdated DEF ClearTokens
  <2>. QED
    BY <1>0, <1>1, <1>5, <2>2 DEF ClearTokens
<1>6. CASE Crash
  BY <1>0, <1>1, <1>6 DEF Crash, NoPatch, NoRevoker, PatchRecords, RevokerRecords
<1>7. ASSUME NEW a \in Asks, RelayStep(a) PROVE DeviceTables' /\ reg' \in [Devices -> TokenPair]
  <2>1. HandlerStep(a)
    BY <1>7, HandlerFrame
  <2>. QED
    BY <1>0, <1>1, <2>1 DEF HandlerStep
<1>. QED
  BY <1>2, <1>3, <1>4, <1>5, <1>6, <1>7, OtherStepsKeepDevices DEF PushNext, pushVars, relayVars, deviceVars

\* Every step keeps the shape of the state.
LEMMA ShapeStep == ASSUME PushInv, [PushNext]_pushVars PROVE PushShape'
<1>1. PushShape
  BY DEF PushInv
<1>2. AsksShape' /\ JobsShape' /\ DispShape' /\ DeviceTypeOK' /\ reg' \in [Devices -> TokenPair]
  BY <1>1, AsksStep, JobsStep, DispStep, DeviceTypeStep
<1>. QED
  BY <1>2 DEF PushShape, AsksShape, JobsShape, DispShape

-------------------------------------------------------------------------------
(* Who waits for what.                                                     *)

\* AskInv for one handler, and for the dispatcher.
DispAsk ==
    /\ disp.pc \in {"wait", "clear"} =>
           disp.ask \in Asks /\ ask[disp.ask].waited /\ ask[disp.ask].req = current
    /\ disp.pc = "clear" => ask[disp.ask].pc = "answered" /\ ask[disp.ask].status = "invalid_token"
OneAsk(a) ==
    /\ ask[a].waited => disp.pc \in {"wait", "clear"} /\ disp.ask = a
    /\ ask[a].pc = "answered" => ask[a].waited /\ ask[a].status \in Statuses \ {"none"}
    /\ ask[a].pc = "idle" => ask[a] = NoAsk

\* AskInv is what DispAsk and OneAsk say.
LEMMA AskParts == (AskInv <=> DispAsk /\ \A a \in Asks : OneAsk(a))
                  /\ (AskInv' <=> DispAsk' /\ \A a \in Asks : OneAsk(a)')
BY DEF AskInv, DispAsk, OneAsk

\* Every step keeps who waits for what.
LEMMA AskStep == ASSUME PushInv, [PushNext]_pushVars PROVE AskInv'
<1>. SUFFICES DispAsk' /\ \A a \in Asks : OneAsk(a)'
  BY AskParts
<1>0. PushShape /\ DispAsk /\ DOMAIN ask = Asks /\ \A a \in Asks : OneAsk(a)
  BY AskParts DEF PushInv, PushShape
<1>idle. NoAsk.pc = "idle"
  BY DEF NoAsk
<1>1. CASE UNCHANGED <<ask, disp>>
  BY <1>0, <1>1 DEF DispAsk, OneAsk, current
<1>2. CASE UNCHANGED ask /\ disp.pc \notin {"wait", "clear"} /\ disp'.pc \notin {"wait", "clear"}
  BY <1>0, <1>2 DEF DispAsk, OneAsk
<1>3. CASE /\ disp.pc \in {"wait", "clear"} /\ disp'.pc \notin {"wait", "clear"}
           /\ ask' = [ask EXCEPT ![disp.ask] = NoAsk]
  <2>1. \A a \in Asks : ask'[a] = IF a = disp.ask THEN NoAsk ELSE ask[a]
    BY <1>0, <1>3
  <2>2. ~NoAsk.waited /\ NoAsk.pc = "idle"
    BY DEF NoAsk
  <2>. QED
    BY <1>0, <1>3, <2>1, <2>2 DEF DispAsk, OneAsk
<1>4. ASSUME NEW a \in Asks, LoadDevicePushes(a) PROVE DispAsk' /\ \A b \in Asks : OneAsk(b)'
  <2>1. IsDisp(disp') /\ disp'.pc = "wait" /\ disp'.ask = a /\ disp'.batch = disp.batch
    BY <1>0, <1>4, DispWaits DEF LoadDevicePushes
  <2>2. /\ ask'[a].pc = "posted" /\ ask'[a].waited /\ ask'[a].req = current
        /\ \A b \in Asks \ {a} : ask'[b] = ask[b]
    BY <1>0, <1>4 DEF LoadDevicePushes, NoAsk
  <2>3. disp.pc = "device"
    BY <1>4 DEF LoadDevicePushes
  <2>. QED
    BY <1>0, <2>1, <2>2, <2>3 DEF DispAsk, OneAsk, current
<1>5. CASE Receive
  <2>1. CASE ask[disp.ask].status = "invalid_token"
    <3>1. disp.pc = "wait" /\ disp' = [disp EXCEPT !.pc = "clear"] /\ UNCHANGED ask /\ ask[disp.ask].pc = "answered"
      BY <1>5, <2>1 DEF Receive
    <3>2. disp'.pc = "clear" /\ disp'.batch = disp.batch /\ disp'.ask = disp.ask
      BY <1>0, <3>1, DispGoesTo
    <3>. QED
      BY <1>0, <2>1, <3>1, <3>2 DEF DispAsk, OneAsk, current
  <2>2. CASE ask[disp.ask].status # "invalid_token"
    <3>1. PICK v : disp.pc = "wait" /\ disp' = Settles(v) /\ ask' = [ask EXCEPT ![disp.ask] = NoAsk]
      BY <1>5, <2>2 DEF Receive
    <3>2. disp'.pc = "settle"
      BY <1>0, <3>1, DispSettles
    <3>. QED
      BY <1>3, <3>1, <3>2
  <2>. QED
    BY <2>1, <2>2
<1>6. CASE NoAnswer
  <2>1. disp.pc = "wait" /\ disp'.pc = "settle"
    BY <1>0, <1>6, DispSettles DEF NoAnswer, SilenceRetries
  <2>2. \A a \in Asks : ask'[a] = IF a = disp.ask THEN Unwaited(disp.ask) ELSE ask[a]
    BY <1>0, <1>6 DEF NoAnswer
  <2>3. disp.ask \in Asks
    BY <1>0, <2>1 DEF DispAsk
  <2>4. ~Unwaited(disp.ask).waited /\ Unwaited(disp.ask).pc # "answered"
        /\ (Unwaited(disp.ask).pc = "idle" => Unwaited(disp.ask) = NoAsk)
    <3>1. ask[disp.ask].pc # "idle"
      BY <1>0, <2>1, <2>3 DEF DispAsk, OneAsk, NoAsk
    <3>. QED
      BY <1>0, <1>idle, <2>3, <3>1, UnwaitedShape
  <2>. QED
    BY <1>0, <2>1, <2>2, <2>3, <2>4 DEF DispAsk, OneAsk
<1>7. CASE Crash
  <2>1. disp'.pc = "idle"
    BY <1>7, DispStops DEF Crash
  <2>2. \A a \in Asks : ask'[a] = IF ask[a].waited THEN Unwaited(a) ELSE ask[a]
    BY <1>7 DEF Crash
  <2>3. ASSUME NEW a \in Asks PROVE OneAsk(a)'
    <3>1. CASE ~ask[a].waited
      BY <1>0, <2>2, <3>1 DEF OneAsk
    <3>2. CASE ask[a].waited
      <4>1. ask[a].pc # "idle"
        BY <1>0, <3>2 DEF OneAsk, NoAsk
      <4>2. ~Unwaited(a).waited /\ Unwaited(a).pc # "answered" /\ (Unwaited(a).pc = "idle" => Unwaited(a) = NoAsk)
        BY <1>0, <1>idle, <4>1, UnwaitedShape
      <4>. QED
        BY <2>2, <3>2, <4>2 DEF OneAsk
    <3>. QED
      BY <3>1, <3>2
  <2>. QED
    BY <2>1, <2>3 DEF DispAsk
<1>8. ASSUME NEW a \in Asks, RelayStep(a) PROVE DispAsk' /\ \A b \in Asks : OneAsk(b)'
  <2>1. HandlerStep(a)
    BY <1>8, HandlerFrame
  <2>2. ~NoAsk.waited /\ NoAsk.pc = "idle"
    BY DEF NoAsk
  <2>3. CASE ask'[a] = NoAsk /\ ~ask[a].waited
    BY <1>0, <2>1, <2>2, <2>3 DEF HandlerStep, DispAsk, OneAsk, current
  <2>4. CASE ask'[a].waited = ask[a].waited /\ ask'[a].req = ask[a].req /\ ask'[a].pc # "idle"
             /\ (ask'[a].pc = "answered" => ask[a].waited /\ ask'[a].status \in Statuses \ {"none"})
    BY <1>0, <2>1, <2>4 DEF HandlerStep, DispAsk, OneAsk, current
  <2>. QED
    BY <2>1, <2>3, <2>4 DEF HandlerStep
<1>9. CASE ClearTokens
  <2>1. disp.pc = "clear" /\ disp'.pc = "settle" /\ ask' = [ask EXCEPT ![disp.ask] = NoAsk]
    BY <1>0, <1>9, DispSettles DEF ClearTokens
  <2>. QED
    BY <1>3, <2>1
<1>10. CASE StatementFails
  <2>1. CASE disp.pc = "clear"
    <3>1. disp'.pc = "settle" /\ ask' = [ask EXCEPT ![disp.ask] = NoAsk]
      BY <1>0, <1>10, <2>1, DispSettles DEF StatementFails
    <3>. QED
      BY <1>3, <2>1, <3>1
  <2>2. CASE disp.pc # "clear"
    <3>1. disp'.pc \in {"event", "idle"} /\ UNCHANGED ask /\ disp.pc # "wait"
      BY <1>10, <2>2, DispAdvances DEF StatementFails
    <3>. QED
      BY <1>2, <2>2, <3>1
  <2>. QED
    BY <2>1, <2>2
<1>11. CASE NextBatch \/ LoadEvent \/ LoadDeviceDrops \/ Settle
  <2>1. UNCHANGED ask /\ disp.pc \notin {"wait", "clear"}
    BY <1>11 DEF NextBatch, LoadEvent, LoadDeviceDrops, Settle, relayVars
  <2>2. CASE NextBatch
    BY <1>2, <2>1, <2>2, DispReads
  <2>3. CASE \E v : disp' = Settles(v)
    <3>1. PICK v : disp' = Settles(v)
      BY <2>3
    <3>. QED
      BY <1>0, <1>2, <2>1, <3>1, DispSettles
  <2>4. CASE LoadEvent
    <3>1. CASE disp' = [disp EXCEPT !.pc = "device"]
      BY <1>0, <1>2, <2>1, <3>1, DispGoesTo
    <3>. QED
      BY <2>3, <2>4, <3>1 DEF LoadEvent
  <2>5. CASE LoadDeviceDrops
    BY <2>3, <2>5 DEF LoadDeviceDrops
  <2>6. CASE Settle
    BY <1>2, <2>1, <2>6, DispAdvances DEF Settle
  <2>. QED
    BY <1>11, <2>2, <2>4, <2>5, <2>6
<1>12. CASE \/ \E j \in Jobs : (\E d \in Devices : Enqueue(j, d)) \/ BackoffElapsed(j) \/ RowDeleted(j)
            \/ \E d \in Devices : DeleteDevice(d)
            \/ DeviceChange
  BY <1>1, <1>12 DEF Enqueue, BackoffElapsed, RowDeleted, DeleteDevice, DeleteRevoked, DeviceChange, relayVars,
         DeviceStart, DeviceStep, PatchStart, RevokeStart, PatchGet, PatchWrite, PatchReread, PatchRelay,
         PatchFail, Revoke, RevokeRelay, RevokeFail
<1>. QED
  BY <1>1, <1>4, <1>5, <1>6, <1>7, <1>8, <1>9, <1>10, <1>11, <1>12
     DEF PushNext, DispatcherStep, pushVars, relayVars

-------------------------------------------------------------------------------
(* What an answer says happened.                                           *)

\* Every step keeps what answers and verdicts say happened.
LEMMA SentStep == ASSUME PushInv, PushShape', AskInv', [PushNext]_pushVars PROVE SentInv'
<1>. USE DEF DeliveredWasAccepted
<1>0. PushShape /\ AskInv /\ SentInv
  BY DEF PushInv
<1>1. ASSUME NEW a \in Asks, RelayStep(a) PROVE SentInv'
  <2>1. HandlerStep(a)
    BY <1>1, HandlerFrame
  <2>2. CASE ProviderTakes(a) \/ ProviderTakesUnheard(a)
    <3>1. accepted' \in [Jobs -> Nat] /\ \A j \in Jobs : accepted'[j] >= accepted[j]
      <4>1. accepted \in [Jobs -> Nat] /\ accepted' = [accepted EXCEPT ![ask[a].req] = @ + 1]
        BY <1>0, <2>2 DEF ProviderTakes, ProviderTakesUnheard, SentInv
      <4>2. accepted' = [j \in Jobs |-> IF j = ask[a].req THEN accepted[j] + 1 ELSE accepted[j]]
        BY <4>1
      <4>3. \A j \in Jobs : accepted'[j] \in Nat /\ accepted'[j] >= accepted[j]
        BY <4>1, <4>2
      <4>. QED
        BY <4>2, <4>3
    <3>2. ask[a].req \in Jobs => accepted'[ask[a].req] > 0
      BY <1>0, <2>2 DEF ProviderTakes, ProviderTakesUnheard, SentInv
    <3>3. ask'[a] = NoAsk \/ ask'[a].req = ask[a].req
      BY <2>1 DEF HandlerStep
    <3>4. NoAsk.pc = "idle"
      BY DEF NoAsk
    <3>5. ASSUME NEW b \in Asks, ask'[b].pc = "answered", ask'[b].status = "sent", ask'[b].req \in Jobs
          PROVE  accepted'[ask'[b].req] > 0
      BY <1>0, <2>1, <3>1, <3>2, <3>3, <3>4, <3>5 DEF HandlerStep, SentInv
    <3>6. UNCHANGED <<disp, job>>
      BY <2>1 DEF HandlerStep
    <3>. QED
      BY <1>0, <3>1, <3>5, <3>6 DEF SentInv, current
  <2>3. CASE ~ProviderTakes(a) /\ ~ProviderTakesUnheard(a)
    <3>1. UNCHANGED <<accepted, disp, job>> /\ ask[a].pc # "answered"
      BY <1>1, <2>1, <2>3 DEF RelayStep, RefusalKept, auxVars, HandlerStep
    <3>2. \A b \in Asks \ {a} : ask'[b] = ask[b]
      BY <2>1 DEF HandlerStep
    <3>3. ~(ask'[a].pc = "answered" /\ ask'[a].status = "sent")
      <4>1. NoAsk.pc = "idle" /\ IsAsk(ask[a]) /\ DOMAIN ask = Asks
        BY <1>0 DEF NoAsk, PushShape
      <4>2. ASSUME NEW status \in Statuses \ {"none", "sent"}, ask' = Answered(a, status)
            PROVE  ~(ask'[a].pc = "answered" /\ ask'[a].status = "sent")
        BY <1>0, <4>1, <4>2, AnswerFrame
      <4>3. ASSUME NEW t, ask' = [ask EXCEPT ![a] = [ask[a] EXCEPT !.pc = "sending", !.token = t]]
            PROVE  ~(ask'[a].pc = "answered" /\ ask'[a].status = "sent")
        BY <1>0, <4>3, SendingFrame
      <4>4. CASE RelayLoad(a)
        <5>1. \/ \E status \in Statuses \ {"none", "sent"} : ask' = Answered(a, status)
              \/ \E t : ask' = [ask EXCEPT ![a] = [ask[a] EXCEPT !.pc = "sending", !.token = t]]
          BY <4>4 DEF RelayLoad, Statuses
        <5>. QED
          BY <4>2, <4>3, <5>1
      <4>5. CASE ProviderRefuses(a)
        BY <4>1, <4>5 DEF ProviderRefuses, IsAsk
      <4>6. CASE ProviderFails(a)
        BY <4>2, <4>6 DEF ProviderFails, Statuses
      <4>7. CASE ForgetRegistration(a) \/ RefusalKept(a)
        BY <4>2, <4>7 DEF ForgetRegistration, RefusalKept, ForgetFails, Statuses
      <4>8. CASE RelayAbandons(a)
        BY <4>1, <4>8 DEF RelayAbandons
      <4>. QED
        BY <1>1, <2>3, <4>4, <4>5, <4>6, <4>7, <4>8 DEF RelayStep
    <3>. QED
      BY <1>0, <3>1, <3>2, <3>3 DEF SentInv, current
  <2>. QED
    BY <2>2, <2>3
(* Every other step leaves what providers have taken, and makes no answer. *)
<1>2. ASSUME ~(\E a \in Asks : RelayStep(a))
      PROVE  /\ accepted' = accepted
             /\ \A a \in Asks : \/ ask'[a] = ask[a]
                                \/ ask'[a].pc # "answered"
  <2>0. DOMAIN ask = Asks /\ NoAsk.pc = "idle"
    BY <1>0 DEF PushShape, NoAsk
  <2>1. CASE \E a \in Asks : LoadDevicePushes(a)
    BY <2>0, <2>1 DEF LoadDevicePushes, auxVars
  <2>2. CASE ask' = [ask EXCEPT ![disp.ask] = NoAsk] /\ UNCHANGED accepted
    BY <2>0, <2>2
  <2>3. CASE NoAnswer
    <3>1. \A a \in Asks : ask'[a] = IF a = disp.ask THEN Unwaited(disp.ask) ELSE ask[a]
      BY <2>0, <2>3 DEF NoAnswer
    <3>2. disp.ask \in Asks => Unwaited(disp.ask).pc # "answered"
      BY <1>0, <2>0, UnwaitedShape
    <3>3. accepted' = accepted
      BY <2>3 DEF NoAnswer
    <3>. QED
      BY <3>1, <3>2, <3>3
  <2>4. CASE Crash
    <3>1. \A a \in Asks : ask'[a] = IF ask[a].waited THEN Unwaited(a) ELSE ask[a]
      BY <2>4 DEF Crash
    <3>. QED
      BY <1>0, <2>0, <2>4, <3>1, UnwaitedShape DEF Crash
  <2>5. CASE UNCHANGED <<ask, accepted>>
    BY <2>5
  <2>6. CASE DispatcherStep
    BY <2>1, <2>2, <2>3, <2>5, <2>6 DEF DispatcherStep, NextBatch, LoadEvent, LoadDeviceDrops, Receive,
           ClearTokens, Settle, relayVars, auxVars
  <2>7. CASE StatementFails
    BY <2>2, <2>5, <2>7 DEF StatementFails
  <2>8. CASE \/ \E j \in Jobs : (\E d \in Devices : Enqueue(j, d)) \/ BackoffElapsed(j) \/ RowDeleted(j)
             \/ \E d \in Devices : DeleteDevice(d)
             \/ DeviceChange
    BY <2>5, <2>8 DEF Enqueue, BackoffElapsed, RowDeleted, DeleteDevice, DeleteRevoked, DeviceChange, relayVars,
           DeviceStart, DeviceStep, PatchStart, RevokeStart, PatchGet, PatchWrite, PatchReread, PatchRelay,
           PatchFail, Revoke, RevokeRelay, RevokeFail, auxVars
  <2>. QED
    BY <1>2, <2>4, <2>5, <2>6, <2>7, <2>8 DEF PushNext, pushVars, relayVars, auxVars
<1>3. ASSUME ~(\E a \in Asks : RelayStep(a))
      PROVE  disp'.pc = "settle" /\ disp'.verdict = "delivered" /\ current' \in Jobs => accepted'[current'] > 0
  <2>1. CASE UNCHANGED disp
    BY <1>0, <1>2, <1>3, <2>1 DEF SentInv, current
  <2>2. CASE disp'.pc # "settle" \/ disp'.verdict # "delivered"
    BY <2>2
  <2>3. ASSUME NEW v, disp' = Settles(v), v # "delivered" PROVE disp'.verdict # "delivered"
    BY <1>0, <2>3, DispSettles
  <2>4. RetryVerdict # "delivered"
    BY DEF RetryVerdict
  <2>5. CASE Receive
    <3>1. CASE ask[disp.ask].status = "invalid_token"
      BY <1>0, <2>2, <2>5, <3>1, DispGoesTo DEF Receive
    <3>2. CASE ask[disp.ask].status # "invalid_token"
      <4>1. /\ disp.pc = "wait" /\ ask[disp.ask].pc = "answered"
            /\ disp' = Settles(VerdictOf(ask[disp.ask].status))
        BY <2>5, <3>2 DEF Receive
      <4>2. disp'.verdict = VerdictOf(ask[disp.ask].status) /\ disp'.batch = disp.batch
        BY <1>0, <4>1, DispSettles
      <4>3. disp.ask \in Asks /\ ask[disp.ask].req = current /\ ask[disp.ask].status \in Statuses \ {"none"}
        BY <1>0, <4>1 DEF AskInv
      <4>4. CASE ask[disp.ask].status = "sent"
        BY <1>0, <1>2, <1>3, <4>1, <4>2, <4>3, <4>4 DEF SentInv, current
      <4>5. CASE ask[disp.ask].status # "sent"
        BY <2>2, <2>4, <3>2, <4>2, <4>3, <4>5 DEF VerdictOf, Statuses
      <4>. QED
        BY <4>4, <4>5
    <3>. QED
      BY <3>1, <3>2
  <2>6. CASE NextBatch \/ LoadEvent \/ LoadDeviceDrops \/ NoAnswer \/ ClearTokens \/ Settle
             \/ \E a \in Asks : LoadDevicePushes(a)
    <3>1. CASE NextBatch
      BY <2>2, <3>1, DispReads
    <3>2. CASE LoadEvent
      <4>1. CASE disp' = [disp EXCEPT !.pc = "device"]
        BY <1>0, <2>2, <4>1, DispGoesTo
      <4>. QED
        BY <2>2, <2>3, <3>2, <4>1 DEF LoadEvent
    <3>3. CASE LoadDeviceDrops
      BY <2>2, <2>3, <3>3 DEF LoadDeviceDrops
    <3>4. CASE NoAnswer
      BY <2>2, <2>3, <2>4, <3>4 DEF NoAnswer, SilenceRetries
    <3>5. CASE ClearTokens
      BY <2>2, <2>3, <3>5 DEF ClearTokens
    <3>6. CASE Settle
      BY <2>2, <3>6, DispAdvances DEF Settle
    <3>7. CASE \E a \in Asks : LoadDevicePushes(a)
      BY <1>0, <2>2, <3>7, DispWaits DEF LoadDevicePushes
    <3>. QED
      BY <2>6, <3>1, <3>2, <3>3, <3>4, <3>5, <3>6, <3>7
  <2>7. CASE StatementFails
    BY <2>2, <2>3, <2>7, DispAdvances DEF StatementFails
  <2>8. CASE Crash
    BY <2>2, <2>8, DispStops DEF Crash
  <2>9. CASE \/ \E j \in Jobs : (\E d \in Devices : Enqueue(j, d)) \/ BackoffElapsed(j) \/ RowDeleted(j)
             \/ \E d \in Devices : DeleteDevice(d)
             \/ DeviceChange
    BY <2>1, <2>9 DEF Enqueue, BackoffElapsed, RowDeleted, DeleteDevice, DeviceChange
  <2>. QED
    BY <1>3, <2>1, <2>5, <2>6, <2>7, <2>8, <2>9 DEF PushNext, DispatcherStep, pushVars
<1>4. ASSUME ~(\E a \in Asks : RelayStep(a)), NEW j \in Jobs, job'[j].state = "delivered"
      PROVE  accepted'[j] > 0
  <2>0. DOMAIN job = Jobs /\ IsJob(job[j])
    BY <1>0 DEF PushShape
  <2>1. CASE job'[j].state = job[j].state
    BY <1>0, <1>2, <1>4, <2>1 DEF SentInv
  <2>2. CASE Settle
    <3>1. job'[j] = IF j = current THEN SettledRow(job[j], disp.verdict) ELSE job[j]
      BY <2>0, <2>2 DEF Settle
    <3>2. CASE j = current /\ disp.verdict = "delivered"
      BY <1>0, <1>2, <1>4, <2>2, <3>2 DEF Settle, SentInv
    <3>3. CASE j = current /\ disp.verdict # "delivered"
      <4>1. job'[j].state = job[j].state \/ job'[j].state = disp.verdict
        BY <2>0, <3>1, <3>3 DEF SettledRow, IsJob
      <4>. QED
        BY <1>4, <2>1, <3>3, <4>1
    <3>4. CASE j # current
      BY <2>1, <3>1, <3>4
    <3>. QED
      BY <3>2, <3>3, <3>4
  <2>3. ASSUME NEW i \in Jobs, (\E d \in Devices : Enqueue(i, d)) \/ RowDeleted(i)
        PROVE  job'[j].state = job[j].state
    BY <1>4, <2>0, <2>3 DEF Enqueue, RowDeleted, IsJob
  <2>4. ASSUME NEW d \in Devices, DeleteDevice(d) PROVE job'[j].state = job[j].state
    BY <1>4, <2>0, <2>4 DEF DeleteDevice, IsJob
  <2>5. CASE UNCHANGED job
    BY <2>1, <2>5
  <2>6. CASE DispatcherStep /\ ~Settle
    BY <2>5, <2>6 DEF DispatcherStep, NextBatch, LoadEvent, LoadDeviceDrops, LoadDevicePushes, Receive,
           NoAnswer, ClearTokens, queueVars
  <2>7. CASE (\E i \in Jobs : BackoffElapsed(i)) \/ StatementFails \/ Crash \/ DeviceChange
    BY <2>5, <2>7 DEF BackoffElapsed, StatementFails, Crash, DeviceChange, queueVars
  <2>. QED
    BY <1>4, <2>1, <2>2, <2>3, <2>4, <2>5, <2>6, <2>7 DEF PushNext, pushVars, queueVars
<1>. QED
  <2>1. CASE \E a \in Asks : RelayStep(a)
    BY <1>1, <2>1
  <2>2. CASE ~(\E a \in Asks : RelayStep(a))
    BY <1>0, <1>2, <1>3, <1>4, <2>2 DEF SentInv
  <2>. QED
    BY <2>1, <2>2

-------------------------------------------------------------------------------
(* The row and the registration.                                           *)

\* Handlers without a step have no device, and those with one have.
LEMMA IdleStep == ASSUME PushInv, [PushNext]_pushVars PROVE IdleInv'
<1>0. DeviceTables /\ IdleInv
  BY DeviceTypeParts DEF PushInv, PushShape
<1>1. CASE UNCHANGED <<patch, revoker>>
  BY <1>0, <1>1 DEF IdleInv
<1>2. ASSUME NEW d \in Devices, NEW p \in Patches, NEW apns \in ApnsTokens \cup {None, Keep},
             NEW fcm \in FcmTokens \cup {None, Keep}, PatchStart(p, d, apns, fcm)
      PROVE  IdleInv'
  BY <1>0, <1>2 DEF PatchStart, IdleInv, DeviceTables, PatchRecords, NoPatch
<1>3. ASSUME NEW d \in Devices, NEW r \in Revokers, RevokeStart(r, d) PROVE IdleInv'
  BY <1>0, <1>3 DEF RevokeStart, IdleInv, DeviceTables, RevokerRecords
<1>4. ASSUME NEW p \in Patches, PatchGet(p) \/ PatchReread(p) PROVE IdleInv'
  BY <1>0, <1>4 DEF PatchGet, PatchReread, IdleInv, DeviceTables, PatchRecords
<1>5. ASSUME NEW p \in Patches, PatchWrite(p) PROVE IdleInv'
  BY <1>0, <1>5 DEF PatchWrite, IdleInv, DeviceTables, PatchRecords
<1>6. ASSUME NEW p \in Patches, PatchEnds(p), UNCHANGED revoker PROVE IdleInv'
  BY <1>0, <1>6 DEF PatchEnds, IdleInv, DeviceTables, PatchRecords, NoPatch
<1>7. ASSUME NEW r \in Revokers, Revoke(r) PROVE IdleInv'
  BY <1>0, <1>7 DEF Revoke, IdleInv, DeviceTables, RevokerRecords
<1>8. ASSUME NEW r \in Revokers, RevokeRelay(r) \/ RevokeFail(r) PROVE IdleInv'
  BY <1>0, <1>8 DEF RevokeRelay, RevokeFail, IdleInv, DeviceTables, RevokerRecords, NoRevoker
<1>9. CASE DeviceChange
  BY <1>2, <1>3, <1>4, <1>5, <1>6, <1>7, <1>8, <1>9
     DEF DeviceChange, DeviceStart, DeviceStep, PatchRelay, PatchFail
<1>10. CASE Crash
  BY <1>10 DEF Crash, IdleInv, NoPatch, NoRevoker
<1>11. CASE ClearTokens \/ \E d \in Devices : DeleteDevice(d)
  BY <1>1, <1>11 DEF ClearTokens, DeleteDevice, DeleteRevoked
<1>12. ASSUME NEW a \in Asks, RelayStep(a) PROVE IdleInv'
  BY <1>1, <1>12, HandlerFrame DEF HandlerStep
<1>. QED
  BY <1>1, <1>9, <1>10, <1>11, <1>12, OtherStepsKeepDevices DEF PushNext, pushVars, deviceVars

\* A step that touches nothing of a device keeps what is known of it.
LEMMA Untouched ==
    ASSUME NEW d, DeviceTables, DeviceTables', settled[d] => InStep(d),
           d \in Devices,
           settled'[d] => settled[d],
           device'[d] = device[d], reg'[d] = reg[d],
           \A p \in Patches : patch'[p].dev = d \/ patch[p].dev = d => patch'[p] = patch[p],
           \A r \in Revokers : revoker'[r].dev = d \/ revoker[r].dev = d => revoker'[r] = revoker[r],
           \A a \in Asks : ask'[a].dev = d \/ ask[a].dev = d => ask'[a] = ask[a]
    PROVE  settled'[d] => InStep(d)'
<1>. SUFFICES ASSUME settled'[d] PROVE InStep(d)'
  OBVIOUS
<1>1. InStep(d)
  OBVIOUS
<1>2. /\ NoPatchOn(d)' <=> NoPatchOn(d)
      /\ NoRevokerOn(d)' <=> NoRevokerOn(d)
      /\ NoAskOn(d)' <=> NoAskOn(d)
      /\ Busy(d)' <=> Busy(d)
      /\ Registered(d)' = Registered(d)
  BY DEF NoPatchOn, NoRevokerOn, NoAskOn, Busy, Registered
<1>3. LonePatch(d)'
  BY <1>1, <1>2 DEF InStep, LonePatch
<1>4. LoneRevoker(d)'
  BY <1>1, <1>2 DEF InStep, LoneRevoker
<1>5. LoneAsk(d)'
  BY <1>1, <1>2 DEF InStep, LoneAsk, Refused
<1>6. (~Busy(d) => reg[d] = Registered(d))'
  BY <1>1, <1>2 DEF InStep
<1>. QED
  BY <1>3, <1>4, <1>5, <1>6 DEF InStep

\* The PATCH: it runs alone, so what it has read is what the row holds.
LEMMA PatchKeepsStep ==
    ASSUME PushInv, DeviceTables', NEW p \in Patches, NEW d \in Devices,
           PatchGet(p) \/ PatchWrite(p) \/ PatchReread(p) \/ PatchRelay(p) \/ PatchFail(p)
    PROVE  settled'[d] => InStep(d)'
<1>0. /\ DeviceTables /\ reg \in [Devices -> TokenPair] /\ IdleInv
      /\ settled[d] => InStep(d)
      /\ patch[p].dev \in Devices /\ patch[p].pc # "idle" /\ None \notin Devices
  BY DeviceTypeParts, PushRelayAssumption
     DEF PushInv, PushShape, StepInv, IdleInv, PatchGet, PatchWrite, PatchReread, PatchRelay, PatchFail
<1>1. /\ patch'[p].dev = patch[p].dev \/ patch'[p].dev = None
      /\ \A q \in Patches \ {p} : patch'[q] = patch[q]
      /\ UNCHANGED <<revoker, ask>>
  <2>0. patch \in [Patches -> PatchRecords]
    BY <1>0 DEF DeviceTables
  <2>1. CASE PatchGet(p)
    BY <2>0, <2>1 DEF PatchGet, PatchRecords, relayVars
  <2>2. CASE PatchWrite(p)
    BY <2>0, <2>2 DEF PatchWrite, PatchRecords, relayVars
  <2>3. CASE PatchReread(p)
    BY <2>0, <2>3 DEF PatchReread, PatchRecords, relayVars
  <2>4. CASE PatchRelay(p)
    BY <2>0, <2>4 DEF PatchRelay, PatchEnds, NoPatch
  <2>5. CASE PatchFail(p)
    BY <2>0, <2>5 DEF PatchFail, PatchEnds, NoPatch, relayVars
  <2>. QED
    BY <2>1, <2>2, <2>3, <2>4, <2>5
<1>2. \A e \in Devices : settled'[e] => settled[e]
  BY <1>0 DEF PatchGet, PatchWrite, PatchReread, PatchRelay, PatchFail, Interrupts, DeviceTables
<1>3. \A e \in Devices : e # patch[p].dev => reg'[e] = reg[e]
  BY <1>0 DEF PatchGet, PatchWrite, PatchReread, PatchRelay, PatchFail, UpsertRegistration, DeleteRegistration,
              relayVars
<1>4. \A e \in Devices : /\ device'[e].status = device[e].status
                         /\ e # patch[p].dev \/ ~PatchWrite(p) => device'[e] = device[e]
  <2>1. CASE PatchWrite(p)
    <3>1. patch[p].tokens \in TokenPair
      BY <1>0 DEF DeviceTables, PatchRecords
    <3>. QED
      BY <1>0, <2>1, <3>1, TokensUpdated DEF PatchWrite, DeviceTables
  <2>2. CASE ~PatchWrite(p)
    BY <2>2 DEF PatchGet, PatchReread, PatchRelay, PatchFail
  <2>. QED
    BY <2>1, <2>2
<1>5. CASE d # patch[p].dev
  <2>1. /\ \A q \in Patches : patch'[q].dev = d \/ patch[q].dev = d => patch'[q] = patch[q]
        /\ device'[d] = device[d] /\ reg'[d] = reg[d] /\ (settled'[d] => settled[d])
    BY <1>0, <1>1, <1>2, <1>3, <1>4, <1>5
  <2>. QED
    BY <1>0, <1>1, <2>1, Untouched
<1>6. CASE d = patch[p].dev /\ settled'[d]
  <2>0. ~PatchFail(p)
    BY <1>0, <1>6 DEF PatchFail, Interrupts, DeviceTables
  <2>1. /\ LonePatch(d) /\ NoRevokerOn(d) /\ NoAskOn(d) /\ device[d].status = "active"
        /\ \A q \in Patches \ {p} : patch[q].dev # d
        /\ patch[p].pc = "relay" => patch[p].tokens = device[d].tokens
    BY <1>0, <1>2, <1>6 DEF InStep, LonePatch
  <2>2. /\ NoRevokerOn(d)' /\ NoAskOn(d)' /\ device'[d].status = "active"
        /\ \A q \in Patches \ {p} : patch'[q].dev # d
    BY <1>0, <1>1, <1>4, <2>1 DEF NoRevokerOn, NoAskOn
  <2>3. LoneRevoker(d)' /\ LoneAsk(d)'
    BY <2>2 DEF LoneRevoker, LoneAsk, NoRevokerOn, NoAskOn
  <2>4. CASE PatchRelay(p)
    <3>1. patch'[p].dev = None
      BY <1>0, <2>4 DEF PatchRelay, PatchEnds, NoPatch, DeviceTables
    <3>2. reg'[d] = device[d].tokens
      BY <1>0, <1>6, <2>1, <2>4 DEF PatchRelay, UpsertRegistration, DeleteRegistration
    <3>3. Registered(d)' = device[d].tokens
      BY <1>4, <2>1, <2>2, <2>4 DEF Registered, PatchRelay
    <3>. QED
      BY <1>0, <2>2, <2>3, <3>1, <3>2, <3>3 DEF InStep, LonePatch
  <2>5. CASE PatchGet(p) \/ PatchWrite(p) \/ PatchReread(p)
    <3>1. /\ patch'[p].dev = d
          /\ patch'[p].pc = "relay" => patch'[p].tokens = device'[d].tokens
      <4>0. patch \in [Patches -> PatchRecords]
        BY <1>0 DEF DeviceTables
      <4>1. CASE PatchGet(p)
        BY <1>6, <4>0, <4>1 DEF PatchGet, PatchRecords
      <4>2. CASE PatchWrite(p)
        BY <1>6, <4>0, <4>2 DEF PatchWrite, PatchRecords
      <4>3. CASE PatchReread(p)
        BY <1>6, <4>0, <4>3 DEF PatchReread, PatchRecords
      <4>. QED
        BY <2>5, <4>1, <4>2, <4>3
    <3>2. Busy(d)'
      BY <3>1 DEF Busy
    <3>. QED
      BY <2>2, <2>3, <3>1, <3>2 DEF InStep, LonePatch
  <2>. QED
    BY <2>0, <2>4, <2>5
<1>. QED
  BY <1>5, <1>6

\* The revocation: it runs alone, so the row is not active when it tells the relay.
LEMMA RevokerKeepsStep ==
    ASSUME PushInv, DeviceTables', NEW r \in Revokers, NEW d \in Devices,
           Revoke(r) \/ RevokeRelay(r) \/ RevokeFail(r)
    PROVE  settled'[d] => InStep(d)'
<1>0. /\ DeviceTables /\ reg \in [Devices -> TokenPair] /\ IdleInv
      /\ settled[d] => InStep(d)
      /\ revoker[r].dev \in Devices /\ revoker[r].pc # "idle" /\ None \notin Devices
  BY DeviceTypeParts, PushRelayAssumption
     DEF PushInv, PushShape, StepInv, IdleInv, Revoke, RevokeRelay, RevokeFail
<1>1. /\ revoker'[r].dev = revoker[r].dev \/ revoker'[r].dev = None
      /\ \A q \in Revokers \ {r} : revoker'[q] = revoker[q]
      /\ UNCHANGED <<patch, ask>>
  BY <1>0 DEF Revoke, RevokeRelay, RevokeFail, DeviceTables, RevokerRecords, NoRevoker, relayVars
<1>2. \A e \in Devices : settled'[e] => settled[e]
  BY <1>0 DEF Revoke, RevokeRelay, RevokeFail, Interrupts, DeviceTables
<1>3. \A e \in Devices : e # revoker[r].dev => reg'[e] = reg[e]
  BY <1>0 DEF Revoke, RevokeRelay, RevokeFail, DeleteRegistration, relayVars
<1>4. /\ \A e \in Devices : e # revoker[r].dev => device'[e] = device[e]
      /\ Revoke(r) => device'[revoker[r].dev].status # "active"
      /\ ~Revoke(r) => device' = device
  BY <1>0 DEF Revoke, RevokeRelay, RevokeFail, DeviceTables, DeviceRecords
<1>5. CASE d # revoker[r].dev
  <2>1. /\ \A q \in Revokers : revoker'[q].dev = d \/ revoker[q].dev = d => revoker'[q] = revoker[q]
        /\ device'[d] = device[d] /\ reg'[d] = reg[d] /\ (settled'[d] => settled[d])
    BY <1>0, <1>1, <1>2, <1>3, <1>4, <1>5
  <2>. QED
    BY <1>0, <1>1, <2>1, Untouched
<1>6. CASE d = revoker[r].dev /\ settled'[d]
  <2>0. ~RevokeFail(r)
    BY <1>0, <1>6 DEF RevokeFail, Interrupts, DeviceTables
  <2>1. /\ NoPatchOn(d) /\ NoAskOn(d)
        /\ \A q \in Revokers \ {r} : revoker[q].dev # d
        /\ revoker[r].pc = "relay" => device[d].status # "active"
    BY <1>0, <1>2, <1>6 DEF InStep, LoneRevoker
  <2>2. /\ NoPatchOn(d)' /\ NoAskOn(d)'
        /\ \A q \in Revokers \ {r} : revoker'[q].dev # d
    BY <1>0, <1>1, <2>1 DEF NoPatchOn, NoAskOn
  <2>3. LonePatch(d)' /\ LoneAsk(d)'
    BY <2>2 DEF LonePatch, LoneAsk, NoPatchOn, NoAskOn
  <2>4. CASE RevokeRelay(r)
    <3>1. revoker'[r].dev = None /\ revoker[r].pc = "relay" /\ device' = device
      BY <1>0, <2>4 DEF RevokeRelay, NoRevoker, DeviceTables
    <3>2. reg'[d] = NoTokens
      BY <1>0, <1>6, <2>4 DEF RevokeRelay, DeleteRegistration
    <3>3. Registered(d)' = NoTokens
      BY <2>1, <3>1 DEF Registered
    <3>. QED
      BY <1>0, <2>2, <2>3, <3>1, <3>2, <3>3 DEF InStep, LoneRevoker
  <2>5. CASE Revoke(r)
    <3>1. revoker'[r].dev = d
      BY <1>0, <1>6, <2>5 DEF Revoke, DeviceTables, RevokerRecords
    <3>2. Busy(d)'
      BY <3>1 DEF Busy
    <3>. QED
      BY <1>4, <1>6, <2>2, <2>3, <2>5, <3>1, <3>2 DEF InStep, LoneRevoker
  <2>. QED
    BY <2>0, <2>4, <2>5
<1>. QED
  BY <1>5, <1>6

\* A new PATCH or revocation counts as alone only when nothing else is under way.
LEMMA StartKeepsStep ==
    ASSUME PushInv, DeviceTables', NEW d \in Devices, DeviceStart
    PROVE  settled'[d] => InStep(d)'
<1>0. /\ DeviceTables /\ reg \in [Devices -> TokenPair] /\ None \notin Devices
      /\ settled[d] => InStep(d)
  BY DeviceTypeParts, PushRelayAssumption DEF PushInv, PushShape, StepInv
<1>1. ASSUME NEW e \in Devices, NEW p \in Patches, NEW apns \in ApnsTokens \cup {None, Keep},
             NEW fcm \in FcmTokens \cup {None, Keep}, PatchStart(p, e, apns, fcm)
      PROVE  settled'[d] => InStep(d)'
  <2>1. /\ patch[p].dev = None /\ patch'[p].dev = e /\ patch'[p].pc = "get"
        /\ \A q \in Patches \ {p} : patch'[q] = patch[q]
        /\ UNCHANGED <<device, revoker, reg, ask>>
        /\ device[e].status = "active"
    BY <1>0, <1>1 DEF PatchStart, NoPatch, DeviceTables, relayVars
  <2>2. settled'[e] = ~Busy(e) /\ (d # e => settled'[d] = settled[d])
    BY <1>0, <1>1 DEF PatchStart, Begins, DeviceTables
  <2>3. CASE d # e
    <3>1. \A q \in Patches : patch'[q].dev = d \/ patch[q].dev = d => patch'[q] = patch[q]
      BY <1>0, <2>1, <2>3
    <3>. QED
      BY <1>0, <2>1, <2>2, <2>3, <3>1, Untouched
  <2>4. CASE d = e /\ settled'[d]
    <3>1. ~Busy(d)
      BY <2>2, <2>4
    <3>2. NoRevokerOn(d)' /\ NoAskOn(d)' /\ \A q \in Patches \ {p} : patch'[q].dev # d
      BY <2>1, <3>1 DEF Busy, NoRevokerOn, NoAskOn
    <3>3. Busy(d)'
      BY <2>1, <2>4 DEF Busy
    <3>. QED
      BY <2>1, <2>4, <3>2, <3>3 DEF InStep, LonePatch, LoneRevoker, LoneAsk, NoRevokerOn, NoAskOn
  <2>. QED
    BY <2>3, <2>4
<1>2. ASSUME NEW e \in Devices, NEW r \in Revokers, RevokeStart(r, e)
      PROVE  settled'[d] => InStep(d)'
  <2>1. /\ revoker[r].dev = None /\ revoker'[r].dev = e /\ revoker'[r].pc = "write"
        /\ \A q \in Revokers \ {r} : revoker'[q] = revoker[q]
        /\ UNCHANGED <<device, patch, reg, ask>>
    BY <1>0, <1>2 DEF RevokeStart, NoRevoker, DeviceTables, relayVars
  <2>2. settled'[e] = ~Busy(e) /\ (d # e => settled'[d] = settled[d])
    BY <1>0, <1>2 DEF RevokeStart, Begins, DeviceTables
  <2>3. CASE d # e
    <3>1. \A q \in Revokers : revoker'[q].dev = d \/ revoker[q].dev = d => revoker'[q] = revoker[q]
      BY <1>0, <2>1, <2>3
    <3>. QED
      BY <1>0, <2>1, <2>2, <2>3, <3>1, Untouched
  <2>4. CASE d = e /\ settled'[d]
    <3>1. ~Busy(d)
      BY <2>2, <2>4
    <3>2. NoPatchOn(d)' /\ NoAskOn(d)' /\ \A q \in Revokers \ {r} : revoker'[q].dev # d
      BY <2>1, <3>1 DEF Busy, NoPatchOn, NoAskOn
    <3>3. Busy(d)'
      BY <2>1, <2>4 DEF Busy
    <3>. QED
      BY <2>1, <2>4, <3>2, <3>3 DEF InStep, LonePatch, LoneRevoker, LoneAsk, NoPatchOn, NoAskOn
  <2>. QED
    BY <2>3, <2>4
<1>. QED
  BY <1>1, <1>2 DEF DeviceStart

\* The handler of a push that is waited for and keeps its device settled says that a token was
\* refused exactly when it leaves no registration.
LEMMA HandlerTells ==
    ASSUME PushInv, NEW a \in Asks, RelayStep(a), ask[a].waited, ask[a].dev \in Devices,
           settled'[ask[a].dev]
    PROVE  reg'[ask[a].dev] = IF Refused(a)' THEN NoTokens ELSE reg[ask[a].dev]
<1>0. PushShape /\ HandlerStep(a)
  BY HandlerFrame DEF PushInv
<1>1. ASSUME NEW status \in Statuses \ {"none"}, ask' = Answered(a, status)
      PROVE  ask'[a].pc = "answered" /\ ask'[a].status = status
  BY <1>0, <1>1, AnswerFrame
<1>2. CASE ProviderTakes(a)
  BY <1>1, <1>2 DEF ProviderTakes, ProviderAccepts, Refused, Statuses
<1>2a. CASE ProviderTakesUnheard(a)
  BY <1>1, <1>2a DEF ProviderTakesUnheard, ProviderAnswerLost, Refused, Statuses
<1>2b. ~RefusalKept(a)
  <2>1. settled \in [Devices -> BOOLEAN]
    BY <1>0, DeviceTypeParts DEF PushShape, DeviceTables
  <2>. QED
    BY <2>1 DEF RefusalKept, Interrupts
<1>3. CASE RelayLoad(a)
  <2>1. CASE \E status \in {"unavailable", "bad_payload"} : ask' = Answered(a, status)
    BY <1>1, <1>3, <2>1 DEF RelayLoad, Refused, Statuses
  <2>2. CASE reg[ask[a].dev] = NoTokens
    BY <1>3, <2>2 DEF RelayLoad
  <2>3. CASE ask' = [ask EXCEPT ![a] = [ask[a] EXCEPT !.pc = "sending", !.token = selectSender(ask[a].dev)]]
    BY <1>0, <1>3, <2>3, SendingFrame DEF RelayLoad, Refused
  <2>. QED
    BY <1>3, <2>1, <2>2, <2>3 DEF RelayLoad
<1>4. CASE ProviderRefuses(a)
  BY <1>0, <1>4 DEF ProviderRefuses, Refused, PushShape, IsAsk
<1>5. CASE ProviderFails(a)
  BY <1>1, <1>5 DEF ProviderFails, Refused, Statuses
<1>6. CASE ForgetRegistration(a)
  <2>1. Refused(a)'
    BY <1>1, <1>6 DEF ForgetRegistration, Refused, Statuses
  <2>2. reg'[ask[a].dev] = NoTokens
    BY <1>0, <1>6 DEF ForgetRegistration, DeleteRegistration, PushShape
  <2>. QED
    BY <2>1, <2>2
<1>7. CASE RelayAbandons(a)
  BY <1>7 DEF RelayAbandons
<1>. QED
  BY <1>2, <1>2a, <1>2b, <1>3, <1>4, <1>5, <1>6, <1>7 DEF RelayStep

\* A relay handler of a push that runs alone leaves the registration as its answer says.
LEMMA HandlerKeepsStep ==
    ASSUME PushInv, DeviceTables', NEW a \in Asks, NEW d \in Devices, RelayStep(a)
    PROVE  settled'[d] => InStep(d)'
<1>0. /\ DeviceTables /\ None \notin Devices /\ NoAsk.dev = None
      /\ settled[d] => InStep(d)
      /\ HandlerStep(a)
  BY DeviceTypeParts, PushRelayAssumption, HandlerFrame DEF PushInv, PushShape, StepInv, NoAsk
<1>1. CASE d # ask[a].dev
  <2>1. /\ UNCHANGED <<device, patch, revoker>> /\ settled'[d] = settled[d] /\ reg'[d] = reg[d]
        /\ \A b \in Asks : ask'[b].dev = d \/ ask[b].dev = d => ask'[b] = ask[b]
    BY <1>0, <1>1 DEF HandlerStep, Interrupts, DeviceTables
  <2>. QED
    BY <1>0, <2>1, Untouched
<1>2. CASE d = ask[a].dev /\ settled'[d]
  <2>1. UNCHANGED <<device, patch, revoker, settled>> /\ \A b \in Asks \ {a} : ask'[b] = ask[b]
    BY <1>0, <1>2 DEF HandlerStep, Interrupts, DeviceTables
  <2>2. /\ NoPatchOn(d) /\ NoRevokerOn(d) /\ ask[a].waited /\ device[d].status = "active"
        /\ \A b \in Asks \ {a} : ask[b].dev # d
        /\ reg[d] = IF Refused(a) THEN NoTokens ELSE Registered(d)
    BY <1>0, <1>2, <2>1 DEF InStep, LoneAsk
  <2>3. ~Refused(a)
    BY <1>0 DEF HandlerStep, Refused
  <2>4. ask'[a].dev = d /\ ask'[a].waited
    BY <1>0, <1>2, <2>2 DEF HandlerStep
  <2>5. reg'[d] = IF Refused(a)' THEN NoTokens ELSE reg[d]
    BY <1>2, <2>2, HandlerTells
  <2>6. NoPatchOn(d)' /\ NoRevokerOn(d)' /\ Registered(d)' = Registered(d)
    BY <2>1, <2>2 DEF NoPatchOn, NoRevokerOn, Registered
  <2>7. LoneAsk(d)'
    BY <2>1, <2>2, <2>3, <2>4, <2>5, <2>6 DEF LoneAsk
  <2>8. Busy(d)'
    BY <2>4 DEF Busy
  <2>. QED
    BY <2>6, <2>7, <2>8 DEF InStep, LonePatch, LoneRevoker, NoPatchOn, NoRevokerOn
<1>. QED
  BY <1>1, <1>2

\* A push begins: alone, it begins in step with an active device.
LEMMA PushKeepsStep ==
    ASSUME PushInv, DeviceTables', NEW a \in Asks, NEW d \in Devices, LoadDevicePushes(a)
    PROVE  settled'[d] => InStep(d)'
<1>. DEFINE e == job[current].dev
<1>0. /\ DeviceTables /\ DOMAIN ask = Asks /\ None \notin Devices
      /\ settled[d] => InStep(d)
  BY DeviceTypeParts, PushRelayAssumption DEF PushInv, PushShape, StepInv
<1>1. /\ ask[a].dev = None /\ ask'[a].dev = e /\ ask'[a].waited /\ ask'[a].pc = "posted"
      /\ \A b \in Asks \ {a} : ask'[b] = ask[b]
      /\ UNCHANGED <<device, patch, revoker, reg>>
      /\ Registered(e) # NoTokens
  BY <1>0 DEF LoadDevicePushes, NoAsk
<1>2. /\ d = e => settled'[d] = (settled[d] /\ ~Busy(d))
      /\ d # e => settled'[d] = settled[d]
  BY <1>0 DEF LoadDevicePushes, DeviceTables
<1>. HIDE DEF e
<1>3. CASE d # e
  <2>1. \A b \in Asks : ask'[b].dev = d \/ ask[b].dev = d => ask'[b] = ask[b]
    BY <1>0, <1>1, <1>3
  <2>. QED
    BY <1>0, <1>1, <1>2, <1>3, <2>1, Untouched
<1>4. CASE d = e /\ settled'[d]
  <2>1. ~Busy(d) /\ reg[d] = Registered(d)
    BY <1>0, <1>2, <1>4 DEF InStep
  <2>2. NoPatchOn(d)' /\ NoRevokerOn(d)' /\ Registered(d)' = Registered(d)
        /\ \A b \in Asks \ {a} : ask'[b].dev # d
    BY <1>1, <2>1 DEF Busy, NoPatchOn, NoRevokerOn, Registered
  <2>3. device'[d].status = "active" /\ ~Refused(a)'
    BY <1>1, <1>4 DEF Registered, Refused
  <2>4. LoneAsk(d)'
    BY <1>1, <1>4, <2>1, <2>2, <2>3 DEF LoneAsk
  <2>5. Busy(d)'
    BY <1>1, <1>4 DEF Busy
  <2>. QED
    BY <2>2, <2>4, <2>5 DEF InStep, LonePatch, LoneRevoker, NoPatchOn, NoRevokerOn
<1>. QED
  BY <1>3, <1>4

\* The handler whose answer is taken leaves its device, and the device is in step again.
LEMMA AnswerTakenKeepsStep ==
    ASSUME PushInv, DeviceTables', NEW d \in Devices,
           disp.pc \in {"wait", "clear"},
           \A b \in Asks : b # disp.ask => ask'[b] = ask[b],
           ask'[disp.ask].dev \in {None, ask[disp.ask].dev},
           UNCHANGED <<reg, patch, revoker>>,
           settled'[d] => settled[d],
           device'[d] = device[d] \/ d = ask[disp.ask].dev,
           d = ask[disp.ask].dev /\ settled'[d] =>
               /\ ask'[disp.ask].dev = None
               /\ IF Refused(disp.ask) THEN device'[d].tokens = NoTokens ELSE device' = device
    PROVE  settled'[d] => InStep(d)'
<1>. DEFINE a == disp.ask
<1>0. /\ DeviceTables /\ None \notin Devices /\ a \in Asks
      /\ settled[d] => InStep(d)
  BY DeviceTypeParts, PushRelayAssumption DEF PushInv, PushShape, StepInv, AskInv
<1>1. CASE d # ask[a].dev
  <2>1. /\ \A b \in Asks : ask'[b].dev = d \/ ask[b].dev = d => ask'[b] = ask[b]
        /\ device'[d] = device[d]
    BY <1>0, <1>1
  <2>. QED
    BY <1>0, <2>1, Untouched
<1>2. CASE d = ask[a].dev /\ settled'[d]
  <2>1. /\ NoPatchOn(d) /\ NoRevokerOn(d) /\ device[d].status = "active"
        /\ \A b \in Asks \ {a} : ask[b].dev # d
        /\ reg[d] = IF Refused(a) THEN NoTokens ELSE Registered(d)
    BY <1>0, <1>2 DEF InStep, LoneAsk
  <2>2. /\ NoPatchOn(d)' /\ NoRevokerOn(d)' /\ NoAskOn(d)'
    BY <1>0, <1>2, <2>1 DEF NoPatchOn, NoRevokerOn, NoAskOn
  <2>3. reg'[d] = Registered(d)'
    BY <1>2, <2>1 DEF Registered
  <2>. QED
    BY <2>2, <2>3 DEF InStep, LonePatch, LoneRevoker, LoneAsk, NoPatchOn, NoRevokerOn, NoAskOn
<1>. QED
  BY <1>1, <1>2

\* The dispatcher takes or gives up an answer.
LEMMA DispatcherKeepsStep ==
    ASSUME PushInv, DeviceTables', NEW d \in Devices,
           (Receive /\ ask[disp.ask].status # "invalid_token") \/ NoAnswer \/ ClearTokens
               \/ (StatementFails /\ disp.pc = "clear")
    PROVE  settled'[d] => InStep(d)'
<1>0. /\ DeviceTables /\ DOMAIN ask = Asks /\ None \notin Devices /\ NoAsk.dev = None
      /\ disp.pc \in {"wait", "clear"} => disp.ask \in Asks
      /\ disp.pc = "clear" => Refused(disp.ask)
      /\ PushShape /\ NoTokens \in TokenPair
  BY DeviceTypeParts, PushRelayAssumption DEF PushInv, PushShape, NoAsk, AskInv, Refused, NoTokens, TokenPair
<1>1. CASE Receive /\ ask[disp.ask].status # "invalid_token"
  <2>1. /\ disp.pc = "wait" /\ ask' = [ask EXCEPT ![disp.ask] = NoAsk]
        /\ UNCHANGED <<reg, patch, revoker, settled, device>>
    BY <1>1 DEF Receive, deviceVars
  <2>2. ask'[disp.ask].dev = None /\ \A b \in Asks : b # disp.ask => ask'[b] = ask[b]
    BY <1>0, <2>1
  <2>3. ~Refused(disp.ask)
    BY <1>1 DEF Refused
  <2>. QED
    BY <1>0, <2>1, <2>2, <2>3, AnswerTakenKeepsStep
<1>2. CASE NoAnswer
  <2>1. /\ disp.pc = "wait" /\ ask' = [ask EXCEPT ![disp.ask] = Unwaited(disp.ask)]
        /\ UNCHANGED <<reg, patch, revoker, device>>
        /\ settled' = [settled EXCEPT ![ask[disp.ask].dev] = FALSE]
    BY <1>2 DEF NoAnswer, Interrupts
  <2>2. Unwaited(disp.ask).dev \in {None, ask[disp.ask].dev}
    BY <1>0, <2>1, UnwaitedShape
  <2>3. ask'[disp.ask].dev \in {None, ask[disp.ask].dev} /\ \A b \in Asks : b # disp.ask => ask'[b] = ask[b]
    BY <1>0, <2>1, <2>2
  <2>4. (settled'[d] => settled[d]) /\ (d = ask[disp.ask].dev => ~settled'[d])
    BY <1>0, <2>1 DEF DeviceTables
  <2>. QED
    BY <1>0, <2>1, <2>3, <2>4, AnswerTakenKeepsStep
<1>3. CASE ClearTokens
  <2>1. /\ disp.pc = "clear" /\ ask' = [ask EXCEPT ![disp.ask] = NoAsk]
        /\ UpdatePushTokens(ask[disp.ask].dev, NoTokens)
        /\ UNCHANGED <<reg, patch, revoker, settled>>
    BY <1>3 DEF ClearTokens
  <2>2. ask'[disp.ask].dev = None /\ \A b \in Asks : b # disp.ask => ask'[b] = ask[b]
    BY <1>0, <2>1
  <2>3. /\ d # ask[disp.ask].dev => device'[d] = device[d]
        /\ d = ask[disp.ask].dev /\ device[d].status # "deleted" => device'[d].tokens = NoTokens
    BY <1>0, <2>1, TokensUpdated DEF DeviceTables
  <2>4. d = ask[disp.ask].dev /\ settled[d] => device[d].status # "deleted"
    BY <1>0, <2>1 DEF PushInv, StepInv, InStep, LoneAsk
  <2>. QED
    BY <1>0, <2>1, <2>2, <2>3, <2>4, AnswerTakenKeepsStep
<1>4. CASE StatementFails /\ disp.pc = "clear"
  <2>1. /\ ask' = [ask EXCEPT ![disp.ask] = NoAsk]
        /\ UNCHANGED <<reg, patch, revoker, device>>
        /\ settled' = [settled EXCEPT ![ask[disp.ask].dev] = FALSE]
    BY <1>4 DEF StatementFails
  <2>2. ask'[disp.ask].dev = None /\ \A b \in Asks : b # disp.ask => ask'[b] = ask[b]
    BY <1>0, <1>4, <2>1
  <2>3. (settled'[d] => settled[d]) /\ (d = ask[disp.ask].dev => ~settled'[d])
    BY <1>0, <2>1 DEF DeviceTables
  <2>. QED
    BY <1>0, <1>4, <2>1, <2>2, <2>3, AnswerTakenKeepsStep
<1>. QED
  BY <1>1, <1>2, <1>3, <1>4

\* The sweep deletes a row that is revoked, and nothing that runs alone is about it.
LEMMA DeletionKeepsStep ==
    ASSUME PushInv, DeviceTables', NEW e \in Devices, NEW d \in Devices, DeleteDevice(e)
    PROVE  settled'[d] => InStep(d)'
<1>0. /\ DeviceTables /\ settled[d] => InStep(d)
      /\ UNCHANGED <<patch, revoker, settled, reg, ask>>
      /\ device[e].status = "revoked"
      /\ device'[e] = [status |-> "deleted", tokens |-> NoTokens]
      /\ \A f \in Devices \ {e} : device'[f] = device[f]
  BY DeviceTypeParts DEF PushInv, PushShape, StepInv, DeleteDevice, DeleteRevoked, relayVars, DeviceTables
<1>a. settled[d] => InStep(d)
  BY DEF PushInv, StepInv
<1>b. DeviceTables
  BY DeviceTypeParts DEF PushInv, PushShape
<1>1. CASE d # e
  BY <1>0, <1>a, <1>b, <1>1, Untouched
<1>2. CASE d = e /\ settled'[d]
  <2>1. NoPatchOn(d) /\ NoAskOn(d)
    BY <1>0, <1>a, <1>2 DEF InStep, LonePatch, LoneAsk, NoPatchOn, NoAskOn
  <2>2. NoPatchOn(d)' /\ NoAskOn(d)'
    BY <1>0, <2>1 DEF NoPatchOn, NoAskOn
  <2>3. Registered(d) = NoTokens /\ Registered(d)' = NoTokens /\ device'[d].status # "active"
    BY <1>0, <1>2 DEF Registered
  <2>4. LoneRevoker(d)'
    BY <1>0, <1>a, <1>2, <2>2, <2>3 DEF InStep, LoneRevoker
  <2>5. (~Busy(d) => reg[d] = Registered(d))'
    BY <1>0, <1>a, <1>2, <2>3 DEF InStep, Busy
  <2>. QED
    BY <2>2, <2>4, <2>5 DEF InStep, LonePatch, LoneAsk, NoPatchOn, NoAskOn
<1>. QED
  BY <1>1, <1>2

\* A restart spares the devices that nothing was about.
LEMMA CrashKeepsStep ==
    ASSUME PushInv, DeviceTables', NEW d \in Devices, Crash
    PROVE  settled'[d] => InStep(d)'
<1>0. /\ DeviceTables /\ PushShape /\ None \notin Devices
      /\ NoAsk.dev = None /\ NoPatch.dev = None /\ NoRevoker.dev = None
  BY DeviceTypeParts, PushRelayAssumption DEF PushInv, PushShape, NoAsk, NoPatch, NoRevoker
<1>1. settled[d] => InStep(d)
  BY DEF PushInv, StepInv
<1>2. /\ settled'[d] = (settled[d] /\ ~Busy(d)) /\ UNCHANGED <<reg, device>>
      /\ \A a \in Asks : ask'[a] = IF ask[a].waited THEN Unwaited(a) ELSE ask[a]
      /\ \A p \in Patches : patch'[p] = NoPatch
      /\ \A r \in Revokers : revoker'[r] = NoRevoker
  BY DEF Crash
<1>3. \A a \in Asks : ask'[a].dev \in {None, ask[a].dev}
  BY <1>0, <1>2, UnwaitedShape
<1>. SUFFICES ASSUME settled'[d] PROVE InStep(d)'
  OBVIOUS
<1>4. ~Busy(d) /\ reg[d] = Registered(d)
  BY <1>1, <1>2 DEF InStep
<1>5. NoPatchOn(d)' /\ NoRevokerOn(d)' /\ NoAskOn(d)'
  BY <1>0, <1>2, <1>3, <1>4 DEF Busy, NoPatchOn, NoRevokerOn, NoAskOn
<1>6. reg'[d] = Registered(d)'
  BY <1>2, <1>4 DEF Registered
<1>. QED
  BY <1>5, <1>6 DEF InStep, LonePatch, LoneRevoker, LoneAsk, NoPatchOn, NoRevokerOn, NoAskOn

\* Every step keeps what a lone change knows.
LEMMA StepStep == ASSUME PushInv, [PushNext]_pushVars PROVE StepInv'
<1>. SUFFICES ASSUME NEW d \in Devices PROVE settled'[d] => InStep(d)'
  BY DEF StepInv
<1>0. DeviceTables /\ DeviceTables' /\ (settled[d] => InStep(d))
  BY DeviceTypeParts, DeviceTypeStep DEF PushInv, PushShape, StepInv
<1>1. CASE UNCHANGED <<reg, ask, device, patch, revoker, settled>>
  BY <1>0, <1>1, Untouched
<1>2. CASE DispatcherStep
  <2>1. CASE NextBatch \/ LoadEvent \/ LoadDeviceDrops \/ Settle
    BY <1>1, <2>1 DEF NextBatch, LoadEvent, LoadDeviceDrops, Settle, relayVars, deviceVars
  <2>2. CASE Receive /\ ask[disp.ask].status = "invalid_token"
    BY <1>1, <2>2 DEF Receive, deviceVars
  <2>. QED
    BY <1>0, <1>2, <2>1, <2>2, PushKeepsStep, DispatcherKeepsStep DEF DispatcherStep
<1>3. CASE StatementFails
  <2>1. CASE disp.pc # "clear"
    BY <1>1, <1>3, <2>1 DEF StatementFails
  <2>. QED
    BY <1>0, <1>3, <2>1, DispatcherKeepsStep
<1>4. CASE DeviceChange
  BY <1>0, <1>4, StartKeepsStep, PatchKeepsStep, RevokerKeepsStep DEF DeviceChange, DeviceStep
<1>5. CASE \E j \in Jobs : (\E e \in Devices : Enqueue(j, e)) \/ BackoffElapsed(j) \/ RowDeleted(j)
  BY <1>1, <1>5 DEF Enqueue, BackoffElapsed, RowDeleted, relayVars, deviceVars
<1>. QED
  BY <1>0, <1>1, <1>2, <1>3, <1>4, <1>5, DeletionKeepsStep, CrashKeepsStep, HandlerKeepsStep
     DEF PushNext, pushVars, relayVars, deviceVars

-------------------------------------------------------------------------------
(* The invariant and what follows from it.                                 *)

\* The first state is in step.
LEMMA PushInitHolds == PushInit => PushInv
<1>. SUFFICES ASSUME PushInit PROVE PushInv
  OBVIOUS
<1>. USE PushRelayAssumption, DeviceTokensAssumption
<1>1. device \in [Devices -> DeviceRecords] /\ reg \in [Devices -> TokenPair]
      /\ \A d \in Devices : device[d].status = "active" /\ reg[d] = device[d].tokens
  BY DEF PushInit, DeviceRecords
<1>2. patch \in [Patches -> PatchRecords] /\ revoker \in [Revokers -> RevokerRecords]
  <2>1. NoTokens \in TokenPair
    BY DEF NoTokens, TokenPair
  <2>2. NoPatch \in PatchRecords /\ NoRevoker \in RevokerRecords
    BY <2>1 DEF NoPatch, NoRevoker, PatchRecords, RevokerRecords
  <2>. QED
    BY <2>2 DEF PushInit
<1>3. DeviceTypeOK
  BY <1>1, <1>2, DeviceTypeParts DEF PushInit, DeviceTables
<1>4. IsAsk(NoAsk) /\ NoAsk.pc = "idle" /\ ~NoAsk.waited /\ NoAsk.waited \in BOOLEAN /\ NoAsk.dev = None
  BY DEF NoAsk, IsAsk
<1>5. IsJob(NoJob) /\ NoJob.state = "none"
  BY DEF NoJob, IsJob
<1>6. IsDisp(IdleDisp) /\ IdleDisp.pc = "idle"
  BY DEF IdleDisp, IsDisp
<1>7. PushShape
  BY <1>1, <1>3, <1>4, <1>5, <1>6 DEF PushInit, PushShape, AskPcs, DispPcs
<1>8. AskInv
  BY <1>4, <1>6 DEF PushInit, AskInv
<1>9. IdleInv
  BY DEF PushInit, IdleInv, NoPatch, NoRevoker
<1>10. StepInv
  <2>. SUFFICES ASSUME NEW d \in Devices PROVE InStep(d)
    BY DEF StepInv
  <2>1. NoPatchOn(d) /\ NoRevokerOn(d) /\ NoAskOn(d)
    BY <1>4 DEF PushInit, NoPatchOn, NoRevokerOn, NoAskOn, NoPatch, NoRevoker
  <2>2. reg[d] = Registered(d)
    BY <1>1 DEF Registered
  <2>. QED
    BY <2>1, <2>2 DEF InStep, LonePatch, LoneRevoker, LoneAsk, NoPatchOn, NoRevokerOn, NoAskOn
<1>11. SentInv
  BY <1>4, <1>5, <1>6 DEF PushInit, SentInv, DeliveredWasAccepted
<1>. QED
  BY <1>7, <1>8, <1>9, <1>10, <1>11 DEF PushInv

\* The inductive invariant of push delivery: who waits for which answer, what an answer says, and
\* what a change of a device's tokens that runs alone knows of its row (push/dispatcher.go,
\* api/devices.go, relay/pusher.go).
THEOREM PushInvariant == PushSpec => []PushInv
<1>1. PushInit => PushInv
  BY PushInitHolds
<1>2. PushInv /\ [PushNext]_pushVars => PushInv'
  <2>. SUFFICES ASSUME PushInv, [PushNext]_pushVars PROVE PushInv'
    OBVIOUS
  <2>1. PushShape'
    BY ShapeStep
  <2>2. AskInv'
    BY AskStep
  <2>3. IdleInv'
    BY IdleStep
  <2>4. StepInv'
    BY StepStep
  <2>5. SentInv'
    BY <2>1, <2>2, SentStep
  <2>. QED
    BY <2>1, <2>2, <2>3, <2>4, <2>5 DEF PushInv
<1>. QED
  BY <1>1, <1>2, PTL DEF PushSpec

\* Whatever failed or crossed before, once a PATCH or a revocation has run alone and to its end,
\* the relay holds exactly the tokens of the row; a push refused afterwards keeps it so unless it
\* crosses a change or one of its statements or answers fails, the relay's own deletion included
\* (api/devices.go, relay/pusher.go:87).
THEOREM RelayHealsIntoStep == PushSpec => []RelayInStep
<1>1. PushInv => RelayInStep
  BY DEF PushInv, StepInv, InStep, RelayInStep
<1>. QED
  BY <1>1, PushInvariant, PTL

\* A job is marked as delivered only when a provider took it: no late, lost or misread answer
\* settles a job nobody was told about (push/dispatcher.go).
THEOREM DeliveriesWereAccepted == PushSpec => []DeliveredWasAccepted
<1>1. PushInv => DeliveredWasAccepted
  BY DEF PushInv, SentInv
<1>. QED
  BY <1>1, PushInvariant, PTL

-------------------------------------------------------------------------------
(* The queue: what is due, what is in the batch, and what an attempt left  *)
(* behind.                                                                 *)

JobRecords == [state : {"none", "pending", "delivered", "dropped", "gone"},
               dev : Devices \cup {None}, pushable : BOOLEAN, attempts : 0 .. (MaxAttempts - 1)]
DispRecords == [pc : DispPcs, batch : Seq(Jobs), ask : Asks \cup {None},
                verdict : {"none", "delivered", "failed", "dropped"}]
AskRecords == [pc : AskPcs, dev : Devices \cup {None}, req : Nat,
               token : ApnsTokens \cup FcmTokens \cup {None}, waited : BOOLEAN, status : Statuses]

\* What is due is pending, and due once.
DueInv ==
    /\ due \in Seq(Jobs) /\ IsInjective(due)
    /\ \A j \in Range(due) : job[j].state = "pending"

\* The batch holds distinct jobs that nobody but the dispatcher decides.
BatchInv ==
    /\ disp \in DispRecords
    /\ IsInjective(disp.batch)
    /\ \A j \in Range(disp.batch) : job[j].state \in {"pending", "gone"}
    /\ disp.pc # "idle" => disp.batch # <<>>

\* A row that was queued has a device, and an attempt counts only when another may follow.
RowInv ==
    /\ job \in [Jobs -> JobRecords]
    /\ \A j \in Jobs : IF job[j].state = "none" THEN job[j].dev = None ELSE job[j].dev \in Devices
    /\ disp.pc = "settle" =>
           /\ disp.verdict \in {"delivered", "failed", "dropped"}
           /\ disp.verdict = "failed" => job[current].attempts + 1 < MaxAttempts

\* A handler of the relay works for a device and a job.
CallInv ==
    /\ ask \in [Asks -> AskRecords]
    /\ \A a \in Asks : ask[a].pc # "idle" => ask[a].dev \in Devices /\ ask[a].req \in Jobs

CountInv ==
    /\ faults \in 0 .. MaxFaults /\ starts \in 0 .. MaxStarts
    /\ accepted \in [Jobs -> Nat] /\ unrecorded \in [Jobs -> Nat]

\* Requests that may still reach a provider although nobody waits for them.
Loose(j) == {a \in Asks : ~ask[a].waited /\ ask[a].pc \in {"posted", "sending"} /\ ask[a].req = j}

\* The job is in hand: the outcome of its attempt is not in its row.
InHand(j) == disp.pc \in {"device", "wait", "clear", "settle"} /\ current = j

\* The push of a job may be one whose outcome is recorded: its answer is on its way to the row,
\* or the row is not pending any more.
Accounted(j) ==
    IF InHand(j)
    THEN \/ disp.pc = "wait" /\ ask[disp.ask].pc = "answered" /\ ask[disp.ask].status = "sent"
         \/ disp.pc = "settle" /\ disp.verdict # "failed"
    ELSE job[j].state \in {"delivered", "dropped", "gone"}

\* Every push that was taken, and every loose request, is an attempt that was not recorded, but
\* for one that was.
Explained(j) == accepted[j] + Cardinality(Loose(j)) <= unrecorded[j] + IF Accounted(j) THEN 1 ELSE 0

QueueInv ==
    /\ DueInv /\ BatchInv /\ RowInv /\ CallInv /\ CountInv
    /\ \A j \in Jobs : Explained(j)

\* What a step may do to the row of a job.
RowMoves(j) ==
    \/ job'[j] = job[j]
    \/ /\ job[j].state = "none"
       /\ job'[j].state = "pending" /\ job'[j].dev \in Devices /\ job'[j] \in JobRecords
       /\ \E d \in Devices : Enqueue(j, d)
    \/ job[j].state # "none" /\ job'[j] = [job[j] EXCEPT !.state = "gone"]
    \/ Settle /\ j = current /\ job'[j] = SettledRow(job[j], disp.verdict)

\* Each row of the queue stays, is queued, goes, or is settled as the job in hand.
LEMMA RowsMove ==
    ASSUME PushInv, QueueInv, [PushNext]_pushVars
    PROVE  job' = [i \in Jobs |-> job'[i]] /\ \A j \in Jobs : RowMoves(j)
<1>0. job \in [Jobs -> JobRecords]
      /\ \A j \in Jobs : IF job[j].state = "none" THEN job[j].dev = None ELSE job[j].dev \in Devices
  BY DEF QueueInv, RowInv
<1>1. CASE UNCHANGED job
  BY <1>0, <1>1 DEF RowMoves
<1>2. ASSUME NEW j \in Jobs, NEW d \in Devices, Enqueue(j, d) PROVE job' = [i \in Jobs |-> job'[i]] /\ \A i \in Jobs : RowMoves(i)
  <2>1. PICK pushable \in BOOLEAN :
           job' = [job EXCEPT ![j] = [state |-> "pending", dev |-> d, pushable |-> pushable, attempts |-> 0]]
    BY <1>2 DEF Enqueue
  <2>2. job' = [i \in Jobs |-> job'[i]] /\ \A i \in Jobs \ {j} : job'[i] = job[i]
    BY <1>0, <2>1
  <2>3. job'[j].state = "pending" /\ job'[j].dev = d /\ job'[j] \in JobRecords /\ job[j].state = "none"
    BY <1>0, <1>2, <2>1, PushDispatchAssumption DEF JobRecords, Enqueue
  <2>. QED
    BY <1>2, <2>2, <2>3 DEF RowMoves
<1>3. ASSUME NEW j \in Jobs, RowDeleted(j) PROVE job' = [i \in Jobs |-> job'[i]] /\ \A i \in Jobs : RowMoves(i)
  BY <1>0, <1>3 DEF RowDeleted, RowMoves
<1>4. ASSUME NEW d \in Devices, DeleteDevice(d) PROVE job' = [i \in Jobs |-> job'[i]] /\ \A i \in Jobs : RowMoves(i)
  <2>1. job' = [j \in Jobs |-> IF job[j].dev = d THEN [job[j] EXCEPT !.state = "gone"] ELSE job[j]]
    BY <1>4 DEF DeleteDevice
  <2>2. \A j \in Jobs : job[j].dev = d => job[j].state # "none"
    BY <1>0, PushRelayAssumption
  <2>. QED
    BY <2>1, <2>2 DEF RowMoves
<1>5. CASE Settle
  <2>1. job' = [job EXCEPT ![current] = SettledRow(job[current], disp.verdict)]
    BY <1>5 DEF Settle
  <2>2. job' = [i \in Jobs |-> job'[i]] /\ \A i \in Jobs : job'[i] = IF i = current THEN SettledRow(job[i], disp.verdict) ELSE job[i]
    BY <1>0, <2>1
  <2>. QED
    BY <1>5, <2>2 DEF RowMoves
<1>6. CASE DispatcherStep /\ ~Settle
  BY <1>1, <1>6 DEF DispatcherStep, NextBatch, LoadEvent, LoadDeviceDrops, LoadDevicePushes, Receive,
                    NoAnswer, ClearTokens, queueVars
<1>7. CASE (\E j \in Jobs : BackoffElapsed(j)) \/ StatementFails \/ Crash \/ (\E a \in Asks : RelayStep(a)) \/ DeviceChange
  BY <1>1, <1>7 DEF BackoffElapsed, StatementFails, Crash, RelayStep, ProviderTakes, ProviderTakesUnheard, RefusalKept,
                     DeviceChange, queueVars
<1>. QED
  BY <1>1, <1>2, <1>3, <1>4, <1>5, <1>6, <1>7 DEF PushNext, pushVars, queueVars

\* What a step may do to the dispatcher.
DispMoves ==
    \/ disp' = disp
    \/ /\ NextBatch /\ disp.pc = "idle" /\ disp'.pc = "event"
       /\ \E n \in 1 .. Len(due) : disp'.batch = SubSeq(due, 1, n)
    \/ /\ disp.pc \in {"event", "device", "settle"} /\ disp'.pc \in {"event", "idle"}
       /\ disp'.batch = Tail(disp.batch)
       /\ disp'.pc = "event" => Len(disp.batch) > 1
    \/ disp' = IdleDisp
    \/ /\ disp.pc # "idle" /\ disp'.batch = disp.batch
       /\ disp'.pc \in {"device", "wait", "clear"}
    \/ /\ disp.pc # "idle" /\ disp'.batch = disp.batch
       /\ disp'.pc = "settle" /\ disp'.verdict \in {"delivered", "failed", "dropped"}
       /\ disp'.verdict = "failed" => job[current].attempts + 1 < MaxAttempts

\* A failure that may be retried is one that leaves an attempt.
LEMMA RetryLeavesAttempt ==
    ASSUME RowInv, current \in Jobs
    PROVE  /\ RetryVerdict \in {"dropped", "failed"}
           /\ RetryVerdict = "failed" => job[current].attempts + 1 < MaxAttempts
           /\ \A s \in Statuses \ {"none", "invalid_token"} :
                 /\ VerdictOf(s) \in {"delivered", "failed", "dropped"}
                 /\ VerdictOf(s) = "failed" => job[current].attempts + 1 < MaxAttempts
                 /\ VerdictOf(s) = "failed" \/ VerdictOf(s) = "dropped" <=> s # "sent"
<1>1. job[current].attempts \in Nat /\ MaxAttempts \in Nat
  BY PushDispatchAssumption DEF RowInv, JobRecords
<1>2. RetryVerdict \in {"dropped", "failed"} /\ (RetryVerdict = "failed" => job[current].attempts + 1 < MaxAttempts)
  BY <1>1 DEF RetryVerdict
<1>3. ASSUME NEW s \in Statuses \ {"none", "invalid_token"}
      PROVE  VerdictOf(s) = IF s = "sent" THEN "delivered" ELSE IF s = "bad_payload" THEN "dropped" ELSE RetryVerdict
  BY DEF VerdictOf, Statuses
<1>. QED
  BY <1>2, <1>3

\* The dispatcher stays, reads what is due, goes on to the next job, starts again, or goes on
\* with the job in hand.
LEMMA DispatcherMoves ==
    ASSUME PushInv, QueueInv, [PushNext]_pushVars
    PROVE  disp' \in DispRecords /\ DispMoves
<1>. USE PushDispatchAssumption
<1>0. PushShape /\ AskInv /\ RowInv /\ disp \in DispRecords /\ (disp.pc # "idle" => disp.batch # <<>>)
      /\ due \in Seq(Jobs) /\ IsInjective(due) /\ IsInjective(disp.batch)
  BY DEF PushInv, QueueInv, DueInv, BatchInv
<1>t. disp.pc # "idle" => current \in Jobs /\ Tail(disp.batch) \in Seq(Jobs)
  BY <1>0, TailDistinct DEF DispRecords, current
<1>1. CASE UNCHANGED disp
  BY <1>0, <1>1 DEF DispMoves
<1>2. ASSUME NEW pc \in {"device", "clear"}, disp.pc # "idle", disp' = [disp EXCEPT !.pc = pc]
      PROVE  disp' \in DispRecords /\ DispMoves
  BY <1>0, <1>2 DEF DispMoves, DispRecords, DispPcs
<1>3. ASSUME NEW v \in {"delivered", "failed", "dropped"}, disp.pc # "idle", disp' = Settles(v),
             v = "failed" => job[current].attempts + 1 < MaxAttempts
      PROVE  disp' \in DispRecords /\ DispMoves
  <2>1. disp' \in DispRecords
    BY <1>0, <1>3 DEF Settles, DispRecords, DispPcs
  <2>2. disp'.pc = "settle" /\ disp'.verdict = v /\ disp'.batch = disp.batch
    BY <1>0, <1>3, DispSettles
  <2>. QED
    BY <1>3, <2>1, <2>2 DEF DispMoves
<1>4. ASSUME disp' = Advanced, disp.pc \in {"event", "device", "settle"}
      PROVE  disp' \in DispRecords /\ DispMoves
  <2>1. PICK t : t = Tail(disp.batch) /\ t \in Seq(Jobs)
    BY <1>t, <1>4
  <2>2. disp' = [pc |-> IF Len(disp.batch) > 1 THEN "event" ELSE "idle", batch |-> t, ask |-> None, verdict |-> "none"]
    BY <1>4, <2>1 DEF Advanced, IdleDisp
  <2>3. disp' \in DispRecords
    BY <2>1, <2>2 DEF DispRecords, DispPcs
  <2>4. disp'.pc \in {"event", "idle"} /\ disp'.batch = Tail(disp.batch) /\ (disp'.pc = "event" => Len(disp.batch) > 1)
    BY <2>1, <2>2
  <2>. QED
    BY <1>4, <2>3, <2>4 DEF DispMoves
<1>5. CASE Crash
  BY <1>5 DEF Crash, IdleDisp, DispRecords, DispPcs, DispMoves
<1>6. ASSUME NEW a \in Asks, LoadDevicePushes(a) PROVE disp' \in DispRecords /\ DispMoves
  <2>1. disp' = [disp EXCEPT !.pc = "wait", !.ask = a] /\ disp.pc = "device"
    BY <1>6 DEF LoadDevicePushes
  <2>2. disp' \in DispRecords
    BY <1>0, <2>1 DEF DispRecords, DispPcs
  <2>3. disp'.pc = "wait" /\ disp'.batch = disp.batch
    BY <1>0, <2>1, DispWaits
  <2>. QED
    BY <2>1, <2>2, <2>3 DEF DispMoves
<1>7. CASE NextBatch
  <2>1. PICK n : n = MinOf(BatchSize, Len(due))
    OBVIOUS
  <2>2. n \in 1 .. Len(due)
    BY <1>0, <1>7, <2>1 DEF MinOf, NextBatch
  <2>3. PICK b : b = SubSeq(due, 1, n) /\ b \in Seq(Jobs)
    BY <1>0, <2>2, PrefixDistinct
  <2>4. disp' = [pc |-> "event", batch |-> b, ask |-> None, verdict |-> "none"] /\ disp.pc = "idle"
    BY <1>7, <2>1, <2>3 DEF NextBatch, IdleDisp
  <2>5. disp' \in DispRecords
    BY <2>3, <2>4 DEF DispRecords, DispPcs
  <2>6. disp'.pc = "event" /\ disp'.batch = SubSeq(due, 1, n)
    BY <2>3, <2>4
  <2>. QED
    BY <1>7, <2>2, <2>4, <2>5, <2>6 DEF DispMoves
<1>8. CASE Receive
  <2>1. disp.pc = "wait" /\ disp.ask \in Asks /\ ask[disp.ask].status \in Statuses \ {"none"} /\ current \in Jobs
    BY <1>0, <1>8, <1>t DEF Receive, AskInv
  <2>2. CASE ask[disp.ask].status = "invalid_token"
    BY <1>2, <1>8, <2>1, <2>2 DEF Receive
  <2>3. CASE ask[disp.ask].status # "invalid_token"
    BY <1>0, <1>3, <1>8, <2>1, <2>3, RetryLeavesAttempt DEF Receive
  <2>. QED
    BY <2>2, <2>3
<1>9. CASE DispatcherStep
  <2>1. CASE LoadEvent
    BY <1>2, <1>3, <2>1 DEF LoadEvent
  <2>2. CASE LoadDeviceDrops
    BY <1>3, <2>2 DEF LoadDeviceDrops
  <2>3. CASE NoAnswer
    BY <1>0, <1>3, <1>t, <2>3, RetryLeavesAttempt DEF NoAnswer, SilenceRetries
  <2>4. CASE ClearTokens
    BY <1>3, <2>4 DEF ClearTokens
  <2>5. CASE Settle
    BY <1>4, <2>5 DEF Settle
  <2>. QED
    BY <1>6, <1>7, <1>8, <1>9, <2>1, <2>2, <2>3, <2>4, <2>5 DEF DispatcherStep
<1>10. CASE StatementFails
  <2>1. CASE disp.pc = "clear"
    BY <1>3, <1>10, <2>1 DEF StatementFails
  <2>2. CASE disp.pc # "clear"
    BY <1>4, <1>10, <2>2 DEF StatementFails
  <2>. QED
    BY <2>1, <2>2
<1>11. CASE \/ \E j \in Jobs : (\E d \in Devices : Enqueue(j, d)) \/ BackoffElapsed(j) \/ RowDeleted(j)
            \/ \E d \in Devices : DeleteDevice(d)
            \/ \E a \in Asks : RelayStep(a)
            \/ DeviceChange
  BY <1>1, <1>11 DEF Enqueue, BackoffElapsed, RowDeleted, DeleteDevice, RelayStep, ProviderTakes, ProviderTakesUnheard, RefusalKept,
                     DeviceChange
<1>. QED
  BY <1>1, <1>5, <1>9, <1>10, <1>11 DEF PushNext, pushVars

\* The queue is read in order: every step keeps what is due pending, and due once.
LEMMA DueStep ==
    ASSUME PushInv, QueueInv, [PushNext]_pushVars
    PROVE  DueInv'
<1>0. /\ due \in Seq(Jobs) /\ IsInjective(due) /\ \A j \in Range(due) : job[j].state = "pending"
      /\ job \in [Jobs -> JobRecords]
  BY DEF QueueInv, DueInv, RowInv
<1>r. DOMAIN due = 1 .. Len(due) /\ \A j : j \in Range(due) <=> \E i \in 1 .. Len(due) : due[i] = j
  BY <1>0 DEF Range
<1>1. CASE UNCHANGED queueVars
  BY <1>0, <1>1 DEF DueInv, queueVars
<1>2. ASSUME NEW j \in Jobs, NEW d \in Devices, Enqueue(j, d) PROVE DueInv'
  <2>1. /\ due' = Append(due, j) /\ job[j].state = "none"
        /\ job'[j].state = "pending" /\ \A i \in Jobs \ {j} : job'[i] = job[i]
    BY <1>0, <1>2 DEF Enqueue
  <2>2. j \notin Range(due)
    BY <1>0, <2>1
  <2>3. due' \in Seq(Jobs) /\ IsInjective(due') /\ Range(due') = Range(due) \cup {j}
    BY <1>0, <2>1, <2>2, AppendDistinct
  <2>4. \A i \in Range(due) : i \in Jobs
    BY <1>0, <1>r
  <2>. QED
    BY <1>0, <2>1, <2>3, <2>4 DEF DueInv
<1>3. ASSUME NEW j \in Jobs, BackoffElapsed(j) PROVE DueInv'
  <2>1. due' = Append(due, j) /\ job' = job /\ job[j].state = "pending" /\ j \notin Range(due)
    BY <1>3, <1>r DEF BackoffElapsed
  <2>2. due' \in Seq(Jobs) /\ IsInjective(due') /\ Range(due') = Range(due) \cup {j}
    BY <1>0, <2>1, AppendDistinct
  <2>. QED
    BY <1>0, <2>1, <2>2 DEF DueInv
<1>4. ASSUME NEW T, due' = SelectIn(due, T), \A j \in Range(due) \cap T : job'[j] = job[j] PROVE DueInv'
  <2>1. due' \in Seq(Jobs) /\ IsInjective(due') /\ Range(due') = Range(due) \cap T
    BY <1>0, <1>4, SelectInDistinct
  <2>. QED
    BY <1>0, <1>4, <2>1 DEF DueInv
<1>5. ASSUME NEW j \in Jobs, RowDeleted(j) PROVE DueInv'
  <2>1. due' = SelectIn(due, Jobs \ {j}) /\ \A i \in Jobs \ {j} : job'[i] = job[i]
    BY <1>0, <1>5 DEF RowDeleted, Without
  <2>. QED
    BY <1>4, <2>1
<1>6. ASSUME NEW d \in Devices, DeleteDevice(d) PROVE DueInv'
  <2>1. /\ due' = SelectIn(due, {j \in Jobs : job[j].dev # d})
        /\ job' = [j \in Jobs |-> IF job[j].dev = d THEN [job[j] EXCEPT !.state = "gone"] ELSE job[j]]
    BY <1>6 DEF DeleteDevice
  <2>2. \A i \in Jobs : job[i].dev # d => job'[i] = job[i]
    BY <2>1
  <2>. QED
    BY <1>4, <2>1, <2>2
<1>7. CASE Settle
  <2>1. due' = SelectIn(due, Jobs \ {current}) /\ job' = [job EXCEPT ![current] = SettledRow(job[current], disp.verdict)]
    BY <1>7 DEF Settle, Without
  <2>2. \A i \in Jobs \ {current} : job'[i] = job[i]
    BY <1>0, <2>1
  <2>. QED
    BY <1>4, <2>1, <2>2
<1>8. CASE DispatcherStep /\ ~Settle
  BY <1>1, <1>8 DEF DispatcherStep, NextBatch, LoadEvent, LoadDeviceDrops, LoadDevicePushes, Receive,
                    NoAnswer, ClearTokens
<1>9. CASE StatementFails \/ Crash \/ (\E a \in Asks : RelayStep(a)) \/ DeviceChange
  BY <1>1, <1>9 DEF StatementFails, Crash, RelayStep, ProviderTakes, ProviderTakesUnheard, RefusalKept,
                     DeviceChange
<1>. QED
  BY <1>1, <1>2, <1>3, <1>5, <1>6, <1>7, <1>8, <1>9 DEF PushNext, pushVars

\* A step decides no job of the batch but the one in hand, and that one leaves the batch.
LEMMA BatchStep ==
    ASSUME PushInv, QueueInv, [PushNext]_pushVars
    PROVE  BatchInv'
<1>1. disp' \in DispRecords /\ DispMoves /\ \A j \in Jobs : RowMoves(j)
  BY DispatcherMoves, RowsMove
<1>2. /\ disp \in DispRecords /\ disp.batch \in Seq(Jobs) /\ IsInjective(disp.batch)
      /\ \A j \in Range(disp.batch) : job[j].state \in {"pending", "gone"}
      /\ disp.pc # "idle" => disp.batch # <<>>
      /\ due \in Seq(Jobs) /\ IsInjective(due) /\ \A j \in Range(due) : job[j].state = "pending"
      /\ job \in [Jobs -> JobRecords]
  BY DEF QueueInv, BatchInv, DueInv, RowInv, DispRecords
<1>3. Range(disp.batch) \subseteq Jobs /\ Range(due) \subseteq Jobs
  <2>1. DOMAIN disp.batch = 1 .. Len(disp.batch) /\ \A i \in 1 .. Len(disp.batch) : disp.batch[i] \in Jobs
    BY <1>2
  <2>2. DOMAIN due = 1 .. Len(due) /\ \A i \in 1 .. Len(due) : due[i] \in Jobs
    BY <1>2
  <2>. QED
    BY <2>1, <2>2 DEF Range
<1>4. ASSUME NEW j \in Jobs, job[j].state \in {"pending", "gone"}, ~(Settle /\ j = current)
      PROVE  job'[j].state \in {"pending", "gone"}
  <2>1. job[j] \in JobRecords
    BY <1>2
  <2>. QED
    BY <1>1, <1>4, <2>1 DEF RowMoves, JobRecords
<1>5. ASSUME ~Settle, disp'.batch = disp.batch, disp'.pc # "idle" => disp.pc # "idle" PROVE BatchInv'
  BY <1>1, <1>2, <1>3, <1>4, <1>5 DEF BatchInv
<1>6. CASE Settle
  <2>1. disp.pc = "settle" /\ disp' = Advanced
    BY <1>6 DEF Settle
  <2>2. disp'.batch = Tail(disp.batch) /\ (disp'.pc # "idle" => Len(disp.batch) > 1)
    BY <2>1 DEF Advanced, IdleDisp
  <2>3. /\ IsInjective(disp'.batch) /\ Range(disp'.batch) = Range(disp.batch) \ {current}
        /\ disp'.pc # "idle" => disp'.batch # <<>>
    BY <1>2, <2>1, <2>2, TailDistinct DEF current
  <2>. QED
    BY <1>1, <1>2, <1>3, <1>4, <2>3 DEF BatchInv
<1>7. CASE /\ ~Settle
           /\ disp.pc \in {"event", "device", "settle"} /\ disp'.pc \in {"event", "idle"}
           /\ disp'.batch = Tail(disp.batch)
           /\ disp'.pc = "event" => Len(disp.batch) > 1
  <2>1. /\ IsInjective(disp'.batch) /\ Range(disp'.batch) \subseteq Range(disp.batch)
        /\ disp'.pc # "idle" => disp'.batch # <<>>
    BY <1>2, <1>7, TailDistinct
  <2>. QED
    BY <1>1, <1>2, <1>3, <1>4, <1>7, <2>1 DEF BatchInv
<1>8. CASE NextBatch /\ \E n \in 1 .. Len(due) : disp'.batch = SubSeq(due, 1, n)
  <2>1. PICK n \in 1 .. Len(due) : disp'.batch = SubSeq(due, 1, n)
    BY <1>8
  <2>2. due \in Seq(Jobs) /\ IsInjective(due)
    BY <1>2
  <2>3. /\ IsInjective(SubSeq(due, 1, n)) /\ Range(SubSeq(due, 1, n)) \subseteq Range(due)
        /\ SubSeq(due, 1, n) # <<>>
    BY ONLY <2>2, PrefixDistinct
  <2>4. IsInjective(disp'.batch) /\ Range(disp'.batch) \subseteq Range(due) /\ disp'.batch # <<>>
    BY ONLY <2>1, <2>3
  <2>5. job' = job
    BY <1>8 DEF NextBatch, queueVars
  <2>. QED
    BY <1>1, <1>2, <2>4, <2>5 DEF BatchInv
<1>9. CASE disp' = IdleDisp
  <2>1. disp'.batch = <<>> /\ disp'.pc = "idle" /\ Range(<<>>) = {} /\ IsInjective(<<>>)
    BY <1>9 DEF IdleDisp, Range, IsInjective
  <2>. QED
    BY <1>1, <2>1 DEF BatchInv
<1>. QED
  BY <1>1, <1>5, <1>6, <1>7, <1>8, <1>9 DEF DispMoves

\* Rows keep their types, and an attempt counts only when another may follow.
LEMMA RowStep ==
    ASSUME PushInv, QueueInv, [PushNext]_pushVars
    PROVE  RowInv'
<1>1. disp' \in DispRecords /\ DispMoves /\ job' = [i \in Jobs |-> job'[i]] /\ \A j \in Jobs : RowMoves(j)
  BY DispatcherMoves, RowsMove
<1>2. /\ disp.batch \in Seq(Jobs) /\ (disp.pc # "idle" => disp.batch # <<>>)
      /\ \A j \in Range(disp.batch) : job[j].state \in {"pending", "gone"}
      /\ job \in [Jobs -> JobRecords]
      /\ \A j \in Jobs : IF job[j].state = "none" THEN job[j].dev = None ELSE job[j].dev \in Devices
      /\ disp.pc = "settle" =>
             /\ disp.verdict \in {"delivered", "failed", "dropped"}
             /\ disp.verdict = "failed" => job[current].attempts + 1 < MaxAttempts
      /\ IsInjective(disp.batch)
  BY DEF QueueInv, BatchInv, RowInv, DispRecords
<1>3. disp.pc # "idle" => current \in Jobs /\ current \in Range(disp.batch)
  BY <1>2, TailDistinct DEF current
<1>4. ASSUME NEW j \in Jobs
      PROVE  /\ job'[j] \in JobRecords
             /\ IF job'[j].state = "none" THEN job'[j].dev = None ELSE job'[j].dev \in Devices
             /\ job[j].state # "none" /\ ~(Settle /\ j = current) => job'[j].attempts = job[j].attempts
  <2>1. job[j] \in JobRecords /\ MaxAttempts \in Nat \ {0}
    BY <1>2, PushDispatchAssumption
  <2>2. CASE job'[j] = job[j]
    BY <1>2, <2>1, <2>2
  <2>3. CASE job[j].state = "none" /\ job'[j].state = "pending" /\ job'[j].dev \in Devices /\ job'[j] \in JobRecords
    BY <2>1, <2>3
  <2>4. CASE job[j].state # "none" /\ job'[j] = [job[j] EXCEPT !.state = "gone"]
    BY <1>2, <2>1, <2>4 DEF JobRecords
  <2>5. CASE Settle /\ j = current /\ job'[j] = SettledRow(job[j], disp.verdict)
    <3>1. disp.pc = "settle"
      BY <2>5 DEF Settle
    <3>2. job[j].state \in {"pending", "gone"} /\ job[j].dev \in Devices
      BY <1>2, <1>3, <2>5, <3>1
    <3>3. CASE job[j].state = "gone"
      BY <2>1, <2>5, <3>2, <3>3 DEF SettledRow
    <3>4. CASE job[j].state # "gone" /\ disp.verdict = "failed"
      <4>1. job'[j] = [job[j] EXCEPT !.attempts = @ + 1] /\ job[j].attempts + 1 < MaxAttempts
        BY <1>2, <2>5, <3>1, <3>4 DEF SettledRow
      <4>2. job[j].attempts \in Nat /\ job[j].attempts + 1 \in 0 .. (MaxAttempts - 1)
        BY <2>1, <4>1 DEF JobRecords
      <4>. QED
        BY <2>1, <2>5, <3>2, <4>1, <4>2 DEF JobRecords
    <3>5. CASE job[j].state # "gone" /\ disp.verdict \in {"delivered", "dropped"}
      <4>1. job'[j] = [job[j] EXCEPT !.state = disp.verdict]
        BY <2>5, <3>5 DEF SettledRow
      <4>. QED
        BY <2>1, <2>5, <3>2, <3>5, <4>1 DEF JobRecords
    <3>. QED
      BY <1>2, <3>1, <3>3, <3>4, <3>5
  <2>. QED
    BY <1>1, <2>2, <2>3, <2>4, <2>5 DEF RowMoves
<1>5. ASSUME ~Settle, disp.pc # "idle", disp'.batch = disp.batch
      PROVE  current' = current /\ job'[current].attempts = job[current].attempts
  BY <1>2, <1>3, <1>4, <1>5 DEF current
<1>6. disp'.pc = "settle" =>
          /\ disp'.verdict \in {"delivered", "failed", "dropped"}
          /\ disp'.verdict = "failed" => job'[current'].attempts + 1 < MaxAttempts
  <2>0. Settle => disp'.pc # "settle"
    BY DispAdvances DEF Settle
  <2>1. CASE disp' = disp /\ ~Settle
    BY <1>2, <1>5, <2>1
  <2>2. CASE /\ disp.pc # "idle" /\ disp'.batch = disp.batch /\ ~Settle
             /\ disp'.pc = "settle" /\ disp'.verdict \in {"delivered", "failed", "dropped"}
             /\ disp'.verdict = "failed" => job[current].attempts + 1 < MaxAttempts
    BY <1>5, <2>2
  <2>. QED
    BY <1>1, <2>0, <2>1, <2>2 DEF DispMoves, IdleDisp
<1>. QED
  BY <1>1, <1>4, <1>6 DEF RowInv

\* The job in hand is a row that was queued, for a device.
LEMMA CurrentQueued ==
    ASSUME QueueInv, disp.pc # "idle"
    PROVE  /\ current \in Jobs /\ current \in Range(disp.batch)
           /\ job[current].state \in {"pending", "gone"} /\ job[current].dev \in Devices
<1>1. /\ disp.batch \in Seq(Jobs) /\ disp.batch # <<>> /\ IsInjective(disp.batch)
      /\ \A j \in Range(disp.batch) : job[j].state \in {"pending", "gone"}
      /\ \A j \in Jobs : IF job[j].state = "none" THEN job[j].dev = None ELSE job[j].dev \in Devices
  BY DEF QueueInv, BatchInv, RowInv, DispRecords
<1>2. current \in Jobs /\ current \in Range(disp.batch)
  BY <1>1, TailDistinct DEF current
<1>. QED
  BY <1>1, <1>2

\* An answer, and a handler that goes on to the provider, keep the types of the handler.
LEMMA AnswerTyped ==
    ASSUME NEW r \in AskRecords, NEW s \in Statuses, NEW t \in ApnsTokens \cup FcmTokens \cup {None}
    PROVE  /\ [r EXCEPT !.pc = "answered", !.status = s] \in AskRecords
           /\ [r EXCEPT !.pc = "sending", !.token = t] \in AskRecords
           /\ [r EXCEPT !.pc = "refused"] \in AskRecords
           /\ [r EXCEPT !.waited = FALSE] \in AskRecords
           /\ [r EXCEPT !.pc = "answered", !.status = s].dev = r.dev
           /\ [r EXCEPT !.pc = "answered", !.status = s].req = r.req
           /\ NoAsk \in AskRecords /\ NoAsk.pc = "idle"
BY DEF AskRecords, AskPcs, NoAsk, Statuses

\* A handler keeps its types, its device and its job.
LEMMA CallStep ==
    ASSUME PushInv, QueueInv, [PushNext]_pushVars
    PROVE  CallInv'
<1>0. /\ ask \in [Asks -> AskRecords] /\ PushShape /\ AskInv
      /\ \A a \in Asks : ask[a].pc # "idle" => ask[a].dev \in Devices /\ ask[a].req \in Jobs
      /\ NoAsk \in AskRecords /\ NoAsk.pc = "idle"
  BY AnswerTyped DEF QueueInv, CallInv, PushInv, AskRecords, NoAsk, AskPcs, Statuses
<1>1. CASE UNCHANGED ask
  BY <1>0, <1>1 DEF CallInv
<1>2. CASE \E a \in Asks : ask' = [ask EXCEPT ![a] = NoAsk]
  BY <1>0, <1>2 DEF CallInv
<1>u. ASSUME NEW a \in Asks, ask[a].pc # "idle"
      PROVE  Unwaited(a) \in AskRecords /\ (Unwaited(a).pc # "idle" => Unwaited(a).dev \in Devices /\ Unwaited(a).req \in Jobs)
  <2>1. CASE ask[a].pc = "answered"
    BY <1>0, <2>1 DEF Unwaited
  <2>2. CASE ask[a].pc # "answered"
    <3>1. PICK r : r = ask[a] /\ r \in AskRecords
      BY <1>0
    <3>2. Unwaited(a) = [r EXCEPT !.waited = FALSE]
      BY <2>2, <3>1 DEF Unwaited
    <3>3. [r EXCEPT !.waited = FALSE] \in AskRecords
      BY <3>1 DEF AskRecords
    <3>4. [r EXCEPT !.waited = FALSE].dev = r.dev /\ [r EXCEPT !.waited = FALSE].req = r.req
      BY <3>1 DEF AskRecords
    <3>. QED
      BY <1>0, <1>u, <3>1, <3>2, <3>3, <3>4
  <2>. QED
    BY <2>1, <2>2
<1>3. ASSUME NEW a \in Asks, LoadDevicePushes(a) PROVE CallInv'
  <2>1. current \in Jobs /\ job[current].dev \in Devices /\ current \in Nat
    BY <1>3, CurrentQueued DEF LoadDevicePushes, Jobs
  <2>2. PICK r : r = [NoAsk EXCEPT !.pc = "posted", !.dev = job[current].dev, !.req = current, !.waited = TRUE]
    OBVIOUS
  <2>3. ask' = [ask EXCEPT ![a] = r]
    BY <1>3, <2>2 DEF LoadDevicePushes
  <2>4. r \in AskRecords /\ r.dev = job[current].dev /\ r.req = current
    BY <2>1, <2>2 DEF NoAsk, AskRecords, AskPcs, Statuses
  <2>. QED
    BY <1>0, <2>1, <2>3, <2>4 DEF CallInv
<1>4. CASE NoAnswer
  <2>1. disp.ask \in Asks /\ ask[disp.ask].waited /\ ask' = [ask EXCEPT ![disp.ask] = Unwaited(disp.ask)]
    BY <1>0, <1>4 DEF NoAnswer, AskInv
  <2>2. ask[disp.ask].pc # "idle"
    BY <1>0, <2>1 DEF AskInv, NoAsk
  <2>. QED
    BY <1>0, <1>u, <2>1, <2>2 DEF CallInv
<1>5. CASE Crash
  <2>1. ask' = [a \in Asks |-> IF ask[a].waited THEN Unwaited(a) ELSE ask[a]]
    BY <1>5 DEF Crash
  <2>2. \A a \in Asks : ask[a].waited => ask[a].pc # "idle"
    BY <1>0 DEF AskInv, NoAsk
  <2>. QED
    BY <1>0, <1>u, <2>1, <2>2 DEF CallInv
<1>6. ASSUME NEW a \in Asks, RelayStep(a) PROVE CallInv'
  <2>0. ask[a] \in AskRecords /\ ask[a].dev \in Devices /\ ask[a].req \in Jobs /\ ask[a].pc # "idle"
        /\ reg \in [Devices -> TokenPair]
    <3>1. ask[a].pc # "idle"
      BY <1>6, HandlerFrame DEF HandlerStep
    <3>. QED
      BY <1>0, <3>1 DEF PushShape
  <2>1. ASSUME NEW s \in Statuses, ask' = Answered(a, s) PROVE CallInv'
    <3>1. ask' = [ask EXCEPT ![a] = IF ask[a].waited THEN [ask[a] EXCEPT !.pc = "answered", !.status = s] ELSE NoAsk]
      BY <1>0, <2>1 DEF Answered
    <3>2. [ask[a] EXCEPT !.pc = "answered", !.status = s] \in AskRecords
          /\ [ask[a] EXCEPT !.pc = "answered", !.status = s].dev = ask[a].dev
          /\ [ask[a] EXCEPT !.pc = "answered", !.status = s].req = ask[a].req
      BY <2>0, AnswerTyped
    <3>. QED
      BY <1>0, <2>0, <3>1, <3>2 DEF CallInv
  <2>2. CASE ProviderTakes(a)
    BY <2>1, <2>2 DEF ProviderTakes, ProviderAccepts, Statuses
  <2>2a. CASE ProviderTakesUnheard(a)
    BY <2>1, <2>2a DEF ProviderTakesUnheard, ProviderAnswerLost, Statuses
  <2>3. CASE RelayLoad(a)
    <3>1. CASE ask' = [ask EXCEPT ![a] = [ask[a] EXCEPT !.pc = "sending", !.token = selectSender(ask[a].dev)]]
      <4>1. PICK t : t = selectSender(ask[a].dev)
        OBVIOUS
      <4>2. t \in ApnsTokens \cup FcmTokens \cup {None}
        BY <2>0, <4>1 DEF selectSender, TokenPair
      <4>3. PICK r : r = [ask[a] EXCEPT !.pc = "sending", !.token = t]
        OBVIOUS
      <4>4. r \in AskRecords /\ r.dev = ask[a].dev /\ r.req = ask[a].req
        BY <2>0, <4>2, <4>3 DEF AskRecords, AskPcs
      <4>. QED
        BY <1>0, <2>0, <3>1, <4>1, <4>3, <4>4 DEF CallInv
    <3>. QED
      BY <2>1, <2>3, <3>1 DEF RelayLoad, Statuses
  <2>4. CASE ProviderRefuses(a)
    <3>1. PICK r : r = [ask[a] EXCEPT !.pc = "refused"]
      OBVIOUS
    <3>2. ask' = [ask EXCEPT ![a] = r]
      BY <2>4, <3>1 DEF ProviderRefuses
    <3>3. r \in AskRecords /\ r.dev = ask[a].dev /\ r.req = ask[a].req
      BY <2>0, <3>1 DEF AskRecords, AskPcs
    <3>. QED
      BY <1>0, <2>0, <3>2, <3>3 DEF CallInv
  <2>5. CASE ProviderFails(a)
    BY <2>1, <2>5 DEF ProviderFails, Statuses
  <2>6. CASE ForgetRegistration(a) \/ RefusalKept(a)
    BY <2>1, <2>6 DEF ForgetRegistration, RefusalKept, ForgetFails, Statuses
  <2>7. CASE RelayAbandons(a)
    BY <1>2, <2>7 DEF RelayAbandons
  <2>. QED
    BY <1>6, <2>2, <2>2a, <2>3, <2>4, <2>5, <2>6, <2>7 DEF RelayStep
<1>7. CASE DispatcherStep
  <2>1. CASE NextBatch \/ LoadEvent \/ LoadDeviceDrops \/ Settle
    BY <1>1, <2>1 DEF NextBatch, LoadEvent, LoadDeviceDrops, Settle, relayVars
  <2>2. CASE Receive
    BY <1>0, <1>1, <1>2, <2>2 DEF Receive, AskInv
  <2>3. CASE ClearTokens
    BY <1>0, <1>2, <2>3 DEF ClearTokens, AskInv
  <2>. QED
    BY <1>3, <1>4, <1>7, <2>1, <2>2, <2>3 DEF DispatcherStep
<1>8. CASE StatementFails
  BY <1>0, <1>1, <1>2, <1>8 DEF StatementFails, AskInv
<1>9. CASE \/ \E j \in Jobs : (\E d \in Devices : Enqueue(j, d)) \/ BackoffElapsed(j) \/ RowDeleted(j)
           \/ \E d \in Devices : DeleteDevice(d)
           \/ DeviceChange
  BY <1>1, <1>9 DEF Enqueue, BackoffElapsed, RowDeleted, DeleteDevice, DeleteRevoked, DeviceChange, relayVars,
         DeviceStart, DeviceStep, PatchStart, RevokeStart, PatchGet, PatchWrite, PatchReread, PatchRelay,
         PatchFail, Revoke, RevokeRelay, RevokeFail
<1>. QED
  BY <1>1, <1>5, <1>6, <1>7, <1>8, <1>9 DEF PushNext, pushVars, relayVars

\* Counters count, and stay within their bounds.
LEMMA CountStep ==
    ASSUME PushInv, QueueInv, [PushNext]_pushVars
    PROVE  CountInv'
<1>0. /\ faults \in 0 .. MaxFaults /\ starts \in 0 .. MaxStarts
      /\ accepted \in [Jobs -> Nat] /\ unrecorded \in [Jobs -> Nat]
      /\ MaxFaults \in Nat /\ MaxStarts \in Nat
      /\ \A a \in Asks : ask[a].pc # "idle" => ask[a].req \in Jobs
  BY PushDispatchAssumption DEF QueueInv, CountInv, CallInv
<1>1. CASE UNCHANGED auxVars
  BY <1>0, <1>1 DEF CountInv, auxVars
<1>2. disp.pc # "idle" => [unrecorded EXCEPT ![current] = @ + 1] \in [Jobs -> Nat]
  BY <1>0, CurrentQueued
<1>3. ASSUME NEW a \in Asks, ProviderTakes(a) PROVE CountInv'
  <2>1. ask[a].req \in Jobs
    BY <1>0, <1>3 DEF ProviderTakes, ProviderAccepts
  <2>2. accepted' \in [Jobs -> Nat]
    BY <1>0, <1>3, <2>1 DEF ProviderTakes
  <2>. QED
    BY <1>0, <1>3, <2>2 DEF ProviderTakes, CountInv
<1>3a. ASSUME NEW a \in Asks, ProviderTakesUnheard(a) PROVE CountInv'
  <2>1. ask[a].req \in Jobs
    BY <1>0, <1>3a DEF ProviderTakesUnheard, ProviderAnswerLost
  <2>2. accepted' \in [Jobs -> Nat] /\ unrecorded' \in [Jobs -> Nat]
    BY <1>0, <1>3a, <2>1 DEF ProviderTakesUnheard
  <2>. QED
    BY <1>0, <1>3a, <2>2 DEF ProviderTakesUnheard, CountInv
<1>4. CASE NoAnswer
  BY <1>0, <1>2, <1>4 DEF NoAnswer, CountInv
<1>5. CASE StatementFails
  <2>1. unrecorded' \in [Jobs -> Nat]
    BY <1>0, <1>2, <1>5 DEF StatementFails
  <2>2. faults' \in 0 .. MaxFaults
    BY <1>0, <1>5 DEF StatementFails
  <2>. QED
    BY <1>0, <1>5, <2>1, <2>2 DEF StatementFails, CountInv
<1>6. CASE Crash
  <2>1. unrecorded' \in [Jobs -> Nat]
    BY <1>0, <1>2, <1>6 DEF Crash
  <2>2. faults' \in 0 .. MaxFaults
    BY <1>0, <1>6 DEF Crash
  <2>. QED
    BY <1>0, <1>6, <2>1, <2>2 DEF Crash, CountInv
<1>7. CASE DeviceChange
  <2>1. starts' \in 0 .. MaxStarts
    BY <1>0, <1>7 DEF DeviceChange
  <2>. QED
    BY <1>0, <1>7, <2>1 DEF DeviceChange, CountInv
<1>8. CASE DispatcherStep /\ ~NoAnswer
  BY <1>1, <1>8 DEF DispatcherStep, NextBatch, LoadEvent, LoadDeviceDrops, LoadDevicePushes, Receive,
                    ClearTokens, Settle
<1>9. CASE \/ \E j \in Jobs : (\E d \in Devices : Enqueue(j, d)) \/ BackoffElapsed(j) \/ RowDeleted(j)
           \/ \E d \in Devices : DeleteDevice(d)
           \/ \E a \in Asks : RelayStep(a)
  BY <1>1, <1>3, <1>3a, <1>9 DEF Enqueue, BackoffElapsed, RowDeleted, DeleteDevice, RelayStep, RefusalKept, auxVars
<1>. QED
  BY <1>1, <1>4, <1>5, <1>6, <1>7, <1>8, <1>9 DEF PushNext, pushVars

\* Six ways in which a step keeps the account of a job: it adds nothing; a push is taken that
\* the dispatcher waits for; a loose one is taken; one is taken and its outcome lost at once; an
\* outcome is lost after the request ended; or it is lost with the request still on its way.
Quiet(j) ==
    /\ accepted'[j] = accepted[j] /\ unrecorded'[j] = unrecorded[j]
    /\ Loose(j)' \subseteq Loose(j)
    /\ Accounted(j) => Accounted(j)'
TakenInHand(j) ==
    /\ accepted'[j] = accepted[j] + 1 /\ unrecorded'[j] = unrecorded[j]
    /\ Loose(j)' \subseteq Loose(j)
    /\ ~Accounted(j) /\ Accounted(j)'
TakenLoose(j) ==
    /\ accepted'[j] = accepted[j] + 1 /\ unrecorded'[j] = unrecorded[j]
    /\ \E a \in Loose(j) : Loose(j)' \subseteq Loose(j) \ {a}
    /\ Accounted(j) => Accounted(j)'
TakenAndLost(j) ==
    /\ accepted'[j] = accepted[j] + 1 /\ unrecorded'[j] = unrecorded[j] + 1
    /\ Loose(j)' \subseteq Loose(j)
    /\ Accounted(j) => Accounted(j)'
Lost(j) ==
    /\ accepted'[j] = accepted[j] /\ unrecorded'[j] = unrecorded[j] + 1
    /\ Loose(j)' \subseteq Loose(j)
LostOnItsWay(j) ==
    /\ accepted'[j] = accepted[j] /\ unrecorded'[j] = unrecorded[j] + 1
    /\ \E a \in Asks : Loose(j)' \subseteq Loose(j) \cup {a}
    /\ ~Accounted(j)

\* Each of the six keeps the account.
LEMMA AccountKept ==
    ASSUME QueueInv, CountInv', NEW j \in Jobs,
           Quiet(j) \/ TakenInHand(j) \/ TakenLoose(j) \/ TakenAndLost(j) \/ Lost(j) \/ LostOnItsWay(j)
    PROVE  Explained(j)'
<1>. DEFINE before == Loose(j)
            after  == Loose(j)'
            o  == IF Accounted(j) THEN 1 ELSE 0
            o2 == IF Accounted(j)' THEN 1 ELSE 0
            m  == Cardinality(before)
            m2 == Cardinality(after)
<1>1. /\ accepted[j] \in Nat /\ accepted'[j] \in Nat /\ unrecorded[j] \in Nat /\ unrecorded'[j] \in Nat
      /\ accepted[j] + m <= unrecorded[j] + o
  BY DEF QueueInv, CountInv, Explained
<1>2. /\ IsFiniteSet(before) /\ IsFiniteSet(after) /\ m \in Nat /\ m2 \in Nat
      /\ \A S : S \subseteq before => IsFiniteSet(S) /\ Cardinality(S) <= m
  <2>1. before \subseteq Asks /\ after \subseteq Asks
    BY DEF Loose
  <2>. HIDE DEF before, after
  <2>. QED
    BY <2>1, PushRelayAssumption, FS_Subset, FS_CardinalityType
<1>3. o \in {0, 1} /\ o2 \in {0, 1}
  OBVIOUS
<1>4. (Accounted(j) => o = 1) /\ (~Accounted(j) => o = 0) /\ (Accounted(j)' => o2 = 1)
  OBVIOUS
<1>q. accepted'[j] + m2 <= unrecorded'[j] + o2 => Explained(j)'
  BY DEF Explained
<1>. HIDE DEF o, o2
<1>a. after \subseteq before => m2 <= m
  BY <1>2
<1>b. ASSUME NEW a \in before, after \subseteq before \ {a} PROVE m2 + 1 <= m
  <2>. HIDE DEF before, after
  <2>1. /\ IsFiniteSet(before \ {a}) /\ Cardinality(before \ {a}) = Cardinality(before) - 1
    BY <1>2, FS_RemoveElement
  <2>2. Cardinality(after) <= Cardinality(before \ {a})
    BY <1>b, <2>1, FS_Subset
  <2>. QED
    BY <1>2, <2>1, <2>2
<1>c. ASSUME NEW a \in Asks, after \subseteq before \cup {a} PROVE m2 <= m + 1
  <2>. HIDE DEF before, after
  <2>1. IsFiniteSet(before \cup {a}) /\ Cardinality(before \cup {a}) <= Cardinality(before) + 1
    <3>1. /\ IsFiniteSet(before \cup {a})
          /\ Cardinality(before \cup {a}) = IF a \in before THEN Cardinality(before) ELSE Cardinality(before) + 1
      BY <1>2, FS_AddElement
    <3>. QED
      BY <1>2, <3>1
  <2>2. Cardinality(after) <= Cardinality(before \cup {a}) /\ Cardinality(before \cup {a}) \in Nat
    BY <1>c, <2>1, FS_Subset, FS_CardinalityType
  <2>. QED
    BY <1>2, <2>1, <2>2
<1>. HIDE DEF m, m2
<1>5. CASE Quiet(j)
  <2>1. m2 <= m /\ accepted'[j] = accepted[j] /\ unrecorded'[j] = unrecorded[j] /\ (o = 1 => o2 = 1)
    BY <1>3, <1>4, <1>5, <1>a DEF Quiet
  <2>. QED
    BY <1>1, <1>2, <1>3, <1>q, <2>1
<1>6. CASE TakenInHand(j)
  <2>1. m2 <= m /\ accepted'[j] = accepted[j] + 1 /\ unrecorded'[j] = unrecorded[j] /\ o = 0 /\ o2 = 1
    BY <1>4, <1>6, <1>a DEF TakenInHand
  <2>. QED
    BY <1>1, <1>2, <1>q, <2>1
<1>7. CASE TakenLoose(j)
  <2>1. m2 + 1 <= m /\ accepted'[j] = accepted[j] + 1 /\ unrecorded'[j] = unrecorded[j] /\ (o = 1 => o2 = 1)
    BY <1>3, <1>4, <1>7, <1>b DEF TakenLoose
  <2>. QED
    BY <1>1, <1>2, <1>3, <1>q, <2>1
<1>7a. CASE TakenAndLost(j)
  <2>1. m2 <= m /\ accepted'[j] = accepted[j] + 1 /\ unrecorded'[j] = unrecorded[j] + 1 /\ (o = 1 => o2 = 1)
    BY <1>3, <1>4, <1>7a, <1>a DEF TakenAndLost
  <2>. QED
    BY <1>1, <1>2, <1>3, <1>q, <2>1
<1>8. CASE Lost(j)
  <2>1. m2 <= m /\ accepted'[j] = accepted[j] /\ unrecorded'[j] = unrecorded[j] + 1
    BY <1>8, <1>a DEF Lost
  <2>. QED
    BY <1>1, <1>2, <1>3, <1>q, <2>1
<1>9. CASE LostOnItsWay(j)
  <2>1. m2 <= m + 1 /\ accepted'[j] = accepted[j] /\ unrecorded'[j] = unrecorded[j] + 1 /\ o = 0
    BY <1>4, <1>9, <1>c DEF LostOnItsWay
  <2>. QED
    BY <1>1, <1>2, <1>3, <1>q, <2>1
<1>. QED
  BY <1>5, <1>6, <1>7, <1>7a, <1>8, <1>9

\* A handler of the relay adds a push that is accounted for, that nobody waits for, or whose
\* outcome is lost with the provider's answer.
LEMMA HandlerExplained ==
    ASSUME PushInv, QueueInv, NEW a \in Asks, RelayStep(a), NEW j \in Jobs
    PROVE  Quiet(j) \/ TakenInHand(j) \/ TakenLoose(j) \/ TakenAndLost(j)
<1>0. HandlerStep(a)
  BY HandlerFrame
<1>1. /\ \A b \in Asks \ {a} : ask'[b] = ask[b]
      /\ ask[a].pc \notin {"idle", "answered"}
      /\ job' = job /\ disp' = disp
      /\ \/ ask'[a] = NoAsk /\ ~ask[a].waited
         \/ ask'[a].req = ask[a].req /\ ask'[a].waited = ask[a].waited
      /\ NoAsk.pc = "idle"
      /\ accepted \in [Jobs -> Nat] /\ unrecorded \in [Jobs -> Nat] /\ ask[a].req \in Jobs
  BY <1>0 DEF HandlerStep, NoAsk, QueueInv, CountInv, CallInv
<1>2. ask[a].pc \notin {"posted", "sending"} => ask'[a].pc \notin {"posted", "sending"}
  <2>. SUFFICES ASSUME ask[a].pc \notin {"posted", "sending"} PROVE ask'[a].pc \notin {"posted", "sending"}
    OBVIOUS
  <2>1. ask' = Answered(a, "invalid_token")
    BY DEF RelayStep, ProviderTakes, ProviderAccepts, ProviderTakesUnheard, ProviderAnswerLost, RelayLoad,
           ProviderRefuses, ProviderFails, ForgetRegistration, RefusalKept, ForgetFails, RelayAbandons
  <2>2. "invalid_token" \in Statuses \ {"none"} /\ PushShape
    BY DEF Statuses, PushInv
  <2>. QED
    BY <1>1, <2>1, <2>2, AnswerFrame
<1>3. Loose(j)' \subseteq Loose(j)
  <2>1. ASSUME NEW b \in Loose(j)' PROVE b \in Loose(j)
    BY <1>1, <1>2, <2>1 DEF Loose
  <2>. QED
    BY <2>1
<1>4. Accounted(j) => Accounted(j)'
  <2>1. disp.pc = "wait" => disp.ask \in Asks
    BY DEF PushInv, AskInv
  <2>. QED
    BY <1>1, <2>1 DEF Accounted, InHand, current
<1>5. CASE ~ProviderTakes(a) /\ ~ProviderTakesUnheard(a)
  <2>1. UNCHANGED <<accepted, unrecorded>>
    BY <1>5 DEF RelayStep, RefusalKept, auxVars
  <2>. QED
    BY <1>3, <1>4, <2>1 DEF Quiet
<1>6. CASE ProviderTakes(a) /\ ask[a].req # j
  <2>1. accepted'[j] = accepted[j] /\ unrecorded' = unrecorded
    BY <1>1, <1>6 DEF ProviderTakes
  <2>. QED
    BY <1>3, <1>4, <2>1 DEF Quiet
<1>7. CASE ProviderTakes(a) /\ ask[a].req = j
  <2>1. accepted'[j] = accepted[j] + 1 /\ unrecorded' = unrecorded /\ ask[a].pc = "sending" /\ ask' = Answered(a, "sent")
    BY <1>1, <1>7 DEF ProviderTakes, ProviderAccepts
  <2>2. IF ask[a].waited THEN ask'[a].pc = "answered" /\ ask'[a].status = "sent" ELSE ask'[a] = NoAsk
    <3>1. "sent" \in Statuses \ {"none"} /\ PushShape
      BY DEF Statuses, PushInv
    <3>. QED
      BY <2>1, <3>1, AnswerFrame
  <2>3. CASE ask[a].waited
    <3>1. disp.pc = "wait" /\ disp.ask = a /\ current = j
      <4>1. disp.pc \in {"wait", "clear"} /\ disp.ask = a
        BY <2>3 DEF PushInv, AskInv
      <4>2. current = j
        BY <1>7, <4>1 DEF PushInv, AskInv
      <4>3. disp.pc # "clear"
        BY <1>1, <4>1 DEF PushInv, AskInv
      <4>. QED
        BY <4>1, <4>2, <4>3
    <3>2. InHand(j) /\ InHand(j)'
      BY <1>1, <3>1 DEF InHand, current
    <3>3. ~Accounted(j)
      BY <2>1, <3>1, <3>2 DEF Accounted
    <3>4. Accounted(j)'
      BY <1>1, <2>2, <2>3, <3>1, <3>2 DEF Accounted
    <3>. QED
      BY <1>3, <2>1, <3>3, <3>4 DEF TakenInHand
  <2>4. CASE ~ask[a].waited
    <3>1. a \in Loose(j) /\ a \notin Loose(j)'
      BY <1>1, <1>7, <2>1, <2>2, <2>4 DEF Loose
    <3>. QED
      BY <1>3, <1>4, <2>1, <3>1 DEF TakenLoose
  <2>. QED
    BY <2>3, <2>4
<1>8. CASE ProviderTakesUnheard(a) /\ ask[a].req # j
  <2>1. accepted'[j] = accepted[j] /\ unrecorded'[j] = unrecorded[j]
    BY <1>1, <1>8 DEF ProviderTakesUnheard
  <2>. QED
    BY <1>3, <1>4, <2>1 DEF Quiet
<1>9. CASE ProviderTakesUnheard(a) /\ ask[a].req = j
  <2>1. accepted'[j] = accepted[j] + 1 /\ ask[a].pc = "sending"
    BY <1>1, <1>9 DEF ProviderTakesUnheard, ProviderAnswerLost
  <2>2. CASE ask[a].waited
    <3>1. unrecorded'[j] = unrecorded[j] + 1
      BY <1>1, <1>9, <2>2 DEF ProviderTakesUnheard
    <3>. QED
      BY <1>3, <1>4, <2>1, <3>1 DEF TakenAndLost
  <2>3. CASE ~ask[a].waited
    <3>1. unrecorded'[j] = unrecorded[j]
      BY <1>9, <2>3 DEF ProviderTakesUnheard
    <3>2. ask'[a] = NoAsk
      <4>1. PICK s \in Statuses \ {"none"} : ask' = Answered(a, s)
        BY <1>9 DEF ProviderTakesUnheard, ProviderAnswerLost, Statuses
      <4>. QED
        BY <2>3, <4>1, AnswerFrame DEF PushInv
    <3>3. a \in Loose(j) /\ a \notin Loose(j)'
      BY <1>1, <1>9, <2>1, <2>3, <3>2 DEF Loose
    <3>. QED
      BY <1>3, <1>4, <2>1, <3>1, <3>3 DEF TakenLoose
  <2>. QED
    BY <2>2, <2>3
<1>. QED
  BY <1>5, <1>6, <1>7, <1>8, <1>9

\* A step of the queue's tables or of a device's handler leaves the account alone.
LEMMA TablesExplained ==
    ASSUME PushInv, QueueInv, PushNext, UNCHANGED <<ask, disp, accepted, unrecorded>>, NEW j \in Jobs
    PROVE  Quiet(j)
<1>0. RowMoves(j) /\ Loose(j)' = Loose(j) /\ job[j] \in JobRecords /\ ~Settle
  <2>1. ~Settle
    BY DispAdvances DEF Settle
  <2>. QED
    BY <2>1, RowsMove DEF Loose, QueueInv, RowInv
<1>1. InHand(j)' <=> InHand(j)
  BY DEF InHand, current
<1>2. InHand(j) => job[j].state # "none"
  BY CurrentQueued DEF InHand
<1>3. CASE InHand(j)
  BY <1>0, <1>1, <1>3 DEF Quiet, Accounted
<1>4. CASE ~InHand(j)
  <2>1. job[j].state \in {"delivered", "dropped", "gone"} => job'[j].state \in {"delivered", "dropped", "gone"}
    BY <1>0 DEF RowMoves, JobRecords
  <2>. QED
    BY <1>0, <1>1, <1>4, <2>1 DEF Quiet, Accounted
<1>. QED
  BY <1>3, <1>4

\* A request that ends without an answer, or is given up, is loose afterwards or not at all.
LEMMA LooseAfter ==
    ASSUME PushInv, QueueInv, disp.pc = "wait", NEW f, f = Unwaited(disp.ask)
    PROVE  /\ disp.ask \in Asks /\ ask[disp.ask].req = current /\ disp.ask \notin Loose(current)
           /\ ask[disp.ask].pc = "answered" => f.pc = "idle"
           /\ ask[disp.ask].pc # "answered" => f.pc = ask[disp.ask].pc /\ f.req = current
<1>1. disp.ask \in Asks /\ ask[disp.ask].waited /\ ask[disp.ask].req = current /\ ask[disp.ask] \in AskRecords
  BY DEF PushInv, AskInv, QueueInv, CallInv
<1>2. CASE ask[disp.ask].pc = "answered"
  BY <1>1, <1>2 DEF Unwaited, NoAsk, Loose
<1>3. CASE ask[disp.ask].pc # "answered"
  BY <1>1, <1>3 DEF Unwaited, Loose, AskRecords
<1>. QED
  BY <1>1, <1>2, <1>3

\* The dispatcher counts an attempt as unrecorded when it gives up on its answer, and not before.
LEMMA DispatcherExplained ==
    ASSUME PushInv, QueueInv, DispatcherStep, disp' \in DispRecords, NEW j \in Jobs
    PROVE  Quiet(j) \/ Lost(j) \/ LostOnItsWay(j)
<1>0. /\ PushShape /\ AskInv /\ ask \in [Asks -> AskRecords] /\ job \in [Jobs -> JobRecords]
      /\ accepted \in [Jobs -> Nat] /\ unrecorded \in [Jobs -> Nat]
      /\ disp.pc = "settle" => disp.verdict \in {"delivered", "failed", "dropped"}
  BY DEF PushInv, QueueInv, CallInv, CountInv, RowInv
<1>c. disp.pc # "idle" => current \in Jobs /\ job[current].state \in {"pending", "gone"}
  BY CurrentQueued
<1>1. ASSUME NEW a \in Asks, ask' = [ask EXCEPT ![a] = NoAsk] PROVE Loose(j)' \subseteq Loose(j)
  <2>1. \A b \in Asks : ask'[b] = IF b = a THEN NoAsk ELSE ask[b]
    BY <1>0, <1>1
  <2>2. NoAsk.pc = "idle"
    BY DEF NoAsk
  <2>. QED
    BY <2>1, <2>2 DEF Loose
<1>2. UNCHANGED ask => Loose(j)' = Loose(j)
  BY DEF Loose
<1>3. CASE NextBatch
  <2>1. disp.pc = "idle" /\ disp'.pc = "event" /\ UNCHANGED <<ask, job, accepted, unrecorded>>
    BY <1>3, DispReads DEF NextBatch, relayVars, queueVars, auxVars
  <2>2. ~InHand(j) /\ ~InHand(j)'
    BY <2>1 DEF InHand
  <2>. QED
    BY <1>2, <2>1, <2>2 DEF Quiet, Accounted
<1>4. CASE LoadEvent
  <2>1. disp.pc = "event" /\ ~InHand(j) /\ UNCHANGED <<ask, job, accepted, unrecorded>>
    BY <1>4 DEF LoadEvent, InHand, relayVars, queueVars, auxVars
  <2>2. \/ disp'.pc = "settle" /\ disp'.verdict = "dropped" /\ disp'.batch = disp.batch
        \/ disp'.pc = "device" /\ disp'.batch = disp.batch /\ job[current].state # "gone"
    BY <1>0, <1>4, DispSettles, DispGoesTo DEF LoadEvent
  <2>3. InHand(j)' <=> j = current
    BY <2>2 DEF InHand, current
  <2>4. CASE j = current
    BY <1>2, <1>c, <2>1, <2>2, <2>3, <2>4 DEF Quiet, Accounted
  <2>5. CASE j # current
    BY <1>2, <2>1, <2>3, <2>5 DEF Quiet, Accounted
  <2>. QED
    BY <2>4, <2>5
\* The job in hand stays in hand: its last push is accounted for afterwards, or was not before.
<1>s. ASSUME disp.pc \in {"device", "wait", "clear"}, disp'.batch = disp.batch,
             disp'.pc \in {"wait", "clear", "settle"},
             UNCHANGED <<job, accepted, unrecorded>>, Loose(j)' \subseteq Loose(j),
             \/ disp'.pc = "settle" /\ disp'.verdict # "failed"
             \/ disp.pc # "wait" \/ ask[disp.ask].pc # "answered" \/ ask[disp.ask].status # "sent"
      PROVE  Quiet(j)
  <2>1. (InHand(j) <=> j = current) /\ (InHand(j)' <=> j = current)
    BY <1>s DEF InHand, current
  <2>2. CASE j = current
    BY <1>s, <2>1, <2>2 DEF Quiet, Accounted
  <2>3. CASE j # current
    BY <1>s, <2>1, <2>3 DEF Quiet, Accounted
  <2>. QED
    BY <2>2, <2>3
<1>5. CASE LoadDeviceDrops
  <2>1. disp.pc = "device" /\ UNCHANGED <<ask, job, accepted, unrecorded>>
    BY <1>5 DEF LoadDeviceDrops, relayVars, queueVars, auxVars
  <2>2. disp'.pc = "settle" /\ disp'.batch = disp.batch
    BY <1>0, <1>5, DispSettles DEF LoadDeviceDrops
  <2>. QED
    BY <1>2, <1>s, <2>1, <2>2
<1>6. ASSUME NEW a \in Asks, LoadDevicePushes(a) PROVE Quiet(j)
  <2>1. /\ disp.pc = "device" /\ UNCHANGED <<job, accepted, unrecorded>>
        /\ disp' = [disp EXCEPT !.pc = "wait", !.ask = a]
        /\ ask' = [ask EXCEPT ![a] = [NoAsk EXCEPT !.pc = "posted", !.dev = job[current].dev,
                                                  !.req = current, !.waited = TRUE]]
    BY <1>6 DEF LoadDevicePushes, queueVars, auxVars
  <2>2. disp'.pc = "wait" /\ disp'.batch = disp.batch
    BY <1>0, <2>1, DispWaits
  <2>3. \A b \in Asks : b # a => ask'[b] = ask[b]
    BY <1>0, <2>1
  <2>4. ask'[a].waited
    BY <1>0, <2>1 DEF NoAsk
  <2>5. Loose(j)' \subseteq Loose(j)
    BY <2>3, <2>4 DEF Loose
  <2>. QED
    BY <1>s, <2>1, <2>2, <2>5
<1>7. CASE Receive
  <2>1. disp.pc = "wait" /\ disp.ask \in Asks /\ ask[disp.ask].pc = "answered"
        /\ UNCHANGED <<job, accepted, unrecorded>> /\ ask[disp.ask].status \in Statuses \ {"none"}
    BY <1>0, <1>7 DEF Receive, AskInv, queueVars, auxVars
  <2>2. CASE ask[disp.ask].status = "invalid_token"
    <3>1. disp' = [disp EXCEPT !.pc = "clear"] /\ UNCHANGED ask
      BY <1>7, <2>2 DEF Receive
    <3>2. disp'.pc = "clear" /\ disp'.batch = disp.batch
      BY <1>0, <3>1, DispGoesTo
    <3>. QED
      BY <1>2, <1>s, <2>1, <2>2, <3>1, <3>2
  <2>3. CASE ask[disp.ask].status # "invalid_token"
    <3>1. disp' = Settles(VerdictOf(ask[disp.ask].status)) /\ ask' = [ask EXCEPT ![disp.ask] = NoAsk]
      BY <1>7, <2>3 DEF Receive
    <3>2. disp'.pc = "settle" /\ disp'.verdict = VerdictOf(ask[disp.ask].status) /\ disp'.batch = disp.batch
      BY <1>0, <3>1, DispSettles
    <3>3. ask[disp.ask].status = "sent" => disp'.verdict # "failed"
      BY <3>2 DEF VerdictOf
    <3>. QED
      BY <1>1, <1>s, <2>1, <3>1, <3>2, <3>3
  <2>. QED
    BY <2>2, <2>3
<1>8. CASE NoAnswer
  <2>1. /\ disp.pc = "wait" /\ UNCHANGED <<job, accepted>>
        /\ unrecorded' = [unrecorded EXCEPT ![current] = @ + 1]
        /\ ask' = [ask EXCEPT ![disp.ask] = Unwaited(disp.ask)]
    BY <1>8 DEF NoAnswer, queueVars
  <2>2. PICK f : f = Unwaited(disp.ask)
    OBVIOUS
  <2>3. /\ disp.ask \in Asks /\ ask[disp.ask].req = current
        /\ ask[disp.ask].pc = "answered" => f.pc = "idle"
        /\ ask[disp.ask].pc # "answered" => f.pc = ask[disp.ask].pc /\ f.req = current
    BY <2>1, <2>2, LooseAfter
  <2>4. ask'[disp.ask] = f /\ \A b \in Asks : b # disp.ask => ask'[b] = ask[b]
    BY <1>0, <2>1, <2>2, <2>3
  <2>5. Loose(j)' \subseteq Loose(j) \cup {disp.ask}
    BY <2>4 DEF Loose
  <2>6. j # current \/ ask[disp.ask].pc = "answered" => Loose(j)' \subseteq Loose(j)
    BY <2>3, <2>4 DEF Loose
  <2>7. disp'.pc = "settle" /\ disp'.batch = disp.batch
    BY <1>0, <1>8, DispSettles DEF NoAnswer, SilenceRetries
  <2>8. CASE j # current
    <3>1. unrecorded'[j] = unrecorded[j]
      BY <1>0, <2>1, <2>8
    <3>2. ~InHand(j) /\ ~InHand(j)'
      BY <2>7, <2>8 DEF InHand, current
    <3>. QED
      BY <2>1, <2>6, <2>8, <3>1, <3>2 DEF Quiet, Accounted
  <2>9. CASE j = current
    <3>1. unrecorded'[j] = unrecorded[j] + 1
      BY <1>0, <2>1, <2>9
    <3>2. CASE ask[disp.ask].pc = "answered"
      BY <2>1, <2>6, <3>1, <3>2 DEF Lost
    <3>3. CASE ask[disp.ask].pc # "answered"
      <4>1. ~Accounted(j)
        BY <2>1, <2>9, <3>3 DEF Accounted, InHand
      <4>. QED
        BY <2>1, <2>3, <2>5, <3>1, <4>1 DEF LostOnItsWay
    <3>. QED
      BY <3>2, <3>3
  <2>. QED
    BY <2>8, <2>9
<1>9. CASE ClearTokens
  <2>1. disp.pc = "clear" /\ UNCHANGED <<job, accepted, unrecorded>>
        /\ ask' = [ask EXCEPT ![disp.ask] = NoAsk] /\ disp.ask \in Asks
    BY <1>0, <1>9 DEF ClearTokens, AskInv, queueVars, auxVars
  <2>2. disp'.pc = "settle" /\ disp'.batch = disp.batch
    BY <1>0, <1>9, DispSettles DEF ClearTokens
  <2>. QED
    BY <1>1, <1>s, <2>1, <2>2
<1>10. CASE Settle
  <2>1. /\ disp.pc = "settle" /\ disp' = Advanced /\ UNCHANGED <<ask, accepted, unrecorded>>
        /\ job' = [job EXCEPT ![current] = SettledRow(job[current], disp.verdict)]
    BY <1>10 DEF Settle, relayVars, auxVars
  <2>2. ~InHand(j)'
    BY <2>1, DispAdvances DEF InHand
  <2>3. CASE j # current
    <3>1. job'[j] = job[j] /\ ~InHand(j)
      BY <1>0, <2>1, <2>3 DEF InHand
    <3>. QED
      BY <1>2, <2>1, <2>2, <3>1 DEF Quiet, Accounted
  <2>4. CASE j = current
    <3>1. InHand(j) /\ job'[j] = SettledRow(job[j], disp.verdict)
      BY <1>0, <1>c, <2>1, <2>4 DEF InHand
    <3>2. disp.verdict # "failed" => job'[j].state \in {"delivered", "dropped", "gone"}
      BY <1>0, <2>1, <3>1 DEF SettledRow, JobRecords
    <3>. QED
      BY <1>2, <2>1, <2>2, <3>1, <3>2 DEF Quiet, Accounted
  <2>. QED
    BY <2>3, <2>4
<1>. QED
  BY <1>3, <1>4, <1>5, <1>6, <1>7, <1>8, <1>9, <1>10 DEF DispatcherStep

\* A failed statement or a crash loses at most the outcome of the job in hand.
LEMMA FailureExplained ==
    ASSUME PushInv, QueueInv, StatementFails \/ Crash, NEW j \in Jobs
    PROVE  Quiet(j) \/ Lost(j) \/ LostOnItsWay(j)
<1>0. /\ PushShape /\ AskInv /\ ask \in [Asks -> AskRecords] /\ unrecorded \in [Jobs -> Nat]
  BY DEF PushInv, QueueInv, CallInv, CountInv
<1>i. NoAsk.pc = "idle"
  BY DEF NoAsk
<1>1. CASE StatementFails /\ disp.pc = "clear"
  <2>1. /\ UNCHANGED <<job, accepted, unrecorded>> /\ disp' = Settles("dropped") /\ disp.ask \in Asks
        /\ ask' = [ask EXCEPT ![disp.ask] = NoAsk]
    BY <1>0, <1>1 DEF StatementFails, AskInv, queueVars
  <2>2. disp'.pc = "settle" /\ disp'.verdict = "dropped" /\ disp'.batch = disp.batch
    BY <1>0, <2>1, DispSettles
  <2>3. \A b \in Asks : ask'[b] = IF b = disp.ask THEN NoAsk ELSE ask[b]
    BY <1>0, <2>1
  <2>4. Loose(j)' \subseteq Loose(j)
    BY <1>i, <2>3 DEF Loose
  <2>5. (InHand(j)' <=> j = current) /\ (InHand(j) <=> j = current)
    BY <1>1, <2>2 DEF InHand, current
  <2>. QED
    BY <2>1, <2>2, <2>4, <2>5 DEF Quiet, Accounted
<1>2. CASE StatementFails /\ disp.pc # "clear"
  <2>1. /\ UNCHANGED <<ask, job, accepted>> /\ disp' = Advanced /\ disp.pc \in {"event", "device", "settle"}
        /\ unrecorded' = IF disp.pc = "settle" THEN [unrecorded EXCEPT ![current] = @ + 1] ELSE unrecorded
    BY <1>2 DEF StatementFails, queueVars
  <2>2. ~InHand(j)' /\ Loose(j)' = Loose(j)
    BY <2>1, DispAdvances DEF InHand, Loose
  <2>3. CASE disp.pc = "settle" /\ j = current
    <3>1. unrecorded'[j] = unrecorded[j] + 1
      BY <1>0, <2>1, <2>3
    <3>. QED
      BY <2>1, <2>2, <3>1 DEF Lost
  <2>4. CASE ~(disp.pc = "settle" /\ j = current)
    <3>1. unrecorded'[j] = unrecorded[j]
      BY <1>0, <2>1, <2>4
    <3>2. InHand(j) => ~Accounted(j)
      BY <2>1, <2>4 DEF InHand, Accounted
    <3>. QED
      BY <2>1, <2>2, <3>1, <3>2 DEF Quiet, Accounted
  <2>. QED
    BY <2>3, <2>4
<1>3. CASE Crash
  <2>1. /\ UNCHANGED <<job, accepted>> /\ disp' = IdleDisp
        /\ ask' = [a \in Asks |-> IF ask[a].waited THEN Unwaited(a) ELSE ask[a]]
        /\ unrecorded' = IF disp.pc \in {"wait", "clear", "settle"} THEN [unrecorded EXCEPT ![current] = @ + 1] ELSE unrecorded
    BY <1>3 DEF Crash, queueVars
  <2>2. ~InHand(j)'
    BY <2>1 DEF IdleDisp, InHand
  <2>3. \A a \in Asks : ask[a].waited => disp.pc \in {"wait", "clear"} /\ disp.ask = a
    BY <1>0 DEF AskInv
  <2>4. CASE disp.pc = "wait"
    <3>1. PICK f : f = Unwaited(disp.ask)
      OBVIOUS
    <3>2. /\ disp.ask \in Asks /\ ask[disp.ask].req = current /\ ask[disp.ask].waited
          /\ ask[disp.ask].pc = "answered" => f.pc = "idle"
          /\ ask[disp.ask].pc # "answered" => f.pc = ask[disp.ask].pc /\ f.req = current
      BY <1>0, <2>4, <3>1, LooseAfter DEF AskInv
    <3>3. ask'[disp.ask] = f /\ \A b \in Asks : b # disp.ask => ask'[b] = ask[b]
      BY <2>1, <2>3, <3>1, <3>2
    <3>4. Loose(j)' \subseteq Loose(j) \cup {disp.ask}
      BY <3>3 DEF Loose
    <3>5. j # current \/ ask[disp.ask].pc = "answered" => Loose(j)' \subseteq Loose(j)
      BY <3>2, <3>3 DEF Loose
    <3>6. CASE j # current
      <4>1. unrecorded'[j] = unrecorded[j] /\ ~InHand(j)
        BY <1>0, <2>1, <2>4, <3>6 DEF InHand
      <4>. QED
        BY <2>1, <2>2, <3>5, <3>6, <4>1 DEF Quiet, Accounted
    <3>7. CASE j = current
      <4>1. unrecorded'[j] = unrecorded[j] + 1
        BY <1>0, <2>1, <2>4, <3>7
      <4>2. CASE ask[disp.ask].pc = "answered"
        BY <2>1, <3>5, <4>1, <4>2 DEF Lost
      <4>3. CASE ask[disp.ask].pc # "answered"
        <5>1. ~Accounted(j)
          BY <2>4, <3>7, <4>3 DEF Accounted, InHand
        <5>. QED
          BY <2>1, <3>2, <3>4, <4>1, <5>1 DEF LostOnItsWay
      <4>. QED
        BY <4>2, <4>3
    <3>. QED
      BY <3>6, <3>7
  <2>5. CASE disp.pc # "wait"
    <3>1. \A a \in Asks : ask[a].waited => ask[a].pc = "answered"
      BY <1>0, <2>3, <2>5 DEF AskInv
    <3>2. \A a \in Asks : ask'[a] = ask[a] \/ ask'[a].pc = "idle"
      BY <1>i, <2>1, <3>1 DEF Unwaited
    <3>3. Loose(j)' \subseteq Loose(j)
      BY <3>2 DEF Loose
    <3>4. CASE disp.pc \in {"clear", "settle"} /\ j = current
      <4>1. unrecorded'[j] = unrecorded[j] + 1
        BY <1>0, <2>1, <3>4
      <4>. QED
        BY <2>1, <3>3, <4>1 DEF Lost
    <3>5. CASE ~(disp.pc \in {"clear", "settle"} /\ j = current)
      <4>1. unrecorded'[j] = unrecorded[j]
        BY <1>0, <2>1, <2>5, <3>5
      <4>2. InHand(j) => ~Accounted(j)
        BY <2>5, <3>5 DEF InHand, Accounted
      <4>. QED
        BY <2>1, <2>2, <3>3, <4>1, <4>2 DEF Quiet, Accounted
    <3>. QED
      BY <3>4, <3>5
  <2>. QED
    BY <2>4, <2>5
<1>. QED
  BY <1>1, <1>2, <1>3

\* Every step keeps the queue's invariant.
LEMMA QueueStep == ASSUME PushInv, QueueInv, [PushNext]_pushVars PROVE QueueInv'
<1>1. DueInv' /\ BatchInv' /\ RowInv' /\ CallInv' /\ CountInv' /\ disp' \in DispRecords
  BY DueStep, BatchStep, RowStep, CallStep, CountStep, DispatcherMoves
<1>2. ASSUME NEW j \in Jobs PROVE Explained(j)'
  <2>1. CASE UNCHANGED pushVars
    <3>1. Loose(j)' = Loose(j) /\ (Accounted(j)' <=> Accounted(j)) /\ UNCHANGED <<accepted, unrecorded>>
      BY <2>1 DEF pushVars, relayVars, auxVars, queueVars, Loose, Accounted, InHand, current
    <3>2. Quiet(j)
      BY <3>1 DEF Quiet
    <3>. QED
      BY <1>1, <3>2, AccountKept
  <2>2. CASE DispatcherStep
    BY <1>1, <2>2, AccountKept, DispatcherExplained
  <2>3. CASE StatementFails \/ Crash
    BY <1>1, <2>3, AccountKept, FailureExplained
  <2>4. CASE \E a \in Asks : RelayStep(a)
    BY <1>1, <2>4, AccountKept, HandlerExplained
  <2>5. CASE PushNext /\ UNCHANGED <<ask, disp, accepted, unrecorded>>
    BY <1>1, <2>5, AccountKept, TablesExplained
  <2>6. CASE \/ \E i \in Jobs : (\E d \in Devices : Enqueue(i, d)) \/ BackoffElapsed(i) \/ RowDeleted(i)
             \/ \E d \in Devices : DeleteDevice(d)
    BY <2>5, <2>6 DEF PushNext, Enqueue, BackoffElapsed, RowDeleted, DeleteDevice, DeleteRevoked, relayVars, auxVars
  <2>7. CASE DeviceChange
    BY <2>5, <2>7 DEF PushNext, DeviceChange, relayVars, DeviceStart, DeviceStep, PatchStart, RevokeStart, PatchGet, PatchWrite,
           PatchReread, PatchRelay, PatchFail, Revoke, RevokeRelay, RevokeFail
  <2>. QED
    BY <2>1, <2>2, <2>3, <2>4, <2>5, <2>6, <2>7 DEF PushNext
<1>. QED
  BY <1>1, <1>2 DEF QueueInv

\* Nothing is queued at first.
LEMMA QueueInitHolds == PushInit => QueueInv
<1>. SUFFICES ASSUME PushInit PROVE QueueInv
  OBVIOUS
<1>. USE PushDispatchAssumption, PushRelayAssumption
<1>1. /\ NoJob \in JobRecords /\ NoJob.state = "none" /\ NoJob.dev = None
      /\ IdleDisp \in DispRecords /\ IdleDisp.pc = "idle" /\ IdleDisp.batch = <<>>
      /\ NoAsk \in AskRecords /\ NoAsk.pc = "idle"
  BY DEF NoJob, IdleDisp, NoAsk, JobRecords, DispRecords, DispPcs, AskRecords, AskPcs, Statuses
<1>2. <<>> \in Seq(Jobs) /\ IsInjective(<<>>) /\ Range(<<>>) = {}
  BY DEF IsInjective, Range
<1>3. DueInv /\ BatchInv /\ RowInv /\ CallInv /\ CountInv
  BY <1>1, <1>2 DEF PushInit, DueInv, BatchInv, RowInv, CallInv, CountInv
<1>4. ASSUME NEW j \in Jobs PROVE Explained(j)
  <2>1. Loose(j) = {} /\ accepted[j] = 0 /\ unrecorded[j] = 0
    BY <1>1 DEF PushInit, Loose
  <2>2. ~Accounted(j)
    BY <1>1 DEF PushInit, Accounted, InHand
  <2>. QED
    BY <2>1, <2>2, FS_EmptySet DEF Explained
<1>. QED
  BY <1>3, <1>4 DEF QueueInv

\* The invariant of the queue, on top of PushInv: what is due is pending, the batch holds jobs
\* nobody else decides, and every push that was taken is one whose outcome is on its way to the
\* row or in it, or an attempt whose outcome was lost (push/queue.go, push/dispatcher.go).
THEOREM QueueInvariant == PushSpec => [](PushInv /\ QueueInv)
<1>1. PushInit => QueueInv
  BY QueueInitHolds
<1>2. PushInv /\ QueueInv /\ [PushNext]_pushVars => QueueInv'
  BY QueueStep
<1>. QED
  BY <1>1, <1>2, PushInvariant, PTL DEF PushSpec

\* The rows of the queue, the batch, the handlers and the device's tables keep their types: no
\* row counts more attempts than it may have (push/queue.go, push/dispatcher.go).
THEOREM PushTyped == PushSpec => []PushTypeOK
<1>1. PushInv /\ QueueInv => PushTypeOK
  BY DEF PushInv, PushShape, QueueInv, DueInv, BatchInv, RowInv, CallInv, CountInv, JobRecords, DispRecords,
         DispPcs, AskRecords, AskPcs, PushTypeOK, RelayTypeOK
<1>. QED
  BY <1>1, QueueInvariant, PTL

\* A provider takes the push of a job in more than one attempt only when the outcome of an attempt
\* was lost: the provider's answer or the relay's that did not come, a failed statement or a crash
\* (push/dispatcher.go, relay/apns.go:96).
THEOREM RepeatsExplained == PushSpec => []RepeatExplained
<1>1. PushInv /\ QueueInv => RepeatExplained
  <2>. SUFFICES ASSUME QueueInv, NEW j \in Jobs PROVE accepted[j] <= 1 + unrecorded[j]
    BY DEF RepeatExplained
  <2>1. accepted[j] \in Nat /\ unrecorded[j] \in Nat /\ Explained(j)
    BY DEF QueueInv, CountInv
  <2>2. Cardinality(Loose(j)) \in Nat
    <3>1. Loose(j) \subseteq Asks
      BY DEF Loose
    <3>. QED
      BY <3>1, PushRelayAssumption, FS_Subset, FS_CardinalityType
  <2>3. CASE Accounted(j)
    BY <2>1, <2>2, <2>3 DEF Explained
  <2>4. CASE ~Accounted(j)
    BY <2>1, <2>2, <2>4 DEF Explained
  <2>. QED
    BY <2>3, <2>4
<1>. QED
  BY <1>1, QueueInvariant, PTL

\* A job that was delivered or dropped is never sent, retried or settled again, although its
\* batch, its answer and its backoff may outlive the decision (push/queue.go,
\* push/dispatcher.go).
THEOREM DecidedForGood == PushSpec => SettledOnce
<1>. DEFINE Kept == \A j \in Jobs : job[j].state \in {"delivered", "dropped"} =>
                       /\ job'[j].state \in {job[j].state, "gone"}
                       /\ job'[j].attempts = job[j].attempts
                       /\ \A i \in 1 .. Len(due') : due'[i] # j
<1>1. PushInv /\ QueueInv /\ QueueInv' /\ [PushNext]_pushVars => Kept
  <2>. SUFFICES ASSUME PushInv, QueueInv, QueueInv', [PushNext]_pushVars,
                       NEW j \in Jobs, job[j].state \in {"delivered", "dropped"}
                PROVE  /\ job'[j].state \in {job[j].state, "gone"}
                       /\ job'[j].attempts = job[j].attempts
                       /\ \A i \in 1 .. Len(due') : due'[i] # j
    OBVIOUS
  <2>1. RowMoves(j) /\ job[j] \in JobRecords
    BY RowsMove DEF QueueInv, RowInv
  <2>2. ~(Settle /\ j = current)
    BY CurrentQueued DEF Settle
  <2>3. job'[j] = job[j] \/ job'[j] = [job[j] EXCEPT !.state = "gone"]
    BY <2>1, <2>2 DEF RowMoves
  <2>4. job'[j].state \in {job[j].state, "gone"} /\ job'[j].attempts = job[j].attempts
    BY <2>1, <2>3 DEF JobRecords
  <2>5. due' \in Seq(Jobs) /\ \A i \in Range(due') : job'[i].state = "pending"
    BY DEF QueueInv, DueInv
  <2>6. \A i \in 1 .. Len(due') : due'[i] \in Range(due')
    BY <2>5 DEF Range
  <2>. QED
    BY <2>4, <2>5, <2>6
<1>2. PushInv /\ QueueInv /\ (PushInv /\ QueueInv)' /\ [PushNext]_pushVars => [Kept]_pushVars
  BY <1>1
<1>. QED
  BY <1>2, QueueInvariant, PTL DEF PushSpec, SettledOnce
===============================================================================
