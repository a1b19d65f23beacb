------------------------------- MODULE PushRelay -------------------------------
(***************************************************************************)
(* The push relay (internal/relay): the registrations of one instance and  *)
(* the handlers of POST /v1/push.  A handler reads the registration, asks  *)
(* APNs or FCM, and after a refused token deletes the registration by      *)
(* device.  The instance may give up on a request (timeout, restart) while *)
(* its handler goes on.                                                    *)
(***************************************************************************)
EXTENDS Naturals, FiniteSets

CONSTANTS Devices,
          AppleDevices,           \* devices whose platform is ios or macos
          ApnsTokens, FcmTokens,
          None,                   \* no token, no device, no request
          HasAPNs, HasFCM,        \* the adapters that are configured
          Asks                    \* handlers of POST /v1/push that may run at once

ASSUME PushRelayAssumption ==
    /\ AppleDevices \subseteq Devices
    /\ None \notin Devices \cup ApnsTokens \cup FcmTokens
    /\ IsFiniteSet(Devices) /\ IsFiniteSet(Asks)
    /\ HasAPNs \in BOOLEAN /\ HasFCM \in BOOLEAN

VARIABLES reg,      \* table registrations; a row always holds a token, so NoTokens is no row
          ask       \* the handlers of POST /v1/push

relayVars == <<reg, ask>>

TokenPair == [apns : ApnsTokens \cup {None}, fcm : FcmTokens \cup {None}]
NoTokens  == [apns |-> None, fcm |-> None]

\* waited: the instance still waits for the answer.  req names the request's payload.
NoAsk == [pc |-> "idle", dev |-> None, req |-> 0, token |-> None, waited |-> FALSE, status |-> "none"]

Statuses == {"none", "sent", "invalid_token", "upstream_error", "bad_payload", "unavailable"}

RelayTypeOK ==
    /\ reg \in [Devices -> TokenPair]
    /\ ask \in [Asks -> [pc : {"idle", "posted", "sending", "refused", "answered"},
                         dev : Devices \cup {None}, req : Nat,
                         token : ApnsTokens \cup FcmTokens \cup {None},
                         waited : BOOLEAN, status : Statuses]]

\* PUT and DELETE /v1/registrations/{device}.
UpsertRegistration(d, tokens) == reg' = [reg EXCEPT ![d] = tokens]
DeleteRegistration(d)         == reg' = [reg EXCEPT ![d] = NoTokens]

\* APNs first, for Apple platforms; FCM for whoever has an FCM token.
selectSender(d) ==
    IF reg[d].apns # None /\ d \in AppleDevices /\ HasAPNs THEN reg[d].apns
    ELSE IF reg[d].fcm # None /\ HasFCM THEN reg[d].fcm ELSE None

\* The answer goes to the instance if it still waits; otherwise the handler just ends.
Answered(a, status) ==
    [ask EXCEPT ![a] = IF @.waited THEN [@ EXCEPT !.pc = "answered", !.status = status] ELSE NoAsk]

\* Authentication, GetRegistration and the choice of the provider.  A rejected signature, a
\* failed read or a 5xx of a proxy reach the instance as an unavailable relay.
RelayLoad(a) ==
    /\ ask[a].pc = "posted"
    /\ \/ ask' = Answered(a, "unavailable")
       \/ reg[ask[a].dev] = NoTokens /\ ask' = Answered(a, "invalid_token")
       \/ /\ reg[ask[a].dev] # NoTokens
          /\ selectSender(ask[a].dev) = None
          /\ ask' = Answered(a, "bad_payload")
       \/ /\ selectSender(ask[a].dev) # None
          /\ ask' = [ask EXCEPT ![a] = [ask[a] EXCEPT !.pc = "sending", !.token = selectSender(ask[a].dev)]]
    /\ UNCHANGED reg

ProviderAccepts(a) ==
    /\ ask[a].pc = "sending"
    /\ ask' = Answered(a, "sent")
    /\ UNCHANGED reg

\* BadDeviceToken, Unregistered, BadTopic, registration-token-not-registered and the like.
ProviderRefuses(a) ==
    /\ ask[a].pc = "sending"
    /\ ask' = [ask EXCEPT ![a].pc = "refused"]
    /\ UNCHANGED reg

\* Nothing was taken: a transient failure asks for a retry, any other counts as a bad payload.
ProviderFails(a) ==
    /\ ask[a].pc = "sending"
    /\ \E status \in {"upstream_error", "bad_payload"} : ask' = Answered(a, status)
    /\ UNCHANGED reg

\* The provider took the push and its answer did not come.  To the APNs sender every error of
\* its client is a failure to retry; FCM's, if it is neither unavailable nor internal, is not.
ProviderAnswerLost(a) ==
    /\ ask[a].pc = "sending"
    /\ \E status \in {"upstream_error", "bad_payload"} :
          /\ status = "bad_payload" => ask[a].token \in FcmTokens
          /\ ask' = Answered(a, status)
    /\ UNCHANGED reg

\* The registration is deleted by device, whatever token it holds now.
ForgetRegistration(a) ==
    /\ ask[a].pc = "refused"
    /\ DeleteRegistration(ask[a].dev)
    /\ ask' = Answered(a, "invalid_token")

\* The error of the deletion is discarded: the answer is the same with the registration kept.
ForgetFails(a) ==
    /\ ask[a].pc = "refused"
    /\ ask' = Answered(a, "invalid_token")
    /\ UNCHANGED reg

\* A handler nobody waits for is cancelled.
RelayAbandons(a) ==
    /\ ask[a].pc \in {"posted", "sending"}
    /\ ~ask[a].waited
    /\ ask' = [ask EXCEPT ![a] = NoAsk]
    /\ UNCHANGED reg
===============================================================================
