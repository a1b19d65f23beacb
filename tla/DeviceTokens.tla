------------------------------ MODULE DeviceTokens ------------------------------
(***************************************************************************)
(* Device rows (internal/devices/store.go) and the handlers that change    *)
(* their push tokens or revoke them (internal/api/devices.go, the devices  *)
(* command, the hourly sweep), each followed by a call to the relay.  One  *)
(* step per statement and per call; a call that times out may still arrive *)
(* later, so a handler's last step may come at any time, or never.         *)
(***************************************************************************)
EXTENDS PushRelay

CONSTANTS Patches,      \* handlers of PATCH /v1/devices/me that may run at once
          Revokers,     \* revocations that may run at once
          Keep          \* a field the PATCH does not mention

ASSUME DeviceTokensAssumption == Keep \notin ApnsTokens \cup FcmTokens \cup {None}

VARIABLES device,       \* table devices
          patch, revoker,
          settled       \* auxiliary: the last PATCH or revocation of a device ran alone, and nothing
                        \* failed or crossed since it began

deviceVars == <<device, patch, revoker, settled>>

NoPatch   == [pc |-> "idle", dev |-> None, apns |-> Keep, fcm |-> Keep, tokens |-> NoTokens]
NoRevoker == [pc |-> "idle", dev |-> None]

DeviceTypeOK ==
    /\ device \in [Devices -> [status : {"active", "revoked", "deleted"}, tokens : TokenPair]]
    /\ patch \in [Patches -> [pc : {"idle", "get", "write", "reread", "relay"}, dev : Devices \cup {None},
                              apns : ApnsTokens \cup {None, Keep}, fcm : FcmTokens \cup {None, Keep},
                              tokens : TokenPair]]
    /\ revoker \in [Revokers -> [pc : {"idle", "write", "relay"}, dev : Devices \cup {None}]]
    /\ settled \in [Devices -> BOOLEAN]

\* Something is under way that may still change the row or the registration of the device.
Busy(d) ==
    \/ \E p \in Patches : patch[p].dev = d
    \/ \E r \in Revokers : revoker[r].dev = d
    \/ \E a \in Asks : ask[a].dev = d

Begins(d)     == settled' = [settled EXCEPT ![d] = ~Busy(d)]
Interrupts(d) == settled' = [settled EXCEPT ![d] = FALSE]

-------------------------------------------------------------------------------
(* PATCH /v1/devices/me.                                                   *)

\* The middleware admits the bearer of an active device; an empty PATCH is refused.
PatchStart(p, d, apns, fcm) ==
    /\ patch[p] = NoPatch
    /\ device[d].status = "active"
    /\ apns # Keep \/ fcm # Keep
    /\ patch' = [patch EXCEPT ![p] = [NoPatch EXCEPT !.pc = "get", !.dev = d, !.apns = apns, !.fcm = fcm]]
    /\ Begins(d)
    /\ UNCHANGED <<device, revoker, relayVars>>

PatchEnds(p) == patch' = [patch EXCEPT ![p] = NoPatch]

\* newAPNS and newFCM: a field that is absent keeps the value just read.
Merged(p) ==
    LET now == device[patch[p].dev].tokens
    IN  [apns |-> IF patch[p].apns = Keep THEN now.apns ELSE patch[p].apns,
         fcm  |-> IF patch[p].fcm = Keep THEN now.fcm ELSE patch[p].fcm]

PatchGet(p) ==
    /\ patch[p].pc = "get"
    /\ device[patch[p].dev].status # "deleted"
    /\ patch' = [patch EXCEPT ![p] = [patch[p] EXCEPT !.pc = "write", !.tokens = Merged(p)]]
    /\ UNCHANGED <<device, revoker, settled, relayVars>>

\* A statement by id: it changes a revoked row too, and no row when it is deleted.
UpdatePushTokens(d, tokens) ==
    device' = [device EXCEPT ![d].tokens = IF device[d].status = "deleted" THEN @ ELSE tokens]

PatchWrite(p) ==
    /\ patch[p].pc = "write"
    /\ UpdatePushTokens(patch[p].dev, patch[p].tokens)
    /\ patch' = [patch EXCEPT ![p].pc = "reread"]
    /\ UNCHANGED <<revoker, settled, relayVars>>

PatchReread(p) ==
    /\ patch[p].pc = "reread"
    /\ device[patch[p].dev].status # "deleted"
    /\ patch' = [patch EXCEPT ![p] = [patch[p] EXCEPT !.pc = "relay", !.tokens = device[patch[p].dev].tokens]]
    /\ UNCHANGED <<device, revoker, settled, relayVars>>

PatchRelayKeepsEmpty(p) ==
    /\ patch[p].pc = "relay"
    /\ IF patch[p].tokens = NoTokens THEN UNCHANGED reg ELSE UpsertRegistration(patch[p].dev, patch[p].tokens)
    /\ PatchEnds(p)
    /\ UNCHANGED <<device, revoker, settled, ask>>

\* The row that was read again goes to the relay; a failure is only logged.
PatchRelay(p) ==
    /\ patch[p].pc = "relay"
    /\ IF patch[p].tokens = NoTokens
       THEN DeleteRegistration(patch[p].dev)
       ELSE UpsertRegistration(patch[p].dev, patch[p].tokens)
    /\ PatchEnds(p)
    /\ UNCHANGED <<device, revoker, settled, ask>>

\* The row is gone, a statement fails, the client disconnects, or the relay is not reached.
PatchFail(p) ==
    /\ patch[p].pc # "idle"
    /\ PatchEnds(p)
    /\ Interrupts(patch[p].dev)
    /\ UNCHANGED <<device, revoker, relayVars>>

-------------------------------------------------------------------------------
(* Revocation: DELETE /v1/devices/{id}, the devices command, the sweep.    *)

\* The handler finds the row, revoked or not.  The sweep lists active rows only, the
\* command reads none.
RevokeStart(r, d) ==
    /\ revoker[r] = NoRevoker
    /\ device[d].status # "deleted"
    /\ revoker' = [revoker EXCEPT ![r] = [pc |-> "write", dev |-> d]]
    /\ Begins(d)
    /\ UNCHANGED <<device, patch, relayVars>>

\* revoked_at is set once; a row that is gone stays gone.
Revoke(r) ==
    /\ revoker[r].pc = "write"
    /\ device' = [device EXCEPT ![revoker[r].dev].status = IF @ = "active" THEN "revoked" ELSE @]
    /\ revoker' = [revoker EXCEPT ![r].pc = "relay"]
    /\ UNCHANGED <<patch, settled, relayVars>>

RevokeRelay(r) ==
    /\ revoker[r].pc = "relay"
    /\ DeleteRegistration(revoker[r].dev)
    /\ revoker' = [revoker EXCEPT ![r] = NoRevoker]
    /\ UNCHANGED <<device, patch, settled, ask>>

RevokeFail(r) ==
    /\ revoker[r].pc # "idle"
    /\ revoker' = [revoker EXCEPT ![r] = NoRevoker]
    /\ Interrupts(revoker[r].dev)
    /\ UNCHANGED <<device, patch, relayVars>>

\* Long after its revocation the sweep deletes the row.
DeleteRevoked(d) ==
    /\ device[d].status = "revoked"
    /\ device' = [device EXCEPT ![d] = [status |-> "deleted", tokens |-> NoTokens]]
    /\ UNCHANGED <<patch, revoker, settled, relayVars>>

DeviceStart ==
    \E d \in Devices :
       \/ \E p \in Patches, apns \in ApnsTokens \cup {None, Keep}, fcm \in FcmTokens \cup {None, Keep} :
             PatchStart(p, d, apns, fcm)
       \/ \E r \in Revokers : RevokeStart(r, d)

DeviceStep ==
    \/ \E p \in Patches : PatchGet(p) \/ PatchWrite(p) \/ PatchReread(p) \/ PatchRelay(p) \/ PatchFail(p)
    \/ \E r \in Revokers : Revoke(r) \/ RevokeRelay(r) \/ RevokeFail(r)

-------------------------------------------------------------------------------
(* Correctness.                                                            *)

\* What the relay should hold for the row as it is.
Registered(d) == IF device[d].status = "active" THEN device[d].tokens ELSE NoTokens

\* The row and the registration heal: whatever failed or crossed before, once a PATCH or a
\* revocation has run alone and to its end, the relay holds exactly the tokens of the row, and
\* none for a revoked device (README.md:468-469).  A push that is refused clears both sides and
\* keeps them in step, unless it crosses a change or a statement or an answer of it fails.
RelayInStep == \A d \in Devices : settled[d] /\ ~Busy(d) => reg[d] = Registered(d)
===============================================================================
