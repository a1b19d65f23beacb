-------------------------------- MODULE Pairing ---------------------------------
(***************************************************************************)
(* Pairing a device (internal/usecase/pairing.go, internal/pairing):       *)
(* a request with a nonce, the owner's confirmation page and its CSRF      *)
(* token, the long poll of the client, and the broadcaster between them.   *)
(* The bearer token exists only in the confirmation that made it and in    *)
(* the channel of the poll that is subscribed: who misses it there never   *)
(* gets it.                                                                *)
(***************************************************************************)
EXTENDS Naturals, FiniteSets

CONSTANTS Pairs,        \* pairing requests
          Polls,        \* handlers of GET /v1/pair/status that may run at once
          Confirms,     \* handlers of POST /pair/confirm; each makes its own device
          Pages,        \* confirmation pages opened, each with a token of its own
          Nothing

ASSUME PairingAssumption == Nothing \notin Pairs \cup Polls \cup Confirms \cup Pages

VARIABLES pairing,      \* table pairing_requests
          paired,       \* rows of devices, by the confirmation that made them
          subs,         \* Broadcaster.subs
          poll, confirm,
          opened,       \* pages the owner's browser has loaded
          told          \* auxiliary: which poll answered with which device's token

pairingVars == <<pairing, paired, subs, poll, confirm, opened, told>>

NoPairing == [row |-> "none", expired |-> FALSE, csrf |-> Nothing, device |-> Nothing]
NoPoll    == [pc |-> "idle", pair |-> Nothing, channel |-> Nothing]
NoConfirm == [pc |-> "idle", pair |-> Nothing]

PairingTypeOK ==
    /\ pairing \in [Pairs -> [row : {"none", "stored", "deleted"}, expired : BOOLEAN,
                              csrf : Pages \cup {Nothing}, device : Confirms \cup {Nothing}]]
    /\ paired \in SUBSET Confirms
    /\ subs \in [Pairs -> Polls \cup {Nothing}]
    /\ poll \in [Polls -> [pc : {"idle", "subscribe", "reread", "wait"}, pair : Pairs \cup {Nothing},
                           channel : Confirms \cup {Nothing}]]
    /\ confirm \in [Confirms -> [pc : {"idle", "commit", "notify", "done"}, pair : Pairs \cup {Nothing}]]
    /\ opened \subseteq Pairs \X Pages
    /\ told \subseteq Polls \X Confirms

PairingInit ==
    /\ pairing = [q \in Pairs |-> NoPairing]
    /\ paired = {}
    /\ subs = [q \in Pairs |-> Nothing]
    /\ poll = [p \in Polls |-> NoPoll]
    /\ confirm = [c \in Confirms |-> NoConfirm]
    /\ opened = {}
    /\ told = {}

-------------------------------------------------------------------------------
(* The request and the owner's page.                                       *)

\* The row is committed before the link is sent; a link that is not sent leaves the row.
RequestPairing(q) ==
    /\ pairing[q].row = "none"
    /\ pairing' = [pairing EXCEPT ![q].row = "stored"]
    /\ UNCHANGED <<paired, subs, poll, confirm, opened, told>>

Expire(q) ==
    /\ pairing[q].row = "stored" /\ ~pairing[q].expired
    /\ pairing' = [pairing EXCEPT ![q].expired = TRUE]
    /\ UNCHANGED <<paired, subs, poll, confirm, opened, told>>

\* The hourly sweep, long after the expiry, confirmed or not.
DeleteExpired(q) ==
    /\ pairing[q].row = "stored" /\ pairing[q].expired
    /\ pairing' = [pairing EXCEPT ![q] = [NoPairing EXCEPT !.row = "deleted"]]
    /\ UNCHANGED <<paired, subs, poll, confirm, opened, told>>

\* PrepareConfirm: the token of the newest page replaces the others, also after the
\* confirmation.
OpenPage(q, page) ==
    /\ pairing[q].row = "stored" /\ ~pairing[q].expired
    /\ \A r \in Pairs : <<r, page>> \notin opened
    /\ pairing' = [pairing EXCEPT ![q].csrf = page]
    /\ opened' = opened \cup {<<q, page>>}
    /\ UNCHANGED <<paired, subs, poll, confirm, told>>

-------------------------------------------------------------------------------
(* ConfirmWithCSRF.                                                        *)

\* The form comes from any page that was opened for the request.
ConfirmGet(c, q, page) ==
    /\ confirm[c] = NoConfirm
    /\ <<q, page>> \in opened
    /\ pairing[q].row = "stored" /\ ~pairing[q].expired
    /\ pairing[q].device = Nothing
    /\ pairing[q].csrf = page
    /\ confirm' = [confirm EXCEPT ![c] = [pc |-> "commit", pair |-> q]]
    /\ UNCHANGED <<pairing, paired, subs, poll, opened, told>>

MarkUnchecked(q) == pairing[q].row = "stored"

\* MarkConfirmedTx finds a row that is not confirmed yet.
MarkConfirmedTx(q) == pairing[q].row = "stored" /\ pairing[q].device = Nothing

\* One transaction: the device and the mark, or neither.
ConfirmCommit(c) ==
    /\ confirm[c].pc = "commit"
    /\ MarkConfirmedTx(confirm[c].pair)
    /\ paired' = paired \cup {c}
    /\ pairing' = [pairing EXCEPT ![confirm[c].pair].device = c]
    /\ confirm' = [confirm EXCEPT ![c].pc = "notify"]
    /\ UNCHANGED <<subs, poll, opened, told>>

\* Confirmed by another form, deleted, a failed transaction, a browser that went away.
ConfirmFail(c) ==
    /\ confirm[c].pc = "commit"
    /\ confirm' = [confirm EXCEPT ![c].pc = "done"]
    /\ UNCHANGED <<pairing, paired, subs, poll, opened, told>>

NotifyAll(c) ==
    /\ confirm[c].pc = "notify"
    /\ poll' = [p \in Polls |-> IF poll[p].pc = "wait" /\ poll[p].pair = confirm[c].pair
                               THEN [poll[p] EXCEPT !.channel = c] ELSE poll[p]]
    /\ confirm' = [confirm EXCEPT ![c].pc = "done"]
    /\ UNCHANGED <<pairing, paired, subs, opened, told>>

\* After the registration at the relay, whatever it answers.
Notify(c) ==
    /\ confirm[c].pc = "notify"
    /\ LET p == subs[confirm[c].pair]
       IN  poll' = IF p # Nothing /\ poll[p].channel = Nothing THEN [poll EXCEPT ![p].channel = c] ELSE poll
    /\ confirm' = [confirm EXCEPT ![c].pc = "done"]
    /\ UNCHANGED <<pairing, paired, subs, opened, told>>

-------------------------------------------------------------------------------
(* PollStatus.                                                             *)

\* The row exists, is not expired, and the nonce is the client's.
PollGet(p, q) ==
    /\ poll[p] = NoPoll
    /\ pairing[q].row = "stored" /\ ~pairing[q].expired
    /\ poll' = [poll EXCEPT ![p] = [NoPoll EXCEPT !.pc = "subscribe", !.pair = q]]
    /\ UNCHANGED <<pairing, paired, subs, confirm, opened, told>>

SubscribeLast(p) ==
    /\ poll[p].pc \in {"subscribe", "reread"}
    /\ IF poll[p].pc = "subscribe"
       THEN /\ pairing[poll[p].pair].row = "stored" /\ pairing[poll[p].pair].device = Nothing
            /\ poll' = [poll EXCEPT ![p].pc = "reread"] /\ UNCHANGED subs
       ELSE /\ poll' = [poll EXCEPT ![p].pc = "wait"] /\ subs' = [subs EXCEPT ![poll[p].pair] = p]
    /\ UNCHANGED <<pairing, paired, confirm, opened, told>>

\* A second poll of the same request takes the first one's place.
Subscribe(p) ==
    /\ poll[p].pc = "subscribe"
    /\ subs' = [subs EXCEPT ![poll[p].pair] = p]
    /\ poll' = [poll EXCEPT ![p].pc = "reread"]
    /\ UNCHANGED <<pairing, paired, confirm, opened, told>>

Reread(p) ==
    /\ poll[p].pc = "reread"
    /\ pairing[poll[p].pair].row = "stored" /\ pairing[poll[p].pair].device = Nothing
    /\ poll' = [poll EXCEPT ![p].pc = "wait"]
    /\ UNCHANGED <<pairing, paired, subs, confirm, opened, told>>

\* The deferred clean-up leaves a subscription that is not the poll's own.
Leaves(p) ==
    /\ subs' = [q \in Pairs |-> IF subs[q] = p THEN Nothing ELSE subs[q]]
    /\ poll' = [poll EXCEPT ![p] = NoPoll]

\* The row was confirmed already: whatever the channel holds, or "already confirmed".
RereadConfirmed(p) ==
    /\ poll[p].pc = "reread"
    /\ pairing[poll[p].pair].device # Nothing
    /\ told' = IF poll[p].channel = Nothing THEN told ELSE told \cup {<<p, poll[p].channel>>}
    /\ Leaves(p)
    /\ UNCHANGED <<pairing, paired, confirm, opened>>

PollReceives(p) ==
    /\ poll[p].pc = "wait"
    /\ poll[p].channel # Nothing
    /\ told' = told \cup {<<p, poll[p].channel>>}
    /\ Leaves(p)
    /\ UNCHANGED <<pairing, paired, confirm, opened>>

\* The long poll is over, the client went away, a read failed.  A token in the channel is lost.
PollEnds(p) ==
    /\ poll[p].pc # "idle"
    /\ Leaves(p)
    /\ UNCHANGED <<pairing, paired, confirm, opened, told>>

\* Handlers and channels are gone, the tables stay.
PairingRestart ==
    /\ subs' = [q \in Pairs |-> Nothing]
    /\ poll' = [p \in Polls |-> NoPoll]
    /\ confirm' = [c \in Confirms |-> IF confirm[c].pc = "idle" THEN NoConfirm ELSE [confirm[c] EXCEPT !.pc = "done"]]
    /\ UNCHANGED <<pairing, paired, opened, told>>

PairingNext ==
    \/ \E q \in Pairs : \/ RequestPairing(q) \/ Expire(q) \/ DeleteExpired(q)
                        \/ \E page \in Pages : OpenPage(q, page)
    \/ \E c \in Confirms : \/ ConfirmCommit(c) \/ ConfirmFail(c) \/ Notify(c)
                           \/ \E q \in Pairs, page \in Pages : ConfirmGet(c, q, page)
    \/ \E p \in Polls : \/ Subscribe(p) \/ Reread(p) \/ RereadConfirmed(p) \/ PollReceives(p) \/ PollEnds(p)
                        \/ \E q \in Pairs : PollGet(p, q)
    \/ PairingRestart

PairingSpec == PairingInit /\ [][PairingNext]_pairingVars

-------------------------------------------------------------------------------
(* Correctness.                                                            *)

\* Forms submitted twice, from several pages or at once, make one device per request, and the
\* request names it: no bearer of a token exists that its row does not account for.
OneDevicePerPairing ==
    \A c, e \in Confirms : c \in paired /\ e \in paired /\ confirm[c].pair = confirm[e].pair => c = e

\* No lost wakeup (the comment at pairing.go:178): a poll that waits, and holds the
\* subscription, is never left behind by a confirmation that has been published already.
\* A poll whose subscription a later one took over waits for its time-out.
WaitingPollWillHear ==
    \A p \in Polls :
       LET q == poll[p].pair
       IN  poll[p].pc = "wait" /\ subs[q] = p /\ pairing[q].device # Nothing
           /\ confirm[pairing[q].device].pc = "done" => poll[p].channel = pairing[q].device

\* A token reaches one poll at most, and only one that asked for that device's request.
TokenTakenOnce ==
    \A c \in Confirms : /\ Cardinality({p \in Polls : <<p, c>> \in told \/ poll[p].channel = c}) <= 1
                        /\ \A p \in Polls : poll[p].channel = c => poll[p].pair = confirm[c].pair
===============================================================================
