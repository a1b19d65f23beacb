---------------------------- MODULE IdempotencyCache ----------------------------
(***************************************************************************)
(* The idempotency middleware (internal/api/idempotency.go).  A request    *)
(* that finds no entry for its key makes one and runs the handler; the     *)
(* others wait for it and replay its response.  An entry disappears when   *)
(* it expires, when newer ones push it out, or when somebody's handler     *)
(* fails - the entry of the key then, which need not be one's own.         *)
(* A request makes one entry at most, so entries are named by requests.    *)
(***************************************************************************)
EXTENDS Selection

CONSTANTS Keys,         \* device and Idempotency-Key
          Requests, NoRequest,
          MaxEntries

ASSUME IdempotencyAssumption ==
    /\ Keys # {} /\ IsFiniteSet(Requests) /\ NoRequest \notin Requests
    /\ MaxEntries \in Nat \ {0}

VARIABLES cached,       \* the map: which request's entry a key has
          lru,          \* the list, most recently used first
          entry,        \* the entries themselves: waiters hold on to removed ones
          horizon,      \* entries made before it have expired
          request,
          ran, forgotten  \* auxiliary, per key: runs that ended below 500, and entries lost otherwise than by their own failure

idempotencyVars == <<cached, lru, entry, horizon, request, ran, forgotten>>

NoEntry     == [made |-> 0, ready |-> FALSE, response |-> FALSE]
IdleRequest == [pc |-> "idle", key |-> CHOOSE k \in Keys : TRUE, on |-> NoRequest]

IdempotencyTypeOK ==
    /\ cached \in [Keys -> Requests \cup {NoRequest}]
    /\ lru \in Seq(Requests) /\ Len(lru) <= MaxEntries
    /\ \A i, j \in 1..Len(lru) : lru[i] = lru[j] => i = j
    /\ \A r \in Requests : (\E i \in 1..Len(lru) : lru[i] = r) <=> cached[request[r].key] = r
    /\ entry \in [Requests -> [made : Nat, ready : BOOLEAN, response : BOOLEAN]]
    /\ horizon \in Nat
    /\ request \in [Requests -> [pc : {"idle", "reserve", "wait", "handle", "done"}, key : Keys,
                                 on : Requests \cup {NoRequest}]]
    /\ ran \in [Keys -> Nat] /\ forgotten \in [Keys -> Nat]

IdempotencyInit ==
    /\ cached = [k \in Keys |-> NoRequest]
    /\ lru = <<>>
    /\ entry = [r \in Requests |-> NoEntry]
    /\ horizon = 1
    /\ request = [r \in Requests |-> IdleRequest]
    /\ ran = [k \in Keys |-> 0] /\ forgotten = [k \in Keys |-> 0]

Made == Cardinality({r \in Requests : entry[r].made > 0})
Others(seq, r) == SelectIn(seq, Requests \ {r})

TtlPasses ==
    /\ horizon <= Made
    /\ horizon' = horizon + 1
    /\ UNCHANGED <<cached, lru, entry, request, ran, forgotten>>

ReceiveRequest(r, k) ==
    /\ request[r].pc = "idle"
    /\ request' = [request EXCEPT ![r] = [@ EXCEPT !.pc = "reserve", !.key = k]]
    /\ UNCHANGED <<cached, lru, entry, horizon, ran, forgotten>>

Expired(r) == entry[r].made < horizon

\* An entry that has not expired is taken, and moves to the front.
ReserveExisting(r) ==
    /\ request[r].pc = "reserve"
    /\ LET e == cached[request[r].key]
       IN  /\ e # NoRequest /\ ~Expired(e)
           /\ lru' = <<e>> \o Others(lru, e)
           /\ request' = [request EXCEPT ![r] = [@ EXCEPT !.pc = "wait", !.on = e]]
    /\ UNCHANGED <<cached, entry, horizon, ran, forgotten>>

NoneEvicted(seq) == {}

\* The least recently used entry leaves, running or not.
Evicted(seq) == IF Len(seq) > MaxEntries THEN {seq[Len(seq)]} ELSE {}

\* Otherwise a new entry takes the place of an expired one.
ReserveNew(r) ==
    LET k    == request[r].key
        old  == cached[k]
        seq  == <<r>> \o Others(lru, old)
        out  == Evicted(seq)
        lost == {request[e].key : e \in out} \cup (IF old = NoRequest THEN {} ELSE {k})
    IN  /\ request[r].pc = "reserve"
        /\ old # NoRequest => Expired(old)
        /\ entry' = [entry EXCEPT ![r].made = Made + 1]
        /\ lru' = SelectIn(seq, Requests \ out)
        /\ cached' = [l \in Keys |-> IF l = k /\ r \notin out THEN r
                                     ELSE IF \E e \in out : request[e].key = l THEN NoRequest ELSE cached[l]]
        /\ request' = [request EXCEPT ![r] = [@ EXCEPT !.pc = "handle", !.on = r]]
        /\ forgotten' = [l \in Keys |-> forgotten[l] + IF l \in lost THEN 1 ELSE 0]
        /\ UNCHANGED <<horizon, ran>>

HandlerNotCached(r) ==
    /\ request[r].pc = "handle"
    /\ entry' = [entry EXCEPT ![r].ready = TRUE]
    /\ cached' = [cached EXCEPT ![request[r].key] = NoRequest]
    /\ lru' = Others(lru, cached[request[r].key])
    /\ request' = [request EXCEPT ![r].pc = "done"]
    /\ ran' = [ran EXCEPT ![request[r].key] = @ + 1]
    /\ UNCHANGED <<horizon, forgotten>>

\* The handler answered below 500: the entry keeps the response, in the map or not.
HandlerSucceeds(r) ==
    /\ request[r].pc = "handle"
    /\ entry' = [entry EXCEPT ![r] = [@ EXCEPT !.ready = TRUE, !.response = TRUE]]
    /\ request' = [request EXCEPT ![r].pc = "done"]
    /\ ran' = [ran EXCEPT ![request[r].key] = @ + 1]
    /\ UNCHANGED <<cached, lru, horizon, forgotten>>

HandlerFailsSilently(r) ==
    /\ request[r].pc = "handle"
    /\ request' = [request EXCEPT ![r].pc = "done"]
    /\ UNCHANGED <<cached, lru, entry, horizon, ran, forgotten>>

\* 5xx, or a panic: whatever entry the key has is removed, and the waiters try again.
HandlerFails(r) ==
    LET e == cached[request[r].key]
    IN  /\ request[r].pc = "handle"
        /\ entry' = [entry EXCEPT ![r].ready = TRUE]
        /\ cached' = [cached EXCEPT ![request[r].key] = NoRequest]
        /\ lru' = Others(lru, e)
        /\ request' = [request EXCEPT ![r].pc = "done"]
        /\ forgotten' = [forgotten EXCEPT ![request[r].key] = @ + IF e \in {r, NoRequest} THEN 0 ELSE 1]
        /\ UNCHANGED <<horizon, ran>>

Replay(r) ==
    /\ request[r].pc = "wait"
    /\ entry[request[r].on].ready
    /\ request' = [request EXCEPT ![r].pc = IF entry[request[r].on].response THEN "done" ELSE "reserve"]
    /\ UNCHANGED <<cached, lru, entry, horizon, ran, forgotten>>

ClientDisconnects(r) ==
    /\ request[r].pc = "wait"
    /\ request' = [request EXCEPT ![r].pc = "done"]
    /\ UNCHANGED <<cached, lru, entry, horizon, ran, forgotten>>

IdempotencyNext ==
    \/ TtlPasses
    \/ \E r \in Requests : \/ \E k \in Keys : ReceiveRequest(r, k)
                           \/ ReserveExisting(r) \/ ReserveNew(r)
                           \/ HandlerSucceeds(r) \/ HandlerFails(r)
                           \/ Replay(r) \/ ClientDisconnects(r)

IdempotencySpec == IdempotencyInit /\ [][IdempotencyNext]_idempotencyVars

-------------------------------------------------------------------------------
(* Correctness.                                                            *)

\* The promise of the cache: a key's handler takes effect a second time only if an entry of
\* the key was lost - expired, pushed out, or removed by another request's failure.
SecondRunExplained == \A k \in Keys : ran[k] <= 1 + forgotten[k]

\* Nobody waits for an entry whose handler has ended, however it ended and wherever the entry
\* is by then (the comment at idempotency.go:69).
WaitersReleased ==
    \A r \in Requests : request[r].pc = "wait" /\ request[request[r].on].pc = "done" => entry[request[r].on].ready
===============================================================================
