------------------------------- MODULE HttpProofs -------------------------------
(***************************************************************************)
(* Proofs about the two HTTP servers: who may speak to the push relay      *)
(* (RelayInstances), the idempotency middleware of the instance's own API  *)
(* (IdempotencyCache), and its pairing handlers (Pairing), for any number  *)
(* of instances, keys, requests, pages, forms, polls and restarts.         *)
(***************************************************************************)
EXTENDS Pairing, RelayInstances, IdempotencyCache, SelectionProofs, TLAPS

(***************************************************************************)
(* The relay's instances.                                                  *)
(***************************************************************************)

\* The daemon as it is before it serves: no secret in memory, no request let in.
NotServing == secrets = NoSecrets /\ \A r \in Calls : call[r].pc = "idle"

\* While the table is what the secrets were loaded with, who may speak has an active row.
SecretsActive == \A i \in Instances : secrets[i] # NoSecret => row[i] = "active"

\* Rows are never deleted: who has a secret, or has had one when the request came, has a row.
SecretsHaveRows == \A i \in Instances : secrets[i] # NoSecret => row[i] # "absent"
CallsHaveRows == \A r \in Calls : call[r].pc \in {"body", "admitted"} => row[call[r].id] # "absent"

\* Between the transaction and the loading of the secrets, what is listed is active.
ListActive == \A i \in Listed(daemon.list) : row[i] = "active"

InstancesInv ==
    /\ InstancesTypeOK
    /\ daemon.pc \in {"down", "starting", "started"} => NotServing
    /\ daemon.pc \in {"up", "reloading"} => SecretsActive
    /\ daemon.pc \in {"started", "synced"} => ListActive
    /\ SecretsHaveRows
    /\ CallsHaveRows

-------------------------------------------------------------------------------
(* Types.                                                                  *)

\* An entry of a list that counts for an instance is one of the file; without one there is no
\* secret.
LEMMA SecretType ==
    ASSUME NEW list \in Lists, NEW i \in Instances
    PROVE  /\ Secret(list, i) \in Secrets \cup {NoSecret}
           /\ Secret(list, i) # NoSecret => i \in Listed(list)
<1>. DEFINE given == {k \in DOMAIN list : list[k].id = i /\ list[k].secret # NoSecret}
<1>1. PICK n \in 0 .. MaxInstances : list \in [1 .. n -> InstanceSpec]
  BY DEF Lists
<1>2. CASE given = {}
  BY <1>2 DEF Secret
<1>3. CASE given # {}
  <2>1. given \in SUBSET (1 .. n) /\ given \in SUBSET Int
    BY <1>1
  <2>2. IsFiniteSet(given)
    <3>1. n \in Int /\ IsFiniteSet(1 .. n)
      BY RelayInstancesAssumption, FS_Interval
    <3>. QED
      BY <2>1, <3>1, FS_Subset
  <2>3. \E k \in given : \A l \in given : l <= k
    BY <1>3, <2>1, <2>2, GreatestExists
  <2>. DEFINE last == CHOOSE k \in given : \A l \in given : l <= k
  <2>4. last \in given
    BY <2>3
  <2>5. Secret(list, i) = list[last].secret
    BY <1>3 DEF Secret
  <2>6. last \in 1 .. n /\ list[last].id = i
    BY <1>1, <2>4
  <2>7. list[last] \in InstanceSpec
    BY <1>1, <2>6
  <2>. QED
    BY <1>1, <2>5, <2>6, <2>7 DEF InstanceSpec, Listed
<1>. QED
  BY <1>2, <1>3

LEMMA EmptyList == <<>> \in Lists /\ Listed(<<>>) = {}
<1>1. <<>> \in [1 .. 0 -> InstanceSpec] /\ 0 \in 0 .. MaxInstances
  BY RelayInstancesAssumption
<1>. QED
  BY <1>1 DEF Lists, Listed

LEMMA NoCallType ==
    NoCall \in [pc : {"idle", "arrived", "body", "admitted"}, id : Instances,
                signed : Secrets \cup {NoSecret}, known : Secrets \cup {NoSecret}]
BY RelayInstancesAssumption DEF NoCall

\* The relay starts in a state of the invariant.
LEMMA InstancesInitInv == InstancesInit => InstancesInv
<1>. SUFFICES ASSUME InstancesInit PROVE InstancesInv
  OBVIOUS
<1>1. InstancesTypeOK
  BY EmptyList, NoCallType DEF InstancesInit, InstancesTypeOK, NoSecrets
<1>2. NotServing
  BY DEF InstancesInit, NotServing, NoCall
<1>. QED
  BY <1>1, <1>2 DEF InstancesInit, InstancesInv, NotServing, NoSecrets, SecretsHaveRows, CallsHaveRows

\* Every step keeps the types.
LEMMA InstancesStepType == InstancesTypeOK /\ [InstancesNext]_instancesVars => InstancesTypeOK'
<1>. SUFFICES ASSUME InstancesTypeOK, [InstancesNext]_instancesVars PROVE InstancesTypeOK'
  OBVIOUS
<1>. USE DEF InstancesTypeOK
<1>1. CASE LoadRelayConfig
  BY <1>1 DEF LoadRelayConfig
<1>2. CASE SyncInstances
  BY <1>2 DEF SyncInstances, Synced
<1>3. CASE SyncFails
  BY <1>3, EmptyList DEF SyncFails
<1>4. CASE LoadSecrets
  BY <1>4, EmptyList, SecretType DEF LoadSecrets
<1>5. CASE RelayStops
  BY <1>5, EmptyList, NoCallType DEF RelayStops, NoSecrets
<1>6. ASSUME NEW r \in Calls, CallArrives(r) PROVE InstancesTypeOK'
  BY <1>6 DEF CallArrives
<1>7. ASSUME NEW r \in Calls, LookUpSecret(r) PROVE InstancesTypeOK'
  BY <1>7, NoCallType DEF LookUpSecret
<1>8. ASSUME NEW r \in Calls, VerifySignature(r) PROVE InstancesTypeOK'
  BY <1>8, NoCallType DEF VerifySignature
<1>9. ASSUME NEW r \in Calls, PutRegistration(r) PROVE InstancesTypeOK'
  BY <1>9, NoCallType DEF PutRegistration
<1>10. CASE UNCHANGED instancesVars
  BY <1>10 DEF instancesVars
<1>. QED
  BY <1>1, <1>2, <1>3, <1>4, <1>5, <1>6, <1>7, <1>8, <1>9, <1>10 DEF InstancesNext

-------------------------------------------------------------------------------
(* The secrets and the rows.                                               *)

\* Loaded secrets are secrets of listed instances, which the transaction has made active.
LEMMA LoadSecretsInv ==
    ASSUME InstancesInv, LoadSecrets
    PROVE  InstancesInv'
<1>1. InstancesTypeOK'
  BY InstancesStepType DEF InstancesInv, InstancesNext
<1>2. daemon.list \in Lists
  BY DEF InstancesInv, InstancesTypeOK
<1>3. ListActive /\ CallsHaveRows /\ row' = row /\ call' = call
  BY DEF InstancesInv, LoadSecrets
<1>4. \A i \in Instances : secrets'[i] # NoSecret => row[i] = "active"
  BY <1>2, <1>3, SecretType DEF LoadSecrets, ListActive
<1>5. daemon'.pc = "up"
  BY DEF LoadSecrets
<1>. QED
  BY <1>1, <1>3, <1>4, <1>5 DEF InstancesInv, SecretsActive, SecretsHaveRows, CallsHaveRows

\* The other steps of the daemon.
LEMMA DaemonInv ==
    ASSUME InstancesInv, LoadRelayConfig \/ SyncInstances \/ SyncFails \/ RelayStops
    PROVE  InstancesInv'
<1>1. InstancesTypeOK'
  BY InstancesStepType DEF InstancesInv, InstancesNext
<1>. USE DEF InstancesInv, InstancesTypeOK
<1>2. CASE LoadRelayConfig
  BY <1>1, <1>2 DEF LoadRelayConfig, NotServing, SecretsActive, SecretsHaveRows, CallsHaveRows
<1>3. CASE SyncInstances
  <2>1. \A i \in Instances : /\ row'[i] = "absent" => row[i] = "absent"
                             /\ i \in Listed(daemon.list) => row'[i] = "active"
    BY <1>3 DEF SyncInstances, Synced
  <2>2. \A i \in Listed(daemon.list) : i \in Instances
    BY DEF Listed, Lists, InstanceSpec
  <2>3. /\ secrets' = secrets /\ call' = call /\ daemon'.list = daemon.list
        /\ daemon.pc = "starting" => daemon'.pc = "started"
        /\ daemon.pc = "reloading" => daemon'.pc = "synced"
        /\ daemon.pc \in {"starting", "reloading"}
    BY <1>3 DEF SyncInstances
  <2>4. ListActive'
    BY <2>1, <2>2, <2>3 DEF ListActive
  <2>5. SecretsHaveRows' /\ CallsHaveRows'
    BY <2>1, <2>3 DEF SecretsHaveRows, CallsHaveRows
  <2>. QED
    BY <1>1, <2>3, <2>4, <2>5 DEF NotServing
<1>4. CASE SyncFails
  BY <1>1, <1>4 DEF SyncFails, NotServing, SecretsActive, SecretsHaveRows, CallsHaveRows
<1>5. CASE RelayStops
  BY <1>1, <1>5 DEF RelayStops, NotServing, NoSecrets, NoCall, SecretsHaveRows, CallsHaveRows
<1>. QED
  BY <1>2, <1>3, <1>4, <1>5

\* The steps of a request: it is let in with a secret that was in memory.
LEMMA RequestInv ==
    ASSUME InstancesInv, NEW r \in Calls,
           CallArrives(r) \/ LookUpSecret(r) \/ VerifySignature(r) \/ PutRegistration(r)
    PROVE  InstancesInv'
<1>1. InstancesTypeOK'
  BY InstancesStepType DEF InstancesInv, InstancesNext
<1>2. /\ row' = row /\ secrets' = secrets /\ daemon' = daemon
      /\ Serving \/ call[r].pc # "idle"
  BY DEF CallArrives, LookUpSecret, VerifySignature, PutRegistration
<1>3. daemon.pc \notin {"down", "starting", "started"}
  BY <1>2 DEF InstancesInv, NotServing, Serving
<1>4. CallsHaveRows'
  <2>. USE DEF InstancesInv, InstancesTypeOK, CallsHaveRows, NoCall
  <2>1. CASE CallArrives(r)
    BY <2>1 DEF CallArrives
  <2>2. CASE LookUpSecret(r)
    BY <2>2 DEF LookUpSecret, SecretsHaveRows
  <2>3. CASE VerifySignature(r)
    BY <2>3 DEF VerifySignature
  <2>4. CASE PutRegistration(r)
    BY <2>4 DEF PutRegistration
  <2>. QED
    BY <2>1, <2>2, <2>3, <2>4
<1>. QED
  BY <1>1, <1>2, <1>3, <1>4 DEF InstancesInv, SecretsActive, ListActive, SecretsHaveRows

\* The invariant is inductive.
LEMMA InstancesStepInv == InstancesInv /\ [InstancesNext]_instancesVars => InstancesInv'
<1>. SUFFICES ASSUME InstancesInv, [InstancesNext]_instancesVars PROVE InstancesInv'
  OBVIOUS
<1>1. CASE UNCHANGED instancesVars
  BY <1>1 DEF instancesVars, InstancesInv, InstancesTypeOK, NotServing, SecretsActive, ListActive,
     SecretsHaveRows, CallsHaveRows
<1>. QED
  BY <1>1, LoadSecretsInv, DaemonInv, RequestInv DEF InstancesNext

\* The tables and maps of the relay's instances hold values of their types
\* (internal/relay/loader.go).
THEOREM InstancesTyped == InstancesSpec => []InstancesTypeOK
<1>1. InstancesInv => InstancesTypeOK
  BY DEF InstancesInv
<1>. QED
  BY <1>1, InstancesInitInv, InstancesStepInv, PTL DEF InstancesSpec

\* Whichever reloads fail or are cut off, who may speak has an active row outside of a
\* synchronisation, and no request that was let in misses the row its registration refers to
\* (cmd/huskwoot-push-relay/main.go:106).
THEOREM InstancesKeepRows == InstancesSpec => []InstancesHaveRows
<1>1. InstancesInv => InstancesHaveRows
  BY DEF InstancesInv, InstancesHaveRows, SecretsActive, CallsHaveRows
<1>. QED
  BY <1>1, InstancesInitInv, InstancesStepInv, PTL DEF InstancesSpec

(***************************************************************************)
(* The idempotency middleware.                                             *)
(***************************************************************************)

Recent(e) == \E i \in 1 .. Len(lru) : lru[i] = e

\* The map leads to the entry of its key, which somebody has made.
CachedMade == \A k \in Keys : cached[k] # NoRequest =>
    request[cached[k]].key = k /\ entry[cached[k]].made > 0

\* A request has an entry from the moment it runs the handler, the entry is ready when the
\* handler has ended, and only a handler that has ended left a response.
EntriesMade == \A r \in Requests :
    /\ entry[r].made > 0 => request[r].pc \in {"handle", "done"}
    /\ request[r].pc = "handle" => entry[r].made > 0
    /\ entry[r].made > 0 /\ request[r].pc = "done" => entry[r].ready
    /\ entry[r].response => request[r].pc = "done"

WaitersWait == \A r \in Requests : request[r].pc = "wait" =>
    request[r].on \in Requests /\ entry[request[r].on].made > 0

\* Requests of a key whose handler answered below 500; and those whose handler runs as well.
Answering(k) == {r \in Requests : request[r].key = k /\ entry[r].response}
Running(k) == {r \in Requests : request[r].key = k /\ (request[r].pc = "handle" \/ entry[r].response)}

\* All but one of the runs of a key, the one its entry stands for, are accounted for by lost entries.
RunsCounted == \A k \in Keys :
    /\ ran[k] = Cardinality(Answering(k))
    /\ Cardinality(Running(k)) <= forgotten[k] + (IF cached[k] = NoRequest THEN 0 ELSE 1)

IdempotencyInv == IdempotencyTypeOK /\ CachedMade /\ EntriesMade /\ WaitersWait /\ RunsCounted

-------------------------------------------------------------------------------
(* The list of the entries.                                                *)

\* An entry is in the list exactly when the map leads to it.
LEMMA RecentCached ==
    ASSUME IdempotencyInv
    PROVE  /\ \A e \in Requests : Recent(e) <=> cached[request[e].key] = e
           /\ \A k \in Keys : cached[k] # NoRequest => Recent(cached[k])
BY DEF IdempotencyInv, IdempotencyTypeOK, CachedMade, Recent

\* The list without one entry.
LEMMA OthersList ==
    ASSUME IdempotencyTypeOK, NEW e
    PROVE  /\ Others(lru, e) \in Seq(Requests)
           /\ \A i, j \in 1 .. Len(Others(lru, e)) : Others(lru, e)[i] = Others(lru, e)[j] => i = j
           /\ \A x \in Requests :
                 (\E i \in 1 .. Len(Others(lru, e)) : Others(lru, e)[i] = x) <=> x # e /\ Recent(x)
           /\ Len(Others(lru, e)) <= Len(lru)
           /\ Recent(e) => Len(Others(lru, e)) < Len(lru)
<1>1. lru \in Seq(Requests) /\ IsInjective(lru)
  BY DEF IdempotencyTypeOK, IsInjective
<1>2. Others(lru, e) \in Seq(Requests) /\ IsInjective(Others(lru, e))
  BY <1>1, SelectInDistinct DEF Others
<1>3. Range(Others(lru, e)) = Range(lru) \cap (Requests \ {e})
  BY <1>1, SelectInDistinct DEF Others
<1>4. /\ Len(Others(lru, e)) <= Len(lru)
      /\ (\E i \in 1 .. Len(lru) : lru[i] \notin Requests \ {e}) => Len(Others(lru, e)) < Len(lru)
  BY <1>1, SelectInDistinct DEF Others
<1>5. \A x \in Requests :
          (\E i \in 1 .. Len(Others(lru, e)) : Others(lru, e)[i] = x) <=> x # e /\ Recent(x)
  <2>1. DOMAIN Others(lru, e) = 1 .. Len(Others(lru, e)) /\ DOMAIN lru = 1 .. Len(lru)
    BY <1>1, <1>2
  <2>. QED
    BY <1>3, <2>1 DEF Range, Recent
<1>. QED
  BY <1>2, <1>4, <1>5 DEF Recent, IsInjective

\* A list with a new member in front of it.
LEMMA InFront ==
    ASSUME NEW S, NEW seq \in Seq(S), NEW r \in S,
           \A i, j \in 1 .. Len(seq) : seq[i] = seq[j] => i = j,
           \A i \in 1 .. Len(seq) : seq[i] # r
    PROVE  /\ <<r>> \o seq \in Seq(S)
           /\ Len(<<r>> \o seq) = Len(seq) + 1
           /\ (<<r>> \o seq)[1] = r
           /\ \A i, j \in 1 .. Len(<<r>> \o seq) : (<<r>> \o seq)[i] = (<<r>> \o seq)[j] => i = j
           /\ Range(<<r>> \o seq) = Range(seq) \cup {r}
<1>. DEFINE t == <<r>> \o seq
<1>1. t \in Seq(S) /\ Len(t) = Len(seq) + 1 /\ t[1] = r /\ Len(seq) \in Nat
  OBVIOUS
<1>2. \A i \in 2 .. Len(t) : t[i] = seq[i - 1] /\ i - 1 \in 1 .. Len(seq)
  BY <1>1
<1>3. \A i \in 1 .. Len(seq) : t[i + 1] = seq[i] /\ i + 1 \in 1 .. Len(t)
  BY <1>1
<1>. HIDE DEF t
<1>4. \A i \in 1 .. Len(t) : i = 1 \/ i \in 2 .. Len(t)
  BY <1>1
<1>5. ASSUME NEW i \in 1 .. Len(t), NEW j \in 1 .. Len(t), t[i] = t[j] PROVE i = j
  <2>0. \A k \in 2 .. Len(t) : t[k] # r
    BY <1>2
  <2>1. CASE i = 1 \/ j = 1
    BY <1>1, <1>4, <1>5, <2>0, <2>1
  <2>2. CASE i \in 2 .. Len(t) /\ j \in 2 .. Len(t)
    <3>1. i - 1 = j - 1
      BY <1>2, <1>5, <2>2
    <3>. QED
      BY <3>1
  <2>. QED
    BY <1>4, <2>1, <2>2
<1>6. ASSUME NEW x
      PROVE  (\E i \in 1 .. Len(t) : t[i] = x) <=> x = r \/ \E i \in 1 .. Len(seq) : seq[i] = x
  <2>1. ASSUME NEW i \in 1 .. Len(t), t[i] = x, x # r PROVE \E k \in 1 .. Len(seq) : seq[k] = x
    <3>1. i \in 2 .. Len(t)
      BY <1>1, <1>4, <2>1
    <3>. QED
      BY <1>2, <2>1, <3>1
  <2>2. 1 \in 1 .. Len(t) /\ t[1] = r
    BY <1>1
  <2>3. ASSUME NEW i \in 1 .. Len(seq), seq[i] = x PROVE \E k \in 1 .. Len(t) : t[k] = x
    BY <1>3, <2>3
  <2>. QED
    BY <2>1, <2>2, <2>3
<1>7. Range(t) = Range(seq) \cup {r}
  <2>1. DOMAIN t = 1 .. Len(t) /\ DOMAIN seq = 1 .. Len(seq)
    BY <1>1
  <2>2. /\ \A x : x \in Range(t) <=> \E k \in 1 .. Len(t) : t[k] = x
        /\ \A x : x \in Range(seq) <=> \E i \in 1 .. Len(seq) : seq[i] = x
    BY <2>1 DEF Range
  <2>. QED
    BY <1>6, <2>2
<1>. QED
  BY <1>1, <1>5, <1>7 DEF t

LEMMA MadeType ==
    ASSUME IdempotencyTypeOK
    PROVE  Made \in Nat /\ Made + 1 > 0
<1>1. {r \in Requests : entry[r].made > 0} \in SUBSET Requests
  OBVIOUS
<1>. QED
  BY <1>1, IdempotencyAssumption, FS_Subset, FS_CardinalityType DEF Made

-------------------------------------------------------------------------------
(* Types, and what the map and the list know of each other.                *)

RequestStates == [pc : {"idle", "reserve", "wait", "handle", "done"}, key : Keys,
                  on : Requests \cup {NoRequest}]

\* The types of the parts other than the list.
PartsTyped ==
    /\ cached \in [Keys -> Requests \cup {NoRequest}]
    /\ entry \in [Requests -> [made : Nat, ready : BOOLEAN, response : BOOLEAN]]
    /\ horizon \in Nat
    /\ request \in [Requests -> RequestStates]
    /\ ran \in [Keys -> Nat] /\ forgotten \in [Keys -> Nat]

\* The list is well formed and its members are the entries of the map.
ListTyped ==
    /\ lru \in Seq(Requests) /\ Len(lru) <= MaxEntries
    /\ \A i, j \in 1 .. Len(lru) : lru[i] = lru[j] => i = j
    /\ \A r \in Requests : Recent(r) <=> cached[request[r].key] = r

LEMMA TypeParts == IdempotencyTypeOK <=> PartsTyped /\ ListTyped
BY DEF IdempotencyTypeOK, PartsTyped, ListTyped, RequestStates, Recent

LEMMA IdempotencyInitInv == IdempotencyInit => IdempotencyInv
<1>. SUFFICES ASSUME IdempotencyInit PROVE IdempotencyInv
  OBVIOUS
<1>1. IdleRequest \in RequestStates /\ IdleRequest.pc = "idle"
  BY IdempotencyAssumption DEF IdleRequest, RequestStates
<1>2. PartsTyped
  BY <1>1, IdempotencyAssumption DEF IdempotencyInit, PartsTyped, NoEntry
<1>3. ListTyped
  BY <1>1, IdempotencyAssumption DEF IdempotencyInit, ListTyped, Recent, RequestStates
<1>4. CachedMade /\ EntriesMade /\ WaitersWait
  BY <1>1 DEF IdempotencyInit, CachedMade, EntriesMade, WaitersWait, NoEntry
<1>5. RunsCounted
  <2>1. \A k \in Keys : Answering(k) = {} /\ Running(k) = {}
    BY <1>1 DEF IdempotencyInit, Answering, Running, NoEntry
  <2>2. \A k \in Keys : ran[k] = 0 /\ forgotten[k] = 0
    BY DEF IdempotencyInit
  <2>. QED
    BY <2>1, <2>2, FS_EmptySet DEF RunsCounted
<1>. QED
  BY <1>2, <1>3, <1>4, <1>5, TypeParts DEF IdempotencyInv

\* Steps that leave the list and the map alone.
LEMMA QuietType ==
    ASSUME IdempotencyInv, NEW r \in Requests,
           \/ TtlPasses \/ (\E k \in Keys : ReceiveRequest(r, k))
           \/ HandlerSucceeds(r) \/ Replay(r) \/ ClientDisconnects(r)
    PROVE  IdempotencyTypeOK'
<1>1. PartsTyped /\ ListTyped
  BY TypeParts DEF IdempotencyInv
<1>2. /\ PartsTyped'
      /\ \A q \in Requests : request'[q].key = request[q].key \/ (request[q].pc = "idle" /\ request'[q].key \in Keys)
  <2>. USE DEF PartsTyped, RequestStates
  <2>1. CASE TtlPasses
    BY <1>1, <2>1 DEF TtlPasses
  <2>2. ASSUME NEW k \in Keys, ReceiveRequest(r, k)
        PROVE  /\ PartsTyped'
               /\ \A q \in Requests : \/ request'[q].key = request[q].key
                                      \/ request[q].pc = "idle" /\ request'[q].key \in Keys
    BY <1>1, <2>2 DEF ReceiveRequest
  <2>3. CASE HandlerSucceeds(r)
    <3>1. entry' \in [Requests -> [made : Nat, ready : BOOLEAN, response : BOOLEAN]]
      BY <1>1, <2>3 DEF HandlerSucceeds
    <3>2. request' \in [Requests -> RequestStates] /\ \A q \in Requests : request'[q].key = request[q].key
      BY <1>1, <2>3 DEF HandlerSucceeds
    <3>3. ran' \in [Keys -> Nat]
      BY <1>1, <2>3 DEF HandlerSucceeds
    <3>. QED
      BY <1>1, <2>3, <3>1, <3>2, <3>3 DEF HandlerSucceeds
  <2>4. CASE Replay(r)
    BY <1>1, <2>4 DEF Replay
  <2>5. CASE ClientDisconnects(r)
    BY <1>1, <2>5 DEF ClientDisconnects
  <2>. QED
    BY <2>1, <2>2, <2>3, <2>4, <2>5
<1>3. cached' = cached /\ lru' = lru
  BY DEF TtlPasses, ReceiveRequest, HandlerSucceeds, Replay, ClientDisconnects
<1>5. ASSUME NEW q \in Requests PROVE Recent(q) <=> cached[request'[q].key] = q
  <2>1. CASE request'[q].key = request[q].key
    BY <1>1, <2>1 DEF ListTyped
  <2>2. CASE request[q].pc = "idle" /\ request'[q].key \in Keys
    <3>1. ~(entry[q].made > 0)
      BY <2>2 DEF IdempotencyInv, EntriesMade
    <3>2. \A k \in Keys : cached[k] # q
      BY <3>1, IdempotencyAssumption DEF IdempotencyInv, CachedMade
    <3>3. request[q].key \in Keys
      BY <1>1 DEF PartsTyped, RequestStates
    <3>. QED
      BY <1>1, <2>2, <3>2, <3>3 DEF ListTyped
  <2>. QED
    BY <1>2, <2>1, <2>2
<1>6. ListTyped'
  BY <1>1, <1>3, <1>5 DEF ListTyped, Recent
<1>. QED
  BY <1>2, <1>6 DEF IdempotencyTypeOK, PartsTyped, ListTyped, RequestStates, Recent

\* A hit moves the entry to the front.
LEMMA HitType ==
    ASSUME IdempotencyInv, NEW r \in Requests, ReserveExisting(r)
    PROVE  IdempotencyTypeOK'
<1>. DEFINE e == cached[request[r].key]
            rest == Others(lru, e)
<1>1. PartsTyped /\ ListTyped
  BY TypeParts DEF IdempotencyInv
<1>2. e \in Requests /\ Recent(e)
  BY <1>1, RecentCached DEF ReserveExisting, PartsTyped, RequestStates
<1>3. /\ rest \in Seq(Requests)
      /\ \A i, j \in 1 .. Len(rest) : rest[i] = rest[j] => i = j
      /\ \A x \in Requests : (\E i \in 1 .. Len(rest) : rest[i] = x) <=> x # e /\ Recent(x)
      /\ Len(rest) < Len(lru)
  BY <1>2, OthersList DEF IdempotencyInv
<1>4. lru' = <<e>> \o rest /\ cached' = cached
  BY DEF ReserveExisting
<1>. HIDE DEF rest, e
<1>5. \A i \in 1 .. Len(rest) : rest[i] # e
  BY <1>2, <1>3
<1>6. /\ lru' \in Seq(Requests) /\ Len(lru') = Len(rest) + 1
      /\ \A i, j \in 1 .. Len(lru') : lru'[i] = lru'[j] => i = j
      /\ Range(lru') = Range(rest) \cup {e}
  BY <1>2, <1>3, <1>4, <1>5, InFront
<1>7. \A x \in Requests : Recent(x)' <=> Recent(x)
  <2>1. DOMAIN lru' = 1 .. Len(lru') /\ DOMAIN rest = 1 .. Len(rest)
    BY <1>3, <1>6
  <2>2. /\ \A x : x \in Range(lru') <=> \E i \in 1 .. Len(lru') : lru'[i] = x
        /\ \A x : x \in Range(rest) <=> \E i \in 1 .. Len(rest) : rest[i] = x
    BY <2>1 DEF Range
  <2>. QED
    BY <1>2, <1>3, <1>6, <2>2 DEF Recent
<1>8. PartsTyped' /\ \A q \in Requests : request'[q].key = request[q].key
  BY <1>1, <1>2, <1>4 DEF PartsTyped, RequestStates, ReserveExisting, e
<1>9. Len(lru') <= MaxEntries
  BY <1>1, <1>3, <1>6, IdempotencyAssumption DEF ListTyped
<1>10. ListTyped'
  BY <1>1, <1>4, <1>6, <1>7, <1>8, <1>9 DEF ListTyped
<1>. QED
  BY <1>8, <1>10 DEF IdempotencyTypeOK, PartsTyped, ListTyped, RequestStates, Recent

\* A failure takes the entry of the key out of both.
LEMMA FailureType ==
    ASSUME IdempotencyInv, NEW r \in Requests, HandlerFails(r)
    PROVE  IdempotencyTypeOK'
<1>. DEFINE k == request[r].key
            e == cached[k]
<1>1. PartsTyped /\ ListTyped /\ CachedMade
  BY TypeParts DEF IdempotencyInv
<1>2. k \in Keys /\ e \in Requests \cup {NoRequest}
  BY <1>1 DEF PartsTyped, RequestStates
<1>3. /\ cached' \in [Keys -> Requests \cup {NoRequest}] /\ ran' \in [Keys -> Nat] /\ forgotten' \in [Keys -> Nat]
      /\ entry' \in [Requests -> [made : Nat, ready : BOOLEAN, response : BOOLEAN]]
      /\ request' \in [Requests -> RequestStates] /\ horizon' \in Nat
      /\ \A q \in Requests : request'[q].key = request[q].key
  <2>. USE <1>1 DEF PartsTyped
  <2>1. forgotten' \in [Keys -> Nat]
    BY <1>2 DEF HandlerFails
  <2>2. request' \in [Requests -> RequestStates] /\ \A q \in Requests : request'[q].key = request[q].key
    BY DEF HandlerFails, RequestStates
  <2>. QED
    BY <1>2, <2>1, <2>2 DEF HandlerFails
<1>4. /\ lru' \in Seq(Requests) /\ Len(lru') <= Len(lru)
      /\ \A i, j \in 1 .. Len(lru') : lru'[i] = lru'[j] => i = j
      /\ \A x \in Requests : Recent(x)' <=> x # e /\ Recent(x)
  BY OthersList DEF IdempotencyInv, HandlerFails, Recent
<1>5. \A l \in Keys : cached'[l] = IF l = k THEN NoRequest ELSE cached[l]
  BY <1>1 DEF PartsTyped, HandlerFails
<1>6. ASSUME NEW q \in Requests PROVE Recent(q)' <=> cached'[request'[q].key] = q
  <2>1. request[q].key \in Keys /\ (Recent(q) <=> cached[request[q].key] = q)
    BY <1>1 DEF PartsTyped, RequestStates, ListTyped
  <2>2. e # NoRequest => request[e].key = k
    BY <1>1, <1>2 DEF CachedMade
  <2>. QED
    BY <1>3, <1>4, <1>5, <2>1, <2>2, IdempotencyAssumption
<1>7. Len(lru') <= MaxEntries
  BY <1>1, <1>4, IdempotencyAssumption DEF ListTyped
<1>. QED
  BY <1>3, <1>4, <1>6, <1>7 DEF IdempotencyTypeOK, PartsTyped, RequestStates, Recent

\* What a new entry does to the map and the list, when those of out are pushed out: its key
\* leads to it, and the keys of the others lead nowhere.
PushesOut(r, out) ==
    /\ \A e \in out : e # r /\ e # cached[request[r].key] /\ Recent(e)
    /\ \A l \in Keys : cached'[l] = IF l = request[r].key THEN r
                                  ELSE IF \E e \in out : request[e].key = l THEN NoRequest ELSE cached[l]
    /\ \A l \in Keys : forgotten'[l] = forgotten[l] +
           IF (\E e \in out : request[e].key = l) \/ (l = request[r].key /\ cached[l] # NoRequest)
           THEN 1 ELSE 0
    /\ lru' \in Seq(Requests) /\ Len(lru') <= MaxEntries
    /\ \A i, j \in 1 .. Len(lru') : lru'[i] = lru'[j] => i = j
    /\ \A x \in Requests :
          Recent(x)' <=> x \notin out /\ (x = r \/ (x # cached[request[r].key] /\ Recent(x)))

LEMMA NewEntryFrame ==
    ASSUME IdempotencyInv, NEW r \in Requests, ReserveNew(r)
    PROVE  \E out \in SUBSET Requests : PushesOut(r, out)
<1>. DEFINE k   == request[r].key
            old == cached[k]
            rest == Others(lru, old)
            seq == <<r>> \o rest
            out == Evicted(seq)
<1>1. PartsTyped /\ ListTyped /\ CachedMade /\ EntriesMade
  BY TypeParts DEF IdempotencyInv
<1>2. k \in Keys /\ old \in Requests \cup {NoRequest} /\ request[r].pc = "reserve"
  BY <1>1 DEF PartsTyped, RequestStates, ReserveNew
<1>3. /\ rest \in Seq(Requests)
      /\ \A i, j \in 1 .. Len(rest) : rest[i] = rest[j] => i = j
      /\ \A x \in Requests : (\E i \in 1 .. Len(rest) : rest[i] = x) <=> x # old /\ Recent(x)
      /\ Len(rest) <= Len(lru)
      /\ Recent(old) => Len(rest) < Len(lru)
  BY OthersList DEF IdempotencyInv
<1>4. lru' = SelectIn(seq, Requests \ out)
  BY DEF ReserveNew
<1>5. \A l \in Keys : cached'[l] = IF l = k /\ r \notin out THEN r
                                   ELSE IF \E e \in out : request[e].key = l THEN NoRequest ELSE cached[l]
  BY DEF ReserveNew
<1>6. \A l \in Keys : forgotten'[l] = forgotten[l] +
          IF (\E e \in out : request[e].key = l) \/ (l = k /\ old # NoRequest) THEN 1 ELSE 0
  <2>1. \A l : l \in {request[e].key : e \in out} \cup (IF old = NoRequest THEN {} ELSE {k})
            <=> (\E e \in out : request[e].key = l) \/ (l = k /\ old # NoRequest)
    OBVIOUS
  <2>. QED
    BY <2>1 DEF ReserveNew
<1>7. ~Recent(r)
  <2>1. ~(entry[r].made > 0)
    BY <1>1, <1>2 DEF EntriesMade
  <2>2. request[r].key \in Keys /\ cached[request[r].key] # r
    BY <1>1, <1>2, <2>1, IdempotencyAssumption DEF CachedMade
  <2>. QED
    BY <1>1, <2>2 DEF ListTyped
<1>. HIDE DEF rest
<1>8. \A i \in 1 .. Len(rest) : rest[i] # r
  BY <1>3, <1>7
<1>9. /\ seq \in Seq(Requests) /\ Len(seq) = Len(rest) + 1 /\ seq[1] = r
      /\ \A i, j \in 1 .. Len(seq) : seq[i] = seq[j] => i = j
      /\ Range(seq) = Range(rest) \cup {r}
  BY <1>3, <1>8, InFront
<1>. HIDE DEF seq
<1>10. Len(seq) \in Nat /\ Len(lru) \in Nat /\ Len(rest) \in Nat /\ MaxEntries \in Nat \ {0} /\ DOMAIN seq = 1 .. Len(seq)
  BY <1>1, <1>3, <1>9, IdempotencyAssumption DEF ListTyped
<1>. DEFINE InRest(x) == \E i \in 1 .. Len(rest) : rest[i] = x
<1>11. \A x : (\E i \in 1 .. Len(seq) : seq[i] = x) <=> x = r \/ InRest(x)
  <2>1. DOMAIN rest = 1 .. Len(rest)
    BY <1>3
  <2>2. /\ \A x : x \in Range(seq) <=> \E i \in 1 .. Len(seq) : seq[i] = x
        /\ \A x : x \in Range(rest) <=> InRest(x)
    BY <1>10, <2>1 DEF Range
  <2>. QED
    BY <1>9, <2>2
<1>12. \A e \in out : e # r /\ InRest(e)
  <2>1. ASSUME NEW e \in out PROVE e # r /\ \E i \in 1 .. Len(seq) : seq[i] = e
    BY <1>9, <1>10 DEF Evicted
  <2>. QED
    BY <1>11, <2>1
<1>13. out \in SUBSET Requests /\ \A e \in out : e # r /\ e # old /\ Recent(e)
  <2>1. \A e \in out : e \in Requests
    BY <1>9, <1>10 DEF Evicted
  <2>. QED
    BY <1>3, <1>12, <2>1
<1>14. IsInjective(seq)
  BY <1>9, <1>10 DEF IsInjective
<1>15. /\ lru' \in Seq(Requests) /\ IsInjective(lru') /\ Range(lru') = Range(seq) \cap (Requests \ out)
       /\ Len(lru') <= Len(seq)
       /\ (\E i \in 1 .. Len(seq) : seq[i] \notin Requests \ out) => Len(lru') < Len(seq)
  BY <1>4, <1>9, <1>14, SelectInDistinct
<1>16. Len(lru') <= MaxEntries
  <2>1. Len(seq) <= MaxEntries + 1
    BY <1>1, <1>3, <1>9, <1>10 DEF ListTyped
  <2>2. Len(lru') \in Nat
    BY <1>15
  <2>3. CASE Len(seq) <= MaxEntries
    BY <1>10, <1>15, <2>2, <2>3
  <2>4. CASE Len(seq) > MaxEntries
    <3>1. Len(seq) \in 1 .. Len(seq) /\ seq[Len(seq)] \in out
      BY <1>10, <2>4 DEF Evicted
    <3>2. Len(lru') < Len(seq)
      BY <1>15, <3>1
    <3>. QED
      BY <1>10, <2>1, <2>2, <3>2
  <2>. QED
    BY <1>10, <2>3, <2>4
<1>17. DOMAIN lru' = 1 .. Len(lru')
  BY <1>15
<1>18. \A i, j \in 1 .. Len(lru') : lru'[i] = lru'[j] => i = j
  BY <1>15, <1>17 DEF IsInjective
<1>19. ASSUME NEW x \in Requests PROVE Recent(x)' <=> x \notin out /\ (x = r \/ (x # old /\ Recent(x)))
  <2>1. Recent(x)' <=> x \in Range(lru')
    BY <1>17 DEF Recent, Range
  <2>2. x \in Range(seq) <=> \E i \in 1 .. Len(seq) : seq[i] = x
    BY <1>10 DEF Range
  <2>. QED
    BY <1>3, <1>15, <1>11, <2>1, <2>2
<1>. HIDE DEF out
<1>20. \A l \in Keys : cached'[l] = IF l = k THEN r
                                   ELSE IF \E e \in out : request[e].key = l THEN NoRequest ELSE cached[l]
  BY <1>5, <1>13
<1>21. PushesOut(r, out)
  BY <1>6, <1>13, <1>15, <1>16, <1>18, <1>19, <1>20 DEF PushesOut
<1>. QED
  BY <1>13, <1>21

\* A new entry joins the list and the map; what it pushes out leaves both.
LEMMA NewEntryType ==
    ASSUME IdempotencyInv, NEW r \in Requests, ReserveNew(r)
    PROVE  IdempotencyTypeOK'
<1>. DEFINE k   == request[r].key
            old == cached[k]
<1>1. PartsTyped /\ ListTyped /\ CachedMade /\ EntriesMade
  BY TypeParts DEF IdempotencyInv
<1>0. PICK out \in SUBSET Requests : PushesOut(r, out)
  BY NewEntryFrame
<1>2. /\ \A e \in out : e # r /\ e # old /\ Recent(e)
      /\ \A l \in Keys : cached'[l] = IF l = k THEN r
                                    ELSE IF \E e \in out : request[e].key = l THEN NoRequest ELSE cached[l]
      /\ \A l \in Keys : forgotten'[l] = forgotten[l] +
             IF (\E e \in out : request[e].key = l) \/ (l = k /\ cached[l] # NoRequest) THEN 1 ELSE 0
      /\ lru' \in Seq(Requests) /\ Len(lru') <= MaxEntries
      /\ \A i, j \in 1 .. Len(lru') : lru'[i] = lru'[j] => i = j
      /\ \A x \in Requests : Recent(x)' <=> x \notin out /\ (x = r \/ (x # old /\ Recent(x)))
  BY <1>0 DEF PushesOut
<1>3. k \in Keys /\ old \in Requests \cup {NoRequest}
  BY <1>1 DEF PartsTyped, RequestStates
<1>4. /\ cached' = [l \in Keys |-> cached'[l]] /\ forgotten' = [l \in Keys |-> forgotten'[l]]
      /\ horizon' = horizon /\ ran' = ran
  BY DEF ReserveNew
<1>5. entry' \in [Requests -> [made : Nat, ready : BOOLEAN, response : BOOLEAN]]
  <2>1. Made + 1 \in Nat /\ entry' = [entry EXCEPT ![r].made = Made + 1]
    BY MadeType DEF ReserveNew, IdempotencyInv
  <2>. QED
    BY <1>1, <2>1 DEF PartsTyped
<1>6. request' \in [Requests -> RequestStates] /\ \A q \in Requests : request'[q].key = request[q].key
  <2>1. request' = [request EXCEPT ![r] = [@ EXCEPT !.pc = "handle", !.on = r]]
    BY DEF ReserveNew
  <2>. QED
    BY <1>1, <2>1 DEF PartsTyped, RequestStates
<1>7. \A l \in Keys : cached'[l] \in Requests \cup {NoRequest} /\ forgotten'[l] \in Nat
  <2>. SUFFICES ASSUME NEW l \in Keys PROVE cached'[l] \in Requests \cup {NoRequest} /\ forgotten'[l] \in Nat
    OBVIOUS
  <2>1. forgotten[l] \in Nat /\ cached[l] \in Requests \cup {NoRequest}
    BY <1>1 DEF PartsTyped
  <2>2. cached'[l] \in {r, NoRequest, cached[l]}
    BY <1>2
  <2>3. forgotten'[l] = forgotten[l] \/ forgotten'[l] = forgotten[l] + 1
    BY <1>2, <2>1
  <2>. QED
    BY <2>1, <2>2, <2>3
<1>8. ASSUME NEW x \in Requests PROVE Recent(x)' <=> cached'[request'[x].key] = x
  <2>. DEFINE l == request[x].key
  <2>1. l \in Keys /\ (Recent(x) <=> cached[l] = x)
    BY <1>1 DEF PartsTyped, RequestStates, ListTyped
  <2>2. \A e \in out : request[e].key \in Keys /\ cached[request[e].key] = e
    BY <1>1, <1>2 DEF PartsTyped, RequestStates, ListTyped
  <2>3. old = x => l = k
    BY <1>1, <1>3, IdempotencyAssumption DEF CachedMade
  <2>4. CASE l = k
    BY <1>2, <1>3, <1>6, <2>1, <2>2, <2>4
  <2>5. CASE l # k
    <3>1. x # r /\ x # old
      BY <2>3, <2>5
    <3>2. Recent(x)' <=> x \notin out /\ cached[l] = x
      BY <1>2, <2>1, <3>1
    <3>3. cached'[l] = x <=> ~(\E e \in out : request[e].key = l) /\ cached[l] = x
      BY <1>2, <2>1, <2>5, IdempotencyAssumption
    <3>4. cached[l] = x => ((\E e \in out : request[e].key = l) <=> x \in out)
      BY <2>2
    <3>. QED
      BY <1>6, <3>2, <3>3, <3>4
  <2>. QED
    BY <2>4, <2>5
<1>9. PartsTyped'
  BY <1>1, <1>4, <1>5, <1>6, <1>7 DEF PartsTyped
<1>10. ListTyped'
  BY <1>2, <1>8 DEF ListTyped
<1>. QED
  BY <1>9, <1>10 DEF IdempotencyTypeOK, PartsTyped, ListTyped, RequestStates, Recent

LEMMA IdempotencyStepType ==
    ASSUME IdempotencyInv, [IdempotencyNext]_idempotencyVars
    PROVE  IdempotencyTypeOK'
<1>1. CASE UNCHANGED idempotencyVars
  BY <1>1 DEF idempotencyVars, IdempotencyInv, IdempotencyTypeOK
<1>2. CASE TtlPasses
  <2>1. CASE Requests = {}
    BY <1>2, <2>1 DEF TtlPasses, IdempotencyInv, IdempotencyTypeOK
  <2>2. CASE Requests # {}
    BY <1>2, <2>2, QuietType
  <2>. QED
    BY <2>1, <2>2
<1>. QED
  BY <1>1, <1>2, QuietType, HitType, NewEntryType, FailureType DEF IdempotencyNext

-------------------------------------------------------------------------------
(* Waiters.                                                                *)

\* The map still leads to entries that were made, under their keys.
LEMMA CachedStep ==
    ASSUME IdempotencyInv, [IdempotencyNext]_idempotencyVars
    PROVE  CachedMade'
<1>. USE DEF IdempotencyInv, CachedMade
<1>1. PartsTyped /\ EntriesMade
  BY TypeParts DEF IdempotencyInv
<1>2. CASE UNCHANGED idempotencyVars
  BY <1>2 DEF idempotencyVars
<1>3. CASE TtlPasses
  BY <1>3 DEF TtlPasses
<1>4. ASSUME NEW r \in Requests, NEW k \in Keys, ReceiveRequest(r, k) PROVE CachedMade'
  <2>1. \A l \in Keys : cached[l] # r
    BY <1>1, <1>4, IdempotencyAssumption DEF ReceiveRequest, EntriesMade
  <2>. QED
    BY <1>1, <1>4, <2>1 DEF ReceiveRequest, PartsTyped
<1>5. ASSUME NEW r \in Requests, ReserveExisting(r) \/ Replay(r) \/ ClientDisconnects(r) PROVE CachedMade'
  <2>1. cached' = cached /\ entry' = entry /\ \A q \in Requests : request'[q].key = request[q].key
    <3>. USE <1>1 DEF PartsTyped, RequestStates
    <3>1. CASE ReserveExisting(r)
      BY <3>1 DEF ReserveExisting
    <3>2. CASE Replay(r)
      BY <3>2 DEF Replay
    <3>3. CASE ClientDisconnects(r)
      BY <3>3 DEF ClientDisconnects
    <3>. QED
      BY <1>5, <3>1, <3>2, <3>3
  <2>. QED
    BY <1>1, <2>1 DEF PartsTyped
<1>6. ASSUME NEW r \in Requests, HandlerSucceeds(r) \/ HandlerFails(r) PROVE CachedMade'
  <2>1. /\ \A q \in Requests : request'[q].key = request[q].key /\ entry'[q].made = entry[q].made
        /\ \A l \in Keys : cached'[l] \in {cached[l], NoRequest}
    <3>. USE <1>1 DEF PartsTyped, RequestStates
    <3>1. CASE HandlerSucceeds(r)
      BY <3>1 DEF HandlerSucceeds
    <3>2. CASE HandlerFails(r)
      BY <3>2 DEF HandlerFails
    <3>. QED
      BY <1>6, <3>1, <3>2
  <2>. QED
    BY <1>1, <2>1 DEF PartsTyped
<1>7. ASSUME NEW r \in Requests, ReserveNew(r) PROVE CachedMade'
  <2>1. \A l \in Keys : cached'[l] \in {cached[l], NoRequest} \/ (cached'[l] = r /\ l = request[r].key)
    BY <1>7 DEF ReserveNew
  <2>2. /\ \A q \in Requests : request'[q].key = request[q].key
        /\ \A q \in Requests : entry'[q].made = IF q = r THEN Made + 1 ELSE entry[q].made
    BY <1>1, <1>7 DEF ReserveNew, PartsTyped, RequestStates
  <2>3. Made + 1 > 0
    BY MadeType
  <2>. QED
    BY <1>1, <2>1, <2>2, <2>3 DEF PartsTyped
<1>. QED
  BY <1>2, <1>3, <1>4, <1>5, <1>6, <1>7 DEF IdempotencyNext

\* What the other steps do to one request and its entry.
LEMMA EntriesStep ==
    ASSUME IdempotencyInv, [IdempotencyNext]_idempotencyVars
    PROVE  EntriesMade' /\ WaitersWait'
<1>1. PartsTyped /\ EntriesMade /\ WaitersWait /\ CachedMade
  BY TypeParts DEF IdempotencyInv
<1>. USE DEF PartsTyped, RequestStates, EntriesMade, WaitersWait
<1>2. CASE UNCHANGED idempotencyVars
  BY <1>1, <1>2 DEF idempotencyVars
<1>3. CASE TtlPasses
  BY <1>1, <1>3 DEF TtlPasses
<1>4. ASSUME NEW r \in Requests, NEW k \in Keys, ReceiveRequest(r, k) PROVE EntriesMade' /\ WaitersWait'
  BY <1>1, <1>4 DEF ReceiveRequest
<1>5. ASSUME NEW r \in Requests, ReserveExisting(r) PROVE EntriesMade' /\ WaitersWait'
  BY <1>1, <1>5 DEF ReserveExisting, CachedMade
<1>6. ASSUME NEW r \in Requests, Replay(r) \/ ClientDisconnects(r) PROVE EntriesMade' /\ WaitersWait'
  <2>1. CASE Replay(r)
    BY <1>1, <2>1 DEF Replay
  <2>2. CASE ClientDisconnects(r)
    BY <1>1, <2>2 DEF ClientDisconnects
  <2>. QED
    BY <1>6, <2>1, <2>2
<1>7. ASSUME NEW r \in Requests, HandlerSucceeds(r) PROVE EntriesMade' /\ WaitersWait'
  BY <1>1, <1>7 DEF HandlerSucceeds
<1>8. ASSUME NEW r \in Requests, HandlerFails(r) PROVE EntriesMade' /\ WaitersWait'
  BY <1>1, <1>8 DEF HandlerFails
<1>9. ASSUME NEW r \in Requests, ReserveNew(r) PROVE EntriesMade' /\ WaitersWait'
  <2>1. Made + 1 > 0
    BY MadeType DEF IdempotencyInv
  <2>2. /\ request[r].pc = "reserve" /\ request' = [request EXCEPT ![r] = [@ EXCEPT !.pc = "handle", !.on = r]]
        /\ entry' = [entry EXCEPT ![r].made = Made + 1]
    BY <1>9 DEF ReserveNew
  <2>. QED
    BY <1>1, <2>1, <2>2
<1>. QED
  BY <1>2, <1>3, <1>4, <1>5, <1>6, <1>7, <1>8, <1>9 DEF IdempotencyNext

-------------------------------------------------------------------------------
(* Runs.                                                                   *)

LEMMA RunsFinite ==
    /\ \A k : IsFiniteSet(Answering(k)) /\ Cardinality(Answering(k)) \in Nat
    /\ \A k : IsFiniteSet(Running(k)) /\ Cardinality(Running(k)) \in Nat
    /\ \A k : Cardinality(Answering(k)) <= Cardinality(Running(k))
<1>1. \A k : Answering(k) \in SUBSET Running(k) /\ Running(k) \in SUBSET Requests
  BY DEF Answering, Running
<1>2. \A k : IsFiniteSet(Running(k))
  BY <1>1, IdempotencyAssumption, FS_Subset
<1>3. \A k : IsFiniteSet(Answering(k)) /\ Cardinality(Answering(k)) <= Cardinality(Running(k))
  BY <1>1, <1>2, FS_Subset
<1>. QED
  BY <1>2, <1>3, FS_CardinalityType

\* Steps in which nobody starts or ends a handler.
LEMMA QuietRuns ==
    ASSUME IdempotencyInv,
           UNCHANGED <<cached, ran, forgotten>>,
           \A q \in Requests :
             /\ entry'[q].response = entry[q].response
             /\ (request'[q].pc = "handle") = (request[q].pc = "handle")
             /\ request'[q].key = request[q].key \/ (request[q].pc # "handle" /\ ~entry[q].response)
    PROVE  RunsCounted'
<1>1. \A k : Answering(k)' = Answering(k) /\ Running(k)' = Running(k)
  BY DEF Answering, Running
<1>. QED
  BY <1>1 DEF IdempotencyInv, RunsCounted

LEMMA NewEntryRuns ==
    ASSUME IdempotencyInv, NEW r \in Requests, ReserveNew(r)
    PROVE  RunsCounted'
<1>. DEFINE k == request[r].key
<1>1. PartsTyped /\ EntriesMade /\ RunsCounted
  BY TypeParts DEF IdempotencyInv
<1>2. /\ request[r].pc = "reserve" /\ request' = [request EXCEPT ![r] = [@ EXCEPT !.pc = "handle", !.on = r]]
      /\ entry' = [entry EXCEPT ![r].made = Made + 1] /\ ran' = ran
  BY DEF ReserveNew
<1>3. /\ \A q \in Requests : request'[q].key = request[q].key /\ entry'[q].response = entry[q].response
      /\ \A q \in Requests : (request'[q].pc = "handle") <=> (q = r \/ request[q].pc = "handle")
      /\ ~entry[r].response
  BY <1>1, <1>2 DEF PartsTyped, RequestStates, EntriesMade
<1>4. \A l : Answering(l)' = Answering(l) /\ Running(l)' = IF l = k THEN Running(l) \cup {r} ELSE Running(l)
  BY <1>3 DEF Answering, Running
<1>0. PICK out \in SUBSET Requests : PushesOut(r, out)
  BY NewEntryFrame
<1>5. /\ \A l \in Keys : cached'[l] = IF l = k THEN r
                                    ELSE IF \E e \in out : request[e].key = l THEN NoRequest ELSE cached[l]
      /\ \A l \in Keys : forgotten'[l] = forgotten[l] +
             IF (\E e \in out : request[e].key = l) \/ (l = k /\ cached[l] # NoRequest) THEN 1 ELSE 0
  BY <1>0 DEF PushesOut
<1>6. ASSUME NEW l \in Keys
      PROVE  Cardinality(Running(l)') <= forgotten'[l] + (IF cached'[l] = NoRequest THEN 0 ELSE 1)
  <2>1. /\ forgotten[l] \in Nat /\ Cardinality(Running(l)) \in Nat
        /\ Cardinality(Running(l)) <= forgotten[l] + (IF cached[l] = NoRequest THEN 0 ELSE 1)
    BY <1>1, RunsFinite DEF PartsTyped, RunsCounted
  <2>2. CASE l = k
    <3>1. Cardinality(Running(l)') <= Cardinality(Running(l)) + 1 /\ Cardinality(Running(l)') \in Nat
      <4>1. Running(l)' = Running(l) \cup {r} /\ IsFiniteSet(Running(l))
        BY <1>4, <2>2, RunsFinite
      <4>2. Cardinality(Running(l) \cup {r}) = IF r \in Running(l) THEN Cardinality(Running(l))
                                               ELSE Cardinality(Running(l)) + 1
        BY <4>1, FS_AddElement
      <4>. QED
        BY <2>1, <4>1, <4>2
    <3>2. cached'[l] = r /\ r # NoRequest
      BY <1>5, <2>2, IdempotencyAssumption
    <3>3. forgotten'[l] \in Nat /\ forgotten'[l] >= forgotten[l] + (IF cached[l] = NoRequest THEN 0 ELSE 1)
      BY <1>5, <2>1, <2>2
    <3>. QED
      BY <2>1, <3>1, <3>2, <3>3
  <2>3. CASE l # k
    <3>1. Running(l)' = Running(l)
      BY <1>4, <2>3
    <3>2. CASE \E e \in out : request[e].key = l
      BY <1>5, <2>1, <2>3, <3>1, <3>2
    <3>3. CASE ~\E e \in out : request[e].key = l
      BY <1>5, <2>1, <2>3, <3>1, <3>3
    <3>. QED
      BY <3>2, <3>3
  <2>. QED
    BY <2>2, <2>3
<1>. QED
  BY <1>1, <1>2, <1>4, <1>6 DEF RunsCounted

\* A handler that answers below 500 was running, and its answer is counted.
LEMMA SuccessRuns ==
    ASSUME IdempotencyInv, NEW r \in Requests, HandlerSucceeds(r)
    PROVE  RunsCounted'
<1>. DEFINE k == request[r].key
<1>1. PartsTyped /\ EntriesMade /\ RunsCounted
  BY TypeParts DEF IdempotencyInv
<1>2. /\ request[r].pc = "handle" /\ request' = [request EXCEPT ![r].pc = "done"]
      /\ entry' = [entry EXCEPT ![r] = [@ EXCEPT !.ready = TRUE, !.response = TRUE]]
      /\ ran' = [ran EXCEPT ![k] = @ + 1] /\ cached' = cached /\ forgotten' = forgotten
  BY DEF HandlerSucceeds
<1>3. /\ \A q \in Requests : request'[q].key = request[q].key
      /\ \A q \in Requests : entry'[q].response <=> (q = r \/ entry[q].response)
      /\ \A q \in Requests \ {r} : request'[q].pc = request[q].pc
      /\ ~entry[r].response /\ k \in Keys
  BY <1>1, <1>2 DEF PartsTyped, RequestStates, EntriesMade
<1>4. \A l : /\ Running(l)' = Running(l)
             /\ Answering(l)' = IF l = k THEN Answering(l) \cup {r} ELSE Answering(l)
             /\ r \notin Answering(l)
  BY <1>2, <1>3 DEF Answering, Running
<1>5. ASSUME NEW l \in Keys PROVE ran'[l] = Cardinality(Answering(l)')
  <2>1. ran[l] = Cardinality(Answering(l)) /\ ran[l] \in Nat
    BY <1>1 DEF RunsCounted, PartsTyped
  <2>2. l = k => Cardinality(Answering(l)') = Cardinality(Answering(l)) + 1
    BY <1>4, RunsFinite, FS_AddElement
  <2>3. ran'[l] = IF l = k THEN ran[l] + 1 ELSE ran[l]
    BY <1>1, <1>2 DEF PartsTyped
  <2>. QED
    BY <1>4, <2>1, <2>2, <2>3
<1>. QED
  BY <1>1, <1>2, <1>4, <1>5 DEF RunsCounted

\* A failure ends a run, and takes an entry of its own or one that counts as lost.
LEMMA FailureRuns ==
    ASSUME IdempotencyInv, NEW r \in Requests, HandlerFails(r)
    PROVE  RunsCounted'
<1>. DEFINE k == request[r].key
            e == cached[k]
<1>1. PartsTyped /\ EntriesMade /\ RunsCounted
  BY TypeParts DEF IdempotencyInv
<1>2. /\ request[r].pc = "handle" /\ request' = [request EXCEPT ![r].pc = "done"]
      /\ entry' = [entry EXCEPT ![r].ready = TRUE] /\ ran' = ran
      /\ cached' = [cached EXCEPT ![k] = NoRequest]
      /\ forgotten' = [forgotten EXCEPT ![k] = @ + IF e \in {r, NoRequest} THEN 0 ELSE 1]
  BY DEF HandlerFails
<1>3. /\ \A q \in Requests : request'[q].key = request[q].key /\ entry'[q].response = entry[q].response
      /\ \A q \in Requests : (request'[q].pc = "handle") <=> (q # r /\ request[q].pc = "handle")
      /\ ~entry[r].response /\ k \in Keys
  BY <1>1, <1>2 DEF PartsTyped, RequestStates, EntriesMade
<1>4. \A l : /\ Answering(l)' = Answering(l)
             /\ Running(l)' = IF l = k THEN Running(l) \ {r} ELSE Running(l)
  BY <1>3 DEF Answering, Running
<1>5. r \in Running(k)
  BY <1>2 DEF Running
<1>6. ASSUME NEW l \in Keys
      PROVE  Cardinality(Running(l)') <= forgotten'[l] + (IF cached'[l] = NoRequest THEN 0 ELSE 1)
  <2>1. /\ forgotten[l] \in Nat /\ Cardinality(Running(l)) \in Nat
        /\ Cardinality(Running(l)) <= forgotten[l] + (IF cached[l] = NoRequest THEN 0 ELSE 1)
    BY <1>1, RunsFinite DEF PartsTyped, RunsCounted
  <2>2. CASE l = k
    <3>1. Cardinality(Running(l)') = Cardinality(Running(l)) - 1
      BY <1>4, <1>5, <2>2, RunsFinite, FS_RemoveElement
    <3>2. forgotten'[l] = forgotten[l] + IF e \in {r, NoRequest} THEN 0 ELSE 1
      BY <1>1, <1>2, <2>2 DEF PartsTyped
    <3>3. cached'[l] = NoRequest
      BY <1>1, <1>2, <2>2 DEF PartsTyped
    <3>. QED
      BY <2>1, <2>2, <3>1, <3>2, <3>3
  <2>3. CASE l # k
    BY <1>1, <1>2, <1>4, <2>1, <2>3 DEF PartsTyped
  <2>. QED
    BY <2>2, <2>3
<1>. QED
  BY <1>1, <1>2, <1>4, <1>6 DEF RunsCounted

LEMMA RunsStep ==
    ASSUME IdempotencyInv, [IdempotencyNext]_idempotencyVars
    PROVE  RunsCounted'
<1>1. PartsTyped /\ EntriesMade
  BY TypeParts DEF IdempotencyInv
<1>. USE DEF PartsTyped, RequestStates
<1>2. CASE UNCHANGED idempotencyVars
  BY <1>2, QuietRuns DEF idempotencyVars
<1>3. CASE TtlPasses
  BY <1>3, QuietRuns DEF TtlPasses
<1>4. ASSUME NEW r \in Requests, NEW k \in Keys, ReceiveRequest(r, k) PROVE RunsCounted'
  <2>1. \A q \in Requests :
          /\ (request'[q].pc = "handle") = (request[q].pc = "handle")
          /\ request'[q].key = request[q].key \/ request[q].pc = "idle"
    BY <1>1, <1>4 DEF ReceiveRequest
  <2>2. \A q \in Requests : request[q].pc = "idle" => request[q].pc # "handle" /\ ~entry[q].response
    BY <1>1 DEF EntriesMade
  <2>3. UNCHANGED <<cached, ran, forgotten, entry>>
    BY <1>4 DEF ReceiveRequest
  <2>. QED
    BY <2>1, <2>2, <2>3, QuietRuns
<1>5. ASSUME NEW r \in Requests, ReserveExisting(r) \/ Replay(r) \/ ClientDisconnects(r) PROVE RunsCounted'
  <2>1. \A q \in Requests :
          /\ (request'[q].pc = "handle") = (request[q].pc = "handle")
          /\ request'[q].key = request[q].key
    <3>1. CASE ReserveExisting(r)
      BY <1>1, <3>1 DEF ReserveExisting
    <3>2. CASE Replay(r)
      BY <1>1, <3>2 DEF Replay
    <3>3. CASE ClientDisconnects(r)
      BY <1>1, <3>3 DEF ClientDisconnects
    <3>. QED
      BY <1>5, <3>1, <3>2, <3>3
  <2>2. UNCHANGED <<cached, ran, forgotten, entry>>
    BY <1>5 DEF ReserveExisting, Replay, ClientDisconnects
  <2>. QED
    BY <2>1, <2>2, QuietRuns
<1>. QED
  BY <1>2, <1>3, <1>4, <1>5, NewEntryRuns, SuccessRuns, FailureRuns DEF IdempotencyNext

\* The invariant is inductive.
LEMMA IdempotencyStepInv == IdempotencyInv /\ [IdempotencyNext]_idempotencyVars => IdempotencyInv'
BY IdempotencyStepType, CachedStep, EntriesStep, RunsStep DEF IdempotencyInv

\* The map and the list of the idempotency cache hold the same entries, no more than there is
\* room for (idempotency.go:158).
THEOREM IdempotencyTyped == IdempotencySpec => []IdempotencyTypeOK
<1>1. IdempotencyInv => IdempotencyTypeOK
  BY DEF IdempotencyInv
<1>. QED
  BY <1>1, IdempotencyInitInv, IdempotencyStepInv, PTL DEF IdempotencySpec

\* However requests of one key overlap, wait, fail and expire, its handler takes effect again
\* only for an entry that was lost (internal/api/idempotency.go:49).
THEOREM RunsExplained == IdempotencySpec => []SecondRunExplained
<1>1. IdempotencyInv => SecondRunExplained
  <2>. SUFFICES ASSUME IdempotencyInv, NEW k \in Keys PROVE ran[k] <= 1 + forgotten[k]
    BY DEF SecondRunExplained
  <2>1. PartsTyped /\ RunsCounted
    BY TypeParts DEF IdempotencyInv
  <2>2. ran[k] <= forgotten[k] + (IF cached[k] = NoRequest THEN 0 ELSE 1) /\ ran[k] \in Nat /\ forgotten[k] \in Nat
    BY <2>1, RunsFinite DEF RunsCounted, PartsTyped
  <2>. QED
    BY <2>2
<1>. QED
  BY <1>1, IdempotencyInitInv, IdempotencyStepInv, PTL DEF IdempotencySpec

\* Nobody waits for a handler that has ended, whether its entry is still in the cache or not
\* (idempotency.go:69).
THEOREM WaitersAreReleased == IdempotencySpec => []WaitersReleased
<1>1. IdempotencyInv => WaitersReleased
  BY DEF IdempotencyInv, WaitersReleased, WaitersWait, EntriesMade
<1>. QED
  BY <1>1, IdempotencyInitInv, IdempotencyStepInv, PTL DEF IdempotencySpec

(***************************************************************************)
(* Pairing: one device, no lost confirmation, a token taken once.          *)
(***************************************************************************)

PairingRows  == [row : {"none", "stored", "deleted"}, expired : BOOLEAN,
                 csrf : Pages \cup {Nothing}, device : Confirms \cup {Nothing}]
PollStates   == [pc : {"idle", "subscribe", "reread", "wait"}, pair : Pairs \cup {Nothing},
                 channel : Confirms \cup {Nothing}]
ConfirmStates == [pc : {"idle", "commit", "notify", "done"}, pair : Pairs \cup {Nothing}]

\* A form that works on a request knows it, and one that has paired a device is past its commit.
ConfirmInv ==
    \A c \in Confirms :
        /\ confirm[c].pc \in {"commit", "notify"} => confirm[c].pair \in Pairs
        /\ confirm[c].pc = "notify" => c \in paired
        /\ c \in paired => confirm[c].pc \in {"notify", "done"} /\ confirm[c].pair \in Pairs

\* The row of a request names the one device that was made for it, until the row is deleted.
DeviceInv ==
    /\ \A c \in paired : \/ pairing[confirm[c].pair].device = c
                         \/ pairing[confirm[c].pair].row = "deleted"
    /\ \A q \in Pairs : /\ pairing[q].device # Nothing =>
                               /\ pairing[q].row = "stored" /\ pairing[q].device \in paired
                               /\ confirm[pairing[q].device].pair = q
                        /\ pairing[q].row # "deleted" \/ pairing[q].device = Nothing
    /\ OneDevicePerPairing

\* A subscription belongs to a poll of its request.
SubsInv ==
    /\ \A p \in Polls : poll[p].pc # "idle" => poll[p].pair \in Pairs
    /\ \A q \in Pairs : subs[q] # Nothing => /\ poll[subs[q]].pair = q
                                             /\ poll[subs[q]].pc \in {"reread", "wait"}

\* A poll has the token in its channel, or has answered with it.
Holds(p, c) == <<p, c>> \in told \/ poll[p].channel = c

\* A token leaves its confirmation once, for one poll of that request.
TokenInv ==
    /\ \A c \in Confirms, p \in Polls : Holds(p, c) => confirm[c].pc = "done" /\ c \in paired
    /\ \A c \in Confirms, p \in Polls : poll[p].channel = c => poll[p].pair = confirm[c].pair
    /\ \A c \in Confirms, p, r \in Polls : Holds(p, c) /\ Holds(r, c) => p = r

PairingInv ==
    /\ PairingTypeOK /\ ConfirmInv /\ DeviceInv /\ SubsInv /\ TokenInv /\ WaitingPollWillHear

-------------------------------------------------------------------------------
(* Types.                                                                  *)

\* The parts of the types, by name.
LEMMA PairingParts ==
    PairingTypeOK <=> /\ pairing \in [Pairs -> PairingRows] /\ paired \in SUBSET Confirms
                      /\ subs \in [Pairs -> Polls \cup {Nothing}]
                      /\ poll \in [Polls -> PollStates] /\ confirm \in [Confirms -> ConfirmStates]
                      /\ opened \subseteq Pairs \X Pages /\ told \subseteq Polls \X Confirms
BY DEF PairingTypeOK, PairingRows, PollStates, ConfirmStates

\* Records that say nothing is going on are well typed.
LEMMA IdleTypes == NoPairing \in PairingRows /\ NoPoll \in PollStates /\ NoConfirm \in ConfirmStates
BY DEF NoPairing, NoPoll, NoConfirm, PairingRows, PollStates, ConfirmStates

\* A step that changes one record of each map keeps the types.
LEMMA PairingTypeStep ==
    ASSUME PairingInv, [PairingNext]_pairingVars PROVE PairingTypeOK'
<1>. USE PairingParts, IdleTypes DEF PairingInv
<1>0. ASSUME pairing' \in [Pairs -> PairingRows], paired' \in SUBSET Confirms,
             subs' \in [Pairs -> Polls \cup {Nothing}],
             poll' \in [Polls -> PollStates], confirm' \in [Confirms -> ConfirmStates],
             opened' \subseteq Pairs \X Pages, told' \subseteq Polls \X Confirms
      PROVE  PairingTypeOK'
  BY <1>0 DEF PairingTypeOK, PairingRows, PollStates, ConfirmStates
<1>1. CASE UNCHANGED pairingVars
  BY <1>0, <1>1 DEF pairingVars
<1>2. ASSUME NEW q \in Pairs, RequestPairing(q) \/ Expire(q) \/ DeleteExpired(q)
      PROVE  PairingTypeOK'
  <2>1. pairing' \in [Pairs -> PairingRows]
    <3>1. CASE RequestPairing(q)
      BY <3>1 DEF RequestPairing, PairingRows
    <3>2. CASE Expire(q)
      BY <3>2 DEF Expire, PairingRows
    <3>3. CASE DeleteExpired(q)
      BY <3>3 DEF DeleteExpired, PairingRows
    <3>. QED
      BY <1>0, <1>2, <3>1, <3>2, <3>3
  <2>. QED
    BY <1>0, <1>2, <2>1 DEF RequestPairing, Expire, DeleteExpired
<1>3. ASSUME NEW q \in Pairs, NEW page \in Pages, OpenPage(q, page) PROVE PairingTypeOK'
  <2>1. pairing' \in [Pairs -> PairingRows]
    BY <1>0, <1>3 DEF OpenPage, PairingRows
  <2>. QED
    BY <1>0, <1>3, <2>1 DEF OpenPage
<1>4. ASSUME NEW c \in Confirms, NEW q \in Pairs, NEW page \in Pages, ConfirmGet(c, q, page)
      PROVE  PairingTypeOK'
  <2>1. confirm' \in [Confirms -> ConfirmStates]
    BY <1>0, <1>4 DEF ConfirmGet, ConfirmStates
  <2>. QED
    BY <1>0, <1>4, <2>1 DEF ConfirmGet
<1>5. ASSUME NEW c \in Confirms, ConfirmCommit(c) PROVE PairingTypeOK'
  <2>1. confirm' \in [Confirms -> ConfirmStates]
    BY <1>0, <1>5 DEF ConfirmCommit, ConfirmStates
  <2>2. pairing' \in [Pairs -> PairingRows]
    BY <1>0, <1>5 DEF ConfirmCommit, PairingRows
  <2>. QED
    BY <1>0, <1>5, <2>1, <2>2 DEF ConfirmCommit
<1>6. ASSUME NEW c \in Confirms, ConfirmFail(c) PROVE PairingTypeOK'
  <2>1. confirm' \in [Confirms -> ConfirmStates]
    BY <1>0, <1>6 DEF ConfirmFail, ConfirmStates
  <2>. QED
    BY <1>0, <1>6, <2>1 DEF ConfirmFail
<1>7. ASSUME NEW c \in Confirms, Notify(c) PROVE PairingTypeOK'
  <2>1. confirm' \in [Confirms -> ConfirmStates]
    BY <1>0, <1>7 DEF Notify, ConfirmStates
  <2>2. poll' \in [Polls -> PollStates]
    BY <1>0, <1>7 DEF Notify, PollStates
  <2>. QED
    BY <1>0, <1>7, <2>1, <2>2 DEF Notify
<1>8. ASSUME NEW p \in Polls, NEW q \in Pairs, PollGet(p, q) PROVE PairingTypeOK'
  <2>1. [NoPoll EXCEPT !.pc = "subscribe", !.pair = q] \in PollStates
    BY DEF PollStates
  <2>. QED
    BY <1>0, <1>8, <2>1 DEF PollGet
<1>9. ASSUME NEW p \in Polls, Subscribe(p) \/ Reread(p) PROVE PairingTypeOK'
  <2>1. CASE Subscribe(p)
    <3>1. poll' \in [Polls -> PollStates] /\ subs' \in [Pairs -> Polls \cup {Nothing}]
      BY <2>1 DEF Subscribe, PollStates
    <3>. QED
      BY <1>0, <2>1, <3>1 DEF Subscribe
  <2>2. CASE Reread(p)
    <3>1. poll' \in [Polls -> PollStates]
      BY <2>2 DEF Reread, PollStates
    <3>. QED
      BY <1>0, <2>2, <3>1 DEF Reread
  <2>. QED
    BY <1>0, <1>9, <2>1, <2>2
<1>10. ASSUME NEW p \in Polls, RereadConfirmed(p) \/ PollReceives(p) \/ PollEnds(p)
       PROVE  PairingTypeOK'
  <2>1. poll[p].channel \in Confirms \cup {Nothing}
    BY DEF PollStates
  <2>2. told' \subseteq Polls \X Confirms
    BY <1>0, <1>10, <2>1 DEF RereadConfirmed, PollReceives, PollEnds
  <2>3. poll' \in [Polls -> PollStates] /\ subs' \in [Pairs -> Polls \cup {Nothing}]
    BY <1>0, <1>10 DEF RereadConfirmed, PollReceives, PollEnds, Leaves
  <2>. QED
    BY <1>0, <1>10, <2>2, <2>3 DEF RereadConfirmed, PollReceives, PollEnds
<1>11. CASE PairingRestart
  <2>1. \A c \in Confirms : [confirm[c] EXCEPT !.pc = "done"] \in ConfirmStates
    BY DEF ConfirmStates
  <2>2. confirm' \in [Confirms -> ConfirmStates]
    BY <1>0, <1>11, <2>1 DEF PairingRestart
  <2>. QED
    BY <1>0, <1>11, <2>2 DEF PairingRestart
<1>. QED
  BY <1>1, <1>2, <1>3, <1>4, <1>5, <1>6, <1>7, <1>8, <1>9, <1>10, <1>11 DEF PairingNext

-------------------------------------------------------------------------------
(* One device per request.                                                 *)

\* Steps that touch neither forms nor devices.
LEMMA DeviceRest ==
    ASSUME PairingTypeOK, ConfirmInv, DeviceInv, UNCHANGED <<paired, confirm>>,
           \A q \in Pairs : \/ pairing'[q] = pairing[q]
                            \/ /\ pairing'[q].device = pairing[q].device
                               /\ pairing'[q].row = "stored"
                               /\ pairing[q].row # "deleted"
                            \/ pairing'[q].device = Nothing /\ pairing'[q].row = "deleted"
    PROVE  ConfirmInv' /\ DeviceInv'
<1>1. ConfirmInv' /\ OneDevicePerPairing'
  BY DEF ConfirmInv, DeviceInv, OneDevicePerPairing
<1>2. \A c \in paired : confirm[c].pair \in Pairs
  BY DEF ConfirmInv, PairingTypeOK
<1>3. \A q \in Pairs : pairing[q].row = "deleted" => pairing'[q].row = "deleted"
  OBVIOUS
<1>4. \A c \in paired' : \/ pairing'[confirm'[c].pair].device = c
                         \/ pairing'[confirm'[c].pair].row = "deleted"
  BY <1>2, <1>3 DEF DeviceInv
<1>5. \A q \in Pairs : /\ pairing'[q].device # Nothing =>
                               /\ pairing'[q].row = "stored" /\ pairing'[q].device \in paired'
                               /\ confirm'[pairing'[q].device].pair = q
                       /\ pairing'[q].row # "deleted" \/ pairing'[q].device = Nothing
  BY DEF DeviceInv
<1>. QED
  BY <1>1, <1>4, <1>5 DEF DeviceInv

\* Forms and devices: the transaction of a confirmation finds no device and makes one.
LEMMA PairedStep ==
    ASSUME PairingInv, [PairingNext]_pairingVars PROVE ConfirmInv' /\ DeviceInv'
<1>. USE PairingParts, PairingAssumption DEF PairingInv
<1>1. ASSUME UNCHANGED <<pairing, paired, confirm>> PROVE ConfirmInv' /\ DeviceInv'
  BY <1>1, DeviceRest
<1>2. ASSUME NEW q \in Pairs, RequestPairing(q) \/ Expire(q) \/ DeleteExpired(q)
      PROVE  ConfirmInv' /\ DeviceInv'
  <2>1. CASE RequestPairing(q)
    <3>1. /\ UNCHANGED <<paired, confirm>> /\ \A r \in Pairs \ {q} : pairing'[r] = pairing[r]
          /\ pairing[q].row # "deleted" /\ pairing'[q].row = "stored"
          /\ pairing'[q].device = pairing[q].device
      BY <2>1 DEF RequestPairing, PairingRows
    <3>. QED
      BY <3>1, DeviceRest
  <2>2. CASE Expire(q)
    <3>1. /\ UNCHANGED <<paired, confirm>> /\ \A r \in Pairs \ {q} : pairing'[r] = pairing[r]
          /\ pairing[q].row # "deleted" /\ pairing'[q].row = "stored"
          /\ pairing'[q].device = pairing[q].device
      BY <2>2 DEF Expire, PairingRows
    <3>. QED
      BY <3>1, DeviceRest
  <2>3. CASE DeleteExpired(q)
    <3>1. /\ UNCHANGED <<paired, confirm>> /\ \A r \in Pairs \ {q} : pairing'[r] = pairing[r]
          /\ pairing'[q].row = "deleted" /\ pairing'[q].device = Nothing
      BY <2>3 DEF DeleteExpired, NoPairing, PairingRows
    <3>. QED
      BY <3>1, DeviceRest
  <2>. QED
    BY <1>2, <2>1, <2>2, <2>3
<1>3. ASSUME NEW q \in Pairs, NEW page \in Pages, OpenPage(q, page)
      PROVE  ConfirmInv' /\ DeviceInv'
  <2>1. /\ UNCHANGED <<paired, confirm>> /\ \A r \in Pairs \ {q} : pairing'[r] = pairing[r]
        /\ pairing[q].row # "deleted" /\ pairing'[q].row = "stored"
        /\ pairing'[q].device = pairing[q].device
    BY <1>3 DEF OpenPage, PairingRows
  <2>. QED
    BY <2>1, DeviceRest
<1>4. ASSUME NEW c \in Confirms, UNCHANGED <<pairing, paired>>, c \notin paired,
             \A d \in Confirms \ {c} : confirm'[d] = confirm[d],
             \/ confirm'[c].pc = "commit" /\ confirm'[c].pair \in Pairs
             \/ confirm'[c].pc = "done"
      PROVE  ConfirmInv' /\ DeviceInv'
  <2>1. \A d \in paired : confirm'[d] = confirm[d]
    BY <1>4
  <2>2. ConfirmInv'
    BY <1>4 DEF ConfirmInv
  <2>. QED
    BY <1>4, <2>1, <2>2 DEF DeviceInv, OneDevicePerPairing
<1>5. ASSUME NEW c \in Confirms, NEW q \in Pairs, NEW page \in Pages, ConfirmGet(c, q, page)
      PROVE  ConfirmInv' /\ DeviceInv'
  <2>1. /\ UNCHANGED <<pairing, paired>> /\ \A d \in Confirms \ {c} : confirm'[d] = confirm[d]
        /\ confirm'[c] = [pc |-> "commit", pair |-> q] /\ confirm[c].pc = "idle"
    BY <1>5 DEF ConfirmGet, NoConfirm
  <2>2. c \notin paired
    BY <2>1 DEF ConfirmInv
  <2>. QED
    BY <1>4, <2>1, <2>2
<1>6. ASSUME NEW c \in Confirms, ConfirmFail(c) PROVE ConfirmInv' /\ DeviceInv'
  <2>1. /\ UNCHANGED <<pairing, paired>> /\ \A d \in Confirms \ {c} : confirm'[d] = confirm[d]
        /\ confirm'[c].pc = "done" /\ confirm[c].pc = "commit"
    BY <1>6 DEF ConfirmFail, ConfirmStates
  <2>2. c \notin paired
    BY <2>1 DEF ConfirmInv
  <2>. QED
    BY <1>4, <2>1, <2>2
<1>7. ASSUME NEW c \in Confirms, ConfirmCommit(c) PROVE ConfirmInv' /\ DeviceInv'
  <2>. DEFINE q == confirm[c].pair
  <2>1. /\ paired' = paired \cup {c} /\ q \in Pairs /\ confirm[c].pc = "commit"
        /\ pairing[q].row = "stored" /\ pairing[q].device = Nothing
    BY <1>7 DEF ConfirmCommit, MarkConfirmedTx, ConfirmInv
  <2>2. /\ \A d \in Confirms \ {c} : confirm'[d] = confirm[d]
        /\ confirm'[c].pc = "notify" /\ confirm'[c].pair = q
    BY <1>7 DEF ConfirmCommit, ConfirmStates
  <2>3. /\ \A r \in Pairs \ {q} : pairing'[r] = pairing[r]
        /\ pairing'[q].row = "stored" /\ pairing'[q].device = c
    BY <1>7, <2>1 DEF ConfirmCommit, PairingRows
  <2>4. c \notin paired
    BY <2>1 DEF ConfirmInv
  <2>. HIDE DEF q
  <2>5. \A d \in paired : confirm[d].pair # q /\ confirm[d].pair \in Pairs
    <3>. SUFFICES ASSUME NEW d \in paired PROVE confirm[d].pair # q /\ confirm[d].pair \in Pairs
      OBVIOUS
    <3>. QED
      BY <2>1 DEF ConfirmInv, DeviceInv
  <2>6. ConfirmInv'
    BY <2>1, <2>2 DEF ConfirmInv
  <2>7. OneDevicePerPairing'
    BY <2>1, <2>2, <2>4, <2>5 DEF DeviceInv, OneDevicePerPairing
  <2>8. \A d \in paired' : \/ pairing'[confirm'[d].pair].device = d
                           \/ pairing'[confirm'[d].pair].row = "deleted"
    BY <2>1, <2>2, <2>3, <2>4, <2>5 DEF DeviceInv
  <2>9. \A r \in Pairs : /\ pairing'[r].device # Nothing =>
                               /\ pairing'[r].row = "stored" /\ pairing'[r].device \in paired'
                               /\ confirm'[pairing'[r].device].pair = r
                        /\ (pairing'[r].row # "deleted" \/ pairing'[r].device = Nothing)
    BY <2>1, <2>2, <2>3, <2>4 DEF DeviceInv
  <2>. QED
    BY <2>6, <2>7, <2>8, <2>9 DEF DeviceInv
<1>8. ASSUME NEW c \in Confirms, Notify(c) PROVE ConfirmInv' /\ DeviceInv'
  <2>1. /\ UNCHANGED <<pairing, paired>> /\ \A d \in Confirms \ {c} : confirm'[d] = confirm[d]
        /\ confirm'[c].pc = "done" /\ confirm'[c].pair = confirm[c].pair
        /\ confirm[c].pc = "notify"
    BY <1>8 DEF Notify, ConfirmStates
  <2>2. \A d \in Confirms : confirm'[d].pair = confirm[d].pair
    BY <2>1
  <2>3. ConfirmInv'
    BY <2>1 DEF ConfirmInv
  <2>. QED
    BY <2>1, <2>2, <2>3 DEF DeviceInv, OneDevicePerPairing
<1>9. CASE PairingRestart
  <2>1. UNCHANGED <<pairing, paired>>
    BY <1>9 DEF PairingRestart
  <2>2. \A c \in Confirms : \/ confirm[c].pc = "idle" /\ confirm'[c] = NoConfirm
                            \/ confirm'[c] = [confirm[c] EXCEPT !.pc = "done"]
    BY <1>9 DEF PairingRestart
  <2>3. \A c \in Confirms : \/ confirm[c].pc = "idle" /\ confirm'[c].pc = "idle"
                            \/ confirm'[c].pc = "done" /\ confirm'[c].pair = confirm[c].pair
    <3>1. TAKE c \in Confirms
    <3>2. CASE confirm[c].pc = "idle" /\ confirm'[c] = NoConfirm
      BY <3>2 DEF NoConfirm
    <3>3. CASE confirm'[c] = [confirm[c] EXCEPT !.pc = "done"]
      BY <3>3 DEF ConfirmStates
    <3>. QED
      BY <2>2, <3>2, <3>3
  <2>4. \A c \in paired : confirm'[c].pc = "done" /\ confirm'[c].pair = confirm[c].pair
    BY <2>3 DEF ConfirmInv
  <2>5. ConfirmInv'
    BY <2>1, <2>3, <2>4 DEF ConfirmInv
  <2>. QED
    BY <2>1, <2>4, <2>5 DEF DeviceInv, OneDevicePerPairing
<1>10. ASSUME NEW p \in Polls,
              \/ Subscribe(p) \/ Reread(p) \/ RereadConfirmed(p) \/ PollReceives(p)
              \/ PollEnds(p) \/ \E q \in Pairs : PollGet(p, q)
       PROVE  ConfirmInv' /\ DeviceInv'
  BY <1>1, <1>10 DEF Subscribe, Reread, RereadConfirmed, PollReceives, PollEnds, PollGet
<1>11. CASE UNCHANGED pairingVars
  BY <1>1, <1>11 DEF pairingVars
<1>. QED
  BY <1>2, <1>3, <1>5, <1>6, <1>7, <1>8, <1>9, <1>10, <1>11 DEF PairingNext

-------------------------------------------------------------------------------
(* Polls and tokens.                                                       *)

\* What leaving does to the polls: the one that leaves is idle, the others keep what they have.
LEMMA LeavesFields ==
    ASSUME PairingTypeOK, NEW p \in Polls, Leaves(p)
    PROVE  /\ poll'[p] = NoPoll /\ \A r \in Polls \ {p} : poll'[r] = poll[r]
           /\ \A q \in Pairs : subs'[q] # Nothing => subs'[q] = subs[q] /\ subs[q] # p
BY PairingParts DEF Leaves

\* The steps of a poll, by what they do to it and to its subscription.
LEMMA PollFields ==
    ASSUME PairingInv, NEW p \in Polls,
           \/ Subscribe(p) \/ Reread(p) \/ RereadConfirmed(p) \/ PollReceives(p)
           \/ PollEnds(p) \/ \E q \in Pairs : PollGet(p, q)
    PROVE  /\ UNCHANGED <<pairing, paired, confirm>>
           /\ \A r \in Polls \ {p} : poll'[r] = poll[r]
           /\ \A q \in Pairs : subs'[q] \in {subs[q], Nothing} \/ subs'[q] = p
           /\ \/ /\ poll'[p] = NoPoll /\ \A q \in Pairs : subs'[q] # p
                 /\ told' \subseteq told \cup {<<p, poll[p].channel>>}
              \/ /\ poll[p] = NoPoll /\ poll'[p].pc = "subscribe" /\ poll'[p].pair \in Pairs
                 /\ poll'[p].channel = Nothing /\ UNCHANGED <<subs, told>>
              \/ /\ poll[p].pc = "subscribe" /\ poll'[p].pc = "reread"
                 /\ poll'[p].pair = poll[p].pair /\ poll'[p].channel = poll[p].channel
                 /\ subs' = [subs EXCEPT ![poll[p].pair] = p] /\ UNCHANGED told
              \/ /\ poll[p].pc = "reread" /\ poll'[p].pc = "wait"
                 /\ poll'[p].pair = poll[p].pair /\ poll'[p].channel = poll[p].channel
                 /\ pairing[poll[p].pair].device = Nothing /\ UNCHANGED <<subs, told>>
<1>. USE PairingParts, PairingAssumption DEF PairingInv
<1>1. CASE Subscribe(p)
  BY <1>1 DEF Subscribe, PollStates
<1>2. CASE Reread(p)
  BY <1>2 DEF Reread, PollStates
<1>3. ASSUME NEW q \in Pairs, PollGet(p, q)
      PROVE  /\ UNCHANGED <<pairing, paired, confirm, subs, told>>
             /\ \A r \in Polls \ {p} : poll'[r] = poll[r]
             /\ poll[p] = NoPoll /\ poll'[p].pc = "subscribe" /\ poll'[p].pair \in Pairs
             /\ poll'[p].channel = Nothing
  BY <1>3 DEF PollGet, NoPoll
<1>4. CASE RereadConfirmed(p) \/ PollReceives(p) \/ PollEnds(p)
  <2>1. Leaves(p) /\ UNCHANGED <<pairing, paired, confirm>>
    BY <1>4 DEF RereadConfirmed, PollReceives, PollEnds
  <2>2. told' \subseteq told \cup {<<p, poll[p].channel>>}
    BY <1>4 DEF RereadConfirmed, PollReceives, PollEnds
  <2>3. \A q \in Pairs : subs'[q] \in {subs[q], Nothing} /\ subs'[q] # p
    BY <2>1 DEF Leaves
  <2>. QED
    BY <2>1, <2>2, <2>3, LeavesFields
<1>. QED
  BY <1>1, <1>2, <1>3, <1>4

\* What publishing does: the poll that is subscribed may get the token.
LEMMA NotifyFields ==
    ASSUME PairingInv, NEW c \in Confirms, Notify(c)
    PROVE  /\ UNCHANGED <<pairing, paired, subs, told>>
           /\ confirm[c].pc = "notify" /\ confirm'[c].pc = "done" /\ c \in paired
           /\ confirm[c].pair \in Pairs /\ confirm'[c].pair = confirm[c].pair
           /\ \A d \in Confirms \ {c} : confirm'[d] = confirm[d]
           /\ \A p \in Polls : /\ poll'[p].pc = poll[p].pc /\ poll'[p].pair = poll[p].pair
                               /\ \/ poll'[p].channel = poll[p].channel
                                  \/ /\ poll[p].channel = Nothing /\ poll'[p].channel = c
                                     /\ p = subs[confirm[c].pair]
           /\ LET p == subs[confirm[c].pair]
              IN  p # Nothing => p \in Polls /\ poll'[p].channel # Nothing
<1>. USE PairingParts, PairingAssumption DEF PairingInv
<1>1. /\ UNCHANGED <<pairing, paired, subs, told>>
      /\ confirm[c].pc = "notify" /\ confirm'[c].pc = "done"
      /\ confirm'[c].pair = confirm[c].pair
      /\ \A d \in Confirms \ {c} : confirm'[d] = confirm[d]
  BY DEF Notify, ConfirmStates
<1>2. c \in paired /\ confirm[c].pair \in Pairs
  BY <1>1 DEF ConfirmInv
<1>. DEFINE s == subs[confirm[c].pair]
<1>3. s \in Polls \cup {Nothing}
  BY <1>2
<1>4. poll' = IF s # Nothing /\ poll[s].channel = Nothing
              THEN [poll EXCEPT ![s].channel = c] ELSE poll
  BY DEF Notify
<1>. HIDE DEF s
<1>5. \A p \in Polls : /\ poll'[p].pc = poll[p].pc /\ poll'[p].pair = poll[p].pair
                       /\ \/ poll'[p].channel = poll[p].channel
                          \/ poll[p].channel = Nothing /\ poll'[p].channel = c /\ p = s
  BY <1>3, <1>4 DEF PollStates
<1>6. s # Nothing => s \in Polls /\ poll'[s].channel # Nothing
  BY <1>3, <1>4 DEF PollStates
<1>. QED
  BY <1>1, <1>2, <1>5, <1>6 DEF s

\* A subscription stays with a poll of its request that is waiting or about to.
LEMMA SubsStep ==
    ASSUME PairingInv, [PairingNext]_pairingVars PROVE SubsInv'
<1>. USE PairingParts, PairingAssumption DEF PairingInv
<1>1. ASSUME UNCHANGED subs,
             \A p \in Polls : poll'[p].pc = poll[p].pc /\ poll'[p].pair = poll[p].pair
      PROVE  SubsInv'
  BY <1>1 DEF SubsInv
<1>2. ASSUME NEW c \in Confirms, Notify(c) PROVE SubsInv'
  BY <1>1, <1>2, NotifyFields
<1>3. CASE PairingRestart
  BY <1>3 DEF PairingRestart, SubsInv, NoPoll
<1>4. ASSUME NEW p \in Polls,
             \/ Subscribe(p) \/ Reread(p) \/ RereadConfirmed(p) \/ PollReceives(p)
             \/ PollEnds(p) \/ \E q \in Pairs : PollGet(p, q)
      PROVE  SubsInv'
  <2>1. \A r \in Polls : poll'[r].pc # "idle" => poll'[r].pair \in Pairs
    BY <1>4, PollFields DEF SubsInv, NoPoll
  <2>2. ASSUME NEW q \in Pairs, subs'[q] # Nothing
        PROVE  poll'[subs'[q]].pair = q /\ poll'[subs'[q]].pc \in {"reread", "wait"}
    <3>1. CASE subs'[q] # p
      <4>1. subs'[q] = subs[q] /\ subs[q] \in Polls \ {p}
        BY <1>4, <2>2, <3>1, PollFields
      <4>. QED
        BY <1>4, <2>2, <4>1, PollFields DEF SubsInv
    <3>2. CASE subs'[q] = p
      <4>1. subs[q] = p => poll[p].pair = q /\ poll[p].pc \in {"reread", "wait"}
        BY DEF SubsInv
      <4>. QED
        BY <1>4, <3>2, <4>1, PollFields DEF NoPoll
    <3>. QED
      BY <3>1, <3>2
  <2>. QED
    BY <2>1, <2>2 DEF SubsInv
<1>5. ASSUME UNCHANGED <<subs, poll>> PROVE SubsInv'
  BY <1>1, <1>5
<1>. QED
  BY <1>2, <1>3, <1>4, <1>5 DEF PairingNext, RequestPairing, Expire, DeleteExpired, OpenPage,
     ConfirmCommit, ConfirmFail, ConfirmGet, pairingVars

\* What a restart does to forms and polls.
LEMMA RestartFields ==
    ASSUME PairingInv, PairingRestart
    PROVE  /\ UNCHANGED <<pairing, paired, told>>
           /\ \A p \in Polls : poll'[p] = NoPoll
           /\ \A c \in Confirms : confirm[c].pc # "idle" =>
                    confirm'[c].pc = "done" /\ confirm'[c].pair = confirm[c].pair
<1>. USE PairingParts DEF PairingInv
<1>1. \A c \in Confirms : confirm[c].pc # "idle" =>
          confirm'[c] = [confirm[c] EXCEPT !.pc = "done"]
  BY DEF PairingRestart
<1>2. \A c \in Confirms : confirm[c].pc # "idle" =>
          confirm'[c].pc = "done" /\ confirm'[c].pair = confirm[c].pair
  BY <1>1 DEF ConfirmStates
<1>. QED
  BY <1>2 DEF PairingRestart

\* A form that has published stays so and keeps its request.
LEMMA DoneStays ==
    ASSUME PairingInv, [PairingNext]_pairingVars
    PROVE  /\ paired \subseteq paired'
           /\ \A c \in Confirms : confirm[c].pc = "done" =>
                    confirm'[c].pc = "done" /\ confirm'[c].pair = confirm[c].pair
<1>. USE PairingParts DEF PairingInv
<1>1. ASSUME NEW c \in Confirms, NEW q \in Pairs, NEW page \in Pages, ConfirmGet(c, q, page)
      PROVE  /\ UNCHANGED paired
             /\ \A d \in Confirms : confirm[d].pc = "done" => confirm'[d] = confirm[d]
  BY <1>1 DEF ConfirmGet, NoConfirm
<1>2. ASSUME NEW c \in Confirms, ConfirmCommit(c) \/ ConfirmFail(c) \/ Notify(c)
      PROVE  /\ paired \subseteq paired'
             /\ \A d \in Confirms : confirm[d].pc = "done" => confirm'[d] = confirm[d]
  BY <1>2 DEF ConfirmCommit, ConfirmFail, Notify
<1>3. CASE PairingRestart
  BY <1>3, RestartFields
<1>4. CASE UNCHANGED <<paired, confirm>>
  BY <1>4
<1>. QED
  BY <1>1, <1>2, <1>3, <1>4 DEF PairingNext, RequestPairing, Expire, DeleteExpired, OpenPage,
     Subscribe, Reread, RereadConfirmed, PollReceives, PollEnds, PollGet, pairingVars

\* A token is published once, to one poll of the request, and moves from its channel to its
\* answer.
LEMMA TokenStep ==
    ASSUME PairingInv, [PairingNext]_pairingVars PROVE TokenInv'
<1>. USE PairingParts, PairingAssumption DEF PairingInv
<1>1. ASSUME \A c \in Confirms, p \in Polls :
                /\ <<p, c>> \in told' \/ poll'[p].channel = c => Holds(p, c)
                /\ poll'[p].channel = c =>
                       poll[p].channel = c /\ poll'[p].pair = poll[p].pair
      PROVE  TokenInv'
  <2>1. \A c \in Confirms, p \in Polls : Holds(p, c)' => Holds(p, c)
    BY <1>1 DEF Holds
  <2>2. \A c \in Confirms, p \in Polls : poll[p].channel = c => Holds(p, c)
    BY DEF Holds
  <2>3. \A c \in Confirms, p \in Polls : Holds(p, c) =>
            c \in paired' /\ confirm'[c].pc = "done" /\ confirm'[c].pair = confirm[c].pair
    BY DoneStays DEF TokenInv
  <2>4. \A c \in Confirms, p \in Polls :
            poll'[p].channel = c => poll'[p].pair = confirm'[c].pair
    <3>1. TAKE c \in Confirms, p \in Polls
    <3>2. HAVE poll'[p].channel = c
    <3>3. poll[p].channel = c /\ poll'[p].pair = poll[p].pair
      BY <1>1, <3>2
    <3>4. poll[p].pair = confirm[c].pair
      BY <3>3 DEF TokenInv
    <3>5. confirm'[c].pair = confirm[c].pair
      BY <2>2, <2>3, <3>3
    <3>. QED
      BY <3>3, <3>4, <3>5
  <2>5. \A c \in Confirms, p, r \in Polls : Holds(p, c)' /\ Holds(r, c)' => p = r
    BY <2>1 DEF TokenInv
  <2>. QED
    BY <2>1, <2>3, <2>4, <2>5 DEF TokenInv
<1>2. ASSUME NEW c \in Confirms, Notify(c) PROVE TokenInv'
  <2>. DEFINE s == subs[confirm[c].pair]
  <2>1. /\ told' = told /\ confirm[c].pc = "notify" /\ confirm'[c].pc = "done"
        /\ c \in paired' /\ confirm[c].pair \in Pairs /\ confirm'[c].pair = confirm[c].pair
    BY <1>2, NotifyFields
  <2>2. \A p \in Polls : /\ poll'[p].pair = poll[p].pair
                         /\ \/ poll'[p].channel = poll[p].channel
                            \/ poll'[p].channel = c /\ p = s
    BY <1>2, NotifyFields
  <2>3. s # Nothing => poll[s].pair = confirm[c].pair
    BY <2>1 DEF SubsInv
  <2>4. \A p \in Polls : ~Holds(p, c)
    BY <2>1 DEF TokenInv
  <2>. HIDE DEF s
  <2>5. \A d \in Confirms, p \in Polls : Holds(p, d)' => Holds(p, d) \/ (d = c /\ p = s)
    BY <2>1, <2>2 DEF Holds
  <2>6. \A d \in Confirms, p \in Polls :
            Holds(p, d)' => confirm'[d].pc = "done" /\ d \in paired'
    BY <2>1, <2>5, DoneStays DEF TokenInv
  <2>7. \A d \in Confirms, p \in Polls : poll'[p].channel = d => poll'[p].pair = confirm'[d].pair
    <3>1. TAKE d \in Confirms, p \in Polls
    <3>2. HAVE poll'[p].channel = d
    <3>3. CASE poll[p].channel = d
      <4>1. Holds(p, d)
        BY <3>3 DEF Holds
      <4>2. confirm[d].pc = "done" /\ poll[p].pair = confirm[d].pair
        BY <3>3, <4>1 DEF TokenInv
      <4>. QED
        BY <2>2, <4>2, DoneStays
    <3>4. CASE d = c /\ p = s
      BY <2>1, <2>2, <2>3, <3>4
    <3>. QED
      BY <2>2, <3>2, <3>3, <3>4
  <2>8. \A d \in Confirms, p, r \in Polls : Holds(p, d)' /\ Holds(r, d)' => p = r
    BY <2>4, <2>5 DEF TokenInv
  <2>. QED
    BY <2>6, <2>7, <2>8 DEF TokenInv
<1>3. ASSUME NEW p \in Polls,
             \/ Subscribe(p) \/ Reread(p) \/ RereadConfirmed(p) \/ PollReceives(p)
             \/ PollEnds(p) \/ \E q \in Pairs : PollGet(p, q)
      PROVE  TokenInv'
  <2>1. \A r \in Polls \ {p} : poll'[r] = poll[r]
    BY <1>3, PollFields
  <2>2. told' \subseteq told \cup {<<p, poll[p].channel>>}
    BY <1>3, PollFields
  <2>3. \/ poll'[p].channel = Nothing
        \/ poll'[p].channel = poll[p].channel /\ poll'[p].pair = poll[p].pair
    BY <1>3, PollFields DEF NoPoll
  <2>4. Nothing \notin Confirms
    OBVIOUS
  <2>. QED
    BY <1>1, <2>1, <2>2, <2>3, <2>4 DEF Holds
<1>4. CASE PairingRestart
  <2>1. told' = told /\ \A p \in Polls : poll'[p].channel = Nothing
    BY <1>4, RestartFields DEF NoPoll
  <2>. QED
    BY <1>1, <2>1 DEF Holds
<1>5. CASE UNCHANGED <<told, poll>>
  BY <1>1, <1>5 DEF Holds
<1>. QED
  BY <1>2, <1>3, <1>4, <1>5 DEF PairingNext, RequestPairing, Expire, DeleteExpired, OpenPage,
     ConfirmCommit, ConfirmFail, ConfirmGet, pairingVars

\* The poll that waits is the one that is told, whoever confirms.
LEMMA WaitStep ==
    ASSUME PairingInv, [PairingNext]_pairingVars PROVE WaitingPollWillHear'
<1>. USE PairingParts, PairingAssumption DEF PairingInv
<1>. SUFFICES ASSUME NEW p \in Polls, NEW q, q = poll'[p].pair, poll'[p].pc = "wait",
                     subs'[q] = p, pairing'[q].device # Nothing,
                     confirm'[pairing'[q].device].pc = "done"
              PROVE  poll'[p].channel = pairing'[q].device
  BY DEF WaitingPollWillHear
<1>1. ASSUME poll'[p] = poll[p], subs[q] = p, pairing'[q].device = pairing[q].device,
             confirm[pairing[q].device].pc = "done"
      PROVE  poll'[p].channel = pairing'[q].device
  BY <1>1 DEF WaitingPollWillHear
<1>2. ASSUME UNCHANGED <<pairing, subs, poll>>, NEW c \in Confirms, c \notin paired,
             \A d \in Confirms \ {c} : confirm'[d] = confirm[d]
      PROVE  poll'[p].channel = pairing'[q].device
  <2>1. q \in Pairs /\ pairing[q].device \in paired
    BY <1>2 DEF SubsInv, DeviceInv
  <2>2. confirm'[pairing[q].device] = confirm[pairing[q].device]
    BY <1>2, <2>1
  <2>. QED
    BY <1>1, <1>2, <2>2
<1>3. ASSUME NEW c \in Confirms, NEW r \in Pairs, NEW page \in Pages, ConfirmGet(c, r, page)
      PROVE  poll'[p].channel = pairing'[q].device
  <2>1. confirm[c].pc = "idle" /\ c \notin paired
    BY <1>3 DEF ConfirmGet, NoConfirm, ConfirmInv
  <2>. QED
    BY <1>2, <1>3, <2>1 DEF ConfirmGet
<1>4. ASSUME NEW c \in Confirms, ConfirmFail(c)
      PROVE  poll'[p].channel = pairing'[q].device
  <2>1. c \notin paired
    BY <1>4 DEF ConfirmFail, ConfirmInv
  <2>. QED
    BY <1>2, <1>4, <2>1 DEF ConfirmFail
<1>5. ASSUME NEW c \in Confirms, ConfirmCommit(c)
      PROVE  poll'[p].channel = pairing'[q].device
  <2>1. /\ UNCHANGED <<subs, poll>> /\ confirm'[c].pc = "notify" /\ confirm[c].pair \in Pairs
        /\ confirm[c].pc = "commit" /\ \A d \in Confirms \ {c} : confirm'[d] = confirm[d]
    BY <1>5 DEF ConfirmCommit, ConfirmInv, ConfirmStates
  <2>2. /\ \A r \in Pairs \ {confirm[c].pair} : pairing'[r] = pairing[r]
        /\ pairing'[confirm[c].pair].device = c
    BY <1>5, <2>1 DEF ConfirmCommit, PairingRows
  <2>3. q \in Pairs /\ q # confirm[c].pair
    BY <2>1, <2>2 DEF SubsInv
  <2>4. pairing[q].device \in Confirms /\ pairing[q].device # c
    BY <2>1, <2>2, <2>3 DEF DeviceInv, ConfirmInv
  <2>. QED
    BY <1>1, <2>1, <2>2, <2>3, <2>4
<1>6. ASSUME NEW c \in Confirms, Notify(c)
      PROVE  poll'[p].channel = pairing'[q].device
  <2>1. /\ UNCHANGED <<pairing, subs>> /\ q = poll[p].pair /\ poll[p].pc = "wait" /\ q \in Pairs
        /\ confirm[c].pc = "notify" /\ \A d \in Confirms \ {c} : confirm'[d] = confirm[d]
    BY <1>6, NotifyFields DEF SubsInv
  <2>2. CASE pairing[q].device = c
    <3>1. confirm[c].pair = q
      BY <2>2 , <2>1 DEF DeviceInv
    <3>2. poll'[p].channel # Nothing
      BY <1>6, <2>1, <3>1, NotifyFields
    <3>3. CASE poll'[p].channel = c
      BY <2>1, <2>2, <3>3
    <3>4. CASE poll'[p].channel = poll[p].channel
      <4>1. poll[p].channel \in Confirms /\ Holds(p, poll[p].channel)
        BY <3>2, <3>4 DEF PollStates, Holds
      <4>2. /\ confirm[poll[p].channel].pc = "done" /\ poll[p].channel \in paired
            /\ confirm[poll[p].channel].pair = q
        BY <2>1, <4>1 DEF TokenInv
      <4>3. poll[p].channel = c
        BY <1>6, <2>2, <3>1, <4>1, <4>2, NotifyFields DEF DeviceInv, OneDevicePerPairing
      <4>. QED
        BY <2>1, <4>2, <4>3
    <3>. QED
      BY <1>6, <3>3, <3>4, NotifyFields
  <2>3. CASE pairing[q].device # c
    <3>1. pairing[q].device \in Confirms \ {c}
      BY <2>1, <2>3 DEF DeviceInv
    <3>2. confirm[pairing[q].device].pc = "done"
      BY <2>1, <3>1
    <3>3. poll[p].channel = pairing[q].device
      BY <2>1, <3>2 DEF WaitingPollWillHear
    <3>4. poll[p].channel # Nothing
      BY <2>1, <3>3
    <3>. QED
      BY <1>6, <2>1, <3>3, <3>4, NotifyFields
  <2>. QED
    BY <2>2, <2>3
<1>7. ASSUME NEW r \in Polls,
             \/ Subscribe(r) \/ Reread(r) \/ RereadConfirmed(r) \/ PollReceives(r)
             \/ PollEnds(r) \/ \E s \in Pairs : PollGet(r, s)
      PROVE  poll'[p].channel = pairing'[q].device
  <2>1. UNCHANGED <<pairing, paired, confirm>>
    BY <1>7, PollFields
  <2>2. CASE p = r
    BY <1>7, <2>1, <2>2, PollFields DEF NoPoll
  <2>3. CASE p # r
    <3>1. poll'[p] = poll[p]
      BY <1>7, <2>3, PollFields
    <3>2. q \in Pairs
      BY <3>1 DEF SubsInv
    <3>3. subs'[q] \in {subs[q], Nothing} \/ subs'[q] = r
      BY <1>7, <3>2, PollFields
    <3>4. subs[q] = p
      BY <2>3, <3>3
    <3>. QED
      BY <1>1, <2>1, <3>1, <3>4
  <2>. QED
    BY <2>2, <2>3
<1>8. CASE PairingRestart
  BY <1>8, RestartFields DEF NoPoll
<1>9. ASSUME NEW r \in Pairs,
             \/ RequestPairing(r) \/ Expire(r) \/ DeleteExpired(r)
             \/ \E page \in Pages : OpenPage(r, page)
      PROVE  poll'[p].channel = pairing'[q].device
  <2>1. UNCHANGED <<subs, poll, confirm>>
    BY <1>9 DEF RequestPairing, Expire, DeleteExpired, OpenPage
  <2>2. q \in Pairs
    BY <2>1 DEF SubsInv
  <2>3. pairing'[q].device \in {pairing[q].device, Nothing}
    <3>1. CASE RequestPairing(r)
      BY <2>2, <3>1 DEF RequestPairing, PairingRows
    <3>2. CASE Expire(r)
      BY <2>2, <3>2 DEF Expire, PairingRows
    <3>3. CASE DeleteExpired(r)
      BY <2>2, <3>3 DEF DeleteExpired, NoPairing, PairingRows
    <3>4. ASSUME NEW page \in Pages, OpenPage(r, page)
          PROVE  pairing'[q].device = pairing[q].device
      BY <2>2, <3>4 DEF OpenPage, PairingRows
    <3>. QED
      BY <1>9, <3>1, <3>2, <3>3, <3>4
  <2>. QED
    BY <1>1, <2>1, <2>3
<1>10. CASE UNCHANGED pairingVars
  BY <1>1, <1>10 DEF pairingVars
<1>. QED
  BY <1>3, <1>4, <1>5, <1>6, <1>7, <1>8, <1>9, <1>10 DEF PairingNext

-------------------------------------------------------------------------------
(* Theorems.                                                               *)

\* Nothing has been asked for at the start.
LEMMA PairingInitInv == PairingInit => PairingInv
<1>. SUFFICES ASSUME PairingInit PROVE PairingInv
  OBVIOUS
<1>. USE PairingAssumption DEF PairingInit, NoPairing, NoPoll, NoConfirm
<1>1. PairingTypeOK
  BY IdleTypes, PairingParts
<1>2. ConfirmInv /\ SubsInv /\ TokenInv
  BY DEF ConfirmInv, SubsInv, TokenInv, Holds
<1>3. DeviceInv /\ WaitingPollWillHear
  BY DEF DeviceInv, OneDevicePerPairing, WaitingPollWillHear
<1>. QED
  BY <1>1, <1>2, <1>3 DEF PairingInv

\* The inductive invariant of a pairing.
THEOREM PairingInvariant == PairingSpec => []PairingInv
<1>1. PairingInv /\ [PairingNext]_pairingVars => PairingInv'
  BY PairingTypeStep, PairedStep, SubsStep, TokenStep, WaitStep DEF PairingInv
<1>. QED
  BY <1>1, PairingInitInv, PTL DEF PairingSpec

\* Pairing requests, polls and confirmations keep their types (usecase/pairing.go).
THEOREM PairingTyped == PairingSpec => []PairingTypeOK
<1>1. PairingInv => PairingTypeOK
  BY DEF PairingInv
<1>. QED
  BY <1>1, PairingInvariant, PTL

\* A request makes one device, however often its forms are sent (MarkConfirmedTx in
\* ConfirmWithCSRF, pairing.go).
THEOREM OneDevicePerRequest == PairingSpec => []OneDevicePerPairing
<1>1. PairingInv => OneDevicePerPairing
  BY DEF PairingInv, DeviceInv
<1>. QED
  BY <1>1, PairingInvariant, PTL

\* A poll that subscribes before it reads the row again misses no confirmation, as long as it
\* holds the subscription (PollStatus): one that a later poll displaced waits for its time-out
\* (broadcaster.go:27).
THEOREM ConfirmationsAreHeard == PairingSpec => []WaitingPollWillHear
<1>1. PairingInv => WaitingPollWillHear
  BY DEF PairingInv
<1>. QED
  BY <1>1, PairingInvariant, PTL

\* The token of a device goes to one poll at most, one of its own request (broadcaster.go).
THEOREM TokensAreTakenOnce == PairingSpec => []TokenTakenOnce
<1>1. ASSUME NEW S, \A x, y \in S : x = y PROVE Cardinality(S) <= 1
  <2>1. CASE S = {}
    BY <2>1, FS_EmptySet
  <2>2. CASE S # {}
    <3>1. PICK x : S = {x}
      BY <1>1, <2>2
    <3>. QED
      BY <3>1, FS_Singleton
  <2>. QED
    BY <2>1, <2>2
<1>2. PairingInv => TokenTakenOnce
  <2>. SUFFICES ASSUME PairingInv, NEW c \in Confirms
                PROVE  /\ Cardinality({p \in Polls : Holds(p, c)}) <= 1
                       /\ \A p \in Polls : poll[p].channel = c => poll[p].pair = confirm[c].pair
    BY DEF TokenTakenOnce, Holds
  <2>1. \A p, r \in {x \in Polls : Holds(x, c)} : p = r
    BY DEF PairingInv, TokenInv
  <2>2. Cardinality({p \in Polls : Holds(p, c)}) <= 1
    BY <1>1, <2>1
  <2>. QED
    BY <2>2 DEF PairingInv, TokenInv
<1>. QED
  BY <1>2, PairingInvariant, PTL
===============================================================================
