----------------------------- MODULE RelayInstances -----------------------------
(***************************************************************************)
(* The instances the push relay serves: the table instances, the secrets   *)
(* in memory (internal/relay/loader.go), the synchronisation of both with  *)
(* the configuration file at start-up and on SIGHUP, and the signature     *)
(* check in front of every request.  The table is only ever referred to by *)
(* registrations; who may speak is decided by the secrets in memory.       *)
(***************************************************************************)
EXTENDS Naturals, Sequences, FiniteSets

CONSTANTS Instances, Secrets,
          NoSecret,             \* an empty secret, or none in memory
          Calls,
          MaxInstances            \* bound on the [[instances]] of a configuration file

ASSUME RelayInstancesAssumption ==
    Instances # {} /\ NoSecret \notin Secrets /\ MaxInstances \in Nat

VARIABLES row,          \* table instances
          secrets,      \* Loader.secrets
          daemon,       \* what the relay does with a configuration file
          call, registered

instancesVars == <<row, secrets, daemon, call, registered>>

InstanceSpec == [id : Instances, secret : Secrets \cup {NoSecret}]
Lists == UNION {[1..n -> InstanceSpec] : n \in 0..MaxInstances}
Listed(list) == {list[k].id : k \in DOMAIN list}

NoSecrets == [i \in Instances |-> NoSecret]
NoCall == [pc |-> "idle", id |-> CHOOSE i \in Instances : TRUE, signed |-> NoSecret, known |-> NoSecret]

InstancesTypeOK ==
    /\ row \in [Instances -> {"absent", "active", "disabled"}]
    /\ secrets \in [Instances -> Secrets \cup {NoSecret}]
    /\ daemon \in [pc : {"down", "starting", "started", "up", "reloading", "synced"}, list : Lists]
    /\ call \in [Calls -> [pc : {"idle", "arrived", "body", "admitted"},
                                 id : Instances,
                                 signed : Secrets \cup {NoSecret}, known : Secrets \cup {NoSecret}]]
    /\ registered \in SUBSET Instances

InstancesInit ==
    /\ row = [i \in Instances |-> "absent"]
    /\ secrets = NoSecrets
    /\ daemon = [pc |-> "down", list |-> <<>>]
    /\ call = [r \in Calls |-> NoCall]
    /\ registered = {}

-------------------------------------------------------------------------------
(* The daemon.                                                             *)

\* Start-up and SIGHUP read the file; one that does not load is not used.
LoadRelayConfig ==
    /\ \E list \in Lists :
          \/ daemon.pc = "down" /\ daemon' = [pc |-> "starting", list |-> list]
          \/ daemon.pc = "up" /\ daemon' = [pc |-> "reloading", list |-> list]
    /\ UNCHANGED <<row, secrets, call, registered>>

\* What is listed becomes active again, the rest is disabled; rows are never deleted.
Synced(list) ==
    [i \in Instances |-> IF i \in Listed(list) THEN "active"
                         ELSE IF row[i] = "active" THEN "disabled" ELSE row[i]]

SyncInstances ==
    /\ daemon.pc \in {"starting", "reloading"}
    /\ row' = Synced(daemon.list)
    /\ daemon' = [daemon EXCEPT !.pc = IF @ = "starting" THEN "started" ELSE "synced"]
    /\ UNCHANGED <<secrets, call, registered>>

\* The transaction is rolled back: start-up gives up, a reload keeps the secrets it had.
SyncFails ==
    /\ daemon.pc \in {"starting", "reloading"}
    /\ daemon' = [pc |-> IF daemon.pc = "starting" THEN "down" ELSE "up", list |-> <<>>]
    /\ UNCHANGED <<row, secrets, call, registered>>

\* Of the entries with one id the last counts, entries without a secret apart.
Secret(list, i) ==
    LET given == {k \in DOMAIN list : list[k].id = i /\ list[k].secret # NoSecret}
    IN  IF given = {} THEN NoSecret ELSE list[CHOOSE k \in given : \A l \in given : l <= k].secret

LoadBeforeSync ==
    /\ daemon.pc \in {"starting", "started", "reloading", "synced"}
    /\ secrets' = [i \in Instances |-> Secret(daemon.list, i)]
    /\ daemon' = IF daemon.pc \in {"started", "synced"} THEN [pc |-> "up", list |-> <<>>] ELSE daemon
    /\ UNCHANGED <<row, call, registered>>

\* NewInstanceLoader at start-up, Swap after a reload.
LoadSecrets ==
    /\ daemon.pc \in {"started", "synced"}
    /\ secrets' = [i \in Instances |-> Secret(daemon.list, i)]
    /\ daemon' = [pc |-> "up", list |-> <<>>]
    /\ UNCHANGED <<row, call, registered>>

RelayStops ==
    /\ daemon.pc # "down"
    /\ daemon' = [pc |-> "down", list |-> <<>>]
    /\ secrets' = NoSecrets
    /\ call' = [r \in Calls |-> NoCall]
    /\ UNCHANGED <<row, registered>>

-------------------------------------------------------------------------------
(* A request that registers a device.                                      *)

Serving == daemon.pc \in {"up", "reloading", "synced"}

CallArrives(r) ==
    /\ Serving
    /\ call[r].pc = "idle"
    /\ \E i \in Instances, s \in Secrets :
          call' = [call EXCEPT ![r] = [pc |-> "arrived", id |-> i, signed |-> s, known |-> NoSecret]]
    /\ UNCHANGED <<row, secrets, daemon, registered>>

\* The secret is read before the body: the comparison uses the one read here.  An instance
\* without a secret in memory is refused.
LookUpSecret(r) ==
    /\ call[r].pc = "arrived"
    /\ call' = IF secrets[call[r].id] = NoSecret THEN [call EXCEPT ![r] = NoCall]
                  ELSE [call EXCEPT ![r] = [@ EXCEPT !.pc = "body", !.known = secrets[call[r].id]]]
    /\ UNCHANGED <<row, secrets, daemon, registered>>

\* The body has been read, or not; the signature covers it.
VerifySignature(r) ==
    /\ call[r].pc = "body"
    /\ \/ /\ call[r].known = call[r].signed
          /\ call' = [call EXCEPT ![r].pc = "admitted"]
       \/ call' = [call EXCEPT ![r] = NoCall]
    /\ UNCHANGED <<row, secrets, daemon, registered>>

\* The registration refers to the row of its instance, which the foreign key demands.
PutRegistration(r) ==
    /\ call[r].pc = "admitted"
    /\ registered' = IF row[call[r].id] = "absent" THEN registered ELSE registered \cup {call[r].id}
    /\ call' = [call EXCEPT ![r] = NoCall]
    /\ UNCHANGED <<row, secrets, daemon>>

InstancesNext ==
    \/ LoadRelayConfig \/ SyncInstances \/ SyncFails \/ LoadSecrets \/ RelayStops
    \/ \E r \in Calls : CallArrives(r) \/ LookUpSecret(r) \/ VerifySignature(r) \/ PutRegistration(r)

InstancesSpec == InstancesInit /\ [][InstancesNext]_instancesVars

-------------------------------------------------------------------------------
(* Correctness.                                                            *)

\* Outside a synchronisation, an instance that may speak has an active row, whichever
\* reloads failed or were cut off by a restart (main.go:106-123); and a request that has been
\* let in finds the row of its instance, which may have been removed since, so that the
\* foreign key refuses no registration.
InstancesHaveRows ==
    /\ daemon.pc \in {"up", "reloading"} => \A i \in Instances : secrets[i] # NoSecret => row[i] = "active"
    /\ \A r \in Calls : call[r].pc = "admitted" => row[call[r].id] # "absent"
===============================================================================
