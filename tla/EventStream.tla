----------------------------- MODULE EventStream -----------------------------
(***************************************************************************)
(* One paired device following the event log: the cold sync                *)
(* (internal/api/sync.go), the event stream (internal/api/events.go) and   *)
(* the broker that wakes its handlers (internal/events/broker.go), while   *)
(* transactions append events, announce them some time after they commit,  *)
(* and the hourly retention deletes old ones.                              *)
(*                                                                         *)
(* The handler of a stream takes one step per database read, channel       *)
(* operation or frame.  A frame written to a connection whose client is    *)
(* gone is lost although the write succeeds.                               *)
(***************************************************************************)
EXTENDS EventLog, FiniteSets

CONSTANTS Streams,          \* handlers of GET /v1/events that may serve the device at once
          PageSize,         \* sseReplayBatchSize
          BufferSize,       \* capacity of a subscriber's channel
          MaxEvents,        \* bound on lastSeq
          MaxDrops,         \* bound on lost connections and restarts of the server
          KeptInUse         \* assume retention never empties the log while it is in use

ASSUME EventStreamAssumption ==
    /\ PageSize \in Nat \ {0}
    /\ BufferSize \in Nat \ {0}
    /\ MaxEvents \in Nat
    /\ MaxDrops \in Nat
    /\ KeptInUse \in BOOLEAN

VARIABLES client,       \* what the device knows, and its Last-Event-ID
          stream,       \* the handlers, each with its subscription and channel
          unsent,       \* events committed but not yet given to the broker
          drops         \* connections lost so far

vars == <<logVars, client, stream, unsent, drops>>

Closed == [pc |-> "closed", peer |-> FALSE, sub |-> FALSE, slow |-> FALSE, buf |-> 0,
           replay |-> FALSE, cursor |-> 0, target |-> 0, page |-> {}, min |-> 0]

TypeOK ==
    /\ LogTypeOK
    /\ client \in [pc : {"cold", "marked", "listed", "synced", "streaming"},
                   known : BOOLEAN, cursor : Nat, mark : Nat, seen : Nat, have : SUBSET Nat]
    /\ stream \in [Streams -> [pc : {"closed", "mark", "page", "min", "max", "write", "wait", "wake"},
                               peer : BOOLEAN, sub : BOOLEAN, slow : BOOLEAN,
                               buf : 0..BufferSize, replay : BOOLEAN, cursor : Nat,
                               target : Nat, page : SUBSET Nat, min : Nat]]
    /\ unsent \in Nat
    /\ drops \in 0..MaxDrops

\* A device is new, or comes without a cursor and wants only what happens from now on.
Init ==
    /\ LogInit
    /\ \E pc \in {"cold", "synced"} :
          client = [pc |-> pc, known |-> FALSE, cursor |-> 0, mark |-> 0, seen |-> 0, have |-> {}]
    /\ stream = [s \in Streams |-> Closed]
    /\ unsent = 0
    /\ drops = 0

-------------------------------------------------------------------------------
(* Writers, broker and retention.                                          *)

\* A business transaction commits one event; it is announced after the commit.
CommitEvent ==
    /\ lastSeq < MaxEvents
    /\ Insert(1)
    /\ unsent' = unsent + 1
    /\ UNCHANGED <<client, stream, drops>>

NotifiedUnbounded(s) == IF s.sub THEN [s EXCEPT !.buf = @ + 1] ELSE s

\* The payload travels with the announcement but the stream only uses the wakeup, so which
\* of the committed events is announced first makes no difference to it.
Notified(s) ==
    IF ~s.sub THEN s
    ELSE IF s.buf < BufferSize THEN [s EXCEPT !.buf = @ + 1]
    ELSE [s EXCEPT !.slow = TRUE]

Notify ==
    /\ unsent > 0
    /\ unsent' = unsent - 1
    /\ stream' = [s \in Streams |-> Notified(stream[s])]
    /\ UNCHANGED <<logVars, client, drops>>

\* After the fan-out a subscriber whose channel was full leaves the index and its channel
\* is closed; what is already in the channel can still be received.
RemoveSlow(s) ==
    /\ stream[s].slow
    /\ stream' = [stream EXCEPT ![s] = [stream[s] EXCEPT !.slow = FALSE, !.sub = FALSE]]
    /\ UNCHANGED <<logVars, client, unsent, drops>>

\* MinSeq and MaxSeq are 0 on an empty table.  So a cursor of 0 stands for "nothing yet" and
\* for "the log was empty", and a log emptied after a page was read hides what the page lacks.
InUse ==
    \/ client.pc \in {"marked", "listed"} /\ client.mark = 0
    \/ client.pc \in {"synced", "streaming"} /\ client.cursor = 0
    \/ \E s \in Streams : stream[s].pc \in {"min", "max"}

Retention(keep) ==
    /\ KeptInUse /\ InUse => keep <= lastSeq
    /\ DeleteOlderThan(keep)
    /\ UNCHANGED <<client, stream, unsent, drops>>

-------------------------------------------------------------------------------
(* Cold sync: the cursor is read first, the collections after it.          *)

SnapshotMark ==
    /\ client.pc = "cold"
    /\ client' = [client EXCEPT !.pc = "marked", !.mark = MaxSeq]
    /\ UNCHANGED <<logVars, stream, unsent, drops>>

\* The projects show the effects of every event committed by now.
SnapshotProjects ==
    /\ client.pc = "marked"
    /\ client' = [client EXCEPT !.pc = "listed", !.seen = lastSeq]
    /\ UNCHANGED <<logVars, stream, unsent, drops>>

\* The open tasks are read later still.  The device replaces its state by the response.
SnapshotTasks ==
    /\ client.pc = "listed"
    /\ client' = [client EXCEPT !.pc = "synced", !.known = TRUE, !.cursor = client.mark,
                                !.have = 1..client.seen, !.mark = 0, !.seen = 0]
    /\ UNCHANGED <<logVars, stream, unsent, drops>>

-------------------------------------------------------------------------------
(* The stream handler.                                                     *)

\* What the handler's return does: the deferred cancel unsubscribes, and a client that is
\* still there sees the end of the stream.
Hangup(s, next) ==
    /\ stream' = [stream EXCEPT ![s] = Closed]
    /\ client' = IF stream[s].peer THEN [client EXCEPT !.pc = next] ELSE client

ZeroIgnored   == client.known /\ client.cursor > 0
ReplayAsked   == client.known

\* The device connects, with its cursor when it has one, and the handler subscribes.
Connect(s) ==
    /\ client.pc = "synced"
    /\ stream[s].pc = "closed"
    /\ client' = [client EXCEPT !.pc = "streaming"]
    /\ stream' = [stream EXCEPT ![s] = [Closed EXCEPT !.pc = "mark", !.peer = TRUE, !.sub = TRUE,
                                                      !.replay = ReplayAsked,
                                                      !.cursor = IF ReplayAsked THEN client.cursor ELSE 0]]
    /\ UNCHANGED <<logVars, unsent, drops>>

\* Without a cursor the stream starts at the mark: the device asked for nothing older.
InitialMark(s) ==
    /\ stream[s].pc = "mark"
    /\ stream' = [stream EXCEPT ![s] = [stream[s] EXCEPT !.target = MaxSeq,
                    !.cursor = IF stream[s].replay THEN @ ELSE MaxSeq,
                    !.pc     = IF stream[s].replay THEN "page" ELSE "wait"]]
    /\ client' = IF stream[s].peer /\ ~client.known THEN [client EXCEPT !.have = 1..lastSeq] ELSE client
    /\ UNCHANGED <<logVars, unsent, drops>>

\* SinceSeq: the first PageSize stored rows after the cursor.
PageAfter(cursor) ==
    {e \in Stored : e > cursor /\ e < PageSize + (IF cursor + 1 > firstSeq THEN cursor + 1 ELSE firstSeq)}

ReadPage(s) ==
    /\ stream[s].pc = "page"
    /\ stream' = [stream EXCEPT ![s] = [stream[s] EXCEPT !.page = PageAfter(stream[s].cursor), !.pc = "min"]]
    /\ UNCHANGED <<logVars, client, unsent, drops>>

ReadMin(s) ==
    /\ stream[s].pc = "min"
    /\ stream' = [stream EXCEPT ![s] = [stream[s] EXCEPT !.min = MinSeq, !.pc = "max"]]
    /\ UNCHANGED <<logVars, client, unsent, drops>>

PastRetentionByOne(s) == stream[s].min > stream[s].cursor + 2
PastRetention(s)      == stream[s].min > stream[s].cursor + 1
MustReset(s)          == stream[s].cursor > MaxSeq \/ PastRetention(s)

\* The device is told to do a cold sync; its cursor no longer means anything.
SendReset(s) ==
    /\ stream[s].pc = "max"
    /\ MustReset(s)
    /\ Hangup(s, "cold")
    /\ UNCHANGED <<logVars, unsent, drops>>

\* The subscription is gone, or the page before the target is empty: no acknowledgement.
AbandonPage(s) ==
    /\ stream[s].pc = "max"
    /\ ~MustReset(s)
    /\ \/ \A other \in Streams : ~stream[other].sub
       \/ stream[s].cursor < stream[s].target /\ stream[s].page = {}
    /\ Hangup(s, "synced")
    /\ UNCHANGED <<logVars, unsent, drops>>

AcceptPage(s) ==
    /\ stream[s].pc = "max"
    /\ ~MustReset(s)
    /\ \E other \in Streams : stream[other].sub
    /\ \/ stream[s].cursor >= stream[s].target
       \/ stream[s].page # {}
    /\ stream' = [stream EXCEPT ![s] = [stream[s] EXCEPT !.min = 0,
                    !.page = IF stream[s].cursor >= stream[s].target THEN {} ELSE @,
                    !.pc   = IF stream[s].cursor >= stream[s].target THEN "wait" ELSE "write"]]
    /\ UNCHANGED <<logVars, client, unsent, drops>>

NextRow(s) == CHOOSE e \in stream[s].page : \A f \in stream[s].page : e <= f

\* Only rows up to the target are written; those above it wait for the next wakeup.
WriteFrame(s) ==
    /\ stream[s].pc = "write"
    /\ stream[s].page # {}
    /\ NextRow(s) <= stream[s].target
    /\ stream' = [stream EXCEPT ![s] = [stream[s] EXCEPT !.cursor = NextRow(s),
                    !.page = IF NextRow(s) = stream[s].target THEN {} ELSE @ \ {NextRow(s)},
                    !.pc   = IF NextRow(s) = stream[s].target THEN "wait" ELSE @]]
    /\ client' = IF stream[s].peer
                 THEN [client EXCEPT !.known = TRUE, !.cursor = NextRow(s), !.have = @ \cup {NextRow(s)}]
                 ELSE client
    /\ UNCHANGED <<logVars, unsent, drops>>

\* The page is exhausted before the target, or its next row lies above it.
EndPage(s) ==
    /\ stream[s].pc = "write"
    /\ \/ stream[s].page = {} /\ stream' = [stream EXCEPT ![s].pc = "page"]
       \/ /\ stream[s].page # {}
          /\ NextRow(s) > stream[s].target
          /\ stream' = [stream EXCEPT ![s] = [stream[s] EXCEPT !.pc = "wait", !.page = {}]]
    /\ UNCHANGED <<logVars, client, unsent, drops>>

IsActive == \E s \in Streams : stream[s].sub

\* The select of the handler: an announcement, the end of the channel, or the ticker.
Wake(s) ==
    /\ stream[s].pc = "wait"
    /\ stream[s].buf > 0
    /\ IF IsActive
       THEN /\ stream' = [stream EXCEPT ![s] = [stream[s] EXCEPT !.buf = @ - 1, !.pc = "wake"]]
            /\ UNCHANGED client
       ELSE Hangup(s, "synced")
    /\ UNCHANGED <<logVars, unsent, drops>>

ChannelNeverCloses(s) == FALSE
ChannelClosed(s)      == ~stream[s].sub

EndOfChannel(s) ==
    /\ stream[s].pc = "wait"
    /\ stream[s].buf = 0
    /\ ChannelClosed(s)
    /\ Hangup(s, "synced")
    /\ UNCHANGED <<logVars, unsent, drops>>

Heartbeat(s) ==
    /\ stream[s].pc = "wait"
    /\ IF IsActive
       THEN stream' = [stream EXCEPT ![s].pc = "wake"] /\ UNCHANGED client
       ELSE Hangup(s, "synced")
    /\ UNCHANGED <<logVars, unsent, drops>>

StaleTarget(s) == stream[s].target
WakeTarget(s)  == MaxSeq

WakeMark(s) ==
    /\ stream[s].pc = "wake"
    /\ IF IsActive
       THEN /\ stream' = [stream EXCEPT ![s] = [stream[s] EXCEPT !.target = WakeTarget(s), !.pc = "page"]]
            /\ UNCHANGED client
       ELSE Hangup(s, "synced")
    /\ UNCHANGED <<logVars, unsent, drops>>

-------------------------------------------------------------------------------
(* Failures.                                                               *)

\* The network or the device drops the connection; the handler does not know yet.
ClientDrop(s) ==
    /\ drops < MaxDrops
    /\ stream[s].peer
    /\ stream' = [stream EXCEPT ![s].peer = FALSE]
    /\ client' = [client EXCEPT !.pc = "synced"]
    /\ drops' = drops + 1
    /\ UNCHANGED <<logVars, unsent>>

\* The request's context is cancelled, or a write fails: the handler returns.
HandlerCancelled(s) ==
    /\ stream[s].pc # "closed"
    /\ ~stream[s].peer
    /\ stream' = [stream EXCEPT ![s] = Closed]
    /\ UNCHANGED <<logVars, client, unsent, drops>>

\* A restart of the server ends every handler and forgets what was not announced.
Restart ==
    /\ drops < MaxDrops
    /\ stream' = [s \in Streams |-> Closed]
    /\ client' = [client EXCEPT !.pc = IF @ = "streaming" THEN "synced"
                                       ELSE IF @ \in {"marked", "listed"} THEN "cold" ELSE @,
                                !.mark = 0, !.seen = 0]
    /\ unsent' = 0
    /\ drops' = drops + 1
    /\ UNCHANGED logVars

-------------------------------------------------------------------------------
SnapshotStep == SnapshotMark \/ SnapshotProjects \/ SnapshotTasks

\* What a handler does by itself, the ticker aside.
HandlerStep(s) ==
    \/ InitialMark(s)
    \/ ReadPage(s) \/ ReadMin(s)
    \/ SendReset(s) \/ AbandonPage(s) \/ AcceptPage(s)
    \/ WriteFrame(s) \/ EndPage(s)
    \/ Wake(s) \/ EndOfChannel(s) \/ WakeMark(s)

Next ==
    \/ CommitEvent
    \/ Notify
    \/ \E keep \in firstSeq + 1 .. lastSeq + 1 : Retention(keep)
    \/ SnapshotStep
    \/ \E s \in Streams : \/ RemoveSlow(s) \/ Connect(s) \/ HandlerStep(s)
                          \/ Heartbeat(s) \/ ClientDrop(s) \/ HandlerCancelled(s)
    \/ Restart

Spec == Init /\ [][Next]_vars

\* The transaction's goroutine goes on to announce what it committed, handlers run, and a
\* device that has lost its stream keeps trying.  Nothing is assumed of the ticker: the
\* broker alone has to wake the streams.
FairSpec ==
    /\ Spec
    /\ WF_vars(Notify)
    /\ WF_vars(SnapshotStep)
    /\ WF_vars(\E s \in Streams : Connect(s))
    /\ \A s \in Streams : WF_vars(HandlerStep(s)) /\ WF_vars(RemoveSlow(s)) /\ WF_vars(HandlerCancelled(s))

-------------------------------------------------------------------------------
(* Correctness.                                                            *)

\* A device whose cursor is n has seen the effect of every event up to n, by a snapshot or
\* by a frame: no retention between a page and its bounds, no second stream and no reset
\* lets the cursor jump over an event ("validating retention bounds before every page is
\* written", README.md:135).
GapFree == client.known => 1..client.cursor \subseteq client.have

\* No lost wakeup: a stream that waits with nothing in its channel, while nothing is left to
\* announce, has brought its device up to date (events.go:39-40, subscribe before the mark).
SettledIsCurrent ==
    \A s \in Streams :
        stream[s].pc = "wait" /\ stream[s].peer /\ stream[s].sub /\ stream[s].buf = 0 /\ unsent = 0
            => 1..lastSeq \subseteq client.have

\* Every committed event reaches the device, whichever way it had to reconnect.
EventReached == \A e \in 1..MaxEvents : e <= lastSeq ~> e \in client.have
===============================================================================
