---------------------------- MODULE EventStreamProofs ----------------------------
(***************************************************************************)
(* Proofs about EventStream: under the assumption that retention does not  *)
(* empty a log in use, no cursor passes an event its device has not seen   *)
(* and no announcement is lost, for any number of handlers, any page and   *)
(* any channel.                                                            *)
(***************************************************************************)
EXTENDS EventStream, TLAPS

ClientStates == [pc : {"cold", "marked", "listed", "synced", "streaming"},
                 known : BOOLEAN, cursor : Nat, mark : Nat, seen : Nat, have : SUBSET Nat]
StreamStates == [pc : {"closed", "mark", "page", "min", "max", "write", "wait", "wake"},
                 peer : BOOLEAN, sub : BOOLEAN, slow : BOOLEAN, buf : 0..BufferSize,
                 replay : BOOLEAN, cursor : Nat, target : Nat, page : SUBSET Nat, min : Nat]

EmptyLog == firstSeq = lastSeq + 1

\* A page has every number after the cursor that is not below `least`, up to its own last.
Reaches(page, cursor, least) ==
    \A e \in page : e > cursor /\ \A k \in Nat : cursor < k /\ least <= k /\ k <= e => k \in page

\* The page lacks nothing but what retention had deleted, and once its bounds are accepted it
\* lacks nothing at all.
PageInv(s) ==
    /\ stream[s].pc = "min" => /\ Reaches(stream[s].page, stream[s].cursor, firstSeq)
                               /\ stream[s].page # {} => firstSeq <= lastSeq
    /\ stream[s].pc = "max" => Reaches(stream[s].page, stream[s].cursor, stream[s].min)
    /\ stream[s].pc = "write" => /\ Reaches(stream[s].page, stream[s].cursor, 0)
                                 /\ stream[s].target > 0

\* The handler a device listens to knows the device's cursor, and its own cursor is covered.
PeerInv(s) ==
    stream[s].peer =>
        /\ client.pc = "streaming" /\ stream[s].pc # "closed"
        /\ stream[s].replay => client.known
        /\ client.known => stream[s].cursor = client.cursor
        /\ stream[s].pc = "mark" => (client.known => stream[s].replay)
        /\ stream[s].pc # "mark" => 1 .. stream[s].cursor \subseteq client.have

OnePeer == \A s, t \in Streams : stream[s].peer /\ stream[t].peer => s = t

\* A cold sync lists what it marked.
SnapshotInv ==
    /\ client.pc \in {"marked", "listed"} => client.mark <= lastSeq
    /\ client.pc = "listed" => client.mark <= client.seen

FeedInv ==
    /\ TypeOK /\ OnePeer /\ SnapshotInv /\ GapFree
    /\ \A s \in Streams : PageInv(s) /\ PeerInv(s)

-------------------------------------------------------------------------------
(* Types.                                                                  *)

\* The numbers of the log.
LEMMA LogNumbers ==
    ASSUME LogTypeOK
    PROVE  /\ firstSeq \in Nat /\ lastSeq \in Nat /\ firstSeq >= 1 /\ firstSeq <= lastSeq + 1
           /\ MaxSeq \in Nat /\ MinSeq \in Nat /\ MaxSeq <= lastSeq
           /\ EmptyLog => MaxSeq = 0 /\ MinSeq = 0
           /\ ~EmptyLog => MaxSeq = lastSeq /\ MinSeq = firstSeq /\ firstSeq <= lastSeq
BY DEF LogTypeOK, MaxSeq, MinSeq, EmptyLog

\* The parts of the types, by name.
LEMMA TypeParts ==
    TypeOK <=> /\ LogTypeOK /\ client \in ClientStates /\ stream \in [Streams -> StreamStates]
               /\ unsent \in Nat /\ drops \in 0..MaxDrops
BY DEF TypeOK, ClientStates, StreamStates

\* A handler that is not running is well typed.
LEMMA ClosedType == Closed \in StreamStates
BY EventStreamAssumption DEF Closed, StreamStates

\* The page that is read is a set of numbers.
LEMMA PageType == ASSUME LogTypeOK, NEW c \in Nat PROVE PageAfter(c) \in SUBSET Nat
BY DEF PageAfter, Stored, LogTypeOK

\* The next row of a page that lacks nothing is the one after the cursor.
LEMMA NextRowIs ==
    ASSUME NEW s \in Streams, stream[s].page \in SUBSET Nat, stream[s].cursor \in Nat,
           stream[s].page # {}, Reaches(stream[s].page, stream[s].cursor, 0)
    PROVE  NextRow(s) = stream[s].cursor + 1 /\ NextRow(s) \in stream[s].page
<1>1. stream[s].cursor + 1 \in stream[s].page
  BY DEF Reaches
<1>2. \A e \in stream[s].page : stream[s].cursor + 1 <= e
  BY DEF Reaches
<1>3. \A e \in stream[s].page :
         (\A f \in stream[s].page : e <= f) => e = stream[s].cursor + 1
  BY <1>1, <1>2
<1>. QED
  BY <1>1, <1>2, <1>3 DEF NextRow

\* What reading, accepting and ending a page leaves of the handler's record.
LEMMA PageFields ==
    ASSUME stream \in [Streams -> StreamStates], NEW s \in Streams,
           ReadPage(s) \/ ReadMin(s) \/ AcceptPage(s) \/ EndPage(s)
    PROVE  /\ \A t \in Streams \ {s} : stream'[t] = stream[t]
           /\ stream'[s].peer = stream[s].peer /\ stream'[s].sub = stream[s].sub
           /\ stream'[s].buf = stream[s].buf /\ stream'[s].replay = stream[s].replay
           /\ stream'[s].cursor = stream[s].cursor /\ stream'[s].target = stream[s].target
           /\ stream[s].pc \in {"page", "min", "max", "write"}
           /\ stream'[s].pc \in {"page", "min", "max", "write", "wait"}
<1>1. CASE ReadPage(s)
  BY <1>1 DEF ReadPage, StreamStates
<1>2. CASE ReadMin(s)
  BY <1>2 DEF ReadMin, StreamStates
<1>3. CASE AcceptPage(s)
  BY <1>3 DEF AcceptPage, StreamStates
<1>4. CASE EndPage(s)
  <2>1. CASE stream' = [stream EXCEPT ![s].pc = "page"]
    BY <1>4, <2>1 DEF EndPage, StreamStates
  <2>2. CASE stream' = [stream EXCEPT ![s] = [stream[s] EXCEPT !.pc = "wait", !.page = {}]]
    BY <1>4, <2>2 DEF EndPage, StreamStates
  <2>. QED
    BY <1>4, <2>1, <2>2 DEF EndPage
<1>. QED
  BY <1>1, <1>2, <1>3, <1>4

\* What a wakeup leaves of it.
LEMMA WakeFields ==
    ASSUME stream \in [Streams -> StreamStates], NEW s \in Streams, IsActive,
           Wake(s) \/ Heartbeat(s) \/ WakeMark(s)
    PROVE  /\ \A t \in Streams \ {s} : stream'[t] = stream[t]
           /\ stream'[s].peer = stream[s].peer /\ stream'[s].replay = stream[s].replay
           /\ stream'[s].cursor = stream[s].cursor /\ stream[s].pc \in {"wait", "wake"}
           /\ stream'[s].pc \in {"wake", "page"}
<1>1. CASE Wake(s)
  BY <1>1 DEF Wake, StreamStates
<1>2. CASE Heartbeat(s)
  BY <1>2 DEF Heartbeat, StreamStates
<1>3. CASE WakeMark(s)
  BY <1>3 DEF WakeMark, StreamStates
<1>. QED
  BY <1>1, <1>2, <1>3

\* What a handler's step does to the types: its own record and the device's are well typed.
LEMMA HandlerType ==
    ASSUME TypeOK, NEW s \in Streams, PageInv(s), HandlerStep(s) \/ Heartbeat(s) PROVE TypeOK'
<1>. USE TypeParts, LogNumbers, ClosedType DEF logVars
<1>0. /\ stream[s] \in StreamStates /\ 0 \in 0..BufferSize
      /\ client \in ClientStates /\ stream \in [Streams -> StreamStates]
  BY EventStreamAssumption
<1>00. ASSUME stream' \in [Streams -> StreamStates], client' \in ClientStates,
              UNCHANGED <<firstSeq, lastSeq, unsent, drops>>
       PROVE  TypeOK'
  BY <1>00 DEF TypeOK, LogTypeOK, ClientStates, StreamStates
<1>1. CASE InitialMark(s)
  <2>1. stream' \in [Streams -> StreamStates]
    BY <1>0, <1>1 DEF InitialMark, StreamStates
  <2>2. client' \in ClientStates
    BY <1>1 DEF InitialMark, ClientStates
  <2>. QED
    BY <1>0, <1>00, <1>1, <2>1, <2>2 DEF InitialMark
<1>2. CASE ReadPage(s)
  <2>1. PageAfter(stream[s].cursor) \in SUBSET Nat
    BY <1>0, PageType DEF StreamStates
  <2>2. stream' \in [Streams -> StreamStates]
    BY <1>0, <1>2, <2>1 DEF ReadPage, StreamStates
  <2>. QED
    BY <1>0, <1>00, <1>2, <2>2 DEF ReadPage
<1>3. CASE ReadMin(s)
  <2>1. stream' \in [Streams -> StreamStates]
    BY <1>0, <1>3 DEF ReadMin, StreamStates
  <2>. QED
    BY <1>0, <1>00, <1>3, <2>1 DEF ReadMin
<1>4. ASSUME NEW next \in {"cold", "synced"}, Hangup(s, next), UNCHANGED <<logVars, unsent, drops>>
      PROVE  TypeOK'
  <2>1. stream' \in [Streams -> StreamStates] /\ client' \in ClientStates
    BY <1>4 DEF Hangup, ClientStates
  <2>. QED
    BY <1>00, <1>4, <2>1
<1>5. CASE SendReset(s) \/ AbandonPage(s) \/ EndOfChannel(s)
  BY <1>4, <1>5 DEF SendReset, AbandonPage, EndOfChannel
<1>6. CASE AcceptPage(s)
  <2>1. stream' \in [Streams -> StreamStates]
    BY <1>0, <1>6 DEF AcceptPage, StreamStates
  <2>. QED
    BY <1>0, <1>00, <1>6, <2>1 DEF AcceptPage
<1>7. CASE EndPage(s)
  <2>1. CASE stream' = [stream EXCEPT ![s].pc = "page"]
    BY <1>0, <1>00, <1>7, <2>1 DEF EndPage, StreamStates
  <2>2. CASE stream' = [stream EXCEPT ![s] = [stream[s] EXCEPT !.pc = "wait", !.page = {}]]
    <3>1. {} \in SUBSET Nat
      OBVIOUS
    <3>2. [stream[s] EXCEPT !.pc = "wait", !.page = {}] \in StreamStates
      BY <1>0, <3>1 DEF StreamStates
    <3>. QED
      BY <1>0, <1>00, <1>7, <2>2, <3>2 DEF EndPage
  <2>. QED
    BY <1>7, <2>1, <2>2 DEF EndPage
<1>8. CASE Wake(s) /\ IsActive
  <2>1. stream[s].buf - 1 \in 0..BufferSize
    BY <1>0, <1>8, EventStreamAssumption DEF Wake, StreamStates
  <2>2. [stream[s] EXCEPT !.buf = stream[s].buf - 1, !.pc = "wake"] \in StreamStates
    BY <1>0, <2>1 DEF StreamStates
  <2>3. stream' = [stream EXCEPT ![s] = [stream[s] EXCEPT !.buf = stream[s].buf - 1, !.pc = "wake"]]
    BY <1>8 DEF Wake
  <2>. QED
    BY <1>0, <1>00, <1>8, <2>2, <2>3 DEF Wake
<1>9. CASE Heartbeat(s) /\ IsActive
  <2>1. stream' \in [Streams -> StreamStates]
    BY <1>0, <1>9 DEF Heartbeat, StreamStates
  <2>. QED
    BY <1>0, <1>00, <1>9, <2>1 DEF Heartbeat
<1>10. CASE WakeMark(s) /\ IsActive
  <2>1. [stream[s] EXCEPT !.target = MaxSeq, !.pc = "page"] \in StreamStates
    BY <1>0 DEF StreamStates
  <2>. QED
    BY <1>0, <1>00, <1>10, <2>1 DEF WakeMark, WakeTarget
<1>11. CASE ~IsActive /\ (Wake(s) \/ Heartbeat(s) \/ WakeMark(s))
  BY <1>4, <1>11 DEF Wake, Heartbeat, WakeMark
<1>12. ASSUME WriteFrame(s), NextRow(s) \in Nat PROVE TypeOK'
  <2>1. stream' \in [Streams -> StreamStates]
    BY <1>0, <1>12 DEF WriteFrame, StreamStates
  <2>2. client' \in ClientStates
    BY <1>12 DEF WriteFrame, ClientStates
  <2>. QED
    BY <1>0, <1>00, <1>12, <2>1, <2>2 DEF WriteFrame
<1>13. ASSUME WriteFrame(s) PROVE NextRow(s) \in Nat
  BY <1>0, <1>13, NextRowIs DEF WriteFrame, PageInv, StreamStates
<1>. QED
  BY <1>1, <1>2, <1>3, <1>5, <1>6, <1>7, <1>8, <1>9, <1>10, <1>11, <1>12, <1>13 DEF HandlerStep

\* The other steps keep the types.
LEMMA OtherType ==
    ASSUME TypeOK,
           \/ CommitEvent \/ Notify \/ Restart \/ SnapshotStep
           \/ \E keep \in firstSeq + 1 .. lastSeq + 1 : Retention(keep)
           \/ \E s \in Streams : \/ RemoveSlow(s) \/ Connect(s) \/ ClientDrop(s)
                                 \/ HandlerCancelled(s)
    PROVE  TypeOK'
<1>. USE TypeParts, LogNumbers, ClosedType DEF logVars
<1>0. /\ LogTypeOK /\ unsent \in Nat /\ drops \in 0..MaxDrops
      /\ client \in ClientStates /\ stream \in [Streams -> StreamStates]
      /\ \A s \in Streams : stream[s] \in StreamStates
  OBVIOUS
<1>00. ASSUME stream' \in [Streams -> StreamStates], client' \in ClientStates, LogTypeOK',
              unsent' \in Nat, drops' \in 0..MaxDrops
       PROVE  TypeOK'
  BY <1>00 DEF TypeOK, ClientStates, StreamStates
<1>000. UNCHANGED <<firstSeq, lastSeq>> => LogTypeOK'
  BY DEF LogTypeOK
<1>1. CASE CommitEvent
  <2>1. LogTypeOK' /\ unsent' \in Nat
    BY <1>0, <1>1 DEF CommitEvent, Insert, LogTypeOK
  <2>. QED
    BY <1>0, <1>00, <1>1, <2>1 DEF CommitEvent
<1>2. CASE Notify
  <2>1. \A s \in Streams : Notified(stream[s]) \in StreamStates
    <3>. SUFFICES ASSUME NEW s \in Streams PROVE Notified(stream[s]) \in StreamStates
      OBVIOUS
    <3>1. stream[s].buf < BufferSize => stream[s].buf + 1 \in 0..BufferSize
      BY <1>0, EventStreamAssumption DEF StreamStates
    <3>. QED
      BY <1>0, <3>1 DEF Notified, StreamStates
  <2>2. stream' \in [Streams -> StreamStates] /\ unsent' \in Nat
    BY <1>0, <1>2, <2>1 DEF Notify
  <2>. QED
    BY <1>0, <1>00, <1>000, <1>2, <2>2 DEF Notify
<1>3. CASE Restart
  <2>1. client' \in ClientStates
    BY <1>0, <1>3 DEF Restart, ClientStates
  <2>2. stream' \in [Streams -> StreamStates] /\ drops' \in 0..MaxDrops
    BY <1>0, <1>3, EventStreamAssumption DEF Restart
  <2>. QED
    BY <1>00, <1>000, <1>3, <2>1, <2>2 DEF Restart
<1>4. CASE SnapshotStep
  <2>1. client' \in ClientStates
    <3>1. CASE SnapshotMark
      BY <1>0, <3>1 DEF SnapshotMark, ClientStates
    <3>2. CASE SnapshotProjects
      BY <1>0, <3>2 DEF SnapshotProjects, ClientStates, LogTypeOK
    <3>3. CASE SnapshotTasks
      <4>1. 1 .. client.seen \in SUBSET Nat /\ client.mark \in Nat
        BY <1>0 DEF ClientStates
      <4>. QED
        BY <1>0, <3>3, <4>1 DEF SnapshotTasks, ClientStates
    <3>. QED
      BY <1>4, <3>1, <3>2, <3>3 DEF SnapshotStep
  <2>. QED
    BY <1>0, <1>00, <1>000, <1>4, <2>1
       DEF SnapshotStep, SnapshotMark, SnapshotProjects, SnapshotTasks
<1>5. ASSUME NEW keep \in firstSeq + 1 .. lastSeq + 1, Retention(keep) PROVE TypeOK'
  <2>1. LogTypeOK'
    BY <1>0, <1>5 DEF Retention, DeleteOlderThan, LogTypeOK
  <2>. QED
    BY <1>0, <1>00, <1>5, <2>1 DEF Retention
<1>6. ASSUME NEW s \in Streams, RemoveSlow(s) PROVE TypeOK'
  <2>1. stream' \in [Streams -> StreamStates]
    <3>1. [stream[s] EXCEPT !.slow = FALSE, !.sub = FALSE] \in StreamStates
      BY <1>0 DEF StreamStates
    <3>. QED
      BY <1>0, <1>6, <3>1 DEF RemoveSlow
  <2>. QED
    BY <1>0, <1>00, <1>000, <1>6, <2>1 DEF RemoveSlow
<1>7. ASSUME NEW s \in Streams, Connect(s) PROVE TypeOK'
  <2>1. client' \in ClientStates
    BY <1>0, <1>7 DEF Connect, ClientStates
  <2>2. stream' \in [Streams -> StreamStates]
    BY <1>0, <1>7 DEF Connect, ReplayAsked, ClientStates, StreamStates
  <2>. QED
    BY <1>0, <1>00, <1>000, <1>7, <2>1, <2>2 DEF Connect
<1>8. ASSUME NEW s \in Streams, ClientDrop(s) PROVE TypeOK'
  <2>1. client' \in ClientStates
    BY <1>0, <1>8 DEF ClientDrop, ClientStates
  <2>2. stream' \in [Streams -> StreamStates] /\ drops' \in 0..MaxDrops
    <3>1. [stream[s] EXCEPT !.peer = FALSE] \in StreamStates
      BY <1>0 DEF StreamStates
    <3>2. drops + 1 \in 0..MaxDrops
      BY <1>0, <1>8, EventStreamAssumption DEF ClientDrop
    <3>. QED
      BY <1>0, <1>8, <3>1, <3>2 DEF ClientDrop
  <2>. QED
    BY <1>0, <1>00, <1>000, <1>8, <2>1, <2>2 DEF ClientDrop
<1>9. ASSUME NEW s \in Streams, HandlerCancelled(s) PROVE TypeOK'
  BY <1>0, <1>00, <1>000, <1>9 DEF HandlerCancelled
<1>. QED
  BY <1>1, <1>2, <1>3, <1>4, <1>5, <1>6, <1>7, <1>8, <1>9

\* Every step keeps the types.
LEMMA TypeStep == FeedInv /\ [Next]_vars => TypeOK'
<1>1. TypeOK /\ UNCHANGED vars => TypeOK'
  BY DEF vars, logVars, TypeOK, LogTypeOK
<1>. QED
  BY <1>1, HandlerType, OtherType DEF Next, FeedInv

-------------------------------------------------------------------------------
(* No gap under a cursor.                                                  *)

\* A step of one handler concerns no other: if it changes what the device knows, the device
\* listens to this handler and to no other.
LEMMA OneHandler ==
    ASSUME FeedInv, TypeOK', NEW s \in Streams, UNCHANGED <<firstSeq, lastSeq>>,
           \A t \in Streams \ {s} : stream'[t] = stream[t],
           UNCHANGED client \/ stream[s].peer,
           stream'[s].peer => stream[s].peer,
           PageInv(s)', PeerInv(s)', SnapshotInv', GapFree'
    PROVE  FeedInv'
<1>1. OnePeer'
  BY DEF FeedInv, OnePeer
<1>2. ASSUME NEW t \in Streams \ {s} PROVE PageInv(t)' /\ PeerInv(t)'
  <2>1. PageInv(t) /\ PeerInv(t) /\ stream'[t] = stream[t]
    BY DEF FeedInv
  <2>2. stream[t].peer => UNCHANGED client
    BY DEF FeedInv, OnePeer
  <2>. QED
    BY <2>1, <2>2 DEF PageInv, PeerInv
<1>. QED
  BY <1>1, <1>2 DEF FeedInv

\* What a handler's step leaves of a record, whatever it sets.
LEMMA HangupFeed ==
    ASSUME FeedInv, TypeOK', NEW s \in Streams, UNCHANGED logVars,
           NEW next \in {"cold", "synced"}, Hangup(s, next)
    PROVE  FeedInv'
<1>. USE TypeParts DEF logVars, FeedInv
<1>1. stream'[s] = Closed /\ \A t \in Streams \ {s} : stream'[t] = stream[t]
  BY DEF Hangup
<1>2. /\ UNCHANGED client \/ stream[s].peer
      /\ client'.known = client.known /\ client'.cursor = client.cursor
      /\ client'.have = client.have /\ (client' = client \/ client'.pc \in {"cold", "synced"})
  BY DEF Hangup, ClientStates
<1>3. PageInv(s)' /\ PeerInv(s)'
  BY <1>1 DEF PageInv, PeerInv, Closed
<1>4. SnapshotInv' /\ GapFree'
  BY <1>2 DEF SnapshotInv, GapFree
<1>. QED
  BY <1>1, <1>2, <1>3, <1>4, OneHandler DEF Closed

\* Steps that read and decide: no cursor moves.
LEMMA ReadFeed ==
    ASSUME FeedInv, TypeOK', NEW s \in Streams,
           ReadPage(s) \/ ReadMin(s) \/ AcceptPage(s) \/ EndPage(s)
    PROVE  FeedInv'
<1>. USE TypeParts DEF logVars, FeedInv
<1>0. /\ stream[s] \in StreamStates /\ client \in ClientStates /\ PageInv(s) /\ PeerInv(s)
      /\ LogTypeOK
  OBVIOUS
<1>1. /\ UNCHANGED <<firstSeq, lastSeq, client>>
      /\ \A t \in Streams \ {s} : stream'[t] = stream[t]
  BY DEF ReadPage, ReadMin, AcceptPage, EndPage
<1>2. /\ stream'[s].peer = stream[s].peer /\ stream'[s].replay = stream[s].replay
      /\ stream'[s].cursor = stream[s].cursor /\ stream'[s].target = stream[s].target
      /\ stream'[s].pc \in {"page", "min", "max", "write", "wait"} /\ stream[s].pc # "mark"
  BY PageFields
<1>3. PeerInv(s)'
  BY <1>0, <1>1, <1>2 DEF PeerInv
<1>4. PageInv(s)'
  <2>1. CASE ReadPage(s)
    <3>1. stream'[s].pc = "min" /\ stream'[s].page = PageAfter(stream[s].cursor)
      BY <1>0, <2>1 DEF ReadPage, StreamStates
    <3>2. stream[s].cursor \in Nat /\ PageSize \in Nat
      BY <1>0, EventStreamAssumption DEF StreamStates
    <3>3. Reaches(PageAfter(stream[s].cursor), stream[s].cursor, firstSeq)
      BY <3>2, <1>0 DEF Reaches, PageAfter, Stored, LogTypeOK
    <3>4. PageAfter(stream[s].cursor) # {} => firstSeq <= lastSeq
      BY <1>0 DEF PageAfter, Stored, LogTypeOK
    <3>. QED
      BY <1>1, <1>2, <3>1, <3>3, <3>4 DEF PageInv, Reaches
  <2>2. CASE ReadMin(s)
    <3>1. stream[s].pc = "min" /\ stream'[s].pc = "max" /\ stream'[s].page = stream[s].page
          /\ stream'[s].min = MinSeq
      BY <1>0, <2>2 DEF ReadMin, StreamStates
    <3>2. stream[s].page # {} => MinSeq = firstSeq
      BY <1>0, <3>1, LogNumbers DEF PageInv, MinSeq, LogTypeOK
    <3>. QED
      BY <1>0, <1>2, <3>1, <3>2 DEF PageInv, Reaches
  <2>3. CASE AcceptPage(s)
    <3>1. stream[s].pc = "max" /\ stream[s].min <= stream[s].cursor + 1
      BY <1>0, <2>3 DEF AcceptPage, MustReset, PastRetention, StreamStates
    <3>2. stream[s].min \in Nat /\ stream[s].cursor \in Nat /\ stream[s].target \in Nat
          /\ stream[s].page \in SUBSET Nat
      BY <1>0 DEF StreamStates
    <3>3. Reaches(stream[s].page, stream[s].cursor, 0)
      BY <1>0, <3>1, <3>2 DEF PageInv, Reaches
    <3>4. \/ stream'[s].pc = "wait"
          \/ /\ stream'[s].pc = "write" /\ stream'[s].page = stream[s].page
             /\ stream[s].cursor < stream[s].target
      BY <1>0, <2>3, <3>2 DEF AcceptPage, StreamStates
    <3>. QED
      BY <1>2, <3>2, <3>3, <3>4 DEF PageInv
  <2>4. CASE EndPage(s)
    <3>1. stream'[s].pc \in {"page", "wait"}
      BY <1>0, <2>4 DEF EndPage, StreamStates
    <3>. QED
      BY <3>1 DEF PageInv
  <2>. QED
    BY <2>1, <2>2, <2>3, <2>4
<1>5. SnapshotInv' /\ GapFree'
  BY <1>1 DEF SnapshotInv, GapFree
<1>. QED
  BY <1>1, <1>2, <1>3, <1>4, <1>5, OneHandler

\* The first mark: a device without a cursor starts from what has happened by now.
LEMMA MarkFeed ==
    ASSUME FeedInv, TypeOK', NEW s \in Streams, InitialMark(s) PROVE FeedInv'
<1>. USE TypeParts DEF logVars, FeedInv
<1>0. /\ stream[s] \in StreamStates /\ client \in ClientStates /\ PeerInv(s) /\ LogTypeOK
      /\ GapFree /\ SnapshotInv
  OBVIOUS
<1>1. /\ UNCHANGED <<firstSeq, lastSeq>>
      /\ \A t \in Streams \ {s} : stream'[t] = stream[t]
  BY DEF InitialMark
<1>2. /\ stream'[s].peer = stream[s].peer /\ stream'[s].replay = stream[s].replay
      /\ stream'[s].cursor = (IF stream[s].replay THEN stream[s].cursor ELSE MaxSeq)
      /\ stream'[s].pc \in {"page", "wait"} /\ stream[s].pc = "mark"
  BY <1>0 DEF InitialMark, StreamStates
<1>3. /\ client'.pc = client.pc /\ client'.known = client.known /\ client'.cursor = client.cursor
      /\ client'.mark = client.mark /\ client'.seen = client.seen
      /\ stream[s].peer /\ ~client.known => client'.have = 1 .. lastSeq
      /\ ~(stream[s].peer /\ ~client.known) => client' = client
  BY <1>0 DEF InitialMark, ClientStates
<1>4. PeerInv(s)'
  <2>. SUFFICES ASSUME stream[s].peer PROVE PeerInv(s)'
    BY <1>2 DEF PeerInv
  <2>1. CASE client.known
    BY <1>0, <1>2, <1>3, <2>1 DEF PeerInv, GapFree
  <2>2. CASE ~client.known
    <3>1. stream'[s].cursor \in Nat /\ stream'[s].cursor <= lastSeq
      BY <1>0, <1>2, <2>2, LogNumbers DEF PeerInv
    <3>2. 1 .. stream'[s].cursor \subseteq 1 .. lastSeq
      BY <1>0, <3>1 DEF LogTypeOK
    <3>. QED
      BY <1>0, <1>2, <1>3, <2>2, <3>2 DEF PeerInv
  <2>. QED
    BY <2>1, <2>2
<1>5. PageInv(s)'
  BY <1>2 DEF PageInv
<1>6. SnapshotInv' /\ GapFree'
  BY <1>0, <1>1, <1>3 DEF SnapshotInv, GapFree
<1>. QED
  BY <1>1, <1>2, <1>3, <1>4, <1>5, <1>6, OneHandler

\* A frame: the cursor moves to the next number, whose effect the device now has.
LEMMA WriteFeed ==
    ASSUME FeedInv, TypeOK', NEW s \in Streams, WriteFrame(s) PROVE FeedInv'
<1>. USE TypeParts DEF logVars, FeedInv
<1>0. /\ stream[s] \in StreamStates /\ client \in ClientStates /\ PeerInv(s) /\ PageInv(s)
      /\ GapFree /\ SnapshotInv
  OBVIOUS
<1>1. /\ UNCHANGED <<firstSeq, lastSeq>>
      /\ \A t \in Streams \ {s} : stream'[t] = stream[t]
  BY DEF WriteFrame
<1>2. /\ NextRow(s) = stream[s].cursor + 1 /\ NextRow(s) \in stream[s].page
      /\ stream[s].cursor \in Nat
  BY <1>0, NextRowIs DEF WriteFrame, PageInv, StreamStates
<1>3. /\ stream'[s].peer = stream[s].peer /\ stream'[s].replay = stream[s].replay
      /\ stream'[s].cursor = stream[s].cursor + 1 /\ stream[s].pc = "write"
      /\ stream'[s].target = stream[s].target
      /\ \/ stream'[s].pc = "wait"
         \/ stream'[s].pc = "write" /\ stream'[s].page = stream[s].page \ {stream[s].cursor + 1}
  BY <1>0, <1>2 DEF WriteFrame, StreamStates
<1>4. stream[s].peer =>
         /\ client'.pc = client.pc /\ client'.known = TRUE /\ client'.cursor = stream[s].cursor + 1
         /\ client'.have = client.have \cup {stream[s].cursor + 1}
         /\ client'.mark = client.mark /\ client'.seen = client.seen
  BY <1>0, <1>2 DEF WriteFrame, ClientStates
<1>5. ~stream[s].peer => client' = client
  BY DEF WriteFrame
<1>6. stream[s].peer => 1 .. stream[s].cursor + 1 \subseteq client'.have
  BY <1>0, <1>2, <1>3, <1>4 DEF PeerInv
<1>7. PeerInv(s)'
  BY <1>0, <1>3, <1>4, <1>6 DEF PeerInv
<1>8. PageInv(s)'
  <2>1. Reaches(stream[s].page, stream[s].cursor, 0) /\ stream[s].target > 0
    BY <1>0, <1>3 DEF PageInv
  <2>2. Reaches(stream[s].page \ {stream[s].cursor + 1}, stream[s].cursor + 1, 0)
    <3>1. stream[s].page \in SUBSET Nat
      BY <1>0 DEF StreamStates
    <3>. SUFFICES ASSUME NEW e \in stream[s].page \ {stream[s].cursor + 1}
                  PROVE  /\ e > stream[s].cursor + 1
                         /\ \A k \in Nat : stream[s].cursor + 1 < k /\ k <= e
                               => k \in stream[s].page \ {stream[s].cursor + 1}
      BY DEF Reaches
    <3>2. e \in Nat /\ e > stream[s].cursor + 1
      BY <1>2, <2>1, <3>1 DEF Reaches
    <3>3. \A k \in Nat : stream[s].cursor < k /\ k <= e => k \in stream[s].page
      BY <2>1 DEF Reaches
    <3>. QED
      BY <1>2, <3>2, <3>3
  <2>. QED
    BY <1>3, <2>1, <2>2 DEF PageInv
<1>9. SnapshotInv' /\ GapFree'
  BY <1>0, <1>1, <1>4, <1>5, <1>6 DEF SnapshotInv, GapFree
<1>. QED
  BY <1>1, <1>3, <1>5, <1>7, <1>8, <1>9, OneHandler

\* A handler that is woken, or that ticks, decides anew what to read.
LEMMA WakeFeed ==
    ASSUME FeedInv, TypeOK', NEW s \in Streams, Wake(s) \/ Heartbeat(s) \/ WakeMark(s)
    PROVE  FeedInv'
<1>. USE TypeParts DEF logVars, FeedInv
<1>0. /\ stream[s] \in StreamStates /\ client \in ClientStates /\ PeerInv(s)
      /\ GapFree /\ SnapshotInv
  OBVIOUS
<1>1. CASE ~IsActive
  BY <1>1, HangupFeed DEF Wake, Heartbeat, WakeMark
<1>2. CASE IsActive
  <2>1. /\ UNCHANGED <<firstSeq, lastSeq, client>>
        /\ \A t \in Streams \ {s} : stream'[t] = stream[t]
    BY <1>2 DEF Wake, Heartbeat, WakeMark
  <2>2. /\ stream'[s].peer = stream[s].peer /\ stream'[s].replay = stream[s].replay
        /\ stream'[s].cursor = stream[s].cursor
        /\ stream'[s].pc \in {"wake", "page"} /\ stream[s].pc \in {"wait", "wake"}
    BY <1>2, WakeFields
  <2>3. PeerInv(s)' /\ PageInv(s)'
    BY <1>0, <2>1, <2>2 DEF PeerInv, PageInv
  <2>4. SnapshotInv' /\ GapFree'
    BY <1>0, <2>1 DEF SnapshotInv, GapFree
  <2>. QED
    BY <2>1, <2>2, <2>3, <2>4, OneHandler
<1>. QED
  BY <1>1, <1>2

\* The broker, the network and the end of a request take away a subscription or the peer.
LEMMA LossFeed ==
    ASSUME FeedInv, TypeOK', NEW s \in Streams,
           RemoveSlow(s) \/ ClientDrop(s) \/ HandlerCancelled(s)
    PROVE  FeedInv'
<1>. USE TypeParts DEF logVars, FeedInv
<1>0. /\ stream[s] \in StreamStates /\ client \in ClientStates /\ PeerInv(s) /\ PageInv(s)
      /\ GapFree /\ SnapshotInv
  OBVIOUS
<1>1. /\ UNCHANGED <<firstSeq, lastSeq>>
      /\ \A t \in Streams \ {s} : stream'[t] = stream[t]
  BY DEF RemoveSlow, ClientDrop, HandlerCancelled
<1>2. CASE RemoveSlow(s)
  <2>1. /\ client' = client
        /\ stream'[s].peer = stream[s].peer /\ stream'[s].replay = stream[s].replay
        /\ stream'[s].cursor = stream[s].cursor /\ stream'[s].target = stream[s].target
        /\ stream'[s].pc = stream[s].pc /\ stream'[s].page = stream[s].page
        /\ stream'[s].min = stream[s].min
    BY <1>0, <1>2 DEF RemoveSlow, StreamStates
  <2>2. PeerInv(s)' /\ PageInv(s)' /\ SnapshotInv' /\ GapFree'
    BY <1>0, <1>1, <2>1 DEF PeerInv, PageInv, Reaches, SnapshotInv, GapFree
  <2>. QED
    BY <1>1, <2>1, <2>2, OneHandler
<1>3. CASE ClientDrop(s)
  <2>1. /\ stream[s].peer /\ stream'[s].peer = FALSE
        /\ stream'[s].cursor = stream[s].cursor /\ stream'[s].target = stream[s].target
        /\ stream'[s].pc = stream[s].pc /\ stream'[s].page = stream[s].page
        /\ stream'[s].min = stream[s].min
    BY <1>0, <1>3 DEF ClientDrop, StreamStates
  <2>2. /\ client'.pc = "synced" /\ client'.known = client.known
        /\ client'.cursor = client.cursor /\ client'.have = client.have
    BY <1>0, <1>3 DEF ClientDrop, ClientStates
  <2>3. PeerInv(s)' /\ PageInv(s)' /\ SnapshotInv' /\ GapFree'
    BY <1>0, <1>1, <2>1, <2>2 DEF PeerInv, PageInv, Reaches, SnapshotInv, GapFree
  <2>. QED
    BY <1>1, <2>1, <2>3, OneHandler
<1>4. CASE HandlerCancelled(s)
  <2>1. stream'[s] = Closed /\ client' = client
    BY <1>4 DEF HandlerCancelled
  <2>2. PeerInv(s)' /\ PageInv(s)' /\ SnapshotInv' /\ GapFree'
    BY <1>0, <1>1, <2>1 DEF PeerInv, PageInv, Closed, SnapshotInv, GapFree
  <2>. QED
    BY <1>1, <2>1, <2>2, OneHandler DEF Closed
<1>. QED
  BY <1>2, <1>3, <1>4

\* A device connects: it has no other stream, and the new handler starts at its cursor.
LEMMA ConnectFeed ==
    ASSUME FeedInv, TypeOK', NEW s \in Streams, Connect(s) PROVE FeedInv'
<1>. USE TypeParts DEF logVars, FeedInv
<1>0. /\ stream[s] \in StreamStates /\ client \in ClientStates /\ GapFree /\ SnapshotInv
      /\ \A t \in Streams : PeerInv(t) /\ PageInv(t)
  OBVIOUS
<1>1. /\ UNCHANGED <<firstSeq, lastSeq>>
      /\ \A t \in Streams \ {s} : stream'[t] = stream[t]
      /\ \A t \in Streams : ~stream[t].peer
  BY <1>0 DEF Connect, PeerInv
<1>2. /\ stream'[s].pc = "mark" /\ stream'[s].replay = client.known
      /\ client.known => stream'[s].cursor = client.cursor
  BY <1>0 DEF Connect, ReplayAsked, Closed, StreamStates
<1>3. /\ client'.pc = "streaming" /\ client'.known = client.known
      /\ client'.cursor = client.cursor /\ client'.have = client.have
  BY <1>0 DEF Connect, ClientStates
<1>4. \A t \in Streams \ {s} : PeerInv(t)' /\ PageInv(t)'
  BY <1>0, <1>1 DEF PeerInv, PageInv
<1>5. PeerInv(s)' /\ PageInv(s)'
  BY <1>2, <1>3 DEF PeerInv, PageInv
<1>6. SnapshotInv' /\ GapFree' /\ OnePeer'
  BY <1>0, <1>1, <1>3 DEF SnapshotInv, GapFree, OnePeer
<1>. QED
  BY <1>4, <1>5, <1>6

\* The log grows at one end and shrinks at the other; a page that was read does not become
\* longer, and the table it came from is not emptied while it waits for its bounds.
LEMMA LogFeed ==
    ASSUME KeptInUse, FeedInv, TypeOK',
           CommitEvent \/ \E keep \in firstSeq + 1 .. lastSeq + 1 : Retention(keep)
    PROVE  FeedInv'
<1>. USE TypeParts DEF FeedInv
<1>0. /\ LogTypeOK /\ GapFree /\ SnapshotInv /\ OnePeer /\ client \in ClientStates
      /\ \A t \in Streams : PeerInv(t) /\ PageInv(t) /\ stream[t] \in StreamStates
  OBVIOUS
<1>1. /\ UNCHANGED <<client, stream>> /\ firstSeq' >= firstSeq /\ lastSeq' >= lastSeq
      /\ firstSeq' \in Nat /\ lastSeq' \in Nat
      /\ (\E s \in Streams : stream[s].pc = "min") /\ firstSeq <= lastSeq => firstSeq' <= lastSeq'
  BY <1>0 DEF CommitEvent, Insert, Retention, DeleteOlderThan, InUse, LogTypeOK
<1>2. ASSUME NEW t \in Streams PROVE PageInv(t)'
  <2>1. CASE stream[t].pc = "min"
    <3>1. stream[t].page \in SUBSET Nat /\ firstSeq \in Nat
      BY <1>0 DEF StreamStates, LogTypeOK
    <3>2. Reaches(stream[t].page, stream[t].cursor, firstSeq')
      BY <1>0, <1>1, <2>1, <3>1 DEF PageInv, Reaches
    <3>. QED
      BY <1>0, <1>1, <2>1, <3>2 DEF PageInv, Reaches
  <2>2. CASE stream[t].pc # "min"
    BY <1>0, <1>1, <2>2 DEF PageInv, Reaches
  <2>. QED
    BY <2>1, <2>2
<1>3. \A t \in Streams : PeerInv(t)'
  BY <1>0, <1>1 DEF PeerInv
<1>4. SnapshotInv' /\ GapFree' /\ OnePeer'
  BY <1>0, <1>1 DEF SnapshotInv, GapFree, OnePeer, ClientStates, LogTypeOK
<1>. QED
  BY <1>2, <1>3, <1>4

\* An announcement changes only subscriptions and channels.
LEMMA NotifyFeed == ASSUME FeedInv, TypeOK', Notify PROVE FeedInv'
<1>. USE TypeParts DEF logVars, FeedInv
<1>0. /\ GapFree /\ SnapshotInv /\ OnePeer
      /\ \A t \in Streams : PeerInv(t) /\ PageInv(t) /\ stream[t] \in StreamStates
  OBVIOUS
<1>1. UNCHANGED <<client, firstSeq, lastSeq>>
  BY DEF Notify
<1>2. ASSUME NEW t \in Streams
      PROVE  /\ stream'[t].pc = stream[t].pc /\ stream'[t].peer = stream[t].peer
             /\ stream'[t].replay = stream[t].replay /\ stream'[t].cursor = stream[t].cursor
             /\ stream'[t].target = stream[t].target /\ stream'[t].page = stream[t].page
             /\ stream'[t].min = stream[t].min
  BY <1>0 DEF Notify, Notified, StreamStates
<1>3. \A t \in Streams : PeerInv(t)' /\ PageInv(t)'
  BY <1>0, <1>1, <1>2 DEF PeerInv, PageInv, Reaches
<1>4. SnapshotInv' /\ GapFree' /\ OnePeer'
  BY <1>0, <1>1, <1>2 DEF SnapshotInv, GapFree, OnePeer
<1>. QED
  BY <1>3, <1>4

\* A cold sync: the cursor is read before the collections, so these show at least as much.
LEMMA SnapshotFeed == ASSUME FeedInv, TypeOK', SnapshotStep PROVE FeedInv'
<1>. USE TypeParts DEF logVars, FeedInv
<1>0. /\ LogTypeOK /\ GapFree /\ SnapshotInv /\ OnePeer /\ client \in ClientStates
      /\ \A t \in Streams : PeerInv(t) /\ PageInv(t)
  OBVIOUS
<1>1. UNCHANGED <<stream, firstSeq, lastSeq>> /\ client.pc # "streaming"
  BY DEF SnapshotStep, SnapshotMark, SnapshotProjects, SnapshotTasks
<1>2. \A t \in Streams : PeerInv(t)' /\ PageInv(t)'
  BY <1>0, <1>1 DEF PeerInv, PageInv, Reaches
<1>3. SnapshotInv' /\ GapFree'
  <2>1. CASE SnapshotMark
    <3>1. /\ client'.pc = "marked" /\ client'.mark = MaxSeq /\ client'.known = client.known
          /\ client'.cursor = client.cursor /\ client'.have = client.have
      BY <1>0, <2>1 DEF SnapshotMark, ClientStates
    <3>. QED
      BY <1>0, <1>1, <3>1, LogNumbers DEF SnapshotInv, GapFree
  <2>2. CASE SnapshotProjects
    <3>1. /\ client.pc = "marked" /\ client'.mark = client.mark /\ client'.seen = lastSeq
          /\ client'.known = client.known /\ client'.cursor = client.cursor
          /\ client'.have = client.have
      BY <1>0, <2>2 DEF SnapshotProjects, ClientStates
    <3>. QED
      BY <1>0, <1>1, <3>1 DEF SnapshotInv, GapFree
  <2>3. CASE SnapshotTasks
    <3>1. /\ client'.pc = "synced" /\ client'.cursor = client.mark
          /\ client'.have = 1 .. client.seen
      BY <1>0, <2>3 DEF SnapshotTasks, ClientStates
    <3>2. client.mark \in Nat /\ client.seen \in Nat /\ client.mark <= client.seen
      BY <1>0, <2>3 DEF SnapshotTasks, SnapshotInv, ClientStates
    <3>3. 1 .. client'.cursor \subseteq client'.have
      BY <3>1, <3>2
    <3>. QED
      BY <3>1, <3>3 DEF SnapshotInv, GapFree
  <2>. QED
    BY <2>1, <2>2, <2>3 DEF SnapshotStep
<1>4. OnePeer'
  BY <1>0, <1>1 DEF OnePeer
<1>. QED
  BY <1>2, <1>3, <1>4

\* A restart of the server.
LEMMA RestartFeed == ASSUME FeedInv, TypeOK', Restart PROVE FeedInv'
<1>. USE TypeParts DEF logVars, FeedInv
<1>0. GapFree /\ client \in ClientStates
  OBVIOUS
<1>1. \A s \in Streams : stream'[s] = Closed
  BY DEF Restart
<1>2. /\ client'.pc \notin {"marked", "listed"} /\ client'.known = client.known
      /\ client'.cursor = client.cursor /\ client'.have = client.have
  BY <1>0 DEF Restart, ClientStates
<1>3. \A s \in Streams : PeerInv(s)' /\ PageInv(s)'
  BY <1>1 DEF PeerInv, PageInv, Closed
<1>4. SnapshotInv' /\ GapFree' /\ OnePeer'
  BY <1>0, <1>1, <1>2 DEF SnapshotInv, GapFree, OnePeer, Closed
<1>. QED
  BY <1>3, <1>4

\* Every step keeps the invariant.
LEMMA FeedStep == ASSUME KeptInUse PROVE FeedInv /\ [Next]_vars => FeedInv'
<1>. SUFFICES ASSUME FeedInv, [Next]_vars PROVE FeedInv'
  OBVIOUS
<1>1. TypeOK'
  BY TypeStep
<1>2. CASE UNCHANGED vars
  BY <1>1, <1>2 DEF vars, logVars, FeedInv, OnePeer, SnapshotInv, GapFree, PageInv, PeerInv, Reaches
<1>3. ASSUME NEW s \in Streams, HandlerStep(s) PROVE FeedInv'
  <2>1. CASE SendReset(s) \/ AbandonPage(s) \/ EndOfChannel(s)
    BY <1>1, <2>1, HangupFeed DEF SendReset, AbandonPage, EndOfChannel
  <2>. QED
    BY <1>1, <1>3, <2>1, MarkFeed, ReadFeed, WriteFeed, WakeFeed DEF HandlerStep
<1>. QED
  BY <1>1, <1>2, <1>3, LogFeed, NotifyFeed, SnapshotFeed, RestartFeed, LossFeed, ConnectFeed,
     WakeFeed DEF Next

\* The process starts with nothing to miss.
LEMMA FeedInit == Init => FeedInv
<1>. SUFFICES ASSUME Init PROVE FeedInv
  OBVIOUS
<1>1. LogTypeOK /\ 0 \in 0..MaxDrops /\ \A s \in Streams : stream[s] = Closed
  BY EventStreamAssumption DEF Init, LogInit, LogTypeOK
<1>2. client \in ClientStates /\ client.pc \in {"cold", "synced"} /\ ~client.known
  BY DEF Init, ClientStates
<1>3. TypeOK
  BY <1>1, <1>2, ClosedType, TypeParts DEF Init
<1>4. \A s \in Streams : PageInv(s) /\ PeerInv(s)
  BY <1>1 DEF PageInv, PeerInv, Closed
<1>. QED
  BY <1>1, <1>2, <1>3, <1>4 DEF FeedInv, OnePeer, SnapshotInv, GapFree, Closed

\* The inductive invariant, when retention leaves a log in use its last row.
THEOREM FeedInvariant == ASSUME KeptInUse PROVE Spec => []FeedInv
<1>1. FeedInv /\ [Next]_vars => FeedInv'
  BY FeedStep
<1>. QED
  BY <1>1, FeedInit, PTL DEF Spec

\* The types of the stream, the device and the log.
THEOREM StreamTypeCorrect == ASSUME KeptInUse PROVE Spec => []TypeOK
<1>1. FeedInv => TypeOK
  BY DEF FeedInv
<1>. QED
  BY <1>1, FeedInvariant, PTL

\* No cursor passes an event whose effect its device has not seen, whatever retention deletes
\* between two reads of drainThrough, and however streams overlap and break (events.go).
THEOREM FeedIsGapFree == ASSUME KeptInUse PROVE Spec => []GapFree
<1>1. FeedInv => GapFree
  BY DEF FeedInv
<1>. QED
  BY <1>1, FeedInvariant, PTL

-------------------------------------------------------------------------------
(* No lost wakeup.                                                         *)

\* A device that follows an emptied log from its beginning has what the log had.
Following == client.known \/ \E s \in Streams : stream[s].peer /\ stream[s].pc # "mark"

EmptyInv ==
    /\ ~client.known => client.cursor = 0
    /\ client.pc = "listed" /\ client.mark = 0 /\ EmptyLog => 1 .. lastSeq \subseteq 1 .. client.seen
    /\ client.pc \in {"synced", "streaming"} /\ client.cursor = 0 /\ EmptyLog /\ Following
          => 1 .. lastSeq \subseteq client.have

\* Unless something is still to be announced to the handler, it reads up to the end of the log,
\* and where it waits its device has got there.
WakeInv(s) ==
    stream[s].peer /\ stream[s].sub /\ stream[s].buf = 0 /\ unsent = 0 =>
        /\ stream[s].pc \in {"page", "min", "max", "write"}
              => stream[s].target = lastSeq \/ (stream[s].target = 0 /\ EmptyLog)
        /\ stream[s].pc = "wait" => 1 .. lastSeq \subseteq client.have

\* The emptied log, when the device or the log moves.
LEMMA EmptyMoves ==
    ASSUME KeptInUse, FeedInv, TypeOK', EmptyInv,
           \/ CommitEvent \/ Restart \/ SnapshotStep
           \/ \E keep \in firstSeq + 1 .. lastSeq + 1 : Retention(keep)
           \/ \E s \in Streams : ClientDrop(s) \/ Connect(s)
    PROVE  EmptyInv'
<1>. USE TypeParts
<1>0. /\ LogTypeOK /\ client \in ClientStates /\ stream \in [Streams -> StreamStates]
      /\ firstSeq \in Nat /\ lastSeq \in Nat
      /\ \A s \in Streams : PeerInv(s) /\ stream[s] \in StreamStates
  BY LogNumbers DEF FeedInv
<1>1. CASE CommitEvent
  BY <1>0, <1>1 DEF CommitEvent, Insert, EmptyInv, EmptyLog, LogTypeOK
<1>2. ASSUME NEW keep \in firstSeq + 1 .. lastSeq + 1, Retention(keep) PROVE EmptyInv'
  <2>1. UNCHANGED <<client, stream, lastSeq>> /\ firstSeq' = keep
    BY <1>2 DEF Retention, DeleteOlderThan
  <2>2. \/ client.pc = "listed" /\ client.mark = 0
        \/ client.pc \in {"synced", "streaming"} /\ client.cursor = 0
        => ~EmptyLog'
    BY <1>0, <1>2, <2>1 DEF Retention, InUse, EmptyLog
  <2>. QED
    BY <2>1, <2>2 DEF EmptyInv, Following
<1>3. CASE Restart
  <2>1. /\ client'.pc \in {"cold", "synced"} /\ client'.known = client.known
        /\ client'.cursor = client.cursor /\ client'.have = client.have
        /\ client'.pc = "synced" => client.pc \in {"synced", "streaming"}
    BY <1>0, <1>3 DEF Restart, ClientStates
  <2>2. UNCHANGED <<firstSeq, lastSeq>> /\ \A s \in Streams : ~stream'[s].peer
    BY <1>3 DEF Restart, Closed, logVars
  <2>. QED
    BY <2>1, <2>2 DEF EmptyInv, Following, EmptyLog
<1>4. CASE SnapshotMark
  <2>1. /\ client'.pc = "marked" /\ client'.known = client.known /\ client'.cursor = client.cursor
    BY <1>0, <1>4 DEF SnapshotMark, ClientStates
  <2>. QED
    BY <2>1 DEF EmptyInv
<1>5. CASE SnapshotProjects
  <2>1. /\ client'.pc = "listed" /\ client'.known = client.known /\ client'.cursor = client.cursor
        /\ client'.seen = lastSeq /\ UNCHANGED lastSeq
    BY <1>0, <1>5 DEF SnapshotProjects, ClientStates, logVars
  <2>. QED
    BY <2>1 DEF EmptyInv
<1>6. CASE SnapshotTasks
  <2>1. /\ client'.pc = "synced" /\ client'.known = TRUE /\ client'.cursor = client.mark
        /\ client'.have = 1 .. client.seen /\ client.pc = "listed"
        /\ UNCHANGED <<firstSeq, lastSeq>>
    BY <1>0, <1>6 DEF SnapshotTasks, ClientStates, logVars
  <2>. QED
    BY <2>1 DEF EmptyInv, EmptyLog
<1>7. ASSUME NEW s \in Streams, ClientDrop(s) PROVE EmptyInv'
  <2>1. /\ client'.pc = "synced" /\ client'.known = client.known
        /\ client'.cursor = client.cursor /\ client'.have = client.have
        /\ client.pc = "streaming" /\ UNCHANGED <<firstSeq, lastSeq>>
    BY <1>0, <1>7 DEF ClientDrop, ClientStates, PeerInv, logVars
  <2>2. \A t \in Streams : stream'[t].peer => stream[t].peer /\ stream'[t].pc = stream[t].pc
    BY <1>0, <1>7 DEF ClientDrop, StreamStates
  <2>. QED
    BY <2>1, <2>2 DEF EmptyInv, Following, EmptyLog
<1>8. ASSUME NEW s \in Streams, Connect(s) PROVE EmptyInv'
  <2>1. /\ client'.pc = "streaming" /\ client'.known = client.known
        /\ client'.cursor = client.cursor /\ client'.have = client.have
        /\ client.pc = "synced" /\ UNCHANGED <<firstSeq, lastSeq>>
    BY <1>0, <1>8 DEF Connect, ClientStates, logVars
  <2>2. \A t \in Streams : stream'[t].peer /\ stream'[t].pc # "mark"
                              => stream[t].peer /\ stream[t].pc # "mark"
    BY <1>0, <1>8 DEF Connect, Closed, StreamStates
  <2>. QED
    BY <2>1, <2>2 DEF EmptyInv, Following, EmptyLog
<1>. QED
  BY <1>1, <1>2, <1>3, <1>4, <1>5, <1>6, <1>7, <1>8 DEF SnapshotStep

\* The emptied log, when a handler or the broker moves.
LEMMA EmptyHandlers ==
    ASSUME FeedInv, TypeOK', EmptyInv,
           \/ Notify \/ UNCHANGED vars
           \/ \E s \in Streams : \/ HandlerStep(s) \/ Heartbeat(s) \/ RemoveSlow(s)
                                 \/ HandlerCancelled(s)
    PROVE  EmptyInv'
<1>. USE TypeParts DEF logVars
<1>0. /\ LogTypeOK /\ client \in ClientStates /\ stream \in [Streams -> StreamStates]
      /\ \A s \in Streams : PeerInv(s) /\ PageInv(s) /\ stream[s] \in StreamStates
  BY DEF FeedInv
<1>1. ASSUME UNCHANGED <<client, firstSeq, lastSeq>>,
             \A t \in Streams : stream'[t].peer /\ stream'[t].pc # "mark"
                                  => stream[t].peer /\ stream[t].pc # "mark"
      PROVE  EmptyInv'
  BY <1>1 DEF EmptyInv, Following, EmptyLog
<1>2. CASE Notify
  BY <1>0, <1>1, <1>2 DEF Notify, Notified, StreamStates
<1>3. CASE UNCHANGED vars
  BY <1>1, <1>3 DEF vars
<1>4. ASSUME NEW s \in Streams, RemoveSlow(s) PROVE EmptyInv'
  BY <1>0, <1>1, <1>4 DEF RemoveSlow, StreamStates
<1>5. ASSUME NEW s \in Streams, HandlerCancelled(s) PROVE EmptyInv'
  BY <1>0, <1>1, <1>5 DEF HandlerCancelled, Closed
<1>6. ASSUME NEW s \in Streams, NEW next \in {"cold", "synced"}, Hangup(s, next),
             UNCHANGED logVars
      PROVE  EmptyInv'
  <2>1. \A t \in Streams : stream'[t].peer /\ stream'[t].pc # "mark"
                             => stream[t].peer /\ stream[t].pc # "mark"
    BY <1>0, <1>6 DEF Hangup, Closed
  <2>2. /\ client'.known = client.known /\ client'.cursor = client.cursor
        /\ client'.have = client.have
        /\ client' = client \/ (client'.pc \in {"cold", "synced"} /\ client.pc = "streaming")
    BY <1>0, <1>6 DEF Hangup, ClientStates, PeerInv
  <2>. QED
    BY <1>6, <2>1, <2>2 DEF EmptyInv, Following, EmptyLog
<1>7. ASSUME NEW s \in Streams, ReadPage(s) \/ ReadMin(s) \/ AcceptPage(s) \/ EndPage(s)
      PROVE  EmptyInv'
  <2>1. \A t \in Streams : stream'[t].peer /\ stream'[t].pc # "mark"
                             => stream[t].peer /\ stream[t].pc # "mark"
    BY <1>0, <1>7, PageFields
  <2>. QED
    BY <1>1, <1>7, <2>1 DEF ReadPage, ReadMin, AcceptPage, EndPage
<1>8. ASSUME NEW s \in Streams, IsActive, Wake(s) \/ Heartbeat(s) \/ WakeMark(s)
      PROVE  EmptyInv'
  <2>1. \A t \in Streams : stream'[t].peer /\ stream'[t].pc # "mark"
                             => stream[t].peer /\ stream[t].pc # "mark"
    BY <1>0, <1>8, WakeFields
  <2>. QED
    BY <1>1, <1>8, <2>1 DEF Wake, Heartbeat, WakeMark
<1>9. ASSUME NEW s \in Streams, WriteFrame(s) PROVE EmptyInv'
  <2>1. CASE stream[s].peer
    <3>1. /\ NextRow(s) = stream[s].cursor + 1 /\ stream[s].cursor \in Nat
          /\ client.pc = "streaming"
      BY <1>0, <1>9, <2>1, NextRowIs DEF WriteFrame, PageInv, PeerInv, StreamStates
    <3>2. client'.known = TRUE /\ client'.cursor = stream[s].cursor + 1
          /\ client'.pc = "streaming"
      BY <1>0, <1>9, <2>1, <3>1 DEF WriteFrame, ClientStates
    <3>. QED
      BY <3>1, <3>2 DEF EmptyInv
  <2>2. CASE ~stream[s].peer
    BY <1>0, <1>1, <1>9, <2>2 DEF WriteFrame, StreamStates
  <2>. QED
    BY <2>1, <2>2
<1>10. ASSUME NEW s \in Streams, InitialMark(s) PROVE EmptyInv'
  <2>1. CASE stream[s].peer /\ ~client.known
    <3>1. /\ client'.known = client.known /\ client'.cursor = client.cursor
          /\ client'.have = 1 .. lastSeq /\ client'.pc = client.pc
          /\ UNCHANGED lastSeq /\ client.pc = "streaming"
      BY <1>0, <1>10, <2>1 DEF InitialMark, ClientStates, PeerInv
    <3>. QED
      BY <3>1 DEF EmptyInv
  <2>2. CASE client.known
    BY <1>10, <2>2 DEF InitialMark, EmptyInv, Following, EmptyLog
  <2>3. CASE ~stream[s].peer
    BY <1>0, <1>1, <1>10, <2>3 DEF InitialMark, StreamStates
  <2>. QED
    BY <2>1, <2>2, <2>3
<1>. QED
  BY <1>2, <1>3, <1>4, <1>5, <1>6, <1>7, <1>8, <1>9, <1>10
     DEF HandlerStep, SendReset, AbandonPage, EndOfChannel, Wake, Heartbeat, WakeMark

\* A handler the device listens to that waits has brought the device up to date: the steps that
\* lead it to wait, or to read further.
LEMMA WakeOwn ==
    ASSUME FeedInv, FeedInv', EmptyInv, NEW s \in Streams, WakeInv(s),
           HandlerStep(s) \/ Heartbeat(s)
    PROVE  WakeInv(s)'
<1>. USE TypeParts DEF logVars
<1>0. /\ LogTypeOK /\ client \in ClientStates /\ stream \in [Streams -> StreamStates]
      /\ stream[s] \in StreamStates /\ PeerInv(s) /\ PageInv(s) /\ PeerInv(s)'
      /\ lastSeq \in Nat /\ firstSeq \in Nat
  BY LogNumbers DEF FeedInv
<1>1. UNCHANGED <<firstSeq, lastSeq, unsent>>
  BY DEF HandlerStep, InitialMark, ReadPage, ReadMin, SendReset, AbandonPage, AcceptPage,
         WriteFrame, EndPage, Wake, EndOfChannel, WakeMark, Heartbeat
<1>2. ASSUME NEW next \in {"cold", "synced"}, Hangup(s, next) PROVE WakeInv(s)'
  BY <1>0, <1>2 DEF Hangup, Closed, WakeInv
<1>3. CASE SendReset(s) \/ AbandonPage(s) \/ EndOfChannel(s)
  BY <1>2, <1>3 DEF SendReset, AbandonPage, EndOfChannel
<1>4. CASE Wake(s) \/ Heartbeat(s)
  <2>1. CASE IsActive
    <3>1. stream'[s].pc = "wake"
      BY <1>0, <1>4, <2>1 DEF Wake, Heartbeat, StreamStates
    <3>. QED
      BY <3>1 DEF WakeInv
  <2>2. CASE ~IsActive
    BY <1>2, <1>4, <2>2 DEF Wake, Heartbeat
  <2>. QED
    BY <2>1, <2>2
<1>5. CASE WakeMark(s)
  <2>1. CASE IsActive
    <3>1. stream'[s].pc = "page" /\ stream'[s].target = MaxSeq
      BY <1>0, <1>5, <2>1 DEF WakeMark, WakeTarget, StreamStates
    <3>. QED
      BY <1>0, <1>1, <3>1, LogNumbers DEF WakeInv, EmptyLog
  <2>2. CASE ~IsActive
    BY <1>2, <1>5, <2>2 DEF WakeMark
  <2>. QED
    BY <2>1, <2>2
<1>6. CASE InitialMark(s)
  <2>1. /\ stream'[s].target = MaxSeq /\ stream'[s].peer = stream[s].peer /\ stream[s].pc = "mark"
        /\ stream'[s].pc = (IF stream[s].replay THEN "page" ELSE "wait")
    BY <1>0, <1>6 DEF InitialMark, StreamStates
  <2>2. stream[s].peer /\ ~stream[s].replay => client'.have = 1 .. lastSeq
    BY <1>0, <1>6, <2>1 DEF InitialMark, PeerInv, ClientStates
  <2>. QED
    BY <1>0, <1>1, <2>1, <2>2, LogNumbers DEF WakeInv, EmptyLog
<1>7. ASSUME UNCHANGED client, stream'[s].peer = stream[s].peer, stream'[s].sub = stream[s].sub,
             stream'[s].buf = stream[s].buf, stream'[s].target = stream[s].target,
             stream[s].pc \in {"page", "min", "max", "write"},
             stream'[s].pc \in {"page", "min", "max", "write"}
      PROVE  WakeInv(s)'
  BY <1>1, <1>7 DEF WakeInv, EmptyLog
<1>8. CASE ReadPage(s) \/ ReadMin(s)
  <2>1. stream'[s].pc \in {"min", "max"}
    <3>1. CASE ReadPage(s)
      BY <1>0, <3>1 DEF ReadPage, StreamStates
    <3>2. CASE ReadMin(s)
      BY <1>0, <3>2 DEF ReadMin, StreamStates
    <3>. QED
      BY <1>8, <3>1, <3>2
  <2>. QED
    BY <1>0, <1>7, <1>8, <2>1, PageFields DEF ReadPage, ReadMin
<1>9. CASE AcceptPage(s)
  <2>1. /\ UNCHANGED client /\ stream'[s].peer = stream[s].peer /\ stream'[s].sub = stream[s].sub
        /\ stream'[s].buf = stream[s].buf /\ stream'[s].target = stream[s].target
        /\ stream[s].pc = "max" /\ stream'[s].pc \in {"wait", "write"}
        /\ stream'[s].pc = "wait" => stream[s].cursor >= stream[s].target
    BY <1>0, <1>9 DEF AcceptPage, StreamStates
  <2>2. CASE stream'[s].pc = "write"
    BY <1>7, <2>1, <2>2
  <2>3. CASE stream'[s].pc = "wait"
    <3>. SUFFICES ASSUME stream[s].peer, stream[s].sub, stream[s].buf = 0, unsent = 0
                  PROVE  1 .. lastSeq \subseteq client.have
      BY <1>1, <2>1, <2>3 DEF WakeInv
    <3>1. 1 .. stream[s].cursor \subseteq client.have /\ client.pc = "streaming"
      BY <1>0, <2>1 DEF PeerInv
    <3>2. CASE stream[s].target = lastSeq
      <4>1. stream[s].cursor \in Nat /\ lastSeq <= stream[s].cursor
        BY <1>0, <2>1, <2>3, <3>2 DEF StreamStates
      <4>2. 1 .. lastSeq \subseteq 1 .. stream[s].cursor
        BY <1>0, <4>1
      <4>. QED
        BY <3>1, <4>2
    <3>3. CASE EmptyLog
      <4>1. stream[s].cursor = 0
        BY <1>0, <1>9, <3>3, LogNumbers DEF AcceptPage, MustReset, StreamStates
      <4>2. client.cursor = 0 /\ Following
        BY <1>0, <2>1, <4>1 DEF PeerInv, EmptyInv, Following
      <4>. QED
        BY <3>1, <3>3, <4>2 DEF EmptyInv
    <3>. QED
      BY <2>1, <3>2, <3>3 DEF WakeInv
  <2>. QED
    BY <2>1, <2>2, <2>3
<1>10. ASSUME stream[s].pc = "write", stream[s].peer, stream[s].sub, stream[s].buf = 0, unsent = 0
       PROVE  stream[s].target = lastSeq /\ stream[s].target > 0
  BY <1>0, <1>10 DEF WakeInv, PageInv
<1>11. CASE EndPage(s)
  <2>1. /\ UNCHANGED client /\ stream'[s].peer = stream[s].peer /\ stream'[s].sub = stream[s].sub
        /\ stream'[s].buf = stream[s].buf /\ stream'[s].target = stream[s].target
        /\ stream[s].pc = "write" /\ stream'[s].pc \in {"page", "wait"}
        /\ stream'[s].pc = "wait" => stream[s].page # {} /\ NextRow(s) > stream[s].target
    <3>1. /\ stream'[s].pc \in {"page", "wait"}
          /\ stream'[s].pc = "wait" => stream[s].page # {} /\ NextRow(s) > stream[s].target
      BY <1>0, <1>11 DEF EndPage, StreamStates
    <3>. QED
      BY <1>0, <1>11, <3>1, PageFields DEF EndPage
  <2>2. CASE stream'[s].pc = "page"
    BY <1>7, <2>1, <2>2
  <2>3. CASE stream'[s].pc = "wait"
    <3>. SUFFICES ASSUME stream[s].peer, stream[s].sub, stream[s].buf = 0, unsent = 0
                  PROVE  1 .. lastSeq \subseteq client.have
      BY <1>1, <2>1, <2>3 DEF WakeInv
    <3>1. /\ stream[s].cursor \in Nat /\ stream[s].page \in SUBSET Nat
          /\ Reaches(stream[s].page, stream[s].cursor, 0)
      BY <1>0, <2>1 DEF PageInv, StreamStates
    <3>2. NextRow(s) = stream[s].cursor + 1
      BY <2>1, <2>3, <3>1, NextRowIs
    <3>3. lastSeq <= stream[s].cursor
      BY <1>0, <1>10, <2>1, <2>3, <3>1, <3>2
    <3>4. 1 .. lastSeq \subseteq 1 .. stream[s].cursor
      BY <1>0, <3>1, <3>3
    <3>. QED
      BY <1>0, <2>1, <3>4 DEF PeerInv
  <2>. QED
    BY <2>1, <2>2, <2>3
<1>12. CASE WriteFrame(s)
  <2>1. NextRow(s) = stream[s].cursor + 1 /\ stream[s].cursor \in Nat
    BY <1>0, <1>12, NextRowIs DEF WriteFrame, PageInv, StreamStates
  <2>2. /\ stream'[s].peer = stream[s].peer /\ stream'[s].sub = stream[s].sub
        /\ stream'[s].buf = stream[s].buf /\ stream'[s].target = stream[s].target
        /\ stream[s].pc = "write" /\ stream'[s].cursor = NextRow(s)
        /\ stream'[s].pc = "write" \/ (stream'[s].pc = "wait" /\ NextRow(s) = stream[s].target)
    BY <1>0, <1>12, <2>1 DEF WriteFrame, StreamStates
  <2>. SUFFICES ASSUME stream[s].peer, stream[s].sub, stream[s].buf = 0, unsent = 0
                PROVE  /\ stream'[s].target = lastSeq
                       /\ stream'[s].pc = "wait" => 1 .. lastSeq \subseteq client'.have
    BY <1>1, <2>2 DEF WakeInv
  <2>3. stream'[s].target = lastSeq
    BY <1>10, <2>2
  <2>4. stream'[s].pc = "wait" => stream'[s].cursor = lastSeq
    BY <2>2, <2>3
  <2>5. 1 .. stream'[s].cursor \subseteq client'.have
    BY <1>0, <2>2 DEF PeerInv
  <2>. QED
    BY <2>3, <2>4, <2>5
<1>. QED
  BY <1>3, <1>4, <1>5, <1>6, <1>8, <1>9, <1>11, <1>12 DEF HandlerStep

\* What others do does not put a handler to sleep: a commit leaves its announcement to come, and
\* an announcement leaves something in the channel.
LEMMA WakeOthers ==
    ASSUME FeedInv, NEW s \in Streams, WakeInv(s),
           \/ CommitEvent \/ Notify \/ Restart \/ SnapshotStep \/ UNCHANGED vars
           \/ \E keep \in firstSeq + 1 .. lastSeq + 1 : Retention(keep)
           \/ RemoveSlow(s) \/ Connect(s) \/ ClientDrop(s) \/ HandlerCancelled(s)
           \/ \E t \in Streams \ {s} : \/ RemoveSlow(t) \/ Connect(t) \/ HandlerStep(t)
                                       \/ Heartbeat(t) \/ ClientDrop(t) \/ HandlerCancelled(t)
    PROVE  WakeInv(s)'
<1>. USE TypeParts DEF logVars
<1>0. /\ LogTypeOK /\ client \in ClientStates /\ stream \in [Streams -> StreamStates]
      /\ stream[s] \in StreamStates /\ unsent \in Nat /\ firstSeq \in Nat /\ lastSeq \in Nat
      /\ firstSeq <= lastSeq + 1
      /\ OnePeer /\ \A t \in Streams : PeerInv(t)
  BY LogNumbers DEF FeedInv
<1>1. CASE CommitEvent
  BY <1>0, <1>1 DEF CommitEvent, WakeInv
<1>2. CASE Notify
  <2>1. /\ stream'[s] = Notified(stream[s]) /\ UNCHANGED client
    BY <1>2 DEF Notify
  <2>2. stream[s].sub => stream'[s].buf # 0
    BY <1>0, <2>1, EventStreamAssumption DEF Notified, StreamStates
  <2>3. stream'[s].sub => stream[s].sub
    BY <1>0, <2>1 DEF Notified, StreamStates
  <2>. QED
    BY <2>2, <2>3 DEF WakeInv
<1>3. CASE Restart
  BY <1>3 DEF Restart, Closed, WakeInv
<1>4. CASE SnapshotStep
  <2>1. ~stream[s].peer /\ UNCHANGED stream
    BY <1>0, <1>4 DEF SnapshotStep, SnapshotMark, SnapshotProjects, SnapshotTasks, PeerInv
  <2>. QED
    BY <2>1 DEF WakeInv
<1>5. ASSUME NEW keep \in firstSeq + 1 .. lastSeq + 1, Retention(keep) PROVE WakeInv(s)'
  <2>1. UNCHANGED <<client, stream, lastSeq, unsent>> /\ ~EmptyLog
    BY <1>0, <1>5 DEF Retention, DeleteOlderThan, EmptyLog
  <2>. QED
    BY <2>1 DEF WakeInv
<1>6. CASE UNCHANGED vars
  BY <1>6 DEF vars, WakeInv, EmptyLog
<1>7. CASE RemoveSlow(s) \/ ClientDrop(s) \/ HandlerCancelled(s)
  <2>1. ~stream'[s].sub \/ ~stream'[s].peer
    <3>1. CASE RemoveSlow(s)
      BY <1>0, <3>1 DEF RemoveSlow, StreamStates
    <3>2. CASE ClientDrop(s)
      BY <1>0, <3>2 DEF ClientDrop, StreamStates
    <3>3. CASE HandlerCancelled(s)
      BY <1>0, <3>3 DEF HandlerCancelled, Closed
    <3>. QED
      BY <1>7, <3>1, <3>2, <3>3
  <2>. QED
    BY <2>1 DEF WakeInv
<1>8. CASE Connect(s)
  <2>1. stream'[s].pc = "mark"
    BY <1>0, <1>8 DEF Connect, Closed, StreamStates
  <2>. QED
    BY <2>1 DEF WakeInv
<1>9. ASSUME NEW t \in Streams \ {s},
             \/ RemoveSlow(t) \/ Connect(t) \/ HandlerStep(t)
             \/ Heartbeat(t) \/ ClientDrop(t) \/ HandlerCancelled(t)
      PROVE  WakeInv(s)'
  <2>1. stream'[s] = stream[s] /\ UNCHANGED <<firstSeq, lastSeq, unsent>>
    BY <1>0, <1>9 DEF RemoveSlow, Connect, ClientDrop, HandlerCancelled, HandlerStep, InitialMark,
       ReadPage, ReadMin, SendReset, AbandonPage, AcceptPage, WriteFrame, EndPage, Wake,
       EndOfChannel, WakeMark, Heartbeat, Hangup
  <2>2. stream[t].peer \/ UNCHANGED client \/ Connect(t)
    BY <1>9 DEF RemoveSlow, ClientDrop, HandlerCancelled, HandlerStep, InitialMark,
       ReadPage, ReadMin, SendReset, AbandonPage, AcceptPage, WriteFrame, EndPage, Wake,
       EndOfChannel, WakeMark, Heartbeat, Hangup
  <2>3. stream[s].peer => UNCHANGED client
    BY <1>0, <2>2 DEF OnePeer, Connect, PeerInv
  <2>. QED
    BY <2>1, <2>3 DEF WakeInv, EmptyLog
<1>. QED
  BY <1>1, <1>2, <1>3, <1>4, <1>5, <1>6, <1>7, <1>8, <1>9

\* Every step keeps both invariants.
LEMMA WakeStep ==
    ASSUME KeptInUse
    PROVE  FeedInv /\ FeedInv' /\ EmptyInv /\ (\A s \in Streams : WakeInv(s)) /\ [Next]_vars
              => EmptyInv' /\ \A s \in Streams : WakeInv(s)'
<1>. SUFFICES ASSUME FeedInv, FeedInv', EmptyInv, \A s \in Streams : WakeInv(s), [Next]_vars
              PROVE  EmptyInv' /\ \A s \in Streams : WakeInv(s)'
  OBVIOUS
<1>1. EmptyInv'
  BY EmptyMoves, EmptyHandlers DEF Next, FeedInv
<1>2. ASSUME NEW s \in Streams PROVE WakeInv(s)'
  BY <1>2, WakeOwn, WakeOthers DEF Next
<1>. QED
  BY <1>1, <1>2

\* A stream that waits with nothing in its channel and nothing left to announce has brought its
\* device up to date: it subscribes before it reads the mark, and every commit that the mark
\* missed comes through the channel (events.go, Stream and drainThrough).
THEOREM SettledStreamsAreCurrent == ASSUME KeptInUse PROVE Spec => []SettledIsCurrent
<1>. DEFINE Awake == EmptyInv /\ \A s \in Streams : WakeInv(s)
<1>1. Init => Awake
  <2>. SUFFICES ASSUME Init PROVE Awake
    OBVIOUS
  <2>1. /\ client.cursor = 0 /\ client.pc # "listed" /\ ~client.known
        /\ \A s \in Streams : ~stream[s].peer
    BY DEF Init, Closed
  <2>. QED
    BY <2>1 DEF EmptyInv, Following, WakeInv
<1>2. FeedInv /\ FeedInv' /\ Awake /\ [Next]_vars => Awake'
  BY WakeStep
<1>3. Awake => SettledIsCurrent
  BY DEF WakeInv, SettledIsCurrent
<1>. QED
  BY <1>1, <1>2, <1>3, FeedInvariant, PTL DEF Spec
===============================================================================
