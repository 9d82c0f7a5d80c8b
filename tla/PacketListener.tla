--------------------------- MODULE PacketListener ---------------------------
(***************************************************************************)
(* packetListenerWrapper (net.go): one packet socket made of the packet    *)
(* connections of a listener.  An accept loop admits connections, a        *)
(* goroutine reads each of them into a common queue, and a new connection  *)
(* of an address replaces the old one.  When admission ends, the           *)
(* connections admitted so far stay usable; Close ends everything.         *)
(* With unique peers every connection has an address of its own, which is  *)
(* the case of an injective peerOf.  Deadlines are in PacketDeadline; here *)
(* a read may time out at any moment.                                      *)
(***************************************************************************)
EXTENDS Naturals, Sequences

CONSTANTS
  Conns,      \* connections the listener may admit
  Peers,      \* addresses
  Readers,    \* callers of ReadFrom
  Writers,    \* callers of WriteTo
  Closers,    \* callers of Close
  QueueSize,  \* of pkts: 100 in the code
  None

VARIABLES
  peerOf,            \* the address of a connection
  closed, admissionStopped, done, shutdownDone,
  innerClosed,       \* the listener is closed
  conns,             \* the connection registered for an address, or None
  active,            \* connections whose active flag is set
  shut,              \* connections that the wrapper has closed
  ended,             \* connections that ended by themselves
  pkts,              \* the connection each queued packet came from
  accepting,         \* the accept loop
  pump,              \* the goroutine that reads a connection
  reading,           \* callers of ReadFrom and the packet they took
  writing,           \* the connection a caller of WriteTo writes to, or None
  closing,           \* callers of Close
  took,              \* the connections that the first Close closes
  replaced,          \* history: connections whose address got a new one
  stale              \* history: connections past use when ReadFrom was called

flagVars == <<closed, admissionStopped, done, shutdownDone, innerClosed>>
connVars == <<peerOf, conns, active, shut, ended, replaced>>
callVars == <<reading, stale, writing, closing, took>>
vars == <<flagVars, connVars, callVars, pkts, accepting, pump>>

Loop == [pc |-> "loop", conn |-> None, previous |-> None]
Exit == [Loop EXCEPT !.pc = "exit"]
NotReading == [pc |-> "idle", source |-> None]

Init ==
  /\ peerOf \in [Conns -> Peers]
  /\ closed = FALSE /\ admissionStopped = FALSE /\ done = FALSE
  /\ shutdownDone = FALSE /\ innerClosed = FALSE
  /\ conns = [p \in Peers |-> None]
  /\ active = {} /\ shut = {} /\ ended = {} /\ replaced = {}
  /\ pkts = <<>>
  /\ accepting = Loop
  /\ pump = [c \in Conns |-> "none"]
  /\ reading = [r \in Readers |-> NotReading]
  /\ stale = [r \in Readers |-> {}]
  /\ writing = [w \in Writers |-> None]
  /\ closing = [k \in Closers |-> "idle"]
  /\ took = {}

Registered == {conns[p] : p \in Peers} \ {None}
Admitted == {c \in Conns : pump[c] # "none"}

-----------------------------------------------------------------------------
(* accept.                                                                 *)

\* A connection arrives: under mu it replaces the one of its address.
Accept(c) ==
  /\ accepting.pc = "loop" /\ pump[c] = "none" /\ c \notin shut /\ ~innerClosed
  /\ IF closed
     THEN /\ shut' = shut \cup {c}
          /\ accepting' = Exit
          /\ UNCHANGED <<conns, active, replaced, pump>>
     ELSE LET previous == conns[peerOf[c]] IN
          /\ conns' = [conns EXCEPT ![peerOf[c]] = c]
          /\ active' = (active \ {previous}) \cup {c}
          /\ replaced' = replaced \cup ({previous} \ {None})
          /\ accepting' = [pc |-> "start", conn |-> c, previous |-> previous]
          /\ pump' = [pump EXCEPT ![c] = "added"]
          /\ UNCHANGED shut
  /\ UNCHANGED <<flagVars, callVars, pkts, peerOf, ended>>

\* The replaced connection is closed, then the goroutine starts.
AcceptStart ==
  /\ accepting.pc = "start"
  /\ shut' = shut \cup ({accepting.previous} \ {None})
  /\ pump' = [pump EXCEPT ![accepting.conn] = "run"]
  /\ accepting' = Loop
  /\ UNCHANGED <<flagVars, callVars, pkts, peerOf, conns, active, ended, replaced>>

\* Accept of the listener fails, for any reason: stopAdmission.
StopAdmission ==
  /\ accepting.pc = "loop"
  /\ accepting' = Exit
  /\ IF closed THEN UNCHANGED <<admissionStopped, closed, done>>
     ELSE /\ admissionStopped' = TRUE
          /\ closed' = (Registered = {})
          /\ done' = (done \/ Registered = {})
  /\ UNCHANGED <<shutdownDone, innerClosed, connVars, callVars, pkts, pump>>

\* The deferred end of accept: readers.Wait, closeInner, close(shutdownDone).
AcceptExit ==
  /\ accepting.pc = "exit" /\ ~shutdownDone
  /\ \A c \in Conns : pump[c] \notin {"added", "run", "queue", "end"}
  /\ innerClosed' = TRUE /\ shutdownDone' = TRUE
  /\ UNCHANGED <<closed, admissionStopped, done, connVars, callVars, pkts, accepting, pump>>

-----------------------------------------------------------------------------
(* read.                                                                   *)

\* A connection ends by itself: its peer left, or the tunnel did.
PeerEnds(c) ==
  /\ c \in Admitted \ ended
  /\ ended' = ended \cup {c}
  /\ UNCHANGED <<flagVars, callVars, pkts, accepting, pump, peerOf, conns, active, shut, replaced>>

\* ReadFrom of the connection returns a packet; the active flag is loaded.
PumpPacket(c) ==
  /\ pump[c] = "run" /\ c \notin shut \cup ended
  /\ pump' = [pump EXCEPT ![c] = IF c \in active THEN "queue" ELSE "end"]
  /\ UNCHANGED <<flagVars, connVars, callVars, pkts, accepting>>

\* The packet is queued, or dropped when the queue is full.
PumpQueues(c) ==
  /\ pump[c] = "queue"
  /\ \/ /\ Len(pkts) < QueueSize
        /\ pkts' = Append(pkts, c) /\ pump' = [pump EXCEPT ![c] = "run"]
     \/ /\ done
        /\ pump' = [pump EXCEPT ![c] = "end"] /\ UNCHANGED pkts
     \/ /\ Len(pkts) = QueueSize /\ ~done
        /\ pump' = [pump EXCEPT ![c] = "run"] /\ UNCHANGED pkts
  /\ UNCHANGED <<flagVars, connVars, callVars, accepting>>

PumpFails(c) ==
  /\ pump[c] = "run" /\ c \in shut \cup ended
  /\ pump' = [pump EXCEPT ![c] = "end"]
  /\ UNCHANGED <<flagVars, connVars, callVars, pkts, accepting>>

\* The deferred end of read: readers.Done comes first ...
PumpDone(c) ==
  /\ pump[c] = "end"
  /\ pump' = [pump EXCEPT ![c] = "close"]
  /\ UNCHANGED <<flagVars, connVars, callVars, pkts, accepting>>

\* ... then the connection is closed ...
PumpCloses(c) ==
  /\ pump[c] = "close"
  /\ active' = active \ {c} /\ shut' = shut \cup {c}
  /\ pump' = [pump EXCEPT ![c] = "forget"]
  /\ UNCHANGED <<flagVars, callVars, pkts, accepting, peerOf, conns, ended, replaced>>

\* The address is forgotten whatever connection it has now.
ForgetAddress(c) == [conns EXCEPT ![peerOf[c]] = None]

\* The address is forgotten unless another connection has it now.
Forget(c) == [p \in Peers |-> IF conns[p] = c THEN None ELSE conns[p]]

\* The last connection is forgotten and nobody is told.
PumpForgetsOnly(c) ==
  /\ pump[c] = "forget"
  /\ pump' = [pump EXCEPT ![c] = "gone"]
  /\ conns' = IF closed THEN conns ELSE Forget(c)
  /\ UNCHANGED <<flagVars, callVars, pkts, accepting, peerOf, active, shut, ended, replaced>>

\* ... and forgotten, under mu; the last one after admission ended ends the
\* socket.
PumpForgets(c) ==
  /\ pump[c] = "forget"
  /\ pump' = [pump EXCEPT ![c] = "gone"]
  /\ IF closed THEN UNCHANGED <<conns, closed, done>>
     ELSE LET last == admissionStopped /\ \A p \in Peers : Forget(c)[p] = None IN
          /\ conns' = Forget(c)
          /\ closed' = last
          /\ done' = (done \/ last)
  /\ UNCHANGED <<admissionStopped, shutdownDone, innerClosed, callVars, pkts, accepting,
                 peerOf, active, shut, ended, replaced>>

-----------------------------------------------------------------------------
(* ReadFrom and WriteTo.                                                   *)

ReadFrom(r) ==
  /\ reading[r].pc = "idle"
  /\ reading' = [reading EXCEPT ![r].pc = "top"]
  /\ stale' = [stale EXCEPT ![r] = IF done THEN Conns ELSE Admitted \ active]
  /\ UNCHANGED <<flagVars, connVars, writing, closing, took, pkts, accepting, pump>>

ReadTop(r) ==
  /\ reading[r].pc = "top"
  /\ reading' = [reading EXCEPT ![r] = IF done THEN NotReading ELSE [@ EXCEPT !.pc = "select"]]
  /\ UNCHANGED <<flagVars, connVars, stale, writing, closing, took, pkts, accepting, pump>>

\* A packet is taken; one whose connection is not active is skipped.
ReadPacket(r) ==
  /\ reading[r].pc = "select" /\ pkts # <<>>
  /\ pkts' = Tail(pkts)
  /\ reading' = [reading EXCEPT ![r] = IF Head(pkts) \in active
                                       THEN [pc |-> "check", source |-> Head(pkts)]
                                       ELSE [pc |-> "top", source |-> None]]
  /\ UNCHANGED <<flagVars, connVars, stale, writing, closing, took, accepting, pump>>

\* done is looked at once more before the packet is returned.
ReadReturns(r) ==
  /\ reading[r].pc = "check"
  /\ reading' = [reading EXCEPT ![r] = IF done THEN NotReading ELSE [@ EXCEPT !.pc = "got"]]
  /\ UNCHANGED <<flagVars, connVars, stale, writing, closing, took, pkts, accepting, pump>>

ReadClosed(r) ==
  /\ reading[r].pc = "select" /\ done
  /\ reading' = [reading EXCEPT ![r] = NotReading]
  /\ UNCHANGED <<flagVars, connVars, stale, writing, closing, took, pkts, accepting, pump>>

\* The deadline has passed (top), or it was changed (select).
ReadDeadline(r) ==
  /\ reading[r].pc \in {"top", "select"}
  /\ reading' = [reading EXCEPT ![r].pc = IF @ = "top" THEN "idle" ELSE "top"]
  /\ UNCHANGED <<flagVars, connVars, stale, writing, closing, took, pkts, accepting, pump>>

\* The caller has its packet.
ReadDelivered(r) ==
  /\ reading[r].pc = "got"
  /\ reading' = [reading EXCEPT ![r] = NotReading]
  /\ UNCHANGED <<flagVars, connVars, stale, writing, closing, took, pkts, accepting, pump>>

\* The connection is looked up under mu and written to without it.
WriteTo(w, p) ==
  /\ writing[w] = None /\ ~closed /\ conns[p] # None
  /\ writing' = [writing EXCEPT ![w] = conns[p]]
  /\ UNCHANGED <<flagVars, connVars, reading, stale, closing, took, pkts, accepting, pump>>

WriteReturns(w) ==
  /\ writing[w] # None
  /\ writing' = [writing EXCEPT ![w] = None]
  /\ UNCHANGED <<flagVars, connVars, reading, stale, closing, took, pkts, accepting, pump>>

\* A blocked write of a connection that is closed or ended fails.
WriteFails(w) == writing[w] \in shut \cup ended /\ WriteReturns(w)

-----------------------------------------------------------------------------
(* Close.                                                                  *)

\* initiateShutdown runs once: the part under mu ...
Close(k) ==
  /\ closing[k] = "idle"
  /\ IF \A j \in Closers : closing[j] = "idle"
     THEN /\ closed' = TRUE /\ done' = TRUE
          /\ took' = Registered /\ active' = active \ Registered
          /\ conns' = [p \in Peers |-> None]
          /\ closing' = [closing EXCEPT ![k] = "inner"]
     ELSE /\ closing' = [closing EXCEPT ![k] = "once"]
          /\ UNCHANGED <<closed, done, took, active, conns>>
  /\ UNCHANGED <<admissionStopped, shutdownDone, innerClosed, peerOf, shut, ended, replaced,
                 reading, stale, writing, pkts, accepting, pump>>

CloseInner(k) ==
  /\ closing[k] = "inner"
  /\ innerClosed' = TRUE
  /\ closing' = [closing EXCEPT ![k] = "conns"]
  /\ UNCHANGED <<closed, admissionStopped, done, shutdownDone, connVars,
                 reading, stale, writing, took, pkts, accepting, pump>>

\* ... and the connections it took.
CloseConns(k) ==
  /\ closing[k] = "conns"
  /\ shut' = shut \cup took
  /\ closing' = [closing EXCEPT ![k] = "wait"]
  /\ UNCHANGED <<flagVars, peerOf, conns, active, ended, replaced,
                 reading, stale, writing, took, pkts, accepting, pump>>

\* Another caller waits for the first to leave the sync.Once.
CloseOnce(k) ==
  /\ closing[k] = "once" /\ \A j \in Closers : closing[j] \notin {"inner", "conns"}
  /\ closing' = [closing EXCEPT ![k] = "wait"]
  /\ UNCHANGED <<flagVars, connVars, reading, stale, writing, took, pkts, accepting, pump>>

CloseReturns(k) ==
  /\ closing[k] = "wait" /\ shutdownDone
  /\ closing' = [closing EXCEPT ![k] = "returned"]
  /\ UNCHANGED <<flagVars, connVars, reading, stale, writing, took, pkts, accepting, pump>>

-----------------------------------------------------------------------------
PumpStep(c) == PumpQueues(c) \/ PumpFails(c) \/ PumpDone(c) \/ PumpCloses(c) \/ PumpForgets(c)
AcceptStep == AcceptStart \/ AcceptExit \/ (innerClosed /\ StopAdmission)
ReadStep(r) == ReadTop(r) \/ ReadPacket(r) \/ ReadReturns(r) \/ ReadClosed(r) \/ ReadDelivered(r)
CloseStep(k) == CloseInner(k) \/ CloseConns(k) \/ CloseOnce(k) \/ CloseReturns(k)

Next ==
  \/ \E c \in Conns : Accept(c) \/ PeerEnds(c) \/ PumpPacket(c) \/ PumpStep(c)
  \/ AcceptStart \/ AcceptExit \/ StopAdmission
  \/ \E r \in Readers : ReadFrom(r) \/ ReadStep(r) \/ ReadDeadline(r)
  \/ \E w \in Writers : WriteReturns(w) \/ \E p \in Peers : WriteTo(w, p)
  \/ \E k \in Closers : Close(k) \/ CloseStep(k)

Spec == Init /\ [][Next]_vars

\* Goroutines and calls that can go on do; reads, writes and Accept of what is
\* closed fail.  Nothing makes peers send, leave or arrive.
Fairness ==
  /\ \A c \in Conns : WF_vars(PumpStep(c))
  /\ WF_vars(AcceptStep)
  /\ \A r \in Readers : WF_vars(ReadStep(r))
  /\ \A w \in Writers : WF_vars(WriteFails(w))
  /\ \A k \in Closers : WF_vars(CloseStep(k))

-----------------------------------------------------------------------------
(* Properties.                                                             *)

\* Types; the queue keeps its bound and an address has a connection of its own.
TypeOK ==
  /\ peerOf \in [Conns -> Peers]
  /\ {closed, admissionStopped, done, shutdownDone, innerClosed} \subseteq BOOLEAN
  /\ conns \in [Peers -> Conns \cup {None}]
  /\ \A p \in Peers : conns[p] # None => peerOf[conns[p]] = p
  /\ {active, shut, ended, replaced, took} \subseteq SUBSET Conns
  /\ pkts \in Seq(Conns) /\ Len(pkts) <= QueueSize
  /\ accepting \in [pc : {"loop", "start", "exit"}, conn : Conns \cup {None}, previous : Conns \cup {None}]
  /\ pump \in [Conns -> {"none", "added", "run", "queue", "end", "close", "forget", "gone"}]
  /\ reading \in [Readers -> [pc : {"idle", "top", "select", "check", "got"}, source : Conns \cup {None}]]
  /\ stale \in [Readers -> SUBSET Conns]
  /\ writing \in [Writers -> Conns \cup {None}]
  /\ closing \in [Closers -> {"idle", "once", "inner", "conns", "wait", "returned"}]

CloseCalled == \E k \in Closers : closing[k] # "idle"

\* When a Close returns, the listener and every admitted connection are closed
\* and no goroutine reads any more, although a goroutine reports to readers
\* before it closes its connection.
CloseReleases ==
  (\E k \in Closers : closing[k] = "returned") =>
    innerClosed /\ \A c \in Admitted : c \in shut /\ pump[c] \in {"close", "forget", "gone"}

\* "already accepted packet paths remain usable until they end naturally or
\* the returned PacketConn is closed": a connection that did not end is closed
\* only after Close was called or when its address has a new connection.
PathsStayUsable == \A c \in shut \ ended : CloseCalled \/ c \in replaced

\* The socket ends by itself only when admission has ended and no connection
\* is usable any more.
DoneMeansDrained == done /\ ~CloseCalled => admissionStopped /\ active = {} /\ Registered = {}

\* A connection that is active is the one its address is routed to: a late
\* goroutine of a replaced connection does not take the address away from it.
ActiveIsRouted == \A c \in active : conns[peerOf[c]] = c

\* ReadFrom never returns a packet of a connection that had been replaced or
\* had ended when it was called, nor any packet if the socket was done by then,
\* even if the packet was queued late.
NoStaleDelivery == \A r \in Readers : reading[r].source \notin stale[r]

\* What the socket keeps for its callers at any moment.
ListenerInv ==
  /\ TypeOK /\ CloseReleases /\ PathsStayUsable
  /\ DoneMeansDrained /\ ActiveIsRouted /\ NoStaleDelivery

\* Nobody waits for what has ended: once admission and every admitted
\* connection have ended no ReadFrom is blocked, once Close was called no
\* WriteTo is, even one whose connection has been replaced or forgotten since
\* it was looked up, and Close itself has returned.
Settled ==
  /\ accepting.pc = "exit" /\ Admitted \subseteq ended => \A r \in Readers : reading[r].pc # "select"
  /\ CloseCalled => \A w \in Writers : writing[w] = None
  /\ \A k \in Closers : closing[k] \in {"idle", "returned"}
=============================================================================
