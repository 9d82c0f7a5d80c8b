---- MODULE NetcatDatagrams ----
(***************************************************************************)
(* rstream netcat --datagram.  Two parts that share no state:              *)
(*                                                                         *)
(* - one datagram session between a tunnel channel and framed standard     *)
(*   input and output, a child process, or a connected UDP socket;         *)
(* - the bridge of a local UDP socket, with one tunnel session per local   *)
(*   peer, dialled on its first packet or eagerly (--udp-peer).            *)
(*                                                                         *)
(* An RFC 4571 frame on the input is whole ("frame"), whole but too large  *)
(* for the transport ("big"), cut inside its length or its payload ("cut"),*)
(* or cut exactly after its length ("bare").                               *)
(***************************************************************************)
EXTENDS Naturals, Sequences, SequencesExt, FiniteSets

CONSTANTS Inputs,     \* what a session can find on its input
          Peers,      \* local UDP peers of the bridge
          MaxConns,   \* --max-connections
          QueueSize,  \* netcatUDPBridgeQueueSize
          MaxPackets, \* packets from the tunnel, and from each local peer
          MaxDials    \* sessions of one peer, one after the other

VARIABLES mode,   \* "stdio" | "exec" | "udp": what the session bridges
          idle,   \* --idle-timeout is set
          input,  \* the rest of the input
          sent,   \* datagrams written to the channel
          conn,   \* the channel: "open" | "gone" (closed by the peer) | "closed"
          out,    \* "takes" | "full": whether the output can be written
          child,  \* "none" | "runs" | "exited" | "killed" | "reaped"
          recv,   \* "read" | "write" | "ok" | "error"
          send,   \* "off" | "read" | "ok" | "error"
          main,   \* "runs" | "leaving" | "joined" | "over"
          taken,  \* the send loop's result was taken
          ctx,    \* the command was interrupted
          came    \* packets that came through the channel

svars == <<mode, idle, input, sent, conn, out, child, recv, send, main, taken, ctx, came>>

VARIABLES loop,   \* the bridge: "eager" | "reads" | "leaving" | "returned"
          eager,  \* peer of --udp-peer, or "none"
          udp,    \* the local socket is open
          cancel, \* sessionCtx cancelled
          stop,   \* the command was interrupted
          table,  \* peer -> number of its session in the map, 0 when absent
          s       \* <<peer, number>> -> its session

bvars == <<loop, eager, udp, cancel, stop, table, s>>
vars == <<svars, bvars>>

----------------------------------------------------------------------------
(* One session *)

Ended(r) == r \in {"ok", "error", "off"}
Stopping == main # "runs"

\* One round of netcatDatagramRecvLoop, or of the UDP session's reader: a
\* packet, or the end of the channel, the idle timeout or an error.
RecvReads ==
  /\ recv = "read"
  /\ \/ conn = "open" /\ came < MaxPackets /\ came' = came + 1 /\ recv' = "write"
     \/ conn # "open" /\ recv' = "ok" /\ UNCHANGED came
     \/ idle /\ recv' = "ok" /\ UNCHANGED came
     \/ conn = "open" /\ recv' = "error" /\ UNCHANGED came
  /\ UNCHANGED <<mode, idle, input, sent, conn, out, child, send, main, taken, ctx>> /\ UNCHANGED bvars

\* writeNetcatFrame waits as long as nobody takes the output.  A child that is
\* gone is a normal end; a datagram socket never waits.
RecvWrites ==
  /\ recv = "write"
  /\ \/ (out = "takes" \/ mode = "udp") /\ recv' = "read"
     \/ mode = "exec" /\ child # "runs" /\ recv' = "ok"
     \/ mode = "udp" /\ recv' = "error"
  /\ UNCHANGED <<mode, idle, input, sent, conn, out, child, send, main, taken, ctx, came>> /\ UNCHANGED bvars

\* netcatDatagramSendReaderLoop on the next frame; oversized datagrams are
\* dropped, and a read that ends without a byte of the payload is taken for
\* the end of the input.
SendFrame ==
  /\ send = "read" /\ input # <<>> /\ ~Stopping
  /\ input' = Tail(input)
  /\ CASE Head(input) = "frame" /\ conn = "open" -> sent' = Append(sent, "frame") /\ UNCHANGED send
       [] Head(input) = "frame" /\ conn # "open" -> send' = "ok" /\ UNCHANGED sent
       [] Head(input) = "big" -> UNCHANGED <<send, sent>>
       [] Head(input) = "cut" -> send' = "error" /\ UNCHANGED sent
       [] Head(input) = "bare" -> send' = "ok" /\ UNCHANGED sent
  /\ UNCHANGED <<mode, idle, conn, out, child, recv, main, taken, ctx, came>> /\ UNCHANGED bvars

\* The input ended, which for a child means that it exited, or the session
\* stops the reader.
SendEnds ==
  /\ send = "read"
  /\ Stopping \/ (input = <<>> /\ (mode = "exec" => child # "runs") /\ mode # "udp")
  /\ send' = "ok"
  /\ UNCHANGED <<mode, idle, input, sent, conn, out, child, recv, main, taken, ctx, came>> /\ UNCHANGED bvars

\* The select of runNetcatDatagramSession: the receive loop's end, an input
\* error, or with a child (EndOnInputEOF) the end of the input, or the
\* interrupt, closes the channel and leaves.
SessionSelects ==
  /\ main = "runs"
  /\ \/ recv \in {"ok", "error"} /\ main' = "leaving" /\ UNCHANGED taken
     \/ /\ send \in {"ok", "error"} /\ ~taken
        /\ taken' = TRUE
        /\ main' = IF send = "error" \/ mode # "stdio" THEN "leaving" ELSE "runs"
     \/ ctx /\ main' = "leaving" /\ UNCHANGED taken
  /\ conn' = IF main' = "leaving" THEN "closed" ELSE conn
  /\ UNCHANGED <<mode, idle, input, sent, out, child, recv, send, ctx, came>> /\ UNCHANGED bvars

\* The deferred loopWG.Wait.
Joins ==
  /\ main = "leaving" /\ Ended(recv) /\ Ended(send)
  /\ main' = IF mode = "exec" THEN "joined" ELSE "over"
  /\ UNCHANGED <<mode, idle, input, sent, conn, out, child, recv, send, taken, ctx, came>> /\ UNCHANGED bvars

\* runNetcatDatagramExecSession after its session: the child's input is closed,
\* it is killed, and reaped once its error output ended.
KillsChild ==
  /\ main = "joined"
  /\ IF child \in {"killed", "exited"} THEN child' = "reaped" /\ main' = "over"
     ELSE child' = "killed" /\ UNCHANGED main
  /\ UNCHANGED <<mode, idle, input, sent, conn, out, recv, send, taken, ctx, came>> /\ UNCHANGED bvars

\* The other end closes the channel, the reader of the output stops or goes on
\* reading, the child exits, the user interrupts.
Outside ==
  /\ \/ conn = "open" /\ conn' = "gone" /\ UNCHANGED <<out, child, ctx>>
     \/ out' \in {"takes", "full"} \ {out} /\ mode # "udp" /\ main # "over" /\ UNCHANGED <<conn, child, ctx>>
     \/ child = "runs" /\ child' = "exited" /\ UNCHANGED <<conn, out, ctx>>
     \/ ~ctx /\ main # "over" /\ ctx' = TRUE /\ UNCHANGED <<conn, out, child>>
  /\ UNCHANGED <<mode, idle, input, sent, recv, send, main, taken, came>> /\ UNCHANGED bvars

\* The local service refuses: the UDP socket's read fails.
Refused ==
  /\ mode = "udp" /\ send = "read" /\ send' = "error"
  /\ UNCHANGED <<mode, idle, input, sent, conn, out, child, recv, main, taken, ctx, came>> /\ UNCHANGED bvars

SessionInit ==
  /\ mode \in {"stdio", "exec", "udp"} /\ idle \in BOOLEAN
  /\ input \in Inputs /\ (mode = "udp" => ToSet(input) \subseteq {"frame", "big"}) /\ sent = <<>> /\ conn = "open" /\ out = "takes"
  /\ child = (IF mode = "exec" THEN "runs" ELSE "none")
  /\ recv = "read" /\ send \in IF mode = "stdio" THEN {"off", "read"} ELSE {"read"}
  /\ main = "runs" /\ taken = FALSE /\ ctx = FALSE /\ came = 0

RecvEnds == conn # "open" /\ RecvReads
SessionRuns == RecvEnds \/ RecvWrites \/ SendFrame \/ SendEnds \/ SessionSelects \/ Joins \/ KillsChild
SessionNext == SessionRuns \/ RecvReads \/ Outside \/ Refused

----------------------------------------------------------------------------
(* The UDP bridge *)

Absent == [st |-> "none", queue |-> 0, conn |-> "none", closed |-> FALSE, reader |-> "off", ready |-> "no"]
Dialling == [Absent EXCEPT !.st = "dialling"]
InMap == {p \in Peers : table[p] # 0}
Latest(p) == Cardinality({i \in 1..MaxDials : s[<<p, i>>].st # "none"})
Mine(p) == <<p, table[p]>>

\* startSession: the session of the peer in the map, or a new one within the
\* limit.
Starts(p) == table[p] = 0 /\ Cardinality(InMap) < MaxConns /\ Latest(p) < MaxDials
StartedTable(p) == IF Starts(p) THEN [table EXCEPT ![p] = Latest(p) + 1] ELSE table
StartedSessions(p) == IF Starts(p) THEN [s EXCEPT ![<<p, Latest(p) + 1>>] = Dialling] ELSE s

\* The eager session of --udp-peer, and the wait until it is ready.
OpenEagerly ==
  /\ loop = "eager"
  /\ IF table[eager] = 0 /\ Latest(eager) = 0
     THEN table' = StartedTable(eager) /\ s' = StartedSessions(eager) /\ UNCHANGED loop
     ELSE /\ \/ s[<<eager, 1>>].ready = "ok" /\ loop' = "reads"
             \/ s[<<eager, 1>>].ready = "error" /\ loop' = IF stop THEN "reads" ELSE "leaving"
             \/ stop /\ loop' = "reads"
          /\ UNCHANGED <<table, s>>
  /\ UNCHANGED <<eager, udp, cancel, stop>> /\ UNCHANGED svars

\* A local packet: a session for its peer, and its queue unless it is full or
\* done.
ReceiveUDP(p) ==
  /\ loop = "reads" /\ udp
  /\ (Starts(p) \/ table[p] # 0)
  /\ table' = StartedTable(p)
  /\ LET t == StartedSessions(p)
         k == <<p, table'[p]>>
     IN s' = IF t[k].closed \/ t[k].queue >= QueueSize THEN t ELSE [t EXCEPT ![k].queue = @ + 1]
  /\ UNCHANGED <<loop, eager, udp, cancel, stop>> /\ UNCHANGED svars

\* The read of the local socket fails: closed by the interrupt, or broken.
BridgeStops ==
  /\ loop = "reads" /\ loop' = "leaving"
  /\ UNCHANGED <<eager, udp, cancel, stop, table, s>> /\ UNCHANGED svars

\* The dial of runNetcatUDPBridgeSession, within 10 s.  attach refuses, and
\* closes, a channel that comes after session.Close.
Dial(k) ==
  /\ s[k].st = "dialling"
  /\ \/ /\ ~s[k].closed
        /\ s' = [s EXCEPT ![k].st = "open", ![k].conn = "open", ![k].reader = "runs", ![k].ready = "ok"]
     \/ s[k].closed /\ s' = [s EXCEPT ![k].st = "leaving", ![k].conn = "closed", ![k].ready = "error"]
     \/ s' = [s EXCEPT ![k].st = "leaving", ![k].ready = "error"]
  /\ UNCHANGED <<loop, eager, udp, cancel, stop, table>> /\ UNCHANGED svars

\* The session's select: a queued packet to the tunnel, the reader's error, the
\* cancelled context or session.Close.  Leaving closes the channel.
SessionStep(k) ==
  /\ s[k].st = "open"
  /\ \/ s[k].queue > 0 /\ s[k].conn = "open" /\ s' = [s EXCEPT ![k].queue = @ - 1]
     \/ (s[k].reader = "failed" \/ cancel \/ s[k].closed \/ (s[k].queue > 0 /\ s[k].conn # "open"))
        /\ s' = [s EXCEPT ![k].st = "leaving", ![k].closed = TRUE, ![k].conn = "closed"]
  /\ UNCHANGED <<loop, eager, udp, cancel, stop, table>> /\ UNCHANGED svars

\* The reader of the channel ends: channel closed, idle timeout, or the local
\* socket cannot be written.
ReaderEnds(k) ==
  /\ s[k].reader = "runs"
  /\ s' = [s EXCEPT ![k].reader = "failed", ![k].conn = IF @ = "open" THEN "gone" ELSE @]
  /\ UNCHANGED <<loop, eager, udp, cancel, stop, table>> /\ UNCHANGED svars

\* readWG.Wait, then the goroutine removes its own session from the map.
Removes(k) ==
  /\ s[k].st = "leaving" /\ s[k].reader # "runs"
  /\ s' = [s EXCEPT ![k].st = "over"]
  /\ table' = IF Mine(k[1]) = k THEN [table EXCEPT ![k[1]] = 0] ELSE table
  /\ UNCHANGED <<loop, eager, udp, cancel, stop>> /\ UNCHANGED svars

\* The deferred calls: cancelSessions, then closeSessions on a snapshot of the
\* map, then wg.Wait.
CloseSessions ==
  /\ loop = "leaving" /\ (~cancel \/ udp \/ \E p \in InMap : ~s[Mine(p)].closed)
  /\ cancel' = TRUE /\ udp' = FALSE
  /\ s' = [k \in DOMAIN s |-> IF k[2] # 0 /\ table[k[1]] = k[2]
                              THEN [s[k] EXCEPT !.closed = TRUE, !.conn = IF @ = "open" THEN "closed" ELSE @] ELSE s[k]]
  /\ UNCHANGED <<loop, eager, stop, table>> /\ UNCHANGED svars

BridgeReturns ==
  /\ loop = "leaving" /\ cancel /\ \A k \in DOMAIN s : s[k].st \in {"none", "over"}
  /\ loop' = "returned"
  /\ UNCHANGED <<eager, udp, cancel, stop, table, s>> /\ UNCHANGED svars

InterruptBridge ==
  /\ ~stop /\ loop # "returned"
  /\ stop' = TRUE /\ cancel' = TRUE /\ udp' = FALSE
  /\ UNCHANGED <<loop, eager, table, s>> /\ UNCHANGED svars

BridgeInit ==
  /\ eager \in Peers \cup {"none"} /\ loop = (IF eager = "none" THEN "reads" ELSE "eager")
  /\ udp = TRUE /\ cancel = FALSE /\ stop = FALSE
  /\ table = [p \in Peers |-> 0] /\ s = [k \in Peers \X (1..MaxDials) |-> Absent]

ReaderStops(k) == s[k].conn = "closed" /\ ReaderEnds(k)
BridgeRuns ==
  \/ OpenEagerly \/ CloseSessions \/ BridgeReturns \/ (~udp /\ BridgeStops)
  \/ \E k \in DOMAIN s : Dial(k) \/ SessionStep(k) \/ ReaderStops(k) \/ Removes(k)
BridgeNext ==
  \/ BridgeRuns \/ BridgeStops \/ InterruptBridge
  \/ \E p \in Peers : ReceiveUDP(p)
  \/ \E k \in DOMAIN s : ReaderEnds(k)

----------------------------------------------------------------------------
Init == SessionInit /\ BridgeInit
Next == SessionNext \/ BridgeNext
Spec == Init /\ [][Next]_vars

\* The goroutines run; nothing is assumed of the tunnel, of the reader of the
\* output, of the child or of the local peers, but a write that is possible
\* again and again completes.
FairSession == WF_vars(SessionRuns) /\ SF_vars(RecvWrites)
FairBridge == WF_vars(BridgeRuns)

TypeOK ==
  /\ mode \in {"stdio", "exec", "udp"} /\ conn \in {"open", "gone", "closed"} /\ out \in {"takes", "full"}
  /\ recv \in {"read", "write", "ok", "error"} /\ send \in {"off", "read", "ok", "error"}
  /\ main \in {"runs", "leaving", "joined", "over"} /\ came \in 0..MaxPackets
  /\ loop \in {"eager", "reads", "leaving", "returned"} /\ table \in [Peers -> 0..MaxDials]
  /\ \A k \in DOMAIN s : s[k].queue \in 0..QueueSize

\* A session that is over has closed its channel, joined both its loops and
\* reaped its child.
SessionClean == main = "over" => conn = "closed" /\ Ended(recv) /\ Ended(send) /\ child \in {"none", "reaped"}

\* Packet boundaries survive the framing: as many datagrams went out as whole
\* frames of admissible size were read.
FramesKept ==
  \E all \in Inputs : LET read == SubSeq(all, 1, Len(all) - Len(input)) IN
    /\ Len(input) <= Len(all) /\ SubSeq(all, Len(read) + 1, Len(all)) = input
    /\ Len(sent) \in {Len(SelectSeq(read, LAMBDA f : f = "frame")) - i : i \in IF conn = "open" THEN {0} ELSE {0, 1}}

\* One session per local peer, within the limit: no two sessions of a peer hold
\* a channel at once, and the map's session is the latest one.
OnePerPeer ==
  /\ Cardinality(InMap) <= MaxConns
  /\ \A p \in Peers : /\ Cardinality({i \in 1..MaxDials : s[<<p, i>>].st \in {"dialling", "open", "leaving"}}) <= 1
                      /\ table[p] # 0 => s[Mine(p)].st # "over"

\* When the bridge returned every channel it dialled is closed, whatever the
\* order of the dial's answer and of the close.
BridgeClean == loop = "returned" => \A k \in DOMAIN s : s[k].conn \in {"none", "closed"} /\ s[k].reader # "runs"

DatagramsInv == SessionClean /\ FramesKept /\ OnePerPeer /\ BridgeClean

\* Under fair goroutines a session that is interrupted, or whose channel was
\* closed, is over, as long as its output is taken; an interrupted bridge
\* returns.
Settled ==
  /\ (ctx \/ conn # "open") /\ out = "takes" => main = "over"
  /\ stop => loop = "returned"
====
