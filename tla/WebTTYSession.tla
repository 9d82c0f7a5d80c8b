---------------------------- MODULE WebTTYSession ----------------------------
(* One session of a WebTTY server: the loop that reads the client's        *)
(* messages and opens the process, the loops that wait for the process,    *)
(* copy its output, terminate it and send heartbeats, the timers, the      *)
(* shutdown of the server, and the cleanup that ends the session. The      *)
(* process group is the one of Linux and Darwin; signals reach it.         *)
EXTENDS Integers, Sequences, TLAPS

CONSTANTS
  MaxMessages,   \* bound: messages of the client
  MaxData        \* bound: chunks of output

Streams == {"stdout", "stderr"}
Loops == {"read", "wait", "stdout", "stderr", "terminate", "heartbeat"}

\* Where a goroutine may be.
Spots == {"none", "start", "hello", "read", "stdin", "attach", "prepare", "rejected", "publish", "ack", "started", "group",
          "join", "reap", "exit", "data", "eos", "after", "close", "handshake", "signal", "grace", "result", "beat", "fail",
          "ended"}

VARIABLES
  closed, opened, disconnecting, shutdownReq, terminationReq, childDone,
  tty,        \* the process has a terminal: one output stream
  child,      \* the leader of the process group
  stray,      \* another process of the group lives and holds the output open
  group,      \* childProcessGroup, with its released flag
  files,      \* the terminal or the pipes of the server's side
  stdin,      \* stdinPipe and stdinClosed
  streams,    \* streamsOpen and streamsEnding
  conn,       \* the connection: open, lost by the peer, closed here
  loop,       \* where each goroutine of the session is
  askStop,    \* shutdownReq as handleOpen read it
  openTimer, closeTimer,
  stopper,    \* the caller of shutdown
  cleaner,    \* sessionCleanup
  wire,       \* the messages written
  received, chunks,  \* bounds
  ackFailed, lateSignal  \* history: the ACK was not sent; a signal after the leader was reaped

flagVars == <<opened, disconnecting, shutdownReq, terminationReq, childDone>>
procVars == <<tty, child, stray, group, files, stdin>>
timeVars == <<openTimer, closeTimer>>
endVars == <<closed, timeVars, cleaner>>
boundVars == <<received, chunks>>
histVars == <<ackFailed, lateSignal>>
vars == <<flagVars, procVars, streams, conn, loop, askStop, stopper, endVars, wire, boundVars, histVars>>

TypeOK ==
  /\ {closed, opened, disconnecting, shutdownReq, terminationReq, childDone, tty, stray, askStop,
      openTimer, closeTimer, ackFailed, lateSignal} \subseteq BOOLEAN
  /\ child \in {"none", "running", "exited", "reaped"} /\ group \in {"none", "held", "released"}
  /\ files \in {"none", "open", "closed"} /\ stdin \in {"none", "open", "closed"}
  /\ streams \in [Streams -> {"off", "open", "ending", "ended"}] /\ conn \in {"open", "lost", "closed"}
  /\ loop \in [Loops -> Spots]
  /\ stopper \in {"idle", "request", "wait", "kill", "cleanup", "last", "returned"}
  /\ cleaner \in {"none", "process", "conn", "join", "done"}
  /\ received \in 0..MaxMessages /\ chunks \in 0..MaxData

\* newSession, with its open timer.
Init ==
  /\ closed = FALSE /\ opened = FALSE /\ disconnecting = FALSE /\ shutdownReq = FALSE
  /\ terminationReq = FALSE /\ childDone = FALSE
  /\ tty = FALSE /\ child = "none" /\ stray = FALSE /\ group = "none" /\ files = "none" /\ stdin = "none"
  /\ streams = [t \in Streams |-> "off"] /\ conn = "open"
  /\ loop = [l \in Loops |-> IF l = "read" THEN "start" ELSE "none"]
  /\ askStop = FALSE /\ openTimer = TRUE /\ closeTimer = FALSE
  /\ stopper = "idle" /\ cleaner = "none"
  /\ wire = <<>> /\ received = 0 /\ chunks = 0 /\ ackFailed = FALSE /\ lateSignal = FALSE

----------------------------------------------------------------------------
(* What the goroutines share. *)

Goto(l, at) == loop' = [loop EXCEPT ![l] = at]

\* close and detachCleanupLocked: the first caller takes the resources to the cleanup.
Close ==
  IF closed THEN UNCHANGED endVars
  ELSE closed' = TRUE /\ openTimer' = FALSE /\ closeTimer' = FALSE /\ cleaner' = "process"

\* writeMessage by loop l: refused once the session is closed, or failed by the
\* connection. The session may be closed between the test and the write.
Write(l, m, sent, failed) ==
  \/ conn # "closed" /\ wire' = Append(wire, m) /\ Goto(l, sent)
  \/ (closed \/ conn # "open") /\ Goto(l, failed) /\ UNCHANGED wire

Message(type, of) == [type |-> type, of |-> of]

\* signal of the process group: nothing once it is released.
Interrupt == lateSignal' = (lateSignal \/ (group = "held" /\ child = "reaped"))

\* kill of the group ends its processes, the leader stays to be waited for.
Kill ==
  /\ Interrupt
  /\ child' = IF group = "held" /\ child = "running" THEN "exited" ELSE child
  /\ stray' = (stray /\ group # "held")

\* error of a loop: the session closes and the loop returns.
Fail(l) ==
  /\ loop[l] = "fail" /\ Close /\ Goto(l, "ended")
  /\ UNCHANGED <<flagVars, procVars, streams, conn, askStop, stopper, wire, boundVars, histVars>>

\* startCloseHandshake; the close frame may not go out.
Handshake(l) ==
  /\ loop[l] = "handshake" /\ Goto(l, IF l = "read" THEN "read" ELSE "ended")
  /\ IF closed \/ disconnecting THEN UNCHANGED <<disconnecting, endVars>>
     ELSE /\ disconnecting' = TRUE
          /\ \/ closeTimer' = TRUE /\ UNCHANGED <<closed, openTimer, cleaner>>
             \/ conn # "open" /\ Close
  /\ UNCHANGED <<opened, shutdownReq, terminationReq, childDone, procVars, streams, conn, askStop, stopper, wire, boundVars, histVars>>

\* doClose: the exit of the process is the last message.
DoClose(l) ==
  /\ loop[l] = "close" /\ Write(l, Message("close", "session"), "handshake", "fail")
  /\ UNCHANGED <<flagVars, procVars, streams, conn, askStop, stopper, endVars, boundVars, histVars>>

----------------------------------------------------------------------------
(* run, readLoop and the messages of the client. *)

\* The transport's first message and the server's hello.
Run ==
  /\ loop["read"] = "start"
  /\ \/ Goto("read", "hello") /\ UNCHANGED wire
     \/ Write("read", Message("hello", "session"), "hello", "fail")
     \/ Goto("read", "fail") /\ UNCHANGED wire
  /\ UNCHANGED <<flagVars, procVars, streams, conn, askStop, stopper, endVars, boundVars, histVars>>

StartReading ==
  /\ loop["read"] = "hello" /\ Goto("read", IF closed THEN "ended" ELSE "read")
  /\ UNCHANGED <<flagVars, procVars, streams, conn, askStop, stopper, endVars, wire, boundVars, histVars>>

\* The connection ends: expected or not, the session closes.
ReadFails ==
  /\ loop["read"] = "read" /\ conn # "open" /\ Goto("read", IF closed THEN "ended" ELSE "fail")
  /\ UNCHANGED <<flagVars, procVars, streams, conn, askStop, stopper, endVars, wire, boundVars, histVars>>

\* A message arrives; a closed session does not handle it.
Receive(then) ==
  /\ loop["read"] = "read" /\ conn = "open" /\ received < MaxMessages /\ received' = received + 1
  /\ Goto("read", IF closed THEN "ended" ELSE then)

ReadOpen ==
  /\ Receive(IF opened THEN "fail" ELSE "prepare")
  /\ UNCHANGED <<flagVars, procVars, streams, conn, askStop, stopper, endVars, wire, chunks, histVars>>

\* Attach is not for a direct server; an Error of the client or an unknown message ends the session.
ReadRefused ==
  /\ Receive("attach") \/ Receive("fail")
  /\ UNCHANGED <<flagVars, procVars, streams, conn, askStop, stopper, endVars, wire, chunks, histVars>>

RefuseAttach ==
  /\ loop["read"] = "attach" /\ Write("read", Message("error", "session"), "fail", "fail")
  /\ UNCHANGED <<flagVars, procVars, streams, conn, askStop, stopper, endVars, boundVars, histVars>>

\* handleData and writeStdinPayload: a pipe the process has closed is closed here too.
ReadStdin ==
  /\ Receive(IF ~opened THEN "fail" ELSE IF stdin = "open" THEN "stdin" ELSE "read")
  /\ UNCHANGED <<flagVars, procVars, streams, conn, askStop, stopper, endVars, wire, chunks, histVars>>

\* The process reads its input, when it likes.
StdinTaken ==
  /\ loop["read"] = "stdin" /\ files = "open" /\ Goto("read", "read")
  /\ UNCHANGED <<flagVars, procVars, streams, conn, askStop, stopper, endVars, wire, boundVars, histVars>>

StdinBroken ==
  /\ loop["read"] = "stdin" /\ (files = "closed" \/ (child # "running" /\ ~stray))
  /\ Goto("read", IF tty THEN "fail" ELSE "read")
  /\ stdin' = IF tty THEN stdin ELSE "closed"
  /\ UNCHANGED <<flagVars, tty, child, stray, group, files, streams, conn, askStop, stopper, endVars, wire, boundVars, histVars>>

ReadStdinEnd ==
  /\ Receive(IF ~opened THEN "fail" ELSE "read")
  /\ stdin' = IF opened /\ ~closed /\ ~tty THEN "closed" ELSE stdin
  /\ UNCHANGED <<flagVars, tty, child, stray, group, files, streams, conn, askStop, stopper, endVars, wire, chunks, histVars>>

\* doResize; the size of the terminal is not modelled.
ReadResize ==
  /\ Receive(IF opened /\ tty THEN "read" ELSE "fail")
  /\ UNCHANGED <<flagVars, procVars, streams, conn, askStop, stopper, endVars, wire, chunks, histVars>>

\* handleTerminate starts one terminating loop.
ReadTerminate ==
  /\ loop["read"] = "read" /\ conn = "open" /\ received < MaxMessages /\ received' = received + 1
  /\ LET start == ~closed /\ opened /\ ~childDone /\ ~terminationReq IN
       /\ terminationReq' = (terminationReq \/ start)
       /\ loop' = [loop EXCEPT !["read"] = IF closed THEN "ended" ELSE IF opened THEN "read" ELSE "fail",
                               !["terminate"] = IF start THEN "signal" ELSE @]
  /\ UNCHANGED <<opened, disconnecting, shutdownReq, childDone, procVars, streams, conn, askStop, stopper, endVars, wire, chunks, histVars>>

----------------------------------------------------------------------------
(* handleOpen. *)

\* prepareOpen verifies the client, resolves the user and the key, and starts the process.
PrepareOpen ==
  /\ loop["read"] = "prepare"
  /\ \/ Goto("read", "rejected") /\ UNCHANGED procVars
     \/ /\ Goto("read", "publish") /\ tty' \in BOOLEAN /\ stray' \in BOOLEAN
        /\ child' = "running" /\ group' = "held" /\ files' = "open" /\ stdin' = "open"
  /\ UNCHANGED <<flagVars, streams, conn, askStop, stopper, endVars, wire, boundVars, histVars>>

RejectOpen ==
  /\ loop["read"] = "rejected" /\ Write("read", Message("error", "session"), "handshake", "fail")
  /\ UNCHANGED <<flagVars, procVars, streams, conn, askStop, stopper, endVars, boundVars, histVars>>

\* sessionOpenResources.close: the process is killed, waited for, and its files closed.
CloseResources ==
  /\ Interrupt
  /\ child' = "reaped" /\ stray' = FALSE /\ group' = "released" /\ files' = "closed" /\ stdin' = "closed"
  /\ Goto("read", "ended") /\ UNCHANGED tty

\* Publish, with the output copied from then on.
PublishStarts ==
  /\ loop["read"] = "publish"
  /\ IF closed THEN CloseResources /\ UNCHANGED <<opened, streams, openTimer, askStop>>
     ELSE /\ opened' = TRUE /\ openTimer' = FALSE /\ askStop' = shutdownReq
          /\ streams' = [t \in Streams |-> IF t = "stdout" \/ ~tty THEN "open" ELSE "off"]
          /\ loop' = [loop EXCEPT !["read"] = "ack", !["stdout"] = "read"] /\ UNCHANGED <<procVars, lateSignal>>
  /\ UNCHANGED <<disconnecting, shutdownReq, terminationReq, childDone, conn, stopper, closed, closeTimer, cleaner, wire, boundVars, ackFailed>>

\* The state of the process is published before the ACK.
Publish ==
  /\ loop["read"] = "publish"
  /\ IF closed THEN CloseResources /\ UNCHANGED <<opened, streams, openTimer, askStop>>
     ELSE /\ opened' = TRUE /\ openTimer' = FALSE /\ askStop' = shutdownReq
          /\ streams' = [t \in Streams |-> IF t = "stdout" \/ ~tty THEN "open" ELSE "off"]
          /\ Goto("read", "ack") /\ UNCHANGED <<procVars, lateSignal>>
  /\ UNCHANGED <<disconnecting, shutdownReq, terminationReq, childDone, conn, stopper, closed, closeTimer, cleaner, wire, boundVars, ackFailed>>

SendAck ==
  /\ loop["read"] = "ack" /\ Write("read", Message("ack", "session"), "started", "fail")
  /\ ackFailed' = (ackFailed \/ loop'["read"] = "fail")
  /\ UNCHANGED <<flagVars, procVars, streams, conn, askStop, stopper, endVars, boundVars, lateSignal>>

\* The loops start after the ACK, so that no output overtakes it.
StartLoops ==
  /\ loop["read"] = "started"
  /\ IF closed THEN CloseResources
     ELSE /\ loop' = [l \in Loops |-> CASE l = "read" -> "read" [] l = "wait" -> "group"
                        [] l = "heartbeat" -> "beat" [] l = "terminate" -> loop[l]
                        [] OTHER -> IF streams[l] = "open" THEN "read" ELSE "ended"]
          /\ IF askStop THEN Interrupt ELSE UNCHANGED lateSignal
          /\ UNCHANGED procVars
  /\ UNCHANGED <<flagVars, streams, conn, askStop, stopper, endVars, wire, boundVars, ackFailed>>

----------------------------------------------------------------------------
(* The loops of an open session. *)

Ended == \A t \in Streams : streams[t] \in {"off", "ended"}

\* copyStreamLoop reads output, or its end.
ReadStream(t) ==
  /\ loop[t] = "read"
  /\ \/ /\ files = "open" /\ chunks < MaxData /\ chunks' = chunks + 1
        /\ Goto(t, IF closed THEN "ended" ELSE "data") /\ UNCHANGED streams
     \/ /\ files = "closed" \/ (child # "running" /\ ~stray)
        /\ streams' = IF closed THEN streams ELSE [streams EXCEPT ![t] = "ending"]
        /\ Goto(t, IF closed THEN "ended" ELSE "eos") /\ UNCHANGED chunks
  /\ UNCHANGED <<flagVars, procVars, conn, askStop, stopper, endVars, wire, received, histVars>>

\* Any other error of the read ends the session.
StreamBroken(t) ==
  /\ loop[t] = "read" /\ Goto(t, IF closed THEN "ended" ELSE "fail")
  /\ UNCHANGED <<flagVars, procVars, streams, conn, askStop, stopper, endVars, wire, boundVars, histVars>>

\* sendData, and sendEOS.
SendStream(t) ==
  /\ loop[t] \in {"data", "eos"}
  /\ Write(t, Message(loop[t], t), IF loop[t] = "data" THEN "read" ELSE "after", "fail")
  /\ UNCHANGED <<flagVars, procVars, streams, conn, askStop, stopper, endVars, boundVars, histVars>>

\* The stream that ends last closes the session, when the process has exited.
AfterEnd(t) ==
  /\ loop[t] = "after" /\ streams' = [streams EXCEPT ![t] = "ended"]
  /\ Goto(t, IF Ended' /\ childDone THEN "close" ELSE "ended")
  /\ UNCHANGED <<flagVars, procVars, conn, askStop, stopper, endVars, wire, boundVars, histVars>>

\* WaitGroup, with the group released by the cleanup.
WaitGroupHeld ==
  /\ loop["wait"] = "group" /\ child = "exited" /\ Kill /\ Goto("wait", IF tty THEN "reap" ELSE "join")
  /\ UNCHANGED <<flagVars, tty, group, files, stdin, streams, conn, askStop, stopper, endVars, wire, boundVars, ackFailed>>

\* waitOwnedProcessExit: the group is stopped and released before the leader is reaped.
WaitGroup ==
  /\ loop["wait"] = "group" /\ child = "exited" /\ Kill /\ group' = "released"
  /\ Goto("wait", IF tty THEN "reap" ELSE "join")
  /\ UNCHANGED <<flagVars, tty, files, stdin, streams, conn, askStop, stopper, endVars, wire, boundVars, ackFailed>>

\* waitPipedProcessLoop waits for the copies before it closes their pipes.
WaitCopies ==
  /\ loop["wait"] = "join" /\ loop["stdout"] = "ended" /\ loop["stderr"] = "ended" /\ Goto("wait", "reap")
  /\ UNCHANGED <<flagVars, procVars, streams, conn, askStop, stopper, endVars, wire, boundVars, histVars>>

Reap ==
  /\ loop["wait"] = "reap" /\ child' = "reaped" /\ Goto("wait", "exit")
  /\ UNCHANGED <<flagVars, tty, stray, group, files, stdin, streams, conn, askStop, stopper, endVars, wire, boundVars, histVars>>


\* onChildExit closes the session when no stream is left.
ChildExit ==
  /\ loop["wait"] = "exit" /\ childDone' = (childDone \/ ~closed)
  /\ Goto("wait", IF ~closed /\ Ended THEN "close" ELSE "ended")
  /\ UNCHANGED <<opened, disconnecting, shutdownReq, terminationReq, procVars, streams, conn, askStop, stopper, endVars, wire, boundVars, histVars>>

\* heartbeatLoop: a heartbeat that is not sent ends the session.
Beat ==
  /\ loop["heartbeat"] = "beat"
  /\ \/ closed /\ Goto("heartbeat", "ended")
     \/ ~closed /\ conn # "open" /\ Goto("heartbeat", "fail")
  /\ UNCHANGED <<flagVars, procVars, streams, conn, askStop, stopper, endVars, wire, boundVars, histVars>>

\* terminateProcess: an interrupt, a grace, a kill, and a last wait.
AskExit ==
  /\ loop["terminate"] = "signal" /\ Interrupt /\ Goto("terminate", "grace")
  /\ UNCHANGED <<flagVars, procVars, streams, conn, askStop, stopper, endVars, wire, boundVars, ackFailed>>

GraceEnds ==
  /\ loop["terminate"] = "grace"
  /\ \/ (childDone \/ closed) /\ Goto("terminate", "ended") /\ UNCHANGED <<child, stray, lateSignal>>
     \/ Kill /\ Goto("terminate", "result")
  /\ UNCHANGED <<flagVars, tty, group, files, stdin, streams, conn, askStop, stopper, endVars, wire, boundVars, ackFailed>>

ResultEnds ==
  /\ loop["terminate"] = "result" /\ Goto("terminate", IF childDone \/ closed THEN "ended" ELSE "fail")
  /\ UNCHANGED <<flagVars, procVars, streams, conn, askStop, stopper, endVars, wire, boundVars, histVars>>

----------------------------------------------------------------------------
(* Timers, shutdown and cleanup. *)

OpenTimeout ==
  /\ openTimer /\ ~closed /\ ~opened /\ Close
  /\ UNCHANGED <<flagVars, procVars, streams, conn, loop, askStop, stopper, wire, boundVars, histVars>>

CloseTimeout ==
  /\ closeTimer /\ ~closed /\ Close
  /\ UNCHANGED <<flagVars, procVars, streams, conn, loop, askStop, stopper, wire, boundVars, histVars>>

\* shutdown: a session without a process closes at once.
Shutdown ==
  /\ stopper = "idle"
  /\ IF closed THEN stopper' = "cleanup" /\ UNCHANGED <<shutdownReq, endVars>>
     ELSE /\ shutdownReq' = TRUE
          /\ stopper' = IF opened THEN (IF childDone THEN "wait" ELSE "request") ELSE "returned"
          /\ IF opened THEN UNCHANGED endVars ELSE Close
  /\ UNCHANGED <<opened, disconnecting, terminationReq, childDone, procVars, streams, conn, loop, askStop, wire, boundVars, histVars>>

ShutdownAsks ==
  /\ stopper = "request" /\ Interrupt /\ stopper' = "wait"
  /\ UNCHANGED <<flagVars, procVars, streams, conn, loop, askStop, endVars, wire, boundVars, ackFailed>>

\* The session ended, or the deadline of the shutdown passed.
ShutdownWaits ==
  /\ stopper = "wait" /\ stopper' \in {"kill"} \cup (IF cleaner = "done" THEN {"returned"} ELSE {})
  /\ UNCHANGED <<flagVars, procVars, streams, conn, loop, askStop, endVars, wire, boundVars, histVars>>

ShutdownKills ==
  /\ stopper = "kill" /\ stopper' = "cleanup" /\ Close
  /\ IF childDone THEN UNCHANGED <<child, stray, lateSignal>> ELSE Kill
  /\ UNCHANGED <<flagVars, tty, group, files, stdin, streams, conn, loop, askStop, wire, boundVars, ackFailed>>

\* waitForCleanup closes the connection at the deadline and waits a little more.
ShutdownJoins ==
  /\ \/ stopper = "cleanup" /\ cleaner = "done" /\ stopper' = "returned" /\ UNCHANGED conn
     \/ stopper = "cleanup" /\ stopper' = "last" /\ conn' = "closed"
     \/ stopper = "last" /\ stopper' = "returned" /\ UNCHANGED conn
  /\ UNCHANGED <<flagVars, procVars, streams, loop, askStop, endVars, wire, boundVars, histVars>>

\* sessionCleanup.run: the process, its group, the files and the connection, in this order.
CleanProcess ==
  /\ cleaner = "process" /\ cleaner' = "conn"
  /\ IF opened THEN Kill /\ group' = "released" /\ files' = "closed" /\ stdin' = "closed"
               ELSE UNCHANGED <<child, stray, group, files, stdin, lateSignal>>
  /\ UNCHANGED <<flagVars, tty, streams, conn, loop, askStop, stopper, closed, timeVars, wire, boundVars, ackFailed>>

CleanConn ==
  /\ cleaner = "conn" /\ cleaner' = "join" /\ conn' = "closed"
  /\ UNCHANGED <<flagVars, procVars, streams, loop, askStop, stopper, closed, timeVars, wire, boundVars, histVars>>

\* finish closes doneCh after the last loop of the session.
Finish ==
  /\ cleaner = "join" /\ \A l \in Loops : loop[l] \in {"none", "start", "hello", "ended"}
  /\ cleaner' = "done"
  /\ UNCHANGED <<flagVars, procVars, streams, conn, loop, askStop, stopper, closed, timeVars, wire, boundVars, histVars>>

\* The process and its group, and the peer.
Exit ==
  /\ \/ child = "running" /\ child' = "exited" /\ UNCHANGED stray
     \/ stray /\ stray' = FALSE /\ UNCHANGED child
  /\ UNCHANGED <<flagVars, tty, group, files, stdin, streams, conn, loop, askStop, stopper, endVars, wire, boundVars, histVars>>

PeerLost ==
  /\ conn = "open" /\ conn' = "lost"
  /\ UNCHANGED <<flagVars, procVars, streams, loop, askStop, stopper, endVars, wire, boundVars, histVars>>

----------------------------------------------------------------------------
(* Properties. *)

Wrote(type) == \E i \in DOMAIN wire : wire[i].type = type

\* No signal is sent to a process group whose leader was reaped: its number may be another's.
NoLateSignal == ~lateSignal

\* The exit is reported once the process was reaped and its streams ended.
CloseIsLast == Wrote("close") => childDone /\ child = "reaped" /\ Ended

\* When doneCh closes, no goroutine of the session runs, no process of the group lives,
\* and the process was reaped, unless the ACK of its Open could not be sent.
DoneClean ==
  cleaner = "done" =>
    /\ \A l \in Loops \ {"read"} : loop[l] \in {"none", "ended"}
    /\ child # "running" /\ ~stray /\ group # "held" /\ conn = "closed"
    /\ child = "exited" => ackFailed

\* A process that runs has an owner: handleOpen, the waiting loop, or the cleanup of a closed session.
Owned ==
  child = "running" =>
    \/ loop["read"] \in {"publish", "ack", "started"} \/ loop["wait"] = "group"
    \/ (ackFailed /\ loop["read"] = "fail") \/ cleaner = "process"

\* A session that has sent its Close sends no output any more and ends: it waits for
\* the peer or for the close timer.
ClosingIsTimed ==
  Wrote("close") /\ ~closed => closeTimer \/ \E l \in Loops : loop[l] \in {"handshake", "fail"}

\* No signal goes astray, the exit is the last thing said, and what a session started it ends.
SessionInv == TypeOK /\ NoLateSignal /\ CloseIsLast /\ DoneClean /\ Owned /\ ClosingIsTimed

\* The messages written follow the protocol the client relies on.
Log == INSTANCE SessionLog WITH log <- wire
WireProtocol == Log!Spec

\* Nothing is left pending: a closed session is cleaned up, a shutdown returns, a termination ends
\* the process or the session, and a process that exited with its streams ended closes the session.
Settled ==
  /\ closed => cleaner = "done"
  /\ stopper \in {"idle", "returned"}
  /\ terminationReq => childDone \/ closed
  /\ childDone /\ Ended => closed

----------------------------------------------------------------------------
Opening == Run \/ StartReading \/ RefuseAttach \/ PrepareOpen \/ RejectOpen \/ StdinBroken \/ Publish \/ SendAck \/ StartLoops
Reading == StdinTaken \/ ReadOpen \/ ReadRefused \/ ReadStdin \/ ReadStdinEnd \/ ReadResize \/ ReadTerminate
Copying == \E t \in Streams : ReadStream(t) \/ StreamBroken(t) \/ SendStream(t) \/ AfterEnd(t)
Waiting == WaitGroup \/ WaitCopies \/ Reap \/ ChildExit
Terminating == AskExit \/ GraceEnds \/ ResultEnds
Ending == \E l \in Loops : Fail(l) \/ Handshake(l) \/ DoClose(l)
Stopping == ShutdownAsks \/ ShutdownWaits \/ ShutdownKills \/ ShutdownJoins
Cleaning == CleanProcess \/ CleanConn \/ Finish

Next ==
  \/ Opening \/ Reading \/ ReadFails \/ Copying \/ Waiting \/ Beat \/ Terminating \/ Ending
  \/ OpenTimeout \/ CloseTimeout \/ Shutdown \/ Stopping \/ Cleaning \/ Exit \/ PeerLost

Spec == Init /\ [][Next]_vars

\* Goroutines run, and the close timer fires. Nobody need call Shutdown, send a message or exit.
Runs ==
  \/ Opening \/ ReadFails \/ Waiting \/ Beat \/ Terminating \/ Ending \/ CloseTimeout \/ Stopping \/ Cleaning
  \/ \E t \in Streams : ReadStream(t) \/ SendStream(t) \/ AfterEnd(t)

FairSpec == Spec /\ WF_vars(Runs)

----------------------------------------------------------------------------
(* Proofs. *)

\* Unless a step says otherwise, the first-order prover suffices.
USE Zenon

Reader == loop["read"]
Waiter == loop["wait"]

\* Where each goroutine can be.
PlaceInv ==
  /\ Reader \in {"start", "hello", "read", "stdin", "attach", "prepare", "rejected", "publish", "ack", "started",
                 "handshake", "fail", "ended"}
  /\ Waiter \in {"none", "group", "join", "reap", "exit", "close", "handshake", "fail", "ended"}
  /\ \A t \in Streams : loop[t] \in {"none", "read", "data", "eos", "after", "close", "handshake", "fail", "ended"}
  /\ loop["terminate"] \in {"none", "signal", "grace", "result", "fail", "ended"}
  /\ loop["heartbeat"] \in {"none", "beat", "fail", "ended"}

\* The session opens once, and its loops start once, after the ACK.
PhaseInv ==
  /\ Reader \in {"start", "hello", "prepare", "rejected", "publish", "handshake"} => ~opened
  /\ Reader \in {"ack", "started"} => opened /\ Waiter = "none" /\ ~ackFailed
  /\ ~opened => Waiter = "none" /\ ~ackFailed
  /\ Waiter = "none" => \A l \in Loops \ {"read"} : loop[l] = "none"
  /\ Waiter # "none" => ~ackFailed /\ \A t \in Streams : loop[t] # "none"
  /\ Waiter = "none" /\ opened =>
       \/ Reader \in {"ack", "started"} \/ (Reader = "fail" /\ ackFailed)
       \/ Reader = "ended" /\ closed /\ (ackFailed \/ child = "reaped")

\* The process and its group: the group is released before the leader is reaped.
ProcInv ==
  /\ ~opened =>
       \/ Reader = "publish" /\ child \in {"running", "exited"} /\ group = "held"
       \/ Reader # "publish" /\ child = "none" /\ group = "none" /\ ~stray
       \/ Reader = "ended" /\ child = "reaped" /\ group = "released"
  /\ opened => child # "none" /\ group # "none"
  /\ child = "reaped" => group = "released"
  /\ group = "released" => ~stray /\ child \in {"exited", "reaped"}
  /\ Waiter \in {"join", "reap"} => group = "released"
  /\ Waiter \in {"exit", "close", "handshake", "fail", "ended"} => child = "reaped"
  /\ childDone => Waiter \in {"close", "handshake", "fail", "ended"}

\* The cleanup.
EndInv ==
  /\ closed <=> cleaner # "none"
  /\ cleaner \in {"conn", "join", "done"} /\ opened => group = "released"
  /\ cleaner \in {"join", "done"} => conn = "closed"
  /\ cleaner = "done" =>
       /\ Reader \in {"start", "hello", "fail", "ended"} /\ (Reader # "ended" => ~opened)
       /\ \A l \in Loops \ {"read"} : loop[l] \in {"none", "ended"}
  /\ disconnecting /\ ~closed => closeTimer

\* A stream and the loop that copies it.
StreamOK(t) ==
  /\ ~opened => streams[t] = "off"
  /\ Waiter = "none" => streams[t] \in {"off", "open"}
  /\ loop[t] \in {"read", "data"} => streams[t] = "open"
  /\ loop[t] \in {"eos", "after"} => streams[t] = "ending"

StreamInv == (opened => streams["stdout"] # "off") /\ \A t \in Streams : StreamOK(t)

Messages == {Message(type, "session") : type \in {"hello", "ack", "error", "close"}}
            \cup {Message(type, t) : type \in {"data", "eos"}, t \in Streams}

Said(type, of) == Log!Logged(Message(type, of))

\* What was said of a stream, by where its loop is.
SaidOK(t) ==
  /\ Said("data", t) \/ Said("eos", t) => Waiter # "none"
  /\ Said("data", t) => streams[t] # "off"
  /\ loop[t] \in {"read", "data", "eos"} => ~Said("eos", t)
  /\ loop[t] = "after" \/ streams[t] = "ended" => Said("eos", t)

WireInv ==
  /\ wire \in Seq(Messages)
  /\ Reader = "start" => wire = <<>>
  /\ Said("ack", "session") => opened /\ Reader # "ack"
  /\ Reader = "started" \/ Waiter # "none" => Said("ack", "session")
  /\ \A t \in Streams : SaidOK(t)

\* One loop reports the exit, when the process is reaped and the streams ended.
CloseOK(l) ==
  loop[l] = "close" => childDone /\ Ended /\ ~Said("close", "session") /\ \A m \in Loops : loop[m] = "close" => m = l

\* Once the exit is reported, a loop or a timer is about to end the session.
CloseGoesOn == closeTimer \/ \E l \in Loops : loop[l] \in {"handshake", "fail"}

CloseInv ==
  /\ Said("close", "session") => childDone /\ Ended
  /\ \A l \in Loops : CloseOK(l)
  /\ Said("close", "session") /\ ~closed => CloseGoesOn

CoreInv == PlaceInv /\ PhaseInv /\ ProcInv /\ EndInv /\ StreamInv /\ WireInv /\ CloseInv

SessionIInv == TypeOK /\ ~lateSignal /\ CoreInv

----------------------------------------------------------------------------
(* What a step does to the loops and to the wire. *)

\* No loop but l moves.
Only(l) == loop' \in [Loops -> Spots] /\ \A m \in Loops \ {l} : loop'[m] = loop[m]

\* Nothing the client relies on is said.
Quiet ==
  /\ wire' \in Seq(Messages)
  /\ \A type, of : type \notin {"hello", "error"} => (Said(type, of)' <=> Said(type, of))

\* The one thing said is the message (type, of).
Says(type, of) ==
  /\ wire' \in Seq(Messages)
  /\ \A y, o : Said(y, o)' <=> Said(y, o) \/ (y = type /\ o = of)

\* A loop that goes somewhere is there, and the others stay.
LEMMA GotoOnly ==
  ASSUME loop \in [Loops -> Spots], NEW l \in Loops, NEW x \in Spots, Goto(l, x)
  PROVE  Only(l) /\ loop'[l] = x
BY DEF Goto, Only

LEMMA QuietSame == ASSUME wire \in Seq(Messages), UNCHANGED wire PROVE Quiet
BY DEF Quiet, Said, Log!Logged

\* A message appended to the wire is the one thing said.
LEMMA AppendSays ==
  ASSUME wire \in Seq(Messages), NEW type, NEW of, Message(type, of) \in Messages, wire' = Append(wire, Message(type, of))
  PROVE  Says(type, of)
<1>1. wire' \in Seq(Messages) /\ Len(wire') = Len(wire) + 1 /\ wire'[Len(wire) + 1] = Message(type, of)
  BY SMT
<1>2. \A i \in 1..Len(wire) : wire'[i] = wire[i]
  BY SMT
<1>3. \A m : Log!Logged(m)' <=> Log!Logged(m) \/ m = Message(type, of)
  <2> TAKE m
  <2>1. Log!Logged(m)' <=> \E i \in 1..Len(wire) + 1 : wire'[i] = m
    BY <1>1 DEF Log!Logged
  <2>2. Log!Logged(m) <=> \E i \in 1..Len(wire) : wire[i] = m
    BY DEF Log!Logged
  <2> QED BY SMT, <1>1, <1>2, <2>1, <2>2
<1>4. \A y, o : Message(y, o) = Message(type, of) <=> y = type /\ o = of
  BY DEF Message
<1> QED BY <1>1, <1>3, <1>4 DEF Says, Said

\* A write of a message, or none.
LEMMA WriteSays ==
  ASSUME wire \in Seq(Messages), loop \in [Loops -> Spots], NEW l \in Loops, NEW type, NEW of, NEW sent \in Spots, NEW failed \in Spots,
         Message(type, of) \in Messages, Write(l, Message(type, of), sent, failed)
  PROVE  /\ Only(l)
         /\ \/ Says(type, of) /\ loop'[l] = sent /\ wire' = Append(wire, Message(type, of))
            \/ Quiet /\ loop'[l] = failed /\ UNCHANGED wire
<1>1. CASE wire' = Append(wire, Message(type, of)) /\ Goto(l, sent)
  BY <1>1, AppendSays, GotoOnly
<1>2. CASE UNCHANGED wire /\ Goto(l, failed)
  BY <1>2, QuietSame, GotoOnly
<1> QED BY <1>1, <1>2 DEF Write

LEMMA SaysQuiet == ASSUME NEW type \in {"hello", "error"}, NEW of, Says(type, of) PROVE Quiet
BY DEF Says, Quiet

----------------------------------------------------------------------------
(* Types. *)

\* The flags, one by one.
LEMMA FlagTypes ==
  TypeOK => /\ closed \in BOOLEAN /\ opened \in BOOLEAN /\ disconnecting \in BOOLEAN /\ shutdownReq \in BOOLEAN
            /\ terminationReq \in BOOLEAN /\ childDone \in BOOLEAN /\ tty \in BOOLEAN /\ stray \in BOOLEAN /\ askStop \in BOOLEAN
            /\ openTimer \in BOOLEAN /\ closeTimer \in BOOLEAN /\ ackFailed \in BOOLEAN /\ lateSignal \in BOOLEAN
BY DEF TypeOK

LEMMA CloseTypes ==
  ASSUME TypeOK, Close
  PROVE  /\ closed' \in BOOLEAN /\ openTimer' \in BOOLEAN /\ closeTimer' \in BOOLEAN
         /\ cleaner' \in {"none", "process", "conn", "join", "done"}
<1>1. CASE closed
  BY <1>1, FlagTypes DEF Close, endVars, timeVars, TypeOK
<1>2. CASE ~closed
  BY <1>2 DEF Close
<1> QED BY <1>1, <1>2

LEMMA KillTypes ==
  ASSUME TypeOK, Kill
  PROVE  lateSignal' \in BOOLEAN /\ stray' \in BOOLEAN /\ child' \in {"none", "running", "exited", "reaped"}
<1>1. lateSignal' \in BOOLEAN /\ stray' \in BOOLEAN
  BY DEF Kill, Interrupt
<1>2. child' \in {"none", "running", "exited", "reaped"}
  BY DEF Kill, TypeOK
<1> QED BY <1>1, <1>2

ResourceTypes ==
  /\ lateSignal' \in BOOLEAN /\ stray' \in BOOLEAN /\ tty' \in BOOLEAN /\ child' \in {"none", "running", "exited", "reaped"}
  /\ group' \in {"none", "held", "released"} /\ files' \in {"none", "open", "closed"}
  /\ stdin' \in {"none", "open", "closed"} /\ loop' \in [Loops -> Spots]

LEMMA CloseResourcesTypes == ASSUME TypeOK, CloseResources PROVE ResourceTypes
<1>1. lateSignal' \in BOOLEAN /\ stray' \in BOOLEAN /\ tty' \in BOOLEAN
  BY FlagTypes DEF CloseResources, Interrupt
<1> QED BY <1>1 DEF CloseResources, ResourceTypes, Goto, TypeOK, Loops, Spots

LEMMA OpeningTypes == ASSUME MaxMessages \in Nat, MaxData \in Nat, TypeOK, Opening PROVE TypeOK'
<1> USE DEF TypeOK, Loops, Spots
<1>1. CASE Run
  BY SMT, <1>1 DEF Run, Write, Goto, flagVars, procVars, timeVars, endVars, boundVars, histVars
<1>2. CASE StartReading
  BY SMT, <1>2 DEF StartReading, Goto, flagVars, procVars, timeVars, endVars, boundVars, histVars
<1>3. CASE RefuseAttach
  BY SMT, <1>3 DEF RefuseAttach, Write, Goto, flagVars, procVars, timeVars, endVars, boundVars, histVars
<1>4. CASE PrepareOpen
  BY SMT, <1>4 DEF PrepareOpen, Goto, flagVars, procVars, timeVars, endVars, boundVars, histVars
<1>5. CASE RejectOpen
  BY SMT, <1>5 DEF RejectOpen, Write, Goto, flagVars, procVars, timeVars, endVars, boundVars, histVars
<1>6. CASE StdinBroken
  BY SMT, <1>6 DEF StdinBroken, Goto, flagVars, timeVars, endVars, boundVars, histVars
<1>7. CASE Publish
  <2>1. opened' \in BOOLEAN /\ openTimer' \in BOOLEAN /\ askStop' \in BOOLEAN
    BY <1>7, FlagTypes DEF Publish
  <2>2. streams' \in [Streams -> {"off", "open", "ending", "ended"}]
    BY SMT, <1>7 DEF Publish
  <2>3. ResourceTypes
    <3>1. CASE CloseResources
      BY <3>1, CloseResourcesTypes
    <3>2. CASE Goto("read", "ack") /\ UNCHANGED <<procVars, lateSignal>>
      BY <3>2 DEF ResourceTypes, Goto, procVars
    <3> QED BY <1>7, <3>1, <3>2 DEF Publish
  <2>4. UNCHANGED <<disconnecting, shutdownReq, terminationReq, childDone, conn, stopper, closed, closeTimer, cleaner, boundVars, ackFailed>>
    BY <1>7 DEF Publish
  <2> QED BY SMT, <2>1, <2>2, <2>3, <2>4 DEF ResourceTypes, boundVars
<1>8. CASE SendAck
  BY SMT, <1>8 DEF SendAck, Write, Goto, flagVars, procVars, timeVars, endVars, boundVars
<1>9. CASE StartLoops
  <2>1. ResourceTypes
    <3>1. CASE CloseResources
      BY <3>1, CloseResourcesTypes
    <3>2. CASE ~closed
      <4>1. UNCHANGED procVars /\ loop' \in [Loops -> Spots]
        BY SMT, <1>9, <3>2 DEF StartLoops
      <4>2. lateSignal' \in BOOLEAN
        BY <1>9, <3>2, FlagTypes DEF StartLoops, Interrupt
      <4> QED BY <4>1, <4>2 DEF ResourceTypes, procVars
    <3> QED BY <1>9, <3>1, <3>2 DEF StartLoops
  <2>2. UNCHANGED <<flagVars, streams, conn, askStop, stopper, endVars, boundVars, ackFailed>>
    BY <1>9 DEF StartLoops
  <2> QED BY SMT, <2>1, <2>2 DEF ResourceTypes, flagVars, endVars, timeVars, boundVars
<1> QED BY <1>1, <1>2, <1>3, <1>4, <1>5, <1>6, <1>7, <1>8, <1>9 DEF Opening

LEMMA ReadingTypes == ASSUME MaxMessages \in Nat, MaxData \in Nat, TypeOK, Reading \/ ReadFails PROVE TypeOK'
<1> USE DEF TypeOK, Loops, Spots
<1>1. CASE StdinTaken
  BY SMT, <1>1 DEF StdinTaken, Goto, flagVars, procVars, timeVars, endVars, boundVars, histVars
<1>2. CASE ReadOpen
  BY SMT, <1>2 DEF ReadOpen, Receive, Goto, flagVars, procVars, timeVars, endVars, histVars
<1>3. CASE ReadRefused
  BY SMT, <1>3 DEF ReadRefused, Receive, Goto, flagVars, procVars, timeVars, endVars, histVars
<1>4. CASE ReadStdin
  BY SMT, <1>4 DEF ReadStdin, Receive, Goto, flagVars, procVars, timeVars, endVars, histVars
<1>5. CASE ReadStdinEnd
  BY SMT, <1>5 DEF ReadStdinEnd, Receive, Goto, flagVars, timeVars, endVars, histVars
<1>6. CASE ReadResize
  BY SMT, <1>6 DEF ReadResize, Receive, Goto, flagVars, procVars, timeVars, endVars, histVars
<1>7. CASE ReadTerminate
  BY SMT, <1>7 DEF ReadTerminate, procVars, timeVars, endVars, histVars
<1>8. CASE ReadFails
  BY SMT, <1>8 DEF ReadFails, Goto, flagVars, procVars, timeVars, endVars, boundVars, histVars
<1> QED BY <1>1, <1>2, <1>3, <1>4, <1>5, <1>6, <1>7, <1>8 DEF Reading

LEMMA LoopTypes == ASSUME MaxMessages \in Nat, MaxData \in Nat, TypeOK, Waiting \/ Beat \/ Terminating PROVE TypeOK'
<1> USE DEF TypeOK, Loops, Spots
<1>1. CASE WaitGroup
  BY SMT, <1>1 DEF WaitGroup, Kill, Goto, Interrupt, flagVars, timeVars, endVars, boundVars
<1>2. CASE WaitCopies
  BY SMT, <1>2 DEF WaitCopies, Goto, flagVars, procVars, timeVars, endVars, boundVars, histVars
<1>3. CASE Reap
  BY SMT, <1>3 DEF Reap, Goto, flagVars, timeVars, endVars, boundVars, histVars
<1>4. CASE ChildExit
  BY SMT, <1>4 DEF ChildExit, Goto, procVars, timeVars, endVars, boundVars, histVars
<1>5. CASE Beat
  BY SMT, <1>5 DEF Beat, Goto, flagVars, procVars, timeVars, endVars, boundVars, histVars
<1>6. CASE AskExit
  BY SMT, <1>6 DEF AskExit, Interrupt, Goto, flagVars, procVars, timeVars, endVars, boundVars
<1>7. CASE GraceEnds
  <2>1. lateSignal' \in BOOLEAN /\ stray' \in BOOLEAN /\ child' \in {"none", "running", "exited", "reaped"}
    BY <1>7, FlagTypes, KillTypes DEF GraceEnds
  <2>2. loop' \in [Loops -> Spots]
    BY SMT, <1>7 DEF GraceEnds, Goto
  <2>3. UNCHANGED <<flagVars, tty, group, files, stdin, streams, conn, askStop, stopper, endVars, boundVars, ackFailed>>
    BY <1>7 DEF GraceEnds
  <2> QED BY SMT, <2>1, <2>2, <2>3 DEF flagVars, timeVars, endVars, boundVars
<1>8. CASE ResultEnds
  BY SMT, <1>8 DEF ResultEnds, Goto, flagVars, procVars, timeVars, endVars, boundVars, histVars
<1> QED BY <1>1, <1>2, <1>3, <1>4, <1>5, <1>6, <1>7, <1>8 DEF Waiting, Terminating

LEMMA OutsideTypes == ASSUME MaxMessages \in Nat, MaxData \in Nat, TypeOK, OpenTimeout \/ CloseTimeout \/ Shutdown \/ Stopping \/ Cleaning \/ Exit \/ PeerLost PROVE TypeOK'
<1> USE DEF TypeOK, Loops, Spots
<1>1. CASE OpenTimeout
  BY SMT, <1>1, CloseTypes DEF OpenTimeout, flagVars, procVars, boundVars, histVars
<1>2. CASE CloseTimeout
  BY SMT, <1>2, CloseTypes DEF CloseTimeout, flagVars, procVars, boundVars, histVars
<1>3. CASE Shutdown
  <2>1. /\ closed' \in BOOLEAN /\ openTimer' \in BOOLEAN /\ closeTimer' \in BOOLEAN
        /\ cleaner' \in {"none", "process", "conn", "join", "done"}
    <3>1. CASE Close
      BY <3>1, CloseTypes
    <3>2. CASE UNCHANGED endVars
      BY <3>2, FlagTypes DEF endVars, timeVars
    <3> QED BY <1>3, <3>1, <3>2 DEF Shutdown
  <2>2. shutdownReq' \in BOOLEAN /\ stopper' \in {"idle", "request", "wait", "kill", "cleanup", "last", "returned"}
    BY <1>3, FlagTypes DEF Shutdown
  <2>3. UNCHANGED <<opened, disconnecting, terminationReq, childDone, procVars, streams, conn, loop, askStop, boundVars, histVars>>
    BY <1>3 DEF Shutdown
  <2> QED BY SMT, <2>1, <2>2, <2>3 DEF procVars, boundVars, histVars
<1>4. CASE ShutdownAsks
  BY SMT, <1>4 DEF ShutdownAsks, Interrupt, flagVars, procVars, timeVars, endVars, boundVars
<1>5. CASE ShutdownWaits
  BY SMT, <1>5 DEF ShutdownWaits, flagVars, procVars, timeVars, endVars, boundVars, histVars
<1>6. CASE ShutdownKills
  <2>1. /\ closed' \in BOOLEAN /\ openTimer' \in BOOLEAN /\ closeTimer' \in BOOLEAN
        /\ cleaner' \in {"none", "process", "conn", "join", "done"}
    BY <1>6, CloseTypes DEF ShutdownKills
  <2>2. lateSignal' \in BOOLEAN /\ stray' \in BOOLEAN /\ child' \in {"none", "running", "exited", "reaped"}
    BY <1>6, FlagTypes, KillTypes DEF ShutdownKills
  <2>3. stopper' = "cleanup" /\ UNCHANGED <<flagVars, tty, group, files, stdin, streams, conn, loop, askStop, boundVars, ackFailed>>
    BY <1>6 DEF ShutdownKills
  <2> QED BY SMT, <2>1, <2>2, <2>3 DEF flagVars, boundVars
<1>7. CASE ShutdownJoins
  BY SMT, <1>7 DEF ShutdownJoins, flagVars, procVars, timeVars, endVars, boundVars, histVars
<1>8. CASE CleanProcess
  <2>1. lateSignal' \in BOOLEAN /\ stray' \in BOOLEAN /\ child' \in {"none", "running", "exited", "reaped"}
    BY <1>8, FlagTypes, KillTypes DEF CleanProcess
  <2>2. /\ group' \in {"none", "held", "released"} /\ files' \in {"none", "open", "closed"}
        /\ stdin' \in {"none", "open", "closed"} /\ cleaner' = "conn"
    BY SMT, <1>8 DEF CleanProcess
  <2>3. UNCHANGED <<flagVars, tty, streams, conn, loop, askStop, stopper, closed, timeVars, boundVars, ackFailed>>
    BY <1>8 DEF CleanProcess
  <2> QED BY SMT, <2>1, <2>2, <2>3 DEF flagVars, timeVars, boundVars
<1>9. CASE CleanConn
  BY SMT, <1>9 DEF CleanConn, flagVars, procVars, timeVars, boundVars, histVars
<1>10. CASE Finish
  BY SMT, <1>10 DEF Finish, flagVars, procVars, timeVars, boundVars, histVars
<1>11. CASE Exit
  <2>1. stray' \in BOOLEAN /\ child' \in {"none", "running", "exited", "reaped"}
    BY <1>11, FlagTypes DEF Exit
  <2> QED BY SMT, <1>11, <2>1 DEF Exit, flagVars, timeVars, endVars, boundVars, histVars
<1>12. CASE PeerLost
  BY SMT, <1>12 DEF PeerLost, flagVars, procVars, timeVars, endVars, boundVars, histVars
<1> QED BY <1>1, <1>2, <1>3, <1>4, <1>5, <1>6, <1>7, <1>8, <1>9, <1>10, <1>11, <1>12 DEF Stopping, Cleaning

LEMMA CopyingTypes == ASSUME MaxMessages \in Nat, MaxData \in Nat, TypeOK, NEW t \in Streams, ReadStream(t) \/ StreamBroken(t) \/ SendStream(t) \/ AfterEnd(t) PROVE TypeOK'
<1> USE DEF TypeOK, Loops, Spots, Streams
<1>1. CASE ReadStream(t)
  BY SMT, <1>1 DEF ReadStream, Goto, flagVars, procVars, timeVars, endVars, histVars
<1>2. CASE StreamBroken(t)
  BY SMT, <1>2 DEF StreamBroken, Goto, flagVars, procVars, timeVars, endVars, boundVars, histVars
<1>3. CASE SendStream(t)
  BY SMT, <1>3 DEF SendStream, Write, Goto, flagVars, procVars, timeVars, endVars, boundVars, histVars
<1>4. CASE AfterEnd(t)
  BY SMT, <1>4 DEF AfterEnd, Goto, flagVars, procVars, timeVars, endVars, boundVars, histVars
<1> QED BY <1>1, <1>2, <1>3, <1>4

LEMMA EndingTypes == ASSUME MaxMessages \in Nat, MaxData \in Nat, TypeOK, NEW l \in Loops, Fail(l) \/ Handshake(l) \/ DoClose(l) PROVE TypeOK'
<1> USE DEF TypeOK, Loops, Spots
<1>1. CASE Fail(l)
  <2>1. loop' \in [Loops -> Spots]
    BY <1>1 DEF Fail, Goto
  <2>2. Close /\ UNCHANGED <<flagVars, procVars, streams, conn, askStop, stopper, boundVars, histVars>>
    BY <1>1 DEF Fail
  <2> QED BY SMT, <2>1, <2>2, CloseTypes DEF flagVars, procVars, boundVars, histVars
<1>2. CASE Handshake(l)
  <2>1. loop' \in [Loops -> Spots]
    BY <1>2 DEF Handshake, Goto
  <2>2. disconnecting' \in BOOLEAN /\ closed' \in BOOLEAN /\ openTimer' \in BOOLEAN /\ closeTimer' \in BOOLEAN
        /\ cleaner' \in {"none", "process", "conn", "join", "done"}
    <3>1. UNCHANGED disconnecting \/ disconnecting' = TRUE
      BY <1>2 DEF Handshake
    <3>2. Close \/ UNCHANGED endVars \/ (closeTimer' = TRUE /\ UNCHANGED <<closed, openTimer, cleaner>>)
      BY <1>2 DEF Handshake
    <3> QED BY <3>1, <3>2, CloseTypes, FlagTypes DEF endVars, timeVars
  <2>3. UNCHANGED <<opened, shutdownReq, terminationReq, childDone, procVars, streams, conn, askStop, stopper, boundVars, histVars>>
    BY <1>2 DEF Handshake
  <2> QED BY SMT, <2>1, <2>2, <2>3 DEF procVars, boundVars, histVars
<1>3. CASE DoClose(l)
  BY SMT, <1>3 DEF DoClose, Write, Goto, flagVars, procVars, timeVars, endVars, boundVars, histVars
<1> QED BY <1>1, <1>2, <1>3

LEMMA TypeKept == ASSUME MaxMessages \in Nat, MaxData \in Nat, TypeOK, [Next]_vars PROVE TypeOK'
<1>1. CASE UNCHANGED vars
  BY SMT, <1>1 DEF TypeOK, vars, flagVars, procVars, timeVars, endVars, boundVars, histVars
<1> QED BY <1>1, OpeningTypes, ReadingTypes, LoopTypes, OutsideTypes, CopyingTypes, EndingTypes DEF Next, Copying, Ending

----------------------------------------------------------------------------
(* Steps that move one loop, by what they leave alone. *)

\* What the invariant tells apart, but for the loops and the wire.
calm == <<closed, opened, disconnecting, childDone, child, stray, group, streams, conn, closeTimer, cleaner, ackFailed>>

\* The streams of a step that moves none of their loops and says nothing of them.
LEMMA StreamsRest ==
  ASSUME CoreInv, UNCHANGED <<opened, streams>>, \A t \in Streams : loop'[t] = loop[t],
         Waiter' = Waiter \/ (Waiter # "none" /\ Waiter' # "none"),
         \A type \in {"data", "eos"}, t \in Streams : Said(type, t)' <=> Said(type, t)
  PROVE  StreamInv' /\ \A t \in Streams : SaidOK(t)'
<1>1. ASSUME NEW t \in Streams PROVE StreamOK(t)'
  <2>1. StreamOK(t) /\ loop'[t] = loop[t]
    BY DEF CoreInv, StreamInv
  <2> QED BY <2>1 DEF StreamOK
<1>2. StreamInv'
  BY <1>1 DEF CoreInv, StreamInv
<1>3. ASSUME NEW t \in Streams PROVE SaidOK(t)'
  <2>1. SaidOK(t) /\ loop'[t] = loop[t] /\ (Said("data", t)' <=> Said("data", t)) /\ (Said("eos", t)' <=> Said("eos", t))
    BY DEF CoreInv, WireInv
  <2> QED BY <2>1 DEF SaidOK
<1> QED BY <1>2, <1>3

\* The report of the exit, by a step that reports nothing and brings no loop to report it.
LEMMA CloseRest ==
  ASSUME CoreInv, UNCHANGED <<streams, childDone>>, Said("close", "session")' <=> Said("close", "session"),
         \A l \in Loops : loop'[l] = "close" => loop[l] = "close",
         Said("close", "session") /\ ~closed' => CloseGoesOn'
  PROVE  CloseInv'
<1>1. Ended' <=> Ended
  BY DEF Ended
<1>2. ASSUME NEW l \in Loops PROVE CloseOK(l)'
  BY <1>1 DEF CoreInv, CloseInv, CloseOK
<1> QED BY <1>1, <1>2 DEF CoreInv, CloseInv

\* The reading loop goes on without opening anything.
LEMMA ReaderMoves ==
  ASSUME SessionIInv, Only("read"), UNCHANGED calm, Quiet,
         Reader \in {"start", "hello", "read", "stdin", "attach", "prepare", "rejected"},
         Reader' \in {"hello", "read", "stdin", "attach", "prepare", "rejected", "handshake", "fail", "ended"},
         Reader' \in {"hello", "prepare", "rejected", "handshake"} => ~opened,
         Reader = "start" => Reader' \in {"hello", "fail"},
         Reader = "hello" /\ closed => Reader' = "ended"
  PROVE  CoreInv'
<1> USE DEF SessionIInv, CoreInv
<1>1. /\ Waiter' = Waiter /\ loop'["stdout"] = loop["stdout"] /\ loop'["stderr"] = loop["stderr"]
      /\ loop'["terminate"] = loop["terminate"] /\ loop'["heartbeat"] = loop["heartbeat"]
  BY DEF Only, Loops, Waiter
<1>2. \A m \in Loops \ {"read"} : loop'[m] = loop[m]
  BY DEF Only
<1>3. UNCHANGED <<closed, opened, disconnecting, childDone, child, stray, group, streams, conn, closeTimer, cleaner, ackFailed>>
  BY DEF calm
<1>4. PlaceInv'
  BY <1>1 DEF PlaceInv, Streams
<1>5. PhaseInv'
  BY <1>1, <1>2, <1>3 DEF PhaseInv, Streams, Loops
<1>6. ProcInv'
  BY <1>1, <1>3 DEF ProcInv, PhaseInv
<1>7. EndInv'
  BY <1>1, <1>2, <1>3 DEF EndInv, PhaseInv
<1>8. StreamInv' /\ \A t \in Streams : SaidOK(t)'
  BY <1>1, <1>3, StreamsRest DEF Quiet, Streams
<1>9. WireInv'
  BY <1>1, <1>3, <1>8 DEF WireInv, Quiet
<1>10. CloseInv'
  <2>1. \A l \in Loops : loop'[l] = "close" => loop[l] = "close"
    BY <1>2 DEF Reader
  <2>2. CloseGoesOn => CloseGoesOn'
    BY <1>2, <1>3 DEF CloseGoesOn, Reader
  <2> QED BY <1>3, <2>1, <2>2, CloseRest DEF CloseInv, Quiet
<1> QED BY <1>4, <1>5, <1>6, <1>7, <1>8, <1>9, <1>10

\* A step of the process and its group: a process ends, and the group is released once it has none.
ProcStep ==
  /\ UNCHANGED group \/ (opened /\ group' = "released" /\ ~stray' /\ child' # "running")
  /\ UNCHANGED child \/ (child = "running" /\ child' = "exited")
  /\ stray' => stray

LEMMA KillStep ==
  ASSUME SessionIInv, Kill, UNCHANGED group \/ (opened /\ group' = "released")
  PROVE  ProcStep
BY DEF SessionIInv, CoreInv, TypeOK, ProcInv, Kill, ProcStep

LEMMA ProcKept ==
  ASSUME SessionIInv, TypeOK', ProcStep, UNCHANGED <<opened, childDone>>, Reader' = Reader, Waiter' = Waiter
  PROVE  ProcInv' /\ (child = "reaped" => child' = "reaped") /\ (group = "released" => group' = "released")
<1>1. child' \in {"none", "running", "exited", "reaped"}
  BY DEF TypeOK
<1> QED BY <1>1 DEF SessionIInv, CoreInv, ProcInv, ProcStep

\* No signal is late: the group of a reaped leader was released.
LEMMA InTime == ASSUME SessionIInv, Interrupt \/ Kill \/ UNCHANGED lateSignal PROVE ~lateSignal'
BY DEF SessionIInv, CoreInv, ProcInv, Interrupt, Kill

\* A step of the timers, the shutdown, the cleanup, the process or the peer.
LEMMA OutsideMoves ==
  ASSUME SessionIInv, TypeOK', UNCHANGED <<loop, wire, streams, opened, childDone, ackFailed>>, ProcStep,
         closed => closed', ~closed' => UNCHANGED closeTimer, EndInv'
  PROVE  CoreInv'
<1> USE DEF SessionIInv
<1>1. Quiet
  BY QuietSame DEF CoreInv, WireInv
<1>2. Reader' = Reader /\ Waiter' = Waiter
  BY DEF Reader, Waiter
<1>3. PlaceInv'
  BY SMT DEF CoreInv, PlaceInv, Reader, Waiter
<1>4. ProcInv' /\ (child = "reaped" => child' = "reaped")
  BY <1>2, ProcKept
<1>5. PhaseInv'
  BY <1>2, <1>4 DEF CoreInv, PhaseInv
<1>6. StreamInv' /\ \A t \in Streams : SaidOK(t)'
  BY <1>1, <1>2, StreamsRest DEF Quiet
<1>7. WireInv'
  BY <1>1, <1>2, <1>6 DEF CoreInv, WireInv, Quiet
<1>8. CloseInv'
  <2>1. Said("close", "session") /\ ~closed' => CloseGoesOn'
    BY DEF CoreInv, CloseInv, CloseGoesOn
  <2> QED BY <1>1, <2>1, CloseRest DEF Quiet
<1> QED BY <1>3, <1>4, <1>5, <1>6, <1>7, <1>8 DEF CoreInv

\* A step of the terminating loop or of the heartbeats.
LEMMA HelperMoves ==
  ASSUME SessionIInv, TypeOK', NEW l \in {"terminate", "heartbeat"}, Only(l),
         UNCHANGED <<closed, opened, disconnecting, childDone, streams, conn, closeTimer, cleaner, ackFailed, wire>>, ProcStep,
         loop[l] \in {"signal", "grace", "result", "beat"}, loop'[l] \in {"grace", "result", "fail", "ended"},
         l = "heartbeat" => loop'[l] \in {"fail", "ended"}
  PROVE  CoreInv'
<1> USE DEF SessionIInv
<1>1. Quiet
  BY QuietSame DEF CoreInv, WireInv
<1>2. Reader' = Reader /\ Waiter' = Waiter /\ loop'["stdout"] = loop["stdout"] /\ loop'["stderr"] = loop["stderr"]
  BY DEF Only, Loops, Reader, Waiter
<1>3. /\ \A m \in Loops \ {l} : loop'[m] = loop[m]
      /\ l \in Loops \ {"read"} /\ Waiter # "none" /\ cleaner # "done"
  <2>1. l \in Loops \ {"read"} /\ \A m \in Loops \ {l} : loop'[m] = loop[m]
    BY DEF Only, Loops
  <2>2. loop[l] # "none" /\ loop[l] # "ended"
    OBVIOUS
  <2> QED BY <2>1, <2>2 DEF CoreInv, PhaseInv, EndInv
<1>4. PlaceInv'
  BY SMT, <1>2, <1>3 DEF CoreInv, PlaceInv, Streams, Loops
<1>5. ProcInv' /\ (child = "reaped" => child' = "reaped") /\ (group = "released" => group' = "released")
  BY <1>2, ProcKept
<1>6. PhaseInv'
  BY <1>2, <1>3 DEF CoreInv, PhaseInv, Streams
<1>7. EndInv'
  BY <1>2, <1>3, <1>5 DEF CoreInv, EndInv
<1>8. StreamInv' /\ \A t \in Streams : SaidOK(t)'
  BY <1>1, <1>2, StreamsRest DEF Quiet, Streams
<1>9. WireInv'
  BY <1>1, <1>2, <1>8 DEF CoreInv, WireInv, Quiet
<1>10. CloseInv'
  <2>1. \A m \in Loops : loop'[m] = "close" => loop[m] = "close"
    BY <1>3
  <2>2. CloseGoesOn => CloseGoesOn'
    BY <1>3 DEF CloseGoesOn
  <2> QED BY <1>1, <2>1, <2>2, CloseRest DEF CoreInv, CloseInv, Quiet
<1> QED BY <1>4, <1>5, <1>6, <1>7, <1>8, <1>9, <1>10 DEF CoreInv

\* A step of the loop that waits for the process.
LEMMA WaiterMoves ==
  ASSUME SessionIInv, Only("wait"),
         UNCHANGED <<closed, opened, disconnecting, streams, conn, closeTimer, cleaner, ackFailed, wire>>,
         Waiter \in {"group", "join", "reap", "exit"}, Waiter' \in {"join", "reap", "exit", "close", "ended"},
         ProcInv', group = "released" => group' = "released", CloseInv'
  PROVE  CoreInv'
<1> USE DEF SessionIInv
<1>1. Quiet
  BY QuietSame DEF CoreInv, WireInv
<1>2. /\ Reader' = Reader /\ loop'["stdout"] = loop["stdout"] /\ loop'["stderr"] = loop["stderr"]
      /\ loop'["terminate"] = loop["terminate"] /\ loop'["heartbeat"] = loop["heartbeat"]
  BY DEF Only, Loops, Reader
<1>3. cleaner # "done"
  BY DEF CoreInv, EndInv, Waiter, Loops
<1>4. PlaceInv'
  BY <1>2 DEF CoreInv, PlaceInv, Streams
<1>5. PhaseInv'
  BY <1>2 DEF CoreInv, PhaseInv, Streams
<1>6. EndInv'
  BY <1>2, <1>3 DEF CoreInv, EndInv
<1>7. StreamInv' /\ \A t \in Streams : SaidOK(t)'
  BY <1>1, <1>2, StreamsRest DEF Quiet, Streams
<1>8. WireInv'
  BY <1>1, <1>2, <1>7 DEF CoreInv, WireInv, Quiet
<1> QED BY <1>4, <1>5, <1>6, <1>7, <1>8 DEF CoreInv

\* A step of the loop that copies a stream.
LEMMA StreamMoves ==
  ASSUME SessionIInv, NEW t \in Streams, Only(t), wire' \in Seq(Messages),
         UNCHANGED <<closed, opened, disconnecting, childDone, child, stray, group, conn, closeTimer, cleaner, ackFailed>>,
         loop[t] \in {"read", "data", "eos", "after"},
         loop'[t] \in {"read", "data", "eos", "after", "close", "fail", "ended"},
         StreamOK(t)', SaidOK(t)', opened /\ t = "stdout" => streams'[t] # "off",
         \A u \in Streams \ {t} : streams'[u] = streams[u],
         \A u \in Streams \ {t}, type \in {"data", "eos"} : Said(type, u)' <=> Said(type, u),
         \A type \in {"ack", "close"} : Said(type, "session")' <=> Said(type, "session"),
         loop'[t] = "close" => childDone /\ Ended'
  PROVE  CoreInv'
<1> USE DEF SessionIInv
<1>1. t \in Loops \ {"read", "wait"} /\ t \in {"stdout", "stderr"}
  BY DEF Streams, Loops
<1>2. \A m \in Loops \ {t} : loop'[m] = loop[m]
  BY DEF Only
<1>3. Reader' = Reader /\ Waiter' = Waiter /\ loop'["terminate"] = loop["terminate"] /\ loop'["heartbeat"] = loop["heartbeat"]
  BY <1>1, <1>2 DEF Loops, Reader, Waiter
<1>4. Waiter # "none" /\ cleaner # "done" /\ ~Ended
  <2>1. loop[t] # "none" /\ loop[t] # "ended" /\ streams[t] \in {"open", "ending"}
    BY DEF CoreInv, StreamInv, StreamOK
  <2> QED BY <1>1, <2>1 DEF CoreInv, PhaseInv, EndInv, Ended
<1>5. PlaceInv'
  <2>1. \A u \in Streams : loop'[u] \in {"none", "read", "data", "eos", "after", "close", "handshake", "fail", "ended"}
    BY <1>2 DEF CoreInv, PlaceInv, Loops, Streams
  <2> QED BY <1>3, <2>1 DEF CoreInv, PlaceInv
<1>6. PhaseInv'
  <2>1. \A u \in Streams : loop'[u] # "none"
    BY <1>2, <1>4 DEF CoreInv, PhaseInv, Loops, Streams
  <2> QED BY <1>3, <1>4, <2>1 DEF CoreInv, PhaseInv
<1>7. ProcInv'
  BY <1>3 DEF CoreInv, ProcInv
<1>8. EndInv'
  BY <1>3, <1>4 DEF CoreInv, EndInv
<1>9. StreamInv'
  <2>1. ASSUME NEW u \in Streams \ {t} PROVE StreamOK(u)'
    <3>1. StreamOK(u) /\ loop'[u] = loop[u] /\ streams'[u] = streams[u]
      BY <1>2 DEF CoreInv, StreamInv, Streams, Loops
    <3> QED BY <1>3, <3>1 DEF StreamOK
  <2>2. opened => streams'["stdout"] # "off"
    BY DEF CoreInv, StreamInv, Streams
  <2> QED BY <2>1, <2>2 DEF StreamInv
<1>10. WireInv'
  <2>1. ASSUME NEW u \in Streams \ {t} PROVE SaidOK(u)'
    <3>1. SaidOK(u) /\ loop'[u] = loop[u] /\ streams'[u] = streams[u]
      BY <1>2 DEF CoreInv, WireInv, Streams, Loops
    <3>2. (Said("data", u)' <=> Said("data", u)) /\ (Said("eos", u)' <=> Said("eos", u))
      OBVIOUS
    <3> QED BY <1>3, <3>1, <3>2 DEF SaidOK
  <2>2. Reader # "start"
    BY <1>4 DEF CoreInv, PhaseInv
  <2> QED BY <1>3, <2>1, <2>2 DEF CoreInv, WireInv
<1>11. CloseInv'
  <2>1. ~Said("close", "session") /\ \A l \in Loops : loop[l] # "close"
    BY <1>4 DEF CoreInv, CloseInv, CloseOK
  <2>2. ~Said("close", "session")' /\ \A l \in Loops : loop'[l] = "close" => l = t
    BY <1>2, <2>1
  <2>3. ASSUME NEW l \in Loops PROVE CloseOK(l)'
    BY <2>2 DEF CloseOK
  <2> QED BY <2>2, <2>3 DEF CloseInv
<1> QED BY <1>5, <1>6, <1>7, <1>8, <1>9, <1>10, <1>11 DEF CoreInv

\* A loop that reports the exit, starts the close handshake or fails.
LEMMA EndMoves ==
  ASSUME SessionIInv, NEW l \in Loops, Only(l), wire' \in Seq(Messages),
         UNCHANGED <<opened, childDone, child, stray, group, streams, conn, ackFailed>>,
         loop[l] \in {"close", "handshake", "fail"},
         loop[l] = "close" => loop'[l] \in {"handshake", "fail"},
         loop[l] = "handshake" => loop'[l] = (IF l = "read" THEN "read" ELSE "ended"),
         loop[l] = "fail" => loop'[l] = "ended" /\ closed',
         closed => closed',
         \A type, of : type \notin {"close", "hello", "error"} => (Said(type, of)' <=> Said(type, of)),
         EndInv', CloseInv'
  PROVE  CoreInv'
<1> USE DEF SessionIInv
<1>1. \A m \in Loops \ {l} : loop'[m] = loop[m]
  BY DEF Only
<1>2. Waiter' = Waiter \/ (Waiter \in {"close", "handshake", "fail"} /\ Waiter' \in {"handshake", "fail", "ended"})
  BY <1>1 DEF Waiter, Loops
<1>3. \/ Reader' = Reader \/ (Reader = "fail" /\ Reader' = "ended" /\ closed') \/ (Reader = "handshake" /\ Reader' = "read")
  BY <1>1 DEF Reader, Loops, CoreInv, PlaceInv
<1>4. \A t \in Streams : loop'[t] = loop[t] \/ (loop[t] # "none" /\ loop'[t] \in {"handshake", "fail", "ended"})
  BY <1>1 DEF Streams, Loops
<1>5. /\ \A m \in {"terminate", "heartbeat"} : loop'[m] = loop[m] \/ (loop[m] # "none" /\ loop'[m] = "ended")
      /\ \A m \in Loops \ {"read"} : loop[m] = "none" => loop'[m] = "none"
  BY <1>1 DEF Loops, CoreInv, PlaceInv
<1>6. PlaceInv'
  BY <1>2, <1>3, <1>4, <1>5 DEF CoreInv, PlaceInv
<1>7. PhaseInv'
  <2>1. Waiter' = "none" <=> Waiter = "none"
    BY <1>2
  <2>2. \A t \in Streams : loop[t] # "none" => loop'[t] # "none"
    BY <1>4
  <2> QED BY <1>3, <1>5, <2>1, <2>2 DEF CoreInv, PhaseInv
<1>8. ProcInv'
  <2>1. ~opened => Waiter = "none"
    BY DEF CoreInv, PhaseInv
  <2> QED BY <1>2, <1>3, <2>1 DEF CoreInv, ProcInv
<1>9. StreamInv'
  <2>1. ASSUME NEW t \in Streams PROVE StreamOK(t)'
    <3>1. StreamOK(t) /\ (loop'[t] = loop[t] \/ loop'[t] \in {"handshake", "fail", "ended"})
      BY <1>4 DEF CoreInv, StreamInv
    <3>2. Waiter' = "none" <=> Waiter = "none"
      BY <1>2
    <3> QED BY <3>1, <3>2 DEF StreamOK
  <2> QED BY <2>1 DEF CoreInv, StreamInv
<1>10. WireInv'
  <2>1. ASSUME NEW t \in Streams PROVE SaidOK(t)'
    <3>1. SaidOK(t) /\ (loop'[t] = loop[t] \/ loop'[t] \in {"handshake", "fail", "ended"})
      BY <1>4 DEF CoreInv, WireInv
    <3>2. (Said("data", t)' <=> Said("data", t)) /\ (Said("eos", t)' <=> Said("eos", t))
      OBVIOUS
    <3>3. Waiter' = "none" <=> Waiter = "none"
      BY <1>2
    <3> QED BY <3>1, <3>2, <3>3 DEF SaidOK
  <2>2. Said("ack", "session")' <=> Said("ack", "session")
    OBVIOUS
  <2>3. Reader' # "start"
    <3>1. Reader # "start"
      <4>1. CASE l = "read"
        BY <4>1 DEF Reader
      <4>2. CASE l # "read"
        BY <4>2 DEF CoreInv, PhaseInv
      <4> QED BY <4>1, <4>2
    <3> QED BY <1>3, <3>1
  <2>4. Reader' \in {"ack", "started"} => Reader' = Reader
    BY <1>3
  <2>5. Waiter' # "none" => Waiter # "none"
    BY <1>2
  <2> QED BY <2>1, <2>2, <2>3, <2>4, <2>5 DEF CoreInv, WireInv
<1> QED BY <1>6, <1>7, <1>8, <1>9, <1>10 DEF CoreInv

LEMMA EndingKeeps ==
  ASSUME SessionIInv, NEW l \in Loops, Fail(l) \/ Handshake(l) \/ DoClose(l)
  PROVE  CoreInv' /\ ~lateSignal'
<1> USE DEF SessionIInv
<1>1. wire \in Seq(Messages) /\ loop \in [Loops -> Spots]
  BY DEF CoreInv, WireInv, TypeOK
<1>2. UNCHANGED <<opened, childDone, child, stray, group, streams, conn, ackFailed, lateSignal>>
  BY DEF Fail, Handshake, DoClose, flagVars, procVars, histVars
<1>3. cleaner = "done" => loop[l] = "fail" /\ l = "read"
  BY DEF CoreInv, EndInv, Fail, Handshake, DoClose, Reader
<1>4. CASE Fail(l)
  <2>1. Quiet /\ loop[l] = "fail" /\ Only(l) /\ loop'[l] = "ended" /\ UNCHANGED disconnecting
    BY <1>1, <1>4, GotoOnly, QuietSame DEF Fail, Spots, flagVars
  <2>2. /\ closed' /\ (closed => UNCHANGED <<closed, cleaner, closeTimer>>) /\ (~closed => cleaner' = "process")
    BY <1>4 DEF Fail, Close, endVars, timeVars
  <2>3. EndInv'
    <3>1. cleaner' = "done" => cleaner = "done"
      BY <2>2
    <3>2. cleaner = "done" => Reader' = "ended" /\ \A m \in Loops \ {"read"} : loop'[m] = loop[m]
      BY <1>3, <2>1 DEF Only, Reader
    <3> QED BY <1>2, <2>2, <3>1, <3>2 DEF CoreInv, EndInv
  <2>4. CloseInv'
    <3>1. \A m \in Loops : loop'[m] = "close" => loop[m] = "close"
      BY <2>1 DEF Only
    <3> QED BY <1>2, <2>1, <2>2, <3>1, CloseRest DEF Quiet
  <2> QED BY <1>2, <2>1, <2>2, <2>3, <2>4, EndMoves DEF Quiet
<1>5. CASE Handshake(l)
  <2>1. Quiet /\ loop[l] = "handshake" /\ Only(l) /\ loop'[l] = (IF l = "read" THEN "read" ELSE "ended")
    BY <1>1, <1>5, GotoOnly, QuietSame DEF Handshake, Spots
  <2>2. /\ closed => UNCHANGED <<closed, cleaner, closeTimer>>
        /\ ~closed => \/ UNCHANGED <<closed, cleaner>> /\ closeTimer'
                      \/ closed' /\ cleaner' = "process"
    BY <1>5 DEF Handshake, Close, endVars, timeVars, CoreInv, EndInv
  <2>3. EndInv'
    BY SMT, <1>2, <1>3, <2>1, <2>2 DEF CoreInv, EndInv
  <2>4. CloseInv'
    <3>1. \A m \in Loops : loop'[m] = "close" => loop[m] = "close"
      BY <2>1 DEF Only
    <3>2. closed' \/ closeTimer'
      BY SMT, <2>2
    <3> QED BY <1>2, <2>1, <3>1, <3>2, CloseRest DEF Quiet, CloseGoesOn
  <2> QED BY SMT, <1>2, <2>1, <2>2, <2>3, <2>4, EndMoves DEF Quiet
<1>6. CASE DoClose(l)
  <2>1. UNCHANGED <<closed, cleaner, closeTimer, disconnecting>> /\ loop[l] = "close"
    BY <1>6 DEF DoClose, endVars, timeVars, flagVars
  <2>2. /\ Only(l)
        /\ \/ Says("close", "session") /\ loop'[l] = "handshake"
           \/ Quiet /\ loop'[l] = "fail"
    <3>1. Message("close", "session") \in Messages
      BY SMT DEF Messages
    <3>2. Write(l, Message("close", "session"), "handshake", "fail")
      BY <1>6 DEF DoClose
    <3>3. "handshake" \in Spots /\ "fail" \in Spots
      BY DEF Spots
    <3> QED BY <1>1, <3>1, <3>2, <3>3, WriteSays
  <2>3. wire' \in Seq(Messages) /\ \A type, of : type \notin {"close", "hello", "error"} => (Said(type, of)' <=> Said(type, of))
    BY <2>2 DEF Says, Quiet
  <2>4. EndInv'
    BY <1>2, <1>3, <2>1 DEF CoreInv, EndInv
  <2>5. CloseInv'
    <3>1. childDone /\ Ended /\ \A m \in Loops : loop'[m] # "close"
      BY <2>1, <2>2 DEF CoreInv, CloseInv, CloseOK, Only
    <3>2. Ended'
      BY <1>2, <3>1 DEF Ended
    <3>3. CloseGoesOn'
      BY <2>2 DEF CloseGoesOn
    <3> QED BY <1>2, <3>1, <3>2, <3>3 DEF CloseInv, CloseOK
  <2> QED BY <1>2, <2>1, <2>2, <2>3, <2>4, <2>5, EndMoves
<1> QED BY <1>2, <1>4, <1>5, <1>6

----------------------------------------------------------------------------
(* handleOpen, step by step: until the loops start, the reading loop is the only one. *)

\* Before the loops start nothing was copied and no exit was reported.
LEMMA NoLoops ==
  ASSUME SessionIInv, Waiter = "none"
  PROVE  /\ ~childDone /\ ~Said("close", "session") /\ \A t \in Streams : ~Said("data", t) /\ ~Said("eos", t)
         /\ \A l \in Loops \ {"read"} : loop[l] = "none"
         /\ \A t \in Streams : loop[t] = "none" /\ streams[t] \in {"off", "open"}
         /\ loop["terminate"] = "none" /\ loop["heartbeat"] = "none"
<1> USE DEF SessionIInv, CoreInv
<1>1. ~childDone
  BY DEF ProcInv
<1>2. ~Said("close", "session")
  BY <1>1 DEF CloseInv
<1>3. \A t \in Streams : ~Said("data", t) /\ ~Said("eos", t)
  BY DEF WireInv, SaidOK
<1>4. \A l \in Loops \ {"read"} : loop[l] = "none"
  BY DEF PhaseInv
<1>5. \A t \in Streams : streams[t] \in {"off", "open"}
  BY DEF StreamInv, StreamOK
<1> QED BY <1>1, <1>2, <1>3, <1>4, <1>5 DEF Streams, Loops

\* What handleOpen does to the streams and to the report of the exit: nothing, until the loops start.
LEMMA OpenerMoves ==
  ASSUME SessionIInv, Only("read"), Waiter = "none", UNCHANGED <<childDone, disconnecting, closed, closeTimer, cleaner, conn>>,
         wire' \in Seq(Messages), \A type, of : type # "ack" => (Said(type, of)' <=> Said(type, of)),
         Reader \in {"prepare", "publish", "ack", "started"}, Reader' \in {"publish", "ack", "started", "fail", "ended"},
         opened => opened', \A t \in Streams : streams'[t] \in {"off", "open"} /\ (~opened' => streams'[t] = "off"),
         opened' => streams'["stdout"] # "off",
         Said("ack", "session")' => opened' /\ Reader' # "ack", Reader' = "started" => Said("ack", "session")',
         cleaner \in {"conn", "join"} /\ opened' => group' = "released", PhaseInv', ProcInv'
  PROVE  CoreInv'
<1> USE DEF SessionIInv
<1>1. /\ Waiter' = Waiter /\ loop'["stdout"] = "none" /\ loop'["stderr"] = "none"
      /\ loop'["terminate"] = "none" /\ loop'["heartbeat"] = "none"
  BY SMT, NoLoops DEF Only, Loops, Waiter
<1>2. PlaceInv'
  BY <1>1 DEF PlaceInv, Streams
<1>3. EndInv'
  <2>1. cleaner # "done"
    BY DEF CoreInv, EndInv
  <2> QED BY <2>1 DEF CoreInv, EndInv
<1>4. StreamInv'
  BY <1>1 DEF StreamInv, StreamOK, Streams
<1>5. WireInv'
  <2>1. \A t \in Streams : SaidOK(t)'
    BY <1>1, NoLoops DEF SaidOK, Streams
  <2> QED BY <1>1, <2>1 DEF WireInv
<1>6. CloseInv'
  <2>1. ~Said("close", "session")'
    BY NoLoops
  <2>2. \A l \in Loops : loop'[l] # "close"
    BY <1>1 DEF Loops, Waiter, Reader
  <2> QED BY <2>1, <2>2 DEF CloseInv, CloseOK
<1> QED BY <1>2, <1>3, <1>4, <1>5, <1>6 DEF CoreInv

LEMMA SendAckKeeps == ASSUME SessionIInv, SendAck PROVE CoreInv' /\ ~lateSignal'
<1> USE DEF SessionIInv
<1>1. wire \in Seq(Messages) /\ loop \in [Loops -> Spots] /\ Reader = "ack"
  BY DEF CoreInv, WireInv, TypeOK, SendAck, Reader
<1>2. /\ UNCHANGED <<closed, opened, disconnecting, childDone, child, stray, group, streams, conn, closeTimer, cleaner, lateSignal>>
      /\ ackFailed' = (ackFailed \/ Reader' = "fail")
  BY DEF SendAck, flagVars, procVars, endVars, timeVars, Reader
<1>3. opened /\ Waiter = "none" /\ ~ackFailed /\ ~Said("ack", "session") /\ group # "none"
  BY <1>1 DEF CoreInv, PhaseInv, WireInv, ProcInv
<1>4. Only("read") /\ \/ Says("ack", "session") /\ Reader' = "started"
                      \/ Quiet /\ Reader' = "fail"
  <2>1. Message("ack", "session") \in Messages
    BY SMT DEF Messages
  <2>2. Write("read", Message("ack", "session"), "started", "fail")
    BY DEF SendAck
  <2>3. "started" \in Spots /\ "fail" \in Spots /\ "read" \in Loops
    BY DEF Spots, Loops
  <2> QED BY <1>1, <2>1, <2>2, <2>3, WriteSays DEF Reader
<1>5. wire' \in Seq(Messages) /\ \A type, of : type # "ack" => (Said(type, of)' <=> Said(type, of))
  <2>1. CASE Says("ack", "session")
    BY <2>1 DEF Says
  <2>2. CASE Quiet /\ Reader' = "fail"
    <3>1. UNCHANGED wire
      BY <2>2 DEF SendAck, Write, Goto, TypeOK, Reader, Loops
    <3> QED BY <1>1, <3>1 DEF Said, Log!Logged
  <2> QED BY <1>4, <2>1, <2>2
<1>6. (Reader' = "started" => Said("ack", "session")') /\ (Reader' = "fail" => ~Said("ack", "session")')
  BY <1>3, <1>4 DEF Says, Quiet
<1>7. Waiter' = "none" /\ loop'["terminate"] = "none" /\ loop'["heartbeat"] = "none" /\ \A l \in Loops \ {"read"} : loop'[l] = "none"
  BY <1>3, <1>4, NoLoops DEF Only, Loops, Waiter
<1>8. PhaseInv'
  BY <1>2, <1>3, <1>4, <1>7 DEF PhaseInv
<1>9. ProcInv'
  BY <1>2, <1>3, <1>4, <1>7 DEF CoreInv, ProcInv
<1>10. \A t \in Streams : streams'[t] \in {"off", "open"}
  BY <1>2, <1>3, NoLoops
<1>11. streams'["stdout"] # "off"
  BY <1>2, <1>3 DEF CoreInv, StreamInv
<1>12. cleaner \in {"conn", "join"} => group' = "released"
  BY <1>2, <1>3 DEF CoreInv, EndInv
<1>13. opened' /\ Reader' \in {"started", "fail"}
  BY <1>2, <1>3, <1>4
<1>14. UNCHANGED <<childDone, disconnecting, closed, closeTimer, cleaner, conn>>
  BY <1>2
<1> QED BY <1>1, <1>2, <1>3, <1>4, <1>5, <1>6, <1>8, <1>9, <1>10, <1>11, <1>12, <1>13, <1>14, OpenerMoves

LEMMA PrepareOpenKeeps == ASSUME SessionIInv, PrepareOpen PROVE CoreInv' /\ ~lateSignal'
<1> USE DEF SessionIInv
<1>1. wire \in Seq(Messages) /\ loop \in [Loops -> Spots] /\ Reader = "prepare"
  BY DEF CoreInv, WireInv, TypeOK, PrepareOpen, Reader
<1>2. UNCHANGED <<closed, opened, disconnecting, childDone, streams, conn, closeTimer, cleaner, ackFailed, lateSignal, wire>>
  BY DEF PrepareOpen, flagVars, procVars, endVars, timeVars, histVars
<1>3. ~opened /\ Waiter = "none" /\ ~ackFailed /\ ~Said("ack", "session") /\ ~childDone
  BY <1>1, NoLoops DEF CoreInv, PhaseInv, WireInv
<1>4. Quiet /\ \A type, of : Said(type, of)' <=> Said(type, of)
  BY <1>1, <1>2, QuietSame DEF Said, Log!Logged
<1>5. CASE Goto("read", "rejected") /\ UNCHANGED procVars
  <2>1. Only("read") /\ Reader' = "rejected"
    BY <1>1, <1>5, GotoOnly DEF Spots, Loops, Reader
  <2>2. UNCHANGED calm
    BY <1>2, <1>5 DEF calm, procVars
  <2> QED BY <1>1, <1>2, <1>3, <1>4, <2>1, <2>2, ReaderMoves
<1>6. CASE Goto("read", "publish") /\ child' = "running" /\ group' = "held"
  <2>1. Only("read") /\ Reader' = "publish"
    BY <1>1, <1>6, GotoOnly DEF Spots, Loops, Reader
  <2>2. Waiter' = "none" /\ \A l \in Loops \ {"read"} : loop'[l] = "none"
    BY <1>3, <2>1, NoLoops DEF Only, Loops, Waiter
  <2>3. PhaseInv'
    BY <1>2, <1>3, <2>1, <2>2 DEF PhaseInv
  <2>4. ProcInv'
    BY <1>2, <1>3, <1>6, <2>1, <2>2 DEF ProcInv
  <2>5. \A t \in Streams : streams'[t] = "off"
    BY <1>2, <1>3 DEF CoreInv, StreamInv, StreamOK
  <2>6. UNCHANGED <<childDone, disconnecting, closed, closeTimer, cleaner, conn>> /\ ~opened' /\ ~Said("ack", "session")'
    BY <1>2, <1>3, <1>4
  <2>7. wire' \in Seq(Messages)
    BY <1>1, <1>2
  <2> QED BY <1>1, <1>2, <1>3, <1>4, <2>1, <2>3, <2>4, <2>5, <2>6, <2>7, OpenerMoves
<1> QED BY <1>5, <1>6 DEF PrepareOpen

\* The resources of an Open that comes too late are closed where they are.
LEMMA CloseResourcesKeeps ==
  ASSUME SessionIInv, Reader \in {"publish", "started"}, closed, CloseResources,
         UNCHANGED <<closed, opened, disconnecting, childDone, streams, conn, closeTimer, cleaner, ackFailed, wire>>
  PROVE  CoreInv' /\ ~lateSignal'
<1> USE DEF SessionIInv
<1>1. wire \in Seq(Messages) /\ loop \in [Loops -> Spots]
  BY DEF CoreInv, WireInv, TypeOK
<1>2. Quiet /\ \A type, of : Said(type, of)' <=> Said(type, of)
  BY <1>1, QuietSame DEF Said, Log!Logged
<1>3. Waiter = "none" /\ (Reader = "started" <=> opened) /\ ~childDone
  BY NoLoops DEF CoreInv, PhaseInv
<1>4. Only("read") /\ Reader' = "ended" /\ child' = "reaped" /\ group' = "released" /\ ~stray'
  BY <1>1, GotoOnly DEF CloseResources, Spots, Loops, Reader
<1>5. Waiter' = "none" /\ \A l \in Loops \ {"read"} : loop'[l] = "none"
  BY <1>3, <1>4, NoLoops DEF Only, Loops, Waiter
<1>6. PhaseInv'
  BY <1>3, <1>4, <1>5 DEF CoreInv, PhaseInv
<1>7. ProcInv'
  BY <1>3, <1>4, <1>5 DEF ProcInv
<1>8. \A t \in Streams : streams'[t] \in {"off", "open"} /\ (~opened' => streams'[t] = "off")
  BY <1>3, NoLoops DEF CoreInv, StreamInv, StreamOK
<1>9. (opened' => streams'["stdout"] # "off") /\ (Said("ack", "session")' => opened')
  BY <1>2 DEF CoreInv, StreamInv, WireInv
<1>10. ~lateSignal'
  BY InTime DEF CloseResources
<1>11. wire' \in Seq(Messages)
  BY <1>1
<1> QED BY <1>2, <1>3, <1>4, <1>6, <1>7, <1>8, <1>9, <1>10, <1>11, OpenerMoves

LEMMA PublishKeeps == ASSUME SessionIInv, Publish PROVE CoreInv' /\ ~lateSignal'
<1> USE DEF SessionIInv
<1>1. wire \in Seq(Messages) /\ loop \in [Loops -> Spots] /\ Reader = "publish"
  BY DEF CoreInv, WireInv, TypeOK, Publish, Reader
<1>2. UNCHANGED <<closed, disconnecting, childDone, conn, closeTimer, cleaner, ackFailed, wire>>
  BY DEF Publish
<1>3. ~opened /\ Waiter = "none" /\ ~ackFailed /\ ~Said("ack", "session") /\ ~childDone
  BY <1>1, NoLoops DEF CoreInv, PhaseInv, WireInv
<1>4. CASE closed
  BY <1>1, <1>2, <1>4, CloseResourcesKeeps DEF Publish
<1>5. CASE ~closed
  <2>1. /\ opened' /\ UNCHANGED <<child, stray, group, lateSignal>> /\ Goto("read", "ack")
        /\ streams' = [t \in Streams |-> IF t = "stdout" \/ ~tty THEN "open" ELSE "off"]
    BY <1>5 DEF Publish, procVars
  <2>2. Only("read") /\ Reader' = "ack"
    BY <1>1, <2>1, GotoOnly DEF Spots, Loops, Reader
  <2>3. Waiter' = "none" /\ \A l \in Loops \ {"read"} : loop'[l] = "none"
    BY <1>3, <2>2, NoLoops DEF Only, Loops, Waiter
  <2>4. \A type, of : Said(type, of)' <=> Said(type, of)
    BY <1>2 DEF Said, Log!Logged
  <2>5. PhaseInv'
    BY <1>2, <1>3, <2>1, <2>2, <2>3 DEF PhaseInv
  <2>6. ProcInv'
    BY <1>1, <1>2, <1>3, <2>1, <2>2, <2>3 DEF CoreInv, ProcInv
  <2>7. streams'["stdout"] = "open" /\ \A t \in Streams : streams'[t] \in {"off", "open"}
    BY <2>1 DEF Streams
  <2>8. cleaner = "none"
    BY <1>5 DEF CoreInv, EndInv
  <2>9. ~Said("ack", "session")' /\ wire' \in Seq(Messages)
    BY <1>1, <1>2, <1>3, <2>4
  <2> QED BY <1>1, <1>2, <1>3, <2>1, <2>2, <2>4, <2>5, <2>6, <2>7, <2>8, <2>9, OpenerMoves
<1> QED BY <1>4, <1>5

LEMMA StartLoopsKeeps == ASSUME SessionIInv, StartLoops PROVE CoreInv' /\ ~lateSignal'
<1> USE DEF SessionIInv
<1>1. wire \in Seq(Messages) /\ loop \in [Loops -> Spots] /\ Reader = "started"
  BY DEF CoreInv, WireInv, TypeOK, StartLoops, Reader
<1>2. UNCHANGED <<closed, opened, disconnecting, childDone, streams, conn, closeTimer, cleaner, ackFailed, wire>>
  BY DEF StartLoops, flagVars, endVars, timeVars
<1>3. opened /\ Waiter = "none" /\ ~ackFailed /\ Said("ack", "session") /\ ~childDone
  BY <1>1, NoLoops DEF CoreInv, PhaseInv, WireInv
<1>4. CASE closed
  BY <1>1, <1>2, <1>4, CloseResourcesKeeps DEF StartLoops
<1>5. CASE ~closed
  <2>1. /\ UNCHANGED <<child, stray, group>> /\ ~lateSignal'
        /\ loop' = [l \in Loops |-> CASE l = "read" -> "read" [] l = "wait" -> "group"
                      [] l = "heartbeat" -> "beat" [] l = "terminate" -> loop[l]
                      [] OTHER -> IF streams[l] = "open" THEN "read" ELSE "ended"]
    BY <1>5, InTime DEF StartLoops, procVars
  <2>2. Reader' = "read" /\ Waiter' = "group" /\ loop'["heartbeat"] = "beat" /\ loop'["terminate"] = "none"
    BY <1>3, <2>1, NoLoops DEF Loops, Reader, Waiter
  <2>3. \A t \in Streams : loop'[t] = IF streams[t] = "open" THEN "read" ELSE "ended"
    BY <2>1 DEF Loops, Streams
  <2>4. \A type, of : Said(type, of)' <=> Said(type, of)
    BY <1>2 DEF Said, Log!Logged
  <2>5. PlaceInv'
    BY <2>2, <2>3 DEF PlaceInv
  <2>6. PhaseInv'
    BY <1>2, <1>3, <2>2, <2>3 DEF PhaseInv
  <2>7. ProcInv'
    BY <1>2, <1>3, <2>1, <2>2 DEF CoreInv, ProcInv
  <2>8. EndInv'
    BY <1>2, <1>5 DEF CoreInv, EndInv
  <2>9. StreamInv'
    BY <1>2, <1>3, <2>2, <2>3 DEF CoreInv, StreamInv, StreamOK
  <2>10. \A t \in Streams : SaidOK(t)'
    BY <1>2, <1>3, <2>2, <2>3, <2>4, NoLoops DEF SaidOK
  <2>11. WireInv'
    BY <1>1, <1>2, <1>3, <2>2, <2>4, <2>10 DEF WireInv
  <2>12. CloseInv'
    <3>1. ~Said("close", "session")'
      BY <1>3, <2>4, NoLoops
    <3>2. \A l \in Loops : loop'[l] # "close"
      BY <2>2, <2>3 DEF Loops, Streams, Reader, Waiter
    <3> QED BY <3>1, <3>2 DEF CloseInv, CloseOK
  <2> QED BY <2>1, <2>5, <2>6, <2>7, <2>8, <2>9, <2>11, <2>12 DEF CoreInv
<1> QED BY <1>4, <1>5

----------------------------------------------------------------------------
(* The messages of the client. *)

\* A terminating loop starts, once, while the process may run.
LEMMA TerminateStarts ==
  ASSUME SessionIInv, Only("terminate"), UNCHANGED calm, UNCHANGED wire, loop'["terminate"] = "signal",
         Reader = "read", opened, ~closed, ~childDone
  PROVE  CoreInv'
<1> USE DEF SessionIInv
<1>1. Quiet
  BY QuietSame DEF CoreInv, WireInv
<1>2. /\ Reader' = Reader /\ Waiter' = Waiter /\ loop'["stdout"] = loop["stdout"] /\ loop'["stderr"] = loop["stderr"]
      /\ loop'["heartbeat"] = loop["heartbeat"]
  BY DEF Only, Loops, Reader, Waiter
<1>3. UNCHANGED <<closed, opened, disconnecting, childDone, child, stray, group, streams, conn, closeTimer, cleaner, ackFailed>>
  BY DEF calm
<1>4. Waiter # "none" /\ cleaner = "none"
  BY DEF CoreInv, PhaseInv, EndInv
<1>5. PlaceInv'
  BY <1>2 DEF CoreInv, PlaceInv, Streams
<1>6. PhaseInv'
  BY <1>2, <1>3, <1>4 DEF CoreInv, PhaseInv, Streams
<1>7. ProcInv'
  BY <1>2, <1>3 DEF CoreInv, ProcInv
<1>8. EndInv'
  BY <1>3, <1>4 DEF CoreInv, EndInv
<1>9. StreamInv' /\ \A t \in Streams : SaidOK(t)'
  BY <1>1, <1>2, <1>3, StreamsRest DEF Quiet, Streams
<1>10. WireInv'
  BY <1>1, <1>2, <1>3, <1>9 DEF CoreInv, WireInv, Quiet
<1>11. CloseInv'
  <2>1. ~Said("close", "session")' /\ \A l \in Loops : loop[l] # "close"
    BY <1>1 DEF CoreInv, CloseInv, CloseOK, Quiet
  <2>2. \A l \in Loops : loop'[l] # "close"
    BY <2>1 DEF Only
  <2> QED BY <2>1, <2>2 DEF CloseInv, CloseOK
<1> QED BY <1>5, <1>6, <1>7, <1>8, <1>9, <1>10, <1>11 DEF CoreInv

LEMMA ReadTerminateKeeps == ASSUME SessionIInv, ReadTerminate PROVE CoreInv' /\ ~lateSignal'
<1> USE DEF SessionIInv
<1>1. wire \in Seq(Messages) /\ loop \in [Loops -> Spots] /\ Reader = "read"
  BY DEF CoreInv, WireInv, TypeOK, ReadTerminate, Reader
<1>2. UNCHANGED calm /\ UNCHANGED wire /\ ~lateSignal'
  BY DEF ReadTerminate, calm, procVars, endVars, timeVars, histVars
<1>3. PICK start \in BOOLEAN :
        /\ start => ~closed /\ opened /\ ~childDone
        /\ loop' = [loop EXCEPT !["read"] = IF closed THEN "ended" ELSE IF opened THEN "read" ELSE "fail",
                                !["terminate"] = IF start THEN "signal" ELSE @]
  BY DEF ReadTerminate
<1>4. CASE start
  <2>1. Only("terminate") /\ loop'["terminate"] = "signal"
    BY <1>1, <1>3, <1>4 DEF Only, Loops, Spots, Reader
  <2> QED BY <1>1, <1>2, <1>3, <1>4, <2>1, TerminateStarts
<1>5. CASE ~start
  <2>1. Only("read") /\ Reader' \in {"read", "fail", "ended"}
    BY <1>1, <1>3, <1>5 DEF Only, Loops, Spots, Reader
  <2> QED BY <1>1, <1>2, <2>1, QuietSame, ReaderMoves
<1> QED BY <1>4, <1>5

\* The reading loop between two Opens.
LEMMA ReadingKeeps ==
  ASSUME SessionIInv,
         \/ Run \/ StartReading \/ ReadFails \/ ReadOpen \/ ReadRefused \/ RefuseAttach \/ ReadStdin \/ StdinTaken
         \/ StdinBroken \/ ReadStdinEnd \/ ReadResize \/ RejectOpen
  PROVE  CoreInv' /\ ~lateSignal'
<1> USE DEF SessionIInv
<1>1. wire \in Seq(Messages) /\ loop \in [Loops -> Spots] /\ "read" \in Loops
  BY DEF CoreInv, WireInv, TypeOK, Loops
<1>2. Reader \in {"start", "hello", "prepare", "rejected"} => ~opened
  BY DEF CoreInv, PhaseInv
<1>3. CASE Run
  <2>1. UNCHANGED calm /\ ~lateSignal' /\ Reader = "start"
    BY <1>3 DEF Run, calm, flagVars, procVars, endVars, timeVars, histVars, Reader
  <2>2. Message("hello", "session") \in Messages
    BY SMT DEF Messages
  <2>3. \/ (Goto("read", "hello") \/ Goto("read", "fail")) /\ UNCHANGED wire
        \/ Write("read", Message("hello", "session"), "hello", "fail")
    BY <1>3 DEF Run
  <2>4. "hello" \in Spots /\ "fail" \in Spots
    BY DEF Spots
  <2>5. Only("read") /\ Quiet /\ Reader' \in {"hello", "fail"}
    BY <1>1, <2>2, <2>3, <2>4, GotoOnly, QuietSame, WriteSays, SaysQuiet DEF Reader
  <2> QED BY <1>2, <2>1, <2>5, ReaderMoves
<1>4. CASE RefuseAttach \/ RejectOpen
  <2>1. UNCHANGED calm /\ ~lateSignal' /\ Reader \in {"attach", "rejected"}
    <3>1. UNCHANGED <<flagVars, procVars, streams, conn, endVars, histVars>> /\ Reader \in {"attach", "rejected"}
      BY <1>4 DEF RefuseAttach, RejectOpen, Reader
    <3> QED BY SMT, <3>1 DEF calm, flagVars, procVars, endVars, timeVars, histVars
  <2>2. Message("error", "session") \in Messages
    BY SMT DEF Messages
  <2>3. PICK x \in {"handshake", "fail"} :
          Write("read", Message("error", "session"), x, "fail") /\ (x = "handshake" => Reader = "rejected")
    BY <1>4 DEF RefuseAttach, RejectOpen, Reader
  <2>4. x \in Spots /\ "fail" \in Spots
    BY DEF Spots
  <2>5. Only("read") /\ Quiet /\ Reader' \in {x, "fail"}
    BY <1>1, <2>2, <2>3, <2>4, WriteSays, SaysQuiet DEF Reader
  <2> QED BY <1>2, <2>1, <2>3, <2>5, ReaderMoves
<1>5. ASSUME UNCHANGED <<calm, wire, lateSignal>>,
             NEW x \in {"read", "stdin", "attach", "prepare", "fail", "ended"}, Goto("read", x),
             Reader \in {"hello", "read", "stdin"}, x = "prepare" => ~opened, Reader = "hello" /\ closed => x = "ended"
      PROVE  CoreInv' /\ ~lateSignal'
  <2>1. x \in Spots
    BY DEF Spots
  <2>2. Only("read") /\ Reader' = x
    BY <1>1, <1>5, <2>1, GotoOnly DEF Reader
  <2>3. Quiet /\ UNCHANGED calm
    BY <1>1, <1>5, QuietSame
  <2> QED BY <1>5, <2>2, <2>3, ReaderMoves
<1>6. CASE StartReading \/ ReadFails \/ StdinTaken \/ StdinBroken
  <2>1. UNCHANGED <<calm, wire, lateSignal>>
    BY <1>6 DEF StartReading, ReadFails, StdinTaken, StdinBroken, calm, flagVars, procVars, endVars, timeVars, histVars
  <2>2. \E x \in {"read", "fail", "ended"} : Goto("read", x) /\ (Reader = "hello" /\ closed => x = "ended")
    BY <1>6 DEF StartReading, ReadFails, StdinTaken, StdinBroken, Reader
  <2>3. Reader \in {"hello", "read", "stdin"}
    BY <1>6 DEF StartReading, ReadFails, StdinTaken, StdinBroken, Reader
  <2> QED BY <1>5, <2>1, <2>2, <2>3
<1>7. CASE ReadOpen \/ ReadRefused \/ ReadStdin \/ ReadStdinEnd \/ ReadResize
  <2>1. UNCHANGED <<calm, wire, lateSignal>>
    BY <1>7 DEF ReadOpen, ReadRefused, ReadStdin, ReadStdinEnd, ReadResize, calm, flagVars, procVars, endVars, timeVars, histVars
  <2>2. \E x \in {"read", "stdin", "attach", "prepare", "fail"} : Receive(x) /\ (x = "prepare" => ~opened)
    BY <1>7 DEF ReadOpen, ReadRefused, ReadStdin, ReadStdinEnd, ReadResize
  <2>3. \E x \in {"read", "stdin", "attach", "prepare", "fail", "ended"} : Goto("read", x) /\ (x = "prepare" => ~opened)
    BY <2>2 DEF Receive
  <2>4. Reader = "read"
    BY <2>2 DEF Receive, Reader
  <2> QED BY <1>5, <2>1, <2>3, <2>4
<1> QED BY <1>3, <1>4, <1>6, <1>7

----------------------------------------------------------------------------
(* The loops of an open session. *)

LEMMA CopyingKeeps ==
  ASSUME SessionIInv, NEW t \in Streams, ReadStream(t) \/ StreamBroken(t) \/ SendStream(t) \/ AfterEnd(t)
  PROVE  CoreInv' /\ ~lateSignal'
<1> USE DEF SessionIInv
<1>1. /\ wire \in Seq(Messages) /\ loop \in [Loops -> Spots] /\ t \in Loops /\ t # "session"
      /\ streams \in [Streams -> {"off", "open", "ending", "ended"}]
  BY DEF CoreInv, WireInv, TypeOK, Loops, Streams
<1>2. UNCHANGED <<closed, opened, disconnecting, childDone, child, stray, group, conn, closeTimer, cleaner, ackFailed, lateSignal>>
  BY DEF ReadStream, StreamBroken, SendStream, AfterEnd, flagVars, procVars, endVars, timeVars, histVars
<1>3. loop[t] \in {"read", "data", "eos", "after"}
  BY DEF ReadStream, StreamBroken, SendStream, AfterEnd
<1>4. StreamOK(t) /\ SaidOK(t) /\ Waiter # "none"
  BY <1>1, <1>3 DEF CoreInv, StreamInv, WireInv, PhaseInv, Loops, Streams
<1>5. ASSUME Only(t) PROVE Waiter' = Waiter
  BY <1>5 DEF Only, Loops, Streams, Waiter
<1>6. ASSUME Only(t), UNCHANGED <<streams, wire>>, loop[t] = "read", loop'[t] \in {"data", "fail", "ended"}
      PROVE  CoreInv'
  <2>1. Quiet /\ Waiter' = Waiter
    BY <1>1, <1>5, <1>6, QuietSame
  <2>2. StreamOK(t)' /\ streams[t] = "open"
    BY <1>2, <1>4, <1>6, <2>1 DEF StreamOK
  <2>3. (Said("data", t)' <=> Said("data", t)) /\ (Said("eos", t)' <=> Said("eos", t))
    BY <2>1 DEF Quiet
  <2>4. SaidOK(t)'
    BY <1>4, <1>6, <2>1, <2>2, <2>3 DEF SaidOK
  <2> QED BY <1>2, <1>6, <2>1, <2>2, <2>4, StreamMoves DEF Quiet
<1>7. CASE StreamBroken(t)
  <2>1. PICK x \in {"fail", "ended"} : Goto(t, x) /\ UNCHANGED <<streams, wire>> /\ loop[t] = "read"
    BY <1>7 DEF StreamBroken
  <2>2. Only(t) /\ loop'[t] = x
    BY <1>1, <2>1, GotoOnly DEF Spots
  <2> QED BY <1>2, <1>6, <2>1, <2>2
<1>8. CASE ReadStream(t)
  <2>1. UNCHANGED wire /\ loop[t] = "read"
    BY <1>8 DEF ReadStream
  <2>2. CASE UNCHANGED streams /\ \E x \in {"data", "ended"} : Goto(t, x)
    <3>1. PICK x \in {"data", "ended"} : Goto(t, x)
      BY <2>2
    <3>2. Only(t) /\ loop'[t] = x
      BY <1>1, <3>1, GotoOnly DEF Spots
    <3> QED BY <1>2, <1>6, <2>1, <2>2, <3>2
  <2>3. CASE streams' = [streams EXCEPT ![t] = "ending"] /\ Goto(t, "eos")
    <3>1. Only(t) /\ loop'[t] = "eos"
      BY <1>1, <2>3, GotoOnly DEF Spots
    <3>2. streams'[t] = "ending" /\ \A u \in Streams \ {t} : streams'[u] = streams[u]
      BY <1>1, <2>3
    <3>3. Quiet /\ Waiter' = Waiter
      BY <1>1, <1>5, <2>1, <3>1, QuietSame
    <3>4. opened /\ StreamOK(t)'
      BY <1>2, <1>4, <3>1, <3>2, <3>3 DEF StreamOK, CoreInv, PhaseInv
    <3>5. (Said("data", t)' <=> Said("data", t)) /\ (Said("eos", t)' <=> Said("eos", t))
      BY <3>3 DEF Quiet
    <3>6. SaidOK(t)'
      BY <1>4, <2>1, <3>1, <3>2, <3>3, <3>5 DEF SaidOK
    <3> QED BY <1>2, <2>1, <3>1, <3>2, <3>3, <3>4, <3>6, StreamMoves DEF Quiet
  <2> QED BY <1>8, <2>2, <2>3 DEF ReadStream
<1>9. CASE SendStream(t)
  <2>1. UNCHANGED streams /\ streams[t] # "off"
    BY <1>4, <1>9 DEF SendStream, StreamOK
  <2>2. PICK type \in {"data", "eos"} :
          loop[t] = type /\ Write(t, Message(type, t), IF type = "data" THEN "read" ELSE "after", "fail")
    BY <1>9 DEF SendStream
  <2>3. PICK x \in Spots : x = IF type = "data" THEN "read" ELSE "after"
    BY DEF Spots
  <2>4. Message(type, t) \in Messages /\ "fail" \in Spots
    BY SMT DEF Messages, Spots
  <2>5. Only(t) /\ \/ Says(type, t) /\ loop'[t] = x
                   \/ Quiet /\ loop'[t] = "fail"
    BY SMT, <1>1, <2>2, <2>3, <2>4, WriteSays
  <2>6. Waiter' = Waiter /\ wire' \in Seq(Messages)
    BY <1>5, <2>5 DEF Says, Quiet
  <2>7. StreamOK(t)'
    BY <1>2, <1>4, <2>1, <2>2, <2>3, <2>5, <2>6 DEF StreamOK
  <2>8. SaidOK(t)'
    <3>1. CASE Quiet /\ loop'[t] = "fail"
      <4>1. (Said("data", t)' <=> Said("data", t)) /\ (Said("eos", t)' <=> Said("eos", t))
        BY <3>1 DEF Quiet
      <4> QED BY <1>4, <2>1, <2>6, <3>1, <4>1 DEF SaidOK
    <3>2. CASE Says(type, t) /\ loop'[t] = x
      <4>1. /\ Said("data", t)' <=> Said("data", t) \/ type = "data"
            /\ Said("eos", t)' <=> Said("eos", t) \/ type = "eos"
        BY <3>2 DEF Says
      <4> QED BY <1>4, <2>1, <2>2, <2>3, <2>6, <3>2, <4>1 DEF SaidOK
    <3> QED BY <2>5, <3>1, <3>2
  <2>9. /\ \A u \in Streams \ {t}, y \in {"data", "eos"} : Said(y, u)' <=> Said(y, u)
        /\ \A y \in {"ack", "close"} : Said(y, "session")' <=> Said(y, "session")
    BY <1>1, <2>5 DEF Says, Quiet
  <2> QED BY <1>2, <1>3, <2>1, <2>3, <2>5, <2>6, <2>7, <2>8, <2>9, StreamMoves
<1>10. CASE AfterEnd(t)
  <2>1. loop[t] = "after" /\ UNCHANGED wire /\ streams' = [streams EXCEPT ![t] = "ended"]
    BY <1>10 DEF AfterEnd
  <2>2. PICK x \in {"close", "ended"} : Goto(t, x) /\ (x = "close" => Ended' /\ childDone)
    BY <1>10 DEF AfterEnd
  <2>3. Only(t) /\ loop'[t] = x
    BY <1>1, <2>2, GotoOnly DEF Spots
  <2>4. streams'[t] = "ended" /\ \A u \in Streams \ {t} : streams'[u] = streams[u]
    BY <1>1, <2>1
  <2>5. Quiet /\ Waiter' = Waiter
    BY <1>1, <1>5, <2>1, <2>3, QuietSame
  <2>6. opened /\ StreamOK(t)'
    BY <1>2, <1>4, <2>3, <2>4, <2>5 DEF StreamOK, CoreInv, PhaseInv
  <2>7. (Said("data", t)' <=> Said("data", t)) /\ (Said("eos", t)' <=> Said("eos", t))
    BY <2>5 DEF Quiet
  <2>8. SaidOK(t)'
    BY <1>4, <2>1, <2>3, <2>4, <2>5, <2>7 DEF SaidOK
  <2> QED BY <1>2, <2>1, <2>2, <2>3, <2>4, <2>5, <2>6, <2>8, StreamMoves DEF Quiet
<1> QED BY <1>2, <1>7, <1>8, <1>9, <1>10

LEMMA WaitingKeeps ==
  ASSUME SessionIInv, TypeOK', WaitGroup \/ WaitCopies \/ Reap \/ ChildExit
  PROVE  CoreInv' /\ ~lateSignal'
<1> USE DEF SessionIInv
<1>1. wire \in Seq(Messages) /\ loop \in [Loops -> Spots] /\ "wait" \in Loops
  BY DEF CoreInv, WireInv, TypeOK, Loops
<1>2. UNCHANGED <<closed, opened, disconnecting, streams, conn, closeTimer, cleaner, ackFailed, wire>>
  BY DEF WaitGroup, WaitCopies, Reap, ChildExit, flagVars, procVars, endVars, timeVars, histVars
<1>3. ~lateSignal'
  BY InTime DEF WaitGroup, WaitCopies, Reap, ChildExit, histVars
<1>4. Waiter \in {"group", "join", "reap", "exit"} /\ opened /\ ~childDone
  <2>1. Waiter \in {"group", "join", "reap", "exit"}
    BY DEF WaitGroup, WaitCopies, Reap, ChildExit, Waiter
  <2> QED BY <2>1 DEF CoreInv, PhaseInv, ProcInv
<1>5. PICK x \in {"join", "reap", "exit", "close", "ended"} : Goto("wait", x)
  BY DEF WaitGroup, WaitCopies, Reap, ChildExit
<1>6. Only("wait") /\ Waiter' = x
  BY <1>1, <1>5, GotoOnly DEF Spots, Waiter
<1>7. Reader' = Reader
  BY <1>6 DEF Only, Loops, Reader
<1>8. ASSUME UNCHANGED childDone, x # "close" PROVE CloseInv'
  <2>1. \A l \in Loops : loop'[l] = "close" => loop[l] = "close"
    BY <1>6, <1>8 DEF Only, Waiter
  <2>2. Said("close", "session")' <=> Said("close", "session")
    BY <1>2 DEF Said, Log!Logged
  <2>3. ~Said("close", "session")
    BY <1>4 DEF CoreInv, CloseInv
  <2> QED BY <1>2, <1>8, <2>1, <2>2, <2>3, CloseRest
<1>9. child \in {"none", "running", "exited", "reaped"} /\ child' \in {"none", "running", "exited", "reaped"}
  BY DEF TypeOK
<1>10. CASE WaitGroup
  <2>1. x \in {"join", "reap"} /\ UNCHANGED childDone /\ group' = "released" /\ Kill
    BY <1>1, <1>6, <1>10 DEF WaitGroup, flagVars, Goto, Waiter
  <2>2. ProcStep
    BY <1>4, <2>1, KillStep
  <2>3. ProcInv'
    BY <1>2, <1>4, <1>6, <1>7, <1>9, <2>1, <2>2 DEF CoreInv, ProcInv, ProcStep
  <2> QED BY <1>2, <1>3, <1>4, <1>6, <1>8, <2>1, <2>3, WaiterMoves
<1>11. CASE WaitCopies
  <2>1. x = "reap" /\ Waiter = "join" /\ UNCHANGED <<childDone, child, stray, group>>
    BY <1>1, <1>6, <1>11 DEF WaitCopies, flagVars, procVars, Goto, Waiter
  <2>2. ProcInv'
    BY <1>2, <1>4, <1>6, <1>7, <2>1 DEF CoreInv, ProcInv
  <2> QED BY <1>2, <1>3, <1>4, <1>6, <1>8, <2>1, <2>2, WaiterMoves
<1>12. CASE Reap
  <2>1. x = "exit" /\ Waiter = "reap" /\ UNCHANGED <<childDone, stray, group>> /\ child' = "reaped"
    BY <1>1, <1>6, <1>12 DEF Reap, flagVars, Goto, Waiter
  <2>2. ProcInv'
    BY <1>2, <1>4, <1>6, <1>7, <2>1 DEF CoreInv, ProcInv
  <2> QED BY <1>2, <1>3, <1>4, <1>6, <1>8, <2>1, <2>2, WaiterMoves
<1>13. CASE ChildExit
  <2>1. /\ Waiter = "exit" /\ UNCHANGED <<child, stray, group>> /\ childDone' = (childDone \/ ~closed)
        /\ x = IF ~closed /\ Ended THEN "close" ELSE "ended"
    BY <1>1, <1>6, <1>13 DEF ChildExit, procVars, Goto, Waiter
  <2>2. ProcInv'
    BY <1>2, <1>4, <1>6, <1>7, <2>1 DEF CoreInv, ProcInv
  <2>3. CloseInv'
    <3>1. ~Said("close", "session") /\ \A l \in Loops : loop[l] # "close"
      BY <1>4 DEF CoreInv, CloseInv, CloseOK
    <3>2. ~Said("close", "session")'
      BY <1>2, <3>1 DEF Said, Log!Logged
    <3>3. \A l \in Loops : loop'[l] = "close" => l = "wait" /\ childDone' /\ Ended
      BY <1>6, <2>1, <3>1 DEF Only, Waiter
    <3>4. Ended' <=> Ended
      BY <1>2 DEF Ended
    <3> QED BY <3>2, <3>3, <3>4 DEF CloseInv, CloseOK
  <2> QED BY <1>2, <1>3, <1>4, <1>6, <2>1, <2>2, <2>3, WaiterMoves
<1> QED BY <1>10, <1>11, <1>12, <1>13

LEMMA TerminatingKeeps ==
  ASSUME SessionIInv, TypeOK', AskExit \/ GraceEnds \/ ResultEnds \/ Beat
  PROVE  CoreInv' /\ ~lateSignal'
<1> USE DEF SessionIInv
<1>1. wire \in Seq(Messages) /\ loop \in [Loops -> Spots]
  BY DEF CoreInv, WireInv, TypeOK
<1>2. UNCHANGED <<closed, opened, disconnecting, childDone, streams, conn, closeTimer, cleaner, ackFailed, wire>>
  BY DEF AskExit, GraceEnds, ResultEnds, Beat, flagVars, endVars, timeVars, histVars
<1>3. ~lateSignal'
  BY InTime DEF AskExit, GraceEnds, ResultEnds, Beat, histVars
<1>4. ProcStep
  <2>1. CASE UNCHANGED <<child, stray, group>>
    BY <2>1 DEF ProcStep
  <2>2. CASE Kill /\ UNCHANGED group
    BY <2>2, KillStep
  <2> QED BY <2>1, <2>2 DEF AskExit, GraceEnds, ResultEnds, Beat, procVars
<1>5. CASE AskExit \/ GraceEnds \/ ResultEnds
  <2>1. PICK x \in {"grace", "result", "fail", "ended"} : Goto("terminate", x)
    BY <1>5 DEF AskExit, GraceEnds, ResultEnds
  <2>2. "terminate" \in Loops /\ x \in Spots
    BY DEF Loops, Spots
  <2>3. Only("terminate") /\ loop'["terminate"] = x
    BY <1>1, <2>1, <2>2, GotoOnly
  <2>4. loop["terminate"] \in {"signal", "grace", "result"}
    BY <1>5 DEF AskExit, GraceEnds, ResultEnds
  <2> QED BY <1>2, <1>3, <1>4, <2>3, <2>4, HelperMoves
<1>6. CASE Beat
  <2>1. PICK x \in {"fail", "ended"} : Goto("heartbeat", x) /\ loop["heartbeat"] = "beat"
    BY <1>6 DEF Beat
  <2>2. "heartbeat" \in Loops /\ x \in Spots
    BY DEF Loops, Spots
  <2>3. Only("heartbeat") /\ loop'["heartbeat"] = x
    BY <1>1, <2>1, <2>2, GotoOnly
  <2> QED BY <1>2, <1>3, <1>4, <2>1, <2>3, HelperMoves
<1> QED BY <1>5, <1>6

----------------------------------------------------------------------------
(* Timers, shutdown, cleanup, the process and the peer. *)

LEMMA OutsideKeeps ==
  ASSUME SessionIInv, TypeOK',
         \/ OpenTimeout \/ CloseTimeout \/ Shutdown \/ ShutdownAsks \/ ShutdownWaits \/ ShutdownKills \/ ShutdownJoins
         \/ CleanProcess \/ CleanConn \/ Finish \/ Exit \/ PeerLost
  PROVE  CoreInv' /\ ~lateSignal'
<1> USE DEF SessionIInv
<1>1. UNCHANGED <<loop, wire, streams, opened, disconnecting, childDone, ackFailed>>
  <2>1. CASE OpenTimeout \/ CloseTimeout \/ Shutdown \/ ShutdownAsks \/ ShutdownWaits \/ ShutdownKills
    BY <2>1 DEF OpenTimeout, CloseTimeout, Shutdown, ShutdownAsks, ShutdownWaits, ShutdownKills, flagVars, histVars
  <2>2. CASE ShutdownJoins \/ CleanProcess \/ CleanConn \/ Finish \/ Exit \/ PeerLost
    BY <2>2 DEF ShutdownJoins, CleanProcess, CleanConn, Finish, Exit, PeerLost, flagVars, histVars
  <2> QED BY <2>1, <2>2
<1>2. Reader' = Reader /\ Waiter' = Waiter
  BY <1>1 DEF Reader, Waiter
<1>3. ASSUME ProcStep, ~lateSignal', closed => closed', ~closed' => UNCHANGED closeTimer, EndInv'
      PROVE  CoreInv' /\ ~lateSignal'
  BY <1>1, <1>3, OutsideMoves
<1>4. ASSUME UNCHANGED <<child, stray, group>> \/ (Kill /\ UNCHANGED group), UNCHANGED lateSignal \/ Interrupt PROVE ProcStep /\ ~lateSignal'
  BY SMT, <1>4, KillStep, InTime DEF ProcStep
<1>5. ASSUME ProcStep PROVE group = "released" => group' = "released"
  BY <1>5 DEF ProcStep
<1>6. ASSUME ~closed \/ UNCHANGED <<closed, cleaner, closeTimer>>, Close, ProcStep, ~lateSignal', UNCHANGED conn
      PROVE  CoreInv' /\ ~lateSignal'
  <2>1. closed' /\ (closed => UNCHANGED <<closed, cleaner, closeTimer>>) /\ (~closed => cleaner' = "process")
    BY SMT, <1>6 DEF Close, endVars, timeVars
  <2>2. EndInv'
    BY <1>1, <1>2, <1>5, <1>6, <2>1 DEF CoreInv, EndInv
  <2> QED BY <1>3, <1>6, <2>1, <2>2
<1>7. ASSUME UNCHANGED <<closed, cleaner, closeTimer>>, ProcStep, ~lateSignal',
             UNCHANGED conn \/ conn' = "closed" \/ conn # "closed"
      PROVE  CoreInv' /\ ~lateSignal'
  <2>1. EndInv'
    BY <1>1, <1>2, <1>5, <1>7 DEF CoreInv, EndInv
  <2> QED BY <1>3, <1>7, <2>1
<1>8. CASE OpenTimeout \/ CloseTimeout
  <2>1. UNCHANGED <<child, stray, group, lateSignal, conn>> /\ Close /\ ~closed
    BY <1>8 DEF OpenTimeout, CloseTimeout, procVars, histVars
  <2> QED BY <1>4, <1>6, <2>1
<1>9. CASE Shutdown
  <2>1. UNCHANGED <<child, stray, group, lateSignal, conn>>
    BY <1>9 DEF Shutdown, procVars, histVars
  <2>2. (Close /\ ~closed) \/ UNCHANGED <<closed, cleaner, closeTimer>>
    BY <1>9 DEF Shutdown, endVars, timeVars
  <2> QED BY <1>4, <1>6, <1>7, <2>1, <2>2
<1>10. CASE ShutdownAsks
  <2>1. UNCHANGED <<child, stray, group, conn, closed, cleaner, closeTimer>> /\ Interrupt
    BY <1>10 DEF ShutdownAsks, procVars, endVars, timeVars
  <2> QED BY <1>4, <1>7, <2>1
<1>11. CASE ShutdownWaits
  <2>1. UNCHANGED <<child, stray, group, conn, closed, cleaner, closeTimer, lateSignal>>
    BY <1>11 DEF ShutdownWaits, procVars, endVars, timeVars, histVars
  <2> QED BY <1>4, <1>7, <2>1
<1>12. CASE ShutdownKills
  <2>1. UNCHANGED <<group, conn>> /\ Close /\ (UNCHANGED <<child, stray, lateSignal>> \/ Kill)
    BY <1>12 DEF ShutdownKills
  <2>2. ~closed \/ UNCHANGED <<closed, cleaner, closeTimer>>
    BY <2>1 DEF Close, endVars, timeVars
  <2>3. UNCHANGED lateSignal \/ Interrupt
    BY <2>1 DEF Kill
  <2> QED BY <1>4, <1>6, <2>1, <2>2, <2>3
<1>13. CASE ShutdownJoins
  <2>1. UNCHANGED <<child, stray, group, closed, cleaner, closeTimer, lateSignal>> /\ (UNCHANGED conn \/ conn' = "closed")
    BY <1>13 DEF ShutdownJoins, procVars, endVars, timeVars, histVars
  <2> QED BY <1>4, <1>7, <2>1
<1>14. CASE CleanProcess
  <2>1. cleaner = "process" /\ cleaner' = "conn" /\ UNCHANGED <<conn, closed, closeTimer>>
    BY <1>14 DEF CleanProcess, timeVars
  <2>2. \/ opened /\ Kill /\ group' = "released"
        \/ ~opened /\ UNCHANGED <<child, stray, group, lateSignal>>
    BY <1>14 DEF CleanProcess
  <2>3. ProcStep /\ ~lateSignal'
    BY <1>4, <2>2, KillStep, InTime
  <2>4. EndInv'
    BY <1>1, <1>2, <2>1, <2>2 DEF CoreInv, EndInv
  <2> QED BY <1>3, <2>1, <2>3, <2>4
<1>15. CASE CleanConn
  <2>1. cleaner = "conn" /\ cleaner' = "join" /\ conn' = "closed" /\ UNCHANGED <<child, stray, group, lateSignal, closed, closeTimer>>
    BY <1>15 DEF CleanConn, procVars, timeVars, histVars
  <2>2. EndInv'
    BY <1>1, <1>2, <2>1 DEF CoreInv, EndInv
  <2> QED BY <1>3, <1>4, <2>1, <2>2
<1>16. CASE Finish
  <2>1. /\ cleaner = "join" /\ cleaner' = "done" /\ UNCHANGED <<child, stray, group, lateSignal, conn, closed, closeTimer>>
        /\ \A l \in Loops : loop[l] \in {"none", "start", "hello", "ended"}
    BY <1>16 DEF Finish, procVars, timeVars, histVars
  <2>2. /\ Reader \in {"start", "hello", "ended"} /\ (Reader # "ended" => ~opened)
        /\ \A l \in Loops \ {"read"} : loop[l] \in {"none", "ended"}
    <3>1. Reader \in {"start", "hello", "ended"}
      BY <2>1 DEF CoreInv, PlaceInv, Loops, Reader
    <3>2. \A l \in Loops \ {"read"} : loop[l] \in {"none", "ended"}
      BY <2>1 DEF CoreInv, PlaceInv, Loops, Streams, Waiter
    <3> QED BY <3>1, <3>2 DEF CoreInv, PhaseInv
  <2>3. EndInv'
    BY <1>1, <1>2, <2>1, <2>2 DEF CoreInv, EndInv
  <2> QED BY <1>3, <1>4, <2>1, <2>3
<1>17. CASE Exit
  <2>1. UNCHANGED <<group, conn, closed, cleaner, closeTimer, lateSignal>>
    BY <1>17 DEF Exit, endVars, timeVars, histVars
  <2>2. ProcStep
    BY SMT, <1>17, <2>1 DEF Exit, ProcStep
  <2> QED BY <1>7, <2>1, <2>2
<1>18. CASE PeerLost
  <2>1. UNCHANGED <<child, stray, group, closed, cleaner, closeTimer, lateSignal>> /\ conn = "open" /\ conn' = "lost"
    BY <1>18 DEF PeerLost, procVars, endVars, timeVars, histVars
  <2> QED BY <1>4, <1>7, <2>1
<1> QED BY <1>8, <1>9, <1>10, <1>11, <1>12, <1>13, <1>14, <1>15, <1>16, <1>17, <1>18

----------------------------------------------------------------------------
(* Theorems. *)

LEMMA SessionIInvInit == ASSUME MaxMessages \in Nat, MaxData \in Nat, Init PROVE SessionIInv
<1>1. TypeOK /\ ~lateSignal
  <2>1. {closed, opened, disconnecting, shutdownReq, terminationReq, childDone, tty, stray, askStop,
         openTimer, closeTimer, ackFailed, lateSignal} \subseteq BOOLEAN
    BY DEF Init
  <2>2. loop \in [Loops -> Spots] /\ streams \in [Streams -> {"off", "open", "ending", "ended"}]
    BY DEF Init, Spots
  <2>3. received \in 0..MaxMessages /\ chunks \in 0..MaxData
    BY SMT DEF Init
  <2> QED BY <2>1, <2>2, <2>3 DEF Init, TypeOK
<1>2. /\ Reader = "start" /\ \A l \in Loops \ {"read"} : loop[l] = "none"
      /\ Waiter = "none" /\ loop["terminate"] = "none" /\ loop["heartbeat"] = "none" /\ \A t \in Streams : loop[t] = "none"
  BY DEF Init, Loops, Streams, Reader, Waiter
<1>3. \A type, of : ~Said(type, of)
  BY SMT DEF Init, Said, Log!Logged
<1>4. PlaceInv /\ PhaseInv /\ ProcInv /\ EndInv
  BY <1>2 DEF Init, PlaceInv, PhaseInv, ProcInv, EndInv
<1>5. StreamInv
  BY <1>2 DEF Init, StreamInv, StreamOK
<1>6. WireInv
  BY SMT, <1>2, <1>3, <1>5 DEF Init, WireInv, SaidOK, StreamInv, StreamOK
<1>7. CloseInv
  BY <1>2, <1>3 DEF CloseInv, CloseOK, Reader
<1> QED BY <1>1, <1>4, <1>5, <1>6, <1>7 DEF SessionIInv, CoreInv

LEMMA SessionIInvKept == ASSUME MaxMessages \in Nat, MaxData \in Nat, SessionIInv, [Next]_vars PROVE SessionIInv'
<1>1. TypeOK'
  BY TypeKept DEF SessionIInv
<1>2. CASE UNCHANGED vars
  <2>1. UNCHANGED <<loop, wire, lateSignal>> /\ UNCHANGED calm
    BY <1>2 DEF vars, flagVars, procVars, endVars, timeVars, histVars, calm
  <2>2. ProcStep
    BY <2>1 DEF calm, ProcStep
  <2>3. EndInv'
    BY <2>1 DEF SessionIInv, CoreInv, EndInv, calm, Reader
  <2> QED BY <1>1, <2>1, <2>2, <2>3, OutsideMoves DEF SessionIInv, calm
<1>3. CASE Next
  <2>1. CASE Opening
    BY <1>1, <2>1, ReadingKeeps, PrepareOpenKeeps, PublishKeeps, SendAckKeeps, StartLoopsKeeps DEF Opening, SessionIInv
  <2>2. CASE Reading \/ ReadFails
    BY <1>1, <2>2, ReadingKeeps, ReadTerminateKeeps DEF Reading, SessionIInv
  <2>3. CASE Copying
    BY <1>1, <2>3, CopyingKeeps DEF Copying, SessionIInv
  <2>4. CASE Waiting \/ Beat \/ Terminating
    BY <1>1, <2>4, WaitingKeeps, TerminatingKeeps DEF Waiting, Terminating, SessionIInv
  <2>5. CASE Ending
    BY <1>1, <2>5, EndingKeeps DEF Ending, SessionIInv
  <2>6. CASE OpenTimeout \/ CloseTimeout \/ Shutdown \/ Stopping \/ Cleaning \/ Exit \/ PeerLost
    BY <1>1, <2>6, OutsideKeeps DEF Stopping, Cleaning, SessionIInv
  <2> QED BY <1>3, <2>1, <2>2, <2>3, <2>4, <2>5, <2>6 DEF Next
<1> QED BY <1>2, <1>3

LEMMA SessionIInvAlways == ASSUME MaxMessages \in Nat, MaxData \in Nat PROVE Spec => []SessionIInv
<1>1. Init => SessionIInv
  BY SessionIInvInit
<1>2. SessionIInv /\ [Next]_vars => SessionIInv'
  BY SessionIInvKept
<1> QED BY <1>1, <1>2, PTL DEF Spec

LEMMA SessionIInvImplies == SessionIInv => SessionInv
<1> SUFFICES ASSUME SessionIInv PROVE SessionInv
  OBVIOUS
<1> USE DEF SessionIInv, CoreInv
<1>1. Wrote("close") => Said("close", "session")
  <2>1. \A m \in Messages : m.type = "close" => m = Message("close", "session")
    BY SMT DEF Messages, Message
  <2>2. \A i \in 1..Len(wire) : wire[i] \in Messages
    BY SMT DEF WireInv
  <2> QED BY SMT, <2>1, <2>2 DEF Wrote, Said, Log!Logged, WireInv
<1>2. CloseIsLast
  BY <1>1 DEF CloseIsLast, CloseInv, ProcInv
<1>3. DoneClean
  <2>1. ASSUME cleaner = "done" PROVE child # "running" /\ ~stray /\ group # "held"
    BY <2>1 DEF EndInv, ProcInv
  <2>2. ASSUME cleaner = "done", child = "exited" PROVE ackFailed
    <3>1. opened /\ Reader = "ended"
      BY <2>2 DEF EndInv, ProcInv
    <3>2. Waiter \in {"none", "ended"}
      BY <2>2 DEF EndInv, Waiter, Loops
    <3> QED BY <2>2, <3>1, <3>2 DEF PhaseInv, ProcInv
  <2> QED BY <2>1, <2>2 DEF DoneClean, EndInv
<1>4. Owned
  <2>1. ASSUME child = "running" PROVE Reader \in {"publish", "ack", "started"} \/ Waiter = "group"
                                       \/ (ackFailed /\ Reader = "fail") \/ cleaner = "process"
    <3>1. CASE ~opened
      BY <2>1, <3>1 DEF ProcInv
    <3>2. CASE opened /\ Waiter # "none"
      BY <2>1, <3>2 DEF ProcInv, PlaceInv
    <3>3. CASE opened /\ Waiter = "none" /\ Reader = "ended" /\ closed
      <4>1. cleaner # "none" /\ cleaner \notin {"conn", "join", "done"}
        BY <2>1, <3>3 DEF EndInv, ProcInv
      <4>2. cleaner \in {"none", "process", "conn", "join", "done"}
        BY DEF TypeOK
      <4> QED BY <4>1, <4>2
    <3> QED BY <3>1, <3>2, <3>3 DEF PhaseInv
  <2> QED BY <2>1 DEF Owned, Reader, Waiter
<1>5. ClosingIsTimed
  BY <1>1 DEF ClosingIsTimed, CloseInv, CloseGoesOn
<1> QED BY <1>2, <1>3, <1>4, <1>5 DEF SessionInv, NoLateSignal

\* Whatever the client, the process, the timers and the shutdown of the server do: no signal reaches a group
\* whose leader was reaped, Close is the last word, and when doneCh closes what the session started has ended.
THEOREM SessionInvAlways == ASSUME MaxMessages \in Nat, MaxData \in Nat PROVE Spec => []SessionInv
<1> QED BY SessionIInvImplies, SessionIInvAlways, PTL

\* A step of the session writes at most one message, and one the protocol allows there.
LEMMA WireStep ==
  ASSUME SessionIInv, [Next]_vars
  PROVE  [Log!Next]_wire
<1> USE DEF SessionIInv, CoreInv
<1>1. wire \in Seq(Messages)
  BY DEF WireInv
<1>2. CASE Run
  <2>1. wire = <<>>
    BY <1>2 DEF Run, WireInv, Reader
  <2>2. UNCHANGED wire \/ wire' = Append(wire, Message("hello", "session"))
    BY <1>2 DEF Run, Write
  <2> QED BY SMT, <2>1, <2>2 DEF Log!Next, Log!Hello, Log!Plain, Message
<1>3. CASE RefuseAttach \/ RejectOpen
  <2>1. UNCHANGED wire \/ wire' = Append(wire, Message("error", "session"))
    BY <1>3 DEF RefuseAttach, RejectOpen, Write
  <2> QED BY <2>1 DEF Log!Next, Log!Reject, Log!Plain, Message
<1>4. CASE SendAck
  <2>1. UNCHANGED wire \/ wire' = Append(wire, Message("ack", "session"))
    BY <1>4 DEF SendAck, Write
  <2>2. ~Said("ack", "session")
    BY <1>4 DEF SendAck, WireInv, Reader
  <2> QED BY <2>1, <2>2 DEF Log!Next, Log!Ack, Log!Plain, Message, Said
<1>5. ASSUME NEW t \in Streams, SendStream(t) PROVE [Log!Next]_wire
  <2>1. PICK type \in {"data", "eos"} :
          loop[t] = type /\ (UNCHANGED wire \/ wire' = Append(wire, Message(type, t)))
    BY <1>5 DEF SendStream, Write
  <2>2. streams[t] \in {"open", "ending"} /\ Waiter # "none" /\ ~Said("eos", t)
    <3>1. StreamOK(t) /\ SaidOK(t)
      BY DEF StreamInv, WireInv
    <3>2. t \in Loops \ {"read"}
      BY DEF Streams, Loops
    <3> QED BY <2>1, <3>1, <3>2 DEF StreamOK, SaidOK, PhaseInv
  <2>3. Said("ack", "session") /\ ~Said("close", "session")
    BY <2>2 DEF WireInv, CloseInv, Ended
  <2>4. wire' = Append(wire, Message("data", t)) => Log!Output(t)
    BY <2>2, <2>3 DEF Log!Output, Log!Plain, Message, Said
  <2>5. wire' = Append(wire, Message("eos", t)) => Log!End(t)
    BY <2>2, <2>3 DEF Log!End, Log!Plain, Message, Said
  <2> QED BY <2>1, <2>4, <2>5 DEF Log!Next
<1>6. ASSUME NEW l \in Loops, DoClose(l) PROVE [Log!Next]_wire
  <2>1. loop[l] = "close" /\ (UNCHANGED wire \/ wire' = Append(wire, Message("close", "session")))
    BY <1>6 DEF DoClose, Write
  <2>2. childDone /\ Ended /\ ~Said("close", "session")
    BY <2>1 DEF CloseInv, CloseOK
  <2>3. Said("eos", "stdout") /\ \A t \in Streams : Said("data", t) => Said("eos", t)
    <3>1. opened
      BY <2>2 DEF ProcInv, PhaseInv
    <3>2. "stdout" \in Streams /\ streams["stdout"] # "off"
      BY <3>1 DEF StreamInv, Streams
    <3>3. \A t \in Streams : streams[t] \in {"off", "ended"} /\ SaidOK(t)
      BY <2>2 DEF Ended, WireInv
    <3> QED BY <3>2, <3>3 DEF SaidOK
  <2>4. wire' = Append(wire, Message("close", "session")) => Log!Close
    BY <2>2, <2>3 DEF Log!Close, Log!Plain, Message, Said, Streams
  <2> QED BY <2>1, <2>4 DEF Log!Next
<1>7. CASE UNCHANGED wire
  BY <1>7
<1>8. CASE Opening
  BY <1>2, <1>3, <1>4, <1>7, <1>8 DEF Opening, StartReading, PrepareOpen, StdinBroken, Publish, StartLoops
<1>9. CASE Reading \/ ReadFails
  BY <1>7, <1>9 DEF Reading, StdinTaken, ReadOpen, ReadRefused, ReadStdin, ReadStdinEnd, ReadResize, ReadTerminate, ReadFails
<1>10. CASE Copying
  BY <1>5, <1>7, <1>10 DEF Copying, ReadStream, StreamBroken, AfterEnd
<1>11. CASE Waiting \/ Beat \/ Terminating
  BY <1>7, <1>11 DEF Waiting, Terminating, WaitGroup, WaitCopies, Reap, ChildExit, Beat, AskExit, GraceEnds, ResultEnds
<1>12. CASE Ending
  BY <1>6, <1>7, <1>12 DEF Ending, Fail, Handshake
<1>13. CASE OpenTimeout \/ CloseTimeout \/ Shutdown \/ Stopping
  BY <1>7, <1>13 DEF OpenTimeout, CloseTimeout, Shutdown, Stopping, ShutdownAsks, ShutdownWaits, ShutdownKills, ShutdownJoins
<1>14. CASE Cleaning \/ Exit \/ PeerLost
  BY <1>7, <1>14 DEF Cleaning, CleanProcess, CleanConn, Finish, Exit, PeerLost
<1>15. CASE UNCHANGED vars
  BY <1>7, <1>15 DEF vars
<1> QED BY <1>8, <1>9, <1>10, <1>11, <1>12, <1>13, <1>14, <1>15 DEF Next

\* The messages of every session follow the protocol its client relies on: the ACK before any output,
\* nothing on a stream after its end, one Close, after the ends of the streams.
THEOREM WireProtocolAlways == ASSUME MaxMessages \in Nat, MaxData \in Nat PROVE Spec => WireProtocol
<1>1. Init => Log!Init
  BY DEF Init, Log!Init
<1>2. SessionIInv /\ [Next]_vars => [Log!Next]_wire
  BY WireStep
<1> QED BY <1>1, <1>2, SessionIInvAlways, PTL DEF Spec, WireProtocol, Log!Spec

=============================================================================
