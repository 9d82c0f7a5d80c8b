---------------------------- MODULE WebTTYClient ----------------------------
(* The WebTTY client: OpenClientSession with its handshake, the goroutines *)
(* of a ClientSession (reader, dispatcher, heartbeats, context watcher),   *)
(* and its two users, RunClient and CaptureCommand, with the goroutine     *)
(* that forwards input. The server is the sequence of messages it sends.   *)
EXTENDS Integers, Sequences, SequencesExt

CONSTANTS
  Scripts,      \* what servers send: sequences of the message types of Messages
  EventCap,     \* capacity of the events channel
  OutputLimit,  \* maxOutputBytes of CaptureCommand, in chunks
  MaxInput      \* bound: chunks of input

Messages == {"hello", "ack", "data", "eos", "close", "error"}

VARIABLES
  mode,        \* "run" for RunClient, "capture" for CaptureCommand
  pinned,      \* ExpectedServerIdentity is configured
  canTerminate,\* the ACK and the engine allow an explicit termination
  script, feed,\* what the server sends, and what of it was not read
  conn,        \* open, lost by the peer, closed here
  closing,     \* clientRuntime.closing
  sent,        \* the messages written by the client
  reader, held, readCh, doneRead,   \* readLoop, the message it holds, its channel of one, its stop
  runner, eos,                      \* ClientSession.run, streamEOS
  heart, beatErr, watcher,          \* heartbeatLoop, its error, the watcher of the caller's context
  cancelled, stopped,               \* the context of the session's loops, and of the user's
  ctxDone,                          \* the caller's context
  closeResult, result, done,        \* of the session
  events, eventsClosed,             \* the events channel: how many chunks it holds
  main, waiter,                     \* the user, and its goroutine in Wait
  input, inputs, inputErr,          \* stdinSessionLoop, its chunks, its error
  terminator, pending,              \* RequestTermination of CaptureCommand; pendingErr of RunClient
  printed, truncated,               \* chunks written or retained; OutputTruncated
  code, failed                      \* what the user returns: an exit code, an error

configVars == <<mode, pinned, canTerminate, script>>
readVars == <<reader, held, readCh>>
loopVars == <<runner, eos, heart, beatErr, watcher>>
resultVars == <<result, done, eventsClosed, doneRead>>
inputVars == <<input, inputs, inputErr>>
outVars == <<printed, truncated, code, failed>>
vars == <<configVars, feed, conn, closing, sent, readVars, loopVars, cancelled, stopped, ctxDone,
          closeResult, resultVars, events, main, waiter, inputVars, terminator, pending, outVars>>

Datas(s) == Len(SelectSeq(s, LAMBDA m : m = "data"))

TypeOK ==
  /\ mode \in {"run", "capture"} /\ script \in Scripts /\ feed \in Seq(Messages) /\ sent \in Seq({"open", "data", "eos", "error", "terminate"})
  /\ {pinned, canTerminate, closing, doneRead, eos, beatErr, cancelled, stopped, ctxDone, done, eventsClosed,
      inputErr, pending, truncated, code, failed} \subseteq BOOLEAN
  /\ conn \in {"none", "open", "lost", "closed"} /\ held \in Messages \cup {"none", "eof"}
  /\ reader \in {"none", "read", "push", "last", "ended"} /\ Len(readCh) <= 1
  /\ runner \in {"none", "loop", "emit", "ended"} /\ heart \in {"none", "beat", "ended"} /\ watcher \in {"none", "watch", "ended"}
  /\ closeResult \in {"none", "disconnected", "cancelled"} /\ result \in {"none", "exit", "error", "disconnected", "cancelled"}
  /\ events \in 0..EventCap
  /\ main \in {"dial", "hello", "open", "ack", "refused", "loop", "leave", "join", "returned"}
  /\ waiter \in {"none", "wait", "sent"} /\ input \in {"none", "read", "ended"} /\ inputs \in 0..MaxInput
  /\ terminator \in {"none", "ask", "asked", "failed"} /\ printed \in Nat

Init ==
  /\ mode \in {"run", "capture"} /\ pinned \in BOOLEAN /\ canTerminate \in BOOLEAN /\ script \in Scripts
  /\ feed = script /\ conn = "none" /\ closing = FALSE /\ sent = <<>>
  /\ reader = "none" /\ held = "none" /\ readCh = <<>> /\ doneRead = FALSE
  /\ runner = "none" /\ eos = FALSE /\ heart = "none" /\ beatErr = FALSE /\ watcher = "none"
  /\ cancelled = FALSE /\ stopped = FALSE /\ ctxDone = FALSE
  /\ closeResult = "none" /\ result = "none" /\ done = FALSE /\ events = 0 /\ eventsClosed = FALSE
  /\ main = "dial" /\ waiter = "none" /\ input = "none" /\ inputs = 0 /\ inputErr = FALSE
  /\ terminator = "none" /\ pending = FALSE /\ printed = 0 /\ truncated = FALSE /\ code = FALSE /\ failed = FALSE

----------------------------------------------------------------------------
(* OpenClientSession. *)

\* The transport of the endpoint is dialled and the reader started.
Dial ==
  /\ main = "dial"
  /\ \/ main' = "returned" /\ failed' = TRUE /\ UNCHANGED <<conn, reader>>
     \/ /\ main' = (IF pinned THEN "hello" ELSE "open") /\ conn' = "open" /\ reader' = "read"
        /\ UNCHANGED failed
  /\ UNCHANGED <<configVars, feed, closing, sent, held, readCh, loopVars, cancelled, stopped, ctxDone, closeResult,
                 resultVars, events, waiter, inputVars, terminator, pending, printed, truncated, code>>

\* A signed server hello is verified before anything is sent; a deadline bounds the wait.
AwaitHello ==
  /\ main = "hello"
  /\ \/ readCh = <<"hello">> /\ main' \in {"open", "refused"} /\ readCh' = <<>>
     \/ readCh # <<>> /\ readCh # <<"hello">> /\ main' = "refused" /\ readCh' = <<>>
     \/ main' = "refused" /\ UNCHANGED readCh
  /\ UNCHANGED <<configVars, feed, conn, closing, sent, reader, held, loopVars, cancelled, stopped, ctxDone, closeResult,
                 resultVars, events, waiter, inputVars, terminator, pending, outVars>>

\* buildHandshakeMessage may fail, and so may the write.
SendOpen ==
  /\ main = "open"
  /\ \/ main' = "refused" /\ UNCHANGED sent
     \/ ~closing /\ conn = "open" /\ main' = "ack" /\ sent' = Append(sent, "open")
  /\ UNCHANGED <<configVars, feed, conn, closing, readVars, loopVars, cancelled, stopped, ctxDone, closeResult,
                 resultVars, events, waiter, inputVars, terminator, pending, outVars>>

\* waitForOpen: the first message must be the ACK. The loops of the session and of its user start.
AwaitAck ==
  /\ main = "ack"
  /\ \/ /\ readCh = <<"ack">> /\ readCh' = <<>> /\ main' = "loop" /\ runner' = "loop" /\ heart' = "beat"
        /\ watcher' = "watch" /\ waiter' = "wait" /\ input' = "read"
     \/ /\ main' = "refused" /\ readCh' = <<>>
        /\ UNCHANGED <<runner, heart, watcher, waiter, input>>
  /\ UNCHANGED <<configVars, feed, conn, closing, sent, reader, held, eos, beatErr, cancelled, stopped, ctxDone, closeResult,
                 resultVars, events, inputs, inputErr, terminator, pending, outVars>>

\* The transport and the reader of a session that did not open are gone when the call returns.
Refuse ==
  /\ main = "refused"
  /\ IF doneRead
     THEN reader = "ended" /\ main' = "returned" /\ failed' = TRUE /\ UNCHANGED <<conn, closing, doneRead>>
     ELSE doneRead' = TRUE /\ closing' = TRUE /\ conn' = "closed" /\ UNCHANGED <<main, failed>>
  /\ UNCHANGED <<configVars, feed, sent, readVars, loopVars, cancelled, stopped, ctxDone, closeResult, result, done,
                 eventsClosed, events, waiter, inputVars, terminator, pending, printed, truncated, code>>

----------------------------------------------------------------------------
(* The goroutines of the session. *)

\* readLoop marks the session as closing before it hands over a final message.
ReadMessage ==
  /\ reader = "read"
  /\ \/ /\ conn = "open" /\ feed # <<>> /\ held' = Head(feed) /\ feed' = Tail(feed) /\ reader' = "push"
        /\ closing' = (closing \/ held' \in {"close", "error"})
     \/ conn # "open" /\ held' = "eof" /\ reader' = "last" /\ UNCHANGED <<feed, closing>>
  /\ UNCHANGED <<configVars, conn, sent, readCh, loopVars, cancelled, stopped, ctxDone, closeResult, resultVars, events,
                 main, waiter, inputVars, terminator, pending, outVars>>

PushMessage ==
  /\ reader \in {"push", "last"}
  /\ \/ readCh = <<>> /\ readCh' = <<held>> /\ reader' = IF reader = "last" THEN "ended" ELSE "read"
     \/ doneRead /\ reader' = "ended" /\ UNCHANGED readCh
  /\ UNCHANGED <<configVars, feed, conn, closing, sent, held, loopVars, cancelled, stopped, ctxDone, closeResult, resultVars,
                 events, main, waiter, inputVars, terminator, pending, outVars>>

\* finalize: a local close explains an error, but not a native result.
Finalize(r) ==
  /\ runner' = "ended" /\ cancelled' = TRUE /\ doneRead' = TRUE /\ closing' = TRUE /\ conn' = "closed"
  /\ result' = IF r = "error" /\ closeResult # "none" THEN closeResult ELSE r
  /\ eventsClosed' = TRUE /\ done' = TRUE

\* run takes a message; decodeEvent refuses what follows the end of a stream.
RunMessage ==
  /\ runner = "loop" /\ readCh # <<>> /\ readCh' = <<>>
  /\ LET m == Head(readCh) IN
       \/ m = "data" /\ ~eos /\ runner' = "emit"
          /\ UNCHANGED <<eos, cancelled, doneRead, closing, conn, result, eventsClosed, done>>
       \/ m = "eos" /\ ~eos /\ eos' = TRUE
          /\ UNCHANGED <<runner, cancelled, doneRead, closing, conn, result, eventsClosed, done>>
       \/ m = "close" /\ Finalize("exit") /\ UNCHANGED eos
       \/ (m \in {"hello", "ack", "error", "eof"} \/ (m \in {"data", "eos"} /\ eos)) /\ Finalize("error") /\ UNCHANGED eos
  /\ UNCHANGED <<configVars, feed, sent, reader, held, heart, beatErr, watcher, stopped, ctxDone, closeResult,
                 events, main, waiter, inputVars, terminator, pending, outVars>>

\* The context of the loops or a heartbeat that failed end the session, also while an event waits.
RunEnds ==
  /\ (runner = "loop" /\ (cancelled \/ beatErr)) \/ (runner = "emit" /\ cancelled)
  /\ Finalize("error")
  /\ UNCHANGED <<configVars, feed, sent, readVars, eos, heart, beatErr, watcher, stopped, ctxDone, closeResult,
                 events, main, waiter, inputVars, terminator, pending, outVars>>

Emit ==
  /\ runner = "emit" /\ events < EventCap /\ events' = events + 1 /\ runner' = "loop"
  /\ UNCHANGED <<configVars, feed, conn, closing, sent, readVars, eos, heart, beatErr, watcher, cancelled, stopped, ctxDone,
                 closeResult, resultVars, main, waiter, inputVars, terminator, pending, outVars>>

\* heartbeatLoop; a heartbeat that fails while the session closes is nobody's error.
Heartbeat ==
  /\ heart = "beat"
  /\ \/ (cancelled \/ closing) /\ heart' = "ended" /\ UNCHANGED beatErr
     \/ ~closing /\ conn = "lost" /\ heart' = "ended" /\ beatErr' = TRUE
  /\ UNCHANGED <<configVars, feed, conn, closing, sent, readVars, runner, eos, watcher, cancelled, stopped, ctxDone, closeResult,
                 resultVars, events, main, waiter, inputVars, terminator, pending, outVars>>

\* requestClose, once: the reason, the end of the loops, an Error for the server if it can be written.
RequestClose(reason, tell) ==
  IF closeResult # "none" THEN UNCHANGED <<closeResult, cancelled, closing, conn, sent>>
  ELSE /\ closeResult' = reason /\ cancelled' = TRUE /\ closing' = TRUE /\ conn' = "closed"
       /\ sent' \in {sent} \cup (IF tell /\ conn = "open" THEN {Append(sent, "error")} ELSE {})

Watch ==
  /\ watcher = "watch" /\ watcher' = "ended"
  /\ \/ ctxDone /\ RequestClose("cancelled", TRUE)
     \/ done /\ UNCHANGED <<closeResult, cancelled, closing, conn, sent>>
  /\ UNCHANGED <<configVars, feed, readVars, runner, eos, heart, beatErr, stopped, ctxDone, resultVars, events,
                 main, waiter, inputVars, terminator, pending, outVars>>


\* Wait joins the loops of the session.
Joined == done /\ runner = "ended" /\ heart = "ended" /\ watcher = "ended" /\ reader = "ended"

Wait ==
  /\ waiter = "wait" /\ Joined /\ waiter' = "sent"
  /\ UNCHANGED <<configVars, feed, conn, closing, sent, readVars, loopVars, cancelled, stopped, ctxDone, closeResult,
                 resultVars, events, main, inputVars, terminator, pending, outVars>>

----------------------------------------------------------------------------
(* The input. *)

\* SendInputContext and SendEOF; a peer that closed its input ends the forwarding quietly.
SendInput ==
  /\ input = "read" /\ ~stopped
  /\ \/ /\ inputs < MaxInput /\ inputs' = inputs + 1
        /\ \/ ~closing /\ conn = "open" /\ sent' = Append(sent, "data") /\ UNCHANGED <<input, inputErr>>
           \/ (closing \/ conn # "open") /\ input' = "ended" /\ inputErr' = TRUE /\ UNCHANGED sent
           \/ ~closing /\ conn # "open" /\ input' = "ended" /\ UNCHANGED <<inputErr, sent>>
     \/ /\ input' = "ended" /\ UNCHANGED inputs
        /\ \/ ~closing /\ conn = "open" /\ sent' = Append(sent, "eos") /\ UNCHANGED inputErr
           \/ (closing \/ conn # "open") /\ UNCHANGED <<sent, inputErr>>
           \/ ~closing /\ conn # "open" /\ inputErr' = TRUE /\ UNCHANGED sent
  /\ UNCHANGED <<configVars, feed, conn, closing, readVars, loopVars, cancelled, stopped, ctxDone, closeResult, resultVars,
                 events, main, waiter, terminator, pending, outVars>>

StopInput ==
  /\ input = "read" /\ stopped /\ input' = "ended"
  /\ UNCHANGED <<configVars, feed, conn, closing, sent, readVars, loopVars, cancelled, stopped, ctxDone, closeResult, resultVars,
                 events, main, waiter, inputs, inputErr, terminator, pending, outVars>>

----------------------------------------------------------------------------
(* RunClient and CaptureCommand. *)

\* An event is written, or retained up to the limit; past it the command is asked to terminate.
TakeEvent ==
  /\ main = "loop" /\ events > 0 /\ events' = events - 1
  /\ IF mode = "run" \/ printed < OutputLimit
     THEN printed' = printed + 1 /\ UNCHANGED <<truncated, terminator>>
     ELSE truncated' = TRUE /\ terminator' = (IF terminator = "none" THEN "ask" ELSE terminator) /\ UNCHANGED printed
  /\ UNCHANGED <<configVars, feed, conn, closing, sent, readVars, loopVars, cancelled, stopped, ctxDone, closeResult, resultVars,
                 main, waiter, inputVars, pending, code, failed>>

\* RequestTermination and writeTermination.
Terminate ==
  /\ terminator = "ask"
  /\ \/ terminator' = "failed" /\ (~canTerminate \/ done \/ closing \/ conn # "open") /\ UNCHANGED sent
     \/ canTerminate /\ ~closing /\ conn = "open" /\ terminator' = "asked" /\ sent' = Append(sent, "terminate")
  /\ UNCHANGED <<configVars, feed, conn, closing, readVars, loopVars, cancelled, stopped, ctxDone, closeResult, resultVars,
                 events, main, waiter, inputVars, pending, outVars>>

\* The result arrived: what is left in the closed events channel comes first.
TakeResult ==
  /\ main = "loop" /\ waiter = "sent" /\ main' = "leave" /\ events' = 0
  /\ IF mode = "run"
     THEN /\ printed' = printed + events /\ UNCHANGED truncated
          /\ code' = (result = "exit" /\ ~pending) /\ failed' = (result # "exit" \/ pending)
     ELSE /\ printed' = IF printed + events > OutputLimit THEN OutputLimit ELSE printed + events
          /\ truncated' = (truncated \/ printed + events > OutputLimit)
          /\ failed' = (truncated' \/ result # "exit") /\ UNCHANGED code
  /\ UNCHANGED <<configVars, feed, conn, closing, sent, readVars, loopVars, cancelled, stopped, ctxDone, closeResult, resultVars,
                 waiter, inputVars, terminator, pending>>

\* RunClient closes on an error of the input or on its context, and goes on until the session ended.
RunTrouble ==
  /\ main = "loop" /\ mode = "run" /\ ~pending /\ (ctxDone \/ inputErr)
  /\ pending' = TRUE /\ stopped' = TRUE /\ RequestClose("cancelled", TRUE)
  /\ UNCHANGED <<configVars, feed, readVars, loopVars, ctxDone, resultVars, events, main, waiter, inputVars, terminator, outVars>>

\* What makes the user leave with an error: the close timer of RunClient, a failed write of its output;
\* for CaptureCommand its context, its input, a refused termination and the termination deadline.
Give ==
  /\ main = "loop"
  /\ \/ mode = "run" /\ pending
     \/ mode = "capture" /\ (ctxDone \/ inputErr \/ terminator \in {"asked", "failed"})
  /\ main' = "leave" /\ failed' = TRUE
  /\ UNCHANGED <<configVars, feed, conn, closing, sent, readVars, loopVars, cancelled, stopped, ctxDone, closeResult, resultVars,
                 events, waiter, inputVars, terminator, pending, printed, truncated, code>>

\* The deferred calls: the loops are stopped, the session is closed and joined.
Leave ==
  /\ main = "leave" /\ main' = "join" /\ stopped' = TRUE /\ RequestClose("disconnected", FALSE)
  /\ UNCHANGED <<configVars, feed, readVars, loopVars, ctxDone, resultVars, events, waiter, inputVars, terminator, pending, outVars>>

Return ==
  /\ main = "join" /\ Joined /\ waiter = "sent" /\ input = "ended" /\ terminator # "ask" /\ main' = "returned"
  /\ code' = IF mode = "capture" THEN result = "exit" ELSE code
  /\ UNCHANGED <<configVars, feed, conn, closing, sent, readVars, loopVars, cancelled, stopped, ctxDone, closeResult, resultVars,
                 events, waiter, inputVars, terminator, pending, printed, truncated, failed>>

\* The peer disappears; the caller cancels.
PeerLost ==
  /\ conn = "open" /\ conn' = "lost"
  /\ UNCHANGED <<configVars, feed, closing, sent, readVars, loopVars, cancelled, stopped, ctxDone, closeResult, resultVars,
                 events, main, waiter, inputVars, terminator, pending, outVars>>

Cancel ==
  /\ ~ctxDone /\ main # "returned" /\ ctxDone' = TRUE
  /\ UNCHANGED <<configVars, feed, conn, closing, sent, readVars, loopVars, cancelled, stopped, closeResult, resultVars,
                 events, main, waiter, inputVars, terminator, pending, outVars>>

----------------------------------------------------------------------------
(* Properties. *)

\* An exit code is returned only for a Close of the server, and then no output before it was lost:
\* RunClient has written all of it, CaptureCommand has retained all of it or says it was truncated.
ExitConfirmed ==
  code => /\ result = "exit" /\ Contains(script, "close") /\ ~Contains(feed, "close")
          /\ mode = "run" => printed = Datas(script)
          /\ mode = "capture" /\ ~failed => printed = Datas(script) /\ ~truncated

\* CaptureCommand keeps no more than its limit, and an overflow is never a success.
OutputBounded == mode = "capture" => printed <= OutputLimit /\ (truncated /\ main = "returned" => failed)

\* No input follows the end of input on the wire, and nothing is sent before Open.
InputOrdered ==
  /\ \A i, j \in DOMAIN sent : i < j /\ sent[i] = "eos" => sent[j] # "data"
  /\ \A i \in DOMAIN sent : sent[i] = "open" <=> i = 1

\* When the call returns, no goroutine of it runs and the connection is closed.
NothingLeft ==
  main = "returned" => /\ conn \in {"none", "closed"} /\ reader \in {"none", "ended"} /\ runner \in {"none", "ended"}
                       /\ heart # "beat" /\ watcher # "watch" /\ input # "read" /\ waiter # "wait" /\ terminator # "ask"

ClientInv == ExitConfirmed /\ OutputBounded /\ InputOrdered /\ NothingLeft

\* A cancelled call, a lost connection and a final message of the server make the call return.
Settled ==
  (ctxDone \/ conn \in {"lost", "closed"} \/ (feed = <<>> /\ Contains(script, "close"))) => main = "returned"

----------------------------------------------------------------------------
Opening == Dial \/ AwaitHello \/ SendOpen \/ AwaitAck \/ Refuse
Session == ReadMessage \/ PushMessage \/ RunMessage \/ RunEnds \/ Emit \/ Heartbeat \/ Watch \/ Wait
User == TakeEvent \/ TakeResult \/ RunTrouble \/ Give \/ Leave \/ Return

Next == Opening \/ Session \/ SendInput \/ StopInput \/ Terminate \/ User \/ PeerLost \/ Cancel

Spec == Init /\ [][Next]_vars

\* Goroutines run; deadlines pass. The input may never come.
Runs == (main # "returned" /\ Opening) \/ Session \/ StopInput \/ Terminate \/ User

FairSpec == Spec /\ WF_vars(Runs)
=============================================================================
