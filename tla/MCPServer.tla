------------------------------- MODULE MCPServer -----------------------------
(***************************************************************************)
(* rstream mcp serve (cmd/mcp.go): a JSON-RPC server on its standard input *)
(* and output.  One goroutine reads messages and dispatches requests to a  *)
(* bounded queue, a fixed number of workers run them, one goroutine writes *)
(* every response, and a registry of the requests in progress serves       *)
(* cancellation.  The input ends, the output breaks or the command is      *)
(* interrupted at any point.                                               *)
(*                                                                         *)
(* A message is identified by its place in the script it comes from; what  *)
(* the tools do is the subject of other modules.                           *)
(***************************************************************************)
EXTENDS Naturals, Sequences, FiniteSets

CONSTANTS Scripts,   \* input a client may send: sequences of [kind, id, method]
          Workers,   \* mcpMaxConcurrentRequests of them
          Queue      \* mcpMaxQueuedRequests

VARIABLES script, next,      \* the input and the message to read next
          main,              \* the dispatcher: loop, send, wait, join, close, done
          interrupted,       \* ctx of the command
          stopped,           \* serverCtx
          broken,            \* the output no longer takes a write
          reg,               \* the registry: requests in progress, by id
          live,              \* messages whose context is not cancelled
          jobs, closed,      \* the queue of requests, and whether it is closed
          worker,            \* what each worker does, and on which message
          wq, writer,        \* the queue of responses; the writer runs or is done
          res,               \* results handed back to whoever writes
          writeErr,          \* the writeErrors channel
          abort, failed,     \* how finish was called
          output,            \* the responses written
          cancels            \* history: messages whose cancellation took effect

vars == <<script, next, main, interrupted, stopped, broken, reg, live, jobs, closed, worker,
          wq, writer, res, writeErr, abort, failed, output, cancels>>

Ids == {"a", "b"}
Nothing == [at |-> "idle", n |-> 0]
Absent == [n |-> 0, cancelled |-> FALSE]
Reply(n, what) == [n |-> n, what |-> what]
Message == script[next]

Init ==
    /\ script \in Scripts
    /\ next = 1
    /\ main = "loop"
    /\ interrupted = FALSE /\ stopped = FALSE /\ broken = FALSE
    /\ reg = [i \in Ids |-> Absent]
    /\ live = {}
    /\ jobs = <<>> /\ closed = FALSE
    /\ worker = [w \in Workers |-> Nothing]
    /\ wq = <<>> /\ writer = "runs"
    /\ res = [c \in Workers \union {"main"} |-> "none"]
    /\ writeErr = FALSE /\ abort = FALSE /\ failed = FALSE
    /\ output = <<>>
    /\ cancels = {}

-----------------------------------------------------------------------------
(* The dispatcher. *)

readVars == <<script, interrupted, stopped, broken, closed, worker, writer, writeErr, abort, failed, output>>

\* A response of the dispatcher itself goes through the writer, and it waits
\* for the write.
Respond(what) == main' = "send" /\ res' = [res EXCEPT !["main"] = what]

\* A request: registered unless its id is in progress, then queued unless the
\* queue is full.  A worker that already waits for a job adds a place to it.
Accept ==
    /\ reg' = [reg EXCEPT ![Message.id] = [n |-> next, cancelled |-> FALSE]]
    /\ live' = IF stopped THEN live ELSE live \union {next}
    /\ jobs' = Append(jobs, next)
    /\ UNCHANGED <<main, res>>
Dispatch ==
    /\ main = "loop" /\ next <= Len(script) /\ Message.kind = "request"
    /\ next' = next + 1
    /\ IF reg[Message.id] # Absent
       THEN Respond("duplicate") /\ UNCHANGED <<reg, live, jobs>>
       ELSE \/ Len(jobs) < Queue + Cardinality({w \in Workers : worker[w].at = "idle"}) /\ Accept
            \/ Len(jobs) >= Queue /\ Respond("busy") /\ UNCHANGED <<reg, live, jobs>>
    /\ UNCHANGED <<readVars, wq, cancels>>

\* A cancellation of a request in progress, other than initialize.
Cancel ==
    /\ main = "loop" /\ next <= Len(script) /\ Message.kind = "cancel"
    /\ next' = next + 1
    /\ LET e == reg[Message.id]
       IN  IF e = Absent \/ script[e.n].method = "initialize"
           THEN UNCHANGED <<reg, live, cancels>>
           ELSE /\ reg' = [reg EXCEPT ![Message.id].cancelled = TRUE]
                /\ live' = live \ {e.n}
                /\ cancels' = cancels \union {e.n}
    /\ UNCHANGED <<readVars, main, jobs, wq, res>>

\* A message that cannot be decoded or is not a valid request.
InvalidRequest ==
    /\ main = "loop" /\ next <= Len(script) /\ Message.kind = "invalid"
    /\ next' = next + 1
    /\ Respond("invalid")
    /\ UNCHANGED <<readVars, reg, live, jobs, wq, cancels>>

\* finish.  An abort cancels the server and every request, and closes input
\* and output; either way the queue is closed and the workers are joined.
AbortServer ==
    /\ stopped' = TRUE /\ broken' = TRUE
    /\ reg' = [i \in Ids |-> Absent]
    /\ live' = {}
Finish(aborts, err) ==
    /\ main' = "join" /\ closed' = TRUE
    /\ abort' = aborts /\ failed' = err
    /\ IF aborts THEN AbortServer ELSE UNCHANGED <<stopped, broken, reg, live>>
finishRest == <<script, next, interrupted, jobs, worker, wq, writer, output, cancels>>

InputEnds ==
    /\ main = "loop" /\ next > Len(script)
    /\ \E err \in BOOLEAN : Finish(err, err)
    /\ UNCHANGED <<finishRest, res, writeErr>>

SeeInterrupt ==
    /\ main = "loop" /\ interrupted
    /\ Finish(TRUE, FALSE)
    /\ UNCHANGED <<finishRest, res, writeErr>>

SeeWriteError ==
    /\ main = "loop" /\ writeErr /\ writeErr' = FALSE
    /\ Finish(TRUE, TRUE)
    /\ UNCHANGED <<finishRest, res>>

\* While it waits for the workers, finish still turns into an abort.
JoinAborts ==
    /\ main = "join" /\ ~abort
    /\ \/ interrupted /\ UNCHANGED <<failed, writeErr>>
       \/ writeErr /\ writeErr' = FALSE /\ failed' = TRUE
    /\ abort' = TRUE
    /\ AbortServer
    /\ UNCHANGED <<finishRest, main, closed, res>>

Joined ==
    /\ main = "join" /\ \A w \in Workers : worker[w].at = "gone"
    /\ main' = "close"
    /\ UNCHANGED <<script, next, interrupted, stopped, broken, reg, live, jobs, closed, worker, wq, writer, res,
                   writeErr, abort, failed, output, cancels>>

\* writer.close has returned; a write error nobody took is the result.
Return ==
    /\ main = "close" /\ writer = "done"
    /\ main' = "done"
    /\ failed' = (failed \/ (~(abort /\ interrupted) /\ writeErr))
    /\ UNCHANGED <<script, next, interrupted, stopped, broken, reg, live, jobs, closed, worker, wq, writer, res,
                   writeErr, abort, output, cancels>>

Interrupt ==
    /\ ~interrupted /\ main # "done" /\ interrupted' = TRUE /\ stopped' = TRUE /\ live' = {}
    /\ UNCHANGED <<script, next, main, broken, reg, jobs, closed, worker, wq, writer, res, writeErr, abort, failed,
                   output, cancels>>

-----------------------------------------------------------------------------
(* mcpResponseWriter.write, for the dispatcher and for a worker, and its   *)
(* goroutine.  A caller first hands its response over, then waits.          *)

Sends(c) == IF c = "main" THEN main = "send" ELSE worker[c].at = "send"
Waits(c) == IF c = "main" THEN main = "wait" ELSE worker[c].at = "wait"
Response(c) == IF c = "main" THEN Reply(next - 1, res["main"]) ELSE Reply(worker[c].n, "result")
WriterCapacity == Cardinality(Workers) + Queue

Move(c, to) ==
    IF c = "main" THEN main' = to /\ UNCHANGED worker
    ELSE worker' = [worker EXCEPT ![c].at = to] /\ UNCHANGED main

HandOver(c) ==
    /\ Sends(c) /\ Len(wq) < WriterCapacity
    /\ wq' = Append(wq, [to |-> c, reply |-> Response(c)])
    /\ res' = [res EXCEPT ![c] = "none"]
    /\ Move(c, "wait")
    /\ UNCHANGED <<script, next, interrupted, stopped, broken, reg, live, jobs, closed, writer, writeErr, abort,
                   failed, output, cancels>>

\* The dispatcher aborts on a failed write; a worker leaves the error to the
\* dispatcher, cancels the server and ends.
Failed(c) ==
    IF c = "main"
    THEN Finish(TRUE, TRUE) /\ UNCHANGED <<worker, writeErr>>
    ELSE /\ worker' = [worker EXCEPT ![c] = [at |-> "gone", n |-> 0]]
         /\ writeErr' = TRUE /\ stopped' = TRUE /\ live' = {}
         /\ UNCHANGED <<main, closed, abort, failed, broken, reg>>

GiveUp(c) ==
    /\ Sends(c) \/ (Waits(c) /\ res[c] = "none")
    /\ stopped \/ writer = "done"
    /\ Failed(c)
    /\ UNCHANGED <<script, next, interrupted, jobs, wq, writer, res, output, cancels>>

Returned(c) ==
    /\ Waits(c) /\ res[c] \in {"ok", "error"}
    /\ res' = [res EXCEPT ![c] = "none"]
    /\ IF res[c] = "ok"
       THEN /\ IF c = "main" THEN main' = "loop" /\ UNCHANGED worker
               ELSE worker' = [worker EXCEPT ![c] = Nothing] /\ UNCHANGED main
            /\ UNCHANGED <<stopped, live, writeErr, closed, abort, failed, broken, reg>>
       ELSE Failed(c)
    /\ UNCHANGED <<script, next, interrupted, jobs, wq, writer, output, cancels>>

\* The writer writes a response, or fails on a broken output and ends.
WriteResponse ==
    /\ writer = "runs" /\ wq # <<>>
    /\ wq' = Tail(wq)
    /\ \/ /\ ~broken
          /\ output' = Append(output, Head(wq).reply)
          /\ res' = [res EXCEPT ![Head(wq).to] = IF Waits(Head(wq).to) THEN "ok" ELSE @]
          /\ UNCHANGED <<writer, writeErr, stopped, live>>
       \/ /\ broken
          /\ res' = [res EXCEPT ![Head(wq).to] = IF Waits(Head(wq).to) THEN "error" ELSE @]
          /\ writer' = "done" /\ writeErr' = TRUE /\ stopped' = TRUE /\ live' = {}
          /\ UNCHANGED output
    /\ UNCHANGED <<script, next, main, interrupted, broken, reg, jobs, closed, worker, abort, failed, cancels>>

WriterEnds ==
    /\ writer = "runs" /\ (stopped \/ (wq = <<>> /\ main = "close"))
    /\ writer' = "done"
    /\ UNCHANGED <<script, next, main, interrupted, stopped, broken, reg, live, jobs, closed, worker, wq, res, writeErr,
                   abort, failed, output, cancels>>

Break ==
    /\ ~broken /\ main # "done" /\ broken' = TRUE
    /\ UNCHANGED <<script, next, main, interrupted, stopped, reg, live, jobs, closed, worker, wq, writer, res, writeErr,
                   abort, failed, output, cancels>>

-----------------------------------------------------------------------------
(* runMCPRequestJob. *)

Id(n) == script[n].id
\* registry.complete: the request leaves the registry; was it cancelled?
complete(n) == reg' = [reg EXCEPT ![Id(n)] = Absent]
jobRest == <<script, next, main, interrupted, stopped, broken, closed, wq, writer, res, writeErr, abort, failed, output, cancels>>

Take(w) ==
    /\ worker[w].at = "idle" /\ jobs # <<>>
    /\ jobs' = Tail(jobs)
    /\ LET n == Head(jobs)
       IN  IF n \in live
           THEN worker' = [worker EXCEPT ![w] = [at |-> "runs", n |-> n]] /\ UNCHANGED reg
           ELSE complete(n) /\ UNCHANGED worker
    /\ UNCHANGED <<jobRest, live>>

\* Handled, without a look at the registry.
HandledAnyway(w) ==
    /\ worker[w].at = "runs"
    /\ complete(worker[w].n)
    /\ worker' = [worker EXCEPT ![w].at = "send"]
    /\ live' = live \ {worker[w].n}
    /\ UNCHANGED <<jobRest, jobs>>

\* The handler returns: the request leaves the registry, and is answered
\* unless it was cancelled by then.
Handled(w) ==
    /\ worker[w].at = "runs"
    /\ LET n == worker[w].n
       IN  /\ complete(n)
           /\ worker' = [worker EXCEPT ![w] = IF reg[Id(n)].cancelled \/ n \notin live
                                              THEN Nothing ELSE [at |-> "send", n |-> n]]
           /\ live' = live \ {n}
    /\ UNCHANGED <<jobRest, jobs>>

NoMoreJobs(w) ==
    /\ worker[w].at = "idle" /\ jobs = <<>> /\ closed
    /\ worker' = [worker EXCEPT ![w].at = "gone"]
    /\ UNCHANGED <<jobRest, reg, live, jobs>>

Callers == Workers \union {"main"}
Server ==
    \/ Dispatch \/ Cancel \/ InvalidRequest \/ InputEnds \/ SeeInterrupt \/ SeeWriteError \/ JoinAborts
    \/ Joined \/ Return \/ WriteResponse \/ WriterEnds
    \/ \E c \in Callers : HandOver(c) \/ GiveUp(c) \/ Returned(c)
    \/ \E w \in Workers : Take(w) \/ Handled(w) \/ NoMoreJobs(w)

Next == Server \/ Interrupt \/ Break
Spec == Init /\ [][Next]_vars
\* Goroutines run, tool handlers return, and the client's input ends.
FairSpec == Spec /\ WF_vars(Server)

-----------------------------------------------------------------------------
TypeOK ==
    /\ next \in 1..(Len(script) + 1)
    /\ main \in {"loop", "send", "wait", "join", "close", "done"}
    /\ \A w \in Workers : worker[w].at \in {"idle", "runs", "send", "wait", "gone"}
    /\ writer \in {"runs", "done"}
    /\ live \subseteq 1..Len(script)
    /\ \A c \in Callers : res[c] \in {"none", "ok", "error", "duplicate", "busy", "invalid"}

Answers(n) == {i \in DOMAIN output : output[i].n = n}
InHand == {jobs[i] : i \in DOMAIN jobs} \union {worker[w].n : w \in {v \in Workers : worker[v].at = "runs"}}

\* No message is answered twice, no cancelled request is answered once its
\* cancellation has taken effect, and only requests and invalid messages are
\* answered at all (registry.complete decides between cancel and response).
AnswersOnce ==
    \A n \in 1..Len(script) :
        /\ Cardinality(Answers(n)) <= 1
        /\ n \in cancels => \A i \in Answers(n) : output[i].what # "result"
        /\ script[n].kind = "cancel" => Answers(n) = {}

\* The registry holds exactly the requests queued or running, each under its
\* own id, until an abort empties it: a cancellation finds what it names, and
\* an id is free again when its request is done.
RegistryExact ==
    /\ ~abort => \A i \in Ids : reg[i] # Absent <=> \E n \in InHand : Id(n) = i
    /\ \A i \in Ids : reg[i] # Absent => reg[i].n \in InHand /\ Id(reg[i].n) = i

\* A server whose input ended in peace has answered every request that was
\* not cancelled, and every invalid message, before it returns.
AllAnswered ==
    main = "done" /\ ~abort /\ ~failed /\ ~interrupted =>
        \A n \in 1..Len(script) : script[n].kind # "cancel" /\ n \notin cancels => Answers(n) # {}

MCPInv == AnswersOnce /\ RegistryExact /\ AllAnswered

\* The server returns: no goroutine waits for another for ever.
Settled == main = "done"
=============================================================================
