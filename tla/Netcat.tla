---- MODULE Netcat ----
(***************************************************************************)
(* rstream netcat on byte streams: the listening server with its           *)
(* connection limit, whose sessions relay to an upstream (--remote) or to  *)
(* a child process (--exec, --sh-exec).  A connection is seen from the     *)
(* session: what its peer did ("open", "eof" after a half close, "reset"), *)
(* and what the session did to it.  Both kinds of stream endpoint (TCP and *)
(* rstream) are half-closed, which is the only configuration the flags     *)
(* build.  Bytes are not modelled: a copy ends because its source ended,   *)
(* because its destination is gone when something must be written, or with *)
(* an error.                                                               *)
(***************************************************************************)
EXTENDS Naturals, FiniteSets

CONSTANTS Conns,     \* inbound connections
          MaxConns,  \* --max-connections
          MaxDelay   \* steps of the accept back-off before its cap

VARIABLES exec,     \* the server runs a child per connection
          whole,    \* inbound connections have no CloseWrite, as over a QUIC proxy endpoint: it closes them
          main,     \* "accept" | "wait" | "failed" | "returned"
          delay,    \* accept back-off
          ctx,      \* the command was interrupted
          session,  \* sessionCtx cancelled
          st,       \* conn -> "none" | "opening" | "open" | "over" | "refused"
          down,     \* conn -> [peer, closed, shut]: the inbound connection
          up,       \* conn -> the same for the upstream connection
          copy,     \* conn -> [copy -> "off" | "runs" | "ok" | "error" | "taken" | "failed"]
          child     \* conn -> [st, stdin, blocked, reap]

vars == <<exec, whole, main, delay, ctx, session, st, down, up, copy, child>>

Copies == IF exec THEN {"input", "stdout", "stderr"} ELSE {"toUp", "toDown"}
AllCopies == {"input", "stdout", "stderr", "toUp", "toDown"}
Fresh == [peer |-> "open", closed |-> FALSE, shut |-> FALSE]
NoChild == [st |-> "none", stdin |-> "open", blocked |-> FALSE, reap |-> "no"]
Slots == {c \in Conns : st[c] \in {"opening", "open"}}
Close(conn) == [conn EXCEPT !.closed = TRUE]
Killed(k) == [k EXCEPT !.st = IF @ = "runs" THEN "killed" ELSE @, !.stdin = "closed"]
Running(c) == [k \in AllCopies |-> IF k \in Copies THEN "runs" ELSE "off"]
Taken(r) == IF r = "error" THEN "failed" ELSE "taken"
ListenerClosed == ctx \/ main # "accept"

\* Accept hands a connection over; without a free slot it is closed at once.
Accept(c) ==
  /\ main = "accept" /\ ~ListenerClosed /\ st[c] = "none"
  /\ delay' = 0
  /\ IF Cardinality(Slots) < MaxConns
     THEN st' = [st EXCEPT ![c] = "opening"] /\ UNCHANGED down
     ELSE st' = [st EXCEPT ![c] = "refused"] /\ down' = [down EXCEPT ![c] = Close(@)]
  /\ UNCHANGED <<exec, whole, main, ctx, session, up, copy, child>>

\* A closed listener ends the loop, after an interrupt or because the engine
\* closed the tunnel.  A transient accept error is retried after a doubling,
\* capped delay that an interrupt cuts short; any other one cancels the
\* sessions.
AcceptFails ==
  /\ main = "accept"
  /\ \/ main' = "wait" /\ UNCHANGED <<delay, session>>
     \/ ~ctx /\ delay' = (IF delay < MaxDelay THEN delay + 1 ELSE delay) /\ UNCHANGED <<main, session>>
     \/ ~ctx /\ main' = "failed" /\ session' = TRUE /\ UNCHANGED delay
  /\ UNCHANGED <<exec, whole, ctx, st, down, up, copy, child>>

\* The upstream is dialled within 10 s, or the child started.
Open(c) ==
  /\ st[c] = "opening"
  /\ \/ /\ st' = [st EXCEPT ![c] = "open"]
        /\ copy' = [copy EXCEPT ![c] = Running(c)]
        /\ child' = [child EXCEPT ![c].st = IF exec THEN "runs" ELSE "none"]
        /\ UNCHANGED down
     \/ /\ st' = [st EXCEPT ![c] = "over"] /\ down' = [down EXCEPT ![c] = Close(@)]
        /\ UNCHANGED <<copy, child>>
  /\ UNCHANGED <<exec, whole, main, delay, ctx, session, up>>

\* copyNetcatStream from src to dst ends with its source.  A closed or reset
\* connection counts as a normal end, and only an end of file is passed on, by
\* shutting down the writing side of the other connection or, where that is
\* not possible, by closing it.
SourceEnded(src) == src.closed \/ src.peer \in {"eof", "reset"}
PassesEOF(src, dst) == src.peer = "eof" /\ ~src.closed /\ ~dst.closed

CopyUp(c) ==
  /\ st[c] = "open" /\ copy[c].toUp = "runs" /\ SourceEnded(down[c])
  /\ copy' = [copy EXCEPT ![c].toUp = "ok"]
  /\ up' = [up EXCEPT ![c].shut = @ \/ PassesEOF(down[c], up[c])]
  /\ UNCHANGED <<exec, whole, main, delay, ctx, session, st, down, child>>

CopyDown(c) ==
  /\ st[c] = "open" /\ copy[c].toDown = "runs" /\ SourceEnded(up[c])
  /\ copy' = [copy EXCEPT ![c].toDown = "ok"]
  /\ down' = [down EXCEPT ![c].shut = @ \/ PassesEOF(up[c], down[c]),
                          ![c].closed = @ \/ (whole /\ PassesEOF(up[c], down[c]))]
  /\ UNCHANGED <<exec, whole, main, delay, ctx, session, st, up, child>>

\* A copy also ends when there is something to write and its destination is
\* gone, which normalizeNetcatCopyError takes for a normal end, or with an
\* error of either connection.  The output of a child nobody copies any more
\* stays in its pipe.
DestinationGone(c, k) ==
  CASE k = "toUp" -> up[c].closed \/ up[c].peer = "reset"
    [] k = "input" -> child[c].st # "runs" \/ child[c].stdin = "closed"
    [] OTHER -> down[c].closed \/ down[c].peer = "reset"

CopyBreaks(c, k) ==
  /\ st[c] = "open" /\ copy[c][k] = "runs"
  /\ \/ DestinationGone(c, k) /\ copy' = [copy EXCEPT ![c][k] = "ok"]
     \/ ~down[c].closed /\ (k \in {"toUp", "toDown"} => ~up[c].closed) /\ copy' = [copy EXCEPT ![c][k] = "error"]
  /\ child' = [child EXCEPT ![c].stdin = IF k = "input" THEN "closed" ELSE @,
                            ![c].blocked = @ \/ (k \in {"stdout", "stderr"} /\ child[c].st = "runs")]
  /\ UNCHANGED <<exec, whole, main, delay, ctx, session, st, down, up>>

\* runNetcatProxySession takes a copy's result; an error closes both sides.
TakeCopy(c) ==
  /\ st[c] = "open" /\ ~exec
  /\ \E k \in Copies :
       /\ copy[c][k] \in {"ok", "error"}
       /\ copy' = [copy EXCEPT ![c][k] = Taken(@)]
       /\ IF copy[c][k] = "error"
          THEN down' = [down EXCEPT ![c] = Close(@)] /\ up' = [up EXCEPT ![c] = Close(@)]
          ELSE UNCHANGED <<down, up>>
  /\ UNCHANGED <<exec, whole, main, delay, ctx, session, st, child>>

\* copyNetcatCommandInput ends with the connection and closes the child's
\* input.
CopyInput(c) ==
  /\ st[c] = "open" /\ copy[c].input = "runs" /\ SourceEnded(down[c])
  /\ copy' = [copy EXCEPT ![c].input = "ok"]
  /\ child' = [child EXCEPT ![c].stdin = "closed"]
  /\ UNCHANGED <<exec, whole, main, delay, ctx, session, st, down, up>>

\* The copies of the child's output end with the child.
CopyOutput(c, k) ==
  /\ st[c] = "open" /\ k \in {"stdout", "stderr"} /\ copy[c][k] = "runs" /\ child[c].st # "runs"
  /\ copy' = [copy EXCEPT ![c][k] = "ok"]
  /\ UNCHANGED <<exec, whole, main, delay, ctx, session, st, down, up, child>>

\* The loop of runNetcatExecSession: an error, like an interrupt, closes the
\* connection and kills the child; the child is waited for once both outputs
\* ended, and the connection is closed when it is gone.
ExecLoop(c) ==
  LET over(f) == \A k \in {"stdout", "stderr"} : f[k] \in {"taken", "failed"}
      next(f, k) == [k EXCEPT !.reap = IF @ = "no" /\ over(f) THEN "started" ELSE @]
  IN /\ st[c] = "open" /\ exec
     /\ \/ \E k \in Copies :
             /\ copy[c][k] \in {"ok", "error"}
             /\ LET f == [copy[c] EXCEPT ![k] = Taken(@)]
                    dies == copy[c][k] = "error"
                IN /\ copy' = [copy EXCEPT ![c] = f]
                   /\ child' = [child EXCEPT ![c] = next(f, IF dies THEN Killed(@) ELSE @)]
                   /\ down' = [down EXCEPT ![c].closed = @ \/ dies \/ (child[c].reap = "taken" /\ over(f))]
        \/ /\ child[c].reap = "done"
           /\ child' = [child EXCEPT ![c].reap = "taken", ![c].stdin = "closed"]
           /\ down' = [down EXCEPT ![c].closed = @ \/ over(copy[c])]
           /\ UNCHANGED copy
        \/ /\ session
           /\ ~down[c].closed \/ child[c].st = "runs"
           /\ child' = [child EXCEPT ![c] = Killed(@)] /\ down' = [down EXCEPT ![c] = Close(@)]
           /\ UNCHANGED copy
     /\ UNCHANGED <<exec, whole, main, delay, ctx, session, st, up>>

\* waitNetcatProcess
Reap(c) ==
  /\ child[c].reap = "started" /\ child[c].st # "runs"
  /\ child' = [child EXCEPT ![c].reap = "done"]
  /\ UNCHANGED <<exec, whole, main, delay, ctx, session, st, down, up, copy>>

\* The watcher of a proxy session: an interrupt closes both connections.
Watch(c) ==
  /\ st[c] = "open" /\ ~exec /\ session /\ ~(down[c].closed /\ up[c].closed)
  /\ down' = [down EXCEPT ![c] = Close(@)] /\ up' = [up EXCEPT ![c] = Close(@)]
  /\ UNCHANGED <<exec, whole, main, delay, ctx, session, st, copy, child>>

\* The session's deferred closes; the slot is free again.
EndSession(c) ==
  /\ st[c] = "open"
  /\ \A k \in Copies : copy[c][k] \in {"taken", "failed"}
  /\ exec => child[c].reap = "taken"
  /\ st' = [st EXCEPT ![c] = "over"]
  /\ down' = [down EXCEPT ![c] = Close(@)]
  /\ up' = [up EXCEPT ![c] = Close(@)]
  /\ UNCHANGED <<exec, whole, main, delay, ctx, session, copy, child>>

\* wg.Wait, then the deferred closes of the listener and of the transport.
Return ==
  /\ main \in {"wait", "failed"} /\ Slots = {}
  /\ main' = "returned"
  /\ UNCHANGED <<exec, whole, delay, ctx, session, st, down, up, copy, child>>

Interrupt ==
  /\ ~ctx /\ main # "returned"
  /\ ctx' = TRUE /\ session' = TRUE
  /\ UNCHANGED <<exec, whole, main, delay, st, down, up, copy, child>>

\* The peers and the child.
PeerActs(c) ==
  /\ st[c] \in {"opening", "open"}
  /\ \E p \in {"eof", "reset"} :
       \/ down[c].peer = "open" /\ ~down[c].closed /\ down' = [down EXCEPT ![c].peer = p] /\ UNCHANGED up
       \/ ~exec /\ up[c].peer = "open" /\ ~up[c].closed /\ up' = [up EXCEPT ![c].peer = p] /\ UNCHANGED down
  /\ UNCHANGED <<exec, whole, main, delay, ctx, session, st, copy, child>>

\* A child ends by itself, unless it waits to write into a pipe nobody reads.
ChildExits(c) ==
  /\ child[c].st = "runs" /\ ~child[c].blocked
  /\ child' = [child EXCEPT ![c].st = "exited"]
  /\ UNCHANGED <<exec, whole, main, delay, ctx, session, st, down, up, copy>>

Init ==
  /\ exec \in BOOLEAN /\ whole \in BOOLEAN /\ main = "accept" /\ delay = 0 /\ ctx = FALSE /\ session = FALSE
  /\ st = [c \in Conns |-> "none"] /\ down = [c \in Conns |-> Fresh] /\ up = [c \in Conns |-> Fresh]
  /\ copy = [c \in Conns |-> [k \in AllCopies |-> "off"]] /\ child = [c \in Conns |-> NoChild]

Steps(c) ==
  \/ Open(c) \/ CopyUp(c) \/ CopyDown(c) \/ TakeCopy(c) \/ CopyInput(c)
  \/ \E k \in {"stdout", "stderr"} : CopyOutput(c, k)
  \/ ExecLoop(c) \/ Reap(c) \/ Watch(c) \/ EndSession(c)

Next ==
  \/ \E c \in Conns : Accept(c) \/ Steps(c) \/ PeerActs(c) \/ ChildExits(c) \/ \E k \in Copies : CopyBreaks(c, k)
  \/ AcceptFails \/ Return \/ Interrupt

Spec == Init /\ [][Next]_vars

\* The goroutines of the server run, but for the Close of the listener, which
\* closes the control channel and need not return.  Nothing is assumed of peers
\* and children: that they act, that they send, or that a transient accept
\* error ends.
LoopEnds == main = "accept" /\ ListenerClosed /\ AcceptFails
Runs == LoopEnds \/ \E c \in Conns : Steps(c)
FairSpec == Spec /\ WF_vars(Runs)

TypeOK ==
  /\ exec \in BOOLEAN /\ whole \in BOOLEAN /\ ctx \in BOOLEAN /\ session \in BOOLEAN /\ delay \in 0..MaxDelay
  /\ main \in {"accept", "wait", "failed", "returned"}
  /\ \A c \in Conns : /\ st[c] \in {"none", "opening", "open", "over", "refused"}
                      /\ down[c].peer \in {"open", "eof", "reset"} /\ up[c].peer \in {"open", "eof", "reset"}
                      /\ child[c].reap \in {"no", "started", "done", "taken"}

\* A session that is over left nothing behind: its connections are closed and
\* its child was reaped; and never more sessions run than the limit allows.
NothingLeft ==
  /\ Cardinality(Slots) <= MaxConns
  /\ \A c \in Conns : st[c] = "over" =>
       /\ down[c].closed
       /\ child[c].st # "none" => child[c].st # "runs" /\ child[c].reap = "taken"
       /\ copy[c].toUp # "off" => up[c].closed

\* The end of one direction does not cut the other: in a session nobody
\* interrupted the connections stay open, and the child is not killed, until a
\* copy failed or, with a child, the child and its output are gone; and a side
\* is shut down only after the end of file of the other one.  An inbound
\* connection without CloseWrite is closed with the end of the upstream.
HalfCloseKept ==
  \A c \in Conns : st[c] = "open" /\ ~session =>
    LET failed == \E k \in Copies : copy[c][k] = "failed"
        outputs == \A k \in {"stdout", "stderr"} : copy[c][k] = "taken"
    IN /\ up[c].closed => failed
       /\ down[c].closed => failed \/ (whole /\ down[c].shut) \/ (exec /\ child[c].st = "exited" /\ outputs)
       /\ child[c].st = "killed" => failed
       /\ up[c].shut => down[c].peer = "eof"
       /\ down[c].shut => up[c].peer = "eof"

\* The response of an upstream, or of a child, is relayed to its end, also when
\* the client has finished sending: its copy stops earlier only when the client
\* is gone, after an error or an interrupt.
ResponseKept ==
  \A c \in Conns : st[c] = "open" /\ ~session /\ ~down[c].closed /\ down[c].peer # "reset" =>
    /\ copy[c].toDown \in {"ok", "taken"} => up[c].peer # "open"
    /\ \A k \in {"stdout", "stderr"} : copy[c][k] \in {"ok", "taken"} => child[c].st # "runs"

NetcatInv == NothingLeft /\ HalfCloseKept /\ ResponseKept

\* Under fair goroutines an interrupted server has left its loop and all its
\* sessions and returns, unless the Close of its listener does not; and a
\* session whose two ends have finished ends.
Settled ==
  /\ ctx => main # "accept" /\ Slots = {}
  /\ \A c \in Conns : ~exec /\ st[c] = "open" => down[c].peer = "open" \/ up[c].peer = "open"
====
