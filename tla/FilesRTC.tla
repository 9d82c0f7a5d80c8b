---- MODULE FilesRTC ----
(***************************************************************************)
(* Files shared over WebRTC: the client's RoundTrip, whose response body   *)
(* owns a peer connection; the server's table of sessions with its slots,  *)
(* leases and shutdown; and one data channel for each request, on which a  *)
(* response is a header, data frames paid with credits, and a completion.  *)
(* The channel is reliable and ordered until the connection is lost.  A    *)
(* frame carries one unit of data.  ICE and SDP are left out, so are HTTP  *)
(* header fields other than the length.                                    *)
(***************************************************************************)
EXTENDS Integers, Sequences, FiniteSets, SequencesExt

CONSTANTS Reqs,         \* requests
          Kinds,        \* what a request asks for: [write, head, length, writes, panics], length = -1 when unknown
          Backends,     \* what the server offers: subset of {"webdav", "webrtc"}
          Window,       \* frames a server may send ahead of the reader
          MaxSessions

VARIABLES kind,     \* request -> member of Kinds
          backend,  \* the server's backend
          main,     \* "open" | "closing" | "closed": Server
          slots,    \* requests that hold a slot (and count as active)
          table,    \* Server.sessions
          ses,      \* request -> [st, cancelled, lapsed, credits, wrote, sent, finished, overflow]
          cl,       \* request -> [st, cause, hasHeader, complete, expected, received, packets, header, read]
          down, up, \* request -> frames on their way to the client, to the server
          link      \* request -> "none" | "up" | "lost": the peer connection

vars == <<kind, backend, main, slots, table, ses, cl, down, up, link>>
serverVars == <<main, slots, table, ses>>
wires == <<down, up, link>>
asked == <<kind, backend>>

NoSession == [st |-> "none", cancelled |-> FALSE, lapsed |-> FALSE, credits |-> 0, wrote |-> FALSE, sent |-> 0,
              finished |-> FALSE, overflow |-> FALSE]
NoClient == [st |-> "idle", cause |-> "", hasHeader |-> FALSE, complete |-> FALSE, expected |-> -1, received |-> 0,
             packets |-> 0, header |-> FALSE, read |-> 0]

ReadOnly(r) == ~kind[r].write

\* The first cause stays.
Cancel(c, why) == IF c.cause = "" THEN [c EXCEPT !.cause = why] ELSE c
CancelSession(r) == [ses EXCEPT ![r].cancelled = TRUE]
SendDown(r, f) == down' = IF link[r] = "up" THEN [down EXCEPT ![r] = Append(@, f)] ELSE down
SendUp(r, f) == up' = IF link[r] = "up" THEN [up EXCEPT ![r] = Append(@, f)] ELSE up

----------------------------------------------------------------------------
(* The client *)

\* ClientTransport.RoundTrip asks the server for its backend, every time; a
\* plain HTTP backend takes the request itself.
Discover(r) ==
  /\ cl[r].st = "idle"
  /\ \/ backend = "webdav" /\ cl' = [cl EXCEPT ![r].st = "http"]
     \/ backend = "webrtc" /\ cl' = [cl EXCEPT ![r].st = IF ReadOnly(r) THEN "offer" ELSE "forbidden"]
     \/ cl' = [cl EXCEPT ![r].st = "failed"]
  /\ UNCHANGED <<asked, serverVars, wires>>

\* The answer arrives with the connection, an error, or nothing in time.
Connect(r) ==
  /\ cl[r].st = "offer"
  /\ \/ ses[r].st = "refused" /\ cl' = [cl EXCEPT ![r] = [Cancel(@, "refused") EXCEPT !.st = "failed"]] /\ UNCHANGED <<ses, link>>
     \/ /\ ses[r].st = "answers" /\ link[r] = "none"
        /\ cl' = [cl EXCEPT ![r].st = "await"] /\ link' = [link EXCEPT ![r] = "up"]
        /\ ses' = [ses EXCEPT ![r].st = "run"]
     \/ cl' = [cl EXCEPT ![r] = [Cancel(@, "setup") EXCEPT !.st = "failed"]] /\ UNCHANGED <<ses, link>>
  /\ UNCHANGED <<asked, main, slots, table, down, up>>

\* responseBody.message, by kind of frame.
TakeData(c) ==
  IF ~c.hasHeader \/ c.complete THEN Cancel(c, "invalid")
  ELSE LET d == [c EXCEPT !.received = @ + 1] IN
       IF c.expected >= 0 /\ d.received > c.expected THEN Cancel(d, "exceeds")
       ELSE IF c.packets < Window THEN [d EXCEPT !.packets = @ + 1] ELSE Cancel(d, "window")
TakeDone(c) ==
  IF ~c.hasHeader \/ c.complete THEN Cancel(c, "invalid")
  ELSE LET d == [c EXCEPT !.complete = TRUE] IN
       IF c.expected >= 0 /\ c.received # c.expected THEN Cancel(d, "short") ELSE d
TakeHeader(c, k) ==
  IF c.hasHeader THEN Cancel(c, "invalid")
  ELSE [c EXCEPT !.hasHeader = TRUE, !.header = TRUE, !.expected = IF k.head THEN 0 ELSE k.length]

message(r) ==
  /\ down[r] # <<>> /\ cl[r].st \in {"await", "open", "failed", "closed"}
  /\ down' = [down EXCEPT ![r] = Tail(@)]
  /\ cl' = [cl EXCEPT ![r] = CASE Head(down[r]) = "data" -> TakeData(@)
                               [] Head(down[r]) = "done" -> TakeDone(@)
                               [] Head(down[r]) = "error" -> Cancel(@, "transfer")
                               [] OTHER -> TakeHeader(@, kind[r])]
  /\ UNCHANGED <<asked, serverVars, up, link>>

\* RoundTrip waits for the header, the cancelled body or the time-out, in no
\* order when several are there.
AwaitHeader(r) ==
  /\ cl[r].st = "await"
  /\ \/ cl[r].header /\ cl' = [cl EXCEPT ![r].st = "open", ![r].header = FALSE]
     \/ cl[r].cause # "" /\ cl' = [cl EXCEPT ![r].st = "failed"]
  /\ UNCHANGED <<asked, serverVars, wires>>
SetupTimesOut(r) ==
  /\ cl[r].st = "await" /\ cl' = [cl EXCEPT ![r] = [Cancel(@, "setup") EXCEPT !.st = "failed"]]
  /\ UNCHANGED <<asked, serverVars, wires>>

\* Read: a frame, which gives its credit back, or the end once none is left.
ReadPacket(r) ==
  /\ cl[r].st = "open" /\ cl[r].cause = "" /\ cl[r].packets > 0
  /\ cl' = [cl EXCEPT ![r] = IF link[r] = "up" \/ cl[r].complete THEN [@ EXCEPT !.packets = @ - 1, !.read = @ + 1]
                             ELSE Cancel([@ EXCEPT !.packets = @ - 1, !.read = @ + 1], "lost")]
  /\ SendUp(r, "credit") /\ UNCHANGED <<asked, serverVars, down, link>>
\* ReadEnd as soon as the completion is there.
EndEarly(r) ==
  /\ cl[r].st = "open" /\ cl[r].complete /\ cl[r].cause = "" /\ cl' = [cl EXCEPT ![r].st = "eof"]
  /\ SendUp(r, "done") /\ UNCHANGED <<asked, serverVars, down, link>>
ReadEnd(r) ==
  /\ cl[r].st = "open" /\ cl[r].complete /\ cl[r].cause = "" /\ cl[r].packets = 0
  /\ cl' = [cl EXCEPT ![r].st = "eof"]
  /\ SendUp(r, "done") /\ UNCHANGED <<asked, serverVars, down, link>>
ReadError(r) ==
  /\ cl[r].st = "open" /\ cl[r].cause # "" /\ cl' = [cl EXCEPT ![r].st = "failed"]
  /\ UNCHANGED <<asked, serverVars, wires>>

\* Close, or the request's context, at any time.
Close(r) ==
  /\ cl[r].st \in {"open", "eof"} /\ cl' = [cl EXCEPT ![r] = [Cancel(@, "user") EXCEPT !.st = IF @ = "eof" THEN "eof" ELSE "closed"]]
  /\ UNCHANGED <<asked, serverVars, wires>>

\* A cancelled body closes the peer.
ClosePeer(r) ==
  /\ cl[r].cause # "" /\ link[r] = "up" /\ link' = [link EXCEPT ![r] = "lost"]
  /\ UNCHANGED <<asked, serverVars, cl, down, up>>

SeesLoss(r) ==
  /\ link[r] = "lost" /\ cl[r].st \in {"await", "open"} /\ ~cl[r].complete /\ cl[r].cause = ""
  /\ cl' = [cl EXCEPT ![r] = Cancel(@, "lost")]
  /\ UNCHANGED <<asked, serverVars, wires>>

\* lease: a renewal that fails, or finds the session gone, cancels the body; an
\* ICE restart that fails on the server ends the session as well.
RenewFails(r) ==
  /\ cl[r].st \in {"await", "open", "eof"} /\ cl[r].cause = ""
  /\ cl' = [cl EXCEPT ![r] = Cancel(@, "renew")]
  /\ UNCHANGED <<asked, serverVars, wires>>
RestartFails(r) ==
  /\ cl[r].st \in {"await", "open", "eof"} /\ cl[r].cause = "" /\ cl[r].hasHeader /\ r \in table /\ ~ses[r].lapsed
  /\ cl' = [cl EXCEPT ![r] = Cancel(@, "renew")] /\ ses' = CancelSession(r)
  /\ UNCHANGED <<asked, main, slots, table, wires>>

----------------------------------------------------------------------------
(* The server *)

\* open: a slot is taken under the lock, or the offer is refused.  The client
\* may have given up meanwhile.
Reserve(r) ==
  /\ cl[r].st = "offer" \/ cl[r].cause = "setup"
  /\ ses[r].st = "none"
  /\ IF main # "open" \/ Cardinality(slots) >= MaxSessions
     THEN ses' = [ses EXCEPT ![r].st = "refused"] /\ UNCHANGED slots
     ELSE ses' = [ses EXCEPT ![r].st = "opening"] /\ slots' = slots \union {r}
  /\ UNCHANGED <<asked, main, table, cl, wires>>

\* The ICE servers and the peer, then the session enters the table; before that
\* a failure gives the slot back, afterwards the session's own goroutine does.
Register(r) ==
  /\ ses[r].st = "opening"
  /\ \/ /\ ses' = [ses EXCEPT ![r].st = "refused"] /\ slots' = slots \ {r} /\ UNCHANGED table
     \/ /\ main = "open" /\ Cardinality(table) < MaxSessions
        /\ table' = table \union {r} /\ ses' = [ses EXCEPT ![r].st = "answers"] /\ UNCHANGED slots
  /\ UNCHANGED <<asked, main, cl, wires>>

\* The description is refused, gathering fails, or the answer cannot be sent.
AnswerFails(r) ==
  /\ ses[r].st = "answers" /\ ~ses[r].cancelled /\ ses' = CancelSession(r)
  /\ UNCHANGED <<asked, main, slots, table, cl, wires>>

\* session.channel: the client's channel is there, with a window of credits.
Opened(r) ==
  /\ ses[r].st = "run" /\ ~ses[r].cancelled /\ link[r] = "up"
  /\ ses' = [ses EXCEPT ![r].st = "serve", ![r].credits = Window]
  /\ UNCHANGED <<asked, main, slots, table, cl, wires>>

\* The client's frames: a credit beyond the window ends the session.
OnMessage(r) ==
  /\ up[r] # <<>> /\ ses[r].st \in {"serve", "finish"}
  /\ up' = [up EXCEPT ![r] = Tail(@)]
  /\ ses' = [ses EXCEPT ![r] = IF Head(up[r]) = "done" THEN [@ EXCEPT !.finished = TRUE]
                               ELSE IF @.credits < Window THEN [@ EXCEPT !.credits = @ + 1]
                               ELSE [@ EXCEPT !.cancelled = TRUE, !.overflow = TRUE]]
  /\ UNCHANGED <<asked, main, slots, table, cl, down, link>>

WriteHeader(r) ==
  /\ ses[r].st = "serve" /\ ~ses[r].wrote
  /\ ses' = [ses EXCEPT ![r].wrote = TRUE] /\ SendDown(r, "header")
  /\ UNCHANGED <<asked, main, slots, table, cl, up, link>>

\* Write: a frame for a credit.
Write(r) ==
  /\ ses[r].st = "serve" /\ ses[r].wrote /\ ses[r].sent < kind[r].writes
  /\ ses[r].credits > 0 /\ ~ses[r].cancelled
  /\ ses' = [ses EXCEPT ![r].credits = @ - 1, ![r].sent = @ + 1] /\ SendDown(r, "data")
  /\ UNCHANGED <<asked, main, slots, table, cl, up, link>>

\* serve: the handler has written everything, or gives up when Write returns
\* the error of the cancelled session; it returns, or it panics.  The
\* completion, or the error, goes out before the peer is closed.
Served(r) ==
  /\ ses[r].st = "serve" /\ ses[r].wrote
  /\ ses[r].sent = kind[r].writes \/ ses[r].cancelled
  /\ ses' = [ses EXCEPT ![r].st = "finish"] /\ SendDown(r, IF kind[r].panics THEN "error" ELSE "done")
  /\ UNCHANGED <<asked, main, slots, table, cl, up, link>>

\* run ends with its session: the peer is closed, the session leaves the table
\* and then gives its slot back.
EndSession(r) ==
  /\ \/ ses[r].st \in {"answers", "run"} /\ ses[r].cancelled
     \/ ses[r].st = "finish" /\ (ses[r].cancelled \/ ses[r].finished)
  /\ ses' = [ses EXCEPT ![r].st = "ended", ![r].cancelled = TRUE] /\ table' = table \ {r}
  /\ link' = [link EXCEPT ![r] = IF @ = "up" THEN "lost" ELSE @]
  /\ UNCHANGED <<asked, main, slots, cl, down, up>>
FreeSlot(r) ==
  /\ ses[r].st = "ended" /\ ses' = [ses EXCEPT ![r].st = "gone"] /\ slots' = slots \ {r}
  /\ UNCHANGED <<asked, main, table, cl, wires>>

\* The lease runs out; the ticker ends the session.  A renewal after that, or
\* of a cancelled session, is refused.
Lapse(r) ==
  /\ r \in table /\ ~ses[r].lapsed /\ ses' = [ses EXCEPT ![r].lapsed = TRUE]
  /\ UNCHANGED <<asked, main, slots, table, cl, wires>>
LeaseEnds(r) ==
  /\ r \in table /\ ses[r].lapsed /\ ~ses[r].cancelled /\ ses' = CancelSession(r)
  /\ UNCHANGED <<asked, main, slots, table, cl, wires>>

\* The peer's state, or the signal "close".
SessionCancelled(r) ==
  /\ r \in table /\ ~ses[r].cancelled /\ link[r] = "lost" /\ ses' = CancelSession(r)
  /\ UNCHANGED <<asked, main, slots, table, cl, wires>>
SignalClose(r) ==
  /\ r \in table /\ ~ses[r].cancelled /\ ~ses[r].lapsed /\ ses' = CancelSession(r)
  /\ UNCHANGED <<asked, main, slots, table, cl, wires>>

ServerClose ==
  /\ main = "open" /\ main' = "closing"
  /\ ses' = [r \in Reqs |-> IF r \in table THEN [ses[r] EXCEPT !.cancelled = TRUE] ELSE ses[r]]
  /\ UNCHANGED <<asked, slots, table, cl, wires>>
ServerClosed ==
  /\ main = "closing" /\ slots = {} /\ main' = "closed"
  /\ UNCHANGED <<asked, slots, table, ses, cl, wires>>

LinkLost(r) ==
  /\ link[r] = "up" /\ link' = [link EXCEPT ![r] = "lost"]
  /\ UNCHANGED <<asked, serverVars, cl, down, up>>

----------------------------------------------------------------------------
Init ==
  /\ kind \in [Reqs -> Kinds] /\ backend \in Backends /\ main = "open" /\ slots = {} /\ table = {}
  /\ ses = [r \in Reqs |-> NoSession] /\ cl = [r \in Reqs |-> NoClient]
  /\ down = [r \in Reqs |-> <<>>] /\ up = [r \in Reqs |-> <<>>] /\ link = [r \in Reqs |-> "none"]

ClientRuns(r) == message(r) \/ AwaitHeader(r) \/ ReadError(r) \/ ClosePeer(r) \/ SeesLoss(r)
SessionRuns(r) ==
  \/ Register(r) \/ Opened(r) \/ WriteHeader(r) \/ Write(r) \/ Served(r)
  \/ EndSession(r) \/ FreeSlot(r)
Outside(r) ==
  \/ Discover(r) \/ Connect(r) \/ SetupTimesOut(r) \/ ReadPacket(r) \/ ReadEnd(r) \/ Close(r) \/ RenewFails(r) \/ RestartFails(r) \/ Reserve(r)
  \/ AnswerFails(r) \/ SignalClose(r) \/ LinkLost(r)
Next ==
  \/ \E r \in Reqs : \/ ClientRuns(r) \/ SessionRuns(r) \/ Outside(r) \/ OnMessage(r)
                     \/ Lapse(r) \/ LeaseEnds(r) \/ SessionCancelled(r)
  \/ ServerClose \/ ServerClosed

Spec == Init /\ [][Next]_vars

\* The goroutines and callbacks run; a lease nobody renews lapses.  Nothing is
\* assumed of the reader, of the user or of the network.
Runs ==
  \/ ServerClosed
  \/ \E r \in Reqs : \/ ClientRuns(r) \/ SessionRuns(r) \/ OnMessage(r) \/ LeaseEnds(r) \/ SessionCancelled(r)
                     \/ cl[r].st = "failed" /\ Lapse(r)
FairSpec == Spec /\ WF_vars(Runs)

TypeOK ==
  /\ main \in {"open", "closing", "closed"} /\ slots \subseteq Reqs /\ table \subseteq Reqs
  /\ \A r \in Reqs : ses[r].credits \in 0..Window /\ cl[r].packets \in 0..Window /\ link[r] \in {"none", "up", "lost"}

Frames(s, f) == Len(SelectSeq(s, LAMBDA x : x = f))

\* The credits of a transfer are neither lost nor multiplied: what is on its
\* way, received and not read, or given back adds up to the window, so that
\* neither side ever ends a transfer for its window.
WindowHeld ==
  \A r \in Reqs :
    /\ ses[r].st \in {"serve", "finish"} => ses[r].credits + Frames(down[r], "data") + cl[r].packets + Frames(up[r], "credit") <= Window
    /\ ~ses[r].overflow /\ cl[r].cause \notin {"window", "invalid"}

\* A response of known length that ends without an error was read in full, and
\* one of unknown length as far as the handler wrote it.
ReadsAll ==
  \A r \in Reqs : cl[r].st = "eof" =>
    /\ cl[r].read = ses[r].sent /\ ~kind[r].panics
    /\ ~kind[r].head /\ kind[r].length >= 0 => cl[r].read = kind[r].length

\* The slots are those of the sessions that were opened and have not ended,
\* within the limit; no session is left after Close; and no write is ever
\* carried over WebRTC.
SlotsExact ==
  /\ slots = {r \in Reqs : ses[r].st \notin {"none", "refused", "gone"}}
  /\ table = {r \in slots : ses[r].st \notin {"opening", "ended"}}
  /\ Cardinality(slots) <= MaxSessions /\ (main = "closed" => slots = {})
  /\ \A r \in Reqs : ses[r].st # "none" => ReadOnly(r) /\ backend = "webrtc"

RTCInv == WindowHeld /\ ReadsAll /\ SlotsExact

\* Under fair goroutines a request that is over gives its slot back, lost answers
\* included, and a server being closed gets there.
Settled ==
  /\ main # "closing"
  /\ \A r \in Reqs : cl[r].st \in {"failed", "closed", "eof"} => ses[r].st \in {"none", "refused", "gone"}
====
