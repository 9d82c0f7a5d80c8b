------------------------------ MODULE EngineAPI ------------------------------
(***************************************************************************)
(* The Engine HTTP API of one Client (api.go, api_discovery.go,            *)
(* api_http3.go): the calls that share one discovery of the certificate    *)
(* address, its cache, the retry of reads, the fall back from HTTP/3 to    *)
(* TCP, the event streams over SSE and WebSocket, and Close.               *)
(*                                                                         *)
(* An address is [project, at]: "shared" is the ordinary Engine address of *)
(* the project, "old" and "new" are dedicated certificate addresses; the   *)
(* Engine serves the dedicated API at `home', which moves once.            *)
(***************************************************************************)
EXTENDS Naturals, Sequences

CONSTANTS Calls,      \* the calls made on the client
          Kinds,      \* what a call may be: [op, project]
          Setups,     \* clients: [cert, token, override, dialer]
          MaxEvents   \* events the Engine sends on one stream

Nil == "none"
Ops == {"read", "write", "sse", "ws"}
Kind == [op : Ops, project : {"p", "q"}]
Setup == [cert : BOOLEAN, token : BOOLEAN, override : BOOLEAN, dialer : {"tls", "quic", "auto"}]
At(p, a) == [project |-> p, at |-> a]
NoURL == At(Nil, Nil)
apiRequestAttempts == 2
\* The result of a discovery, as its leader has it and its waiters get it.
NoResult == [url |-> NoURL, err |-> FALSE, keep |-> FALSE, done |-> FALSE]
\* What ends a stream: the Engine closed it, or it was lost.
EOF == <<0, 1>>
Lost == <<0, 2>>

VARIABLES setup,   \* the client's fields
          kind,    \* what each call is
          call,    \* the progress of each call
          cache,   \* engineAPIDiscovery: [project, url, fresh]
          flight,  \* the call that leads the discovery in progress, Nil when there is none
          pool,    \* pooled transports: [tcp, h3] of "api" and of "discovery"
          useTCP,  \* the HTTP/3 transport gave up on QUIC
          closed,  \* Client.Close: "no", "cancelled", "idle", "done"
          home,    \* where the dedicated API is served
          ran,     \* how often the Engine executed each call
          stream   \* the event stream of each watch
vars == <<setup, kind, call, cache, flight, pool, useTCP, closed, home, ran, stream>>

NoStream == [conn |-> "none", wire |-> << >>, sent |-> 0, buf |-> << >>, got |-> 0, ping |-> "off"]
Over == {"ok", "failed", "ended"}

TypeOK ==
  /\ call \in [Calls -> [pc : {"idle", "resolve", "wait", "lead", "found", "request", "retry", "watch", "closing"} \cup Over,
                         ctx : {"live", "ended"}, attempt : 1 .. apiRequestAttempts,
                         url : [project : {"p", "q", Nil}, at : {"shared", "old", "new", Nil}],
                         res : [url : [project : {"p", "q", Nil}, at : {"old", "new", Nil}], err : BOOLEAN, keep : BOOLEAN, done : BOOLEAN],
                         led : {"p", "q", Nil}, out : Over \cup {Nil}]]
  /\ cache.fresh \in BOOLEAN /\ flight \in Calls \cup {Nil}
  /\ pool \in [{"api", "discovery"} -> [tcp : BOOLEAN, h3 : BOOLEAN]]
  /\ useTCP \in BOOLEAN /\ closed \in {"no", "cancelled", "idle", "done"} /\ home \in {"old", "new"}
  /\ ran \in [Calls -> 0 .. apiRequestAttempts]
  /\ \A c \in Calls : /\ stream[c].conn \in {"none", "open", "closed"} /\ stream[c].ping \in {"off", "on", "over"}
                      /\ stream[c].sent \in 0 .. MaxEvents /\ Len(stream[c].wire) <= 3 * MaxEvents + 1

Init ==
  /\ setup \in Setups /\ kind \in [Calls -> Kinds]
  /\ call = [c \in Calls |-> [pc |-> "idle", ctx |-> "live", attempt |-> 1, url |-> NoURL, res |-> NoResult, led |-> Nil, out |-> Nil]]
  /\ cache = [project |-> Nil, url |-> NoURL, fresh |-> FALSE]
  /\ flight = Nil
  /\ pool = [k \in {"api", "discovery"} |-> [tcp |-> FALSE, h3 |-> FALSE]]
  /\ useTCP = FALSE /\ closed = "no" /\ home = "old"
  /\ ran = [c \in Calls |-> 0] /\ stream = [c \in Calls |-> NoStream]

Watches(c) == kind[c].op \in {"sse", "ws"}
Source(c) == At(kind[c].project, "shared")
\* The calls with c moved to pc; a call that is over keeps only its outcome.
Goto(c, pc) == [call EXCEPT ![c] = IF pc \in Over THEN [@ EXCEPT !.pc = pc, !.url = NoURL, !.res = NoResult, !.attempt = 1, !.out = Nil]
                                   ELSE [@ EXCEPT !.pc = pc]]
\* The pool with the transports a request needs: TCP always, HTTP/3 for a QUIC dialer.
Opened(k) == [pool EXCEPT ![k] = [tcp |-> TRUE, h3 |-> @.h3 \/ setup.dialer # "tls"]]

\* Client.getClientDetails: a token and a certificate exclude each other, one of them is needed.
getClientDetails == setup.cert # setup.token

\* The first part of apiDo and of openEventConn: credentials, then (apiDo only) the pooled client.
Start(c) ==
  /\ call[c].pc = "idle"
  /\ IF ~getClientDetails \/ closed # "no"
     THEN call' = Goto(c, "failed") /\ UNCHANGED pool
     ELSE /\ call' = Goto(c, "resolve")
          /\ pool' = IF Watches(c) THEN pool ELSE Opened("api")
  /\ UNCHANGED <<setup, kind, cache, flight, useTCP, closed, home, ran, stream>>

\* The address is known: a request goes out next, or the call fails.
Resolved(c, url) == [call EXCEPT ![c].pc = "request", ![c].url = url, ![c].res = NoResult, ![c].led = Nil]

\* One turn of the loop of resolveEngineAPIURL, up to the discovery or the wait.
resolveEngineAPIURL(c) ==
  /\ call[c].pc = "resolve"
  /\ IF closed # "no" THEN call' = Goto(c, "failed") /\ UNCHANGED flight
     ELSE IF ~setup.cert THEN call' = Resolved(c, Source(c)) /\ UNCHANGED flight
     ELSE IF setup.override
          THEN /\ call' = IF kind[c].project = "p" THEN Resolved(c, At("p", "old")) ELSE Goto(c, "failed")
               /\ UNCHANGED flight
     ELSE IF call[c].ctx = "ended" THEN call' = Goto(c, "ended") /\ UNCHANGED flight
     ELSE IF cache.project = kind[c].project /\ cache.fresh
          THEN call' = Resolved(c, cache.url) /\ UNCHANGED flight
     ELSE IF flight # Nil
          THEN call' = [call EXCEPT ![c].pc = "wait", ![c].led = kind[flight].project] /\ UNCHANGED flight
     ELSE flight' = c /\ call' = Goto(c, "lead")
  /\ UNCHANGED <<setup, kind, cache, pool, useTCP, closed, home, ran, stream>>

\* Waiting for another call's discovery: its result if it asked for the same project, else the loop again.
Wait(c) ==
  /\ call[c].pc = "wait"
  /\ \/ call[c].ctx = "ended" /\ call' = Goto(c, "ended")
     \/ /\ call[c].res.done
        /\ call' = IF call[c].led # kind[c].project THEN [call EXCEPT ![c].pc = "resolve", ![c].res = NoResult, ![c].led = Nil]
                   ELSE IF call[c].res.err THEN Goto(c, "failed") ELSE Resolved(c, call[c].res.url)
  /\ UNCHANGED <<setup, kind, cache, flight, pool, useTCP, closed, home, ran, stream>>

\* What discoverEngineAPI may return: an error, or the address of the document with the time it may
\* be kept. A document about another project is refused (validateMTLSAPIURL).
discoverEngineAPI(c) ==
  LET doc(p) == [project |-> p, url |-> At(p, home)]
      documents == IF closed # "no" \/ call[c].ctx = "ended" THEN {} ELSE {doc("p"), doc("q")}
      valid == {d \in documents : d.project = kind[c].project}
  IN  {[NoResult EXCEPT !.err = TRUE]}
      \cup {[NoResult EXCEPT !.url = d.url, !.keep = k] : d \in valid, k \in BOOLEAN}

\* The leader asks the well-known address, over the pooled transport that carries no certificate.
Discover(c) ==
  /\ call[c].pc = "lead"
  /\ \E r \in discoverEngineAPI(c) : call' = [call EXCEPT ![c].pc = "found", ![c].res = r]
  /\ pool' = IF closed = "no" THEN Opened("discovery") ELSE pool
  /\ UNCHANGED <<setup, kind, cache, flight, useTCP, closed, home, ran, stream>>

\* Its result is cached unless the client was closed, then published.
Publish(c) ==
  /\ call[c].pc = "found"
  /\ LET r == call[c].res
         mine == IF r.err THEN Goto(c, "failed") ELSE Resolved(c, r.url)
         waits(d) == call[d].pc = "wait" /\ ~call[d].res.done
     IN  /\ cache' = IF r.err \/ closed # "no" THEN cache ELSE [project |-> kind[c].project, url |-> r.url, fresh |-> r.keep]
         /\ call' = [d \in Calls |-> IF waits(d) THEN [call[d] EXCEPT !.res = [r EXCEPT !.done = TRUE]] ELSE mine[d]]
  /\ flight' = Nil
  /\ UNCHANGED <<setup, kind, pool, useTCP, closed, home, ran, stream>>

\* One exchange with the Engine at an address: "status" is a refusal, "transport" an error before a
\* status (the request may have run), "body" one after it, "fatal" one that is never retried.
Exchange(url) ==
  {[err |-> "fatal", ran |-> 0], [err |-> "transport", ran |-> 0]}
  \cup (IF url.at \in {"shared", home} THEN [err : {Nil, "status", "transport", "body"}, ran : {1}] ELSE {})

\* apiHTTP3Transport.RoundTrip: only a handshake that failed moves the request, unsent, to TCP.
RoundTrip(url) ==
  LET tcp == {[err |-> x.err, ran |-> x.ran, tcp |-> TRUE] : x \in Exchange(url)}
      h3 == {[err |-> x.err, ran |-> x.ran, tcp |-> FALSE] : x \in Exchange(url)}
  IN  IF setup.dialer = "tls" \/ useTCP THEN {[x EXCEPT !.tcp = useTCP] : x \in tcp}
      ELSE IF setup.dialer = "quic" THEN h3 ELSE h3 \cup tcp

retryableAPITransportError(c, err) == call[c].ctx = "live" /\ err \in {"transport", "body"}

\* apiDo, retrying writes as well.
RetriesWrites(c) ==
  /\ call[c].pc = "request" /\ ~Watches(c)
  /\ \E x \in RoundTrip(call[c].url) :
       /\ ran' = [ran EXCEPT ![c] = @ + x.ran] /\ useTCP' = x.tcp
       /\ call' = IF x.err = Nil THEN Goto(c, "ok")
                  ELSE IF call[c].attempt < apiRequestAttempts /\ retryableAPITransportError(c, x.err)
                       THEN [call EXCEPT ![c].pc = "retry", ![c].attempt = @ + 1]
                  ELSE Goto(c, "failed")
  /\ UNCHANGED <<setup, kind, cache, flight, pool, closed, home, stream>>

\* One attempt of apiDo: apiRequest, the invalidation of the cached address, and the decision to retry.
apiDo(c) ==
  /\ call[c].pc = "request" /\ ~Watches(c)
  /\ \E x \in RoundTrip(call[c].url) :
       LET err == x.err IN
       /\ call[c].ctx = "ended" => err # Nil
       /\ ran' = [ran EXCEPT ![c] = @ + x.ran] /\ useTCP' = x.tcp
       /\ cache' = [cache EXCEPT !.fresh = @ /\ ~(setup.cert /\ err = "transport" /\ retryableAPITransportError(c, err))]
       /\ call' = IF err = Nil THEN Goto(c, "ok")
                  ELSE IF call[c].ctx = "ended" THEN Goto(c, "ended")
                  ELSE IF kind[c].op = "read" /\ call[c].attempt < apiRequestAttempts /\ retryableAPITransportError(c, err)
                       THEN [call EXCEPT ![c].pc = "retry", ![c].attempt = @ + 1]
                  ELSE Goto(c, "failed")
  /\ UNCHANGED <<setup, kind, flight, pool, closed, home, stream>>

waitAPIRetry(c) ==
  /\ call[c].pc = "retry"
  /\ call' = Goto(c, IF call[c].ctx = "ended" THEN "ended" ELSE "resolve")
  /\ UNCHANGED <<setup, kind, cache, flight, pool, useTCP, closed, home, ran, stream>>

\* The stream a watch opens; newWSConn starts the ping loop of a WebSocket.
openSSE(c) == pool' = Opened("api") /\ stream' = [stream EXCEPT ![c].conn = "open"]
newWSConn(c) == [stream EXCEPT ![c].conn = "open", ![c].ping = "on"]
openWS(c) == UNCHANGED pool /\ stream' = newWSConn(c)

\* The stream opens, or the watch fails. SSE uses the pooled client, WebSocket a dialer of its own.
openEventConn(c) ==
  /\ call[c].pc = "request" /\ Watches(c)
  /\ \/ /\ call' = Goto(c, IF call[c].ctx = "ended" THEN "ended" ELSE "failed") /\ UNCHANGED <<ran, stream>>
        /\ pool' = IF kind[c].op = "sse" /\ closed = "no" THEN Opened("api") ELSE pool
     \/ /\ closed = "no" /\ call[c].ctx = "live" /\ call[c].url.at \in {"shared", home}
        /\ IF kind[c].op = "sse" THEN openSSE(c) ELSE openWS(c)
        /\ ran' = [ran EXCEPT ![c] = 1] /\ call' = Goto(c, "watch")
  /\ UNCHANGED <<setup, kind, cache, flight, useTCP, closed, home>>

\* The Engine sends an event: two data lines and a blank one over SSE, one message over WebSocket.
\* An SSE stream may end within an event: after its first line, or before the blank one.
Emit(c) ==
  /\ stream[c].conn = "open" /\ stream[c].sent < MaxEvents /\ call[c].pc = "watch" /\ stream[c].wire = << >>
  /\ LET n == stream[c].sent + 1
         event == IF kind[c].op = "ws" THEN <<<<n, 0>>>> ELSE <<<<n, 1>>, <<n, 2>>, <<n, 3>>>>
     IN  \/ stream' = [stream EXCEPT ![c].wire = event, ![c].sent = n]
         \/ kind[c].op = "sse" /\ \E k \in 1 .. 2 :
              stream' = [stream EXCEPT ![c].wire = SubSeq(event, 1, k) \o <<EOF>>, ![c].sent = IF k = 2 THEN n ELSE @]
  /\ UNCHANGED <<setup, kind, call, cache, flight, pool, useTCP, closed, home, ran>>

\* The stream ends: closed by the Engine, or lost.
StreamEnds(c) ==
  /\ stream[c].conn = "open" /\ call[c].pc = "watch" /\ stream[c].wire = << >>
  /\ \E e \in {EOF, Lost} : stream' = [stream EXCEPT ![c].wire = <<e>>]
  /\ UNCHANGED <<setup, kind, call, cache, flight, pool, useTCP, closed, home, ran>>

\* An event is whole when both its data lines are there.
Parses(buf) == \E n \in 1 .. MaxEvents : buf \in {<<<<n, 0>>>>, <<<<n, 1>>, <<n, 2>>>>}
LeaveWatch(c, out) == call' = [call EXCEPT ![c].pc = "closing", ![c].out = out]

\* What Watch does with what Read gave it: nothing, an event for the handler, or bytes that do not parse.
Handle(c, buf, rest) ==
  /\ stream' = [stream EXCEPT ![c].wire = rest, ![c].buf = << >>, ![c].got = IF buf # << >> /\ Parses(buf) THEN @ + 1 ELSE @]
  /\ IF buf = << >> THEN UNCHANGED call
     ELSE IF ~Parses(buf) THEN LeaveWatch(c, "failed")
     ELSE UNCHANGED call \/ LeaveWatch(c, "failed")

\* sseConn.Read and wsConn.Read, one line or message at a time, within the loop of Watch.
Watch(c) ==
  /\ call[c].pc = "watch"
  /\ LET s == stream[c] IN
     \/ call[c].ctx = "ended" /\ LeaveWatch(c, "ended") /\ UNCHANGED stream
     \/ /\ s.conn = "closed" /\ LeaveWatch(c, IF call[c].ctx = "ended" THEN "ended" ELSE "failed") /\ UNCHANGED stream
     \/ /\ s.conn = "open" /\ s.wire # << >> /\ s.wire[1] \notin {EOF, Lost}
        /\ IF kind[c].op = "ws" \/ s.wire[1][2] = 3
           THEN Handle(c, IF kind[c].op = "ws" THEN <<s.wire[1]>> ELSE s.buf, Tail(s.wire))
           ELSE stream' = [stream EXCEPT ![c].wire = Tail(@), ![c].buf = Append(@, s.wire[1])] /\ UNCHANGED call
     \/ /\ s.conn = "open" /\ s.wire # << >> /\ s.wire[1] \in {EOF, Lost}
        /\ IF s.wire[1] = EOF /\ s.buf # << >> THEN Handle(c, s.buf, s.wire)
           ELSE LeaveWatch(c, IF s.wire[1] = EOF /\ kind[c].op = "sse" THEN "ok" ELSE "failed") /\ UNCHANGED stream
  /\ UNCHANGED <<setup, kind, cache, flight, pool, useTCP, closed, home, ran>>

\* context.AfterFunc(ctx, ec.Close), and the deferred ec.Close of Watch, up to the wait for the ping loop.
initiateClose(c) ==
  /\ stream[c].conn = "open" /\ (call[c].pc = "closing" \/ (call[c].pc = "watch" /\ call[c].ctx = "ended"))
  /\ stream' = [stream EXCEPT ![c].conn = "closed"]
  /\ UNCHANGED <<setup, kind, call, cache, flight, pool, useTCP, closed, home, ran>>

\* The ping loop: it ends with the connection, or ends it when a ping cannot be written.
pingLoop(c) ==
  /\ stream[c].ping = "on" /\ (stream[c].conn = "closed" \/ stream[c].wire = <<Lost>>)
  /\ stream' = [stream EXCEPT ![c].ping = "over", ![c].conn = "closed"]
  /\ UNCHANGED <<setup, kind, call, cache, flight, pool, useTCP, closed, home, ran>>

\* Watch returns once Close has: the ping loop is over.
WatchReturns(c) ==
  /\ call[c].pc = "closing" /\ stream[c].conn = "closed" /\ stream[c].ping # "on"
  /\ call' = Goto(c, call[c].out)
  /\ UNCHANGED <<setup, kind, cache, flight, pool, useTCP, closed, home, ran, stream>>

\* The caller cancels, or the time of the request is over (a watch has no such limit).
EndContext(c) ==
  /\ call[c].pc \notin Over /\ call[c].ctx = "live"
  /\ call' = [call EXCEPT ![c].ctx = "ended"]
  /\ UNCHANGED <<setup, kind, cache, flight, pool, useTCP, closed, home, ran, stream>>

\* The cached address outlives its lifetime.
Expire ==
  /\ cache.fresh /\ cache' = [cache EXCEPT !.fresh = FALSE]
  /\ UNCHANGED <<setup, kind, call, flight, pool, useTCP, closed, home, ran, stream>>

\* The dedicated API moves to another address.
MoveHome ==
  /\ setup.cert /\ home = "old" /\ home' = "new"
  /\ UNCHANGED <<setup, kind, call, cache, flight, pool, useTCP, closed, ran, stream>>

\* CloseIdleConnections: a TCP pool is dropped unless the HTTP/3 transport still falls back to it.
Idle == [k \in DOMAIN pool |-> IF pool[k].h3 THEN pool[k] ELSE [tcp |-> FALSE, h3 |-> FALSE]]
CloseIdleConnections ==
  /\ closed \in {"no", "cancelled"} /\ pool' = Idle /\ (closed = "no" => pool' # pool)
  /\ closed' = IF closed = "no" THEN "no" ELSE "idle"
  /\ UNCHANGED <<setup, kind, call, cache, flight, useTCP, home, ran, stream>>

\* Client.Close: the flag and the cancelled dials, then the idle connections, then the HTTP/3 transports.
Close ==
  /\ \/ closed = "no" /\ closed' = "cancelled" /\ UNCHANGED pool
     \/ closed = "idle" /\ closed' = "done" /\ pool' = [k \in DOMAIN pool |-> [pool[k] EXCEPT !.h3 = FALSE]]
  /\ UNCHANGED <<setup, kind, call, cache, flight, useTCP, home, ran, stream>>

\* What the call's own goroutine, its ping loop and its AfterFunc do.
CallRuns(c) ==
  \/ Start(c) \/ resolveEngineAPIURL(c) \/ Wait(c) \/ Discover(c) \/ Publish(c) \/ apiDo(c) \/ waitAPIRetry(c)
  \/ openEventConn(c) \/ Watch(c) \/ initiateClose(c) \/ WatchReturns(c)

Next ==
  \/ \E c \in Calls : CallRuns(c) \/ pingLoop(c) \/ Emit(c) \/ StreamEnds(c) \/ EndContext(c)
  \/ Expire \/ MoveHome \/ CloseIdleConnections \/ Close

Spec == Init /\ [][Next]_vars
Runs == \E c \in Calls : CallRuns(c) \/ pingLoop(c)
FairSpec == Spec /\ WF_vars(Runs)

(* A mutation is executed at most once, whatever is retried or falls back; a read at most twice. *)
RunsOnce == \A c \in Calls : ran[c] <= IF kind[c].op = "read" THEN apiRequestAttempts ELSE 1

(* A certificate only ever goes to a dedicated address of the call's own project, and a token only *)
(* to the ordinary one: a waiter takes a result, or the cache, for its own project. *)
OwnAddress ==
  \A c \in Calls : call[c].pc = "request" =>
    call[c].url.project = kind[c].project /\ (setup.cert <=> call[c].url.at # "shared")

(* Nobody waits for a discovery that nobody makes: the flight in progress is being led, and a *)
(* waiter's flight is in progress or published. *)
FlightsLand ==
  /\ flight # Nil => call[flight].pc \in {"lead", "found"}
  /\ \A c \in Calls : /\ call[c].pc = "wait" => call[c].res.done \/ (flight # Nil /\ call[c].led = kind[flight].project)
                      /\ call[c].pc \in {"lead", "found"} => flight = c

(* A watch that returned left neither a connection nor a ping loop; one that returned without an *)
(* error handed every whole event it was sent to the handler, in order and none twice. *)
WatchClean ==
  \A c \in Calls :
    /\ Watches(c) /\ call[c].pc \in Over => stream[c].conn # "open" /\ stream[c].ping # "on"
    /\ stream[c].got <= stream[c].sent
    /\ Watches(c) /\ call[c].pc = "ok" => stream[c].got = stream[c].sent

(* Once Close returned, no HTTP/3 transport is pooled and none is opened again. *)
PoolsClosed == closed = "done" => \A k \in DOMAIN pool : ~pool[k].h3

APIInv == RunsOnce /\ OwnAddress /\ FlightsLand /\ WatchClean /\ PoolsClosed

(* A call returns, except a watch nobody cancelled whose stream is still there. *)
Settled(c) == call[c].pc \in Over \/ (call[c].pc = "watch" /\ call[c].ctx = "live" /\ stream[c].wire = << >>)
=============================================================================
