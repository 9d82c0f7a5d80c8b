----------------------------- MODULE WebTTYServer -----------------------------
(* rstream webtty server: the loop that connects and serves one generation *)
(* after another, the handler that admits and ends the sessions of a       *)
(* generation, the group that drains the generations whose admission ended *)
(* while their sessions go on, and the filesystem served beside the        *)
(* terminal. A session is seen from outside; WebTTYSession is its inside.  *)
EXTENDS Integers, FiniteSetTheorems, TLAPS

CONSTANTS
  Conns,           \* connections that ask for a session, or for the filesystem
  MaxGenerations   \* bound: times the server connects

Generations == 1..MaxGenerations

VARIABLES
  retry,       \* autoReconnect
  timeout,     \* --shutdown-timeout is positive
  main,        \* where the command is
  gen,         \* the generation it is at
  stopped,     \* serverCtx is done
  admission,   \* per generation: does its listener accept
  resources,   \* per generation: the tunnel, the control channel and the client
  draining,    \* per generation: Handler.draining
  sessions,    \* per generation: Handler.sessions
  drained,     \* per generation: drainedCh is closed
  closer,      \* per generation: who ends it, and where that is
  asked,       \* per generation: the sessions Shutdown asks to end
  late,        \* per generation: the shutdown context is done
  files,       \* per generation: the filesystem
  conn,        \* per connection: where it is
  at           \* per connection: its generation

genVars == <<admission, resources, draining, sessions, drained, closer, asked, late, files>>
vars == <<retry, timeout, main, gen, stopped, genVars, conn, at>>

TypeOK ==
  /\ {retry, timeout, stopped} \subseteq BOOLEAN
  /\ main \in {"check", "connect", "serve", "stopping", "pause", "wait", "returned"} /\ gen \in 0..MaxGenerations
  /\ admission \in [Generations -> {"none", "open", "ended", "closed"}]
  /\ resources \in [Generations -> {"none", "control", "held", "released", "abandoned"}]
  /\ draining \in [Generations -> BOOLEAN] /\ drained \in [Generations -> BOOLEAN] /\ late \in [Generations -> BOOLEAN]
  /\ sessions \in [Generations -> SUBSET Conns] /\ asked \in [Generations -> SUBSET Conns]
  /\ closer \in [Generations -> {"none", "wait", "shutdown", "await", "server", "files", "done"}]
  /\ files \in [Generations -> {"none", "open", "closing", "closed"}]
  /\ conn \in [Conns -> {"new", "admitted", "refused", "running", "ending", "ended", "request", "answered"}]
  /\ at \in [Conns -> 0..MaxGenerations]

Init ==
  /\ retry \in BOOLEAN /\ timeout \in BOOLEAN /\ main = "check" /\ gen = 0 /\ stopped = FALSE
  /\ admission = [g \in Generations |-> "none"] /\ resources = [g \in Generations |-> "none"]
  /\ draining = [g \in Generations |-> FALSE] /\ drained = [g \in Generations |-> FALSE]
  /\ late = [g \in Generations |-> FALSE]
  /\ sessions = [g \in Generations |-> {}] /\ asked = [g \in Generations |-> {}]
  /\ closer = [g \in Generations |-> "none"] /\ files = [g \in Generations |-> "none"]
  /\ conn = [c \in Conns |-> "new"] /\ at = [c \in Conns |-> 0]

----------------------------------------------------------------------------
(* The loop of the command. *)

\* runWebTTYServerRetryLoop: the context, then another generation.
Check ==
  /\ main = "check" /\ (stopped \/ gen < MaxGenerations)
  /\ IF stopped THEN main' = "wait" /\ UNCHANGED gen ELSE main' = "connect" /\ gen' = gen + 1
  /\ UNCHANGED <<retry, timeout, stopped, genVars, conn, at>>

\* webTTYServerRetryableError, after an error of runOnce.
AfterError(retryable) == main' = IF retry /\ retryable THEN "pause" ELSE "wait"

\* runWebTTYServerOnce up to the tunnel. Until the tunnel is there a failure closes
\* the control channel and the client on the spot; the filesystem is closed by the deferred call.
Connect ==
  /\ main = "connect" /\ resources[gen] = "none"
  /\ \/ \E f \in {"none", "open"} :
          resources' = [resources EXCEPT ![gen] = "control"] /\ files' = [files EXCEPT ![gen] = f] /\ UNCHANGED main
     \/ \E retryable \in BOOLEAN : AfterError(retryable) /\ UNCHANGED <<resources, files>>
  /\ UNCHANGED <<retry, timeout, gen, stopped, admission, draining, sessions, drained, closer, asked, late, conn, at>>

\* The hostname, the admission label, CreateTunnel and what follows it, to the call that serves. A
\* failure before CreateTunnel leaves the control channel and the client as they are.
CreateTunnel ==
  /\ main = "connect" /\ resources[gen] = "control"
  /\ \/ /\ main' = "serve" /\ resources' = [resources EXCEPT ![gen] = "held"]
        /\ admission' = [admission EXCEPT ![gen] = "open"] /\ UNCHANGED files
     \/ /\ \E retryable \in BOOLEAN : AfterError(retryable)
        /\ resources' = [resources EXCEPT ![gen] = "released"]
        /\ files' = [files EXCEPT ![gen] = IF files[gen] = "open" THEN "closed" ELSE "none"] /\ UNCHANGED admission
     \/ /\ AfterError(FALSE) /\ resources' = [resources EXCEPT ![gen] = "abandoned"]
        /\ files' = [files EXCEPT ![gen] = IF files[gen] = "open" THEN "closed" ELSE "none"] /\ UNCHANGED admission
  /\ UNCHANGED <<retry, timeout, gen, stopped, draining, sessions, drained, closer, asked, late, conn, at>>

\* Serve, or Accept of the plain transport, ends with the control channel or the listener.
AdmissionEnds(g) ==
  /\ admission[g] = "open" /\ admission' = [admission EXCEPT ![g] = "ended"]
  /\ UNCHANGED <<retry, timeout, main, gen, stopped, resources, draining, sessions, drained, closer, asked, late, files, conn, at>>

\* BeginDrain, with drainedCh closed at once.
BeginDrainAtOnce(g) == draining' = [draining EXCEPT ![g] = TRUE] /\ drained' = [drained EXCEPT ![g] = TRUE]

\* BeginDrain of a handler.
BeginDrain(g) ==
  /\ draining' = [draining EXCEPT ![g] = TRUE]
  /\ drained' = [drained EXCEPT ![g] = @ \/ sessions[g] = {}]

\* serveWebSocketWebTTY, servePlainWebTTY and serveWebTransportWebTTYOnPacketConn: the
\* context stops the generation here, the end of admission hands it to the group.
ServeEnds ==
  /\ main = "serve" /\ (stopped \/ admission[gen] = "ended") /\ BeginDrain(gen)
  /\ IF stopped THEN main' = "stopping" /\ closer' = [closer EXCEPT ![gen] = "shutdown"]
     ELSE (\E retryable \in BOOLEAN : AfterError(retryable)) /\ closer' = [closer EXCEPT ![gen] = "wait"]
  /\ UNCHANGED <<retry, timeout, gen, stopped, admission, resources, sessions, asked, late, files, conn, at>>

\* The pause before another attempt.
Pause ==
  /\ main = "pause" /\ main' = IF stopped THEN "wait" ELSE "check"
  /\ UNCHANGED <<retry, timeout, gen, stopped, genVars, conn, at>>

\* stopWebTTYGeneration has returned: the loop returns nil.
Stopped ==
  /\ main = "stopping" /\ closer[gen] = "done" /\ main' = "wait"
  /\ UNCHANGED <<retry, timeout, gen, stopped, genVars, conn, at>>

\* cancel and generations.Wait at the end of the command.
Return ==
  /\ main = "wait" /\ stopped' = TRUE
  /\ main' = IF stopped /\ \A g \in Generations : closer[g] \in {"none", "done"} THEN "returned" ELSE main
  /\ UNCHANGED <<retry, timeout, gen, genVars, conn, at>>

\* The signal that stops the server.
Stop ==
  /\ ~stopped /\ stopped' = TRUE
  /\ UNCHANGED <<retry, timeout, main, gen, genVars, conn, at>>

----------------------------------------------------------------------------
(* The end of a generation: Drain and stopWebTTYGeneration. *)

\* Drain waits for the last session or for the server to stop.
DrainWaits(g) ==
  /\ closer[g] = "wait" /\ (drained[g] \/ stopped) /\ closer' = [closer EXCEPT ![g] = "shutdown"]
  /\ UNCHANGED <<retry, timeout, main, gen, stopped, admission, resources, draining, sessions, drained, asked, late, files, conn, at>>

\* Handler.Shutdown: drain, take the sessions there are and ask each to end.
HandlerShutdown(g) ==
  /\ closer[g] = "shutdown" /\ BeginDrain(g)
  /\ asked' = [asked EXCEPT ![g] = sessions[g]]
  /\ conn' = [c \in Conns |-> IF c \in sessions[g] /\ conn[c] = "running" THEN "ending" ELSE conn[c]]
  /\ closer' = [closer EXCEPT ![g] = IF sessions[g] = {} THEN "server" ELSE "await"]
  /\ UNCHANGED <<retry, timeout, main, gen, stopped, admission, resources, sessions, late, files, at>>

\* The shutdown deadline, where there is one.
Deadline(g) ==
  /\ closer[g] \in {"await", "server"} /\ timeout /\ ~late[g] /\ late' = [late EXCEPT ![g] = TRUE]
  /\ UNCHANGED <<retry, timeout, main, gen, stopped, admission, resources, draining, sessions, drained, closer, asked, files, conn, at>>

\* Shutdown returns when every session is gone, or with its context.
SessionsGone(g) ==
  /\ closer[g] = "await" /\ (sessions[g] = {} \/ late[g]) /\ closer' = [closer EXCEPT ![g] = "server"]
  /\ UNCHANGED <<retry, timeout, main, gen, stopped, admission, resources, draining, sessions, drained, asked, late, files, conn, at>>

Requests(g) == {c \in Conns : conn[c] = "request" /\ at[c] = g}

\* cleanup: the HTTP server stops, waiting for its requests as long as the context
\* allows, then it closes their connections; the listener; the tunnel and the client.
ServerCloses(g) ==
  /\ closer[g] = "server" /\ (Requests(g) = {} \/ late[g])
  /\ admission' = [admission EXCEPT ![g] = "closed"] /\ resources' = [resources EXCEPT ![g] = "released"]
  /\ files' = [files EXCEPT ![g] = IF @ = "open" THEN "closing" ELSE @]
  /\ closer' = [closer EXCEPT ![g] = "files"]
  /\ UNCHANGED <<retry, timeout, main, gen, stopped, draining, sessions, drained, asked, late, conn, at>>

\* closeWebTTYHTTPHandler: fileSystemHandler.Close waits for the requests inside and closes the directory.
FilesClose(g) ==
  /\ closer[g] = "files" /\ (files[g] = "closing" => Requests(g) = {})
  /\ files' = [files EXCEPT ![g] = IF @ = "closing" THEN "closed" ELSE @] /\ closer' = [closer EXCEPT ![g] = "done"]
  /\ UNCHANGED <<retry, timeout, main, gen, stopped, admission, resources, draining, sessions, drained, asked, late, conn, at>>

----------------------------------------------------------------------------
(* Connections: the handlers of the three transports and the filesystem. *)

\* A connection of a generation that accepts: ServeHTTP, ServeConn and
\* ServeWebTransportSession look at draining before they make a session.
Arrive(c) ==
  /\ conn[c] = "new"
  /\ \E g \in Generations :
       /\ admission[g] = "open" /\ at' = [at EXCEPT ![c] = g]
       /\ conn' = [conn EXCEPT ![c] = IF draining[g] THEN "refused" ELSE "admitted"]
  /\ UNCHANGED <<retry, timeout, main, gen, stopped, genVars>>

\* registerSession; a handler that drains by now closes the session instead.
Register(c) ==
  /\ conn[c] = "admitted"
  /\ LET g == at[c]
     IN  IF draining[g] THEN conn' = [conn EXCEPT ![c] = "refused"] /\ UNCHANGED sessions
         ELSE conn' = [conn EXCEPT ![c] = "running"] /\ sessions' = [sessions EXCEPT ![g] = @ \cup {c}]
  /\ UNCHANGED <<retry, timeout, main, gen, stopped, admission, resources, draining, drained, closer, asked, late, files, at>>

\* run returns: the session ended by itself, or because shutdown asked it to.
SessionEnds(c) ==
  /\ conn[c] \in {"running", "ending"} /\ conn' = [conn EXCEPT ![c] = "ended"]
  /\ UNCHANGED <<retry, timeout, main, gen, stopped, genVars, at>>

\* unregisterSession.
Unregister(c) ==
  /\ conn[c] = "ended" /\ c \in sessions[at[c]]
  /\ sessions' = [sessions EXCEPT ![at[c]] = @ \ {c}]
  /\ drained' = [drained EXCEPT ![at[c]] = @ \/ (draining[at[c]] /\ sessions[at[c]] = {c})]
  /\ UNCHANGED <<retry, timeout, main, gen, stopped, admission, resources, draining, closer, asked, late, files, conn, at>>

\* fileSystemHandler.ServeHTTP: refused once the handler closes.
Request(c) ==
  /\ conn[c] = "new"
  /\ \E g \in Generations :
       /\ admission[g] \in {"open", "ended"} /\ files[g] \in {"open", "closing", "closed"} /\ at' = [at EXCEPT ![c] = g]
       /\ conn' = [conn EXCEPT ![c] = IF files[g] = "open" THEN "request" ELSE "refused"]
  /\ UNCHANGED <<retry, timeout, main, gen, stopped, genVars>>

Answer(c) ==
  /\ conn[c] = "request" /\ conn' = [conn EXCEPT ![c] = "answered"]
  /\ UNCHANGED <<retry, timeout, main, gen, stopped, genVars, at>>

Next ==
  \/ Check \/ Connect \/ CreateTunnel \/ ServeEnds \/ Pause \/ Stopped \/ Return \/ Stop
  \/ \E g \in Generations :
       AdmissionEnds(g) \/ DrainWaits(g) \/ HandlerShutdown(g) \/ Deadline(g) \/ SessionsGone(g) \/ ServerCloses(g) \/ FilesClose(g)
  \/ \E c \in Conns : Arrive(c) \/ Register(c) \/ SessionEnds(c) \/ Unregister(c) \/ Request(c) \/ Answer(c)

Spec == Init /\ [][Next]_vars

\* The command and the goroutines that end generations run, but for CreateTunnel and for ServerCloses, which
\* close a control channel and need not return; a session asked to end does (WebTTYSession), a request of the
\* filesystem is answered, or fails with its connection.
Runs ==
  \/ Check \/ Connect \/ ServeEnds \/ Pause \/ Stopped \/ Return
  \/ \E g \in Generations : DrainWaits(g) \/ HandlerShutdown(g) \/ SessionsGone(g) \/ FilesClose(g) \/ Deadline(g)
  \/ \E c \in Conns : Register(c) \/ (conn[c] = "ending" /\ SessionEnds(c)) \/ Unregister(c) \/ Answer(c)

FairSpec == Spec /\ WF_vars(Runs)

----------------------------------------------------------------------------
(* Properties. *)

\* A session outlives the generation that admitted it: it is asked to end only when
\* the server stops, however often the server lost its tunnel and connected again.
EndsWithServer == \A c \in Conns : conn[c] = "ending" => stopped

\* drainedCh is closed only when no session is left, and none comes after it: no
\* connection that passed the first look at draining becomes a session later.
DrainedIsEmpty == \A g \in Generations : drained[g] => draining[g] /\ sessions[g] = {}

\* A generation's tunnel and client are released only after its sessions are gone or
\* its deadline has passed, and its directory is closed only when no request is inside.
ReleasedLast ==
  \A g \in Generations :
    /\ (resources[g] = "released" /\ closer[g] # "none") => sessions[g] = {} \/ late[g]
    /\ files[g] = "closed" => Requests(g) = {}

\* When the command has returned every generation is released, directories included, and a session still
\* there is one the deadline left behind. A control channel left open by a failed preparation is the last one.
ReturnsClean ==
  (\A g \in Generations : resources[g] = "abandoned" => g = gen /\ main \in {"wait", "returned"}) /\
  (main = "returned" =>
    \A g \in Generations :
      /\ resources[g] \in {"none", "released", "abandoned"} /\ files[g] \in {"none", "closed"}
      /\ admission[g] \in {"none", "closed"} /\ (sessions[g] = {} \/ late[g]))

\* At most one generation admits sessions.
OneAdmits == Cardinality({g \in Generations : admission[g] = "open" /\ ~draining[g]}) <= 1

ServerInv == EndsWithServer /\ DrainedIsEmpty /\ ReleasedLast /\ ReturnsClean /\ OneAdmits

\* The command is held up where it closes a control channel: a tunnel that could not be created, or a
\* generation whose sessions and requests are gone.
HeldUp ==
  \/ main = "connect" /\ resources[gen] = "control"
  \/ \E g \in Generations : closer[g] = "server" /\ (Requests(g) = {} \/ late[g])

\* Once stopped, the command returns, unless it is held up.
Settled == stopped => main = "returned" \/ HeldUp
----------------------------------------------------------------------------
(* Proofs. *)

\* Unless a step says otherwise, the first-order prover suffices.
USE Zenon

Closing == {"wait", "shutdown", "await", "server"}

\* A generation that no one ends is the one the loop connects or serves, or
\* it never came to serve.
BeforeEnd(g) ==
  closer[g] = "none" =>
    /\ g = gen /\ main = "serve" =>
         admission[g] \in {"open", "ended"} /\ resources[g] = "held" /\ files[g] \in {"none", "open"}
    /\ g = gen /\ main = "connect" =>
         /\ admission[g] = "none" /\ resources[g] \in {"none", "control"} /\ files[g] \in {"none", "open"}
         /\ resources[g] = "none" => files[g] = "none"
    /\ g # gen \/ main \notin {"connect", "serve"} =>
         admission[g] = "none" /\ resources[g] \in {"none", "released", "abandoned"} /\ files[g] \in {"none", "closed"}

\* One that is being ended holds its tunnel until cleanup, then its directory.
AtEnd(g) ==
  /\ closer[g] \in Closing =>
       resources[g] = "held" /\ admission[g] \in {"open", "ended"} /\ files[g] \in {"none", "open"}
  /\ closer[g] = "files" =>
       resources[g] = "released" /\ admission[g] = "closed" /\ files[g] \in {"none", "closing"}
  /\ closer[g] = "done" =>
       resources[g] = "released" /\ admission[g] = "closed" /\ files[g] \in {"none", "closed"}

GenOK(g) ==
  /\ g > gen => resources[g] = "none" /\ files[g] = "none" /\ closer[g] = "none"
  /\ resources[g] = "abandoned" => g = gen /\ main \in {"wait", "returned"}
  /\ BeforeEnd(g) /\ AtEnd(g)

\* A handler drains from the moment its generation is ended, gains no session
\* from then on, and has sessions to ask only because the server stops.
HandlerOK(g) ==
  /\ draining[g] <=> closer[g] # "none"
  /\ drained[g] => draining[g] /\ sessions[g] = {}
  /\ closer[g] = "shutdown" => stopped \/ sessions[g] = {}
  /\ closer[g] \in {"server", "files", "done"} => sessions[g] = {} \/ late[g]
  /\ sessions[g] # {} => admission[g] # "none"

\* Where a connection is tells of the generation it came to.
ConnOK(c) ==
  /\ conn[c] # "new" => at[c] \in Generations
  /\ conn[c] = "admitted" => admission[at[c]] # "none"
  /\ conn[c] = "request" => admission[at[c]] # "none" /\ files[at[c]] \in {"open", "closing"}
  /\ conn[c] = "ending" => stopped

GensInv == \A g \in Generations : GenOK(g) /\ HandlerOK(g)
ConnInv == \A c \in Conns : ConnOK(c)
MainInv ==
  /\ main \in {"connect", "serve"} => gen \in Generations /\ closer[gen] = "none"
  /\ main = "returned" => \A g \in Generations : closer[g] \in {"none", "done"}

ServerIInv == TypeOK /\ MainInv /\ GensInv /\ ConnInv

LEMMA ServerIInvInit == ASSUME MaxGenerations \in Nat PROVE Init => ServerIInv
<1> SUFFICES ASSUME Init PROVE ServerIInv
  OBVIOUS
<1>1. {retry, timeout, stopped} \subseteq BOOLEAN
  BY DEF Init
<1>2. draining \in [Generations -> BOOLEAN] /\ drained \in [Generations -> BOOLEAN] /\ late \in [Generations -> BOOLEAN]
  BY DEF Init
<1>3. TypeOK
  BY SMT, <1>1, <1>2 DEF Init, TypeOK
<1>4. MainInv /\ ConnInv
  BY DEF Init, MainInv, ConnInv, ConnOK
<1>5. ASSUME NEW g \in Generations PROVE GenOK(g) /\ HandlerOK(g)
  BY DEF Init, GenOK, BeforeEnd, AtEnd, Closing, HandlerOK
<1> QED BY <1>3, <1>4, <1>5 DEF ServerIInv, GensInv

----------------------------------------------------------------------------
(* A step changes one generation, or one connection. *)

GenSame(h) ==
  /\ admission'[h] = admission[h] /\ resources'[h] = resources[h] /\ closer'[h] = closer[h] /\ files'[h] = files[h]
  /\ draining'[h] = draining[h] /\ drained'[h] = drained[h] /\ sessions'[h] = sessions[h] /\ late'[h] = late[h]

LEMMA OneGeneration ==
  ASSUME GensInv, NEW g \in Generations, GenOK(g)' /\ HandlerOK(g)', \A h \in Generations \ {g} : GenSame(h),
         UNCHANGED gen, UNCHANGED main \/ g = gen, stopped => stopped'
  PROVE  GensInv'
<1> SUFFICES ASSUME NEW h \in Generations, h # g PROVE GenOK(h)' /\ HandlerOK(h)'
  BY DEF GensInv
<1>1. GenOK(h) /\ HandlerOK(h) /\ GenSame(h)
  BY DEF GensInv
<1>2. GenOK(h)'
  BY <1>1 DEF GenOK, BeforeEnd, AtEnd, GenSame
<1>3. HandlerOK(h)'
  BY <1>1 DEF HandlerOK, GenSame
<1> QED BY <1>2, <1>3

\* No connection moves, and none is left without what it came to.
LEMMA ConnsRest ==
  ASSUME ConnInv, UNCHANGED <<conn, at>>, stopped => stopped',
         \A h \in Generations : admission[h] # "none" => admission'[h] # "none",
         \A c \in Conns : conn[c] = "request" /\ files[at[c]] \in {"open", "closing"} => files'[at[c]] \in {"open", "closing"}
  PROVE  ConnInv'
<1> SUFFICES ASSUME NEW c \in Conns PROVE ConnOK(c)'
  BY DEF ConnInv
<1> QED BY DEF ConnInv, ConnOK

LEMMA OneConn ==
  ASSUME ConnInv, NEW c \in Conns, ConnOK(c)', UNCHANGED <<admission, files, stopped>>,
         \A d \in Conns \ {c} : conn'[d] = conn[d] /\ at'[d] = at[d]
  PROVE  ConnInv'
<1> SUFFICES ASSUME NEW d \in Conns, d # c PROVE ConnOK(d)'
  BY DEF ConnInv
<1> QED BY DEF ConnInv, ConnOK

\* Nothing of the generations and the connections changes.
LEMMA GensRest ==
  ASSUME GensInv, ConnInv, UNCHANGED <<genVars, conn, at>>, stopped => stopped', UNCHANGED gen,
         main' \in {"connect", "serve"} => UNCHANGED main,
         main \in {"connect", "serve"} => UNCHANGED main \/ resources[gen] = "none",
         main \in {"wait", "returned"} => main' \in {"wait", "returned"}
  PROVE  GensInv' /\ ConnInv'
<1>1. UNCHANGED <<admission, resources, draining, sessions, drained, closer, late, files>>
  BY DEF genVars
<1>2. ConnInv'
  BY <1>1, ConnsRest
<1>3. ASSUME NEW g \in Generations PROVE GenOK(g)' /\ HandlerOK(g)'
  <2>1. GenOK(g) /\ HandlerOK(g)
    BY DEF GensInv
  <2>2. HandlerOK(g)'
    BY <1>1, <2>1 DEF HandlerOK
  <2>3. GenOK(g)'
    BY <1>1, <2>1 DEF GenOK, BeforeEnd, AtEnd
  <2> QED BY <2>2, <2>3
<1> QED BY <1>2, <1>3 DEF GensInv

----------------------------------------------------------------------------
(* The loop of the command. *)

\* Check, Pause, Stopped, Return, Stop: only main, gen and stopped change.
LEMMA LoopKeeps ==
  ASSUME MaxGenerations \in Nat, ServerIInv, Check \/ Pause \/ Stopped \/ Return \/ Stop
  PROVE  ServerIInv'
<1> USE DEF ServerIInv
<1>1. UNCHANGED <<genVars, conn, at, retry, timeout>>
  BY DEF Check, Pause, Stopped, Return, Stop
<1>2. UNCHANGED <<admission, resources, draining, sessions, drained, closer, asked, late, files>>
  BY <1>1 DEF genVars
<1>3. stopped' \in BOOLEAN /\ (stopped => stopped')
  <2>1. stopped \in BOOLEAN
    BY DEF TypeOK
  <2>2. UNCHANGED stopped \/ stopped' = TRUE
    BY DEF Check, Pause, Stopped, Return, Stop
  <2> QED BY <2>1, <2>2
<1>4. CASE main = "check" /\ main' = "connect" /\ gen < MaxGenerations /\ gen' = gen + 1
  <2>1. gen \in 0..MaxGenerations
    BY DEF TypeOK
  <2>2. gen' \in Generations /\ gen' > gen /\ gen' \in 0..MaxGenerations
    BY SMT, <1>4, <2>1 DEF Generations
  <2>3. TypeOK'
    BY <1>1, <1>2, <1>3, <1>4, <2>2 DEF TypeOK
  <2>4. MainInv'
    BY <1>2, <1>4, <2>2 DEF MainInv, GensInv, GenOK
  <2>5. ASSUME NEW g \in Generations PROVE GenOK(g)' /\ HandlerOK(g)'
    <3>1. GenOK(g) /\ HandlerOK(g) /\ g \in Nat
      BY SMT DEF GensInv, Generations
    <3>2. HandlerOK(g)'
      BY <1>2, <1>3, <3>1 DEF HandlerOK
    <3>3. GenOK(g)'
      BY SMT, <1>2, <1>4, <2>1, <3>1 DEF GenOK, BeforeEnd, AtEnd
    <3> QED BY <3>2, <3>3
  <2>6. ConnInv'
    BY <1>1, <1>2, <1>3, ConnsRest
  <2> QED BY <2>3, <2>4, <2>5, <2>6 DEF GensInv
<1>5. CASE /\ UNCHANGED gen /\ main' \in {"check", "connect", "serve", "stopping", "pause", "wait", "returned"}
           /\ main' \in {"connect", "serve"} => UNCHANGED main
           /\ main \in {"connect", "serve"} => UNCHANGED main
           /\ main \in {"wait", "returned"} => main' \in {"wait", "returned"}
           /\ main' = "returned" => main = "returned" \/ \A g \in Generations : closer[g] \in {"none", "done"}
  <2>1. TypeOK'
    BY <1>1, <1>2, <1>3, <1>5 DEF TypeOK
  <2>2. MainInv'
    BY <1>2, <1>5 DEF MainInv
  <2>3. GensInv' /\ ConnInv'
    BY <1>1, <1>3, <1>5, GensRest
  <2> QED BY <2>1, <2>2, <2>3
<1>6. CASE Check
  BY <1>4, <1>5, <1>6 DEF Check, TypeOK
<1>7. CASE Pause \/ Stopped \/ Stop
  BY <1>5, <1>7 DEF Pause, Stopped, Stop, TypeOK
<1>8. CASE Return
  BY <1>5, <1>8 DEF Return, TypeOK
<1> QED BY <1>6, <1>7, <1>8

LEMMA ConnectKeeps ==
  ASSUME MaxGenerations \in Nat, ServerIInv, Connect
  PROVE  ServerIInv'
<1> USE DEF ServerIInv
<1>1. PICK g \in Generations : g = gen /\ main = "connect" /\ closer[g] = "none" /\ resources[g] = "none" /\ GenOK(g) /\ HandlerOK(g)
  BY DEF Connect, MainInv, GensInv
<1>2. UNCHANGED <<retry, timeout, gen, stopped, admission, draining, sessions, drained, closer, asked, late, conn, at>>
  BY DEF Connect
<1>3. CASE UNCHANGED main
  <2>1. PICK f \in {"none", "open"} :
          resources' = [resources EXCEPT ![g] = "control"] /\ files' = [files EXCEPT ![g] = f]
    BY <1>1, <1>3 DEF Connect, AfterError
  <2>2. TypeOK'
    BY <1>2, <1>3, <2>1 DEF TypeOK
  <2>3. MainInv'
    BY <1>2, <1>3 DEF MainInv
  <2>4. resources'[g] = "control" /\ files'[g] = f
    BY <1>1, <2>1 DEF TypeOK
  <2>5. \A h \in Generations \ {g} : resources'[h] = resources[h] /\ files'[h] = files[h]
    BY <2>1 DEF TypeOK
  <2>6. GenOK(g)'
    BY SMT, <1>1, <1>2, <1>3, <2>4 DEF GenOK, BeforeEnd, AtEnd, Closing, Generations
  <2>7. HandlerOK(g)'
    BY <1>1, <1>2 DEF HandlerOK
  <2>8. GensInv'
    BY <1>1, <1>2, <1>3, <2>5, <2>6, <2>7, OneGeneration DEF GenSame
  <2>9. files[g] = "none"
    BY <1>1 DEF GenOK, BeforeEnd
  <2>10. ConnInv'
    BY <1>2, <2>5, <2>9, ConnsRest DEF ConnInv, ConnOK
  <2> QED BY <2>2, <2>3, <2>8, <2>10
<1>4. CASE main' # main
  <2>1. main' \in {"pause", "wait"} /\ UNCHANGED <<resources, files>>
    BY <1>4 DEF Connect, AfterError
  <2>2. TypeOK'
    BY <1>2, <2>1 DEF TypeOK
  <2>3. MainInv'
    BY <2>1 DEF MainInv
  <2>4. GensInv' /\ ConnInv'
    BY <1>1, <1>2, <2>1, GensRest DEF genVars
  <2> QED BY <2>2, <2>3, <2>4
<1> QED BY <1>3, <1>4

LEMMA CreateTunnelKeeps ==
  ASSUME MaxGenerations \in Nat, ServerIInv, CreateTunnel
  PROVE  ServerIInv'
<1> USE DEF ServerIInv
<1>1. PICK g \in Generations : g = gen /\ main = "connect" /\ closer[g] = "none" /\ resources[g] = "control" /\ GenOK(g) /\ HandlerOK(g)
  BY DEF CreateTunnel, MainInv, GensInv
<1>2. UNCHANGED <<retry, timeout, gen, stopped, draining, sessions, drained, closer, asked, late, conn, at>>
  BY DEF CreateTunnel
<1>3. admission[g] = "none" /\ files[g] \in {"none", "open"}
  BY <1>1 DEF GenOK, BeforeEnd
<1>4. PICK a \in {"none", "open"}, r \in {"held", "released", "abandoned"}, f \in {"none", "open", "closed"} :
        /\ admission' = [admission EXCEPT ![g] = a] /\ resources' = [resources EXCEPT ![g] = r]
        /\ files' = [files EXCEPT ![g] = f]
        /\ main' = "serve" => a = "open" /\ r = "held" /\ f = files[g]
        /\ main' # "serve" => a = "none" /\ r # "held" /\ f # "open" /\ main' \in {"pause", "wait"}
        /\ r = "abandoned" => main' = "wait"
  <2>1. admission = [admission EXCEPT ![g] = "none"] /\ files = [files EXCEPT ![g] = files[g]]
    BY <1>3 DEF TypeOK
  <2>2. CASE main' = "serve"
    <3>1. admission' = [admission EXCEPT ![g] = "open"] /\ resources' = [resources EXCEPT ![g] = "held"] /\ files' = files
      BY <1>1, <2>2 DEF CreateTunnel, AfterError
    <3> QED BY <1>3, <2>1, <2>2, <3>1
  <2>3. CASE main' # "serve"
    <3>1. UNCHANGED admission /\ files' = [files EXCEPT ![g] = IF files[g] = "open" THEN "closed" ELSE "none"]
      BY <1>1, <2>3 DEF CreateTunnel
    <3>2. /\ main' \in {"pause", "wait"}
          /\ \/ resources' = [resources EXCEPT ![g] = "released"]
             \/ resources' = [resources EXCEPT ![g] = "abandoned"] /\ main' = "wait"
      BY <1>1, <2>3 DEF CreateTunnel, AfterError
    <3> QED BY <2>1, <2>3, <3>1, <3>2
  <2> QED BY <2>2, <2>3
<1>5. main' \in {"serve", "pause", "wait"}
  BY <1>4
<1>6. admission'[g] = a /\ resources'[g] = r /\ files'[g] = f
  BY <1>1, <1>4 DEF TypeOK
<1>7. \A h \in Generations \ {g} : admission'[h] = admission[h] /\ resources'[h] = resources[h] /\ files'[h] = files[h]
  BY <1>4 DEF TypeOK
<1>8. TypeOK'
  <2>1. admission' \in [Generations -> {"none", "open", "ended", "closed"}]
    BY <1>4 DEF TypeOK
  <2>2. resources' \in [Generations -> {"none", "control", "held", "released", "abandoned"}]
    BY <1>4 DEF TypeOK
  <2>3. files' \in [Generations -> {"none", "open", "closing", "closed"}]
    BY <1>4 DEF TypeOK
  <2> QED BY <1>2, <1>5, <2>1, <2>2, <2>3 DEF TypeOK
<1>9. MainInv'
  BY <1>1, <1>2, <1>5 DEF MainInv
<1>10. GenOK(g)'
  BY <1>1, <1>2, <1>3, <1>4, <1>5, <1>6 DEF GenOK, BeforeEnd, AtEnd, Closing, Generations
<1>11. HandlerOK(g)'
  BY <1>1, <1>2, <1>3, <1>6 DEF HandlerOK
<1>12. GensInv'
  BY <1>1, <1>2, <1>7, <1>10, <1>11, OneGeneration DEF GenSame
<1>13. \A c \in Conns : conn[c] = "request" => at[c] \in Generations \ {g}
  BY <1>3 DEF ConnInv, ConnOK
<1>14. ConnInv'
  BY <1>2, <1>3, <1>7, <1>13, ConnsRest
<1> QED BY <1>8, <1>9, <1>12, <1>14

LEMMA ServeEndsKeeps ==
  ASSUME MaxGenerations \in Nat, ServerIInv, ServeEnds
  PROVE  ServerIInv'
<1> USE DEF ServerIInv
<1>1. PICK g \in Generations : g = gen /\ main = "serve" /\ closer[g] = "none" /\ GenOK(g) /\ HandlerOK(g)
  BY DEF ServeEnds, MainInv, GensInv
<1>2. UNCHANGED <<retry, timeout, gen, stopped, admission, resources, sessions, asked, late, files, conn, at>>
  BY DEF ServeEnds
<1>3. PICK x \in {"shutdown", "wait"} : closer' = [closer EXCEPT ![g] = x] /\ (x = "shutdown" => stopped)
  BY <1>1 DEF ServeEnds
<1>4. main' \in {"stopping", "pause", "wait"}
  BY DEF ServeEnds, AfterError
<1>5. draining' = [draining EXCEPT ![g] = TRUE] /\ drained' = [drained EXCEPT ![g] = @ \/ sessions[g] = {}]
  BY <1>1 DEF ServeEnds, BeginDrain
<1>6. TypeOK'
  <2>1. draining' \in [Generations -> BOOLEAN] /\ drained' \in [Generations -> BOOLEAN]
    BY <1>5 DEF TypeOK
  <2>2. closer' \in [Generations -> {"none", "wait", "shutdown", "await", "server", "files", "done"}]
    BY <1>3 DEF TypeOK
  <2> QED BY <1>2, <1>4, <2>1, <2>2 DEF TypeOK
<1>7. closer'[g] = x /\ draining'[g] /\ (drained'[g] => drained[g] \/ sessions[g] = {})
  BY <1>1, <1>3, <1>5 DEF TypeOK
<1>8. \A h \in Generations \ {g} : closer'[h] = closer[h] /\ draining'[h] = draining[h] /\ drained'[h] = drained[h]
  BY <1>3, <1>5 DEF TypeOK
<1>9. MainInv'
  BY <1>4 DEF MainInv
<1>10. GenOK(g)'
  BY <1>1, <1>2, <1>7 DEF GenOK, BeforeEnd, AtEnd, Closing, Generations
<1>11. HandlerOK(g)'
  BY <1>1, <1>2, <1>3, <1>7 DEF HandlerOK
<1>12. GensInv'
  BY <1>1, <1>2, <1>8, <1>10, <1>11, OneGeneration DEF GenSame
<1>13. ConnInv'
  BY <1>2, ConnsRest
<1> QED BY <1>6, <1>9, <1>12, <1>13

----------------------------------------------------------------------------
(* The end of a generation. *)

LEMMA EndKeeps ==
  ASSUME MaxGenerations \in Nat, ServerIInv, NEW g \in Generations,
         AdmissionEnds(g) \/ DrainWaits(g) \/ HandlerShutdown(g) \/ Deadline(g) \/ SessionsGone(g) \/ ServerCloses(g) \/ FilesClose(g)
  PROVE  ServerIInv'
<1> USE DEF ServerIInv
<1>1. GenOK(g) /\ HandlerOK(g)
  BY DEF GensInv
<1>2. UNCHANGED <<retry, timeout, main, gen, stopped, sessions, at>>
  BY DEF AdmissionEnds, DrainWaits, HandlerShutdown, Deadline, SessionsGone, ServerCloses, FilesClose
<1>3. \/ UNCHANGED closer
      \/ /\ closer[g] # "none" /\ closer[g] # "done"
         /\ \E x \in {"shutdown", "await", "server", "files", "done"} : closer' = [closer EXCEPT ![g] = x]
  <2>1. CASE AdmissionEnds(g) \/ Deadline(g)
    BY <2>1 DEF AdmissionEnds, Deadline
  <2>2. CASE DrainWaits(g)
    BY <2>2 DEF DrainWaits
  <2>3. CASE HandlerShutdown(g)
    BY <2>3 DEF HandlerShutdown
  <2>4. CASE SessionsGone(g)
    BY <2>4 DEF SessionsGone
  <2>5. CASE ServerCloses(g)
    BY <2>5 DEF ServerCloses
  <2>6. CASE FilesClose(g)
    BY <2>6 DEF FilesClose
  <2> QED BY <2>1, <2>2, <2>3, <2>4, <2>5, <2>6
<1>4. closer' \in [Generations -> {"none", "wait", "shutdown", "await", "server", "files", "done"}]
  BY <1>3 DEF TypeOK
<1>5. MainInv'
  <2>1. main = "returned" => UNCHANGED closer
    BY <1>3 DEF MainInv
  <2>2. main \in {"connect", "serve"} => gen # g \/ UNCHANGED closer
    BY <1>3 DEF MainInv
  <2>3. \A h \in Generations \ {g} : closer'[h] = closer[h]
    BY <1>3 DEF TypeOK
  <2> QED BY <1>2, <2>1, <2>2, <2>3 DEF MainInv
<1>6. ASSUME GenOK(g)' /\ HandlerOK(g)', \A h \in Generations \ {g} : GenSame(h)
      PROVE  GensInv'
  BY <1>2, <1>6, OneGeneration
<1>7. CASE AdmissionEnds(g)
  <2>0. UNCHANGED <<resources, draining, drained, closer, asked, late, files, conn>> /\ admission[g] = "open"
    BY <1>7 DEF AdmissionEnds
  <2>1. /\ UNCHANGED <<resources, draining, drained, closer, asked, late, files, conn>> /\ admission[g] = "open"
        /\ admission' = [admission EXCEPT ![g] = "ended"]
    BY <1>7 DEF AdmissionEnds
  <2>2. TypeOK'
    BY <1>2, <2>1 DEF TypeOK
  <2>3. admission'[g] = "ended" /\ \A h \in Generations \ {g} : admission'[h] = admission[h]
    BY <2>1 DEF TypeOK
  <2>4. GenOK(g)'
    BY <1>1, <1>2, <2>0, <2>3 DEF GenOK, BeforeEnd, AtEnd
  <2>5. HandlerOK(g)'
    BY <1>1, <1>2, <2>0, <2>3 DEF HandlerOK
  <2>6. GensInv'
    BY <1>2, <1>6, <2>0, <2>3, <2>4, <2>5 DEF GenSame
  <2>7. ConnInv'
    BY <1>2, <2>1, <2>3, ConnsRest
  <2> QED BY <1>5, <2>2, <2>6, <2>7
<1>8. CASE DrainWaits(g)
  <2>0. UNCHANGED <<admission, resources, draining, drained, asked, late, files, conn>> /\ closer[g] = "wait" /\ (drained[g] \/ stopped)
    BY <1>8 DEF DrainWaits
  <2>1. /\ UNCHANGED <<admission, resources, draining, drained, asked, late, files, conn>> /\ closer[g] = "wait"
        /\ drained[g] \/ stopped
        /\ closer' = [closer EXCEPT ![g] = "shutdown"]
    BY <1>8 DEF DrainWaits
  <2>2. TypeOK'
    BY <1>2, <1>4, <2>1 DEF TypeOK
  <2>3. closer'[g] = "shutdown" /\ \A h \in Generations \ {g} : closer'[h] = closer[h]
    BY <2>1 DEF TypeOK
  <2>4. GenOK(g)'
    BY <1>1, <1>2, <2>0, <2>3 DEF GenOK, BeforeEnd, AtEnd, Closing
  <2>5. HandlerOK(g)'
    BY <1>1, <1>2, <2>0, <2>3 DEF HandlerOK
  <2>6. GensInv'
    BY <1>2, <1>6, <2>0, <2>3, <2>4, <2>5 DEF GenSame
  <2>7. ConnInv'
    BY <1>2, <2>1, ConnsRest
  <2> QED BY <1>5, <2>2, <2>6, <2>7
<1>9. CASE HandlerShutdown(g)
  <2>0. UNCHANGED <<admission, resources, late, files>> /\ closer[g] = "shutdown"
    BY <1>9 DEF HandlerShutdown
  <2>1. /\ UNCHANGED <<admission, resources, late, files>> /\ closer[g] = "shutdown"
        /\ draining' = [draining EXCEPT ![g] = TRUE] /\ drained' = [drained EXCEPT ![g] = @ \/ sessions[g] = {}]
        /\ asked' = [asked EXCEPT ![g] = sessions[g]]
        /\ closer' = [closer EXCEPT ![g] = IF sessions[g] = {} THEN "server" ELSE "await"]
        /\ conn' = [c \in Conns |-> IF c \in sessions[g] /\ conn[c] = "running" THEN "ending" ELSE conn[c]]
    BY <1>9 DEF HandlerShutdown, BeginDrain
  <2>2. draining' \in [Generations -> BOOLEAN] /\ drained' \in [Generations -> BOOLEAN]
    BY <2>1 DEF TypeOK
  <2>3. asked' \in [Generations -> SUBSET Conns]
    BY <2>1 DEF TypeOK
  <2>4. conn' \in [Conns -> {"new", "admitted", "refused", "running", "ending", "ended", "request", "answered"}]
    BY <2>1 DEF TypeOK
  <2>5. TypeOK'
    BY <1>2, <1>4, <2>1, <2>2, <2>3, <2>4 DEF TypeOK
  <2>6. /\ closer'[g] = (IF sessions[g] = {} THEN "server" ELSE "await")
        /\ draining'[g] /\ (drained'[g] => drained[g] \/ sessions[g] = {})
    BY <2>1 DEF TypeOK
  <2>7. \A h \in Generations \ {g} : closer'[h] = closer[h] /\ draining'[h] = draining[h] /\ drained'[h] = drained[h]
    BY <2>1 DEF TypeOK
  <2>8. GenOK(g)'
    BY <1>1, <1>2, <2>0, <2>6 DEF GenOK, BeforeEnd, AtEnd, Closing
  <2>9. HandlerOK(g)'
    <3>1. drained[g] => sessions[g] = {}
      BY <1>1 DEF HandlerOK
    <3>2. CASE sessions[g] = {}
      <4>1. closer'[g] = "server" /\ draining'[g] /\ sessions'[g] = {}
        BY <1>2, <2>6, <3>2
      <4> QED BY <4>1 DEF HandlerOK
    <3>3. CASE sessions[g] # {}
      <4>1. closer'[g] = "await" /\ draining'[g] /\ ~drained'[g] /\ admission'[g] # "none"
        BY <1>1, <2>0, <2>6, <3>1, <3>3 DEF HandlerOK
      <4> QED BY <1>2, <4>1 DEF HandlerOK
    <3> QED BY <3>2, <3>3
  <2>10. GensInv'
    BY <1>2, <1>6, <2>0, <2>7, <2>8, <2>9 DEF GenSame
  <2>11. ASSUME NEW c \in Conns PROVE ConnOK(c)'
    <3>1. ConnOK(c) /\ (sessions[g] # {} => stopped)
      BY <1>1, <2>1 DEF ConnInv, HandlerOK
    <3>2. conn'[c] = conn[c] \/ (conn[c] = "running" /\ conn'[c] = "ending" /\ sessions[g] # {})
      BY <2>1
    <3> QED BY <1>2, <2>1, <3>1, <3>2 DEF ConnOK
  <2> QED BY <1>5, <2>5, <2>10, <2>11 DEF ConnInv
<1>10. CASE Deadline(g)
  <2>0. UNCHANGED <<admission, resources, draining, drained, closer, asked, files, conn>>
    BY <1>10 DEF Deadline
  <2>1. UNCHANGED <<admission, resources, draining, drained, closer, asked, files, conn>> /\ late' = [late EXCEPT ![g] = TRUE]
    BY <1>10 DEF Deadline
  <2>2. late' \in [Generations -> BOOLEAN]
    BY <2>1 DEF TypeOK
  <2>3. TypeOK'
    BY <1>2, <2>1, <2>2 DEF TypeOK
  <2>4. late'[g] /\ \A h \in Generations \ {g} : late'[h] = late[h]
    BY <2>1 DEF TypeOK
  <2>5. GenOK(g)'
    BY <1>1, <1>2, <2>1 DEF GenOK, BeforeEnd, AtEnd
  <2>6. HandlerOK(g)'
    BY <1>1, <1>2, <2>0, <2>4 DEF HandlerOK
  <2>7. GensInv'
    BY <1>2, <1>6, <2>0, <2>4, <2>5, <2>6 DEF GenSame
  <2>8. ConnInv'
    BY <1>2, <2>1, ConnsRest
  <2> QED BY <1>5, <2>3, <2>7, <2>8
<1>11. CASE SessionsGone(g)
  <2>0. UNCHANGED <<admission, resources, draining, drained, asked, late, files, conn>> /\ closer[g] = "await" /\ (sessions[g] = {} \/ late[g])
    BY <1>11 DEF SessionsGone
  <2>1. /\ UNCHANGED <<admission, resources, draining, drained, asked, late, files, conn>> /\ closer[g] = "await"
        /\ sessions[g] = {} \/ late[g]
        /\ closer' = [closer EXCEPT ![g] = "server"]
    BY <1>11 DEF SessionsGone
  <2>2. TypeOK'
    BY <1>2, <1>4, <2>1 DEF TypeOK
  <2>3. closer'[g] = "server" /\ \A h \in Generations \ {g} : closer'[h] = closer[h]
    BY <2>1 DEF TypeOK
  <2>4. GenOK(g)'
    BY <1>1, <1>2, <2>0, <2>3 DEF GenOK, BeforeEnd, AtEnd, Closing
  <2>5. HandlerOK(g)'
    BY <1>1, <1>2, <2>0, <2>3 DEF HandlerOK
  <2>6. GensInv'
    BY <1>2, <1>6, <2>0, <2>3, <2>4, <2>5 DEF GenSame
  <2>7. ConnInv'
    BY <1>2, <2>1, ConnsRest
  <2> QED BY <1>5, <2>2, <2>6, <2>7
<1>12. CASE ServerCloses(g)
  <2>0. UNCHANGED <<draining, drained, asked, late, conn>> /\ closer[g] = "server"
    BY <1>12 DEF ServerCloses
  <2>1. /\ UNCHANGED <<draining, drained, asked, late, conn>> /\ closer[g] = "server"
        /\ admission' = [admission EXCEPT ![g] = "closed"] /\ resources' = [resources EXCEPT ![g] = "released"]
        /\ files' = [files EXCEPT ![g] = IF @ = "open" THEN "closing" ELSE @] /\ closer' = [closer EXCEPT ![g] = "files"]
    BY <1>12 DEF ServerCloses
  <2>2. admission' \in [Generations -> {"none", "open", "ended", "closed"}]
    BY <2>1 DEF TypeOK
  <2>3. resources' \in [Generations -> {"none", "control", "held", "released", "abandoned"}]
    BY <2>1 DEF TypeOK
  <2>4. files' \in [Generations -> {"none", "open", "closing", "closed"}]
    BY <2>1 DEF TypeOK
  <2>5. TypeOK'
    BY <1>2, <1>4, <2>1, <2>2, <2>3, <2>4 DEF TypeOK
  <2>6. /\ admission'[g] = "closed" /\ resources'[g] = "released" /\ closer'[g] = "files"
        /\ files'[g] = IF files[g] = "open" THEN "closing" ELSE files[g]
    BY <2>1 DEF TypeOK
  <2>7. \A h \in Generations \ {g} : /\ admission'[h] = admission[h] /\ resources'[h] = resources[h]
                                      /\ closer'[h] = closer[h] /\ files'[h] = files[h]
    BY <2>1 DEF TypeOK
  <2>8. GenOK(g)'
    BY <1>1, <1>2, <2>0, <2>6 DEF GenOK, BeforeEnd, AtEnd, Closing
  <2>9. HandlerOK(g)'
    BY <1>1, <1>2, <2>0, <2>6 DEF HandlerOK
  <2>10. GensInv'
    BY <1>2, <1>6, <2>0, <2>7, <2>8, <2>9 DEF GenSame
  <2>11. \A c \in Conns : conn[c] = "request" /\ files[at[c]] \in {"open", "closing"} => files'[at[c]] \in {"open", "closing"}
    BY <2>6, <2>7 DEF ConnInv, ConnOK
  <2>12. ConnInv'
    BY <1>2, <2>1, <2>6, <2>7, <2>11, ConnsRest
  <2> QED BY <1>5, <2>5, <2>10, <2>12
<1>13. CASE FilesClose(g)
  <2>0. UNCHANGED <<admission, resources, draining, drained, asked, late, conn>> /\ closer[g] = "files"
    BY <1>13 DEF FilesClose
  <2>1. /\ UNCHANGED <<admission, resources, draining, drained, asked, late, conn>> /\ closer[g] = "files"
        /\ files[g] = "closing" => Requests(g) = {}
        /\ files' = [files EXCEPT ![g] = IF @ = "closing" THEN "closed" ELSE @] /\ closer' = [closer EXCEPT ![g] = "done"]
    BY <1>13 DEF FilesClose
  <2>2. files' \in [Generations -> {"none", "open", "closing", "closed"}]
    BY <2>1 DEF TypeOK
  <2>3. TypeOK'
    BY <1>2, <1>4, <2>1, <2>2 DEF TypeOK
  <2>4. closer'[g] = "done" /\ files'[g] = IF files[g] = "closing" THEN "closed" ELSE files[g]
    BY <2>1 DEF TypeOK
  <2>5. \A h \in Generations \ {g} : closer'[h] = closer[h] /\ files'[h] = files[h]
    BY <2>1 DEF TypeOK
  <2>6. GenOK(g)'
    BY <1>1, <1>2, <2>0, <2>4 DEF GenOK, BeforeEnd, AtEnd, Closing
  <2>7. HandlerOK(g)'
    BY <1>1, <1>2, <2>0, <2>4 DEF HandlerOK
  <2>8. GensInv'
    BY <1>2, <1>6, <2>0, <2>5, <2>6, <2>7 DEF GenSame
  <2>9. \A c \in Conns : conn[c] = "request" /\ files[at[c]] \in {"open", "closing"} => files'[at[c]] \in {"open", "closing"}
    BY <2>1, <2>4, <2>5 DEF ConnInv, ConnOK, Requests
  <2>10. ConnInv'
    BY <1>2, <2>1, <2>9, ConnsRest
  <2> QED BY <1>5, <2>3, <2>8, <2>10
<1> QED BY <1>7, <1>8, <1>9, <1>10, <1>11, <1>12, <1>13

----------------------------------------------------------------------------
\* A connection.
LEMMA ConnKeeps ==
  ASSUME MaxGenerations \in Nat, ServerIInv, NEW c \in Conns,
         Arrive(c) \/ Register(c) \/ SessionEnds(c) \/ Unregister(c) \/ Request(c) \/ Answer(c)
  PROVE  ServerIInv'
<1> USE DEF ServerIInv
<1>1. /\ UNCHANGED <<retry, timeout, main, gen, stopped, admission, resources, draining, closer, asked, late, files>>
      /\ \A d \in Conns \ {c} : conn'[d] = conn[d] /\ at'[d] = at[d]
  <2>1. UNCHANGED <<retry, timeout, main, gen, stopped, admission, resources, draining, closer, asked, late, files>>
    BY DEF Arrive, Register, SessionEnds, Unregister, Request, Answer, genVars
  <2>2. \/ UNCHANGED conn
        \/ \E x \in {"refused", "admitted", "running", "ended", "request", "answered"} : conn' = [conn EXCEPT ![c] = x]
    BY DEF Arrive, Register, SessionEnds, Unregister, Request, Answer
  <2>3. UNCHANGED at \/ \E g \in Generations : at' = [at EXCEPT ![c] = g]
    BY DEF Arrive, Register, SessionEnds, Unregister, Request, Answer
  <2> QED BY <2>1, <2>2, <2>3 DEF TypeOK
<1>2. MainInv'
  BY <1>1 DEF MainInv
<1>3. ASSUME UNCHANGED <<sessions, drained>>, ConnOK(c)',
             conn' \in [Conns -> {"new", "admitted", "refused", "running", "ending", "ended", "request", "answered"}],
             at' \in [Conns -> 0..MaxGenerations]
      PROVE  ServerIInv'
  <2>1. TypeOK'
    BY <1>1, <1>3 DEF TypeOK
  <2>2. ASSUME NEW g \in Generations PROVE GenOK(g)' /\ HandlerOK(g)'
    <3>1. GenOK(g) /\ HandlerOK(g)
      BY DEF GensInv
    <3>2. GenOK(g)'
      BY <1>1, <3>1 DEF GenOK, BeforeEnd, AtEnd
    <3>3. HandlerOK(g)'
      BY <1>1, <1>3, <3>1 DEF HandlerOK
    <3> QED BY <3>2, <3>3
  <2>3. ConnInv'
    BY <1>1, <1>3, OneConn
  <2> QED BY <1>2, <2>1, <2>2, <2>3 DEF GensInv
<1>4. CASE Arrive(c)
  <2>1. PICK g \in Generations, x \in {"refused", "admitted"} :
          admission[g] = "open" /\ at' = [at EXCEPT ![c] = g] /\ conn' = [conn EXCEPT ![c] = x]
    BY <1>4 DEF Arrive
  <2>2. UNCHANGED <<sessions, drained>>
    BY <1>4, Zenon DEF Arrive, genVars
  <2>3. at'[c] = g /\ conn'[c] = x
    BY <2>1 DEF TypeOK
  <2>4. ConnOK(c)'
    BY <1>1, <2>1, <2>3 DEF ConnOK
  <2>5. at' \in [Conns -> 0..MaxGenerations]
    BY SMT, <2>1 DEF TypeOK, Generations
  <2>6. conn' \in [Conns -> {"new", "admitted", "refused", "running", "ending", "ended", "request", "answered"}]
    BY <2>1 DEF TypeOK
  <2> QED BY <1>3, <2>2, <2>4, <2>5, <2>6
<1>5. CASE Request(c)
  <2>1. PICK g \in Generations, x \in {"refused", "request"} :
          /\ admission[g] \in {"open", "ended"} /\ at' = [at EXCEPT ![c] = g] /\ conn' = [conn EXCEPT ![c] = x]
          /\ x = "request" => files[g] = "open"
    BY <1>5 DEF Request
  <2>2. UNCHANGED <<sessions, drained>>
    BY <1>5, Zenon DEF Request, genVars
  <2>3. at'[c] = g /\ conn'[c] = x
    BY <2>1 DEF TypeOK
  <2>4. ConnOK(c)'
    BY <1>1, <2>1, <2>3 DEF ConnOK
  <2>5. at' \in [Conns -> 0..MaxGenerations]
    BY SMT, <2>1 DEF TypeOK, Generations
  <2>6. conn' \in [Conns -> {"new", "admitted", "refused", "running", "ending", "ended", "request", "answered"}]
    BY <2>1 DEF TypeOK
  <2> QED BY <1>3, <2>2, <2>4, <2>5, <2>6
<1>6. CASE SessionEnds(c) \/ Answer(c)
  <2>1. PICK x \in {"ended", "answered"} : conn' = [conn EXCEPT ![c] = x]
    BY <1>6 DEF SessionEnds, Answer
  <2>2. conn[c] # "new" /\ UNCHANGED <<sessions, drained, at>>
    BY <1>6 DEF SessionEnds, Answer, genVars
  <2>3. conn'[c] = x /\ at[c] \in Generations
    BY <2>1, <2>2 DEF TypeOK, ConnInv, ConnOK
  <2>4. ConnOK(c)'
    BY <2>2, <2>3 DEF ConnOK
  <2>5. conn' \in [Conns -> {"new", "admitted", "refused", "running", "ending", "ended", "request", "answered"}]
    BY <2>1 DEF TypeOK
  <2>6. at' \in [Conns -> 0..MaxGenerations]
    BY <2>2 DEF TypeOK
  <2> QED BY <1>3, <2>2, <2>4, <2>5, <2>6
<1>7. CASE Register(c)
  <2>1. at[c] \in Generations /\ admission[at[c]] # "none" /\ UNCHANGED <<drained, at>>
    BY <1>7 DEF Register, ConnInv, ConnOK
  <2>2. PICK x \in {"refused", "running"} : conn' = [conn EXCEPT ![c] = x]
    BY <1>7 DEF Register
  <2>3. conn'[c] = x
    BY <2>2 DEF TypeOK
  <2>4. ConnOK(c)'
    BY <2>1, <2>3 DEF ConnOK
  <2>5. conn' \in [Conns -> {"new", "admitted", "refused", "running", "ending", "ended", "request", "answered"}]
    BY <2>2 DEF TypeOK
  <2>6. at' \in [Conns -> 0..MaxGenerations]
    BY <2>1 DEF TypeOK
  <2>7. CASE draining[at[c]]
    <3>1. UNCHANGED sessions
      BY <1>7, <2>7, Zenon DEF Register
    <3> QED BY <1>3, <2>1, <2>4, <2>5, <2>6, <3>1
  <2>8. CASE ~draining[at[c]]
    <3>1. sessions' = [sessions EXCEPT ![at[c]] = @ \cup {c}]
      BY <1>7, <2>8, Zenon DEF Register
    <3>2. sessions' \in [Generations -> SUBSET Conns]
      BY <3>1 DEF TypeOK
    <3>3. TypeOK'
      BY <1>1, <2>1, <2>5, <2>6, <3>2 DEF TypeOK
    <3>4. \A h \in Generations \ {at[c]} : drained'[h] = drained[h] /\ sessions'[h] = sessions[h]
      BY <2>1, <3>1 DEF TypeOK
    <3>5. PICK g \in Generations : g = at[c]
      BY <2>1
    <3>6. HandlerOK(g) /\ GenOK(g) /\ ~draining[g] /\ admission[g] # "none"
      BY <2>1, <2>8, <3>5 DEF GensInv
    <3>7. closer[g] = "none" /\ ~drained[g]
      BY <3>6, Zenon DEF HandlerOK
    <3>8. HandlerOK(g)'
      BY <1>1, <2>1, <3>6, <3>7 DEF HandlerOK
    <3>9. GenOK(g)'
      BY <1>1, <3>6 DEF GenOK, BeforeEnd, AtEnd
    <3>10. GensInv'
      BY <1>1, <2>1, <3>4, <3>5, <3>8, <3>9, OneGeneration DEF GenSame
    <3>11. ConnInv'
      BY <1>1, <2>4, OneConn
    <3> QED BY <1>2, <3>3, <3>10, <3>11
  <2> QED BY <2>7, <2>8
<1>8. CASE Unregister(c)
  <2>1. at[c] \in Generations /\ UNCHANGED <<conn, at>>
    BY <1>8 DEF Unregister, ConnInv, ConnOK
  <2>2. /\ sessions' = [sessions EXCEPT ![at[c]] = @ \ {c}]
        /\ drained' = [drained EXCEPT ![at[c]] = @ \/ (draining[at[c]] /\ sessions[at[c]] = {c})]
    BY <1>8 DEF Unregister
  <2>3. sessions' \in [Generations -> SUBSET Conns]
    BY <2>2 DEF TypeOK
  <2>4. drained' \in [Generations -> BOOLEAN]
    BY <2>2 DEF TypeOK
  <2>5. TypeOK'
    BY <1>1, <2>1, <2>3, <2>4 DEF TypeOK
  <2>6. /\ sessions'[at[c]] = sessions[at[c]] \ {c}
        /\ drained'[at[c]] = (drained[at[c]] \/ (draining[at[c]] /\ sessions[at[c]] = {c}))
        /\ \A h \in Generations \ {at[c]} : drained'[h] = drained[h] /\ sessions'[h] = sessions[h]
    BY <2>1, <2>2 DEF TypeOK
  <2>7. PICK g \in Generations : g = at[c] /\ HandlerOK(g) /\ GenOK(g)
    BY <2>1 DEF GensInv
  <2>8. HandlerOK(g)'
    BY <1>1, <2>6, <2>7 DEF HandlerOK
  <2>9. GenOK(g)'
    BY <1>1, <2>7 DEF GenOK, BeforeEnd, AtEnd
  <2>10. GensInv'
    BY <1>1, <2>6, <2>7, <2>8, <2>9, OneGeneration DEF GenSame
  <2>11. ConnInv'
    BY <1>1, <2>1 DEF ConnInv, ConnOK
  <2> QED BY <1>2, <2>5, <2>10, <2>11
<1> QED BY <1>4, <1>5, <1>6, <1>7, <1>8

----------------------------------------------------------------------------

\* For any connections and any number of generations: types, and what the
\* server keeps at any moment. A generation's tunnel is not released under a
\* session before the deadline, none is asked to end while the server runs,
\* and the command returns with every generation released.
THEOREM ServerInvAlways == ASSUME MaxGenerations \in Nat PROVE Spec => [](TypeOK /\ ServerInv)
<1>1. ServerIInv /\ UNCHANGED vars => ServerIInv'
  <2> SUFFICES ASSUME ServerIInv, UNCHANGED vars PROVE ServerIInv'
    OBVIOUS
  <2>1. UNCHANGED <<retry, timeout, main, gen, stopped, admission, resources, draining, sessions, drained, closer, asked, late, files, conn, at>>
    BY DEF vars, genVars
  <2>2. TypeOK'
    BY <2>1 DEF ServerIInv, TypeOK
  <2>3. MainInv'
    BY <2>1 DEF ServerIInv, MainInv
  <2>4. GensInv' /\ ConnInv'
    BY <2>1, GensRest DEF ServerIInv, genVars
  <2> QED BY <2>2, <2>3, <2>4 DEF ServerIInv
<1>2. ServerIInv /\ [Next]_vars => ServerIInv'
  BY <1>1, LoopKeeps, ConnectKeeps, CreateTunnelKeeps, ServeEndsKeeps, EndKeeps, ConnKeeps DEF Next
<1>3. ASSUME ServerIInv PROVE TypeOK /\ ServerInv
  <2> USE <1>3 DEF ServerIInv
  <2>1. EndsWithServer
    BY DEF EndsWithServer, ConnInv, ConnOK
  <2>2. ASSUME NEW g \in Generations
        PROVE  /\ GenOK(g) /\ HandlerOK(g)
               /\ closer[g] \in {"none", "files", "done"} \cup Closing
    BY DEF GensInv, TypeOK, Closing
  <2>3. DrainedIsEmpty
    BY <2>2 DEF DrainedIsEmpty, HandlerOK
  <2>4. ReleasedLast
    <3> SUFFICES ASSUME NEW g \in Generations
                 PROVE  /\ (resources[g] = "released" /\ closer[g] # "none") => sessions[g] = {} \/ late[g]
                        /\ files[g] = "closed" => Requests(g) = {}
      BY DEF ReleasedLast
    <3>1. (resources[g] = "released" /\ closer[g] # "none") => sessions[g] = {} \/ late[g]
      BY <2>2 DEF GenOK, AtEnd, HandlerOK
    <3>2. files[g] = "closed" => Requests(g) = {}
      BY DEF Requests, ConnInv, ConnOK
    <3> QED BY <3>1, <3>2
  <2>5. ReturnsClean
    <3> SUFFICES ASSUME NEW g \in Generations
                 PROVE  /\ resources[g] = "abandoned" => g = gen /\ main \in {"wait", "returned"}
                        /\ main = "returned" =>
                             /\ resources[g] \in {"none", "released", "abandoned"} /\ files[g] \in {"none", "closed"}
                             /\ admission[g] \in {"none", "closed"} /\ (sessions[g] = {} \/ late[g])
      BY DEF ReturnsClean
    <3>1. resources[g] = "abandoned" => g = gen /\ main \in {"wait", "returned"}
      BY <2>2 DEF GenOK
    <3>2. main = "returned" => closer[g] \in {"none", "done"}
      BY DEF MainInv
    <3> QED BY <2>2, <3>1, <3>2 DEF GenOK, BeforeEnd, AtEnd, HandlerOK
  <2>6. OneAdmits
    <3> DEFINE A == {g \in Generations : admission[g] = "open" /\ ~draining[g]}
    <3>1. A \subseteq {gen}
      BY <2>2 DEF GenOK, BeforeEnd, HandlerOK
    <3>2. IsFiniteSet({gen}) /\ Cardinality({gen}) = 1
      BY FS_Singleton
    <3>3. Cardinality(A) <= Cardinality({gen})
      BY <3>1, <3>2, FS_Subset
    <3> QED BY <3>2, <3>3 DEF OneAdmits
  <2> QED BY <2>1, <2>3, <2>4, <2>5, <2>6 DEF ServerInv
<1> QED BY <1>2, <1>3, ServerIInvInit, PTL DEF Spec
=============================================================================
