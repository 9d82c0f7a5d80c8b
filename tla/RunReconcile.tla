---------------------------- MODULE RunReconcile ----------------------------
(* "rstream run": the loop that reads the desired tunnels from a source    *)
(* (a YAML file or the Docker labels), the goroutine that watches the      *)
(* source, the reconciler goroutine that owns the active tunnels, and the  *)
(* workers it starts. The life of one worker is RunTunnel's subject; here  *)
(* a worker runs until it ends by itself or is cancelled.                  *)
EXTENDS Naturals, FiniteSets, TLAPS

CONSTANTS
  Names,        \* tunnel names
  Specs,        \* what a tunnel may be configured as
  Bad,          \* the specs Runner.Start refuses
  Contents,     \* what the source may hold
  Invalid,      \* a content List cannot load
  Duplicate,    \* a content that names a tunnel twice
  Watched,      \* the settings of the --watch flag
  MaxChanges,   \* bound: changes of the source
  None

Desired == [Names -> Specs \cup {None}]

VARIABLES
  watch,        \* the --watch flag
  file,         \* the content of the source
  changes,
  missed,       \* history: a change since the source was read reaches no event
  watcher,      \* the watching goroutine
  event,        \* the OS or Docker has an event for it
  token,        \* the one place of its channel to the loop is taken
  closed,       \* that channel is closed
  loop,         \* where the command's goroutine is
  first,        \* it applies the source for the first time
  desired,      \* what it read
  cancelled,    \* the command's context
  recon,        \* where the reconciler goroutine is
  job,          \* the desired tunnels of the request it works on
  todo,         \* the names reconcile has still to look at
  waiting,      \* the name whose handle.Stop it is in
  failed,       \* reconcile met an error
  answer,       \* the done channel of the request
  ack,          \* the done channel of the stop request
  active,       \* the reconciler's map
  workers,      \* the workers that have not ended
  started       \* how many were started

sourceVars == <<watch, file, changes, missed>>
watchVars == <<watcher, event, token, closed>>
loopVars == <<loop, first, desired, cancelled>>
reconVars == <<recon, job, todo, waiting, failed, answer, ack>>
tunnelVars == <<active, workers, started>>
vars == <<sourceVars, watchVars, loopVars, reconVars, tunnelVars>>

Running == loop # "exited"
Spec(n) == IF active[n] = None THEN None ELSE active[n].spec

TypeOK ==
  /\ watch \in Watched /\ file \in Contents /\ changes \in 0..MaxChanges /\ missed \in BOOLEAN
  /\ watcher \in {"none", "running", "ended"}
  /\ {event, token, closed, first, cancelled, failed, ack} \subseteq BOOLEAN
  /\ loop \in {"list", "submit", "answer", "watch", "select", "park", "stop", "acked", "exited"}
  /\ {desired, job} \subseteq Desired
  /\ recon \in {"idle", "remove", "apply", "drain", "stopped"}
  /\ todo \subseteq Names /\ waiting \in Names \cup {None}
  /\ answer \in {None, "ok", "error"}
  /\ started \in Nat
  /\ active \in [Names -> [spec : Specs, id : 1..started] \cup {None}]
  /\ workers \subseteq [id : 1..started, name : Names, spec : Specs, stop : BOOLEAN]

Init ==
  /\ watch \in Watched /\ file \in Contents /\ changes = 0 /\ missed = FALSE
  /\ watcher = "none" /\ event = FALSE /\ token = FALSE /\ closed = FALSE
  /\ loop = "list" /\ first = TRUE /\ desired = [n \in Names |-> None] /\ cancelled = FALSE
  /\ recon = "idle" /\ job = desired /\ todo = {} /\ waiting = None /\ failed = FALSE /\ answer = None /\ ack = FALSE
  /\ active = [n \in Names |-> None] /\ workers = {} /\ started = 0

----------------------------------------------------------------------------
(* The environment. *)

\* The file is edited or a container changes; only a running watch hears of it.
Change ==
  /\ Running /\ changes < MaxChanges
  /\ \E c \in Contents \ {file} : file' = c
  /\ changes' = changes + 1
  /\ event' = (event \/ watcher = "running")
  /\ missed' = (missed \/ (watcher = "none" /\ loop # "list"))
  /\ UNCHANGED <<watch, watcher, token, closed, loopVars, reconVars, tunnelVars>>

\* A signal cancels the context of the command.
Cancel ==
  /\ Running /\ ~cancelled
  /\ cancelled' = TRUE
  /\ UNCHANGED <<sourceVars, watchVars, loop, first, desired, reconVars, tunnelVars>>

\* A worker ends: it was cancelled, or its tunnel closed or cannot be retried.
WorkerEnds(w) ==
  /\ Running
  /\ workers' = workers \ {w}
  /\ UNCHANGED <<sourceVars, watchVars, loopVars, reconVars, active, started>>

----------------------------------------------------------------------------
(* Watch, of either source. *)

\* The channel has no place: an event the loop is not waiting for is lost.
LoseEvent ==
  /\ Running /\ watcher = "running" /\ event
  /\ event' = FALSE /\ token' = (token \/ loop = "select")
  /\ UNCHANGED <<sourceVars, watcher, closed, loopVars, reconVars, tunnelVars>>

\* An event is passed on unless one is already waiting for the loop.
WatchEvent ==
  /\ Running /\ watcher = "running" /\ event
  /\ event' = FALSE /\ token' = TRUE
  /\ UNCHANGED <<sourceVars, watcher, closed, loopVars, reconVars, tunnelVars>>

\* The watcher reports an error in place of an event, as when its queue ran
\* over: it is logged, and the change stays unheard of.
WatchError ==
  /\ Running /\ watcher = "running" /\ event
  /\ event' = FALSE /\ missed' = TRUE
  /\ UNCHANGED <<watch, file, changes, watcher, token, closed, loopVars, reconVars, tunnelVars>>

\* The goroutine ends with the context or with the source of its events.
WatchEnds ==
  /\ Running /\ watcher = "running"
  /\ watcher' = "ended" /\ closed' = TRUE
  /\ UNCHANGED <<sourceVars, event, token, loopVars, reconVars, tunnelVars>>

----------------------------------------------------------------------------
(* runLoop, Reconcile and Stop: the command's goroutine. *)

ApplyReturns(ok) ==
  /\ first' = FALSE
  /\ loop' = IF ~first THEN "select" ELSE IF watch THEN "watch" ELSE IF ok THEN "park" ELSE "stop"

\* List, and the names check at the head of Reconcile.
List ==
  /\ loop = "list"
  /\ missed' = FALSE
  /\ IF file \in Desired
     THEN desired' = file /\ loop' = "submit" /\ UNCHANGED first
     ELSE ApplyReturns(FALSE) /\ UNCHANGED desired
  /\ UNCHANGED <<watch, file, changes, watchVars, cancelled, reconVars, tunnelVars>>

\* The reconciler takes the request.
Submit ==
  /\ loop = "submit" /\ recon = "idle"
  /\ loop' = "answer" /\ recon' = "remove" /\ job' = desired /\ answer' = None /\ failed' = FALSE
  /\ UNCHANGED <<sourceVars, watchVars, first, desired, cancelled, todo, waiting, ack, tunnelVars>>

\* Reconcile gives up, before or after its request was taken.
GiveUp ==
  /\ loop \in {"submit", "answer"} /\ (cancelled \/ recon = "stopped")
  /\ ApplyReturns(FALSE)
  /\ UNCHANGED <<sourceVars, watchVars, desired, cancelled, reconVars, tunnelVars>>

Answered ==
  /\ loop = "answer" /\ answer # None
  /\ ApplyReturns(answer = "ok")
  /\ UNCHANGED <<sourceVars, watchVars, desired, cancelled, reconVars, tunnelVars>>

\* source.Watch.
StartWatch ==
  /\ loop = "watch"
  /\ \/ loop' = "select" /\ watcher' = "running"
     \/ loop' = "stop" /\ UNCHANGED watcher
  /\ UNCHANGED <<sourceVars, event, token, closed, first, desired, cancelled, reconVars, tunnelVars>>

Reload ==
  /\ loop = "select" /\ token
  /\ loop' = "list" /\ token' = FALSE
  /\ UNCHANGED <<sourceVars, watcher, event, closed, first, desired, cancelled, reconVars, tunnelVars>>

\* The context is done or, when watching, the channel is closed and empty.
Leave ==
  /\ \/ loop \in {"select", "park"} /\ cancelled
     \/ loop = "select" /\ closed /\ ~token
  /\ loop' = "stop"
  /\ UNCHANGED <<sourceVars, watchVars, first, desired, cancelled, reconVars, tunnelVars>>

\* Stop hands its request to the reconciler, which acknowledges it and leaves its loop.
Stop ==
  /\ loop = "stop" /\ recon = "idle"
  /\ loop' = "acked" /\ recon' = "drain" /\ ack' = TRUE
  /\ UNCHANGED <<sourceVars, watchVars, first, desired, cancelled, job, todo, waiting, failed, answer, tunnelVars>>

\* Stop returns, and with it the command and the process.
StopReturns ==
  /\ \/ loop = "acked" /\ ack
     \/ loop \in {"stop", "acked"} /\ recon = "stopped"
  /\ loop' = "exited"
  /\ UNCHANGED <<sourceVars, watchVars, first, desired, cancelled, reconVars, tunnelVars>>

----------------------------------------------------------------------------
(* The reconciler goroutine. *)

\* handle.Stop cancels the worker and waits for it.
StopHandle(n) ==
  /\ workers' = {[w EXCEPT !.stop = @ \/ w.id = active[n].id] : w \in workers}
  /\ waiting' = n

HandleStopped == waiting # None /\ \A w \in workers : w.id # active[waiting].id

\* handle.Stop cancels and does not wait.
StopUnjoined(n) ==
  /\ Running /\ waiting = None /\ active[n] # None
  /\ \/ recon = "remove" /\ job[n] = None
     \/ recon = "apply" /\ n \in todo /\ job[n] # Spec(n)
     \/ recon = "drain"
  /\ workers' = {[w EXCEPT !.stop = @ \/ w.id = active[n].id] : w \in workers}
  /\ active' = [active EXCEPT ![n] = None]
  /\ UNCHANGED <<sourceVars, watchVars, loopVars, recon, job, todo, waiting, failed, answer, ack, started>>

\* A tunnel that is gone, has changed, or has to stop with the reconciler.
StopTunnel(n) ==
  /\ Running /\ waiting = None /\ active[n] # None
  /\ \/ recon = "remove" /\ job[n] = None
     \/ recon = "apply" /\ n \in todo /\ job[n] # Spec(n)
     \/ recon = "drain"
  /\ StopHandle(n)
  /\ UNCHANGED <<sourceVars, watchVars, loopVars, recon, job, todo, failed, answer, ack, active, started>>

\* It is removed from the map; the changed one is started again in the same turn.
Removed ==
  /\ Running /\ recon \in {"remove", "drain"} /\ HandleStopped
  /\ active' = [active EXCEPT ![waiting] = None] /\ waiting' = None
  /\ UNCHANGED <<sourceVars, watchVars, loopVars, recon, job, todo, failed, answer, ack, workers, started>>

\* The first pass of reconcile is over.
RemovesDone ==
  /\ Running /\ recon = "remove" /\ waiting = None
  /\ \A n \in Names : active[n] # None => job[n] # None
  /\ recon' = "apply" /\ todo' = {n \in Names : job[n] # None}
  /\ UNCHANGED <<sourceVars, watchVars, loopVars, job, waiting, failed, answer, ack, tunnelVars>>

\* EqualDesired: the tunnel stays as it is.
Keep(n) ==
  /\ Running /\ recon = "apply" /\ waiting = None /\ n \in todo /\ Spec(n) = job[n]
  /\ todo' = todo \ {n}
  /\ UNCHANGED <<sourceVars, watchVars, loopVars, recon, job, waiting, failed, answer, ack, tunnelVars>>

\* Runner.Start; a refused tunnel is counted and the others go on.
StartTunnel(n) ==
  /\ Running /\ recon = "apply" /\ n \in todo
  /\ IF waiting = None THEN active[n] = None ELSE waiting = n /\ HandleStopped
  /\ todo' = todo \ {n} /\ waiting' = None
  /\ IF job[n] \in Bad
     THEN failed' = TRUE /\ active' = [active EXCEPT ![n] = None] /\ UNCHANGED <<workers, started>>
     ELSE /\ started' = started + 1
          /\ active' = [active EXCEPT ![n] = [spec |-> job[n], id |-> started + 1]]
          /\ workers' = workers \cup {[id |-> started + 1, name |-> n, spec |-> job[n], stop |-> FALSE]}
          /\ UNCHANGED failed
  /\ UNCHANGED <<sourceVars, watchVars, loopVars, recon, job, answer, ack>>

\* reconcile returns and its result is sent.
Reply ==
  /\ Running /\ recon = "apply" /\ todo = {}
  /\ answer' = (IF failed THEN "error" ELSE "ok") /\ recon' = "idle"
  /\ UNCHANGED <<sourceVars, watchVars, loopVars, job, todo, waiting, failed, ack, tunnelVars>>

\* run sees the context done.
ReconCancelled ==
  /\ Running /\ recon = "idle" /\ cancelled
  /\ recon' = "drain"
  /\ UNCHANGED <<sourceVars, watchVars, loopVars, job, todo, waiting, failed, answer, ack, tunnelVars>>

\* The deferred stop is through and closes the stopped channel.
Drained ==
  /\ Running /\ recon = "drain" /\ \A n \in Names : active[n] = None
  /\ recon' = "stopped"
  /\ UNCHANGED <<sourceVars, watchVars, loopVars, job, todo, waiting, failed, answer, ack, tunnelVars>>

----------------------------------------------------------------------------

Exited == ~Running /\ UNCHANGED vars

LoopStep ==
  \/ List \/ Submit \/ GiveUp \/ Answered \/ StartWatch \/ Reload \/ Leave \/ Stop \/ StopReturns

ReconStep ==
  \/ \E n \in Names : StopTunnel(n) \/ Keep(n) \/ StartTunnel(n)
  \/ Removed \/ RemovesDone \/ Reply \/ ReconCancelled \/ Drained

Next ==
  \/ Change \/ Cancel \/ \E w \in workers : WorkerEnds(w)
  \/ WatchEvent \/ WatchError \/ WatchEnds \/ LoopStep \/ ReconStep \/ Exited

RunSpec == Init /\ [][Next]_vars

\* The goroutines go on while one can.  That a cancelled worker ends is not
\* assumed: its ctrl.Close need not return (RunTunnel).
Runs == LoopStep \/ ReconStep \/ WatchEvent \/ (cancelled /\ WatchEnds)

----------------------------------------------------------------------------
(* Properties. *)

\* Every running worker is the one the reconciler's map holds under its name,
\* with its spec: a changed tunnel has no second worker beside the old one,
\* and none is forgotten (reconcile deletes after handle.Stop has waited).
OneOwnedWorker ==
  \A w \in workers : active[w.name] # None /\ active[w.name] = [spec |-> w.spec, id |-> w.id]

\* Once the stopped channel is closed no worker runs (the deferred stop).
StoppedJoined == recon = "stopped" => workers = {}

\* What Reconcile's caller is told: after an answer every tunnel that can be
\* started is in the map as desired and no other is, and "ok" means all of
\* them; one that cannot be started holds up none of the others.
AnswerTruthful ==
  loop = "answer" /\ answer # None /\ recon = "idle" =>
    /\ \A n \in Names : Spec(n) = IF desired[n] \in Bad THEN None ELSE desired[n]
    /\ answer = "ok" => \A n \in Names : desired[n] \notin Bad

InSync ==
  file \in Desired => \A n \in Names : Spec(n) = IF file[n] \in Bad THEN None ELSE file[n]

Leaving == cancelled \/ loop \in {"stop", "acked", "exited"}

\* When the command returns every worker has ended, and its relays with it.
ExitJoins == loop = "exited" => workers = {}

\* What the reconciler keeps at any moment.
ReconcileInv == TypeOK /\ OneOwnedWorker /\ StoppedJoined /\ AnswerTruthful

\* The reconciler is in a handle.Stop whose worker does not end.
HeldUp == waiting # None /\ ~HandleStopped

\* Watching, the tunnels have come to match the last content of the source,
\* but for a change that fell between its first reading and the start of the
\* watch or that the watcher reported as an error (the one-place channel of
\* Watch never loses the last event); and a signal has ended the command, in
\* whatever state its loop, the watcher and the reconciler were.  Both but for
\* a reconciler held up by a worker that does not end.
Settled ==
  HeldUp \/ ((watch => Leaving \/ missed \/ InSync) /\ (cancelled => loop = "exited"))
----------------------------------------------------------------------------
(* Proofs. *)

\* What the program takes for granted of its values: nil is no spec, no name,
\* no handle and no answer.
NilIsNew ==
  /\ MaxChanges \in Nat /\ Bad \subseteq Specs
  /\ None \notin Specs \cup Names \cup {"ok", "error"} \cup [spec : Specs, id : Nat]

Wanted(n) == IF job[n] \in Bad THEN None ELSE job[n]

\* The second pass of reconcile: every name it is through with is as the
\* request wants it, and an error was noted for each that cannot be.
PassInv ==
  recon = "apply" =>
    /\ todo \subseteq {n \in Names : job[n] # None}
    /\ waiting # None => waiting \in todo
    /\ \A n \in Names \ todo : Spec(n) = Wanted(n)
    /\ ~failed => \A n \in Names \ todo : job[n] \notin Bad

\* The caller waits for the answer to its own request, and the answer stays
\* true while the reconciler is idle.
AnswerInv ==
  /\ loop = "answer" => job = desired
  /\ recon = "idle" /\ answer # None =>
       /\ \A n \in Names : Spec(n) = Wanted(n)
       /\ answer = "ok" => \A n \in Names : job[n] \notin Bad

\* The map holds no tunnel that Runner.Start refuses.
StartedGood == \A n \in Names : active[n] # None => active[n].spec \notin Bad

ReconcileIInv == TypeOK /\ OneOwnedWorker /\ StoppedJoined /\ PassInv /\ AnswerInv /\ StartedGood

LEMMA ReconcileIInvInit == ASSUME NilIsNew PROVE Init => ReconcileIInv
<1> SUFFICES ASSUME Init PROVE ReconcileIInv
  OBVIOUS
<1>1. desired \in Desired /\ job \in Desired
  BY DEF Init, Desired
<1>2. {event, token, closed, first, cancelled, failed, ack} \subseteq BOOLEAN /\ missed \in BOOLEAN
  BY Zenon DEF Init
<1>3. TypeOK
  BY <1>1, <1>2 DEF Init, TypeOK, NilIsNew
<1>4. OneOwnedWorker /\ StoppedJoined /\ PassInv /\ AnswerInv /\ StartedGood
  BY DEF Init, OneOwnedWorker, StoppedJoined, PassInv, AnswerInv, StartedGood
<1> QED BY <1>3, <1>4 DEF ReconcileIInv

\* A step that leaves the reconciler and its tunnels alone; workers may end.
LEMMA ReconcilerRests ==
  ASSUME NilIsNew, ReconcileIInv, UNCHANGED <<reconVars, active, started>>, workers' \subseteq workers,
         loop' = "answer" => loop = "answer" /\ UNCHANGED desired
  PROVE  /\ OneOwnedWorker' /\ StoppedJoined' /\ PassInv' /\ AnswerInv' /\ StartedGood'
<1> USE DEF ReconcileIInv
<1>1. UNCHANGED <<recon, job, todo, waiting, failed, answer, ack>>
  BY DEF reconVars
<1>2. \A n \in Names : Spec(n)' = Spec(n) /\ Wanted(n)' = Wanted(n)
  BY <1>1 DEF Spec, Wanted
<1>3. OneOwnedWorker' /\ StoppedJoined' /\ StartedGood'
  BY <1>1 DEF OneOwnedWorker, StoppedJoined, StartedGood
<1>4. PassInv' /\ AnswerInv'
  BY <1>1, <1>2 DEF PassInv, AnswerInv
<1> QED BY <1>3, <1>4

LEMMA ReturnTypes == ASSUME NEW ok \in BOOLEAN, first \in BOOLEAN, ApplyReturns(ok)
                     PROVE  first' \in BOOLEAN /\ loop' \in {"select", "watch", "park", "stop"}
BY Zenon DEF ApplyReturns

\* The source, its watcher, a signal, and the end of a worker.
LEMMA SurroundingsKeep ==
  ASSUME NilIsNew, ReconcileIInv,
         Change \/ Cancel \/ (\E w \in workers : WorkerEnds(w)) \/ WatchEvent \/ WatchError \/ WatchEnds \/ Exited
  PROVE  ReconcileIInv'
<1> USE DEF ReconcileIInv
<1>1. /\ UNCHANGED <<reconVars, active, started, loop, desired, first, watch>> /\ workers' \subseteq workers
  BY DEF Change, Cancel, WorkerEnds, WatchEvent, WatchError, WatchEnds, Exited, loopVars, reconVars, tunnelVars, sourceVars, vars
<1>2. UNCHANGED <<recon, job, todo, waiting, failed, answer, ack>>
  BY <1>1 DEF reconVars
<1>3. file' \in Contents /\ changes' \in 0 .. MaxChanges
  BY DEF TypeOK, NilIsNew, Change, Cancel, WorkerEnds, WatchEvent, WatchError, WatchEnds, Exited, sourceVars, vars
<1>4. watcher' \in {"none", "running", "ended"}
  BY DEF TypeOK, Change, Cancel, WorkerEnds, WatchEvent, WatchError, WatchEnds, Exited, watchVars, vars
<1>5. event' \in BOOLEAN /\ token' \in BOOLEAN /\ closed' \in BOOLEAN /\ cancelled' \in BOOLEAN /\ missed' \in BOOLEAN
  BY Zenon DEF TypeOK, Change, Cancel, WorkerEnds, WatchEvent, WatchError, WatchEnds, Exited, sourceVars, watchVars, loopVars, vars
<1>6. TypeOK'
  BY <1>1, <1>2, <1>3, <1>4, <1>5 DEF TypeOK
<1> QED BY <1>1, <1>6, ReconcilerRests

\* The command's goroutine.
LEMMA LoopKeeps ==
  ASSUME NilIsNew, ReconcileIInv, LoopStep
  PROVE  ReconcileIInv'
<1> USE DEF ReconcileIInv
<1>1. UNCHANGED <<tunnelVars, watch, file, changes, event, closed, cancelled>>
  BY Zenon DEF LoopStep, List, Submit, GiveUp, Answered, StartWatch, Reload, Leave, Stop, StopReturns, sourceVars, watchVars
<1>2. UNCHANGED <<active, workers, started>>
  BY <1>1 DEF tunnelVars
<1>3. missed' \in BOOLEAN /\ token' \in BOOLEAN /\ watcher' \in {"none", "running", "ended"}
  BY Zenon DEF TypeOK, LoopStep, List, Submit, GiveUp, Answered, StartWatch, Reload, Leave, Stop, StopReturns, sourceVars, watchVars
<1>4. CASE Submit
  <2>1. /\ loop' = "answer" /\ recon' = "remove" /\ job' = desired /\ answer' = None /\ failed' = FALSE /\ recon = "idle"
        /\ UNCHANGED <<first, desired, todo, waiting, ack>>
    BY <1>4 DEF Submit
  <2>2. TypeOK'
    BY Zenon, <1>1, <1>2, <1>3, <2>1 DEF TypeOK
  <2>3. OneOwnedWorker' /\ StoppedJoined' /\ StartedGood' /\ PassInv' /\ AnswerInv'
    BY <1>2, <2>1 DEF OneOwnedWorker, StoppedJoined, StartedGood, PassInv, AnswerInv
  <2> QED BY <2>2, <2>3
<1>5. CASE Stop
  <2>1. /\ loop' = "acked" /\ recon' = "drain" /\ ack' = TRUE /\ recon = "idle"
        /\ UNCHANGED <<first, desired, job, todo, waiting, failed, answer>>
    BY <1>5 DEF Stop
  <2>2. TypeOK'
    BY <1>1, <1>2, <1>3, <2>1 DEF TypeOK
  <2>3. OneOwnedWorker' /\ StoppedJoined' /\ StartedGood' /\ PassInv' /\ AnswerInv'
    BY <1>2, <2>1 DEF OneOwnedWorker, StoppedJoined, StartedGood, PassInv, AnswerInv
  <2> QED BY <2>2, <2>3
<1>6. CASE List \/ GiveUp \/ Answered \/ StartWatch \/ Reload \/ Leave \/ StopReturns
  <2>1. UNCHANGED reconVars
    BY Zenon, <1>6 DEF List, GiveUp, Answered, StartWatch, Reload, Leave, StopReturns
  <2>2. UNCHANGED <<recon, job, todo, waiting, failed, answer, ack>>
    BY <2>1 DEF reconVars
  <2>3. /\ desired' \in Desired /\ first' \in BOOLEAN
        /\ loop' \in {"submit", "select", "watch", "park", "stop", "list", "exited"}
    <3>1. first \in BOOLEAN /\ desired \in Desired
      BY DEF TypeOK
    <3>2. (GiveUp => ApplyReturns(FALSE)) /\ (Answered => ApplyReturns(answer = "ok"))
      BY Zenon DEF GiveUp, Answered
    <3>3. CASE List
      BY Zenon, <3>1, <3>3, ReturnTypes DEF List
    <3>4. CASE GiveUp \/ Answered
      BY Zenon, <3>1, <3>2, <3>4, ReturnTypes DEF GiveUp, Answered
    <3>5. CASE StartWatch \/ Reload \/ Leave \/ StopReturns
      BY <3>1, <3>5 DEF StartWatch, Reload, Leave, StopReturns
    <3> QED BY <1>6, <3>3, <3>4, <3>5
  <2>4. TypeOK'
    BY <1>1, <1>2, <1>3, <2>2, <2>3 DEF TypeOK
  <2> QED BY <1>2, <2>1, <2>3, <2>4, ReconcilerRests
<1> QED BY <1>4, <1>5, <1>6 DEF LoopStep

\* A worker is waited for by its own id.
LEMMA OwnId == ASSUME OneOwnedWorker PROVE \A w \in workers : active[w.name].id = w.id
<1> SUFFICES ASSUME NEW w \in workers PROVE active[w.name].id = w.id
  OBVIOUS
<1>1. active[w.name] = [spec |-> w.spec, id |-> w.id]
  BY DEF OneOwnedWorker
<1> QED BY <1>1

\* The reconciler goroutine.
LEMMA ReconKeeps ==
  ASSUME NilIsNew, ReconcileIInv, ReconStep
  PROVE  ReconcileIInv'
<1> USE DEF ReconcileIInv
<1>1. UNCHANGED <<sourceVars, watchVars, loopVars, ack, job>>
  BY DEF ReconStep, StopTunnel, Keep, StartTunnel, Removed, RemovesDone, Reply, ReconCancelled, Drained
<1>2. UNCHANGED <<watch, file, changes, missed, watcher, event, token, closed, loop, first, desired, cancelled, ack, job>>
  BY <1>1 DEF sourceVars, watchVars, loopVars
<1>3. \A n \in Names : Wanted(n)' = Wanted(n)
  BY <1>2 DEF Wanted
<1>4. ASSUME NEW n \in Names, StopTunnel(n) PROVE ReconcileIInv'
  <2>1. /\ waiting = None /\ active[n] # None /\ waiting' = n /\ UNCHANGED <<recon, todo, failed, answer, active, started>>
        /\ workers' = {[w EXCEPT !.stop = @ \/ w.id = active[n].id] : w \in workers}
        /\ recon = "apply" => n \in todo
        /\ recon \in {"remove", "apply", "drain"}
    BY <1>4 DEF StopTunnel, StopHandle
  <2>2. ASSUME NEW v \in workers'
        PROVE  /\ v \in [id : 1..started, name : Names, spec : Specs, stop : BOOLEAN]
               /\ \E w \in workers : v.id = w.id /\ v.name = w.name /\ v.spec = w.spec
    <3>1. PICK w \in workers : v = [w EXCEPT !.stop = @ \/ w.id = active[n].id]
      BY <2>1
    <3>2. w \in [id : 1..started, name : Names, spec : Specs, stop : BOOLEAN]
      BY DEF TypeOK
    <3>3. (w.stop \/ w.id = active[n].id) \in BOOLEAN
      BY Zenon
    <3>4. v = [id |-> w.id, name |-> w.name, spec |-> w.spec, stop |-> (w.stop \/ w.id = active[n].id)]
      BY <3>1, <3>2
    <3> QED BY <3>2, <3>3, <3>4
  <2>3. TypeOK'
    BY <1>2, <2>1, <2>2 DEF TypeOK
  <2>4. OneOwnedWorker'
    <3> SUFFICES ASSUME NEW v \in workers'
                 PROVE  active'[v.name] # None /\ active'[v.name] = [spec |-> v.spec, id |-> v.id]
      BY Zenon DEF OneOwnedWorker
    <3>1. PICK w \in workers : v.id = w.id /\ v.name = w.name /\ v.spec = w.spec
      BY <2>2
    <3> QED BY <2>1, <3>1 DEF OneOwnedWorker
  <2>5. \A m \in Names : Spec(m)' = Spec(m)
    BY <2>1 DEF Spec
  <2>6. StoppedJoined' /\ PassInv' /\ AnswerInv' /\ StartedGood'
    BY <1>2, <1>3, <2>1, <2>5 DEF StoppedJoined, PassInv, AnswerInv, StartedGood
  <2> QED BY <2>3, <2>4, <2>6
<1>5. ASSUME NEW n \in Names, Keep(n) PROVE ReconcileIInv'
  <2>1. /\ UNCHANGED <<recon, waiting, failed, answer, active, workers, started>>
        /\ recon = "apply" /\ n \in todo /\ waiting = None /\ Spec(n) = job[n] /\ todo' = todo \ {n}
    BY <1>5 DEF Keep, tunnelVars
  <2>2. TypeOK'
    BY <1>2, <2>1 DEF TypeOK
  <2>3. \A m \in Names : Spec(m)' = Spec(m)
    BY <2>1 DEF Spec
  <2>4. job[n] \notin Bad
    BY <2>1 DEF PassInv, StartedGood, Spec
  <2>5. PassInv'
    BY <1>2, <1>3, <2>1, <2>3, <2>4 DEF PassInv, Wanted
  <2>6. OneOwnedWorker' /\ StoppedJoined' /\ AnswerInv' /\ StartedGood'
    BY <1>2, <2>1 DEF OneOwnedWorker, StoppedJoined, AnswerInv, StartedGood
  <2> QED BY <2>2, <2>5, <2>6
<1>6. ASSUME NEW n \in Names, StartTunnel(n) PROVE ReconcileIInv'
  <2>1. /\ UNCHANGED <<recon, answer>>
        /\ recon = "apply" /\ n \in todo /\ todo' = todo \ {n} /\ waiting' = None
    BY <1>6 DEF StartTunnel
  <2>2. job[n] # None /\ job[n] \in Specs
    BY <2>1 DEF PassInv, TypeOK, Desired
  <2>3. \A w \in workers : w.name # n
    <3>1. (\A w \in workers : w.id # active[n].id) \/ active[n] = None
      BY <1>6 DEF StartTunnel, HandleStopped
    <3> QED BY Zenon, <3>1, OwnId DEF OneOwnedWorker
  <2>4. \A m \in Names \ todo : m # n
    BY <2>1
  <2>5. waiting = None \/ waiting = n
    BY <1>6 DEF StartTunnel
  <2>6. CASE job[n] \in Bad
    <3>1. failed' = TRUE /\ active' = [active EXCEPT ![n] = None] /\ UNCHANGED <<workers, started>>
      BY <1>6, <2>6 DEF StartTunnel
    <3>2. TypeOK'
      BY <1>2, <2>1, <3>1 DEF TypeOK
    <3>3. OneOwnedWorker' /\ StoppedJoined' /\ AnswerInv' /\ StartedGood'
      BY <1>2, <2>1, <2>3, <3>1 DEF TypeOK, OneOwnedWorker, StoppedJoined, AnswerInv, StartedGood
    <3>4. \A m \in Names : Spec(m)' = IF m = n THEN None ELSE Spec(m)
      BY <3>1 DEF Spec, TypeOK
    <3>5. Wanted(n) = None
      BY <2>6 DEF Wanted
    <3>6. PassInv'
      BY Zenon, <1>2, <1>3, <2>1, <3>1, <3>4, <3>5 DEF PassInv
    <3> QED BY <3>2, <3>3, <3>6
  <2>7. CASE job[n] \notin Bad
    <3> DEFINE W == [id |-> started + 1, name |-> n, spec |-> job[n], stop |-> FALSE]
               A == [spec |-> job[n], id |-> started + 1]
    <3>1. /\ started' = started + 1 /\ active' = [active EXCEPT ![n] = A]
          /\ workers' = workers \cup {W} /\ failed' = failed
      BY <1>6, <2>7 DEF StartTunnel
    <3>2. started \in Nat /\ A \in [spec : Specs, id : 1 .. started'] /\ A # None
      BY <2>2, <3>1 DEF TypeOK, NilIsNew
    <3>3. workers' \subseteq [id : 1 .. started', name : Names, spec : Specs, stop : BOOLEAN]
      <4>1. W \in [id : 1 .. started', name : Names, spec : Specs, stop : BOOLEAN]
        BY <2>2, <3>1, <3>2
      <4>2. workers \subseteq [id : 1 .. started', name : Names, spec : Specs, stop : BOOLEAN]
        BY <3>1, <3>2 DEF TypeOK
      <4> QED BY Zenon, <3>1, <4>1, <4>2
    <3>4. active' \in [Names -> [spec : Specs, id : 1 .. started'] \cup {None}]
      <4>1. active \in [Names -> [spec : Specs, id : 1 .. started'] \cup {None}]
        BY <3>1, <3>2 DEF TypeOK
      <4> QED BY <3>1, <3>2, <4>1
    <3>5. TypeOK'
      BY <1>2, <2>1, <3>1, <3>2, <3>3, <3>4 DEF TypeOK
    <3>6. \A m \in Names : active'[m] = IF m = n THEN A ELSE active[m]
      BY <3>1 DEF TypeOK
    <3>7. OneOwnedWorker' /\ StartedGood'
      BY <2>3, <2>7, <3>1, <3>2, <3>6 DEF OneOwnedWorker, StartedGood, TypeOK
    <3>8. StoppedJoined' /\ AnswerInv'
      BY <1>2, <2>1 DEF StoppedJoined, AnswerInv
    <3>9. \A m \in Names : Spec(m)' = IF m = n THEN job[n] ELSE Spec(m)
      BY <3>2, <3>6 DEF Spec
    <3>10. Wanted(n) = job[n]
      BY <2>7 DEF Wanted
    <3>11. PassInv'
      BY <1>2, <1>3, <2>1, <2>7, <3>1, <3>9, <3>10 DEF PassInv
    <3> QED BY <3>5, <3>7, <3>8, <3>11
  <2> QED BY <2>6, <2>7
<1>7. CASE Removed
  <2>1. /\ recon \in {"remove", "drain"} /\ waiting # None /\ waiting' = None
        /\ active' = [active EXCEPT ![waiting] = None] /\ UNCHANGED <<recon, todo, failed, answer, workers, started>>
        /\ \A w \in workers : w.id # active[waiting].id
    BY <1>7 DEF Removed, HandleStopped
  <2>2. \A w \in workers : w.name # waiting
    BY <2>1, OwnId
  <2>3. TypeOK'
    BY <1>2, <2>1 DEF TypeOK
  <2>4. OneOwnedWorker' /\ StoppedJoined' /\ PassInv' /\ AnswerInv' /\ StartedGood'
    BY <1>2, <2>1, <2>2 DEF TypeOK, OneOwnedWorker, StoppedJoined, PassInv, AnswerInv, StartedGood
  <2> QED BY <2>3, <2>4
<1>8. CASE RemovesDone
  <2>1. /\ recon = "remove" /\ recon' = "apply" /\ waiting = None /\ todo' = {n \in Names : job[n] # None}
        /\ \A n \in Names : active[n] # None => job[n] # None
        /\ UNCHANGED <<waiting, failed, answer, active, workers, started>>
    BY <1>8 DEF RemovesDone, tunnelVars
  <2>2. TypeOK'
    BY <1>2, <2>1 DEF TypeOK
  <2>3. OneOwnedWorker' /\ StoppedJoined' /\ AnswerInv' /\ StartedGood'
    BY <1>2, <2>1 DEF OneOwnedWorker, StoppedJoined, AnswerInv, StartedGood
  <2>4. PassInv'
    BY <1>2, <1>3, <2>1 DEF PassInv, Spec, Wanted, NilIsNew
  <2> QED BY <2>2, <2>3, <2>4
<1>9. CASE Reply
  <2>1. /\ recon = "apply" /\ recon' = "idle" /\ todo = {} /\ answer' = (IF failed THEN "error" ELSE "ok")
        /\ UNCHANGED <<todo, waiting, failed, active, workers, started>>
    BY <1>9 DEF Reply, tunnelVars
  <2>2. TypeOK'
    BY <1>2, <2>1 DEF TypeOK
  <2>3. OneOwnedWorker' /\ StoppedJoined' /\ PassInv' /\ StartedGood'
    BY <1>2, <2>1 DEF OneOwnedWorker, StoppedJoined, PassInv, StartedGood
  <2>4. \A n \in Names : Spec(n)' = Spec(n)
    BY <2>1 DEF Spec
  <2>5. AnswerInv'
    BY <1>2, <1>3, <2>1, <2>4 DEF AnswerInv, PassInv
  <2> QED BY <2>2, <2>3, <2>5
<1>10. CASE ReconCancelled \/ Drained
  <2>1. /\ recon' \in {"drain", "stopped"} /\ recon # "stopped"
        /\ recon' = "stopped" => \A n \in Names : active[n] = None
        /\ UNCHANGED <<todo, waiting, failed, answer, active, workers, started>>
    BY <1>10 DEF ReconCancelled, Drained, tunnelVars
  <2>2. TypeOK'
    BY <1>2, <2>1 DEF TypeOK
  <2>3. StoppedJoined'
    BY Zenon, <2>1 DEF StoppedJoined, OneOwnedWorker, TypeOK
  <2>4. OneOwnedWorker' /\ PassInv' /\ AnswerInv' /\ StartedGood'
    BY <1>2, <2>1 DEF OneOwnedWorker, PassInv, AnswerInv, StartedGood
  <2> QED BY <2>2, <2>3, <2>4
<1> QED BY <1>4, <1>5, <1>6, <1>7, <1>8, <1>9, <1>10 DEF ReconStep

\* The reconciler for any tunnels, specs and contents: one worker per tunnel,
\* owned by the map; none left behind by the stopped channel; and an answer
\* that tells the truth about every tunnel of its request.
THEOREM ReconcileInvAlways == ASSUME NilIsNew PROVE RunSpec => []ReconcileInv
<1>1. ReconcileIInv /\ UNCHANGED vars => ReconcileIInv'
  BY DEF ReconcileIInv, TypeOK, OneOwnedWorker, StoppedJoined, PassInv, AnswerInv, StartedGood, Spec, Wanted,
         vars, sourceVars, watchVars, loopVars, reconVars, tunnelVars
<1>2. ReconcileIInv /\ [Next]_vars => ReconcileIInv'
  BY <1>1, SurroundingsKeep, LoopKeeps, ReconKeeps DEF Next
<1>3. ReconcileIInv => ReconcileInv
  <2> SUFFICES ASSUME ReconcileIInv PROVE AnswerTruthful
    BY DEF ReconcileIInv, ReconcileInv
  <2> QED BY DEF ReconcileIInv, AnswerInv, AnswerTruthful, Wanted
<1> QED BY <1>2, <1>3, ReconcileIInvInit, PTL DEF RunSpec
=============================================================================
