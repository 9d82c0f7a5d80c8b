---- MODULE UIRuntime ----
(***************************************************************************)
(* rstream ui: the event loop, its queue of updates, the runtime it shows  *)
(* (a client, its inventory store and their context), the switch to        *)
(* another runtime in the background, the target picker and the WebTTY     *)
(* session.  Everything the user does, and every update, runs on the event *)
(* loop; the goroutines hand their results over as updates that name what  *)
(* they belong to.  A store's content is its number of changes.  Layout,   *)
(* the help page and the wording of messages are left out.                 *)
(***************************************************************************)
EXTENDS Naturals, Sequences, FiniteSets

CONSTANTS Targets,      \* contexts and projects one can switch to
          MaxRuntimes,  \* runtimes, the first one included
          MaxSessions, MaxLoads,
          MaxChanges,   \* changes of a store
          QueueSize,    \* uiUpdateQueueSize
          EventQueue    \* events the screen holds for the event loop

VARIABLES main,     \* "runs" | "drains" | "stopping" | "joinStore" | "joinAsync" | "discards" | "returned"
          ctx,      \* the command's context is cancelled
          page,     \* "inventory" | "target" | "identity" | "session"
          cur,      \* the runtime shown
          switch,   \* the runtime being prepared, or 0
          shown,    \* [of, ver]: u.snapshot
          rows,     \* [of, ver]: the rows of the table, of = 0 when there are none
          session,  \* the open session, or 0
          picker,   \* [load, loading, from, targets] of the target picker, load = 0 without one
          updates,  \* u.updates: <<[kind, n, ver]>>
          wakes,    \* wake-up events the event loop has not seen
          config,   \* [known, default]: the configuration file
          rt,       \* runtime -> its parts and its goroutines
          ses,      \* session -> [st, of, ended, by, wait]
          dis       \* load of the picker -> [st, cancel, found]

vars == <<main, ctx, page, cur, switch, shown, rows, session, picker, updates, wakes, config, rt, ses, dis>>

Runtimes == 1..MaxRuntimes
Nil == [of |-> 0, ver |-> 0]
Unused == [target |-> "none", known |-> {}, saved |-> FALSE, cancel |-> FALSE, client |-> "none", store |-> "off", ready |-> "no",
           ver |-> 0, note |-> FALSE, snap |-> 0, watch |-> "off", prep |-> "off", result |-> "none", retire |-> "off"]
Started(r) == [r EXCEPT !.client = "open", !.store = "dial"]
NoSession == [st |-> "none", of |-> 0, ended |-> FALSE, by |-> "none", wait |-> "off"]
NoLoad == [st |-> "off", cancel |-> FALSE, found |-> {}]
NoPicker == [load |-> 0, loading |-> FALSE, from |-> 0, targets |-> {}]

Cancelled(i) == ctx \/ rt[i].cancel
NextRuntime == Cardinality({i \in Runtimes : rt[i].target # "none"}) + 1
NextSession == Cardinality({j \in 1..MaxSessions : ses[j].st # "none"}) + 1
NextLoad == Cardinality({k \in 1..MaxLoads : dis[k].st # "off"}) + 1

----------------------------------------------------------------------------
(* postUpdate: into the queue, or discarded once a context is cancelled,   *)
(* then a wake-up that is retried until the event loop takes it            *)

Enqueue(u) == Len(updates) < QueueSize /\ updates' = Append(updates, u)
Wake(gone) == (wakes < EventQueue /\ wakes' = wakes + 1) \/ (gone /\ UNCHANGED wakes)

----------------------------------------------------------------------------
(* The store of a runtime *)

Changed(r) == [r EXCEPT !.ver = @ + 1, !.note = TRUE]

\* An event of the watch: applyEvent, the connection state, and the first one
\* makes the store ready.
StoreEvent(i) ==
  /\ rt[i].store \in {"dial", "watch"} /\ rt[i].ver < MaxChanges /\ rt[i].client = "open"
  /\ rt' = [rt EXCEPT ![i] = [Changed(@) EXCEPT !.store = "watch", !.ready = IF @ = "no" THEN "ok" ELSE @]]
  /\ UNCHANGED <<main, ctx, page, cur, switch, shown, rows, session, picker, updates, wakes, config, ses, dis>>

\* The watch ends: before the first event of a runtime being prepared for
\* good, otherwise until the back-off is over.
StoreFails(i) ==
  /\ rt[i].store \in {"dial", "watch"} /\ ~Cancelled(i)
  /\ rt' = [rt EXCEPT ![i] = IF rt[i].ready = "no" THEN [@ EXCEPT !.ready = "error", !.store = "done"]
                             ELSE [@ EXCEPT !.store = "backoff", !.note = TRUE]]
  /\ UNCHANGED <<main, ctx, page, cur, switch, shown, rows, session, picker, updates, wakes, config, ses, dis>>

StoreRetries(i) ==
  /\ rt[i].store = "backoff" /\ rt' = [rt EXCEPT ![i].store = "dial", ![i].note = TRUE]
  /\ UNCHANGED <<main, ctx, page, cur, switch, shown, rows, session, picker, updates, wakes, config, ses, dis>>

StoreStops(i) ==
  /\ rt[i].store \in {"dial", "watch", "backoff"} /\ Cancelled(i)
  /\ rt' = [rt EXCEPT ![i].store = "done"]
  /\ UNCHANGED <<main, ctx, page, cur, switch, shown, rows, session, picker, updates, wakes, config, ses, dis>>

snapshot(i) == [of |-> i, ver |-> rt[i].ver]

\* watchStore: a change, its snapshot, and the update that shows it.
WatchStore(i) ==
  /\ \/ /\ rt[i].watch = "idle" /\ rt[i].note
        /\ rt' = [rt EXCEPT ![i].watch = "reads", ![i].note = FALSE] /\ UNCHANGED <<updates, wakes>>
     \/ /\ rt[i].watch = "reads"
        /\ rt' = [rt EXCEPT ![i].watch = "post", ![i].snap = snapshot(i).ver] /\ UNCHANGED <<updates, wakes>>
     \/ /\ rt[i].watch = "post" /\ Enqueue([kind |-> "snapshot", n |-> i, ver |-> rt[i].snap])
        /\ rt' = [rt EXCEPT ![i].watch = "wake"] /\ UNCHANGED wakes
     \/ /\ rt[i].watch = "post" /\ Cancelled(i)
        /\ rt' = [rt EXCEPT ![i].watch = "idle"] /\ UNCHANGED <<updates, wakes>>
     \/ /\ rt[i].watch = "wake" /\ Wake(Cancelled(i))
        /\ rt' = [rt EXCEPT ![i].watch = "idle"] /\ UNCHANGED updates
     \/ /\ rt[i].watch = "idle" /\ Cancelled(i)
        /\ rt' = [rt EXCEPT ![i].watch = "over"] /\ UNCHANGED <<updates, wakes>>
  /\ UNCHANGED <<main, ctx, page, cur, switch, shown, rows, session, picker, config, ses, dis>>

----------------------------------------------------------------------------
(* Switching to another runtime *)

\* The context or the project of the target is still configured.
resolves(i) == rt[i].target \in config.known

\* persistTarget makes the target the default of the configuration file, in
\* one locked update; a context that is gone from it is refused.
PersistTarget(i) ==
  /\ rt[i].prep = "persist"
  /\ \/ /\ resolves(i)
        /\ config' = [config EXCEPT !.default = rt[i].target]
        /\ rt' = [rt EXCEPT ![i].prep = "resolve", ![i].saved = TRUE]
     \/ /\ rt' = [rt EXCEPT ![i].prep = "post", ![i].cancel = TRUE, ![i].result = "error"]
        /\ UNCHANGED config
  /\ UNCHANGED <<main, ctx, page, cur, switch, shown, rows, session, picker, updates, wakes, ses, dis>>

\* The file is read again, the target looked up and resolved, the client
\* created and its store started.
PrepareTarget(i) ==
  /\ rt[i].prep = "resolve"
  /\ \/ resolves(i) /\ rt' = [rt EXCEPT ![i] = [Started(@) EXCEPT !.prep = "await", !.known = config.known]]
     \/ rt' = [rt EXCEPT ![i].prep = "post", ![i].cancel = TRUE, ![i].result = "error"]
  /\ UNCHANGED <<main, ctx, page, cur, switch, shown, rows, session, picker, updates, wakes, config, ses, dis>>

\* The first snapshot, an error, the time-out or the cancelled context; all but
\* the first close what was prepared.
AwaitReady(i) ==
  /\ rt[i].prep = "await"
  /\ \/ rt[i].ready = "ok" /\ rt' = [rt EXCEPT ![i].prep = "post", ![i].result = "ok"]
     \/ rt' = [rt EXCEPT ![i].prep = "closing", ![i].cancel = TRUE, ![i].result = "error", ![i].client = "closed"]
  /\ UNCHANGED <<main, ctx, page, cur, switch, shown, rows, session, picker, updates, wakes, config, ses, dis>>

\* uiRuntimeSwitchResult.Close waits for the store.
CloseResult(i) ==
  /\ rt[i].prep \in {"closing", "discard"} /\ rt[i].store = "done"
  /\ rt' = [rt EXCEPT ![i].prep = IF @ = "closing" THEN "post" ELSE "over"]
  /\ UNCHANGED <<main, ctx, page, cur, switch, shown, rows, session, picker, updates, wakes, config, ses, dis>>

Closed(r) == [r EXCEPT !.cancel = TRUE, !.client = IF @ = "none" THEN "none" ELSE "closed"]

PostSwitch(i) ==
  /\ \/ /\ rt[i].prep = "post" /\ Enqueue([kind |-> "switch", n |-> i, ver |-> 0])
        /\ rt' = [rt EXCEPT ![i].prep = "wake"] /\ UNCHANGED wakes
     \/ /\ rt[i].prep = "post" /\ ctx
        /\ rt' = [rt EXCEPT ![i] = [Closed(@) EXCEPT !.prep = IF rt[i].store = "off" THEN "over" ELSE "discard"]]
        /\ UNCHANGED <<updates, wakes>>
     \/ rt[i].prep = "wake" /\ Wake(ctx) /\ rt' = [rt EXCEPT ![i].prep = "over"] /\ UNCHANGED updates
  /\ UNCHANGED <<main, ctx, page, cur, switch, shown, rows, session, picker, config, ses, dis>>

\* A replaced runtime: its client is closed, then its store waited for.
Retire(i) ==
  /\ \/ rt[i].retire = "runs" /\ rt' = [rt EXCEPT ![i].retire = "waits", ![i].client = "closed"]
     \/ rt[i].retire = "waits" /\ rt[i].store = "done" /\ rt' = [rt EXCEPT ![i].retire = "over"]
  /\ UNCHANGED <<main, ctx, page, cur, switch, shown, rows, session, picker, updates, wakes, config, ses, dis>>

----------------------------------------------------------------------------
(* What the event loop shows *)

\* renderInventory: no rows while a switch is prepared.
Rendered(snap, sw) == IF sw # 0 THEN Nil ELSE snap

\* refreshSnapshot renders the inventory only when its page is the active one.
refreshSnapshot(snap, sw) ==
  /\ shown' = snap
  /\ rows' = IF page = "inventory" THEN Rendered(snap, sw) ELSE rows

\* closeSession: the session's context is cancelled and its view closed and
\* joined; back to the inventory.
closeSession(by) ==
  /\ ses' = [ses EXCEPT ![session] = [@ EXCEPT !.st = "closed", !.by = by]]
  /\ session' = 0 /\ page' = "inventory" /\ rows' = Rendered(shown, switch)

closeTargetPicker ==
  /\ dis' = [dis EXCEPT ![picker.load] = IF picker.load = 0 THEN @ ELSE [@ EXCEPT !.cancel = TRUE]]
  /\ picker' = NoPicker
  /\ page' = IF page = "target" THEN "inventory" ELSE page

\* activateRuntime puts the prepared runtime in the place of the current one,
\* which is cancelled and closed in the background.
activateRuntime(i) ==
  /\ cur' = i /\ switch' = 0
  /\ refreshSnapshot(snapshot(i), 0)
  /\ rt' = [rt EXCEPT ![i].watch = "idle", ![cur].cancel = TRUE, ![cur].retire = "runs"]

----------------------------------------------------------------------------
(* The updates *)

\* A wake-up event starts drainUpdates.
Drain ==
  /\ main = "runs" /\ wakes > 0 /\ wakes' = wakes - 1 /\ main' = "drains"
  /\ UNCHANGED <<ctx, page, cur, switch, shown, rows, session, picker, updates, config, rt, ses, dis>>

Drained ==
  /\ main = "drains" /\ updates = <<>> /\ main' = "runs"
  /\ UNCHANGED <<ctx, page, cur, switch, shown, rows, session, picker, updates, wakes, config, rt, ses, dis>>

NextUpdate == main = "drains" /\ updates # <<>> /\ updates' = Tail(updates)
Update(kind) == NextUpdate /\ Head(updates).kind = kind

\* ApplySnapshot, whichever runtime the snapshot is of.
ApplyAny ==
  /\ Update("snapshot")
  /\ refreshSnapshot([of |-> Head(updates).n, ver |-> Head(updates).ver], switch)
  /\ UNCHANGED <<main, ctx, page, cur, switch, session, picker, wakes, config, rt, ses, dis>>

\* A snapshot counts only for the runtime it was taken of.
ApplySnapshot ==
  /\ Update("snapshot")
  /\ LET u == Head(updates) IN
     IF u.n = cur THEN refreshSnapshot([of |-> u.n, ver |-> u.ver], switch) ELSE UNCHANGED <<shown, rows>>
  /\ UNCHANGED <<main, ctx, page, cur, switch, session, picker, wakes, config, rt, ses, dis>>

ApplySwitch ==
  /\ Update("switch")
  /\ LET i == Head(updates).n IN
     IF rt[i].result = "ok" THEN activateRuntime(i)
     ELSE /\ switch' = 0 /\ rows' = (IF page = "inventory" THEN shown ELSE rows)
          /\ UNCHANGED <<cur, shown, rt>>
  /\ UNCHANGED <<main, ctx, page, session, picker, wakes, config, ses, dis>>

\* The end of a session closes the view only if it is still that session's.
ApplySessionEnd ==
  /\ Update("session")
  /\ IF Head(updates).n = session THEN closeSession("result") ELSE UNCHANGED <<ses, session, page, rows>>
  /\ UNCHANGED <<main, ctx, cur, switch, shown, picker, wakes, config, rt, dis>>

\* A discovery counts only for its picker, and only the latest one.
ApplyDiscovery ==
  /\ Update("discovery")
  /\ LET k == Head(updates).n IN
     picker' = IF picker.load # 0 /\ ~dis[k].cancel /\ ~ctx
               THEN [picker EXCEPT !.loading = FALSE, !.from = k, !.targets = dis[k].found] ELSE picker
  /\ UNCHANGED <<main, ctx, page, cur, switch, shown, rows, session, wakes, config, rt, ses, dis>>

----------------------------------------------------------------------------
(* The user *)

\* showTargetPicker, not during a switch; the targets come from the runtime's
\* configuration until a discovery was made.
showTargetPicker ==
  /\ main = "runs" /\ page = "inventory" /\ switch = 0 /\ NextLoad <= MaxLoads
  /\ page' = "target"
  /\ picker' = [load |-> NextLoad, loading |-> TRUE, from |-> 0, targets |-> rt[cur].known]
  /\ dis' = [dis EXCEPT ![NextLoad].st = "load"]
  /\ UNCHANGED <<main, ctx, cur, switch, shown, rows, session, updates, wakes, config, rt, ses>>

\* The discovery under way is cancelled and another one started.
reloadTargetPicker ==
  /\ main = "runs" /\ page = "target" /\ NextLoad <= MaxLoads
  /\ picker' = [picker EXCEPT !.load = NextLoad, !.loading = TRUE]
  /\ dis' = [dis EXCEPT ![picker.load].cancel = TRUE, ![NextLoad].st = "load"]
  /\ UNCHANGED <<main, ctx, page, cur, switch, shown, rows, session, updates, wakes, config, rt, ses>>

LeaveTargetPicker ==
  /\ main = "runs" /\ page = "target" /\ closeTargetPicker
  /\ UNCHANGED <<main, ctx, cur, switch, shown, rows, session, updates, wakes, config, rt, ses>>

\* switchTarget: refused when the command ends; otherwise the rows go and the
\* new runtime is prepared in the background.
switchTarget(t, persist) ==
  /\ main = "runs" /\ page = "target" /\ t \in picker.targets /\ ~ctx /\ switch = 0
  /\ NextRuntime <= MaxRuntimes
  /\ switch' = NextRuntime /\ rows' = Nil
  /\ rt' = [rt EXCEPT ![NextRuntime].target = t, ![NextRuntime].prep = IF persist THEN "persist" ELSE "resolve"]
  /\ closeTargetPicker
  /\ UNCHANGED <<main, ctx, cur, shown, session, updates, wakes, config, ses>>

\* An inventory row, or an identity picked for it: its server is online and a
\* session opens through the current client, or there is only a message.
openWebTTY ==
  /\ main = "runs" /\ page \in {"inventory", "identity"} /\ rows.of # 0
  /\ \/ /\ ~ctx /\ NextSession <= MaxSessions
        /\ ses' = [ses EXCEPT ![NextSession] = [NoSession EXCEPT !.st = "open", !.of = cur, !.wait = "wait"]]
        /\ session' = NextSession /\ page' = "session"
     \/ page' = "inventory" /\ UNCHANGED <<ses, session>>
  /\ UNCHANGED <<main, ctx, cur, switch, shown, rows, picker, updates, wakes, config, rt, dis>>

\* Several identities fit the server: the user picks one.
showWebTTYIdentityPicker ==
  /\ main = "runs" /\ page = "inventory" /\ rows.of # 0 /\ page' = "identity"
  /\ UNCHANGED <<main, ctx, cur, switch, shown, rows, session, picker, updates, wakes, config, rt, ses, dis>>

\* The leader key and q.
LeaveSession ==
  /\ main = "runs" /\ session # 0 /\ closeSession("user")
  /\ UNCHANGED <<main, ctx, cur, switch, shown, picker, updates, wakes, config, rt, dis>>

\* q or Ctrl-C, outside a session.
Quit ==
  /\ main = "runs" /\ page # "session"
  /\ ctx' = TRUE /\ main' = "stopping"
  /\ UNCHANGED <<page, cur, switch, shown, rows, session, picker, updates, wakes, config, rt, ses, dis>>

\* A signal cancels the context and leaves the event loop running.
Signal ==
  /\ ~ctx /\ main \in {"runs", "drains"} /\ ctx' = TRUE
  /\ UNCHANGED <<main, page, cur, switch, shown, rows, session, picker, updates, wakes, config, rt, ses, dis>>

\* Another process deletes a context.
ContextDeleted(t) ==
  /\ t \in config.known
  /\ config' = [known |-> config.known \ {t}, default |-> IF config.default = t THEN "none" ELSE config.default]
  /\ UNCHANGED <<main, ctx, page, cur, switch, shown, rows, session, picker, updates, wakes, rt, ses, dis>>

----------------------------------------------------------------------------
(* Sessions and discoveries *)

SessionEnds(j) ==
  /\ ses[j].st = "open" /\ ~ses[j].ended
  /\ ses' = [ses EXCEPT ![j].ended = TRUE]
  /\ UNCHANGED <<main, ctx, page, cur, switch, shown, rows, session, picker, updates, wakes, config, rt, dis>>

\* The goroutine waits for the session and posts how it ended.
SessionResult(j) ==
  LET gone == ctx \/ ses[j].st = "closed" IN
  /\ \/ ses[j].wait = "wait" /\ (ses[j].ended \/ gone) /\ ses' = [ses EXCEPT ![j].wait = "post"] /\ UNCHANGED <<updates, wakes>>
     \/ /\ ses[j].wait = "post" /\ Enqueue([kind |-> "session", n |-> j, ver |-> 0])
        /\ ses' = [ses EXCEPT ![j].wait = "wake"] /\ UNCHANGED wakes
     \/ ses[j].wait = "post" /\ gone /\ ses' = [ses EXCEPT ![j].wait = "over"] /\ UNCHANGED <<updates, wakes>>
     \/ ses[j].wait = "wake" /\ Wake(gone) /\ ses' = [ses EXCEPT ![j].wait = "over"] /\ UNCHANGED updates
  /\ UNCHANGED <<main, ctx, page, cur, switch, shown, rows, session, picker, config, rt, dis>>

\* discoverTargets reads the configuration file and lists the projects; a file
\* that cannot be read leaves the configuration of the runtime shown by then.
discoverTargets == {config.known, rt[cur].known}

Discover(k) ==
  LET gone == ctx \/ dis[k].cancel IN
  /\ \/ /\ dis[k].st = "load"
        /\ \E found \in discoverTargets : dis' = [dis EXCEPT ![k].st = "post", ![k].found = found]
        /\ UNCHANGED <<updates, wakes>>
     \/ /\ dis[k].st = "post" /\ Enqueue([kind |-> "discovery", n |-> k, ver |-> 0])
        /\ dis' = [dis EXCEPT ![k].st = "wake"] /\ UNCHANGED wakes
     \/ dis[k].st = "post" /\ gone /\ dis' = [dis EXCEPT ![k].st = "over"] /\ UNCHANGED <<updates, wakes>>
     \/ dis[k].st = "wake" /\ Wake(gone) /\ dis' = [dis EXCEPT ![k].st = "over"] /\ UNCHANGED updates
  /\ UNCHANGED <<main, ctx, page, cur, switch, shown, rows, session, picker, config, rt, ses>>

----------------------------------------------------------------------------
(* shutdown *)

AsyncDone ==
  /\ \A i \in Runtimes : rt[i].watch \in {"off", "over"} /\ rt[i].prep \in {"off", "over"} /\ rt[i].retire \in {"off", "over"}
  /\ \A j \in 1..MaxSessions : ses[j].wait \in {"off", "over"}
  /\ \A k \in 1..MaxLoads : dis[k].st \in {"off", "over"}

\* The session, the contexts and the current client are closed.
shutdown ==
  /\ main = "stopping" /\ main' = "joinStore"
  /\ IF session = 0 THEN UNCHANGED <<ses, session, page, rows>> ELSE closeSession("shutdown")
  /\ rt' = [rt EXCEPT ![cur] = Closed(@)]
  /\ UNCHANGED <<ctx, cur, switch, shown, picker, updates, wakes, config, dis>>

JoinStore ==
  /\ main = "joinStore" /\ rt[cur].store = "done"
  /\ main' = "joinAsync" /\ closeTargetPicker
  /\ UNCHANGED <<ctx, cur, switch, shown, rows, session, updates, wakes, config, rt, ses>>

\* StopAndWait
JoinAsync ==
  /\ main = "joinAsync" /\ AsyncDone /\ main' = "discards"
  /\ UNCHANGED <<ctx, page, cur, switch, shown, rows, session, picker, updates, wakes, config, rt, ses, dis>>

\* drainUpdates(false): a prepared runtime nobody took is closed.
Discard ==
  /\ main = "discards"
  /\ IF updates = <<>> THEN main' = "returned" /\ UNCHANGED <<updates, rt>>
     ELSE /\ updates' = Tail(updates) /\ UNCHANGED main
          /\ LET u == Head(updates) IN
             rt' = IF u.kind = "switch" THEN [rt EXCEPT ![u.n] = [Closed(@) EXCEPT !.store = IF @ = "off" THEN "off" ELSE "done"]] ELSE rt
  /\ UNCHANGED <<ctx, page, cur, switch, shown, rows, session, picker, wakes, config, ses, dis>>

----------------------------------------------------------------------------
Init ==
  /\ main = "runs" /\ ctx = FALSE /\ page = "inventory" /\ cur = 1 /\ switch = 0
  /\ shown = [of |-> 1, ver |-> 0] /\ rows = shown /\ session = 0 /\ picker = NoPicker
  /\ updates = <<>> /\ wakes = 0 /\ config = [known |-> Targets, default |-> "none"]
  /\ rt = [i \in Runtimes |-> IF i = 1 THEN [Started(Unused) EXCEPT !.target = "first", !.known = Targets, !.ready = "off", !.watch = "idle"]
                              ELSE Unused]
  /\ ses = [j \in 0..MaxSessions |-> NoSession] /\ dis = [k \in 0..MaxLoads |-> NoLoad]

LoopRuns == Drain \/ Drained \/ ApplySnapshot \/ ApplySwitch \/ ApplySessionEnd \/ ApplyDiscovery
ShutdownRuns == shutdown \/ JoinStore \/ JoinAsync \/ Discard
\* The goroutines of a runtime: the store's, the one that watches it, the one
\* that prepares a switch to it and the one that closes it.
StoreRuns(i) == StoreRetries(i) \/ StoreStops(i)
PrepareRuns(i) == PersistTarget(i) \/ PrepareTarget(i) \/ AwaitReady(i) \/ CloseResult(i) \/ PostSwitch(i)
User ==
  \/ showTargetPicker \/ reloadTargetPicker \/ LeaveTargetPicker \/ openWebTTY \/ showWebTTYIdentityPicker \/ LeaveSession \/ Quit \/ Signal
  \/ \E t \in Targets : ContextDeleted(t) \/ \E p \in BOOLEAN : switchTarget(t, p)
Next ==
  \/ LoopRuns \/ ShutdownRuns \/ User
  \/ \E i \in Runtimes : StoreRuns(i) \/ WatchStore(i) \/ PrepareRuns(i) \/ Retire(i) \/ StoreEvent(i) \/ StoreFails(i)
  \/ \E j \in 1..MaxSessions : SessionEnds(j) \/ SessionResult(j)
  \/ \E k \in 1..MaxLoads : Discover(k)

Spec == Init /\ [][Next]_vars
\* The event loop and the goroutines run; nothing is assumed of the user or of
\* the engine.
WatcherRuns == \E i \in Runtimes : WatchStore(i)
Runs ==
  \/ ShutdownRuns
  \/ \E i \in Runtimes : StoreRuns(i) \/ PrepareRuns(i) \/ Retire(i)
  \/ (\E j \in 1..MaxSessions : SessionResult(j)) \/ (\E k \in 1..MaxLoads : Discover(k))
FairSpec == Spec /\ WF_vars(LoopRuns) /\ WF_vars(WatcherRuns) /\ WF_vars(Runs)

TypeOK ==
  /\ main \in {"runs", "drains", "stopping", "joinStore", "joinAsync", "discards", "returned"} /\ ctx \in BOOLEAN
  /\ page \in {"inventory", "target", "identity", "session"} /\ cur \in Runtimes /\ switch \in 0..MaxRuntimes
  /\ session \in 0..MaxSessions /\ picker.load \in 0..MaxLoads /\ Len(updates) <= QueueSize
  /\ \A i \in Runtimes : rt[i].client \in {"none", "open", "closed"} /\ rt[i].store \in {"off", "dial", "watch", "backoff", "done"}

\* What is on the screen belongs to the runtime shown: the rows, and the open
\* session, which is never there while another runtime is being prepared; and
\* outside the shutdown the client behind them is open.
ShowsCurrent ==
  /\ shown.of = cur /\ rows.of \in {0, cur} /\ (switch # 0 => rows = Nil)
  /\ session # 0 => ses[session].of = cur /\ switch = 0 /\ page = "session"
  /\ main \in {"runs", "drains"} => rt[cur].client = "open" /\ rt[cur].retire = "off"

\* Every open client is somebody's: the runtime shown, one being prepared or
\* waiting in the queue, or one being closed.  After the shutdown none is open,
\* no store runs and no session is left.
NoOrphan ==
  /\ \A i \in Runtimes : rt[i].client = "open" =>
       i = cur \/ rt[i].prep \notin {"off", "over"} \/ rt[i].retire = "runs"
         \/ \E n \in 1..Len(updates) : updates[n].kind = "switch" /\ updates[n].n = i
  /\ main = "returned" =>
       /\ \A i \in Runtimes : rt[i].client # "open" /\ rt[i].store \in {"off", "done"}
       /\ \A j \in 1..MaxSessions : ses[j].st # "open"

\* No change of the inventory is forgotten: when nothing is on its way (no
\* notification, no snapshot being posted, no update queued) the snapshot shown
\* is the store's content.
NoLostChange ==
  LET queued == \E n \in 1..Len(updates) : updates[n].kind = "snapshot" /\ updates[n].n = cur
  IN ~ctx /\ rt[cur].watch = "idle" /\ ~rt[cur].note /\ ~queued => shown.ver = rt[cur].ver

\* The result of a session closes that session only, and the picker shows what
\* its latest discovery found.
OwnResults ==
  /\ \A j \in 1..MaxSessions : ses[j].by = "result" => ses[j].ended \/ ctx
  /\ picker.load # 0 /\ ~picker.loading => picker.from = picker.load /\ picker.targets = dis[picker.load].found

UIInv == ShowsCurrent /\ NoOrphan /\ NoLostChange /\ OwnResults

\* Under fair goroutines a quit UI returns, a switch comes to an end, and the
\* inventory shown is up to date.
Settled ==
  /\ main \in {"runs", "drains", "returned"}
  /\ main # "returned" /\ ~ctx => switch = 0 /\ shown.ver = rt[cur].ver
====
