---------------------------- MODULE AutoTransport ----------------------------
(***************************************************************************)
(* AutoTransport (auto_transport.go): the first Dial races QUIC against    *)
(* TLS and pins the winner; the others wait for it.  The losing attempt is *)
(* cleaned up in the background, and Close starts over.                    *)
(*                                                                         *)
(* A Dial makes at most one selection, so a selection is named after the   *)
(* dialer that makes it.  All the QUIC connections belong to the one       *)
(* QUICTransport of the instance, and closing that closes them all.        *)
(***************************************************************************)
EXTENDS Naturals, FiniteSets

CONSTANTS
  Dialers,  \* calls of Dial
  Closers,  \* calls of Close
  None

Modes == {"quic", "tls"}

VARIABLES
  generation,
  selected,   \* the transport pinned, or None
  selecting,  \* the dialer that selects, or None
  cleanup,    \* cleanupDone: the dialer whose selection is being cleaned, or None
  pc,
  seen,       \* the generation a dialer noted
  waitsFor,   \* the selection, or the cleanup, a dialer waits for
  ended,      \* dialers whose context has ended
  cancel,     \* selections whose context was cancelled
  attempt,    \* per selection and mode: "none", "running", "sent", "taken"
  conn,       \* per selection and mode: "none", "open", "closed"
  winner,     \* per selection: the mode that won, or None
  done,       \* selections over: selectionDone is closed
  cleaner,    \* per selection: "none", "running", "ended"
  cpc,
  took        \* what Close waits for

selVars == <<attempt, conn, winner, cleaner>>
autoVars == <<generation, selected, selecting, cleanup, done>>
dialVars == <<pc, seen, waitsFor, ended, cancel>>
closeVars == <<cpc, took>>
vars == <<autoVars, dialVars, selVars, closeVars>>

Init ==
  /\ generation = 0 /\ selected = None /\ selecting = None /\ cleanup = None
  /\ pc = [d \in Dialers |-> "idle"]
  /\ seen = [d \in Dialers |-> 0]
  /\ waitsFor = [d \in Dialers |-> None]
  /\ ended = {} /\ cancel = {} /\ done = {}
  /\ attempt = [d \in Dialers |-> [m \in Modes |-> "none"]]
  /\ conn = [d \in Dialers |-> [m \in Modes |-> "none"]]
  /\ winner = [d \in Dialers |-> None]
  /\ cleaner = [d \in Dialers |-> "none"]
  /\ cpc = [k \in Closers |-> "idle"]
  /\ took = [k \in Closers |-> [closes |-> None, selection |-> None, cleanup |-> None]]

Closed(x) == IF x = "open" THEN "closed" ELSE x

\* closeAutoTransport: a TLS Transport has no Close.
CloseTransport(m, c) ==
  IF m # "quic" THEN c
  ELSE [d \in Dialers |-> [c[d] EXCEPT !["quic"] = Closed(@)]]

Outstanding(d) == {m \in Modes : attempt[d][m] \in {"running", "sent"}}

-----------------------------------------------------------------------------
(* Dial.                                                                   *)

\* The first lock of Dial notes the generation, a later one compares it.
Stale(d) == pc[d] = "again" /\ seen[d] # generation

Look(d) ==
  /\ pc[d] \in {"idle", "again"}
  /\ seen' = [seen EXCEPT ![d] = generation]
  /\ \/ /\ Stale(d)
        /\ pc' = [pc EXCEPT ![d] = "returned"]
        /\ UNCHANGED <<waitsFor, selecting, attempt>>
     \/ /\ ~Stale(d) /\ selected # None
        /\ pc' = [pc EXCEPT ![d] = "returned"]
        /\ UNCHANGED <<waitsFor, selecting, attempt>>
     \/ /\ ~Stale(d) /\ selected = None /\ selecting # None
        /\ waitsFor' = [waitsFor EXCEPT ![d] = selecting]
        /\ pc' = [pc EXCEPT ![d] = "wait"]
        /\ UNCHANGED <<selecting, attempt>>
     \/ /\ ~Stale(d) /\ selected = None /\ selecting = None /\ cleanup # None
        /\ waitsFor' = [waitsFor EXCEPT ![d] = cleanup]
        /\ pc' = [pc EXCEPT ![d] = "cleanup"]
        /\ UNCHANGED <<selecting, attempt>>
     \/ /\ ~Stale(d) /\ selected = None /\ selecting = None /\ cleanup = None
        /\ selecting' = d
        /\ attempt' = [attempt EXCEPT ![d]["quic"] = "running"]
        /\ pc' = [pc EXCEPT ![d] = "select"]
        /\ UNCHANGED waitsFor
  /\ UNCHANGED <<generation, selected, cleanup, done, ended, cancel, conn, winner, cleaner, closeVars>>

\* The selection of another Dial is over, or the context of this one ends.
Wait(d) ==
  /\ pc[d] = "wait"
  /\ \/ waitsFor[d] \in done /\ pc' = [pc EXCEPT ![d] = "again"]
     \/ d \in ended /\ pc' = [pc EXCEPT ![d] = "returned"]
  /\ UNCHANGED <<autoVars, seen, waitsFor, ended, cancel, selVars, closeVars>>

\* The losers of the last selection have to be gone first.
WaitCleanup(d) ==
  /\ pc[d] = "cleanup"
  /\ \/ /\ cleaner[waitsFor[d]] = "ended"
        /\ cleanup' = IF cleanup = waitsFor[d] THEN None ELSE cleanup
        /\ pc' = [pc EXCEPT ![d] = "again"]
     \/ d \in ended /\ pc' = [pc EXCEPT ![d] = "returned"] /\ UNCHANGED cleanup
  /\ UNCHANGED <<generation, selected, selecting, done, seen, waitsFor, ended, cancel, selVars, closeVars>>

\* The context of selectTransport.
SelectionEnded(d) == d \in ended \cup cancel

\* The goroutines of the two attempts; the Dial of a transport is external.
AttemptSucceeds(d, m) ==
  /\ attempt[d][m] = "running"
  /\ attempt' = [attempt EXCEPT ![d][m] = "sent"]
  /\ conn' = [conn EXCEPT ![d][m] = "open"]
  /\ UNCHANGED <<autoVars, dialVars, winner, cleaner, closeVars>>

AttemptFails(d, m) ==
  /\ attempt[d][m] = "running"
  /\ attempt' = [attempt EXCEPT ![d][m] = "sent"]
  /\ UNCHANGED <<autoVars, dialVars, conn, winner, cleaner, closeVars>>

\* selectTransport: the head start is over.
FallbackTimer(d) ==
  /\ pc[d] = "select" /\ attempt[d]["tls"] = "none"
  /\ attempt' = [attempt EXCEPT ![d]["tls"] = "running"]
  /\ UNCHANGED <<autoVars, dialVars, conn, winner, cleaner, closeVars>>

\* What is outstanding is left to the cleaner.
Leave(d, a) ==
  cleaner' = [cleaner EXCEPT ![d] = IF \E m \in Modes : a[d][m] \in {"running", "sent"}
                                    THEN "running" ELSE "none"]

\* A result: the first connection wins and cancels the other attempt; the
\* failure of QUIC starts TLS.
Result(d, m) ==
  /\ pc[d] = "select" /\ attempt[d][m] = "sent"
  /\ LET taken == [attempt EXCEPT ![d][m] = "taken"] IN
     IF conn[d][m] = "open"
     THEN /\ attempt' = taken /\ winner' = [winner EXCEPT ![d] = m]
          /\ cancel' = cancel \cup {d}
          /\ Leave(d, taken)
          /\ pc' = [pc EXCEPT ![d] = "settle"]
     ELSE /\ attempt' = IF m = "quic" /\ taken[d]["tls"] = "none"
                        THEN [taken EXCEPT ![d]["tls"] = "running"] ELSE taken
          /\ pc' = [pc EXCEPT ![d] = IF \A n \in Modes : attempt'[d][n] = "taken"
                                     THEN "settle" ELSE "select"]
          /\ UNCHANGED <<winner, cancel, cleaner>>
  /\ UNCHANGED <<autoVars, seen, waitsFor, ended, conn, closeVars>>

\* ctx.Done: everything outstanding is cancelled and left to the cleaner.
SelectionStops(d) ==
  /\ pc[d] = "select" /\ SelectionEnded(d)
  /\ cancel' = cancel \cup {d}
  /\ Leave(d, attempt)
  /\ pc' = [pc EXCEPT ![d] = "settle"]
  /\ UNCHANGED <<autoVars, seen, waitsFor, ended, attempt, conn, winner, closeVars>>

\* cleanupAutoTransportResults: a late connection is closed, and QUIC that
\* did not win is closed as a whole.
Clean(d, m) ==
  /\ cleaner[d] = "running" /\ attempt[d][m] = "sent"
  /\ attempt' = [attempt EXCEPT ![d][m] = "taken"]
  /\ LET closed == [conn EXCEPT ![d][m] = Closed(@)] IN
     conn' = IF winner[d] # m THEN CloseTransport(m, closed) ELSE closed
  /\ cleaner' = [cleaner EXCEPT ![d] = IF Outstanding(d) = {m} THEN "ended" ELSE @]
  /\ UNCHANGED <<autoVars, dialVars, winner, closeVars>>

\* After selectTransport: a selection that Close overtook is undone, and its
\* cleanup waited for, before the next one may begin.
Settle(d) ==
  /\ pc[d] = "settle"
  /\ cancel' = cancel \cup {d}
  /\ IF seen[d] # generation
     THEN /\ conn' = IF winner[d] = None THEN conn
                     ELSE CloseTransport(winner[d], [conn EXCEPT ![d][winner[d]] = Closed(@)])
          /\ pc' = [pc EXCEPT ![d] = "undo"]
          /\ UNCHANGED <<selected, selecting, cleanup, done>>
     ELSE /\ selected' = IF winner[d] # None THEN winner[d] ELSE selected
          /\ cleanup' = IF cleaner[d] # "none" THEN d ELSE cleanup
          /\ selecting' = None /\ done' = done \cup {d}
          /\ pc' = [pc EXCEPT ![d] = "returned"]
          /\ conn' = conn
  /\ UNCHANGED <<generation, seen, waitsFor, ended, attempt, winner, cleaner, closeVars>>

Undo(d) ==
  /\ pc[d] = "undo" /\ cleaner[d] # "running"
  /\ selecting' = None /\ done' = done \cup {d}
  /\ winner' = [winner EXCEPT ![d] = None]
  /\ pc' = [pc EXCEPT ![d] = "returned"]
  /\ UNCHANGED <<generation, selected, cleanup, seen, waitsFor, ended, cancel, attempt, conn, cleaner,
                 closeVars>>

End(d) ==
  /\ d \notin ended /\ pc[d] \notin {"idle", "returned"}
  /\ ended' = ended \cup {d}
  /\ UNCHANGED <<autoVars, pc, seen, waitsFor, cancel, selVars, closeVars>>

-----------------------------------------------------------------------------
(* Close.                                                                  *)

\* Under mu, and the cancellation of the selection in progress.
Close(k) ==
  /\ cpc[k] = "idle"
  /\ generation' = generation + 1
  /\ cancel' = IF selecting = None THEN cancel ELSE cancel \cup {selecting}
  /\ selected' = None
  /\ took' = [took EXCEPT ![k] = [closes |-> selected, selection |-> selecting, cleanup |-> cleanup]]
  /\ cpc' = [cpc EXCEPT ![k] = "closing"]
  /\ UNCHANGED <<selecting, cleanup, done, pc, seen, waitsFor, ended, selVars>>

CloseSelected(k) ==
  /\ cpc[k] = "closing"
  /\ conn' = IF took[k].closes = None THEN conn ELSE CloseTransport(took[k].closes, conn)
  /\ cpc' = [cpc EXCEPT ![k] = "selection"]
  /\ UNCHANGED <<autoVars, dialVars, attempt, winner, cleaner, took>>

CloseWaits(k) ==
  /\ cpc[k] = "selection"
  /\ took[k].selection # None => took[k].selection \in done
  /\ took' = IF took[k].selection # None THEN [took EXCEPT ![k].cleanup = cleanup] ELSE took
  /\ cpc' = [cpc EXCEPT ![k] = "cleanup"]
  /\ UNCHANGED <<autoVars, dialVars, selVars>>

CloseReturns(k) ==
  /\ cpc[k] = "cleanup"
  /\ took[k].cleanup # None => cleaner[took[k].cleanup] = "ended"
  /\ cleanup' = IF cleanup = took[k].cleanup THEN None ELSE cleanup
  /\ cpc' = [cpc EXCEPT ![k] = "returned"]
  /\ UNCHANGED <<generation, selected, selecting, done, dialVars, selVars, took>>

-----------------------------------------------------------------------------
DialGoesOn(d) == Look(d) \/ Wait(d) \/ WaitCleanup(d) \/ SelectionStops(d) \/ Settle(d) \/ Undo(d)

DialStep(d) ==
  \/ DialGoesOn(d)
  \/ \E m \in Modes : Result(d, m) \/ Clean(d, m)

CloseStep(k) == CloseSelected(k) \/ CloseWaits(k) \/ CloseReturns(k)

Next ==
  \/ \E d \in Dialers : DialStep(d) \/ FallbackTimer(d) \/ End(d)
  \/ \E d \in Dialers, m \in Modes : AttemptSucceeds(d, m) \/ AttemptFails(d, m)
  \/ \E k \in Closers : Close(k) \/ CloseStep(k)

Spec == Init /\ [][Next]_vars

\* Goroutines go on as long as they can; an attempt whose context has ended
\* returns.
Runs ==
  \/ \E d \in Dialers :
       \/ pc[d] # "idle" /\ DialGoesOn(d)
       \/ \E m \in Modes : Clean(d, m) \/ (SelectionEnded(d) /\ AttemptFails(d, m))
  \/ \E k \in Closers : CloseStep(k)
Fairness == WF_vars(Runs)

-----------------------------------------------------------------------------
TypeOK ==
  /\ generation \in Nat
  /\ selected \in Modes \cup {None}
  /\ selecting \in Dialers \cup {None}
  /\ cleanup \in Dialers \cup {None}
  /\ pc \in [Dialers -> {"idle", "again", "wait", "cleanup", "select", "settle", "undo", "returned"}]
  /\ seen \in [Dialers -> 0..generation]
  /\ waitsFor \in [Dialers -> Dialers \cup {None}]
  /\ ended \in SUBSET Dialers /\ cancel \in SUBSET Dialers /\ done \in SUBSET Dialers
  /\ attempt \in [Dialers -> [Modes -> {"none", "running", "sent", "taken"}]]
  /\ conn \in [Dialers -> [Modes -> {"none", "open", "closed"}]]
  /\ winner \in [Dialers -> Modes \cup {None}]
  /\ cleaner \in [Dialers -> {"none", "running", "ended"}]
  /\ cpc \in [Closers -> {"idle", "closing", "selection", "cleanup", "returned"}]

\* The connection of a selection that pinned QUIC is closed by a Close only,
\* one that took the transport when QUIC was pinned: neither the cleanup nor
\* the undoing of an earlier selection, which close the same QUICTransport,
\* come late enough to close it.
PinnedConnectionOpen ==
  \A d \in Dialers :
    winner[d] = "quic" /\ d \in done =>
      \/ conn[d]["quic"] = "open"
      \/ \E k \in Closers : took[k].closes = "quic"

\* The connection of an attempt that did not win is closed: it is open only
\* while its selection, or the cleaner of it, still has to take it.
LosersClosed ==
  \A d \in Dialers, m \in Modes :
    conn[d][m] = "open" /\ winner[d] # m =>
      attempt[d][m] = "sent" /\ (pc[d] = "select" \/ cleaner[d] = "running")

\* The connections of every selection, past and present.
AutoInv == TypeOK /\ PinnedConnectionOpen /\ LosersClosed

\* No Dial whose context ended is still in progress, and no Close.
AllReturned ==
  /\ \A d \in ended : pc[d] = "returned"
  /\ \A k \in Closers : cpc[k] \in {"idle", "returned"}
=============================================================================
