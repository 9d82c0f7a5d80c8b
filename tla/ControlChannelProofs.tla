----------------------- MODULE ControlChannelProofs -----------------------
(***************************************************************************)
(* Proofs about ControlChannel, for any number of calls, tunnels, streams, *)
(* workers and any queue capacities.                                       *)
(*                                                                         *)
(* TypeOK is inductive as it stands.  The three properties of CreateTunnel *)
(* and of the tunnel registry are not: a response channel is closed only   *)
(* for a call that the cleanup took over, a call is taken over only while  *)
(* it is registered, and nothing is registered any more once the channel   *)
(* is closed.  OpenInv says this for every call (CallInv), for every       *)
(* tunnel (TrackInv) and for the order of the teardown (Phases).           *)
(***************************************************************************)
EXTENDS ControlChannel, TLAPS

(* Unless a step says otherwise, the first-order prover suffices.          *)
USE Zenon

(* The tuples the actions leave unchanged stand for their variables.       *)
USE DEF ctlVars, openVars, proxyVars, loopVars, callVars, strmVars, histVars

(* A group of variables that a step leaves unchanged keeps its type.       *)
LEMMA SameTypes ==
  ASSUME TypeOK
  PROVE  /\ UNCHANGED ctlVars => CtlTypes'
         /\ UNCHANGED openVars => OpenTypes'
         /\ UNCHANGED tun => TunTypes'
         /\ UNCHANGED proxyVars => ProxyTypes'
         /\ UNCHANGED loopVars => LoopTypes'
         /\ UNCHANGED callVars => CallTypes'
         /\ UNCHANGED <<strmVars, engine, histVars>> => RestTypes'

<1>1. UNCHANGED ctlVars => CtlTypes'
  BY DEF TypeOK, CtlTypes
<1>2. UNCHANGED openVars => OpenTypes'
  BY DEF TypeOK, OpenTypes
<1>3. UNCHANGED tun => TunTypes'
  BY DEF TypeOK, TunTypes
<1>4. UNCHANGED proxyVars => ProxyTypes'
  BY DEF TypeOK, ProxyTypes
<1>5. UNCHANGED loopVars => LoopTypes'
  BY DEF TypeOK, LoopTypes
<1>6. UNCHANGED callVars => CallTypes'
  BY DEF TypeOK, CallTypes
<1>7. UNCHANGED <<strmVars, engine, histVars>> => RestTypes'
  BY DEF TypeOK, RestTypes
<1> QED BY <1>1, <1>2, <1>3, <1>4, <1>5, <1>6, <1>7

(* What Append, Head and Tail do to a bounded queue.                       *)
LEMMA SeqFacts ==
  ASSUME NEW S, NEW q \in Seq(S)
  PROVE  /\ Len(q) \in Nat
         /\ q # <<>> => Head(q) \in S /\ Tail(q) \in Seq(S) /\ Len(Tail(q)) = Len(q) - 1
         /\ \A x \in S : Append(q, x) \in Seq(S) /\ Len(Append(q, x)) = Len(q) + 1
BY SMT

(* onError sets the error and hands tunnels and registrations to a         *)
(* cleanup.                                                                *)
LEMMA OnErrorTypes ==
  ASSUME TypeOK, NEW e \in Errors, NEW who \in Callers, OnError(e, who)
  PROVE  CtlTypes'
<1> USE DEF TypeOK, CtlTypes
<1>1. closed' \in BOOLEAN /\ closing' \in BOOLEAN /\ cancelled' \in BOOLEAN /\ finished' \in BOOLEAN
  BY DEF OnError
<1>2. /\ err' \in Errors /\ conn' \in {"open", "closed"} /\ pendingTunnels' \in SUBSET Openers
      /\ tunnels' \in [Tunnels -> Openers \cup {None}]
  BY DEF OnError
<1>3. Range(tunnels) \ {None} \in SUBSET Openers
  BY DEF Range
<1>4. [pc |-> "run", who |-> who, preserve |-> e # "nil" /\ ~closing, pend |-> pendingTunnels,
       tuns |-> Range(tunnels) \ {None}, cur |-> None] \in CleanupRec
  BY <1>3 DEF CleanupRec
<1>5. cleanup' \in CleanupRec
  BY <1>4 DEF OnError
<1> QED BY <1>1, <1>2, <1>5

(* Replacing the record of one tunnel by another of the type.              *)
LEMMA TunUpdate ==
  ASSUME TypeOK, NEW o \in Openers, NEW r \in TunnelRec, Len(r.conns) <= ConnLimit,
         tun' = [tun EXCEPT ![o] = r]
  PROVE  TunTypes'
BY DEF TypeOK, TunTypes

(* Replacing the record of one tunnel Close call by another of the type.   *)
LEMMA TCloserUpdate ==
  ASSUME TypeOK, NEW c \in TClosers, NEW r \in TCloserRec, r.o \in Openers,
         tcloser' = [tcloser EXCEPT ![c] = r], UNCHANGED <<acceptor, closer>>
  PROVE  CallTypes'
BY DEF TypeOK, CallTypes

(* A tunnel Close call moves on to its next step.                          *)
LEMMA TCloseStepTypes ==
  ASSUME TypeOK, NEW c \in TClosers, NEW from, NEW to \in {"send", "await", "failed", "cleaning"},
         from # "idle", TCloseStep(c, from, to)
  PROVE  CallTypes'
<1>1. tcloser[c] \in TCloserRec /\ tcloser[c].o \in Openers
  BY DEF TypeOK, CallTypes, TCloseStep
<1>2. [tcloser[c] EXCEPT !.pc = to] \in TCloserRec /\ [tcloser[c] EXCEPT !.pc = to].o = tcloser[c].o
  BY <1>1 DEF TCloserRec
<1>3. tcloser' = [tcloser EXCEPT ![c] = [tcloser[c] EXCEPT !.pc = to]] /\ UNCHANGED <<acceptor, closer>>
  BY DEF TCloseStep
<1> QED BY <1>1, <1>2, <1>3, TCloserUpdate, Zenon

(* A tunnel Close call returns.                                            *)
LEMMA TunnelCloseResultTypes ==
  ASSUME TypeOK, NEW c \in TClosers, NEW res \in Errors \cup {"ctl"}, tcloser[c].pc # "idle",
         TunnelCloseResult(c, res)
  PROVE  CallTypes'
<1>1. tcloser[c] \in TCloserRec /\ tcloser[c].o \in Openers
  BY DEF TypeOK, CallTypes
<1> DEFINE r == [tcloser[c] EXCEPT !.pc = "done", !.res = res]
<1>2. r \in TCloserRec /\ r.o = tcloser[c].o
  BY <1>1, Zenon DEF TCloserRec
<1>3. tcloser' = [tcloser EXCEPT ![c] = r] /\ UNCHANGED <<acceptor, closer>>
  BY DEF TunnelCloseResult
<1> HIDE DEF r
<1> QED BY <1>1, <1>2, <1>3, TCloserUpdate, Zenon

(* The states of the read loop between two messages and after a failure.   *)
LEMMA ReadTypes ==
  /\ Reading \in ReadRec /\ Reading.pc = "reading"
  /\ \A e \in Errors : ReadFailed(e) \in ReadRec /\ ReadFailed(e).pc = "failed"
BY DEF Reading, ReadFailed, ReadRec, Errors

(* tunnel.onErrorLocked yields a closed tunnel with no queued connection.  *)
LEMMA ClosedTunnelTypes ==
  ASSUME NEW t \in TunnelRec, NEW e \in Errors
  PROVE  /\ ClosedTunnel(t, e) \in TunnelRec
         /\ ClosedTunnel(t, e).conns \in {t.conns, <<>>}
         /\ ClosedTunnel(t, e).closed
<1> DEFINE r == [t EXCEPT !.closed = TRUE, !.err = e, !.drop = Range(t.conns), !.conns = <<>>]
<1>1. Range(t.conns) \in SUBSET Streams
  BY SMT DEF Range, TunnelRec
<1>2. <<>> \in Seq(Streams)
  BY SMT
<1>3. r \in TunnelRec /\ r.conns = <<>> /\ r.closed
  BY <1>1, <1>2, Zenon DEF TunnelRec
<1> QED BY <1>3 DEF ClosedTunnel

(* tunnelCleanup.run cancels the tunnel and closes what it took over.      *)
LEMMA RunCleanupTypes ==
  ASSUME TypeOK, NEW o \in Openers, RunTunnelCleanup(o)
  PROVE  TunTypes' /\ strm' \in [Streams -> {"none", "open", "closed"}]
<1>1. tun[o] \in TunnelRec /\ Len(tun[o].conns) <= ConnLimit
  BY DEF TypeOK, TunTypes
<1> DEFINE r == [tun[o] EXCEPT !.cancelled = TRUE, !.drop = {}]
<1>2. r \in TunnelRec /\ r.conns = tun[o].conns
  BY <1>1, Zenon DEF TunnelRec
<1>3. tun' = [tun EXCEPT ![o] = r]
  BY DEF RunTunnelCleanup
<1>4. strm' \in [Streams -> {"none", "open", "closed"}]
  BY DEF RunTunnelCleanup, TypeOK, RestTypes
<1> HIDE DEF r
<1> QED BY <1>1, <1>2, <1>3, <1>4, TunUpdate, Zenon

(* startProxyRuntimeLocked starts workers and response loop once.          *)
LEMMA StartProxyTypes ==
  ASSUME TypeOK, StartProxyRuntime
  PROVE  /\ started' \in BOOLEAN
         /\ worker' \in [Workers -> WorkerRec]
         /\ \A w \in Workers : worker'[w].pc \notin {"absent", "idle", "gone"} => worker'[w].task \in Request
         /\ responseLoop' \in ResponseRec
         /\ responseLoop'.pc \notin {"absent", "idle", "gone"} => responseLoop'.rsp \in Response
BY DEF TypeOK, ProxyTypes, StartProxyRuntime, WorkerRec, ResponseRec

(* A request that is owed a response is counted at its tunnel.             *)
LEMMA AddProxyResponseTypes ==
  ASSUME TypeOK, NEW o \in Openers \cup {None}, NEW s \in Streams, AddProxyResponse(o, s)
  PROVE  TunTypes' /\ early' \in SUBSET Request
<1>1. CASE o = None
  BY <1>1, SameTypes DEF AddProxyResponse, TypeOK, RestTypes
<1>2. CASE o # None
  <2> DEFINE r == [tun[o] EXCEPT !.pending = tun[o].pending + 1]
  <2>1. o \in Openers
    BY <1>2
  <2>2. tun[o] \in TunnelRec /\ Len(tun[o].conns) <= ConnLimit
    BY <2>1 DEF TypeOK, TunTypes
  <2>3. r \in TunnelRec /\ r.conns = tun[o].conns
    BY SMT, <2>2 DEF TunnelRec
  <2>4. tun' = [tun EXCEPT ![o] = r]
    BY <1>2 DEF AddProxyResponse
  <2>5. early' \in SUBSET Request
    BY SMT, <2>1 DEF AddProxyResponse, TypeOK, RestTypes, Request
  <2> HIDE DEF r
  <2> QED BY <2>1, <2>2, <2>3, <2>4, <2>5, TunUpdate, Zenon
<1> QED BY <1>1, <1>2

(* The record of a tunnel not made yet.                                    *)
LEMMA NoTunnelType == NoTunnel \in TunnelRec /\ NoTunnel.conns = <<>>
<1>1. <<>> \in Seq(Streams) /\ 0 \in Nat /\ "nil" \in Errors /\ FALSE \in BOOLEAN
  BY SMT DEF Errors
<1>2. {} \in SUBSET Streams /\ None \in Tunnels \cup {None}
  OBVIOUS
<1> QED BY <1>1, <1>2 DEF NoTunnel, TunnelRec

(* The state Connect leaves is well typed.                                 *)
LEMMA InitTypes == Init => TypeOK
<1> SUFFICES ASSUME Init PROVE TypeOK
  OBVIOUS
<1>1. CtlTypes
  <2>1. IdleCleanup \in CleanupRec
    BY DEF IdleCleanup, CleanupRec
  <2>2. closing \in BOOLEAN /\ closed \in BOOLEAN /\ cancelled \in BOOLEAN /\ finished \in BOOLEAN
    BY DEF Init
  <2> QED BY <2>1, <2>2 DEF Init, CtlTypes, Errors
<1>2. OpenTypes
  BY DEF Init, OpenTypes
<1>3. TunTypes
  <2>1. \A o \in Openers : tun[o] = NoTunnel
    BY DEF Init
  <2>2. Len(<<>>) <= ConnLimit
    BY SMT, LimitsPositive
  <2> QED BY <2>1, <2>2, NoTunnelType DEF Init, TunTypes
<1>4. ProxyTypes
  <2>1. <<>> \in Seq(Request) /\ <<>> \in Seq(Response) /\ Len(<<>>) <= QueueLimit /\ Len(<<>>) <= ResponseLimit
    BY SMT, LimitsPositive
  <2>2. started \in BOOLEAN
    BY DEF Init
  <2> QED BY <2>1, <2>2 DEF Init, ProxyTypes, WorkerRec, ResponseRec
<1>5. LoopTypes
  BY DEF Init, LoopTypes, ReadRec, Errors
<1>6. CallTypes
  <2>1. [pc |-> "idle", o |-> None, drain |-> "nil", send |-> FALSE, res |-> "none"] \in TCloserRec
    BY DEF TCloserRec
  <2>2. [pc |-> "idle", o |-> None, s |-> None] \in AcceptorRec
    BY DEF AcceptorRec
  <2> QED BY <2>1, <2>2 DEF Init, CallTypes
<1>7. RestTypes
  BY DEF Init, RestTypes, EngineRec
<1> QED BY <1>1, <1>2, <1>3, <1>4, <1>5, <1>6, <1>7 DEF TypeOK

(* Types are kept by the steps of a CreateTunnel call.                     *)
LEMMA OpenStepsTypes ==
  ASSUME TypeOK, NEW o \in Openers, OpenSteps(o)
  PROVE  TypeOK'
<1>1. TunTypes' /\ ProxyTypes' /\ LoopTypes' /\ CallTypes'
  BY SameTypes DEF OpenSteps, CreateTunnel, OpenWritten, OpenSent, OpenNotWritten, OpenWriteFails, OpenOnError,
     OpenFailed, OpenCancelled, OpenResult
<1>2. CtlTypes'
  <2>1. CASE CreateTunnel(o) \/ OpenNotWritten(o) \/ OpenWriteFails(o) \/ OpenCancelled(o)
    BY <2>1 DEF TypeOK, CtlTypes, CleanupRec, CreateTunnel, OpenNotWritten, OpenWriteFails,
       OpenCancelled
  <2>2. CASE OpenWritten(o) \/ OpenSent(o) \/ OpenFailed(o) \/ OpenResult(o)
    BY <2>2, SameTypes DEF OpenWritten, OpenSent, OpenFailed, OpenResult
  <2>3. CASE OpenOnError(o)
    BY <2>3, OnErrorTypes DEF OpenOnError, Callers, Errors, LoopTypes, TypeOK
  <2> QED BY <2>1, <2>2, <2>3 DEF OpenSteps
<1>3. OpenTypes'
  BY DEF TypeOK, OpenTypes, OpenSteps, CreateTunnel, OpenWritten, OpenSent, OpenNotWritten, OpenWriteFails,
     OpenOnError, OpenFailed, OpenCancelled, OpenResult
<1>4. RestTypes'
  <2>1. CASE OpenWritten(o)
    BY SMT, <2>1 DEF TypeOK, RestTypes, EngineRec, Request, OpenWritten
  <2>2. CASE CreateTunnel(o) \/ OpenSent(o) \/ OpenNotWritten(o) \/ OpenWriteFails(o) \/ OpenOnError(o)
             \/ OpenFailed(o) \/ OpenCancelled(o) \/ OpenResult(o)
    BY <2>2, SameTypes DEF CreateTunnel, OpenSent, OpenNotWritten, OpenWriteFails, OpenOnError, OpenFailed,
       OpenCancelled, OpenResult
  <2> QED BY <2>1, <2>2 DEF OpenSteps
<1> QED BY <1>1, <1>2, <1>3, <1>4 DEF TypeOK

(* Types are kept by the steps of a Close call.                            *)
LEMMA CloseStepsTypes ==
  ASSUME TypeOK, NEW k \in Closers, CloseSteps(k)
  PROVE  TypeOK'
<1>1. OpenTypes' /\ TunTypes' /\ ProxyTypes' /\ LoopTypes' /\ RestTypes'
  BY SameTypes DEF CloseSteps, Close, CloseWritten, CloseStep, CloseWriteFails, CloseTimeout,
     CloseOnError, CloseCleaned, CloseReturn
<1>2. CtlTypes'
  <2>1. CASE Close(k)
    BY <2>1 DEF TypeOK, CtlTypes, CleanupRec, Close
  <2>2. CASE CloseWritten(k) \/ CloseWriteFails(k) \/ CloseTimeout(k) \/ CloseCleaned(k)
             \/ CloseReturn(k)
    BY <2>2, SameTypes DEF CloseWritten, CloseStep, CloseWriteFails, CloseTimeout, CloseCleaned,
       CloseReturn
  <2>3. CASE CloseOnError(k)
    BY <2>3, OnErrorTypes, SMTT(30) DEF CloseOnError, CloseStep, Callers, Errors, LoopTypes, TypeOK
  <2> QED BY <2>1, <2>2, <2>3 DEF CloseSteps
<1>3. CallTypes'
  BY DEF TypeOK, CallTypes, AcceptorRec, TCloserRec, TunTypes, TunnelRec, CloseSteps, Close, CloseWritten,
     CloseStep, CloseWriteFails, CloseTimeout, CloseOnError, CloseCleaned, CloseReturn
<1> QED BY <1>1, <1>2, <1>3 DEF TypeOK

(* Types are kept by the heartbeat loop.                                   *)
LEMMA HeartbeatStepsTypes ==
  ASSUME TypeOK, HeartbeatSteps
  PROVE  TypeOK'
<1>1. OpenTypes' /\ TunTypes' /\ ProxyTypes' /\ CallTypes' /\ RestTypes'
  BY SameTypes DEF HeartbeatSteps, HeartbeatFails, HeartbeatStep, HeartbeatExit, HeartbeatOnError,
     HeartbeatGone
<1>2. CtlTypes'
  <2>1. CASE HeartbeatFails \/ HeartbeatExit \/ HeartbeatGone
    BY <2>1, SameTypes DEF HeartbeatFails, HeartbeatStep, HeartbeatExit, HeartbeatGone
  <2>2. CASE HeartbeatOnError
    BY <2>2, OnErrorTypes DEF HeartbeatOnError, HeartbeatStep, Callers, Errors, LoopTypes, TypeOK
  <2> QED BY <2>1, <2>2 DEF HeartbeatSteps
<1>3. LoopTypes'
  BY DEF TypeOK, LoopTypes, ReadRec, HeartbeatSteps, HeartbeatFails, HeartbeatStep, HeartbeatExit,
     HeartbeatOnError, HeartbeatGone
<1> QED BY <1>1, <1>2, <1>3 DEF TypeOK

(* Types are kept by a proxy worker.                                       *)
LEMMA WorkerStepsTypes ==
  ASSUME TypeOK, NEW w \in Workers, WorkerSteps(w)
  PROVE  TypeOK'
<1>1. CtlTypes' /\ OpenTypes' /\ LoopTypes' /\ CallTypes'
  BY SameTypes, Zenon DEF WorkerSteps, WorkerExit, WorkerTake, WorkerDial, WorkerCheck, WorkerDeliver,
     WorkerUndelivered, WorkerRecheck, WorkerDrop, WorkerRespond
<1>2. TunTypes'
  <2>1. CASE WorkerExit(w) \/ WorkerTake(w) \/ WorkerDial(w) \/ WorkerCheck(w) \/ WorkerUndelivered(w)
             \/ WorkerRecheck(w) \/ WorkerDrop(w) \/ WorkerRespond(w)
    BY <2>1, SameTypes DEF WorkerExit, WorkerTake, WorkerDial, WorkerCheck, WorkerUndelivered,
       WorkerRecheck, WorkerDrop, WorkerRespond
  <2>2. CASE WorkerDeliver(w)
    <3> DEFINE o == worker[w].task.o
               s == worker[w].task.s
               r == [tun[o] EXCEPT !.conns = Append(tun[o].conns, s)]
    <3>1. o \in Openers /\ s \in Streams
      BY <2>2 DEF TypeOK, ProxyTypes, WorkerDeliver, WorkerAt, Request
    <3>2. tun[o] \in TunnelRec /\ tun[o].conns \in Seq(Streams)
      BY <3>1 DEF TypeOK, TunTypes, TunnelRec
    <3>3. Append(tun[o].conns, s) \in Seq(Streams) /\ Len(Append(tun[o].conns, s)) <= ConnLimit
      BY SMT, <2>2, <3>1, <3>2, SeqFacts, LimitsPositive, SMTT(30) DEF WorkerDeliver, TaskTunnel
    <3>4. r \in TunnelRec /\ r.conns = Append(tun[o].conns, s)
      BY <3>2, <3>3, ZenonT(30) DEF TunnelRec
    <3>5. tun' = [tun EXCEPT ![o] = r]
      BY <2>2 DEF WorkerDeliver
    <3> HIDE DEF o, s, r
    <3> QED BY <3>1, <3>3, <3>4, <3>5, TunUpdate, Zenon
  <2> QED BY <2>1, <2>2, SMTT(30) DEF WorkerSteps
<1>3. ProxyTypes'
  <2>1. CASE WorkerExit(w)
    BY SMT, <2>1, LimitsPositive DEF TypeOK, ProxyTypes, WorkerRec, ResponseRec, Request, Response,
       WorkerExit, WorkerAt, WorkerGoes
  <2>2. CASE WorkerDial(w)
    BY SMT, <2>2, LimitsPositive, SMTT(30) DEF TypeOK, ProxyTypes, WorkerRec, ResponseRec, Request, Response,
       WorkerDial, WorkerAt, WorkerGoes
  <2>3. CASE WorkerCheck(w)
    BY SMT, <2>3, LimitsPositive, SMTT(30) DEF TypeOK, ProxyTypes, WorkerRec, ResponseRec, Request, Response,
       WorkerCheck, WorkerAt, WorkerGoes, TaskTunnel
  <2>4. CASE WorkerDeliver(w)
    BY SMT, <2>4, LimitsPositive, ZenonT(60) DEF TypeOK, ProxyTypes, WorkerRec, ResponseRec, Request, Response,
       WorkerDeliver, WorkerAt, WorkerGoes, TaskTunnel
  <2>5. CASE WorkerUndelivered(w)
    BY SMT, <2>5, LimitsPositive DEF TypeOK, ProxyTypes, WorkerRec, ResponseRec, Request, Response,
       WorkerUndelivered, WorkerAt, WorkerGoes
  <2>6. CASE WorkerRecheck(w)
    BY SMT, <2>6, LimitsPositive DEF TypeOK, ProxyTypes, WorkerRec, ResponseRec, Request, Response,
       WorkerRecheck, WorkerAt, WorkerGoes, TaskTunnel
  <2>7. CASE WorkerDrop(w)
    BY SMT, <2>7, LimitsPositive DEF TypeOK, ProxyTypes, WorkerRec, ResponseRec, Request, Response,
       WorkerDrop, WorkerAt, WorkerGoes
  <2>8. CASE WorkerTake(w)
    <3>1. /\ Head(proxyRequests) \in Request /\ Tail(proxyRequests) \in Seq(Request)
          /\ Len(Tail(proxyRequests)) <= QueueLimit
      BY SMT, <2>8, SeqFacts, LimitsPositive DEF TypeOK, ProxyTypes, WorkerTake
    <3>2. worker' \in [Workers -> WorkerRec]
      BY <2>8, <3>1 DEF TypeOK, ProxyTypes, WorkerRec, WorkerTake
    <3>3. \A v \in Workers : worker'[v].pc \notin {"absent", "idle", "gone"} => worker'[v].task \in Request
      BY <2>8, <3>1 DEF TypeOK, ProxyTypes, WorkerTake
    <3> QED BY <2>8, <3>1, <3>2, <3>3 DEF TypeOK, ProxyTypes, WorkerTake
  <2>9. CASE WorkerRespond(w)
    <3>1. worker[w].task \in Request
      BY <2>9 DEF TypeOK, ProxyTypes, WorkerRespond, WorkerAt
    <3>2. WorkerAt(w, "respond") \in BOOLEAN
      BY DEF WorkerAt
    <3> DEFINE r == [s |-> worker[w].task.s, o |-> worker[w].task.o, ok |-> WorkerAt(w, "respond")]
    <3>3. r \in Response
      BY <3>1, <3>2 DEF Request, Response
    <3>4. /\ proxyResponses' \in {proxyResponses, Append(proxyResponses, r)}
          /\ proxyResponses' # proxyResponses => Len(proxyResponses) < ResponseLimit
      BY <2>9 DEF WorkerRespond
    <3> HIDE DEF r
    <3>5. proxyResponses' \in Seq(Response) /\ Len(proxyResponses') <= ResponseLimit
      BY SMT, <3>3, <3>4, SeqFacts, LimitsPositive DEF TypeOK, ProxyTypes
    <3>6. PICK x \in WorkerRec : worker' = [worker EXCEPT ![w] = x] /\ x.pc \in {"idle", "gone"}
      <4>1. [pc |-> "idle", task |-> None] \in WorkerRec
        BY DEF WorkerRec
      <4>2. worker[w] \in WorkerRec
        BY DEF TypeOK, ProxyTypes
      <4>3. [worker[w] EXCEPT !.pc = "gone"] \in WorkerRec /\ [worker[w] EXCEPT !.pc = "gone"].pc = "gone"
        BY <4>2 DEF WorkerRec
      <4>4. \/ worker' = [worker EXCEPT ![w] = [pc |-> "idle", task |-> None]]
            \/ worker' = [worker EXCEPT ![w] = [worker[w] EXCEPT !.pc = "gone"]]
        BY <2>9 DEF WorkerRespond, WorkerGoes
      <4> QED BY <4>1, <4>3, <4>4, Zenon
    <3> QED BY <2>9, <3>5, <3>6 DEF TypeOK, ProxyTypes, WorkerRespond
  <2> QED BY <2>1, <2>2, <2>3, <2>4, <2>5, <2>6, <2>7, <2>8, <2>9 DEF WorkerSteps
<1>4. RestTypes'
  <2>1. CASE WorkerDial(w) \/ WorkerDrop(w)
    BY <2>1, SMTT(30) DEF TypeOK, RestTypes, EngineRec, Request, WorkerDial, WorkerAt, WorkerGoes, WorkerDrop
  <2>2. CASE WorkerExit(w) \/ WorkerTake(w) \/ WorkerCheck(w) \/ WorkerDeliver(w)
             \/ WorkerUndelivered(w) \/ WorkerRecheck(w) \/ WorkerRespond(w)
    BY <2>2, SameTypes DEF WorkerExit, WorkerTake, WorkerCheck, WorkerDeliver, WorkerUndelivered,
       WorkerRecheck, WorkerRespond
  <2> QED BY <2>1, <2>2 DEF WorkerSteps
<1> QED BY <1>1, <1>2, <1>3, <1>4, SMTT(30) DEF TypeOK

(* Types are kept by the proxy response loop.                              *)
LEMMA ResponseStepsTypes ==
  ASSUME TypeOK, ResponseSteps
  PROVE  TypeOK'
<1>1. OpenTypes' /\ LoopTypes'
  BY SameTypes DEF ResponseSteps, ResponseExit, ResponseTake, ResponseWritten, ResponseWriteFails,
     ResponseOnError, ResponseGone, ResponseComplete
<1>2. CtlTypes'
  <2>1. CASE ResponseExit \/ ResponseTake \/ ResponseWritten \/ ResponseWriteFails \/ ResponseGone
             \/ ResponseComplete
    BY <2>1, SameTypes DEF ResponseExit, ResponseTake, ResponseWritten, ResponseWriteFails,
       ResponseGone, ResponseComplete
  <2>2. CASE ResponseOnError
    BY <2>2, OnErrorTypes DEF ResponseOnError, Callers, Errors, LoopTypes, TypeOK
  <2> QED BY <2>1, <2>2, SMTT(30) DEF ResponseSteps
<1>3. TunTypes'
  <2>1. CASE ResponseExit \/ ResponseTake \/ ResponseWritten \/ ResponseWriteFails \/ ResponseOnError
             \/ ResponseGone
    BY <2>1, SameTypes DEF ResponseExit, ResponseTake, ResponseWritten, ResponseWriteFails,
       ResponseOnError, ResponseGone
  <2>2. CASE ResponseComplete
    <3> DEFINE o == responseLoop.rsp.o
               r == [tun[o] EXCEPT !.pending = tun[o].pending - 1]
    <3>1. CASE UNCHANGED tun
      BY <3>1, SameTypes
    <3>2. CASE ~UNCHANGED tun
      <4>1. o # None /\ tun[o].pending # 0 /\ tun' = [tun EXCEPT ![o] = r]
        BY <2>2, <3>2 DEF ResponseComplete
      <4>2. o \in Openers
        BY <2>2, <4>1 DEF TypeOK, ProxyTypes, ResponseComplete, Response
      <4>3. tun[o] \in TunnelRec /\ Len(tun[o].conns) <= ConnLimit /\ tun[o].pending - 1 \in Nat
        BY SMT, <4>1, <4>2 DEF TypeOK, TunTypes, TunnelRec
      <4>4. r \in TunnelRec /\ r.conns = tun[o].conns
        BY <4>3 DEF TunnelRec
      <4> HIDE DEF o, r
      <4> QED BY <4>1, <4>2, <4>3, <4>4, TunUpdate, ZenonT(30)
    <3> QED BY <3>1, <3>2
  <2> QED BY <2>1, <2>2 DEF ResponseSteps
<1>4. ProxyTypes'
  <2>1. CASE ResponseExit \/ ResponseWritten \/ ResponseWriteFails \/ ResponseOnError \/ ResponseGone
             \/ ResponseComplete
    BY SMT, <2>1, LimitsPositive DEF TypeOK, ProxyTypes, WorkerRec, ResponseRec, Request, Response,
       ResponseExit, ResponseWritten, ResponseWriteFails, ResponseOnError, ResponseGone,
       ResponseComplete
  <2>2. CASE ResponseTake
    <3>1. /\ Head(proxyResponses) \in Response /\ Tail(proxyResponses) \in Seq(Response)
          /\ Len(Tail(proxyResponses)) <= ResponseLimit
      BY SMT, <2>2, SeqFacts, LimitsPositive DEF TypeOK, ProxyTypes, ResponseTake
    <3> QED BY <2>2, <3>1 DEF TypeOK, ProxyTypes, ResponseRec, ResponseTake
  <2> QED BY <2>1, <2>2 DEF ResponseSteps
<1>5. CallTypes'
  <2>1. CASE ResponseExit \/ ResponseTake \/ ResponseWritten \/ ResponseWriteFails \/ ResponseOnError
             \/ ResponseGone
    BY <2>1, SameTypes DEF ResponseExit, ResponseTake, ResponseWritten, ResponseWriteFails,
       ResponseOnError, ResponseGone
  <2>2. CASE ResponseComplete
    <3>1. \A c \in TClosers : /\ tcloser[c] \in TCloserRec
                              /\ [tcloser[c] EXCEPT !.drain = "closed"] \in TCloserRec
                              /\ [tcloser[c] EXCEPT !.drain = "closed"].pc = tcloser[c].pc
                              /\ [tcloser[c] EXCEPT !.drain = "closed"].o = tcloser[c].o
      BY SMT DEF TypeOK, CallTypes, TCloserRec
    <3>2. \/ UNCHANGED tcloser
          \/ /\ tcloser' = [c \in TClosers |-> tcloser'[c]]
             /\ \A c \in TClosers : tcloser'[c] \in {tcloser[c], [tcloser[c] EXCEPT !.drain = "closed"]}
      BY <2>2 DEF ResponseComplete
    <3>3. /\ tcloser' \in [TClosers -> TCloserRec]
          /\ \A c \in TClosers : tcloser'[c].pc # "idle" => tcloser'[c].o \in Openers
      BY <3>1, <3>2, Zenon DEF TypeOK, CallTypes
    <3> QED BY <2>2, <3>3 DEF TypeOK, CallTypes, ResponseComplete
  <2> QED BY <2>1, <2>2 DEF ResponseSteps
<1>6. RestTypes'
  <2>1. CASE ResponseExit \/ ResponseTake \/ ResponseWriteFails \/ ResponseOnError \/ ResponseGone
             \/ ResponseComplete
    BY <2>1, SameTypes DEF ResponseExit, ResponseTake, ResponseWriteFails, ResponseOnError,
       ResponseGone, ResponseComplete
  <2>2. CASE ResponseWritten
    <3>1. responseLoop.rsp.s \in Streams
      BY <2>2 DEF TypeOK, ProxyTypes, ResponseWritten, Response
    <3> QED BY <2>2, <3>1 DEF TypeOK, RestTypes, ResponseWritten
  <2> QED BY <2>1, <2>2 DEF ResponseSteps
<1> QED BY <1>1, <1>2, <1>3, <1>4, <1>5, <1>6, SMTT(30) DEF TypeOK

(* Types are kept by an Accept call.                                       *)
LEMMA AcceptStepsTypes ==
  ASSUME TypeOK, NEW a \in Acceptors, AcceptSteps(a)
  PROVE  TypeOK'
<1>1. CtlTypes' /\ OpenTypes' /\ ProxyTypes' /\ LoopTypes'
  BY SameTypes DEF AcceptSteps, Accept, AcceptPop, AcceptReturn, AcceptError
<1>2. TunTypes'
  <2>1. CASE (\E o \in Openers : Accept(a, o)) \/ AcceptReturn(a) \/ AcceptError(a)
    BY <2>1, SameTypes DEF Accept, AcceptReturn, AcceptError
  <2>2. CASE AcceptPop(a)
    <3> DEFINE o == acceptor[a].o
               r == [tun[o] EXCEPT !.conns = Tail(tun[o].conns)]
    <3>1. o \in Openers /\ tun[o].conns # <<>>
      BY <2>2 DEF TypeOK, CallTypes, AcceptPop
    <3>2. tun[o] \in TunnelRec /\ tun[o].conns \in Seq(Streams) /\ Len(tun[o].conns) <= ConnLimit
      BY <3>1 DEF TypeOK, TunTypes, TunnelRec
    <3>3. Tail(tun[o].conns) \in Seq(Streams) /\ Len(Tail(tun[o].conns)) <= ConnLimit
      BY SMT, <3>1, <3>2, SeqFacts, LimitsPositive
    <3>4. r \in TunnelRec /\ r.conns = Tail(tun[o].conns)
      BY <3>2, <3>3, Zenon DEF TunnelRec
    <3>5. tun' = [tun EXCEPT ![o] = r]
      BY <2>2 DEF AcceptPop
    <3> HIDE DEF o, r
    <3> QED BY <3>1, <3>3, <3>4, <3>5, TunUpdate, Zenon
  <2> QED BY <2>1, <2>2 DEF AcceptSteps
<1>3. CallTypes'
  <2>1. ASSUME NEW o \in Openers, Accept(a, o) PROVE CallTypes'
    BY <2>1 DEF TypeOK, CallTypes, AcceptorRec, TCloserRec, TunTypes, TunnelRec, Accept
  <2>2. CASE AcceptPop(a)
    BY SMT, <2>2 DEF TypeOK, CallTypes, AcceptorRec, TCloserRec, TunTypes, TunnelRec, AcceptPop
  <2>3. CASE AcceptReturn(a)
    BY <2>3 DEF TypeOK, CallTypes, AcceptorRec, TCloserRec, TunTypes, TunnelRec, AcceptReturn
  <2>4. CASE AcceptError(a)
    BY <2>4 DEF TypeOK, CallTypes, AcceptorRec, TCloserRec, TunTypes, TunnelRec, AcceptError
  <2> QED BY <2>1, <2>2, <2>3, <2>4 DEF AcceptSteps
<1>4. RestTypes'
  <2>1. CASE (\E o \in Openers : Accept(a, o)) \/ AcceptPop(a) \/ AcceptError(a)
    BY <2>1, SameTypes DEF Accept, AcceptPop, AcceptError
  <2>2. CASE AcceptReturn(a)
    <3>1. acceptor[a].s \in Streams
      BY <2>2 DEF TypeOK, CallTypes, AcceptReturn
    <3> QED BY <2>2, <3>1 DEF TypeOK, RestTypes, AcceptReturn
  <2> QED BY <2>1, <2>2 DEF AcceptSteps
<1> QED BY <1>1, <1>2, <1>3, <1>4, SMTT(30) DEF TypeOK

(* Types are kept by a tunnel Close call.                                  *)
LEMMA TunnelCloseStepsTypes ==
  ASSUME TypeOK, NEW c \in TClosers, TunnelCloseSteps(c)
  PROVE  TypeOK'
<1>1. OpenTypes' /\ ProxyTypes' /\ LoopTypes' /\ RestTypes'
  BY SameTypes, ZenonT(60) DEF TunnelCloseSteps, TunnelClose, TunnelDrained, TCloseStep, TunnelCloseWritten,
     TunnelCloseFails, TunnelOnError, TunnelCloseFailed, TunnelCloseResult, TunnelCloseAcked,
     TunnelCloseControlClosed
<1>2. CtlTypes'
  <2>1. CASE (\E o \in Openers : TunnelClose(c, o)) \/ TunnelDrained(c) \/ TunnelCloseWritten(c)
             \/ TunnelCloseFails(c) \/ TunnelCloseFailed(c) \/ TunnelCloseAcked(c)
             \/ TunnelCloseControlClosed(c)
    BY <2>1, SameTypes, Zenon DEF TunnelClose, TunnelDrained, TCloseStep, TunnelCloseWritten, TunnelCloseFails,
       TunnelCloseFailed, TunnelCloseResult, TunnelCloseAcked, TunnelCloseControlClosed
  <2>2. CASE TunnelOnError(c)
    BY <2>2, OnErrorTypes DEF TunnelOnError, TCloseStep, Callers, Errors, LoopTypes, TypeOK
  <2> QED BY <2>1, <2>2 DEF TunnelCloseSteps
<1>3. TunTypes'
  <2>1. CASE TunnelDrained(c) \/ TunnelCloseWritten(c) \/ TunnelCloseFails(c) \/ TunnelOnError(c)
             \/ TunnelCloseFailed(c) \/ TunnelCloseAcked(c) \/ TunnelCloseControlClosed(c)
    BY <2>1, SameTypes DEF TunnelDrained, TCloseStep, TunnelCloseWritten, TunnelCloseFails,
       TunnelOnError, TunnelCloseFailed, TunnelCloseResult, TunnelCloseAcked, TunnelCloseControlClosed
  <2>2. ASSUME NEW o \in Openers, TunnelClose(c, o) PROVE TunTypes'
    <3> DEFINE r == [tun[o] EXCEPT !.closing = TRUE]
    <3>1. tun[o] \in TunnelRec /\ Len(tun[o].conns) <= ConnLimit
      BY <2>2 DEF TypeOK, TunTypes
    <3>2. r \in TunnelRec /\ r.conns = tun[o].conns
      BY <3>1, Zenon DEF TunnelRec
    <3>3. UNCHANGED tun \/ tun' = [tun EXCEPT ![o] = r]
      BY <2>2 DEF TunnelClose
    <3> HIDE DEF r
    <3> QED BY <2>2, <3>1, <3>2, <3>3, TunUpdate, SameTypes
  <2> QED BY <2>1, <2>2, SMTT(30) DEF TunnelCloseSteps
<1>4. CallTypes'
  <2>1. ASSUME NEW o \in Openers, TunnelClose(c, o) PROVE CallTypes'
    <3> DEFINE t == tun[o]
               q == [tcloser[c] EXCEPT !.pc = "done", !.o = o, !.res = t.err]
               r == [tcloser[c] EXCEPT !.pc = IF t.pending > 0 THEN "drain" ELSE AfterDrain(~t.closing), !.o = o,
                                       !.drain = IF t.pending > 0 THEN "open" ELSE "nil", !.send = ~t.closing]
    <3>1. t \in TunnelRec /\ tcloser[c] \in TCloserRec
      BY <2>1 DEF TypeOK, TunTypes, CallTypes
    <3>2. q \in TCloserRec /\ q.o = o
      BY <2>1, <3>1, Zenon DEF TCloserRec, TunnelRec
    <3>3. AfterDrain(~t.closing) \in {"send", "await"} /\ (~t.closing) \in BOOLEAN
      BY DEF AfterDrain
    <3>4. r \in TCloserRec /\ r.o = o
      BY <2>1, <3>1, <3>3, Zenon DEF TCloserRec
    <3>5. tcloser' = [tcloser EXCEPT ![c] = q] \/ tcloser' = [tcloser EXCEPT ![c] = r]
      BY <2>1, ZenonT(30) DEF TunnelClose
    <3>6. UNCHANGED <<acceptor, closer>>
      BY <2>1 DEF TunnelClose
    <3> HIDE DEF q, r
    <3> QED BY <2>1, <3>2, <3>4, <3>5, <3>6, TCloserUpdate
  <2>2. CASE TunnelDrained(c)
    BY <2>2, TCloseStepTypes DEF TunnelDrained, AfterDrain
  <2>3. CASE TunnelCloseWritten(c)
    BY <2>3, TCloseStepTypes DEF TunnelCloseWritten
  <2>4. CASE TunnelCloseFails(c)
    BY <2>4, TCloseStepTypes DEF TunnelCloseFails
  <2>5. CASE TunnelOnError(c)
    BY <2>5, TCloseStepTypes DEF TunnelOnError
  <2>6. CASE TunnelCloseFailed(c)
    BY <2>6, TunnelCloseResultTypes DEF TunnelCloseFailed, Errors
  <2>7. CASE TunnelCloseAcked(c)
    <3>1. tun[tcloser[c].o].err \in Errors
      BY <2>7 DEF TypeOK, CallTypes, TunTypes, TunnelRec, TunnelCloseAcked
    <3> QED BY <2>7, <3>1, TunnelCloseResultTypes DEF TunnelCloseAcked
  <2>8. CASE TunnelCloseControlClosed(c)
    <3>1. tun[tcloser[c].o].err \in Errors
      BY <2>8 DEF TypeOK, CallTypes, TunTypes, TunnelRec, TunnelCloseControlClosed
    <3> QED BY <2>8, <3>1, TunnelCloseResultTypes DEF TunnelCloseControlClosed
  <2> QED BY <2>1, <2>2, <2>3, <2>4, <2>5, <2>6, <2>7, <2>8 DEF TunnelCloseSteps
<1> QED BY <1>1, <1>2, <1>3, <1>4, SMTT(30) DEF TypeOK

(* Types are kept by the cleanup of the channel.                           *)
LEMMA CleanupStepsTypes ==
  ASSUME TypeOK, CleanupSteps
  PROVE  TypeOK'
<1>1. ProxyTypes' /\ LoopTypes' /\ CallTypes'
  BY SameTypes, Zenon DEF CleanupSteps, CleanupPending, CleanupTunnel, CleanupTunnelRun, CleanupCancel,
     CleanupConn, Finish
<1>2. CtlTypes'
  <2>1. ASSUME NEW o \in Openers, CleanupPending(o) PROVE CtlTypes'
    BY <2>1 DEF TypeOK, CtlTypes, CleanupRec, CleanupPending
  <2>2. ASSUME NEW o \in Openers, CleanupTunnel(o) PROVE CtlTypes'
    BY <2>2, Zenon DEF TypeOK, CtlTypes, CleanupRec, CleanupTunnel, ClosedTunnel
  <2>3. CASE CleanupTunnelRun
    BY <2>3 DEF TypeOK, CtlTypes, CleanupRec, CleanupTunnelRun, RunTunnelCleanup
  <2>4. CASE CleanupCancel
    BY <2>4 DEF TypeOK, CtlTypes, CleanupRec, CleanupCancel
  <2>5. CASE CleanupConn
    BY <2>5 DEF TypeOK, CtlTypes, CleanupRec, CleanupConn
  <2>6. CASE Finish
    BY <2>6 DEF TypeOK, CtlTypes, CleanupRec, Finish
  <2> QED BY <2>1, <2>2, <2>3, <2>4, <2>5, <2>6 DEF CleanupSteps
<1>3. OpenTypes'
  <2>1. ASSUME NEW o \in Openers, CleanupPending(o) PROVE OpenTypes'
    BY <2>1 DEF TypeOK, OpenTypes, CleanupPending
  <2>2. CASE (\E o \in Openers : CleanupTunnel(o)) \/ CleanupTunnelRun \/ CleanupCancel \/ CleanupConn
             \/ Finish
    BY <2>2, SameTypes, Zenon DEF CleanupTunnel, CleanupTunnelRun, CleanupCancel, CleanupConn, Finish
  <2> QED BY <2>1, <2>2 DEF CleanupSteps
<1>4. TunTypes'
  <2>1. CASE (\E o \in Openers : CleanupPending(o)) \/ CleanupCancel \/ CleanupConn \/ Finish
    BY <2>1, SameTypes DEF CleanupPending, CleanupCancel, CleanupConn, Finish
  <2>2. ASSUME NEW o \in Openers, CleanupTunnel(o) PROVE TunTypes'
    <3>1. tun[o] \in TunnelRec /\ Len(tun[o].conns) <= ConnLimit /\ err \in Errors
      BY <2>2 DEF TypeOK, TunTypes, CtlTypes
    <3>2. tun' = [tun EXCEPT ![o] = ClosedTunnel(tun[o], err)]
      BY <2>2 DEF CleanupTunnel
    <3>3. Len(ClosedTunnel(tun[o], err).conns) <= ConnLimit
      BY SMT, <3>1, ClosedTunnelTypes, LimitsPositive
    <3> QED BY <2>2, <3>1, <3>2, <3>3, ClosedTunnelTypes, TunUpdate, Zenon
  <2>3. CASE CleanupTunnelRun
    BY <2>3, RunCleanupTypes DEF CleanupTunnelRun, TypeOK, CtlTypes, CleanupRec
  <2> QED BY <2>1, <2>2, <2>3 DEF CleanupSteps
<1>5. RestTypes'
  <2>1. CASE (\E o \in Openers : CleanupPending(o)) \/ (\E o \in Openers : CleanupTunnel(o))
             \/ CleanupCancel \/ CleanupConn \/ Finish
    BY <2>1, SameTypes, ZenonT(30) DEF CleanupPending, CleanupTunnel, CleanupCancel, CleanupConn, Finish
  <2>2. CASE CleanupTunnelRun
    BY <2>2, RunCleanupTypes DEF CleanupTunnelRun, RunTunnelCleanup, TypeOK, CtlTypes, CleanupRec, RestTypes
  <2> QED BY <2>1, <2>2 DEF CleanupSteps
<1> QED BY <1>1, <1>2, <1>3, <1>4, <1>5, SMTT(30) DEF TypeOK

(* Types are kept by the read loop and its handlers.                       *)
LEMMA ReadStepsTypes ==
  ASSUME TypeOK, ReadSteps
  PROVE  TypeOK'
<1>1. CallTypes'
  BY SameTypes, Zenon DEF ReadSteps, ReadFails, HandleLastMessage, HandleOpenTunnelRsp, HandleCloseTunnelRsp,
     HandleProxyConnReq, ReadsProxyConnReq, RejectProxyConnReq, ReadCleanup, ReadOnError, ReadExit
<1>2. CtlTypes'
  <2>1. ASSUME NEW o \in Openers, NEW id \in Tunnels \cup {None}, HandleOpenTunnelRsp(o, id) PROVE CtlTypes'
    BY <2>1 DEF TypeOK, CtlTypes, CleanupRec, HandleOpenTunnelRsp, Reads, OpenTunnelResult
  <2>2. ASSUME NEW id \in Tunnels, HandleCloseTunnelRsp(id) PROVE CtlTypes'
    BY <2>2, SMTT(30) DEF TypeOK, CtlTypes, CleanupRec, HandleCloseTunnelRsp, Reads, ClosedTunnel, Reading
  <2>3. CASE ReadFails \/ HandleLastMessage
             \/ (\E id \in Tunnels, s \in Streams : HandleProxyConnReq(id, s))
             \/ (\E id \in Tunnels, s \in Streams : RejectProxyConnReq(id, s)) \/ ReadCleanup
             \/ ReadExit
    BY <2>3, SameTypes, Zenon DEF ReadFails, HandleLastMessage, HandleProxyConnReq, ReadsProxyConnReq,
       RejectProxyConnReq, ReadCleanup, ReadExit
  <2>4. CASE ReadOnError
    BY <2>4, OnErrorTypes DEF ReadOnError, Callers, Errors, LoopTypes, TypeOK, ReadRec
  <2> QED BY <2>1, <2>2, <2>3, <2>4 DEF ReadSteps
<1>3. OpenTypes'
  <2>1. ASSUME NEW o \in Openers, NEW id \in Tunnels \cup {None}, HandleOpenTunnelRsp(o, id) PROVE OpenTypes'
    BY <2>1 DEF TypeOK, OpenTypes, HandleOpenTunnelRsp, Reads, OpenTunnelResult
  <2>2. CASE ReadFails \/ HandleLastMessage \/ (\E id \in Tunnels : HandleCloseTunnelRsp(id))
             \/ (\E id \in Tunnels, s \in Streams : HandleProxyConnReq(id, s))
             \/ (\E id \in Tunnels, s \in Streams : RejectProxyConnReq(id, s)) \/ ReadCleanup
             \/ ReadOnError \/ ReadExit
    BY <2>2, SameTypes, Zenon DEF ReadFails, HandleLastMessage, HandleCloseTunnelRsp, HandleProxyConnReq,
       ReadsProxyConnReq, RejectProxyConnReq, ReadCleanup, ReadOnError, ReadExit
  <2> QED BY <2>1, <2>2 DEF ReadSteps
<1>4. TunTypes'
  <2>1. CASE ReadFails \/ HandleLastMessage \/ ReadOnError \/ ReadExit
    BY <2>1, SameTypes DEF ReadFails, HandleLastMessage, ReadOnError, ReadExit
  <2>2. ASSUME NEW o \in Openers, NEW id \in Tunnels \cup {None}, HandleOpenTunnelRsp(o, id) PROVE TunTypes'
    <3> DEFINE r == [NoTunnel EXCEPT !.made = TRUE, !.id = id]
    <3>0. NoTunnel \in TunnelRec /\ NoTunnel.conns = <<>>
      BY NoTunnelType
    <3>1. r \in TunnelRec /\ r.conns = <<>>
      BY <2>2, <3>0, Zenon DEF TunnelRec
    <3>2. UNCHANGED tun \/ tun' = [tun EXCEPT ![o] = r]
      BY <2>2 DEF HandleOpenTunnelRsp, OpenTunnelResult
    <3>3. Len(<<>>) <= ConnLimit
      BY SMT, LimitsPositive
    <3> HIDE DEF r
    <3> QED BY <2>2, <3>1, <3>2, <3>3, TunUpdate, SameTypes
  <2>3. ASSUME NEW id \in Tunnels, HandleCloseTunnelRsp(id) PROVE TunTypes'
    <3> DEFINE o == tunnels[id]
    <3>1. CASE o = None
      BY <2>3, <3>1, SameTypes DEF HandleCloseTunnelRsp
    <3>2. CASE o # None
      <4>1. o \in Openers
        BY <2>3, <3>2 DEF TypeOK, CtlTypes
      <4>2. tun[o] \in TunnelRec /\ Len(tun[o].conns) <= ConnLimit /\ "nil" \in Errors
        BY <4>1 DEF TypeOK, TunTypes, Errors
      <4>3. tun' = [tun EXCEPT ![o] = ClosedTunnel(tun[o], "nil")]
        BY <2>3, <3>2 DEF HandleCloseTunnelRsp
      <4>4. Len(ClosedTunnel(tun[o], "nil").conns) <= ConnLimit
        BY SMT, <4>2, ClosedTunnelTypes, LimitsPositive
      <4> HIDE DEF o
      <4> QED BY <4>1, <4>2, <4>3, <4>4, ClosedTunnelTypes, TunUpdate, Zenon
    <3> QED BY <3>1, <3>2
  <2>4. ASSUME NEW id \in Tunnels, NEW s \in Streams, HandleProxyConnReq(id, s) PROVE TunTypes'
    <3>1. tunnels[id] \in Openers \cup {None}
      BY <2>4 DEF TypeOK, CtlTypes
    <3> QED BY <2>4, <3>1, AddProxyResponseTypes, SameTypes DEF HandleProxyConnReq
  <2>5. ASSUME NEW id \in Tunnels, NEW s \in Streams, RejectProxyConnReq(id, s) PROVE TunTypes'
    <3>1. tunnels[id] \in Openers \cup {None}
      BY <2>5 DEF TypeOK, CtlTypes
    <3> QED BY <2>5, <3>1, AddProxyResponseTypes, SameTypes DEF RejectProxyConnReq
  <2>6. CASE ReadCleanup
    BY <2>6, RunCleanupTypes DEF ReadCleanup, TypeOK, LoopTypes
  <2> QED BY <2>1, <2>2, <2>3, <2>4, <2>5, <2>6 DEF ReadSteps
<1>5. ProxyTypes'
  <2>1. CASE ReadFails \/ HandleLastMessage
             \/ (\E o \in Openers, id \in Tunnels \cup {None} : HandleOpenTunnelRsp(o, id))
             \/ (\E id \in Tunnels : HandleCloseTunnelRsp(id)) \/ ReadCleanup \/ ReadOnError \/ ReadExit
    BY <2>1, SameTypes, Zenon DEF ReadFails, HandleLastMessage, HandleOpenTunnelRsp, HandleCloseTunnelRsp,
       ReadCleanup, ReadOnError, ReadExit
  <2>2. ASSUME NEW id \in Tunnels, NEW s \in Streams, HandleProxyConnReq(id, s) PROVE ProxyTypes'
    <3>1. [s |-> s, o |-> tunnels[id]] \in Request
      BY <2>2 DEF TypeOK, CtlTypes, HandleProxyConnReq, Request
    <3>2. proxyRequests' \in Seq(Request) /\ Len(proxyRequests') <= QueueLimit
      BY SMT, <2>2, <3>1, SeqFacts, LimitsPositive DEF HandleProxyConnReq, TypeOK, ProxyTypes
    <3> QED BY <2>2, <3>2, StartProxyTypes DEF HandleProxyConnReq, ReadsProxyConnReq, TypeOK, ProxyTypes
  <2>3. ASSUME NEW id \in Tunnels, NEW s \in Streams, RejectProxyConnReq(id, s) PROVE ProxyTypes'
    <3> DEFINE r == [s |-> s, o |-> tunnels[id], ok |-> FALSE]
    <3>1. r \in Response
      BY <2>3 DEF TypeOK, CtlTypes, Response
    <3>2. /\ proxyResponses' \in {proxyResponses, Append(proxyResponses, r)}
          /\ proxyResponses' # proxyResponses => Len(proxyResponses) < ResponseLimit
      BY <2>3 DEF RejectProxyConnReq
    <3> HIDE DEF r
    <3>3. proxyResponses' \in Seq(Response) /\ Len(proxyResponses') <= ResponseLimit
      BY SMT, <3>1, <3>2, SeqFacts, LimitsPositive, SMTT(30) DEF TypeOK, ProxyTypes
    <3> QED BY <2>3, <3>3, StartProxyTypes DEF RejectProxyConnReq, ReadsProxyConnReq, TypeOK, ProxyTypes
  <2> QED BY <2>1, <2>2, <2>3, SMTT(30) DEF ReadSteps
<1>6. LoopTypes'
  <2>1. CASE ReadOnError \/ ReadExit
    BY <2>1 DEF TypeOK, LoopTypes, ReadRec, ReadOnError, ReadExit
  <2>2. CASE (\E o \in Openers, id \in Tunnels \cup {None} : HandleOpenTunnelRsp(o, id))
             \/ (\E id \in Tunnels, s \in Streams : HandleProxyConnReq(id, s))
    BY <2>2, SameTypes, Zenon DEF HandleOpenTunnelRsp, HandleProxyConnReq, ReadsProxyConnReq
  <2>3. CASE ReadFails
    BY <2>3, ReadTypes DEF ReadFails, TypeOK, LoopTypes, Errors
  <2>4. CASE HandleLastMessage
    BY <2>4, ReadTypes DEF HandleLastMessage, TypeOK, LoopTypes, Errors
  <2>5. ASSUME NEW id \in Tunnels, HandleCloseTunnelRsp(id) PROVE LoopTypes'
    <3>1. tunnels[id] \in Openers \cup {None}
      BY <2>5 DEF TypeOK, CtlTypes
    <3> QED BY <2>5, <3>1, SameTypes, Zenon DEF HandleCloseTunnelRsp, Reading, TypeOK, LoopTypes, ReadRec, Errors
  <2>6. ASSUME NEW id \in Tunnels, NEW s \in Streams, RejectProxyConnReq(id, s) PROVE LoopTypes'
    BY <2>6, ReadTypes DEF RejectProxyConnReq, TypeOK, LoopTypes, Errors
  <2>7. CASE ReadCleanup
    BY <2>7, ReadTypes DEF ReadCleanup, TypeOK, LoopTypes
  <2> QED BY <2>1, <2>2, <2>3, <2>4, <2>5, <2>6, <2>7 DEF ReadSteps
<1>7. RestTypes'
  <2>1. ASSUME NEW o \in Openers, NEW id \in Tunnels \cup {None}, HandleOpenTunnelRsp(o, id) PROVE RestTypes'
    BY <2>1, Zenon DEF TypeOK, RestTypes, EngineRec, Request, HandleOpenTunnelRsp, Reads, OpenTunnelResult
  <2>2. CASE ReadFails \/ HandleLastMessage \/ ReadOnError \/ ReadExit
    BY <2>2, SameTypes DEF ReadFails, HandleLastMessage, ReadOnError, ReadExit
  <2>3. ASSUME NEW id \in Tunnels, HandleCloseTunnelRsp(id) PROVE RestTypes'
    <3>1. tunnels[id] \in Openers \cup {None}
      BY <2>3 DEF TypeOK, CtlTypes
    <3> QED BY <2>3, <3>1 DEF HandleCloseTunnelRsp, TypeOK, RestTypes
  <2>4. ASSUME NEW id \in Tunnels, NEW s \in Streams, HandleProxyConnReq(id, s) PROVE RestTypes'
    <3>1. tunnels[id] \in Openers \cup {None}
      BY <2>4 DEF TypeOK, CtlTypes
    <3>2. early' \in SUBSET Request
      BY <2>4, <3>1, AddProxyResponseTypes DEF HandleProxyConnReq, TypeOK, RestTypes
    <3>3. engine' \in EngineRec
      BY SMT, <2>4, SMTT(30) DEF HandleProxyConnReq, ReadsProxyConnReq, TypeOK, RestTypes, EngineRec
    <3> QED BY <2>4, <3>2, <3>3 DEF HandleProxyConnReq, TypeOK, RestTypes
  <2>5. ASSUME NEW id \in Tunnels, NEW s \in Streams, RejectProxyConnReq(id, s) PROVE RestTypes'
    <3>1. tunnels[id] \in Openers \cup {None}
      BY <2>5 DEF TypeOK, CtlTypes
    <3>2. early' \in SUBSET Request
      BY <2>5, <3>1, AddProxyResponseTypes, SMTT(30) DEF RejectProxyConnReq, TypeOK, RestTypes
    <3>3. engine' \in EngineRec
      BY SMT, <2>5 DEF RejectProxyConnReq, ReadsProxyConnReq, TypeOK, RestTypes, EngineRec
    <3> QED BY <2>5, <3>2, <3>3 DEF RejectProxyConnReq, TypeOK, RestTypes
  <2>6. CASE ReadCleanup
    BY <2>6, RunCleanupTypes DEF ReadCleanup, RunTunnelCleanup, TypeOK, LoopTypes, RestTypes
  <2> QED BY <2>1, <2>2, <2>3, <2>4, <2>5, <2>6 DEF ReadSteps
<1> QED BY <1>1, <1>2, <1>3, <1>4, <1>5, <1>6, <1>7, SMTT(30) DEF TypeOK

(***************************************************************************)
(* The inductive invariant                                                 *)
(***************************************************************************)
(* Who may hold what, in each phase of the channel: while it is open the   *)
(* cleanup is idle; once it is closed nothing is registered any more.      *)
Phases ==
  /\ ~closed => cleanup.pc = "idle" /\ cleanup.pend = {} /\ cleanup.tuns = {}
  /\ closed => pendingTunnels = {}

(* What is known of a call of CreateTunnel at each of its program points.  *)
CallInv(o) ==
  /\ o \in pendingTunnels \cup cleanup.pend => respCh[o] = "empty" /\ opener[o] # "idle"
  /\ opener[o] = "idle" => respCh[o] = "empty"
  /\ opener[o] \in {"writing", "written", "waiting"} => o \in pendingTunnels \cup cleanup.pend \/ respCh[o] # "empty"
  /\ opener[o] = "committed" => o \in cleanup.pend \/ respCh[o] # "empty"

TrackInv(o) ==
  /\ tun[o].made => tun[o].id \in Tunnels
  /\ tun[o].made /\ ~tun[o].closed => tunnels[tun[o].id] = o \/ o \in cleanup.tuns

OpenInv == Phases /\ \A o \in Openers : CallInv(o) /\ TrackInv(o)

(* What the cleanup, the proxy runtime and Accept leave of the tunnels.    *)
KeepsTunnels ==
  \A p \in Openers : /\ tun'[p].made = tun[p].made /\ tun'[p].id = tun[p].id
                     /\ tun'[p].closed = tun[p].closed
USE DEF KeepsTunnels

(* Connect starts with no call and no tunnel.                              *)
LEMMA OpenInvInit == Init => OpenInv
<1> SUFFICES ASSUME Init PROVE OpenInv
  OBVIOUS
<1>1. ~closed /\ pendingTunnels = {} /\ cleanup.pc = "idle" /\ cleanup.pend = {} /\ cleanup.tuns = {}
  BY DEF Init, IdleCleanup
<1>2. \A o \in Openers : CallInv(o)
  BY <1>1 DEF Init, CallInv
<1>3. \A o \in Openers : ~tun[o].made
  BY DEF Init, NoTunnel
<1> QED BY <1>1, <1>2, <1>3 DEF OpenInv, Phases, TrackInv

(* A step that touches neither the registrations nor the calls.            *)
LEMMA CallFrame ==
  ASSUME OpenInv, UNCHANGED <<closed, pendingTunnels, cleanup, opener, respCh>>
  PROVE  Phases' /\ \A o \in Openers : CallInv(o)'
BY DEF OpenInv, Phases, CallInv

(* A step that touches neither the tunnels nor their registrations.        *)
LEMMA TrackFrame ==
  ASSUME OpenInv, UNCHANGED <<tun, tunnels, cleanup>>
  PROVE  \A o \in Openers : TrackInv(o)'
BY DEF OpenInv, TrackInv

(* A step that changes other fields of a tunnel than these.                *)
LEMMA TrackFrameTun ==
  ASSUME OpenInv, UNCHANGED <<tunnels, cleanup>>,
         KeepsTunnels
  PROVE  \A o \in Openers : TrackInv(o)'
BY DEF OpenInv, TrackInv

(* onError: registrations and tunnels move to the cleanup together.        *)
LEMMA OnErrorInv ==
  ASSUME TypeOK, OpenInv, NEW e, NEW who, OnError(e, who), UNCHANGED <<tun, respCh>>,
         \A o \in Openers : \/ opener'[o] = opener[o]
                            \/ opener'[o] \in {"cleaning", "failed", "done"}
  PROVE  OpenInv'
<1>1. CASE closed
  <2>1. UNCHANGED <<closed, pendingTunnels, tunnels, cleanup>>
    BY <1>1 DEF OnError
  <2>2. Phases'
    BY <2>1 DEF OpenInv, Phases
  <2>3. \A o \in Openers : CallInv(o)'
    BY <2>1 DEF OpenInv, CallInv
  <2> QED BY <2>1, <2>2, <2>3, TrackFrame DEF OpenInv
<1>2. CASE ~closed
  <2>1. /\ closed' /\ pendingTunnels' = {}
        /\ cleanup'.pend = pendingTunnels /\ cleanup'.tuns = Range(tunnels) \ {None}
    BY SMT, <1>2 DEF OnError
  <2>2. cleanup.pend = {} /\ cleanup.tuns = {}
    BY <1>2 DEF OpenInv, Phases
  <2>3. Phases'
    BY <2>1 DEF Phases
  <2>4. \A o \in Openers : CallInv(o)'
    BY <2>1, <2>2 DEF OpenInv, CallInv
  <2>5. \A o \in Openers : TrackInv(o)'
    <3> SUFFICES ASSUME NEW o \in Openers PROVE TrackInv(o)'
      OBVIOUS
    <3>1. tun[o].made /\ ~tun[o].closed => o \in Range(tunnels) \ {None}
      BY <2>2, NoneIsNew DEF OpenInv, TrackInv, Range, TypeOK, CtlTypes
    <3> QED BY <2>1, <3>1 DEF OpenInv, TrackInv
  <2> QED BY <2>3, <2>4, <2>5 DEF OpenInv
<1> QED BY <1>1, <1>2

(* Replacing a tunnel record without touching these fields.                *)
LEMMA TunUpdateKeeps ==
  ASSUME TypeOK, NEW o \in Openers, NEW r, tun' = [tun EXCEPT ![o] = r],
         r.made = tun[o].made, r.id = tun[o].id, r.closed = tun[o].closed
  PROVE  KeepsTunnels
BY DEF TypeOK, TunTypes

(* tunnelCleanup.run leaves the tunnel registered as it was.               *)
LEMMA RunCleanupKeeps ==
  ASSUME TypeOK, NEW o \in Openers, RunTunnelCleanup(o)
  PROVE  KeepsTunnels
<1> DEFINE r == [tun[o] EXCEPT !.cancelled = TRUE, !.drop = {}]
<1>1. tun[o] \in TunnelRec
  BY DEF TypeOK, TunTypes
<1>2. r.made = tun[o].made /\ r.id = tun[o].id /\ r.closed = tun[o].closed
  BY <1>1 DEF TunnelRec
<1>3. tun' = [tun EXCEPT ![o] = r]
  BY DEF RunTunnelCleanup
<1> HIDE DEF r
<1> QED BY <1>2, <1>3, TunUpdateKeeps

(* Counting an owed response leaves the tunnel registered as it was.       *)
LEMMA AddProxyResponseKeeps ==
  ASSUME TypeOK, NEW o \in Openers \cup {None}, NEW s \in Streams, AddProxyResponse(o, s)
  PROVE  KeepsTunnels
<1>1. CASE o = None
  BY <1>1 DEF AddProxyResponse
<1>2. CASE o # None
  <2> DEFINE r == [tun[o] EXCEPT !.pending = tun[o].pending + 1]
  <2>1. o \in Openers /\ tun[o] \in TunnelRec
    BY <1>2 DEF TypeOK, TunTypes
  <2>2. r.made = tun[o].made /\ r.id = tun[o].id /\ r.closed = tun[o].closed
    BY <2>1 DEF TunnelRec
  <2>3. tun' = [tun EXCEPT ![o] = r]
    BY <1>2 DEF AddProxyResponse
  <2> HIDE DEF r
  <2> QED BY <2>1, <2>2, <2>3, TunUpdateKeeps
<1> QED BY <1>1, <1>2

(* A CreateTunnel call withdraws its own registration only, and only while *)
(* it is registered.                                                       *)
LEMMA OpenStepsInv ==
  ASSUME TypeOK, OpenInv, NEW o \in Openers, OpenSteps(o)
  PROVE  OpenInv'
<1>1. CASE OpenOnError(o)
  BY <1>1, OnErrorInv DEF OpenOnError, TypeOK, OpenTypes
<1>2. CASE ~OpenOnError(o)
  <2>1. UNCHANGED <<tun, tunnels, cleanup, closed, respCh>>
    BY <1>2 DEF OpenSteps, CreateTunnel, OpenWritten, OpenSent, OpenNotWritten, OpenWriteFails, OpenFailed,
                OpenCancelled, OpenResult
  <2>2. \A p \in Openers : TrackInv(p)'
    BY <2>1, TrackFrame, SMTT(30)
  <2>3. Phases'
    BY <1>2, <2>1 DEF OpenSteps, CreateTunnel, OpenWritten, OpenSent, OpenNotWritten, OpenWriteFails, OpenFailed,
                OpenCancelled, OpenResult, OpenInv, Phases
  <2>4. ASSUME NEW p \in Openers PROVE CallInv(p)'
    <3>1. CallInv(p) /\ opener = [q \in Openers |-> opener[q]]
      BY DEF OpenInv, TypeOK, OpenTypes
    <3>2. CASE CreateTunnel(o)
      BY <2>1, <3>1, <3>2 DEF CallInv, CreateTunnel
    <3>3. CASE OpenWritten(o)
      BY <2>1, <3>1, <3>3 DEF CallInv, OpenWritten
    <3>9. CASE OpenSent(o)
      BY <2>1, <3>1, <3>9 DEF CallInv, OpenSent
    <3>4. CASE OpenNotWritten(o)
      BY <2>1, <3>1, <3>4 DEF CallInv, OpenNotWritten
    <3>5. CASE OpenWriteFails(o)
      BY <2>1, <3>1, <3>5 DEF CallInv, OpenWriteFails
    <3>6. CASE OpenFailed(o)
      BY <2>1, <3>1, <3>6 DEF CallInv, OpenFailed
    <3>7. CASE OpenCancelled(o)
      BY <2>1, <3>1, <3>7 DEF CallInv, OpenCancelled
    <3>8. CASE OpenResult(o)
      BY <2>1, <3>1, <3>8 DEF CallInv, OpenResult
    <3> QED BY <1>2, <3>2, <3>3, <3>4, <3>5, <3>6, <3>7, <3>8, <3>9 DEF OpenSteps
  <2> QED BY <2>2, <2>3, <2>4 DEF OpenInv
<1> QED BY <1>1, <1>2

(* Close either marks the channel closing or fails it through onError.     *)
LEMMA CloseStepsInv ==
  ASSUME TypeOK, OpenInv, NEW k \in Closers, CloseSteps(k)
  PROVE  OpenInv'
<1>1. CASE CloseOnError(k)
  BY <1>1, OnErrorInv DEF CloseOnError, CloseStep
<1>2. CASE ~CloseOnError(k)
  <2>1. UNCHANGED <<tun, tunnels, cleanup, closed, pendingTunnels, opener, respCh>>
    BY <1>2 DEF CloseSteps, Close, CloseWritten, CloseWriteFails, CloseTimeout, CloseCleaned, CloseReturn,
                CloseStep
  <2> QED BY <2>1, CallFrame, TrackFrame DEF OpenInv
<1> QED BY <1>1, <1>2

(* The cleanup answers a detached call once and closes every detached      *)
(* tunnel.                                                                 *)
LEMMA CleanupStepsInv ==
  ASSUME TypeOK, OpenInv, CleanupSteps
  PROVE  OpenInv'
<1>0. cleanup \in CleanupRec /\ (cleanup.pc # "idle" => closed)
  BY DEF TypeOK, CtlTypes, OpenInv, Phases
<1>1. ASSUME NEW o \in Openers, CleanupPending(o) PROVE OpenInv'
  <2>1. cleanup'.pend = cleanup.pend \ {o} /\ cleanup'.tuns = cleanup.tuns /\ closed /\ o \in cleanup.pend
    BY <1>0, <1>1 DEF CleanupPending, CleanupRec
  <2>2. UNCHANGED <<closed, pendingTunnels, tunnels, tun, opener>> /\ respCh' = [respCh EXCEPT ![o] = "closed"]
    BY <1>1 DEF CleanupPending
  <2>3. Phases'
    BY <2>1, <2>2 DEF OpenInv, Phases
  <2>4. \A p \in Openers : CallInv(p)'
    BY <2>1, <2>2 DEF OpenInv, Phases, CallInv, TypeOK, OpenTypes
  <2>5. \A p \in Openers : TrackInv(p)'
    BY <2>1, <2>2 DEF OpenInv, TrackInv
  <2> QED BY <2>3, <2>4, <2>5 DEF OpenInv
<1>2. ASSUME NEW o \in Openers, CleanupTunnel(o) PROVE OpenInv'
  <2>1. cleanup'.pend = cleanup.pend /\ cleanup'.tuns = cleanup.tuns \ {o} /\ closed
    BY <1>0, <1>2 DEF CleanupTunnel, CleanupRec
  <2>2. UNCHANGED <<closed, pendingTunnels, tunnels, opener, respCh>>
    BY <1>2 DEF CleanupTunnel
  <2>3. tun' = [tun EXCEPT ![o] = ClosedTunnel(tun[o], err)] /\ ClosedTunnel(tun[o], err).closed
    BY <1>2, ClosedTunnelTypes DEF CleanupTunnel, TypeOK, TunTypes, CtlTypes
  <2>4. ClosedTunnel(tun[o], err).made = tun[o].made /\ ClosedTunnel(tun[o], err).id = tun[o].id
    BY DEF ClosedTunnel, TypeOK, TunTypes, TunnelRec
  <2>5. Phases' /\ \A p \in Openers : CallInv(p)'
    BY <2>1, <2>2 DEF OpenInv, Phases, CallInv
  <2>6. \A p \in Openers : TrackInv(p)'
    BY <2>1, <2>2, <2>3, <2>4 DEF OpenInv, TrackInv, TypeOK, TunTypes
  <2> QED BY <2>5, <2>6 DEF OpenInv
<1>3. CASE CleanupTunnelRun \/ CleanupCancel \/ CleanupConn \/ Finish
  <2>1. cleanup'.pend = cleanup.pend /\ cleanup'.tuns = cleanup.tuns /\ closed
    BY <1>0, <1>3 DEF CleanupTunnelRun, CleanupCancel, CleanupConn, Finish, CleanupRec
  <2>2. UNCHANGED <<closed, pendingTunnels, tunnels, opener, respCh>>
    BY <1>3 DEF CleanupTunnelRun, CleanupCancel, CleanupConn, Finish
  <2>3. KeepsTunnels
    <3>1. CASE CleanupTunnelRun
      BY <1>0, <3>1, RunCleanupKeeps DEF CleanupTunnelRun, CleanupRec
    <3>2. CASE CleanupCancel \/ CleanupConn \/ Finish
      BY <3>2 DEF CleanupCancel, CleanupConn, Finish
    <3> QED BY <1>3, <3>1, <3>2
  <2>4. Phases' /\ \A p \in Openers : CallInv(p)'
    BY <2>1, <2>2 DEF OpenInv, Phases, CallInv
  <2>5. \A p \in Openers : TrackInv(p)'
    BY <2>1, <2>2, <2>3 DEF OpenInv, TrackInv
  <2> QED BY <2>4, <2>5 DEF OpenInv
<1> QED BY <1>1, <1>2, <1>3 DEF CleanupSteps

(* A handler answers only a registered call, and removes from the registry *)
(* only the tunnel it closes.                                              *)
LEMMA ReadStepsInv ==
  ASSUME TypeOK, OpenInv, ReadSteps
  PROVE  OpenInv'
<1>1. CASE ReadOnError
  BY <1>1, OnErrorInv DEF ReadOnError
<1>2. CASE ReadFails \/ HandleLastMessage \/ ReadExit
  <2>1. UNCHANGED <<tun, tunnels, cleanup, closed, pendingTunnels, opener, respCh>>
    BY <1>2 DEF ReadFails, HandleLastMessage, ReadExit
  <2> QED BY <2>1, CallFrame, TrackFrame DEF OpenInv
<1>3. ASSUME NEW o \in Openers, NEW id \in Tunnels \cup {None}, HandleOpenTunnelRsp(o, id) PROVE OpenInv'
  <2>1. UNCHANGED <<closed, cleanup, opener>> /\ ~closed
    BY <1>3 DEF HandleOpenTunnelRsp, Reads
  <2>2. cleanup.pend = {} /\ cleanup.tuns = {}
    BY <2>1 DEF OpenInv, Phases
  <2>3. CASE o \notin pendingTunnels
    <3>1. UNCHANGED <<tun, tunnels, cleanup, closed, pendingTunnels, opener, respCh>>
      BY <1>3, <2>3 DEF HandleOpenTunnelRsp
    <3> QED BY <3>1, CallFrame, TrackFrame DEF OpenInv
  <2>4. CASE o \in pendingTunnels
    <3>1. pendingTunnels' = pendingTunnels \ {o} /\ OpenTunnelResult(o, id)
      BY <1>3, <2>4 DEF HandleOpenTunnelRsp
    <3>2. \/ respCh' = [respCh EXCEPT ![o] = "error"] 
          \/ respCh' = [respCh EXCEPT ![o] = "tunnel"]
      BY <3>1 DEF OpenTunnelResult
    <3>3. Phases'
      BY <2>1, <3>1 DEF OpenInv, Phases
    <3>4. \A p \in Openers : CallInv(p)'
      BY <2>1, <2>2, <2>4, <3>1, <3>2 DEF OpenInv, CallInv, TypeOK, OpenTypes
    <3>5. \A p \in Openers : TrackInv(p)'
      <4>1. CASE UNCHANGED <<tunnels, tun>>
        BY <2>1, <4>1, TrackFrame
      <4>2. CASE ~UNCHANGED <<tunnels, tun>>
        <5>1. /\ id \in Tunnels /\ tunnels[id] = None /\ tunnels' = [tunnels EXCEPT ![id] = o]
              /\ tun' = [tun EXCEPT ![o] = [NoTunnel EXCEPT !.made = TRUE, !.id = id]]
          BY <3>1, <4>2 DEF OpenTunnelResult
        <5>2. tun'[o].id = id
          BY <5>1 DEF TypeOK, TunTypes, NoTunnel
        <5>3. TrackInv(o)'
          BY <5>1, <5>2 DEF TrackInv, TypeOK, CtlTypes
        <5>4. ASSUME NEW p \in Openers, p # o PROVE TrackInv(p)'
          <6>1. tun'[p] = tun[p]
            BY <5>1, <5>4 DEF TypeOK, TunTypes
          <6>2. TrackInv(p)
            BY DEF OpenInv
          <6> QED BY <2>1, <2>2, <5>1, <6>1, <6>2, NoneIsNew DEF TrackInv, TypeOK, CtlTypes
        <5> QED BY <5>3, <5>4
      <4> QED BY <4>1, <4>2
    <3> QED BY <3>3, <3>4, <3>5 DEF OpenInv
  <2> QED BY <2>3, <2>4
<1>4. ASSUME NEW id \in Tunnels, HandleCloseTunnelRsp(id) PROVE OpenInv'
  <2>1. UNCHANGED <<closed, pendingTunnels, cleanup, opener, respCh>>
    BY <1>4 DEF HandleCloseTunnelRsp
  <2>2. \A p \in Openers : TrackInv(p)'
    <3>1. CASE tunnels[id] = None
      BY <1>4, <2>1, <3>1, TrackFrame DEF HandleCloseTunnelRsp
    <3>2. CASE tunnels[id] # None
      <4>0. PICK o \in Openers : o = tunnels[id]
        BY <3>2 DEF TypeOK, CtlTypes
      <4>1. tun[o] \in TunnelRec /\ "nil" \in Errors
        BY DEF TypeOK, TunTypes, Errors
      <4>2. tunnels' = [tunnels EXCEPT ![id] = None] /\ tun' = [tun EXCEPT ![o] = ClosedTunnel(tun[o], "nil")]
        BY <1>4, <3>2, <4>0, SMTT(30) DEF HandleCloseTunnelRsp
      <4>3. /\ ClosedTunnel(tun[o], "nil").closed
            /\ ClosedTunnel(tun[o], "nil").made = tun[o].made /\ ClosedTunnel(tun[o], "nil").id = tun[o].id
        BY <4>1, ClosedTunnelTypes, Zenon DEF ClosedTunnel, TunnelRec
      <4>4. tun'[o] = ClosedTunnel(tun[o], "nil") /\ TrackInv(o)
        BY <4>1, <4>2 DEF OpenInv, TypeOK, TunTypes
      <4>5. TrackInv(o)'
        BY <4>3, <4>4 DEF TrackInv
      <4>6. ASSUME NEW p \in Openers, p # o PROVE TrackInv(p)'
        <5>1. tun'[p] = tun[p] /\ TrackInv(p)
          BY <4>2, <4>6 DEF OpenInv, TypeOK, TunTypes
        <5>2. \A i \in Tunnels : tunnels[i] = p => tunnels'[i] = p
          BY <4>0, <4>2, <4>6 DEF TypeOK, CtlTypes
        <5>3. cleanup' = cleanup
          BY <2>1
        <5> QED BY <5>1, <5>2, <5>3 DEF TrackInv
      <4> QED BY <4>5, <4>6
    <3> QED BY <3>1, <3>2
  <2> QED BY <2>1, <2>2, CallFrame DEF OpenInv
<1>5. ASSUME NEW id \in Tunnels, NEW s \in Streams, HandleProxyConnReq(id, s) \/ RejectProxyConnReq(id, s)
      PROVE  OpenInv'
  <2>1. UNCHANGED <<tunnels, cleanup, closed, pendingTunnels, opener, respCh>>
    BY <1>5 DEF HandleProxyConnReq, RejectProxyConnReq
  <2>2. KeepsTunnels
    BY <1>5, AddProxyResponseKeeps DEF HandleProxyConnReq, RejectProxyConnReq, TypeOK, CtlTypes
  <2> QED BY <2>1, <2>2, CallFrame, TrackFrameTun DEF OpenInv
<1>6. CASE ReadCleanup
  <2>1. UNCHANGED <<tunnels, cleanup, closed, pendingTunnels, opener, respCh>>
    BY <1>6 DEF ReadCleanup
  <2>2. KeepsTunnels
    BY <1>6, RunCleanupKeeps DEF ReadCleanup, TypeOK, LoopTypes
  <2> QED BY <2>1, <2>2, CallFrame, TrackFrameTun DEF OpenInv
<1> QED BY <1>1, <1>2, <1>3, <1>4, <1>5, <1>6 DEF ReadSteps


(* The heartbeat loop reaches calls and tunnels through onError only.      *)
LEMMA HeartbeatStepsInv ==
  ASSUME TypeOK, OpenInv, HeartbeatSteps
  PROVE  OpenInv'
<1>1. CASE HeartbeatOnError
  BY <1>1, OnErrorInv DEF HeartbeatOnError, HeartbeatStep
<1>2. CASE ~HeartbeatOnError
  <2>1. UNCHANGED <<tun, tunnels, cleanup, closed, pendingTunnels, opener, respCh>>
    BY <1>2 DEF HeartbeatSteps, HeartbeatFails, HeartbeatExit, HeartbeatGone, HeartbeatStep
  <2> QED BY <2>1, CallFrame, TrackFrame DEF OpenInv
<1> QED BY <1>1, <1>2

(* A worker appends to the connection queue and leaves registrations       *)
(* alone.                                                                  *)
LEMMA WorkerStepsInv ==
  ASSUME TypeOK, OpenInv, NEW w \in Workers, WorkerSteps(w)
  PROVE  OpenInv'
<1>1. UNCHANGED <<tunnels, cleanup, closed, pendingTunnels, opener, respCh>>
  BY DEF WorkerSteps, WorkerExit, WorkerTake, WorkerDial, WorkerCheck, WorkerDeliver, WorkerUndelivered,
         WorkerRecheck, WorkerDrop, WorkerRespond
<1>2. CASE WorkerDeliver(w)
  <2> DEFINE o == worker[w].task.o
             r == [tun[o] EXCEPT !.conns = Append(tun[o].conns, worker[w].task.s)]
  <2>1. o \in Openers /\ tun[o] \in TunnelRec
    BY <1>2, SMTT(30) DEF WorkerDeliver, WorkerAt, TypeOK, ProxyTypes, TunTypes, Request
  <2>2. r.made = tun[o].made /\ r.id = tun[o].id /\ r.closed = tun[o].closed
    BY <2>1, SMTT(30) DEF TunnelRec
  <2>3. tun' = [tun EXCEPT ![o] = r]
    BY <1>2 DEF WorkerDeliver
  <2> HIDE DEF o, r
  <2> QED BY <1>1, <2>1, <2>2, <2>3, TunUpdateKeeps, CallFrame, TrackFrameTun, SMTT(30) DEF OpenInv
<1>3. CASE ~WorkerDeliver(w)
  <2>1. UNCHANGED tun
    BY <1>3 DEF WorkerSteps, WorkerExit, WorkerTake, WorkerDial, WorkerCheck, WorkerUndelivered,
                WorkerRecheck, WorkerDrop, WorkerRespond
  <2> QED BY <1>1, <2>1, CallFrame, TrackFrame, SMTT(30) DEF OpenInv
<1> QED BY <1>2, <1>3

(* The response loop counts responses down and leaves registrations alone. *)
LEMMA ResponseStepsInv ==
  ASSUME TypeOK, OpenInv, ResponseSteps
  PROVE  OpenInv'
<1>1. CASE ResponseOnError
  BY <1>1, OnErrorInv DEF ResponseOnError
<1>2. CASE ~ResponseOnError /\ ~ResponseComplete
  <2>1. UNCHANGED <<tun, tunnels, cleanup, closed, pendingTunnels, opener, respCh>>
    BY <1>2 DEF ResponseSteps, ResponseExit, ResponseTake, ResponseWritten, ResponseWriteFails, ResponseGone
  <2> QED BY <2>1, CallFrame, TrackFrame DEF OpenInv
<1>3. CASE ResponseComplete
  <2> DEFINE o == responseLoop.rsp.o
             r == [tun[o] EXCEPT !.pending = tun[o].pending - 1]
  <2>1. UNCHANGED <<tunnels, cleanup, closed, pendingTunnels, opener, respCh>>
    BY <1>3 DEF ResponseComplete
  <2>2. CASE UNCHANGED tun
    BY <2>1, <2>2, CallFrame, TrackFrame DEF OpenInv
  <2>3. CASE ~UNCHANGED tun
    <3>1. o # None /\ tun' = [tun EXCEPT ![o] = r]
      BY <1>3, <2>3 DEF ResponseComplete
    <3>2. o \in Openers /\ tun[o] \in TunnelRec
      BY <1>3, <3>1 DEF TypeOK, ProxyTypes, TunTypes, ResponseComplete, Response
    <3>3. r.made = tun[o].made /\ r.id = tun[o].id /\ r.closed = tun[o].closed
      BY <3>2 DEF TunnelRec
    <3> HIDE DEF o, r
    <3> QED BY <2>1, <3>1, <3>2, <3>3, TunUpdateKeeps, CallFrame, TrackFrameTun DEF OpenInv
  <2> QED BY <2>2, <2>3
<1> QED BY <1>1, <1>2, <1>3

(* Accept removes a queued connection and leaves registrations alone.      *)
LEMMA AcceptStepsInv ==
  ASSUME TypeOK, OpenInv, NEW a \in Acceptors, AcceptSteps(a)
  PROVE  OpenInv'
<1>1. UNCHANGED <<tunnels, cleanup, closed, pendingTunnels, opener, respCh>>
  BY DEF AcceptSteps, Accept, AcceptPop, AcceptReturn, AcceptError
<1>2. CASE AcceptPop(a)
  <2> DEFINE o == acceptor[a].o
             r == [tun[o] EXCEPT !.conns = Tail(tun[o].conns)]
  <2>1. o \in Openers /\ tun[o] \in TunnelRec
    BY <1>2 DEF AcceptPop, TypeOK, CallTypes, TunTypes
  <2>2. r.made = tun[o].made /\ r.id = tun[o].id /\ r.closed = tun[o].closed
    BY <2>1 DEF TunnelRec
  <2>3. tun' = [tun EXCEPT ![o] = r]
    BY <1>2 DEF AcceptPop
  <2> HIDE DEF o, r
  <2> QED BY <1>1, <2>1, <2>2, <2>3, TunUpdateKeeps, CallFrame, TrackFrameTun DEF OpenInv
<1>3. CASE ~AcceptPop(a)
  <2>1. UNCHANGED tun
    BY <1>3 DEF AcceptSteps, Accept, AcceptReturn, AcceptError
  <2> QED BY <1>1, <2>1, CallFrame, TrackFrame DEF OpenInv
<1> QED BY <1>2, <1>3

(* A tunnel Close call marks the tunnel closing; it never unregisters it.  *)
LEMMA TunnelCloseStepsInv ==
  ASSUME TypeOK, OpenInv, NEW c \in TClosers, TunnelCloseSteps(c)
  PROVE  OpenInv'
<1>1. CASE TunnelOnError(c)
  BY <1>1, OnErrorInv DEF TunnelOnError, TCloseStep
<1>2. ASSUME NEW o \in Openers, TunnelClose(c, o) PROVE OpenInv'
  <2> DEFINE r == [tun[o] EXCEPT !.closing = TRUE]
  <2>1. UNCHANGED <<tunnels, cleanup, closed, pendingTunnels, opener, respCh>>
    BY <1>2 DEF TunnelClose
  <2>2. UNCHANGED tun \/ tun' = [tun EXCEPT ![o] = r]
    BY <1>2 DEF TunnelClose
  <2>3. r.made = tun[o].made /\ r.id = tun[o].id /\ r.closed = tun[o].closed
    BY <1>2, SMTT(30) DEF TypeOK, TunTypes, TunnelRec
  <2> HIDE DEF r
  <2> QED BY <1>2, <2>1, <2>2, <2>3, TunUpdateKeeps, CallFrame, TrackFrame, TrackFrameTun, SMTT(30) DEF OpenInv
<1>3. CASE ~TunnelOnError(c) /\ ~\E o \in Openers : TunnelClose(c, o)
  <2>1. UNCHANGED <<tun, tunnels, cleanup, closed, pendingTunnels, opener, respCh>>
    BY <1>3 DEF TunnelCloseSteps, TunnelDrained, TunnelCloseWritten, TunnelCloseFails, TunnelCloseFailed,
                TunnelCloseAcked, TunnelCloseControlClosed, TCloseStep, TunnelCloseResult
  <2> QED BY <2>1, CallFrame, TrackFrame DEF OpenInv
<1> QED BY <1>1, <1>2, <1>3

(***************************************************************************)
(* The theorems                                                            *)
(***************************************************************************)
LEMMA NextTypes == TypeOK /\ [Next]_vars => TypeOK'
<1>1. ASSUME TypeOK, Next PROVE TypeOK'
  BY <1>1, OpenStepsTypes, CloseStepsTypes, ReadStepsTypes, CleanupStepsTypes, HeartbeatStepsTypes,
     ResponseStepsTypes, WorkerStepsTypes, AcceptStepsTypes, TunnelCloseStepsTypes DEF Next
<1>2. ASSUME TypeOK, UNCHANGED vars PROVE TypeOK'
  BY <1>2, SameTypes DEF vars, TypeOK
<1> QED BY <1>1, <1>2

(* OpenInv is inductive relative to TypeOK.                                *)
LEMMA NextInv == TypeOK /\ OpenInv /\ [Next]_vars => OpenInv'
<1>1. ASSUME TypeOK, OpenInv, Next PROVE OpenInv'
  BY <1>1, OpenStepsInv, CloseStepsInv, ReadStepsInv, CleanupStepsInv, HeartbeatStepsInv,
     ResponseStepsInv, WorkerStepsInv, AcceptStepsInv, TunnelCloseStepsInv DEF Next
<1>2. ASSUME TypeOK, OpenInv, UNCHANGED vars PROVE OpenInv'
  <2>1. UNCHANGED <<tun, tunnels, cleanup, closed, pendingTunnels, opener, respCh>>
    BY <1>2 DEF vars
  <2> QED BY <1>2, <2>1, CallFrame, TrackFrame DEF OpenInv
<1> QED BY <1>1, <1>2

(* Every variable of the control channel keeps its type, and the request,  *)
(* response and connection queues keep within their capacities.            *)
THEOREM ControlChannelTypes == Spec => []TypeOK
BY InitTypes, NextTypes, PTL DEF Spec

(* The inductive invariant holds throughout.                               *)
LEMMA OpenInvAlways == Spec => [](TypeOK /\ OpenInv)
BY InitTypes, NextTypes, OpenInvInit, NextInv, PTL DEF Spec

(* No CreateTunnel call gets two results: handleOpenTunnelRsp never sends  *)
(* on a full response channel, and the cleanup never closes one that has   *)
(* a result.                                                               *)
THEOREM OneResultPerOpenAlways == Spec => []OneResultPerOpen
<1>1. TypeOK /\ OpenInv => OneResultPerOpen
  BY DEF OpenInv, CallInv, OneResultPerOpen, TypeOK, CtlTypes, CleanupRec
<1> QED BY <1>1, OpenInvAlways, PTL

(* No CreateTunnel call is forgotten while it waits for its answer, and    *)
(* one that waits without its context has an answer coming.                *)
THEOREM NoLostOpenAlways == Spec => []NoLostOpen
<1>1. OpenInv => NoLostOpen
  BY DEF OpenInv, CallInv, NoLostOpen
<1> QED BY <1>1, OpenInvAlways, PTL

(* A tunnel that is not closed can always be reached by a CloseTunnelRsp   *)
(* or by the cleanup of the channel.                                       *)
THEOREM OpenTunnelTrackedAlways == Spec => []OpenTunnelTracked
<1>1. OpenInv => OpenTunnelTracked
  BY DEF OpenInv, TrackInv, OpenTunnelTracked
<1> QED BY <1>1, OpenInvAlways, PTL
=============================================================================
