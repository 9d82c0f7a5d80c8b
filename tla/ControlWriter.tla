---------------------------- MODULE ControlWriter ----------------------------
(***************************************************************************)
(* The write side of a control channel: writePbMessageContext, its lock    *)
(* and the interruption of a blocked write by the caller's context.        *)
(*                                                                         *)
(* The connection has one write deadline, which every writer sets and      *)
(* clears.  A cancelled context forces it into the past from a goroutine   *)
(* of its own (context.AfterFunc), so a write must not return before that  *)
(* goroutine has run or has been stopped: otherwise it would hit the next  *)
(* writer.                                                                 *)
(***************************************************************************)
EXTENDS Naturals, Sequences, Functions, TLAPS

CONSTANTS Writers,     \* the calls; each writes one frame
          HasDeadline, \* the calls whose context has a deadline
          None

VARIABLES pc,        \* each call's program point
          result,    \* what it returned
          lock,      \* who holds writeLock
          ctx,       \* each context: "live" or "done"
          expired,   \* the deadline of each context has passed
          interrupt, \* the AfterFunc of each call
          deadline,  \* write deadline of the connection: "none", "past" or the call that set it
          wrote,     \* how the frame of the call went: "no", "whole" or an error
          wire,      \* the whole frames written
          sticky,    \* the bufio.Writer has failed and refuses every further byte
          torn,      \* history: some frame may be on the wire in part
          conn       \* "open" or "closed"

vars == <<pc, result, lock, ctx, expired, interrupt, deadline, wrote, wire, sticky, torn, conn>>

PCs == {"idle", "locking", "locked", "arming", "writing", "stopping", "clearing", "done"}

TypeOK ==
  /\ pc \in [Writers -> PCs]
  /\ result \in [Writers -> {"none", "nil", "refused", "failed"}]
  /\ lock \in Writers \cup {None}
  /\ \A w \in Writers : pc[w] \in {"locked", "arming", "writing", "stopping", "clearing"} <=> lock = w
  /\ ctx \in [Writers -> {"live", "done"}]
  /\ expired \in [Writers -> BOOLEAN]
  /\ interrupt \in [Writers -> {"none", "armed", "running", "over"}]
  /\ deadline \in Writers \cup {"none", "past"}
  /\ wrote \in [Writers -> {"no", "whole", "timeout", "error"}]
  /\ wire \in Seq(Writers)
  /\ sticky \in BOOLEAN /\ torn \in BOOLEAN
  /\ conn \in {"open", "closed"}

Init ==
  /\ pc = [w \in Writers |-> "idle"]
  /\ result = [w \in Writers |-> "none"]
  /\ lock = None
  /\ ctx = [w \in Writers |-> "live"]
  /\ expired = [w \in Writers |-> FALSE]
  /\ interrupt = [w \in Writers |-> "none"]
  /\ deadline = "none"
  /\ wrote = [w \in Writers |-> "no"]
  /\ wire = <<>>
  /\ sticky = FALSE /\ torn = FALSE
  /\ conn = "open"

(***************************************************************************)
(* The surroundings: a caller cancels, time passes, the channel's cleanup  *)
(* or the peer closes the connection.                                      *)
(***************************************************************************)
Cancel(w) ==
  /\ ctx[w] = "live" /\ pc[w] # "done"
  /\ ctx' = [ctx EXCEPT ![w] = "done"]
  /\ UNCHANGED <<pc, result, lock, expired, interrupt, deadline, wrote, wire, sticky, torn, conn>>

(* The deadline of a context passes; its Done channel closes a moment      *)
(* later (ContextExpires).                                                 *)
TimePasses(w) ==
  /\ w \in HasDeadline /\ ~expired[w] /\ pc[w] # "done"
  /\ expired' = [expired EXCEPT ![w] = TRUE]
  /\ UNCHANGED <<pc, result, lock, ctx, interrupt, deadline, wrote, wire, sticky, torn, conn>>

ContextExpires(w) ==
  /\ expired[w] /\ ctx[w] = "live" /\ pc[w] # "done"
  /\ ctx' = [ctx EXCEPT ![w] = "done"]
  /\ UNCHANGED <<pc, result, lock, expired, interrupt, deadline, wrote, wire, sticky, torn, conn>>

ConnCloses ==
  /\ conn = "open"
  /\ conn' = "closed"
  /\ UNCHANGED <<pc, result, lock, ctx, expired, interrupt, deadline, wrote, wire, sticky, torn>>

(* context.AfterFunc: once the context is done its goroutine forces the    *)
(* deadline into the past, then signals interruptDone.                     *)
InterruptRuns(w) ==
  /\ interrupt[w] = "armed" /\ ctx[w] = "done"
  /\ interrupt' = [interrupt EXCEPT ![w] = "running"]
  /\ UNCHANGED <<pc, result, lock, ctx, expired, deadline, wrote, wire, sticky, torn, conn>>

InterruptSets(w) ==
  /\ interrupt[w] = "running"
  /\ deadline' = IF conn = "open" THEN "past" ELSE deadline
  /\ interrupt' = [interrupt EXCEPT ![w] = "over"]
  /\ UNCHANGED <<pc, result, lock, ctx, expired, wrote, wire, sticky, torn, conn>>

(***************************************************************************)
(* writePbMessageContext                                                   *)
(***************************************************************************)
WriteMessage(w) ==
  /\ pc[w] = "idle"
  /\ pc' = [pc EXCEPT ![w] = "locking"]
  /\ UNCHANGED <<result, lock, ctx, expired, interrupt, deadline, wrote, wire, sticky, torn, conn>>

(* contextMutex.Lock: whichever of the two is ready; if both are, either.  *)
Lock(w) ==
  /\ pc[w] = "locking"
  /\ \/ /\ lock = None
        /\ pc' = [pc EXCEPT ![w] = "locked"] /\ lock' = w /\ result' = result
     \/ /\ ctx[w] = "done"
        /\ pc' = [pc EXCEPT ![w] = "done"] /\ result' = [result EXCEPT ![w] = "refused"] /\ lock' = lock
  /\ UNCHANGED <<ctx, expired, interrupt, deadline, wrote, wire, sticky, torn, conn>>

(* The context may have ended while the lock was contended.                *)
CheckContext(w) ==
  /\ pc[w] = "locked"
  /\ IF ctx[w] = "done"
     THEN /\ pc' = [pc EXCEPT ![w] = "done"]
          /\ result' = [result EXCEPT ![w] = "refused"]
          /\ lock' = None
     ELSE pc' = [pc EXCEPT ![w] = "arming"] /\ UNCHANGED <<result, lock>>
  /\ UNCHANGED <<ctx, expired, interrupt, deadline, wrote, wire, sticky, torn, conn>>

(* Sets the caller's deadline on the connection, which fails once that is  *)
(* closed, and arms the interruption.                                      *)
Arm(w) ==
  /\ pc[w] = "arming"
  /\ IF w \in HasDeadline /\ conn = "closed"
     THEN /\ pc' = [pc EXCEPT ![w] = "done"]
          /\ result' = [result EXCEPT ![w] = "failed"]
          /\ lock' = None
          /\ UNCHANGED <<deadline, interrupt>>
     ELSE /\ pc' = [pc EXCEPT ![w] = "writing"]
          /\ deadline' = IF w \in HasDeadline THEN w ELSE deadline
          /\ interrupt' = [interrupt EXCEPT ![w] = "armed"]
          /\ UNCHANGED <<result, lock>>
  /\ UNCHANGED <<ctx, expired, wrote, wire, sticky, torn, conn>>

DeadlinePassed == deadline = "past" \/ (deadline \in Writers /\ expired[deadline])

WriteForgets(w) ==
  /\ pc[w] = "writing"
  /\ pc' = [pc EXCEPT ![w] = "stopping"]
  /\ \/ /\ conn = "open" /\ ~DeadlinePassed
        /\ wrote' = [wrote EXCEPT ![w] = "whole"] /\ wire' = Append(wire, w) /\ UNCHANGED torn
     \/ /\ wrote' = [wrote EXCEPT ![w] = IF conn = "open" /\ DeadlinePassed THEN "timeout" ELSE "error"]
        /\ torn' = TRUE /\ UNCHANGED wire
  /\ UNCHANGED <<result, lock, ctx, expired, interrupt, deadline, sticky, conn>>

(* writeMessage on the bufio.Writer: the frame goes out whole, or an error *)
(* strikes inside or before it and sticks.  A peer that does not read      *)
(* blocks the write until the deadline passes or the connection fails.     *)
Write(w) ==
  /\ pc[w] = "writing"
  /\ pc' = [pc EXCEPT ![w] = "stopping"]
  /\ \/ /\ ~sticky /\ conn = "open" /\ ~DeadlinePassed
        /\ wrote' = [wrote EXCEPT ![w] = "whole"]
        /\ wire' = Append(wire, w) /\ UNCHANGED <<sticky, torn>>
     \/ /\ ~sticky /\ conn = "open" /\ DeadlinePassed
        /\ wrote' = [wrote EXCEPT ![w] = "timeout"]
        /\ sticky' = TRUE /\ torn' = TRUE /\ UNCHANGED wire
     \/ /\ wrote' = [wrote EXCEPT ![w] = "error"]
        /\ sticky' = TRUE /\ torn' = TRUE /\ UNCHANGED wire
  /\ UNCHANGED <<result, lock, ctx, expired, interrupt, deadline, conn>>

StopDoesNotWait(w) ==
  /\ pc[w] = "stopping"
  /\ pc' = [pc EXCEPT ![w] = "clearing"]
  /\ interrupt' = [interrupt EXCEPT ![w] = IF @ = "armed" THEN "over" ELSE @]
  /\ UNCHANGED <<result, lock, ctx, expired, deadline, wrote, wire, sticky, torn, conn>>

(* stop() prevents a goroutine that has not started; one that has is       *)
(* waited for.                                                             *)
Stop(w) ==
  /\ pc[w] = "stopping" /\ interrupt[w] \in {"armed", "over"}
  /\ pc' = [pc EXCEPT ![w] = "clearing"]
  /\ interrupt' = [interrupt EXCEPT ![w] = "over"]
  /\ UNCHANGED <<result, lock, ctx, expired, deadline, wrote, wire, sticky, torn, conn>>

(* Clears the deadline and returns.  A context that is done makes even a   *)
(* whole frame a failure, and after a timeout the call waits for the       *)
(* context to report it.                                                   *)
Finish(w) ==
  /\ pc[w] = "clearing"
  /\ (wrote[w] # "whole" /\ expired[w]) => ctx[w] = "done"
  /\ deadline' = IF conn = "open" THEN "none" ELSE deadline
  /\ result' = [result EXCEPT ![w] = IF wrote[w] = "whole" /\ ctx[w] = "live" THEN "nil" ELSE "failed"]
  /\ pc' = [pc EXCEPT ![w] = "done"]
  /\ lock' = None
  /\ UNCHANGED <<ctx, expired, interrupt, wrote, wire, sticky, torn, conn>>

Steps(w) ==
  \/ WriteMessage(w) \/ Lock(w) \/ CheckContext(w) \/ Arm(w) \/ Write(w) \/ Stop(w) \/ Finish(w)

Next ==
  \/ ConnCloses
  \/ \E w \in Writers : \/ Steps(w)
                        \/ Cancel(w) \/ TimePasses(w) \/ ContextExpires(w)
                        \/ InterruptRuns(w) \/ InterruptSets(w)

Spec == Init /\ [][Next]_vars

(* Goroutines that can run do, and an expired context reports it.  A write *)
(* is sure to return only when its deadline has passed or the connection   *)
(* or the writer has failed: the peer may never read.                      *)
Runs ==
  \E w \in Writers :
    \/ Lock(w) \/ CheckContext(w) \/ Arm(w) \/ Stop(w) \/ Finish(w)
    \/ (DeadlinePassed \/ sticky \/ conn = "closed") /\ Write(w)
    \/ ContextExpires(w) \/ InterruptRuns(w) \/ InterruptSets(w)
Fairness == WF_vars(Runs)

(***************************************************************************)
(* Properties                                                              *)
(***************************************************************************)
(* The stream is whole frames in the order of the lock, nothing follows a  *)
(* torn frame, nil means the frame is out, and an error that is not a      *)
(* controlChannelWriteError means it never will be, which is why           *)
(* CreateTunnel and Close may return it without failing the channel.       *)
Log == INSTANCE FrameLog WITH log <- wire, broken <- torn
WritesFrames == Log!FrameLogSpec

(* A write is timed out only by its own context: the deadline another call *)
(* left behind or its late AfterFunc never interrupts it.                  *)
OwnTimeout == \A w \in Writers : wrote[w] = "timeout" => ctx[w] = "done" \/ expired[w]

(* The lock, the program points and OwnTimeout together.                   *)
WriterInv == TypeOK /\ OwnTimeout

(* A cancelled or expired write returns, also when it waits behind another *)
(* writer that is blocked on a peer that never reads.                      *)
Settled == \A w \in Writers : ctx[w] = "done" /\ pc[w] # "idle" => pc[w] = "done"
(***************************************************************************)
(* Proofs                                                                  *)
(***************************************************************************)
(* The nil pointer and the two marks of a deadline are not calls.          *)
ConstantsDiffer == None \notin Writers /\ {"none", "past"} \cap Writers = {}

(* Only the call that holds the lock has an AfterFunc that may still run,  *)
(* and while the connection is open its write deadline is that call's own: *)
(* the one it set, or the past its own AfterFunc forced.                   *)
InterruptInv ==
  /\ \A w \in Writers : /\ interrupt[w] \in {"armed", "running"} => pc[w] \in {"writing", "stopping"}
                        /\ interrupt[w] = "running" => ctx[w] = "done"
  /\ conn = "open" /\ deadline # "none"
       => \E w \in Writers : /\ pc[w] \in {"writing", "stopping", "clearing"}
                             /\ deadline = w \/ (deadline = "past" /\ ctx[w] = "done")

(* The wire holds the frames written whole, a call writes once, and the    *)
(* sticky error of the bufio.Writer marks the end of the stream.           *)
WireInv ==
  /\ sticky = torn
  /\ \A w \in Writers :
       /\ w \in Range(wire) <=> wrote[w] = "whole"
       /\ pc[w] \in {"idle", "locking", "locked", "arming", "writing"} => wrote[w] = "no"
       /\ result[w] = "none" <=> pc[w] # "done"

WriterIInv == TypeOK /\ OwnTimeout /\ InterruptInv /\ WireInv

LEMMA AppendRange ==
  ASSUME NEW q \in Seq(Writers), NEW w \in Writers
  PROVE  Range(Append(q, w)) = Range(q) \cup {w}
<1>1. /\ DOMAIN q = 1..Len(q) /\ DOMAIN Append(q, w) = 1..(Len(q) + 1) /\ Len(q) \in Nat
      /\ \A i \in 1..Len(q) : Append(q, w)[i] = q[i]
      /\ Append(q, w)[Len(q) + 1] = w
  OBVIOUS
<1> QED BY <1>1 DEF Range

LEMMA InitIInv == ASSUME ConstantsDiffer PROVE Init => WriterIInv
<1> SUFFICES ASSUME Init PROVE WriterIInv
  OBVIOUS
<1>1. TypeOK
  <2>1. expired \in [Writers -> BOOLEAN] /\ sticky \in BOOLEAN /\ torn \in BOOLEAN
    BY Zenon DEF Init
  <2>2. wire \in Seq(Writers)
    BY DEF Init
  <2> QED BY <2>1, <2>2 DEF Init, TypeOK, PCs, ConstantsDiffer
<1>2. OwnTimeout /\ InterruptInv
  BY DEF Init, OwnTimeout, InterruptInv
<1>3. Range(wire) = {}
  BY DEF Init, Range
<1>4. WireInv
  BY Zenon, <1>3 DEF Init, WireInv
<1> QED BY <1>1, <1>2, <1>4 DEF WriterIInv

(* What the surroundings and an AfterFunc do to a call.                    *)
LEMMA SurroundingsIInv ==
  ASSUME ConstantsDiffer, WriterIInv,
         ConnCloses \/ \E w \in Writers : Cancel(w) \/ TimePasses(w) \/ ContextExpires(w) \/ InterruptRuns(w)
  PROVE  WriterIInv'
<1> USE DEF WriterIInv
<1>1. UNCHANGED <<pc, result, lock, deadline, wrote, wire, sticky, torn>>
  BY DEF ConnCloses, Cancel, TimePasses, ContextExpires, InterruptRuns
<1>2. /\ ctx' \in [Writers -> {"live", "done"}] /\ expired' \in [Writers -> BOOLEAN]
      /\ interrupt' \in [Writers -> {"none", "armed", "running", "over"}] /\ conn' \in {"open", "closed"}
      /\ conn' = "open" => conn = "open"
      /\ \A w \in Writers : /\ ctx[w] = "done" => ctx'[w] = "done"
                            /\ interrupt'[w] = interrupt[w] \/ (interrupt[w] = "armed" /\ interrupt'[w] = "running" /\ ctx'[w] = "done")
  <2>1. CASE ConnCloses
    BY <2>1 DEF TypeOK, ConnCloses
  <2>2. CASE \E w \in Writers : Cancel(w) \/ ContextExpires(w)
    BY <2>2 DEF TypeOK, Cancel, ContextExpires
  <2>3. CASE \E w \in Writers : TimePasses(w)
    BY <2>3 DEF TypeOK, TimePasses
  <2>4. CASE \E w \in Writers : InterruptRuns(w)
    BY <2>4 DEF TypeOK, InterruptRuns
  <2> QED BY <2>1, <2>2, <2>3, <2>4
<1>3. \A w \in Writers : expired[w] => expired'[w]
  BY DEF TypeOK, ConnCloses, Cancel, TimePasses, ContextExpires, InterruptRuns
<1>4. TypeOK'
  BY <1>1, <1>2 DEF TypeOK
<1>5. OwnTimeout'
  BY <1>1, <1>2, <1>3 DEF OwnTimeout
<1>6. InterruptInv'
  BY <1>1, <1>2 DEF InterruptInv
<1>7. WireInv'
  BY <1>1 DEF WireInv
<1> QED BY <1>4, <1>5, <1>6, <1>7

LEMMA InterruptSetsIInv ==
  ASSUME ConstantsDiffer, WriterIInv, NEW w \in Writers, InterruptSets(w)
  PROVE  WriterIInv'
<1> USE DEF WriterIInv
<1>1. UNCHANGED <<pc, result, lock, ctx, expired, wrote, wire, sticky, torn, conn>>
  BY DEF InterruptSets
<1>2. /\ interrupt' = [interrupt EXCEPT ![w] = "over"] /\ pc[w] \in {"writing", "stopping"} /\ ctx[w] = "done"
      /\ deadline' = (IF conn = "open" THEN "past" ELSE deadline)
  BY DEF InterruptSets, InterruptInv
<1>3. TypeOK'
  BY <1>1, <1>2 DEF TypeOK
<1>4. OwnTimeout' /\ WireInv'
  BY <1>1 DEF OwnTimeout, WireInv
<1>5. InterruptInv'
  BY <1>1, <1>2 DEF InterruptInv, TypeOK
<1> QED BY <1>3, <1>4, <1>5

(* A call that has the connection to itself takes a step.                  *)
LEMMA StepsIInv ==
  ASSUME ConstantsDiffer, WriterIInv, NEW w \in Writers, Steps(w)
  PROVE  WriterIInv'
<1> USE DEF WriterIInv
<1>1. UNCHANGED <<ctx, expired, conn>>
  BY DEF Steps, WriteMessage, Lock, CheckContext, Arm, Write, Stop, Finish
<1>2. \A v \in Writers : pc[v] \in {"locked", "arming", "writing", "stopping", "clearing"} <=> lock = v
  BY DEF TypeOK
<1>3. CASE WriteMessage(w)
  <2>1. UNCHANGED <<result, lock, interrupt, deadline, wrote, wire, sticky, torn>> /\ pc[w] = "idle"
        /\ pc' = [pc EXCEPT ![w] = "locking"]
    BY <1>3 DEF WriteMessage
  <2>2. TypeOK'
    BY <1>1, <2>1 DEF TypeOK, PCs
  <2>3. OwnTimeout' /\ InterruptInv' /\ WireInv'
    BY <1>1, <2>1 DEF TypeOK, OwnTimeout, InterruptInv, WireInv
  <2> QED BY <2>2, <2>3
<1>4. CASE Lock(w)
  <2>1. UNCHANGED <<interrupt, deadline, wrote, wire, sticky, torn>> /\ pc[w] = "locking"
    BY <1>4 DEF Lock
  <2>2. TypeOK'
    <3>1. CASE lock = None /\ pc' = [pc EXCEPT ![w] = "locked"] /\ lock' = w /\ result' = result
      BY <1>1, <2>1, <3>1 DEF TypeOK, PCs, ConstantsDiffer
    <3>2. CASE pc' = [pc EXCEPT ![w] = "done"] /\ result' = [result EXCEPT ![w] = "refused"] /\ lock' = lock
      BY <1>1, <2>1, <3>2 DEF TypeOK, PCs
    <3> QED BY <1>4, <3>1, <3>2 DEF Lock
  <2>3. OwnTimeout' /\ InterruptInv'
    BY <1>1, <1>4, <2>1 DEF TypeOK, OwnTimeout, InterruptInv, Lock
  <2>4. WireInv'
    BY <1>1, <1>4, <2>1 DEF TypeOK, WireInv, Lock
  <2> QED BY <2>2, <2>3, <2>4
<1>5. CASE CheckContext(w)
  <2>1. UNCHANGED <<interrupt, deadline, wrote, wire, sticky, torn>> /\ pc[w] = "locked"
    BY <1>5 DEF CheckContext
  <2>2. TypeOK'
    BY <1>1, <1>5 DEF TypeOK, PCs, CheckContext, ConstantsDiffer
  <2>3. OwnTimeout' /\ InterruptInv'
    BY <1>1, <1>5, <2>1 DEF TypeOK, OwnTimeout, InterruptInv, CheckContext
  <2>4. WireInv'
    BY <1>1, <1>5, <2>1 DEF TypeOK, WireInv, CheckContext
  <2> QED BY <2>2, <2>3, <2>4
<1>6. CASE Arm(w)
  <2>1. UNCHANGED <<wrote, wire, sticky, torn>> /\ pc[w] = "arming"
    BY <1>6 DEF Arm
  <2>2. TypeOK'
    BY <1>1, <1>6 DEF TypeOK, PCs, Arm, ConstantsDiffer
  <2>3. conn = "open" => deadline = "none"
    BY <1>2, <2>1 DEF InterruptInv
  <2>4. OwnTimeout' /\ InterruptInv'
    BY <1>1, <1>6, <2>1, <2>3 DEF TypeOK, OwnTimeout, InterruptInv, Arm
  <2>5. WireInv'
    BY <1>1, <1>6, <2>1 DEF TypeOK, WireInv, Arm
  <2> QED BY <2>2, <2>4, <2>5
<1>7. CASE Write(w)
  <2>1. UNCHANGED <<result, lock, interrupt, deadline>> /\ pc[w] = "writing" /\ pc' = [pc EXCEPT ![w] = "stopping"]
    BY <1>7 DEF Write
  <2>2. PICK o \in {"whole", "timeout", "error"} :
          /\ wrote' = [wrote EXCEPT ![w] = o]
          /\ o = "whole" => wire' = Append(wire, w) /\ UNCHANGED <<sticky, torn>>
          /\ o # "whole" => wire' = wire /\ sticky' = TRUE /\ torn' = TRUE
          /\ o = "timeout" => conn = "open" /\ DeadlinePassed
    BY <1>7 DEF Write
  <2>3. TypeOK'
    <3>1. sticky' \in BOOLEAN /\ torn' \in BOOLEAN
      <4>1. CASE o = "whole"
        BY <2>2, <4>1 DEF TypeOK
      <4>2. CASE o # "whole"
        BY <2>2, <4>2
      <4> QED BY <4>1, <4>2
    <3>2. wire' \in Seq(Writers)
      <4>1. wire' = wire \/ wire' = Append(wire, w)
        BY <2>2
      <4>2. wire \in Seq(Writers)
        BY DEF TypeOK
      <4> QED BY <4>1, <4>2
    <3>3. wrote' \in [Writers -> {"no", "whole", "timeout", "error"}] /\ pc' \in [Writers -> PCs]
      BY <2>1, <2>2 DEF TypeOK, PCs
    <3>4. \A v \in Writers : pc'[v] \in {"locked", "arming", "writing", "stopping", "clearing"} <=> lock' = v
      BY <2>1 DEF TypeOK
    <3> QED BY <1>1, <2>1, <3>1, <3>2, <3>3, <3>4 DEF TypeOK
  <2>4. o = "timeout" => ctx[w] = "done" \/ expired[w]
    BY <1>2, <2>1, <2>2 DEF DeadlinePassed, InterruptInv, ConstantsDiffer
  <2>5. OwnTimeout' /\ InterruptInv'
    BY <1>1, <2>1, <2>2, <2>4 DEF TypeOK, OwnTimeout, InterruptInv
  <2>6. wire \in Seq(Writers) /\ (o = "whole" => Range(wire') = Range(wire) \cup {w})
    BY Zenon, <2>2, AppendRange DEF TypeOK
  <2>7. sticky' = torn'
    BY Zenon, <2>2 DEF WireInv
  <2>8. ASSUME NEW v \in Writers
        PROVE  /\ v \in Range(wire') <=> wrote'[v] = "whole"
               /\ pc'[v] \in {"idle", "locking", "locked", "arming", "writing"} => wrote'[v] = "no"
               /\ result'[v] = "none" <=> pc'[v] # "done"
    <3>1. /\ v \in Range(wire) <=> wrote[v] = "whole"
          /\ pc[v] \in {"idle", "locking", "locked", "arming", "writing"} => wrote[v] = "no"
          /\ result[v] = "none" <=> pc[v] # "done"
      BY DEF WireInv
    <3>2. CASE v # w
      <4>1. wrote'[v] = wrote[v] /\ pc'[v] = pc[v] /\ result'[v] = result[v]
        BY <2>1, <2>2, <3>2 DEF TypeOK
      <4>2. v \in Range(wire') <=> v \in Range(wire)
        BY <2>2, <2>6, <3>2
      <4> QED BY <3>1, <4>1, <4>2
    <3>3. CASE v = w
      <4>1. wrote'[w] = o /\ pc'[w] = "stopping" /\ result'[w] = result[w] /\ wrote[w] = "no"
        BY <2>1, <2>2, <3>1, <3>3 DEF TypeOK
      <4>2. w \in Range(wire') <=> o = "whole"
        BY <2>2, <2>6, <3>1, <3>3, <4>1
      <4> QED BY <2>1, <3>1, <3>3, <4>1, <4>2
    <3> QED BY <3>2, <3>3
  <2>9. WireInv'
    BY <2>7, <2>8 DEF WireInv
  <2> QED BY <2>3, <2>5, <2>9
<1>8. CASE Stop(w)
  <2>1. /\ UNCHANGED <<result, lock, deadline, wrote, wire, sticky, torn>> /\ pc[w] = "stopping"
        /\ pc' = [pc EXCEPT ![w] = "clearing"] /\ interrupt' = [interrupt EXCEPT ![w] = "over"]
    BY <1>8 DEF Stop
  <2>2. TypeOK'
    BY <1>1, <2>1 DEF TypeOK, PCs
  <2>3. OwnTimeout' /\ InterruptInv' /\ WireInv'
    BY <1>1, <2>1 DEF TypeOK, OwnTimeout, InterruptInv, WireInv
  <2> QED BY <2>2, <2>3
<1>9. CASE Finish(w)
  <2>1. /\ UNCHANGED <<interrupt, wrote, wire, sticky, torn>> /\ pc[w] = "clearing" /\ lock' = None
        /\ pc' = [pc EXCEPT ![w] = "done"] /\ deadline' = (IF conn = "open" THEN "none" ELSE deadline)
        /\ result' \in {[result EXCEPT ![w] = "nil"], [result EXCEPT ![w] = "failed"]}
    BY Zenon, <1>9 DEF Finish
  <2>2. TypeOK'
    BY <1>1, <2>1 DEF TypeOK, PCs, ConstantsDiffer
  <2>3. OwnTimeout' /\ InterruptInv'
    BY <1>1, <2>1 DEF TypeOK, OwnTimeout, InterruptInv
  <2>4. WireInv'
    BY <1>1, <2>1 DEF TypeOK, WireInv
  <2> QED BY <2>2, <2>3, <2>4
<1> QED BY <1>3, <1>4, <1>5, <1>6, <1>7, <1>8, <1>9 DEF Steps

LEMMA WriterIInvAlways == ASSUME ConstantsDiffer PROVE Spec => []WriterIInv
<1>1. WriterIInv /\ UNCHANGED vars => WriterIInv'
  BY DEF vars, WriterIInv, TypeOK, OwnTimeout, InterruptInv, WireInv
<1>2. WriterIInv /\ [Next]_vars => WriterIInv'
  BY <1>1, SurroundingsIInv, InterruptSetsIInv, StepsIInv DEF Next
<1> QED BY <1>2, InitIInv, PTL DEF Spec

(* For any number of calls: writeLock is held by one call at a time, and a *)
(* write is timed out only by its own context, never by the deadline or    *)
(* the late AfterFunc of another call.                                     *)
THEOREM WriterInvAlways == ASSUME ConstantsDiffer PROVE Spec => []WriterInv
<1>1. WriterIInv => WriterInv
  BY DEF WriterIInv, WriterInv
<1> QED BY <1>1, WriterIInvAlways, PTL

(* The write path implements its promise: whole frames in the order of the *)
(* lock, nothing after a torn one, and a result that says what became of   *)
(* the frame.                                                              *)
THEOREM WritesFramesAlways == ASSUME ConstantsDiffer PROVE Spec => WritesFrames
<1>1. Init => Log!FrameLogInit
  BY DEF Init, Log!FrameLogInit
<1>2. ASSUME WriterIInv, NEW w \in Writers, Steps(w) PROVE [Log!FrameLogNext]_<<wire, torn, result>>
  <2> USE <1>2 DEF WriterIInv
  <2>1. CASE WriteMessage(w) \/ Stop(w)
    BY <2>1 DEF WriteMessage, Stop
  <2>2. ASSUME NEW r \in {"nil", "refused", "failed"}, result' = [result EXCEPT ![w] = r], UNCHANGED <<wire, torn>>,
               pc[w] # "done", r = "nil" => wrote[w] = "whole", r = "refused" => wrote[w] = "no"
        PROVE  [Log!FrameLogNext]_<<wire, torn, result>>
    <3>1. Log!Return(w, r)
      BY <2>2 DEF WireInv, Range, Log!Return, Log!Range
    <3> QED BY <3>1 DEF Log!FrameLogNext
  <2>3. CASE Lock(w)
    BY <2>2, <2>3 DEF Lock, WireInv
  <2>4. CASE CheckContext(w)
    BY <2>2, <2>4 DEF CheckContext, WireInv
  <2>5. CASE Arm(w)
    BY <2>2, <2>5 DEF Arm
  <2>6. CASE Finish(w)
    BY Zenon, <2>2, <2>6 DEF Finish
  <2>7. CASE Write(w)
    <3>1. CASE UNCHANGED wire
      BY <2>7, <3>1 DEF Write, Log!FrameLogNext, Log!Break
    <3>2. CASE ~sticky /\ wire' = Append(wire, w) /\ UNCHANGED torn
      <4>1. Log!Send(w)
        BY <2>7, <3>2 DEF Write, WireInv, Range, Log!Send, Log!Range
      <4> QED BY <4>1 DEF Log!FrameLogNext
    <3> QED BY <2>7, <3>1, <3>2 DEF Write
  <2> QED BY <2>1, <2>3, <2>4, <2>5, <2>6, <2>7 DEF Steps
<1>3. WriterIInv /\ [Next]_vars => [Log!FrameLogNext]_<<wire, torn, result>>
  BY <1>2 DEF Next, vars, ConnCloses, Cancel, TimePasses, ContextExpires, InterruptRuns, InterruptSets
<1> QED BY <1>1, <1>3, WriterIInvAlways, PTL DEF Spec, WritesFrames, Log!FrameLogSpec
=============================================================================
