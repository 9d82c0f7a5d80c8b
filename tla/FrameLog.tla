------------------------------ MODULE FrameLog ------------------------------
(***************************************************************************)
(* What the write side of a control channel promises its callers: frames   *)
(* reach the engine whole and one after the other, the stream ends with    *)
(* the first frame that is torn, and the result of a call says whether its *)
(* frame is out.                                                           *)
(***************************************************************************)
EXTENDS Sequences, Functions

CONSTANT Writers  \* the calls; each writes one frame

VARIABLES log,    \* the whole frames on the wire, in order
          broken, \* the stream ended inside a frame, or at an error
          result  \* what each call returned

FrameLogInit ==
  /\ log = <<>>
  /\ broken = FALSE
  /\ result = [w \in Writers |-> "none"]

(* A frame goes out whole, while its call is in progress.                  *)
Send(w) ==
  /\ ~broken /\ result[w] = "none" /\ w \notin Range(log)
  /\ log' = Append(log, w)
  /\ UNCHANGED <<broken, result>>

Break ==
  /\ broken' = TRUE
  /\ UNCHANGED <<log, result>>

(* nil promises that the frame is out; "refused", an error that is not a   *)
(* controlChannelWriteError, that it is not and never will be; "failed"    *)
(* promises nothing, and the caller has to give up the channel.            *)
Return(w, r) ==
  /\ result[w] = "none"
  /\ r = "nil" => w \in Range(log)
  /\ r = "refused" => w \notin Range(log)
  /\ result' = [result EXCEPT ![w] = r]
  /\ UNCHANGED <<log, broken>>

FrameLogNext ==
  \/ \E w \in Writers : Send(w) \/ (\E r \in {"nil", "refused", "failed"} : Return(w, r))
  \/ Break

FrameLogSpec == FrameLogInit /\ [][FrameLogNext]_<<log, broken, result>>
=============================================================================
