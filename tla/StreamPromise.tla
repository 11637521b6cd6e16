---------------------------- MODULE StreamPromise ---------------------------
(***************************************************************************)
(* What a streamed attempt promises its client and its caller              *)
(* (handler/gateway.go, forwardOnce), without goroutines, locks or frames. *)
(* The upstream's stream is numbered lines.  The client sees a prefix of   *)
(* it, each line once and in order.  An attempt that moves to another key  *)
(* has shown nothing; one that has served has shown all; one that fails    *)
(* after it began may add the gateway's own closing event.                 *)
(***************************************************************************)
EXTENDS Naturals, Sequences

CONSTANT Closing   \* the gateway's error event, not the number of a line

VARIABLES
  sent,      \* lines the upstream has sent
  seen,      \* what the client has got
  begun,     \* the response has begun
  verdict    \* what the attempt reports: open, served, moved, failed

promiseVars == <<sent, seen, begun, verdict>>

Prefix(s) == s = [i \in 1..Len(s) |-> i]

PromiseInit == sent = 0 /\ seen = <<>> /\ begun = FALSE /\ verdict = "open"

Send ==
  /\ verdict = "open" /\ sent' > sent
  /\ UNCHANGED <<seen, begun, verdict>>

\* The response begins, or goes on.
Deliver ==
  /\ verdict = "open" /\ begun'
  /\ Len(seen') >= Len(seen) /\ Len(seen') <= sent /\ Prefix(seen')
  /\ UNCHANGED <<sent, verdict>>

Serve ==
  /\ verdict = "open" /\ verdict' = "served"
  /\ begun /\ Len(seen) = sent
  /\ UNCHANGED <<sent, seen, begun>>

Move ==
  /\ verdict = "open" /\ verdict' = "moved"
  /\ ~begun
  /\ UNCHANGED <<sent, seen, begun>>

Abandon ==
  /\ verdict = "open" /\ verdict' = "failed"
  /\ \/ UNCHANGED seen
     \/ begun /\ seen' = Append(seen, Closing)
  /\ UNCHANGED <<sent, begun>>

PromiseNext == Send \/ Deliver \/ Serve \/ Move \/ Abandon

PromiseSpec == PromiseInit /\ [][PromiseNext]_promiseVars
=============================================================================
