--------------------------- MODULE ResponseStream ---------------------------
(***************************************************************************)
(* What the peers of a Server observe: each connection is served at most   *)
(* once, and while it is served its peer receives, in order and without    *)
(* gaps, a prefix of the bytes of the responses queued for it.  No queues, *)
(* descriptors or events: EventLoop implements this specification.         *)
(***************************************************************************)
EXTENDS Integers, Sequences

CONSTANTS
  Conns,     \* the connections
  Sizes,     \* the sizes a response may have
  MaxSend    \* the most one send() is asked to take

VARIABLES
  phase,     \* "none" before the connection is accepted, then "served", "gone"
  queued,    \* bytes of responses queued for the connection
  received,  \* the positions of the bytes sent on it
  up         \* is the process alive?

vars == <<phase, queued, received, up>>

Init ==
  /\ phase = [c \in Conns |-> "none"]
  /\ queued = [c \in Conns |-> 0]
  /\ received = [c \in Conns |-> <<>>]
  /\ up = TRUE

Open(c) ==
  /\ phase[c] = "none"
  /\ phase' = [phase EXCEPT ![c] = "served"]
  /\ UNCHANGED <<queued, received, up>>

\* The connection ends; it may never have been served.
Close(c) ==
  /\ phase[c] # "gone"
  /\ phase' = [phase EXCEPT ![c] = "gone"]
  /\ UNCHANGED <<queued, received, up>>

Respond(c) ==
  /\ phase[c] = "served"
  /\ \E size \in Sizes : queued' = [queued EXCEPT ![c] = @ + size]
  /\ UNCHANGED <<phase, received, up>>

\* The next n bytes are sent, and the connection may be closed behind them.
Transmit(c) ==
  /\ phase[c] = "served"
  /\ \E n \in 1..MaxSend :
       /\ Len(received[c]) + n <= queued[c]
       /\ received' = [received EXCEPT ![c] =
            @ \o [j \in 1..n |-> Len(@) + j]]
  /\ \/ phase' = phase
     \/ phase' = [phase EXCEPT ![c] = "gone"]
  /\ UNCHANGED <<queued, up>>

Crash ==
  /\ up' = FALSE
  /\ UNCHANGED <<phase, queued, received>>

Next ==
  /\ up
  /\ \/ Crash
     \/ \E c \in Conns : Open(c) \/ Close(c) \/ Respond(c) \/ Transmit(c)

Spec == Init /\ [][Next]_vars
=============================================================================
