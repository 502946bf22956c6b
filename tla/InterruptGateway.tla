-------------------------- MODULE InterruptGateway --------------------------
(***************************************************************************)
(* What an interrupt controller promises about each of its sources: a      *)
(* request is pending, or exactly one context serves it, or it rests; a    *)
(* device that asks finds its request taken up, and one that still asks    *)
(* when service ends finds it pending again.                               *)
(***************************************************************************)
EXTENDS Integers

CONSTANTS
  Sources,   \* interrupt sources
  Contexts,  \* who serves them
  Rest,      \* states of a source that no context serves ...
  Pending    \* ... without and with a request

VARIABLES
  asked,     \* the sources whose level is high
  state      \* state[i]: Rest, Pending, or the context that serves i

vars == <<asked, state>>

Init ==
  /\ asked = {}
  /\ state = [i \in Sources |-> Rest]

\* The levels become high; no request is lost and none is served twice.
Levels(high) ==
  /\ asked' = high
  /\ state' = [i \in Sources |->
                 IF state[i] = Rest /\ i \in high THEN Pending ELSE state[i]]

\* A pending request is given to one context, while levels may change.
Claim(c, i, high) ==
  /\ state[i] = Pending
  /\ asked' = high
  /\ state' = [j \in Sources |->
                 IF j = i THEN c
                 ELSE IF state[j] = Rest /\ j \in high THEN Pending
                 ELSE state[j]]

\* The context that serves a source ends its service; if the level was high
\* or is high the request is pending.
Complete(c, i, high) ==
  /\ state[i] = c
  /\ asked' = high
  /\ state' = [j \in Sources |->
                 IF j = i THEN IF i \in asked \cup high THEN Pending ELSE Rest
                 ELSE IF state[j] = Rest /\ j \in high THEN Pending
                 ELSE state[j]]

Reset == asked' = {} /\ state' = [i \in Sources |-> Rest]

Next ==
  \/ Reset
  \/ \E high \in SUBSET Sources :
       \/ Levels(high)
       \/ \E c \in Contexts, i \in Sources : Claim(c, i, high) \/ Complete(c, i, high)

Spec == Init /\ [][Next]_vars

=============================================================================
