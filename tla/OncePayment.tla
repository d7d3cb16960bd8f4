---------------------------- MODULE OncePayment ----------------------------
(***************************************************************************)
(* What SendTransaction (include/Carbon/Send.h) promises a caller that     *)
(* keeps its gas config and calls again when it has no answer: an          *)
(* instruction is carried out and paid for once, however often it is sent, *)
(* and an answer of true is about one that has reached the chain.          *)
(***************************************************************************)
EXTENDS Naturals

CONSTANT Messages

VARIABLES
    reached,   \* instructions the network holds or has executed
    charged,   \* how often each was carried out and paid for
    accepted   \* the instruction the last answer of true was about, if any
payment == <<reached, charged, accepted>>

Init ==
    /\ reached = {} /\ accepted = {}
    /\ charged = [m \in Messages |-> 0]

\* A call ends: the message may have reached the network whether or not the
\* caller hears of it, and the caller hears of no message that has not.
Call(m) ==
    /\ reached'  \in {reached, reached \cup {m}}
    /\ accepted' \in {{}, {m} \cap reached'}
    /\ UNCHANGED charged

CarryOut(m) ==
    /\ m \in reached /\ charged[m] = 0
    /\ charged' = [charged EXCEPT ![m] = 1]
    /\ UNCHANGED <<reached, accepted>>

Next == \E m \in Messages : Call(m) \/ CarryOut(m)

Spec == Init /\ [][Next]_payment

=============================================================================
