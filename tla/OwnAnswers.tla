----------------------------- MODULE OwnAnswers -----------------------------
(***************************************************************************)
(* What the JSON-RPC layer (include/PhantasmaAPI.h) promises the threads   *)
(* that share it: every request has an id of its own, a call ends at most  *)
(* once, and what it reports is what the node answered to its own request, *)
(* word for word, or says that it is not.  How ids are remembered and      *)
(* matched is left to the implementation.                                  *)
(***************************************************************************)
EXTENDS Integers

CONSTANTS
    Threads,
    Requests,   \* the ids a request may have
    Codes,      \* of the errors a node answers with
    Refused,    \* the code of a response to something else
    Failed      \* the code of an exchange without a response

None    == 0
NoReply == [to |-> None, kind |-> "none", code |-> 0]

\* An answer of the node: a result, whose code is 0, or an error with its own.
Answers == [kind : {"result"}, code : {0}] \cup [kind : {"error"}, code : Codes]

VARIABLES
    given,   \* the ids requests had so far
    asked,   \* per thread: the request it waits for, or None
    reply    \* per thread: what its last call reported
exchange == <<given, asked, reply>>

Init ==
    /\ given = {}
    /\ asked = [t \in Threads |-> None]
    /\ reply = [t \in Threads |-> NoReply]

Ask(t, id) ==
    /\ asked[t] = None
    /\ given' = given \cup {id}
    /\ asked' = [asked EXCEPT ![t] = id]
    /\ reply' = [reply EXCEPT ![t] = NoReply]

\* A call ends, and its caller is told the given reply.
End(t, told) ==
    /\ asked[t] # None
    /\ asked' = [asked EXCEPT ![t] = None]
    /\ reply' = [reply EXCEPT ![t] = told]
    /\ UNCHANGED given

\* The transport brings the answer to some request: the call reports it as it
\* is if the request is its own, and refuses it otherwise.
Report(t, id, answer) ==
    End(t, [to |-> id, kind |-> answer.kind,
            code |-> IF id = asked[t] THEN answer.code ELSE Refused])

Fail(t)  == End(t, [to |-> None, kind |-> "none", code |-> Failed])
Raise(t) == End(t, NoReply)

Next == \E t \in Threads :
    \/ \E id \in Requests \ given : Ask(t, id)
    \/ \E id \in given, answer \in Answers : Report(t, id, answer)
    \/ Fail(t)
    \/ Raise(t)

Spec == Init /\ [][Next]_exchange

=============================================================================
