---------------------------- MODULE WholeReading ----------------------------
(***************************************************************************)
(* What ReadInfusedAssets (include/Carbon/FeeInfusions.h) promises its     *)
(* caller: one reading of what the instances to be burned hold.  It ends   *)
(* at most once, with an error or with a list, and a list is the whole of  *)
(* what an honest node has; from a faulty one it holds at most what the    *)
(* pages of the cap have room for.  How the list is paged, by which        *)
(* queries and in which order it is read, is left to the implementation.   *)
(***************************************************************************)
EXTENDS Integers

CONSTANTS
    Instances,    \* the most instances a message burns
    Tokens,
    NonFungible,  \* those of which an amount is read
    PagesOfAWalk  \* the pages an item may be listed on

VARIABLES
    named,   \* how many instances the message burns
    before,  \* how much of each token they held when the call began
    held,    \* and now
    honest,  \* the node lists what there is, and nothing else
    call,    \* "running", "failed" or "done"
    answer   \* the list of a call that is done
reading == <<named, before, held, honest, call, answer>>

Items ==
    [instance : 1 .. named, page : PagesOfAWalk, token : Tokens, nonFungible : BOOLEAN,
     count : Nat]

Init ==
    /\ named \in 0 .. Instances
    /\ before = held
    /\ honest \in BOOLEAN
    /\ call \in {"failed", IF named = 0 THEN "done" ELSE "running"}
    /\ answer = {}

\* Others infuse a token into an instance while the call runs.
Infuse(n, t) ==
    /\ call = "running" /\ honest
    /\ held' = [held EXCEPT ![n][t] = @ + 1]
    /\ UNCHANGED <<named, before, honest, call, answer>>

Fail ==
    /\ call = "running" /\ call' = "failed"
    /\ UNCHANGED <<named, before, held, honest, answer>>

\* No item of a page stands in the list twice, whatever the node answers.
OncePerPlace(list) ==
    \A e, f \in list :
        (/\ e.instance = f.instance /\ e.page = f.page
         /\ e.token = f.token /\ e.nonFungible = f.nonFungible) => e = f

\* All that was held when the call began, each token once, nothing that is not
\* held, and of a non-fungible token an amount held at some moment of the call.
IsWhole(list) ==
    /\ \A n \in 1 .. named, t \in Tokens :
         before[n][t] > 0 => \E e \in list : e.instance = n /\ e.token = t
    /\ \A e, f \in list : e.instance = f.instance /\ e.token = f.token => e = f
    /\ \A e \in list :
         /\ held[e.instance][e.token] > 0
         /\ e.token \in NonFungible =>
              e.count \in before[e.instance][e.token] .. held[e.instance][e.token] /\ e.count > 0

Answer ==
    /\ call = "running" /\ call' = "done"
    /\ answer' \subseteq Items
    /\ OncePerPlace(answer')
    /\ honest => IsWhole(answer')
    /\ UNCHANGED <<named, before, held, honest>>

Next == (\E n \in 1 .. Instances, t \in Tokens : Infuse(n, t)) \/ Fail \/ Answer

Spec == Init /\ [][Next]_reading

=============================================================================
