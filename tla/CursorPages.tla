---------------------------- MODULE CursorPages ----------------------------
(***************************************************************************)
(* ReadInfusedAssets (include/Carbon/FeeInfusions.h): what the instances a *)
(* message burns hold, read instance by instance in two cursor-paginated   *)
(* walks (ReadAllPages), each followed by one query per item.              *)
(*                                                                         *)
(* A token is a number; the node lists the tokens an instance holds in     *)
(* their order, and its cursor names the last one listed.  A faulty node   *)
(* answers any page with any cursor, a new one each time if it likes (a    *)
(* member of Fresh stands for a cursor unlike all before it). Others       *)
(* infuse tokens between any two queries: what an instance holds only      *)
(* grows until it is burned.                                               *)
(* A page is the set of its tokens; an item read is the token with the     *)
(* number of its page, so that a token listed twice is two items.          *)
(***************************************************************************)
EXTENDS Integers, FiniteSets

CONSTANTS
    Instances,     \* the most instances a message burns
    Fungible,      \* the fungible tokens
    NonFungible,   \* the non-fungible ones
    PageSize,      \* items of a page
    MaxPages,      \* maxPages of ReadAllPages
    MaxInfused     \* bound: the balances that change meanwhile

Tokens == Fungible \union NonFungible

ASSUME SizesAssumption ==
    /\ {Instances, PageSize, MaxPages} \subseteq Nat \ {0}
    /\ MaxInfused \in Nat
ASSUME TokensAssumption ==
    Tokens \subseteq Nat \ {0} /\ Fungible \intersect NonFungible = {}

VARIABLES
    held,        \* held[n][t]: how much of token t instance n holds
    heldAtCall,  \* history: held when the call began
    honest,      \* the node lists what there is, and nothing else
    pc,          \* "page", "items", or how the call ended
    instances,   \* how many instances BurnedInstances named
    instance,    \* index of the outer loop
    nonFungible, \* which of the two walks
    cursor, seen, pages,  \* locals of ReadAllPages
    items,       \* what the walk has listed and nobody has resolved
    out,         \* the answer
    asked        \* history: the cursors this walk has asked for

walk  == <<cursor, seen, pages, items, asked>>
chain == <<held, heldAtCall, honest>>
vars  == <<chain, pc, instances, instance, nonFungible, walk, out>>

Start == 0      \* the empty cursor
Fresh == {-1, -2}      \* two, so that another fresh cursor is another state
Cursors == Tokens \union {Start} \union Fresh
Kind(second) == IF second THEN NonFungible ELSE Fungible

\* BurnedInstances refuses arguments that are too short to read.
Init ==
    /\ honest \in BOOLEAN
    /\ held \in [1 .. Instances -> [Tokens -> IF honest THEN 0 .. 1 ELSE {0}]]
    /\ heldAtCall = held
    /\ instances \in 0 .. Instances
    /\ pc \in {"failed", IF instances = 0 THEN "done" ELSE "page"}
    /\ instance = 1 /\ nonFungible = FALSE
    /\ cursor = Start /\ seen = {} /\ pages = 0 /\ items = {} /\ asked = {}
    /\ out = {}

----------------------------------------------------------------------------
(* The node.                                                               *)

Remaining == {t \in Kind(nonFungible) : t > cursor /\ held[instance][t] > 0}

\* The first items of what remains and the cursor after them, which is empty only
\* when nothing is left.
HonestPages ==
    {page \in [tokens : SUBSET Remaining, cursor : Tokens \union {Start}] :
        /\ Cardinality(page.tokens) <= PageSize
        /\ page.tokens = {} <=> Remaining = {}
        /\ \A t \in page.tokens, u \in Remaining \ page.tokens : t < u
        /\ IF page.cursor = Start THEN page.tokens = Remaining
           ELSE page.cursor \in page.tokens /\ \A t \in page.tokens : t <= page.cursor}

\* A page of a faulty node lists everything or nothing, and its cursor is any.
FaultyPages ==
    [tokens : {{}, Kind(nonFungible)}, cursor : Kind(nonFungible) \union {Start} \union Fresh]

Pages == IF honest THEN HonestPages ELSE FaultyPages

\* GetTokenBalance: the instances of a non-fungible token an address holds.
Balances(t) == {held[instance][t]}

\* Another account infuses a token into an instance that is to be burned.
Infuse(n, t) ==
    /\ honest /\ pc \in {"page", "items"}
    /\ Cardinality({p \in (1 .. Instances) \X Tokens :
                      held[p[1]][p[2]] # heldAtCall[p[1]][p[2]]}) < MaxInfused
    /\ held[n][t] = heldAtCall[n][t]
    /\ held' = [held EXCEPT ![n][t] = @ + 1]
    /\ UNCHANGED <<heldAtCall, honest, pc, instances, instance, nonFungible, walk, out>>

----------------------------------------------------------------------------
(* ReadAllPages.                                                           *)

\* A cursor that ends the walk: the empty one, or one it has seen.
EndsWhenEmpty(next) == next = Start
EndsTheWalk(next) == next = Start \/ next \in seen

\* The loop's counter: every page counts, whatever it lists.
CountItems(page) == IF page.tokens = {} THEN pages ELSE pages + 1
CountPage(page) == pages + 1

ReadPage(page) ==
    /\ pc = "page" /\ pages < MaxPages
    /\ items' = items \union {[page |-> pages, token |-> t] : t \in page.tokens}
    /\ pages' = CountPage(page)
    /\ asked' = asked \union {cursor}
    /\ IF EndsTheWalk(page.cursor)
       THEN pc' = "items" /\ UNCHANGED <<cursor, seen>>
       ELSE /\ cursor' = page.cursor
            /\ seen' = seen \union ({page.cursor} \ Fresh)
            /\ UNCHANGED pc
    /\ UNCHANGED <<chain, instances, instance, nonFungible, out>>

End(how) ==
    /\ pc' = how
    /\ UNCHANGED <<chain, instances, instance, nonFungible, walk, out>>

\* The page cap cuts the walk short; the caller is told.
TakenAsWhole == "items"
CutShort == "failed"
PageCap   == pc = "page" /\ pages = MaxPages /\ End(CutShort)
PageFails == pc = "page" /\ pages < MaxPages /\ End("failed")

----------------------------------------------------------------------------
(* ReadInfusedAssets, between and after the walks.                         *)

\* Items are resolved in the order they were listed.
First(i) == \A j \in items : i.page < j.page \/ (i.page = j.page /\ i.token <= j.token)

\* GetToken and the reading of its id, or GetTokenBalance.
ResolveItem(i, count) ==
    /\ pc = "items" /\ First(i)
    /\ items' = items \ {i}
    /\ out' = out \union {[instance |-> instance, page |-> i.page, token |-> i.token,
                           nonFungible |-> nonFungible, count |-> count]}
    /\ UNCHANGED <<chain, pc, instances, instance, nonFungible, cursor, seen, pages, asked>>

\* A query fails, or a number in the answer is not one.
ResolveFails == pc = "items" /\ items # {} /\ End("failed")

\* The next call of ReadAllPages has locals of its own.
NewWalkGoesOn == UNCHANGED cursor /\ seen' = {} /\ pages' = 0 /\ items' = {} /\ asked' = {}
NewWalk == /\ cursor' = Start /\ seen' = {} /\ pages' = 0 /\ items' = {} /\ asked' = {}

SecondWalk ==
    /\ pc = "items" /\ items = {} /\ ~nonFungible
    /\ nonFungible' = TRUE /\ pc' = "page"
    /\ NewWalk
    /\ UNCHANGED <<chain, instances, instance, out>>

NextInstance ==
    /\ pc = "items" /\ items = {} /\ nonFungible /\ instance < instances
    /\ instance' = instance + 1
    /\ nonFungible' = FALSE /\ pc' = "page"
    /\ NewWalk
    /\ UNCHANGED <<chain, instances, out>>

AllRead == pc = "items" /\ items = {} /\ nonFungible /\ instance = instances /\ End("done")

----------------------------------------------------------------------------
Reader ==
    \/ \E page \in Pages : ReadPage(page)
    \/ PageCap \/ PageFails
    \/ \E i \in items : \E count \in IF nonFungible THEN Balances(i.token) ELSE {0} :
          ResolveItem(i, count)
    \/ ResolveFails
    \/ SecondWalk \/ NextInstance \/ AllRead

Next == Reader \/ \E n \in 1 .. Instances, t \in Tokens : Infuse(n, t)

\* The reader runs, and each of its queries is answered or fails.
Spec == Init /\ [][Next]_vars /\ WF_vars(Reader)

----------------------------------------------------------------------------
(* Properties.                                                             *)

ItemType == [page : Nat, token : Tokens]
EntryType ==
    [instance : 1 .. Instances, page : Nat, token : Tokens, nonFungible : BOOLEAN, count : Nat]

\* What the node holds, the locals of both functions and the answer have their
\* types.
TypeOK ==
    /\ held \in [1 .. Instances -> [Tokens -> Nat]]
    /\ heldAtCall \in [1 .. Instances -> [Tokens -> Nat]]
    /\ honest \in BOOLEAN /\ nonFungible \in BOOLEAN
    /\ pc \in {"page", "items", "failed", "done"}
    /\ instances \in 0 .. Instances /\ instance \in 1 .. Instances
    /\ cursor \in Cursors /\ seen \subseteq Tokens /\ asked \subseteq Cursors
    /\ pages \in 0 .. MaxPages
    /\ items \subseteq ItemType /\ out \subseteq EntryType

\* No walk asks for one cursor twice, whatever the node answers: a page read
\* again would charge the burn for its assets again (FeeInfusions.h,
\* ReadAllPages: "a cursor it has already seen").
AsksOnce == (pc = "page" /\ cursor \notin Fresh) => cursor \notin asked

Entries(n, t) == {e \in out : e.instance = n /\ e.token = t}

\* An answer of true is the whole list, with no token twice: every token an
\* instance held when the call began, nothing it does not hold, and of each
\* non-fungible token a count it has held since.  A walk cut short by the cap or
\* by an error never passes as this (FeeInfusions.h, ReadInfusedAssets).
TheWholeListOnce ==
    (honest /\ pc = "done") => \A n \in 1 .. instances, t \in Tokens :
        /\ heldAtCall[n][t] > 0 => Entries(n, t) # {}
        /\ Cardinality(Entries(n, t)) <= 1
        /\ \A e \in Entries(n, t) :
              /\ held[n][t] > 0
              /\ t \in NonFungible => e.count \in heldAtCall[n][t] .. held[n][t] /\ e.count > 0

\* What the caller sees of it: a call that runs, and its list once it is done.
CallState == IF pc \in {"page", "items"} THEN "running" ELSE pc
Answered  == IF pc = "done" THEN out ELSE {}
Listing == INSTANCE WholeReading WITH
    PagesOfAWalk <- 0 .. MaxPages - 1,
    named  <- instances,
    before <- heldAtCall,
    call   <- CallState,
    answer <- Answered

\* Step by step, all the queries of both walks over all the instances are one
\* reading: it fails, or ends once with a list that is whole if the node is honest
\* and never longer than the cap's pages, and stays as it was given (FeeInfusions.h,
\* ReadInfusedAssets: no partial list passes for the whole one).
ImplementsWholeReading == Listing!Spec

----------------------------------------------------------------------------
(* The inductive invariant behind AsksOnce.                                *)

\* The list of seen cursors is the cursors asked for and the one to ask for next
\* (a fresh one is never compared with another).
SeenIsAsked ==
    pc = "page" => seen = (asked \union {cursor}) \ ({Start} \union Fresh)

\* The state keeps its types and the walk its list: no cursor is asked for twice
\* (FeeInfusions.h, ReadAllPages).
PagesInv == TypeOK /\ SeenIsAsked /\ AsksOnce

----------------------------------------------------------------------------
(* The inductive invariant behind TheWholeListOnce, for an honest node.    *)

\* The tokens the reader is past: those of finished walks, those of the walk it
\* resolves, and those of this walk up to its cursor.
Past(n, t) ==
    \/ n < instance
    \/ n = instance /\ nonFungible /\ t \in Fungible
    \/ n = instance /\ t \in Kind(nonFungible) /\ (pc = "page" => t <= cursor)

Listed(n, t) == Entries(n, t) # {} \/ (n = instance /\ \E i \in items : i.token = t)

\* What an instance held when the call began is listed once the reader is past it.
PastIsListed ==
    /\ pc \in {"page", "items"} =>
         \A n \in 1 .. instances, t \in Tokens :
            Past(n, t) /\ heldAtCall[n][t] > 0 => Listed(n, t)
    /\ pc = "done" =>
         \A n \in 1 .. instances, t \in Tokens : heldAtCall[n][t] > 0 => Entries(n, t) # {}

\* What is listed is behind the reader: a token still to come is not.
ListedIsPast ==
    pc \in {"page", "items"} =>
      /\ instance <= instances /\ cursor \in Tokens \union {Start}
      /\ pc = "page" => \A c \in seen : c <= cursor
      /\ \A i \in items : i.token \in Kind(nonFungible) /\ (pc = "page" => i.token <= cursor)
      /\ \A e \in out :
           \/ e.instance < instance
           \/ e.instance = instance /\ nonFungible /\ e.token \in Fungible
           \/ e.instance = instance /\ pc = "items" /\ e.token \in Kind(nonFungible)

\* Nothing is listed twice, and everything listed is held.
ListedOnce ==
    /\ \A i, j \in items : i.token = j.token => i = j
    /\ \A e, f \in out : e.instance = f.instance /\ e.token = f.token => e = f
    /\ pc \in {"page", "items"} => \A i \in items : Entries(instance, i.token) = {}
    /\ pc \in {"page", "items"} => \A i \in items : held[instance][i.token] > 0
    /\ \A e \in out :
         /\ held[e.instance][e.token] > 0
         /\ e.token \in NonFungible =>
              e.count \in heldAtCall[e.instance][e.token] .. held[e.instance][e.token] /\ e.count > 0

\* What an instance holds only grows: it is what it was, or more.
HeldGrows == \A n \in 1 .. Instances, t \in Tokens : held[n][t] >= heldAtCall[n][t]

ListInv == HeldGrows /\ (honest => PastIsListed /\ ListedIsPast /\ ListedOnce)

----------------------------------------------------------------------------
(* What every node is held to: an item is of a page of its walk, and is    *)
(* resolved once.                                                          *)

\* An entry of the answer is of a finished walk, or of this one and then the item it
\* was is no longer waiting.
Resolved(e) ==
    \/ e.instance < instance
    \/ e.instance = instance /\ nonFungible /\ ~e.nonFungible
    \/ /\ e.instance = instance /\ e.nonFungible = nonFungible /\ pc = "items"
       /\ [page |-> e.page, token |-> e.token] \notin items

PlacesInv ==
    /\ pc \in {"page", "items"} =>
         /\ instance <= instances
         /\ \A i \in items : i.page < pages
         /\ \A e \in out : Resolved(e)
    /\ \A e \in out : e.instance <= instances /\ e.page < MaxPages
    /\ Listing!OncePerPlace(out)

\* All three invariants: the state keeps its types, no walk asks twice, no item of a
\* page is charged twice, and the reader of an honest node has listed once what it is
\* past and nothing else (ReadAllPages, ReadInfusedAssets).
WalkInv == PagesInv /\ ListInv /\ PlacesInv

----------------------------------------------------------------------------
\* The call returns, even from a node that hands out cursors for ever
\* (FeeInfusions.h: "cannot keep it going forever").
Returns == <>(pc \in {"failed", "done"})

============================================================================
