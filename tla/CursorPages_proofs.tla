------------------------ MODULE CursorPages_proofs ------------------------
(***************************************************************************)
(* No walk of ReadAllPages asks for a cursor twice, and an answer of       *)
(* ReadInfusedAssets from an honest node is the whole list with no token   *)
(* twice, for every page size, every page cap and every set of tokens.     *)
(***************************************************************************)
EXTENDS CursorPages, FiniteSetTheorems, TLAPS

\* Every page a node answers with, honest or not, lists tokens and has a cursor.
LEMMA PageType ==
    ASSUME NEW page \in Pages
    PROVE  page.tokens \subseteq Tokens /\ page.cursor \in Cursors
<1>1. Kind(nonFungible) \subseteq Tokens
  BY DEF Kind, Tokens
<1>2. CASE honest
  <2>1. page \in HonestPages
    BY <1>2 DEF Pages
  <2>2. page.tokens \subseteq Remaining /\ page.cursor \in Tokens \union {Start}
    BY <2>1 DEF HonestPages
  <2> QED
    BY <1>1, <2>2 DEF Remaining, Cursors
<1>3. CASE ~honest
  <2>1. page \in FaultyPages
    BY <1>3 DEF Pages
  <2>2. page.tokens \subseteq Kind(nonFungible)
    BY <2>1 DEF FaultyPages
  <2>3. page.cursor \in Kind(nonFungible) \union {Start} \union Fresh
    BY <2>1 DEF FaultyPages
  <2> QED
    BY <1>1, <2>2, <2>3 DEF Cursors
<1> QED
  BY <1>2, <1>3

LEMMA SizesAreSizes == 1 \in 1 .. Instances /\ 0 \in 0 .. MaxPages
  BY SizesAssumption

LEMMA PagesInit == Init => PagesInv
<1> SUFFICES ASSUME Init PROVE PagesInv
  OBVIOUS
<1>1. held \in [1 .. Instances -> [Tokens -> Nat]]
  BY DEF Init
<1>2. TypeOK
  <2>1. instances \in 0 .. Instances /\ pc \in {"page", "failed", "done"}
    BY DEF Init
  <2>2. instance \in 1 .. Instances /\ pages \in 0 .. MaxPages
    BY SizesAreSizes DEF Init
  <2>3. cursor \in Cursors /\ seen \subseteq Tokens /\ asked \subseteq Cursors
    BY DEF Init, Cursors
  <2> QED
    BY <1>1, <2>1, <2>2, <2>3 DEF Init, TypeOK
<1>3. SeenIsAsked
  BY DEF Init, SeenIsAsked
<1>4. AsksOnce
  BY DEF Init, AsksOnce
<1> QED
  BY <1>2, <1>3, <1>4 DEF PagesInv

\* One page: what the walk asks for next, it has not asked for.
LEMMA ReadPageKeeps ==
    ASSUME PagesInv, NEW page \in Pages, ReadPage(page)
    PROVE  PagesInv'
<1>1. page.tokens \subseteq Tokens /\ page.cursor \in Cursors
  BY PageType
<1>2. TypeOK /\ SeenIsAsked /\ pc = "page"
  BY DEF PagesInv, ReadPage
<1>3. pages \in Nat /\ pages + 1 \in 0 .. MaxPages
  BY <1>2, SizesAssumption DEF TypeOK, ReadPage
<1>4. items' \subseteq ItemType
  <2>1. \A t \in page.tokens : [page |-> pages, token |-> t] \in ItemType
    BY <1>1, <1>3 DEF ItemType
  <2> QED
    BY <1>2, <2>1 DEF TypeOK, ReadPage
<1>5. pages' \in 0 .. MaxPages /\ asked' \subseteq Cursors
  BY <1>2, <1>3 DEF TypeOK, ReadPage, CountPage
<1>6. CASE EndsTheWalk(page.cursor)
  <2>1. pc' = "items" /\ cursor' = cursor /\ seen' = seen
    BY <1>6 DEF ReadPage
  <2>2. TypeOK'
    BY <1>2, <1>4, <1>5, <2>1 DEF TypeOK, ReadPage, chain
  <2> QED
    BY <2>1, <2>2 DEF PagesInv, SeenIsAsked, AsksOnce
<1>7. CASE ~EndsTheWalk(page.cursor)
  <2>1. cursor' = page.cursor /\ seen' = seen \union ({page.cursor} \ Fresh) /\ pc' = pc
    BY <1>7 DEF ReadPage
  <2>2. page.cursor # Start /\ page.cursor \notin seen
    BY <1>7 DEF EndsTheWalk
  <2>3. seen' \subseteq Tokens
    BY <1>1, <1>2, <2>1, <2>2 DEF TypeOK, Cursors
  <2>4. TypeOK'
    BY <1>1, <1>2, <1>4, <1>5, <2>1, <2>3 DEF TypeOK, ReadPage, chain
  <2>5. asked' = asked \union {cursor}
    BY DEF ReadPage
  <2>6. seen = (asked \union {cursor}) \ ({Start} \union Fresh)
    BY <1>2 DEF SeenIsAsked
  <2>7. seen' = (asked' \union {cursor'}) \ ({Start} \union Fresh)
    BY <2>1, <2>2, <2>5, <2>6
  <2>8. AsksOnce'
    BY <2>1, <2>2, <2>5, <2>6 DEF AsksOnce
  <2> QED
    BY <2>4, <2>7, <2>8 DEF PagesInv, SeenIsAsked
<1> QED
  BY <1>6, <1>7

LEMMA PagesStep == PagesInv /\ [Next]_vars => PagesInv'
<1> SUFFICES ASSUME PagesInv, [Next]_vars PROVE PagesInv'
  OBVIOUS
<1> TypeOK /\ SeenIsAsked /\ AsksOnce
  BY DEF PagesInv
<1>1. CASE \E page \in Pages : ReadPage(page)
  BY <1>1, ReadPageKeeps
<1>2. ASSUME NEW how \in {"done", "failed"}, End(how) PROVE PagesInv'
  BY <1>2 DEF End, PagesInv, TypeOK, SeenIsAsked, AsksOnce, chain, walk
<1>3. CASE PageCap \/ PageFails \/ ResolveFails \/ AllRead
  BY <1>2, <1>3 DEF PageCap, PageFails, ResolveFails, AllRead, CutShort
<1>4. ASSUME NEW i \in items,
             NEW count \in IF nonFungible THEN Balances(i.token) ELSE {0},
             ResolveItem(i, count)
      PROVE  PagesInv'
  <2>1. i \in ItemType /\ instance \in 1 .. Instances
    BY DEF TypeOK
  <2>2. count \in Nat
    BY <2>1 DEF Balances, TypeOK, ItemType
  <2>3. [instance |-> instance, page |-> i.page, token |-> i.token,
         nonFungible |-> nonFungible, count |-> count] \in EntryType
    BY <2>1, <2>2 DEF ItemType, EntryType, TypeOK
  <2>4. out' \subseteq EntryType /\ items' \subseteq ItemType
    BY <1>4, <2>3 DEF ResolveItem, TypeOK
  <2>5. TypeOK'
    BY <1>4, <2>4 DEF ResolveItem, TypeOK, chain
  <2> QED
    BY <1>4, <2>5 DEF ResolveItem, PagesInv, SeenIsAsked, AsksOnce
<1>5. CASE SecondWalk
  <2>1. TypeOK'
    BY <1>5, SizesAreSizes DEF SecondWalk, NewWalk, TypeOK, Cursors, chain
  <2> QED
    BY <1>5, <2>1 DEF SecondWalk, NewWalk, PagesInv, SeenIsAsked, AsksOnce
<1>6. CASE NextInstance
  <2>1. instance + 1 \in 1 .. Instances
    BY <1>6, SizesAssumption DEF NextInstance, TypeOK
  <2>2. TypeOK'
    BY <1>6, <2>1, SizesAreSizes DEF NextInstance, NewWalk, TypeOK, Cursors, chain
  <2> QED
    BY <1>6, <2>2 DEF NextInstance, NewWalk, PagesInv, SeenIsAsked, AsksOnce
<1>7. ASSUME NEW n \in 1 .. Instances, NEW t \in Tokens, Infuse(n, t) PROVE PagesInv'
  <2>1. held' \in [1 .. Instances -> [Tokens -> Nat]]
    BY <1>7 DEF Infuse, TypeOK
  <2>2. TypeOK'
    BY <1>7, <2>1 DEF Infuse, TypeOK, walk
  <2> QED
    BY <1>7, <2>2 DEF Infuse, walk, PagesInv, SeenIsAsked, AsksOnce
<1>8. CASE UNCHANGED vars
  BY <1>8 DEF vars, walk, chain, PagesInv, TypeOK, SeenIsAsked, AsksOnce
<1> QED
  BY <1>1, <1>3, <1>4, <1>5, <1>6, <1>7, <1>8 DEF Next, Reader

\* The types and the list of seen cursors are kept by every step of the reader and
\* of the node (FeeInfusions.h, ReadAllPages).
THEOREM PagesInvariant == Spec => []PagesInv
  BY PagesInit, PagesStep, PTL DEF Spec

\* No walk asks for one cursor twice, for every node, page size and cap
\* (FeeInfusions.h, ReadAllPages).
THEOREM WalksAskOnce == Spec => []AsksOnce
<1>1. PagesInv => AsksOnce
  BY DEF PagesInv
<1> QED
  BY <1>1, PagesInvariant, PTL

-----------------------------------------------------------------------------
(* The whole list, once.                                                   *)

LEMMA KindsDiffer ==
    /\ \A second \in BOOLEAN : Kind(second) \subseteq Tokens
    /\ \A t \in Fungible : t \notin NonFungible
    /\ Kind(TRUE) = NonFungible /\ Kind(FALSE) = Fungible
    /\ \A t \in Tokens : t \in Nat /\ t > Start
  BY TokensAssumption DEF Kind, Tokens, Start

LEMMA ListInit == ASSUME Init PROVE ListInv
<1>1. HeldGrows
  BY DEF Init, HeldGrows
<1>2. pc \in {"page", "failed", "done"} /\ instance = 1 /\ ~nonFungible /\ cursor = Start
      /\ items = {} /\ out = {} /\ seen = {} /\ instances \in Nat
  BY SizesAssumption DEF Init
<1>3. (pc = "done" => instances = 0) /\ (pc = "page" => instances # 0)
  BY DEF Init
<1>4. PastIsListed
  <2>1. ASSUME NEW n \in 1 .. instances, NEW t \in Tokens, pc = "page" PROVE ~Past(n, t)
    <3>1. ~(t <= cursor) /\ ~(n < 1)
      BY <1>2, KindsDiffer DEF Start
    <3> QED
      BY <1>2, <2>1, <3>1 DEF Past
  <2>2. pc = "done" => 1 .. instances = {}
    BY <1>3
  <2> QED
    BY <1>2, <2>1, <2>2 DEF PastIsListed
<1>5. ListedIsPast
  BY <1>2, <1>3 DEF ListedIsPast
<1>6. ListedOnce
  BY <1>2 DEF ListedOnce, Entries
<1> QED
  BY <1>1, <1>4, <1>5, <1>6 DEF ListInv

\* An honest page goes on from the cursor, and its own cursor is new.
LEMMA HonestPage ==
    ASSUME PagesInv, ListInv, honest, NEW page \in Pages, ReadPage(page)
    PROVE  /\ page.tokens \subseteq Remaining
           /\ EndsTheWalk(page.cursor) => page.tokens = Remaining
           /\ ~EndsTheWalk(page.cursor) =>
                /\ page.cursor \in page.tokens
                /\ \A t \in page.tokens : t <= page.cursor
                /\ \A t \in Remaining \ page.tokens : page.cursor < t
<1>1. page \in HonestPages
  BY DEF Pages
<1>2. /\ page.tokens \subseteq Remaining
      /\ \A t \in page.tokens, u \in Remaining \ page.tokens : t < u
      /\ IF page.cursor = Start THEN page.tokens = Remaining
         ELSE page.cursor \in page.tokens /\ \A t \in page.tokens : t <= page.cursor
  BY <1>1 DEF HonestPages
<1>3. \A c \in seen : c <= cursor
  BY DEF ListInv, ListedIsPast, ReadPage
<1>4. \A t \in Remaining : t > cursor /\ t \in Nat
  BY KindsDiffer DEF Remaining, PagesInv, TypeOK
<1>5. cursor \in Nat
  BY KindsDiffer DEF ListInv, ListedIsPast, ReadPage, Start
<1>6. \A c \in seen : c \in Nat
  BY KindsDiffer DEF PagesInv, TypeOK
<1>7. page.cursor # Start => page.cursor \notin seen
  BY <1>2, <1>3, <1>4, <1>5, <1>6
<1> QED
  BY <1>2, <1>7 DEF EndsTheWalk

LEMMA ReadPageLists ==
    ASSUME PagesInv, ListInv, honest, NEW page \in Pages, ReadPage(page)
    PROVE  ListInv'
<1> TypeOK /\ PastIsListed /\ ListedIsPast /\ ListedOnce /\ HeldGrows
  BY DEF PagesInv, ListInv
<1>1. /\ pc = "page"
      /\ items' = items \union {[page |-> pages, token |-> t] : t \in page.tokens}
      /\ UNCHANGED <<held, heldAtCall, honest, instances, instance, nonFungible, out>>
  BY DEF ReadPage, chain
<1>2. /\ page.tokens \subseteq Remaining
      /\ EndsTheWalk(page.cursor) => page.tokens = Remaining
      /\ ~EndsTheWalk(page.cursor) =>
           /\ page.cursor \in page.tokens
           /\ \A t \in page.tokens : t <= page.cursor
           /\ \A t \in Remaining \ page.tokens : page.cursor < t
  BY HonestPage
<1>3. /\ cursor \in Nat /\ instance \in 1 .. Instances /\ nonFungible \in BOOLEAN
      /\ \A i \in items : i.token \in Nat /\ i.token <= cursor /\ i.token \in Kind(nonFungible)
  BY <1>1, KindsDiffer DEF ListedIsPast, TypeOK, Start
<1>4. \A t \in page.tokens : /\ t \in Kind(nonFungible) /\ t \in Nat /\ t > cursor
                             /\ held[instance][t] > 0
  BY <1>2, <1>3, KindsDiffer DEF Remaining
<1>5. \A t \in page.tokens : \E i \in items' : i.token = t
  <2>1. \A t \in page.tokens : [page |-> pages, token |-> t] \in items'
    BY <1>1
  <2> QED
    BY <2>1
<1>6. \A i \in items' \ items : \E t \in page.tokens : i = [page |-> pages, token |-> t]
  BY <1>1
<1>7. \A n, t : Entries(n, t)' = Entries(n, t)
  BY <1>1 DEF Entries
<1>8. ListedOnce'
  <2>1. \A i, j \in items' : i.token = j.token => i = j
    <3> SUFFICES ASSUME NEW i \in items', NEW j \in items', i.token = j.token PROVE i = j
      OBVIOUS
    <3>1. CASE i \in items /\ j \in items
      BY <3>1 DEF ListedOnce
    <3>2. CASE i \notin items /\ j \notin items
      BY <3>2, <1>6
    <3>3. CASE i \in items /\ j \notin items
      BY <3>3, <1>3, <1>4, <1>6
    <3>4. CASE i \notin items /\ j \in items
      BY <3>4, <1>3, <1>4, <1>6
    <3> QED
      BY <3>1, <3>2, <3>3, <3>4
  <2>2. \A t \in page.tokens : Entries(instance, t) = {}
    BY <1>1, <1>3, <1>4, KindsDiffer DEF Entries, ListedIsPast, Kind, TypeOK, EntryType
  <2>3. \A i \in items' : Entries(instance, i.token) = {} /\ held[instance][i.token] > 0
    BY <1>1, <1>4, <1>6, <2>2 DEF ListedOnce
  <2> QED
    BY <1>1, <1>7, <2>1, <2>3 DEF ListedOnce
<1>9. \A n, t : Listed(n, t) => Listed(n, t)'
  BY <1>1, <1>7 DEF Listed
<1>10. \A n : n = instance => \A t \in page.tokens : Listed(n, t)'
  BY <1>1, <1>5 DEF Listed
<1>11. ASSUME NEW t \in Kind(nonFungible), heldAtCall[instance][t] > 0, ~(t <= cursor)
       PROVE  t \in Remaining
  <2>1. t \in Tokens /\ t \in Nat /\ held[instance][t] >= heldAtCall[instance][t]
    BY <1>3, KindsDiffer DEF HeldGrows
  <2>2. held[instance][t] \in Nat /\ heldAtCall[instance][t] \in Nat
    BY <1>3, <2>1 DEF TypeOK
  <2> QED
    BY <1>3, <1>11, <2>1, <2>2 DEF Remaining
<1>12. CASE EndsTheWalk(page.cursor)
  <2>1. pc' = "items" /\ cursor' = cursor /\ seen' = seen
    BY <1>12 DEF ReadPage
  <2>2. PastIsListed'
    <3> SUFFICES ASSUME NEW n \in 1 .. instances, NEW t \in Tokens, Past(n, t)', heldAtCall[n][t] > 0
                 PROVE  Listed(n, t)'
      BY <1>1, <2>1 DEF PastIsListed
    <3>1. CASE Past(n, t)
      BY <3>1, <1>1, <1>9 DEF PastIsListed
    <3>2. CASE ~Past(n, t)
      <4>1. n = instance /\ t \in Kind(nonFungible) /\ ~(t <= cursor)
        BY <3>2, <1>1, <2>1 DEF Past, Kind
      <4> QED
        BY <4>1, <1>2, <1>10, <1>11, <1>12
    <3> QED
      BY <3>1, <3>2
  <2>3. ListedIsPast'
    BY <1>1, <1>3, <1>4, <1>6, <2>1 DEF ListedIsPast, Kind
  <2> QED
    BY <1>1, <1>8, <2>2, <2>3 DEF ListInv, HeldGrows
<1>13. CASE ~EndsTheWalk(page.cursor)
  <2>1. pc' = "page" /\ cursor' = page.cursor /\ seen' \subseteq seen \union {page.cursor}
    BY <1>1, <1>13 DEF ReadPage
  <2>2. /\ page.cursor \in page.tokens /\ page.cursor \in Nat /\ page.cursor > cursor
        /\ page.cursor \in Tokens
    BY <1>2, <1>3, <1>4, <1>13, KindsDiffer
  <2>3. PastIsListed'
    <3> SUFFICES ASSUME NEW n \in 1 .. instances, NEW t \in Tokens, Past(n, t)', heldAtCall[n][t] > 0
                 PROVE  Listed(n, t)'
      BY <1>1, <2>1 DEF PastIsListed
    <3>1. CASE Past(n, t)
      BY <3>1, <1>1, <1>9 DEF PastIsListed
    <3>2. CASE ~Past(n, t)
      <4>1. n = instance /\ t \in Kind(nonFungible) /\ ~(t <= cursor) /\ t <= page.cursor
        BY <3>2, <1>1, <2>1 DEF Past, Kind
      <4>2. t \in Remaining
        BY <1>11, <4>1
      <4>3. t \in page.tokens
        BY <1>2, <1>13, <2>2, <4>1, <4>2, KindsDiffer
      <4> QED
        BY <4>1, <4>3, <1>10
    <3> QED
      BY <3>1, <3>2
  <2>4. \A i \in items' : i.token \in Kind(nonFungible) /\ i.token <= page.cursor
    BY <1>2, <1>3, <1>4, <1>6, <1>13, <2>2
  <2>5. \A c \in seen' : c <= page.cursor
    <3>1. \A c \in seen : c \in Nat /\ c <= cursor
      BY <1>1, KindsDiffer DEF ListedIsPast, TypeOK
    <3> QED
      BY <1>3, <2>1, <2>2, <3>1
  <2>6. ListedIsPast'
    BY <1>1, <2>1, <2>2, <2>4, <2>5 DEF ListedIsPast, Kind
  <2> QED
    BY <1>1, <1>8, <2>3, <2>6 DEF ListInv, HeldGrows
<1> QED
  BY <1>12, <1>13

LEMMA EndLists ==
    ASSUME PagesInv, ListInv, PageCap \/ PageFails \/ ResolveFails \/ AllRead
    PROVE  ListInv'
<1> TypeOK
  BY DEF PagesInv
<1>1. UNCHANGED <<chain, instances, instance, nonFungible, walk, out>> /\ pc' \in {"failed", "done"}
  BY DEF PageCap, PageFails, ResolveFails, AllRead, End, CutShort
<1>2. UNCHANGED <<held, heldAtCall, honest, items>>
  BY <1>1 DEF chain, walk
<1>3. ASSUME honest, pc' = "done", NEW n \in 1 .. instances, NEW t \in Tokens, heldAtCall[n][t] > 0
      PROVE  Entries(n, t) # {}
  <2>1. pc = "items" /\ items = {} /\ nonFungible /\ instance = instances
    BY <1>3 DEF PageCap, PageFails, ResolveFails, AllRead, End, CutShort
  <2>2. n < instance \/ n = instance
    BY <2>1 DEF TypeOK
  <2>3. Past(n, t)
    BY <2>1, <2>2, KindsDiffer DEF Past, Tokens
  <2>4. Listed(n, t)
    BY <1>3, <2>1, <2>3 DEF ListInv, PastIsListed
  <2> QED
    BY <2>1, <2>4 DEF Listed
<1>4. honest => PastIsListed'
  BY <1>1, <1>2, <1>3 DEF PastIsListed, Entries
<1>5. ListedIsPast'
  BY <1>1 DEF ListedIsPast
<1>6. honest => ListedOnce'
  BY <1>1, <1>2 DEF ListInv, ListedOnce, Entries
<1> QED
  BY <1>2, <1>4, <1>5, <1>6 DEF ListInv, HeldGrows

LEMMA ResolveLists ==
    ASSUME PagesInv, ListInv, honest, NEW i \in items,
           NEW count \in IF nonFungible THEN Balances(i.token) ELSE {0}, ResolveItem(i, count)
    PROVE  ListInv'
<1> TypeOK /\ PastIsListed /\ ListedIsPast /\ ListedOnce /\ HeldGrows
  BY DEF PagesInv, ListInv
<1> DEFINE entry == [instance |-> instance, page |-> i.page, token |-> i.token,
                     nonFungible |-> nonFungible, count |-> count]
<1>1. /\ pc = "items" /\ items' = items \ {i} /\ out' = out \union {entry}
      /\ UNCHANGED <<held, heldAtCall, honest, pc, instances, instance, nonFungible, cursor, seen>>
  BY DEF ResolveItem, chain
<1>2. /\ entry.instance = instance /\ entry.token = i.token /\ entry.count = count
      /\ i.token \in Tokens /\ i.token \in Kind(nonFungible) /\ held[instance][i.token] > 0
      /\ Entries(instance, i.token) = {} /\ instance \in 1 .. Instances
  BY <1>1 DEF ListedOnce, ListedIsPast, TypeOK, ItemType
<1>3. i.token \in NonFungible =>
        count \in heldAtCall[instance][i.token] .. held[instance][i.token] /\ count > 0
  <2> SUFFICES ASSUME i.token \in NonFungible
               PROVE  count \in heldAtCall[instance][i.token] .. held[instance][i.token] /\ count > 0
    OBVIOUS
  <2>1. nonFungible = TRUE
    BY <1>2, KindsDiffer DEF TypeOK
  <2>2. count = held[instance][i.token]
    BY <2>1 DEF Balances
  <2>3. held[instance][i.token] >= heldAtCall[instance][i.token]
        /\ held[instance][i.token] \in Nat /\ heldAtCall[instance][i.token] \in Nat
    BY <1>2 DEF HeldGrows, TypeOK
  <2> QED
    BY <1>2, <2>2, <2>3
<1> HIDE DEF entry
<1>4. \A n, t : Entries(n, t)' = IF n = instance /\ t = i.token
                                 THEN Entries(n, t) \union {entry} ELSE Entries(n, t)
  BY <1>1, <1>2 DEF Entries
<1>5. \A n, t : Listed(n, t) => Listed(n, t)'
  <2> SUFFICES ASSUME NEW n, NEW t, Listed(n, t) PROVE Listed(n, t)'
    OBVIOUS
  <2>1. CASE Entries(n, t) # {}
    BY <2>1, <1>4 DEF Listed
  <2>2. CASE n = instance /\ \E j \in items : j.token = t
    <3>1. PICK j \in items : j.token = t
      BY <2>2
    <3>2. CASE j = i
      BY <2>2, <3>1, <3>2, <1>4 DEF Listed
    <3>3. CASE j # i
      BY <2>2, <3>1, <3>3, <1>1 DEF Listed
    <3> QED
      BY <3>2, <3>3
  <2> QED
    BY <2>1, <2>2 DEF Listed
<1>6. PastIsListed'
  BY <1>1, <1>5 DEF PastIsListed, Past, Kind
<1>7. ListedIsPast'
  <2>1. \A e \in out' : e \in out \/ e = entry
    BY <1>1
  <2> QED
    BY <1>1, <1>2, <2>1 DEF ListedIsPast, Kind
<1>8. \A e, f \in out' : e.instance = f.instance /\ e.token = f.token => e = f
  BY <1>1, <1>2 DEF ListedOnce, Entries
<1>9. \A j \in items' : /\ Entries(instance, j.token)' = {}
                        /\ held[instance][j.token] > 0
  BY <1>1, <1>4 DEF ListedOnce
<1>10. \A e \in out' :
         /\ held[e.instance][e.token] > 0
         /\ e.token \in NonFungible =>
              e.count \in heldAtCall[e.instance][e.token] .. held[e.instance][e.token] /\ e.count > 0
  BY <1>1, <1>2, <1>3 DEF ListedOnce
<1>11. ListedOnce'
  BY <1>1, <1>8, <1>9, <1>10 DEF ListedOnce
<1> QED
  BY <1>1, <1>6, <1>7, <1>11 DEF ListInv, HeldGrows

\* The walk after this one starts behind what is listed.
LEMMA NewWalkLists ==
    ASSUME PagesInv, ListInv, honest, SecondWalk \/ NextInstance
    PROVE  ListInv'
<1> TypeOK /\ PastIsListed /\ ListedIsPast /\ ListedOnce /\ HeldGrows
  BY DEF PagesInv, ListInv
<1>1. /\ pc = "items" /\ pc' = "page" /\ items = {} /\ items' = {} /\ cursor' = Start /\ seen' = {}
      /\ UNCHANGED <<held, heldAtCall, honest, instances, out>>
  BY DEF SecondWalk, NextInstance, NewWalk, chain
<1>2. instance \in 1 .. Instances /\ instance <= instances /\ instances \in Nat
  BY <1>1, SizesAssumption DEF ListedIsPast, TypeOK
<1>3. \/ ~nonFungible /\ nonFungible' = TRUE /\ instance' = instance
      \/ nonFungible = TRUE /\ nonFungible' = FALSE /\ instance' = instance + 1 /\ instance < instances
  BY DEF SecondWalk, NextInstance, TypeOK
<1>4. ASSUME NEW n \in 1 .. instances, NEW t \in Tokens, Past(n, t)' PROVE Past(n, t)
  <2>1. ~(t <= Start) /\ (t \in Fungible \/ t \in NonFungible)
    BY KindsDiffer DEF Tokens, Start
  <2>2. n < instance' \/ (n = instance' /\ nonFungible' /\ t \in Fungible)
    BY <1>1, <1>4, <2>1 DEF Past
  <2> QED
    BY <1>1, <1>2, <1>3, <2>1, <2>2 DEF Past, Kind
<1>5. PastIsListed'
  <2>1. \A n, t : Listed(n, t) => Entries(n, t) # {}
    BY <1>1 DEF Listed
  <2>2. \A n, t : Entries(n, t)' = Entries(n, t)
    BY <1>1 DEF Entries
  <2> QED
    BY <1>1, <1>4, <2>1, <2>2 DEF PastIsListed, Listed
<1>6. ListedIsPast'
  <2>1. \A e \in out : e.instance \in 1 .. Instances
    BY DEF TypeOK, EntryType
  <2>2. \A e \in out :
          \/ e.instance < instance'
          \/ e.instance = instance' /\ nonFungible' /\ e.token \in Fungible
    BY <1>1, <1>2, <1>3, <2>1 DEF ListedIsPast, Kind
  <2> QED
    BY <1>1, <1>2, <1>3, <2>2 DEF ListedIsPast
<1>7. ListedOnce'
  BY <1>1 DEF ListedOnce, Entries
<1> QED
  BY <1>1, <1>5, <1>6, <1>7 DEF ListInv, HeldGrows

\* Another account infuses: what is listed is still held, and what was held is.
LEMMA InfuseLists ==
    ASSUME PagesInv, ListInv, NEW n \in 1 .. Instances, NEW t \in Tokens, Infuse(n, t)
    PROVE  ListInv'
<1> TypeOK
  BY DEF PagesInv
<1>1. UNCHANGED <<heldAtCall, honest, pc, instances, instance, nonFungible, cursor, seen, items, out>>
  BY DEF Infuse, walk
<1>2. \A m \in 1 .. Instances, u \in Tokens :
        held[m][u] \in Nat /\ held'[m][u] \in Nat /\ heldAtCall[m][u] \in Nat
        /\ held'[m][u] >= held[m][u]
  BY DEF Infuse, TypeOK
<1>3. HeldGrows'
  BY <1>1, <1>2 DEF ListInv, HeldGrows
<1>4. honest => PastIsListed' /\ ListedIsPast'
  BY <1>1 DEF ListInv, PastIsListed, ListedIsPast, Past, Listed, Entries, Kind
<1>5. honest => ListedOnce'
  <2>1. \A i \in items : i.token \in Tokens
    BY DEF TypeOK, ItemType
  <2>2. \A e \in out : e.instance \in 1 .. Instances /\ e.token \in Tokens
    BY DEF TypeOK, EntryType
  <2>3. instance \in 1 .. Instances
    BY DEF TypeOK
  <2> SUFFICES ASSUME honest PROVE ListedOnce'
    OBVIOUS
  <2> ListedOnce
    BY DEF ListInv
  <2>4. pc \in {"page", "items"} => \A i \in items : held'[instance][i.token] > 0
    BY <1>2, <2>1, <2>3 DEF ListedOnce
  <2>5. \A e \in out :
          /\ held'[e.instance][e.token] > 0
          /\ e.token \in NonFungible =>
               e.count \in heldAtCall[e.instance][e.token] .. held'[e.instance][e.token] /\ e.count > 0
    BY <1>2, <2>2 DEF ListedOnce
  <2> QED
    BY <1>1, <2>4, <2>5 DEF ListedOnce, Entries
<1> QED
  BY <1>1, <1>3, <1>4, <1>5 DEF ListInv

-----------------------------------------------------------------------------
(* What holds of every node, honest or not: each item once, on its page.   *)

LEMMA PlacesInit == ASSUME Init PROVE PlacesInv
<1>1. out = {} /\ items = {}
  BY DEF Init
<1>2. pc \in {"page", "items"} => instance <= instances
  BY SizesAssumption DEF Init
<1> QED
  BY <1>1, <1>2 DEF PlacesInv, Listing!OncePerPlace

LEMMA ReadPagePlaces ==
    ASSUME TypeOK, PlacesInv, NEW page \in Pages, ReadPage(page)
    PROVE  PlacesInv'
<1>1. /\ pc = "page" /\ pc' \in {"page", "items"} /\ pages' = pages + 1
      /\ UNCHANGED <<instances, instance, nonFungible, out>>
  BY DEF ReadPage, CountPage
<1>2. pages \in Int
  BY DEF TypeOK
<1>3. ASSUME NEW i \in items' PROVE i.page < pages'
  <2>1. CASE i \in items
    <3>1. i.page \in Int /\ i.page < pages
      BY <1>1, <2>1 DEF TypeOK, ItemType, PlacesInv
    <3> QED
      BY <1>1, <1>2, <3>1
  <2>2. CASE i \notin items
    <3>1. i.page = pages
      BY <1>3, <2>2 DEF ReadPage
    <3> QED
      BY <1>1, <1>2, <3>1
  <2> QED
    BY <2>1, <2>2
<1>4. ASSUME NEW e \in out PROVE Resolved(e)'
  BY <1>1 DEF PlacesInv, Resolved
<1> QED
  BY <1>1, <1>3, <1>4 DEF PlacesInv, Listing!OncePerPlace

\* The item that is resolved was on no place of the answer.
LEMMA ResolvePlaces ==
    ASSUME TypeOK, PlacesInv, NEW i \in items, NEW count \in Nat, ResolveItem(i, count)
    PROVE  PlacesInv'
<1> DEFINE new == [instance |-> instance, page |-> i.page, token |-> i.token,
                   nonFungible |-> nonFungible, count |-> count]
<1>1. /\ pc = "items" /\ items' = items \ {i} /\ out' = out \union {new}
      /\ UNCHANGED <<pc, instances, instance, nonFungible, pages>>
  BY DEF ResolveItem
<1>2. i = [page |-> i.page, token |-> i.token] /\ i.page \in Nat
  BY DEF TypeOK, ItemType
<1>3. /\ new.instance = instance /\ new.page = i.page /\ new.token = i.token
      /\ new.nonFungible = nonFungible
  OBVIOUS
<1> HIDE DEF new
<1>4. /\ instance <= instances /\ i.page < pages /\ pages <= MaxPages
      /\ instance \in Int /\ pages \in Int /\ MaxPages \in Int
  BY <1>1, SizesAssumption DEF PlacesInv, TypeOK
<1>5. ASSUME NEW e \in out' PROVE Resolved(e)'
  <2>1. CASE e \in out
    BY <1>1, <2>1 DEF PlacesInv, Resolved
  <2>2. CASE e = new
    BY <1>1, <1>2, <1>3, <2>2 DEF Resolved
  <2> QED
    BY <1>1, <2>1, <2>2
<1>6. ASSUME NEW e \in out' PROVE e.instance <= instances' /\ e.page < MaxPages
  <2>1. CASE e \in out
    BY <1>1, <2>1 DEF PlacesInv
  <2>2. CASE e = new
    BY <1>1, <1>2, <1>3, <1>4, <2>2
  <2> QED
    BY <1>1, <2>1, <2>2
<1>7. ASSUME NEW f \in out, f.instance = instance, f.page = i.page, f.token = i.token,
             f.nonFungible = nonFungible
      PROVE  FALSE
  <2>1. Resolved(f)
    BY <1>1 DEF PlacesInv
  <2>2. ~(f.instance < instance)
    BY <1>4, <1>7
  <2>3. [page |-> f.page, token |-> f.token] \notin items
    BY <1>7, <2>1, <2>2 DEF Resolved
  <2> QED
    BY <1>2, <1>7, <2>3
<1>8. Listing!OncePerPlace(out)'
  BY <1>1, <1>3, <1>7 DEF PlacesInv, Listing!OncePerPlace
<1>9. ASSUME NEW j \in items' PROVE j.page < pages'
  BY <1>1 DEF PlacesInv
<1> QED
  BY <1>1, <1>4, <1>5, <1>6, <1>8, <1>9 DEF PlacesInv

LEMMA NewWalkPlaces ==
    ASSUME TypeOK, PlacesInv, SecondWalk \/ NextInstance
    PROVE  PlacesInv'
<1>1. /\ pc = "items" /\ pc' = "page" /\ items' = {} /\ UNCHANGED <<instances, out>>
  BY DEF SecondWalk, NextInstance, NewWalk
<1>2. instance <= instances /\ instance \in Int /\ instances \in Int
  BY <1>1 DEF PlacesInv, TypeOK
<1>3. ASSUME NEW e \in out PROVE Resolved(e)'
  <2>1. Resolved(e) /\ e.instance \in Int /\ e.nonFungible \in BOOLEAN /\ nonFungible \in BOOLEAN
    BY <1>1 DEF PlacesInv, TypeOK, EntryType
  <2>2. CASE SecondWalk
    BY <2>1, <2>2 DEF SecondWalk, Resolved
  <2>3. CASE NextInstance
    <3>1. e.instance < instance \/ e.instance = instance
      BY <2>1 DEF Resolved
    <3>2. e.instance < instance'
      BY <1>2, <2>1, <2>3, <3>1 DEF NextInstance
    <3> QED
      BY <3>2 DEF Resolved
  <2> QED
    BY <2>2, <2>3
<1>4. instance' <= instances
  BY <1>2 DEF SecondWalk, NextInstance
<1> QED
  BY <1>1, <1>3, <1>4 DEF PlacesInv, Listing!OncePerPlace

LEMMA PlacesStep ==
    ASSUME TypeOK, PlacesInv, [Next]_vars
    PROVE  PlacesInv'
<1>1. CASE \E page \in Pages : ReadPage(page)
  BY <1>1, ReadPagePlaces
<1>2. CASE PageCap \/ PageFails \/ ResolveFails \/ AllRead
  <2>1. pc' \in {"failed", "done"} /\ UNCHANGED <<instances, out>>
    BY <1>2 DEF PageCap, PageFails, ResolveFails, AllRead, End, CutShort
  <2> QED
    BY <2>1 DEF PlacesInv, Listing!OncePerPlace
<1>3. ASSUME NEW i \in items,
             NEW count \in IF nonFungible THEN Balances(i.token) ELSE {0},
             ResolveItem(i, count)
      PROVE  PlacesInv'
  <2>1. i.token \in Tokens /\ instance \in 1 .. Instances
    BY DEF TypeOK, ItemType
  <2>2. count \in Nat
    BY <2>1 DEF Balances, TypeOK
  <2> QED
    BY <1>3, <2>2, ResolvePlaces
<1>4. CASE SecondWalk \/ NextInstance
  BY <1>4, NewWalkPlaces
<1>5. CASE (\E n \in 1 .. Instances, t \in Tokens : Infuse(n, t)) \/ UNCHANGED vars
  <2>1. UNCHANGED <<pc, instances, instance, nonFungible, pages, items, out>>
    BY <1>5 DEF Infuse, vars, walk
  <2> QED
    BY <2>1 DEF PlacesInv, Resolved, Listing!OncePerPlace
<1> QED
  BY <1>1, <1>2, <1>3, <1>4, <1>5 DEF Next, Reader

\* The inductive invariant holds in every reachable state (ReadAllPages,
\* ReadInfusedAssets).
THEOREM WalkInvariant == Spec => []WalkInv
<1>1. Init => WalkInv
  BY PagesInit, ListInit, PlacesInit DEF WalkInv
<1>2. WalkInv /\ [Next]_vars => WalkInv'
  <2> SUFFICES ASSUME WalkInv, [Next]_vars PROVE WalkInv'
    OBVIOUS
  <2>1. PagesInv /\ ListInv /\ PagesInv' /\ PlacesInv'
    BY PagesStep, PlacesStep DEF WalkInv, PagesInv
  <2>2. CASE honest
    <3>1. CASE UNCHANGED vars
      <4>1. HeldGrows' /\ (ListedIsPast => ListedIsPast') /\ (ListedOnce => ListedOnce')
        BY <2>1, <3>1 DEF vars, chain, walk, ListInv, HeldGrows, ListedIsPast, ListedOnce, Entries, Kind
      <4>2. PastIsListed => PastIsListed'
        BY <3>1 DEF vars, chain, walk, PastIsListed, Past, Listed, Entries, Kind
      <4> QED
        BY <2>1, <2>2, <4>1, <4>2 DEF WalkInv, ListInv
    <3>2. CASE Next
      <4>1. CASE \E page \in Pages : ReadPage(page)
        BY <2>1, <2>2, <4>1, ReadPageLists DEF WalkInv
      <4>2. CASE PageCap \/ PageFails \/ ResolveFails \/ AllRead
        BY <2>1, <4>2, EndLists DEF WalkInv
      <4>3. CASE \E i \in items : \E count \in IF nonFungible THEN Balances(i.token) ELSE {0} :
                   ResolveItem(i, count)
        BY <2>1, <2>2, <4>3, ResolveLists DEF WalkInv
      <4>4. CASE SecondWalk \/ NextInstance
        BY <2>1, <2>2, <4>4, NewWalkLists DEF WalkInv
      <4>5. CASE \E n \in 1 .. Instances, t \in Tokens : Infuse(n, t)
        BY <2>1, <4>5, InfuseLists DEF WalkInv
      <4> QED
        BY <3>2, <4>1, <4>2, <4>3, <4>4, <4>5 DEF Next, Reader
    <3> QED
      BY <2>1, <3>1, <3>2 DEF WalkInv
  <2>3. CASE ~honest
    <3>1. UNCHANGED <<held, heldAtCall, honest>>
      BY <2>3 DEF Next, Reader, ReadPage, PageCap, PageFails, ResolveItem, ResolveFails, SecondWalk,
                  NextInstance, AllRead, End, Infuse, vars, chain
    <3> QED
      BY <2>1, <2>3, <3>1 DEF WalkInv, ListInv, HeldGrows
  <2> QED
    BY <2>2, <2>3
<1> QED
  BY <1>1, <1>2, PTL DEF Spec

\* An answer of true from an honest node is everything the instances held when the
\* call began, each token once, and nothing they do not hold, whatever is infused
\* between the queries (FeeInfusions.h, ReadInfusedAssets).
THEOREM AnswersAreWhole == Spec => []TheWholeListOnce
<1>1. WalkInv => TheWholeListOnce
  <2> SUFFICES ASSUME WalkInv, honest, pc = "done", NEW n \in 1 .. instances, NEW t \in Tokens
               PROVE  /\ heldAtCall[n][t] > 0 => Entries(n, t) # {}
                      /\ Cardinality(Entries(n, t)) <= 1
                      /\ \A e \in Entries(n, t) :
                           /\ held[n][t] > 0
                           /\ t \in NonFungible =>
                                e.count \in heldAtCall[n][t] .. held[n][t] /\ e.count > 0
    BY DEF TheWholeListOnce
  <2>1. PastIsListed /\ ListedOnce
    BY DEF WalkInv, ListInv
  <2>2. heldAtCall[n][t] > 0 => Entries(n, t) # {}
    BY <2>1 DEF PastIsListed
  <2>3. Cardinality(Entries(n, t)) <= 1
    <3>1. CASE Entries(n, t) = {}
      BY <3>1, FS_EmptySet
    <3>2. CASE Entries(n, t) # {}
      <4>1. PICK e \in Entries(n, t) : TRUE
        BY <3>2
      <4>2. Entries(n, t) = {e}
        BY <2>1, <4>1 DEF ListedOnce, Entries
      <4> QED
        BY <4>2, FS_Singleton, 1 <= 1
    <3> QED
      BY <3>1, <3>2
  <2>4. \A e \in Entries(n, t) : held[n][t] > 0 /\ (t \in NonFungible =>
           e.count \in heldAtCall[n][t] .. held[n][t] /\ e.count > 0)
    BY <2>1 DEF ListedOnce, Entries
  <2> QED
    BY <2>2, <2>3, <2>4
<1> QED
  BY <1>1, WalkInvariant, PTL

-----------------------------------------------------------------------------
(* All the queries of a call are one reading (WholeReading).               *)

LEMMA ReadingStarts == Init => Listing!Init
<1> SUFFICES ASSUME Init PROVE Listing!Init
  OBVIOUS
<1>1. /\ pc = "page" => CallState = "running"
      /\ pc # "page" => CallState = pc
  BY DEF Init, CallState
<1>2. Answered = {}
  BY DEF Init, Answered
<1> QED
  BY <1>1, <1>2 DEF Init, CallState, Listing!Init

\* What the caller does not see: pages, items, the next walk, the next instance.
LEMMA CallGoesOn ==
    ASSUME UNCHANGED <<chain, instances>>,
           pc \in {"page", "items"}, pc' \in {"page", "items"}
    PROVE  UNCHANGED Listing!reading
<1>1. UNCHANGED <<CallState, Answered>>
  BY DEF CallState, Answered
<1> QED
  BY <1>1 DEF chain, Listing!reading

\* The last step of a call that is done: its list is one the reading may give.
LEMMA CallIsAnswered ==
    ASSUME WalkInv, WalkInv', AllRead
    PROVE  Listing!Answer
<1>1. /\ pc = "items" /\ pc' = "done" /\ UNCHANGED <<chain, instances, out>>
  BY DEF AllRead, End
<1>2. CallState = "running" /\ CallState' = "done" /\ Answered' = out'
  BY <1>1 DEF CallState, Answered
<1>3. TypeOK' /\ PlacesInv' /\ ListInv'
  BY DEF WalkInv, PagesInv
<1>4. out' \subseteq Listing!Items
  <2> SUFFICES ASSUME NEW e \in out' PROVE e \in Listing!Items
    OBVIOUS
  <2>1. e \in EntryType /\ e.instance <= instances /\ e.page < MaxPages
    BY <1>1, <1>3 DEF TypeOK, PlacesInv
  <2>2. instances \in Int /\ MaxPages \in Int
    BY SizesAssumption DEF WalkInv, PagesInv, TypeOK
  <2>3. e.instance \in 1 .. instances /\ e.page \in 0 .. MaxPages - 1
    BY <2>1, <2>2 DEF EntryType
  <2> QED
    BY <2>1, <2>3 DEF EntryType, Listing!Items
<1>5. Listing!OncePerPlace(out')
  BY <1>3 DEF PlacesInv, Listing!OncePerPlace
<1>6. ASSUME honest PROVE Listing!IsWhole(out')
  <2>1. PastIsListed' /\ ListedOnce'
    BY <1>1, <1>3, <1>6 DEF ListInv, chain
  <2>2. \A n \in 1 .. instances, t \in Tokens :
           heldAtCall[n][t] > 0 => \E e \in out' : e.instance = n /\ e.token = t
    BY <1>1, <2>1 DEF PastIsListed, Entries, chain
  <2>3. \A e, f \in out' : e.instance = f.instance /\ e.token = f.token => e = f
    BY <2>1 DEF ListedOnce
  <2>4. \A e \in out' :
         /\ held[e.instance][e.token] > 0
         /\ e.token \in NonFungible =>
              e.count \in heldAtCall[e.instance][e.token] .. held[e.instance][e.token] /\ e.count > 0
    BY <1>1, <2>1 DEF ListedOnce, chain
  <2> QED
    BY <2>2, <2>3, <2>4 DEF Listing!IsWhole
<1> QED
  BY <1>1, <1>2, <1>4, <1>5, <1>6 DEF Listing!Answer, chain

LEMMA ReadingSteps ==
    ASSUME WalkInv, WalkInv', [Next]_vars
    PROVE  [Listing!Next]_Listing!reading
<1>1. CASE \E page \in Pages : ReadPage(page)
  <2>1. /\ pc = "page" /\ pc' \in {"page", "items"} /\ UNCHANGED <<chain, instances>>
    BY <1>1 DEF ReadPage
  <2> QED
    BY <2>1, CallGoesOn
<1>2. CASE \/ \E i \in items : \E count \in IF nonFungible THEN Balances(i.token) ELSE {0} :
                ResolveItem(i, count)
           \/ SecondWalk \/ NextInstance
  <2>1. /\ pc = "items" /\ pc' \in {"page", "items"} /\ UNCHANGED <<chain, instances>>
    BY <1>2 DEF ResolveItem, SecondWalk, NextInstance
  <2> QED
    BY <2>1, CallGoesOn
<1>3. CASE PageCap \/ PageFails \/ ResolveFails
  <2>1. pc \in {"page", "items"} /\ pc' = "failed" /\ UNCHANGED <<chain, instances>>
    BY <1>3 DEF PageCap, PageFails, ResolveFails, End, CutShort
  <2>2. CallState = "running" /\ CallState' = "failed" /\ UNCHANGED Answered
    BY <2>1 DEF CallState, Answered
  <2>3. Listing!Fail
    BY <2>1, <2>2 DEF chain, Listing!Fail
  <2> QED
    BY <2>3 DEF Listing!Next
<1>4. CASE AllRead
  BY <1>4, CallIsAnswered DEF Listing!Next
<1>5. ASSUME NEW n \in 1 .. Instances, NEW t \in Tokens, Infuse(n, t)
      PROVE  [Listing!Next]_Listing!reading
  <2>1. pc \in {"page", "items"} /\ UNCHANGED <<pc, out>>
    BY <1>5 DEF Infuse
  <2>2. CallState = "running" /\ UNCHANGED <<CallState, Answered>>
    BY <2>1 DEF CallState, Answered
  <2>3. Listing!Infuse(n, t)
    BY <1>5, <2>2 DEF Infuse, Listing!Infuse
  <2> QED
    BY <2>3 DEF Listing!Next
<1>6. CASE UNCHANGED vars
  <2>1. UNCHANGED <<CallState, Answered>>
    BY <1>6 DEF vars, CallState, Answered
  <2> QED
    BY <1>6, <2>1 DEF vars, chain, Listing!reading
<1> QED
  BY <1>1, <1>2, <1>3, <1>4, <1>5, <1>6 DEF Next, Reader

\* The refinement: all the queries of ReadInfusedAssets are one reading.  Against
\* every node, and whatever is infused between the queries, a call fails, or ends
\* once with a list that has each item of a page once, on no more pages than the cap
\* allows; from an honest node that list is whole.
THEOREM ReadsAreWhole == Spec => ImplementsWholeReading
<1>1. WalkInv /\ WalkInv' /\ [Next]_vars => [Listing!Next]_Listing!reading
  BY ReadingSteps
<1> QED
  BY <1>1, ReadingStarts, WalkInvariant, PTL DEF Spec, ImplementsWholeReading, Listing!Spec

-----------------------------------------------------------------------------
(* Why the call returns: each step of the reader brings it nearer to its   *)
(* end, by a rank that cannot fall for ever, and no other step sets it     *)
(* back.  What is left for TLC (property Returns) is that the reader runs. *)

Ended     == pc \in {"failed", "done"}
WalksLeft == 2 * (instances - instance) + (IF nonFungible THEN 0 ELSE 1)
PagesLeft == IF pc = "page" THEN 1 + MaxPages - pages ELSE 0
ItemsLeft == Cardinality(items)
ranks     == <<Ended, WalksLeft, PagesLeft, ItemsLeft>>

\* The call ends, or a walk is over, or a page of it, or an item of that.
Nearer ==
    \/ ~Ended /\ Ended'
    \/ WalksLeft' < WalksLeft
    \/ WalksLeft' = WalksLeft /\ PagesLeft' < PagesLeft
    \/ WalksLeft' = WalksLeft /\ PagesLeft' = PagesLeft /\ ItemsLeft' < ItemsLeft

\* While the call runs there is an instance to read, and finitely many items.
RankInv == ~Ended => instance <= instances /\ IsFiniteSet(items)

RanksAreNatural == ~Ended => {WalksLeft, PagesLeft, ItemsLeft} \subseteq Nat

ComesNearer == (Reader => Nearer) /\ (Nearer \/ UNCHANGED ranks)

LEMMA RanksHaveAnEnd == ASSUME TypeOK, RankInv PROVE RanksAreNatural
<1> SUFFICES ASSUME ~Ended PROVE {WalksLeft, PagesLeft, ItemsLeft} \subseteq Nat
  BY DEF RanksAreNatural
<1>1. WalksLeft \in Nat
  BY DEF TypeOK, RankInv, WalksLeft
<1>2. PagesLeft \in Nat
  BY SizesAssumption DEF TypeOK, PagesLeft
<1>3. ItemsLeft \in Nat
  BY FS_CardinalityType DEF RankInv, ItemsLeft
<1> QED
  BY <1>1, <1>2, <1>3

LEMMA RankInit == Init => RankInv
<1> SUFFICES ASSUME Init, ~Ended PROVE instance <= instances /\ IsFiniteSet(items)
  BY DEF RankInv
<1>1. instance <= instances
  BY SizesAssumption DEF Init, Ended
<1> QED
  BY <1>1, FS_EmptySet DEF Init

\* A page of finitely many tokens adds finitely many items.
LEMMA PageIsFinite ==
    ASSUME IsFiniteSet(Tokens), IsFiniteSet(items), NEW page \in Pages, ReadPage(page)
    PROVE  IsFiniteSet(items')
<1> DEFINE listed == {[page |-> pages, token |-> t] : t \in page.tokens}
<1>1. IsFiniteSet(page.tokens)
  BY PageType, FS_Subset
<1>2. IsFiniteSet(listed)
  <2> DEFINE f == [t \in page.tokens |-> [page |-> pages, token |-> t]]
  <2>1. f \in Surjection(page.tokens, listed)
    BY DEF Surjection
  <2> HIDE DEF f, listed
  <2> QED
    BY <1>1, <2>1, FS_Surjection
<1>3. items' = items \cup listed
  BY DEF ReadPage
<1> QED
  BY <1>2, <1>3, FS_Union

LEMMA ReaderComesNearer ==
    ASSUME IsFiniteSet(Tokens), TypeOK, RankInv, Reader
    PROVE  RankInv' /\ Nearer
<1>1. ~Ended
  BY DEF Reader, ReadPage, PageCap, PageFails, ResolveItem, ResolveFails, SecondWalk,
         NextInstance, AllRead, Ended
<1>2. instance <= instances /\ IsFiniteSet(items) /\ ItemsLeft \in Nat
  BY <1>1, FS_CardinalityType DEF RankInv, ItemsLeft
<1>3. instance \in Int /\ instances \in Int /\ pages \in Int /\ pages <= MaxPages /\ MaxPages \in Int
  BY SizesAssumption DEF TypeOK
<1>4. ASSUME NEW page \in Pages, ReadPage(page) PROVE RankInv' /\ Nearer
  <2>1. IsFiniteSet(items')
    BY <1>2, <1>4, PageIsFinite
  <2>2. instance' = instance /\ instances' = instances /\ WalksLeft' = WalksLeft
    BY <1>4 DEF ReadPage, WalksLeft
  <2>3. pc = "page" /\ pages' = pages + 1 /\ pc' \in {"page", "items"}
    BY <1>4 DEF ReadPage, CountPage
  <2>4. PagesLeft' < PagesLeft
    BY <1>3, <2>3 DEF PagesLeft
  <2> QED
    BY <1>2, <2>1, <2>2, <2>4 DEF Nearer, RankInv
<1>5. ASSUME PageCap \/ PageFails \/ ResolveFails \/ AllRead PROVE RankInv' /\ Nearer
  <2>1. Ended'
    BY <1>5 DEF PageCap, PageFails, ResolveFails, AllRead, End, CutShort, Ended
  <2> QED
    BY <1>1, <2>1 DEF Nearer, RankInv
<1>6. ASSUME NEW i \in items, NEW count \in IF nonFungible THEN Balances(i.token) ELSE {0},
             ResolveItem(i, count)
      PROVE  RankInv' /\ Nearer
  <2>1. items' = items \ {i} /\ instance' = instance /\ instances' = instances
        /\ WalksLeft' = WalksLeft /\ PagesLeft' = PagesLeft
    BY <1>6 DEF ResolveItem, WalksLeft, PagesLeft
  <2>2. IsFiniteSet(items') /\ ItemsLeft' = ItemsLeft - 1
    BY <1>2, <2>1, FS_RemoveElement DEF ItemsLeft
  <2>3. ItemsLeft' < ItemsLeft
    BY <1>2, <2>2
  <2> QED
    BY <1>2, <2>1, <2>2, <2>3 DEF Nearer, RankInv
<1>7. ASSUME SecondWalk \/ NextInstance PROVE RankInv' /\ Nearer
  <2>1. items' = {} /\ instances' = instances
    BY <1>7 DEF SecondWalk, NextInstance, NewWalk
  <2>2. instance' <= instances /\ WalksLeft' < WalksLeft
    BY <1>2, <1>3, <1>7 DEF SecondWalk, NextInstance, WalksLeft
  <2> QED
    BY <2>1, <2>2, FS_EmptySet DEF Nearer, RankInv
<1> QED
  BY <1>4, <1>5, <1>6, <1>7 DEF Reader

LEMMA RankStep ==
    ASSUME IsFiniteSet(Tokens), TypeOK, RankInv, [Next]_vars
    PROVE  RankInv' /\ [ComesNearer]_vars
<1>1. CASE Reader
  BY <1>1, ReaderComesNearer DEF ComesNearer
<1>2. ASSUME ~Reader PROVE RankInv' /\ [ComesNearer]_vars
  <2>1. UNCHANGED <<pc, instances, instance, nonFungible, pages, items>>
    BY <1>2 DEF Next, Infuse, vars, walk
  <2>2. UNCHANGED ranks
    BY <2>1 DEF ranks, Ended, WalksLeft, PagesLeft, ItemsLeft
  <2>3. RankInv'
    BY <2>1 DEF RankInv, Ended, WalksLeft, PagesLeft, ItemsLeft
  <2> QED
    BY <1>2, <2>2, <2>3 DEF ComesNearer
<1> QED
  BY <1>1, <1>2

\* ReadInfusedAssets cannot be kept going: against every node, honest or not, each
\* step of the reader brings the end of the call nearer, by whole walks, pages or
\* items, of which there are finitely many; infusions meanwhile do not put it off
\* (FeeInfusions.h: "cannot keep it going forever").
THEOREM EachStepIsNearer ==
    ASSUME IsFiniteSet(Tokens) PROVE Spec => []RanksAreNatural /\ [][ComesNearer]_vars
<1>1. PagesInv /\ RankInv /\ [Next]_vars => RankInv' /\ [ComesNearer]_vars
  BY RankStep DEF PagesInv
<1>2. PagesInv /\ RankInv => RanksAreNatural
  BY RanksHaveAnEnd DEF PagesInv
<1> QED
  BY <1>1, <1>2, RankInit, PagesInvariant, PTL DEF Spec

============================================================================
