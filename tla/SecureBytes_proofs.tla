------------------------- MODULE SecureBytes_proofs -------------------------
(***************************************************************************)
(* Proofs about SecureBytes: any number of arrays, handles and blocks, any *)
(* bound on the handles of one array, every build.                         *)
(***************************************************************************)
EXTENDS SecureBytes, FiniteSetTheorems, TLAPS

\* The memory of an array nobody holds: nothing points to it when it is freed.
Free(a) ==
    \A h \in Handles : handle[h] # None =>
        /\ handle[h].owner # a
        /\ Live(a) /\ array[a].data # None => handle[h].data # array[a].data

LEMMA EmptyIsAnArray == Empty \in Fields /\ Empty # None
<1>1. Empty \in Fields
      BY DEF Empty, Fields
<1> QED BY <1>1, NoneAssumption

LEMMA FieldsOfArrays ==
    ASSUME TypeOK, NEW a \in Arrays, Live(a)
    PROVE  /\ array[a] \in Fields
           /\ array[a].data \in Blocks \cup {None} /\ array[a].size \in {0, 1}
           /\ array[a].readers \in Nat /\ array[a].writers \in Nat
           /\ array[a].protect \in BOOLEAN /\ array[a].encrypted \in BOOLEAN
<1>1. array[a] \in Fields
      BY DEF TypeOK, Live
<1> QED BY <1>1 DEF Fields

LEMMA FieldsOfHandles ==
    ASSUME TypeOK, NEW h \in Handles, handle[h] # None
    PROVE  /\ handle[h] \in Handle /\ handle[h].kind \in {"reader", "writer"}
           /\ handle[h].data \in Blocks /\ handle[h].owner \in Arrays
<1>1. handle[h] \in Handle
      BY DEF TypeOK
<1> QED BY <1>1 DEF Handle

LEMMA HandlesAreFinite ==
    ASSUME NEW S \in SUBSET Handles
    PROVE  IsFiniteSet(S) /\ Cardinality(S) \in Nat
BY HandlesAssumption, FS_Subset, FS_CardinalityType

LEMMA HandleSets ==
    ASSUME NEW a, NEW k
    PROVE  Owned(a, k) \in SUBSET Handles /\ On(a, k) \in SUBSET Handles
BY DEF Owned, On

LEMMA DeadIsFree ==
    ASSUME TypeOK, NEW a \in Arrays, ~Live(a)
    PROVE  Free(a)
BY DEF TypeOK, Free

LEMMA ReleasableIsFree ==
    ASSUME NEW a \in Arrays, Releasable(a)
    PROVE  Free(a)
BY DEF Releasable, Free

\* A free array gave out no handle that is alive, and its counts say so unless
\* they are stray.
LEMMA FreeCounts ==
    ASSUME SecureInv, NEW a \in Arrays, Free(a)
    PROVE  /\ Owned(a, "reader") = {} /\ Owned(a, "writer") = {}
           /\ Live(a) /\ a \notin stray => array[a].readers = 0 /\ array[a].writers = 0
<1>1. Owned(a, "reader") = {} /\ Owned(a, "writer") = {}
      BY DEF Free, Owned
<1> QED BY <1>1, FS_EmptySet DEF SecureInv, CountsMatch

\* Nothing points to memory that is freed, nor to that of a free array.
LEMMA NothingOnFreed ==
    ASSUME SecureInv, NEW b \in Blocks, page[b] = "freed", NEW k
    PROVE  On(b, k) = {} /\ \A h \in Handles : handle[h] # None => handle[h].data # b
<1>1. \A h \in Handles : handle[h] # None => handle[h].data # b
  <2> SUFFICES ASSUME NEW h \in Handles, handle[h] # None, handle[h].data = b PROVE FALSE
      OBVIOUS
  <2>1. PICK a \in Arrays : Owns(a, b)
        BY DEF SecureInv, HandlesPoint
  <2> QED BY <2>1 DEF SecureInv, OwnedOnce
<1> QED BY <1>1 DEF On

LEMMA NothingOnFree ==
    ASSUME SecureInv, NEW a \in Arrays, Free(a), Live(a), array[a].data # None, NEW k
    PROVE  On(array[a].data, k) = {}
BY DEF Free, On

LEMMA SecureInit == Init => SecureInv
<1> SUFFICES ASSUME Init PROVE SecureInv
    OBVIOUS
<1>1. TypeOK
      BY AdaptersAssumption DEF Init, TypeOK, Live, Contents
<1>2. OwnedOnce
      BY DEF Init, OwnedOnce, Owns, Live
<1>3. HandlesPoint /\ CountsMatch /\ CountsCover /\ KeptOrStray
      BY DEF Init, HandlesPoint, CountsMatch, CountsCover, KeptOrStray, Live
<1>4. CipherAgrees /\ SealedByCipher /\ FaultHasACause
      BY DEF Init, CipherAgrees, SealedByCipher, FaultHasACause, Live
<1> QED BY <1>1, <1>2, <1>3, <1>4 DEF SecureInv

\* Encrypting contents that are open, and opening contents, keep what the flag says.
LEMMA EncipherAgrees ==
    ASSUME NEW c \in {"clear", "stuck", "garbled", "lost"}, NEW done \in BOOLEAN,
           NEW fields, fields.protect, fields.encrypted = done
    PROVE  /\ Enciphered(c, done) \in Contents /\ Enciphered(c, done) # "stuck"
           /\ Agrees(fields, Enciphered(c, done))
BY DEF Enciphered, Contents, Agrees

LEMMA OpenedAgrees ==
    ASSUME NEW fields, fields.protect, fields.encrypted \in BOOLEAN,
           Agrees(fields, contents[fields.data]), NEW ok \in BOOLEAN
    PROVE  /\ Opened(fields, ok) \in {"clear", "stuck", "garbled", "lost"}
           /\ \A new : new.protect = fields.protect /\ new.encrypted = (fields.encrypted /\ ~ok)
                => Agrees(new, Opened(fields, ok))
<1>1. CASE fields.encrypted
      BY <1>1 DEF Opened, Deciphered, Agrees
<1>2. CASE ~fields.encrypted
      BY <1>2 DEF Opened, Agrees
<1> QED BY <1>1, <1>2

\* Only a build with a cipher encrypts, or fails to decrypt.
LEMMA CipherSeals ==
    ASSUME NEW c, c \in {"sealed", "stuck", "garbled", "doubled"} => "cipher" \in adapters,
           NEW done
    PROVE  /\ done \in Encrypted /\ Enciphered(c, done) \in {"sealed", "stuck", "garbled", "doubled"}
                => "cipher" \in adapters
           /\ Deciphered(c, done) \in {"sealed", "stuck", "garbled", "doubled"} => "cipher" \in adapters
<1>1. done \in Encrypted /\ Enciphered(c, done) \in {"sealed", "stuck", "garbled", "doubled"}
        => "cipher" \in adapters
      BY DEF Encrypted, Enciphered
<1>2. Deciphered(c, done) \in {"sealed", "stuck", "garbled", "doubled"} => "cipher" \in adapters
      BY DEF Deciphered
<1> QED BY <1>1, <1>2

-----------------------------------------------------------------------------
LEMMA DefaultStep ==
    ASSUME SecureInv, NEW a \in Arrays, Default(a), UNCHANGED adapters, ~fault
    PROVE  SecureInv'
<1> USE DEF Default
<1>1. TypeOK /\ OwnedOnce /\ HandlesPoint /\ CountsMatch /\ CountsCover /\ CipherAgrees
      /\ SealedByCipher /\ KeptOrStray /\ FaultHasACause
      BY DEF SecureInv
<1>2. \A x \in Arrays : array'[x] = IF x = a THEN Empty ELSE array[x]
      BY <1>1 DEF TypeOK
<1>3. Empty.data = None /\ Empty.readers = 0 /\ Empty.writers = 0
      BY DEF Empty
<1>4. Free(a)
      BY <1>1, DeadIsFree
<1>5. \A x, k : Owned(x, k)' = Owned(x, k) /\ On(x, k)' = On(x, k)
      BY DEF Owned, On
<1>6. a \notin stray
      BY <1>1 DEF TypeOK
<1>7. \A x \in Arrays : Live(x)' <=> x = a \/ Live(x)
      BY <1>2, EmptyIsAnArray DEF Live
<1>8. \A x \in Arrays, b \in Blocks : Owns(x, b)' <=> Owns(x, b)
      BY <1>2, <1>3, <1>7, NoneAssumption DEF Owns
<1>a. TypeOK'
      BY <1>1, <1>7, EmptyIsAnArray, FieldsOfHandles DEF TypeOK
<1>b. OwnedOnce'
      BY <1>1, <1>8 DEF OwnedOnce
<1>c. HandlesPoint'
      BY <1>1, <1>2, <1>4, <1>8, FieldsOfHandles DEF HandlesPoint, Free
<1>d. CountsMatch'
      BY <1>1, <1>2, <1>3, <1>4, <1>5, <1>7, FreeCounts, FS_EmptySet DEF CountsMatch
<1>e. CountsCover' /\ CipherAgrees' /\ SealedByCipher'
      BY <1>1, <1>2, <1>3, <1>5, <1>7 DEF CountsCover, CipherAgrees, SealedByCipher
<1>f. KeptOrStray'
      BY <1>1, <1>2, <1>3, <1>5, <1>7 DEF KeptOrStray, Kept, Outlived
<1>g. FaultHasACause'
      BY <1>1 DEF FaultHasACause
<1> QED BY <1>a, <1>b, <1>c, <1>d, <1>e, <1>f, <1>g DEF SecureInv

LEMMA ConstructStep ==
    ASSUME SecureInv, NEW a \in Arrays, NEW protect \in BOOLEAN, Construct(a, protect),
           UNCHANGED adapters, ~fault
    PROVE  SecureInv'
<1>1. TypeOK /\ OwnedOnce /\ HandlesPoint /\ CountsMatch /\ CountsCover /\ CipherAgrees
      /\ SealedByCipher /\ KeptOrStray /\ FaultHasACause
      BY DEF SecureInv
<1>2. PICK b \in Blocks, done \in IF protect THEN Encrypted ELSE {FALSE} :
        /\ page[b] = "freed"
        /\ page'   = [page EXCEPT ![b] = Closed(protect)]
        /\ contents' = [contents EXCEPT ![b] = Enciphered("clear", done)]
        /\ array'  = [array EXCEPT ![a] =
             [Empty EXCEPT !.data = b, !.size = 1, !.protect = protect, !.encrypted = done]]
      BY DEF Construct
<1> DEFINE new == [Empty EXCEPT !.data = b, !.size = 1, !.protect = protect, !.encrypted = done]
<1>3. ~Live(a) /\ UNCHANGED <<handle, fault, stray, adapters>>
      BY DEF Construct
<1>4. /\ new.data = b /\ new.readers = 0 /\ new.writers = 0
      /\ new.protect = protect /\ new.encrypted = done
      BY DEF Empty
<1>5. done \in BOOLEAN /\ (done => protect)
      BY <1>2 DEF Encrypted
<1>6. new \in Fields /\ new # None
  <2>1. new \in Fields
        BY <1>5 DEF Fields, Empty
  <2> QED BY <2>1, NoneAssumption
<1>7. \A x \in Arrays : array'[x] = IF x = a THEN new ELSE array[x]
      BY <1>1, <1>2 DEF TypeOK
<1>8. array' \in [Arrays -> Fields \cup {None}]
      BY <1>1, <1>2, <1>6 DEF TypeOK
<1> HIDE DEF new
<1>9. Free(a)
      BY <1>1, <1>3, DeadIsFree
<1>10. \A x, k : Owned(x, k)' = Owned(x, k) /\ On(x, k)' = On(x, k)
      BY <1>3 DEF Owned, On
<1>11. a \notin stray
      BY <1>1, <1>3 DEF TypeOK
<1>12. \A x \in Arrays : Live(x)' <=> x = a \/ Live(x)
      BY <1>6, <1>7 DEF Live
<1>13. \A x \in Arrays : \A c : Owns(x, c)' <=> IF x = a THEN c = b ELSE Owns(x, c)
      BY <1>4, <1>7, <1>12 DEF Owns
<1>14. \A x \in Arrays : ~Owns(x, b)
      BY <1>1, <1>2 DEF OwnedOnce
<1>15. \A c \in Blocks : page'[c] = IF c = b THEN Closed(protect) ELSE page[c]
      BY <1>1, <1>2 DEF TypeOK
<1>16. Closed(protect) = IF protect THEN "noaccess" ELSE "readwrite"
      BY DEF Closed
<1>17. \A c \in Blocks : contents'[c] = IF c = b THEN IF done THEN "sealed" ELSE "clear" ELSE contents[c]
      BY <1>1, <1>2 DEF TypeOK, Enciphered
<1>18. done => "cipher" \in adapters
      BY <1>2 DEF Encrypted
<1>19. \A x \in Arrays : Live(x) => array[x].data # b
      BY <1>14 DEF Owns
<1>a. TypeOK'
  <2>1. page' \in [Blocks -> {"freed", "noaccess", "readonly", "readwrite"}]
        BY <1>1, <1>2, <1>16 DEF TypeOK
  <2>2. contents' \in [Blocks -> Contents]
        BY <1>1, <1>2 DEF TypeOK, Enciphered, Contents
  <2> QED BY <1>1, <1>3, <1>8, <1>12, <2>1, <2>2, FieldsOfHandles DEF TypeOK
<1>b. OwnedOnce'
  <2>1. \A c \in Blocks : page'[c] = "freed" <=> c # b /\ page[c] = "freed"
        BY <1>15, <1>16
  <2>2. \A c \in Blocks : (\A x \in Arrays : ~Owns(x, c)') <=> c # b /\ \A x \in Arrays : ~Owns(x, c)
    <3>1. Owns(a, b)'
          BY <1>13
    <3>2. \A c \in Blocks : c # b => \A x \in Arrays : Owns(x, c)' <=> Owns(x, c)
      <4>1. \A c \in Blocks : ~Owns(a, c)
            BY <1>3 DEF Owns
      <4> QED BY <4>1, <1>13
    <3> QED BY <3>1, <3>2, <1>14
  <2>3. \A x, y \in Arrays, c \in Blocks : Owns(x, c)' /\ Owns(y, c)' => x = y
        BY <1>1, <1>13, <1>14 DEF OwnedOnce
  <2> QED BY <1>1, <2>1, <2>2, <2>3 DEF OwnedOnce
<1>c. HandlesPoint'
      BY <1>1, <1>3, <1>7, <1>9, <1>13, <1>14, <1>12, FieldsOfHandles DEF HandlesPoint, Free, Owns
<1>d. CountsMatch'
      BY <1>1, <1>3, <1>4, <1>7, <1>9, <1>10, <1>12, FreeCounts, FS_EmptySet DEF CountsMatch
<1>e. CountsCover'
  <2>1. On(b, "reader") = {} /\ On(b, "writer") = {}
        BY <1>2, NothingOnFreed
  <2>2. \A x \in Arrays : \A k : On(array[x].data, k)' = On(array'[x].data, k)
        BY <1>3 DEF On
  <2>3. ASSUME NEW x \in Arrays, Live(x)', array'[x].data # None
        PROVE  /\ array'[x].readers >= Cardinality(On(array'[x].data, "reader"))
               /\ array'[x].writers >= Cardinality(On(array'[x].data, "writer"))
    <3>1. CASE x = a
          BY <3>1, <2>1, <1>4, <1>7, FS_EmptySet
    <3>2. CASE x # a
          BY <3>2, <2>3, <1>1, <1>7, <1>12 DEF CountsCover
    <3> QED BY <3>1, <3>2
  <2> QED BY <2>2, <2>3 DEF CountsCover
<1>f. CipherAgrees' /\ SealedByCipher'
  <2>1. ASSUME NEW x \in Arrays, Live(x)', array'[x].data # None
        PROVE  Agrees(array'[x], contents'[array'[x].data])
    <3>1. CASE x = a
          BY <3>1, <1>4, <1>5, <1>7, <1>17 DEF Agrees
    <3>2. CASE x # a
      <4>1. Live(x) /\ array'[x] = array[x] /\ array[x].data \in Blocks /\ array[x].data # b
            BY <3>2, <2>1, <1>1, <1>7, <1>12, <1>19, FieldsOfArrays
      <4> QED BY <4>1, <2>1, <1>1, <1>17 DEF CipherAgrees
    <3> QED BY <3>1, <3>2
  <2>2. SealedByCipher'
        BY <1>1, <1>3, <1>17, <1>18 DEF SealedByCipher
  <2> QED BY <2>1, <2>2 DEF CipherAgrees
<1>g. KeptOrStray'
  <2> SUFFICES ASSUME NEW x \in Arrays, Live(x)', array'[x].data # None
               PROVE  \/ Kept(x)'
                      \/ /\ x \in stray' /\ Outlived(x)'
                         /\ \A h \in Handles : handle'[h] # None /\ handle'[h].data = array'[x].data
                              => handle'[h].owner \in stray'
      BY DEF KeptOrStray
  <2>1. CASE x = a
        BY <2>1, <1>4, <1>5, <1>7, <1>15, <1>16, <1>17 DEF Kept, Access, Idle
  <2>2. CASE x # a
    <3>1. Live(x) /\ array'[x] = array[x] /\ array[x].data \in Blocks /\ array[x].data # b
          BY <2>2, <1>1, <1>7, <1>12, <1>19, FieldsOfArrays
    <3>2. page'[array[x].data] = page[array[x].data] /\ contents'[array[x].data] = contents[array[x].data]
          BY <3>1, <1>15, <1>17
    <3> QED BY <3>1, <3>2, <1>1, <1>3, <1>10 DEF KeptOrStray, Kept, Outlived
  <2> QED BY <2>1, <2>2
<1>h. FaultHasACause'
      BY <1>1, <1>3 DEF FaultHasACause
<1> QED BY <1>a, <1>b, <1>c, <1>d, <1>e, <1>f, <1>g, <1>h DEF SecureInv

\* Arrays that a step leaves alone keep memory of their own.
LEMMA OthersOwnOthers ==
    ASSUME SecureInv, NEW a \in Arrays, NEW x \in Arrays, x # a, Live(a), Live(x),
           array[x].data # None
    PROVE  array[x].data # array[a].data
<1>1. array[x].data \in Blocks
      BY FieldsOfArrays DEF SecureInv
<1> QED BY <1>1 DEF SecureInv, OwnedOnce, Owns

LEMMA DestroyStep ==
    ASSUME SecureInv, NEW a \in Arrays, Destroy(a), UNCHANGED adapters, ~fault
    PROVE  SecureInv'
<1>1. TypeOK /\ OwnedOnce /\ HandlesPoint /\ CountsMatch /\ CountsCover /\ CipherAgrees
      /\ SealedByCipher /\ KeptOrStray /\ FaultHasACause
      BY DEF SecureInv
<1>2. /\ Live(a) /\ Free(a) /\ UNCHANGED <<handle, fault, adapters>>
      /\ page' = Freed(array[a].data) /\ contents' = Emptied(array[a].data)
      /\ array' = [array EXCEPT ![a] = None] /\ stray' = stray \ {a}
      BY ReleasableIsFree DEF Destroy, Releasable
<1>3. array[a].data \in Blocks \cup {None}
      BY <1>1, <1>2, FieldsOfArrays
<1>4. \A x \in Arrays : array'[x] = IF x = a THEN None ELSE array[x]
      BY <1>1, <1>2 DEF TypeOK
<1>5. \A x \in Arrays : Live(x)' <=> x # a /\ Live(x)
      BY <1>4 DEF Live
<1>6. \A x \in Arrays : \A c : Owns(x, c)' <=> x # a /\ Owns(x, c)
      BY <1>4, <1>5 DEF Owns
<1>7. /\ \A c \in Blocks : page'[c] = IF c = array[a].data THEN "freed" ELSE page[c]
      /\ \A c \in Blocks : contents'[c] = IF c = array[a].data THEN "clear" ELSE contents[c]
      BY <1>2 DEF Freed, Emptied
<1>8. \A x \in Arrays : x # a /\ Live(x) /\ array[x].data # None => array[x].data # array[a].data
      BY <1>2, OthersOwnOthers
<1>9. \A x, k : Owned(x, k)' = Owned(x, k) /\ On(x, k)' = On(x, k)
      BY <1>2 DEF Owned, On
<1>10. \A x \in Arrays : \A k : On(array[x].data, k)' = On(array'[x].data, k)
      BY <1>2 DEF On
<1>a. TypeOK'
  <2>1. page' \in [Blocks -> {"freed", "noaccess", "readonly", "readwrite"}]
        BY <1>1, <1>2 DEF TypeOK, Freed
  <2>2. \A h \in Handles : handle'[h] # None => array'[handle'[h].owner] # None
    <3> SUFFICES ASSUME NEW h \in Handles, handle[h] # None PROVE array'[handle[h].owner] # None
        BY <1>2
    <3>1. handle[h].owner \in Arrays /\ handle[h].owner # a /\ Live(handle[h].owner)
          BY <1>1, <1>2, FieldsOfHandles DEF TypeOK, Free
    <3> QED BY <3>1, <1>4 DEF Live
  <2>3. array' \in [Arrays -> Fields \cup {None}] /\ contents' \in [Blocks -> Contents]
        BY <1>1, <1>2 DEF TypeOK, Emptied, Contents
  <2>4. \A x \in stray' : x \in Arrays /\ Live(x)'
        BY <1>1, <1>2, <1>5 DEF TypeOK
  <2> QED BY <1>1, <1>2, <2>1, <2>2, <2>3, <2>4 DEF TypeOK, Live
<1>b. OwnedOnce'
  <2>1. \A c \in Blocks : (\A x \in Arrays : ~Owns(x, c)') <=> page'[c] = "freed"
    <3> SUFFICES ASSUME NEW c \in Blocks
                 PROVE  (\A x \in Arrays : ~Owns(x, c)') <=> page'[c] = "freed"
        OBVIOUS
    <3>1. CASE c = array[a].data
      <4>1. \A x \in Arrays : x # a => ~Owns(x, c)
            BY <3>1, <1>1, <1>2 DEF OwnedOnce, Owns
      <4> QED BY <4>1, <3>1, <1>6, <1>7
    <3>2. CASE c # array[a].data
      <4>1. ~Owns(a, c)
            BY <3>2 DEF Owns
      <4> QED BY <4>1, <3>2, <1>1, <1>6, <1>7 DEF OwnedOnce
    <3> QED BY <3>1, <3>2
  <2>2. \A x, y \in Arrays, c \in Blocks : Owns(x, c)' /\ Owns(y, c)' => x = y
        BY <1>1, <1>6 DEF OwnedOnce
  <2> QED BY <2>1, <2>2 DEF OwnedOnce
<1>c. HandlesPoint'
  <2> SUFFICES ASSUME NEW h \in Handles, handle[h] # None
               PROVE  /\ array'[handle[h].owner].data \in {None, handle[h].data}
                      /\ \E x \in Arrays : Owns(x, handle[h].data)'
      BY <1>2 DEF HandlesPoint
  <2>1. handle[h].owner \in Arrays /\ handle[h].data \in Blocks /\ handle[h].owner # a
        BY <1>1, <1>2, FieldsOfHandles DEF Free
  <2>2. array'[handle[h].owner].data \in {None, handle[h].data}
        BY <2>1, <1>1, <1>4 DEF HandlesPoint
  <2>3. PICK x \in Arrays : Owns(x, handle[h].data)
        BY <1>1 DEF HandlesPoint
  <2>4. x # a
        BY <2>1, <2>3, <1>2, NoneAssumption DEF Free, Owns
  <2>5. Live(x)' /\ array'[x].data = handle[h].data
        BY <2>3, <2>4, <1>4, <1>5 DEF Owns
  <2> QED BY <2>2, <2>5, <1>2 DEF Owns
<1>d. CountsMatch'
      BY <1>1, <1>2, <1>4, <1>5, <1>9 DEF CountsMatch
<1>e. CountsCover'
  <2>1. ASSUME NEW x \in Arrays, Live(x)', array'[x].data # None
        PROVE  /\ array'[x].readers >= Cardinality(On(array'[x].data, "reader"))
               /\ array'[x].writers >= Cardinality(On(array'[x].data, "writer"))
        BY <2>1, <1>1, <1>4, <1>5 DEF CountsCover
  <2> QED BY <1>10, <2>1 DEF CountsCover
<1>f. CipherAgrees' /\ SealedByCipher'
      BY <1>1, <1>2, <1>4, <1>5, <1>7, <1>8, FieldsOfArrays DEF CipherAgrees, SealedByCipher
<1>g. KeptOrStray'
  <2> SUFFICES ASSUME NEW x \in Arrays, Live(x)', array'[x].data # None
               PROVE  \/ Kept(x)'
                      \/ /\ x \in stray' /\ Outlived(x)'
                         /\ \A h \in Handles : handle'[h] # None /\ handle'[h].data = array'[x].data
                              => handle'[h].owner \in stray'
      BY DEF KeptOrStray
  <2>1. /\ x # a /\ Live(x) /\ array'[x] = array[x] /\ array[x].data \in Blocks
        /\ array[x].data # array[a].data
        BY <1>1, <1>4, <1>5, <1>8, FieldsOfArrays
  <2>2. page'[array[x].data] = page[array[x].data] /\ contents'[array[x].data] = contents[array[x].data]
        BY <2>1, <1>7
  <2>3. \A h \in Handles : handle[h] # None => handle[h].owner # a
        BY <1>2 DEF Free
  <2> QED BY <2>1, <2>2, <2>3, <1>1, <1>2, <1>9 DEF KeptOrStray, Kept, Outlived
<1>h. FaultHasACause'
      BY <1>2 DEF FaultHasACause
<1> QED BY <1>a, <1>b, <1>c, <1>d, <1>e, <1>f, <1>g, <1>h DEF SecureInv

\* Both moves: the target gives up the block gone, or has none.
LEMMA MoveKeeps ==
    ASSUME SecureInv, NEW a \in Arrays, NEW other \in Arrays, Live(other), Free(a),
           NEW gone, gone = IF Live(a) THEN array[a].data ELSE None,
           page' = Freed(gone), contents' = Emptied(gone),
           array' = Move(a, other), stray' = Adrift(a, other),
           UNCHANGED <<handle, fault, adapters>>, ~fault
    PROVE  SecureInv'
<1>1. TypeOK /\ OwnedOnce /\ HandlesPoint /\ CountsMatch /\ CountsCover /\ CipherAgrees
      /\ SealedByCipher /\ KeptOrStray /\ FaultHasACause
      BY DEF SecureInv
<1> DEFINE emptied == [array[other] EXCEPT !.data = None]
<1>2. array[other] \in Fields /\ array[other] # None
      BY <1>1, FieldsOfArrays DEF Live
<1>3. emptied \in Fields /\ emptied # None /\ emptied.data = None
      /\ emptied.readers = array[other].readers /\ emptied.writers = array[other].writers
  <2>1. emptied \in Fields /\ emptied.data = None
        /\ emptied.readers = array[other].readers /\ emptied.writers = array[other].writers
        BY <1>2 DEF Fields
  <2> QED BY <2>1, NoneAssumption
<1>4. array' \in [Arrays -> Fields \cup {None}]
      /\ \A x \in Arrays : array'[x] = IF x = other THEN emptied ELSE IF x = a THEN array[other] ELSE array[x]
  <2> DEFINE first == [array EXCEPT ![a] = array[other]]
  <2>1. first \in [Arrays -> Fields \cup {None}] /\ first[other] = array[other]
        /\ \A x \in Arrays : first[x] = IF x = a THEN array[other] ELSE array[x]
        BY <1>1, <1>2 DEF TypeOK
  <2>2. array' = [first EXCEPT ![other] = emptied]
        BY <2>1 DEF Move
  <2> HIDE DEF first, emptied
  <2> QED BY <2>1, <2>2, <1>3
<1> HIDE DEF emptied
<1>5. \A x \in Arrays : Live(x)' <=> x = a \/ Live(x)
      BY <1>2, <1>3, <1>4 DEF Live
<1>6. \A x \in Arrays, c \in Blocks : Owns(x, c)' <=>
        x # other /\ IF x = a THEN Owns(other, c) ELSE Owns(x, c)
      BY <1>2, <1>3, <1>4, <1>5, NoneAssumption DEF Owns, Live
<1>7. /\ \A c \in Blocks : page'[c] = IF c = gone THEN "freed" ELSE page[c]
      /\ \A c \in Blocks : contents'[c] = IF c = gone THEN "clear" ELSE contents[c]
      BY DEF Freed, Emptied
<1>8. \A x \in Arrays : x # a /\ Live(x) /\ array[x].data # None => array[x].data # gone
      BY OthersOwnOthers
<1>9. \A x, k : Owned(x, k)' = Owned(x, k)
      BY DEF Owned
<1>10. \A x \in Arrays : \A k : On(array[x].data, k)' = On(array'[x].data, k)
      BY DEF On
<1>11. \A h \in Handles : handle[h] # None => handle[h].owner # a
      BY DEF Free
<1>12. \A x : x # a => (x \in stray' <=> x \in stray)
      BY DEF Adrift
<1>13. a \in stray' <=> other \in stray \/ Owned(other, "reader") \cup Owned(other, "writer") # {}
      BY DEF Adrift
<1>a. TypeOK'
  <2>1. page' \in [Blocks -> {"freed", "noaccess", "readonly", "readwrite"}]
        BY <1>1 DEF TypeOK, Freed
  <2>2. \A h \in Handles : handle'[h] # None => array'[handle'[h].owner] # None
    <3> SUFFICES ASSUME NEW h \in Handles, handle[h] # None PROVE array'[handle[h].owner] # None
        OBVIOUS
    <3>1. handle[h].owner \in Arrays /\ Live(handle[h].owner)
          BY <1>1, FieldsOfHandles DEF TypeOK
    <3> QED BY <3>1, <1>5 DEF Live
  <2>3. \A x \in stray' : x \in Arrays /\ Live(x)'
        BY <1>1, <1>5, <1>12 DEF TypeOK
  <2>4. contents' \in [Blocks -> Contents]
        BY <1>1 DEF TypeOK, Emptied, Contents
  <2> QED BY <1>1, <1>4, <2>1, <2>2, <2>3, <2>4 DEF TypeOK, Live
<1>b. OwnedOnce'
  <2>1. \A c \in Blocks : (\A x \in Arrays : ~Owns(x, c)') <=> page'[c] = "freed"
    <3> SUFFICES ASSUME NEW c \in Blocks
                 PROVE  (\A x \in Arrays : ~Owns(x, c)') <=> page'[c] = "freed"
        OBVIOUS
    <3>1. CASE c = gone
      <4>1. \A x \in Arrays : x # a => ~Owns(x, c)
            BY <3>1, <1>8, NoneAssumption DEF Owns
      <4> QED BY <4>1, <3>1, <1>6, <1>7
    <3>2. CASE c # gone
      <4>1. ~Owns(a, c)
            BY <3>2 DEF Owns
      <4>2. (\A x \in Arrays : ~Owns(x, c)') <=> (\A x \in Arrays : ~Owns(x, c))
            BY <4>1, <1>6
      <4> QED BY <4>2, <3>2, <1>1, <1>7 DEF OwnedOnce
    <3> QED BY <3>1, <3>2
  <2>2. \A x, y \in Arrays, c \in Blocks : Owns(x, c)' /\ Owns(y, c)' => x = y
        BY <1>1, <1>6 DEF OwnedOnce
  <2> QED BY <2>1, <2>2 DEF OwnedOnce
<1>c. HandlesPoint'
  <2> SUFFICES ASSUME NEW h \in Handles, handle[h] # None
               PROVE  /\ array'[handle[h].owner].data \in {None, handle[h].data}
                      /\ \E x \in Arrays : Owns(x, handle[h].data)'
      BY DEF HandlesPoint
  <2>1. handle[h].owner \in Arrays /\ handle[h].data \in Blocks /\ handle[h].owner # a
        BY <1>1, <1>11, FieldsOfHandles
  <2>2. array'[handle[h].owner].data \in {None, handle[h].data}
        BY <2>1, <1>1, <1>3, <1>4 DEF HandlesPoint
  <2>3. PICK x \in Arrays : Owns(x, handle[h].data)
        BY <1>1 DEF HandlesPoint
  <2>4. x # a
        BY <2>1, <2>3, NoneAssumption DEF Free, Owns
  <2>5. PICK y \in Arrays : Live(y)' /\ array'[y].data = handle[h].data
    <3>1. CASE x = other
          BY <3>1, <2>3, <2>4, <1>4, <1>5 DEF Owns
    <3>2. CASE x # other
          BY <3>2, <2>3, <2>4, <1>4, <1>5 DEF Owns
    <3> QED BY <3>1, <3>2
  <2> QED BY <2>2, <2>5 DEF Owns
<1>d. CountsMatch'
  <2> SUFFICES ASSUME NEW x \in Arrays, x \notin stray', Live(x)'
               PROVE  /\ array'[x].readers = Cardinality(Owned(x, "reader"))
                      /\ array'[x].writers = Cardinality(Owned(x, "writer"))
      BY <1>9 DEF CountsMatch
  <2>1. CASE x = a
    <3>1. other \notin stray /\ Owned(other, "reader") = {} /\ Owned(other, "writer") = {}
          BY <2>1, <1>13
    <3>2. array[other].readers = 0 /\ array[other].writers = 0
          BY <3>1, <1>1, FS_EmptySet DEF CountsMatch
    <3>3. Owned(a, "reader") = {} /\ Owned(a, "writer") = {}
          BY FreeCounts
    <3> QED BY <2>1, <3>2, <3>3, <1>3, <1>4, FS_EmptySet
  <2>2. CASE x # a
        BY <2>2, <1>1, <1>3, <1>4, <1>5, <1>12 DEF CountsMatch
  <2> QED BY <2>1, <2>2
<1>e. CountsCover'
  <2>1. ASSUME NEW x \in Arrays, Live(x)', array'[x].data # None
        PROVE  /\ array'[x].readers >= Cardinality(On(array'[x].data, "reader"))
               /\ array'[x].writers >= Cardinality(On(array'[x].data, "writer"))
        BY <2>1, <1>1, <1>3, <1>4, <1>5 DEF CountsCover
  <2> QED BY <1>10, <2>1 DEF CountsCover
<1>f. CipherAgrees' /\ SealedByCipher'
  <2>1. ASSUME NEW x \in Arrays, Live(x)', array'[x].data # None
        PROVE  Agrees(array'[x], contents'[array'[x].data])
    <3>1. PICK y \in Arrays : y # a /\ Live(y) /\ array'[x] = array[y]
          BY <2>1, <1>3, <1>4, <1>5
    <3>2. array[y].data \in Blocks /\ array[y].data # gone
          BY <2>1, <3>1, <1>1, <1>8, FieldsOfArrays
    <3> QED BY <2>1, <3>1, <3>2, <1>1, <1>7 DEF CipherAgrees
  <2>2. SealedByCipher'
        BY <1>1, <1>7 DEF SealedByCipher
  <2> QED BY <2>1, <2>2 DEF CipherAgrees
<1>g. KeptOrStray'
  <2> SUFFICES ASSUME NEW x \in Arrays, Live(x)', array'[x].data # None
               PROVE  \/ Kept(x)'
                      \/ /\ x \in stray' /\ Outlived(x)'
                         /\ \A h \in Handles : handle[h] # None /\ handle[h].data = array'[x].data
                              => handle[h].owner \in stray'
      BY DEF KeptOrStray
  <2>1. PICK y \in Arrays : /\ y = IF x = a THEN other ELSE x
                            /\ y # a /\ Live(y) /\ array'[x] = array[y]
        BY <1>3, <1>4, <1>5
  <2>2. array[y].data \in Blocks /\ array[y].data # gone
        BY <2>1, <1>1, <1>8, FieldsOfArrays
  <2>3. page'[array[y].data] = page[array[y].data] /\ contents'[array[y].data] = contents[array[y].data]
        BY <2>2, <1>7
  <2>4. Kept(y) => Kept(x)'
        BY <2>1, <2>3 DEF Kept
  <2>5. y \in stray => x \in stray'
        BY <2>1, <1>12, <1>13
  <2>6. Outlived(y) => Outlived(x)'
    <3>1. CASE x = a
      <4>1. Cardinality(Owned(a, "reader")) = 0 /\ Cardinality(Owned(a, "writer")) = 0
            BY FreeCounts, FS_EmptySet
      <4>2. \A k : Cardinality(Owned(y, k)) \in Nat
            BY HandleSets, HandlesAreFinite
      <4>3. array[y].readers \in Nat /\ array[y].writers \in Nat
            BY <2>1, <1>1, FieldsOfArrays
      <4> QED BY <4>1, <4>2, <4>3, <3>1, <2>1, <1>9 DEF Outlived
    <3>2. CASE x # a
          BY <3>2, <2>1, <1>9 DEF Outlived
    <3> QED BY <3>1, <3>2
  <2> QED BY <2>1, <2>4, <2>5, <2>6, <1>1, <1>11, <1>12 DEF KeptOrStray
<1>h. FaultHasACause'
      BY DEF FaultHasACause
<1> QED BY <1>a, <1>b, <1>c, <1>d, <1>e, <1>f, <1>g, <1>h DEF SecureInv

LEMMA MoveConstructStep ==
    ASSUME SecureInv, NEW a \in Arrays, NEW other \in Arrays, MoveConstruct(a, other),
           UNCHANGED adapters, ~fault
    PROVE  SecureInv'
<1>1. TypeOK
      BY DEF SecureInv
<1>2. ~Live(a) /\ Live(other) /\ Free(a)
      BY <1>1, DeadIsFree DEF MoveConstruct
<1>3. page' = Freed(None) /\ contents' = Emptied(None)
      BY <1>1, NoneAssumption DEF MoveConstruct, Freed, Emptied, TypeOK
<1> QED BY <1>2, <1>3, MoveKeeps DEF MoveConstruct

LEMMA MoveAssignStep ==
    ASSUME SecureInv, NEW a \in Arrays, NEW other \in Arrays, MoveAssign(a, other),
           UNCHANGED adapters, ~fault
    PROVE  SecureInv'
<1>1. Live(a) /\ Live(other) /\ Free(a)
      BY ReleasableIsFree DEF MoveAssign, Releasable
<1> QED BY <1>1, MoveKeeps DEF MoveAssign

\* All copies: a free array, or a new one, gives up its old memory for a new block.
LEMMA FillKeeps ==
    ASSUME SecureInv, NEW a \in Arrays, Free(a),
           NEW old, old = IF Live(a) THEN array[a] ELSE Empty,
           NEW b \in Blocks, page[b] = "freed" \/ b = old.data,
           NEW new \in Fields, new.data = b, new.readers = old.readers, new.writers = old.writers,
           page' = [Freed(old.data) EXCEPT ![b] = Closed(new.protect)],
           array' \in [Arrays -> Fields \cup {None}], array'[a] = new,
           \A x \in Arrays : x # a =>
             IF Live(x)
             THEN /\ array'[x] # None /\ array'[x].data = array[x].data
                  /\ array'[x].readers = array[x].readers /\ array'[x].writers = array[x].writers
                  /\ array'[x].protect = array[x].protect
             ELSE array'[x] = None,
           contents' \in [Blocks -> Contents], SealedByCipher',
           Agrees(new, contents'[b]), contents'[b] # IF new.protect THEN "stuck" ELSE "sealed",
           \A x \in Arrays : x # a /\ Live(x) /\ array[x].data # None =>
             /\ Agrees(array'[x], contents'[array[x].data])
             /\ Kept(x) => contents'[array[x].data] # IF Idle(array[x]) THEN "stuck" ELSE "sealed",
           fault' \in BOOLEAN, FaultHasACause', UNCHANGED <<handle, stray, adapters>>
    PROVE  SecureInv'
<1>1. TypeOK /\ OwnedOnce /\ HandlesPoint /\ CountsMatch /\ CountsCover /\ KeptOrStray
      BY DEF SecureInv
<1>2. /\ old.data \in Blocks \cup {None} /\ old.readers \in Nat /\ old.writers \in Nat
      /\ new.protect \in BOOLEAN /\ new # None
  <2>1. old \in Fields
        BY <1>1, FieldsOfArrays, EmptyIsAnArray
  <2> QED BY <2>1, NoneAssumption DEF Fields
<1>3. \A x \in Arrays : Live(x)' <=> x = a \/ Live(x)
      BY <1>2 DEF Live
<1>4. \A x \in Arrays : x # a /\ Live(x)' =>
        /\ Live(x) /\ array'[x].data = array[x].data
        /\ array'[x].readers = array[x].readers /\ array'[x].writers = array[x].writers
        /\ array'[x].protect = array[x].protect
      BY <1>3
<1>5. \A x \in Arrays : \A c : x # a => (Owns(x, c)' <=> Owns(x, c))
      BY <1>3, <1>4 DEF Owns
<1>6. \A c : Owns(a, c)' <=> c = b
      BY <1>3 DEF Owns
<1>7. \A x \in Arrays : x # a /\ Live(x) /\ array[x].data # None =>
        array[x].data # b /\ array[x].data # old.data /\ array[x].data \in Blocks
  <2> SUFFICES ASSUME NEW x \in Arrays, x # a, Live(x), array[x].data # None
               PROVE  array[x].data # b /\ array[x].data # old.data /\ array[x].data \in Blocks
      OBVIOUS
  <2>1. array[x].data \in Blocks /\ page[array[x].data] # "freed"
        BY <1>1, FieldsOfArrays DEF OwnedOnce, Owns
  <2>2. array[x].data # old.data
        BY OthersOwnOthers DEF Empty
  <2> QED BY <2>1, <2>2
<1>8. \A c \in Blocks : page'[c] = IF c = b THEN Closed(new.protect)
                                   ELSE IF c = old.data THEN "freed" ELSE page[c]
      BY DEF Freed
<1>9. Closed(new.protect) = IF new.protect THEN "noaccess" ELSE "readwrite"
      BY DEF Closed
<1>10. /\ Owned(a, "reader") = {} /\ Owned(a, "writer") = {}
       /\ a \notin stray => old.readers = 0 /\ old.writers = 0
      BY FreeCounts DEF Empty
<1>11. \A h \in Handles : handle[h] # None => handle[h].data # b /\ handle[h].owner # a
  <2>1. CASE page[b] = "freed"
        BY <2>1, NothingOnFreed DEF Free
  <2>2. CASE b = old.data
        BY <2>2, NoneAssumption DEF Free, Empty
  <2> QED BY <2>1, <2>2
<1>12. \A x, k : Owned(x, k)' = Owned(x, k)
      BY DEF Owned
<1>13. \A x \in Arrays : \A k : On(array[x].data, k)' = On(array'[x].data, k)
      BY DEF On
<1>14. \A x \in Arrays : x # a /\ Live(x)' /\ array[x].data # None =>
         page'[array[x].data] = page[array[x].data]
      BY <1>3, <1>7, <1>8
<1>a. TypeOK'
  <2>1. page' \in [Blocks -> {"freed", "noaccess", "readonly", "readwrite"}]
        BY <1>1, <1>9 DEF TypeOK, Freed
  <2>2. \A h \in Handles : handle'[h] # None => array'[handle'[h].owner] # None
    <3> SUFFICES ASSUME NEW h \in Handles, handle[h] # None PROVE array'[handle[h].owner] # None
        OBVIOUS
    <3>1. handle[h].owner \in Arrays /\ Live(handle[h].owner)
          BY <1>1, FieldsOfHandles DEF TypeOK
    <3> QED BY <3>1, <1>3 DEF Live
  <2>3. \A x \in stray' : x \in Arrays /\ Live(x)'
        BY <1>1, <1>3 DEF TypeOK
  <2> QED BY <1>1, <2>1, <2>2, <2>3 DEF TypeOK, Live
<1>b. OwnedOnce'
  <2>1. \A c \in Blocks : (\A x \in Arrays : ~Owns(x, c)') <=> page'[c] = "freed"
    <3> SUFFICES ASSUME NEW c \in Blocks
                 PROVE  (\A x \in Arrays : ~Owns(x, c)') <=> page'[c] = "freed"
        OBVIOUS
    <3>1. CASE c = b
          BY <3>1, <1>6, <1>8, <1>9
    <3>2. CASE c # b /\ c = old.data
      <4>1. \A x \in Arrays : x # a => ~Owns(x, c)
            BY <3>2, <1>7, NoneAssumption DEF Owns
      <4> QED BY <4>1, <3>2, <1>5, <1>6, <1>8
    <3>3. CASE c # b /\ c # old.data
      <4>1. ~Owns(a, c)
            BY <3>3 DEF Owns
      <4>2. (\A x \in Arrays : ~Owns(x, c)') <=> (\A x \in Arrays : ~Owns(x, c))
            BY <4>1, <3>3, <1>5, <1>6
      <4> QED BY <4>2, <3>3, <1>1, <1>8 DEF OwnedOnce
    <3> QED BY <3>1, <3>2, <3>3
  <2>2. \A x \in Arrays : x # a => ~Owns(x, b)'
        BY <1>5, <1>7, NoneAssumption DEF Owns
  <2>3. \A x, y \in Arrays, c \in Blocks : Owns(x, c)' /\ Owns(y, c)' => x = y
        BY <1>1, <1>5, <1>6, <2>2 DEF OwnedOnce
  <2> QED BY <2>1, <2>3 DEF OwnedOnce
<1>c. HandlesPoint'
  <2> SUFFICES ASSUME NEW h \in Handles, handle[h] # None
               PROVE  /\ array'[handle[h].owner].data \in {None, handle[h].data}
                      /\ \E x \in Arrays : Live(x)' /\ array'[x].data = handle[h].data
      BY DEF HandlesPoint, Owns
  <2>1. /\ handle[h].owner \in Arrays /\ handle[h].data \in Blocks /\ handle[h].owner # a
        /\ Live(handle[h].owner)
        BY <1>1, <1>11, FieldsOfHandles DEF TypeOK
  <2>2. array'[handle[h].owner].data \in {None, handle[h].data}
        BY <2>1, <1>1, <1>3, <1>4 DEF HandlesPoint
  <2>3. PICK x \in Arrays : Owns(x, handle[h].data)
        BY <1>1 DEF HandlesPoint
  <2>4. x # a
        BY <2>1, <2>3, NoneAssumption DEF Free, Owns
  <2> QED BY <2>2, <2>3, <2>4, <1>3, <1>4 DEF Owns
<1>d. CountsMatch'
  <2> SUFFICES ASSUME NEW x \in Arrays, x \notin stray, Live(x)'
               PROVE  /\ array'[x].readers = Cardinality(Owned(x, "reader"))
                      /\ array'[x].writers = Cardinality(Owned(x, "writer"))
      BY <1>12 DEF CountsMatch
  <2>1. CASE x = a
        BY <2>1, <1>10, FS_EmptySet
  <2>2. CASE x # a
        BY <2>2, <1>1, <1>4 DEF CountsMatch
  <2> QED BY <2>1, <2>2
<1>e. CountsCover'
  <2>1. ASSUME NEW x \in Arrays, Live(x)', array'[x].data # None
        PROVE  /\ array'[x].readers >= Cardinality(On(array'[x].data, "reader"))
               /\ array'[x].writers >= Cardinality(On(array'[x].data, "writer"))
    <3>1. CASE x = a
      <4>1. On(b, "reader") = {} /\ On(b, "writer") = {}
            BY <1>11 DEF On
      <4>2. Cardinality(On(b, "reader")) = 0 /\ Cardinality(On(b, "writer")) = 0
            BY <4>1, FS_EmptySet
      <4>3. array'[x].data = b /\ array'[x].readers \in Nat /\ array'[x].writers \in Nat
            BY <3>1, <1>2
      <4> QED BY <4>2, <4>3
    <3>2. CASE x # a
          BY <3>2, <2>1, <1>1, <1>4 DEF CountsCover
    <3> QED BY <3>1, <3>2
  <2> QED BY <1>13, <2>1 DEF CountsCover
<1>f. CipherAgrees'
  <2>1. ASSUME NEW x \in Arrays, Live(x)', array'[x].data # None
        PROVE  Agrees(array'[x], contents'[array'[x].data])
    <3>1. CASE x = a
          BY <3>1
    <3>2. CASE x # a
          BY <3>2, <2>1, <1>4
    <3> QED BY <3>1, <3>2
  <2> QED BY <2>1 DEF CipherAgrees
<1>g. KeptOrStray'
  <2> SUFFICES ASSUME NEW x \in Arrays, Live(x)', array'[x].data # None
               PROVE  \/ Kept(x)'
                      \/ /\ x \in stray /\ Outlived(x)'
                         /\ \A h \in Handles : handle[h] # None /\ handle[h].data = array'[x].data
                              => handle[h].owner \in stray
      BY DEF KeptOrStray
  <2>1. CASE x = a
    <3>1. CASE old.readers # 0 \/ old.writers # 0
      <4>1. Outlived(a)'
        <5>1. Cardinality(Owned(a, "reader")') = 0 /\ Cardinality(Owned(a, "writer")') = 0
              BY <1>10, <1>12, FS_EmptySet
        <5>2. array'[a].readers = old.readers /\ array'[a].writers = old.writers
              OBVIOUS
        <5>3. old.readers > 0 \/ old.writers > 0
              BY <3>1, <1>2
        <5> QED BY <5>1, <5>2, <5>3 DEF Outlived
      <4> QED BY <4>1, <3>1, <2>1, <1>10, <1>11
    <3>2. CASE old.readers = 0 /\ old.writers = 0
          BY <3>2, <2>1, <1>2, <1>8, <1>9 DEF Kept, Access, Idle
    <3> QED BY <3>1, <3>2
  <2>2. CASE x # a
    <3>1. Live(x) /\ array'[x].data = array[x].data /\ Access(array'[x]) = Access(array[x])
          /\ Idle(array'[x]) = Idle(array[x])
          BY <2>2, <1>4 DEF Access, Idle
    <3>2. page'[array[x].data] = page[array[x].data]
          BY <3>1, <2>2, <1>14
    <3>3. Kept(x) => contents'[array[x].data] # IF Idle(array[x]) THEN "stuck" ELSE "sealed"
          BY <2>2, <3>1
    <3>4. Kept(x) => Kept(x)'
          BY <3>1, <3>2, <3>3 DEF Kept
    <3>5. Outlived(x) => Outlived(x)'
          BY <2>2, <1>4, <1>12 DEF Outlived
    <3> QED BY <3>1, <3>4, <3>5, <2>2, <1>1 DEF KeptOrStray
  <2> QED BY <2>1, <2>2
<1> QED BY <1>a, <1>b, <1>c, <1>d, <1>e, <1>f, <1>g DEF SecureInv

\* A copy of another array.
LEMMA CopyKeeps ==
    ASSUME SecureInv, NEW a \in Arrays, NEW other \in Arrays, a # other, Live(other), Free(a),
           NEW old, old = IF Live(a) THEN array[a] ELSE Empty,
           Copy(a, old, other), UNCHANGED adapters, ~fault
    PROVE  SecureInv'
<1>1. TypeOK /\ OwnedOnce /\ CipherAgrees /\ SealedByCipher /\ KeptOrStray
      BY DEF SecureInv
<1> DEFINE from  == array[other]
           opens == Opens(from)
<1>2. PICK b \in Blocks, ok \in Decrypted,
           done \in IF from.protect THEN Encrypted ELSE {old.encrypted},
           again \in IF Opens(from) THEN Encrypted ELSE {from.encrypted} :
        LET opened == IF Opens(from) THEN Opened(from, ok) ELSE contents[from.data]
            copied == Copied(other, opened)
        IN
        /\ page[b] = "freed" \/ b = old.data
        /\ page'   = [Freed(old.data) EXCEPT ![b] = Closed(from.protect)]
        /\ contents' = [c \in Blocks |->
             IF c = b THEN IF from.protect THEN Enciphered(copied, done) ELSE copied
             ELSE IF c = from.data /\ Opens(from) THEN Enciphered(opened, again)
             ELSE Emptied(old.data)[c]]
        /\ array'  = [array EXCEPT
             ![a] = [old EXCEPT !.data = b, !.size = from.size, !.protect = from.protect, !.encrypted = done],
             ![other].encrypted = again]
        /\ fault'  = ((Opens(from) /\ adapters = {"pages", "cipher"}) \/ ReadsClosed(from))
        /\ UNCHANGED <<handle, stray>>
      BY Zenon DEF Copy
<1> DEFINE opened == IF opens THEN Opened(from, ok) ELSE contents[from.data]
           copied == Copied(other, opened)
<1>3. /\ from \in Fields /\ from # None /\ from.data \in Blocks \cup {None} /\ from.size \in {0, 1}
      /\ from.readers \in Nat /\ from.writers \in Nat
      /\ from.protect \in BOOLEAN /\ from.encrypted \in BOOLEAN
      BY <1>1, FieldsOfArrays DEF Live
<1>4. /\ old \in Fields /\ old.data \in Blocks \cup {None}
      /\ old.readers \in Nat /\ old.writers \in Nat /\ old.encrypted \in BOOLEAN
  <2>1. old \in Fields
        BY <1>1, FieldsOfArrays, EmptyIsAnArray
  <2> QED BY <2>1 DEF Fields
<1>5. done \in BOOLEAN /\ again \in BOOLEAN /\ ok \in BOOLEAN
      BY <1>2, <1>3, <1>4 DEF Encrypted, Decrypted
<1> DEFINE new  == [old EXCEPT !.data = b, !.size = from.size, !.protect = from.protect, !.encrypted = done]
           read == [from EXCEPT !.encrypted = again]
<1>6. /\ new \in Fields /\ new.data = b /\ new.readers = old.readers /\ new.writers = old.writers
      /\ new.protect = from.protect /\ new.encrypted = done
      BY <1>3, <1>4, <1>5 DEF Fields
<1>7. /\ read \in Fields /\ read # None
      /\ read.data = from.data /\ read.readers = from.readers /\ read.writers = from.writers
      /\ read.protect = from.protect /\ read.encrypted = again
  <2>1. /\ read \in Fields
        /\ read.data = from.data /\ read.readers = from.readers /\ read.writers = from.writers
        /\ read.protect = from.protect /\ read.encrypted = again
        BY <1>3, <1>5 DEF Fields
  <2> QED BY <2>1, NoneAssumption
<1>8. array' \in [Arrays -> Fields \cup {None}]
      /\ \A x \in Arrays : array'[x] = IF x = a THEN new ELSE IF x = other THEN read ELSE array[x]
  <2>1. array' = [array EXCEPT ![a] = new, ![other].encrypted = again]
        BY <1>2
  <2>2. array' = [array EXCEPT ![a] = new, ![other] = read]
        BY <2>1, <1>1 DEF TypeOK
  <2> HIDE DEF new, read, from
  <2> QED BY <2>2, <1>1, <1>6, <1>7 DEF TypeOK
<1> HIDE DEF new, read
<1>9. \A c \in Blocks : contents'[c] =
        IF c = b THEN IF from.protect THEN Enciphered(copied, done) ELSE copied
        ELSE IF c = from.data /\ opens THEN Enciphered(opened, again)
        ELSE IF c = old.data THEN "clear" ELSE contents[c]
      BY <1>2 DEF Emptied
<1> HIDE DEF copied
<1>10. \A x \in Arrays : x # a /\ Live(x) /\ array[x].data # None =>
         array[x].data # b /\ array[x].data # old.data /\ array[x].data \in Blocks
  <2> SUFFICES ASSUME NEW x \in Arrays, x # a, Live(x), array[x].data # None
               PROVE  array[x].data # b /\ array[x].data # old.data /\ array[x].data \in Blocks
      OBVIOUS
  <2>1. array[x].data \in Blocks /\ page[array[x].data] # "freed"
        BY <1>1, FieldsOfArrays DEF OwnedOnce, Owns
  <2>2. array[x].data # old.data
        BY OthersOwnOthers DEF Empty
  <2> QED BY <2>1, <2>2, <1>2
<1>11. opens => Idle(from) /\ from.protect /\ from.data # None /\ from.data \in Blocks
      BY <1>3 DEF Opens, Idle
<1>12. from.data # None => Agrees(from, contents[from.data])
      BY <1>1 DEF CipherAgrees
\* What the copy reads is open, whatever came of opening it.
<1>13. opens => opened \in {"clear", "stuck", "garbled", "lost"}
  <2> HIDE DEF from
  <2> QED BY <1>3, <1>5, <1>11, <1>12, OpenedAgrees
<1>14. /\ copied \in {"clear", "stuck", "garbled", "lost"}
       /\ ~from.protect => copied # "stuck"
  <2>1. CASE from.data = None \/ from.size = 0
        BY <2>1 DEF copied, Copied
  <2>2. CASE from.data # None /\ from.size # 0 /\ opens
        BY <2>2, <1>11, <1>13 DEF copied, Copied
  <2>3. CASE from.data # None /\ from.size # 0 /\ ~opens
    <3>1. ~Idle(from) /\ opened = contents[from.data]
          BY <2>3, <1>3 DEF Opens
    <3>2. other \notin stray => opened # "sealed"
          BY <2>3, <3>1, <1>1 DEF KeptOrStray, Kept
    <3>3. opened \in {"clear", "sealed", "stuck", "garbled", "lost"} /\ (~from.protect => opened \in {"clear", "garbled", "lost"})
          BY <2>3, <3>1, <1>12 DEF Agrees
    <3> HIDE DEF opened
    <3> QED BY <2>3, <3>2, <3>3 DEF copied, Copied
  <2> QED BY <2>1, <2>2, <2>3
<1>15. /\ contents'[b] \in Contents /\ Agrees(new, contents'[b])
       /\ contents'[b] # IF new.protect THEN "stuck" ELSE "sealed"
  <2>1. CASE from.protect
        BY <2>1, <1>5, <1>6, <1>9, <1>14, EncipherAgrees
  <2>2. CASE ~from.protect
    <3>1. contents'[b] = copied /\ ~new.protect
          BY <2>2, <1>6, <1>9
    <3> QED BY <2>2, <3>1, <1>6, <1>14 DEF Agrees, Contents
  <2> QED BY <2>1, <2>2, <1>3
\* What is left of the array that was read.
<1>16. from.data # None =>
        /\ contents'[from.data] \in Contents /\ Agrees(read, contents'[from.data])
        /\ opens => contents'[from.data] # "stuck"
        /\ ~opens => contents'[from.data] = contents[from.data]
  <2> SUFFICES ASSUME from.data # None
               PROVE  /\ contents'[from.data] \in Contents /\ Agrees(read, contents'[from.data])
                      /\ opens => contents'[from.data] # "stuck"
                      /\ ~opens => contents'[from.data] = contents[from.data]
      OBVIOUS
  <2>1. from.data \in Blocks /\ from.data # b /\ from.data # old.data
        BY <1>10
  <2>2. CASE opens
    <3>1. contents'[from.data] = Enciphered(opened, again) /\ read.protect
          BY <2>1, <2>2, <1>7, <1>9, <1>11
    <3> HIDE DEF opened
    <3> QED BY <3>1, <2>2, <1>5, <1>7, <1>13, EncipherAgrees
  <2>3. CASE ~opens
    <3>1. contents'[from.data] = contents[from.data]
          BY <2>1, <2>3, <1>9
    <3>2. read.protect = from.protect /\ read.encrypted = from.encrypted
          BY <2>3, <1>2, <1>7
    <3> QED BY <3>1, <3>2, <2>1, <2>3, <1>1, <1>12 DEF Agrees, TypeOK
  <2> QED BY <2>2, <2>3
<1>17. contents' \in [Blocks -> Contents]
  <2>1. DOMAIN contents' = Blocks /\ contents' = [c \in Blocks |-> contents'[c]]
        BY <1>2
  <2>2. ASSUME NEW c \in Blocks PROVE contents'[c] \in Contents
    <3>1. CASE c = b
          BY <3>1, <1>15
    <3>2. CASE c # b /\ c = from.data
          BY <3>2, <1>3, <1>16, NoneAssumption
    <3>3. CASE c # b /\ c # from.data
          BY <3>3, <1>1, <1>9 DEF TypeOK, Contents
    <3> QED BY <3>1, <3>2, <3>3
  <2> QED BY <2>1, <2>2
<1>18. SealedByCipher'
  <2> DEFINE Secret == {"sealed", "stuck", "garbled", "doubled"}
  <2>1. from.data # None /\ opened \in Secret => "cipher" \in adapters
    <3> SUFFICES ASSUME from.data # None PROVE opened \in Secret => "cipher" \in adapters
        OBVIOUS
    <3>1. contents[from.data] \in Secret => "cipher" \in adapters
          BY <1>1, <1>3 DEF SealedByCipher
    <3>2. Deciphered(contents[from.data], ok) \in Secret => "cipher" \in adapters
          BY <3>1, CipherSeals
    <3>3. opened = contents[from.data] \/ opened = Deciphered(contents[from.data], ok)
          BY DEF Opened
    <3> QED BY <3>1, <3>2, <3>3
  <2>2. copied \in Secret => "cipher" \in adapters
    <3> HIDE DEF opened
    <3> QED BY <2>1 DEF copied, Copied
  <2>3. ASSUME NEW c \in Blocks, contents'[c] \in Secret PROVE "cipher" \in adapters
    <3>1. CASE c = b /\ from.protect
      <4>1. contents'[c] = Enciphered(copied, done) /\ done \in Encrypted
            BY <3>1, <1>2, <1>9
      <4> QED BY <4>1, <2>2, <2>3, CipherSeals
    <3>2. CASE c = b /\ ~from.protect
          BY <3>2, <2>2, <2>3, <1>9
    <3>3. CASE c # b /\ c = from.data /\ opens
      <4>1. contents'[c] = Enciphered(opened, again) /\ again \in Encrypted
            BY <3>3, <1>2, <1>9
      <4> HIDE DEF opened
      <4> QED BY <4>1, <3>3, <2>1, <2>3, <1>11, CipherSeals
    <3>4. CASE c # b /\ ~(c = from.data /\ opens)
      <4>1. contents'[c] = "clear" \/ contents'[c] = contents[c]
            BY <3>4, <1>9
      <4> QED BY <4>1, <2>3, <1>1 DEF SealedByCipher
    <3> QED BY <3>1, <3>2, <3>3, <3>4
  <2> QED BY <2>3 DEF SealedByCipher
<1>19. ASSUME NEW x \in Arrays, x # a, Live(x), array[x].data # None
       PROVE  /\ Agrees(array'[x], contents'[array[x].data])
              /\ Kept(x) => contents'[array[x].data] # IF Idle(array[x]) THEN "stuck" ELSE "sealed"
  <2>1. CASE x = other
    <3>1. opens \/ Kept(x) => contents'[array[x].data] # IF Idle(array[x]) THEN "stuck" ELSE "sealed"
          BY <2>1, <1>11, <1>16, <1>19 DEF Kept
    <3> QED BY <2>1, <3>1, <1>8, <1>16, <1>19
  <2>2. CASE x # other
    <3>1. array[x].data \in Blocks /\ array[x].data # b /\ array[x].data # old.data
          BY <1>10, <1>19
    <3>2. array[x].data # from.data
          BY <2>2, <1>19, OthersOwnOthers
    <3>3. contents'[array[x].data] = contents[array[x].data] /\ array'[x] = array[x]
          BY <2>2, <3>1, <3>2, <1>8, <1>9, <1>19
    <3> QED BY <3>3, <1>1, <1>19 DEF CipherAgrees, Kept
  <2> QED BY <2>1, <2>2
<1>20. FaultHasACause' /\ fault' \in BOOLEAN
  <2>1. ReadsClosed(from) => stray # {}
    <3> SUFFICES ASSUME ReadsClosed(from) PROVE stray # {}
        OBVIOUS
    <3>1. ~Kept(other)
          BY <1>3 DEF ReadsClosed, CanRead, Kept, Access, Idle
    <3> QED BY <3>1, <1>1 DEF KeptOrStray, ReadsClosed
  <2> QED BY <2>1, <1>2 DEF FaultHasACause
<1>21. \A x \in Arrays : x # a =>
         IF Live(x)
         THEN /\ array'[x] # None /\ array'[x].data = array[x].data
              /\ array'[x].readers = array[x].readers /\ array'[x].writers = array[x].writers
              /\ array'[x].protect = array[x].protect
         ELSE array'[x] = None
      BY <1>7, <1>8 DEF Live
<1>22. array'[a] = new /\ UNCHANGED <<handle, stray, adapters>>
      BY <1>2, <1>8
<1>23. /\ page[b] = "freed" \/ b = old.data
       /\ page' = [Freed(old.data) EXCEPT ![b] = Closed(new.protect)]
      BY <1>2, <1>6
<1> HIDE DEF from, opens, opened
<1> QED BY <1>6, <1>8, <1>15, <1>17, <1>18, <1>19, <1>20, <1>21, <1>22, <1>23, FillKeeps

\* An array assigned to itself: what it held is lost, the rest is as after a copy.
LEMMA CopySelfKeeps ==
    ASSUME SecureInv, NEW a \in Arrays, Live(a), Free(a), CopySelf(a), UNCHANGED adapters, ~fault
    PROVE  SecureInv'
<1>1. TypeOK /\ OwnedOnce /\ CipherAgrees /\ SealedByCipher
      BY DEF SecureInv
<1> DEFINE self == array[a]
<1>2. PICK b \in Blocks, done \in IF self.protect THEN Encrypted ELSE {self.encrypted} :
        /\ page[b] = "freed" \/ b = self.data
        /\ page'   = [Freed(self.data) EXCEPT ![b] = Closed(self.protect)]
        /\ contents' = [Emptied(self.data) EXCEPT
             ![b] = IF self.size = 1 THEN "lost"
                    ELSE IF self.protect THEN Enciphered("clear", done) ELSE "clear"]
        /\ array'  = [array EXCEPT ![a].data = b, ![a].encrypted = done]
        /\ fault'  = (self.size = 1 /\ Idle(self) /\ "pages" \in adapters)
        /\ UNCHANGED <<handle, stray>>
      BY Zenon DEF CopySelf
<1>3. /\ self \in Fields /\ self.data \in Blocks \cup {None} /\ self.size \in {0, 1}
      /\ self.readers \in Nat /\ self.writers \in Nat
      /\ self.protect \in BOOLEAN /\ self.encrypted \in BOOLEAN
      BY <1>1, FieldsOfArrays
<1>4. done \in BOOLEAN
      BY <1>2, <1>3 DEF Encrypted
<1> DEFINE new == [self EXCEPT !.data = b, !.encrypted = done]
<1>5. /\ new \in Fields /\ new.data = b /\ new.readers = self.readers /\ new.writers = self.writers
      /\ new.protect = self.protect /\ new.encrypted = done
      BY <1>3, <1>4 DEF Fields
<1>6. /\ array' = [array EXCEPT ![a] = new] /\ array' \in [Arrays -> Fields \cup {None}]
      /\ \A x \in Arrays : array'[x] = IF x = a THEN new ELSE array[x]
  <2>1. array' = [array EXCEPT ![a] = new]
        BY <1>1, <1>2 DEF TypeOK
  <2> HIDE DEF new
  <2> QED BY <2>1, <1>1, <1>5 DEF TypeOK
<1> HIDE DEF new
<1>7. \A c \in Blocks : contents'[c] =
        IF c = b THEN IF self.size = 1 THEN "lost"
                      ELSE IF self.protect /\ done THEN "sealed" ELSE "clear"
        ELSE IF c = self.data THEN "clear" ELSE contents[c]
      BY <1>2 DEF Emptied, Enciphered
<1>8. \A x \in Arrays : x # a /\ Live(x) /\ array[x].data # None =>
        array[x].data # b /\ array[x].data # self.data /\ array[x].data \in Blocks
  <2> SUFFICES ASSUME NEW x \in Arrays, x # a, Live(x), array[x].data # None
               PROVE  array[x].data # b /\ array[x].data # self.data /\ array[x].data \in Blocks
      OBVIOUS
  <2>1. array[x].data \in Blocks /\ page[array[x].data] # "freed"
        BY <1>1, FieldsOfArrays DEF OwnedOnce, Owns
  <2>2. array[x].data # self.data
        BY OthersOwnOthers
  <2> QED BY <2>1, <2>2, <1>2
<1>9. contents' \in [Blocks -> Contents]
      BY <1>1, <1>2, <1>7 DEF TypeOK, Contents, Emptied
<1>10. SealedByCipher'
  <2>1. self.protect /\ done => "cipher" \in adapters
        BY <1>2 DEF Encrypted
  <2> QED BY <2>1, <1>1, <1>7 DEF SealedByCipher
<1>11. Agrees(new, contents'[b]) /\ contents'[b] # IF new.protect THEN "stuck" ELSE "sealed"
      BY <1>4, <1>5, <1>7 DEF Agrees
<1>12. ASSUME NEW x \in Arrays, x # a, Live(x), array[x].data # None
       PROVE  /\ Agrees(array'[x], contents'[array[x].data])
              /\ Kept(x) => contents'[array[x].data] # IF Idle(array[x]) THEN "stuck" ELSE "sealed"
  <2>1. contents'[array[x].data] = contents[array[x].data] /\ array'[x] = array[x]
        BY <1>6, <1>7, <1>8, <1>12
  <2> QED BY <2>1, <1>1, <1>12 DEF CipherAgrees, Kept
<1>13. FaultHasACause' /\ fault' \in BOOLEAN
  <2> SUFFICES ASSUME self.size = 1, Idle(self), "pages" \in adapters PROVE SelfCopied'
      BY <1>2 DEF FaultHasACause
  <2>1. new.data # None /\ new.protect /\ contents'[b] = "lost" /\ new # None
        BY <1>5, <1>7, NoneAssumption DEF Idle
  <2> QED BY <2>1, <1>5, <1>6 DEF SelfCopied, Live
<1>14. \A x \in Arrays : x # a =>
         IF Live(x)
         THEN /\ array'[x] # None /\ array'[x].data = array[x].data
              /\ array'[x].readers = array[x].readers /\ array'[x].writers = array[x].writers
              /\ array'[x].protect = array[x].protect
         ELSE array'[x] = None
      BY <1>6 DEF Live
<1>15. array'[a] = new /\ UNCHANGED <<handle, stray, adapters>>
      BY <1>2, <1>6
<1>16. /\ page[b] = "freed" \/ b = self.data
       /\ page' = [Freed(self.data) EXCEPT ![b] = Closed(new.protect)]
      BY <1>2, <1>5
<1> HIDE DEF self
<1> QED BY <1>5, <1>6, <1>9, <1>10, <1>11, <1>12, <1>13, <1>14, <1>15, <1>16, FillKeeps DEF self

LEMMA CopyConstructStep ==
    ASSUME SecureInv, NEW a \in Arrays, NEW other \in Arrays, CopyConstruct(a, other),
           UNCHANGED adapters, ~fault
    PROVE  SecureInv'
<1>1. ~Live(a) /\ Live(other) /\ a # other /\ Copy(a, Empty, other)
      BY DEF CopyConstruct
<1>2. Free(a)
      BY <1>1, DeadIsFree DEF SecureInv
<1> QED BY <1>1, <1>2, CopyKeeps

LEMMA CopyAssignStep ==
    ASSUME SecureInv, NEW a \in Arrays, NEW other \in Arrays, CopyAssign(a, other),
           UNCHANGED adapters, ~fault
    PROVE  SecureInv'
<1>1. Live(a) /\ Live(other) /\ Free(a)
      BY ReleasableIsFree DEF CopyAssign, Releasable
<1>2. CASE a = other
      BY <1>1, <1>2, CopySelfKeeps DEF CopyAssign
<1>3. CASE a # other
      BY <1>1, <1>3, CopyKeeps DEF CopyAssign
<1> QED BY <1>2, <1>3

-----------------------------------------------------------------------------
\* A reader or a writer is given out: the memory is opened, or was open already.
LEMMA GiveKeeps ==
    ASSUME SecureInv, NEW a \in Arrays, NEW h \in Handles, NEW kind \in {"reader", "writer"},
           Live(a), array[a].data # None, handle[h] = None,
           NEW opens \in BOOLEAN, opens => array[a].protect, NEW ok \in Decrypted, NEW new \in Fields,
           new.data = array[a].data, new.protect = array[a].protect,
           new.readers = IF kind = "reader" THEN array[a].readers + 1 ELSE array[a].readers,
           new.writers = IF kind = "writer" THEN array[a].writers + 1 ELSE array[a].writers,
           new.encrypted = (array[a].encrypted /\ ~(opens /\ ok)),
           page'   = IF opens THEN [page EXCEPT ![array[a].data] = Access(new)] ELSE page,
           contents' = IF opens THEN [contents EXCEPT ![array[a].data] = Opened(array[a], ok)] ELSE contents,
           ~opens => ~Idle(array[a]) /\ Access(new) = Access(array[a]),
           array'  = [array EXCEPT ![a] = new],
           handle' = [handle EXCEPT ![h] = [kind |-> kind, data |-> array[a].data, owner |-> a]],
           UNCHANGED <<fault, stray, adapters>>, ~fault
    PROVE  SecureInv'
<1>1. TypeOK /\ OwnedOnce /\ HandlesPoint /\ CountsMatch /\ CountsCover /\ CipherAgrees
      /\ SealedByCipher /\ KeptOrStray /\ FaultHasACause
      BY DEF SecureInv
<1> DEFINE self == array[a]
           given == [kind |-> kind, data |-> self.data, owner |-> a]
<1>2. self.data \in Blocks /\ self.readers \in Nat /\ self.writers \in Nat /\ self.protect \in BOOLEAN
      /\ self.encrypted \in BOOLEAN
      BY <1>1, FieldsOfArrays
<1>3. given \in Handle /\ given # None
  <2>1. given \in Handle
        BY <1>2 DEF Handle
  <2> QED BY <2>1, NoneAssumption
<1>4. new # None
      BY NoneAssumption
<1>5. /\ array' \in [Arrays -> Fields \cup {None}]
      /\ \A x \in Arrays : array'[x] = IF x = a THEN new ELSE array[x]
      BY <1>1 DEF TypeOK
<1>6. /\ handle' \in [Handles -> Handle \cup {None}]
      /\ \A g \in Handles : handle'[g] = IF g = h THEN given ELSE handle[g]
  <2> HIDE DEF given
  <2>1. handle' = [handle EXCEPT ![h] = given]
        BY DEF given
  <2> QED BY <2>1, <1>1, <1>3 DEF TypeOK
<1>7. \A x \in Arrays : Live(x)' <=> Live(x)
      BY <1>4, <1>5 DEF Live
<1>8. \A x \in Arrays : \A c : Owns(x, c)' <=> Owns(x, c)
      BY <1>5, <1>7 DEF Owns
<1>9. /\ \A x, k : Owned(x, k)' = IF x = a /\ k = kind THEN Owned(x, k) \cup {h} ELSE Owned(x, k)
      /\ \A x, k : On(x, k)' = IF x = self.data /\ k = kind THEN On(x, k) \cup {h} ELSE On(x, k)
      /\ \A x, k : h \notin Owned(x, k) /\ h \notin On(x, k)
  <2>1. given.kind = kind /\ given.data = self.data /\ given.owner = a
        OBVIOUS
  <2> HIDE DEF given, self
  <2> QED BY <2>1, <1>3, <1>6 DEF Owned, On
<1>10. \A x, k : IsFiniteSet(Owned(x, k)) /\ IsFiniteSet(On(x, k))
                 /\ Cardinality(Owned(x, k)) \in Nat /\ Cardinality(On(x, k)) \in Nat
      BY HandleSets, HandlesAreFinite
<1>11. /\ \A x, k : Cardinality(Owned(x, k) \cup {h}) = Cardinality(Owned(x, k)) + 1
       /\ \A x, k : Cardinality(On(x, k) \cup {h}) = Cardinality(On(x, k)) + 1
      BY <1>9, <1>10, FS_AddElement
<1>12. Access(new) \in {"noaccess", "readonly", "readwrite"}
      BY DEF Access
<1>13. \A c \in Blocks : page'[c] = IF opens /\ c = self.data THEN Access(new) ELSE page[c]
      BY <1>1 DEF TypeOK
<1>14. page[self.data] # "freed"
      BY <1>1, <1>2 DEF OwnedOnce, Owns
<1>15. \A x \in Arrays : x # a /\ Live(x) /\ array[x].data # None => array[x].data # self.data
      BY OthersOwnOthers
<1>16. ok \in BOOLEAN
      BY DEF Decrypted
<1>17. Agrees(self, contents[self.data])
      BY <1>1 DEF CipherAgrees
\* What is given out is open, whatever came of opening it.
<1>18. opens => Opened(self, ok) \in {"clear", "stuck", "garbled", "lost"} /\ Agrees(new, Opened(self, ok))
  <2> HIDE DEF self
  <2>1. new.protect = self.protect /\ new.encrypted = (self.encrypted /\ ~(opens /\ ok)) /\ (opens => self.protect)
        BY DEF self
  <2>2. opens => Opened(self, ok) \in {"clear", "stuck", "garbled", "lost"}
        BY <2>1, <1>2, <1>16, <1>17, OpenedAgrees
  <2>3. opens => Agrees(new, Opened(self, ok))
        BY <2>1, <1>2, <1>16, <1>17, OpenedAgrees
  <2> QED BY <2>2, <2>3
<1>19. \A c \in Blocks : contents'[c] = IF opens /\ c = self.data THEN Opened(self, ok) ELSE contents[c]
      BY <1>1 DEF TypeOK
<1>20. opens /\ Opened(self, ok) \in {"sealed", "stuck", "garbled", "doubled"} => "cipher" \in adapters
  <2>1. contents[self.data] \in {"sealed", "stuck", "garbled", "doubled"} => "cipher" \in adapters
        BY <1>1, <1>2 DEF SealedByCipher
  <2>2. Opened(self, ok) = contents[self.data] \/ Opened(self, ok) = Deciphered(contents[self.data], ok)
        BY DEF Opened
  <2> QED BY <2>1, <2>2, CipherSeals
<1> HIDE DEF given, self
<1>a. TypeOK'
  <2>1. page' \in [Blocks -> {"freed", "noaccess", "readonly", "readwrite"}]
        BY <1>1, <1>12 DEF TypeOK
  <2>2. \A g \in Handles : handle'[g] # None => array'[handle'[g].owner] # None
    <3>1. given.owner = a
          BY DEF given
    <3>2. \A g \in Handles : handle[g] # None => handle[g].owner \in Arrays /\ Live(handle[g].owner)
          BY <1>1, FieldsOfHandles DEF TypeOK
    <3> QED BY <3>1, <3>2, <1>6, <1>7 DEF Live
  <2>3. \A x \in stray' : x \in Arrays /\ Live(x)'
        BY <1>1, <1>7 DEF TypeOK
  <2>4. contents' \in [Blocks -> Contents]
    <3>1. Opened(self, ok) \in Contents \/ ~opens
          BY <1>18 DEF Contents
    <3> QED BY <3>1, <1>1 DEF TypeOK, self
  <2> QED BY <1>1, <1>5, <1>6, <2>1, <2>2, <2>3, <2>4 DEF TypeOK, Live
<1>b. OwnedOnce'
  <2>1. \A c \in Blocks : page'[c] = "freed" <=> page[c] = "freed"
        BY <1>12, <1>13, <1>14
  <2> QED BY <2>1, <1>1, <1>8 DEF OwnedOnce
<1>c. HandlesPoint'
  <2> SUFFICES ASSUME NEW g \in Handles, handle'[g] # None
               PROVE  /\ array'[handle'[g].owner].data \in {None, handle'[g].data}
                      /\ \E x \in Arrays : Live(x)' /\ array'[x].data = handle'[g].data
      BY DEF HandlesPoint, Owns
  <2>1. CASE g = h
    <3>1. handle'[g].owner = a /\ handle'[g].data = self.data
          BY <2>1, <1>6 DEF given
    <3> QED BY <3>1, <1>5, <1>7 DEF self
  <2>2. CASE g # h
    <3>1. handle'[g] = handle[g] /\ handle[g] # None
          BY <2>2, <1>6
    <3>2. handle[g].owner \in Arrays
          BY <3>1, <1>1, FieldsOfHandles
    <3>3. array'[handle[g].owner].data = array[handle[g].owner].data
          BY <3>2, <1>5
    <3>4. PICK x \in Arrays : Owns(x, handle[g].data)
          BY <3>1, <1>1 DEF HandlesPoint
    <3>5. Live(x)' /\ array'[x].data = handle[g].data
          BY <3>4, <1>5, <1>7 DEF Owns
    <3> QED BY <3>1, <3>3, <3>5, <1>1 DEF HandlesPoint
  <2> QED BY <2>1, <2>2
<1>d. CountsMatch'
  <2> SUFFICES ASSUME NEW x \in Arrays, x \notin stray, Live(x)'
               PROVE  /\ array'[x].readers = Cardinality(Owned(x, "reader")')
                      /\ array'[x].writers = Cardinality(Owned(x, "writer")')
      BY DEF CountsMatch
  <2>1. Live(x) /\ array[x].readers = Cardinality(Owned(x, "reader"))
                /\ array[x].writers = Cardinality(Owned(x, "writer"))
        BY <1>1, <1>7 DEF CountsMatch
  <2>2. CASE x = a
    <3>1. CASE kind = "reader"
          BY <3>1, <2>1, <2>2, <1>5, <1>9, <1>11
    <3>2. CASE kind = "writer"
          BY <3>2, <2>1, <2>2, <1>5, <1>9, <1>11
    <3> QED BY <3>1, <3>2
  <2>3. CASE x # a
        BY <2>1, <2>3, <1>5, <1>9
  <2> QED BY <2>2, <2>3
<1>e. CountsCover'
  <2> SUFFICES ASSUME NEW x \in Arrays, Live(x)', array'[x].data # None, NEW d, d = array'[x].data
               PROVE  /\ array'[x].readers >= Cardinality(On(d, "reader")')
                      /\ array'[x].writers >= Cardinality(On(d, "writer")')
    <3>1. \A x \in Arrays : \A d, k : d = array'[x].data => On(array[x].data, k)' = On(d, k)'
          BY DEF On
    <3> QED BY <3>1 DEF CountsCover
  <2>1. Live(x) /\ d = array[x].data /\ array[x].readers >= Cardinality(On(d, "reader"))
                /\ array[x].writers >= Cardinality(On(d, "writer"))
        BY <1>1, <1>5, <1>7 DEF CountsCover
  <2>2. CASE x = a
    <3>1. d = self.data
          BY <2>1, <2>2 DEF self
    <3>2. CASE kind = "reader"
          BY <3>1, <3>2, <2>1, <2>2, <1>2, <1>5, <1>9, <1>10, <1>11 DEF self
    <3>3. CASE kind = "writer"
          BY <3>1, <3>3, <2>1, <2>2, <1>2, <1>5, <1>9, <1>10, <1>11 DEF self
    <3> QED BY <3>2, <3>3
  <2>3. CASE x # a
    <3>1. d # self.data
          BY <2>1, <2>3, <1>5, <1>15
    <3> QED BY <3>1, <2>1, <2>3, <1>5, <1>9
  <2> QED BY <2>2, <2>3
<1>f. CipherAgrees' /\ SealedByCipher'
  <2>1. SealedByCipher'
        BY <1>1, <1>19, <1>20 DEF SealedByCipher
  <2>2. ASSUME NEW x \in Arrays, Live(x)', array'[x].data # None
        PROVE  Agrees(array'[x], contents'[array'[x].data])
    <3>1. CASE x = a
      <4>1. array'[x] = new /\ new.data = self.data /\ self.data \in Blocks
            BY <3>1, <1>2, <1>5 DEF self
      <4>2. CASE opens
            BY <4>1, <4>2, <1>18, <1>19
      <4>3. CASE ~opens
        <5>1. contents'[self.data] = contents[self.data]
              /\ new.protect = self.protect /\ new.encrypted = self.encrypted
              BY <4>1, <4>3, <1>2, <1>19 DEF self
        <5> QED BY <4>1, <5>1, <1>17 DEF Agrees
      <4> QED BY <4>2, <4>3
    <3>2. CASE x # a
      <4>1. /\ Live(x) /\ array'[x] = array[x] /\ array[x].data \in Blocks
            /\ array[x].data # self.data
            BY <3>2, <2>2, <1>1, <1>5, <1>7, <1>15, FieldsOfArrays
      <4> QED BY <4>1, <2>2, <1>1, <1>19 DEF CipherAgrees
    <3> QED BY <3>1, <3>2
  <2> QED BY <2>1, <2>2 DEF CipherAgrees
<1>g. KeptOrStray'
  <2> SUFFICES ASSUME NEW x \in Arrays, Live(x)', array'[x].data # None
               PROVE  \/ Kept(x)'
                      \/ /\ x \in stray /\ Outlived(x)'
                         /\ \A g \in Handles : handle'[g] # None /\ handle'[g].data = array'[x].data
                              => handle'[g].owner \in stray
      BY DEF KeptOrStray
  <2>1. CASE x = a
    <3>1. array'[a] = new /\ new.data = self.data
          BY <1>5 DEF self
    <3>2. CASE opens
      <4>1. page'[self.data] = Access(new) /\ contents'[self.data] # "sealed"
            BY <3>2, <1>2, <1>13, <1>18, <1>19 DEF self
      <4>2. ~Idle(new)
        <5>1. self.readers + 1 # 0 /\ self.writers + 1 # 0
              BY <1>2
        <5>2. new.readers # 0 \/ new.writers # 0
              BY <5>1 DEF self
        <5> QED BY <5>2 DEF Idle
      <4> QED BY <4>1, <4>2, <3>1, <2>1 DEF Kept
    <3>3. CASE ~opens
      <4>1. page' = page /\ contents' = contents /\ Access(new) = Access(self) /\ ~Idle(self) /\ ~Idle(new)
        <5>1. ~Idle(new)
              BY <3>3, <1>2 DEF self, Idle
        <5> QED BY <5>1, <3>3 DEF self
      <4>2. Kept(a) => Kept(a)'
            BY <4>1, <3>1 DEF Kept, self
      <4>3. \A g \in Handles : handle'[g] # None => g = h \/ handle'[g] = handle[g]
            BY <1>6
      <4>4. given.owner = a /\ handle'[h] = given
            BY <1>6 DEF given
      <4>5. \A k : Cardinality(Owned(a, k)') \in Nat /\ Cardinality(Owned(a, k)) \in Nat
        <5>1. \A n \in Nat : n + 1 \in Nat
              OBVIOUS
        <5> QED BY <5>1, <1>9, <1>10, <1>11
      <4>6. Outlived(a) => Outlived(a)'
            BY <4>5, <3>1, <1>2, <1>5, <1>9, <1>11 DEF Outlived, self
      <4> QED BY <4>2, <4>3, <4>4, <4>6, <3>1, <2>1, <1>1 DEF KeptOrStray, self
    <3> QED BY <3>2, <3>3
  <2>2. CASE x # a
    <3>1. /\ Live(x) /\ array'[x] = array[x] /\ array[x].data \in Blocks
          /\ array[x].data # self.data
          BY <2>2, <1>1, <1>5, <1>7, <1>15, FieldsOfArrays
    <3>2. page'[array[x].data] = page[array[x].data]
          BY <3>1, <1>13
    <3>3. contents'[array[x].data] = contents[array[x].data]
          BY <3>1, <1>19
    <3>4. Kept(x) => Kept(x)'
          BY <3>1, <3>2, <3>3 DEF Kept
    <3>5. \A g \in Handles : handle'[g] # None /\ handle'[g].data = array[x].data => handle'[g] = handle[g]
      <4>1. given.data = self.data
            BY DEF given
      <4> QED BY <4>1, <3>1, <1>6
    <3>6. Outlived(x) => Outlived(x)'
          BY <3>1, <2>2, <1>9 DEF Outlived
    <3> QED BY <3>1, <3>4, <3>5, <3>6, <1>1 DEF KeptOrStray
  <2> QED BY <2>1, <2>2
<1>h. FaultHasACause'
      BY DEF FaultHasACause
<1> QED BY <1>a, <1>b, <1>c, <1>d, <1>e, <1>f, <1>g, <1>h DEF SecureInv

LEMMA ReadStep ==
    ASSUME SecureInv, NEW a \in Arrays, NEW h \in Handles, Read(a, h), UNCHANGED adapters, ~fault
    PROVE  SecureInv'
<1> DEFINE self  == array[a]
           opens == Idle(self)
           more  == self.readers + 1
<1>1. TypeOK
      BY DEF SecureInv
<1>0. PICK ok \in Decrypted :
        IF opens
        THEN /\ page'   = [page EXCEPT ![self.data] = "readonly"]
             /\ contents' = [contents EXCEPT ![self.data] = Opened(self, ok)]
             /\ array'  = [array EXCEPT ![a].encrypted = @ /\ ~ok, ![a].readers = @ + 1]
        ELSE array' = [array EXCEPT ![a].readers = @ + 1] /\ UNCHANGED <<page, contents>>
  <2>1. Decrypted # {}
        BY DEF Decrypted
  <2> QED BY <2>1 DEF Read
<1> DEFINE still == (self.encrypted /\ ~(opens /\ ok))
           new   == [self EXCEPT !.readers = more, !.encrypted = still]
<1>2. /\ Live(a) /\ self.data # None /\ handle[h] = None /\ UNCHANGED <<fault, stray>>
      /\ handle' = [handle EXCEPT ![h] = [kind |-> "reader", data |-> self.data, owner |-> a]]
      BY DEF Read
<1>3. /\ self \in Fields /\ self.data \in Blocks
      /\ self.readers \in Nat /\ self.writers \in Nat
      /\ self.protect \in BOOLEAN /\ self.encrypted \in BOOLEAN
      BY <1>1, <1>2, FieldsOfArrays
<1>4. opens \in BOOLEAN
      BY DEF Idle
<1>5. /\ new \in Fields /\ new.data = self.data /\ new.protect = self.protect
      /\ new.readers = self.readers + 1 /\ new.writers = self.writers
      /\ new.encrypted = still
  <2>1. still \in BOOLEAN /\ more \in Nat
    <3>1. more \in Nat
          BY <1>3
    <3> HIDE DEF self, opens, more
    <3> QED BY <3>1
  <2> HIDE DEF self, opens, still, more
  <2>2. /\ new \in Fields /\ new.data = self.data /\ new.protect = self.protect
        /\ new.encrypted = still
        BY <1>3, <2>1 DEF Fields
  <2> QED BY <1>3, <2>1, <2>2 DEF Fields, more
<1>6. array' = [array EXCEPT ![a] = new]
  <2>1. CASE opens
    <3>1. array' = [array EXCEPT ![a].encrypted = @ /\ ~ok, ![a].readers = @ + 1]
          BY <2>1, <1>0
    <3>2. new = [[self EXCEPT !.encrypted = @ /\ ~ok] EXCEPT !.readers = @ + 1]
          BY <2>1, <1>3 DEF Fields
    <3> QED BY <3>1, <3>2, <1>1 DEF TypeOK
  <2>2. CASE ~opens
    <3>1. array' = [array EXCEPT ![a].readers = @ + 1]
          BY <2>2, <1>0
    <3>2. new = [self EXCEPT !.readers = @ + 1]
          BY <2>2, <1>3 DEF Fields
    <3> QED BY <3>1, <3>2, <1>1 DEF TypeOK
  <2> QED BY <2>1, <2>2
<1>7. opens => Access(new) = "readonly"
      BY <1>3, <1>5 DEF Idle, Access
<1>8. /\ page' = IF opens THEN [page EXCEPT ![self.data] = Access(new)] ELSE page
      /\ contents' = IF opens THEN [contents EXCEPT ![self.data] = Opened(self, ok)] ELSE contents
      BY <1>7, <1>0
<1>9. ~opens => Access(new) = Access(self)
      BY <1>3, <1>5 DEF Idle, Access
<1>10. opens => self.protect
      BY DEF Idle
<1> HIDE DEF new
<1> QED BY <1>10, <1>1, <1>2, <1>4, <1>5, <1>6, <1>8, <1>9, GiveKeeps

LEMMA WriteStep ==
    ASSUME SecureInv, NEW a \in Arrays, NEW h \in Handles, Write(a, h), UNCHANGED adapters, ~fault
    PROVE  SecureInv'
<1> DEFINE self  == array[a]
           opens == self.protect /\ self.writers = 0
           more  == self.writers + 1
<1>1. TypeOK
      BY DEF SecureInv
<1>0. PICK ok \in Decrypted :
        IF opens
        THEN /\ page'   = [page EXCEPT ![self.data] = "readwrite"]
             /\ contents' = [contents EXCEPT ![self.data] = Opened(self, ok)]
             /\ array'  = [array EXCEPT ![a].encrypted = @ /\ ~ok, ![a].writers = @ + 1]
        ELSE array' = [array EXCEPT ![a].writers = @ + 1] /\ UNCHANGED <<page, contents>>
  <2>1. Decrypted # {}
        BY DEF Decrypted
  <2> QED BY <2>1 DEF Write
<1> DEFINE still == (self.encrypted /\ ~(opens /\ ok))
           new   == [self EXCEPT !.writers = more, !.encrypted = still]
<1>2. /\ Live(a) /\ self.data # None /\ handle[h] = None /\ UNCHANGED <<fault, stray>>
      /\ handle' = [handle EXCEPT ![h] = [kind |-> "writer", data |-> self.data, owner |-> a]]
      BY DEF Write
<1>3. /\ self \in Fields /\ self.data \in Blocks
      /\ self.readers \in Nat /\ self.writers \in Nat
      /\ self.protect \in BOOLEAN /\ self.encrypted \in BOOLEAN
      BY <1>1, <1>2, FieldsOfArrays
<1>4. opens \in BOOLEAN
      BY <1>3
<1>5. /\ new \in Fields /\ new.data = self.data /\ new.protect = self.protect
      /\ new.readers = self.readers /\ new.writers = self.writers + 1
      /\ new.encrypted = still
  <2>1. still \in BOOLEAN /\ more \in Nat
    <3>1. more \in Nat
          BY <1>3
    <3> HIDE DEF self, opens, more
    <3> QED BY <3>1
  <2> HIDE DEF self, opens, still, more
  <2>2. /\ new \in Fields /\ new.data = self.data /\ new.protect = self.protect
        /\ new.encrypted = still
        BY <1>3, <2>1 DEF Fields
  <2> QED BY <1>3, <2>1, <2>2 DEF Fields, more
<1>6. array' = [array EXCEPT ![a] = new]
  <2>1. CASE opens
    <3>1. array' = [array EXCEPT ![a].encrypted = @ /\ ~ok, ![a].writers = @ + 1]
          BY <2>1, <1>0
    <3>2. new = [[self EXCEPT !.encrypted = @ /\ ~ok] EXCEPT !.writers = @ + 1]
          BY <2>1, <1>3 DEF Fields
    <3> QED BY <3>1, <3>2, <1>1 DEF TypeOK
  <2>2. CASE ~opens
    <3>1. array' = [array EXCEPT ![a].writers = @ + 1]
          BY <2>2, <1>0
    <3>2. new = [self EXCEPT !.writers = @ + 1]
          BY <2>2, <1>3 DEF Fields
    <3> QED BY <3>1, <3>2, <1>1 DEF TypeOK
  <2> QED BY <2>1, <2>2
<1>7. Access(new) = "readwrite"
      BY <1>3, <1>5 DEF Access
<1>8. /\ page' = IF opens THEN [page EXCEPT ![self.data] = Access(new)] ELSE page
      /\ contents' = IF opens THEN [contents EXCEPT ![self.data] = Opened(self, ok)] ELSE contents
      BY <1>7, <1>0
<1>9. ~opens => ~Idle(self) /\ Access(new) = Access(self)
      BY <1>3, <1>5 DEF Idle, Access
<1>10. opens => self.protect
      BY DEF Idle
<1> HIDE DEF new
<1> QED BY <1>10, <1>1, <1>2, <1>4, <1>5, <1>6, <1>8, <1>9, GiveKeeps

\* A handle is gone, and its owner counts it no more.
LEMMA DropKeeps ==
    ASSUME SecureInv, NEW h \in Handles, handle[h] # None,
           NEW a \in Arrays, a = handle[h].owner, NEW new \in Fields,
           new.data = array[a].data, new.protect = array[a].protect,
           new.readers = IF handle[h].kind = "reader" /\ array[a].readers > 0
                         THEN array[a].readers - 1 ELSE array[a].readers,
           new.writers = IF handle[h].kind = "writer" /\ array[a].writers > 0
                         THEN array[a].writers - 1 ELSE array[a].writers,
           array' = [array EXCEPT ![a] = new], handle' = [handle EXCEPT ![h] = None],
           page' \in [Blocks -> {"freed", "noaccess", "readonly", "readwrite"}],
           \A c \in Blocks : c # new.data => page'[c] = page[c],
           \A c \in Blocks : c = new.data => page'[c] # "freed",
           contents' \in [Blocks -> Contents], SealedByCipher',
           \A c \in Blocks : c # new.data => contents'[c] = contents[c],
           new.data # None => Agrees(new, contents'[new.data]),
           new.data # None /\ Kept(a) =>
             /\ page'[new.data] = Access(new)
             /\ contents'[new.data] # IF Idle(new) THEN "stuck" ELSE "sealed",
           fault' \in BOOLEAN, fault' => adapters = {"pages", "cipher"},
           UNCHANGED <<stray, adapters>>
    PROVE  SecureInv'
<1>1. TypeOK /\ OwnedOnce /\ HandlesPoint /\ CountsMatch /\ CountsCover /\ CipherAgrees
      /\ SealedByCipher /\ KeptOrStray /\ FaultHasACause
      BY DEF SecureInv
<1> DEFINE self == array[a]
           kind == handle[h].kind
<1>2. Live(a) /\ kind \in {"reader", "writer"} /\ handle[h].data \in Blocks
      BY <1>1, FieldsOfHandles DEF TypeOK
<1>3. self.data \in Blocks \cup {None} /\ self.readers \in Nat /\ self.writers \in Nat
      BY <1>1, <1>2, FieldsOfArrays
<1>4. new # None
      BY NoneAssumption
<1>5. /\ array' \in [Arrays -> Fields \cup {None}]
      /\ \A x \in Arrays : array'[x] = IF x = a THEN new ELSE array[x]
      BY <1>1 DEF TypeOK
<1>6. /\ handle' \in [Handles -> Handle \cup {None}]
      /\ \A g \in Handles : handle'[g] # None => handle[g] # None /\ handle'[g] = handle[g]
      BY <1>1 DEF TypeOK
<1>7. \A x \in Arrays : Live(x)' <=> Live(x)
      BY <1>2, <1>4, <1>5 DEF Live
<1>8. \A x \in Arrays : \A c : Owns(x, c)' <=> Owns(x, c)
      BY <1>5, <1>7 DEF Owns
<1>9. /\ \A x, k : Owned(x, k)' = Owned(x, k) \ {h}
      /\ \A x, k : On(x, k)' = On(x, k) \ {h}
      /\ \A x, k : h \in Owned(x, k) <=> x = a /\ k = kind
      /\ \A x, k : h \in On(x, k) <=> x = handle[h].data /\ k = kind
  <2>1. \A g \in Handles : handle'[g] = IF g = h THEN None ELSE handle[g]
        BY <1>1 DEF TypeOK
  <2> HIDE DEF self
  <2> QED BY <2>1 DEF Owned, On
<1>10. \A x, k : IsFiniteSet(Owned(x, k)) /\ IsFiniteSet(On(x, k))
                 /\ Cardinality(Owned(x, k)) \in Nat /\ Cardinality(On(x, k)) \in Nat
      BY HandleSets, HandlesAreFinite
<1>11. /\ \A x, k : Cardinality(Owned(x, k)') =
            IF x = a /\ k = kind THEN Cardinality(Owned(x, k)) - 1 ELSE Cardinality(Owned(x, k))
       /\ \A x, k : Cardinality(On(x, k)') =
            IF x = handle[h].data /\ k = kind THEN Cardinality(On(x, k)) - 1 ELSE Cardinality(On(x, k))
      BY <1>9, <1>10, FS_RemoveElement
<1>12. \A x, k : Cardinality(Owned(x, k)') \in Nat /\ Cardinality(On(x, k)') \in Nat
  <2>1. \A S \in SUBSET Handles : IsFiniteSet(S \ {h}) /\ Cardinality(S \ {h}) \in Nat
        BY HandlesAreFinite
  <2> QED BY <2>1, <1>9, HandleSets
<1>13. \A x \in Arrays : x # a /\ Live(x) /\ array[x].data # None =>
         array[x].data # self.data /\ array[x].data \in Blocks
      BY <1>1, <1>2, OthersOwnOthers, FieldsOfArrays
<1>14. self.data \in {None, handle[h].data}
      BY <1>1 DEF HandlesPoint
<1> HIDE DEF self, kind
<1>a. TypeOK'
  <2>1. \A g \in Handles : handle'[g] # None => array'[handle'[g].owner] # None
    <3>1. \A g \in Handles : handle[g] # None => handle[g].owner \in Arrays /\ Live(handle[g].owner)
          BY <1>1, FieldsOfHandles DEF TypeOK
    <3> QED BY <3>1, <1>6, <1>7 DEF Live
  <2>2. \A x \in stray' : x \in Arrays /\ Live(x)'
        BY <1>1, <1>7 DEF TypeOK
  <2> QED BY <1>1, <1>5, <1>6, <2>1, <2>2 DEF TypeOK, Live
<1>b. OwnedOnce'
  <2>1. \A c \in Blocks : page'[c] = "freed" <=> page[c] = "freed"
    <3> SUFFICES ASSUME NEW c \in Blocks, c = new.data PROVE page[c] # "freed"
        OBVIOUS
    <3>1. Owns(a, c)
          BY <1>2 DEF Owns
    <3> QED BY <3>1, <1>1 DEF OwnedOnce
  <2> QED BY <2>1, <1>1, <1>8 DEF OwnedOnce
<1>c. HandlesPoint'
  <2> SUFFICES ASSUME NEW g \in Handles, handle[g] # None
               PROVE  /\ array'[handle[g].owner].data \in {None, handle[g].data}
                      /\ \E x \in Arrays : Live(x)' /\ array'[x].data = handle[g].data
      BY <1>6 DEF HandlesPoint, Owns
  <2>1. handle[g].owner \in Arrays
        BY <1>1, FieldsOfHandles
  <2>2. \A x \in Arrays : array'[x].data = array[x].data
        BY <1>5
  <2>3. PICK x \in Arrays : Owns(x, handle[g].data)
        BY <1>1 DEF HandlesPoint
  <2> QED BY <2>1, <2>2, <2>3, <1>1, <1>7 DEF HandlesPoint, Owns
<1>d. CountsMatch'
  <2> SUFFICES ASSUME NEW x \in Arrays, x \notin stray, Live(x)'
               PROVE  /\ array'[x].readers = Cardinality(Owned(x, "reader")')
                      /\ array'[x].writers = Cardinality(Owned(x, "writer")')
      BY DEF CountsMatch
  <2>1. Live(x) /\ array[x].readers = Cardinality(Owned(x, "reader"))
                /\ array[x].writers = Cardinality(Owned(x, "writer"))
        BY <1>1, <1>7 DEF CountsMatch
  <2>2. CASE x = a
    <3>1. CASE kind = "reader"
          BY <3>1, <2>1, <2>2, <1>3, <1>5, <1>11, <1>12 DEF kind, self
    <3>2. CASE kind = "writer"
          BY <3>2, <2>1, <2>2, <1>3, <1>5, <1>11, <1>12 DEF kind, self
    <3> QED BY <3>1, <3>2, <1>2
  <2>3. CASE x # a
        BY <2>1, <2>3, <1>5, <1>11
  <2> QED BY <2>2, <2>3
<1>e. CountsCover'
  <2> SUFFICES ASSUME NEW x \in Arrays, Live(x)', array'[x].data # None, NEW d, d = array'[x].data
               PROVE  /\ array'[x].readers >= Cardinality(On(d, "reader")')
                      /\ array'[x].writers >= Cardinality(On(d, "writer")')
    <3>1. \A x \in Arrays : \A d, k : d = array'[x].data => On(array[x].data, k)' = On(d, k)'
          BY DEF On
    <3> QED BY <3>1 DEF CountsCover
  <2>1. Live(x) /\ d = array[x].data /\ array[x].readers >= Cardinality(On(d, "reader"))
                /\ array[x].writers >= Cardinality(On(d, "writer"))
        BY <1>1, <1>5, <1>7 DEF CountsCover
  <2>2. CASE x = a
    <3>1. d = handle[h].data
          BY <2>1, <2>2, <1>5, <1>14 DEF self
    <3>2. CASE kind = "reader"
          BY <3>1, <3>2, <2>1, <2>2, <1>3, <1>5, <1>10, <1>11, <1>12, SMTT(30) DEF kind, self
    <3>3. CASE kind = "writer"
          BY <3>1, <3>3, <2>1, <2>2, <1>3, <1>5, <1>10, <1>11, <1>12 DEF kind, self
    <3> QED BY <3>2, <3>3, <1>2
  <2>3. CASE x # a
    <3>1. array'[x] = array[x] /\ array[x].readers \in Nat /\ array[x].writers \in Nat
          BY <2>1, <2>3, <1>1, <1>5, FieldsOfArrays
    <3> QED BY <3>1, <2>1, <1>10, <1>11
  <2> QED BY <2>2, <2>3
<1>f. CipherAgrees'
  <2>1. ASSUME NEW x \in Arrays, Live(x)', array'[x].data # None
        PROVE  Agrees(array'[x], contents'[array'[x].data])
    <3>1. CASE x = a
          BY <3>1, <2>1, <1>5
    <3>2. CASE x # a
      <4>1. /\ Live(x) /\ array'[x] = array[x] /\ array[x].data \in Blocks /\ array[x].data # new.data
            BY <3>2, <2>1, <1>5, <1>7, <1>13 DEF self
      <4>2. contents'[array[x].data] = contents[array[x].data]
            BY <4>1
      <4> QED BY <4>1, <4>2, <2>1, <1>1 DEF CipherAgrees
    <3> QED BY <3>1, <3>2
  <2> QED BY <2>1 DEF CipherAgrees
<1>g. KeptOrStray'
  <2> SUFFICES ASSUME NEW x \in Arrays, Live(x)', array'[x].data # None
               PROVE  \/ Kept(x)'
                      \/ /\ x \in stray /\ Outlived(x)'
                         /\ \A g \in Handles : handle'[g] # None /\ handle'[g].data = array'[x].data
                              => handle'[g].owner \in stray
      BY DEF KeptOrStray
  <2>1. Live(x) /\ array'[x].data = array[x].data
        BY <1>5, <1>7
  <2>2. Kept(x) => Kept(x)'
    <3>1. CASE x = a
          BY <3>1, <2>1, <1>5 DEF Kept
    <3>2. CASE x # a
      <4>1. /\ array'[x] = array[x] /\ array[x].data \in Blocks /\ array[x].data # new.data
            BY <3>2, <2>1, <1>5, <1>13 DEF self
      <4>2. page'[array[x].data] = page[array[x].data]
            /\ contents'[array[x].data] = contents[array[x].data]
            BY <4>1
      <4> QED BY <4>1, <4>2 DEF Kept
    <3> QED BY <3>1, <3>2
  <2>3. Outlived(x) => Outlived(x)'
    <3>1. array[x].readers \in Nat /\ array[x].writers \in Nat
          BY <2>1, <1>1, FieldsOfArrays
    <3>2. CASE x = a /\ kind = "reader"
          BY <3>1, <3>2, <1>5, <1>10, <1>11, <1>12 DEF Outlived, kind
    <3>3. CASE x = a /\ kind = "writer"
          BY <3>1, <3>3, <1>5, <1>10, <1>11, <1>12 DEF Outlived, kind
    <3>4. CASE x # a
          BY <3>4, <1>5, <1>11 DEF Outlived
    <3> QED BY <3>2, <3>3, <3>4, <1>2
  <2> QED BY <2>1, <2>2, <2>3, <1>1, <1>6 DEF KeptOrStray
<1>h. FaultHasACause'
      BY DEF FaultHasACause
<1> QED BY <1>a, <1>b, <1>c, <1>d, <1>e, <1>f, <1>g, <1>h DEF SecureInv

\* The last handle of an array that closes it finds the memory as it was opened.
LEMMA LastFindsItOpen ==
    ASSUME SecureInv, NEW h \in Handles, handle[h] # None,
           NEW a \in Arrays, a = handle[h].owner, array[a].data # None,
           IF handle[h].kind = "reader" THEN array[a].readers <= 1 /\ array[a].writers = 0
                                        ELSE array[a].readers = 0 /\ array[a].writers <= 1
    PROVE  contents[array[a].data] # "sealed"
<1>1. TypeOK /\ KeptOrStray /\ CountsCover /\ HandlesPoint
      BY DEF SecureInv
<1>2. Live(a) /\ handle[h].kind \in {"reader", "writer"}
      BY <1>1, FieldsOfHandles DEF TypeOK
<1>3. array[a].readers \in Nat /\ array[a].writers \in Nat
      BY <1>1, <1>2, FieldsOfArrays
<1>4. /\ \A k : IsFiniteSet(Owned(a, k)) /\ Cardinality(Owned(a, k)) \in Nat
      /\ \A k : IsFiniteSet(On(array[a].data, k)) /\ Cardinality(On(array[a].data, k)) \in Nat
      BY HandleSets, HandlesAreFinite
<1>5. h \in Owned(a, handle[h].kind) /\ h \in On(array[a].data, handle[h].kind)
      BY <1>1 DEF Owned, On, HandlesPoint
<1>6. Cardinality(Owned(a, handle[h].kind)) # 0 /\ Cardinality(On(array[a].data, handle[h].kind)) # 0
      BY <1>4, <1>5, FS_EmptySet
<1>7. ~Outlived(a)
      BY <1>2, <1>3, <1>4, <1>6 DEF Outlived
<1>8. Kept(a)
      BY <1>1, <1>2, <1>7 DEF KeptOrStray
<1>9. ~Idle(array[a])
  <2>1. CASE handle[h].kind = "reader"
        BY <2>1, <1>1, <1>2, <1>3, <1>4, <1>6 DEF CountsCover, Idle
  <2>2. CASE handle[h].kind = "writer"
        BY <2>2, <1>1, <1>2, <1>3, <1>4, <1>6 DEF CountsCover, Idle
  <2> QED BY <2>1, <2>2, <1>2
<1> QED BY <1>8, <1>9 DEF Kept

\* The owner closes the memory after its last handle.
LEMMA CloseKeeps ==
    ASSUME SecureInv, NEW h \in Handles, handle[h] # None,
           NEW a \in Arrays, a = handle[h].owner, NEW fields \in Fields,
           fields.data = array[a].data, fields.protect = array[a].protect,
           fields.readers = IF handle[h].kind = "reader" /\ array[a].readers > 0
                            THEN array[a].readers - 1 ELSE array[a].readers,
           fields.writers = IF handle[h].kind = "writer" /\ array[a].writers > 0
                            THEN array[a].writers - 1 ELSE array[a].writers,
           Idle(fields), Close(a, fields), handle' = [handle EXCEPT ![h] = None],
           UNCHANGED <<stray, adapters>>
    PROVE  SecureInv'
<1>1. TypeOK /\ CipherAgrees /\ SealedByCipher
      BY DEF SecureInv
<1>2. PICK done \in Encrypted :
        /\ array'  = [array EXCEPT ![a] = [fields EXCEPT !.encrypted = done]]
        /\ fault'  = EncryptFaults(fields.data)
        /\ page'   = [b \in Blocks |-> IF b = fields.data THEN "noaccess" ELSE page[b]]
        /\ contents' = [b \in Blocks |->
             IF b = fields.data THEN Enciphered(contents[b], done) ELSE contents[b]]
      BY DEF Close
<1> DEFINE new == [fields EXCEPT !.encrypted = done]
<1>3. done \in BOOLEAN
      BY DEF Encrypted
<1>4. /\ fields.protect /\ fields.readers = 0 /\ fields.writers = 0
      /\ fields.data \in Blocks \cup {None}
      BY DEF Idle, Fields
<1>5. /\ new \in Fields /\ new.data = fields.data /\ new.protect = fields.protect
      /\ new.readers = fields.readers /\ new.writers = fields.writers /\ new.encrypted = done
      BY <1>3 DEF Fields
<1>6. Live(a) /\ handle[h].kind \in {"reader", "writer"}
      BY <1>1, FieldsOfHandles DEF TypeOK
<1>7. array[a].readers \in Nat /\ array[a].writers \in Nat
      BY <1>1, <1>6, FieldsOfArrays
<1>8. fields.data # None => contents[fields.data] # "sealed"
  <2>1. IF handle[h].kind = "reader" THEN array[a].readers <= 1 /\ array[a].writers = 0
                                     ELSE array[a].readers = 0 /\ array[a].writers <= 1
        BY <1>4, <1>6, <1>7
  <2> QED BY <2>1, LastFindsItOpen
<1>9. fields.data # None => contents[fields.data] \in {"clear", "stuck", "garbled", "lost"}
  <2>1. fields.data # None => Agrees(array[a], contents[array[a].data])
        BY <1>1, <1>6 DEF CipherAgrees
  <2> QED BY <2>1, <1>8 DEF Agrees
<1>10. /\ page' \in [Blocks -> {"freed", "noaccess", "readonly", "readwrite"}]
       /\ \A c \in Blocks : c # fields.data => page'[c] = page[c]
       /\ \A c \in Blocks : c = fields.data => page'[c] # "freed"
       /\ fields.data # None => page'[fields.data] = "noaccess"
      BY <1>1, <1>2, <1>4 DEF TypeOK
<1> HIDE DEF new
<1>11. new.data # None => /\ contents'[new.data] \in Contents /\ contents'[new.data] # "stuck"
                          /\ Agrees(new, contents'[new.data])
  <2> SUFFICES ASSUME fields.data # None
               PROVE  /\ contents'[fields.data] \in Contents /\ contents'[fields.data] # "stuck"
                      /\ Agrees(new, contents'[fields.data])
      BY <1>5
  <2>1. contents'[fields.data] = Enciphered(contents[fields.data], done)
        BY <1>2, <1>4
  <2> QED BY <2>1, <1>3, <1>4, <1>5, <1>9, EncipherAgrees
<1>12. /\ contents' \in [Blocks -> Contents] /\ SealedByCipher'
       /\ \A c \in Blocks : c # new.data => contents'[c] = contents[c]
  <2>1. \A c \in Blocks : c # new.data => contents'[c] = contents[c]
        BY <1>2, <1>5
  <2>2. \A c \in Blocks : contents'[c] \in Contents
        BY <2>1, <1>1, <1>4, <1>5, <1>11, NoneAssumption DEF TypeOK
  <2>3. ASSUME NEW c \in Blocks, contents'[c] \in {"sealed", "stuck", "garbled", "doubled"}
        PROVE  "cipher" \in adapters
    <3>1. contents[c] \in {"sealed", "stuck", "garbled", "doubled"} => "cipher" \in adapters
          BY <1>1 DEF SealedByCipher
    <3>2. contents'[c] = contents[c] \/ contents'[c] = Enciphered(contents[c], done)
          BY <1>2
    <3> QED BY <3>1, <3>2, <2>3, CipherSeals
  <2> QED BY <2>1, <2>2, <2>3, <1>2 DEF SealedByCipher
<1>13. new.data # None /\ Kept(a) =>
         /\ page'[new.data] = Access(new)
         /\ contents'[new.data] # IF Idle(new) THEN "stuck" ELSE "sealed"
  <2>1. Access(new) = "noaccess" /\ Idle(new)
        BY <1>4, <1>5 DEF Access, Idle
  <2> QED BY <2>1, <1>5, <1>10, <1>11
<1>14. fault' \in BOOLEAN /\ (fault' => adapters = {"pages", "cipher"})
      BY <1>1, <1>2 DEF EncryptFaults, CanWrite, TypeOK
<1>15. array' = [array EXCEPT ![a] = new]
      BY <1>2 DEF new
<1>16. new.data # None => Agrees(new, contents'[new.data])
      BY <1>11
<1>17. /\ new.data = array[a].data /\ new.protect = array[a].protect
       /\ new.readers = IF handle[h].kind = "reader" /\ array[a].readers > 0
                        THEN array[a].readers - 1 ELSE array[a].readers
       /\ new.writers = IF handle[h].kind = "writer" /\ array[a].writers > 0
                        THEN array[a].writers - 1 ELSE array[a].writers
      BY <1>5
<1>18. /\ \A c \in Blocks : c # new.data => page'[c] = page[c]
       /\ \A c \in Blocks : c = new.data => page'[c] # "freed"
      BY <1>5, <1>10
<1> QED BY <1>5, <1>10, <1>12, <1>13, <1>14, <1>15, <1>16, <1>17, <1>18, DropKeeps, ZenonT(60)

\* The owner leaves the memory to its readers after its last writer.
LEMMA DowngradeKeeps ==
    ASSUME SecureInv, NEW h \in Handles, handle[h] # None, handle[h].kind = "writer",
           NEW a \in Arrays, a = handle[h].owner, NEW fields \in Fields,
           fields.data = array[a].data, fields.protect = array[a].protect,
           fields.readers = array[a].readers, fields.encrypted = array[a].encrypted,
           fields.writers = IF array[a].writers > 0 THEN array[a].writers - 1 ELSE array[a].writers,
           ~Idle(fields), fields.protect, fields.writers = 0,
           Downgrade(a, fields), handle' = [handle EXCEPT ![h] = None],
           UNCHANGED <<stray, adapters>>, ~fault
    PROVE  SecureInv'
<1>1. TypeOK /\ CipherAgrees /\ SealedByCipher /\ OwnedOnce
      BY DEF SecureInv
<1>2. PICK ok \in Decrypted :
        /\ array' = [array EXCEPT ![a] = [fields EXCEPT !.encrypted = @ /\ ~ok]]
        /\ page'  = [b \in Blocks |-> IF b = fields.data THEN "readonly" ELSE page[b]]
        /\ contents' = [b \in Blocks |-> IF b = fields.data THEN Opened(fields, ok) ELSE contents[b]]
        /\ UNCHANGED fault
      BY DEF Downgrade
<1> DEFINE still == (fields.encrypted /\ ~ok)
           new   == [fields EXCEPT !.encrypted = still]
<1>3. /\ fields.data \in Blocks \cup {None} /\ fields.encrypted \in BOOLEAN
      /\ fields.readers \in Nat /\ fields.readers # 0
      BY DEF Fields, Idle
<1>4. ok \in BOOLEAN /\ still \in BOOLEAN
      BY DEF Decrypted
<1>5. /\ new \in Fields /\ new.data = fields.data /\ new.protect = fields.protect
      /\ new.readers = fields.readers /\ new.writers = fields.writers /\ new.encrypted = still
  <2> HIDE DEF still
  <2> QED BY <1>4 DEF Fields
<1>6. array' = [array EXCEPT ![a] = new]
  <2>1. new = [fields EXCEPT !.encrypted = @ /\ ~ok]
        BY DEF Fields
  <2> QED BY <2>1, <1>2
<1> HIDE DEF new
<1>7. Live(a)
      BY <1>1 DEF TypeOK
<1>8. new.data # None => /\ Opened(fields, ok) \in {"clear", "stuck", "garbled", "lost"}
                         /\ Agrees(new, Opened(fields, ok))
  <2> SUFFICES ASSUME new.data # None
               PROVE  /\ Opened(fields, ok) \in {"clear", "stuck", "garbled", "lost"}
                      /\ Agrees(new, Opened(fields, ok))
      OBVIOUS
  <2>1. Agrees(fields, contents[fields.data])
        BY <1>1, <1>5, <1>7 DEF CipherAgrees, Agrees
  <2> QED BY <2>1, <1>3, <1>4, <1>5, OpenedAgrees
<1>9. /\ \A c \in Blocks : contents'[c] = IF c = new.data THEN Opened(fields, ok) ELSE contents[c]
      /\ \A c \in Blocks : page'[c] = IF c = new.data THEN "readonly" ELSE page[c]
  <2>1. new.data = fields.data
        BY <1>5
  <2> QED BY <2>1, <1>2
<1>10. /\ page' \in [Blocks -> {"freed", "noaccess", "readonly", "readwrite"}]
       /\ \A c \in Blocks : c # new.data => page'[c] = page[c]
       /\ \A c \in Blocks : c = new.data => page'[c] # "freed"
      BY <1>1, <1>2, <1>9 DEF TypeOK
<1>11. /\ contents' \in [Blocks -> Contents]
       /\ \A c \in Blocks : c # new.data => contents'[c] = contents[c]
  <2>1. \A c \in Blocks : contents'[c] \in Contents
        BY <1>1, <1>8, <1>9, NoneAssumption DEF TypeOK, Contents
  <2> QED BY <2>1, <1>2, <1>9
<1>12. SealedByCipher'
  <2> SUFFICES ASSUME NEW c \in Blocks, contents'[c] \in {"sealed", "stuck", "garbled", "doubled"}
               PROVE  "cipher" \in adapters
      BY DEF SealedByCipher
  <2>1. contents[c] \in {"sealed", "stuck", "garbled", "doubled"} => "cipher" \in adapters
        BY <1>1 DEF SealedByCipher
  <2>2. contents'[c] = contents[c] \/ contents'[c] = Deciphered(contents[c], ok)
        BY <1>5, <1>9 DEF Opened
  <2> QED BY <2>1, <2>2, CipherSeals
<1>13. new.data # None =>
         /\ Agrees(new, contents'[new.data]) /\ page'[new.data] = Access(new)
         /\ contents'[new.data] # IF Idle(new) THEN "stuck" ELSE "sealed"
  <2>1. Access(new) = "readonly" /\ ~Idle(new)
        BY <1>3, <1>5 DEF Access, Idle
  <2>2. new.data # None => page'[new.data] = "readonly" /\ contents'[new.data] = Opened(fields, ok)
        BY <1>3, <1>5, <1>9
  <2> QED BY <2>1, <2>2, <1>8
<1>14. /\ new.data = array[a].data /\ new.protect = array[a].protect
       /\ new.readers = IF handle[h].kind = "reader" /\ array[a].readers > 0
                        THEN array[a].readers - 1 ELSE array[a].readers
       /\ new.writers = IF handle[h].kind = "writer" /\ array[a].writers > 0
                        THEN array[a].writers - 1 ELSE array[a].writers
      BY <1>5
<1>15. fault' \in BOOLEAN /\ ~fault'
      BY <1>1, <1>2 DEF TypeOK
<1> QED BY <1>5, <1>6, <1>10, <1>11, <1>12, <1>13, <1>14, <1>15, DropKeeps, ZenonT(60)

\* The handle leaves other handles of its kind, or none that count.
LEMMA LeaveKeeps ==
    ASSUME SecureInv, NEW h \in Handles, handle[h] # None,
           NEW a \in Arrays, a = handle[h].owner, NEW fields \in Fields,
           fields.data = array[a].data, fields.protect = array[a].protect,
           fields.encrypted = array[a].encrypted,
           fields.readers = IF handle[h].kind = "reader" /\ array[a].readers > 0
                            THEN array[a].readers - 1 ELSE array[a].readers,
           fields.writers = IF handle[h].kind = "writer" /\ array[a].writers > 0
                            THEN array[a].writers - 1 ELSE array[a].writers,
           ~Idle(fields), handle[h].kind = "writer" => ~(fields.protect /\ fields.writers = 0),
           array' = [array EXCEPT ![a] = fields], handle' = [handle EXCEPT ![h] = None],
           UNCHANGED <<page, contents, fault, stray, adapters>>, ~fault
    PROVE  SecureInv'
<1>1. TypeOK /\ CipherAgrees /\ SealedByCipher /\ OwnedOnce
      BY DEF SecureInv
<1>2. Live(a) /\ handle[h].kind \in {"reader", "writer"}
      BY <1>1, FieldsOfHandles DEF TypeOK
<1>3. array[a].readers \in Nat /\ array[a].writers \in Nat /\ array[a].protect \in BOOLEAN
      BY <1>1, <1>2, FieldsOfArrays
<1>4. Access(fields) = Access(array[a]) /\ ~Idle(array[a])
  <2>1. CASE handle[h].kind = "reader"
        BY <2>1, <1>3 DEF Access, Idle
  <2>2. CASE handle[h].kind = "writer"
        BY <2>2, <1>3 DEF Access, Idle
  <2> QED BY <2>1, <2>2, <1>2
<1>5. fields.data # None /\ Kept(a) =>
        /\ page'[fields.data] = Access(fields)
        /\ contents'[fields.data] # IF Idle(fields) THEN "stuck" ELSE "sealed"
      BY <1>4 DEF Kept
<1>6. fields.data # None => Agrees(fields, contents'[fields.data])
      BY <1>1, <1>2 DEF CipherAgrees, Agrees
<1>7. /\ page' \in [Blocks -> {"freed", "noaccess", "readonly", "readwrite"}]
      /\ \A c \in Blocks : c # fields.data => page'[c] = page[c]
      /\ \A c \in Blocks : c = fields.data => page'[c] # "freed"
      BY <1>1, <1>2 DEF TypeOK, OwnedOnce, Owns
<1>8. /\ contents' \in [Blocks -> Contents] /\ SealedByCipher'
      /\ \A c \in Blocks : c # fields.data => contents'[c] = contents[c]
      /\ fault' \in BOOLEAN /\ ~fault'
      BY <1>1 DEF TypeOK, SealedByCipher
<1> QED BY <1>5, <1>6, <1>7, <1>8, DropKeeps, ZenonT(60)

LEMMA DropStep ==
    ASSUME SecureInv, NEW h \in Handles, Drop(h), UNCHANGED adapters, ~fault
    PROVE  SecureInv'
<1> PICK a : a = handle[h].owner
    OBVIOUS
<1> DEFINE self == array[a]
           less == [self EXCEPT !.readers = IF @ > 0 THEN @ - 1 ELSE 0]
           then == [self EXCEPT !.writers = IF @ > 0 THEN @ - 1 ELSE 0]
<1>1. TypeOK
      BY DEF SecureInv
<1>2. /\ handle[h] # None /\ handle' = [handle EXCEPT ![h] = None] /\ UNCHANGED stray
      BY DEF Drop
<1>3. a \in Arrays /\ Live(a) /\ handle[h].kind \in {"reader", "writer"}
      BY <1>1, <1>2, FieldsOfHandles DEF TypeOK
<1>4. /\ self \in Fields /\ self.readers \in Nat /\ self.writers \in Nat
      BY <1>1, <1>3, FieldsOfArrays
<1>5. CASE handle[h].kind = "reader"
  <2>1. /\ less \in Fields /\ less.data = self.data /\ less.protect = self.protect
        /\ less.readers = (IF self.readers > 0 THEN self.readers - 1 ELSE self.readers)
        /\ less.writers = self.writers /\ less.encrypted = self.encrypted
    <3> DEFINE n == IF self.readers > 0 THEN self.readers - 1 ELSE 0
    <3>1. n \in Nat /\ n = IF self.readers > 0 THEN self.readers - 1 ELSE self.readers
          BY <1>4
    <3>2. less = [self EXCEPT !.readers = n]
          OBVIOUS
    <3> HIDE DEF n, less, self
    <3> QED BY <3>1, <3>2, <1>4 DEF Fields
  <2>2. IF Idle(less) THEN Close(a, less)
        ELSE array' = [array EXCEPT ![a] = less] /\ UNCHANGED <<page, contents, fault>>
        BY <1>5 DEF Drop, UnlockReader
  <2> HIDE DEF less
  <2>3. CASE Idle(less)
        BY <2>1, <2>2, <2>3, <1>2, <1>3, <1>5, CloseKeeps
  <2>4. CASE ~Idle(less)
        BY <2>1, <2>2, <2>4, <1>2, <1>3, <1>5, LeaveKeeps
  <2> QED BY <2>3, <2>4
<1>6. CASE handle[h].kind = "writer"
  <2>1. /\ then \in Fields /\ then.data = self.data /\ then.protect = self.protect
        /\ then.writers = (IF self.writers > 0 THEN self.writers - 1 ELSE self.writers)
        /\ then.readers = self.readers /\ then.encrypted = self.encrypted
    <3> DEFINE n == IF self.writers > 0 THEN self.writers - 1 ELSE 0
    <3>1. n \in Nat /\ n = IF self.writers > 0 THEN self.writers - 1 ELSE self.writers
          BY <1>4
    <3>2. then = [self EXCEPT !.writers = n]
          OBVIOUS
    <3> HIDE DEF n, then, self
    <3> QED BY <3>1, <3>2, <1>4 DEF Fields
  <2>2. IF Idle(then) THEN Close(a, then)
        ELSE IF then.protect /\ then.writers = 0 THEN Downgrade(a, then)
        ELSE array' = [array EXCEPT ![a] = then] /\ UNCHANGED <<page, contents, fault>>
        BY <1>6 DEF Drop, UnlockWriter
  <2> HIDE DEF then
  <2>3. CASE Idle(then)
        BY <2>1, <2>2, <2>3, <1>2, <1>3, <1>6, CloseKeeps
  <2>4. CASE ~Idle(then) /\ then.protect /\ then.writers = 0
        BY <2>1, <2>2, <2>4, <1>2, <1>3, <1>6, DowngradeKeeps
  <2>5. CASE ~Idle(then) /\ ~(then.protect /\ then.writers = 0)
        BY <2>1, <2>2, <2>5, <1>2, <1>3, <1>6, LeaveKeeps
  <2> QED BY <2>3, <2>4, <2>5
<1> QED BY <1>3, <1>5, <1>6

-----------------------------------------------------------------------------
LEMMA SecureNext == SecureInv /\ [Next]_vars => SecureInv'
<1> SUFFICES ASSUME SecureInv, [Next]_vars PROVE SecureInv'
    OBVIOUS
<1>1. CASE Next
  <2>1. ~fault /\ UNCHANGED adapters /\ Step
        BY <1>1 DEF Next
  <2>2. ASSUME NEW a \in Arrays, Default(a) PROVE SecureInv'
        BY <2>1, <2>2, DefaultStep
  <2>3. ASSUME NEW a \in Arrays, Destroy(a) PROVE SecureInv'
        BY <2>1, <2>3, DestroyStep
  <2>4. ASSUME NEW a \in Arrays, NEW protect \in BOOLEAN, Construct(a, protect) PROVE SecureInv'
        BY <2>1, <2>4, ConstructStep
  <2>5. ASSUME NEW a \in Arrays, NEW other \in Arrays, MoveConstruct(a, other) PROVE SecureInv'
        BY <2>1, <2>5, MoveConstructStep
  <2>6. ASSUME NEW a \in Arrays, NEW other \in Arrays, MoveAssign(a, other) PROVE SecureInv'
        BY <2>1, <2>6, MoveAssignStep
  <2>7. ASSUME NEW a \in Arrays, NEW other \in Arrays, CopyConstruct(a, other) PROVE SecureInv'
        BY <2>1, <2>7, CopyConstructStep
  <2>8. ASSUME NEW a \in Arrays, NEW other \in Arrays, CopyAssign(a, other) PROVE SecureInv'
        BY <2>1, <2>8, CopyAssignStep
  <2>9. ASSUME NEW a \in Arrays, NEW h \in Handles, Read(a, h) PROVE SecureInv'
        BY <2>1, <2>9, ReadStep
  <2>10. ASSUME NEW a \in Arrays, NEW h \in Handles, Write(a, h) PROVE SecureInv'
        BY <2>1, <2>10, WriteStep
  <2>11. ASSUME NEW h \in Handles, Drop(h) PROVE SecureInv'
        BY <2>1, <2>11, DropStep
  <2> QED BY <2>1, <2>2, <2>3, <2>4, <2>5, <2>6, <2>7, <2>8, <2>9, <2>10, <2>11 DEF Step
<1>2. CASE UNCHANGED vars
  <2>1. UNCHANGED <<array, handle, page, contents, adapters, fault, stray>>
        BY <1>2 DEF vars
  <2>2. /\ TypeOK' /\ OwnedOnce' /\ HandlesPoint' /\ CipherAgrees' /\ SealedByCipher'
        /\ FaultHasACause'
        BY <2>1 DEF SecureInv, TypeOK, OwnedOnce, HandlesPoint, CipherAgrees, SealedByCipher,
                    FaultHasACause, SelfCopied, Owns, Live
  <2>3. CountsMatch' /\ CountsCover'
        BY <2>1 DEF SecureInv, CountsMatch, CountsCover, Live, Owned, On
  <2>4. KeptOrStray'
        BY <2>1 DEF SecureInv, KeptOrStray, Kept, Outlived, Live, Owned
  <2> QED BY <2>2, <2>3, <2>4 DEF SecureInv
<1> QED BY <1>1, <1>2

\* Memory has one owner, counts are handles, and page access and encryption are
\* what the counts and the flag say: the invariant of every build, whatever the
\* program copies (an array onto itself included), moves, reads, writes and
\* destroys, and whichever encryption or decryption fails (SecureByteArray.h).
THEOREM SecureInvariant == Spec => []SecureInv
<1>1. Init => SecureInv
      BY SecureInit
<1>2. SecureInv /\ [Next]_vars => SecureInv'
      BY SecureNext
<1> QED BY <1>1, <1>2, PTL DEF Spec

\* Protected memory is open only while a handle of it is alive, encrypted whenever
\* the array says so, and plain otherwise but for what a failed decryption or an
\* assignment to itself has spoilt.
THEOREM MemoryIsClosed == Spec => []OpenOnlyWhileHeld
<1>1. SecureInv => OpenOnlyWhileHeld
  <2> SUFFICES ASSUME SecureInv, NEW a \in Arrays, Live(a), array[a].data # None, array[a].protect,
                      a \notin stray
               PROVE  /\ page[array[a].data] # "noaccess" =>
                           \E h \in Handles : handle[h] # None /\ handle[h].data = array[a].data
                      /\ array[a].encrypted => contents[array[a].data] # "clear"
                      /\ ~array[a].encrypted => contents[array[a].data] \in {"clear", "garbled", "lost"}
      BY DEF OpenOnlyWhileHeld
  <2>1. /\ array[a].encrypted => contents[array[a].data] # "clear"
        /\ ~array[a].encrypted => contents[array[a].data] \in {"clear", "garbled", "lost"}
        BY DEF SecureInv, CipherAgrees, Agrees
  <2>2. ASSUME page[array[a].data] # "noaccess"
        PROVE  \E h \in Handles : handle[h] # None /\ handle[h].data = array[a].data
    <3>1. Kept(a)
          BY DEF SecureInv, KeptOrStray
    <3>2. array[a].readers # 0 \/ array[a].writers # 0
      <4>1. array[a].readers \in Nat /\ array[a].writers \in Nat
            BY FieldsOfArrays DEF SecureInv
      <4> QED BY <4>1, <3>1, <2>2 DEF Kept, Access
    <3>3. Owned(a, "reader") # {} \/ Owned(a, "writer") # {}
          BY <3>2, FS_EmptySet DEF SecureInv, CountsMatch
    <3>4. PICK h \in Handles : handle[h] # None /\ handle[h].owner = a
          BY <3>3 DEF Owned
    <3> QED BY <3>4 DEF SecureInv, HandlesPoint
  <2> QED BY <2>1, <2>2
<1> QED BY <1>1, SecureInvariant, PTL

\* A live handle can use its memory, which is allocated, open for it and decrypted
\* unless a decryption of it failed or its array was assigned to itself; and while
\* no array is stray the class touches closed memory in the two cases named there.
THEOREM HoldersAreServed == Spec => []HoldersCanUse
<1>1. SecureInv => HoldersCanUse
  <2> SUFFICES ASSUME SecureInv, NEW h \in Handles, handle[h] # None, handle[h].owner \notin stray
               PROVE  LET b == handle[h].data IN
                      /\ page[b] # "freed" /\ contents[b] \in {"clear", "stuck", "garbled", "lost"}
                      /\ IF handle[h].kind = "writer" THEN page[b] = "readwrite" ELSE page[b] # "noaccess"
                      /\ contents[b] \in {"stuck", "garbled"} => "cipher" \in adapters
      BY DEF HoldersCanUse, SecureInv
  <2> DEFINE b == handle[h].data
  <2>1. b \in Blocks /\ handle[h].kind \in {"reader", "writer"}
        BY FieldsOfHandles DEF SecureInv
  <2>2. PICK a \in Arrays : Live(a) /\ array[a].data = b
        BY DEF SecureInv, HandlesPoint, Owns
  <2>3. Kept(a)
        BY <2>1, <2>2, NoneAssumption DEF SecureInv, KeptOrStray
  <2>4. array[a].readers \in Nat /\ array[a].writers \in Nat /\ array[a].protect \in BOOLEAN
        BY <2>2, FieldsOfArrays DEF SecureInv
  <2>5. IF handle[h].kind = "writer" THEN array[a].writers > 0 ELSE array[a].readers > 0
    <3>1. h \in On(b, handle[h].kind)
          BY DEF On
    <3>2. \A k : IsFiniteSet(On(b, k)) /\ Cardinality(On(b, k)) \in Nat
          BY HandleSets, HandlesAreFinite
    <3>3. Cardinality(On(b, handle[h].kind)) # 0
          BY <3>1, <3>2, FS_EmptySet
    <3>4. array[a].readers >= Cardinality(On(b, "reader")) /\ array[a].writers >= Cardinality(On(b, "writer"))
          BY <2>1, <2>2, NoneAssumption DEF SecureInv, CountsCover
    <3> QED BY <3>2, <3>3, <3>4, <2>1, <2>4
  <2>6. page[b] = Access(array[a]) /\ contents[b] # "sealed"
        BY <2>2, <2>3, <2>4, <2>5 DEF Kept, Idle
  <2>7. Agrees(array[a], contents[b])
        BY <2>1, <2>2, NoneAssumption DEF SecureInv, CipherAgrees
  <2>8. contents[b] \in {"stuck", "garbled"} => "cipher" \in adapters
        BY <2>1 DEF SecureInv, SealedByCipher
  <2> HIDE DEF b
  <2>9. contents[b] \in {"clear", "stuck", "garbled", "lost"}
        BY <2>6, <2>7 DEF Agrees
  <2>10. page[b] # "freed" /\ IF handle[h].kind = "writer" THEN page[b] = "readwrite" ELSE page[b] # "noaccess"
        BY <2>4, <2>5, <2>6 DEF Access
  <2> QED BY <2>8, <2>9, <2>10 DEF b
<1> QED BY <1>1, SecureInvariant, PTL
=============================================================================
