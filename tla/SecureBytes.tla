---------------------------- MODULE SecureBytes ----------------------------
(***************************************************************************)
(* SecureByteArray: memory for secrets that is closed (no page access,     *)
(* contents encrypted) except while a SecureByteReader or SecureByteWriter *)
(* of it is alive (include/Security/SecureByteArray.h).  An array is an    *)
(* object of the program, with its own counts of readers and writers; a    *)
(* handle remembers its owner and the memory it was given.                 *)
(*                                                                         *)
(* The program constructs, copies, moves, reads, writes and destroys       *)
(* arrays in any order, on one thread, with two rules: it frees no memory  *)
(* that a handle still points to (the rule the destructor asks for), and   *)
(* it uses an array it has moved from only to assign to it, to copy it or  *)
(* to destroy it.  It may move an array while a handle is alive, and assign *)
(* an array to itself.  Encryption and decryption may fail: nothing tells  *)
(* a holder that the memory it was given is still encrypted.               *)
(***************************************************************************)
EXTENDS Naturals, FiniteSets

CONSTANTS
    Arrays,        \* the objects
    Handles,       \* the reader and writer objects
    Blocks,        \* the allocations
    None,          \* a null pointer, an object that does not exist
    Adapters,      \* the builds: sets of "pages" (page access) and "cipher"
    MaxCount       \* bound: readers or writers of one array

VARIABLES
    array,         \* the fields of each array, or None
    handle,        \* the fields of each handle, or None
    page,          \* each block's page access, or "freed"
    contents,      \* what encryption has made of each block's contents
    adapters,      \* what the secure-memory macros of this build do
    fault,         \* the class touched memory it had no access to
    stray          \* arrays whose counts are not those of their handles
vars == <<array, handle, page, contents, adapters, fault, stray>>

\* Plain; encrypted once; still encrypted although it was to be opened (its
\* decryption failed); encrypted again on top of that, so that no decryption the
\* class will make brings it back; encrypted twice for no such reason; overwritten
\* with what was never written.  A copy of stuck contents is stuck.
Contents == {"clear", "sealed", "stuck", "garbled", "doubled", "lost"}

Fields == [data : Blocks \cup {None}, size : {0, 1}, readers : Nat, writers : Nat,
           protect : BOOLEAN, encrypted : BOOLEAN]
Empty  == [data |-> None, size |-> 0, readers |-> 0, writers |-> 0,
           protect |-> TRUE, encrypted |-> FALSE]
Handle == [kind : {"reader", "writer"}, data : Blocks, owner : Arrays]

ASSUME HandlesAssumption  == IsFiniteSet(Handles)
ASSUME NoneAssumption     == None \notin Blocks /\ None \notin Fields /\ None \notin Handle
ASSUME AdaptersAssumption == Adapters \subseteq SUBSET {"pages", "cipher"}

Live(a)       == array[a] # None
Owned(a, k)   == {h \in Handles : handle[h] # None /\ handle[h].owner = a /\ handle[h].kind = k}
IdleOfReaders(fields) == fields.protect /\ fields.readers = 0
Idle(fields)  == fields.protect /\ fields.readers = 0 /\ fields.writers = 0

\* The page access of a block, and whether a build without page access has any.
CanWrite(b) == page[b] = "readwrite" \/ "pages" \notin adapters
CanRead(b)  == page[b] \in {"readonly", "readwrite"} \/ "pages" \notin adapters

\* PHANTASMA_SECURE_ENCRYPT_MEMORY and its inverse: what they may answer, and what
\* they make of contents c; encrypting writes.  (Whatever the answer, encrypting
\* stuck contents ends with one encryption more than decryptions to come.)
Encrypted == IF "cipher" \in adapters THEN BOOLEAN ELSE {FALSE}
Decrypted == IF "cipher" \in adapters THEN BOOLEAN ELSE {TRUE}
Enciphered(c, done) ==
    CASE c = "clear"  -> IF done THEN "sealed" ELSE "clear"
      [] c = "sealed" -> "doubled"
      [] c = "stuck"  -> "garbled"
      [] OTHER        -> c
Deciphered(c, done) ==
    CASE c \in {"sealed", "stuck"} -> IF done THEN "clear" ELSE "stuck"
      [] c = "doubled" /\ done     -> "sealed"
      [] OTHER                     -> c

\* An array's contents once it is opened: decrypted if its flag asks for it.
Opened(fields, done) ==
    IF fields.encrypted THEN Deciphered(contents[fields.data], done) ELSE contents[fields.data]
ReadsClosed(from) ==
    from.data # None /\ from.size = 1 /\ ~Idle(from) /\ ~CanRead(from.data)
EncryptFaults(b) == "cipher" \in adapters /\ b # None /\ ~CanWrite(b)

Init ==
    /\ array  = [a \in Arrays |-> None]
    /\ handle = [h \in Handles |-> None]
    /\ page   = [b \in Blocks |-> "freed"]
    /\ contents = [b \in Blocks |-> "clear"]
    /\ stray = {}
    /\ adapters \in Adapters
    /\ fault = FALSE

-----------------------------------------------------------------------------
Default(a) ==
    /\ ~Live(a)
    /\ array' = [array EXCEPT ![a] = Empty]
    /\ UNCHANGED <<handle, page, contents, fault, stray>>

\* Access and encryption of memory just filled.
Closed(protect) == IF protect THEN "noaccess" ELSE "readwrite"

Construct(a, protect) ==
    /\ ~Live(a)
    /\ \E b \in Blocks, done \in IF protect THEN Encrypted ELSE {FALSE} :
        /\ page[b] = "freed"
        /\ page'   = [page EXCEPT ![b] = Closed(protect)]
        /\ contents' = [contents EXCEPT ![b] = Enciphered("clear", done)]
        /\ array'  = [array EXCEPT ![a] =
             [Empty EXCEPT !.data = b, !.size = 1, !.protect = protect, !.encrypted = done]]
    /\ UNCHANGED <<handle, fault, stray>>

\* The memory an array gives up when it is assigned to or destroyed, and the
\* rule the program keeps then.
Freed(b)      == [x \in Blocks |-> IF x = b THEN "freed" ELSE page[x]]
Emptied(b)    == [x \in Blocks |-> IF x = b THEN "clear" ELSE contents[x]]
Releasable(a) ==
    /\ Live(a)
    /\ \A h \in Handles : handle[h] # None =>
         handle[h].owner # a /\ (array[a].data # None => handle[h].data # array[a].data)

\* A move takes the memory and the counts; the handles keep their owner.
Adrift(a, other) ==
    IF other \in stray \/ Owned(other, "reader") \cup Owned(other, "writer") # {}
    THEN stray \cup {a} ELSE stray \ {a}
MoveKeepingData(a, other) == [array EXCEPT ![a] = array[other]]
Move(a, other) == [[array EXCEPT ![a] = array[other]] EXCEPT ![other].data = None]

MoveConstruct(a, other) ==
    /\ ~Live(a) /\ Live(other)
    /\ array' = Move(a, other)
    /\ stray' = Adrift(a, other)
    /\ UNCHANGED <<handle, page, contents, fault>>

MoveAssign(a, other) ==
    /\ Releasable(a) /\ Live(other)
    /\ page'   = Freed(array[a].data)
    /\ contents' = Emptied(array[a].data)
    /\ array'  = Move(a, other)
    /\ stray'  = Adrift(a, other)
    /\ UNCHANGED <<handle, fault>>

\* A copy allocates, then reads the other array through a reader of its own,
\* which opens and closes it when nobody else holds it.  The target keeps its
\* counts, and its old encrypted flag when the copy is not protected.  What a stray
\* array hands out without opening it is stuck.
Opens(fields) == fields.data # None /\ fields.size = 1 /\ Idle(fields)
Copied(other, opened) ==
    IF array[other].data = None \/ array[other].size = 0 THEN "clear"
    ELSE IF other \in stray /\ opened = "sealed" THEN "stuck" ELSE opened

Copy(a, old, other) ==
    LET from == array[other] IN
    \E b \in Blocks, ok \in Decrypted,
       done  \in IF from.protect THEN Encrypted ELSE {old.encrypted},
       again \in IF Opens(from) THEN Encrypted ELSE {from.encrypted} :
        LET opened == IF Opens(from) THEN Opened(from, ok) ELSE contents[from.data]
            copied == Copied(other, opened)
        IN
        /\ page[b] = "freed" \/ b = old.data
        /\ page'   = [Freed(old.data) EXCEPT ![b] = Closed(from.protect)]
        /\ contents' = [c \in Blocks |->
             IF c = b THEN IF from.protect THEN Enciphered(copied, done) ELSE copied
             ELSE IF c = from.data /\ Opens(from) THEN Enciphered(opened, again)
             ELSE Emptied(old.data)[c]]
        /\ array'  = [array EXCEPT
             ![a] = [old EXCEPT !.data = b, !.size = from.size, !.protect = from.protect, !.encrypted = done],
             ![other].encrypted = again]
        /\ fault'  = ((Opens(from) /\ adapters = {"pages", "cipher"}) \/ ReadsClosed(from))
        /\ UNCHANGED <<handle, stray>>

\* An array assigned to itself frees its memory and reads the new block instead,
\* through a reader that leaves it read-only and encrypted once more than once:
\* what the array held is lost, and the copy writes to the page its reader opened.
CopySelf(a) ==
    LET self == array[a] IN
    \E b \in Blocks, done \in IF self.protect THEN Encrypted ELSE {self.encrypted} :
        /\ page[b] = "freed" \/ b = self.data
        /\ page'   = [Freed(self.data) EXCEPT ![b] = Closed(self.protect)]
        /\ contents' = [Emptied(self.data) EXCEPT
             ![b] = IF self.size = 1 THEN "lost"
                    ELSE IF self.protect THEN Enciphered("clear", done) ELSE "clear"]
        /\ array'  = [array EXCEPT ![a].data = b, ![a].encrypted = done]
        /\ fault'  = (self.size = 1 /\ Idle(self) /\ "pages" \in adapters)
        /\ UNCHANGED <<handle, stray>>

CopyConstruct(a, other) == ~Live(a) /\ Live(other) /\ Copy(a, Empty, other)
CopyAssign(a, other) ==
    /\ Live(other) /\ Releasable(a)
    /\ IF a = other THEN CopySelf(a) ELSE Copy(a, array[a], other)

Destroy(a) ==
    /\ Releasable(a)
    /\ page'   = Freed(array[a].data)
    /\ contents' = Emptied(array[a].data)
    /\ array'  = [array EXCEPT ![a] = None]
    /\ stray'  = stray \ {a}
    /\ UNCHANGED <<handle, fault>>

-----------------------------------------------------------------------------
\* Read: an empty array gives a handle without an owner, which does nothing.
Read(a, h) ==
    LET self == array[a] IN
    /\ Live(a) /\ self.size = 1 /\ self.data # None /\ handle[h] = None /\ self.readers < MaxCount
    /\ IF Idle(self)
       THEN \E ok \in Decrypted :
            /\ page'   = [page EXCEPT ![self.data] = "readonly"]
            /\ contents' = [contents EXCEPT ![self.data] = Opened(self, ok)]
            /\ array'  = [array EXCEPT ![a].encrypted = @ /\ ~ok, ![a].readers = @ + 1]
       ELSE array' = [array EXCEPT ![a].readers = @ + 1] /\ UNCHANGED <<page, contents>>
    /\ handle' = [handle EXCEPT ![h] = [kind |-> "reader", data |-> self.data, owner |-> a]]
    /\ UNCHANGED <<fault, stray>>

Write(a, h) ==
    LET self == array[a] IN
    /\ Live(a) /\ self.size = 1 /\ self.data # None /\ handle[h] = None /\ self.writers < MaxCount
    /\ IF self.protect /\ self.writers = 0
       THEN \E ok \in Decrypted :
            /\ page'   = [page EXCEPT ![self.data] = "readwrite"]
            /\ contents' = [contents EXCEPT ![self.data] = Opened(self, ok)]
            /\ array'  = [array EXCEPT ![a].encrypted = @ /\ ~ok, ![a].writers = @ + 1]
       ELSE array' = [array EXCEPT ![a].writers = @ + 1] /\ UNCHANGED <<page, contents>>
    /\ handle' = [handle EXCEPT ![h] = [kind |-> "writer", data |-> self.data, owner |-> a]]
    /\ UNCHANGED <<fault, stray>>

\* The array after the last handle on it is gone: encrypted, then closed.
Close(a, fields) ==
    \E done \in Encrypted :
        /\ array'  = [array EXCEPT ![a] = [fields EXCEPT !.encrypted = done]]
        /\ fault'  = EncryptFaults(fields.data)
        /\ page'   = [b \in Blocks |-> IF b = fields.data THEN "noaccess" ELSE page[b]]
        /\ contents' = [b \in Blocks |->
             IF b = fields.data THEN Enciphered(contents[b], done) ELSE contents[b]]

\* With data # m_data the code raises or goes on, as the build says: here it
\* goes on, and counts down the array the handle was taken from.
ForgetfulUnlockReader(h) ==
    LET a == handle[h].owner IN
    /\ array' = [array EXCEPT ![a].readers = IF @ > 0 THEN @ - 1 ELSE 0]
    /\ UNCHANGED <<page, contents, fault>>
UnlockReader(h) ==
    LET a == handle[h].owner
        fields == [array[a] EXCEPT !.readers = IF @ > 0 THEN @ - 1 ELSE 0]
    IN  IF Idle(fields) THEN Close(a, fields)
        ELSE array' = [array EXCEPT ![a] = fields] /\ UNCHANGED <<page, contents, fault>>

Downgrade(a, fields) ==
    \E ok \in Decrypted :
        /\ array' = [array EXCEPT ![a] = [fields EXCEPT !.encrypted = @ /\ ~ok]]
        /\ page'  = [b \in Blocks |-> IF b = fields.data THEN "readonly" ELSE page[b]]
        /\ contents' = [b \in Blocks |-> IF b = fields.data THEN Opened(fields, ok) ELSE contents[b]]
        /\ UNCHANGED fault

\* The last writer of an array that is read leaves it read-only; contents that no
\* earlier handle could have decrypted are tried again.
UnlockWriter(h) ==
    LET a == handle[h].owner
        fields == [array[a] EXCEPT !.writers = IF @ > 0 THEN @ - 1 ELSE 0]
    IN  IF Idle(fields) THEN Close(a, fields)
        ELSE IF fields.protect /\ fields.writers = 0 THEN Downgrade(a, fields)
        ELSE array' = [array EXCEPT ![a] = fields] /\ UNCHANGED <<page, contents, fault>>

Drop(h) ==
    /\ handle[h] # None
    /\ IF handle[h].kind = "reader" THEN UnlockReader(h) ELSE UnlockWriter(h)
    /\ handle' = [handle EXCEPT ![h] = None]
    /\ UNCHANGED stray

Step ==
    \/ \E a \in Arrays : Default(a) \/ Destroy(a) \/ \E protect \in BOOLEAN : Construct(a, protect)
    \/ \E a, other \in Arrays :
         \/ MoveConstruct(a, other) \/ MoveAssign(a, other)
         \/ CopyConstruct(a, other) \/ CopyAssign(a, other)
    \/ \E a \in Arrays, h \in Handles : Read(a, h) \/ Write(a, h)
    \/ \E h \in Handles : Drop(h)

\* A fault ends the process.
Next == ~fault /\ Step /\ UNCHANGED adapters

Spec == Init /\ [][Next]_vars

-----------------------------------------------------------------------------
Owns(a, b) == Live(a) /\ array[a].data = b
On(b, k)   == {h \in Handles : handle[h] # None /\ handle[h].data = b /\ handle[h].kind = k}

TypeOK ==
    /\ array \in [Arrays -> Fields \cup {None}]
    /\ handle \in [Handles -> Handle \cup {None}]
    /\ \A h \in Handles : handle[h] # None => Live(handle[h].owner)
    /\ page \in [Blocks -> {"freed", "noaccess", "readonly", "readwrite"}]
    /\ contents \in [Blocks -> Contents]
    /\ \A a \in stray : a \in Arrays /\ Live(a)
    /\ adapters \subseteq {"pages", "cipher"} /\ fault \in BOOLEAN

\* An allocation has one owner, which frees it.
OwnedOnce ==
    /\ \A b \in Blocks : page[b] = "freed" <=> \A a \in Arrays : ~Owns(a, b)
    /\ \A a, c \in Arrays, b \in Blocks : Owns(a, b) /\ Owns(c, b) => a = c

\* A handle points to allocated memory, which is its owner's or was moved away.
HandlesPoint ==
    \A h \in Handles : handle[h] # None =>
        /\ array[handle[h].owner].data \in {None, handle[h].data}
        /\ \E a \in Arrays : Owns(a, handle[h].data)

\* The counts of an array are its handles, and after a move not less than the
\* handles that point to its memory.
CountsMatch ==
    \A a \in Arrays \ stray : Live(a) =>
        /\ array[a].readers = Cardinality(Owned(a, "reader"))
        /\ array[a].writers = Cardinality(Owned(a, "writer"))
CountsCover ==
    \A a \in Arrays : Live(a) /\ array[a].data # None =>
        /\ array[a].readers >= Cardinality(On(array[a].data, "reader"))
        /\ array[a].writers >= Cardinality(On(array[a].data, "writer"))

\* The flag says what decryptions are due, as far as contents are not beyond them.
Agrees(fields, c) ==
    IF fields.protect /\ fields.encrypted THEN c \in {"sealed", "stuck", "garbled", "lost"}
    ELSE c \in {"clear", "garbled", "lost"}
CipherAgrees ==
    \A a \in Arrays : Live(a) /\ array[a].data # None => Agrees(array[a], contents[array[a].data])
SealedByCipher ==
    \A b \in Blocks : contents[b] \in {"sealed", "stuck", "garbled", "doubled"} => "cipher" \in adapters

\* What the counts say of the memory is so, except for a stray array whose
\* counts outlived the memory they were of (copy assignment).
Outlived(a) ==
    \/ array[a].readers > Cardinality(Owned(a, "reader"))
    \/ array[a].writers > Cardinality(Owned(a, "writer"))
Access(fields) ==
    IF ~fields.protect \/ fields.writers > 0 THEN "readwrite"
    ELSE IF fields.readers > 0 THEN "readonly" ELSE "noaccess"
Kept(a) ==
    /\ page[array[a].data] = Access(array[a])
    /\ contents[array[a].data] # IF Idle(array[a]) THEN "stuck" ELSE "sealed"
KeptOrStray ==
    \A a \in Arrays : Live(a) /\ array[a].data # None =>
        \/ Kept(a)
        \/ /\ a \in stray /\ Outlived(a)
           /\ \A h \in Handles : handle[h] # None /\ handle[h].data = array[a].data => handle[h].owner \in stray

\* An array assigned to itself in a build with page access.
SelfCopied ==
    \E a \in Arrays : Live(a) /\ array[a].data # None /\ array[a].protect /\ contents[array[a].data] = "lost"
FaultHasACause ==
    fault => adapters = {"pages", "cipher"} \/ stray # {} \/ ("pages" \in adapters /\ SelfCopied)

\* Every allocation belongs to one array, which frees it: nothing leaks and
\* nothing is freed twice, whatever is copied, moved or destroyed.  The counts of
\* an array are the handles it gave out, the ones it is to close after, unless
\* the array was moved while a handle was alive (move constructor and assignment),
\* and page access and encryption are what the counts say.
SecureInv ==
    /\ TypeOK /\ OwnedOnce /\ HandlesPoint /\ CountsMatch /\ CountsCover
    /\ CipherAgrees /\ SealedByCipher /\ KeptOrStray /\ FaultHasACause

\* Protected memory is open only while a reader or a writer of it is alive, and
\* whenever the array says that its contents are encrypted they are (UnlockReader,
\* UnlockWriter, the private reader of a copy); when it says they are not they are
\* plain, but for contents that a failed decryption left to be encrypted again and
\* those an assignment to itself destroyed.  The exception is the memory of an array
\* moved while a handle was alive, whose count never comes back to 0.
OpenOnlyWhileHeld ==
    \A a \in Arrays : Live(a) /\ array[a].data # None /\ array[a].protect /\ a \notin stray =>
        /\ page[array[a].data] # "noaccess" =>
             \E h \in Handles : handle[h] # None /\ handle[h].data = array[a].data
        /\ array[a].encrypted => contents[array[a].data] # "clear"
        /\ ~array[a].encrypted => contents[array[a].data] \in {"clear", "garbled", "lost"}

\* A live handle can use its memory: allocated, open for what the handle does and
\* decrypted, however many others came and went (Read, Write, the downgrade in
\* UnlockWriter) - unless a decryption of it has failed, now or before it was last
\* closed (stuck, garbled), or the array was assigned to itself (lost): of neither
\* does the holder learn.  And while no array is stray the class itself touches
\* closed memory in two cases only: it encrypts a page its last reader left
\* read-only, in a build that has both page access and encryption, and it copies
\* onto the read-only page of an array assigned to itself, in one with page access.
HoldersCanUse ==
    /\ \A h \in Handles : handle[h] # None /\ handle[h].owner \notin stray =>
        LET b == handle[h].data IN
        /\ page[b] # "freed" /\ contents[b] \in {"clear", "stuck", "garbled", "lost"}
        /\ IF handle[h].kind = "writer" THEN page[b] = "readwrite" ELSE page[b] # "noaccess"
        /\ contents[b] \in {"stuck", "garbled"} => "cipher" \in adapters
    /\ FaultHasACause

=============================================================================
