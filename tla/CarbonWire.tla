----------------------------- MODULE CarbonWire -----------------------------
(***************************************************************************)
(* The byte streams of src/include/Carbon: WriteView and ReadView          *)
(* (Alloc.h) and the primitive codecs of Carbon.h, DataCommon.h, DataVm.h  *)
(* and Int256Impl.h.                                                       *)
(*                                                                         *)
(* An image is the sequence of the words a writer put one after another,   *)
(* each with its width in bytes and what it holds: a number where a reader *)
(* decides on it (a count, a length, a type, a flag), a value otherwise.   *)
(* A reader counts bytes: an image may be cut anywhere, and a word read    *)
(* with another width than the one it was written with gives Mixed, which  *)
(* equals nothing that was written.                                        *)
(*                                                                         *)
(* The build is one whose PHANTASMA_EXCEPTION throws: an answer of false   *)
(* and a throw are both ~ok. Without exceptions the readers of a message   *)
(* are the same, and Read1, Read2, Read4, Read8 and ReadSz are not: they   *)
(* go on with a zero past the end of the stream.                           *)
(***************************************************************************)
EXTENDS Integers, Sequences, SequencesExt, Functions, TLC

Num(k) == <<"number", k>>
Val(x) == <<"value", x>>
Mixed == <<"mixed">>
Word(width, datum) == <<width, datum>>

RECURSIVE Size(_)
\* The bytes of an image.
Size(image) == IF image = <<>> THEN 0 ELSE Head(image)[1] + Size(Tail(image))

RECURSIVE Dropped(_, _)
\* What remains of an image once n bytes are read.
Dropped(image, n) ==
    IF n = 0 THEN image
    ELSE IF Head(image)[1] <= n THEN Dropped(Tail(image), n - Head(image)[1])
    ELSE <<Word(Head(image)[1] - n, Mixed)>> \o Tail(image)

RECURSIVE Cut(_, _)
\* The first n bytes of an image.
Cut(image, n) ==
    IF n = 0 THEN <<>>
    ELSE IF Head(image)[1] <= n
         THEN <<Head(image)>> \o Cut(Tail(image), n - Head(image)[1])
    ELSE <<Word(n, Mixed)>>

-----------------------------------------------------------------------------
(* Writing. A SmallString and a C string are strings, a ByteView is an     *)
(* image of its own, an intx or an int256 is the number of its bytes that  *)
(* are written and what they hold.                                         *)

WriteSmall(s) ==
    <<Word(1, Num(Len(s)))>> \o IF s = "" THEN <<>> ELSE <<Word(Len(s), Val(s))>>

WriteSz(s) == (IF s = "" THEN <<>> ELSE <<Word(Len(s), Val(s))>>) \o <<Word(1, Num(0))>>

WriteArray(bytes) == <<Word(4, Num(Size(bytes)))>> \o bytes

WriteInt256(v) ==
    <<Word(1, Num(v[1]))>> \o IF v[1] = 0 THEN <<>> ELSE <<Word(v[1], Val(v[2]))>>

\* Eight bytes at least: WideInts.tla has the header and what the bytes say.
WriteIntX(v) == <<Word(1, Num(v[1])), Word(v[1], Val(v[2]))>>

-----------------------------------------------------------------------------
(* Reading. A reader is what remains, its length, the sticky failure of    *)
(* ReadView, whether every call so far answered true, and what the last    *)
(* call left in its output.                                                *)

Reader(image) ==
    [rest |-> image, length |-> Size(image), fail |-> FALSE, ok |-> TRUE, got |-> Mixed]

Answer(r, x) == [r EXCEPT !.got = x]
Refuse(r) == [r EXCEPT !.ok = FALSE]

\* ReadView::Advance and ReadBytes: once it has failed it always fails.
ReadBytes(r, width) ==
    IF r.fail \/ width > r.length
    THEN [r EXCEPT !.fail = TRUE, !.ok = FALSE]
    ELSE [r EXCEPT !.rest = Dropped(r.rest, width),
                   !.length = r.length - width,
                   !.got = IF r.rest # <<>> /\ Head(r.rest)[1] = width
                           THEN Head(r.rest)[2] ELSE Mixed]

\* A number read where something else was written is a number nobody chose.
IsNumber(datum) == datum[1] = "number"

\* A step that is taken if the one before it answered true.
Then(r, Step(_)) == IF r.ok THEN Step(r) ELSE r

ReadNumber(r, width) ==
    Then(ReadBytes(r, width), LAMBDA read :
        IF IsNumber(read.got) THEN Answer(read, read.got[2]) ELSE Refuse(read))

\* ReadArrayLength: a count is refused unless that many elements can remain.
ReadArrayLength(r, elementSize) ==
    Then(ReadNumber(r, 4), LAMBDA count :
        IF count.got < 0 \/ count.got > count.length \div elementSize
        THEN Refuse(count) ELSE count)

\* The next n bytes, as an image of their own.
ReadExactly(r, n) ==
    IF n = 0 THEN Answer(r, <<>>)
    ELSE Then(ReadBytes(r, n), LAMBDA read : Answer(read, Cut(r.rest, n)))

ReadArray(r) == Then(ReadArrayLength(r, 1), LAMBDA length : ReadExactly(length, length.got))

\* The characters of a string in one word, or none.
ReadText(r, n) ==
    IF n = 0 THEN Answer(r, "")
    ELSE Then(ReadBytes(r, n), LAMBDA read :
             IF read.got[1] = "value" THEN Answer(read, read.got[2]) ELSE Refuse(read))

ReadSmall(r) == Then(ReadNumber(r, 1), LAMBDA length : ReadText(length, length.got))

\* ReadSz: up to the zero byte, which has to be there.
ReadSz(r) ==
    IF r.fail \/ r.rest = <<>> THEN [r EXCEPT !.fail = TRUE, !.ok = FALSE]
    ELSE Then(IF Head(r.rest)[2] = Num(0) THEN Answer(r, "") ELSE ReadText(r, Head(r.rest)[1]),
              LAMBDA text : Then(ReadNumber(text, 1), LAMBDA zero :
                  IF zero.got = 0 THEN Answer(zero, text.got) ELSE Refuse(zero)))

\* A wide integer of `least` to 32 bytes.
ReadWide(r, least) ==
    Then(ReadNumber(r, 1), LAMBDA header :
        IF header.got < least \/ header.got > 32 THEN Refuse(header)
        ELSE Then(ReadText(header, header.got), LAMBDA content :
                 Answer(content, <<header.got, content.got>>)))
ReadInt256(r) == ReadWide(r, 0)
ReadIntX(r) == ReadWide(r, 8)

=============================================================================
