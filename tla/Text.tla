-------------------------------- MODULE Text --------------------------------
(***************************************************************************)
(* How a JavaScript string gets into the C library and back: ccall writes  *)
(* a string argument as UTF-8 into room on the C stack, the library takes  *)
(* it up to its terminator or by a length in bytes, and a result is        *)
(* decoded up to its terminator.  A JavaScript string is a sequence of     *)
(* 16-bit code units, a C string a sequence of bytes; the library keeps    *)
(* the bytes it takes as they are.  Bit masks and shifts are written with  *)
(* \div and %, and hexadecimal numbers in decimal: 0xD800 is 55296, 0xDC00 *)
(* is 56320, 0x10000 is 65536.                                             *)
(***************************************************************************)
EXTENDS Integers, Sequences

CONSTANTS
    Units,      \* the code units strings are made of
    MaxUnits,   \* bound: the longest string a program passes
    Tiny        \* strings of at most this many bytes are decoded without
                \* TextDecoder (16 in the code)

LastUnit == 65535
Unit == 0..LastUnit
Byte == 0..255

ASSUME TextAssumption ==
    Units \subseteq Unit /\ MaxUnits \in Nat /\ Tiny \in Nat

VARIABLES
    text,       \* the string the program passed last
    op,         \* what it was passed as: nothing, a "name", or "bound"
    kept,       \* the bytes the library keeps of it
    back        \* what the program has read back; NotRead before it does

vars == <<text, op, kept, back>>

NotRead == <<-1>>
Nul == 0
BOM == 65279
Replacement == 65533

\* Every string of at most MaxUnits code units.
Strings == UNION {[1..n -> Units] : n \in 0..MaxUnits}

IsLead(u) == 55296 <= u /\ u <= 56319
IsTrail(u) == 56320 <= u /\ u <= 57343
IsSurrogate(u) == IsLead(u) \/ IsTrail(u)
-----------------------------------------------------------------------------
(* stringToUTF8.                                                           *)

\* Mutant: the offset of the supplementary planes is forgotten.
Paired_Flat(u, u1) == (u % 1024) * 1024 + (u1 % 1024)

\* Whatever follows a surrogate is taken for its other half; after the last
\* unit charCodeAt is NaN, which a mask turns into 0.
Paired(u, u1) == 65536 + (u % 1024) * 1024 + (u1 % 1024)

Points[s \in Seq(Nat)] ==
    IF s = <<>> THEN <<>>
    ELSE IF ~IsSurrogate(s[1]) THEN <<s[1]>> \o Points[Tail(s)]
    ELSE <<Paired(s[1], IF Len(s) = 1 THEN 0 ELSE s[2])>>
            \o Points[SubSeq(s, 3, Len(s))]

\* Mutants: the last ASCII character is written in two bytes; the other bits
\* of the code point are not masked off.
OneByte_Less(u) == u < 127
Continuation_Unmasked(u, shift) == 128 + (u \div shift)

OneByte(u) == u <= 127
Continuation(u, shift) == 128 + ((u \div shift) % 64)

Bytes(u) ==
    IF OneByte(u) THEN <<u>>
    ELSE IF u <= 2047 THEN <<192 + (u \div 64), Continuation(u, 1)>>
    ELSE IF u <= 65535
    THEN <<224 + (u \div 4096), Continuation(u, 64), Continuation(u, 1)>>
    ELSE <<240 + (u \div 262144), Continuation(u, 4096), Continuation(u, 64),
           Continuation(u, 1)>>

\* The bytes of the first points that fit into the room: <<points, room>>.
Fitting[a \in Seq(Nat) \X Nat] ==
    IF a[1] = <<>> THEN <<>>
    ELSE LET b == Bytes(Head(a[1]))
         IN  IF Len(b) > a[2] THEN <<>>
             ELSE b \o Fitting[<<Tail(a[1]), a[2] - Len(b)>>]

\* Mutant: two bytes a unit.
Room_Two(s) == Len(s) * 2 + 1

\* The room ccall allocates for an argument, and what is written into it: the
\* last byte of the room is the terminator's.
Room(s) == Len(s) * 4 + 1
stringToUTF8(s, max) == Append(Fitting[<<Points[s], max - 1>>], Nul)
Argument(s) == stringToUTF8(s, Room(s))
-----------------------------------------------------------------------------
(* UTF8ArrayToString.                                                      *)

Min2(a, b) == IF a <= b THEN a ELSE b

\* The bytes before the first NUL.
Terminated(b) ==
    LET ends == {i \in 1..Len(b) : b[i] = Nul}
    IN  IF ends = {} THEN b
        ELSE SubSeq(b, 1, (CHOOSE i \in ends : \A j \in ends : i <= j) - 1)

\* How many bytes the character takes that starts with byte b0.
Width(b0) == IF b0 < 128 THEN 1
             ELSE IF b0 \div 32 = 6 THEN 2
             ELSE IF b0 \div 16 = 14 THEN 3 ELSE 4

\* The first code point.  The bytes after the end of a value that was cut are
\* the terminators the library adds.
FirstPoint(b) ==
    LET low(i) == IF i <= Len(b) THEN b[i] % 64 ELSE Nul
    IN  IF Width(b[1]) = 1 THEN b[1]
        ELSE IF Width(b[1]) = 2 THEN (b[1] % 32) * 64 + low(2)
        ELSE IF Width(b[1]) = 3
        THEN (b[1] % 16) * 4096 + low(2) * 64 + low(3)
        ELSE (b[1] % 8) * 262144 + low(2) * 4096 + low(3) * 64 + low(4)

\* Mutant: the offset of the supplementary planes is not taken off.
UnitsOf_Offset(point) ==
    IF point < 65536 THEN <<point>>
    ELSE <<55296 + (point \div 1024), 56320 + (point % 1024)>>

UnitsOf(point) ==
    IF point < 65536 THEN <<point>>
    ELSE LET ch == point - 65536
         IN  <<55296 + (ch \div 1024), 56320 + (ch % 1024)>>

Rest(b) == SubSeq(b, Width(b[1]) + 1, Len(b))

ByHand[b \in Seq(Nat)] ==
    IF b = <<>> THEN <<>> ELSE UnitsOf(FirstPoint(b)) \o ByHand[Rest(b)]

\* TextDecoder replaces a character that was cut off and drops a leading byte
\* order mark.  No other malformed bytes reach it.
Strict[b \in Seq(Nat)] ==
    IF b = <<>> THEN <<>>
    ELSE IF Width(b[1]) > Len(b) THEN <<Replacement>>
    ELSE UnitsOf(FirstPoint(b)) \o Strict[Rest(b)]

TextDecoder(b) ==
    LET s == Strict[b]
    IN  IF s # <<>> /\ s[1] = BOM THEN Tail(s) ELSE s

UTF8ToString(b) ==
    LET t == Terminated(b)
    IN  IF Len(t) > Tiny THEN TextDecoder(t) ELSE ByHand[t]
-----------------------------------------------------------------------------
(* The calls.                                                              *)

\* A name, an SQL text, a schema: the library reads up to the terminator.
Name(s) ==
    /\ op = "none"
    /\ text' = s /\ op' = "name"
    /\ kept' = Terminated(Argument(s))
    /\ back' = NotRead

\* Mutant: the length is that of the room.
nByte_Room(s) == Room(s)

\* bind() of a string: the length it passes counts code units, the length
\* sqlite3_bind_text takes counts bytes.
nByte(s) == Len(s)
Stored(s) == SubSeq(Argument(s), 1, Min2(nByte(s), Len(Argument(s))))

BindText(s) ==
    /\ op = "none"
    /\ text' = s /\ op' = "bound"
    /\ kept' = Stored(s)
    /\ back' = NotRead

\* get(), columns() or the message of an error.
Read ==
    /\ op # "none" /\ back = NotRead
    /\ back' = UTF8ToString(kept)
    /\ UNCHANGED <<text, op, kept>>

\* The program stores what it has read.
WriteBack ==
    /\ op = "bound" /\ back # NotRead
    /\ text' = back
    /\ kept' = Stored(back)
    /\ back' = UTF8ToString(Stored(back))
    /\ UNCHANGED op

\* The value is not used any more.
Finalize ==
    /\ op # "none"
    /\ text' = <<>> /\ op' = "none" /\ kept' = <<>> /\ back' = NotRead

Init == text = <<>> /\ op = "none" /\ kept = <<>> /\ back = NotRead

Next ==
    \/ \E s \in Strings : Name(s) \/ BindText(s)
    \/ Read
    \/ WriteBack
    \/ Finalize

Spec == Init /\ [][Next]_vars
-----------------------------------------------------------------------------
(* Properties.                                                             *)

\* What every encoder of UTF-16 must give: no half of a surrogate pair alone.
WellFormed(s) ==
    \A i \in 1..Len(s) :
        /\ IsLead(s[i]) => i < Len(s) /\ IsTrail(s[i + 1])
        /\ IsTrail(s[i]) => i > 1 /\ IsLead(s[i - 1])

NoNul(s) == \A i \in 1..Len(s) : s[i] # Nul

\* Bytes are bytes and units are units.
TypeOK ==
    /\ op \in {"none", "name", "bound"}
    /\ \A i \in 1..Len(kept) : kept[i] \in Byte
    /\ back = NotRead \/ \A i \in 1..Len(back) : back[i] \in Unit

\* A name reaches the library and comes back as it was, through either
\* decoder: any well-formed string without a NUL that, if it is long, does not
\* begin with a byte order mark.
NamesComeBack ==
    op = "name" /\ back # NotRead /\ WellFormed(text) /\ NoNul(text)
        => \/ back = text
           \/ text[1] = BOM /\ Len(kept) > Tiny /\ back = Tail(text)

\* The comment in ccall: "at most 4 bytes per UTF-8 code point, +1 for the
\* trailing '\0'".  Nothing of an argument is left out for lack of room, also
\* where a surrogate stands alone and takes its neighbour with it.
NothingDropped ==
    Len(Argument(text)) - 1 =
        Len(Fitting[<<Points[text], 4 * Len(Points[text])>>])

\* sqlite3_bind_text copies as many bytes as it is told to: never one that the
\* call did not write, not even the terminator.
BindReadsWritten == op = "bound" => nByte(text) < Len(Argument(text))

\* The limit of the length that counts units: text of the ASCII characters
\* from 1 to 127 is stored and read back whole.
AsciiComesBack ==
    op = "bound" /\ back # NotRead /\ (\A i \in 1..Len(text) : text[i] \in 1..127)
        => back = text

\* The count of units does its damage at the end of a text only, however often
\* the program stores what it has read.  Of a text without a NUL and without a
\* surrogate that stands alone, every character whose bytes fit into that many
\* comes back in its place (save a byte order mark at the front of a long one),
\* and what comes back is no longer than what was stored.
CutAtTheEnd ==
    op = "bound" /\ back # NotRead /\ WellFormed(text) /\ NoNul(text)
        => LET first(n) == SubSeq(text, 1, n)
           IN  /\ Len(back) <= Len(text)
               /\ \A n \in 1..Len(text) :
                     WellFormed(first(n)) /\ Len(Argument(first(n))) <= Len(text) + 1
                         => \/ text[1] = BOM /\ Len(kept) > Tiny
                            \/ n <= Len(back) /\ SubSeq(back, 1, n) = first(n)
=============================================================================
