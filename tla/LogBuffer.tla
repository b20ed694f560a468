----------------------------- MODULE LogBuffer -----------------------------
(***************************************************************************)
(* append_to_buffer and the dump of a GATT server that is made with it.    *)
(*                                                                         *)
(* Of a line only the length matters. The buffer has a pointer, and the    *)
(* size and the offset that the caller passes along; "text" is where a     *)
(* reader of the string finds its end.                                     *)
(***************************************************************************)
EXTENDS Naturals, Sequences, SequencesExt

Temporary == 512  \* the size of tmp

NewBuffer(size) == [ptr |-> "valid", size |-> size, offset |-> 0, text |-> 0]

Smaller(a, b) == IF a < b THEN a ELSE b

IsFull(b, needed) == b.offset + needed >= b.size

Grown(b, needed) == IF IsFull(b, needed) THEN (b.offset + needed + 1) * 2 ELSE b.size

\* Broken: the line is appended behind the zero of the last one.
NextOffsetBehind(b, needed) == b.offset + needed + 1

\* The length that vsnprintf returns, not the one that it has written.
NextOffset(b, needed) == b.offset + needed

\* realloc leaves the size changed and the offset as it was when it fails.
\* Without a new buffer, a lost pointer is written through.
append_to_buffer(b, needed, memory) ==
  LET size == Grown(b, needed)
      copied == Smaller(Smaller(needed, Temporary - 1), size - b.offset - 1)
  IN CASE b.ptr = "crashed" -> b
       [] b.ptr # "crashed" /\ size # b.size /\ ~memory -> [b EXCEPT !.ptr = "lost", !.size = size]
       [] b.ptr = "lost" /\ size = b.size -> [b EXCEPT !.ptr = "crashed"]
       [] OTHER -> [ptr |-> "valid", size |-> size, offset |-> NextOffset(b, needed),
                    text |-> IF b.text = b.offset THEN b.offset + copied ELSE b.text]

\* The lengths of the lines: "Service 0 uuid ...", "Included Services ...",
\* and so on, with a UUID of 47 characters and the longest numbers.
ServiceLine == 87
IncludedLine == 108
CharacteristicLine(notify) == IF notify THEN 98 ELSE 79
DescriptorLine == 70

\* Either the single descriptor, or those of the list.
DescriptorLines(char) == IF char.single = 1 THEN 1 ELSE char.listed

Times(line, n) == [i \in 1 .. n |-> line]

\* The lines of a server with so many included services and these
\* characteristics.
DumpLines(included, chars) ==
  <<ServiceLine>> \o Times(IncludedLine, included)
    \o FlattenSeq([i \in 1 .. Len(chars) |->
         <<CharacteristicLine(chars[i].notify /\ chars[i].single = 1)>>
           \o Times(DescriptorLine, DescriptorLines(chars[i]))])

Appended(b, lines, memory) ==
  FoldLeft(LAMBDA buf, line : append_to_buffer(buf, line, memory), b, lines)

utilsDumpServer(included, chars, b, memory) == Appended(b, DumpLines(included, chars), memory)
----------------------------------------------------------------------------
(* One dump, or three lines that are appended *)

VARIABLE dump

Lengths == {0, 1, 81, 511, 512, 600, 1100}
Sizes == {1, 82, 1024}
Characteristics == [notify : BOOLEAN, single : 0 .. 1, listed : 0 .. 2]
Servers == {<<>>} \cup {<<c>> : c \in Characteristics} \cup {<<c, d>> : c, d \in Characteristics}

NoDump == [of |-> "none"]

InitDump ==
  \/ dump \in [of : {"server"}, chars : Servers, included : 0 .. 1, size : Sizes]
  \/ dump \in [of : {"lines"}, lines : Lengths \X Lengths \X Lengths, size : Sizes, memory : BOOLEAN]

Total(lines) == FoldLeft(LAMBDA a, b : a + b, 0, lines)
----------------------------------------------------------------------------
(* A server's dump is whole: all of its lines can be read up to the offset *)
(* that append_to_buffer advances, and the zero fits in behind them. And   *)
(* whatever is appended, nothing is written behind the buffer: the offset  *)
(* stays inside although it counts what was cut off; the pointer is lost   *)
(* only for want of memory.                                                *)
DumpIsWhole ==
  /\ dump.of = "server" =>
       LET b == utilsDumpServer(dump.included, dump.chars, NewBuffer(dump.size), TRUE)
       IN /\ b.ptr = "valid"
          /\ b.text = b.offset
          /\ b.text = Total(DumpLines(dump.included, dump.chars))
          /\ b.text < b.size
  /\ dump.of = "lines" =>
       LET b == Appended(NewBuffer(dump.size), dump.lines, dump.memory)
       IN /\ b.ptr = "valid" => b.text <= b.offset /\ b.offset < b.size
          /\ b.ptr # "valid" => ~dump.memory
============================================================================
