------------------------------- MODULE Mc3Codec -------------------------------
(* The byte format of ASAP3 messages: Asap3Helper's conversions between values *)
(* and big-endian bytes, the body of a message (IRequest and IResponse         *)
(* CreateBody) and how a response is read back (the IResponse constructor).    *)
(* A byte is a number below Radix, 256 in the code; a word is two bytes.       *)
EXTENDS Integers, SequencesExt

CONSTANT Radix
ASSUME RadixAssumption == Radix \in Nat \ {0, 1}

Word == Radix * Radix
Bytes == 0..(Radix - 1)
Width == [u16 |-> 2, u32 |-> 4, f32 |-> 4, u64 |-> 8]  \* sizeof of the numbers
Even(n) == n + (n % 2)
\* What a byte is worth that many places before the last one.
Place[n \in 0..7] == IF n = 0 THEN 1 ELSE Radix * Place[n - 1]

-----------------------------------------------------------------------------
(* Values to bytes.                                                          *)

BigEndian(v, n) == [i \in 1..n |-> (v \div Place[n - i]) % Radix]
Zeros(n) == [i \in 1..n |-> 0]

\* Mutant: a string of odd length is not filled up to an even one.
FromTextUnpadded(s) == BigEndian(Len(s) % Word, 2) \o s

FromText(s) == BigEndian(Len(s) % Word, 2) \o s \o Zeros(Len(s) % 2)

\* An item is a type with a value, a number or, for "text", a string of bytes.
FromItem(item) == IF item.type = "text" THEN FromText(item.value)
                  ELSE BigEndian(item.value, Width[item.type])

ItemSize(item) == IF item.type = "text" THEN Even(Len(item.value)) + 2
                  ELSE Width[item.type]
DataListSize(items) == SumFunction([i \in DOMAIN items |-> ItemSize(items[i])])
DataListToBody(items) == FlattenSeq([i \in DOMAIN items |-> FromItem(items[i])])

\* FromMc3Value writes into the body at an offset, and enlarges it if need be.
Overlay(body, offset, bytes) ==
  LET end == offset + Len(bytes)
      size == IF Len(body) < end THEN end ELSE Len(body)
  IN  [i \in 1..size |-> IF i \in (offset + 1)..end THEN bytes[i - offset]
                         ELSE IF i <= Len(body) THEN body[i] ELSE 0]

-----------------------------------------------------------------------------
(* Bytes to values. Reading past the end gives the default value.            *)

Number(bytes) ==
  SumFunction([i \in DOMAIN bytes |-> bytes[i] * Place[Len(bytes) - i]])
ToNumber(data, offset, n) ==
  IF Len(data) < offset + n THEN 0 ELSE Number(SubSeq(data, offset + 1, offset + n))
ToWord(data, offset) == ToNumber(data, offset, 2)

\* The string read and how far the offset moves.
ToText(data, offset) ==
  IF Len(data) < offset + 2 THEN [value |-> <<>>, size |-> 2]
  ELSE LET end == offset + 2 + ToWord(data, offset)
           s == SubSeq(data, offset + 3, IF end < Len(data) THEN end ELSE Len(data))
       IN  [value |-> s, size |-> Even(Len(s) + 2)]

\* BodyToDataList: the items of a list, which carry their types, are read from
\* an offset on; the first that does not fit, and all after it, keep their value.
BodyToDataList(body, offset, list) ==
  LET Size(at, type) ==
        IF type # "text" THEN Width[type]
        ELSE Even(2 + (IF at + 2 <= Len(body) THEN ToWord(body, at) ELSE 0))
      Read(at, type) ==
        IF type = "text" THEN ToText(body, at)
        ELSE [value |-> ToNumber(body, at, Width[type]), size |-> Width[type]]
      Done[n \in 0..Len(list)] ==
        IF n = 0 THEN [at |-> offset, going |-> TRUE, list |-> <<>>]
        ELSE LET before == Done[n - 1]
                 r == Read(before.at, list[n].type)
             IN  IF before.going /\ before.at + Size(before.at, list[n].type) <= Len(body)
                 THEN [at |-> before.at + r.size, going |-> TRUE,
                       list |-> Append(before.list, [list[n] EXCEPT !.value = r.value])]
                 ELSE [before EXCEPT !.list = Append(@, list[n]), !.going = FALSE]
  IN  Done[Len(list)].list

-----------------------------------------------------------------------------
(* Messages.                                                                 *)

\* Mutant: the sum stops a word too early.
ChecksumShort(message) ==
  SumFunction([i \in 1..(Even(Len(message) - 4) \div 2) |-> ToWord(message, 2 * i - 2)]) % Word

\* The sum of the words before the last two bytes, in a uint16_t.
Checksum(message) ==
  SumFunction([i \in 1..(Even(Len(message) - 2) \div 2) |-> ToWord(message, 2 * i - 2)]) % Word

\* CreateBody: length word, header words, data and checksum. The length is cut
\* to a word, and the body is sized by it before it is filled.
CreateBody(header, items) ==
  LET length == (2 * Len(header) + 4 + DataListSize(items)) % Word
      bytes == FlattenSeq([i \in 1..Len(header) |-> BigEndian(header[i], 2)])
      data == BigEndian(length, 2) \o bytes \o DataListToBody(items)
      filled == Overlay(Zeros(length), 0, data)
  IN  Overlay(filled, Len(data), BigEndian(Checksum(filled), 2))
===============================================================================
