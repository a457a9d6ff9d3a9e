------------------------------ MODULE SaveFormat ------------------------------
(***************************************************************************)
(* The two representations of a save and how they are read: the canonical  *)
(* stream of Steam, which begins with a magic number, and the raw LZ4      *)
(* block around it that the game writes on iOS.                            *)
(*                                                                         *)
(* The algorithms are those of isaac_format.rs and save_achievements.rs,   *)
(* on a scaled-down alphabet: a token has two halves up to NibbleMax       *)
(* instead of 15, an extension byte goes up to ByteMax instead of 255, the *)
(* magic number and every 32-bit field of a save are one symbol, and a     *)
(* save has a section of each kind of size instead of eleven, the last of  *)
(* them the bestiary with its own lists.  What cannot be read is Invalid.  *)
(***************************************************************************)
EXTENDS Naturals, Integers, Sequences

CONSTANTS
  NibbleMax,  \* the largest value of half a token (15)
  MaxSize,    \* MAX_SAVE_SIZE
  MaxId       \* MAX_REPENTANCE_ACHIEVEMENT_ID

ByteMax  == (NibbleMax + 1) * (NibbleMax + 1) - 1
MinMatch == 4
Magic    == 97
Modulus  == 65521
SectionCount == 4
TrailerSize  == 2
Subtypes     == <<2, 1>>

Invalid == <<-1>>

\* ------------------------------------------------------------------- raw LZ4

\* extended_length: a length and the position after it; position -1 is an error.
Extension(input, cursor, base) ==
  LET from[c \in Nat, length \in Nat] ==
        IF c >= Len(input)
        THEN [length |-> length, cursor |-> -1]
        ELSE LET byte == input[c + 1]
             IN  IF byte = ByteMax
                 THEN from[c + 1, length + byte]
                 ELSE [length |-> length + byte, cursor |-> c + 1]
  IN  from[cursor, base]

ExtendedLength(input, cursor, base) ==
  IF base # NibbleMax THEN [length |-> base, cursor |-> cursor]
                      ELSE Extension(input, cursor, base)

\* A match copies symbol by symbol, so it may overlap what it writes.
WithMatch(output, offset, length) ==
  output \o [i \in 1..length |->
               output[Len(output) - offset + 1 + ((i - 1) % offset)]]

\* One sequence after the other: a token, literals, and unless the input ends
\* there a match of at least MinMatch symbols at a little-endian offset.
Decoded(input) ==
  LET from[start \in Nat, output \in Seq(Nat)] ==
    IF start >= Len(input) THEN output ELSE
    LET token    == input[start + 1]
        literals == ExtendedLength(input, start + 1,
                                   token \div (NibbleMax + 1))
        end      == literals.cursor + literals.length
        text     == output \o SubSeq(input, literals.cursor + 1, end)
        offset   == input[end + 1] + (ByteMax + 1) * input[end + 2]
        match    == ExtendedLength(input, end + 2, token % (NibbleMax + 1))
        size     == Len(text) + match.length + MinMatch
    IN  IF \/ literals.cursor < 0 \/ end > Len(input)
           \/ Len(output) + literals.length > MaxSize
        THEN Invalid
        ELSE IF end = Len(input) THEN text
        ELSE IF \/ end + 2 > Len(input)
                \/ offset = 0 \/ offset > Len(text)
                \/ match.cursor < 0 \/ size > MaxSize
        THEN Invalid
        ELSE from[match.cursor,
                  WithMatch(text, offset, match.length + MinMatch)]
  IN  from[0, <<>>]

DecodeRawLz4(input) ==
  IF input = <<>> \/ Len(input) > MaxSize THEN Invalid ELSE Decoded(input)

\* ------------------------------------------------------------ canonical saves

\* isaac_crc32, over everything between the magic number and the checksum.
SumTo(bytes, n) ==
  LET sum[i \in Nat] ==
        IF i <= 1 THEN 7 ELSE (sum[i - 1] * 31 + bytes[i] + 1) % Modulus
  IN  sum[n]

Checksum(bytes) == SumTo(bytes, Len(bytes) - 1)

\* The length of a section's body: block_size, count words or count bytes.
BodySize(type, size, count) ==
  CASE type = 1 -> size
    [] type = 2 -> 4 * count
    [] OTHER    -> count

\* The position after the bestiary's lists, which begin at the given one and
\* must fill their block of this size together; -1 if they do not.
AfterBestiary(bytes, start, size) ==
  LET from[cursor \in Nat, list \in Nat, left \in Int] ==
    IF list > Len(Subtypes) THEN IF left = 0 THEN cursor ELSE -1
    ELSE IF cursor + 2 > Len(bytes) THEN -1
    ELSE LET count == bytes[cursor + 2]
             end   == cursor + 2 + 2 * count
         IN  IF \/ bytes[cursor + 1] # Subtypes[list] \/ count % 4 # 0
                \/ end > Len(bytes)
             THEN -1
             ELSE from[end, list + 1, left - count]
  IN  from[start, 1, size]

\* The position after the sections, which begin at the given one; -1 if they do
\* not fit.
AfterSections(bytes, start) ==
  LET from[cursor \in Nat, type \in Nat] ==
    IF cursor + 3 > Len(bytes) \/ bytes[cursor + 1] # type THEN -1
    ELSE LET size  == bytes[cursor + 2]
             count == bytes[cursor + 3]
             end   == cursor + 3 + BodySize(type, size, count)
         IN  IF type = SectionCount
             THEN IF count # Len(Subtypes) THEN -1
                  ELSE AfterBestiary(bytes, cursor + 3, size)
             ELSE IF end > Len(bytes) THEN -1
             ELSE from[end, type + 1]
  IN  from[start, 1]

\* MUTANT: the sections are walked, the checksum is not compared.
MChecksumMatches(bytes) == TRUE

ChecksumMatches(bytes) == bytes[Len(bytes)] = Checksum(bytes)

StartsWithMagic(bytes) == Len(bytes) > 0 /\ bytes[1] = Magic

\* validate_canonical: the header, the sections, a trailer and the checksum.
ValidCanonical(bytes) ==
  /\ StartsWithMagic(bytes) /\ Len(bytes) <= MaxSize
  /\ LET end == AfterSections(bytes, 2)
     IN  end # -1 /\ Len(bytes) - end = TrailerSize
  /\ ChecksumMatches(bytes)

\* canonicalize_save: the canonical stream of a file, or Invalid.
Canonicalize(input) ==
  LET stream == IF StartsWithMagic(input) THEN input ELSE DecodeRawLz4(input)
  IN  IF stream # Invalid /\ ValidCanonical(stream) THEN stream ELSE Invalid

\* --------------------------------------------------------------- achievements

\* unlocked_achievement_ids_from_canonical: achievement n is entry n + 1 of the
\* first section, whose first entry stands for none.  {-1} is an error.
UnlockedIds(bytes) ==
  IF \/ Len(bytes) < 5 \/ bytes[3] # 1 \/ bytes[4] # bytes[5]
     \/ 5 + bytes[4] > Len(bytes)
  THEN {-1}
  ELSE {id \in 1..MaxId : id < bytes[5] /\ bytes[6 + id] = 1}

\* ------------------------------------------- what the game and Steam may write

\* The canonical stream of a save with these achievements.
SaveWith(entries, ids) ==
  LET flags == [i \in 1..entries |-> IF i - 1 \in ids THEN 1 ELSE 0]
      front == <<Magic, 0, 1, entries, entries>> \o flags
               \o <<2, 4, 1, 0, 0, 0, 0>> \o <<3, 0, 0>>
               \o <<4, 4, 2, 2, 4, 0, 0, 0, 0, 0, 0, 0, 0, 1, 0>> \o <<0>>
  IN  Append(front, SumTo(front, Len(front)))

\* The length l as half a token and its extension bytes.
Half(l) == IF l < NibbleMax THEN l ELSE NibbleMax
Extended[l \in Nat] ==
  IF l < ByteMax THEN <<l>> ELSE <<ByteMax>> \o Extended[l - ByteMax]
More(l) == IF l < NibbleMax THEN <<>> ELSE Extended[l - NibbleMax]

Literals(text) ==
  <<Half(Len(text)) * (NibbleMax + 1)>> \o More(Len(text)) \o text

\* The block that writes the first n symbols as they are, the next m as a match
\* at the given offset, and the rest as they are.
WithOneMatch(stream, n, offset, m) ==
  <<Half(n) * (NibbleMax + 1) + Half(m - MinMatch)>>
  \o More(n) \o SubSeq(stream, 1, n)
  \o <<offset % (ByteMax + 1), offset \div (ByteMax + 1)>>
  \o More(m - MinMatch)
  \o Literals(SubSeq(stream, n + m + 1, Len(stream)))

\* The places <<n, offset, m>> where it has such a match.
Matches(stream) ==
  {t \in (1..Len(stream)) \X (1..4) \X (MinMatch..8) :
     /\ t[2] <= t[1] /\ t[1] + t[3] < Len(stream)
     /\ \A i \in t[1] + 1..t[1] + t[3] : stream[i] = stream[i - t[2]]}

\* Every file that stands for the canonical stream.
Files(stream) ==
  {stream, Literals(stream)}
  \cup {WithOneMatch(stream, t[1], t[2], t[3]) : t \in Matches(stream)}
================================================================================
