----------------------------- MODULE FastStrstr -----------------------------
(***************************************************************************)
(* The string search engine (fast_strstr.c): fast_str_compile reads the    *)
(* patterns, fast_strstr_filter_one_hashed looks for one of them with a    *)
(* rolling sum, as a C string that starts in the packet.                   *)
(*                                                                         *)
(* A byte is a number below Digit * Digit, a line of the file the sequence *)
(* of what getVal makes of its characters: a digit for 0 to 9 and a to f,  *)
(* a negative number for A to F, a number above the digits for g to z.     *)
(* memory is the packet and what lies behind it up to a zero.              *)
(***************************************************************************)
EXTENDS Integers, Sequences, FiniteSets, SequencesExt, FiniteSetsExt

CONSTANTS
    Digit,          \* 16 in the code
    NEEDLE,         \* index of the pattern searched for: 4 in the code
    UintSize,       \* 2^32 in the code
    FAST_STR_MAX_STRING_SIZE,
    Lines,          \* lines that a file may have, as getVal reads them
    MaxStrings,     \* bound: patterns of a file
    PacketBytes,    \* bytes of packets
    MaxPacket       \* bound: length of a packet

ASSUME StrstrAssumption ==
    /\ Digit \in Nat \ {0} /\ NEEDLE \in Nat
    /\ UintSize \in Nat /\ UintSize >= Digit * Digit
    /\ MaxStrings \in Nat /\ MaxPacket \in Nat
    /\ Lines \subseteq Seq(Int)
    /\ PacketBytes \subseteq 0 .. Digit * Digit - 1

VARIABLES
    strings,        \* fast_strstr_strings, what the file says
    keys,           \* key of strings_tree_t
    memory,         \* the packet at hand and what follows it
    pkt_len,
    found           \* what fast_strstr_filter_one_hashed returned

strstrVars == <<strings, keys, memory, pkt_len, found>>

StrstrInit ==
    /\ strings = <<>> /\ keys = <<>>
    /\ memory = <<0>> /\ pkt_len = 0 /\ found = FALSE

StrstrForget ==
    /\ strings' = <<>> /\ keys' = <<>>
    /\ memory' = <<0>> /\ pkt_len' = 0 /\ found' = FALSE

\* A unit for each 1 of each positive number.
Units(numbers) == UNION {{i} \X (1 .. numbers[i]) : i \in DOMAIN numbers}

\* The sum of a sequence, counted in units.
SumOf(numbers) ==
    Cardinality(Units(numbers))
        - Cardinality(Units([i \in DOMAIN numbers |-> -numbers[i]]))

\* A char is signed.
Char(byte) == IF byte >= (Digit * Digit) \div 2 THEN byte - Digit * Digit ELSE byte

-----------------------------------------------------------------------------
(* fast_str_compile                                                          *)

\* getVal(c) * 16 + getVal(d), for each two characters of the line
Values(line) ==
    [i \in 1 .. Len(line) \div 2 |-> line[2 * i - 1] * Digit + line[2 * i]]

\* tmp[len] = val keeps the low byte.
Decode(line) ==
    [i \in 1 .. Len(line) \div 2 |-> Values(line)[i] % (Digit * Digit)]

\* fast_str_compile refuses a line with an odd character, one that is too long
\* and one with a negative value (addition_overflow).
Compiles(line) ==
    /\ Len(line) % 2 = 0
    /\ Len(line) \div 2 <= FAST_STR_MAX_STRING_SIZE
    /\ \A i \in 1 .. Len(line) \div 2 : Values(line)[i] >= 0

\* The bytes are kept cut, the key is the sum of the values as they were.
CompileLine ==
    /\ Len(strings) < MaxStrings
    /\ \E line \in Lines :
          /\ Compiles(line)
          /\ strings' = Append(strings, Decode(line))
          /\ keys' = Append(keys, SumOf(Values(line)))
    /\ UNCHANGED <<memory, pkt_len, found>>

\* A pattern after strncpy, as a C string.  The search looks at the first byte
\* before it looks for the end, so an empty pattern is a zero byte to it.
Needle(pattern) ==
    LET zeros == {i \in 1 .. Len(pattern) : pattern[i] = 0}
        text == IF zeros = {} THEN pattern ELSE SubSeq(pattern, 1, Min(zeros) - 1)
    IN  IF text = <<>> THEN <<0>> ELSE text

-----------------------------------------------------------------------------
(* fast_strstr_filter_one_hashed                                             *)

\* The place of the first c among the first len bytes, or 0.
mystrchr(s, c, len) ==
    LET places == {i \in 1 .. len : s[i] = c}
    IN  IF places = {} THEN 0 ELSE Min(places)

\* The C string at place h; its first byte is not tested.
StringAt(s, h) ==
    SubSeq(s, h, Min({i \in h + 1 .. Len(s) : s[i] = 0} \cup {Len(s) + 1}) - 1)

\* Where the search is done: from the first byte of the needle in the packet up
\* to the next zero.
Haystack(s, len, c) ==
    LET h == mystrchr(s, c, len)
    IN  IF h = 0 THEN <<>> ELSE StringAt(s, h)

OccursAt(s, k, needle) == \A i \in 1 .. Len(needle) : s[k + i - 1] = needle[i]

\* A sum that misses the byte that enters the window.
SumsDiffStale(hay, k, len, key) ==
    (SumOf([i \in 1 .. len - 1 |-> Char(hay[k + i - 1])]) - key) % UintSize

\* sums_diff when sub_start is at place k of the haystack: kept up to date byte
\* by byte in the code.
SumsDiff(hay, k, len, key) ==
    (SumOf([i \in 1 .. len |-> Char(hay[k + i - 1])]) - key) % UintSize

\* After the first window, all bytes of the needle but the last are compared,
\* and the sums.
WindowMatches(hay, k, needle, key) ==
    /\ SumsDiff(hay, k, Len(needle), key) = 0
    /\ hay[k] = needle[1]
    /\ \A i \in 1 .. Len(needle) - 1 : hay[k + i - 1] = needle[i]

filter_one_hashed(s, len, needle, key) ==
    LET hay == Haystack(s, len, needle[1])
    IN  /\ Len(hay) >= Len(needle)
        /\ \/ OccursAt(hay, 1, needle)
           \/ \E k \in 2 .. Len(hay) - Len(needle) + 1 : WindowMatches(hay, k, needle, key)

Memories ==
    {packet \o rest : packet \in UNION {[1 .. l -> PacketBytes] : l \in 1 .. MaxPacket},
                      rest \in {<<0>>} \cup {<<b, 0>> : b \in PacketBytes}}

\* With too few patterns in the file the needle is whatever lies behind the array.
StrstrFilter(s, len) ==
    /\ memory' = s /\ pkt_len' = len
    /\ IF Len(strings) > NEEDLE
       THEN found' = filter_one_hashed(s, len, Needle(strings[NEEDLE + 1]), keys[1])
       ELSE found' \in BOOLEAN
    /\ UNCHANGED <<strings, keys>>

-----------------------------------------------------------------------------
(* Properties.                                                               *)

CharSum(s) == SumOf([i \in 1 .. Len(s) |-> Char(s[i])])

OccursIn(needle, s) ==
    \E k \in 1 .. Len(s) - Len(needle) + 1 : OccursAt(s, k, needle)

\* All bytes of the needle but the last are there, and the last is off by error.
NearlyAt(s, k, needle, error) ==
    LET l == Len(needle)
    IN  /\ \A i \in 1 .. l - 1 : s[k + i - 1] = needle[i]
        /\ (Char(s[k + l - 1]) - Char(needle[l])) % UintSize = error % UintSize

\* What the search with the rolling sum and the shortened comparison finds, for
\* every packet and every file of patterns.  The needle is pattern NEEDLE and not
\* the first one, as the comment over the function has it; the sum that is
\* subtracted is that of the first pattern.  Where it is the sum of the needle's chars, the search is
\* right: the needle is found if and only if it is in the haystack.  Where it is
\* off by error, the first place is still compared in full, and at a later place
\* a needle is found whose last char is off by error.
SearchExact ==
    Len(strings) > NEEDLE /\ pkt_len > 0 =>
        LET needle == Needle(strings[NEEDLE + 1])
            hay == Haystack(memory, pkt_len, needle[1])
            error == keys[1] - CharSum(needle)
        IN  /\ error % UintSize = 0 => (found <=> OccursIn(needle, hay))
            /\ found <=>
                 \/ Len(hay) >= Len(needle) /\ OccursAt(hay, 1, needle)
                 \/ \E k \in 2 .. Len(hay) - Len(needle) + 1 :
                       NearlyAt(hay, k, needle, error)

=============================================================================
