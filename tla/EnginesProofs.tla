--------------------------- MODULE EnginesProofs ----------------------------
(***************************************************************************)
(* The engines never filter a packet that no rule names, the hash engine   *)
(* filters exactly what the rules but the first name, the modulo engine    *)
(* drops at most 2(m - 1) packets in a row, and what the search with a     *)
(* rolling sum finds is known, for every rule set, argument, pattern,      *)
(* packet, burst size and int width and for any number of deaths of the    *)
(* slave.                                                                  *)
(***************************************************************************)
EXTENDS Engines, FiniteSetTheorems, SequenceTheorems, WellFoundedInduction, TLAPS

Key(j) == convert_ipv4_5tuple(Rules[j])
KeySet == {Key(j) : j \in 1 .. Len(Rules)}

\* The table in shared memory holds keys of rules only, each once and that of the
\* first rule in front, whoever filled it and wherever a slave died.
TableInv ==
    /\ table \in Seq(KeySet)
    /\ \A p, q \in 1 .. Len(table) : table[p] = table[q] => p = q
    /\ Len(table) > 0 => table[1] = Key(1)

\* What the slave has added is there, and its lookups use that table.
FilledInv ==
    /\ created \in BOOLEAN /\ socket \in {0, 1}
    /\ lookup4 \subseteq {0, 1} /\ lookup1 \in BOOLEAN
    /\ adding \in 0 .. Len(Rules) + 1
    /\ \A j \in 1 .. Len(Rules) : j < adding \/ lookup1 => Contains(table, Key(j))
    /\ adding > 0 \/ lookup1 => lookup4 = {socket}

BurstInv ==
    /\ life = "init" => burst = <<>>
    /\ NoFalseFilter
    /\ HashExact

HashInv == TableInv /\ FilledInv /\ BurstInv

\* A run of dropped packets is no longer than the number of the packet modulo m,
\* up to m - 1 more on the negative side of the overflow.
ModuloInv ==
    /\ modulo \in Moduli \cup {0} /\ n \in -IntMax - 1 .. IntMax /\ dropped \in Nat
    /\ modulo = 0 => n = 0 /\ dropped = 0
    /\ life = "init" => modulo = 0
    /\ modulo # 0 =>
          /\ n >= 0 => dropped <= n % Abs(modulo)
          /\ n < 0 => dropped <= (Abs(modulo) - 1) + (n % Abs(modulo))

\* Strings and keys come from the lines, and no packet is at hand while they are
\* read.
StrstrInv ==
    /\ strings \in Seq({Decode(line) : line \in Lines})
    /\ keys \in Seq({SumOf(Values(line)) : line \in Lines})
    /\ Len(strings) <= MaxStrings /\ Len(keys) = Len(strings)
    /\ pkt_len \in 0 .. MaxPacket /\ found \in BOOLEAN
    /\ life = "init" => pkt_len = 0
    /\ SearchExact

LifeInv ==
    /\ engine \in Names /\ life \in {"init", "loop", "dead"}
    /\ program \in BOOLEAN /\ crashes \in 0 .. MaxCrashes

EnginesInv == LifeInv /\ HashInv /\ ModuloInv /\ StrstrInv

-----------------------------------------------------------------------------
(* Arithmetic.                                                               *)

\* Division with remainder, as the % of the modulo engine and the groups of a
\* burst use it.
LEMMA DivMod ==
    ASSUME NEW i \in Int, NEW m \in Nat \ {0}
    PROVE  /\ i = m * (i \div m) + (i % m)
           /\ i % m \in 0 .. m - 1
           /\ i \div m \in Int
  OBVIOUS

\* Multiples of m are m apart.
LEMMA MultiplesApart ==
    ASSUME NEW a \in Int, NEW b \in Int, NEW m \in Nat \ {0}, a < b
    PROVE  m * a + m <= m * b
<1>1. PICK d \in Nat : b = a + 1 + d
  <2>. WITNESS b - a - 1 \in Nat
  <2>. QED  OBVIOUS
<1>2. m * b = m * a + m + m * d
  BY <1>1
<1>3. m * d \in Nat /\ m * a \in Int /\ m * b \in Int
  OBVIOUS
<1>. QED  BY <1>2, <1>3

\* The next number has the next remainder, unless that is 0.
LEMMA NextRemainder ==
    ASSUME NEW i \in Int, NEW m \in Nat \ {0}, (i + 1) % m # 0
    PROVE  (i + 1) % m = (i % m) + 1
<1>. DEFINE q == i \div m
            p == (i + 1) \div m
            r == i % m
            s == (i + 1) % m
<1>1. i = m * q + r /\ r \in 0 .. m - 1 /\ q \in Int
  BY DivMod
<1>2. i + 1 = m * p + s /\ s \in 0 .. m - 1 /\ p \in Int
  BY DivMod, i + 1 \in Int
<1>3. m * p \in Int /\ m * q \in Int
  BY <1>1, <1>2
<1>. HIDE DEF q, p, r, s
<1>4. ~(p < q)
  <2>1. SUFFICES ASSUME p < q PROVE FALSE
    OBVIOUS
  <2>2. m * p + m <= m * q
    BY <1>1, <1>2, <2>1, MultiplesApart
  <2>. QED  BY <2>2, <1>1, <1>2, <1>3
<1>5. ~(q < p)
  <2>1. SUFFICES ASSUME q < p PROVE FALSE
    OBVIOUS
  <2>2. m * q + m <= m * p
    BY <1>1, <1>2, <2>1, MultiplesApart
  <2>3. s # 0
    BY DEF s
  <2>. QED  BY <2>2, <2>3, <1>1, <1>2, <1>3
<1>6. p = q
  BY <1>1, <1>2, <1>4, <1>5
<1>7. s = r + 1
  BY <1>1, <1>2, <1>3, <1>6
<1>. QED  BY <1>7 DEF s, r

-----------------------------------------------------------------------------
(* The modulo engine.                                                        *)

\* modulo_engine keeps the bound on the run of dropped packets, across the
\* overflow of n too.
LEMMA ModuloStep ==
    ASSUME ModuloInv, life = "loop", UNCHANGED life, modulo_engine
    PROVE  ModuloInv'
<1>. DEFINE m == Abs(modulo)
<1>1. /\ modulo \in Int /\ modulo # 0 /\ modulo' = modulo
      /\ n \in -IntMax - 1 .. IntMax /\ dropped \in Nat
      /\ IntMax \in Nat \ {0}
      /\ modulo \in Moduli \cup {0}
  BY ModuloAssumption DEF ModuloInv, modulo_engine, ModuloDivides
<1>2. m \in Nat \ {0} /\ Abs(modulo') = m
  BY <1>1 DEF Abs
<1>3. /\ n' = PlusPlus(n)
      /\ dropped' = IF n' % m = 0 THEN 0 ELSE dropped + 1
  BY DEF modulo_engine
<1>4. n' \in -IntMax - 1 .. IntMax /\ n' \in Int /\ n \in Int /\ dropped' \in Nat
  BY <1>1, <1>3 DEF PlusPlus
<1>5. /\ n >= 0 => dropped <= n % m
      /\ n < 0 => dropped <= (m - 1) + (n % m)
  BY <1>1 DEF ModuloInv
<1>. HIDE DEF m
<1>6. n % m \in 0 .. m - 1 /\ n' % m \in 0 .. m - 1
  BY <1>2, <1>4, DivMod
<1>7. /\ n' >= 0 => dropped' <= n' % m
      /\ n' < 0 => dropped' <= (m - 1) + (n' % m)
  <2>1. CASE n' % m = 0
    BY <2>1, <1>2, <1>3, <1>4
  <2>2. CASE n' % m # 0 /\ n = IntMax
    <3>1. n' < 0 /\ ~(n' >= 0) /\ n >= 0
      BY <2>2, <1>1, <1>3 DEF PlusPlus
    <3>2. dropped <= m - 1 /\ dropped' = dropped + 1 /\ n' % m >= 1
      BY <3>1, <2>2, <1>1, <1>2, <1>3, <1>5, <1>6
    <3>. QED  BY <3>1, <3>2, <1>1, <1>2, <1>6
  <2>3. CASE n' % m # 0 /\ n # IntMax
    <3>1. n' = n + 1
      BY <2>3, <1>3 DEF PlusPlus
    <3>2. n' % m = (n % m) + 1
      BY <3>1, <2>3, <1>2, <1>4, NextRemainder
    <3>3. n' # 0
      BY <2>3, <1>2
    <3>4. dropped' = dropped + 1
      BY <2>3, <1>3
    <3>. QED  BY <3>1, <3>2, <3>3, <3>4, <1>1, <1>2, <1>4, <1>5, <1>6
  <2>. QED  BY <2>1, <2>2, <2>3
<1>. QED  BY <1>1, <1>2, <1>4, <1>7 DEF ModuloInv

\* The bound that the run checks follows.
LEMMA SpacingFollows ==
    ASSUME ModuloInv
    PROVE  ModuloSpacing
<1>. SUFFICES ASSUME modulo # 0
              PROVE  dropped <= 2 * (Abs(modulo) - 1)
  BY DEF ModuloSpacing
<1>. DEFINE m == Abs(modulo)
<1>1. m \in Nat \ {0} /\ n \in Int /\ dropped \in Nat
  BY ModuloAssumption DEF ModuloInv, Abs
<1>2. /\ n >= 0 => dropped <= n % m
      /\ n < 0 => dropped <= (m - 1) + (n % m)
  BY DEF ModuloInv
<1>. HIDE DEF m
<1>3. n % m \in 0 .. m - 1
  BY <1>1, DivMod
<1>4. dropped <= 2 * (m - 1)
  BY <1>1, <1>2, <1>3
<1>. QED  BY <1>4 DEF m

-----------------------------------------------------------------------------
(* The table of the hash engine.                                             *)

\* The byte order conversion loses nothing: two addresses with the same bytes are
\* the same.
LEMMA BigEndianInjective ==
    ASSUME NEW a \in Addresses, NEW b \in Addresses, BigEndian(a) = BigEndian(b)
    PROVE  a = b
<1>1. a \in Int /\ b \in Int /\ Byte \in Nat \ {0}
  BY HashAssumption
<1>2. a \div Byte = b \div Byte /\ a % Byte = b % Byte
  BY DEF BigEndian
<1>3. a = Byte * (a \div Byte) + (a % Byte)
  BY <1>1, DivMod
<1>4. b = Byte * (b \div Byte) + (b % Byte)
  BY <1>1, DivMod
<1>. QED  BY <1>2, <1>3, <1>4

\* A rule of the array has addresses of packets.
LEMMA RuleType ==
    ASSUME NEW j \in 1 .. Len(Rules)
    PROVE  Rules[j] \in [ip_dst : Addresses, ip_src : Addresses]
<1>. DEFINE S == [ip_dst : Addresses, ip_src : Addresses]
<1>1. Rules \in Seq(S)
  BY HashAssumption
<1>. HIDE DEF S
<1>2. Rules[j] \in S
  BY <1>1
<1>. QED  BY <1>2 DEF S

\* No later rule has the key of the first.
LEMMA FirstKeyAlone ==
    ASSUME NEW j \in 2 .. Len(Rules)
    PROVE  Key(j) # Key(1)
<1>1. Len(Rules) \in Nat
  BY HashAssumption
<1>2. j \in 1 .. Len(Rules) /\ 1 \in 1 .. Len(Rules)
  BY <1>1
<1>3. /\ Rules[j] \in [ip_dst : Addresses, ip_src : Addresses]
      /\ Rules[1] \in [ip_dst : Addresses, ip_src : Addresses]
  BY <1>2, RuleType
<1>. SUFFICES ASSUME Key(j) = Key(1)
              PROVE  FALSE
  OBVIOUS
<1>4. /\ BigEndian(Rules[j].ip_dst) = BigEndian(Rules[1].ip_dst)
      /\ BigEndian(Rules[j].ip_src) = BigEndian(Rules[1].ip_src)
  BY DEF Key, convert_ipv4_5tuple
<1>5. /\ Rules[j].ip_dst = Rules[1].ip_dst
      /\ Rules[j].ip_src = Rules[1].ip_src
  BY <1>3, <1>4, BigEndianInjective
<1>6. Rules[j] = Rules[1]
  BY <1>3, <1>5
<1>. QED  BY <1>6, HashAssumption

\* A packet matches a rule when rte_hash_lookup compares equal keys.
LEMMA MatchesIsKey ==
    ASSUME NEW packet, NEW j
    PROVE  Matches(packet, Rules[j]) <=> KeyOf(packet) = Key(j)
  BY DEF Matches, KeyOf, Key, convert_ipv4_5tuple

\* A positive position is that of a rule but the first.
LEMMA PositionPositive ==
    ASSUME TableInv, NEW key
    PROVE  /\ Position(key) \in Int
           /\ Position(key) > 0 => \E j \in 2 .. Len(Rules) : key = Key(j)
<1>1. CASE ~Contains(table, key)
  BY <1>1 DEF Position
<1>2. CASE Contains(table, key)
  <2>. DEFINE P == CHOOSE i \in 0 .. Len(table) - 1 : table[i + 1] = key
  <2>1. Len(table) \in Nat
    BY DEF TableInv
  <2>2. \E i \in 0 .. Len(table) - 1 : table[i + 1] = key
    <3>1. PICK i \in 1 .. Len(table) : table[i] = key
      BY <1>2 DEF Contains
    <3>2. i - 1 \in 0 .. Len(table) - 1 /\ (i - 1) + 1 = i
      BY <2>1
    <3>. QED  BY <3>1, <3>2
  <2>3. P \in 0 .. Len(table) - 1 /\ table[P + 1] = key
    BY <2>2
  <2>4. Position(key) = P
    BY <1>2 DEF Position
  <2>. HIDE DEF P
  <2>5. ASSUME P > 0
        PROVE  \E j \in 2 .. Len(Rules) : key = Key(j)
    <3>1. P + 1 \in 1 .. Len(table) /\ 1 \in 1 .. Len(table) /\ P + 1 # 1
      BY <2>1, <2>3, <2>5
    <3>2. table[P + 1] \in KeySet
      BY <3>1 DEF TableInv
    <3>3. PICK j \in 1 .. Len(Rules) : table[P + 1] = Key(j)
      BY <3>2 DEF KeySet
    <3>4. table[1] = Key(1) /\ table[P + 1] # table[1]
      BY <3>1, <2>1 DEF TableInv
    <3>5. j # 1
      BY <3>3, <3>4
    <3>6. j \in 2 .. Len(Rules)
      BY <3>5, HashAssumption
    <3>. QED  BY <3>3, <3>6, <2>3
  <2>. QED  BY <2>1, <2>3, <2>4, <2>5
<1>. QED  BY <1>1, <1>2

\* The key of a later rule that is in the table has a positive position.
LEMMA PositionOfLater ==
    ASSUME TableInv, NEW j \in 2 .. Len(Rules), Contains(table, Key(j))
    PROVE  Position(Key(j)) > 0
<1>. DEFINE P == CHOOSE i \in 0 .. Len(table) - 1 : table[i + 1] = Key(j)
<1>1. Len(table) \in Nat
  BY DEF TableInv
<1>2. \E i \in 0 .. Len(table) - 1 : table[i + 1] = Key(j)
  <2>1. PICK i \in 1 .. Len(table) : table[i] = Key(j)
    BY DEF Contains
  <2>2. i - 1 \in 0 .. Len(table) - 1 /\ (i - 1) + 1 = i
    BY <1>1
  <2>. QED  BY <2>1, <2>2
<1>3. P \in 0 .. Len(table) - 1 /\ table[P + 1] = Key(j)
  BY <1>2
<1>4. Position(Key(j)) = P
  BY DEF Position
<1>. HIDE DEF P
<1>5. P # 0
  <2>. SUFFICES ASSUME P = 0
                PROVE  FALSE
    OBVIOUS
  <2>1. table[1] = Key(j) /\ Len(table) > 0
    BY <1>1, <1>3
  <2>2. table[1] = Key(1)
    BY <2>1 DEF TableInv
  <2>. QED  BY <2>1, <2>2, FirstKeyAlone
<1>. QED  BY <1>1, <1>3, <1>4, <1>5

\* The table has no more entries than there are rules: each entry is the key of
\* a rule, and no key is there twice.
LEMMA TableFits ==
    ASSUME TableInv
    PROVE  Len(table) <= Len(Rules)
<1>1. Len(table) \in Nat /\ Len(Rules) \in Nat
  BY HashAssumption DEF TableInv
<1>2. \A p \in 1 .. Len(table) : \E j \in 1 .. Len(Rules) : table[p] = Key(j)
  BY DEF TableInv, KeySet
<1>. DEFINE f == [p \in 1 .. Len(table) |->
                    CHOOSE j \in 1 .. Len(Rules) : table[p] = Key(j)]
<1>3. \A p \in 1 .. Len(table) : f[p] \in 1 .. Len(Rules) /\ table[p] = Key(f[p])
  BY <1>2
<1>4. f \in [1 .. Len(table) -> 1 .. Len(Rules)]
  BY <1>3
<1>. HIDE DEF f
<1>5. \A p, q \in 1 .. Len(table) : f[p] = f[q] => p = q
  BY <1>3 DEF TableInv
<1>6. f \in Injection(1 .. Len(table), 1 .. Len(Rules))
  BY <1>4, <1>5 DEF Injection, IsInjective
<1>7. IsFiniteSet(1 .. Len(Rules))
  BY <1>1, FS_Interval
<1>8. Cardinality(1 .. Len(table)) <= Cardinality(1 .. Len(Rules))
  BY <1>6, <1>7, FS_Injection
<1>9. /\ Cardinality(1 .. Len(table)) = Len(table)
      /\ Cardinality(1 .. Len(Rules)) = Len(Rules)
  <2>1. ASSUME NEW l \in Nat
        PROVE  Cardinality(1 .. l) = l
    <3>1. Cardinality(1 .. l) = IF 1 > l THEN 0 ELSE l - 1 + 1
      BY l \in Int, 1 \in Int, FS_Interval
    <3>. QED  BY <3>1
  <2>. QED  BY <1>1, <2>1
<1>. QED  BY <1>8, <1>9

-----------------------------------------------------------------------------
(* init_hash and the lookups.                                                *)

\* rte_hash_add_key keeps the order of the table and adds what it is given.
LEMMA AddKeyStep ==
    ASSUME TableInv, FilledInv, HashAddKey
    PROVE  TableInv' /\ FilledInv'
<1>. DEFINE k == Key(adding)
<1>1. /\ adding \in 1 .. Len(Rules) /\ Len(Rules) \in Nat /\ Len(table) \in Nat
      /\ adding \in Nat
      /\ table \in Seq(KeySet) /\ k \in KeySet
  <2>1. adding \in 1 .. Len(Rules) /\ Len(Rules) \in Nat
    BY HashAssumption DEF HashAddKey
  <2>2. k \in KeySet
    BY <2>1 DEF KeySet
  <2>3. table \in Seq(KeySet) /\ Len(table) \in Nat
    BY DEF TableInv
  <2>. QED  BY <2>1, <2>2, <2>3
<1>2. /\ table' = IF Contains(table, k) THEN table ELSE Append(table, k)
      /\ adding' = adding + 1
      /\ UNCHANGED <<created, socket, lookup4, lookup1>>
  BY DEF HashAddKey, Key
<1>3. adding > 1 => Len(table) > 0
  <2>. SUFFICES ASSUME adding > 1
                PROVE  Len(table) > 0
    OBVIOUS
  <2>1. 1 \in 1 .. Len(Rules) /\ 1 < adding
    BY <1>1
  <2>2. Contains(table, Key(1))
    BY <2>1 DEF FilledInv
  <2>3. PICK i \in 1 .. Len(table) : table[i] = Key(1)
    BY <2>2 DEF Contains
  <2>. QED  BY <2>3, <1>1
<1>4. CASE Contains(table, k)
  <2>1. table' = table
    BY <1>2, <1>4
  <2>2. TableInv'
    BY <2>1 DEF TableInv
  <2>3. \A j \in 1 .. Len(Rules) : (j < adding \/ lookup1) => Contains(table, Key(j))
    BY DEF FilledInv
  <2>4. \A j \in 1 .. Len(Rules) : (j < adding') => (j < adding \/ j = adding)
    BY <1>1, <1>2
  <2>5. \A j \in 1 .. Len(Rules) : (j < adding' \/ lookup1') => Contains(table', Key(j))
    BY <2>1, <2>3, <2>4, <1>2, <1>4
  <2>6. /\ created' \in BOOLEAN /\ socket' \in {0, 1}
        /\ lookup4' \subseteq {0, 1} /\ lookup1' \in BOOLEAN
        /\ adding' \in 0 .. Len(Rules) + 1
        /\ lookup4' = {socket'}
    BY <1>1, <1>2 DEF FilledInv
  <2>. QED  BY <2>2, <2>5, <2>6 DEF FilledInv
<1>5. CASE ~Contains(table, k)
  <2>1. /\ table' = Append(table, k)
        /\ Len(table') = Len(table) + 1
        /\ table' \in Seq(KeySet)
        /\ \A p \in 1 .. Len(table) : table'[p] = table[p]
        /\ table'[Len(table) + 1] = k
    BY <1>1, <1>2, <1>5
  <2>2. \A p \in 1 .. Len(table) : table[p] # k
    BY <1>5 DEF Contains
  <2>3. ASSUME NEW p \in 1 .. Len(table'), NEW q \in 1 .. Len(table'), table'[p] = table'[q]
        PROVE  p = q
    <3>1. CASE p \in 1 .. Len(table) /\ q \in 1 .. Len(table)
      BY <3>1, <2>1, <2>3 DEF TableInv
    <3>2. CASE p = Len(table) + 1 /\ q \in 1 .. Len(table)
      BY <3>2, <2>1, <2>2, <2>3
    <3>3. CASE p \in 1 .. Len(table) /\ q = Len(table) + 1
      BY <3>3, <2>1, <2>2, <2>3
    <3>4. CASE p = Len(table) + 1 /\ q = Len(table) + 1
      BY <3>4
    <3>. QED  BY <3>1, <3>2, <3>3, <3>4, <2>1, <1>1
  <2>4. table'[1] = Key(1)
    <3>1. CASE Len(table) > 0
      <4>1. 1 \in 1 .. Len(table)
        BY <3>1, <1>1
      <4>. QED  BY <4>1, <3>1, <2>1 DEF TableInv
    <3>2. CASE Len(table) = 0
      <4>1. adding = 1
        BY <3>2, <1>1, <1>3
      <4>2. table'[1] = k
        BY <3>2, <2>1
      <4>. QED  BY <4>1, <4>2
    <3>. QED  BY <3>1, <3>2, <1>1
  <2>5. TableInv'
    BY <2>1, <2>3, <2>4 DEF TableInv
  <2>6. \A j \in 1 .. Len(Rules) : (j < adding \/ lookup1) => Contains(table, Key(j))
    BY DEF FilledInv
  <2>7. \A j \in 1 .. Len(Rules) : (j < adding') => (j < adding \/ j = adding)
    BY <1>1, <1>2
  <2>8. \A key : Contains(table, key) => Contains(table', key)
    <3>. SUFFICES ASSUME NEW key, Contains(table, key)
                  PROVE  Contains(table', key)
      OBVIOUS
    <3>1. PICK i \in 1 .. Len(table) : table[i] = key
      BY DEF Contains
    <3>2. i \in 1 .. Len(table') /\ table'[i] = key
      BY <3>1, <2>1, <1>1
    <3>. QED  BY <3>2 DEF Contains
  <2>9. Contains(table', k)
    <3>1. Len(table) + 1 \in 1 .. Len(table')
      BY <2>1, <1>1
    <3>. QED  BY <3>1, <2>1 DEF Contains
  <2>10. \A j \in 1 .. Len(Rules) : (j < adding' \/ lookup1') => Contains(table', Key(j))
    BY <2>6, <2>7, <2>8, <2>9, <1>2
  <2>11. /\ created' \in BOOLEAN /\ socket' \in {0, 1}
         /\ lookup4' \subseteq {0, 1} /\ lookup1' \in BOOLEAN
         /\ adding' \in 0 .. Len(Rules) + 1
         /\ lookup4' = {socket'}
    BY <1>1, <1>2 DEF FilledInv
  <2>. QED  BY <2>5, <2>10, <2>11 DEF FilledInv
<1>. QED  BY <1>4, <1>5

\* A burst is a sequence of packets.
LEMMA BurstType ==
    ASSUME NEW packets \in Bursts
    PROVE  /\ packets \in Seq(Packets) /\ Len(packets) \in Nat
           /\ DOMAIN packets = 1 .. Len(packets)
<1>1. PICK l \in 1 .. MaxBurst : packets \in [1 .. l -> Packets]
  BY DEF Bursts
<1>2. l \in Nat
  BY HashAssumption
<1>. HIDE DEF Packets
<1>3. packets \in Seq(Packets)
  BY <1>1, <1>2
<1>. QED  BY <1>3

\* The place of a packet in its group of GROUP is the place in the burst: the
\* results of a group come back to the packets they were asked for.
LEMMA GroupIndex ==
    ASSUME NEW packets \in Bursts, NEW i \in DOMAIN packets, Together(packets, i)
    PROVE  /\ ((i - 1) % GROUP) + 1 \in DOMAIN GroupOf(packets, i)
           /\ GroupOf(packets, i)[((i - 1) % GROUP) + 1] = packets[i]
<1>. DEFINE d == (i - 1) \div GROUP
            r == (i - 1) % GROUP
            first == d * GROUP + 1
            last == first + GROUP - 1
<1>1. i \in Nat /\ i - 1 \in Int /\ GROUP \in Nat \ {0} /\ i >= 1
  BY BurstType, HashAssumption
<1>2. i - 1 = GROUP * d + r /\ r \in 0 .. GROUP - 1 /\ d \in Int
  BY <1>1, DivMod
<1>3. last <= Len(packets)
  BY DEF Together
<1>4. GroupOf(packets, i) = SubSeq(packets, first, last)
  BY DEF GroupOf
<1>. HIDE DEF d, r
<1>5. d \in Nat /\ d * GROUP \in Nat /\ GROUP * d = d * GROUP
  <2>1. ~(d < 0)
    <3>1. SUFFICES ASSUME d < 0 PROVE FALSE
      OBVIOUS
    <3>2. GROUP * d + GROUP <= GROUP * 0
      BY <3>1, <1>1, <1>2, MultiplesApart
    <3>3. GROUP * d \in Int /\ GROUP * 0 = 0
      BY <1>1, <1>2
    <3>. QED  BY <3>2, <3>3, <1>1, <1>2
  <2>. QED  BY <2>1, <1>1, <1>2
<1>6. first \in Nat /\ first >= 1 /\ last \in Nat /\ i = first + r
  BY <1>1, <1>2, <1>5
<1>7. /\ packets \in Seq(Packets) /\ Len(packets) \in Nat
  BY BurstType
<1>. HIDE DEF first, last, Packets
<1>8. last = first + GROUP - 1
  BY DEF last
<1>9. /\ SubSeq(packets, first, last) \in Seq(Packets)
      /\ DOMAIN SubSeq(packets, first, last) = 1 .. GROUP
      /\ \A x \in 1 .. GROUP : SubSeq(packets, first, last)[x] = packets[first + x - 1]
  BY <1>1, <1>3, <1>6, <1>7, <1>8
<1>10. r + 1 \in 1 .. GROUP /\ first + (r + 1) - 1 = i
  BY <1>1, <1>2, <1>6
<1>11. /\ r + 1 \in DOMAIN GroupOf(packets, i)
       /\ GroupOf(packets, i)[r + 1] = packets[i]
  BY <1>4, <1>9, <1>10
<1>. QED  BY <1>11 DEF r

\* What a lookup returns, alone or in a group: the position of the packet's key,
\* or a value that does not filter when the table it asks is missing.
LEMMA LookupValue ==
    ASSUME NEW packets \in Bursts, NEW i \in DOMAIN packets
    PROVE  /\ \/ Lookup(packets, i) = Position(KeyOf(packets[i]))
              \/ Lookup(packets, i) \in {0, -22}
           /\ lookup1 /\ 0 \in lookup4 => Lookup(packets, i) = Position(KeyOf(packets[i]))
<1>1. CASE Together(packets, i)
  <2>. DEFINE g == GroupOf(packets, i)
              x == ((i - 1) % GROUP) + 1
  <2>1. x \in DOMAIN g /\ g[x] = packets[i]
    BY <1>1, GroupIndex
  <2>2. Lookup(packets, i) = hash_pkt_filter4(g)[x]
    BY <1>1 DEF Lookup
  <2>. HIDE DEF g, x
  <2>3. hash_pkt_filter4(g)[x] = IF 0 \in lookup4 THEN Position(KeyOf(g[x])) ELSE 0
    BY <2>1 DEF hash_pkt_filter4
  <2>. QED  BY <2>1, <2>2, <2>3
<1>2. CASE ~Together(packets, i)
  BY <1>2 DEF Lookup, hash_pkt_filter
<1>. QED  BY <1>1, <1>2

\* A burst is filtered as the rules say.
LEMMA FilterStep ==
    ASSUME TableInv, FilledInv, NEW packets \in Bursts, HashFilter(packets)
    PROVE  NoFalseFilter' /\ HashExact'
<1>1. /\ burst' = packets
      /\ filtered' = [i \in DOMAIN packets |-> Lookup(packets, i) > 0]
      /\ UNCHANGED <<socket, lookup1>>
  BY DEF HashFilter
<1>2. ASSUME NEW i \in DOMAIN packets, Lookup(packets, i) > 0
      PROVE  \E j \in 2 .. Len(Rules) : Matches(packets[i], Rules[j])
  <2>1. Lookup(packets, i) = Position(KeyOf(packets[i]))
    <3>1. Lookup(packets, i) \notin {0, -22}
      BY <1>2
    <3>. QED  BY <3>1, LookupValue
  <2>2. Position(KeyOf(packets[i])) > 0
    BY <1>2, <2>1
  <2>3. PICK j \in 2 .. Len(Rules) : KeyOf(packets[i]) = Key(j)
    BY <2>2, PositionPositive
  <2>. QED  BY <2>3, MatchesIsKey
<1>3. ASSUME NEW i \in DOMAIN packets, socket = 0, lookup1,
             NEW j \in 2 .. Len(Rules), Matches(packets[i], Rules[j])
      PROVE  Lookup(packets, i) > 0
  <2>1. 0 \in lookup4
    BY <1>3 DEF FilledInv
  <2>2. Lookup(packets, i) = Position(KeyOf(packets[i]))
    BY <2>1, <1>3, LookupValue
  <2>3. KeyOf(packets[i]) = Key(j)
    BY <1>3, MatchesIsKey
  <2>4. j \in 1 .. Len(Rules)
    BY HashAssumption
  <2>5. Contains(table, Key(j))
    BY <2>4, <1>3 DEF FilledInv
  <2>6. Position(Key(j)) > 0
    BY <2>5, PositionOfLater
  <2>. QED  BY <2>2, <2>3, <2>6
<1>4. NoFalseFilter'
  <2>. SUFFICES ASSUME NEW i \in DOMAIN packets, Lookup(packets, i) > 0
                PROVE  \E j \in 1 .. Len(Rules) : Matches(packets[i], Rules[j])
    BY <1>1 DEF NoFalseFilter, Matches
  <2>1. PICK j \in 2 .. Len(Rules) : Matches(packets[i], Rules[j])
    BY <1>2
  <2>2. j \in 1 .. Len(Rules)
    BY HashAssumption
  <2>. QED  BY <2>1, <2>2
<1>5. HashExact'
  <2>. SUFFICES ASSUME socket = 0, lookup1, NEW i \in DOMAIN packets
                PROVE  Lookup(packets, i) > 0
                         <=> \E j \in 2 .. Len(Rules) : Matches(packets[i], Rules[j])
    BY <1>1 DEF HashExact, Matches
  <2>. QED  BY <1>2, <1>3
<1>. QED  BY <1>4, <1>5

-----------------------------------------------------------------------------
(* Sums.                                                                     *)

Positive(x) == IF x > 0 THEN x ELSE 0

\* The units of all numbers but the last.
UnitsBefore(f, l) == UNION {{i} \X (1 .. f[i]) : i \in 1 .. l - 1}

\* The units of one number.
LEMMA UnitsOfOne ==
    ASSUME NEW i, NEW x \in Int
    PROVE  /\ IsFiniteSet({i} \X (1 .. x))
           /\ Cardinality({i} \X (1 .. x)) = Positive(x)
<1>1. IsFiniteSet(1 .. x) /\ Cardinality(1 .. x) = IF 1 > x THEN 0 ELSE x - 1 + 1
  BY 1 \in Int, FS_Interval
<1>2. IsFiniteSet({i}) /\ Cardinality({i}) = 1
  BY FS_Singleton
<1>3. /\ IsFiniteSet({i} \X (1 .. x))
      /\ Cardinality({i} \X (1 .. x)) = Cardinality({i}) * Cardinality(1 .. x)
  BY <1>1, <1>2, FS_Product
<1>4. Cardinality(1 .. x) = Positive(x) /\ Positive(x) \in Int
  BY <1>1 DEF Positive
<1>. QED  BY <1>2, <1>3, <1>4

\* The units of the last number are added to those of the others.
LEMMA UnitsSplit ==
    ASSUME NEW l \in Nat \ {0}, NEW f \in [1 .. l -> Int]
    PROVE  /\ IsFiniteSet(UnitsBefore(f, l))
           /\ Cardinality(UnitsBefore(f, l)) \in Nat
           /\ Cardinality(Units(f)) = Cardinality(UnitsBefore(f, l)) + Positive(f[l])
<1>. DEFINE A == UnitsBefore(f, l)
            B == {l} \X (1 .. f[l])
            C == {{i} \X (1 .. f[i]) : i \in 1 .. l - 1}
<1>1. IsFiniteSet(1 .. l - 1)
  BY 1 \in Int, l - 1 \in Int, FS_Interval
<1>2. IsFiniteSet(C)
  <2>. DEFINE g == [i \in 1 .. l - 1 |-> {i} \X (1 .. f[i])]
  <2>1. C = {g[i] : i \in 1 .. l - 1}
    OBVIOUS
  <2>2. g \in Surjection(1 .. l - 1, C)
    BY <2>1 DEF Surjection
  <2>. QED  BY <1>1, <2>2, FS_Surjection
<1>3. \A c \in C : IsFiniteSet(c)
  <2>. SUFFICES ASSUME NEW i \in 1 .. l - 1
                PROVE  IsFiniteSet({i} \X (1 .. f[i]))
    OBVIOUS
  <2>1. f[i] \in Int
    OBVIOUS
  <2>. QED  BY <2>1, UnitsOfOne
<1>4. IsFiniteSet(A)
  BY <1>2, <1>3, FS_UNION DEF UnitsBefore
<1>5. f[l] \in Int
  OBVIOUS
<1>6. IsFiniteSet(B) /\ Cardinality(B) = Positive(f[l])
  BY <1>5, UnitsOfOne
<1>7. Units(f) = A \cup B
  <2>1. DOMAIN f = (1 .. l - 1) \cup {l}
    OBVIOUS
  <2>. QED  BY <2>1 DEF Units, UnitsBefore
<1>8. A \cap B = {}
  BY DEF UnitsBefore
<1>9. Cardinality(A \cap B) = 0
  BY <1>8, FS_EmptySet
<1>. HIDE DEF A, B
<1>10. Cardinality(A \cup B) = Cardinality(A) + Cardinality(B) - Cardinality(A \cap B)
  BY <1>4, <1>6, FS_Union
<1>11. Cardinality(A) \in Nat /\ Cardinality(B) \in Nat
  BY <1>4, <1>6, FS_CardinalityType
<1>12. Cardinality(A \cup B) = Cardinality(A) + Cardinality(B)
  BY <1>9, <1>10, <1>11
<1>13. IsFiniteSet(UnitsBefore(f, l)) /\ Cardinality(UnitsBefore(f, l)) \in Nat
  BY <1>4, <1>11 DEF A
<1>14. Cardinality(Units(f)) = Cardinality(UnitsBefore(f, l)) + Positive(f[l])
  BY <1>6, <1>7, <1>12 DEF A
<1>. QED  BY <1>13, <1>14

\* Sums of sequences that agree but for the last number differ by that number:
\* what the rolling sum is compared for.
LEMMA SumsDiffer ==
    ASSUME NEW l \in Nat \ {0}, NEW f \in [1 .. l -> Int], NEW g \in [1 .. l -> Int],
           \A i \in 1 .. l - 1 : f[i] = g[i]
    PROVE  /\ SumOf(f) \in Int /\ SumOf(g) \in Int
           /\ SumOf(f) - SumOf(g) = f[l] - g[l]
<1>. DEFINE mf == [i \in 1 .. l |-> -f[i]]
            mg == [i \in 1 .. l |-> -g[i]]
<1>1. mf \in [1 .. l -> Int] /\ mg \in [1 .. l -> Int]
  OBVIOUS
<1>2. mf[l] = -f[l] /\ mg[l] = -g[l] /\ f[l] \in Int /\ g[l] \in Int
  OBVIOUS
<1>3. SumOf(f) = Cardinality(Units(f)) - Cardinality(Units(mf))
  BY DEF SumOf
<1>4. SumOf(g) = Cardinality(Units(g)) - Cardinality(Units(mg))
  BY DEF SumOf
<1>5. UnitsBefore(f, l) = UnitsBefore(g, l)
  BY DEF UnitsBefore
<1>6. UnitsBefore(mf, l) = UnitsBefore(mg, l)
  <2>1. \A i \in 1 .. l - 1 : mf[i] = mg[i]
    OBVIOUS
  <2>. QED  BY <2>1 DEF UnitsBefore
<1>. HIDE DEF mf, mg
<1>7. /\ Cardinality(UnitsBefore(f, l)) \in Nat
      /\ Cardinality(Units(f)) = Cardinality(UnitsBefore(f, l)) + Positive(f[l])
  BY UnitsSplit
<1>8. Cardinality(Units(g)) = Cardinality(UnitsBefore(g, l)) + Positive(g[l])
  BY UnitsSplit
<1>9. /\ Cardinality(UnitsBefore(mf, l)) \in Nat
      /\ Cardinality(Units(mf)) = Cardinality(UnitsBefore(mf, l)) + Positive(mf[l])
  BY <1>1, UnitsSplit
<1>10. Cardinality(Units(mg)) = Cardinality(UnitsBefore(mg, l)) + Positive(mg[l])
  BY <1>1, UnitsSplit
<1>11. \A x \in Int : /\ Positive(x) \in Int /\ Positive(-x) \in Int
                      /\ Positive(x) - Positive(-x) = x
  BY DEF Positive
<1>12. /\ Positive(f[l]) \in Int /\ Positive(mf[l]) \in Int
       /\ Positive(f[l]) - Positive(mf[l]) = f[l]
       /\ Positive(g[l]) \in Int /\ Positive(mg[l]) \in Int
       /\ Positive(g[l]) - Positive(mg[l]) = g[l]
  BY <1>2, <1>11
<1>13. SUFFICES ASSUME NEW a \in Int, NEW b \in Int, NEW pf \in Int, NEW qf \in Int,
                       NEW pg \in Int, NEW qg \in Int, pf - qf = f[l], pg - qg = g[l],
                       SumOf(f) = (a + pf) - (b + qf), SumOf(g) = (a + pg) - (b + qg)
                PROVE  /\ SumOf(f) \in Int /\ SumOf(g) \in Int
                       /\ SumOf(f) - SumOf(g) = f[l] - g[l]
  <2>1. SumOf(f) = (Cardinality(UnitsBefore(f, l)) + Positive(f[l]))
                      - (Cardinality(UnitsBefore(mf, l)) + Positive(mf[l]))
    BY <1>3, <1>7, <1>9
  <2>2. SumOf(g) = (Cardinality(UnitsBefore(f, l)) + Positive(g[l]))
                      - (Cardinality(UnitsBefore(mf, l)) + Positive(mg[l]))
    BY <1>4, <1>5, <1>6, <1>8, <1>10
  <2>3. Cardinality(UnitsBefore(f, l)) \in Int /\ Cardinality(UnitsBefore(mf, l)) \in Int
    BY <1>7, <1>9
  <2>. QED  BY <1>12, <2>1, <2>2, <2>3
<1>. QED  BY <1>2, <1>13

\* Adding a multiple of m does not change the remainder.
LEMMA ModShift ==
    ASSUME NEW a \in Int, NEW q \in Int, NEW m \in Nat \ {0}
    PROVE  (a + m * q) % m = a % m
<1>1. /\ a = m * (a \div m) + (a % m) /\ a % m \in 0 .. m - 1 /\ a \div m \in Int
  BY DivMod
<1>2. m * q \in Int /\ a + m * q \in Int
  OBVIOUS
<1>3. /\ a + m * q = m * ((a + m * q) \div m) + ((a + m * q) % m)
      /\ (a + m * q) % m \in 0 .. m - 1 /\ (a + m * q) \div m \in Int
  BY <1>2, DivMod
<1>4. PICK p \in Int, r \in 0 .. m - 1 : p = a \div m /\ r = a % m /\ a = m * p + r
  BY <1>1
<1>5. PICK s \in Int, t \in 0 .. m - 1 :
          /\ s = (a + m * q) \div m /\ t = (a + m * q) % m /\ a + m * q = m * s + t
  BY <1>3
<1>6. p + q \in Int /\ m * (p + q) = m * p + m * q
  OBVIOUS
<1>7. m * (p + q) \in Int /\ m * s \in Int /\ m * p \in Int
  BY <1>6
<1>8. m * (p + q) + r = m * s + t
  BY <1>2, <1>4, <1>5, <1>6, <1>7
<1>9. p + q < s => m * (p + q) + m <= m * s
  BY <1>6, MultiplesApart
<1>10. s < p + q => m * s + m <= m * (p + q)
  BY <1>6, MultiplesApart
<1>11. p + q = s => m * (p + q) = m * s
  OBVIOUS
<1>12. r = t
  BY <1>6, <1>7, <1>8, <1>9, <1>10, <1>11
<1>. QED  BY <1>4, <1>5, <1>12

\* An unsigned int may be reduced before or after an addition.
LEMMA ModAdd ==
    ASSUME NEW a \in Int, NEW d \in Int, NEW m \in Nat \ {0}
    PROVE  ((a % m) + d) % m = (a + d) % m
<1>1. /\ a = m * (a \div m) + (a % m) /\ a % m \in 0 .. m - 1 /\ a \div m \in Int
  BY DivMod
<1>2. PICK p \in Int, r \in Int : p = a \div m /\ r = a % m /\ a = m * p + r
  BY <1>1
<1>3. m * p \in Int /\ r + d \in Int
  OBVIOUS
<1>4. (r + d) + m * p = a + d
  BY <1>2, <1>3
<1>5. ((r + d) + m * p) % m = (r + d) % m
  BY <1>3, ModShift
<1>. QED  BY <1>2, <1>4, <1>5

\* The units of the first number are added to those of the others, which are those
\* of the next window without its last number.
LEMMA UnitsShift ==
    ASSUME NEW l \in Nat \ {0}, NEW f \in [1 .. l -> Int], NEW g \in [1 .. l -> Int],
           \A i \in 1 .. l - 1 : g[i] = f[i + 1]
    PROVE  Cardinality(Units(f)) = Cardinality(UnitsBefore(g, l)) + Positive(f[1])
<1>. DEFINE U == UnitsBefore(g, l)
            A == UNION {{i} \X (1 .. f[i]) : i \in 2 .. l}
            B == {1} \X (1 .. f[1])
            b == [u \in U |-> <<u[1] + 1, u[2]>>]
<1>1. IsFiniteSet(U) /\ Cardinality(U) \in Nat
  BY UnitsSplit
<1>2. \A u : u \in U <=> \E i \in 1 .. l - 1 : \E j \in 1 .. f[i + 1] : u = <<i, j>>
  <2>1. \A u : u \in U <=> \E i \in 1 .. l - 1 : u \in {i} \X (1 .. g[i])
    BY Zenon DEF UnitsBefore
  <2>2. \A i, w, u : u \in {i} \X (1 .. w) <=> \E j \in 1 .. w : u = <<i, j>>
    OBVIOUS
  <2>3. \A i \in 1 .. l - 1 : g[i] = f[i + 1]
    OBVIOUS
  <2>4. \A u : \A i \in 1 .. l - 1 :
            u \in {i} \X (1 .. g[i]) <=> \E j \in 1 .. f[i + 1] : u = <<i, j>>
    BY <2>2, <2>3
  <2>. HIDE DEF U
  <2>. QED  BY <2>1, <2>4
<1>3. \A a : a \in A <=> \E i \in 2 .. l : \E j \in 1 .. f[i] : a = <<i, j>>
  <2>1. \A u : u \in A <=> \E i \in 2 .. l : u \in {i} \X (1 .. f[i])
    BY Zenon
  <2>2. \A i, w, u : u \in {i} \X (1 .. w) <=> \E j \in 1 .. w : u = <<i, j>>
    OBVIOUS
  <2>3. \A u : \A i \in 2 .. l :
            u \in {i} \X (1 .. f[i]) <=> \E j \in 1 .. f[i] : u = <<i, j>>
    BY <2>2
  <2>. HIDE DEF A
  <2>. QED
    <3>. TAKE a
    <3>1. a \in A <=> \E i \in 2 .. l : a \in {i} \X (1 .. f[i])
      BY <2>1
    <3>2. \A i \in 2 .. l : a \in {i} \X (1 .. f[i]) <=> \E j \in 1 .. f[i] : a = <<i, j>>
      BY <2>3
    <3>. QED  BY <3>1, <3>2, Zenon
<1>. HIDE DEF U, A
<1>4. ASSUME NEW u \in U
      PROVE  b[u] \in A
  <2>1. PICK i \in 1 .. l - 1 : \E j \in 1 .. f[i + 1] : u = <<i, j>>
    BY <1>2
  <2>2. PICK j \in 1 .. f[i + 1] : u = <<i, j>>
    BY <2>1
  <2>3. i + 1 \in 2 .. l /\ b[u] = <<i + 1, j>>
    BY <2>2
  <2>. QED  BY <1>3, <2>3
<1>5. ASSUME NEW u \in U, NEW v \in U, b[u] = b[v]
      PROVE  u = v
  <2>1. PICK i \in 1 .. l - 1 : \E j \in 1 .. f[i + 1] : u = <<i, j>>
    BY <1>2
  <2>2. PICK j \in 1 .. f[i + 1] : u = <<i, j>>
    BY <2>1
  <2>3. PICK h \in 1 .. l - 1 : \E k \in 1 .. f[h + 1] : v = <<h, k>>
    BY <1>2
  <2>4. PICK k \in 1 .. f[h + 1] : v = <<h, k>>
    BY <2>3
  <2>5. b[u] = <<i + 1, j>> /\ b[v] = <<h + 1, k>>
    BY <2>2, <2>4
  <2>6. i + 1 = h + 1 /\ j = k
    BY <1>5, <2>5
  <2>7. i = h
    BY <2>6
  <2>. QED  BY <2>2, <2>4, <2>6, <2>7
<1>6. ASSUME NEW a \in A
      PROVE  \E u \in U : b[u] = a
  <2>1. PICK i \in 2 .. l : \E j \in 1 .. f[i] : a = <<i, j>>
    BY <1>3
  <2>2. PICK j \in 1 .. f[i] : a = <<i, j>>
    BY <2>1
  <2>3. i - 1 \in 1 .. l - 1 /\ (i - 1) + 1 = i
    OBVIOUS
  <2>4. j \in 1 .. f[(i - 1) + 1]
    BY <2>3
  <2>5. <<i - 1, j>> \in U
    BY <1>2, <2>3, <2>4
  <2>6. b[<<i - 1, j>>] = <<(i - 1) + 1, j>>
    BY <2>5
  <2>. QED  BY <2>2, <2>3, <2>5, <2>6
<1>7. b \in Bijection(U, A)
  <2>1. b \in [U -> A]
    BY <1>4
  <2>2. \A u, v \in U : b[u] = b[v] => u = v
    BY <1>5
  <2>3. \A a \in A : \E u \in U : b[u] = a
    BY <1>6
  <2>. HIDE DEF b
  <2>. QED  BY <2>1, <2>2, <2>3, Zenon DEF Bijection, Injection, Surjection, IsInjective
<1>8. IsFiniteSet(A) /\ Cardinality(A) = Cardinality(U)
  <2>1. ExistsBijection(U, A)
    BY <1>7 DEF ExistsBijection
  <2>. QED  BY <1>1, <2>1, FS_Bijection
<1>9. f[1] \in Int
  OBVIOUS
<1>10. IsFiniteSet(B) /\ Cardinality(B) = Positive(f[1])
  BY <1>9, UnitsOfOne
<1>11. Units(f) = A \cup B
  <2>1. DOMAIN f = (2 .. l) \cup {1}
    OBVIOUS
  <2>. QED  BY <2>1 DEF Units, A
<1>12. A \cap B = {}
  BY DEF A
<1>13. Cardinality(A \cap B) = 0
  BY <1>12, FS_EmptySet
<1>. HIDE DEF B
<1>14. Cardinality(A \cup B) = Cardinality(A) + Cardinality(B) - Cardinality(A \cap B)
  BY <1>8, <1>10, FS_Union
<1>15. Cardinality(B) \in Nat
  BY <1>10, FS_CardinalityType
<1>16. Cardinality(A \cup B) = Cardinality(U) + Positive(f[1])
  BY <1>1, <1>8, <1>10, <1>13, <1>14, <1>15
<1>. QED  BY <1>11, <1>16 DEF U

\* The sum of the next window: less the number that leaves, plus the one that
\* enters.
LEMMA SumShift ==
    ASSUME NEW l \in Nat \ {0}, NEW f \in [1 .. l -> Int], NEW g \in [1 .. l -> Int],
           \A i \in 1 .. l - 1 : g[i] = f[i + 1]
    PROVE  /\ SumOf(f) \in Int /\ SumOf(g) \in Int
           /\ SumOf(g) = SumOf(f) - f[1] + g[l]
<1>. DEFINE mf == [i \in 1 .. l |-> -f[i]]
            mg == [i \in 1 .. l |-> -g[i]]
<1>1. mf \in [1 .. l -> Int] /\ mg \in [1 .. l -> Int]
  OBVIOUS
<1>2. mf[1] = -f[1] /\ mg[l] = -g[l] /\ f[1] \in Int /\ g[l] \in Int
  OBVIOUS
<1>3. \A i \in 1 .. l - 1 : mg[i] = mf[i + 1]
  OBVIOUS
<1>4. SumOf(f) = Cardinality(Units(f)) - Cardinality(Units(mf))
  BY DEF SumOf
<1>5. SumOf(g) = Cardinality(Units(g)) - Cardinality(Units(mg))
  BY DEF SumOf
<1>. HIDE DEF mf, mg
<1>6. /\ Cardinality(UnitsBefore(g, l)) \in Nat
      /\ Cardinality(Units(g)) = Cardinality(UnitsBefore(g, l)) + Positive(g[l])
      /\ Cardinality(Units(f)) = Cardinality(UnitsBefore(g, l)) + Positive(f[1])
  BY UnitsSplit, UnitsShift
<1>7. /\ Cardinality(UnitsBefore(mg, l)) \in Nat
      /\ Cardinality(Units(mg)) = Cardinality(UnitsBefore(mg, l)) + Positive(mg[l])
      /\ Cardinality(Units(mf)) = Cardinality(UnitsBefore(mg, l)) + Positive(mf[1])
  BY <1>1, <1>3, UnitsSplit, UnitsShift
<1>8. \A x \in Int : /\ Positive(x) \in Int /\ Positive(-x) \in Int
                     /\ Positive(x) - Positive(-x) = x
  BY DEF Positive
<1>9. /\ Positive(f[1]) \in Int /\ Positive(mf[1]) \in Int
      /\ Positive(f[1]) - Positive(mf[1]) = f[1]
      /\ Positive(g[l]) \in Int /\ Positive(mg[l]) \in Int
      /\ Positive(g[l]) - Positive(mg[l]) = g[l]
  BY <1>2, <1>8
<1>10. Cardinality(UnitsBefore(g, l)) \in Int /\ Cardinality(UnitsBefore(mg, l)) \in Int
  BY <1>6, <1>7
<1>11. PICK a \in Int : a = Cardinality(UnitsBefore(g, l))
  BY <1>10
<1>12. PICK b \in Int : b = Cardinality(UnitsBefore(mg, l))
  BY <1>10
<1>13. PICK pf \in Int : pf = Positive(f[1])
  BY <1>9
<1>14. PICK qf \in Int : qf = Positive(mf[1])
  BY <1>9
<1>15. PICK pg \in Int : pg = Positive(g[l])
  BY <1>9
<1>16. PICK qg \in Int : qg = Positive(mg[l])
  BY <1>9
<1>17. SumOf(f) = (a + pf) - (b + qf)
  BY <1>4, <1>6, <1>7, <1>11, <1>12, <1>13, <1>14
<1>18. SumOf(g) = (a + pg) - (b + qg)
  BY <1>5, <1>6, <1>7, <1>11, <1>12, <1>15, <1>16
<1>19. f[1] = pf - qf /\ g[l] = pg - qg
  BY <1>9, <1>13, <1>14, <1>15, <1>16
<1>20. /\ (a + pf) - (b + qf) \in Int /\ (a + pg) - (b + qg) \in Int
       /\ (a + pg) - (b + qg) = ((a + pf) - (b + qf)) - (pf - qf) + (pg - qg)
  OBVIOUS
<1>. QED  BY <1>17, <1>18, <1>19, <1>20, Zenon

\* sums_diff is what the code makes of it byte by byte: the byte that leaves the
\* window is subtracted and the one that enters is added, each an unsigned int
\* operation (fast_strstr.c:284-286).  This is what lets the model write the sum of the
\* window where the code keeps a running sum.
THEOREM RollingSum ==
    ASSUME NEW hay \in Seq(Int), NEW l \in Nat \ {0}, NEW k \in Nat \ {0},
           NEW key \in Int, k + l <= Len(hay)
    PROVE  SumsDiff(hay, k + 1, l, key)
             = (((SumsDiff(hay, k, l, key) - Char(hay[k])) % UintSize)
                  + Char(hay[k + l])) % UintSize
<1>. DEFINE f == [i \in 1 .. l |-> Char(hay[k + i - 1])]
            g == [i \in 1 .. l |-> Char(hay[(k + 1) + i - 1])]
<1>1. \A x \in Int : Char(x) \in Int
  <2>1. Digit * Digit \in Int
    BY StrstrAssumption
  <2>. QED  BY <2>1 DEF Char
<1>2. \A w \in 1 .. k + l : hay[w] \in Int
  OBVIOUS
<1>3. f \in [1 .. l -> Int] /\ g \in [1 .. l -> Int]
  <2>1. \A i \in 1 .. l : k + i - 1 \in 1 .. k + l /\ (k + 1) + i - 1 \in 1 .. k + l
    OBVIOUS
  <2>2. \A i \in 1 .. l : Char(hay[k + i - 1]) \in Int /\ Char(hay[(k + 1) + i - 1]) \in Int
    BY <1>1, <1>2, <2>1
  <2>. QED  BY <2>2
<1>4. ASSUME NEW i \in 1 .. l - 1
      PROVE  g[i] = f[i + 1]
  <2>1. (k + 1) + i - 1 = k + (i + 1) - 1
    OBVIOUS
  <2>. QED  BY <2>1
<1>5. f[1] = Char(hay[k]) /\ g[l] = Char(hay[k + l]) /\ f[1] \in Int /\ g[l] \in Int
  <2>1. k + 1 - 1 = k /\ (k + 1) + l - 1 = k + l /\ 1 \in 1 .. l /\ l \in 1 .. l
    OBVIOUS
  <2>2. f[1] = Char(hay[k + 1 - 1]) /\ g[l] = Char(hay[(k + 1) + l - 1])
    BY <2>1
  <2>3. f[1] \in Int /\ g[l] \in Int
    BY <1>3, <2>1
  <2>. QED  BY <2>1, <2>2, <2>3
<1>6. /\ SumsDiff(hay, k, l, key) = (SumOf(f) - key) % UintSize
      /\ SumsDiff(hay, k + 1, l, key) = (SumOf(g) - key) % UintSize
  BY DEF SumsDiff
<1>. HIDE DEF f, g
<1>7. SumOf(f) \in Int /\ SumOf(g) \in Int /\ SumOf(g) = SumOf(f) - f[1] + g[l]
  BY <1>3, <1>4, SumShift
<1>8. UintSize \in Nat \ {0}
  BY StrstrAssumption
<1>9. SumOf(f) - key \in Int /\ -f[1] \in Int
  BY <1>5, <1>7
<1>10. PICK a \in Int : a = SumOf(f) - key
  BY <1>9
<1>11. PICK x \in Int : x = -f[1]
  BY <1>9
<1>12. SumOf(g) - key = (a + x) + g[l] /\ a + x \in Int
  <2>1. PICK sf \in Int : sf = SumOf(f)
    BY <1>7
  <2>2. PICK c \in Int : c = f[1]
    BY <1>5
  <2>3. PICK d \in Int : d = g[l]
    BY <1>5
  <2>4. SumOf(g) = sf - c + d
    BY <1>7, <2>1, <2>2, <2>3
  <2>5. a = sf - key /\ x = -c
    BY <1>10, <1>11, <2>1, <2>2
  <2>6. (sf - c + d) - key = (a + x) + d /\ a + x \in Int
    BY <2>5
  <2>. QED  BY <2>3, <2>4, <2>6
<1>13. ((a % UintSize) + x) % UintSize = (a + x) % UintSize
  BY <1>8, ModAdd
<1>14. (((a + x) % UintSize) + g[l]) % UintSize = ((a + x) + g[l]) % UintSize
  BY <1>5, <1>8, <1>12, ModAdd
<1>15. a % UintSize \in Int
  BY <1>8, DivMod
<1>16. SumsDiff(hay, k, l, key) - Char(hay[k]) = (a % UintSize) + x
  BY <1>5, <1>6, <1>10, <1>11, <1>15
<1>. QED  BY <1>5, <1>6, <1>12, <1>13, <1>14, <1>16

-----------------------------------------------------------------------------
(* Search.                                                                   *)

Bytes == 0 .. Digit * Digit - 1

\* Min is the least element.
LEMMA MinIsLeast ==
    ASSUME NEW S \in SUBSET Nat, S # {}
    PROVE  /\ Min(S) \in S
           /\ \A y \in S : Min(S) <= y
<1>. DEFINE R == OpToRel(<, Nat)
<1>1. PICK x \in S : \A y \in S : ~(<<y, x>> \in R)
  <2>1. IsWellFoundedOn(R, Nat)
    BY NatLessThanWellFounded
  <2>. HIDE DEF R
  <2>. QED  BY <2>1, WFMin
<1>2. R = {ss \in Nat \X Nat : ss[1] < ss[2]}
  BY DEF OpToRel
<1>. HIDE DEF R
<1>3. ASSUME NEW y \in S
      PROVE  x <= y
  <2>1. <<y, x>> \in Nat \X Nat
    OBVIOUS
  <2>2. ~(y < x)
    BY <1>1, <1>2, <2>1
  <2>. QED  BY <2>2
<1>. QED  BY <1>3 DEF Min

\* Two chars are one when their bytes are, and less than 2^32 apart.
LEMMA CharInjective ==
    ASSUME NEW x \in Bytes, NEW y \in Bytes
    PROVE  /\ Char(x) \in Int /\ Char(y) \in Int
           /\ Char(x) = Char(y) <=> x = y
           /\ Char(x) - Char(y) < UintSize /\ -UintSize < Char(x) - Char(y)
<1>1. /\ Digit * Digit \in Nat /\ UintSize \in Nat /\ UintSize >= Digit * Digit
  BY StrstrAssumption
<1>2. PICK d \in Nat : d = Digit * Digit
  BY <1>1
<1>3. PICK h \in Int : h = (Digit * Digit) \div 2 /\ 2 * h <= d /\ d <= 2 * h + 1
  <2>1. /\ d = 2 * (d \div 2) + (d % 2) /\ d % 2 \in 0 .. 1 /\ d \div 2 \in Int
    BY DivMod
  <2>. WITNESS d \div 2 \in Int
  <2>. QED  BY <1>2, <2>1
<1>4. \A z : Char(z) = IF z >= h THEN z - d ELSE z
  BY <1>2, <1>3 DEF Char
<1>5. x \in Int /\ 0 <= x /\ x < d /\ y \in Int /\ 0 <= y /\ y < d
  BY <1>2 DEF Bytes
<1>6. ASSUME NEW z \in Int, 0 <= z, z < d
      PROVE  \/ Char(z) = z - d /\ z >= h
             \/ Char(z) = z /\ z < h
  BY <1>4, <1>6
<1>7. UintSize >= d
  BY <1>1, <1>2
<1>8. (Char(x) = x - d /\ x >= h) \/ (Char(x) = x /\ x < h)
  BY <1>5, <1>6
<1>9. (Char(y) = y - d /\ y >= h) \/ (Char(y) = y /\ y < h)
  BY <1>5, <1>6
<1>. QED  BY <1>1, <1>3, <1>5, <1>7, <1>8, <1>9

\* Two numbers have the same remainder when their difference has none.
LEMMA ModEqual ==
    ASSUME NEW x \in Int, NEW e \in Int, NEW m \in Nat \ {0}
    PROVE  (x - e) % m = 0 <=> x % m = e % m
<1>1. /\ x = m * (x \div m) + (x % m) /\ x % m \in 0 .. m - 1 /\ x \div m \in Int
  BY DivMod
<1>2. /\ e = m * (e \div m) + (e % m) /\ e % m \in 0 .. m - 1 /\ e \div m \in Int
  BY DivMod
<1>3. /\ x - e = m * ((x - e) \div m) + ((x - e) % m) /\ (x - e) \div m \in Int
      /\ (x - e) % m \in 0 .. m - 1
  BY DivMod, x - e \in Int
<1>4. ASSUME (x - e) % m = 0
      PROVE  x % m = e % m
  <2>1. PICK q \in Int : x - e = m * q
    <3>1. m * ((x - e) \div m) \in Int
      BY <1>3
    <3>. QED  BY <1>3, <1>4, <3>1
  <2>2. x = e + m * q
    BY <2>1
  <2>. QED  BY <2>2, ModShift
<1>5. ASSUME x % m = e % m
      PROVE  (x - e) % m = 0
  <2>1. PICK p \in Int, r \in Int : x = m * p + r /\ r = x % m
    BY <1>1
  <2>2. PICK q \in Int : e = m * q + r
    BY <1>2, <1>5, <2>1
  <2>3. p - q \in Int /\ m * (p - q) = m * p - m * q /\ m * p \in Int /\ m * q \in Int
    OBVIOUS
  <2>4. x - e = 0 + m * (p - q)
    BY <2>1, <2>2, <2>3
  <2>5. (0 + m * (p - q)) % m = 0 % m
    BY <2>3, ModShift, 0 \in Int
  <2>6. 0 % m = 0
    OBVIOUS
  <2>. QED  BY <2>4, <2>5, <2>6
<1>. QED  BY <1>4, <1>5

\* The sum of numbers is a number.
LEMMA SumInt ==
    ASSUME NEW l \in Nat, NEW f \in [1 .. l -> Int]
    PROVE  SumOf(f) \in Int
<1>1. CASE l # 0
  <2>1. l \in Nat \ {0}
    BY <1>1
  <2>. QED  BY <2>1, SumsDiffer
<1>2. CASE l = 0
  <2>1. DOMAIN f = {}
    BY <1>2
  <2>2. Units(f) = {} /\ Units([i \in DOMAIN f |-> -f[i]]) = {}
    BY <2>1 DEF Units
  <2>3. Cardinality({}) = 0
    BY FS_EmptySet
  <2>4. SumOf(f) = 0 - 0
    BY <2>2, <2>3 DEF SumOf
  <2>. QED  BY <2>4
<1>. QED  BY <1>1, <1>2

\* Nothing but 0 is 0 modulo 2^32 among what a sum can be wrong by.
LEMMA ZeroModUint ==
    ASSUME NEW i \in Int, i < UintSize, -UintSize < i
    PROVE  i % UintSize = 0 <=> i = 0
<1>1. UintSize \in Nat \ {0}
  BY StrstrAssumption
<1>2. /\ i = UintSize * (i \div UintSize) + (i % UintSize)
      /\ i % UintSize \in 0 .. UintSize - 1 /\ i \div UintSize \in Int
  BY <1>1, DivMod
<1>3. PICK q \in Int, r \in Int : /\ q = i \div UintSize /\ r = i % UintSize
                                  /\ i = UintSize * q + r /\ 0 <= r /\ r < UintSize
  <2>1. i % UintSize \in Int /\ 0 <= i % UintSize /\ i % UintSize < UintSize
    BY <1>1, <1>2
  <2>. QED  BY <1>2, <2>1
<1>4. q < 0 => UintSize * q + UintSize <= UintSize * 0
  BY <1>1, MultiplesApart, 0 \in Int
<1>5. 0 < q => UintSize * 0 + UintSize <= UintSize * q
  BY <1>1, MultiplesApart, 0 \in Int
<1>6. UintSize * 0 = 0 /\ UintSize * q \in Int
  BY <1>1
<1>7. q = 0 => UintSize * q = 0
  BY <1>1
<1>8. r = 0 <=> i = 0
  BY <1>1, <1>3, <1>4, <1>5, <1>6, <1>7
<1>. QED  BY <1>3, <1>8

\* Given all bytes but the last, the sum says by how much the last is off.
LEMMA WindowIsNearly ==
    ASSUME NEW hay \in Seq(Bytes), NEW needle \in Seq(Bytes), Len(needle) > 1,
           NEW k \in 1 .. Len(hay) - Len(needle) + 1, NEW key \in Int
    PROVE  WindowMatches(hay, k, needle, key)
              <=> NearlyAt(hay, k, needle, key - CharSum(needle))
<1>. DEFINE l == Len(needle)
            f == [i \in 1 .. l |-> Char(hay[k + i - 1])]
            g == [i \in 1 .. l |-> Char(needle[i])]
            error == key - SumOf(g)
            x == f[l] - g[l]
            prefix == \A i \in 1 .. l - 1 : hay[k + i - 1] = needle[i]
<1>1. l \in Nat \ {0} /\ l > 1 /\ Len(hay) \in Nat /\ k \in Nat
  OBVIOUS
<1>2. \A i \in 1 .. l : k + i - 1 \in 1 .. Len(hay)
  BY <1>1
<1>3. \A i \in 1 .. l : hay[k + i - 1] \in Bytes /\ needle[i] \in Bytes
  BY <1>2
<1>4. \A i \in 1 .. l : Char(hay[k + i - 1]) \in Int /\ Char(needle[i]) \in Int
  BY <1>3, CharInjective
<1>5. f \in [1 .. l -> Int] /\ g \in [1 .. l -> Int]
  BY <1>4
<1>6. UintSize \in Nat \ {0}
  BY StrstrAssumption
<1>7. 1 \in 1 .. l - 1 /\ l \in 1 .. l /\ k + 1 - 1 = k /\ \A i \in 1 .. l - 1 : i \in 1 .. l
  BY <1>1
<1>8. WindowMatches(hay, k, needle, key)
         <=> (SumOf(f) - key) % UintSize = 0 /\ hay[k] = needle[1] /\ prefix
  BY DEF WindowMatches, SumsDiff
<1>9. f[l] = Char(hay[k + l - 1]) /\ g[l] = Char(needle[l])
  BY <1>7
<1>10. NearlyAt(hay, k, needle, key - CharSum(needle))
          <=> prefix /\ x % UintSize = error % UintSize
  BY <1>9 DEF NearlyAt, CharSum
<1>11. prefix => hay[k] = needle[1]
  BY <1>7
<1>12. prefix => \A i \in 1 .. l - 1 : f[i] = g[i]
  BY <1>7
<1>. HIDE DEF f, g, l, prefix
<1>13. ASSUME prefix
       PROVE  (SumOf(f) - key) % UintSize = 0 <=> x % UintSize = error % UintSize
  <2>1. SumOf(f) \in Int /\ SumOf(g) \in Int /\ SumOf(f) - SumOf(g) = f[l] - g[l]
    BY <1>1, <1>5, <1>12, <1>13, SumsDiffer
  <2>2. f[l] \in Int /\ g[l] \in Int
    BY <1>5, <1>7
  <2>3. x \in Int /\ error \in Int /\ SumOf(f) - key = x - error
    BY <2>1, <2>2
  <2>. HIDE DEF x, error
  <2>4. (x - error) % UintSize = 0 <=> x % UintSize = error % UintSize
    BY <1>6, <2>3, ModEqual
  <2>. QED  BY <2>3, <2>4
<1>. QED  BY <1>8, <1>10, <1>11, <1>13

\* A needle that is off by nothing is there.
LEMMA NearlyIsAt ==
    ASSUME NEW hay \in Seq(Bytes), NEW needle \in Seq(Bytes), Len(needle) > 0,
           NEW k \in 1 .. Len(hay) - Len(needle) + 1, NEW error \in Int,
           error % UintSize = 0
    PROVE  NearlyAt(hay, k, needle, error) <=> OccursAt(hay, k, needle)
<1>. DEFINE l == Len(needle)
            x == Char(hay[k + l - 1])
            y == Char(needle[l])
<1>1. l \in Nat \ {0} /\ Len(hay) \in Nat /\ k \in Nat
  OBVIOUS
<1>2. k + l - 1 \in 1 .. Len(hay) /\ l \in 1 .. l
  BY <1>1
<1>3. hay[k + l - 1] \in Bytes /\ needle[l] \in Bytes
  BY <1>2
<1>4. /\ x \in Int /\ y \in Int
      /\ x = y <=> hay[k + l - 1] = needle[l]
      /\ x - y < UintSize /\ -UintSize < x - y
  BY <1>3, CharInjective
<1>5. NearlyAt(hay, k, needle, error)
         <=> (\A i \in 1 .. l - 1 : hay[k + i - 1] = needle[i]) /\ (x - y) % UintSize = 0
  BY DEF NearlyAt
<1>. HIDE DEF x, y
<1>6. (x - y) % UintSize = 0 <=> x - y = 0
  BY <1>4, ZeroModUint, x - y \in Int
<1>7. x - y = 0 <=> x = y
  BY <1>4
<1>8. \A i \in 1 .. l : i \in 1 .. l - 1 \/ i = l
  BY <1>1
<1>9. \A i \in 1 .. l - 1 : i \in 1 .. l
  BY <1>1
<1>10. OccursAt(hay, k, needle)
          <=> (\A i \in 1 .. l - 1 : hay[k + i - 1] = needle[i]) /\ hay[k + l - 1] = needle[l]
  BY <1>2, <1>8, <1>9 DEF OccursAt
<1>. QED  BY <1>4, <1>5, <1>6, <1>7, <1>10

\* mystrchr gives a place of a byte.
LEMMA FirstPlace ==
    ASSUME NEW s, NEW c, NEW len \in Nat, mystrchr(s, c, len) # 0
    PROVE  mystrchr(s, c, len) \in 1 .. len /\ s[mystrchr(s, c, len)] = c
<1>. DEFINE places == {i \in 1 .. len : s[i] = c}
<1>1. places \in SUBSET Nat
  OBVIOUS
<1>2. mystrchr(s, c, len) = IF places = {} THEN 0 ELSE Min(places)
  BY DEF mystrchr
<1>3. places # {}
  BY <1>2
<1>4. Min(places) \in places
  BY <1>1, <1>3, MinIsLeast
<1>5. mystrchr(s, c, len) \in places
  BY <1>2, <1>3, <1>4
<1>. QED  BY <1>5

\* The haystack is a string of bytes that begins with the needle's first byte.
LEMMA HaystackBytes ==
    ASSUME NEW s \in Seq(Bytes), NEW len \in Nat, len <= Len(s), NEW c
    PROVE  /\ Haystack(s, len, c) \in Seq(Bytes)
           /\ Len(Haystack(s, len, c)) > 0 => Haystack(s, len, c)[1] = c
<1>. DEFINE h == mystrchr(s, c, len)
            zeros == {i \in h + 1 .. Len(s) : s[i] = 0} \cup {Len(s) + 1}
<1>1. CASE h = 0
  <2>1. Haystack(s, len, c) = <<>>
    BY <1>1 DEF Haystack
  <2>. QED  BY <2>1
<1>2. CASE h # 0
  <2>1. h \in 1 .. len /\ s[h] = c
    BY <1>2, FirstPlace
  <2>2. Haystack(s, len, c) = SubSeq(s, h, Min(zeros) - 1)
    BY <1>2 DEF Haystack, StringAt
  <2>. HIDE DEF h
  <2>3. Len(s) \in Nat /\ h \in Nat /\ h <= Len(s)
    BY <2>1
  <2>4. zeros \in SUBSET Nat /\ zeros # {} /\ \A z \in zeros : h < z /\ z <= Len(s) + 1
    BY <2>3
  <2>. HIDE DEF zeros
  <2>5. Min(zeros) \in Nat /\ h < Min(zeros) /\ Min(zeros) <= Len(s) + 1
    BY <2>4, MinIsLeast
  <2>6. PICK e \in Nat : e = Min(zeros) - 1 /\ h <= e /\ e <= Len(s)
    BY <2>3, <2>5
  <2>7. \A i \in h .. e : s[i] \in Bytes
    BY <2>1, <2>3, <2>6
  <2>8. /\ SubSeq(s, h, e) \in Seq(Bytes)
        /\ \A i \in 1 .. e - h + 1 : SubSeq(s, h, e)[i] = s[h + i - 1]
    BY <2>3, <2>7, SubSeqProperties, h \in Int, e \in Int
  <2>9. 1 \in 1 .. e - h + 1 /\ h + 1 - 1 = h
    BY <2>3, <2>6
  <2>10. SubSeq(s, h, e)[1] = s[h]
    BY <2>8, <2>9
  <2>. QED  BY <2>1, <2>2, <2>6, <2>8, <2>10
<1>. QED  BY <1>1, <1>2

\* A needle is a string of bytes and never empty.
LEMMA NeedleBytes ==
    ASSUME NEW pattern \in Seq(Bytes)
    PROVE  Needle(pattern) \in Seq(Bytes) /\ Len(Needle(pattern)) > 0
<1>. DEFINE zeros == {i \in 1 .. Len(pattern) : pattern[i] = 0}
            text == IF zeros = {} THEN pattern ELSE SubSeq(pattern, 1, Min(zeros) - 1)
<1>1. 0 \in Bytes
  <2>1. Digit * Digit \in Nat \ {0}
    BY StrstrAssumption
  <2>. QED  BY <2>1 DEF Bytes
<1>2. Needle(pattern) = IF text = <<>> THEN <<0>> ELSE text
  BY DEF Needle
<1>3. text \in Seq(Bytes)
  <2>1. CASE zeros = {}
    BY <2>1
  <2>2. CASE zeros # {}
    <3>1. text = SubSeq(pattern, 1, Min(zeros) - 1)
      BY <2>2
    <3>2. zeros \in SUBSET Nat /\ \A z \in zeros : z <= Len(pattern)
      OBVIOUS
    <3>. HIDE DEF zeros
    <3>3. Min(zeros) \in zeros
      BY <2>2, <3>2, MinIsLeast
    <3>4. PICK e \in Int : e = Min(zeros) - 1 /\ e <= Len(pattern)
      <4>1. PICK z : z = Min(zeros)
        OBVIOUS
      <4>2. z \in Nat /\ z <= Len(pattern)
        BY <3>2, <3>3, <4>1
      <4>3. z - 1 \in Int /\ z - 1 <= Len(pattern)
        BY <4>2
      <4>. QED  BY <4>1, <4>3
    <3>5. \A i \in 1 .. e : pattern[i] \in Bytes
      BY <3>4
    <3>6. SubSeq(pattern, 1, e) \in Seq(Bytes)
      BY <3>5, SubSeqProperties, 1 \in Int
    <3>. QED  BY <3>1, <3>4, <3>6
  <2>. QED  BY <2>1, <2>2
<1>. HIDE DEF text
<1>4. text = <<>> \/ Len(text) > 0
  BY <1>3
<1>5. <<0>> \in Seq(Bytes) /\ Len(<<0>>) = 1
  BY <1>1
<1>. QED  BY <1>2, <1>3, <1>4, <1>5

\* What fast_strstr_filter_one_hashed finds, whatever sum it is given.
LEMMA SearchIsRight ==
    ASSUME NEW s \in Seq(Bytes), NEW len \in Nat, len <= Len(s),
           NEW needle \in Seq(Bytes), Len(needle) > 0, NEW key \in Int,
           NEW hay, hay = Haystack(s, len, needle[1]),
           NEW error, error = key - CharSum(needle)
    PROVE  /\ error % UintSize = 0
                => (filter_one_hashed(s, len, needle, key) <=> OccursIn(needle, hay))
           /\ filter_one_hashed(s, len, needle, key) <=>
                \/ Len(hay) >= Len(needle) /\ OccursAt(hay, 1, needle)
                \/ \E k \in 2 .. Len(hay) - Len(needle) + 1 :
                      NearlyAt(hay, k, needle, error)
<1>. DEFINE l == Len(needle)
            first == Len(hay) >= l /\ OccursAt(hay, 1, needle)
            later == \E k \in 2 .. Len(hay) - l + 1 : NearlyAt(hay, k, needle, error)
            windows == \E k \in 2 .. Len(hay) - l + 1 : WindowMatches(hay, k, needle, key)
            answer == filter_one_hashed(s, len, needle, key)
<1>1. /\ hay \in Seq(Bytes) /\ Len(hay) \in Nat
      /\ Len(hay) > 0 => hay[1] = needle[1]
  BY HaystackBytes
<1>2. l \in Nat \ {0}
  OBVIOUS
<1>3. error \in Int
  <2>. DEFINE g == [i \in 1 .. l |-> Char(needle[i])]
  <2>1. \A i \in 1 .. l : needle[i] \in Bytes
    OBVIOUS
  <2>2. g \in [1 .. l -> Int]
    BY <2>1, CharInjective
  <2>3. CharSum(needle) = SumOf(g)
    BY DEF CharSum
  <2>. HIDE DEF g, l
  <2>4. SumOf(g) \in Int
    BY <1>2, <2>2, SumInt
  <2>. QED  BY <2>3, <2>4
<1>4. answer <=> Len(hay) >= l /\ (OccursAt(hay, 1, needle) \/ windows)
  BY DEF filter_one_hashed
<1>5. ASSUME NEW k \in 2 .. Len(hay) - l + 1
      PROVE  k \in 1 .. Len(hay) - l + 1 /\ Len(hay) >= l
  BY <1>1, <1>2
<1>6. answer <=> first \/ later
  <2>1. CASE l = 1
    <3>1. Len(hay) >= l => OccursAt(hay, 1, needle)
      <4>1. ASSUME Len(hay) >= l, NEW i \in 1 .. Len(needle)
            PROVE  hay[1 + i - 1] = needle[i]
        <5>1. i = 1 /\ 1 + i - 1 = 1 /\ Len(hay) > 0
          BY <1>1, <2>1, <4>1
        <5>. QED  BY <1>1, <5>1
      <4>. QED  BY <4>1 DEF OccursAt
    <3>2. later => Len(hay) >= l
      BY <1>5
    <3>. QED  BY <1>4, <3>1, <3>2
  <2>2. CASE l # 1
    <3>1. Len(needle) > 1
      <4>1. PICK m \in Nat : m = Len(needle) /\ m # 0 /\ m # 1
        BY <1>2, <2>2
      <4>2. m > 1
        BY <4>1
      <4>. QED  BY <4>1, <4>2
    <3>2. ASSUME NEW k \in 2 .. Len(hay) - l + 1
          PROVE  WindowMatches(hay, k, needle, key) <=> NearlyAt(hay, k, needle, error)
      BY <1>1, <1>5, <3>1, WindowIsNearly
    <3>3. windows <=> later
      BY <3>2
    <3>4. later => Len(hay) >= l
      BY <1>5
    <3>. HIDE DEF windows, later
    <3>. QED  BY <1>4, <3>3, <3>4
  <2>. QED  BY <2>1, <2>2
<1>7. ASSUME error % UintSize = 0
      PROVE  first \/ later <=> OccursIn(needle, hay)
  <2>1. ASSUME NEW k \in 2 .. Len(hay) - l + 1
        PROVE  NearlyAt(hay, k, needle, error) <=> OccursAt(hay, k, needle)
    BY <1>1, <1>3, <1>5, <1>7, NearlyIsAt
  <2>2. first => OccursIn(needle, hay)
    <3>1. first => 1 \in 1 .. Len(hay) - l + 1
      BY <1>1, <1>2
    <3>. QED  BY <3>1 DEF OccursIn
  <2>3. later => OccursIn(needle, hay)
    BY <1>5, <2>1 DEF OccursIn
  <2>4. OccursIn(needle, hay) => first \/ later
    <3>1. ASSUME NEW k \in 1 .. Len(hay) - l + 1, OccursAt(hay, k, needle)
          PROVE  first \/ later
      <4>1. CASE k = 1
        <5>1. Len(hay) >= l
          BY <1>1, <1>2, <4>1
        <5>. QED  BY <3>1, <4>1, <5>1
      <4>2. CASE k # 1
        <5>1. k \in 2 .. Len(hay) - l + 1
          BY <1>1, <1>2, <4>2
        <5>. QED  BY <2>1, <3>1, <5>1
      <4>. QED  BY <4>1, <4>2
    <3>. QED  BY <3>1 DEF OccursIn
  <2>. QED  BY <2>2, <2>3, <2>4
<1>. QED  BY <1>6, <1>7

\* The values of a line are numbers, and tmp[len] = val makes bytes of them.
LEMMA DecodedBytes ==
    ASSUME NEW line \in Lines
    PROVE  Decode(line) \in Seq(Bytes) /\ SumOf(Values(line)) \in Int
<1>. DEFINE l == Len(line) \div 2
<1>1. line \in Seq(Int) /\ Digit \in Nat \ {0} /\ Digit * Digit \in Nat \ {0}
  BY StrstrAssumption
<1>2. Len(line) \in Nat
  BY <1>1
<1>3. PICK m \in Nat : m = l /\ 2 * m <= Len(line)
  <2>1. /\ Len(line) = 2 * l + (Len(line) % 2) /\ Len(line) % 2 \in 0 .. 1 /\ l \in Int
    BY <1>2, DivMod
  <2>. HIDE DEF l
  <2>2. l >= 0 /\ 2 * l <= Len(line)
    BY <1>2, <2>1
  <2>. QED  BY <2>1, <2>2
<1>4. Values(line) = [i \in 1 .. m |-> line[2 * i - 1] * Digit + line[2 * i]]
  BY <1>3 DEF Values
<1>5. ASSUME NEW i \in 1 .. m
      PROVE  line[2 * i - 1] * Digit + line[2 * i] \in Int
  <2>1. 2 * i - 1 \in 1 .. Len(line) /\ 2 * i \in 1 .. Len(line)
    BY <1>2, <1>3
  <2>2. PICK a \in Int, b \in Int : a = line[2 * i - 1] /\ b = line[2 * i]
    BY <1>1, <2>1
  <2>3. a * Digit + b \in Int
    BY <1>1
  <2>. QED  BY <2>2, <2>3
<1>6. Values(line) \in [1 .. m -> Int]
  BY <1>4, <1>5
<1>7. SumOf(Values(line)) \in Int
  BY <1>6, SumInt
<1>8. Decode(line) = [i \in 1 .. m |-> Values(line)[i] % (Digit * Digit)]
  BY <1>3 DEF Decode
<1>9. ASSUME NEW i \in 1 .. m
      PROVE  Values(line)[i] % (Digit * Digit) \in Bytes
  <2>1. Values(line)[i] \in Int
    BY <1>6
  <2>. QED  BY <1>1, <2>1, DivMod DEF Bytes
<1>10. Decode(line) \in [1 .. m -> Bytes]
  BY <1>8, <1>9
<1>. QED  BY <1>7, <1>10

\* A packet and what follows it are bytes.
LEMMA MemoryBytes ==
    ASSUME NEW s \in Memories
    PROVE  s \in Seq(Bytes)
<1>. DEFINE packets == UNION {[1 .. l -> PacketBytes] : l \in 1 .. MaxPacket}
            rests == {<<0>>} \cup {<<b, 0>> : b \in PacketBytes}
<1>0. Memories = {packet \o rest : packet \in packets, rest \in rests}
  BY DEF Memories
<1>1. PICK packet \in packets, rest \in rests : s = packet \o rest
  <2>. HIDE DEF packets, rests
  <2>. QED  BY <1>0
<1>2. PICK l \in 1 .. MaxPacket : packet \in [1 .. l -> PacketBytes]
  BY <1>1
<1>3. PacketBytes \subseteq Bytes /\ 0 \in Bytes
  <2>1. Digit * Digit \in Nat \ {0}
    BY StrstrAssumption
  <2>. QED  BY <2>1, StrstrAssumption DEF Bytes
<1>4. l \in Nat
  BY <1>2, StrstrAssumption
<1>5. packet \in Seq(Bytes)
  <2>1. packet \in [1 .. l -> Bytes]
    BY <1>2, <1>3
  <2>. QED  BY <1>4, <2>1
<1>6. rest \in Seq(Bytes)
  <2>1. CASE rest = <<0>>
    BY <1>3, <2>1
  <2>2. CASE \E b \in PacketBytes : rest = <<b, 0>>
    BY <1>3, <2>2
  <2>. QED  BY <1>1, <2>1, <2>2
<1>. QED  BY <1>1, <1>5, <1>6

-----------------------------------------------------------------------------
(* The engines.                                                              *)

\* Nothing of HashInv depends on more than the variables of the hash engine and
\* on whether the slave is starting.
LEMMA HashUnchanged ==
    ASSUME HashInv, UNCHANGED hashVars, life' = "init" => life = "init"
    PROVE  HashInv'
<1>. USE DEF hashVars
<1>1. TableInv'
  BY DEF HashInv, TableInv
<1>2. FilledInv'
  BY DEF HashInv, FilledInv, Contains
<1>3. NoFalseFilter' /\ HashExact'
  BY DEF HashInv, BurstInv, NoFalseFilter, HashExact, Matches
<1>4. life' = "init" => burst' = <<>>
  BY DEF HashInv, BurstInv
<1>. QED  BY <1>1, <1>2, <1>3, <1>4 DEF HashInv, BurstInv

\* The same of the modulo engine.
LEMMA ModuloUnchanged ==
    ASSUME ModuloInv, UNCHANGED moduloVars, life' = "init" => life = "init"
    PROVE  ModuloInv'
  BY DEF ModuloInv, moduloVars

\* The same of the search engine.
LEMMA StrstrUnchanged ==
    ASSUME StrstrInv, UNCHANGED strstrVars, life' = "init" => life = "init"
    PROVE  StrstrInv'
<1>1. UNCHANGED <<strings, keys, memory, pkt_len, found>>
  BY DEF strstrVars
<1>2. SearchExact'
  BY <1>1 DEF StrstrInv, SearchExact
<1>. QED  BY <1>1, <1>2 DEF StrstrInv

\* Without a packet nothing was searched.
LEMMA NoPacket ==
    ASSUME pkt_len' = 0
    PROVE  SearchExact'
<1>1. ~(pkt_len' > 0)
  OBVIOUS
<1>. QED  BY <1>1 DEF SearchExact

\* Without packets at hand nothing was filtered wrongly.
LEMMA EmptyBurst ==
    ASSUME burst' = <<>>
    PROVE  NoFalseFilter' /\ HashExact'
  BY DEF NoFalseFilter, HashExact

\* Initially the table is empty and no packet was seen.
LEMMA InitEngines == Init => EnginesInv
<1>. SUFFICES ASSUME Init
              PROVE  EnginesInv
  OBVIOUS
<1>1. LifeInv
  <2>1. crashes = 0 /\ crashes \in 0 .. MaxCrashes
    BY EnginesAssumption DEF Init
  <2>2. engine \in Names /\ life = "init" /\ program \in BOOLEAN
    BY DEF Init
  <2>. QED  BY <2>1, <2>2 DEF LifeInv
<1>2. HashInv
  <2>1. TableInv
    BY DEF Init, HashInit, TableInv
  <2>2. FilledInv
    <3>1. adding = 0 /\ Len(Rules) \in Nat
      BY HashAssumption DEF Init, HashInit
    <3>2. adding \in 0 .. Len(Rules) + 1 /\ ~(adding > 0)
      BY <3>1
    <3>3. \A j \in 1 .. Len(Rules) : ~(j < adding)
      BY <3>1
    <3>4. /\ created \in BOOLEAN /\ lookup1 = FALSE /\ lookup1 \in BOOLEAN
          /\ socket \in {0, 1} /\ lookup4 = {}
      BY DEF Init, HashInit
    <3>. QED  BY <3>2, <3>3, <3>4 DEF FilledInv
  <2>3. BurstInv
    BY DEF Init, HashInit, BurstInv, NoFalseFilter, HashExact
  <2>. QED  BY <2>1, <2>2, <2>3 DEF HashInv
<1>3. ModuloInv
  BY ModuloAssumption DEF Init, ModuloInit, ModuloInv
<1>4. StrstrInv
  <2>1. strings = <<>> /\ keys = <<>> /\ pkt_len = 0 /\ found \in BOOLEAN
    BY DEF Init, StrstrInit
  <2>2. pkt_len \in 0 .. MaxPacket /\ MaxStrings \in Nat
    BY <2>1, StrstrAssumption
  <2>3. SearchExact
    <3>1. ~(pkt_len > 0)
      BY <2>1
    <3>. QED  BY <3>1 DEF SearchExact
  <2>. QED  BY <2>1, <2>2, <2>3 DEF StrstrInv
<1>. QED  BY <1>1, <1>2, <1>3, <1>4 DEF EnginesInv

\* init_hash fills the table.
LEMMA InitHashStep ==
    ASSUME HashInv, InitHash
    PROVE  HashInv'
<1>0. life = "init" /\ burst = <<>> /\ TableInv /\ FilledInv
  BY DEF InitHash, HashInv, BurstInv
<1>1. CASE HashCreate
  <2>1. TableInv'
    BY <1>0, <1>1 DEF TableInv, HashCreate
  <2>2. lookup1 = FALSE
    BY <1>0, <1>1 DEF FilledInv, HashCreate
  <2>3. FilledInv'
    <3>1. \A j \in 1 .. Len(Rules) : ~(j < adding' \/ lookup1')
      BY <1>1, <2>2 DEF HashCreate
    <3>2. /\ created' \in BOOLEAN /\ socket' \in {0, 1}
          /\ lookup4' \subseteq {0, 1} /\ lookup1' \in BOOLEAN
          /\ adding' \in 0 .. Len(Rules) + 1
          /\ lookup4' = {socket'}
      BY <1>0, <1>1, HashAssumption DEF FilledInv, HashCreate
    <3>. QED  BY <3>1, <3>2 DEF FilledInv
  <2>4. burst' = <<>>
    BY <1>0, <1>1 DEF HashCreate
  <2>. QED  BY <2>1, <2>3, <2>4, EmptyBurst DEF HashInv, BurstInv
<1>2. CASE HashAddKey
  <2>1. TableInv' /\ FilledInv'
    BY <1>0, <1>2, AddKeyStep
  <2>2. burst' = <<>>
    BY <1>0, <1>2 DEF HashAddKey
  <2>. QED  BY <2>1, <2>2, EmptyBurst DEF HashInv, BurstInv
<1>3. CASE HashInitDone
  <2>1. TableInv'
    BY <1>0, <1>3 DEF TableInv, HashInitDone
  <2>2. /\ Len(Rules) \in Nat /\ adding \in Nat /\ adding > Len(Rules)
        /\ UNCHANGED <<table, created, socket, lookup4>>
        /\ adding' = 0 /\ lookup1' = TRUE
    BY <1>0, <1>3, HashAssumption DEF HashInitDone, HashReady, FilledInv
  <2>3. \A j \in 1 .. Len(Rules) : j < adding
    BY <2>2
  <2>4. \A j \in 1 .. Len(Rules) : Contains(table', Key(j))
    BY <1>0, <2>2, <2>3 DEF FilledInv
  <2>5. lookup4 = {socket}
    BY <1>0, <2>2 DEF FilledInv
  <2>6. FilledInv'
    BY <1>0, <2>2, <2>4, <2>5 DEF FilledInv
  <2>7. burst' = <<>>
    BY <1>0, <1>3 DEF HashInitDone
  <2>. QED  BY <2>1, <2>6, <2>7, EmptyBurst DEF HashInv, BurstInv
<1>. QED  BY <1>1, <1>2, <1>3 DEF InitHash

\* Compiling a pattern keeps the lists of strings and keys of one length.
LEMMA CompileStep ==
    ASSUME StrstrInv, life = "init", CompileLine
    PROVE  StrstrInv'
<1>. DEFINE S == {Decode(line) : line \in Lines}
            K == {SumOf(Values(line)) : line \in Lines}
<1>1. PICK line \in Lines :
          /\ strings' = Append(strings, Decode(line))
          /\ keys' = Append(keys, SumOf(Values(line)))
  BY DEF CompileLine
<1>2. /\ Len(strings) < MaxStrings /\ MaxStrings \in Nat
      /\ UNCHANGED <<pkt_len, found>>
  BY StrstrAssumption DEF CompileLine
<1>3. /\ strings \in Seq(S) /\ keys \in Seq(K) /\ Len(keys) = Len(strings)
      /\ pkt_len \in 0 .. MaxPacket /\ found \in BOOLEAN /\ pkt_len = 0
  BY DEF StrstrInv
<1>4. Decode(line) \in S /\ SumOf(Values(line)) \in K
  OBVIOUS
<1>. HIDE DEF S, K
<1>5. strings' \in Seq(S) /\ Len(strings') = Len(strings) + 1 /\ Len(strings) \in Nat
  BY <1>1, <1>3, <1>4
<1>6. keys' \in Seq(K) /\ Len(keys') = Len(keys) + 1
  BY <1>1, <1>3, <1>4
<1>7. Len(strings') <= MaxStrings /\ Len(keys') = Len(strings')
  BY <1>2, <1>3, <1>5, <1>6
<1>8. SearchExact'
  BY <1>2, <1>3, NoPacket
<1>. QED  BY <1>2, <1>3, <1>5, <1>6, <1>7, <1>8 DEF StrstrInv, S, K

\* A search ends with found or not found, and rightly.
LEMMA SearchStep ==
    ASSUME StrstrInv, life' = "loop", NEW s \in Memories, NEW len \in 1 .. MaxPacket,
           len < Len(s), StrstrFilter(s, len)
    PROVE  StrstrInv'
<1>1. found' \in BOOLEAN
  <2>1. CASE Len(strings) > NEEDLE
    <3>1. found' = filter_one_hashed(s, len, Needle(strings[NEEDLE + 1]), keys[1])
      BY <2>1 DEF StrstrFilter
    <3>2. filter_one_hashed(s, len, Needle(strings[NEEDLE + 1]), keys[1]) \in BOOLEAN
      BY Zenon DEF filter_one_hashed
    <3>. QED  BY <3>1, <3>2
  <2>2. CASE ~(Len(strings) > NEEDLE)
    BY <2>2 DEF StrstrFilter
  <2>. QED  BY <2>1, <2>2
<1>2. len \in Nat \ {0} /\ pkt_len' \in 0 .. MaxPacket
  BY StrstrAssumption DEF StrstrFilter
<1>3. UNCHANGED <<strings, keys>> /\ memory' = s /\ pkt_len' = len
  BY DEF StrstrFilter
<1>4. SearchExact'
  <2>. DEFINE needle == Needle(strings[NEEDLE + 1])
              hay == Haystack(s, len, needle[1])
              error == keys[1] - CharSum(needle)
  <2>. SUFFICES ASSUME Len(strings) > NEEDLE
                PROVE  /\ error % UintSize = 0 => (found' <=> OccursIn(needle, hay))
                       /\ found' <=>
                            \/ Len(hay) >= Len(needle) /\ OccursAt(hay, 1, needle)
                            \/ \E k \in 2 .. Len(hay) - Len(needle) + 1 :
                                  NearlyAt(hay, k, needle, error)
    BY <1>3 DEF SearchExact
  <2>1. found' = filter_one_hashed(s, len, needle, keys[1])
    BY DEF StrstrFilter
  <2>2. NEEDLE + 1 \in 1 .. Len(strings) /\ 1 \in 1 .. Len(keys)
    <3>1. Len(strings) \in Nat /\ Len(keys) = Len(strings)
      BY DEF StrstrInv
    <3>2. NEEDLE \in Nat
      BY StrstrAssumption
    <3>. QED  BY <3>1, <3>2
  <2>3. keys[1] \in Int
    <3>1. PICK line \in Lines : keys[1] = SumOf(Values(line))
      BY <2>2 DEF StrstrInv
    <3>. QED  BY <3>1, DecodedBytes
  <2>4. PICK line \in Lines : strings[NEEDLE + 1] = Decode(line)
    BY <2>2 DEF StrstrInv
  <2>5. needle \in Seq(Bytes) /\ Len(needle) > 0
    BY <2>4, DecodedBytes, NeedleBytes
  <2>6. s \in Seq(Bytes) /\ Len(s) \in Nat
    BY MemoryBytes
  <2>7. len \in Nat /\ len <= Len(s)
    BY <1>2, <2>6
  <2>8. /\ error % UintSize = 0
             => (filter_one_hashed(s, len, needle, keys[1]) <=> OccursIn(needle, hay))
        /\ filter_one_hashed(s, len, needle, keys[1]) <=>
             \/ Len(hay) >= Len(needle) /\ OccursAt(hay, 1, needle)
             \/ \E k \in 2 .. Len(hay) - Len(needle) + 1 : NearlyAt(hay, k, needle, error)
    <3>. HIDE DEF needle
    <3>. QED  BY <2>3, <2>5, <2>6, <2>7, SearchIsRight
  <2>. HIDE DEF needle, hay, error
  <2>. QED  BY <2>1, <2>8
<1>. QED  BY <1>1, <1>2, <1>3, <1>4 DEF StrstrInv

\* Every step of a slave, its death and its restart included, keeps the invariant.
LEMMA NextEngines == EnginesInv /\ [Next]_vars => EnginesInv'
<1>. SUFFICES ASSUME EnginesInv, [Next]_vars
              PROVE  EnginesInv'
  OBVIOUS
<1>0. LifeInv /\ HashInv /\ ModuloInv /\ StrstrInv
  BY DEF EnginesInv
<1>1. CASE InitHash
  <2>1. HashInv'
    BY <1>0, <1>1, InitHashStep
  <2>2. /\ life = "init" /\ life' \in {"init", "loop"}
        /\ UNCHANGED <<engine, program, crashes, moduloVars, strstrVars>>
    BY <1>1 DEF InitHash
  <2>3. LifeInv'
    BY <1>0, <2>2 DEF LifeInv
  <2>4. ModuloInv' /\ StrstrInv'
    BY <1>0, <2>2, ModuloUnchanged, StrstrUnchanged
  <2>. QED  BY <2>1, <2>3, <2>4 DEF EnginesInv
<1>2. CASE InitHashNoFile \/ InitDefault \/ InitBpf \/ InitBpfPcap
  <2>1. life' = "loop" /\ UNCHANGED <<engine, crashes, hashVars, moduloVars, strstrVars>>
    BY <1>2 DEF InitHashNoFile, InitDefault, InitBpf, InitBpfPcap
  <2>2. program' \in BOOLEAN
    BY <1>0, <1>2
       DEF LifeInv, InitHashNoFile, InitDefault, InitBpf, InitBpfPcap, compile_bpf_program
  <2>3. LifeInv'
    BY <1>0, <2>1, <2>2 DEF LifeInv
  <2>. QED  BY <1>0, <2>1, <2>3, HashUnchanged, ModuloUnchanged, StrstrUnchanged
            DEF EnginesInv
<1>3. CASE InitModulo
  <2>1. /\ life = "init" /\ life' = "loop" /\ modulo' \in Moduli /\ UNCHANGED <<n, dropped>>
        /\ UNCHANGED <<engine, program, crashes, hashVars, strstrVars>>
    BY <1>3 DEF InitModulo, modulo_init
  <2>2. LifeInv'
    BY <1>0, <2>1 DEF LifeInv
  <2>3. n = 0 /\ dropped = 0 /\ n \in -IntMax - 1 .. IntMax
    BY <1>0, <2>1 DEF ModuloInv
  <2>4. modulo' # 0 => 0 % Abs(modulo') \in Nat
    <3>. SUFFICES ASSUME modulo' # 0
                  PROVE  0 % Abs(modulo') \in Nat
      OBVIOUS
    <3>1. ASSUME NEW i \in Int, i # 0
          PROVE  Abs(i) \in Nat \ {0}
      BY <3>1 DEF Abs
    <3>2. modulo' \in Int
      BY <2>1, ModuloAssumption
    <3>3. Abs(modulo') \in Nat \ {0}
      BY <3>1, <3>2
    <3>. QED  BY <3>3, DivMod, 0 \in Int
  <2>5. ModuloInv'
    BY <2>1, <2>3, <2>4 DEF ModuloInv
  <2>. QED  BY <1>0, <2>1, <2>2, <2>5, HashUnchanged, StrstrUnchanged DEF EnginesInv
<1>4. CASE InitStrstr
  <2>1. /\ life = "init" /\ life' \in {"init", "loop", "dead"}
        /\ UNCHANGED <<engine, program, crashes, hashVars, moduloVars>>
        /\ CompileLine \/ UNCHANGED strstrVars
    BY <1>4 DEF InitStrstr
  <2>2. LifeInv'
    BY <1>0, <2>1 DEF LifeInv
  <2>3. StrstrInv'
    BY <1>0, <2>1, CompileStep, StrstrUnchanged
  <2>. QED  BY <1>0, <2>1, <2>2, <2>3, HashUnchanged, ModuloUnchanged DEF EnginesInv
<1>5. CASE FilterHash
  <2>1. /\ life = "loop" /\ UNCHANGED <<engine, life, program, crashes, moduloVars, strstrVars>>
    BY <1>5 DEF FilterHash
  <2>2. PICK packets \in Bursts : HashFilter(packets)
    BY <1>5 DEF FilterHash
  <2>3. TableInv /\ FilledInv
    BY <1>0 DEF HashInv
  <2>4. NoFalseFilter' /\ HashExact'
    BY <2>2, <2>3, FilterStep
  <2>5. TableInv'
    BY <2>2, <2>3 DEF TableInv, HashFilter
  <2>6. FilledInv'
    BY <2>2, <2>3 DEF FilledInv, HashFilter, Contains
  <2>7. HashInv'
    BY <2>1, <2>4, <2>5, <2>6 DEF HashInv, BurstInv
  <2>8. LifeInv'
    BY <1>0, <2>1 DEF LifeInv
  <2>. QED  BY <1>0, <2>1, <2>7, <2>8, ModuloUnchanged, StrstrUnchanged DEF EnginesInv
<1>6. CASE FilterModulo
  <2>1. /\ life = "loop" /\ modulo_engine
        /\ UNCHANGED <<engine, life, program, crashes, hashVars, strstrVars>>
    BY <1>6 DEF FilterModulo
  <2>2. ModuloInv'
    BY <1>0, <2>1, ModuloStep
  <2>3. LifeInv'
    BY <1>0, <2>1 DEF LifeInv
  <2>. QED  BY <1>0, <2>1, <2>2, <2>3, HashUnchanged, StrstrUnchanged DEF EnginesInv
<1>7. CASE FilterStrstr
  <2>1. UNCHANGED <<engine, life, program, crashes, hashVars, moduloVars>>
    BY <1>7 DEF FilterStrstr
  <2>2. /\ life = "loop"
        /\ \E s \in Memories, len \in 1 .. MaxPacket : len < Len(s) /\ StrstrFilter(s, len)
    BY <1>7 DEF FilterStrstr
  <2>3. StrstrInv'
    BY <1>0, <2>1, <2>2, SearchStep
  <2>4. LifeInv'
    BY <1>0, <2>1 DEF LifeInv
  <2>. QED  BY <1>0, <2>1, <2>3, <2>4, HashUnchanged, ModuloUnchanged DEF EnginesInv
<1>8. CASE LoopAgain
  <2>1. /\ burst' = <<>> /\ pkt_len' = 0 /\ found' = FALSE
        /\ UNCHANGED <<engine, life, program, crashes, table, created, socket, lookup4,
                       lookup1, adding, moduloVars, strings, keys>>
    BY <1>8 DEF LoopAgain
  <2>2. LifeInv'
    BY <1>0, <2>1 DEF LifeInv
  <2>3. TableInv'
    BY <1>0, <2>1 DEF HashInv, TableInv
  <2>4. FilledInv'
    BY <1>0, <2>1 DEF HashInv, FilledInv, Contains
  <2>5. HashInv'
    BY <2>1, <2>3, <2>4, EmptyBurst DEF HashInv, BurstInv
  <2>6. pkt_len' \in 0 .. MaxPacket
    BY <2>1, StrstrAssumption
  <2>7. found' \in BOOLEAN
    BY <2>1
  <2>8. StrstrInv'
    <3>1. SearchExact'
      BY <2>1, NoPacket
    <3>. QED  BY <1>0, <2>1, <2>6, <2>7, <3>1 DEF StrstrInv
  <2>. QED  BY <1>0, <2>1, <2>2, <2>5, <2>8, ModuloUnchanged DEF EnginesInv
<1>9. CASE SlaveDies
  <2>1. /\ life' = "dead" /\ crashes < MaxCrashes /\ crashes' = crashes + 1
        /\ UNCHANGED <<engine, program, hashVars, moduloVars, strstrVars>>
    BY <1>9 DEF SlaveDies
  <2>2. crashes' \in 0 .. MaxCrashes
    BY <1>0, <2>1, EnginesAssumption DEF LifeInv
  <2>3. LifeInv'
    BY <1>0, <2>1, <2>2 DEF LifeInv
  <2>. QED  BY <1>0, <2>1, <2>3, HashUnchanged, ModuloUnchanged, StrstrUnchanged
            DEF EnginesInv
<1>10. CASE SlaveRestarts
  <2>1. /\ life' = "init" /\ program' = FALSE /\ UNCHANGED <<engine, crashes>>
        /\ HashForget /\ ModuloForget /\ StrstrForget
    BY <1>10 DEF SlaveRestarts
  <2>2. program' \in BOOLEAN
    BY <2>1
  <2>3. LifeInv'
    BY <1>0, <2>1, <2>2 DEF LifeInv
  <2>4. TableInv'
    BY <1>0, <2>1 DEF HashInv, TableInv, HashForget
  <2>5. FilledInv'
    <3>1. adding' = 0 /\ Len(Rules) \in Nat
      BY <2>1, HashAssumption DEF HashForget
    <3>2. adding' \in 0 .. Len(Rules) + 1 /\ ~(adding' > 0)
      BY <3>1
    <3>3. \A j \in 1 .. Len(Rules) : ~(j < adding')
      BY <3>1
    <3>4. /\ created' \in BOOLEAN /\ lookup1' = FALSE /\ lookup1' \in BOOLEAN
          /\ socket' \in {0, 1} /\ lookup4' = {}
      BY <1>0, <2>1 DEF HashForget, HashInv, FilledInv
    <3>. QED  BY <3>2, <3>3, <3>4 DEF FilledInv
  <2>6. HashInv'
    <3>1. burst' = <<>>
      BY <2>1 DEF HashForget
    <3>. QED  BY <2>4, <2>5, <3>1, EmptyBurst DEF HashInv, BurstInv
  <2>7. ModuloInv'
    BY <2>1, ModuloAssumption DEF ModuloInv, ModuloForget
  <2>8. StrstrInv'
    <3>1. strings' = <<>> /\ keys' = <<>> /\ pkt_len' = 0 /\ found' \in BOOLEAN
      BY <2>1 DEF StrstrForget
    <3>2. pkt_len' \in 0 .. MaxPacket /\ MaxStrings \in Nat
      BY <3>1, StrstrAssumption
    <3>3. SearchExact'
      BY <3>1, NoPacket
    <3>. QED  BY <3>1, <3>2, <3>3 DEF StrstrInv
  <2>. QED  BY <2>3, <2>6, <2>7, <2>8 DEF EnginesInv
<1>11. CASE UNCHANGED vars
  <2>1. UNCHANGED <<engine, life, program, crashes, hashVars, moduloVars, strstrVars>>
    BY <1>11 DEF vars
  <2>2. LifeInv'
    BY <1>0, <2>1 DEF LifeInv
  <2>. QED  BY <1>0, <2>1, <2>2, HashUnchanged, ModuloUnchanged, StrstrUnchanged
            DEF EnginesInv
<1>. QED
  BY <1>1, <1>2, <1>3, <1>4, <1>5, <1>6, <1>7, <1>8, <1>9, <1>10, <1>11 DEF Next

\* Whatever engine a slave runs and however often it dies, what the engine keeps
\* in its process and in shared memory fits together.
THEOREM EnginesInductive == Spec => []EnginesInv
  BY InitEngines, NextEngines, PTL DEF Spec

\* The engines' state keeps its types; the table never outgrows the rules, although
\* every slave that starts adds all of them again (populate_ipv4_few_flow_into_table).
THEOREM TypeCorrect == Spec => []TypeOK
<1>1. EnginesInv => TypeOK
  <2>. SUFFICES ASSUME EnginesInv
                PROVE  TypeOK
    OBVIOUS
  <2>1. Len(table) <= Len(Rules)
    BY TableFits DEF EnginesInv, HashInv
  <2>. QED  BY <2>1 DEF TypeOK, EnginesInv, LifeInv, HashInv, FilledInv, ModuloInv, StrstrInv
<1>. QED  BY <1>1, EnginesInductive, PTL

\* hash_pkt_filter and hash_pkt_filter4 never filter a packet that no rule names.
THEOREM NothingFilteredFalsely == Spec => []NoFalseFilter
<1>1. EnginesInv => NoFalseFilter
  BY DEF EnginesInv, HashInv, BurstInv
<1>. QED  BY <1>1, EnginesInductive, PTL

\* On socket 0 the packets that are filtered are those of the rules but the first.
THEOREM HashIsExact == Spec => []HashExact
<1>1. EnginesInv => HashExact
  BY DEF EnginesInv, HashInv, BurstInv
<1>. QED  BY <1>1, EnginesInductive, PTL

\* modulo_engine drops at most twice m - 1 packets in a row, for every width of n.
THEOREM ModuloIsSpaced == Spec => []ModuloSpacing
<1>1. EnginesInv => ModuloSpacing
  BY SpacingFollows DEF EnginesInv
<1>. QED  BY <1>1, EnginesInductive, PTL

\* fast_strstr_filter_one_hashed compares sums modulo 2^32 in place of the last
\* byte.  When the sum of the first pattern is that of the needle's chars it is
\* right about the string it looks at; when not, it is known what it finds: for
\* every file of patterns, every packet, zero bytes in either included, and every
\* width of the sum that holds a byte.
THEOREM SearchIsExact == Spec => []SearchExact
<1>1. EnginesInv => SearchExact
  BY DEF EnginesInv, StrstrInv
<1>. QED  BY <1>1, EnginesInductive, PTL

=============================================================================
