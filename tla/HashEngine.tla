----------------------------- MODULE HashEngine -----------------------------
(***************************************************************************)
(* The hash engine (engine_hash.c): init_hash creates a table of rules in  *)
(* shared memory, hash_pkt_filter looks up one packet and hash_pkt_filter4 *)
(* a group, as bridge_optimized.c calls them for a burst.  Parts: the      *)
(* composition with the slave's life is module Engines.                    *)
(*                                                                         *)
(* An address is a number below Byte * Byte in a rule and two bytes in a   *)
(* packet.  Ports and protocol are treated as the addresses are and left   *)
(* out; ttl stands for the fields between them that mask0 clears.  The     *)
(* IPv6 tables are never filled (ipv6 is always 0) and left out.           *)
(***************************************************************************)
EXTENDS Integers, Sequences, FiniteSets, SequencesExt

CONSTANTS
    Byte,           \* values of a byte: 256 in the code
    Rules,          \* ipv4_bridge_route_array: records of ip_dst and ip_src
    Addresses,      \* addresses in packets
    GROUP,          \* packets that are looked up together: 4 in the code
    MaxBurst        \* bound: packets of a burst

ASSUME HashAssumption ==
    /\ Byte \in Nat \ {0} /\ GROUP \in Nat \ {0} /\ MaxBurst \in Nat
    /\ Addresses \subseteq 0 .. Byte * Byte - 1
    /\ Rules \in Seq([ip_dst : Addresses, ip_src : Addresses])
    /\ \A j \in 2 .. Len(Rules) : Rules[j] # Rules[1]     \* no entry is there twice

VARIABLES
    table,          \* the keys in shared memory, in the order of their positions
    created,        \* the table exists in shared memory
    socket,         \* socket of the slave's lcore
    lookup4,        \* sockets with ipv4_bridge_lookup_struct[socket] # NULL
    lookup1,        \* lookup_struct # NULL
    adding,         \* i of the loop that adds the rules, 0 outside of it
    burst,          \* the packets at hand
    filtered        \* which of them were filtered

hashVars == <<table, created, socket, lookup4, lookup1, adding, burst, filtered>>

HashInit ==
    /\ table = <<>> /\ created = FALSE
    /\ socket \in {0, 1}
    /\ lookup4 = {} /\ lookup1 = FALSE /\ adding = 0
    /\ burst = <<>> /\ filtered = <<>>

\* The memory of a process is gone, shared memory stays.  The next slave may have
\* another floating lcore id and so be on another socket.
HashForget ==
    /\ lookup4' = {} /\ lookup1' = FALSE /\ adding' = 0
    /\ burst' = <<>> /\ filtered' = <<>>
    /\ socket' \in {0, 1}
    /\ UNCHANGED <<table, created>>

-----------------------------------------------------------------------------
(* init_hash                                                                 *)

\* An address in network byte order.
BigEndian(address) == <<address \div Byte, address % Byte>>

\* A conversion that leaves the byte order of the host.
convert_ipv4_5tuple_host(rule) ==
    [ip_dst |-> <<rule.ip_dst % Byte, rule.ip_dst \div Byte>>,
     ip_src |-> <<rule.ip_src % Byte, rule.ip_src \div Byte>>]

convert_ipv4_5tuple(rule) ==
    [ip_dst |-> BigEndian(rule.ip_dst), ip_src |-> BigEndian(rule.ip_src)]

\* rte_hash_create succeeds.  A table of that name, left behind by a dead slave,
\* may be returned as it is.
HashCreate ==
    /\ adding = 0 /\ lookup4 = {}
    /\ created' = TRUE
    /\ lookup4' = {socket}
    /\ adding' = 1
    /\ UNCHANGED <<table, socket, lookup1, burst, filtered>>

\* A table that takes a key again.
HashAddKeyAgain ==
    /\ adding \in 1 .. Len(Rules)
    /\ table' = Append(table, convert_ipv4_5tuple(Rules[adding]))
    /\ adding' = adding + 1
    /\ UNCHANGED <<created, socket, lookup4, lookup1, burst, filtered>>

\* rte_hash_add_key: a key that is there already keeps its position.
HashAddKey ==
    /\ adding \in 1 .. Len(Rules)
    /\ LET key == convert_ipv4_5tuple(Rules[adding])
       IN  table' = IF Contains(table, key) THEN table ELSE Append(table, key)
    /\ adding' = adding + 1
    /\ UNCHANGED <<created, socket, lookup4, lookup1, burst, filtered>>

HashReady == adding > Len(Rules)

\* All rules are added: lookup_struct is set.
HashInitDone ==
    /\ HashReady
    /\ lookup1' = TRUE
    /\ adding' = 0
    /\ UNCHANGED <<table, created, socket, lookup4, burst, filtered>>

-----------------------------------------------------------------------------
(* hash_pkt_filter and hash_pkt_filter4                                      *)

Packets ==
    [kind : {"ipv4", "ipv6", "other"}, ttl : {0, 1},
     ip_dst : {BigEndian(a) : a \in Addresses},
     ip_src : {BigEndian(a) : a \in Addresses}]

\* _mm_and_si128(data, mask0)
KeyOf(packet) == [ip_dst |-> packet.ip_dst, ip_src |-> packet.ip_src]

\* The position of a key, from 0, or -ENOENT.
Position(key) ==
    IF Contains(table, key) THEN CHOOSE i \in 0 .. Len(table) - 1 : table[i + 1] = key
                            ELSE -2

\* rte_hash_lookup on no table returns -EINVAL.
hash_pkt_filter(packet) == IF lookup1 THEN Position(KeyOf(packet)) ELSE -22

\* A group that is decided by its first packet.
hash_pkt_filter4_first(group) ==
    [i \in DOMAIN group |-> IF 0 \in lookup4 THEN Position(KeyOf(group[1])) ELSE 0]

\* rte_hash_lookup_multi on *ipv4_bridge_lookup_struct, the table of socket 0.
\* Without that table it leaves ret as it was, and the caller has set it to 0.
hash_pkt_filter4(group) ==
    [i \in DOMAIN group |-> IF 0 \in lookup4 THEN Position(KeyOf(group[i])) ELSE 0]

\* The packets of a burst that are looked up together: whole groups of one kind.
Together(packets, i) ==
    LET first == ((i - 1) \div GROUP) * GROUP + 1
    IN  /\ first + GROUP - 1 <= Len(packets)
        /\ \E kind \in {"ipv4", "ipv6"} :
              \A j \in first .. first + GROUP - 1 : packets[j].kind = kind

GroupOf(packets, i) ==
    LET first == ((i - 1) \div GROUP) * GROUP + 1
    IN  SubSeq(packets, first, first + GROUP - 1)

\* ret of each packet.
Lookup(packets, i) ==
    IF Together(packets, i)
    THEN hash_pkt_filter4(GroupOf(packets, i))[((i - 1) % GROUP) + 1]
    ELSE hash_pkt_filter(packets[i])

\* bridge_loop_optimized with a burst: a packet with ret > 0 is filtered.
HashFilter(packets) ==
    /\ burst' = packets
    /\ filtered' = [i \in DOMAIN packets |-> Lookup(packets, i) > 0]
    /\ UNCHANGED <<table, created, socket, lookup4, lookup1, adding>>

Bursts == UNION {[1 .. n -> Packets] : n \in 1 .. MaxBurst}

-----------------------------------------------------------------------------
(* Properties.                                                               *)

Matches(packet, rule) ==
    /\ packet.ip_dst = BigEndian(rule.ip_dst)
    /\ packet.ip_src = BigEndian(rule.ip_src)

\* No packet is filtered that no rule names, whatever its neighbours, its socket
\* and the state in which a dead slave left the table.
NoFalseFilter ==
    \A i \in DOMAIN burst :
        filtered[i] => \E j \in 1 .. Len(Rules) : Matches(burst[i], Rules[j])

\* On socket 0 the engine filters the packets of all rules but the first, alone
\* and in a group, also after a slave died while it filled the table.
HashExact ==
    socket = 0 /\ lookup1 =>
        \A i \in DOMAIN burst :
            filtered[i] <=> \E j \in 2 .. Len(Rules) : Matches(burst[i], Rules[j])

\* An IPv4 packet that a rule names is filtered once init_hash has ended ("if not
\* found in hash table ret = -2", bridge_optimized.c: every other value is a match).
MatchFiltered ==
    lookup1 => \A i \in DOMAIN burst :
        burst[i].kind = "ipv4" /\ (\E j \in 1 .. Len(Rules) : Matches(burst[i], Rules[j]))
        => filtered[i]

=============================================================================
