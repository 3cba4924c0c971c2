# TLA+ models of the DPDK DDoS filtering bridge

The bridge is one DPDK primary process (the master) that forks one forwarding
process (a slave) per lcore. Each slave asks the master for a configuration,
loads the filter engine it names and then moves packets from one receive queue
to one transmit queue, dropping those the engine matches. The master prints
statistics, answers requests and starts slaves again when they die.

The modules model the code under `src/src` and the headers under `src/include`.
`PROJECT.json` maps each definition to its lines.

## 1. Inventory

| component | source | state | operations | interacts through |
|---|---|---|---|---|
| master loop | main.c `main_loop`, `main_set_lcore_cfg` | `proc_config[].used`, `lcore_resource[].config_id/flags`, timers | poll requests, hand out configurations, restart dead slaves, print statistics | rings, `mutex_lock`, shared counters |
| slave supervision | flib.c, dpdk_mp.c | `lcore_cfg`, `mapping_id`, `core_cfg`, `flags` | fork, wait, exit callback, reset, relaunch, assign and free an lcore id | globals shared by the master's threads, shared memory |
| messages | ipc.c | two rings per lcore, `message_pool` | `send_cmd`, `get_cmd`, `slave_request` | shared memory |
| slave life cycle | bridge.c `bridge_launch_one_lcore`, `bridge_init_engine` | floating id, `slave_conf` | take an id, publish it, ask for a configuration, run an engine, leave | the four above |
| packet loop | bridge.c `bridge_main_loop`, bridge_optimized.c | `mbuf_tx`, the burst, `port_statistics[conf_id]` | drain, receive, filter, buffer, send, count | device queues, mbuf pool, shared counters |
| statistics | main.c `print_stats`, `print_port_stats`, `write_stats` | none of its own | read the counters of running slaves | shared counters |
| configuration | parser.c | `proc_config`, `port_queue_conf`, options | parse the file, the port mask, the periods | start up only |
| engines | engine_hash.c, fast_strstr.c, engine_misc.c, engine_bpf*.c | tables, patterns, a counter | initialise, decide on a packet | called by the loop |
| flow director | fdir.c | hardware filters | add rules | start up only |
| port start up | main.c | device state | configure, start, check links | start up only |
| debug, formatting, scripts | debug.c, aton.c, R/ | none | output | - |

What is hard in this code, and what would make each part correct:

* **Supervision** is a protocol between three actors per lcore (the master, an
  EAL thread of the master, the slave) over one unfair spinlock and several
  unlocked fields. Correct means: no death is missed, no wait under the lock
  deadlocks, a reset never hits a live slave, and everything a slave held (id,
  configuration, messages) comes back exactly once.
* **Messages** survive their receiver: rings are found again by name after a
  restart. Correct means that a slave only ever sees the answer to its own
  request.
* **Ids and configurations** are allocated by different actors in several steps
  and returned by another one. Correct means exclusive and never lost.
* **The packet loop** dies at any instruction and leaves shared counters and the
  mbuf pool behind. Correct means that buffers never overflow, order is kept,
  every packet has one fate, and the counters tell it.
* **Statistics** are read while they are written.

The hazards, each at its line, are in `PROJECT.json`.

## 2. Modules

| module | what it is |
|---|---|
| `SlaveControl` | supervision, requests and answers, ids, configurations and the slave life cycle |
| `MCSlaveControl` | instances of it for TLC |
| `SlaveControlProofs` | its theorems that hold whenever and wherever slaves die |
| `SlaveIdProofs` | its theorems about lcore ids and configurations, for the deaths that the code copes with |
| `Supervisor` | abstract: the life of each slave and its dialog with the master; `SlaveControl` implements it |
| `SupervisorProofs` | that it does |
| `Bridge` | the packet loop of one configuration, both variants |
| `MCBridge` | instances of it for TLC |
| `BridgeProofs` | its theorems about buffers and mbufs |
| `BridgeFlowProofs` | its theorems about packets and counters |
| `StatsReader` | `Bridge` next to the `print_stats` of the master |
| `MsgChannel` | abstract: each ring is a bounded queue of messages |
| `IpcChannel` | `send_cmd` and `get_cmd` with the message pool, step by step; implements `MsgChannel` |
| `MCIpcChannel` | its symmetry for TLC |
| `IpcChannelProofs` | its theorems, the refinement among them |
| `Startup` | `main` up to `main_loop`: command line, configuration file, pools, ports, links, flow director |
| `MCStartup` | the numbers of its options for TLC |
| `StartupProofs` | its theorems |
| `HashEngine`, `ModuloEngine`, `FastStrstr` | the engines that keep state or compute something |
| `Engines` | these and the BPF engines in one slave that dies and is started again |
| `MCEngines` | instances of it for TLC |
| `EnginesProofs` | its theorems |

How they fit together: `Startup` ends where `SlaveControl` begins, with the rings
created and the slaves launched. `SlaveControl` takes the rings as queues of
messages, which is what `MsgChannel` says and `IpcChannel` is shown to implement.
`Bridge` takes the engine as an arbitrary choice of packets, and `Engines` says
what that choice is. `StatsReader` composes `Bridge` with the reader of its
counters.

### SlaveControl

Each variable is named after the field it stands for. `mpc`, `tpc[l]` and
`spc[l]` are the program counters of the master, of the EAL thread of lcore `l`
and of its slave process. A step ends where another actor can see or change
something: between the scan of `lcore_cfg` and the compare-and-set, between the
compare-and-set and the publication in `mapping_id`, between `send_cmd` and the
two assignments that record the configuration, before and after each lock.

Decisions that the code forces and that are easy to miss:

* `lcore_resource` and `proc_config` are plain globals. A slave has a copy of its
  own after `fork`, so what `bridge_launch_one_lcore` writes to them on its way
  out (`used = 0`, `flags &= ...`) reaches nobody, and the DONT_RECREATE bit is
  never set in the master. `remapping_slave_resource` only makes the slave's
  copy use the rings of its original lcore under the floating id.
* `create_ms_ring` finds an existing ring by name, so the rings keep their
  content over a restart until `init_slave_res` drains them.
* `reset_lcore` clears `mapping_id` and `proc_config` at index `map_id`, the
  floating id, and the model does the same.
* The flag `SLAVE_RECREATE_FLAG` is cleared twice, in `reset_lcore` and in
  `main_loop`, both under the lock: one step.
* A thread whose `fork` failed is FINISHED like any other, but its callback was
  not called.

Abstractions: a request is its command and an answer its config id (the number
goes through `snprintf` and `atoi` unchanged for the ids that exist). `send_cmd`
does not fail: each ring has 64 places and the message pool 64 per lcore, and
theorem `ExchangesPairUp` shows that an lcore never has more than one message in
flight. The scan for a free id is one step that finds the smallest free one; the
compare-and-set that follows is a step of its own and may fail.
The slave's `slave_conf` is `sconf`, zero after `fork` as in the master; that a slave
left because of an unknown engine is read from it.
`proc_config_used_nb` is written and never read after start up, and `init_config`
is not used. The command STOP is never sent.

### Supervisor

What `SlaveControl` promises for each lcore, without threads, rings, flags and the
lock. A slave process is `starting`, `alive`, `exited`, `noticed` or `failed` (its
fork failed), in this order and round again. A live slave asks for a configuration
once, is answered or refused, and is configured with what it was given, which is
also what the master puts on record. A question whose slave is gone is an orphan:
it may still be answered, on the record and to nobody, and the slave is started
again only when it is gone.

The mapping is in `SlaveControl`. `PhaseOf` reads the phase from the place of the
EAL thread, of the slave and the RECREATE flag; a thread that has ended with the
flag down is in phase `lost`, which `Supervisor` does not know. `DialogOf` reads
the dialog from the rings and from the request in the master's hand; `OnRecord`
counts a configuration as recorded once the answer is sent. What this rules out:
an exit that nobody will act on, two processes on one lcore, a successor that is
given an answer its predecessor left in a ring, a record that is not what the slave
was given, and more than one late write to the record of a dead slave. Configurations
are not exclusive and lcore ids do not appear there: these hold under
conditions only and are properties of their own.

### Bridge

`pc` is the place in the loop. `Group = 1` is the loop of bridge.c, `Group = 4`
that of bridge_optimized.c: while at least `Group` packets of the burst are left
it counts the bytes of a whole group and then filters its packets one by one, as
`RTE_ALIGN_FLOOR` and the loop after it do. The device may take any prefix of a
burst, including none. The engine is a set `match` of packets, chosen freely at
the start, so a result about the loop holds for every engine. A device call and
the counter update after it are separate steps, since the counters live in
shared memory and outlive a slave that dies in between.

`wire`, `filtered`, `dropped` and `lost` are history variables: what happened to
each packet, to compare the counters with. The hash loop polls its ring for a
STOP message in each iteration; by `OneExchange` the ring of a running slave is
empty, so the call has no effect and is not modelled.

External to the repository, and modelled from how the code uses them: the clock,
the driver that gives transmitted mbufs back, packet lengths, and whatever kills
a slave.

### MsgChannel and IpcChannel

A message is copied into a buffer of `message_pool`, the buffer goes through a
ring, the message is copied out and the buffer goes back: `SendGetBuffer`,
`SendCopy`, `SendEnqueue`; `GetDequeue`, `GetCopy`, `GetPut`. Each is a step of its
own, because the pool is shared by all lcores and a slave may die anywhere.
`hand[a]` is the local `bridge_msg_void`, `asked` and `got` are the two messages of
the caller. The two ways in which `send_cmd` fails after its checks are
`SendNoBuffer`, which may happen even with free buffers (they may sit in the
caches of other lcores), and `SendRingFull`. `SlaveRestarts` waits until both
rings of the dead slave are empty, as the two loops of `init_slave_res` do; the
draining itself is the `get_cmd` of the master. `lost` is a history variable: the
buffers that went down with a slave.

In `MsgChannel` there are no buffers. A call is asked for, accepted or refused; a
message is taken from the head of its queue and returned with. The refinement
mapping reads the queue of a ring through the contents of its buffers, and counts
a message as taken from the moment its buffer leaves the ring. What this rules
out is a buffer that is written again between `GetDequeue` and `GetCopy`, or while
it lies in a ring.

### Startup

`pc` is the place in `main`. The user's options arrive in any order and number,
each line of a configuration file is any line, the number of devices, the state
of the links and the outcome of every DPDK call are free choices, so that one run
covers every command line and file within the bounds. A port mask is the set of
its bits; the mask of a text that is no number is the set of all ports, since
`parse_portmask` returns -1 and only 0 is refused. The number of `-T` or `--stats_t`
is any of `Numbers`: `ToInt` cuts it to an int as the assignment of `strtol` does,
`parse_timer_period` tests only that it is below `MAX_TIMER_PERIOD`, and `-T`
multiplies it by 1000 in int. That overflow is undefined; the model lets the product
wrap round or be kept whole. A timer is in milliseconds: the product with
`TIMER_MILLISECOND` is one of 64 bits, which cannot overflow with an int.
`parse_args` ignores what `parse_configfile` returns, and so does the model: what
a broken file leaves behind (cleared configurations, some lines enabled, queue
counts already raised, the count of configurations not yet set) is the state the
rest of `main` works with. Two values that the parser does not check, a port above
31 and a config id outside of `proc_config`, are left out: the program's behaviour
is then undefined.

`LinkPass` is one pass of `check_all_ports_link_status`; each pass sees any set of
links up. `fdir_init` returns `rte_errno` for a failed call, which may be 0.

### Engines

`HashEngine`: the rules are `ipv4_bridge_route_array`, or the generated flows,
whichever init_hash adds; an address is two bytes and is stored in network byte
order, which `convert_ipv4_5tuple` computes and which the properties compare with.
Ports and protocol go the same way as the addresses and are left out. The table is
found again by name after a restart, as `rte_hash_create` does in the version the
code is written for. A burst is cut into groups of `GROUP` packets; a whole group
of one kind goes through `hash_pkt_filter4`, which looks into the table of socket
0, everything else through `hash_pkt_filter`.

`ModuloEngine`: an `int` with its overflow, which wraps in the builds of the
Makefile; the remainder is 0 for the same numbers whatever the sign.

`FastStrstr`: a line of the file is the sequence of what `getVal` makes of its
characters, digits or not: `A` to `F` become negative numbers, letters after `f` too
large ones. The bytes of a pattern are these values cut to 8 bits, its key is the
sum of the values as they were. A line is refused when it has an odd character,
is longer than `FAST_STR_MAX_STRING_SIZE` or has a negative value
(`addition_overflow`), and `fast_str_init` then ends the slave. A line of exactly
that length passes the test and its closing zero is written one behind `tmp`: what
that overwrites is not modelled.

The search starts at the first place in the packet of the needle's first byte, and
from there on treats the packet as a C string (`Haystack`): it ends at the next
zero, which may lie in the packet or behind it. `memory` is the packet and what
follows it up to a zero. The needle is `fast_strstr_strings[4]` up to its first zero,
and what is subtracted from the sum of the window is the key of pattern 0.
`SearchExact` says what this finds, for all packets and files. Where the key is the
sum of the needle's chars, the needle is found if and only if it is a substring
of the haystack; for ASCII patterns this is so when pattern 0 has the same sum as
pattern 4. Where it differs by an error, a match at the first place
is still found, and at a later place exactly the windows are that agree but for a
last char that is off by the error. The patterns of `config_string/test_config` are
of the second kind. A whole Ethernet frame is searched, and each IPv4 frame has zero
bytes, the EtherType 08 00 among them: what lies behind the first zero after the
first occurrence of the needle's first byte is never looked at.

The sum of a window is written as a sum, which the code keeps up to date byte by
byte; theorem `RollingSum` says that the two are the same. A sum is the number of
its units (`Units`), positive ones less negative ones, and not a fold: cardinalities
can be reasoned about.

`Engines` puts them into one slave: `bridge_init_engine` ignores what an init
function returns, so a slave may enter the loop without a table, or without a BPF
program. What a BPF program decides is outside of the repository.

### StatsReader

`print_stats` evaluates `rx_b - filtered_b - dropped_b` of another process's
counters. The reads are unordered, so the operands are read one per step, in any
order, between steps of the slave. `CounterRange` stands for 2^64.

## 3. Runs

Passing runs:

| run | shows | size |
|---|---|---|
| `control_any_crash` | `TypeOK`, `NoExitLost`, `ResetIsSafe`, `OneExchange`, `RecordAgrees`, `Relaunched`, `ImplementsSupervisor` with a death at any stage, slaves that leave by themselves, and a failing fork; of `Relaunched`, slaves with an unknown engine are left out | 131 000 states |
| `control_settled` | `IdUnique`, `IdAccounted`, `ConfigExclusive`, `UsedIsHeld`, `EventuallyRunning` | 44 000 states |
| `bridge_loop` | `TypeOK`, `PacketsAccounted`, `BytesBalance`, `BufferBounded`, `OrderKept`, `MbufsAccounted`, `Drained` | 312 000 states |
| `ipc_channel` | `TypeOK`, `OneHolder`, `BuffersAccounted`, `ImplementsChannel` with a master, two slaves, a pool that runs dry, rings that fill up and two deaths | 103 000 states |
| `startup` | `TypeOK`, `QueuesCover`, `ServedPorts`, `WholeFile`, `LinkReported`, `Settles` for all command lines of four options | 871 000 states |
| `engines` | `TypeOK`, `NoFalseFilter`, `HashExact`, `ModuloSpacing`, `SearchExact` | 1 910 000 states |

`control_settled` restricts the environment: a slave dies only when the master has
recorded its configuration (`SettledOnly`), all engines are known and the floating
ids (3, 4) are no config ids (0, 1). The restrictions are not assumptions that the
code makes true. What happens without them:

* `IdUnique` and `IdAccounted` do not need that much: section 4 proves them for
  deaths at the stages `request` to `free`, that is, from the publication of the
  id until it is given back, recorded or not. A slave that dies at
  stage `map`, between the compare-and-set and the publication, takes its id with
  it: with `map` in `CrashPoints`, `IdAccounted` fails within a few steps. With
  `assign`, `cas` or `unmap`, an id that is still on record is given back a second
  time, as in run `control_stale_mapping`.
* `ConfigExclusive` and `UsedIsHeld` fail as `control_config_zero` and the first two
  deviations below show.

Runs that end with a counterexample, each against what a comment in the code
says (quoted in `findings`):

| run | property | what happens |
|---|---|---|
| `control_config_zero` | `ConfigExclusive` | a slave that dies without a configuration releases configuration 0 |
| `control_stale_mapping` | `IdUnique` | a stale mapping gives back an id that another slave uses |
| `stats_reader` | `SentPlausible` | the printed difference wraps around |
| `startup_stats_size` | `StatsInRange` | a gap in the config ids makes `port_statistics` too short |
| `hash_first_rule` | `MatchFiltered` | the packets of the key at position 0 are forwarded |
| `control_unknown_engine` | `NotRecreated` | a slave with an unknown engine is started again, and again |

Other deviations between the code and its comments that the models reproduce, to
which no run is devoted:

* A slave that dies between the master's `send_cmd` and `used = 1` leaves its
  configuration marked used for ever (main.c:537-541; main.h:131 "==1 if a proc
  used this cfg"). `UsedIsHeld` fails when `SettledOnly` is dropped.
* `reset_lcore` clears `proc_config[map_id].used`, with a floating lcore id for an
  index (dpdk_mp.c:195). `ConfigExclusive` fails when floating ids overlap config
  ids.
* With more slaves than configurations the master does not answer, and
  `slave_request` waits for ever; the branch "I HAVE NOTHING TO DO" (bridge.c:545)
  is never taken.
* `prev_tsc` is never updated, so the loop drains in each iteration once the first
  `drain_tsc` ticks have passed (main.h:277 "TX drain every ~100us").
* The comment of `fast_strstr_filter_one_hashed` says "search only one string =
  fast_strstr_strings[0]" (fast_strstr.c:232). It searches for pattern 4, with the sum
  of pattern 0 (fast_strstr.c:237, 270): a packet is filtered in which the first
  pattern does not occur, and a later match of pattern 4 is missed unless the
  sums agree. `SearchExact` states what is found in each case.
* With fewer than five patterns the needle is whatever lies behind the array
  (fast_strstr.c:237). A pattern in upper case digits is refused (`getVal`,
  `addition_overflow`).
* On a socket other than 0 a group of packets is not filtered at all, since
  `hash_pkt_filter4` uses the first entry of `ipv4_bridge_lookup_struct`.
* The comment over `ipv4_bridge_route_array` names the fields in another order
  than `struct ipv4_5tuple` has them (engine_hash.c:146).
* A period of 86400 is refused, which the usage text calls the maximum
  (parser.c:197, 248). A negative one is not refused as such, and its product with
  1000 overflows an int: `-T -3000000` gives a period of 1294967296 ms, about 15
  days, although main.h:276 says "1 day max". What `TypeOK` states, and
  `StartupProofs` proves, is that no period is negative and none exceeds the
  largest int.
* The lines of a configuration file are tested against the port mask of the options
  read so far: with `-p` after the file all of them are deactivated (parser.c:130).
* After two configuration files of which the second is broken, `main` launches
  with the count of the first.

Bounds. Two slaves suffice for the interleavings of interest: the fields are per
lcore, and what slaves share (the lock, the id map, the configurations, the
master) is already contended by two. `MaxLcore` is the master, the slaves and as
many floating ids as the run needs: one in `control_any_crash`, so that ids run
out, two in the others. Two deaths allow a slave and its successor, or both
slaves, to die; in `control_any_crash` one is enough, since a slave with an
unknown engine leaves by itself again and again, and the theorems cover any
number. In `bridge_loop` a burst of three holds a group of two and a remainder;
five packets fill the transmit buffer in the middle of a burst and in the middle
of a group, and five mbufs let the pool run short; one death happens at every step
of the loop. In the code a burst is 64 (`MAX_PKT_BURST`) and a group 4; the
theorems hold for all. The clock stops at `MaxTsc`, past `DrainTsc`, so that both
outcomes of the drain test occur. `ipc_channel` has three buffers for three actors
and four rings of two places, so that the pool runs dry while rings are full, and
two deaths, so that a slave dies in `send_cmd` and its successor, or the other
one, in `get_cmd`; lcores, buffers and messages are interchangeable there, and
symmetric states are identified. In `startup` two ports and three config ids give
lines that are deactivated, doubled and with gaps; four options are a mask, two
files and one more, in any order; two lines allow an error after an enabled line.
The link check has three intervals instead of 90. With ints up to 7 and three
milliseconds to a second, the numbers -3, -1, 2 and 17 are one whose product
overflows, one that is refused, `MAX_TIMER_PERIOD` itself and one that is too
large for an int and becomes 1. In `engines` a byte has two values, so that
addresses have bytes in two different orders; bursts of three are a group of two
and a rest; `IntMax` is 7, so that the counter overflows with moduli that do and
do not divide the range. The needle is pattern 1 of at most two instead of pattern
4 (`NEEDLE`), digits are below 4 and a sum wraps at 64; packets have up to four of
the bytes 0, 1, 2 and 9, the last one a negative char, so that zeros, equal sums
of different windows and sums below zero occur. The lines are patterns with and
without a zero, the empty one, one with a value that does not fit a byte, and one
for each way in which a line is refused. Two deaths let a table be left half
filled twice.

Fairness. Each actor is a process or thread that never blocks except where the
model says so, hence weak fairness of its steps. The lock is a test-and-set
spinlock without a queue. Strong fairness of `ThreadLock` and `MasterLock` says
that an actor that finds the lock free again and again takes it in the end: the
lock is free for the whole of the master's polling pass, and the callback's
critical section is a few instructions. Nothing is assumed of deaths and of
failing forks, which are never fair.

`Startup` has weak fairness of its next step: `main` is a single thread, and each
call it makes returns. `IpcChannel` and `Engines` state no fairness, and nothing
about them is temporal but the refinement, which is a safety property.

Deadlock is checked in the runs of `SlaveControl` and `Bridge`. `startup` really
ends, in `main_loop` or with an exit; in `engines` a slave whose modulus is 0 stops
when its deaths are used up; `ipc_channel` says nothing about who calls and when,
and never stops.

## 4. Proofs

`SlaveControlProofs` proves, for every number of lcores, every set of slaves and
configurations, and every number of deaths at any stage:

* `TypeCorrect`: `Spec => []TypeOK`.
* `ExitsAreNoticed`: `Spec => []NoExitLost`, `ResetsAreSafe`: `Spec =>
  []ResetIsSafe`. Neither is inductive. `SupervisionInv` adds who owns the
  spinlock (`LockInv`), that a process exists only while its thread waits for it
  (`WaitInv`), that the flag of an lcore is up exactly from the callback to the
  end of `reset_lcore` (`FlagInv`), and that a reset is only under way for an
  lcore whose flag is up (`ResetInv`). The case that needs all of it is the
  successor that dies while the master is between the launch and the clearing of
  the flag: its callback waits for the lock, so the flag it sets is not the one
  that is cleared.
* `ExchangesPairUp`: `Spec => []OneExchange`. The strengthening says that nothing
  is in flight once `init_slave_res` has drained the rings. It rests on
  `ResetIsSafe`: nobody sends on behalf of that lcore meanwhile.
* `RecordsAgree`: `Spec => []RecordAgrees`. The strengthening (`RecordInv`) also
  speaks of an answer still in the ring.

`SupervisorProofs` proves `SupervisorImplemented`: `Spec => ImplementsSupervisor`,
again for every number of lcores, slaves, configurations and deaths at any stage.
`View` is all that the mapping looks at, so a step that leaves the view of an lcore
alone is a stutter there (`ViewKept`), and a step of one lcore that leaves the views
of the others alone is a step of the whole (`Lifted`). One lemma per actor
(`SlaveAt`, `CrashAt`, `ThreadAt`, `MasterAnswersAt`, `MasterRelaunchesAt`) says
which step of the supervisor each action is. It rests on the inductive invariant of
`SlaveControlProofs`: that an ended thread has its flag up is `FlagInv`, that at
most one message of an lcore is in flight is `ExchangeInv`, and that the record is
what the slave was given is `RecordInv`.

`SlaveIdProofs` goes on, for every number of slaves, lcores and configurations and
any number of deaths, under hypotheses that the theorems state:

* `IdsAreUnique`: `Spec => []IdUnique`, `IdsAreAccounted`: `Spec =>
  []IdAccounted`, if slaves die only while their id is on record in `mapping_id`
  (`IdFaults`) and `RTE_MAX_LCORE` leaves an id for each slave (`IdsSuffice`).
  Without the second, a slave that finds no id leaves with that of its predecessor
  still on record, and its reset gives that id back a second time, as that of a
  slave that dies before it has an id does (run `control_stale_mapping`). The
  invariant `IdInv` names for each id a holder: the slave that owns it, or the
  dead slave whose reset is to come (`Orphan`). An id is marked taken exactly
  while it has a holder (`IdTaken`) and has one only (`IdHeldOnce`). That a slave
  never finds the table full is a counting argument (`IdLeft`): every id would be
  held by another slave, and there are too few of these.
* `ConfigsAreExclusive`: `Spec => []ConfigExclusive`, `UsedConfigsAreHeld`: `Spec =>
  []UsedIsHeld`, if slaves die only with their configuration recorded, all engines
  are known and floating lcore ids are no config ids (`ConfigFaults`, the setting of
  run `control_settled`). `ConfigInv` relates `used` to the lcores that hold a
  configuration, through the answer in flight and the two assignments that record
  it; it needs `OneExchange` and `RecordAgrees`.

The hypotheses are satisfied by the constants of that run, and cannot be
dropped: `control_stale_mapping` and `control_config_zero` are counterexamples
outside of them, and section 3 names the others.

`BridgeProofs` proves, for every burst size, group size, pool and number of
deaths:

* `BufferNeverOverflows`: `Spec => []BufferBounded`;
* `MbufsAreAccounted`: `Spec => []MbufsAccounted`.

The inductive invariant `BridgeInv` adds where in the loop a burst can be at
hand and how long it can be: a burst of which a packet has just filled the
transmit buffer is short of that packet, which is where the bound of
`2 * MAX_PKT_BURST - 1` lost mbufs per death comes from.

`BridgeFlowProofs` proves the other invariants of `Bridge`, again for all constants:

* `OrderIsKept`: `Spec => []OrderKept`. `OrderInv` adds that the burst at hand is the
  last stretch of what arrived, that the transmit buffer is in order and lies
  between the wire and the burst, except while `rte_eth_tx_burst` has taken a part
  of it and the rest is being freed.
* `PacketsAreAccounted`: `Spec => []PacketsAccounted`. `FateInv` says that the
  packets up to the burst are split into five disjoint sets, with the packet that
  is just being filtered counted as past. `CountedInv` keeps account of what a
  counter is due to be told at each place of the loop and of what it will never be
  told, at most a burst for each death.
* `BytesAreBalanced`: `Spec => []BytesBalance`, inductive with the others. The bytes
  of a set of packets are the size of the set of its (packet, byte) pairs, so that
  the sums of the model are cardinalities of disjoint unions.
* `TypeCorrect`: `Spec => []TypeOK`.

`IpcChannelProofs` proves, for every number of lcores, buffers, messages and
deaths and every size of the rings:

* `TypeCorrect`: `Spec => []TypeOK`, and `BuffersHaveOneHolder`: `Spec =>
  []OneHolder`. The invariant `ChannelInv` adds what an actor holds in each step
  (`StepInv`), that a buffer that waits to be sent or lies in a ring has a message
  in it (`FilledInv`), and that rings keep to their size (`RingInv`). One cannot be
  had without the others: that a buffer put back was in nobody else's hands is
  `OneHolder`, that it is a buffer at all is `StepInv`.
* `BuffersAreAccounted`: `Spec => []BuffersAccounted`. `AllPlaced` says that each
  buffer is somewhere, `FewLost` that at most one was lost for each death.
* `ChannelImplemented`: `Spec => ImplementsChannel`, with one lemma for each action:
  it is a step of `MsgChannel` or leaves the queues, the calls and the messages
  taken alone. `OneHolder` is what makes `SendCopy` invisible: the buffer it writes
  is in no ring and nobody reads it.

`StartupProofs` proves, for every number of ports, set of config ids, command line,
configuration file and outcome of the DPDK calls, all invariants of the run:
`TypeCorrect`, `QueuesAreCovered`, `PortsAreServed`, `WholeFileOrNone` and
`LinksAreReported`. `TypeCorrect` says of the timers that `main` goes on only with a
period from 0 to the largest int and a log timer below `MAX_TIMER_PERIOD`, whatever
numbers were given (`SecondsFit`, `PeriodFits`); it holds whether an overflowing
product wraps or not. That the period is no more than a day does not follow, and is
false, as section 3 says. `StartupInv` adds to the five:

* `FileInv`, the parser's own count against the enabled configurations and the count
  that `main` works with, which is set at the end of a file only. A first file with
  an error therefore leaves it at 0, and the allocation that follows refuses 0:
  that, and nothing else, is why `main` does not launch from half a file.
* `PortInv`, that ports below the loop variable run with the queues on record at
  that time, which are still those on record at the launch.
* `LinkInv`, that the flag which makes a pass of the link check print is up in the
  last interval.

`EnginesProofs` proves, for every rule set, size of a byte, group and burst, every
modulus and width of an int, and any number of deaths and restarts:

* `NothingFilteredFalsely`: `Spec => []NoFalseFilter`, and `HashIsExact`: `Spec =>
  []HashExact`. `TableInv` says of the table in shared memory what survives a death
  at any place of the loop that fills it: only keys of rules, none twice, that of
  the first rule in front. `FilledInv` says that what the slave at hand has added is
  there and that its group lookups ask the table of its own socket. The lemmas are
  about the operators: the byte order conversion is injective
  (`BigEndianInjective`), a positive position is that of a later rule
  (`PositionPositive`, `PositionOfLater`), the result of a group lookup comes back
  to the packet it was asked for (`GroupIndex`).
* `ModuloIsSpaced`: `Spec => []ModuloSpacing`. `ModuloInv` bounds the run of dropped
  packets by the remainder of the counter, and by m - 1 more while the counter is
  negative, that is, since it overflowed.
* `SearchIsExact`: `Spec => []SearchExact`, for every file of patterns, every packet,
  with zeros or without, and every width of the sum that holds a byte.
  `WindowIsNearly`: the sum of a window that agrees with the needle in all bytes but
  the last differs from that of the needle by the difference of the last chars
  (`SumsDiffer`), so that the test of the code is that this difference is the error
  of the key modulo 2^32. `NearlyIsAt`: for an error of 0 the last chars are then
  equal, since a char is smaller than 2^32 and `Char` is injective on bytes. The
  hypotheses that these lemmas need, that needle and haystack are bytes, are not
  left to the theorem: `DecodedBytes`, `NeedleBytes` and `HaystackBytes` derive them
  from how both are made. The sums are cardinalities, so that no induction over
  sequences is needed.
* `RollingSum`: the unsigned int that the code updates with `sums_diff -=
  *sub_start++; sums_diff += *i_haystack` is `SumsDiff` of the next window. It is a
  fact about the model's operator, and what makes it a model of the loop.
* `TypeCorrect`: `Spec => []TypeOK`; that the table does not outgrow the rules is a
  pigeonhole argument over `TableInv` (`TableFits`).

The proofs assume `ConstantsAssumption`, `BridgeAssumption`, `IpcAssumption`,
`StartupAssumption`, `TimerAssumption`, `EnginesAssumption` and those of the
engines, which the runs evaluate. All but two are the ranges of the constants.
`TimerAssumption` also says that `MAX_TIMER_PERIOD - 1` seconds in milliseconds
fit an int, as 86399000 does. `HashAssumption` also says that no later rule equals
the first, as is the case in `ipv4_bridge_route_array` (engine_hash.c:145-151):
`HashExact`, which singles out the first, would be false otherwise.

Each invariant of a passing run is proved, and both refinements. Only model-checked
is what needs fairness, which the prover cannot reason about: `EventuallyRunning`,
`Relaunched`, `Drained` and `Settles`.

## 5. Not modelled

* What a BPF program decides, and its compilers (an external JIT and libpcap).
* DPDK itself: rings and pools are atomic, device calls succeed or fail. The flags
  `MEMPOOL_F_SP_PUT | MEMPOOL_F_SC_GET` of the packet pools (main.c:826), which
  several slaves use, and the initialisation of the elements of `message_pool` as
  mbufs (main.c:857) have their effect inside DPDK.
* Debug output, address formatting and the R scripts, which keep no state.
* `main_loop`'s timers, which decide only when statistics are printed. The signal
  that ends a slave when its parent is gone ends the whole system.
* Code that is never called or only commented out: `master_send_cmd_with_ack`,
  `flib_query_slave_status`, the IPv6 tables, `fast_strstr_filter_one`, the tree
  and the sorted lengths of the patterns, RFC 1812 checks.

## 6. Plan

Done, in this order: `SlaveControl`, since everything else depends on slaves being
started, configured and restarted; `Bridge`; their proofs; `IpcChannel` with its
abstract specification and the refinement; `Startup`; the engines; the proofs of
the invariants of all of them; `Supervisor` and the second refinement; the
conditions of `SlaveIdProofs` weakened to the deaths at which the id of the slave
is on record.

What is left are the conditions of `SlaveIdProofs` and of run `control_settled`. They
stand for windows of the code that section 3 names, and go
only as these are closed there.
