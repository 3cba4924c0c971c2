------------------------------ MODULE Startup -------------------------------
(***************************************************************************)
(* main() up to main_loop: the command line and the configuration file     *)
(* (parser.c), the shared structures (ipc.c), the pools and the ports, the *)
(* link check (main.c), the flow director (fdir.c) and the launch of the   *)
(* slaves.  The user's options, the lines of the files, the number of      *)
(* devices, the links and the outcome of every DPDK call are free choices. *)
(* rte_exit is pc = "exited".                                              *)
(*                                                                         *)
(* A port mask is the set of its bits.  Ports and config ids that do not   *)
(* fit into their arrays, which the parser does not refuse, are left out.  *)
(***************************************************************************)
EXTENDS Integers, FiniteSets

CONSTANTS
    MaxPort,            \* largest port that a mask or a line names: 31 in the code
    ConfigIds,          \* config ids that a line may name
    None,               \* a configuration that is not enabled
    MAX_TIMER_PERIOD,   \* 86400 in the code
    DefaultPeriod,      \* seconds between two prints: 10 in the code
    MS_PER_S,           \* 1000 in the code
    IntMax,             \* 2^31 - 1 in the code
    Numbers,            \* what strtol may make of the argument of -T and --stats_t
    MAX_CHECK_TIME,     \* 90 in the code
    MaxOptions,         \* bound: options on the command line
    MaxLines,           \* bound: lines read from one file
    MaxRules            \* bound: rules of the flow director

Ports == 0 .. MaxPort

ASSUME StartupAssumption ==
    /\ MaxPort \in Nat
    /\ IsFiniteSet(ConfigIds) /\ ConfigIds \subseteq Nat
    /\ None \notin Ports \X Ports /\ None \notin Nat \X Nat
    /\ MAX_TIMER_PERIOD \in Nat \ {0} /\ MAX_CHECK_TIME \in Nat \ {0}
    /\ MaxOptions \in Nat /\ MaxLines \in Nat /\ MaxRules \in Nat

ASSUME TimerAssumption ==
    /\ DefaultPeriod \in Nat /\ MS_PER_S \in Nat /\ IntMax \in Nat
    /\ DefaultPeriod * MS_PER_S <= IntMax
    /\ (MAX_TIMER_PERIOD - 1) * MS_PER_S <= IntMax
    /\ Numbers \subseteq Int

VARIABLES
    pc,
    port_mask,          \* main_information.port_mask
    fdir,               \* main_information.fdir
    proc_config_nb,     \* main_information.proc_config_nb
    timers,             \* timer_period and timer_stats, in milliseconds
    options,            \* options parsed so far
    proc_config,        \* for an enabled configuration, <<port_rx, port_tx>>
    file_nb,            \* parse_configfile's own proc_config_nb
    lines,              \* lines read of the file
    files,              \* history: files that were opened
    broken,             \* history: the last file ended with return -1
    queue_rx_nb, queue_tx_nb,   \* port_queue_conf
    stats_size,         \* entries of port_statistics
    nb_ports,           \* rte_eth_dev_count()
    pools,              \* ports with a bridge_pool
    next_port,          \* port_id of the loop over the ports
    started,            \* the ports that run, with their numbers of queues
    count, print_flag,  \* of check_all_ports_link_status
    delays,             \* calls of rte_delay_ms
    reports,            \* for each port, how often its link was reported
    rules               \* the ports with a rule of the flow director

config == <<proc_config, file_nb, lines, files, broken, queue_rx_nb, queue_tx_nb>>
command == <<port_mask, fdir, proc_config_nb, timers, options>>
devices == <<stats_size, nb_ports, pools, next_port, started>>
links == <<count, print_flag, delays, reports>>
vars == <<pc, command, config, devices, links, rules>>

Init ==
    /\ pc = "eal"
    /\ port_mask = {} /\ fdir = FALSE /\ proc_config_nb = 0 /\ options = 0
    /\ timers = [period |-> DefaultPeriod * MS_PER_S, stats |-> 0]
    /\ proc_config = [c \in ConfigIds |-> None]
    /\ file_nb = 0 /\ lines = 0 /\ files = 0 /\ broken = FALSE
    /\ queue_rx_nb = [p \in Ports |-> 0] /\ queue_tx_nb = [p \in Ports |-> 0]
    /\ stats_size = 0 /\ nb_ports = 0 /\ pools = {} /\ next_port = 0
    /\ started = [p \in Ports |-> None]
    /\ count = 0 /\ print_flag = FALSE /\ delays = 0
    /\ reports = [p \in Ports |-> 0]
    /\ rules = {}

Enabled == {c \in ConfigIds : proc_config[c] # None}

\* The ports that main's loops do not skip.
UsedPorts == {p \in port_mask : p < nb_ports}

Exit == pc' = "exited"

\* The CPU affinity cannot be saved or restored, or rte_eal_init fails; or not.
EalInit ==
    /\ pc = "eal"
    /\ pc' \in {"options", "exited"}
    /\ UNCHANGED <<command, config, devices, links, rules>>

-----------------------------------------------------------------------------
(* parse_args                                                                *)

Option ==
    /\ pc = "options"
    /\ options < MaxOptions
    /\ options' = options + 1

\* -1, which is every bit, for a text that is no number and for 0.
parse_portmask(isNumber, bits) == IF isNumber /\ bits # {} THEN bits ELSE Ports

OptionMask ==
    /\ Option
    /\ \E isNumber \in BOOLEAN, bits \in SUBSET Ports :
          port_mask' = parse_portmask(isNumber, bits)
    /\ pc' = IF port_mask' = {} THEN "exited" ELSE pc
    /\ UNCHANGED <<fdir, proc_config_nb, timers, config, devices, links, rules>>

\* A parser that takes any number.
parse_timer_period_any(n) == n

parse_timer_period(n) == IF n >= MAX_TIMER_PERIOD THEN -1 ELSE n

\* What an int keeps of a number: strtol returns a long, and an int product that
\* is too large wraps round in the usual build.
ToInt(x) == ((x + IntMax + 1) % (2 * IntMax + 2)) - IntMax - 1

\* -T.  A text that is no number gives -1 too.  The product with 1000 is one of
\* ints: when it overflows, which is undefined, it wraps round or is kept whole.
OptionPeriod ==
    /\ Option
    /\ \E number \in Numbers :
          LET seconds == parse_timer_period(ToInt(number))
          IN  \E ms \in {ToInt(seconds * MS_PER_S), seconds * MS_PER_S} :
                 /\ timers' = [timers EXCEPT !["period"] = ms]
                 /\ pc' = IF ms < 0 THEN "exited" ELSE pc
    /\ UNCHANGED <<port_mask, fdir, proc_config_nb, config, devices, links, rules>>

\* --stats_t, which is in milliseconds.  --stats_f only names a file and is no step.
OptionStats ==
    /\ Option
    /\ \E number \in Numbers :
          LET ms == parse_timer_period(ToInt(number))
          IN  /\ timers' = [timers EXCEPT !["stats"] = ms]
              /\ pc' = IF ms < 0 THEN "exited" ELSE pc
    /\ UNCHANGED <<port_mask, fdir, proc_config_nb, config, devices, links, rules>>

OptionFdir ==
    /\ Option
    /\ fdir' = TRUE
    /\ UNCHANGED <<pc, port_mask, proc_config_nb, timers, config, devices, links, rules>>

\* --help, and an option that does not exist.
OptionExit ==
    /\ Option
    /\ Exit
    /\ UNCHANGED <<port_mask, fdir, proc_config_nb, timers, config, devices, links, rules>>

OptionsEnd ==
    /\ pc = "options"
    /\ pc' = "shared"
    /\ UNCHANGED <<command, config, devices, links, rules>>

-----------------------------------------------------------------------------
(* parse_configfile.  parse_args ignores what it returns.                    *)

\* The file is opened, and the number of lines to skip read and skipped; or one
\* of these fails.
OptionConfig ==
    /\ Option
    /\ proc_config' = [c \in ConfigIds |-> None]
    /\ file_nb' = 0 /\ lines' = 0
    /\ files' = files + 1
    /\ \/ pc' = "file" /\ broken' = FALSE
       \/ pc' = pc /\ broken' = TRUE
    /\ UNCHANGED <<port_mask, fdir, proc_config_nb, timers, queue_rx_nb, queue_tx_nb,
                   devices, links, rules>>

Line ==
    /\ pc = "file"
    /\ lines < MaxLines
    /\ lines' = lines + 1
    /\ UNCHANGED <<port_mask, fdir, timers, options, files, devices, links, rules>>

\* A line that is too long or has fewer than six fields: return -1.
LineMalformed ==
    /\ Line
    /\ pc' = "options" /\ broken' = TRUE
    /\ UNCHANGED <<proc_config_nb, proc_config, file_nb, queue_rx_nb, queue_tx_nb>>

\* A line with a port outside of the mask is skipped with a warning.
LineDeactivated ==
    /\ Line
    /\ \E rx, tx \in Ports : ~({rx, tx} \subseteq port_mask)
    /\ UNCHANGED <<pc, broken, proc_config_nb, proc_config, file_nb,
                   queue_rx_nb, queue_tx_nb>>

\* An id that is enabled already: return -1.
LineTwice ==
    /\ Line
    /\ port_mask # {} /\ Enabled # {}
    /\ pc' = "options" /\ broken' = TRUE
    /\ UNCHANGED <<proc_config_nb, proc_config, file_nb, queue_rx_nb, queue_tx_nb>>

\* A parser that counts the transmit queue on the receive port.
LineEnablesSamePort(c, rx, tx) ==
    /\ proc_config[c] = None
    /\ {rx, tx} \subseteq port_mask
    /\ proc_config' = [proc_config EXCEPT ![c] = <<rx, tx>>]
    /\ queue_tx_nb' = [queue_tx_nb EXCEPT ![rx] = @ + 1]
    /\ queue_rx_nb' = [queue_rx_nb EXCEPT ![rx] = @ + 1]
    /\ file_nb' = file_nb + 1
    /\ UNCHANGED <<pc, broken, proc_config_nb>>

\* A parser that counts the configurations in main_information at once.
LineEnablesAtOnce(c, rx, tx) ==
    /\ proc_config[c] = None
    /\ {rx, tx} \subseteq port_mask
    /\ proc_config' = [proc_config EXCEPT ![c] = <<rx, tx>>]
    /\ queue_tx_nb' = [queue_tx_nb EXCEPT ![tx] = @ + 1]
    /\ queue_rx_nb' = [queue_rx_nb EXCEPT ![rx] = @ + 1]
    /\ file_nb' = file_nb + 1
    /\ proc_config_nb' = file_nb'
    /\ UNCHANGED <<pc, broken>>

LineEnables(c, rx, tx) ==
    /\ proc_config[c] = None
    /\ {rx, tx} \subseteq port_mask
    /\ proc_config' = [proc_config EXCEPT ![c] = <<rx, tx>>]
    /\ queue_tx_nb' = [queue_tx_nb EXCEPT ![tx] = @ + 1]
    /\ queue_rx_nb' = [queue_rx_nb EXCEPT ![rx] = @ + 1]
    /\ file_nb' = file_nb + 1
    /\ UNCHANGED <<pc, broken, proc_config_nb>>

LineEnabled ==
    /\ Line
    /\ \E c \in ConfigIds, rx, tx \in Ports : LineEnables(c, rx, tx)

FileEnd ==
    /\ pc = "file"
    /\ proc_config_nb' = file_nb
    /\ pc' = "options"
    /\ UNCHANGED <<port_mask, fdir, timers, options, config, devices, links, rules>>

-----------------------------------------------------------------------------
(* Shared structures, pools and ports.                                       *)

\* rte_zmalloc returns NULL for no entries as well as for want of memory.
bridge_malloc_shared_struct ==
    /\ proc_config_nb > 0
    /\ stats_size' = proc_config_nb

\* flib_init, bridge_malloc_shared_struct and the count of the devices; each may
\* fail.
SharedStructs ==
    /\ pc = "shared"
    /\ \/ Exit /\ UNCHANGED <<stats_size, nb_ports>>
       \/ /\ bridge_malloc_shared_struct
          /\ nb_ports' \in 1 .. MaxPort + 1
          /\ pc' = "pools"
    /\ UNCHANGED <<command, config, pools, next_port, started, links, rules>>

\* One packet pool for each port in use, and the message pool.
CreatePools ==
    /\ pc = "pools"
    /\ \/ pools' = UsedPorts /\ pc' = "ports"
       \/ Exit /\ UNCHANGED pools
    /\ UNCHANGED <<command, config, stats_size, nb_ports, next_port, started, links, rules>>

\* A loop that does not go on to the next port.
SkipPortStuck ==
    /\ pc = "ports"
    /\ next_port < nb_ports /\ next_port \notin port_mask
    /\ UNCHANGED vars

\* A disabled port is skipped.
SkipPort ==
    /\ pc = "ports"
    /\ next_port < nb_ports /\ next_port \notin port_mask
    /\ next_port' = next_port + 1
    /\ UNCHANGED <<pc, command, config, stats_size, nb_ports, pools, started, links, rules>>

AtLeastOne(n) == IF n = 0 THEN 1 ELSE n

\* fdir_init, for one port.  The error of the last call is returned as rte_errno,
\* which the call need not have set: a failure may go unnoticed.
fdir_init(supported, mode, nop, errno) ==
    supported /\ mode /\ (nop \/ errno = 0)

\* port_init of a port in use: configure the device and its queues, fdir_init,
\* start.  Any failure exits.
InitPort ==
    /\ pc = "ports"
    /\ next_port < nb_ports /\ next_port \in port_mask
    /\ queue_tx_nb' = [queue_tx_nb EXCEPT ![next_port] = AtLeastOne(@)]
    /\ queue_rx_nb' = [queue_rx_nb EXCEPT ![next_port] = AtLeastOne(@)]
    /\ \E configured, supported, mode, nop \in BOOLEAN, errno \in {0, 1} :
          IF configured /\ (fdir => fdir_init(supported, mode, nop, errno))
          THEN /\ started' = [started EXCEPT ![next_port] =
                                <<queue_rx_nb'[next_port], queue_tx_nb'[next_port]>>]
               /\ next_port' = next_port + 1
               /\ pc' = pc
          ELSE Exit /\ UNCHANGED <<started, next_port>>
    /\ UNCHANGED <<command, proc_config, file_nb, lines, files, broken,
                   stats_size, nb_ports, pools, links, rules>>

\* A loop that ends before the last port.
PortsDoneEarly ==
    /\ pc = "ports"
    /\ next_port >= nb_ports - 1
    /\ pc' = IF UsedPorts = {} THEN "exited" ELSE "links"
    /\ UNCHANGED <<command, config, devices, links, rules>>

\* All ports were looked at; without one in use main exits.
PortsDone ==
    /\ pc = "ports"
    /\ next_port = nb_ports
    /\ pc' = IF UsedPorts = {} THEN "exited" ELSE "links"
    /\ UNCHANGED <<command, config, devices, links, rules>>

-----------------------------------------------------------------------------
(* check_all_ports_link_status: one pass of its loop.                        *)

\* A check that sets the flag one pass too late.
LastPassLate(up) == up = UsedPorts \/ count = MAX_CHECK_TIME

\* All links are up, or the time is over: the next pass reports and is the last.
LastPass(up) == up = UsedPorts \/ count = MAX_CHECK_TIME - 1

LinkPass(up) ==
    IF print_flag
    THEN /\ reports' = [p \in Ports |-> reports[p] + (IF p \in UsedPorts THEN 1 ELSE 0)]
         /\ pc' = "fdir"
         /\ UNCHANGED <<count, print_flag, delays>>
    ELSE /\ delays' = delays + (IF up = UsedPorts THEN 0 ELSE 1)
         /\ print_flag' = LastPass(up)
         /\ count' = count + 1
         /\ pc' = IF count' > MAX_CHECK_TIME THEN "fdir" ELSE pc
         /\ UNCHANGED reports

CheckLinks ==
    /\ pc = "links"
    /\ \E up \in SUBSET UsedPorts : LinkPass(up)
    /\ UNCHANGED <<command, config, devices, rules>>

-----------------------------------------------------------------------------
(* fdir_main, the rings and the launch.                                      *)

\* fdir_callback_add_rules, called for each rule of the file: a rule for a port
\* outside of the mask is passed over, and one that the device refuses is logged;
\* neither changes anything.
FdirRule ==
    /\ pc = "fdir" /\ fdir
    /\ Cardinality(rules) < MaxRules
    /\ \E p \in UsedPorts : rules' = rules \cup {p}
    /\ UNCHANGED <<pc, command, config, devices, links>>

\* fdir_main returns 0 whatever became of the rules.
FdirDone ==
    /\ pc = "fdir"
    /\ pc' = "rings"
    /\ UNCHANGED <<command, config, devices, links, rules>>

\* create_ms_ring and flib_register_slave_exit_notify for each lcore, and the
\* launch of the slaves.
CreateRings ==
    /\ pc = "rings"
    /\ pc' \in {"running", "exited"}
    /\ UNCHANGED <<command, config, devices, links, rules>>

Next ==
    \/ EalInit
    \/ OptionMask \/ OptionPeriod \/ OptionStats \/ OptionFdir \/ OptionExit \/ OptionConfig
    \/ OptionsEnd
    \/ LineMalformed \/ LineDeactivated \/ LineTwice \/ LineEnabled \/ FileEnd
    \/ SharedStructs \/ CreatePools \/ SkipPort \/ InitPort \/ PortsDone
    \/ CheckLinks \/ FdirRule \/ FdirDone \/ CreateRings

\* main is one thread and every call returns: it goes on to its end.
Spec == Init /\ [][Next]_vars /\ WF_vars(Next)

-----------------------------------------------------------------------------
(* Properties.                                                               *)

Steps == {"eal", "options", "file", "shared", "pools", "ports", "links", "fdir",
          "rings", "running", "exited"}

\* The types; also, a command line that is not refused leaves timers that
\* main_loop can compare with: none is negative, whatever number was given.
TypeOK ==
    /\ pc \in Steps
    /\ port_mask \in SUBSET Ports
    /\ fdir \in BOOLEAN /\ broken \in BOOLEAN /\ print_flag \in BOOLEAN
    /\ timers \in [{"period", "stats"} -> Int]
    /\ pc # "exited" => /\ timers["period"] \in 0 .. IntMax
                        /\ timers["stats"] \in 0 .. MAX_TIMER_PERIOD - 1
    /\ options \in 0 .. MaxOptions /\ files \in 0 .. MaxOptions
    /\ lines \in 0 .. MaxLines
    /\ file_nb \in 0 .. MaxLines
    /\ proc_config_nb \in 0 .. MaxLines /\ stats_size \in 0 .. MaxLines
    /\ proc_config \in [ConfigIds -> (Ports \X Ports) \cup {None}]
    /\ queue_rx_nb \in [Ports -> Nat] /\ queue_tx_nb \in [Ports -> Nat]
    /\ nb_ports \in 0 .. MaxPort + 1
    /\ next_port \in 0 .. nb_ports
    /\ pools \in SUBSET Ports /\ rules \in SUBSET Ports
    /\ started \in [Ports -> (Nat \X Nat) \cup {None}]
    /\ count \in 0 .. MAX_CHECK_TIME + 1 /\ delays \in Nat
    /\ reports \in [Ports -> Nat]

RxUsers(p) == {c \in Enabled : proc_config[c][1] = p}
TxUsers(p) == {c \in Enabled : proc_config[c][2] = p}

\* A port has at least as many receive queues, and as many transmit queues, as
\* enabled configurations use it, however many files were read and wherever the
\* reading stopped.  (Which queue a configuration names is not checked.)
QueuesCover ==
    \A p \in Ports : /\ queue_rx_nb[p] >= Cardinality(RxUsers(p))
                     /\ queue_tx_nb[p] >= Cardinality(TxUsers(p))

\* When the slaves are launched, the ports of a configuration run, with a pool
\* and as many queues as they have users, if they exist and are in the mask; and
\* rules were installed on running ports only.
ServedPorts ==
    pc = "running" =>
        /\ \A p \in UsedPorts :
              /\ p \in pools /\ started[p] # None
              /\ started[p][1] >= Cardinality(RxUsers(p))
              /\ started[p][2] >= Cardinality(TxUsers(p))
        /\ \A p \in rules : started[p] # None

\* parse_args ignores the error of parse_configfile.  All the same, a file with
\* an error in it never leads to a launch when it is the only one: the count of
\* configurations is still 0 and bridge_malloc_shared_struct fails.
WholeFile ==
    pc = "running" /\ files = 1 => ~broken /\ Cardinality(Enabled) = stats_size

\* check_all_ports_link_status waits no longer than MAX_CHECK_TIME intervals and
\* reports every port in use exactly once, whether the links come up or not.
LinkReported ==
    /\ delays <= MAX_CHECK_TIME
    /\ pc \in {"fdir", "rings", "running"} =>
          reports = [p \in Ports |-> IF p \in UsedPorts THEN 1 ELSE 0]

\* main launches the slaves or exits: no loop of the start up is endless.
Settles == <>(pc \in {"running", "exited"})

\* port_statistics has an entry for each configuration, which is indexed by the
\* config id ("stats per processus", ipc.c).
StatsInRange == pc = "running" => \A c \in Enabled : c < stats_size

=============================================================================
