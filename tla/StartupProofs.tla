---------------------------- MODULE StartupProofs ----------------------------
(***************************************************************************)
(* Proofs about Startup, for every number of ports, set of config ids,     *)
(* command line, configuration file and outcome of the DPDK calls.         *)
(***************************************************************************)
EXTENDS Startup, FiniteSetTheorems, TLAPS

\* parse_args and parse_configfile are over.
Parsed == pc \in {"shared", "pools", "ports", "links", "fdir", "rings", "running"}

\* bridge_malloc_shared_struct has succeeded.
Allocated == pc \in {"pools", "ports", "links", "fdir", "rings", "running"}

\* The ports were started.
Started == pc \in {"links", "fdir", "rings", "running"}

\* The bounds of the counters of files and lines.
CountInv == files <= options /\ file_nb <= lines

\* parse_configfile counts what it enables; main_information learns of it at the
\* end of the file only, so a first file with an error leaves it at 0.
FileInv ==
    /\ Cardinality(Enabled) = file_nb
    /\ files = 0 => proc_config_nb = 0 /\ ~broken /\ pc # "file"
    /\ files = 1 => IF pc = "file" \/ broken
                    THEN proc_config_nb = 0 /\ (pc = "file" => ~broken)
                    ELSE proc_config_nb = file_nb
    /\ Allocated => stats_size = proc_config_nb /\ stats_size > 0

\* The ports below next_port that are in use run, with the queues on record.
PortInv ==
    /\ pc \in {"ports", "links", "fdir", "rings", "running"} => pools = UsedPorts
    /\ Started => next_port = nb_ports
    /\ next_port > 0 => Allocated \/ pc = "exited"
    /\ \A p \in UsedPorts : p < next_port =>
          started[p] = <<queue_rx_nb[p], queue_tx_nb[p]>>
    /\ rules \subseteq UsedPorts /\ (rules # {} => Started \/ pc = "exited")

\* One pass of the link check for each interval, and the report in the last one.
LinkInv ==
    /\ delays <= count /\ count <= MAX_CHECK_TIME
    /\ count = MAX_CHECK_TIME => print_flag
    /\ pc \notin {"links", "fdir", "rings", "running", "exited"} =>
          count = 0 /\ ~print_flag
    /\ pc \notin {"fdir", "rings", "running", "exited"} =>
          reports = [p \in Ports |-> 0]
    /\ pc \in {"fdir", "rings", "running"} =>
          reports = [p \in Ports |-> IF p \in UsedPorts THEN 1 ELSE 0]

StartupInv == TypeOK /\ CountInv /\ QueuesCover /\ FileInv /\ PortInv /\ LinkInv

-----------------------------------------------------------------------------
(* Types and bounds.                                                         *)

TypeInv == TypeOK /\ CountInv

\* The types and bounds hold when main() starts.
LEMMA InitTypes == Init => TypeInv
  <1> SUFFICES ASSUME Init PROVE TypeInv
    OBVIOUS
  <1>1. /\ timers \in [{"period", "stats"} -> Int]
        /\ timers["period"] \in 0 .. IntMax /\ timers["stats"] \in 0 .. MAX_TIMER_PERIOD - 1
    <2>1. DefaultPeriod * MS_PER_S \in 0 .. IntMax
      BY TimerAssumption
    <2>2. timers = [period |-> DefaultPeriod * MS_PER_S, stats |-> 0]
      BY DEF Init
    <2> QED
      BY <2>1, <2>2, StartupAssumption
  <1>2. started \in [Ports -> (Nat \X Nat) \cup {None}]
    BY DEF Init
  <1>3. proc_config \in [ConfigIds -> (Ports \X Ports) \cup {None}]
    BY DEF Init
  <1>4. /\ queue_rx_nb \in [Ports -> Nat] /\ queue_tx_nb \in [Ports -> Nat]
        /\ reports \in [Ports -> Nat]
    BY DEF Init
  <1>5. CountInv
    BY DEF Init, CountInv
  <1>6. /\ pc \in Steps /\ port_mask \in SUBSET Ports
        /\ pools \in SUBSET Ports /\ rules \in SUBSET Ports
        /\ fdir \in BOOLEAN /\ broken \in BOOLEAN /\ print_flag \in BOOLEAN
    BY DEF Init, Steps
  <1>7. /\ options \in 0 .. MaxOptions /\ files \in 0 .. MaxOptions
        /\ lines \in 0 .. MaxLines /\ file_nb \in 0 .. MaxLines
        /\ proc_config_nb \in 0 .. MaxLines /\ stats_size \in 0 .. MaxLines
        /\ nb_ports \in 0 .. MaxPort + 1 /\ next_port \in 0 .. nb_ports
        /\ count \in 0 .. MAX_CHECK_TIME + 1 /\ delays \in Nat
    BY StartupAssumption DEF Init
  <1> QED
    BY <1>1, <1>2, <1>3, <1>4, <1>5, <1>6, <1>7 DEF TypeInv, TypeOK

\* strtol's number is cut to an int, and one that is too large is refused.
LEMMA SecondsFit ==
    ASSUME NEW number \in Numbers
    PROVE  /\ parse_timer_period(ToInt(number)) \in Int
           /\ parse_timer_period(ToInt(number)) <= MAX_TIMER_PERIOD - 1
  <1>1. number \in Int /\ IntMax \in Nat /\ MAX_TIMER_PERIOD \in Nat \ {0}
    BY TimerAssumption, StartupAssumption
  <1>2. PICK i \in Int : i = ToInt(number)
    <2>1. PICK m \in Nat : m = 2 * IntMax + 2 /\ m > 0
      BY <1>1
    <2>2. PICK r \in Int : r = (number + IntMax + 1) % m
      BY <1>1, <2>1
    <2>3. ToInt(number) = r - IntMax - 1
      BY <2>1, <2>2 DEF ToInt
    <2> QED
      BY <1>1, <2>3
  <1> QED
    BY <1>1, <1>2 DEF parse_timer_period

\* The period in milliseconds is at most what an int holds, whether the product
\* wraps round or not: seconds are bounded from above, if not from below.
LEMMA PeriodFits ==
    ASSUME NEW number \in Numbers,
           NEW ms \in {ToInt(parse_timer_period(ToInt(number)) * MS_PER_S),
                      parse_timer_period(ToInt(number)) * MS_PER_S}
    PROVE  ms \in Int /\ ms <= IntMax
  <1>1. /\ IntMax \in Nat /\ MS_PER_S \in Nat /\ MAX_TIMER_PERIOD \in Nat \ {0}
        /\ (MAX_TIMER_PERIOD - 1) * MS_PER_S <= IntMax
    BY TimerAssumption, StartupAssumption
  <1>2. PICK s \in Int : s = parse_timer_period(ToInt(number)) /\ s <= MAX_TIMER_PERIOD - 1
    BY SecondsFit
  <1>3. PICK d \in Nat : s + d = MAX_TIMER_PERIOD - 1
    <2>1. MAX_TIMER_PERIOD - 1 - s \in Nat
      BY <1>1, <1>2
    <2> QED
      BY <1>1, <2>1
  <1>4. /\ s * MS_PER_S \in Int /\ d * MS_PER_S \in Nat
        /\ (s + d) * MS_PER_S = s * MS_PER_S + d * MS_PER_S
    BY <1>1
  <1>5. s * MS_PER_S <= IntMax
    BY <1>1, <1>3, <1>4
  <1>6. PICK p \in Int : p = s * MS_PER_S
    BY <1>4
  <1>7. ToInt(p) \in Int /\ ToInt(p) <= IntMax
    <2>1. PICK m \in Nat : m = 2 * IntMax + 2 /\ m > 0
      BY <1>1
    <2>2. PICK r \in Int : r = (p + IntMax + 1) % m /\ r <= m - 1
      BY <1>1, <2>1
    <2>3. ToInt(p) = r - IntMax - 1
      BY <2>1, <2>2 DEF ToInt
    <2> QED
      BY <1>1, <2>1, <2>2, <2>3
  <1> QED
    BY <1>2, <1>4, <1>5, <1>6, <1>7

\* The options that do not read a file.
LEMMA OptionTypes ==
    ASSUME TypeInv,
           EalInit \/ OptionMask \/ OptionPeriod \/ OptionStats \/ OptionFdir
             \/ OptionExit \/ OptionsEnd
    PROVE  TypeInv'
  <1> USE StartupAssumption
      DEF TypeInv, TypeOK, CountInv, Steps, command, config, devices, links, Option, Exit
  <1>1. CASE EalInit
    BY <1>1 DEF EalInit
  <1>2. CASE OptionMask
    <2>1. port_mask' \in SUBSET Ports /\ pc' \in Steps
      BY <1>2 DEF OptionMask, parse_portmask
    <2> QED
      BY <1>2, <2>1 DEF OptionMask
  <1>3. CASE OptionPeriod
    <2>0. PICK number \in Numbers :
             \E ms \in {ToInt(parse_timer_period(ToInt(number)) * MS_PER_S),
                       parse_timer_period(ToInt(number)) * MS_PER_S} :
                /\ timers' = [timers EXCEPT !["period"] = ms]
                /\ pc' = IF ms < 0 THEN "exited" ELSE pc
      BY <1>3 DEF OptionPeriod
    <2>1. PICK ms \in {ToInt(parse_timer_period(ToInt(number)) * MS_PER_S),
                      parse_timer_period(ToInt(number)) * MS_PER_S} :
             /\ timers' = [timers EXCEPT !["period"] = ms]
             /\ pc' = IF ms < 0 THEN "exited" ELSE pc
      BY <2>0
    <2>2. ms \in Int /\ ms <= IntMax
      BY PeriodFits
    <2>3. pc' # "exited" => ms \in 0 .. IntMax /\ pc # "exited"
      BY <2>1, <2>2, <1>3, TimerAssumption DEF OptionPeriod
    <2>4. timers' \in [{"period", "stats"} -> Int] /\ pc' \in Steps
      BY <2>1, <2>2
    <2>5. timers'["period"] = ms /\ timers'["stats"] = timers["stats"]
      BY <2>1
    <2> QED
      BY <1>3, <2>3, <2>4, <2>5 DEF OptionPeriod
  <1>7. CASE OptionStats
    <2>1. PICK number \in Numbers :
             /\ timers' = [timers EXCEPT !["stats"] = parse_timer_period(ToInt(number))]
             /\ pc' = IF parse_timer_period(ToInt(number)) < 0 THEN "exited" ELSE pc
      BY <1>7 DEF OptionStats
    <2>2. PICK ms \in Int : ms = parse_timer_period(ToInt(number)) /\ ms <= MAX_TIMER_PERIOD - 1
      BY SecondsFit
    <2>3. pc' # "exited" => ms \in 0 .. MAX_TIMER_PERIOD - 1 /\ pc # "exited"
      BY <2>1, <2>2, <1>7 DEF OptionStats
    <2>4. timers' \in [{"period", "stats"} -> Int] /\ pc' \in Steps
      BY <2>1, <2>2
    <2>5. timers'["stats"] = ms /\ timers'["period"] = timers["period"]
      BY <2>1, <2>2
    <2> QED
      BY <1>7, <2>3, <2>4, <2>5 DEF OptionStats
  <1>4. CASE OptionFdir
    BY <1>4 DEF OptionFdir
  <1>5. CASE OptionExit
    BY <1>5 DEF OptionExit
  <1>6. CASE OptionsEnd
    BY <1>6 DEF OptionsEnd
  <1> QED
    BY <1>1, <1>2, <1>3, <1>4, <1>5, <1>6, <1>7

\* The lines of a configuration file.
LEMMA FileTypes ==
    ASSUME TypeInv,
           OptionConfig \/ LineMalformed \/ LineDeactivated \/ LineTwice
             \/ LineEnabled \/ FileEnd
    PROVE  TypeInv'
  <1> USE StartupAssumption
      DEF TypeInv, TypeOK, CountInv, Steps, command, config, devices, links, Option, Line
  <1>1. CASE OptionConfig
    <2>1. proc_config' \in [ConfigIds -> (Ports \X Ports) \cup {None}]
      BY <1>1 DEF OptionConfig
    <2>2. pc' \in Steps /\ broken' \in BOOLEAN
      BY <1>1 DEF OptionConfig
    <2> QED
      BY <1>1, <2>1, <2>2 DEF OptionConfig
  <1>2. CASE LineMalformed
    BY <1>2 DEF LineMalformed
  <1>3. CASE LineDeactivated
    BY <1>3 DEF LineDeactivated
  <1>4. CASE LineTwice
    BY <1>4 DEF LineTwice
  <1>5. CASE LineEnabled
    <2>1. PICK c \in ConfigIds, rx \in Ports, tx \in Ports : LineEnables(c, rx, tx)
      BY <1>5 DEF LineEnabled
    <2>2. /\ proc_config' \in [ConfigIds -> (Ports \X Ports) \cup {None}]
          /\ queue_rx_nb' \in [Ports -> Nat] /\ queue_tx_nb' \in [Ports -> Nat]
      BY <2>1 DEF LineEnables
    <2>3. file_nb' = file_nb + 1 /\ UNCHANGED <<pc, broken, proc_config_nb>>
      BY <2>1 DEF LineEnables
    <2> QED
      BY <1>5, <2>2, <2>3 DEF LineEnabled
  <1>6. CASE FileEnd
    BY <1>6 DEF FileEnd
  <1> QED
    BY <1>1, <1>2, <1>3, <1>4, <1>5, <1>6

\* The devices, the links, the rules and the launch.
LEMMA DeviceTypes ==
    ASSUME TypeInv, LinkInv, PortInv,
           SharedStructs \/ CreatePools \/ SkipPort \/ InitPort \/ PortsDone
             \/ CheckLinks \/ FdirRule \/ FdirDone \/ CreateRings
    PROVE  TypeInv'
  <1> USE StartupAssumption
      DEF TypeInv, TypeOK, CountInv, Steps, command, config, devices, links, Exit
  <1>1. CASE SharedStructs
    <2>1. next_port = 0
      BY <1>1 DEF SharedStructs, PortInv, Allocated
    <2> QED
      BY <1>1, <2>1 DEF SharedStructs, bridge_malloc_shared_struct
  <1>2. CASE CreatePools
    BY <1>2 DEF CreatePools, UsedPorts
  <1>3. CASE SkipPort
    BY <1>3 DEF SkipPort
  <1>4. CASE InitPort
    <2>1. next_port \in Ports /\ next_port < nb_ports
      BY <1>4 DEF InitPort
    <2>2. queue_rx_nb' \in [Ports -> Nat] /\ queue_tx_nb' \in [Ports -> Nat]
      BY <1>4, <2>1 DEF InitPort, AtLeastOne
    <2>3. \/ /\ started' = [started EXCEPT ![next_port] =
                               <<queue_rx_nb'[next_port], queue_tx_nb'[next_port]>>]
             /\ next_port' = next_port + 1 /\ pc' = pc
          \/ pc' = "exited" /\ UNCHANGED <<started, next_port>>
      BY <1>4 DEF InitPort
    <2>4. started' \in [Ports -> (Nat \X Nat) \cup {None}]
      BY <2>1, <2>2, <2>3
    <2>5. next_port' \in 0 .. nb_ports /\ pc' \in Steps
      BY <2>1, <2>3
    <2> QED
      BY <1>4, <2>2, <2>4, <2>5 DEF InitPort
  <1>5. CASE PortsDone
    BY <1>5 DEF PortsDone
  <1>6. CASE CheckLinks
    <2>1. PICK up \in SUBSET UsedPorts : LinkPass(up)
      BY <1>6 DEF CheckLinks
    <2>2. pc' \in Steps /\ count' \in 0 .. MAX_CHECK_TIME + 1 /\ delays' \in Nat
      BY <1>6, <2>1 DEF CheckLinks, LinkPass, LinkInv
    <2>4. print_flag' \in BOOLEAN
      <3>1. CASE print_flag
        BY <2>1, <3>1 DEF LinkPass
      <3>2. CASE ~print_flag
        <4>1. print_flag' = LastPass(up)
          BY <2>1, <3>2 DEF LinkPass
        <4> QED
          BY <4>1 DEF LastPass
      <3> QED
        BY <3>1, <3>2
    <2>3. reports' \in [Ports -> Nat]
      BY <2>1 DEF LinkPass
    <2> QED
      BY <1>6, <2>2, <2>3, <2>4 DEF CheckLinks
  <1>7. CASE FdirRule
    BY <1>7 DEF FdirRule, UsedPorts
  <1>8. CASE FdirDone
    BY <1>8 DEF FdirDone
  <1>9. CASE CreateRings
    BY <1>9 DEF CreateRings
  <1> QED
    BY <1>1, <1>2, <1>3, <1>4, <1>5, <1>6, <1>7, <1>8, <1>9

-----------------------------------------------------------------------------
(* Queues and configurations.                                                *)

\* Only a line of the file, the start of a file and the start of a port change the
\* configurations or the numbers of queues.
LEMMA QueueSteps ==
    ASSUME [Next]_vars
    PROVE  \/ LineEnabled \/ OptionConfig \/ InitPort
           \/ UNCHANGED <<proc_config, queue_rx_nb, queue_tx_nb, file_nb>>
  BY DEF Next, vars, command, config, devices, links, EalInit, OptionMask, OptionPeriod, OptionStats,
     OptionFdir, OptionExit, OptionsEnd, LineMalformed, LineDeactivated, LineTwice,
     FileEnd, SharedStructs, CreatePools, SkipPort, PortsDone, CheckLinks, FdirRule,
     FdirDone, CreateRings

\* The sets that are counted are finite.
LEMMA UsersFinite ==
    /\ IsFiniteSet(Enabled) /\ Cardinality(Enabled) \in Nat
    /\ \A p \in Ports : /\ IsFiniteSet(RxUsers(p)) /\ Cardinality(RxUsers(p)) \in Nat
                        /\ IsFiniteSet(TxUsers(p)) /\ Cardinality(TxUsers(p)) \in Nat
  <1>1. IsFiniteSet(Enabled)
    BY StartupAssumption, FS_Subset DEF Enabled
  <1>2. \A p \in Ports : IsFiniteSet(RxUsers(p)) /\ IsFiniteSet(TxUsers(p))
    BY <1>1, FS_Subset DEF RxUsers, TxUsers
  <1> QED
    BY <1>1, <1>2, FS_CardinalityType

\* One more user.
LEMMA OneMoreUser ==
    ASSUME NEW S, IsFiniteSet(S), NEW c, c \notin S
    PROVE  Cardinality(S \cup {c}) = Cardinality(S) + 1
  BY FS_AddElement

\* A line enables one configuration, which uses a queue of each of its ports.
LEMMA LineUsers ==
    ASSUME TypeOK, NEW c \in ConfigIds, NEW rx \in Ports, NEW tx \in Ports,
           LineEnables(c, rx, tx)
    PROVE  /\ c \notin Enabled
           /\ Enabled' = Enabled \cup {c}
           /\ \A p \in Ports :
                 /\ RxUsers(p)' = IF p = rx THEN RxUsers(p) \cup {c} ELSE RxUsers(p)
                 /\ TxUsers(p)' = IF p = tx THEN TxUsers(p) \cup {c} ELSE TxUsers(p)
  <1>0. <<rx, tx>> # None
    BY StartupAssumption
  <1>1. /\ proc_config'[c] = <<rx, tx>> /\ proc_config[c] = None
        /\ \A d \in ConfigIds \ {c} : proc_config'[d] = proc_config[d]
    BY DEF TypeOK, LineEnables
  <1>2. c \notin Enabled /\ Enabled' = Enabled \cup {c}
    BY <1>0, <1>1 DEF Enabled
  <1>3. ASSUME NEW p \in Ports
        PROVE  RxUsers(p)' = IF p = rx THEN RxUsers(p) \cup {c} ELSE RxUsers(p)
    <2>1. \A d : d \in RxUsers(p)' <=> d \in RxUsers(p) \/ (d = c /\ p = rx)
      BY <1>1, <1>2 DEF RxUsers, Enabled
    <2> QED
      BY <2>1
  <1>4. ASSUME NEW p \in Ports
        PROVE  TxUsers(p)' = IF p = tx THEN TxUsers(p) \cup {c} ELSE TxUsers(p)
    <2>1. \A d : d \in TxUsers(p)' <=> d \in TxUsers(p) \/ (d = c /\ p = tx)
      BY <1>1, <1>2 DEF TxUsers, Enabled
    <2> QED
      BY <2>1
  <1> QED
    BY <1>2, <1>3, <1>4

\* A new file starts with no configuration enabled.
LEMMA FileStarts ==
    ASSUME OptionConfig
    PROVE  Enabled' = {} /\ \A p \in Ports : RxUsers(p)' = {} /\ TxUsers(p)' = {}
  BY DEF OptionConfig, Enabled, RxUsers, TxUsers

\* A port always has a queue for each of its users.
LEMMA NextQueues ==
    ASSUME TypeOK, QueuesCover, [Next]_vars
    PROVE  QueuesCover'
  <1>1. CASE LineEnabled
    <2>1. PICK c \in ConfigIds, rx \in Ports, tx \in Ports : LineEnables(c, rx, tx)
      BY <1>1 DEF LineEnabled
    <2>2. ASSUME NEW p \in Ports PROVE queue_rx_nb'[p] >= Cardinality(RxUsers(p)')
      <3>1. queue_rx_nb'[p] = IF p = rx THEN queue_rx_nb[p] + 1 ELSE queue_rx_nb[p]
        BY <2>1 DEF LineEnables, TypeOK
      <3>2. c \notin RxUsers(p)
        BY <2>1, LineUsers DEF RxUsers
      <3>3. Cardinality(RxUsers(p)') =
               IF p = rx THEN Cardinality(RxUsers(p)) + 1 ELSE Cardinality(RxUsers(p))
        BY <2>1, <3>2, LineUsers, UsersFinite, OneMoreUser
      <3> QED
        BY <3>1, <3>3, UsersFinite DEF QueuesCover, TypeOK
    <2>3. ASSUME NEW p \in Ports PROVE queue_tx_nb'[p] >= Cardinality(TxUsers(p)')
      <3>1. queue_tx_nb'[p] = IF p = tx THEN queue_tx_nb[p] + 1 ELSE queue_tx_nb[p]
        BY <2>1 DEF LineEnables, TypeOK
      <3>2. c \notin TxUsers(p)
        BY <2>1, LineUsers DEF TxUsers
      <3>3. Cardinality(TxUsers(p)') =
               IF p = tx THEN Cardinality(TxUsers(p)) + 1 ELSE Cardinality(TxUsers(p))
        BY <2>1, <3>2, LineUsers, UsersFinite, OneMoreUser
      <3> QED
        BY <3>1, <3>3, UsersFinite DEF QueuesCover, TypeOK
    <2> QED
      BY <2>2, <2>3 DEF QueuesCover
  <1>2. CASE OptionConfig
    <2>1. \A p \in Ports : /\ Cardinality(RxUsers(p)') = 0
                           /\ Cardinality(TxUsers(p)') = 0
      BY <1>2, FileStarts, FS_EmptySet
    <2>2. \A p \in Ports : queue_rx_nb'[p] \in Nat /\ queue_tx_nb'[p] \in Nat
      BY <1>2 DEF OptionConfig, TypeOK
    <2> QED
      BY <2>1, <2>2 DEF QueuesCover
  <1>3. CASE InitPort
    <2>1. \A p \in Ports : RxUsers(p)' = RxUsers(p) /\ TxUsers(p)' = TxUsers(p)
      BY <1>3 DEF InitPort, RxUsers, TxUsers, Enabled
    <2>2. \A p \in Ports : /\ queue_rx_nb'[p] >= queue_rx_nb[p]
                           /\ queue_tx_nb'[p] >= queue_tx_nb[p]
                           /\ queue_rx_nb'[p] \in Nat /\ queue_tx_nb'[p] \in Nat
      BY <1>3 DEF InitPort, AtLeastOne, TypeOK
    <2> QED
      BY <2>1, <2>2, UsersFinite DEF QueuesCover, TypeOK
  <1>4. CASE UNCHANGED <<proc_config, queue_rx_nb, queue_tx_nb>>
    BY <1>4 DEF QueuesCover, RxUsers, TxUsers, Enabled
  <1> QED
    BY <1>1, <1>2, <1>3, <1>4, QueueSteps

\* The count of the parser is the number of configurations it has enabled.
LEMMA NextEnabled ==
    ASSUME TypeOK, Cardinality(Enabled) = file_nb, [Next]_vars
    PROVE  Cardinality(Enabled') = file_nb'
  <1>1. CASE LineEnabled
    <2>1. PICK c \in ConfigIds, rx \in Ports, tx \in Ports : LineEnables(c, rx, tx)
      BY <1>1 DEF LineEnabled
    <2>2. Cardinality(Enabled') = Cardinality(Enabled) + 1
      BY <2>1, LineUsers, UsersFinite, OneMoreUser
    <2> QED
      BY <2>1, <2>2 DEF LineEnables
  <1>2. CASE OptionConfig
    BY <1>2, FileStarts, FS_EmptySet DEF OptionConfig
  <1>3. CASE InitPort
    BY <1>3 DEF InitPort, Enabled
  <1>4. CASE UNCHANGED <<proc_config, file_nb>>
    BY <1>4 DEF Enabled
  <1> QED
    BY <1>1, <1>2, <1>3, <1>4, QueueSteps

-----------------------------------------------------------------------------
(* The file, the ports and the links.                                        *)

\* What main_information knows of the file, and the allocation that relies on it.
LEMMA NextFile ==
    ASSUME TypeOK, FileInv, [Next]_vars
    PROVE  FileInv'
  <1>e. Cardinality(Enabled') = file_nb'
    BY NextEnabled DEF FileInv
  <1> DEFINE Known ==
           /\ files = 0 => proc_config_nb = 0 /\ ~broken /\ pc # "file"
           /\ files = 1 => IF pc = "file" \/ broken
                           THEN proc_config_nb = 0 /\ (pc = "file" => ~broken)
                           ELSE proc_config_nb = file_nb
           /\ Allocated => stats_size = proc_config_nb /\ stats_size > 0
  <1> SUFFICES ASSUME Known PROVE Known'
    BY <1>e DEF FileInv
  <1> USE DEF Known, Allocated, TypeOK, command, config, devices, links, Option, Line, Exit
  <1>1. CASE UNCHANGED vars
    BY <1>1 DEF vars
  <1>2. CASE EalInit
    BY <1>2 DEF EalInit
  <1>3. CASE OptionMask
    BY <1>3 DEF OptionMask
  <1>4. CASE OptionPeriod \/ OptionStats
    <2>1. pc = "options" /\ pc' \in {"options", "exited"}
          /\ UNCHANGED <<files, proc_config_nb, broken, file_nb, stats_size>>
      BY <1>4 DEF OptionPeriod, OptionStats
    <2> QED
      BY <2>1
  <1>5. CASE OptionFdir \/ OptionExit \/ OptionsEnd
    BY <1>5 DEF OptionFdir, OptionExit, OptionsEnd
  <1>6. CASE OptionConfig
    BY <1>6 DEF OptionConfig
  <1>7. CASE LineMalformed \/ LineDeactivated \/ LineTwice
    BY <1>7 DEF LineMalformed, LineDeactivated, LineTwice
  <1>8. CASE LineEnabled
    <2>1. pc = "file" /\ UNCHANGED <<pc, files, proc_config_nb, broken, stats_size>>
      BY <1>8 DEF LineEnabled, LineEnables
    <2> QED
      BY <2>1
  <1>9. CASE FileEnd
    BY <1>9 DEF FileEnd
  <1>10. CASE SharedStructs
    BY <1>10 DEF SharedStructs, bridge_malloc_shared_struct
  <1>11. CASE CreatePools \/ SkipPort \/ PortsDone \/ FdirRule \/ FdirDone \/ CreateRings
    <2>1. Allocated /\ (Allocated' \/ pc' = "exited") /\ pc' # "file"
          /\ UNCHANGED <<files, proc_config_nb, broken, file_nb, stats_size>>
      BY <1>11 DEF CreatePools, SkipPort, PortsDone, FdirRule, FdirDone, CreateRings
    <2> QED
      BY <2>1
  <1>12. CASE InitPort
    <2>1. pc = "ports" /\ pc' \in {"ports", "exited"}
          /\ UNCHANGED <<files, proc_config_nb, broken, file_nb, stats_size>>
      BY <1>12 DEF InitPort
    <2> QED
      BY <2>1
  <1>13. CASE CheckLinks
    <2>1. pc = "links" /\ pc' \in {"links", "fdir"}
          /\ UNCHANGED <<files, proc_config_nb, broken, file_nb, stats_size>>
      BY <1>13 DEF CheckLinks, LinkPass
    <2> QED
      BY <2>1
  <1> QED
    BY <1>1, <1>2, <1>3, <1>4, <1>5, <1>6, <1>7, <1>8, <1>9, <1>10, <1>11, <1>12, <1>13
       DEF Next

\* The steps before the ports leave the devices alone.
LEMMA EarlySteps ==
    ASSUME EalInit \/ OptionMask \/ OptionPeriod \/ OptionStats \/ OptionFdir
             \/ OptionExit \/ OptionConfig \/ OptionsEnd \/ LineMalformed \/ LineDeactivated
             \/ LineTwice \/ LineEnabled \/ FileEnd
    PROVE  /\ pc \in {"eal", "options", "file"}
           /\ pc' \in {"options", "file", "shared", "exited"}
           /\ UNCHANGED <<stats_size, nb_ports, pools, next_port, started, rules,
                          count, print_flag, delays, reports>>
  <1> USE DEF command, config, devices, links, Option, Line, Exit
  <1>1. CASE EalInit \/ OptionMask \/ OptionFdir \/ OptionExit \/ OptionsEnd
    BY <1>1 DEF EalInit, OptionMask, OptionFdir, OptionExit, OptionsEnd
  <1>2. CASE OptionPeriod \/ OptionStats
    BY <1>2 DEF OptionPeriod, OptionStats
  <1>3. CASE OptionConfig
    BY <1>3 DEF OptionConfig
  <1>4. CASE LineMalformed \/ LineDeactivated \/ LineTwice \/ FileEnd
    BY <1>4 DEF LineMalformed, LineDeactivated, LineTwice, FileEnd
  <1>5. CASE LineEnabled
    BY <1>5 DEF LineEnabled, LineEnables
  <1> QED
    BY <1>1, <1>2, <1>3, <1>4, <1>5

\* The ports in use are started one after the other, with their queues.
LEMMA NextPorts ==
    ASSUME TypeOK, PortInv, [Next]_vars
    PROVE  PortInv'
  <1> USE DEF command, config, devices, links, Exit, Started, Allocated
  <1>1. CASE UNCHANGED vars
    BY <1>1 DEF vars, PortInv, UsedPorts
  <1>2. CASE EalInit \/ OptionMask \/ OptionPeriod \/ OptionStats \/ OptionFdir
             \/ OptionExit \/ OptionConfig \/ OptionsEnd \/ LineMalformed \/ LineDeactivated
             \/ LineTwice \/ LineEnabled \/ FileEnd
    <2>1. next_port = 0 /\ rules = {}
      BY <1>2, EarlySteps DEF PortInv, TypeOK
    <2>2. next_port' = 0 /\ rules' = {}
      BY <1>2, <2>1, EarlySteps
    <2>3. \A p \in UsedPorts' : ~(p < next_port')
      <3>1. UsedPorts' \subseteq Nat \/ UsedPorts' \subseteq port_mask'
        BY DEF UsedPorts
      <3>2. port_mask' \subseteq Ports
        BY <1>2 DEF TypeOK, EalInit, OptionMask, parse_portmask, OptionPeriod, OptionStats, OptionFdir,
           OptionExit, OptionConfig, OptionsEnd, LineMalformed, LineDeactivated,
           LineTwice, LineEnabled, FileEnd, Line
      <3> QED
        BY <2>2, <3>2 DEF UsedPorts, Ports
    <2> QED
      BY <1>2, <2>2, <2>3, EarlySteps DEF PortInv
  <1>3. CASE SharedStructs
    <2>1. next_port = 0 /\ rules = {} /\ UNCHANGED <<next_port, rules, port_mask>>
          /\ pc' \in {"pools", "exited"}
      BY <1>3 DEF SharedStructs, PortInv, TypeOK
    <2>2. \A p \in UsedPorts' : ~(p < next_port')
      BY <2>1 DEF UsedPorts, Ports, TypeOK
    <2> QED
      BY <2>1, <2>2 DEF PortInv
  <1>4. CASE CreatePools
    <2>1. /\ pc = "pools" /\ ((pc' = "ports" /\ pools' = UsedPorts) \/ pc' = "exited")
          /\ UsedPorts' = UsedPorts
          /\ UNCHANGED <<next_port, nb_ports, started, queue_rx_nb, queue_tx_nb, rules>>
      BY <1>4 DEF CreatePools, UsedPorts
    <2> QED
      BY <2>1 DEF PortInv
  <1>5. CASE SkipPort
    <2>1. /\ pc = "ports" /\ pc' = pc /\ next_port \notin port_mask
          /\ next_port' = next_port + 1 /\ UsedPorts' = UsedPorts
          /\ UNCHANGED <<pools, nb_ports, started, queue_rx_nb, queue_tx_nb, rules>>
      BY <1>5 DEF SkipPort, UsedPorts
    <2>2. \A p \in UsedPorts : p < next_port' => p < next_port
      BY <2>1 DEF UsedPorts, Ports, TypeOK
    <2> QED
      BY <2>1, <2>2 DEF PortInv
  <1>6. CASE InitPort
    <2>1. /\ pc = "ports" /\ next_port < nb_ports /\ next_port \in port_mask
          /\ UsedPorts' = UsedPorts /\ UNCHANGED <<pools, nb_ports, rules>>
          /\ queue_tx_nb' = [queue_tx_nb EXCEPT ![next_port] = AtLeastOne(@)]
          /\ queue_rx_nb' = [queue_rx_nb EXCEPT ![next_port] = AtLeastOne(@)]
      BY <1>6 DEF InitPort, UsedPorts
    <2>2. \/ /\ started' = [started EXCEPT ![next_port] =
                               <<queue_rx_nb'[next_port], queue_tx_nb'[next_port]>>]
             /\ next_port' = next_port + 1 /\ pc' = pc
          \/ pc' = "exited" /\ UNCHANGED <<started, next_port>>
      BY <1>6 DEF InitPort
    <2>3. ASSUME NEW p \in UsedPorts, p < next_port'
          PROVE  started'[p] = <<queue_rx_nb'[p], queue_tx_nb'[p]>>
      <3>1. p \in Ports /\ p \in Nat /\ next_port \in Ports /\ next_port \in Nat
        BY <2>1 DEF UsedPorts, Ports, TypeOK
      <3>2. CASE p = next_port
        <4>1. next_port' = next_port + 1
          BY <2>2, <2>3, <3>1, <3>2
        <4> QED
          BY <2>2, <3>1, <3>2, <4>1 DEF TypeOK
      <3>3. CASE p # next_port
        <4>1. p < next_port
          BY <2>2, <2>3, <3>1, <3>3
        <4>2. started[p] = <<queue_rx_nb[p], queue_tx_nb[p]>>
          BY <4>1 DEF PortInv
        <4>3. queue_rx_nb'[p] = queue_rx_nb[p] /\ queue_tx_nb'[p] = queue_tx_nb[p]
          BY <2>1, <3>1, <3>3 DEF TypeOK
        <4>4. started'[p] = started[p]
          BY <2>2, <3>1, <3>3 DEF TypeOK
        <4> QED
          BY <4>2, <4>3, <4>4
      <3> QED
        BY <3>2, <3>3
    <2> QED
      BY <2>1, <2>2, <2>3 DEF PortInv
  <1>7. CASE PortsDone
    <2>1. /\ pc = "ports" /\ pc' \in {"links", "exited"} /\ next_port = nb_ports
          /\ UsedPorts' = UsedPorts
          /\ UNCHANGED <<pools, next_port, nb_ports, started, queue_rx_nb, queue_tx_nb, rules>>
      BY <1>7 DEF PortsDone, UsedPorts
    <2> QED
      BY <2>1 DEF PortInv
  <1>8. CASE CheckLinks \/ FdirDone \/ CreateRings
    <2>1. /\ pc \in {"links", "fdir", "rings"}
          /\ pc' \in {"links", "fdir", "rings", "running", "exited"}
          /\ UsedPorts' = UsedPorts
          /\ UNCHANGED <<pools, next_port, nb_ports, started, queue_rx_nb, queue_tx_nb, rules>>
      BY <1>8 DEF CheckLinks, LinkPass, FdirDone, CreateRings, UsedPorts
    <2> QED
      BY <2>1 DEF PortInv
  <1>9. CASE FdirRule
    <2>1. /\ pc = "fdir" /\ pc' = pc
          /\ \E p \in UsedPorts : rules' = rules \cup {p}
          /\ UsedPorts' = UsedPorts
          /\ UNCHANGED <<pools, next_port, nb_ports, started, queue_rx_nb, queue_tx_nb>>
      BY <1>9 DEF FdirRule, UsedPorts
    <2> QED
      BY <2>1 DEF PortInv
  <1> QED
    BY <1>1, <1>2, <1>3, <1>4, <1>5, <1>6, <1>7, <1>8, <1>9 DEF Next

\* The link check counts its passes, and reports in the last one.
LEMMA NextLinks ==
    ASSUME TypeOK, LinkInv, [Next]_vars
    PROVE  LinkInv'
  <1> USE DEF command, config, devices, links, Exit
  <1>1. CASE UNCHANGED vars
    BY <1>1 DEF vars, LinkInv, UsedPorts
  <1>2. CASE EalInit \/ OptionMask \/ OptionPeriod \/ OptionStats \/ OptionFdir
             \/ OptionExit \/ OptionConfig \/ OptionsEnd \/ LineMalformed \/ LineDeactivated
             \/ LineTwice \/ LineEnabled \/ FileEnd
    BY <1>2, EarlySteps DEF LinkInv
  <1>3. CASE SharedStructs \/ CreatePools \/ SkipPort \/ InitPort \/ PortsDone
    <2>1. /\ pc \in {"shared", "pools", "ports"}
          /\ pc' \in {"pools", "ports", "links", "exited"}
          /\ UNCHANGED <<count, print_flag, delays, reports>>
      BY <1>3 DEF SharedStructs, CreatePools, SkipPort, InitPort, PortsDone
    <2> QED
      BY <2>1 DEF LinkInv
  <1>4. CASE FdirRule \/ FdirDone \/ CreateRings
    <2>1. /\ pc \in {"fdir", "rings"} /\ pc' \in {"fdir", "rings", "running", "exited"}
          /\ UsedPorts' = UsedPorts
          /\ UNCHANGED <<count, print_flag, delays, reports>>
      BY <1>4 DEF FdirRule, FdirDone, CreateRings, UsedPorts
    <2> QED
      BY <2>1 DEF LinkInv
  <1>5. CASE CheckLinks
    <2>1. PICK up \in SUBSET UsedPorts : LinkPass(up)
      BY <1>5 DEF CheckLinks
    <2>2. pc = "links" /\ UsedPorts' = UsedPorts
      BY <1>5 DEF CheckLinks, UsedPorts
    <2>3. CASE print_flag
      <3>1. /\ pc' = "fdir" /\ UNCHANGED <<count, print_flag, delays>>
            /\ reports' = [p \in Ports |-> reports[p] + (IF p \in UsedPorts THEN 1 ELSE 0)]
        BY <2>1, <2>3 DEF LinkPass
      <3>2. reports = [p \in Ports |-> 0]
        BY <2>2 DEF LinkInv
      <3>3. reports' = [p \in Ports |-> IF p \in UsedPorts THEN 1 ELSE 0]
        BY <3>1, <3>2
      <3> QED
        BY <2>2, <3>1, <3>3 DEF LinkInv
    <2>4. CASE ~print_flag
      <3>1. /\ delays' = delays + (IF up = UsedPorts THEN 0 ELSE 1)
            /\ print_flag' = LastPass(up) /\ count' = count + 1
            /\ pc' = (IF count' > MAX_CHECK_TIME THEN "fdir" ELSE pc)
            /\ UNCHANGED reports
        BY <2>1, <2>4 DEF LinkPass
      <3>2. /\ count \in Nat /\ delays \in Nat /\ MAX_CHECK_TIME \in Nat
            /\ count <= MAX_CHECK_TIME - 1
        BY <2>4, StartupAssumption DEF LinkInv, TypeOK
      <3>3. delays' <= count' /\ count' <= MAX_CHECK_TIME /\ pc' = "links"
        BY <2>2, <3>1, <3>2 DEF LinkInv
      <3>4. ASSUME count' = MAX_CHECK_TIME PROVE print_flag'
        <4>1. count = MAX_CHECK_TIME - 1
          BY <3>1, <3>2, <3>4
        <4>2. LastPass(up)
          BY <4>1 DEF LastPass
        <4> QED
          BY <3>1, <4>2
      <3> QED
        BY <2>2, <3>1, <3>3, <3>4 DEF LinkInv
    <2> QED
      BY <2>3, <2>4
  <1> QED
    BY <1>1, <1>2, <1>3, <1>4, <1>5 DEF Next

-----------------------------------------------------------------------------
(* The inductive invariant, and what it means.                               *)

\* Nothing is enabled, started or reported when main() starts.
LEMMA InitStartup == Init => StartupInv
  <1> SUFFICES ASSUME Init PROVE StartupInv
    OBVIOUS
  <1>1. TypeOK /\ CountInv
    BY InitTypes DEF TypeInv
  <1>2. Enabled = {} /\ \A p \in Ports : RxUsers(p) = {} /\ TxUsers(p) = {}
    BY DEF Init, Enabled, RxUsers, TxUsers
  <1>3. QueuesCover
    BY <1>2, FS_EmptySet DEF Init, QueuesCover
  <1>4. FileInv
    BY <1>2, FS_EmptySet DEF Init, FileInv, Allocated
  <1>5. PortInv
    BY DEF Init, PortInv, UsedPorts, Started, Allocated
  <1>6. LinkInv
    BY StartupAssumption DEF Init, LinkInv
  <1> QED
    BY <1>1, <1>3, <1>4, <1>5, <1>6 DEF StartupInv

\* Every step keeps the types and bounds.
LEMMA NextTypes ==
    ASSUME TypeInv, LinkInv, PortInv, [Next]_vars
    PROVE  TypeInv'
  <1>1. CASE UNCHANGED vars
    BY <1>1 DEF TypeInv, TypeOK, CountInv, vars, command, config, devices, links
  <1>2. CASE Next
    BY <1>2, OptionTypes, FileTypes, DeviceTypes DEF Next
  <1> QED
    BY <1>1, <1>2

\* The parts of StartupInv support each other: the types need the bound of the
\* link check and the order of the ports, all others need the types.
THEOREM StartupInductive == Spec => []StartupInv
  <1>1. StartupInv /\ [Next]_vars => StartupInv'
    <2> SUFFICES ASSUME StartupInv, [Next]_vars PROVE StartupInv'
      OBVIOUS
    <2>1. TypeInv'
      BY NextTypes DEF StartupInv, TypeInv
    <2>2. QueuesCover' /\ FileInv' /\ PortInv' /\ LinkInv'
      BY NextQueues, NextFile, NextPorts, NextLinks DEF StartupInv
    <2> QED
      BY <2>1, <2>2 DEF StartupInv, TypeInv
  <1> QED
    BY InitStartup, <1>1, PTL DEF Spec

\* main()'s variables keep their types and the parser's counters their bounds.
THEOREM TypeCorrect == Spec => []TypeOK
  <1>1. StartupInv => TypeOK
    BY DEF StartupInv
  <1> QED
    BY StartupInductive, <1>1, PTL

\* parse_configfile gives every port a queue for each configuration that uses it,
\* however many files were read and wherever the reading stopped.
THEOREM QueuesAreCovered == Spec => []QueuesCover
  <1>1. StartupInv => QueuesCover
    BY DEF StartupInv
  <1> QED
    BY StartupInductive, <1>1, PTL

\* The slaves are launched on ports that port_init has started, with a pool and
\* with enough queues, and fdir_main has put rules on such ports only.
THEOREM PortsAreServed == Spec => []ServedPorts
  <1>1. StartupInv => ServedPorts
    <2> SUFFICES ASSUME StartupInv, pc = "running" PROVE ServedPorts
      BY DEF ServedPorts
    <2>1. /\ pools = UsedPorts /\ next_port = nb_ports /\ rules \subseteq UsedPorts
          /\ \A p \in UsedPorts : p < next_port =>
                started[p] = <<queue_rx_nb[p], queue_tx_nb[p]>>
      BY DEF StartupInv, PortInv, Started
    <2>2. ASSUME NEW p \in UsedPorts
          PROVE  /\ p \in Ports /\ started[p] = <<queue_rx_nb[p], queue_tx_nb[p]>>
                 /\ started[p] # None
      <3>1. p \in Ports /\ p < next_port
        BY <2>1 DEF UsedPorts, StartupInv, TypeOK
      <3>2. queue_rx_nb[p] \in Nat /\ queue_tx_nb[p] \in Nat
        BY <3>1 DEF StartupInv, TypeOK
      <3> QED
        BY <2>1, <3>1, <3>2, StartupAssumption
    <2>3. ASSUME NEW p \in UsedPorts
          PROVE  /\ started[p][1] >= Cardinality(RxUsers(p))
                 /\ started[p][2] >= Cardinality(TxUsers(p))
      BY <2>2 DEF StartupInv, QueuesCover
    <2> QED
      BY <2>1, <2>2, <2>3 DEF ServedPorts
  <1> QED
    BY StartupInductive, <1>1, PTL

\* A configuration file with an error never leads to a launch when it is the only
\* one, although parse_args ignores what parse_configfile returns.
THEOREM WholeFileOrNone == Spec => []WholeFile
  <1>1. StartupInv => WholeFile
    <2> SUFFICES ASSUME StartupInv, pc = "running", files = 1
                 PROVE  ~broken /\ Cardinality(Enabled) = stats_size
      BY DEF WholeFile
    <2>1. stats_size = proc_config_nb /\ stats_size > 0 /\ Cardinality(Enabled) = file_nb
      BY DEF StartupInv, FileInv, Allocated
    <2>2. IF broken THEN proc_config_nb = 0 ELSE proc_config_nb = file_nb
      BY DEF StartupInv, FileInv
    <2>3. ~broken
      BY <2>1, <2>2
    <2> QED
      BY <2>1, <2>2, <2>3
  <1> QED
    BY StartupInductive, <1>1, PTL

\* check_all_ports_link_status ends in time and reports each port in use once.
THEOREM LinksAreReported == Spec => []LinkReported
  <1>1. StartupInv => LinkReported
    <2> SUFFICES ASSUME StartupInv PROVE LinkReported
      OBVIOUS
    <2>1. delays <= MAX_CHECK_TIME
      BY StartupAssumption DEF StartupInv, LinkInv, TypeOK
    <2> QED
      BY <2>1 DEF StartupInv, LinkInv, LinkReported
  <1> QED
    BY StartupInductive, <1>1, PTL

=============================================================================
