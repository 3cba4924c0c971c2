---------------------------- MODULE SlaveControl ----------------------------
(***************************************************************************)
(* The control plane of the bridge: how the master process starts the      *)
(* forwarding processes, hands each one a configuration over a pair of     *)
(* rings, learns that one has died and starts it again (main.c, flib.c,    *)
(* ipc.c, dpdk_mp.c and the life cycle part of bridge.c).                  *)
(*                                                                         *)
(* Three kinds of actors take steps:                                       *)
(*   - the master, in main_loop;                                           *)
(*   - one EAL thread of the master process per slave lcore, in lcore_func:*)
(*     it forks the slave, waits for it and runs slave_exit_cb;            *)
(*   - one slave process per slave lcore, in bridge_launch_one_lcore.      *)
(*                                                                         *)
(* lcore_cfg, mapping_id and the rings live in hugepage memory that all    *)
(* processes share.  lcore_resource and proc_config are plain globals: the *)
(* master's threads share them, a forked slave has a copy of its own.  The *)
(* slave's writes to proc_config[].used and lcore_resource[].flags when it *)
(* leaves therefore change nothing that another actor reads, and are not   *)
(* state here.                                                             *)
(***************************************************************************)
EXTENDS Naturals, Sequences, FiniteSets

CONSTANTS
    MaxLcore,       \* RTE_MAX_LCORE: lcore ids and config ids are 0..MaxLcore-1
    MasterLcore,    \* the lcore that runs main_loop
    Slaves,         \* the other lcores of the core mask: one slave process each
    Configs,        \* config ids that the configuration file enables
    BadConfigs,     \* those whose engine name string2key does not know
    CrashPoints,    \* the stages at which the environment may kill a slave
    SettledOnly,    \* TRUE: only a slave whose config the master has recorded dies
    MaxCrashes,     \* bound on the number of killed slaves
    MaxForkFails    \* bound on the number of fork() calls that fail

Lcores == 0 .. MaxLcore - 1
Enabled == Slaves \cup {MasterLcore}

\* INVALID_MAPPING_ID (LCORE_ID_ANY), and "no owner" of the spinlock: a value
\* that is no lcore id.
None == MaxLcore

SLAVE_RECREATE_FLAG == 1
SLAVE_DONT_RECREATE_FLAG == 2

\* A request carries only its command; an answer also carries a config id.
CFG == "CFG"

SlaveStages == {"none", "assign", "cas", "map", "request", "await", "engine",
                "running", "free", "unmap"}
ThreadStages == {"fork", "waitpid", "notify", "lock", "update", "ret",
                 "finished", "failed"}
MasterStages == {"poll", "scan", "record", "check", "drain", "launch", "clear"}

ASSUME ConstantsAssumption ==
    /\ MaxLcore \in Nat \ {0}
    /\ MasterLcore \in Lcores
    /\ Slaves \subseteq Lcores \ {MasterLcore}
    /\ Configs \subseteq Lcores
    /\ BadConfigs \subseteq Configs
    /\ CrashPoints \subseteq SlaveStages \ {"none"}
    /\ SettledOnly \in BOOLEAN
    /\ MaxCrashes \in Nat
    /\ MaxForkFails \in Nat

VARIABLES
    \* shared memory
    lcore_cfg,      \* lcore_cfg[i] = 1 when lcore id i is taken
    mapping_id,     \* mapping_id[l]: the floating id of the slave of lcore l
    ring0,          \* ring0[l]: answers, master to slave
    ring1,          \* ring1[l]: requests, slave to master
    \* globals of the master process
    used,           \* used[c] = 1 when proc_config[c] is handed out
    config_id,      \* config_id[l]: lcore_resource[l].config_id
    flags,          \* flags[l]: lcore_resource[l].flags
    mutex_lock,     \* the owner of the spinlock: an lcore, or None
    \* the master in main_loop
    mpc,            \* where it is
    mcur,           \* the lcore_id of the loop it is in
    mproc,          \* the proc_id of main_set_lcore_cfg
    \* the EAL thread of each slave lcore, in lcore_func
    tpc,            \* where it is
    tcfg,           \* the proc_cfg that slave_exit_cb looked up
    \* the slave process of each slave lcore
    spc,            \* where it is; "none" when there is no process
    sid,            \* the id it chose in flib_assign_lcore_id
    sconf,          \* its slave_conf.conf_id
    \* the environment
    crashes, forkFails

masterVars == <<mpc, mcur, mproc>>
threadVars == <<tpc, tcfg>>
slaveVars == <<spc, sid, sconf>>
rings == <<ring0, ring1>>
resources == <<used, config_id, flags>>
ids == <<lcore_cfg, mapping_id>>
environment == <<crashes, forkFails>>
vars == <<lcore_cfg, mapping_id, ring0, ring1, used, config_id, flags,
          mutex_lock, mpc, mcur, mproc, tpc, tcfg, spc, sid, sconf,
          crashes, forkFails>>

-----------------------------------------------------------------------------
(* Start up: flib_init marks the pinned lcores as taken, the rings and the  *)
(* resources are empty, flib_mp_remote_launch has put every slave lcore's    *)
(* thread at the start of lcore_func and the master enters main_loop.        *)

Init ==
    /\ lcore_cfg = [i \in Lcores |-> IF i \in Enabled THEN 1 ELSE 0]
    /\ mapping_id = [i \in Lcores |-> None]
    /\ ring0 = [l \in Slaves |-> <<>>]
    /\ ring1 = [l \in Slaves |-> <<>>]
    /\ used = [c \in Lcores |-> 0]
    /\ config_id = [l \in Slaves |-> 0]
    /\ flags = [l \in Slaves |-> 0]
    /\ mutex_lock = None
    /\ mpc = "poll"
    /\ mcur = 0
    /\ mproc = 0
    /\ tpc = [l \in Slaves |-> "fork"]
    /\ tcfg = [l \in Slaves |-> 0]
    /\ spc = [l \in Slaves |-> "none"]
    /\ sid = [l \in Slaves |-> 0]
    /\ sconf = [l \in Slaves |-> 0]
    /\ crashes = 0
    /\ forkFails = 0

-----------------------------------------------------------------------------
(* The lcore id map (flib.c).                                               *)

\* The ids that flib_assign_lcore_id finds free; id 0 is never assigned.
FreeIds == {i \in Lcores \ {0} : lcore_cfg[i] = 0}

\* lcore_cfg after flib_free_lcore_id(i): an invalid id, id 0 and the id of a
\* pinned lcore are left alone.
FreedId(i) ==
    IF i \in Lcores \ ({0} \cup Enabled)
    THEN [lcore_cfg EXCEPT ![i] = 0]
    ELSE lcore_cfg

-----------------------------------------------------------------------------
(* The slave process of lcore l (bridge_launch_one_lcore).                   *)

\* flib_assign_lcore_id, the scan: the smallest id that is free.
SlavePickId(l) ==
    /\ spc[l] = "assign"
    /\ \E i \in FreeIds :
          /\ \A j \in FreeIds : i <= j
          /\ sid' = [sid EXCEPT ![l] = i]
    /\ spc' = [spc EXCEPT ![l] = "cas"]
    /\ UNCHANGED <<ids, rings, resources, mutex_lock, masterVars, threadVars,
                   sconf, environment>>

\* flib_assign_lcore_id, the scan, when every id is taken: the slave returns -1
\* and its process exits.
SlaveNoId(l) ==
    /\ spc[l] = "assign"
    /\ FreeIds = {}
    /\ spc' = [spc EXCEPT ![l] = "none"]
    /\ UNCHANGED <<ids, rings, resources, mutex_lock, masterVars, threadVars,
                   sid, sconf, environment>>

\* A cmpset that does not look whether the id is still free.
SlaveCasBlind(l) ==
    /\ spc[l] = "cas"
    /\ lcore_cfg' = [lcore_cfg EXCEPT ![sid[l]] = 1]
    /\ spc' = [spc EXCEPT ![l] = "map"]
    /\ UNCHANGED <<mapping_id, rings, resources, mutex_lock, masterVars,
                   threadVars, sid, sconf, environment>>

\* flib_assign_lcore_id, the compare-and-set: take the id, or scan again.
SlaveCas(l) ==
    /\ spc[l] = "cas"
    /\ \/ /\ lcore_cfg[sid[l]] = 0
          /\ lcore_cfg' = [lcore_cfg EXCEPT ![sid[l]] = 1]
          /\ spc' = [spc EXCEPT ![l] = "map"]
       \/ /\ lcore_cfg[sid[l]] # 0
          /\ spc' = [spc EXCEPT ![l] = "assign"]
          /\ UNCHANGED lcore_cfg
    /\ UNCHANGED <<mapping_id, rings, resources, mutex_lock, masterVars,
                   threadVars, sid, sconf, environment>>

\* "Set mapping id, so master can return it after slave exited".
SlaveMap(l) ==
    /\ spc[l] = "map"
    /\ mapping_id' = [mapping_id EXCEPT ![l] = sid[l]]
    /\ spc' = [spc EXCEPT ![l] = "request"]
    /\ UNCHANGED <<lcore_cfg, rings, resources, mutex_lock, masterVars,
                   threadVars, sid, sconf, environment>>

\* slave_request, first half: send_cmd of a CFG request.
SlaveRequest(l) ==
    /\ spc[l] = "request"
    /\ ring1' = [ring1 EXCEPT ![l] = Append(@, CFG)]
    /\ spc' = [spc EXCEPT ![l] = "await"]
    /\ UNCHANGED <<ids, ring0, resources, mutex_lock, masterVars, threadVars,
                   sid, sconf, environment>>

\* slave_request, second half: the loop on get_cmd ends with the first answer.
SlaveGetCfg(l) ==
    /\ spc[l] = "await"
    /\ ring0[l] # <<>>
    /\ sconf' = [sconf EXCEPT ![l] = Head(ring0[l])]
    /\ ring0' = [ring0 EXCEPT ![l] = Tail(@)]
    /\ spc' = [spc EXCEPT ![l] = "engine"]
    /\ UNCHANGED <<ids, ring1, resources, mutex_lock, masterVars, threadVars,
                   sid, environment>>

\* bridge_init_engine: forward packets for ever, or leave when the engine of
\* the configuration is not known.
SlaveEngine(l) ==
    /\ spc[l] = "engine"
    /\ spc' = [spc EXCEPT ![l] = IF sconf[l] \in BadConfigs
                                 THEN "free" ELSE "running"]
    /\ UNCHANGED <<ids, rings, resources, mutex_lock, masterVars, threadVars,
                   sid, sconf, environment>>

\* A slave that leaves returns its lcore id ...
SlaveFree(l) ==
    /\ spc[l] = "free"
    /\ lcore_cfg' = FreedId(sid[l])
    /\ spc' = [spc EXCEPT ![l] = "unmap"]
    /\ UNCHANGED <<mapping_id, rings, resources, mutex_lock, masterVars,
                   threadVars, sid, sconf, environment>>

\* ... and its mapping, and exits.
SlaveUnmap(l) ==
    /\ spc[l] = "unmap"
    /\ mapping_id' = [mapping_id EXCEPT ![l] = None]
    /\ spc' = [spc EXCEPT ![l] = "none"]
    /\ UNCHANGED <<lcore_cfg, rings, resources, mutex_lock, masterVars,
                   threadVars, sid, sconf, environment>>

\* The master has recorded the configuration that the slave of l runs.
Settled(l) == config_id[l] = sconf[l] /\ ~(mpc = "record" /\ mcur = l)

\* The environment kills the slave: a signal, a fault, an rte_exit.
SlaveCrash(l) ==
    /\ spc[l] \in CrashPoints
    /\ SettledOnly => Settled(l)
    /\ crashes < MaxCrashes
    /\ crashes' = crashes + 1
    /\ spc' = [spc EXCEPT ![l] = "none"]
    /\ UNCHANGED <<ids, rings, resources, mutex_lock, masterVars, threadVars,
                   sid, sconf, forkFails>>

SlaveStep(l) ==
    \/ SlavePickId(l) \/ SlaveNoId(l) \/ SlaveCas(l) \/ SlaveMap(l)
    \/ SlaveRequest(l) \/ SlaveGetCfg(l) \/ SlaveEngine(l)
    \/ SlaveFree(l) \/ SlaveUnmap(l)

-----------------------------------------------------------------------------
(* The EAL thread of lcore l in the master process (lcore_func).             *)

\* The slave starts as a copy of the master, whose slave_conf is zero.
ThreadFork(l) ==
    /\ tpc[l] = "fork"
    /\ tpc' = [tpc EXCEPT ![l] = "waitpid"]
    /\ spc' = [spc EXCEPT ![l] = "assign"]
    /\ sconf' = [sconf EXCEPT ![l] = 0]
    /\ UNCHANGED <<ids, rings, resources, mutex_lock, masterVars, tcfg,
                   sid, environment>>

\* fork() fails: the thread ends and slave_exit_cb is not called.
ThreadForkFails(l) ==
    /\ tpc[l] = "fork"
    /\ forkFails < MaxForkFails
    /\ forkFails' = forkFails + 1
    /\ tpc' = [tpc EXCEPT ![l] = "failed"]
    /\ UNCHANGED <<ids, rings, resources, mutex_lock, masterVars, tcfg,
                   slaveVars, crashes>>

\* waitpid returns once the slave process is gone.
ThreadReap(l) ==
    /\ tpc[l] = "waitpid"
    /\ spc[l] = "none"
    /\ tpc' = [tpc EXCEPT ![l] = "notify"]
    /\ UNCHANGED <<ids, rings, resources, mutex_lock, masterVars, tcfg,
                   slaveVars, environment>>

\* A callback that asks for the restart before it takes the lock.
ThreadLookupFlagsEarly(l) ==
    /\ tpc[l] = "notify"
    /\ tcfg' = [tcfg EXCEPT ![l] = config_id[l]]
    /\ flags' = [flags EXCEPT ![l] = SLAVE_RECREATE_FLAG]
    /\ tpc' = [tpc EXCEPT ![l] = "lock"]
    /\ UNCHANGED <<ids, rings, used, config_id, mutex_lock, masterVars,
                   slaveVars, environment>>

\* slave_exit_cb looks up the configuration before it takes the lock.
ThreadLookup(l) ==
    /\ tpc[l] = "notify"
    /\ tcfg' = [tcfg EXCEPT ![l] = config_id[l]]
    /\ tpc' = [tpc EXCEPT ![l] = "lock"]
    /\ UNCHANGED <<ids, rings, resources, mutex_lock, masterVars,
                   slaveVars, environment>>

\* A callback that does not wait for the lock.
ThreadLockNone(l) ==
    /\ tpc[l] = "lock"
    /\ tpc' = [tpc EXCEPT ![l] = "update"]
    /\ UNCHANGED <<ids, rings, resources, mutex_lock, masterVars, tcfg,
                   slaveVars, environment>>

ThreadLock(l) ==
    /\ tpc[l] = "lock"
    /\ mutex_lock = None
    /\ mutex_lock' = l
    /\ tpc' = [tpc EXCEPT ![l] = "update"]
    /\ UNCHANGED <<ids, rings, resources, masterVars, tcfg, slaveVars,
                   environment>>

\* A callback that asks for the restart and does not release the configuration.
ThreadUpdateKeepsUsed(l) ==
    /\ tpc[l] = "update"
    /\ flags' = [flags EXCEPT ![l] = IF @ = SLAVE_DONT_RECREATE_FLAG
                                     THEN @ ELSE SLAVE_RECREATE_FLAG]
    /\ mutex_lock' = None
    /\ tpc' = [tpc EXCEPT ![l] = "ret"]
    /\ UNCHANGED <<ids, rings, used, config_id, masterVars, tcfg, slaveVars,
                   environment>>

\* The body of slave_exit_cb's critical section, and the unlock.
ThreadUpdate(l) ==
    /\ tpc[l] = "update"
    /\ used' = [used EXCEPT ![tcfg[l]] = 0]
    /\ flags' = [flags EXCEPT ![l] = IF @ = SLAVE_DONT_RECREATE_FLAG
                                     THEN @ ELSE SLAVE_RECREATE_FLAG]
    /\ mutex_lock' = None
    /\ tpc' = [tpc EXCEPT ![l] = "ret"]
    /\ UNCHANGED <<ids, rings, config_id, masterVars, tcfg, slaveVars,
                   environment>>

\* lcore_func returns and the EAL marks the lcore FINISHED.
ThreadReturn(l) ==
    /\ tpc[l] = "ret"
    /\ tpc' = [tpc EXCEPT ![l] = "finished"]
    /\ UNCHANGED <<ids, rings, resources, mutex_lock, masterVars, tcfg,
                   slaveVars, environment>>

ThreadStep(l) ==
    \/ ThreadFork(l) \/ ThreadReap(l) \/ ThreadLookup(l)
    \/ ThreadUpdate(l) \/ ThreadReturn(l)

-----------------------------------------------------------------------------
(* The master: main_loop, its first half.  For each lcore get_cmd, and for a *)
(* request main_set_lcore_cfg.                                               *)

\* get_cmd finds nothing: the lcore is not a slave, or its ring is empty.
MasterPollNone ==
    /\ mpc = "poll"
    /\ mcur < MaxLcore
    /\ mcur \in Slaves => ring1[mcur] = <<>>
    /\ mcur' = mcur + 1
    /\ UNCHANGED <<ids, rings, resources, mutex_lock, mpc, mproc, threadVars,
                   slaveVars, environment>>

MasterPollRequest ==
    /\ mpc = "poll"
    /\ mcur \in Slaves
    /\ ring1[mcur] # <<>>
    /\ ring1' = [ring1 EXCEPT ![mcur] = Tail(@)]
    /\ mpc' = "scan"
    /\ mproc' = 0
    /\ UNCHANGED <<ids, ring0, resources, mutex_lock, mcur, threadVars,
                   slaveVars, environment>>

\* A scan that runs one entry past proc_config.
MasterScanNextOffByOne ==
    /\ mpc = "scan"
    /\ mproc <= MaxLcore
    /\ mproc \in Configs => used[mproc] = 1
    /\ mproc' = mproc + 1
    /\ UNCHANGED <<ids, rings, resources, mutex_lock, mpc, mcur, threadVars,
                   slaveVars, environment>>

\* main_set_lcore_cfg: proc_config[mproc] is not enabled or already used.
MasterScanNext ==
    /\ mpc = "scan"
    /\ mproc < MaxLcore
    /\ mproc \in Configs => used[mproc] = 1
    /\ mproc' = mproc + 1
    /\ UNCHANGED <<ids, rings, resources, mutex_lock, mpc, mcur, threadVars,
                   slaveVars, environment>>

\* main_set_lcore_cfg finds no free configuration: the request is consumed and
\* not answered.
MasterScanFails ==
    /\ mpc = "scan"
    /\ mproc = MaxLcore
    /\ mpc' = "poll"
    /\ mcur' = mcur + 1
    /\ UNCHANGED <<ids, rings, resources, mutex_lock, mproc, threadVars,
                   slaveVars, environment>>

\* A scan that does not look at the used field.
MasterAnswerAny ==
    /\ mpc = "scan"
    /\ mproc \in Configs
    /\ ring0' = [ring0 EXCEPT ![mcur] = Append(@, mproc)]
    /\ mpc' = "record"
    /\ UNCHANGED <<ids, ring1, resources, mutex_lock, mcur, mproc, threadVars,
                   slaveVars, environment>>

\* main_set_lcore_cfg sends the first free configuration ...
MasterAnswer ==
    /\ mpc = "scan"
    /\ mproc \in Configs
    /\ used[mproc] = 0
    /\ ring0' = [ring0 EXCEPT ![mcur] = Append(@, mproc)]
    /\ mpc' = "record"
    /\ UNCHANGED <<ids, ring1, resources, mutex_lock, mcur, mproc, threadVars,
                   slaveVars, environment>>

\* The configuration is recorded as used but not who uses it.
MasterRecordUsedOnly ==
    /\ mpc = "record"
    /\ used' = [used EXCEPT ![mproc] = 1]
    /\ mpc' = "poll"
    /\ mcur' = mcur + 1
    /\ UNCHANGED <<ids, rings, config_id, flags, mutex_lock, mproc, threadVars,
                   slaveVars, environment>>

\* ... and only then records it, without the lock.
MasterRecord ==
    /\ mpc = "record"
    /\ used' = [used EXCEPT ![mproc] = 1]
    /\ config_id' = [config_id EXCEPT ![mcur] = mproc]
    /\ mpc' = "poll"
    /\ mcur' = mcur + 1
    /\ UNCHANGED <<ids, rings, flags, mutex_lock, mproc, threadVars,
                   slaveVars, environment>>

-----------------------------------------------------------------------------
(* The master: main_loop, its second half.  With the lock held, reset_lcore  *)
(* for each lcore whose flags say RECREATE.                                  *)

MasterLock ==
    /\ mpc = "poll"
    /\ mcur = MaxLcore
    /\ mutex_lock = None
    /\ mutex_lock' = MasterLcore
    /\ mpc' = "check"
    /\ mcur' = 0
    /\ UNCHANGED <<ids, rings, resources, mproc, threadVars, slaveVars,
                   environment>>

\* Nothing to do for this lcore.
MasterCheckNone ==
    /\ mpc = "check"
    /\ mcur < MaxLcore
    /\ mcur \in Slaves => flags[mcur] # SLAVE_RECREATE_FLAG
    /\ mcur' = mcur + 1
    /\ UNCHANGED <<ids, rings, resources, mutex_lock, mpc, mproc, threadVars,
                   slaveVars, environment>>

\* A reset_lcore that forgets flib_free_lcore_id.
MasterResetKeepsId ==
    /\ mpc = "check"
    /\ mcur \in Slaves
    /\ flags[mcur] = SLAVE_RECREATE_FLAG
    /\ LET map_id == mapping_id[mcur]
       IN  IF map_id # None
           THEN /\ mapping_id' = [mapping_id EXCEPT ![map_id] = None]
                /\ used' = [used EXCEPT ![map_id] = 0]
           ELSE UNCHANGED <<mapping_id, used>>
    /\ mpc' = "drain"
    /\ UNCHANGED <<lcore_cfg, rings, config_id, flags, mutex_lock, mcur, mproc,
                   threadVars, slaveVars, environment>>

\* The first half of reset_lcore: give back the floating id of the dead slave.
\* The code clears mapping_id and proc_config at index map_id, the floating id.
MasterReset ==
    /\ mpc = "check"
    /\ mcur \in Slaves
    /\ flags[mcur] = SLAVE_RECREATE_FLAG
    /\ LET map_id == mapping_id[mcur]
       IN  IF map_id # None
           THEN /\ lcore_cfg' = FreedId(map_id)
                /\ mapping_id' = [mapping_id EXCEPT ![map_id] = None]
                /\ used' = [used EXCEPT ![map_id] = 0]
           ELSE UNCHANGED <<lcore_cfg, mapping_id, used>>
    /\ mpc' = "drain"
    /\ UNCHANGED <<rings, config_id, flags, mutex_lock, mcur, mproc,
                   threadVars, slaveVars, environment>>

\* init_slave_res that only drains the requests.
MasterDrainRequests ==
    /\ mpc = "drain"
    /\ ring1' = [ring1 EXCEPT ![mcur] = <<>>]
    /\ mpc' = "launch"
    /\ UNCHANGED <<ids, ring0, resources, mutex_lock, mcur, mproc, threadVars,
                   slaveVars, environment>>

\* init_slave_res: find the rings again and empty both.
MasterDrain ==
    /\ mpc = "drain"
    /\ ring1' = [ring1 EXCEPT ![mcur] = <<>>]
    /\ ring0' = [ring0 EXCEPT ![mcur] = <<>>]
    /\ mpc' = "launch"
    /\ UNCHANGED <<ids, resources, mutex_lock, mcur, mproc, threadVars,
                   slaveVars, environment>>

\* flib_remote_launch: wait for the thread, then send it into lcore_func again.
MasterLaunch ==
    /\ mpc = "launch"
    /\ tpc[mcur] \in {"finished", "failed"}
    /\ tpc' = [tpc EXCEPT ![mcur] = "fork"]
    /\ mpc' = "clear"
    /\ UNCHANGED <<ids, rings, resources, mutex_lock, mcur, mproc, tcfg,
                   slaveVars, environment>>

\* A master that leaves the RECREATE flag set once the slave is launched.
MasterClearForgets ==
    /\ mpc = "clear"
    /\ mpc' = "check"
    /\ mcur' = mcur + 1
    /\ UNCHANGED <<ids, rings, resources, mutex_lock, mproc, threadVars,
                   slaveVars, environment>>

\* The end of reset_lcore, and the clearing of the flag that follows it.
MasterClear ==
    /\ mpc = "clear"
    /\ flags' = [flags EXCEPT ![mcur] = 0]
    /\ mpc' = "check"
    /\ mcur' = mcur + 1
    /\ UNCHANGED <<ids, rings, used, config_id, mutex_lock, mproc, threadVars,
                   slaveVars, environment>>

MasterUnlock ==
    /\ mpc = "check"
    /\ mcur = MaxLcore
    /\ mutex_lock' = None
    /\ mpc' = "poll"
    /\ mcur' = 0
    /\ UNCHANGED <<ids, rings, resources, mproc, threadVars, slaveVars,
                   environment>>

MasterStep ==
    \/ MasterPollNone \/ MasterPollRequest
    \/ MasterScanNext \/ MasterScanFails \/ MasterAnswer \/ MasterRecord
    \/ MasterCheckNone \/ MasterReset \/ MasterDrain
    \/ MasterLaunch \/ MasterClear \/ MasterUnlock

-----------------------------------------------------------------------------
Next ==
    \/ MasterStep
    \/ MasterLock
    \/ \E l \in Slaves :
          \/ SlaveStep(l)
          \/ ThreadStep(l)
          \/ ThreadLock(l)
          \/ ThreadForkFails(l)
          \/ SlaveCrash(l)

\* Every actor runs on a core of its own and keeps going.  The spinlock is not
\* fair, but each of its critical sections is short and it is free for most of
\* an iteration of main_loop, so an actor that tries again and again gets it.
Fairness ==
    /\ WF_vars(MasterStep)
    /\ SF_vars(MasterLock)
    /\ \A l \in Slaves :
          /\ WF_vars(SlaveStep(l))
          /\ WF_vars(ThreadStep(l))
          /\ SF_vars(ThreadLock(l))

Spec == Init /\ [][Next]_vars

FairSpec == Spec /\ Fairness

-----------------------------------------------------------------------------
(* Properties.                                                              *)

\* The types; also, no loop of main_loop or main_set_lcore_cfg leaves the arrays
\* of RTE_MAX_LCORE entries that it indexes.
TypeOK ==
    /\ lcore_cfg \in [Lcores -> {0, 1}]
    /\ mapping_id \in [Lcores -> Lcores \cup {None}]
    /\ ring0 \in [Slaves -> Seq(Configs)]
    /\ ring1 \in [Slaves -> Seq({CFG})]
    /\ used \in [Lcores -> {0, 1}]
    /\ config_id \in [Slaves -> Lcores]
    /\ flags \in [Slaves -> {0, SLAVE_RECREATE_FLAG, SLAVE_DONT_RECREATE_FLAG}]
    /\ mutex_lock \in Enabled \cup {None}
    /\ mpc \in MasterStages
    /\ mcur \in 0 .. MaxLcore
    /\ mproc \in 0 .. MaxLcore
    /\ mpc \notin {"poll", "check"} => mcur \in Slaves
    /\ mpc = "record" => mproc \in Configs
    /\ tpc \in [Slaves -> ThreadStages]
    /\ tcfg \in [Slaves -> Lcores]
    /\ spc \in [Slaves -> SlaveStages]
    /\ sid \in [Slaves -> Lcores]
    /\ sconf \in [Slaves -> Lcores]
    /\ crashes \in 0 .. MaxCrashes
    /\ forkFails \in 0 .. MaxForkFails

\* The request of lcore l that the master has taken and not yet answered.
InHand(l) == IF mpc = "scan" /\ mcur = l THEN 1 ELSE 0

\* The exchange of lcore l in flight: requests, the one that the master is
\* working on, and answers.
InFlight(l) == Len(ring1[l]) + Len(ring0[l]) + InHand(l)

\* The slave has a configuration.
Configured(l) == spc[l] \in {"engine", "running", "free", "unmap"}

\* The slave works under its floating id: per-lcore caches of the mempools are
\* indexed with it.
OwnsId(l) == spc[l] \in {"map", "request", "await", "engine", "running", "free"}

\* No death of a slave goes unnoticed (flib.c lcore_func, slave_exit_cb): while
\* an lcore has no slave process, its thread is about to fork one or on its way
\* to set the RECREATE flag, or the flag is set.  A fork that fails is the one
\* exception: then nothing starts the slave again.
NoExitLost ==
    \A l \in Slaves :
        spc[l] = "none" =>
            \/ tpc[l] \in {"fork", "waitpid", "notify", "lock", "update", "failed"}
            \/ flags[l] = SLAVE_RECREATE_FLAG

\* main_loop holds mutex_lock while flib_remote_launch waits for the thread of
\* the dead slave: that thread is already past slave_exit_cb's critical section,
\* so the wait cannot deadlock, and no process of that lcore is alive while
\* reset_lcore takes its id and its messages away.
ResetIsSafe ==
    mpc \in {"drain", "launch"} =>
        /\ tpc[mcur] \in {"ret", "finished"}
        /\ spc[mcur] = "none"

\* Requests and answers pair up (ipc.c): an lcore has at most one message in
\* flight, only while its slave waits for it or is dead; a slave that has its
\* answer, or has not asked yet, finds nothing left over by a predecessor.
OneExchange ==
    \A l \in Slaves :
        /\ InFlight(l) <= 1
        /\ spc[l] \notin {"none", "await"} => InFlight(l) = 0
        /\ tpc[l] = "fork" => InFlight(l) = 0

\* The configuration that the master has on record for an lcore is the one that
\* its slave runs, from the moment main_set_lcore_cfg has finished.
RecordAgrees ==
    \A l \in Slaves :
        Configured(l) =>
            \/ config_id[l] = sconf[l]
            \/ mpc = "record" /\ mcur = l /\ mproc = sconf[l]

\* Two live slaves never run the same configuration, hence never poll the same
\* receive queue nor write the same port_statistics entry.
ConfigExclusive ==
    \A l, m \in Slaves :
        l # m /\ Configured(l) /\ Configured(m) => sconf[l] # sconf[m]

\* "used: ==1 if a proc used this cfg": a configuration is marked used only
\* while a slave runs it or its death is about to release it.
UsedIsHeld ==
    \A c \in Configs :
        used[c] = 1 =>
            \E l \in Slaves :
                /\ config_id[l] = c
                /\ tpc[l] \in {"waitpid", "notify", "lock", "update"}

\* flib_assign_lcore_id: "This lcore ID will be unique in multi-thread or
\* multi-process DPDK running environment".
IdUnique ==
    \A l, m \in Slaves :
        l # m /\ OwnsId(l) /\ OwnsId(m) => sid[l] # sid[m]

\* No floating id is lost: an id that lcore_cfg marks as taken belongs to a live
\* slave, or mapping_id still holds it for the reset_lcore that gives it back.
IdAccounted ==
    \A i \in Lcores \ Enabled :
        lcore_cfg[i] = 1 =>
            \E l \in Slaves :
                \/ OwnsId(l) /\ sid[l] = i
                \/ spc[l] = "none" /\ mapping_id[l] = i

\* The master starts every slave again (main_loop, reset_lcore), wherever it
\* died, unless the fork fails.  Nothing is said of a slave that left because it
\* does not know its engine: NotRecreated is about that one.
Relaunched ==
    \A l \in Slaves :
        spc[l] = "none" /\ sconf[l] \notin BadConfigs
            ~> spc[l] # "none" \/ tpc[l] = "failed"

\* "dont recreate a slave" (bridge.c), after bridge_init_engine has returned -1: no
\* thread is sent to fork the slave of an lcore again whose last slave had a
\* configuration with an unknown engine.
NotRecreated == \A l \in Slaves : sconf[l] \in BadConfigs => tpc[l] # "fork"

\* Every slave is eventually given a configuration and forwards packets.
EventuallyRunning == \A l \in Slaves : spc[l] = "none" ~> spc[l] = "running"

-----------------------------------------------------------------------------
(* What the control plane implements (Supervisor).                            *)

\* A request of lcore l waits in its ring or is in the master's hand.
Pending(l) == ring1[l] # <<>> \/ InHand(l) = 1

PhaseOf(l) ==
    CASE tpc[l] = "fork" -> "starting"
      [] tpc[l] = "failed" -> "failed"
      [] tpc[l] \in {"ret", "finished"} ->
             IF flags[l] = SLAVE_RECREATE_FLAG THEN "noticed" ELSE "lost"
      [] OTHER -> IF spc[l] = "none" THEN "exited" ELSE "alive"

DialogOf(l) ==
    CASE spc[l] = "none" -> IF Pending(l) THEN "orphan" ELSE "idle"
      [] spc[l] = "await" -> IF Pending(l) THEN "asked"
                             ELSE IF ring0[l] # <<>> THEN "answered" ELSE "refused"
      [] Configured(l) -> "configured"
      [] OTHER -> "idle"

GivenTo(l) ==
    CASE Configured(l) -> sconf[l]
      [] DialogOf(l) = "answered" -> Head(ring0[l])
      [] OTHER -> None

\* What the master has on record for l, or is about to record.
OnRecord(l) == IF mpc = "record" /\ mcur = l THEN mproc ELSE config_id[l]

Supervised == INSTANCE Supervisor WITH
    Ids <- Lcores,
    phase <- [l \in Slaves |-> PhaseOf(l)],
    dialog <- [l \in Slaves |-> DialogOf(l)],
    given <- [l \in Slaves |-> GivenTo(l)],
    record <- [l \in Slaves |-> OnRecord(l)]

\* main.c, flib.c and ipc.c implement a supervisor of slaves, wherever slaves die
\* and forks fail: an exit is noticed once and answered by one relaunch, a slave is
\* given the answer to its own request and never one that its predecessor left in
\* a ring, and at most one late answer reaches the record of a dead slave.
ImplementsSupervisor == Supervised!Spec

=============================================================================
