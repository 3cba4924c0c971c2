------------------------- MODULE SlaveControlProofs -------------------------
(* Proofs about SlaveControl, for every core mask, configuration file and     *)
(* fault pattern.                                                             *)
EXTENDS SlaveControl, SequenceTheorems, TLAPS

USE DEF None, SLAVE_RECREATE_FLAG, SLAVE_DONT_RECREATE_FLAG, CFG

-----------------------------------------------------------------------------
(* Type correctness.                                                         *)

\* Giving an id back keeps lcore_cfg a map of the lcore ids.
LEMMA FreedIdType ==
    ASSUME TypeOK, NEW i
    PROVE  FreedId(i) \in [Lcores -> {0, 1}]
  BY DEF TypeOK, FreedId

\* The loops over lcores end at MaxLcore.
LEMMA SlaveRange ==
    ASSUME NEW l \in Slaves
    PROVE  l \in Lcores /\ l + 1 \in 0 .. MaxLcore
  BY ConstantsAssumption DEF Lcores

\* The initial state is well typed.
LEMMA InitType == Init => TypeOK
  BY ConstantsAssumption DEF Init, TypeOK, Lcores, Enabled, SlaveStages,
     ThreadStages, MasterStages

\* The steps of a slave process keep the state well typed.
LEMMA SlaveStepType ==
    ASSUME TypeOK, NEW l \in Slaves, SlaveStep(l)
    PROVE  TypeOK'
  <1> USE ConstantsAssumption DEF TypeOK, SlaveStages, ids, rings, resources,
          masterVars, threadVars, environment
  <1>1. CASE SlavePickId(l)
    BY <1>1 DEF SlavePickId, FreeIds
  <1>2. CASE SlaveNoId(l)
    BY <1>2 DEF SlaveNoId
  <1>3. CASE SlaveCas(l)
    BY <1>3 DEF SlaveCas
  <1>4. CASE SlaveMap(l)
    BY <1>4 DEF SlaveMap
  <1>5. CASE SlaveRequest(l)
    BY <1>5 DEF SlaveRequest
  <1>6. CASE SlaveGetCfg(l)
    BY <1>6 DEF SlaveGetCfg
  <1>7. CASE SlaveEngine(l)
    BY <1>7 DEF SlaveEngine
  <1>8. CASE SlaveFree(l)
    BY <1>8, FreedIdType DEF SlaveFree
  <1>9. CASE SlaveUnmap(l)
    BY <1>9 DEF SlaveUnmap
  <1> QED
    BY <1>1, <1>2, <1>3, <1>4, <1>5, <1>6, <1>7, <1>8, <1>9 DEF SlaveStep

\* So do the steps of an lcore's thread, failed forks and deaths.
LEMMA ThreadStepType ==
    ASSUME TypeOK, NEW l \in Slaves,
           ThreadStep(l) \/ ThreadLock(l) \/ ThreadForkFails(l) \/ SlaveCrash(l)
    PROVE  TypeOK'
  <1> USE ConstantsAssumption DEF TypeOK, SlaveStages, ThreadStages, ids, rings,
          resources, masterVars, slaveVars, environment
  <1>1. CASE ThreadFork(l)
    <2>1. 0 \in Lcores
      BY DEF Lcores
    <2>. QED  BY <1>1, <2>1 DEF ThreadFork
  <1>2. CASE ThreadReap(l)
    BY <1>2 DEF ThreadReap
  <1>3. CASE ThreadLookup(l)
    BY <1>3 DEF ThreadLookup
  <1>4. CASE ThreadUpdate(l)
    BY <1>4 DEF ThreadUpdate
  <1>5. CASE ThreadReturn(l)
    BY <1>5 DEF ThreadReturn
  <1>6. CASE ThreadLock(l)
    BY <1>6 DEF ThreadLock, Enabled
  <1>7. CASE ThreadForkFails(l)
    BY <1>7 DEF ThreadForkFails
  <1>8. CASE SlaveCrash(l)
    BY <1>8 DEF SlaveCrash, threadVars
  <1> QED
    BY <1>1, <1>2, <1>3, <1>4, <1>5, <1>6, <1>7, <1>8 DEF ThreadStep

\* So do the steps of the master.
LEMMA MasterStepType ==
    ASSUME TypeOK, MasterStep \/ MasterLock
    PROVE  TypeOK'
  <1> USE ConstantsAssumption DEF TypeOK, MasterStages, ids, rings, resources,
          threadVars, slaveVars, environment
  <1>1. CASE MasterPollNone
    BY <1>1 DEF MasterPollNone
  <1>2. CASE MasterPollRequest
    BY <1>2 DEF MasterPollRequest
  <1>3. CASE MasterScanNext
    BY <1>3 DEF MasterScanNext
  <1>4. CASE MasterScanFails
    BY <1>4, SlaveRange DEF MasterScanFails
  <1>5. CASE MasterAnswer
    BY SMTT(30), <1>5 DEF MasterAnswer
  <1>6. CASE MasterRecord
    BY <1>6, SlaveRange DEF MasterRecord
  <1>7. CASE MasterCheckNone
    BY <1>7 DEF MasterCheckNone
  <1>8. CASE MasterReset
    <2>1. mapping_id[mcur] \in Lcores \cup {None}
      BY <1>8, SlaveRange DEF MasterReset
    <2>2. CASE mapping_id[mcur] = None
      BY <1>8, <2>2 DEF MasterReset
    <2>3. CASE mapping_id[mcur] # None
      <3>1. lcore_cfg' \in [Lcores -> {0, 1}]
        <4>1. lcore_cfg' = FreedId(mapping_id[mcur])
          BY <1>8, <2>3 DEF MasterReset
        <4> QED
          BY <4>1, FreedIdType
      <3>2. mapping_id' = [mapping_id EXCEPT ![mapping_id[mcur]] = None]
        BY <1>8, <2>3 DEF MasterReset
      <3>3. used' = [used EXCEPT ![mapping_id[mcur]] = 0]
        BY <1>8, <2>3 DEF MasterReset
      <3> QED
        BY <1>8, <2>1, <3>1, <3>2, <3>3 DEF MasterReset
    <2> QED
      BY <2>2, <2>3
  <1>9. CASE MasterDrain
    BY <1>9 DEF MasterDrain
  <1>10. CASE MasterLaunch
    BY <1>10 DEF MasterLaunch, ThreadStages
  <1>11. CASE MasterClear
    BY <1>11, SlaveRange DEF MasterClear
  <1>12. CASE MasterUnlock
    BY <1>12 DEF MasterUnlock
  <1>13. CASE MasterLock
    BY <1>13 DEF MasterLock, Enabled
  <1> QED
    BY <1>1, <1>2, <1>3, <1>4, <1>5, <1>6, <1>7, <1>8, <1>9, <1>10, <1>11,
       <1>12, <1>13 DEF MasterStep

\* Every step keeps the state well typed.
LEMMA NextType == TypeOK /\ [Next]_vars => TypeOK'
  <1> SUFFICES ASSUME TypeOK, [Next]_vars PROVE TypeOK'
    OBVIOUS
  <1>1. CASE UNCHANGED vars
    BY <1>1 DEF TypeOK, vars
  <1>2. CASE MasterStep \/ MasterLock
    BY <1>2, MasterStepType
  <1>3. ASSUME NEW l \in Slaves, SlaveStep(l) PROVE TypeOK'
    BY <1>3, SlaveStepType
  <1>4. ASSUME NEW l \in Slaves,
               ThreadStep(l) \/ ThreadLock(l) \/ ThreadForkFails(l) \/ SlaveCrash(l)
        PROVE  TypeOK'
    BY <1>4, ThreadStepType
  <1> QED
    BY <1>1, <1>2, <1>3, <1>4 DEF Next

\* The control plane is type correct: ids and config ids stay in range, whatever
\* the core mask and however slaves die (main.c, flib.c, dpdk_mp.c).
THEOREM TypeCorrect == Spec => []TypeOK
  BY InitType, NextType, PTL DEF Spec

-----------------------------------------------------------------------------
(* Supervision: no exit is lost and no reset hits a live slave.  The          *)
(* strengthening says who owns the spinlock, that a process lives only while  *)
(* its thread is in waitpid, and that the flag is up exactly between the      *)
(* callback and the relaunch.                                                 *)

\* The spinlock is held by the actor that is in its critical section.
LockInv ==
    /\ mutex_lock = MasterLcore <=> mpc \in {"check", "drain", "launch", "clear"}
    /\ \A l \in Slaves : mutex_lock = l <=> tpc[l] = "update"

\* A slave process exists only while its thread waits for it.
WaitInv == \A l \in Slaves : spc[l] # "none" => tpc[l] = "waitpid"

\* The flag of an lcore is up from the callback to the end of reset_lcore.
FlagInv ==
    \A l \in Slaves :
        /\ flags[l] # SLAVE_DONT_RECREATE_FLAG
        /\ tpc[l] \in {"ret", "finished"} => flags[l] = SLAVE_RECREATE_FLAG
        /\ flags[l] = SLAVE_RECREATE_FLAG =>
              IF mpc = "clear" /\ mcur = l
              THEN tpc[l] \in {"fork", "waitpid", "notify", "lock", "failed"}
              ELSE tpc[l] \in {"ret", "finished"}

\* reset_lcore works on an lcore whose flag is up.
ResetInv ==
    mpc \in {"drain", "launch", "clear"} => flags[mcur] = SLAVE_RECREATE_FLAG

SupervisionInv == LockInv /\ WaitInv /\ FlagInv /\ ResetInv

(* Exchange: what is in flight, and what a relaunched slave will find.        *)

ExchangeInv ==
    /\ OneExchange
    /\ mpc = "launch" => InFlight(mcur) = 0

(* Record: the answer that is in flight, or that the slave has taken, is the  *)
(* one that the master records or has recorded.                               *)

RecordInv ==
    \A l \in Slaves :
        /\ Configured(l) => sconf[l] = OnRecord(l)
        /\ ring0[l] # <<>> => Head(ring0[l]) = OnRecord(l)

IndInv == TypeOK /\ SupervisionInv /\ ExchangeInv /\ RecordInv

\* A free spinlock is told apart from one that an lcore owns.
LEMMA OwnersDiffer ==
    /\ None # MasterLcore
    /\ \A l \in Slaves : l # None /\ l # MasterLcore
  BY ConstantsAssumption DEF Lcores

-----------------------------------------------------------------------------
(* SupervisionInv is inductive.                                               *)

\* Nothing is locked, running or flagged at the start.
LEMMA InitSupervision == Init => SupervisionInv
  BY ConstantsAssumption DEF Init, SupervisionInv, LockInv, WaitInv, FlagInv,
     ResetInv, Lcores

\* A slave process touches none of the supervision state but its own stage.
LEMMA SlaveSupervision ==
    ASSUME TypeOK, SupervisionInv, NEW l \in Slaves, SlaveStep(l)
    PROVE  SupervisionInv'
  <1> USE ConstantsAssumption DEF TypeOK, SupervisionInv, LockInv, WaitInv,
          FlagInv, ResetInv, ids, rings, resources, masterVars, threadVars, slaveVars,
          environment
  <1>1. CASE SlavePickId(l)
    BY <1>1 DEF SlavePickId
  <1>2. CASE SlaveNoId(l)
    BY <1>2 DEF SlaveNoId
  <1>3. CASE SlaveCas(l)
    BY <1>3 DEF SlaveCas
  <1>4. CASE SlaveMap(l)
    BY <1>4 DEF SlaveMap
  <1>5. CASE SlaveRequest(l)
    BY <1>5 DEF SlaveRequest
  <1>6. CASE SlaveGetCfg(l)
    BY <1>6 DEF SlaveGetCfg
  <1>7. CASE SlaveEngine(l)
    BY <1>7 DEF SlaveEngine
  <1>8. CASE SlaveFree(l)
    BY <1>8 DEF SlaveFree
  <1>9. CASE SlaveUnmap(l)
    BY <1>9 DEF SlaveUnmap
  <1> QED
    BY <1>1, <1>2, <1>3, <1>4, <1>5, <1>6, <1>7, <1>8, <1>9 DEF SlaveStep

\* The thread raises the flag in its critical section, after the process is gone.
LEMMA ThreadSupervision ==
    ASSUME TypeOK, SupervisionInv, NEW l \in Slaves,
           ThreadStep(l) \/ ThreadLock(l) \/ ThreadForkFails(l) \/ SlaveCrash(l)
    PROVE  SupervisionInv'
  <1> USE ConstantsAssumption DEF TypeOK, SupervisionInv, LockInv, WaitInv,
          FlagInv, ResetInv, ids, rings, resources, masterVars, threadVars, slaveVars,
          environment
  <1>1. CASE ThreadFork(l)
    BY <1>1 DEF ThreadFork
  <1>2. CASE ThreadReap(l)
    BY <1>2 DEF ThreadReap
  <1>3. CASE ThreadLookup(l)
    BY <1>3 DEF ThreadLookup
  <1>4. CASE ThreadUpdate(l)
    <2>1. LockInv'
      BY <1>4, OwnersDiffer DEF ThreadUpdate
    <2>2. WaitInv'
      BY <1>4 DEF ThreadUpdate
    <2>3. FlagInv'
      BY <1>4, OwnersDiffer DEF ThreadUpdate
    <2>4. ResetInv'
      BY <1>4 DEF ThreadUpdate
    <2> QED
      BY <2>1, <2>2, <2>3, <2>4
  <1>5. CASE ThreadReturn(l)
    BY <1>5 DEF ThreadReturn
  <1>6. CASE ThreadLock(l)
    <2>1. LockInv'
      BY <1>6, OwnersDiffer DEF ThreadLock
    <2>2. WaitInv'
      BY <1>6 DEF ThreadLock
    <2>3. FlagInv'
      BY <1>6, OwnersDiffer DEF ThreadLock
    <2>4. ResetInv'
      BY <1>6 DEF ThreadLock
    <2> QED
      BY <2>1, <2>2, <2>3, <2>4
  <1>7. CASE ThreadForkFails(l)
    BY <1>7 DEF ThreadForkFails
  <1>8. CASE SlaveCrash(l)
    BY <1>8 DEF SlaveCrash
  <1> QED
    BY <1>1, <1>2, <1>3, <1>4, <1>5, <1>6, <1>7, <1>8 DEF ThreadStep

\* The master lowers the flag in its critical section, after the relaunch.
LEMMA MasterSupervision ==
    ASSUME TypeOK, SupervisionInv, MasterStep \/ MasterLock
    PROVE  SupervisionInv'
  <1> USE ConstantsAssumption DEF TypeOK, SupervisionInv, LockInv, WaitInv,
          FlagInv, ResetInv, ids, rings, resources, masterVars, threadVars, slaveVars,
          environment
  <1>1. CASE MasterPollNone
    BY <1>1 DEF MasterPollNone
  <1>2. CASE MasterPollRequest
    BY <1>2 DEF MasterPollRequest
  <1>3. CASE MasterScanNext
    BY <1>3 DEF MasterScanNext
  <1>4. CASE MasterScanFails
    BY <1>4 DEF MasterScanFails
  <1>5. CASE MasterAnswer
    BY <1>5 DEF MasterAnswer
  <1>6. CASE MasterRecord
    BY <1>6 DEF MasterRecord
  <1>7. CASE MasterCheckNone
    BY <1>7 DEF MasterCheckNone
  <1>8. CASE MasterReset
    BY <1>8 DEF MasterReset
  <1>9. CASE MasterDrain
    BY <1>9 DEF MasterDrain
  <1>10. CASE MasterLaunch
    BY <1>10 DEF MasterLaunch
  <1>11. CASE MasterClear
    <2>1. LockInv'
      BY <1>11, OwnersDiffer DEF MasterClear
    <2>2. WaitInv'
      BY <1>11 DEF MasterClear
    <2>3. FlagInv'
      <3>1. mcur \in Slaves /\ flags' = [flags EXCEPT ![mcur] = 0]
               /\ tpc' = tpc /\ mpc = "clear" /\ mpc' = "check"
        BY <1>11 DEF MasterClear
      <3>2. tpc[mcur] \notin {"ret", "finished"}
        BY <3>1
      <3>3. \A k \in Slaves \ {mcur} : flags'[k] = flags[k]
        BY <3>1
      <3>4. flags'[mcur] = 0
        BY <3>1
      <3> QED
        BY <3>1, <3>2, <3>3, <3>4
    <2>4. ResetInv'
      BY <1>11 DEF MasterClear
    <2> QED
      BY <2>1, <2>2, <2>3, <2>4
  <1>12. CASE MasterUnlock
    <2>1. LockInv'
      BY <1>12, OwnersDiffer DEF MasterUnlock
    <2>2. WaitInv'
      BY <1>12 DEF MasterUnlock
    <2>3. FlagInv'
      BY <1>12, OwnersDiffer DEF MasterUnlock
    <2>4. ResetInv'
      BY <1>12 DEF MasterUnlock
    <2> QED
      BY <2>1, <2>2, <2>3, <2>4
  <1>13. CASE MasterLock
    <2>1. LockInv'
      BY <1>13, OwnersDiffer DEF MasterLock
    <2>2. WaitInv'
      BY <1>13 DEF MasterLock
    <2>3. FlagInv'
      BY <1>13, OwnersDiffer DEF MasterLock
    <2>4. ResetInv'
      BY <1>13 DEF MasterLock
    <2> QED
      BY <2>1, <2>2, <2>3, <2>4
  <1> QED
    BY <1>1, <1>2, <1>3, <1>4, <1>5, <1>6, <1>7, <1>8, <1>9, <1>10, <1>11,
       <1>12, <1>13 DEF MasterStep

\* Every step keeps the supervision invariant.
LEMMA NextSupervision ==
    ASSUME TypeOK, SupervisionInv, [Next]_vars
    PROVE  SupervisionInv'
  <1>1. CASE UNCHANGED vars
    BY <1>1 DEF SupervisionInv, LockInv, WaitInv, FlagInv, ResetInv, vars
  <1>2. CASE MasterStep \/ MasterLock
    BY <1>2, MasterSupervision
  <1>3. ASSUME NEW l \in Slaves, SlaveStep(l) PROVE SupervisionInv'
    BY <1>3, SlaveSupervision
  <1>4. ASSUME NEW l \in Slaves,
               ThreadStep(l) \/ ThreadLock(l) \/ ThreadForkFails(l) \/ SlaveCrash(l)
        PROVE  SupervisionInv'
    BY <1>4, ThreadSupervision
  <1> QED
    BY <1>1, <1>2, <1>3, <1>4 DEF Next

\* The supervision invariant holds in every reachable state.
THEOREM Supervision == Spec => [](TypeOK /\ SupervisionInv)
  <1>1. Init => TypeOK /\ SupervisionInv
    BY InitType, InitSupervision
  <1>2. TypeOK /\ SupervisionInv /\ [Next]_vars => (TypeOK /\ SupervisionInv)'
    BY NextType, NextSupervision
  <1> QED
    BY <1>1, <1>2, PTL DEF Spec

\* No death of a slave goes unnoticed (lcore_func, slave_exit_cb, main_loop),
\* whichever stage it dies at and however the master and the threads interleave.
THEOREM ExitsAreNoticed == Spec => []NoExitLost
  <1>1. TypeOK /\ SupervisionInv => NoExitLost
    BY DEF TypeOK, SupervisionInv, WaitInv, FlagInv, NoExitLost, ThreadStages
  <1> QED
    BY <1>1, Supervision, PTL

\* flib_remote_launch waits, with the lock held, only for a thread that no
\* longer needs the lock, and reset_lcore never touches a live slave.
THEOREM ResetsAreSafe == Spec => []ResetIsSafe
  <1>1. TypeOK /\ SupervisionInv => ResetIsSafe
    BY DEF TypeOK, SupervisionInv, WaitInv, FlagInv, ResetInv, ResetIsSafe
  <1> QED
    BY <1>1, Supervision, PTL

-----------------------------------------------------------------------------
(* ExchangeInv and RecordInv are inductive.                                   *)

\* How a message that is put in a ring or taken out changes its length.
LEMMA RingLength ==
    ASSUME NEW S, NEW q \in Seq(S)
    PROVE  /\ Len(q) \in Nat
           /\ \A e \in S : Len(Append(q, e)) = Len(q) + 1
           /\ q # <<>> => Len(q) >= 1 /\ Len(Tail(q)) = Len(q) - 1
  OBVIOUS

\* InFlight counts messages.
LEMMA InFlightNat ==
    ASSUME TypeOK, NEW l \in Slaves
    PROVE  InFlight(l) \in Nat /\ InFlight(l) >= InHand(l)
  <1>1. Len(ring0[l]) \in Nat /\ Len(ring1[l]) \in Nat
    BY RingLength DEF TypeOK
  <1>2. InHand(l) \in {0, 1}
    BY DEF InHand
  <1>3. \A a, b \in Nat, h \in {0, 1} : a + b + h \in Nat /\ a + b + h >= h
    OBVIOUS
  <1> QED
    BY <1>1, <1>2, <1>3 DEF InFlight

\* The rings are empty at the start.
LEMMA InitExchange == Init => ExchangeInv /\ RecordInv
  BY DEF Init, ExchangeInv, OneExchange, InFlight, InHand, RecordInv, Configured

\* A slave sends one request and takes one answer.
LEMMA SlaveExchange ==
    ASSUME TypeOK, SupervisionInv, ExchangeInv, NEW l \in Slaves, SlaveStep(l)
    PROVE  ExchangeInv'
  <1> USE DEF TypeOK, SupervisionInv, WaitInv, FlagInv, ResetInv, ExchangeInv,
          OneExchange, InFlight, InHand,
          ids, rings, resources, masterVars, threadVars, slaveVars,
          environment
  <1>1. CASE SlavePickId(l)
    BY <1>1 DEF SlavePickId
  <1>2. CASE SlaveNoId(l)
    BY <1>2 DEF SlaveNoId
  <1>3. CASE SlaveCas(l)
    <2>1. /\ UNCHANGED <<ring0, ring1, mpc, mcur, tpc>>
          /\ spc[l] \notin {"none", "await"} /\ spc \in [Slaves -> SlaveStages]
          /\ \E stage \in SlaveStages : spc' = [spc EXCEPT ![l] = stage]
      BY <1>3 DEF SlaveCas, SlaveStages
    <2>2. \A k \in Slaves : InFlight(k)' = InFlight(k)
      BY <2>1
    <2>3. mpc = "launch" => InFlight(mcur)' = InFlight(mcur)
      BY <2>1
    <2>4. \A k \in Slaves \ {l} : spc'[k] = spc[k]
      BY <2>1
    <2>5. OneExchange /\ (mpc = "launch" => InFlight(mcur) = 0)
      OBVIOUS
    <2> HIDE DEF InFlight, TypeOK, SupervisionInv, WaitInv, FlagInv, ResetInv
    <2> QED
      BY <2>1, <2>2, <2>3, <2>4, <2>5
  <1>4. CASE SlaveMap(l)
    BY <1>4 DEF SlaveMap
  <1>5. CASE SlaveRequest(l)
    <2>1. Len(ring1'[l]) = Len(ring1[l]) + 1
      BY <1>5, RingLength DEF SlaveRequest
    <2>2. InFlight(l)' = InFlight(l) + 1
      BY <1>5, <2>1, RingLength DEF SlaveRequest
    <2>3. \A k \in Slaves \ {l} : InFlight(k)' = InFlight(k)
      BY <1>5 DEF SlaveRequest
    <2> HIDE DEF InFlight
    <2>4. InFlight(l) = 0 /\ tpc[l] = "waitpid"
      BY <1>5 DEF SlaveRequest
    <2>5. mpc = "launch" => mcur # l
      BY <2>4
    <2> QED
      BY <2>5, <1>5, <2>2, <2>3, <2>4 DEF SlaveRequest
  <1>6. CASE SlaveGetCfg(l)
    <2>1. Len(ring0[l]) >= 1 /\ Len(ring0'[l]) = Len(ring0[l]) - 1
      BY <1>6, RingLength DEF SlaveGetCfg
    <2>2. InFlight(l) >= 1 /\ InFlight(l)' = InFlight(l) - 1
      BY <1>6, <2>1, RingLength DEF SlaveGetCfg
    <2>3. \A k \in Slaves \ {l} : InFlight(k)' = InFlight(k)
      BY <1>6 DEF SlaveGetCfg
    <2> HIDE DEF InFlight
    <2>4. InFlight(l)' = 0
      BY <2>2, InFlightNat
    <2>5. mpc = "launch" => mcur # l
      BY <1>6 DEF SlaveGetCfg
    <2> QED
      BY <2>5, <1>6, <2>3, <2>4 DEF SlaveGetCfg
  <1>7. CASE SlaveEngine(l)
    BY <1>7 DEF SlaveEngine
  <1>8. CASE SlaveFree(l)
    BY <1>8 DEF SlaveFree
  <1>9. CASE SlaveUnmap(l)
    BY <1>9 DEF SlaveUnmap
  <1> QED
    BY <1>1, <1>2, <1>3, <1>4, <1>5, <1>6, <1>7, <1>8, <1>9 DEF SlaveStep

\* A slave starts, and dies, without touching the rings.
LEMMA ThreadExchange ==
    ASSUME TypeOK, SupervisionInv, ExchangeInv, NEW l \in Slaves,
           ThreadStep(l) \/ ThreadLock(l) \/ ThreadForkFails(l) \/ SlaveCrash(l)
    PROVE  ExchangeInv'
  <1> USE DEF TypeOK, SupervisionInv, WaitInv, ExchangeInv, OneExchange, InFlight, InHand,
          ids, rings, resources, masterVars, threadVars, slaveVars,
          environment
  <1>1. CASE ThreadFork(l)
    BY <1>1 DEF ThreadFork
  <1>2. CASE ThreadReap(l)
    BY <1>2 DEF ThreadReap
  <1>3. CASE ThreadLookup(l)
    BY <1>3 DEF ThreadLookup
  <1>4. CASE ThreadUpdate(l)
    BY <1>4 DEF ThreadUpdate
  <1>5. CASE ThreadReturn(l)
    BY <1>5 DEF ThreadReturn
  <1>6. CASE ThreadLock(l)
    BY <1>6 DEF ThreadLock
  <1>7. CASE ThreadForkFails(l)
    BY <1>7 DEF ThreadForkFails
  <1>8. CASE SlaveCrash(l)
    BY <1>8 DEF SlaveCrash
  <1> QED
    BY <1>1, <1>2, <1>3, <1>4, <1>5, <1>6, <1>7, <1>8 DEF ThreadStep

\* The master answers a request once, and drains the rings of a dead slave.
LEMMA MasterExchange ==
    ASSUME TypeOK, SupervisionInv, ExchangeInv, MasterStep \/ MasterLock
    PROVE  ExchangeInv'
  <1> USE DEF TypeOK, SupervisionInv, WaitInv, FlagInv, ResetInv, ExchangeInv,
          OneExchange, InFlight, InHand, ids, rings, resources, masterVars, threadVars, slaveVars,
          environment
  <1>1. CASE MasterPollNone
    BY <1>1 DEF MasterPollNone
  <1>2. CASE MasterPollRequest
    <2>1. Len(ring1'[mcur]) = Len(ring1[mcur]) - 1
      BY <1>2, RingLength DEF MasterPollRequest
    <2>2. InFlight(mcur)' = InFlight(mcur)
      BY <1>2, <2>1, RingLength DEF MasterPollRequest
    <2>3. \A k \in Slaves \ {mcur} : InFlight(k)' = InFlight(k)
      BY <1>2 DEF MasterPollRequest
    <2> QED
      BY <1>2, <2>2, <2>3 DEF MasterPollRequest
  <1>3. CASE MasterScanNext
    BY <1>3 DEF MasterScanNext
  <1>4. CASE MasterScanFails
    <2>1. PICK m \in Slaves : m = mcur
      BY <1>4 DEF MasterScanFails
    <2>2. InHand(m) = 1 /\ \A k \in Slaves : InHand(k)' = 0
      BY <1>4, <2>1 DEF MasterScanFails
    <2>3. \A k \in Slaves \ {m} : InHand(k) = 0
      BY <2>1
    <2> HIDE DEF InHand
    <2>4. InFlight(m)' = InFlight(m) - 1
      BY <1>4, <2>2, RingLength DEF MasterScanFails
    <2>5. \A k \in Slaves \ {m} : InFlight(k)' = InFlight(k)
      BY <1>4, <2>2, <2>3 DEF MasterScanFails
    <2> HIDE DEF InFlight
    <2>6. InFlight(m)' = 0
      BY <2>2, <2>4, InFlightNat
    <2> QED
      BY <1>4, <2>5, <2>6 DEF MasterScanFails
  <1>5. CASE MasterAnswer
    <2>1. Len(ring0'[mcur]) = Len(ring0[mcur]) + 1
      BY <1>5, RingLength DEF MasterAnswer
    <2>2. InFlight(mcur)' = InFlight(mcur)
      BY <1>5, <2>1, RingLength DEF MasterAnswer
    <2>3. \A k \in Slaves \ {mcur} : InFlight(k)' = InFlight(k)
      BY <1>5 DEF MasterAnswer
    <2> QED
      BY <1>5, <2>2, <2>3 DEF MasterAnswer
  <1>6. CASE MasterRecord
    BY <1>6 DEF MasterRecord
  <1>7. CASE MasterCheckNone
    BY <1>7 DEF MasterCheckNone
  <1>8. CASE MasterReset
    BY <1>8 DEF MasterReset
  <1>9. CASE MasterDrain
    BY <1>9 DEF MasterDrain
  <1>10. CASE MasterLaunch
    BY <1>10 DEF MasterLaunch
  <1>11. CASE MasterClear
    BY <1>11 DEF MasterClear
  <1>12. CASE MasterUnlock
    BY <1>12 DEF MasterUnlock
  <1>13. CASE MasterLock
    BY <1>13 DEF MasterLock
  <1> QED
    BY <1>1, <1>2, <1>3, <1>4, <1>5, <1>6, <1>7, <1>8, <1>9, <1>10, <1>11,
       <1>12, <1>13 DEF MasterStep

\* Every step keeps the exchange invariant.
LEMMA NextExchange ==
    ASSUME TypeOK, SupervisionInv, ExchangeInv, [Next]_vars
    PROVE  ExchangeInv'
  <1>1. CASE UNCHANGED vars
    BY <1>1 DEF ExchangeInv, OneExchange, InFlight, InHand, vars
  <1>2. CASE MasterStep \/ MasterLock
    BY <1>2, MasterExchange
  <1>3. ASSUME NEW l \in Slaves, SlaveStep(l) PROVE ExchangeInv'
    BY <1>3, SlaveExchange
  <1>4. ASSUME NEW l \in Slaves,
               ThreadStep(l) \/ ThreadLock(l) \/ ThreadForkFails(l) \/ SlaveCrash(l)
        PROVE  ExchangeInv'
    BY <1>4, ThreadExchange
  <1> QED
    BY <1>1, <1>2, <1>3, <1>4 DEF Next

\* A ring of length one is empty without its head.
LEMMA EmptyTail ==
    ASSUME NEW S, NEW q \in Seq(S), Len(q) = 1
    PROVE  Tail(q) = <<>>
  <1>1. Tail(q) \in Seq(S) /\ Len(Tail(q)) = 0
    OBVIOUS
  <1> QED
    BY <1>1, EmptySeq

\* An answer in the ring is the only message in flight, and while the master
\* works on a request there is none.
LEMMA RoomForOne ==
    ASSUME TypeOK, ExchangeInv, NEW l \in Slaves
    PROVE  /\ ring0[l] # <<>> => Len(ring0[l]) = 1
           /\ mpc = "scan" /\ mcur = l =>
                ring0[l] = <<>> /\ spc[l] \in {"none", "await"}
  <1> DEFINE a == Len(ring0[l])
  <1> DEFINE b == Len(ring1[l])
  <1>1. ring0[l] \in Seq(Configs) /\ ring1[l] \in Seq({CFG})
    BY DEF TypeOK
  <1>2. a \in Nat /\ b \in Nat /\ (ring0[l] # <<>> => a >= 1)
    BY <1>1, RingLength
  <1>3. InHand(l) \in {0, 1} /\ (mpc = "scan" /\ mcur = l => InHand(l) = 1)
    BY DEF InHand
  <1>4. InFlight(l) = b + a + InHand(l)
    BY DEF InFlight
  <1>5. b + a + InHand(l) <= 1
    BY <1>4 DEF ExchangeInv, OneExchange
  <1>6. spc[l] \notin {"none", "await"} => b + a + InHand(l) = 0
    BY <1>4 DEF ExchangeInv, OneExchange
  <1> HIDE DEF a, b
  <1>7. ring0[l] # <<>> => a = 1
    BY <1>2, <1>3, <1>5
  <1>8. InHand(l) = 1 => a = 0 /\ b + a + InHand(l) # 0
    BY <1>2, <1>5
  <1>9. InHand(l) = 1 => ring0[l] = <<>> /\ spc[l] \in {"none", "await"}
    BY <1>2, <1>6, <1>8
  <1> QED
    BY <1>3, <1>7, <1>9 DEF a

\* The slave takes over the answer that the master has, or will have, on record.
LEMMA SlaveRecord ==
    ASSUME TypeOK, SupervisionInv, ExchangeInv, RecordInv,
           NEW l \in Slaves, SlaveStep(l)
    PROVE  RecordInv'
  <1> USE DEF TypeOK, RecordInv, Configured, ids, rings, resources,
          masterVars, threadVars, slaveVars, environment
  <1>1. CASE SlavePickId(l)
    BY <1>1 DEF SlavePickId, OnRecord
  <1>2. CASE SlaveNoId(l)
    BY <1>2 DEF SlaveNoId, OnRecord
  <1>3. CASE SlaveCas(l)
    BY <1>3 DEF SlaveCas, OnRecord
  <1>4. CASE SlaveMap(l)
    BY <1>4 DEF SlaveMap, OnRecord
  <1>5. CASE SlaveRequest(l)
    BY <1>5 DEF SlaveRequest, OnRecord
  <1>6. CASE SlaveGetCfg(l)
    <2>1. Len(ring0[l]) = 1
      BY <1>6, RoomForOne DEF SlaveGetCfg
    <2>2. ring0'[l] = <<>>
      BY <1>6, <2>1, EmptyTail DEF SlaveGetCfg
    <2>3. \A k \in Slaves : OnRecord(k)' = OnRecord(k)
      BY <1>6 DEF SlaveGetCfg, OnRecord
    <2>4. sconf'[l] = OnRecord(l)
      BY <1>6 DEF SlaveGetCfg
    <2> QED
      BY <1>6, <2>2, <2>3, <2>4 DEF SlaveGetCfg
  <1>7. CASE SlaveEngine(l)
    BY <1>7 DEF SlaveEngine, OnRecord
  <1>8. CASE SlaveFree(l)
    BY <1>8 DEF SlaveFree, OnRecord
  <1>9. CASE SlaveUnmap(l)
    BY <1>9 DEF SlaveUnmap, OnRecord
  <1> QED
    BY <1>1, <1>2, <1>3, <1>4, <1>5, <1>6, <1>7, <1>8, <1>9 DEF SlaveStep

\* The threads leave what is on record alone.
LEMMA ThreadRecord ==
    ASSUME TypeOK, SupervisionInv, ExchangeInv, RecordInv, NEW l \in Slaves,
           ThreadStep(l) \/ ThreadLock(l) \/ ThreadForkFails(l) \/ SlaveCrash(l)
    PROVE  RecordInv'
  <1> USE DEF TypeOK, RecordInv, Configured, ids, rings, resources,
          masterVars, threadVars, slaveVars, environment
  <1>1. CASE ThreadFork(l)
    BY <1>1 DEF ThreadFork, OnRecord
  <1>2. CASE ThreadReap(l)
    BY <1>2 DEF ThreadReap, OnRecord
  <1>3. CASE ThreadLookup(l)
    BY <1>3 DEF ThreadLookup, OnRecord
  <1>4. CASE ThreadUpdate(l)
    BY <1>4 DEF ThreadUpdate, OnRecord
  <1>5. CASE ThreadReturn(l)
    BY <1>5 DEF ThreadReturn, OnRecord
  <1>6. CASE ThreadLock(l)
    BY <1>6 DEF ThreadLock, OnRecord
  <1>7. CASE ThreadForkFails(l)
    BY <1>7 DEF ThreadForkFails, OnRecord
  <1>8. CASE SlaveCrash(l)
    BY <1>8 DEF SlaveCrash, OnRecord
  <1> QED
    BY <1>1, <1>2, <1>3, <1>4, <1>5, <1>6, <1>7, <1>8 DEF ThreadStep

\* The master records what it has answered before it answers the lcore again.
LEMMA MasterRecords ==
    ASSUME TypeOK, SupervisionInv, ExchangeInv, RecordInv,
           MasterStep \/ MasterLock
    PROVE  RecordInv'
  <1> USE DEF TypeOK, RecordInv, Configured, ids, rings, resources,
          masterVars, threadVars, slaveVars, environment
  <1>1. CASE MasterPollNone
    BY <1>1 DEF MasterPollNone, OnRecord
  <1>2. CASE MasterPollRequest
    BY <1>2 DEF MasterPollRequest, OnRecord
  <1>3. CASE MasterScanNext
    BY <1>3 DEF MasterScanNext, OnRecord
  <1>4. CASE MasterScanFails
    BY <1>4 DEF MasterScanFails, OnRecord
  <1>5. CASE MasterAnswer
    <2>1. PICK m \in Slaves : m = mcur
      BY <1>5 DEF MasterAnswer
    <2>2. ring0[m] = <<>> /\ spc[m] \in {"none", "await"}
      BY <1>5, <2>1, RoomForOne DEF MasterAnswer
    <2>3. Head(ring0'[m]) = mproc
      BY <1>5, <2>1, <2>2 DEF MasterAnswer
    <2>4. OnRecord(m)' = mproc
      BY <1>5, <2>1 DEF MasterAnswer, OnRecord
    <2>5. \A k \in Slaves \ {m} :
             OnRecord(k)' = OnRecord(k) /\ ring0'[k] = ring0[k]
      BY <1>5, <2>1 DEF MasterAnswer, OnRecord
    <2> QED
      BY <1>5, <2>2, <2>3, <2>4, <2>5 DEF MasterAnswer
  <1>6. CASE MasterRecord
    <2>1. \A k \in Slaves : OnRecord(k)' = OnRecord(k)
      BY <1>6 DEF MasterRecord, OnRecord
    <2> QED
      BY <1>6, <2>1 DEF MasterRecord
  <1>7. CASE MasterCheckNone
    BY <1>7 DEF MasterCheckNone, OnRecord
  <1>8. CASE MasterReset
    BY <1>8 DEF MasterReset, OnRecord
  <1>9. CASE MasterDrain
    BY <1>9 DEF MasterDrain, OnRecord
  <1>10. CASE MasterLaunch
    BY <1>10 DEF MasterLaunch, OnRecord
  <1>11. CASE MasterClear
    BY <1>11 DEF MasterClear, OnRecord
  <1>12. CASE MasterUnlock
    BY <1>12 DEF MasterUnlock, OnRecord
  <1>13. CASE MasterLock
    BY <1>13 DEF MasterLock, OnRecord
  <1> QED
    BY <1>1, <1>2, <1>3, <1>4, <1>5, <1>6, <1>7, <1>8, <1>9, <1>10, <1>11,
       <1>12, <1>13 DEF MasterStep

\* Every step keeps the record invariant.
LEMMA NextRecord ==
    ASSUME TypeOK, SupervisionInv, ExchangeInv, RecordInv, [Next]_vars
    PROVE  RecordInv'
  <1>1. CASE UNCHANGED vars
    BY <1>1 DEF RecordInv, OnRecord, Configured, vars
  <1>2. CASE MasterStep \/ MasterLock
    BY <1>2, MasterRecords
  <1>3. ASSUME NEW l \in Slaves, SlaveStep(l) PROVE RecordInv'
    BY <1>3, SlaveRecord
  <1>4. ASSUME NEW l \in Slaves,
               ThreadStep(l) \/ ThreadLock(l) \/ ThreadForkFails(l) \/ SlaveCrash(l)
        PROVE  RecordInv'
    BY <1>4, ThreadRecord
  <1> QED
    BY <1>1, <1>2, <1>3, <1>4 DEF Next

\* The whole inductive invariant holds in every reachable state.
THEOREM Inductive == Spec => []IndInv
  <1>1. Init => IndInv
    BY InitType, InitSupervision, InitExchange DEF IndInv
  <1>2. IndInv /\ [Next]_vars => IndInv'
    BY NextType, NextSupervision, NextExchange, NextRecord DEF IndInv
  <1> QED
    BY <1>1, <1>2, PTL DEF Spec

\* Requests and answers pair up (slave_request, main_set_lcore_cfg,
\* init_slave_res): at most one message per lcore is in flight, and no slave
\* finds one that was meant for its predecessor.
THEOREM ExchangesPairUp == Spec => []OneExchange
  <1>1. IndInv => OneExchange
    BY DEF IndInv, ExchangeInv
  <1> QED
    BY <1>1, Inductive, PTL

\* The master knows which configuration every slave runs (main_set_lcore_cfg
\* answers first and records afterwards).
THEOREM RecordsAgree == Spec => []RecordAgrees
  <1>1. IndInv => RecordAgrees
    BY DEF IndInv, RecordInv, OnRecord, RecordAgrees
  <1> QED
    BY <1>1, Inductive, PTL

=============================================================================
