---------------------------- MODULE SlaveIdProofs ----------------------------
(***************************************************************************)
(* Proofs about SlaveControl, continued: floating lcore ids and            *)
(* configurations have one owner, as long as slaves die only at the stages *)
(* that reset_lcore and slave_exit_cb can cope with.                       *)
(***************************************************************************)
EXTENDS SlaveControlProofs, FiniteSetTheorems

USE DEF None, SLAVE_RECREATE_FLAG, SLAVE_DONT_RECREATE_FLAG, CFG

\* The ids that flib_assign_lcore_id can hand out.
Floating == Lcores \ (Enabled \cup {0})

\* Where a death leaves the id that the slave owns on record in mapping_id.
IdFaults == CrashPoints \subseteq {"request", "await", "engine", "running", "free"}

\* RTE_MAX_LCORE leaves an id for each slave: none of them finds the table full.
IdsSuffice == Cardinality(Slaves) <= Cardinality(Floating)

\* The slave of l is dead and reset_lcore has yet to give its id back.
Orphan(l) ==
    /\ spc[l] = "none"
    /\ tpc[l] \in {"waitpid", "notify", "lock", "update", "ret", "finished"}
    /\ ~(mpc \in {"drain", "launch"} /\ mcur = l)
    /\ mapping_id[l] # None

HoldsId(l, i) ==
    \/ OwnsId(l) /\ sid[l] = i
    \/ Orphan(l) /\ mapping_id[l] = i

\* The slave has put its id on record.
Mapped(l) == spc[l] \in {"request", "await", "engine", "running", "free"}

\* Only floating ids are picked, owned and put on record.
IdRange ==
    /\ \A i \in Enabled : lcore_cfg[i] = 1
    /\ 0 \notin Enabled => lcore_cfg[0] = 0
    /\ \A l \in Slaves : /\ mapping_id[l] \in Floating \cup {None}
                         /\ spc[l] = "cas" \/ OwnsId(l) => sid[l] \in Floating
                         /\ Mapped(l) => mapping_id[l] = sid[l]

\* An id is taken exactly while somebody holds it, and nobody else does.
IdTaken ==
    /\ \A l \in Slaves, i \in Floating : HoldsId(l, i) => lcore_cfg[i] = 1
    /\ \A i \in Floating : lcore_cfg[i] = 1 => \E l \in Slaves : HoldsId(l, i)

IdHeldOnce ==
    \A l, m \in Slaves, i \in Floating : HoldsId(l, i) /\ HoldsId(m, i) => l = m

IdInv == IdRange /\ IdTaken /\ IdHeldOnce

-----------------------------------------------------------------------------
\* A step that neither takes nor gives back an id.
LEMMA SameHolders ==
    ASSUME IdInv, UNCHANGED <<lcore_cfg, mapping_id, sid>>,
           \A m \in Slaves : /\ OwnsId(m)' <=> OwnsId(m)
                             /\ Orphan(m)' <=> Orphan(m)
                             /\ Mapped(m)' => Mapped(m)
                             /\ (spc[m] = "cas")' => spc[m] = "cas"
    PROVE  IdInv'
  <1>1. \A m \in Slaves, i \in Floating : HoldsId(m, i)' <=> HoldsId(m, i)
    BY DEF HoldsId
  <1>2. IdRange'
    BY DEF IdInv, IdRange
  <1>3. IdTaken'
    BY <1>1 DEF IdInv, IdTaken
  <1>4. IdHeldOnce'
    BY <1>1 DEF IdInv, IdHeldOnce
  <1> QED
    BY <1>2, <1>3, <1>4 DEF IdInv

\* The floating ids, the slaves and the pinned lcores are apart.
LEMMA FloatingApart ==
    /\ Floating \subseteq Lcores \ {0}
    /\ None \notin Floating
    /\ \A i \in Floating : i \notin Slaves /\ i \notin Enabled
    /\ IsFiniteSet(Floating) /\ IsFiniteSet(Slaves)
  <1>1. IsFiniteSet(Lcores)
    BY ConstantsAssumption, FS_Interval DEF Lcores
  <1>2. IsFiniteSet(Floating) /\ IsFiniteSet(Slaves)
    BY <1>1, FS_Subset, ConstantsAssumption DEF Floating
  <1> QED
    BY <1>2, ConstantsAssumption DEF Floating, Enabled, Lcores

\* What flib_assign_lcore_id finds free is a floating id, and nobody holds it.
LEMMA FreeIdsFloat ==
    ASSUME TypeOK, IdInv
    PROVE  /\ FreeIds \subseteq Floating
           /\ \A i \in FreeIds, m \in Slaves : ~HoldsId(m, i)
  BY DEF TypeOK, IdInv, IdRange, IdTaken, FreeIds, Floating

\* A slave that looks for an id finds one: the others hold one each at most.
LEMMA IdLeft ==
    ASSUME TypeOK, IdInv, IdsSuffice, NEW l \in Slaves, spc[l] = "assign"
    PROVE  FreeIds # {}
  <1> SUFFICES ASSUME FreeIds = {} PROVE FALSE
    OBVIOUS
  <1> DEFINE f == [i \in Floating |-> CHOOSE m \in Slaves : HoldsId(m, i)]
  <1>1. \A i \in Floating : lcore_cfg[i] = 1
    BY FloatingApart DEF TypeOK, FreeIds
  <1>2. \A i \in Floating : f[i] \in Slaves /\ HoldsId(f[i], i)
    BY <1>1 DEF IdInv, IdTaken
  <1>3. \A i \in Floating : ~HoldsId(l, i)
    BY DEF HoldsId, OwnsId, Orphan
  <1>4. \A m \in Slaves : \A i, j \in Floating :
           HoldsId(m, i) /\ HoldsId(m, j) => i = j
    BY DEF HoldsId, OwnsId, Orphan
  <1>5. f \in Injection(Floating, Slaves \ {l})
    <2> HIDE DEF f
    <2>1. f \in [Floating -> Slaves \ {l}]
      BY <1>2, <1>3 DEF f
    <2>2. \A i, j \in Floating : f[i] = f[j] => i = j
      BY <1>2, <1>4
    <2> QED
      BY <2>1, <2>2 DEF Injection, IsInjective
  <1>6. IsFiniteSet(Slaves \ {l}) /\ Cardinality(Slaves \ {l}) = Cardinality(Slaves) - 1
    BY FloatingApart, FS_RemoveElement
  <1>7. Cardinality(Floating) <= Cardinality(Slaves \ {l})
    BY <1>5, <1>6, FS_Injection
  <1>8. Cardinality(Floating) \in Nat /\ Cardinality(Slaves) \in Nat
    BY FloatingApart, FS_CardinalityType
  <1> QED
    BY <1>6, <1>7, <1>8 DEF IdsSuffice

\* At the start only the pinned lcores are taken.
LEMMA InitIds == Init => IdInv
  <1> SUFFICES ASSUME Init PROVE IdInv
    OBVIOUS
  <1>1. \A l \in Slaves, i \in Floating : ~HoldsId(l, i)
    BY DEF Init, HoldsId, OwnsId, Orphan
  <1>2. IdRange
    BY ConstantsAssumption DEF Init, IdRange, OwnsId, Mapped, Lcores, Enabled
  <1>3. IdTaken
    BY <1>1, FloatingApart DEF Init, IdTaken
  <1> QED
    BY <1>1, <1>2, <1>3 DEF IdInv, IdHeldOnce

\* A slave takes a free id with one compare-and-set, puts it on record before it
\* can die, and gives it back when it leaves.
LEMMA SlaveIds ==
    ASSUME TypeOK, SupervisionInv, IdInv, IdsSuffice,
           NEW l \in Slaves, SlaveStep(l)
    PROVE  IdInv'
  <1> USE DEF TypeOK, rings, resources, masterVars, threadVars, environment, ids
  <1>w. spc[l] # "none" => tpc[l] = "waitpid"
    BY DEF SupervisionInv, WaitInv
  <1>1. CASE SlavePickId(l)
    <2>1. PICK i \in FreeIds : sid' = [sid EXCEPT ![l] = i]
      BY <1>1 DEF SlavePickId
    <2>2. i \in Floating
      BY <2>1, FreeIdsFloat
    <2>3. \A m \in Slaves, j \in Floating : HoldsId(m, j)' <=> HoldsId(m, j)
      BY <1>1, <2>1 DEF SlavePickId, HoldsId, OwnsId, Orphan
    <2>4. IdRange'
      BY <1>1, <2>1, <2>2 DEF SlavePickId, IdInv, IdRange, OwnsId, Mapped
    <2>5. IdTaken' /\ IdHeldOnce'
      BY <1>1, <2>3 DEF SlavePickId, IdInv, IdTaken, IdHeldOnce
    <2> QED
      BY <2>4, <2>5 DEF IdInv
  <1>2. CASE SlaveNoId(l)
    BY <1>2, IdLeft DEF SlaveNoId
  <1>3. CASE SlaveCas(l)
    <2>1. CASE lcore_cfg[sid[l]] # 0
      BY <1>3, <2>1, SameHolders DEF SlaveCas, OwnsId, Orphan, Mapped
    <2>2. CASE lcore_cfg[sid[l]] = 0
      <3> DEFINE i == sid[l]
      <3>1. i \in Floating /\ spc[l] = "cas"
        BY <1>3 DEF SlaveCas, IdInv, IdRange
      <3>2. /\ lcore_cfg' = [lcore_cfg EXCEPT ![i] = 1]
            /\ spc' = [spc EXCEPT ![l] = "map"]
            /\ UNCHANGED <<mapping_id, sid, tpc, mpc, mcur>>
        BY <1>3, <2>2 DEF SlaveCas
      <3>3. \A m \in Slaves : ~HoldsId(m, i)
        BY <2>2, <3>1 DEF IdInv, IdTaken
      <3>4. \A m \in Slaves, j \in Floating :
               HoldsId(m, j)' <=> HoldsId(m, j) \/ (m = l /\ j = i)
        BY <3>1, <3>2 DEF HoldsId, OwnsId, Orphan
      <3>5. IdRange'
        BY <3>1, <3>2, FloatingApart DEF IdInv, IdRange, OwnsId, Mapped
      <3> HIDE DEF i
      <3>6. IdTaken'
        BY <3>1, <3>2, <3>4, FloatingApart DEF IdInv, IdTaken
      <3>7. IdHeldOnce'
        <4> SUFFICES ASSUME NEW k \in Slaves, NEW m \in Slaves, NEW j \in Floating,
                            HoldsId(k, j)', HoldsId(m, j)'
                     PROVE  k = m
          BY DEF IdHeldOnce
        <4>1. HoldsId(k, j) \/ (k = l /\ j = i)
          BY <3>4
        <4>2. HoldsId(m, j) \/ (m = l /\ j = i)
          BY <3>4
        <4> QED
          BY <3>3, <4>1, <4>2 DEF IdInv, IdHeldOnce
      <3> QED
        BY <3>5, <3>6, <3>7 DEF IdInv
    <2> QED
      BY <2>1, <2>2
  <1>4. CASE SlaveMap(l)
    <2>1. /\ mapping_id' = [mapping_id EXCEPT ![l] = sid[l]]
          /\ spc' = [spc EXCEPT ![l] = "request"] /\ spc[l] = "map"
          /\ UNCHANGED <<lcore_cfg, sid, tpc, mpc, mcur>>
      BY <1>4 DEF SlaveMap
    <2>2. \A m \in Slaves, j \in Floating : HoldsId(m, j)' <=> HoldsId(m, j)
      BY <2>1, SlaveRange DEF HoldsId, OwnsId, Orphan
    <2>3. IdRange'
      BY <2>1, SlaveRange DEF IdInv, IdRange, OwnsId, Mapped
    <2>4. IdTaken' /\ IdHeldOnce'
      BY <2>1, <2>2 DEF IdInv, IdTaken, IdHeldOnce
    <2> QED
      BY <2>3, <2>4 DEF IdInv
  <1>5. CASE SlaveRequest(l)
    BY <1>5, SameHolders DEF SlaveRequest, OwnsId, Orphan, Mapped
  <1>6. CASE SlaveGetCfg(l)
    BY <1>6, SameHolders DEF SlaveGetCfg, OwnsId, Orphan, Mapped
  <1>7. CASE SlaveEngine(l)
    BY <1>7, SameHolders DEF SlaveEngine, OwnsId, Orphan, Mapped
  <1>8. CASE SlaveFree(l)
    <2> DEFINE i == sid[l]
    <2>1. i \in Floating /\ spc[l] = "free" /\ HoldsId(l, i)
      BY <1>8 DEF SlaveFree, IdInv, IdRange, OwnsId, HoldsId
    <2>2. /\ lcore_cfg' = [lcore_cfg EXCEPT ![i] = 0]
          /\ spc' = [spc EXCEPT ![l] = "unmap"]
          /\ UNCHANGED <<mapping_id, sid, tpc, mpc, mcur>>
      BY <1>8, <2>1 DEF SlaveFree, FreedId, Floating
    <2>3. \A m \in Slaves, j \in Floating :
             HoldsId(m, j)' <=> HoldsId(m, j) /\ m # l
      BY <2>1, <2>2 DEF HoldsId, OwnsId, Orphan
    <2>4. \A j \in Floating : HoldsId(l, j) => j = i
      BY <2>1 DEF HoldsId, Orphan
    <2>5. IdRange'
      BY <2>1, <2>2, FloatingApart DEF IdInv, IdRange, OwnsId, Mapped
    <2> HIDE DEF i
    <2>6. IdTaken'
      BY <2>1, <2>2, <2>3, <2>4, FloatingApart DEF IdInv, IdTaken, IdHeldOnce
    <2>7. IdHeldOnce'
      BY <2>3 DEF IdInv, IdHeldOnce
    <2> QED
      BY <2>5, <2>6, <2>7 DEF IdInv
  <1>9. CASE SlaveUnmap(l)
    <2>1. /\ mapping_id' = [mapping_id EXCEPT ![l] = None]
          /\ spc' = [spc EXCEPT ![l] = "none"] /\ spc[l] = "unmap"
          /\ UNCHANGED <<lcore_cfg, sid, tpc, mpc, mcur>>
      BY <1>9 DEF SlaveUnmap
    <2>2. \A m \in Slaves, j \in Floating : HoldsId(m, j)' <=> HoldsId(m, j)
      BY <2>1, SlaveRange DEF HoldsId, OwnsId, Orphan
    <2>3. IdRange'
      BY <2>1, SlaveRange DEF IdInv, IdRange, OwnsId, Mapped
    <2>4. IdTaken' /\ IdHeldOnce'
      BY <2>1, <2>2 DEF IdInv, IdTaken, IdHeldOnce
    <2> QED
      BY <2>3, <2>4 DEF IdInv
  <1> QED
    BY <1>1, <1>2, <1>3, <1>4, <1>5, <1>6, <1>7, <1>8, <1>9 DEF SlaveStep

\* The id of a slave that dies passes to mapping_id.
LEMMA ThreadIds ==
    ASSUME TypeOK, SupervisionInv, IdInv, IdFaults, NEW l \in Slaves,
           ThreadStep(l) \/ ThreadLock(l) \/ ThreadForkFails(l) \/ SlaveCrash(l)
    PROVE  IdInv'
  <1> USE DEF TypeOK, rings, resources, masterVars, slaveVars, environment, ids
  <1>1. CASE ThreadFork(l)
    BY <1>1, SameHolders DEF ThreadFork, OwnsId, Orphan, Mapped, SupervisionInv, WaitInv
  <1>2. CASE ThreadReap(l)
    BY <1>2, SameHolders DEF ThreadReap, OwnsId, Orphan, Mapped
  <1>3. CASE ThreadLookup(l)
    BY <1>3, SameHolders DEF ThreadLookup, OwnsId, Orphan, Mapped
  <1>4. CASE ThreadUpdate(l)
    BY <1>4, SameHolders DEF ThreadUpdate, OwnsId, Orphan, Mapped
  <1>5. CASE ThreadReturn(l)
    BY <1>5, SameHolders DEF ThreadReturn, OwnsId, Orphan, Mapped
  <1>6. CASE ThreadLock(l)
    BY <1>6, SameHolders DEF ThreadLock, OwnsId, Orphan, Mapped
  <1>7. CASE ThreadForkFails(l)
    BY <1>7, SameHolders DEF ThreadForkFails, OwnsId, Orphan, Mapped
  <1>8. CASE SlaveCrash(l)
    <2>1. /\ Mapped(l) /\ OwnsId(l) /\ tpc[l] = "waitpid" /\ spc[l] # "none"
          /\ spc' = [spc EXCEPT ![l] = "none"]
          /\ UNCHANGED <<lcore_cfg, mapping_id, sid, tpc, mpc, mcur>>
      BY <1>8 DEF SlaveCrash, IdFaults, Mapped, OwnsId, SupervisionInv, WaitInv, threadVars
    <2>2. ~(mpc \in {"drain", "launch"} /\ mcur = l)
      BY <2>1 DEF SupervisionInv, FlagInv, ResetInv
    <2>3. mapping_id[l] = sid[l] /\ sid[l] \in Floating
      BY <2>1 DEF IdInv, IdRange
    <2>4. \A m \in Slaves, j \in Floating : HoldsId(m, j)' <=> HoldsId(m, j)
      BY <2>1, <2>2, <2>3, FloatingApart DEF HoldsId, OwnsId, Orphan
    <2>5. IdRange'
      BY <2>1 DEF IdInv, IdRange, OwnsId, Mapped
    <2>6. IdTaken' /\ IdHeldOnce'
      BY <2>1, <2>4 DEF IdInv, IdTaken, IdHeldOnce
    <2> QED
      BY <2>5, <2>6 DEF IdInv
  <1> QED
    BY <1>1, <1>2, <1>3, <1>4, <1>5, <1>6, <1>7, <1>8 DEF ThreadStep

\* reset_lcore gives back the id on record; the entry of mapping_id that it clears
\* is the one of a floating lcore, which nobody reads.
LEMMA MasterIds ==
    ASSUME TypeOK, SupervisionInv, IdInv, MasterStep \/ MasterLock
    PROVE  IdInv'
  <1> USE DEF TypeOK, rings, resources, slaveVars, threadVars, environment, ids
  <1>1. CASE MasterPollNone
    BY <1>1, SameHolders DEF MasterPollNone, OwnsId, Orphan, Mapped
  <1>2. CASE MasterPollRequest
    BY <1>2, SameHolders DEF MasterPollRequest, OwnsId, Orphan, Mapped
  <1>3. CASE MasterScanNext
    BY <1>3, SameHolders DEF MasterScanNext, OwnsId, Orphan, Mapped
  <1>4. CASE MasterScanFails
    BY <1>4, SameHolders DEF MasterScanFails, OwnsId, Orphan, Mapped
  <1>5. CASE MasterAnswer
    BY <1>5, SameHolders DEF MasterAnswer, OwnsId, Orphan, Mapped
  <1>6. CASE MasterRecord
    BY <1>6, SameHolders DEF MasterRecord, OwnsId, Orphan, Mapped
  <1>7. CASE MasterCheckNone
    BY <1>7, SameHolders DEF MasterCheckNone, OwnsId, Orphan, Mapped
  <1>8. CASE MasterReset
    <2>1. PICK l \in Slaves : l = mcur
      BY <1>8 DEF MasterReset
    <2>2. /\ mpc = "check" /\ mpc' = "drain" /\ flags[l] = SLAVE_RECREATE_FLAG
          /\ UNCHANGED <<mcur, tpc, spc, sid>>
      BY <1>8, <2>1 DEF MasterReset
    <2>3. tpc[l] \in {"ret", "finished"} /\ spc[l] = "none"
      BY <2>2 DEF SupervisionInv, FlagInv, WaitInv
    <2>4. ~OwnsId(l) /\ ~Orphan(l)' /\ ~Mapped(l)
      BY <2>1, <2>2, <2>3 DEF OwnsId, Orphan, Mapped
    <2>5. CASE mapping_id[l] = None
      <3>1. UNCHANGED <<lcore_cfg, mapping_id>>
        BY <1>8, <2>1, <2>5 DEF MasterReset
      <3> QED
        BY <2>1, <2>2, <2>4, <2>5, <3>1, SameHolders DEF OwnsId, Orphan, Mapped
    <2>6. CASE mapping_id[l] # None
      <3> DEFINE i == mapping_id[l]
      <3>1. i \in Floating
        BY <2>6 DEF IdInv, IdRange
      <3>2. /\ lcore_cfg' = [lcore_cfg EXCEPT ![i] = 0]
            /\ mapping_id' = [mapping_id EXCEPT ![i] = None]
        BY <1>8, <2>1, <2>6, <3>1 DEF MasterReset, FreedId, Floating
      <3>3. \A m \in Slaves : mapping_id'[m] = mapping_id[m]
        BY <3>1, <3>2, FloatingApart
      <3>4. Orphan(l) /\ HoldsId(l, i)
        BY <2>2, <2>3, <2>6 DEF Orphan, HoldsId
      <3>5. \A m \in Slaves, j \in Floating :
               HoldsId(m, j)' <=> HoldsId(m, j) /\ m # l
        BY <2>1, <2>2, <2>4, <3>3 DEF HoldsId, OwnsId, Orphan
      <3>6. \A j \in Floating : HoldsId(l, j) => j = i
        BY <2>4 DEF HoldsId
      <3>7. IdRange'
        BY <2>2, <3>1, <3>2, <3>3, FloatingApart DEF IdInv, IdRange, OwnsId, Mapped
      <3> HIDE DEF i
      <3>8. IdTaken'
        BY <3>1, <3>2, <3>4, <3>5, <3>6, FloatingApart DEF IdInv, IdTaken, IdHeldOnce
      <3>9. IdHeldOnce'
        BY <3>5 DEF IdInv, IdHeldOnce
      <3> QED
        BY <3>7, <3>8, <3>9 DEF IdInv
    <2> QED
      BY <2>5, <2>6
  <1>9. CASE MasterDrain
    BY <1>9, SameHolders DEF MasterDrain, OwnsId, Orphan, Mapped
  <1>10. CASE MasterLaunch
    BY <1>10, SameHolders DEF MasterLaunch, OwnsId, Orphan, Mapped
  <1>11. CASE MasterClear
    BY <1>11, SameHolders DEF MasterClear, OwnsId, Orphan, Mapped
  <1>12. CASE MasterUnlock
    BY <1>12, SameHolders DEF MasterUnlock, OwnsId, Orphan, Mapped
  <1>13. CASE MasterLock
    BY <1>13, SameHolders DEF MasterLock, OwnsId, Orphan, Mapped
  <1> QED
    BY <1>1, <1>2, <1>3, <1>4, <1>5, <1>6, <1>7, <1>8, <1>9, <1>10, <1>11,
       <1>12, <1>13 DEF MasterStep

\* Every step keeps the ids apart.
LEMMA NextIds ==
    ASSUME TypeOK, SupervisionInv, IdInv, IdFaults, IdsSuffice, [Next]_vars
    PROVE  IdInv'
  <1>1. CASE UNCHANGED vars
    BY <1>1 DEF vars, IdInv, IdRange, IdTaken, IdHeldOnce, HoldsId, OwnsId, Orphan, Mapped
  <1>2. CASE MasterStep \/ MasterLock
    BY <1>2, MasterIds
  <1>3. ASSUME NEW l \in Slaves, SlaveStep(l) PROVE IdInv'
    BY <1>3, SlaveIds
  <1>4. ASSUME NEW l \in Slaves,
               ThreadStep(l) \/ ThreadLock(l) \/ ThreadForkFails(l) \/ SlaveCrash(l)
        PROVE  IdInv'
    BY <1>4, ThreadIds
  <1> QED
    BY <1>1, <1>2, <1>3, <1>4 DEF Next

\* The invariant of the ids, for deaths that leave the id on record.
THEOREM IdsInductive ==
    ASSUME IdFaults, IdsSuffice
    PROVE  Spec => [](TypeOK /\ SupervisionInv /\ IdInv)
  <1>1. Init => IdInv
    BY InitIds
  <1>2. TypeOK /\ SupervisionInv /\ IdInv /\ [Next]_vars => IdInv'
    BY NextIds
  <1> QED
    BY <1>1, <1>2, Supervision, PTL DEF Spec

\* flib_assign_lcore_id: two live slaves never work under the same lcore id, when
\* slaves die only between slave_request and the packet loop and there are ids
\* enough.
THEOREM IdsAreUnique ==
    ASSUME IdFaults, IdsSuffice
    PROVE  Spec => []IdUnique
  <1>1. TypeOK /\ SupervisionInv /\ IdInv => IdUnique
    BY DEF IdInv, IdRange, IdHeldOnce, HoldsId, IdUnique
  <1> QED
    BY <1>1, IdsInductive, PTL

\* flib_free_lcore_id and reset_lcore: no id is lost, under the same assumption.
THEOREM IdsAreAccounted ==
    ASSUME IdFaults, IdsSuffice
    PROVE  Spec => []IdAccounted
  <1>1. TypeOK /\ SupervisionInv /\ IdInv => IdAccounted
    <2> SUFFICES ASSUME TypeOK, IdInv, NEW i \in Lcores \ Enabled, lcore_cfg[i] = 1
                 PROVE  \E l \in Slaves : \/ OwnsId(l) /\ sid[l] = i
                                          \/ spc[l] = "none" /\ mapping_id[l] = i
      BY DEF IdAccounted
    <2>1. i \in Floating
      BY DEF IdInv, IdRange, Floating
    <2> QED
      BY <2>1 DEF IdInv, IdTaken, HoldsId, Orphan
  <1> QED
    BY <1>1, IdsInductive, PTL

-----------------------------------------------------------------------------
(* Configurations.                                                           *)

\* Slaves die only once main_set_lcore_cfg has recorded their configuration and
\* never leave on their own account; and no config id is a floating lcore id, as
\* reset_lcore clears proc_config at the floating id of the dead slave.
ConfigFaults ==
    /\ SettledOnly
    /\ CrashPoints \subseteq {"engine", "running"}
    /\ BadConfigs = {}
    /\ Configs \cap Floating = {}

\* The master is about to record what it has answered to l.
Recording(l) == mpc = "record" /\ mcur = l

\* The lcore l has a configuration: its slave has got it or finds it in its ring,
\* or is dead and slave_exit_cb has yet to release it.
Holding(l) ==
    \/ tpc[l] = "waitpid" /\ (spc[l] = "none" \/ Configured(l) \/ ring0[l] # <<>>)
    \/ tpc[l] \in {"notify", "lock", "update"}

\* Only a live slave is answered, and stays alive until the answer is recorded.
AskingInv ==
    \A l \in Slaves :
        /\ spc[l] \notin {"free", "unmap"}
        /\ spc[l] = "none" => InFlight(l) = 0
        /\ Recording(l) => Holding(l) /\ spc[l] # "none" /\ used[mproc] = 0
        /\ tpc[l] \in {"lock", "update"} => tcfg[l] = config_id[l]

\* What is held is used, by one lcore, and what is used is held.
UsedInv ==
    /\ \A l \in Slaves : Holding(l) =>
          /\ OnRecord(l) \in Configs
          /\ ~Recording(l) => used[config_id[l]] = 1
    /\ \A c \in Configs : used[c] = 1 =>
          \E l \in Slaves : Holding(l) /\ ~Recording(l) /\ config_id[l] = c

HeldByOne ==
    \A l, m \in Slaves :
        Holding(l) /\ Holding(m) /\ OnRecord(l) = OnRecord(m) => l = m

ConfigInv == AskingInv /\ UsedInv /\ HeldByOne

-----------------------------------------------------------------------------
\* Nothing in flight: no message in either ring and none in the master's hands.
LEMMA NothingInFlight ==
    ASSUME TypeOK, NEW l \in Slaves
    PROVE  /\ InFlight(l) = 0 => ring0[l] = <<>> /\ ring1[l] = <<>> /\ InHand(l) = 0
           /\ ring1[l] # <<>> \/ InHand(l) = 1 => InFlight(l) # 0
  <1> DEFINE a == Len(ring0[l])
  <1> DEFINE b == Len(ring1[l])
  <1>1. ring0[l] \in Seq(Configs) /\ ring1[l] \in Seq({CFG})
    BY DEF TypeOK
  <1>2. /\ a \in Nat /\ (ring0[l] # <<>> => a >= 1)
        /\ b \in Nat /\ (ring1[l] # <<>> => b >= 1)
    BY <1>1, RingLength
  <1>3. InHand(l) \in {0, 1}
    BY DEF InHand
  <1>4. InFlight(l) = b + a + InHand(l)
    BY DEF InFlight
  <1> DEFINE h == InHand(l)
  <1>t. a \in Nat /\ b \in Nat /\ h \in Nat
    BY <1>2, <1>3
  <1> HIDE DEF a, b, h
  <1>5. b + a + h = 0 => a = 0 /\ b = 0 /\ h = 0
    BY <1>t
  <1>6. b >= 1 \/ h = 1 => b + a + h # 0
    BY <1>t
  <1>7. a = 0 => ring0[l] = <<>>
    BY <1>2
  <1>8. b = 0 => ring1[l] = <<>>
    BY <1>2
  <1> QED
    BY <1>2, <1>4, <1>5, <1>6, <1>7, <1>8 DEF h

\* A step that hands out no configuration and releases none.
LEMMA SameConfigs ==
    ASSUME ConfigInv,
           \A c \in Configs : used'[c] = used[c],
           \A m \in Slaves : /\ config_id'[m] = config_id[m]
                             /\ Holding(m)' <=> Holding(m)
                             /\ Recording(m)' <=> Recording(m)
                             /\ OnRecord(m)' = OnRecord(m)
    PROVE  UsedInv' /\ HeldByOne'
  <1>1. \A m \in Slaves : ~Recording(m) => OnRecord(m) = config_id[m]
    BY DEF OnRecord, Recording
  <1>2. UsedInv'
    BY <1>1 DEF ConfigInv, UsedInv
  <1>3. HeldByOne'
    BY DEF ConfigInv, HeldByOne
  <1> QED
    BY <1>2, <1>3

\* Nothing is held at the start.
LEMMA InitConfigs == Init => ConfigInv
  <1> SUFFICES ASSUME Init PROVE ConfigInv
    OBVIOUS
  <1>1. \A l \in Slaves : ~Holding(l) /\ ~Recording(l) /\ InFlight(l) = 0
    BY DEF Init, Holding, Recording, InFlight, InHand
  <1>2. AskingInv
    BY <1>1 DEF Init, AskingInv
  <1>3. UsedInv
    BY <1>1, ConstantsAssumption DEF Init, UsedInv
  <1>4. HeldByOne
    BY <1>1 DEF HeldByOne
  <1> QED
    BY <1>2, <1>3, <1>4 DEF ConfigInv

\* The slave passes the configuration on from the ring to itself.
LEMMA SlaveConfigs ==
    ASSUME IndInv, IdInv, IdsSuffice, ConfigFaults, ConfigInv,
           NEW l \in Slaves, SlaveStep(l)
    PROVE  ConfigInv'
  <1> USE DEF IndInv, TypeOK, rings, resources, masterVars, threadVars, environment, ids
  <1>w. spc[l] # "none" => tpc[l] = "waitpid"
    BY DEF SupervisionInv, WaitInv
  <1>t. TypeOK /\ TypeOK' /\ ExchangeInv'
    BY SlaveStepType, SlaveExchange
  <1>a. ConfigInv => AskingInv
    BY DEF ConfigInv
  <1>1. CASE SlavePickId(l) \/ SlaveCas(l) \/ SlaveMap(l)
    <2>1. /\ spc[l] \in {"assign", "cas", "map"}
          /\ \E s \in {"assign", "cas", "map", "request"} : spc' = [spc EXCEPT ![l] = s]
          /\ UNCHANGED <<used, config_id, tcfg, ring0, ring1, mpc, mcur, mproc, tpc>>
      BY <1>1 DEF SlavePickId, SlaveCas, SlaveMap
    <2>2. \A m \in Slaves : /\ Holding(m)' <=> Holding(m)
                            /\ Recording(m)' <=> Recording(m)
                            /\ OnRecord(m)' = OnRecord(m)
                            /\ InFlight(m)' = InFlight(m)
      BY <2>1 DEF Holding, Configured, Recording, OnRecord, InFlight, InHand
    <2>3. UsedInv' /\ HeldByOne'
      BY <2>1, <2>2, SameConfigs
    <2>4. AskingInv'
      BY <1>a, <2>1, <2>2 DEF AskingInv
    <2> QED
      BY <2>3, <2>4 DEF ConfigInv
  <1>2. CASE SlaveNoId(l)
    BY <1>2, IdLeft DEF SlaveNoId
  <1>3. CASE SlaveRequest(l)
    <2>1. /\ spc[l] = "request" /\ spc' = [spc EXCEPT ![l] = "await"]
          /\ UNCHANGED <<used, config_id, tcfg, ring0, mpc, mcur, mproc, tpc>>
          /\ \A m \in Slaves \ {l} : ring1'[m] = ring1[m]
      BY <1>3 DEF SlaveRequest
    <2>2. \A m \in Slaves : /\ Holding(m)' <=> Holding(m)
                            /\ Recording(m)' <=> Recording(m)
                            /\ OnRecord(m)' = OnRecord(m)
      BY <2>1 DEF Holding, Configured, Recording, OnRecord
    <2>3. \A m \in Slaves \ {l} : InFlight(m)' = InFlight(m)
      BY <2>1 DEF InFlight, InHand
    <2>4. UsedInv' /\ HeldByOne'
      BY <2>1, <2>2, SameConfigs
    <2>5. AskingInv'
      BY <1>a, <2>1, <2>2, <2>3 DEF AskingInv
    <2> QED
      BY <2>4, <2>5 DEF ConfigInv
  <1>4. CASE SlaveGetCfg(l)
    <2>1. /\ spc[l] = "await" /\ spc' = [spc EXCEPT ![l] = "engine"] /\ ring0[l] # <<>>
          /\ UNCHANGED <<used, config_id, tcfg, ring1, mpc, mcur, mproc, tpc>>
          /\ \A m \in Slaves \ {l} : ring0'[m] = ring0[m]
      BY <1>4 DEF SlaveGetCfg
    <2>2. \A m \in Slaves : /\ Holding(m)' <=> Holding(m)
                            /\ Recording(m)' <=> Recording(m)
                            /\ OnRecord(m)' = OnRecord(m)
      BY <1>w, <2>1 DEF Holding, Configured, Recording, OnRecord
    <2>3. \A m \in Slaves \ {l} : InFlight(m)' = InFlight(m)
      BY <2>1 DEF InFlight, InHand
    <2>4. UsedInv' /\ HeldByOne'
      BY <2>1, <2>2, SameConfigs
    <2>5. AskingInv'
      BY <1>a, <2>1, <2>2, <2>3 DEF AskingInv
    <2> QED
      BY <2>4, <2>5 DEF ConfigInv
  <1>5. CASE SlaveEngine(l)
    <2>1. /\ spc[l] = "engine" /\ spc' = [spc EXCEPT ![l] = "running"]
          /\ UNCHANGED <<used, config_id, tcfg, ring0, ring1, mpc, mcur, mproc, tpc>>
      BY <1>5 DEF SlaveEngine, ConfigFaults
    <2>2. \A m \in Slaves : /\ Holding(m)' <=> Holding(m)
                            /\ Recording(m)' <=> Recording(m)
                            /\ OnRecord(m)' = OnRecord(m)
                            /\ InFlight(m)' = InFlight(m)
      BY <2>1 DEF Holding, Configured, Recording, OnRecord, InFlight, InHand
    <2>3. UsedInv' /\ HeldByOne'
      BY <2>1, <2>2, SameConfigs
    <2>4. AskingInv'
      BY <1>a, <2>1, <2>2 DEF AskingInv
    <2> QED
      BY <2>3, <2>4 DEF ConfigInv
  <1>6. CASE SlaveFree(l) \/ SlaveUnmap(l)
    BY <1>a, <1>6 DEF SlaveFree, SlaveUnmap, AskingInv
  <1> QED
    BY <1>1, <1>2, <1>3, <1>4, <1>5, <1>6 DEF SlaveStep

\* A death leaves the configuration to the thread, whose callback releases it.
LEMMA ThreadConfigs ==
    ASSUME IndInv, ConfigFaults, ConfigInv, NEW l \in Slaves,
           ThreadStep(l) \/ ThreadLock(l) \/ ThreadForkFails(l) \/ SlaveCrash(l)
    PROVE  ConfigInv'
  <1> USE DEF IndInv, TypeOK, rings, resources, masterVars, slaveVars, environment, ids
  <1>w. \A m \in Slaves : spc[m] # "none" => tpc[m] = "waitpid"
    BY DEF SupervisionInv, WaitInv
  <1>a. ConfigInv => AskingInv
    BY DEF ConfigInv
  <1>1. CASE ThreadFork(l)
    <2>1. /\ tpc[l] = "fork" /\ tpc' = [tpc EXCEPT ![l] = "waitpid"]
          /\ spc' = [spc EXCEPT ![l] = "assign"]
          /\ UNCHANGED <<used, config_id, tcfg, ring0, ring1, mpc, mcur, mproc>>
      BY <1>1 DEF ThreadFork
    <2>2. ring0[l] = <<>>
      BY <2>1, NothingInFlight DEF ExchangeInv, OneExchange
    <2>3. \A m \in Slaves : /\ Holding(m)' <=> Holding(m)
                            /\ Recording(m)' <=> Recording(m)
                            /\ OnRecord(m)' = OnRecord(m)
                            /\ InFlight(m)' = InFlight(m)
      BY <2>1, <2>2 DEF Holding, Configured, Recording, OnRecord, InFlight, InHand
    <2>4. UsedInv' /\ HeldByOne'
      BY <2>1, <2>3, SameConfigs
    <2>5. AskingInv'
      BY <1>a, <2>1, <2>3 DEF AskingInv
    <2> QED
      BY <2>4, <2>5 DEF ConfigInv
  <1>2. CASE ThreadReap(l) \/ ThreadLookup(l) \/ ThreadLock(l) \/ ThreadReturn(l)
                \/ ThreadForkFails(l)
    <2>1. /\ spc' = spc
          /\ \/ tpc[l] = "waitpid" /\ spc[l] = "none" /\ tpc' = [tpc EXCEPT ![l] = "notify"]
                  /\ tcfg' = tcfg
             \/ tpc[l] = "notify" /\ tpc' = [tpc EXCEPT ![l] = "lock"]
                  /\ tcfg' = [tcfg EXCEPT ![l] = config_id[l]]
             \/ tpc[l] = "lock" /\ tpc' = [tpc EXCEPT ![l] = "update"] /\ tcfg' = tcfg
             \/ tpc[l] = "ret" /\ tpc' = [tpc EXCEPT ![l] = "finished"] /\ tcfg' = tcfg
             \/ tpc[l] = "fork" /\ tpc' = [tpc EXCEPT ![l] = "failed"] /\ tcfg' = tcfg
          /\ UNCHANGED <<used, config_id, ring0, ring1, mpc, mcur, mproc>>
      BY <1>2 DEF ThreadReap, ThreadLookup, ThreadLock, ThreadReturn, ThreadForkFails
    <2>2. \A m \in Slaves : Holding(m)' <=> Holding(m)
      BY <2>1 DEF Holding, Configured
    <2>3. \A m \in Slaves : /\ Recording(m)' <=> Recording(m)
                            /\ OnRecord(m)' = OnRecord(m)
                            /\ InFlight(m)' = InFlight(m)
      BY <2>1 DEF Recording, OnRecord, InFlight, InHand
    <2>4. UsedInv' /\ HeldByOne'
      BY <2>1, <2>2, <2>3, SameConfigs
    <2>5. AskingInv'
      BY <1>a, <2>1, <2>2, <2>3 DEF AskingInv
    <2> QED
      BY <2>4, <2>5 DEF ConfigInv
  <1>3. CASE ThreadUpdate(l)
    <2>1. /\ tpc[l] = "update" /\ tpc' = [tpc EXCEPT ![l] = "ret"]
          /\ used' = [used EXCEPT ![tcfg[l]] = 0]
          /\ UNCHANGED <<config_id, tcfg, ring0, ring1, mpc, mcur, mproc, spc>>
      BY <1>3 DEF ThreadUpdate
    <2>2. spc[l] = "none" /\ Holding(l) /\ ~Recording(l) /\ tcfg[l] = config_id[l]
      BY <1>w, <1>a, <2>1 DEF Holding, AskingInv
    <2>3. \A m \in Slaves : Holding(m)' <=> Holding(m) /\ m # l
      BY <2>1 DEF Holding, Configured
    <2>4. \A m \in Slaves : /\ Recording(m)' <=> Recording(m)
                            /\ OnRecord(m)' = OnRecord(m)
                            /\ InFlight(m)' = InFlight(m)
      BY <2>1 DEF Recording, OnRecord, InFlight, InHand
    <2>5. \A m \in Slaves : ~Recording(m) => OnRecord(m) = config_id[m]
      BY DEF OnRecord, Recording
    <2>6. \A m \in Slaves : Holding(m) /\ ~Recording(m) /\ m # l =>
                                 config_id[m] # config_id[l]
      BY <2>2, <2>5 DEF ConfigInv, HeldByOne
    <2>7. \A m \in Slaves : Holding(m) => OnRecord(m) \in Configs
      BY DEF ConfigInv, UsedInv
    <2>8. config_id[l] \in Lcores
      OBVIOUS
    <2>9. \A c \in Lcores : used'[c] = IF c = config_id[l] THEN 0 ELSE used[c]
      BY <2>1, <2>2, <2>8
    <2>10. UsedInv'
      <3>1. \A m \in Slaves : Holding(m)' => OnRecord(m)' \in Configs
        BY <2>3, <2>4, <2>7
      <3>2. \A m \in Slaves : Holding(m)' /\ ~Recording(m)' => used'[config_id'[m]] = 1
        BY <2>1, <2>3, <2>4, <2>6, <2>9 DEF ConfigInv, UsedInv
      <3>3. ASSUME NEW c \in Configs, used'[c] = 1
            PROVE  \E m \in Slaves : Holding(m)' /\ ~Recording(m)' /\ config_id'[m] = c
        <4>1. c \in Lcores
          BY ConstantsAssumption
        <4>2. c # config_id[l] /\ used[c] = 1
          BY <2>9, <3>3, <4>1
        <4>3. PICK m \in Slaves : Holding(m) /\ ~Recording(m) /\ config_id[m] = c
          BY <4>2 DEF ConfigInv, UsedInv
        <4> QED
          BY <2>1, <2>3, <2>4, <4>2, <4>3
      <3> QED
        BY <3>1, <3>2, <3>3 DEF UsedInv
    <2>11. HeldByOne'
      BY <2>3, <2>4 DEF ConfigInv, HeldByOne
    <2>12. AskingInv'
      <3>1. \A m \in Slaves : Recording(m) => mproc \in Lcores /\ m # l
        BY <2>2, ConstantsAssumption DEF Recording
      <3> QED
        BY <1>a, <2>1, <2>2, <2>3, <2>4, <2>9, <3>1 DEF AskingInv
    <2> QED
      BY <2>10, <2>11, <2>12 DEF ConfigInv
  <1>4. CASE SlaveCrash(l)
    <2>1. /\ spc[l] \in {"engine", "running"} /\ spc' = [spc EXCEPT ![l] = "none"]
          /\ ~Recording(l)
          /\ UNCHANGED <<used, config_id, tcfg, ring0, ring1, mpc, mcur, mproc, tpc>>
      BY <1>4 DEF SlaveCrash, ConfigFaults, Settled, Recording, threadVars
    <2>2. \A m \in Slaves : /\ Holding(m)' <=> Holding(m)
                            /\ Recording(m)' <=> Recording(m)
                            /\ OnRecord(m)' = OnRecord(m)
                            /\ InFlight(m)' = InFlight(m)
      BY <1>w, <2>1 DEF Holding, Configured, Recording, OnRecord, InFlight, InHand
    <2>3. InFlight(l) = 0
      BY <2>1 DEF ExchangeInv, OneExchange
    <2>4. UsedInv' /\ HeldByOne'
      BY <2>1, <2>2, SameConfigs
    <2>5. AskingInv'
      BY <1>a, <2>1, <2>2, <2>3 DEF AskingInv
    <2> QED
      BY <2>4, <2>5 DEF ConfigInv
  <1> QED
    BY <1>1, <1>2, <1>3, <1>4 DEF ThreadStep

\* The master hands out a configuration that nobody holds, and what reset_lcore
\* clears is no configuration.
LEMMA MasterConfigs ==
    ASSUME IndInv, IdInv, ConfigFaults, ConfigInv, MasterStep \/ MasterLock
    PROVE  ConfigInv'
  <1> USE DEF IndInv, TypeOK, rings, resources, slaveVars, threadVars, environment, ids
  <1>w. \A m \in Slaves : spc[m] # "none" => tpc[m] = "waitpid"
    BY DEF SupervisionInv, WaitInv
  <1>a. ConfigInv => AskingInv
    BY DEF ConfigInv
  <1>1. CASE MasterPollNone \/ MasterScanNext \/ MasterCheckNone \/ MasterReset
                \/ MasterLaunch \/ MasterClear \/ MasterUnlock \/ MasterLock
    <2>1. /\ UNCHANGED <<config_id, tcfg, ring0, ring1, spc>>
          /\ mpc # "record" /\ mpc' # "record"
          /\ \A m \in Slaves : (mpc' = "scan" /\ mcur' = m) <=> (mpc = "scan" /\ mcur = m)
      BY <1>1 DEF MasterPollNone, MasterScanNext, MasterCheckNone, MasterReset,
                  MasterLaunch, MasterClear, MasterUnlock, MasterLock
    <2>2. \A c \in Configs : used'[c] = used[c]
      <3>1. CASE MasterReset
        <4>1. mcur \in Slaves /\ mapping_id[mcur] \in Floating \cup {None}
          BY <3>1 DEF MasterReset, IdInv, IdRange
        <4>2. CASE mapping_id[mcur] = None
          BY <3>1, <4>2 DEF MasterReset
        <4>3. CASE mapping_id[mcur] # None
          <5>1. used' = [used EXCEPT ![mapping_id[mcur]] = 0]
            BY <3>1, <4>3 DEF MasterReset
          <5>2. mapping_id[mcur] \notin Configs
            BY <4>1, <4>3 DEF ConfigFaults
          <5> QED
            BY <5>1, <5>2, ConstantsAssumption
        <4> QED
          BY <4>2, <4>3
      <3>2. CASE ~MasterReset
        BY <1>1, <3>2 DEF MasterPollNone, MasterScanNext, MasterCheckNone,
                  MasterLaunch, MasterClear, MasterUnlock, MasterLock
      <3> QED
        BY <3>1, <3>2
    <2>3. \A m \in Slaves : \/ tpc'[m] = tpc[m]
                            \/ /\ tpc[m] \in {"finished", "failed"} /\ tpc'[m] = "fork"
      BY <1>1 DEF MasterPollNone, MasterScanNext, MasterCheckNone, MasterReset,
                  MasterLaunch, MasterClear, MasterUnlock, MasterLock
    <2>4. \A m \in Slaves : Holding(m)' <=> Holding(m)
      BY <2>1, <2>3 DEF Holding, Configured
    <2>5. \A m \in Slaves : /\ Recording(m)' <=> Recording(m)
                            /\ OnRecord(m)' = OnRecord(m)
                            /\ InFlight(m)' = InFlight(m)
      BY <2>1 DEF Recording, OnRecord, InFlight, InHand
    <2>6. UsedInv' /\ HeldByOne'
      BY <2>1, <2>2, <2>4, <2>5, SameConfigs
    <2>7. AskingInv'
      BY <1>a, <2>1, <2>3, <2>4, <2>5 DEF AskingInv, Recording
    <2> QED
      BY <2>6, <2>7 DEF ConfigInv
  <1>2. CASE MasterPollRequest \/ MasterScanFails
    <2>1. /\ UNCHANGED <<used, config_id, tcfg, ring0, spc, tpc>>
          /\ mcur \in Slaves /\ (ring1[mcur] # <<>> \/ InHand(mcur) = 1)
          /\ mpc # "record" /\ mpc' # "record"
      BY <1>2 DEF MasterPollRequest, MasterScanFails, InHand
    <2>2. \A m \in Slaves \ {mcur} : InFlight(m)' = InFlight(m)
      BY <1>2 DEF MasterPollRequest, MasterScanFails, InFlight, InHand
    <2>3. spc[mcur] # "none"
      BY <1>a, <2>1, NothingInFlight DEF AskingInv
    <2>4. \A m \in Slaves : /\ Holding(m)' <=> Holding(m)
                            /\ Recording(m)' <=> Recording(m)
                            /\ OnRecord(m)' = OnRecord(m)
      BY <2>1 DEF Holding, Configured, Recording, OnRecord
    <2>5. UsedInv' /\ HeldByOne'
      BY <2>1, <2>4, SameConfigs
    <2>6. AskingInv'
      BY <1>a, <2>1, <2>2, <2>3, <2>4 DEF AskingInv, Recording
    <2> QED
      BY <2>5, <2>6 DEF ConfigInv
  <1>3. CASE MasterAnswer
    <2>1. PICK l \in Slaves : l = mcur
      BY <1>3 DEF MasterAnswer
    <2>2. /\ mpc = "scan" /\ mpc' = "record" /\ mproc \in Configs /\ used[mproc] = 0
          /\ ring0' = [ring0 EXCEPT ![l] = Append(@, mproc)]
          /\ UNCHANGED <<used, config_id, tcfg, ring1, mcur, mproc, spc, tpc>>
      BY <1>3, <2>1 DEF MasterAnswer
    <2>3. ring0[l] = <<>> /\ spc[l] \in {"none", "await"}
      BY <2>1, <2>2, RoomForOne
    <2>4. InHand(l) = 1
      BY <2>1, <2>2 DEF InHand
    <2>5. spc[l] = "await" /\ tpc[l] = "waitpid"
      BY <1>w, <1>a, <2>3, <2>4, NothingInFlight DEF AskingInv
    <2>6. ring0'[l] # <<>> /\ \A m \in Slaves \ {l} : ring0'[m] = ring0[m]
      BY <2>2, <2>3
    <2>7. ~Holding(l) /\ Holding(l)' /\ Recording(l)' /\ OnRecord(l)' = mproc
      BY <2>1, <2>2, <2>3, <2>5, <2>6 DEF Holding, Configured, Recording, OnRecord
    <2>8. \A m \in Slaves \ {l} : /\ Holding(m)' <=> Holding(m)
                                  /\ OnRecord(m)' = config_id[m]
                                  /\ InFlight(m)' = InFlight(m)
      BY <2>1, <2>2, <2>6 DEF Holding, Configured, OnRecord, InFlight, InHand
    <2>9. \A m \in Slaves : ~Recording(m) /\ OnRecord(m) = config_id[m]
      BY <2>2 DEF Recording, OnRecord
    <2>10. \A m \in Slaves \ {l} : ~Recording(m)'
      BY <2>1, <2>2 DEF Recording
    <2>11. UsedInv'
      <3>1. ASSUME NEW m \in Slaves, Holding(m)' PROVE OnRecord(m)' \in Configs
        <4>1. CASE m = l
          BY <2>2, <2>7, <4>1
        <4>2. CASE m # l
          <5>1. Holding(m) /\ OnRecord(m)' = OnRecord(m)
            BY <2>8, <2>9, <3>1, <4>2
          <5>2. OnRecord(m) \in Configs
            BY <5>1 DEF ConfigInv, UsedInv
          <5> QED
            BY <5>1, <5>2
        <4> QED
          BY <4>1, <4>2
      <3>2. \A m \in Slaves : Holding(m)' /\ ~Recording(m)' => used'[config_id'[m]] = 1
        BY <2>2, <2>7, <2>8, <2>9 DEF ConfigInv, UsedInv
      <3>3. ASSUME NEW c \in Configs, used'[c] = 1
            PROVE  \E m \in Slaves : Holding(m)' /\ ~Recording(m)' /\ config_id'[m] = c
        <4>1. PICK m \in Slaves : Holding(m) /\ ~Recording(m) /\ config_id[m] = c
          BY <2>2, <3>3 DEF ConfigInv, UsedInv
        <4>2. m # l
          BY <2>7, <4>1
        <4> QED
          BY <2>2, <2>8, <2>10, <4>1, <4>2
      <3> QED
        BY <3>1, <3>2, <3>3 DEF UsedInv
    <2>12. HeldByOne'
      <3>1. \A m \in Slaves \ {l} : Holding(m)' => OnRecord(m)' # mproc
        BY <2>2, <2>8, <2>9 DEF ConfigInv, UsedInv
      <3> QED
        BY <2>7, <2>8, <2>9, <3>1 DEF ConfigInv, HeldByOne
    <2>13. AskingInv'
      BY <1>a, <2>2, <2>5, <2>7, <2>8, <2>10 DEF AskingInv
    <2> QED
      BY <2>11, <2>12, <2>13 DEF ConfigInv
  <1>4. CASE MasterRecord
    <2>1. PICK l \in Slaves : l = mcur
      BY <1>4 DEF MasterRecord
    <2>2. /\ mpc = "record" /\ mpc' = "poll" /\ mproc \in Configs
          /\ used' = [used EXCEPT ![mproc] = 1]
          /\ config_id' = [config_id EXCEPT ![l] = mproc]
          /\ UNCHANGED <<tcfg, ring0, ring1, mproc, spc, tpc>>
      BY <1>4, <2>1 DEF MasterRecord
    <2>3. Recording(l) /\ Holding(l) /\ spc[l] # "none" /\ OnRecord(l) = mproc
      BY <1>a, <2>1, <2>2 DEF Recording, OnRecord, AskingInv
    <2>4. \A m \in Slaves : /\ Holding(m)' <=> Holding(m)
                            /\ ~Recording(m)'
                            /\ OnRecord(m)' = OnRecord(m)
                            /\ InFlight(m)' = InFlight(m)
      BY <2>1, <2>2 DEF Holding, Configured, Recording, OnRecord, InFlight, InHand
    <2>5. \A m \in Slaves \ {l} : /\ ~Recording(m) /\ OnRecord(m) = config_id[m]
                                  /\ config_id'[m] = config_id[m]
      BY <2>1, <2>2 DEF Recording, OnRecord
    <2>6. \A c \in Configs : used'[c] = IF c = mproc THEN 1 ELSE used[c]
      BY <2>2, ConstantsAssumption
    <2>7. config_id'[l] = mproc
      BY <2>2
    <2>8. UsedInv'
      BY <2>2, <2>3, <2>4, <2>5, <2>6, <2>7 DEF ConfigInv, UsedInv
    <2>9. HeldByOne'
      BY <2>4 DEF ConfigInv, HeldByOne
    <2>10. tpc[l] = "waitpid"
      BY <1>w, <2>3
    <2>11. AskingInv'
      BY <1>a, <2>2, <2>4, <2>5, <2>10 DEF AskingInv
    <2> QED
      BY <2>8, <2>9, <2>11 DEF ConfigInv
  <1>5. CASE MasterDrain
    <2>1. PICK l \in Slaves : l = mcur
      BY <1>5 DEF MasterDrain
    <2>2. /\ mpc = "drain" /\ mpc' = "launch"
          /\ ring0' = [ring0 EXCEPT ![l] = <<>>] /\ ring1' = [ring1 EXCEPT ![l] = <<>>]
          /\ UNCHANGED <<used, config_id, tcfg, mcur, mproc, spc, tpc>>
      BY <1>5, <2>1 DEF MasterDrain
    <2>3. tpc[l] \in {"ret", "finished"}
      BY <2>1, <2>2 DEF SupervisionInv, FlagInv, ResetInv
    <2>4. \A m \in Slaves : /\ Holding(m)' <=> Holding(m)
                            /\ Recording(m)' <=> Recording(m)
                            /\ OnRecord(m)' = OnRecord(m)
      BY <2>2, <2>3 DEF Holding, Configured, Recording, OnRecord
    <2>5. \A m \in Slaves : InFlight(m)' = IF m = l THEN 0 ELSE InFlight(m)
      BY <2>2 DEF InFlight, InHand
    <2>6. UsedInv' /\ HeldByOne'
      BY <2>2, <2>4, SameConfigs
    <2>7. AskingInv'
      BY <1>a, <2>2, <2>4, <2>5 DEF AskingInv
    <2> QED
      BY <2>6, <2>7 DEF ConfigInv
  <1> QED
    BY <1>1, <1>2, <1>3, <1>4, <1>5 DEF MasterStep

\* Every step keeps the configurations apart.
LEMMA NextConfigs ==
    ASSUME IndInv, IdInv, IdsSuffice, ConfigFaults, ConfigInv, [Next]_vars
    PROVE  ConfigInv'
  <1>1. CASE UNCHANGED vars
    <2>1. \A m \in Slaves : /\ Holding(m)' <=> Holding(m)
                            /\ Recording(m)' <=> Recording(m)
                            /\ OnRecord(m)' = OnRecord(m)
                            /\ InFlight(m)' = InFlight(m)
      BY <1>1 DEF vars, Holding, Configured, Recording, OnRecord, InFlight, InHand
    <2>2. UsedInv' /\ HeldByOne'
      BY <1>1, <2>1, SameConfigs DEF vars
    <2>3. AskingInv'
      BY <1>1, <2>1 DEF vars, ConfigInv, AskingInv
    <2> QED
      BY <2>2, <2>3 DEF ConfigInv
  <1>2. CASE MasterStep \/ MasterLock
    BY <1>2, MasterConfigs
  <1>3. ASSUME NEW l \in Slaves, SlaveStep(l) PROVE ConfigInv'
    BY <1>3, SlaveConfigs
  <1>4. ASSUME NEW l \in Slaves,
               ThreadStep(l) \/ ThreadLock(l) \/ ThreadForkFails(l) \/ SlaveCrash(l)
        PROVE  ConfigInv'
    BY <1>4, ThreadConfigs
  <1> QED
    BY <1>1, <1>2, <1>3, <1>4 DEF Next

\* The invariant of the configurations, for deaths that the master has settled.
THEOREM ConfigsInductive ==
    ASSUME ConfigFaults, IdsSuffice
    PROVE  Spec => [](IndInv /\ ConfigInv)
  <1>0. IdFaults
    BY DEF ConfigFaults, IdFaults
  <1>1. Init => ConfigInv
    BY InitConfigs
  <1>2. IndInv /\ IdInv /\ ConfigInv /\ [Next]_vars => ConfigInv'
    BY NextConfigs
  <1>3. Spec => []IdInv
    <2>1. TypeOK /\ SupervisionInv /\ IdInv => IdInv
      OBVIOUS
    <2> QED
      BY <1>0, <2>1, IdsInductive, PTL
  <1> QED
    BY <1>1, <1>2, <1>3, Inductive, PTL DEF Spec

\* main_set_lcore_cfg, slave_exit_cb and reset_lcore: two live slaves never run the
\* same configuration, when slaves die only in the packet loop or on the way into
\* it, with their configuration recorded, and no config id is a floating lcore id.
THEOREM ConfigsAreExclusive ==
    ASSUME ConfigFaults, IdsSuffice
    PROVE  Spec => []ConfigExclusive
  <1>1. IndInv /\ ConfigInv => ConfigExclusive
    <2> SUFFICES ASSUME IndInv, ConfigInv, NEW l \in Slaves, NEW m \in Slaves,
                        Configured(l), Configured(m), sconf[l] = sconf[m]
                 PROVE  l = m
      BY DEF ConfigExclusive
    <2>1. OnRecord(l) = sconf[l] /\ OnRecord(m) = sconf[m]
      BY DEF IndInv, RecordInv
    <2>2. Holding(l) /\ Holding(m)
      BY DEF IndInv, SupervisionInv, WaitInv, Holding, Configured
    <2> QED
      BY <2>1, <2>2 DEF ConfigInv, HeldByOne
  <1> QED
    BY <1>1, ConfigsInductive, PTL

\* "used: ==1 if a proc used this cfg": under the same assumption a configuration
\* that is marked used is never lost.
THEOREM UsedConfigsAreHeld ==
    ASSUME ConfigFaults, IdsSuffice
    PROVE  Spec => []UsedIsHeld
  <1>1. IndInv /\ ConfigInv => UsedIsHeld
    BY DEF ConfigInv, UsedInv, Holding, UsedIsHeld
  <1> QED
    BY <1>1, ConfigsInductive, PTL

=============================================================================
