-------------------------- MODULE SupervisorProofs --------------------------
(***************************************************************************)
(* SlaveControl implements Supervisor, for every core mask, configuration  *)
(* file and fault pattern: each step of the master, of a thread or of a    *)
(* slave is a step of the supervisor for one lcore, or changes nothing     *)
(* that the supervisor sees.  The argument rests on IndInv.                *)
(***************************************************************************)
EXTENDS SlaveControlProofs

-----------------------------------------------------------------------------
(* What the supervisor sees of an lcore.                                     *)

\* All that the mapping looks at for lcore m.
View(m) == <<tpc[m], spc[m], flags[m], ring0[m], ring1[m], sconf[m], InHand(m), OnRecord(m)>>

\* The supervisor sees no change of lcore m.
Same(m) ==
    /\ PhaseOf(m)' = PhaseOf(m)
    /\ DialogOf(m)' = DialogOf(m)
    /\ GivenTo(m)' = GivenTo(m)
    /\ OnRecord(m)' = OnRecord(m)

\* The steps of the supervisor for lcore l, as the mapping shows them.
PhaseStep(l, from, to) ==
    /\ PhaseOf(l) = from /\ PhaseOf(l)' = to
    /\ DialogOf(l)' = DialogOf(l) /\ GivenTo(l)' = GivenTo(l) /\ OnRecord(l)' = OnRecord(l)

ExitStep(l) ==
    /\ PhaseOf(l) = "alive" /\ PhaseOf(l)' = "exited"
    /\ DialogOf(l)' = (IF DialogOf(l) = "asked" THEN "orphan" ELSE "idle")
    /\ GivenTo(l)' = None /\ OnRecord(l)' = OnRecord(l)

DialogStep(l, from, to) ==
    /\ PhaseOf(l) = "alive" /\ PhaseOf(l)' = PhaseOf(l)
    /\ DialogOf(l) = from /\ DialogOf(l)' = to
    /\ GivenTo(l)' = GivenTo(l) /\ OnRecord(l)' = OnRecord(l)

AnswerStep(l, c) ==
    /\ PhaseOf(l) = "alive" /\ PhaseOf(l)' = PhaseOf(l)
    /\ DialogOf(l) = "asked" /\ DialogOf(l)' = "answered"
    /\ GivenTo(l)' = c /\ OnRecord(l)' = c

OrphanStep(l) ==
    /\ PhaseOf(l)' = PhaseOf(l) /\ GivenTo(l)' = GivenTo(l)
    /\ DialogOf(l) = "orphan" /\ DialogOf(l)' = "idle"
    /\ OnRecord(l)' = OnRecord(l) \/ \E c \in Configs : OnRecord(l)' = c

SupervisorStep(l) ==
    \/ PhaseStep(l, "starting", "alive") \/ PhaseStep(l, "starting", "failed")
    \/ PhaseStep(l, "exited", "noticed")
    \/ PhaseStep(l, "noticed", "starting") /\ DialogOf(l) = "idle"
    \/ ExitStep(l)
    \/ DialogStep(l, "idle", "asked") \/ DialogStep(l, "asked", "refused")
    \/ DialogStep(l, "answered", "configured")
    \/ \E c \in Configs : AnswerStep(l, c)
    \/ OrphanStep(l)
    \/ Same(l)

\* What is not looked at may change.
LEMMA ViewKept ==
    ASSUME NEW m, View(m)' = View(m)
    PROVE  Same(m)
<1>1. /\ tpc'[m] = tpc[m] /\ spc'[m] = spc[m] /\ flags'[m] = flags[m]
      /\ ring0'[m] = ring0[m] /\ ring1'[m] = ring1[m] /\ sconf'[m] = sconf[m]
      /\ InHand(m)' = InHand(m) /\ OnRecord(m)' = OnRecord(m)
  BY DEF View
<1>2. PhaseOf(m)' = PhaseOf(m)
  BY <1>1 DEF PhaseOf
<1>3. Pending(m)' <=> Pending(m)
  BY <1>1 DEF Pending
<1>4. Configured(m)' <=> Configured(m)
  BY <1>1 DEF Configured
<1>5. DialogOf(m)' = DialogOf(m)
  BY <1>1, <1>3, <1>4 DEF DialogOf
<1>6. GivenTo(m)' = GivenTo(m)
  BY <1>1, <1>4, <1>5 DEF GivenTo
<1>. QED  BY <1>1, <1>2, <1>5, <1>6 DEF Same

\* Steps for one lcore are steps of the supervisor.
LEMMA Lifted ==
    ASSUME NEW l \in Slaves, SupervisorStep(l), \A m \in Slaves \ {l} : Same(m)
    PROVE  [Supervised!Next]_(Supervised!vars)
<1>. DEFINE phase == [m \in Slaves |-> PhaseOf(m)]
            dialog == [m \in Slaves |-> DialogOf(m)]
            given == [m \in Slaves |-> GivenTo(m)]
            record == [m \in Slaves |-> OnRecord(m)]
<1>1. /\ phase' = [phase EXCEPT ![l] = PhaseOf(l)']
      /\ dialog' = [dialog EXCEPT ![l] = DialogOf(l)']
      /\ given' = [given EXCEPT ![l] = GivenTo(l)']
      /\ record' = [record EXCEPT ![l] = OnRecord(l)']
  BY DEF Same
<1>2. /\ PhaseOf(l)' = PhaseOf(l) => phase' = phase
      /\ DialogOf(l)' = DialogOf(l) => dialog' = dialog
      /\ GivenTo(l)' = GivenTo(l) => given' = given
      /\ OnRecord(l)' = OnRecord(l) => record' = record
  BY DEF Same
<1>3. /\ phase[l] = PhaseOf(l) /\ dialog[l] = DialogOf(l) /\ given[l] = GivenTo(l)
      /\ record[l] = OnRecord(l)
  OBVIOUS
<1>. HIDE DEF phase, dialog, given, record
<1>4. CASE PhaseStep(l, "starting", "alive")
  <2>1. Supervised!Fork(l)
    BY <1>1, <1>2, <1>3, <1>4
       DEF PhaseStep, Supervised!Fork, Supervised!Moves, phase, dialog, given, record
  <2>. QED  BY <2>1 DEF Supervised!Next
<1>5. CASE PhaseStep(l, "starting", "failed")
  <2>1. Supervised!ForkFails(l)
    BY <1>1, <1>2, <1>3, <1>5
       DEF PhaseStep, Supervised!ForkFails, Supervised!Moves, phase, dialog, given, record
  <2>. QED  BY <2>1 DEF Supervised!Next
<1>6. CASE PhaseStep(l, "exited", "noticed")
  <2>1. Supervised!Notice(l)
    BY <1>1, <1>2, <1>3, <1>6
       DEF PhaseStep, Supervised!Notice, Supervised!Moves, phase, dialog, given, record
  <2>. QED  BY <2>1 DEF Supervised!Next
<1>7. CASE PhaseStep(l, "noticed", "starting") /\ DialogOf(l) = "idle"
  <2>1. Supervised!Relaunch(l)
    BY <1>1, <1>2, <1>3, <1>7
       DEF PhaseStep, Supervised!Relaunch, Supervised!Moves, phase, dialog, given, record
  <2>. QED  BY <2>1 DEF Supervised!Next
<1>8. CASE ExitStep(l)
  <2>1. Supervised!Exit(l)
    BY <1>1, <1>2, <1>3, <1>8
       DEF ExitStep, Supervised!Exit, Supervised!Moves, phase, dialog, given, record
  <2>. QED  BY <2>1 DEF Supervised!Next
<1>9. CASE DialogStep(l, "idle", "asked")
  <2>1. Supervised!Ask(l)
    BY <1>1, <1>2, <1>3, <1>9
       DEF DialogStep, Supervised!Ask, Supervised!Says, phase, dialog, given, record
  <2>. QED  BY <2>1 DEF Supervised!Next
<1>10. CASE DialogStep(l, "asked", "refused")
  <2>1. Supervised!Refuse(l)
    BY <1>1, <1>2, <1>3, <1>10
       DEF DialogStep, Supervised!Refuse, Supervised!Says, phase, dialog, given, record
  <2>. QED  BY <2>1 DEF Supervised!Next
<1>11. CASE DialogStep(l, "answered", "configured")
  <2>1. Supervised!Configure(l)
    BY <1>1, <1>2, <1>3, <1>11
       DEF DialogStep, Supervised!Configure, Supervised!Says, phase, dialog, given, record
  <2>. QED  BY <2>1 DEF Supervised!Next
<1>12. ASSUME NEW c \in Configs, AnswerStep(l, c)
      PROVE  Supervised!Next
  <2>1. Supervised!Answer(l, c)
    BY <1>1, <1>2, <1>3, <1>12
       DEF AnswerStep, Supervised!Answer, Supervised!Says, phase, dialog, given, record
  <2>. QED  BY <2>1 DEF Supervised!Next
<1>13. CASE OrphanStep(l)
  <2>1. CASE OnRecord(l)' = OnRecord(l)
    <3>1. Supervised!Drop(l)
      BY <1>1, <1>2, <1>3, <1>13, <2>1
         DEF OrphanStep, Supervised!Drop, phase, dialog, given, record
    <3>. QED  BY <3>1 DEF Supervised!Next
  <2>2. ASSUME NEW c \in Configs, OnRecord(l)' = c
        PROVE  Supervised!Next
    <3>1. Supervised!AnswerLate(l, c)
      BY <1>1, <1>2, <1>3, <1>13, <2>2
         DEF OrphanStep, Supervised!AnswerLate, phase, dialog, given, record
    <3>. QED  BY <3>1 DEF Supervised!Next
  <2>. QED  BY <1>13, <2>1, <2>2 DEF OrphanStep
<1>14. CASE Same(l)
  BY <1>2, <1>14 DEF Same, Supervised!vars, phase, dialog, given, record
<1>. QED
  BY <1>4, <1>5, <1>6, <1>7, <1>8,
     <1>9, <1>10, <1>11, <1>12, <1>13, <1>14 DEF SupervisorStep

\* A step that leaves every view alone is none of the supervisor's.
LEMMA AllSame ==
    ASSUME \A m \in Slaves : Same(m)
    PROVE  UNCHANGED Supervised!vars
  BY DEF Same, Supervised!vars

-----------------------------------------------------------------------------
(* One lcore at a time.                                                      *)

\* With nothing in flight the rings are empty and no request is pending.
LEMMA NothingInFlight ==
    ASSUME TypeOK, NEW l \in Slaves, InFlight(l) = 0
    PROVE  ~Pending(l) /\ ring0[l] = <<>> /\ ring1[l] = <<>> /\ InHand(l) = 0
<1>1. ring0[l] \in Seq(Configs) /\ ring1[l] \in Seq({CFG})
  BY DEF TypeOK
<1>2. Len(ring0[l]) \in Nat /\ Len(ring1[l]) \in Nat /\ InHand(l) \in {0, 1}
  BY <1>1 DEF InHand
<1>3. Len(ring0[l]) = 0 /\ Len(ring1[l]) = 0 /\ InHand(l) = 0
  <2>1. \A a, b \in Nat, h \in {0, 1} : a + b + h = 0 => a = 0 /\ b = 0 /\ h = 0
    OBVIOUS
  <2>. QED  BY <1>2, <2>1 DEF InFlight
<1>4. ring0[l] = <<>> /\ ring1[l] = <<>>
  BY <1>1, <1>3
<1>. QED  BY <1>3, <1>4 DEF Pending

\* With one message in flight a request and an answer exclude each other.
LEMMA OneInFlight ==
    ASSUME TypeOK, NEW l \in Slaves, InFlight(l) <= 1
    PROVE  /\ ring0[l] # <<>> => ~Pending(l)
           /\ InHand(l) = 1 => ring0[l] = <<>> /\ ring1[l] = <<>>
<1>1. ring0[l] \in Seq(Configs) /\ ring1[l] \in Seq({CFG})
  BY DEF TypeOK
<1>2. Len(ring0[l]) \in Nat /\ Len(ring1[l]) \in Nat /\ InHand(l) \in {0, 1}
  BY <1>1 DEF InHand
<1>3. /\ ring0[l] # <<>> => Len(ring0[l]) > 0
      /\ ring1[l] # <<>> => Len(ring1[l]) > 0
  BY <1>1
<1>4. \A a, b \in Nat, h \in {0, 1} :
         a + b + h <= 1 => (b > 0 => ~(a > 0) /\ h = 0) /\ (h = 1 => ~(a > 0) /\ ~(b > 0))
  OBVIOUS
<1>5. /\ ring0[l] # <<>> => ring1[l] = <<>> /\ InHand(l) = 0
      /\ InHand(l) = 1 => ring0[l] = <<>> /\ ring1[l] = <<>>
  BY <1>2, <1>3, <1>4 DEF InFlight
<1>. QED  BY <1>2, <1>5 DEF Pending

\* A slave and its thread change only what the supervisor sees of their lcore.
LEMMA SlaveView ==
    ASSUME TypeOK, NEW l \in Slaves, NEW m \in Slaves \ {l},
           \/ SlaveStep(l) \/ ThreadStep(l) \/ ThreadLock(l) \/ ThreadForkFails(l)
           \/ SlaveCrash(l)
    PROVE  Same(m)
<1>. USE DEF TypeOK, ids, rings, resources, masterVars, threadVars, slaveVars,
             environment, View, InHand, OnRecord
<1>1. CASE SlaveStep(l)
  <2>1. CASE SlavePickId(l) \/ SlaveNoId(l)
    BY <2>1, ViewKept DEF SlavePickId, SlaveNoId
  <2>2. CASE SlaveCas(l) \/ SlaveMap(l)
    BY <2>2, ViewKept DEF SlaveCas, SlaveMap
  <2>3. CASE SlaveRequest(l)
    BY <2>3, ViewKept DEF SlaveRequest
  <2>4. CASE SlaveGetCfg(l)
    BY <2>4, ViewKept DEF SlaveGetCfg
  <2>5. CASE SlaveEngine(l) \/ SlaveFree(l) \/ SlaveUnmap(l)
    BY <2>5, ViewKept DEF SlaveEngine, SlaveFree, SlaveUnmap
  <2>. QED  BY <1>1, <2>1, <2>2, <2>3, <2>4, <2>5 DEF SlaveStep
<1>2. CASE ThreadStep(l)
  <2>1. CASE ThreadFork(l)
    BY <2>1, ViewKept DEF ThreadFork
  <2>2. CASE ThreadReap(l) \/ ThreadLookup(l) \/ ThreadReturn(l)
    BY <2>2, ViewKept DEF ThreadReap, ThreadLookup, ThreadReturn
  <2>3. CASE ThreadUpdate(l)
    BY <2>3, ViewKept DEF ThreadUpdate
  <2>. QED  BY <1>2, <2>1, <2>2, <2>3 DEF ThreadStep
<1>3. CASE ThreadLock(l) \/ ThreadForkFails(l)
  BY <1>3, ViewKept DEF ThreadLock, ThreadForkFails
<1>4. CASE SlaveCrash(l)
  BY <1>4, ViewKept DEF SlaveCrash
<1>. QED  BY <1>1, <1>2, <1>3, <1>4

\* The master changes only what the supervisor sees of the lcore it is at.
LEMMA MasterView ==
    ASSUME TypeOK, NEW m \in Slaves, m # mcur, MasterStep \/ MasterLock
    PROVE  Same(m)
<1>. USE DEF TypeOK, ids, rings, resources, masterVars, threadVars, slaveVars,
             environment, View, InHand, OnRecord
<1>1. CASE MasterPollNone
  BY <1>1, ViewKept DEF MasterPollNone
<1>2. CASE MasterPollRequest
  BY <1>2, ViewKept DEF MasterPollRequest
<1>3. CASE MasterScanNext \/ MasterScanFails
  BY <1>3, ViewKept DEF MasterScanNext, MasterScanFails
<1>4. CASE MasterAnswer
  BY <1>4, ViewKept DEF MasterAnswer
<1>5. CASE MasterRecord
  BY <1>5, ViewKept DEF MasterRecord
<1>6. CASE MasterCheckNone \/ MasterReset
  BY <1>6, ViewKept DEF MasterCheckNone, MasterReset
<1>7. CASE MasterDrain
  BY <1>7, ViewKept DEF MasterDrain
<1>8. CASE MasterLaunch
  BY <1>8, ViewKept DEF MasterLaunch
<1>9. CASE MasterClear
  BY <1>9, ViewKept DEF MasterClear
<1>10. CASE MasterUnlock \/ MasterLock
  BY <1>10, ViewKept DEF MasterUnlock, MasterLock
<1>. QED  BY <1>1, <1>2, <1>3, <1>4, <1>5, <1>6, <1>7, <1>8, <1>9, <1>10 DEF MasterStep

-----------------------------------------------------------------------------
(* The mapping, stage by stage.                                              *)

\* The dialog of a slave in each of its stages, before and after a step.
LEMMA DialogByStage ==
    ASSUME NEW l
    PROVE
       /\ spc[l] \in {"assign", "cas", "map", "request"} =>
             DialogOf(l) = "idle" /\ GivenTo(l) = None
       /\ spc[l] \in {"engine", "running", "free", "unmap"} =>
             DialogOf(l) = "configured" /\ GivenTo(l) = sconf[l]
       /\ spc[l] = "none" =>
             DialogOf(l) = (IF Pending(l) THEN "orphan" ELSE "idle") /\ GivenTo(l) = None
       /\ spc[l] = "await" =>
             IF Pending(l) THEN DialogOf(l) = "asked" /\ GivenTo(l) = None
             ELSE IF ring0[l] # <<>> THEN DialogOf(l) = "answered" /\ GivenTo(l) = Head(ring0[l])
             ELSE DialogOf(l) = "refused" /\ GivenTo(l) = None
       /\ spc'[l] \in {"assign", "cas", "map", "request"} =>
             DialogOf(l)' = "idle" /\ GivenTo(l)' = None
       /\ spc'[l] \in {"engine", "running", "free", "unmap"} =>
             DialogOf(l)' = "configured" /\ GivenTo(l)' = sconf'[l]
       /\ spc'[l] = "none" =>
             DialogOf(l)' = (IF Pending(l)' THEN "orphan" ELSE "idle") /\ GivenTo(l)' = None
       /\ spc'[l] = "await" =>
             IF Pending(l)' THEN DialogOf(l)' = "asked" /\ GivenTo(l)' = None
             ELSE IF ring0'[l] # <<>> THEN DialogOf(l)' = "answered" /\ GivenTo(l)' = Head(ring0'[l])
             ELSE DialogOf(l)' = "refused" /\ GivenTo(l)' = None
<1>1. /\ Configured(l) <=> spc[l] \in {"engine", "running", "free", "unmap"}
      /\ Configured(l)' <=> spc'[l] \in {"engine", "running", "free", "unmap"}
  BY DEF Configured
<1>. QED  BY <1>1 DEF DialogOf, GivenTo

\* The life of a slave in each stage of its thread, before and after a step.
LEMMA PhaseByStage ==
    ASSUME NEW l
    PROVE
       /\ tpc[l] = "fork" => PhaseOf(l) = "starting"
       /\ tpc[l] = "failed" => PhaseOf(l) = "failed"
       /\ tpc[l] \in {"ret", "finished"} /\ flags[l] = SLAVE_RECREATE_FLAG => PhaseOf(l) = "noticed"
       /\ tpc[l] \in {"waitpid", "notify", "lock", "update"} =>
             PhaseOf(l) = IF spc[l] = "none" THEN "exited" ELSE "alive"
       /\ tpc'[l] = "fork" => PhaseOf(l)' = "starting"
       /\ tpc'[l] = "failed" => PhaseOf(l)' = "failed"
       /\ tpc'[l] \in {"ret", "finished"} /\ flags'[l] = SLAVE_RECREATE_FLAG => PhaseOf(l)' = "noticed"
       /\ tpc'[l] \in {"waitpid", "notify", "lock", "update"} =>
             PhaseOf(l)' = IF spc'[l] = "none" THEN "exited" ELSE "alive"
  BY DEF PhaseOf

\* What a slave's own step leaves alone.
LEMMA SlaveFrame ==
    ASSUME IndInv, NEW l \in Slaves, spc[l] # "none", SlaveStep(l) \/ SlaveCrash(l)
    PROVE  /\ PhaseOf(l) = "alive"
           /\ PhaseOf(l)' = IF spc'[l] = "none" THEN "exited" ELSE "alive"
           /\ InHand(l)' = InHand(l) /\ OnRecord(l)' = OnRecord(l)
           /\ InFlight(l) <= 1
           /\ spc[l] # "await" => InFlight(l) = 0
<1>1. UNCHANGED <<tpc, mpc, mcur, mproc, config_id>>
  BY DEF SlaveStep, SlavePickId, SlaveNoId, SlaveCas, SlaveMap, SlaveRequest, SlaveGetCfg,
         SlaveEngine, SlaveFree, SlaveUnmap, SlaveCrash, masterVars, threadVars, resources
<1>2. tpc[l] = "waitpid" /\ tpc'[l] = "waitpid"
  BY <1>1 DEF IndInv, SupervisionInv, WaitInv
<1>3. InHand(l)' = InHand(l) /\ OnRecord(l)' = OnRecord(l)
  BY <1>1 DEF InHand, OnRecord
<1>4. InFlight(l) <= 1 /\ (spc[l] # "await" => InFlight(l) = 0)
  BY DEF IndInv, ExchangeInv, OneExchange
<1>. QED  BY <1>2, <1>3, <1>4, PhaseByStage

-----------------------------------------------------------------------------
(* The steps of a slave.                                                     *)

\* A slave asks once, takes the answer and leaves.
LEMMA SlaveAt ==
    ASSUME IndInv, NEW l \in Slaves, SlaveStep(l)
    PROVE  SupervisorStep(l)
<1>0. /\ TypeOK /\ spc[l] # "none" /\ spc \in [Slaves -> SlaveStages]
      /\ sconf \in [Slaves -> Lcores]
      /\ ring0 \in [Slaves -> Seq(Configs)] /\ ring1 \in [Slaves -> Seq({CFG})]
  BY DEF IndInv, TypeOK, SlaveStep, SlavePickId, SlaveNoId, SlaveCas, SlaveMap, SlaveRequest,
         SlaveGetCfg, SlaveEngine, SlaveFree, SlaveUnmap
<1>1. /\ PhaseOf(l) = "alive"
      /\ PhaseOf(l)' = IF spc'[l] = "none" THEN "exited" ELSE "alive"
      /\ InHand(l)' = InHand(l) /\ OnRecord(l)' = OnRecord(l)
      /\ InFlight(l) <= 1
      /\ spc[l] # "await" => InFlight(l) = 0
  BY <1>0, SlaveFrame
<1>2. CASE SlavePickId(l) \/ SlaveCas(l) \/ SlaveMap(l)
  <2>1. /\ spc[l] \in {"assign", "cas", "map"}
        /\ spc'[l] \in {"assign", "cas", "map", "request"}
    BY <1>0, <1>2 DEF SlavePickId, SlaveCas, SlaveMap
  <2>2. Same(l)
    BY <1>1, <2>1, DialogByStage DEF Same
  <2>. QED  BY <2>2 DEF SupervisorStep
<1>3. CASE SlaveNoId(l) \/ SlaveUnmap(l)
  <2>1. /\ spc[l] \in {"assign", "unmap"} /\ spc'[l] = "none"
        /\ ring1' = ring1
    BY <1>0, <1>3 DEF SlaveNoId, SlaveUnmap, rings
  <2>2. ring1[l] = <<>> /\ InHand(l) = 0
    BY <1>0, <1>1, <2>1, NothingInFlight
  <2>3. ~Pending(l)'
    BY <1>1, <2>1, <2>2 DEF Pending
  <2>4. DialogOf(l) # "asked"
    BY <2>1, DialogByStage
  <2>5. ExitStep(l)
    BY <1>1, <2>1, <2>3, <2>4, DialogByStage DEF ExitStep
  <2>. QED  BY <2>5 DEF SupervisorStep
<1>4. CASE SlaveRequest(l)
  <2>1. /\ spc[l] = "request" /\ spc'[l] = "await"
        /\ ring1'[l] = Append(ring1[l], CFG)
    BY <1>0, <1>4 DEF SlaveRequest
  <2>2. ring1[l] \in Seq({CFG})
    BY <1>0
  <2>3. Pending(l)'
    BY <2>1, <2>2 DEF Pending
  <2>4. DialogStep(l, "idle", "asked")
    BY <1>1, <2>1, <2>3, DialogByStage DEF DialogStep
  <2>. QED  BY <2>4 DEF SupervisorStep
<1>5. CASE SlaveGetCfg(l)
  <2>1. /\ spc[l] = "await" /\ spc'[l] = "engine" /\ ring0[l] # <<>>
        /\ sconf'[l] = Head(ring0[l])
    BY <1>0, <1>5 DEF SlaveGetCfg
  <2>2. ~Pending(l)
    BY <1>0, <1>1, <2>1, OneInFlight
  <2>3. DialogStep(l, "answered", "configured")
    BY <1>1, <2>1, <2>2, DialogByStage DEF DialogStep
  <2>. QED  BY <2>3 DEF SupervisorStep
<1>6. CASE SlaveEngine(l) \/ SlaveFree(l)
  <2>1. /\ spc[l] \in {"engine", "free"} /\ spc'[l] \in {"running", "free", "unmap"}
        /\ sconf' = sconf
    BY <1>0, <1>6 DEF SlaveEngine, SlaveFree
  <2>2. Same(l)
    BY <1>1, <2>1, DialogByStage DEF Same
  <2>. QED  BY <2>2 DEF SupervisorStep
<1>. QED  BY <1>2, <1>3, <1>4, <1>5, <1>6 DEF SlaveStep

\* Wherever a slave dies, only its question may be left over.
LEMMA CrashAt ==
    ASSUME IndInv, NEW l \in Slaves, SlaveCrash(l)
    PROVE  SupervisorStep(l)
<1>0. /\ TypeOK /\ spc[l] # "none" /\ spc[l] \in SlaveStages /\ spc'[l] = "none"
      /\ ring1' = ring1
  BY ConstantsAssumption DEF IndInv, TypeOK, SlaveCrash, rings
<1>1. /\ PhaseOf(l) = "alive"
      /\ PhaseOf(l)' = IF spc'[l] = "none" THEN "exited" ELSE "alive"
      /\ InHand(l)' = InHand(l) /\ OnRecord(l)' = OnRecord(l)
      /\ InFlight(l) <= 1
      /\ spc[l] # "await" => InFlight(l) = 0
  BY <1>0, SlaveFrame
<1>2. Pending(l)' <=> Pending(l)
  BY <1>0, <1>1 DEF Pending
<1>3. DialogOf(l) = "asked" <=> Pending(l)
  <2>1. CASE spc[l] = "await"
    BY <2>1, DialogByStage
  <2>2. CASE spc[l] # "await"
    <3>1. ~Pending(l)
      BY <1>0, <1>1, <2>2, NothingInFlight
    <3>2. DialogOf(l) # "asked"
      BY <1>0, <2>2, DialogByStage DEF SlaveStages
    <3>. QED  BY <3>1, <3>2
  <2>. QED  BY <2>1, <2>2
<1>4. DialogOf(l)' = (IF Pending(l)' THEN "orphan" ELSE "idle") /\ GivenTo(l)' = None
  BY <1>0, DialogByStage
<1>5. ExitStep(l)
  BY <1>0, <1>1, <1>2, <1>3, <1>4 DEF ExitStep
<1>. QED  BY <1>5 DEF SupervisorStep

-----------------------------------------------------------------------------
(* The steps of a thread.                                                    *)

\* The thread forks, waits, raises the flag and returns.
LEMMA ThreadAt ==
    ASSUME IndInv, NEW l \in Slaves,
           ThreadStep(l) \/ ThreadLock(l) \/ ThreadForkFails(l)
    PROVE  SupervisorStep(l)
<1>0. /\ TypeOK /\ tpc \in [Slaves -> ThreadStages] /\ spc \in [Slaves -> SlaveStages]
      /\ flags \in [Slaves -> {0, SLAVE_RECREATE_FLAG, SLAVE_DONT_RECREATE_FLAG}]
  BY DEF IndInv, TypeOK
<1>1. UNCHANGED <<ring0, ring1, config_id, mpc, mcur, mproc>>
  BY DEF ThreadStep, ThreadLock, ThreadForkFails, ThreadFork, ThreadReap, ThreadLookup,
         ThreadUpdate, ThreadReturn, rings, resources, masterVars, slaveVars
<1>2. /\ InHand(l)' = InHand(l) /\ OnRecord(l)' = OnRecord(l)
      /\ Pending(l)' <=> Pending(l)
  BY <1>1 DEF InHand, OnRecord, Pending
<1>3. tpc[l] # "waitpid" => spc[l] = "none"
  BY DEF IndInv, SupervisionInv, WaitInv
<1>4. ASSUME spc[l] = "none", spc'[l] = "none"
      PROVE  DialogOf(l)' = DialogOf(l) /\ GivenTo(l)' = GivenTo(l)
  BY <1>2, <1>4, DialogByStage
<1>5. CASE ThreadFork(l)
  <2>1. tpc[l] = "fork" /\ tpc'[l] = "waitpid" /\ spc'[l] = "assign"
    BY <1>0, <1>5 DEF ThreadFork
  <2>2. InFlight(l) = 0
    BY <2>1 DEF IndInv, ExchangeInv, OneExchange
  <2>3. ~Pending(l)
    BY <1>0, <2>2, NothingInFlight
  <2>4. spc[l] = "none"
    BY <1>3, <2>1
  <2>5. PhaseStep(l, "starting", "alive")
    BY <1>2, <2>1, <2>3, <2>4, DialogByStage, PhaseByStage DEF PhaseStep
  <2>. QED  BY <2>5 DEF SupervisorStep
<1>6. CASE ThreadForkFails(l)
  <2>1. tpc[l] = "fork" /\ tpc'[l] = "failed" /\ spc' = spc
    BY <1>0, <1>6 DEF ThreadForkFails, slaveVars
  <2>2. spc[l] = "none" /\ spc'[l] = "none"
    BY <1>3, <2>1
  <2>3. PhaseStep(l, "starting", "failed")
    BY <1>2, <1>4, <2>1, <2>2, PhaseByStage DEF PhaseStep
  <2>. QED  BY <2>3 DEF SupervisorStep
<1>7. CASE ThreadReap(l) \/ ThreadLookup(l) \/ ThreadLock(l)
  <2>1. /\ tpc[l] \in {"waitpid", "notify", "lock"} /\ tpc'[l] \in {"notify", "lock", "update"}
        /\ spc' = spc /\ spc[l] = "none"
    BY <1>0, <1>3, <1>7 DEF ThreadReap, ThreadLookup, ThreadLock, slaveVars
  <2>2. Same(l)
    BY <1>2, <1>4, <2>1, PhaseByStage DEF Same
  <2>. QED  BY <2>2 DEF SupervisorStep
<1>8. CASE ThreadUpdate(l)
  <2>1. /\ tpc[l] = "update" /\ tpc'[l] = "ret" /\ spc' = spc
        /\ flags'[l] = IF flags[l] = SLAVE_DONT_RECREATE_FLAG
                       THEN flags[l] ELSE SLAVE_RECREATE_FLAG
    BY <1>0, <1>8 DEF ThreadUpdate, slaveVars
  <2>2. flags'[l] = SLAVE_RECREATE_FLAG
    BY <2>1 DEF IndInv, SupervisionInv, FlagInv
  <2>3. spc[l] = "none" /\ spc'[l] = "none"
    BY <1>3, <2>1
  <2>4. PhaseStep(l, "exited", "noticed")
    BY <1>2, <1>4, <2>1, <2>2, <2>3, PhaseByStage DEF PhaseStep
  <2>. QED  BY <2>4 DEF SupervisorStep
<1>9. CASE ThreadReturn(l)
  <2>1. tpc[l] = "ret" /\ tpc'[l] = "finished" /\ spc' = spc /\ flags' = flags
    BY <1>0, <1>9 DEF ThreadReturn, slaveVars, resources
  <2>2. flags[l] = SLAVE_RECREATE_FLAG
    BY <2>1 DEF IndInv, SupervisionInv, FlagInv
  <2>3. spc[l] = "none" /\ spc'[l] = "none"
    BY <1>3, <2>1
  <2>4. Same(l)
    BY <1>2, <1>4, <2>1, <2>2, <2>3, PhaseByStage DEF Same
  <2>. QED  BY <2>4 DEF SupervisorStep
<1>. QED  BY <1>5, <1>6, <1>7, <1>8, <1>9 DEF ThreadStep

-----------------------------------------------------------------------------
(* The steps of the master.                                                  *)

\* Between two lcores the master shows the supervisor nothing.
LEMMA MasterBetween ==
    ASSUME IndInv, NEW m \in Slaves,
           \/ MasterPollNone \/ MasterScanNext \/ MasterCheckNone \/ MasterReset
           \/ MasterUnlock \/ MasterLock
    PROVE  Same(m)
<1>1. /\ UNCHANGED <<tpc, spc, flags, ring0, ring1, sconf, config_id>>
      /\ mpc # "record" /\ mpc' # "record"
      /\ \/ mpc' = mpc /\ mpc # "scan"
         \/ mpc' = mpc /\ mcur' = mcur
         \/ mpc # "scan" /\ mpc' # "scan"
  BY DEF MasterPollNone, MasterScanNext, MasterCheckNone, MasterReset, MasterUnlock, MasterLock,
         rings, resources, threadVars, slaveVars
<1>2. InHand(m)' = InHand(m) /\ OnRecord(m)' = OnRecord(m)
  BY <1>1 DEF InHand, OnRecord
<1>. QED  BY <1>1, <1>2, ViewKept DEF View

\* The master takes a request, answers it or not, and records the answer.
LEMMA MasterAnswersAt ==
    ASSUME IndInv, NEW l \in Slaves, l = mcur,
           MasterPollRequest \/ MasterScanFails \/ MasterAnswer \/ MasterRecord
    PROVE  SupervisorStep(l)
<1>0. /\ TypeOK
      /\ ring0 \in [Slaves -> Seq(Configs)] /\ ring1 \in [Slaves -> Seq({CFG})]
      /\ config_id \in [Slaves -> Lcores]
  BY DEF IndInv, TypeOK
<1>1. UNCHANGED <<tpc, spc, flags, sconf>>
  BY DEF MasterPollRequest, MasterScanFails, MasterAnswer, MasterRecord,
         resources, threadVars, slaveVars
<1>2. PhaseOf(l)' = PhaseOf(l)
  BY <1>1 DEF PhaseOf
<1>3. InFlight(l) <= 1 /\ (spc[l] \notin {"none", "await"} => InFlight(l) = 0)
  BY DEF IndInv, ExchangeInv, OneExchange
<1>4. spc[l] # "none" => PhaseOf(l) = "alive"
  <2>1. spc[l] # "none" => tpc[l] = "waitpid"
    BY DEF IndInv, SupervisionInv, WaitInv
  <2>. QED  BY <2>1, PhaseByStage
<1>5. CASE MasterPollRequest
  <2>1. /\ mpc = "poll" /\ mpc' = "scan" /\ mcur' = mcur /\ ring1[l] # <<>>
        /\ UNCHANGED <<ring0, config_id>>
    BY <1>5 DEF MasterPollRequest, resources
  <2>2. Pending(l) /\ Pending(l)' /\ OnRecord(l)' = OnRecord(l)
    BY <2>1 DEF Pending, InHand, OnRecord
  <2>3. spc[l] \in {"none", "await"}
    BY <1>0, <1>3, <2>1, NothingInFlight
  <2>4. Same(l)
    BY <1>1, <1>2, <2>2, <2>3, DialogByStage DEF Same
  <2>. QED  BY <2>4 DEF SupervisorStep
<1>6. CASE MasterScanFails \/ MasterAnswer
  <2>1. InHand(l) = 1 /\ mpc = "scan"
    BY <1>6 DEF MasterScanFails, MasterAnswer, InHand
  <2>2. Pending(l) /\ ring0[l] = <<>> /\ ring1[l] = <<>>
    BY <1>0, <1>3, <2>1, OneInFlight DEF Pending
  <2>3. spc[l] \in {"none", "await"} /\ spc'[l] = spc[l]
    BY <1>0, <1>1, <1>3, <2>2, NothingInFlight
  <2>4. ring1' = ring1 /\ InHand(l)' = 0
    BY <1>6 DEF MasterScanFails, MasterAnswer, rings, InHand
  <2>5. ~Pending(l)'
    BY <2>2, <2>4 DEF Pending
  <2>6. CASE MasterScanFails
    <3>1. ring0' = ring0 /\ OnRecord(l)' = OnRecord(l)
      BY <2>1, <2>6 DEF MasterScanFails, rings, resources, OnRecord
    <3>2. CASE spc[l] = "none"
      <4>1. OrphanStep(l)
        BY <1>2, <2>2, <2>3, <2>5, <3>1, <3>2, DialogByStage DEF OrphanStep
      <4>. QED  BY <4>1 DEF SupervisorStep
    <3>3. CASE spc[l] = "await"
      <4>1. DialogStep(l, "asked", "refused")
        BY <1>2, <1>4, <2>2, <2>3, <2>5, <3>1, <3>3, DialogByStage DEF DialogStep
      <4>. QED  BY <4>1 DEF SupervisorStep
    <3>. QED  BY <2>3, <3>2, <3>3
  <2>7. CASE MasterAnswer
    <3>1. /\ mproc \in Configs /\ ring0'[l] = Append(<<>>, mproc)
          /\ mpc' = "record" /\ mcur' = mcur /\ mproc' = mproc
      BY <1>0, <2>2, <2>7 DEF MasterAnswer
    <3>2. ring0'[l] # <<>> /\ Head(ring0'[l]) = mproc
      <4>1. Append(<<>>, mproc) = <<mproc>>
        OBVIOUS
      <4>. QED  BY <3>1, <4>1
    <3>3. OnRecord(l)' = mproc
      BY <3>1 DEF OnRecord
    <3>4. CASE spc[l] = "none"
      <4>1. OrphanStep(l)
        BY <1>2, <2>2, <2>3, <2>5, <3>1, <3>3, <3>4, DialogByStage DEF OrphanStep
      <4>. QED  BY <4>1 DEF SupervisorStep
    <3>5. CASE spc[l] = "await"
      <4>1. AnswerStep(l, mproc)
        BY <1>2, <1>4, <2>2, <2>3, <2>5, <3>2, <3>3, <3>5, DialogByStage DEF AnswerStep
      <4>. QED  BY <3>1, <4>1 DEF SupervisorStep
    <3>. QED  BY <2>3, <3>4, <3>5
  <2>. QED  BY <1>6, <2>6, <2>7
<1>7. CASE MasterRecord
  <2>1. /\ mpc = "record" /\ mpc' = "poll"
        /\ config_id' = [config_id EXCEPT ![l] = mproc]
        /\ UNCHANGED <<ring0, ring1>>
    BY <1>7 DEF MasterRecord, rings
  <2>2. OnRecord(l)' = OnRecord(l) /\ InHand(l)' = InHand(l)
    BY <1>0, <2>1 DEF OnRecord, InHand
  <2>3. Same(l)
    BY <1>1, <2>1, <2>2, ViewKept DEF View
  <2>. QED  BY <2>3 DEF SupervisorStep
<1>. QED  BY <1>5, <1>6, <1>7

\* The master empties the rings of a dead slave, starts it again and lowers its
\* flag.
LEMMA MasterRelaunchesAt ==
    ASSUME IndInv, NEW l \in Slaves, l = mcur, MasterDrain \/ MasterLaunch \/ MasterClear
    PROVE  SupervisorStep(l)
<1>0. /\ TypeOK /\ tpc \in [Slaves -> ThreadStages]
      /\ ring0 \in [Slaves -> Seq(Configs)] /\ ring1 \in [Slaves -> Seq({CFG})]
      /\ flags \in [Slaves -> {0, SLAVE_RECREATE_FLAG, SLAVE_DONT_RECREATE_FLAG}]
  BY DEF IndInv, TypeOK
<1>1. /\ mpc \in {"drain", "launch", "clear"} /\ mpc' \in {"launch", "clear", "check"}
      /\ UNCHANGED <<spc, sconf, config_id>>
  BY DEF MasterDrain, MasterLaunch, MasterClear, resources, slaveVars
<1>2. InHand(l) = 0 /\ InHand(l)' = 0 /\ OnRecord(l)' = OnRecord(l)
  BY <1>1 DEF InHand, OnRecord
<1>3. flags[l] = SLAVE_RECREATE_FLAG
  BY <1>1 DEF IndInv, SupervisionInv, ResetInv
<1>4. mpc # "clear" => tpc[l] \in {"ret", "finished"} /\ spc[l] = "none"
  BY <1>3 DEF IndInv, SupervisionInv, FlagInv, WaitInv
<1>5. CASE MasterDrain
  <2>1. mpc = "drain" /\ ring1'[l] = <<>> /\ UNCHANGED <<tpc, flags>>
    BY <1>0, <1>5 DEF MasterDrain, threadVars, resources
  <2>2. ~Pending(l)'
    BY <1>2, <2>1 DEF Pending
  <2>3. PhaseOf(l)' = PhaseOf(l)
    BY <1>1, <2>1 DEF PhaseOf
  <2>4. spc[l] = "none" /\ spc'[l] = "none"
    BY <1>1, <1>4, <2>1
  <2>5. GivenTo(l)' = GivenTo(l) /\ DialogOf(l)' = "idle"
    BY <2>2, <2>4, DialogByStage
  <2>6. CASE Pending(l)
    <3>1. OrphanStep(l)
      BY <1>2, <2>3, <2>4, <2>5, <2>6, DialogByStage DEF OrphanStep
    <3>. QED  BY <3>1 DEF SupervisorStep
  <2>7. CASE ~Pending(l)
    <3>1. Same(l)
      BY <1>2, <2>3, <2>4, <2>5, <2>7, DialogByStage DEF Same
    <3>. QED  BY <3>1 DEF SupervisorStep
  <2>. QED  BY <2>6, <2>7
<1>6. CASE MasterLaunch
  <2>1. mpc = "launch" /\ tpc'[l] = "fork" /\ UNCHANGED <<flags, ring0, ring1>>
    BY <1>0, <1>6 DEF MasterLaunch, rings, resources
  <2>2. InFlight(l) = 0
    BY <2>1 DEF IndInv, ExchangeInv
  <2>3. ~Pending(l) /\ (Pending(l)' <=> Pending(l))
    BY <1>0, <1>2, <2>1, <2>2, NothingInFlight DEF Pending
  <2>4. spc[l] = "none" /\ spc'[l] = "none" /\ tpc[l] \in {"ret", "finished"}
    BY <1>1, <1>4, <2>1
  <2>5. DialogOf(l) = "idle" /\ DialogOf(l)' = "idle" /\ GivenTo(l)' = GivenTo(l)
    BY <2>3, <2>4, DialogByStage
  <2>6. PhaseStep(l, "noticed", "starting")
    BY <1>2, <1>3, <2>1, <2>4, <2>5, PhaseByStage DEF PhaseStep
  <2>. QED  BY <2>5, <2>6 DEF SupervisorStep
<1>7. CASE MasterClear
  <2>1. mpc = "clear" /\ UNCHANGED <<tpc, ring0, ring1>>
    BY <1>7 DEF MasterClear, rings, threadVars
  <2>2. tpc[l] \in {"fork", "waitpid", "notify", "lock", "failed"}
    BY <1>3, <2>1 DEF IndInv, SupervisionInv, FlagInv
  <2>3. PhaseOf(l)' = PhaseOf(l)
    BY <1>1, <2>1, <2>2, PhaseByStage
  <2>4. Pending(l)' <=> Pending(l)
    BY <1>2, <2>1 DEF Pending
  <2>5. Configured(l)' <=> Configured(l)
    BY <1>1 DEF Configured
  <2>6. DialogOf(l)' = DialogOf(l)
    BY <1>1, <2>1, <2>4, <2>5 DEF DialogOf
  <2>7. GivenTo(l)' = GivenTo(l)
    BY <1>1, <2>1, <2>5, <2>6 DEF GivenTo
  <2>8. Same(l)
    BY <1>2, <2>3, <2>6, <2>7 DEF Same
  <2>. QED  BY <2>8 DEF SupervisorStep
<1>. QED  BY <1>5, <1>6, <1>7

-----------------------------------------------------------------------------
(* The refinement.                                                           *)

\* At the start every lcore is about to fork and nobody has asked.
LEMMA InitSupervised == Init => Supervised!Init
<1>. SUFFICES ASSUME Init
              PROVE  Supervised!Init
  OBVIOUS
<1>1. ASSUME NEW l \in Slaves
      PROVE  /\ PhaseOf(l) = "starting" /\ DialogOf(l) = "idle" /\ GivenTo(l) = None
             /\ OnRecord(l) \in Lcores
  <2>1. /\ tpc[l] = "fork" /\ spc[l] = "none" /\ ring1[l] = <<>> /\ mpc = "poll"
        /\ config_id[l] = 0
    BY DEF Init
  <2>2. ~Pending(l)
    BY <2>1 DEF Pending, InHand
  <2>3. OnRecord(l) \in Lcores
    BY <2>1, ConstantsAssumption DEF OnRecord, Lcores
  <2>. QED  BY <2>1, <2>2, <2>3, DialogByStage, PhaseByStage
<1>. QED  BY <1>1 DEF Supervised!Init

\* Every step of the control plane is a step of the supervisor or none.
LEMMA NextSupervised ==
    ASSUME IndInv, [Next]_vars
    PROVE  [Supervised!Next]_(Supervised!vars)
<1>0. TypeOK
  BY DEF IndInv
<1>1. CASE UNCHANGED vars
  <2>1. ASSUME NEW m \in Slaves
        PROVE  Same(m)
    BY <1>1, ViewKept DEF vars, View, InHand, OnRecord
  <2>. QED  BY <2>1, AllSame
<1>2. CASE \/ MasterPollNone \/ MasterScanNext \/ MasterCheckNone \/ MasterReset
           \/ MasterUnlock \/ MasterLock
  <2>1. ASSUME NEW m \in Slaves
        PROVE  Same(m)
    BY <1>2, MasterBetween
  <2>. QED  BY <2>1, AllSame
<1>3. CASE \/ MasterPollRequest \/ MasterScanFails \/ MasterAnswer \/ MasterRecord
           \/ MasterDrain \/ MasterLaunch \/ MasterClear
  <2>1. PICK l \in Slaves : l = mcur
    BY <1>0, <1>3 DEF TypeOK, MasterPollRequest, MasterScanFails, MasterAnswer, MasterRecord,
                      MasterDrain, MasterLaunch, MasterClear
  <2>2. SupervisorStep(l)
    BY <1>3, <2>1, MasterAnswersAt, MasterRelaunchesAt
  <2>3. ASSUME NEW m \in Slaves \ {l}
        PROVE  Same(m)
    <3>1. MasterStep /\ m # mcur
      BY <1>3, <2>1 DEF MasterStep
    <3>. QED  BY <1>0, <3>1, MasterView
  <2>. QED  BY <2>2, <2>3, Lifted
<1>4. ASSUME NEW l \in Slaves,
             \/ SlaveStep(l) \/ ThreadStep(l) \/ ThreadLock(l) \/ ThreadForkFails(l)
             \/ SlaveCrash(l)
      PROVE  [Supervised!Next]_(Supervised!vars)
  <2>1. SupervisorStep(l)
    BY <1>4, SlaveAt, ThreadAt, CrashAt
  <2>2. ASSUME NEW m \in Slaves \ {l}
        PROVE  Same(m)
    BY <1>0, <1>4, SlaveView
  <2>. QED  BY <2>1, <2>2, Lifted
<1>. QED  BY <1>1, <1>2, <1>3, <1>4 DEF Next, MasterStep

\* The control plane (main_loop, lcore_func, slave_exit_cb, slave_request,
\* main_set_lcore_cfg, reset_lcore) implements the supervisor: an exit is noticed
\* once and answered by one relaunch, a slave is given the answer to its own request
\* and never one that its predecessor left in a ring, and at most one late answer
\* reaches the record of a dead slave.
THEOREM SupervisorImplemented == Spec => ImplementsSupervisor
<1>1. Init => Supervised!Init
  BY InitSupervised
<1>2. IndInv /\ [Next]_vars => [Supervised!Next]_(Supervised!vars)
  BY NextSupervised
<1>. QED  BY <1>1, <1>2, Inductive, PTL DEF Spec, ImplementsSupervisor, Supervised!Spec

=============================================================================
