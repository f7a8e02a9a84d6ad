------------------------- MODULE ControlPlaneProofs -------------------------
(***************************************************************************)
(* Theorems about ServiceRegistry and ControlPlane, for any number of      *)
(* instances and leases and any set of faults.                             *)
(***************************************************************************)
EXTENDS ControlPlane, TLAPS

USE RegistryAssumption
-----------------------------------------------------------------------------
(* The lease that a Put is about to use has not expired.                   *)
PutUnderLease ==
  \A i \in Instances : registrar[i].pc = "put" => registrar[i].lease \in live

(* The inductive invariant.  What is fresh about a lease is needed for     *)
(* Grant, and comes from its guard.                                        *)
RegistryInv == RegistryTypeOK /\ PutUnderLease /\ KeptKeyBound

(* A registrar without a lease.                                            *)
LEMMA AtType ==
  ASSUME RegistryTypeOK, NEW i \in Instances, NEW pc \in {"down", "grant", "wait"}, At(i, pc)
  PROVE  /\ registrar' \in [Instances -> Registrar]
         /\ registrar'[i].pc = pc
         /\ \A j \in Instances : j # i => registrar'[j] = registrar[j]
BY DEF RegistryTypeOK, At, Registrar, AtPcs

(* The registrar of one instance, as the type invariant has it.            *)
LEMMA LeaseHeld ==
  ASSUME RegistryTypeOK, NEW i \in Instances
  PROVE  /\ registrar[i] \in Registrar
         /\ registrar[i].pc \in {"put", "keep"} => registrar[i].lease \in Leases
         /\ registrar[i].pc \notin {"put", "keep"} => registrar[i].lease = NoLease
BY DEF RegistryTypeOK, Registrar, AtPcs

LEMMA RegistryInit == Init => RegistryInv
BY DEF Init, RegistryInv, RegistryTypeOK, PutUnderLease, KeptKeyBound, Registrar, AtPcs

(* A Put that was given up leaves the types, and only binds a key whose    *)
(* registrar does not keep a lease alive.                                  *)
LEMMA GivenUpKeeps ==
  ASSUME RegistryInv, NEW i \in Instances, registrar[i].pc = "put", GivenUp(i),
         NEW pc \in {"down", "wait"}, At(i, pc), UNCHANGED <<live, overtaken>>
  PROVE  RegistryInv'
<1>1. registrar[i].lease \in Leases
  BY LeaseHeld DEF RegistryInv
<1>2. /\ key' \in [Instances -> Leases \cup {NoLease}]
      /\ \A j \in Instances : j # i => key'[j] = key[j]
      /\ late' \subseteq Instances \X Leases
  BY <1>1 DEF RegistryInv, RegistryTypeOK, GivenUp, Bound
<1> QED BY <1>2, AtType DEF RegistryInv, RegistryTypeOK, PutUnderLease, KeptKeyBound

(* The types and the two facts about leases survive every step of a        *)
(* registrar and of etcd.                                                  *)
LEMMA RegistryStep == RegistryInv /\ [Next]_vars => RegistryInv'
<1> SUFFICES ASSUME RegistryInv, [Next]_vars PROVE RegistryInv'
  OBVIOUS
<1> USE DEF RegistryInv
<1>1. CASE UNCHANGED vars
  BY <1>1 DEF vars, RegistryTypeOK, PutUnderLease, KeptKeyBound
<1>2. ASSUME NEW i \in Instances, Start(i) \/ KeepAliveEnds(i) \/ Retry(i)
      PROVE  RegistryInv'
  <2>1. PICK pc \in {"down", "grant", "wait"} : At(i, pc)
    BY <1>2 DEF Start, KeepAliveEnds, Retry
  <2>2. UNCHANGED <<key, live, late, overtaken>>
    BY <1>2 DEF Start, KeepAliveEnds, Retry
  <2> QED BY <2>1, <2>2, AtType DEF RegistryTypeOK, PutUnderLease, KeptKeyBound
<1>3. ASSUME NEW i \in Instances, Grant(i) PROVE RegistryInv'
  <2>1. CASE At(i, "wait") /\ UNCHANGED live
    BY <1>3, <2>1, AtType DEF Grant, RegistryTypeOK, PutUnderLease, KeptKeyBound
  <2>2. ASSUME NEW l \in Fresh, live' = live \cup {l},
               registrar' = [registrar EXCEPT ![i] = [pc |-> "put", lease |-> l]]
        PROVE  RegistryInv'
    <3>1. l \in Leases /\ \A j \in Instances : registrar[j].lease # l
      BY <2>2 DEF Fresh
    <3>2. UNCHANGED <<key, late, overtaken>>
      BY <1>3 DEF Grant
    <3>3. RegistryTypeOK'
      BY <2>2, <3>1, <3>2 DEF RegistryTypeOK, Registrar
    <3>4. PutUnderLease' /\ KeptKeyBound'
      BY <2>2, <3>1, <3>2 DEF RegistryTypeOK, PutUnderLease, KeptKeyBound
    <3> QED BY <3>3, <3>4
  <2> QED BY <1>3, <2>1, <2>2 DEF Grant
<1>4. ASSUME NEW i \in Instances, Put(i) PROVE RegistryInv'
  <2>1. CASE GivenUp(i) /\ At(i, "wait") /\ UNCHANGED overtaken
    BY <1>4, <2>1, GivenUpKeeps DEF Put
  <2>2. CASE /\ Bound(i) /\ registrar' = [registrar EXCEPT ![i].pc = "keep"]
             /\ overtaken' = overtaken \ {i} /\ UNCHANGED late
    <3>1. registrar[i].pc = "put" /\ registrar[i].lease \in Leases /\ UNCHANGED live
      BY <1>4, LeaseHeld DEF Put
    <3>2. /\ registrar'[i] = [pc |-> "keep", lease |-> registrar[i].lease]
          /\ \A j \in Instances : j # i => registrar'[j] = registrar[j]
          /\ key'[i] = registrar[i].lease
          /\ \A j \in Instances : j # i => key'[j] = key[j]
      BY <2>2, <3>1, LeaseHeld DEF RegistryTypeOK, Bound, Registrar, AtPcs
    <3>3. RegistryTypeOK'
      BY <2>2, <3>1, <3>2 DEF RegistryTypeOK, Bound, Registrar
    <3> QED BY <2>2, <3>1, <3>2, <3>3 DEF PutUnderLease, KeptKeyBound
  <2> QED BY <1>4, <2>1, <2>2 DEF Put
<1>5. ASSUME NEW i \in Instances, Leave(i) PROVE RegistryInv'
  <2>1. CASE registrar[i].pc = "put"
    BY <1>5, <2>1, GivenUpKeeps DEF Leave
  <2>2. CASE registrar[i].pc # "put"
    BY <1>5, <2>2, AtType DEF Leave, RegistryTypeOK, PutUnderLease, KeptKeyBound
  <2> QED BY <2>1, <2>2
<1>6. ASSUME NEW i \in Instances, NEW l \in Leases, ApplyLate(i, l) PROVE RegistryInv'
  BY <1>6 DEF ApplyLate, RegistryTypeOK, PutUnderLease, KeptKeyBound
<1>7. ASSUME NEW l \in Leases, Expire(l) PROVE RegistryInv'
  <2>1. /\ UNCHANGED <<registrar, late, overtaken>>
        /\ live' = live \ {l}
        /\ key' = [i \in Instances |-> IF key[i] = l THEN NoLease ELSE key[i]]
        /\ \A i \in Instances : registrar[i].lease = l => registrar[i].pc = "keep"
    BY <1>7 DEF Expire, Holds
  <2> QED BY <2>1 DEF RegistryTypeOK, PutUnderLease, KeptKeyBound
<1> QED BY <1>1, <1>2, <1>3, <1>4, <1>5, <1>6, <1>7 DEF Next, Run

(* Without failures a registry makes fewer of the same steps.              *)
LEMMA QuietIsNext == Quiet!Next => Next
<1>1. \A i \in Instances : Quiet!Start(i) => Start(i)
  BY DEF Quiet!Start, Start, Quiet!At, At
<1>2. \A i \in Instances : Quiet!Run(i) => Run(i)
  BY DEF Quiet!Run, Run, Quiet!Grant, Grant, Quiet!Put, Put, Quiet!KeepAliveEnds,
         KeepAliveEnds, Quiet!Retry, Retry, Quiet!Fresh, Fresh, Quiet!At, At,
         Quiet!Bound, Bound, Quiet!GivenUp, GivenUp
<1>3. \A i \in Instances : Quiet!Leave(i) => Leave(i)
  BY DEF Quiet!Leave, Leave, Quiet!At, At, Quiet!GivenUp, GivenUp, Quiet!Bound, Bound
<1>4. \A i \in Instances, l \in Leases : Quiet!ApplyLate(i, l) => ApplyLate(i, l)
  BY DEF Quiet!ApplyLate, ApplyLate
<1>5. \A l \in Leases : Quiet!Expire(l) => Expire(l)
  BY DEF Quiet!Expire, Expire, Quiet!Holds, Holds
<1> QED BY <1>1, <1>2, <1>3, <1>4, <1>5 DEF Quiet!Next, Next

(* Every step of the control plane is one of the registry, or leaves it.   *)
LEMMA PlaneSteps == [PlaneNext]_planeVars => [Next]_vars
BY QuietIsNext
   DEF PlaneNext, planeVars, Failing, Calmly, Watched, Cease, Watch, ReadRegistry, OpenWatch,
       HandleEvent, WatchFails, WatchAgain, RestartXds

PlaneInv == RegistryInv /\ PlaneTypeOK /\ RoutesCurrent

LEMMA PlaneInitInv == PlaneInit => PlaneInv
BY RegistryInit DEF PlaneInit, PlaneInv, PlaneTypeOK, RegistryInv, RoutesCurrent

(* What a step does to the registered instances reaches the watch, or is   *)
(* remembered as missed.                                                   *)
LEMMA PlaneStepInv == PlaneInv /\ [PlaneNext]_planeVars => PlaneInv'
<1> SUFFICES ASSUME PlaneInv, [PlaneNext]_planeVars PROVE PlaneInv'
  OBVIOUS
<1>1. RegistryInv'
  BY PlaneSteps, RegistryStep DEF PlaneInv
<1>2. Registered \subseteq Instances /\ (key' = key => Registered' = Registered)
  BY DEF Registered
<1>3. ASSUME Watched(TRUE), UNCHANGED calm PROVE PlaneTypeOK' /\ RoutesCurrent'
  BY <1>1, <1>2, <1>3 DEF Watched, PlaneInv, RegistryInv, PlaneTypeOK, RoutesCurrent
<1>4. CASE UNCHANGED planeVars
  BY <1>1, <1>2, <1>4 DEF planeVars, xdsVars, vars, PlaneInv, RegistryInv, PlaneTypeOK, RoutesCurrent
<1>5. CASE Cease
  BY <1>1, <1>2, <1>5 DEF Cease, xdsVars, vars, PlaneInv, RegistryInv, PlaneTypeOK, RoutesCurrent
<1>6. CASE ReadRegistry \/ HandleEvent
  BY <1>1, <1>2, <1>6 DEF ReadRegistry, HandleEvent, Publish, vars, PlaneInv, RegistryInv,
                         PlaneTypeOK, RoutesCurrent
<1>7. CASE OpenWatch \/ WatchFails \/ WatchAgain \/ RestartXds
  BY <1>1, <1>2, <1>7 DEF OpenWatch, WatchFails, WatchAgain, RestartXds, vars, PlaneInv,
                         RegistryInv, PlaneTypeOK, RoutesCurrent
<1>8. CASE Failing(Next) \/ Calmly(Quiet!Next)
  <2>1. ASSUME Failing(Next) PROVE PlaneTypeOK' /\ RoutesCurrent'
    BY <1>3, <2>1 DEF Failing, Watched
  <2>2. ASSUME Calmly(Quiet!Next) PROVE PlaneTypeOK' /\ RoutesCurrent'
    BY <1>3, <2>2 DEF Calmly, Watched
  <2> QED BY <1>1, <1>8, <2>1, <2>2 DEF PlaneInv
<1>9. PlaneTypeOK' /\ RoutesCurrent'
  BY <1>4, <1>5, <1>6, <1>7, <1>8 DEF PlaneNext, Watch, PlaneInv
<1> QED BY <1>1, <1>9 DEF PlaneInv
-----------------------------------------------------------------------------
(* Every registrar, lease, key and route stays what its type says.         *)
THEOREM PlaneTypeCorrect == PlaneSpec => []PlaneTypeOK
<1>1. PlaneInv => PlaneTypeOK
  BY DEF PlaneInv
<1> QED BY PlaneInitInv, PlaneStepInv, <1>1, PTL DEF PlaneSpec

(* A server that keeps its lease alive is in the registry under that       *)
(* lease, however often it and its earlier lives failed, unless etcd       *)
(* applied one of its Puts after a later one.                              *)
THEOREM RegistrationHolds == PlaneSpec => []KeptKeyBound
<1>1. PlaneInv => KeptKeyBound
  BY DEF PlaneInv, RegistryInv
<1> QED BY PlaneInitInv, PlaneStepInv, <1>1, PTL DEF PlaneSpec

(* Envoy's routes are the registry's, whenever xds has handled what the    *)
(* watch told it and was told of every change.                             *)
THEOREM SnapshotsCurrent == PlaneSpec => []RoutesCurrent
<1>1. PlaneInv => RoutesCurrent
  BY DEF PlaneInv
<1> QED BY PlaneInitInv, PlaneStepInv, <1>1, PTL DEF PlaneSpec
=============================================================================
