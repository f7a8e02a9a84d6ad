-------------------------- MODULE ServiceRegistry --------------------------
(***************************************************************************)
(* servicekit/discovery: the Registrar of every service instance.  Run     *)
(* takes a lease of etcd, puts the instance's key under it, and keeps the  *)
(* lease alive; when one of these ends it waits and starts again, under a  *)
(* new lease, for as long as the server runs.  It never revokes a lease:   *)
(* a server that stops leaves its key to the lease's expiry, exactly as    *)
(* one that dies does.                                                     *)
(*                                                                         *)
(* An instance is a host and a port: a process that is started again there *)
(* has the same key.  etcd is external: a key goes when the lease it is    *)
(* bound to expires, a later Put binds it to another lease, and a Put that *)
(* was given up may still be applied, or not.                              *)
(***************************************************************************)
EXTENDS FiniteSets

CONSTANTS
  Instances,   \* hosts and ports, one key each
  Leases,      \* lease ids; one that nobody refers to any more is given out again
  NoLease,
  Faults       \* timeout: a call fails, or its answer is lost; partition: the
               \* keep-alives of a registrar do not come through

ASSUME RegistryAssumption == NoLease \notin Leases

VARIABLES
  registrar,   \* Run in each instance's process
  key,         \* the lease that each instance's key is bound to, if it is there
  live,        \* the leases that have not expired
  late,        \* Puts given up that etcd has not applied yet
  overtaken    \* registrars whose key such a Put has bound to an older lease

vars == <<registrar, key, live, late, overtaken>>

AtPcs(pcs) == [pc : pcs, lease : {NoLease}]
Registrar  == AtPcs({"down", "grant", "wait"}) \cup [pc : {"put", "keep"}, lease : Leases]

RegistryTypeOK ==
  /\ registrar \in [Instances -> Registrar]
  /\ key \in [Instances -> Leases \cup {NoLease}]
  /\ live \subseteq Leases
  /\ late \subseteq Instances \X Leases
  /\ overtaken \subseteq Instances

Registered == {i \in Instances : key[i] # NoLease}

Init ==
  /\ registrar = [i \in Instances |-> [pc |-> "down", lease |-> NoLease]]
  /\ key = [i \in Instances |-> NoLease]
  /\ live = {} /\ late = {} /\ overtaken = {}

At(i, pc) == registrar' = [registrar EXCEPT ![i] = [pc |-> pc, lease |-> NoLease]]

(* Server.Start: the listener is open when Run begins.                     *)
Start(i) ==
  /\ registrar[i].pc = "down"
  /\ At(i, "grant")
  /\ UNCHANGED <<key, live, late, overtaken>>

Fresh == {l \in Leases \ live : /\ \A i \in Instances : registrar[i].lease # l
                                /\ \A p \in late : p[2] # l}

(* A lease whose answer is lost is known to nobody, and left out.          *)
Grant(i) ==
  /\ registrar[i].pc = "grant"
  /\ \/ \E l \in Fresh :
          /\ live' = live \cup {l}
          /\ registrar' = [registrar EXCEPT ![i] = [pc |-> "put", lease |-> l]]
     \/ "timeout" \in Faults /\ At(i, "wait") /\ UNCHANGED live
  /\ UNCHANGED <<key, late, overtaken>>

Bound(i) == key' = [key EXCEPT ![i] = registrar[i].lease]

(* What etcd makes of a Put whose answer nobody waits for any more.        *)
GivenUp(i) ==
  \/ Bound(i) /\ UNCHANGED late
  \/ UNCHANGED key /\ late' \in {late, late \cup {<<i, registrar[i].lease>>}}

(* Mutant: the key is put only where there is none, as PutIfAbsent does.   *)
PutWhereAbsent(i) ==
  /\ registrar[i].pc = "put"
  /\ key' = [key EXCEPT ![i] = IF @ = NoLease THEN registrar[i].lease ELSE @]
  /\ registrar' = [registrar EXCEPT ![i].pc = "keep"]
  /\ overtaken' = overtaken \ {i}
  /\ UNCHANGED <<live, late>>

Put(i) ==
  /\ registrar[i].pc = "put"
  /\ \/ /\ Bound(i)
        /\ registrar' = [registrar EXCEPT ![i].pc = "keep"]
        /\ overtaken' = overtaken \ {i}
        /\ UNCHANGED late
     \/ "timeout" \in Faults /\ GivenUp(i) /\ At(i, "wait") /\ UNCHANGED overtaken
  /\ UNCHANGED live

(* The channel of KeepAlive is closed: the lease has expired, or nothing   *)
(* was heard of it for as long.                                            *)
KeepAliveEnds(i) ==
  /\ registrar[i].pc = "keep"
  /\ registrar[i].lease \notin live \/ "partition" \in Faults
  /\ At(i, "wait")
  /\ UNCHANGED <<key, live, late, overtaken>>

Retry(i) ==
  /\ registrar[i].pc = "wait"
  /\ At(i, "grant")
  /\ UNCHANGED <<key, live, late, overtaken>>

(* Shutdown cancels Run, wherever it is, and the process may as well die.  *)
Leave(i) ==
  /\ registrar[i].pc # "down"
  /\ At(i, "down")
  /\ IF registrar[i].pc = "put" THEN GivenUp(i) ELSE UNCHANGED <<key, late>>
  /\ UNCHANGED <<live, overtaken>>

(* etcd comes to a Put that was given up, and refuses it for a dead lease. *)
ApplyLate(i, l) ==
  /\ <<i, l>> \in late
  /\ late' = late \ {<<i, l>>}
  /\ \/ /\ l \in live
        /\ key' = [key EXCEPT ![i] = l]
        /\ overtaken' = IF registrar[i].pc = "keep" THEN overtaken \cup {i} ELSE overtaken
     \/ UNCHANGED <<key, overtaken>>
  /\ UNCHANGED <<registrar, live>>

Holds(i, l) == registrar[i].lease = l

(* The time to live, 10 s, is longer than the two calls may take together  *)
(* with their timeouts, so that a lease does not expire before its Put     *)
(* ends; afterwards it lasts while its keep-alives come through.           *)
Expire(l) ==
  /\ l \in live
  /\ \A i \in Instances :
       Holds(i, l) => registrar[i].pc = "keep" /\ "partition" \in Faults
  /\ live' = live \ {l}
  /\ key' = [i \in Instances |-> IF key[i] = l THEN NoLease ELSE key[i]]
  /\ UNCHANGED <<registrar, late, overtaken>>

Run(i) == Grant(i) \/ Put(i) \/ KeepAliveEnds(i) \/ Retry(i)

Next ==
  \/ \E i \in Instances : Start(i) \/ Run(i) \/ Leave(i) \/ \E l \in Leases : ApplyLate(i, l)
  \/ \E l \in Leases : Expire(l)

Spec == Init /\ [][Next]_vars
-----------------------------------------------------------------------------
(* A server that keeps its lease alive is in the registry, under that      *)
(* lease: no earlier life or earlier attempt of it leaves the key bound to *)
(* a lease that nobody keeps alive, and that would take the key with it.   *)
(* Only a Put that etcd applies after a later one breaks it, and Run never *)
(* notices.                                                                *)
KeptKeyBound ==
  \A i \in Instances :
    registrar[i].pc = "keep" /\ registrar[i].lease \in live /\ i \notin overtaken
      => key[i] = registrar[i].lease
=============================================================================
