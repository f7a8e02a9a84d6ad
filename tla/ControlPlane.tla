---------------------------- MODULE ControlPlane ----------------------------
(***************************************************************************)
(* xds: the control plane that tells Envoy where the instances of the      *)
(* registry are.  watch reads the whole registry, publishes the snapshot,  *)
(* opens a watch at the then current revision, and reads and publishes     *)
(* again on every event; a read that fails leaves the last snapshot.       *)
(* Envoy is external: it routes by the last snapshot published, also while *)
(* xds is down.                                                            *)
(*                                                                         *)
(* For as long as they like, calls fail, watches break and xds dies; then  *)
(* the failures cease.  Services are started and stopped all along.        *)
(***************************************************************************)
EXTENDS ServiceRegistry

VARIABLES
  watcher,     \* where the function watch is
  event,       \* a change has reached the watch and was not handled
  missed,      \* no event will tell xds of the last change of the registry
  routes,      \* the instances Envoy routes to
  calm         \* have the failures ceased

xdsVars   == <<watcher, event, missed, routes>>
planeVars == <<vars, xdsVars, calm>>

Quiet == INSTANCE ServiceRegistry WITH Faults <- {}

PlaneTypeOK ==
  /\ RegistryTypeOK
  /\ watcher \in {"read", "open", "watch", "wait"}
  /\ {event, missed, calm} \subseteq BOOLEAN
  /\ routes \subseteq Instances

PlaneInit ==
  /\ Init /\ watcher = "read" /\ routes = {}
  /\ event = FALSE /\ missed = FALSE /\ calm = FALSE

(* A step of the registry, as an open watch sees it.                       *)
Watched(A) ==
  /\ A
  /\ event'  = (event \/ (watcher = "watch" /\ key' # key))
  /\ missed' = (missed \/ (watcher = "open" /\ key' # key))
  /\ UNCHANGED <<watcher, routes>>

(* buildSnapshot and SetSnapshot.                                          *)
Publish ==
  \/ routes' = Registered /\ missed' = FALSE
  \/ "read" \in Faults /\ ~ calm /\ UNCHANGED routes /\ missed' = TRUE

ReadRegistry ==
  /\ watcher = "read"
  /\ Publish
  /\ watcher' = "open"
  /\ UNCHANGED <<vars, event, calm>>

OpenWatch ==
  /\ watcher = "open"
  /\ watcher' = "watch"
  /\ UNCHANGED <<vars, event, missed, routes, calm>>

(* Mutant: an event adds what it finds to the snapshot.                    *)
HandleEventAdds ==
  /\ watcher = "watch" /\ event
  /\ routes' = routes \cup Registered /\ missed' = FALSE
  /\ event' = FALSE
  /\ UNCHANGED <<vars, watcher, calm>>

HandleEvent ==
  /\ watcher = "watch" /\ event
  /\ Publish
  /\ event' = FALSE
  /\ UNCHANGED <<vars, watcher, calm>>

WatchFails ==
  /\ "watch" \in Faults /\ ~ calm
  /\ watcher = "watch"
  /\ watcher' = "wait" /\ event' = FALSE
  /\ UNCHANGED <<vars, missed, routes, calm>>

WatchAgain ==
  /\ watcher = "wait"
  /\ watcher' = "read"
  /\ UNCHANGED <<vars, event, missed, routes, calm>>

RestartXds ==
  /\ "restart" \in Faults /\ ~ calm
  /\ watcher' = "read" /\ event' = FALSE
  /\ UNCHANGED <<vars, missed, routes, calm>>

Watch == ReadRegistry \/ OpenWatch \/ HandleEvent \/ WatchAgain

Cease == ~ calm /\ calm' = TRUE /\ UNCHANGED <<vars, xdsVars>>

Failing(A) == ~ calm /\ Watched(A) /\ UNCHANGED calm
Calmly(A)  == calm /\ Watched(A) /\ UNCHANGED calm

PlaneNext ==
  \/ Failing(Next) \/ Calmly(Quiet!Next) \/ Cease
  \/ Watch \/ WatchFails \/ RestartXds

PlaneSpec == PlaneInit /\ [][PlaneNext]_planeVars

(* Once the failures have ceased, Run and watch go on, etcd applies what   *)
(* it was given and expires what is not kept alive.  Lease ids do not run  *)
(* out in etcd: Grant is not prevented by them again and again.            *)
FairPlane ==
  /\ PlaneSpec
  /\ \A i \in Instances :
       /\ SF_planeVars(Calmly(Quiet!Grant(i))) /\ WF_planeVars(Calmly(Quiet!Put(i)))
       /\ WF_planeVars(Calmly(Quiet!KeepAliveEnds(i)))
       /\ WF_planeVars(Calmly(Quiet!Retry(i)))
       /\ \A l \in Leases : WF_planeVars(Calmly(Quiet!ApplyLate(i, l)))
  /\ \A l \in Leases : WF_planeVars(Calmly(Quiet!Expire(l)))
  /\ WF_planeVars(Watch)
-----------------------------------------------------------------------------
(* While xds watches and has handled every event, Envoy's routes are the   *)
(* registry, unless a change fell between the read and the opening of the  *)
(* watch, or the last read failed: then they stay wrong until some other   *)
(* change comes.                                                           *)
RoutesCurrent ==
  watcher \in {"open", "watch"} /\ ~ event /\ ~ missed => routes = Registered

(* Once failures cease, a server that goes on running is in the end routed *)
(* to for good, whatever its earlier lives and attempts left in etcd.      *)
RunningRouted ==
  \A i \in Instances :
    <>[](calm /\ registrar[i].pc # "down" /\ i \notin overtaken /\ ~ missed)
      => <>[](i \in routes)

(* Once failures cease, a server that has stopped or died is in the end    *)
(* not routed to any more, although it never revokes its lease.            *)
StoppedUnrouted ==
  \A i \in Instances :
    <>[](calm /\ registrar[i].pc = "down" /\ ~ missed) => <>[](i \notin routes)
=============================================================================
