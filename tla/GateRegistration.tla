-------------------------- MODULE GateRegistration --------------------------
(***************************************************************************)
(* gate_server: how a gate claims one of the logical servers in etcd,      *)
(* serves its WebSocket connections and gives it back; and ws_gateway, which *)
(* lists the servers that are not claimed and leads clients to the gate    *)
(* that has claimed theirs.                                                *)
(*                                                                         *)
(* Acquire goes through the unclaimed servers in the order of their ids: a *)
(* lease, a transaction that puts the server's key under it if there is no *)
(* key, and a revocation if there is one; then it lists them again.  The   *)
(* lease is kept alive only once Main has fetched what it needs, and Main  *)
(* does not look at how KeepAlive ends: a gate that has lost its lease     *)
(* goes on serving.  Main closes the connections, then the listener, and   *)
(* then revokes the lease.                                                 *)
(*                                                                         *)
(* etcd is external.  For as long as they like, gates are started and      *)
(* stopped, and calls fail; then all that ceases.                          *)
(***************************************************************************)
EXTENDS Naturals

CONSTANTS
  Gates,       \* gate processes, each at an address of its own
  Servers,     \* ids of the logical servers, rows of server_info
  Clients,
  Asks,        \* the server that each client asks for
  Leases,      \* lease ids; one that nobody refers to any more is given out again
  None,        \* no lease, gate or server
  Faults       \* call, slow, partition, die

ASSUME GateAssumption ==
  /\ Servers \subseteq Nat
  /\ Asks \in [Clients -> Servers]
  /\ None \notin Leases \cup Gates \cup Servers

VARIABLES
  gate,        \* what Main does in each process
  key,         \* each server's key: the gate and the lease it is bound to
  live,        \* the leases that have not expired and were not revoked
  lost,        \* the gates whose lease has expired under them
  conn,        \* what each client's connection is
  calm         \* have starts, stops and failures ceased

vars == <<gate, key, live, lost, conn, calm>>

Claiming == {"list", "grant", "txn", "giveBack"}
Owning   == {"fetch", "serve", "closing", "closed"}

NoKey == [gate |-> None, lease |-> None]
Down  == [pc |-> "down", list |-> {}, server |-> None, lease |-> None]
Idle  == [pc |-> "idle", gate |-> None, late |-> FALSE]

GateTypeOK ==
  /\ gate \in [Gates -> [pc : Claiming \cup Owning \cup {"down", "giveUp", "released"},
                         list : SUBSET Servers, server : Servers \cup {None},
                         lease : Leases \cup {None}]]
  /\ key \in [Servers -> [gate : Gates, lease : Leases] \cup {NoKey}]
  /\ live \subseteq Leases /\ lost \subseteq Gates
  /\ conn \in [Clients -> [pc : {"idle", "routed", "open"}, gate : Gates \cup {None},
                           late : BOOLEAN]]
  /\ calm \in BOOLEAN

Init ==
  /\ gate = [g \in Gates |-> Down]
  /\ key = [s \in Servers |-> NoKey]
  /\ live = {} /\ lost = {}
  /\ conn = [c \in Clients |-> Idle]
  /\ calm = FALSE

May(f) == f \in Faults /\ ~ calm

Open(c) == conn[c].pc = "open"

CloseAt(g) ==
  conn' = [c \in Clients |-> IF Open(c) /\ conn[c].gate = g THEN Idle ELSE conn[c]]

Exit(g) ==
  /\ gate' = [gate EXCEPT ![g] = Down]
  /\ lost' = lost \ {g}
  /\ CloseAt(g)

Becomes(g, pc, list, server, lease) ==
  gate' = [gate EXCEPT ![g] = [pc |-> pc, list |-> list, server |-> server, lease |-> lease]]

To(g, pc) == Becomes(g, pc, gate[g].list, gate[g].server, gate[g].lease)

Free == {s \in Servers : key[s] = NoKey}

KeysWithout(l) == [s \in Servers |-> IF key[s].lease = l THEN NoKey ELSE key[s]]

(* Nobody looks at the error of a revocation: the lease is gone, or it is  *)
(* left to expire.                                                         *)
Revoke(g) ==
  \/ live' = live \ {gate[g].lease} /\ key' = KeysWithout(gate[g].lease)
  \/ May("call") /\ UNCHANGED <<live, key>>

(* Main has opened the listener, and every handshake is refused so far.    *)
Start(g) ==
  /\ ~ calm
  /\ gate[g].pc = "down"
  /\ Becomes(g, "list", {}, None, None)
  /\ UNCHANGED <<key, live, lost, conn, calm>>

(* ServerInfoGet with type 1: the rows of the table without a key.         *)
List(g) ==
  /\ gate[g].pc = "list"
  /\ \/ /\ Free # {}
        /\ Becomes(g, "grant", Free, None, None)
        /\ UNCHANGED <<lost, conn>>
     \/ Free = {} /\ Exit(g)
     \/ May("call") /\ Exit(g)
  /\ UNCHANGED <<key, live, calm>>

Fresh == {l \in Leases \ live : \A g \in Gates : gate[g].lease # l}

Grant(g) ==
  /\ gate[g].pc = "grant"
  /\ \/ \E l \in Fresh :
          /\ live' = live \cup {l}
          /\ Becomes(g, "txn", gate[g].list, None, l)
          /\ UNCHANGED <<lost, conn>>
     \/ May("call") /\ Exit(g) /\ UNCHANGED live
  /\ UNCHANGED <<key, calm>>

First(list) == CHOOSE s \in list : \A t \in list : s <= t

Target(g) == First(gate[g].list)

Put(g) == key' = [key EXCEPT ![Target(g)] = [gate |-> g, lease |-> gate[g].lease]]

(* Mutant: the key is put without the lease.                               *)
TxnWithoutLease(g) ==
  /\ gate[g].pc = "txn"
  /\ IF key[Target(g)] = NoKey
       THEN /\ key' = [key EXCEPT ![Target(g)] = [gate |-> g, lease |-> None]]
            /\ Becomes(g, "fetch", {}, Target(g), gate[g].lease)
       ELSE To(g, "giveBack") /\ UNCHANGED key
  /\ UNCHANGED <<live, lost, conn, calm>>

(* A transaction that fails may have been applied; Acquire gives up.       *)
Txn(g) ==
  /\ gate[g].pc = "txn"
  /\ \/ /\ key[Target(g)] = NoKey /\ gate[g].lease \in live
        /\ Put(g)
        /\ \/ Becomes(g, "fetch", {}, Target(g), gate[g].lease)
           \/ May("call") /\ To(g, "giveUp")
     \/ key[Target(g)] # NoKey /\ To(g, "giveBack") /\ UNCHANGED key
     \/ key[Target(g)] = NoKey /\ gate[g].lease \notin live /\ To(g, "giveUp") /\ UNCHANGED key
     \/ May("call") /\ To(g, "giveUp") /\ UNCHANGED key
  /\ UNCHANGED <<live, lost, conn, calm>>

(* Mutant: Acquire tries the same server again.                            *)
GiveBackStays(g) ==
  /\ gate[g].pc = "giveBack"
  /\ Revoke(g)
  /\ Becomes(g, "grant", gate[g].list, None, None)
  /\ UNCHANGED <<lost, conn, calm>>

(* Another gate has the server: the lease is revoked, and the next server  *)
(* of the list tried, or the servers listed again.                         *)
GiveBack(g) ==
  LET rest == gate[g].list \ {Target(g)}
  IN /\ gate[g].pc = "giveBack"
     /\ Revoke(g)
     /\ Becomes(g, IF rest = {} THEN "list" ELSE "grant", rest, None, None)
     /\ UNCHANGED <<lost, conn, calm>>

GiveUp(g) == gate[g].pc = "giveUp" /\ Revoke(g) /\ Exit(g) /\ UNCHANGED calm

(* FetchServerInfo, FetchChannelInfo and SetServerInfo: handshakes for the *)
(* server are accepted from now on.                                        *)
Fetch(g) ==
  /\ gate[g].pc = "fetch"
  /\ To(g, "serve") \/ (May("call") /\ To(g, "giveUp"))
  /\ UNCHANGED <<key, live, lost, conn, calm>>

(* Mutant: the lease is released before the connections are closed.        *)
ReleaseFirst(g) ==
  /\ ~ calm
  /\ gate[g].pc = "serve"
  /\ Revoke(g)
  /\ To(g, "closing")
  /\ UNCHANGED <<lost, conn, calm>>

(* The process is told to stop: Shutdown, CloseAll.                        *)
CloseAll(g) ==
  /\ ~ calm
  /\ gate[g].pc = "serve"
  /\ To(g, "closing")
  /\ CloseAt(g)
  /\ UNCHANGED <<key, live, lost, calm>>

(* The listener closes: a handshake that was under way when CloseAll took  *)
(* its snapshot of the connections has passed it by.                       *)
CloseListener(g) ==
  /\ gate[g].pc = "closing"
  /\ To(g, "closed")
  /\ UNCHANGED <<key, live, lost, conn, calm>>

Release(g) ==
  /\ gate[g].pc = "closed"
  /\ Revoke(g)
  /\ To(g, "released")
  /\ UNCHANGED <<lost, conn, calm>>

Return(g) == gate[g].pc = "released" /\ Exit(g) /\ UNCHANGED <<key, live, calm>>

Die(g) == gate[g].pc # "down" /\ May("die") /\ Exit(g) /\ UNCHANGED <<key, live, calm>>

(* A lease lasts 30 s.  Nothing keeps it alive before Main has fetched     *)
(* what it needs, by calls without a deadline; then only as long as the    *)
(* keep-alives come through.                                               *)
Expire(l) ==
  /\ l \in live
  /\ \A g \in Gates : gate[g].lease = l =>
       May(IF gate[g].pc \in {"serve", "closing", "closed"} THEN "partition" ELSE "slow")
  /\ live' = live \ {l}
  /\ key' = KeysWithout(l)
  /\ lost' = lost \cup {g \in Gates : gate[g].lease = l /\ gate[g].pc \in Owning}
  /\ UNCHANGED <<gate, conn, calm>>

(* ws_gateway's Proxy: the key says at which gate the server is.           *)
Resolve(c) ==
  /\ conn[c].pc = "idle"
  /\ key[Asks[c]] # NoKey
  /\ conn' = [conn EXCEPT ![c] = [pc |-> "routed", gate |-> key[Asks[c]].gate, late |-> FALSE]]
  /\ UNCHANGED <<gate, key, live, lost, calm>>

(* ServeHTTP of the gate: the handshake names the server, and the gate     *)
(* that is there by now accepts it if that is the server it has fetched.   *)
Connect(c) ==
  LET g == conn[c].gate
      accepts == gate[g].pc \in {"serve", "closing"} /\ gate[g].server = Asks[c]
  IN /\ conn[c].pc = "routed"
     /\ conn' = [conn EXCEPT ![c] =
          IF accepts THEN [pc |-> "open", gate |-> g, late |-> (gate[g].pc = "closing")] ELSE Idle]
     /\ UNCHANGED <<gate, key, live, lost, calm>>

Disconnect(c) ==
  /\ Open(c)
  /\ conn' = [conn EXCEPT ![c] = Idle]
  /\ UNCHANGED <<gate, key, live, lost, calm>>

Acquire(g)  == List(g) \/ Grant(g) \/ Txn(g) \/ GiveBack(g)
Shutdown(g) == CloseListener(g) \/ Release(g) \/ Return(g)
Main(g)     == Acquire(g) \/ GiveUp(g) \/ Fetch(g) \/ Shutdown(g)

Cease == ~ calm /\ calm' = TRUE /\ UNCHANGED <<gate, key, live, lost, conn>>

Next ==
  \/ \E g \in Gates : Start(g) \/ Main(g) \/ CloseAll(g) \/ Die(g)
  \/ \E l \in Leases : Expire(l)
  \/ \E c \in Clients : Resolve(c) \/ Connect(c) \/ Disconnect(c)
  \/ Cease

Spec == Init /\ [][Next]_vars

(* Main goes on, and etcd expires what is not kept alive.                  *)
FairSpec ==
  /\ Spec
  /\ \A g \in Gates : WF_vars(calm /\ Main(g))
  /\ \A l \in Leases : WF_vars(calm /\ Expire(l))
-----------------------------------------------------------------------------
(* Clients of one logical server are connected to one gate, across races   *)
(* for the server, failed claims, shutdowns and restarts: the gate that    *)
(* takes a server over finds nobody left at the one before.  Except where  *)
(* a gate's lease has expired under it and it serves on, and for a         *)
(* handshake that passed CloseAll by.                                      *)
OneGatePerServer ==
  \A c, d \in Clients :
    Open(c) /\ Open(d) /\ Asks[c] = Asks[d] /\ conn[c].gate # conn[d].gate
      => \E x \in {c, d} : conn[x].late \/ conn[x].gate \in lost

(* When gates are no longer started and stopped, every Acquire ends, with  *)
(* a server or without one: those that lose a race find the server claimed *)
(* when they list again.                                                   *)
AcquireEnds ==
  \A g \in Gates : calm /\ gate[g].pc \in Claiming ~> gate[g].pc \notin Claiming

(* When that and the failures have ceased, no server stays claimed by a    *)
(* gate that is gone, stuck, or has given up, however it ended.            *)
Kept(s) ==
  \E g \in Gates : gate[g].pc = "serve" /\ gate[g].server = s /\ key[s].lease = gate[g].lease

ServersFreed == <>calm => <>[](\A s \in Servers : key[s] = NoKey \/ Kept(s))
=============================================================================
