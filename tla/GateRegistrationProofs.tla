----------------------- MODULE GateRegistrationProofs -----------------------
(***************************************************************************)
(* Theorems about GateRegistration, for any number of gates, servers,      *)
(* clients and leases and any set of faults.                               *)
(***************************************************************************)
EXTENDS GateRegistration, TLAPS, WellFoundedInduction

USE GateAssumption
-----------------------------------------------------------------------------
(* A list of servers that is not empty has a first one.                    *)
LEMMA FirstListed ==
  ASSUME NEW list \in SUBSET Servers, list # {}
  PROVE  First(list) \in list
<1> DEFINE Below == {p \in Nat \X Nat : p[1] < p[2]}
<1>1. IsWellFoundedOn(Below, Nat)
  <2>1. OpToRel(<, Nat) = Below
    BY Zenon DEF OpToRel
  <2> QED BY <2>1, NatLessThanWellFounded
<1>2. list \subseteq Nat
  OBVIOUS
<1>3. \E s \in list : \A t \in list : <<t, s>> \notin Below
  <2> HIDE DEF Below
  <2> QED BY <1>1, <1>2, WFMin
<1>4. \E s \in list : \A t \in list : s <= t
  <2>1. \A s, t \in Nat : <<t, s>> \notin Below => s <= t
    OBVIOUS
  <2> HIDE DEF Below
  <2> QED BY <1>2, <1>3, <2>1
<1> QED BY <1>4 DEF First

-----------------------------------------------------------------------------
(* While Acquire has a server to try it has a list, and a lease once it    *)
(* tries to put the key.                                                   *)
Listed ==
  \A g \in Gates :
    /\ gate[g].pc \in {"grant", "txn", "giveBack"} => gate[g].list # {}
    /\ gate[g].pc = "txn" => gate[g].lease \in Leases

(* A gate that owns a server has its key, under its own lease, unless the  *)
(* lease has expired under it.                                             *)
Held ==
  \A g \in Gates :
    gate[g].pc \in Owning /\ g \notin lost
      => /\ gate[g].lease \in live
         /\ gate[g].server \in Servers
         /\ key[gate[g].server] = [gate |-> g, lease |-> gate[g].lease]

(* No two gates have one lease.                                            *)
Distinct ==
  \A g, h \in Gates : g # h /\ gate[g].lease = gate[h].lease => gate[g].lease = None

(* A connection was led to a gate; one that CloseAll has not missed is     *)
(* open at a gate that serves its server.                                  *)
Admitted ==
  \A c \in Clients :
    /\ conn[c].pc # "idle" => conn[c].gate \in Gates
    /\ Open(c) /\ ~ conn[c].late
         => gate[conn[c].gate].pc = "serve" /\ gate[conn[c].gate].server = Asks[c]

(* The inductive invariant: Held makes two gates that serve one server     *)
(* impossible, Distinct keeps one gate's revocation from another's key,    *)
(* and Admitted brings the two to the connections.                         *)
GateInv == GateTypeOK /\ Listed /\ Held /\ Distinct /\ Admitted

LEMMA GateInitInv == Init => GateInv
<1> SUFFICES ASSUME Init PROVE GateInv
  OBVIOUS
<1>1. GateTypeOK
  BY DEF Init, GateTypeOK, Down, Idle, NoKey
<1>2. Listed /\ Held /\ Distinct
  BY DEF Init, Listed, Held, Distinct, Down, Owning
<1>3. Admitted
  BY DEF Init, Admitted, Idle, Open
<1> QED BY <1>1, <1>2, <1>3 DEF GateInv

(* A record of a gate.                                                     *)
GateStates ==
  [pc : Claiming \cup Owning \cup {"down", "giveUp", "released"},
   list : SUBSET Servers, server : Servers \cup {None}, lease : Leases \cup {None}]

ConnStates ==
  [pc : {"idle", "routed", "open"}, gate : Gates \cup {None}, late : BOOLEAN]

KeyStates == [gate : Gates, lease : Leases] \cup {NoKey}

(* The keys after a revocation: those under other leases stay.             *)
LEMMA RevokeType ==
  ASSUME GateInv, NEW g \in Gates, Revoke(g)
  PROVE  /\ live' \subseteq Leases
         /\ key' \in [Servers -> KeyStates]
         /\ \A h \in Gates : h # g /\ gate[h].pc \in Owning /\ h \notin lost
              => /\ gate[h].lease \in live'
                 /\ key'[gate[h].server] = [gate |-> h, lease |-> gate[h].lease]
<1>1. live \subseteq Leases /\ key \in [Servers -> KeyStates]
  BY DEF GateInv, GateTypeOK, KeyStates
<1>2. CASE UNCHANGED <<live, key>>
  BY <1>1, <1>2 DEF GateInv, Held
<1>3. CASE live' = live \ {gate[g].lease} /\ key' = KeysWithout(gate[g].lease)
  <2>1. key' \in [Servers -> KeyStates]
    BY <1>1, <1>3 DEF KeysWithout, KeyStates
  <2>2. ASSUME NEW h \in Gates, h # g, gate[h].pc \in Owning, h \notin lost
        PROVE  /\ gate[h].lease \in live'
               /\ key'[gate[h].server] = [gate |-> h, lease |-> gate[h].lease]
    <3>1. /\ gate[h].lease \in live /\ gate[h].server \in Servers
          /\ key[gate[h].server] = [gate |-> h, lease |-> gate[h].lease]
      BY <2>2 DEF GateInv, Held
    <3>2. gate[h].lease # gate[g].lease
      BY <1>1, <2>2, <3>1 DEF GateInv, Distinct
    <3> QED BY <1>3, <3>1, <3>2 DEF KeysWithout
  <2> QED BY <1>1, <1>3, <2>1, <2>2
<1> QED BY <1>2, <1>3 DEF Revoke

(* A gate moves on without its lease, its keys and its connections being   *)
(* touched, to a step in which it owns a server only if it did before.     *)
LEMMA GateMoves ==
  ASSUME GateInv, NEW g \in Gates, NEW s \in GateStates,
         gate' = [gate EXCEPT ![g] = s],
         s.pc \in {"grant", "txn", "giveBack"} => s.list # {},
         s.pc = "txn" => s.lease \in Leases,
         s.lease # None => \A h \in Gates : h # g => gate[h].lease # s.lease,
         live' \subseteq Leases, key' \in [Servers -> KeyStates],
         \A h \in Gates : h # g /\ gate[h].pc \in Owning /\ h \notin lost
            => /\ gate[h].lease \in live'
               /\ key'[gate[h].server] = [gate |-> h, lease |-> gate[h].lease],
         s.pc \in Owning /\ g \notin lost
            => /\ s.lease \in live' /\ s.server \in Servers
               /\ key'[s.server] = [gate |-> g, lease |-> s.lease],
         lost' \in {lost, lost \ {g}}, lost' # lost => s.pc \notin Owning,
         CloseAt(g) \/ (/\ conn' = conn
                        /\ gate[g].pc = "serve" => s.pc = "serve" /\ s.server = gate[g].server),
         calm' = calm
  PROVE  GateInv'
<1>1. /\ gate'[g] = s /\ \A h \in Gates : h # g => gate'[h] = gate[h]
      /\ gate \in [Gates -> GateStates] /\ gate' \in [Gates -> GateStates]
  BY DEF GateInv, GateTypeOK, GateStates
<1>2. /\ conn' \in [Clients -> ConnStates]
      /\ \A c \in Clients : conn'[c] = conn[c] \/ conn'[c] = Idle
      /\ CloseAt(g) => \A c \in Clients : Open(c) /\ conn[c].gate = g => conn'[c] = Idle
  <2>1. conn \in [Clients -> ConnStates] /\ Idle \in ConnStates
    BY DEF GateInv, GateTypeOK, ConnStates, Idle
  <2> QED BY <2>1 DEF CloseAt
<1>3. GateTypeOK'
  BY <1>1, <1>2 DEF GateInv, GateTypeOK, GateStates, ConnStates, KeyStates
<1>4. Listed'
  BY <1>1 DEF GateInv, Listed
<1>5. Held'
  BY <1>1 DEF GateInv, Held
<1>6. Distinct'
  BY <1>1 DEF GateInv, Distinct
<1>7. Admitted'
  BY <1>1, <1>2 DEF GateInv, Admitted, Open, Idle
<1> QED BY <1>3, <1>4, <1>5, <1>6, <1>7 DEF GateInv

(* What the invariant says of one gate and of the others.                  *)
LEMMA OneGate ==
  ASSUME GateInv, NEW g \in Gates
  PROVE  /\ gate[g] = [pc |-> gate[g].pc, list |-> gate[g].list,
                       server |-> gate[g].server, lease |-> gate[g].lease]
         /\ gate[g] \in GateStates
         /\ gate[g].lease # None => \A h \in Gates : h # g => gate[h].lease # gate[g].lease
         /\ live \subseteq Leases /\ key \in [Servers -> KeyStates]
         /\ \A h \in Gates : h # g /\ gate[h].pc \in Owning /\ h \notin lost
              => /\ gate[h].lease \in live
                 /\ key[gate[h].server] = [gate |-> h, lease |-> gate[h].lease]
BY DEF GateInv, GateTypeOK, GateStates, KeyStates, Distinct, Held

(* A process ends, and the invariant holds for the others.                 *)
LEMMA ExitInv ==
  ASSUME GateInv, NEW g \in Gates, Exit(g), UNCHANGED calm,
         live' \subseteq Leases, key' \in [Servers -> KeyStates],
         \A h \in Gates : h # g /\ gate[h].pc \in Owning /\ h \notin lost
            => /\ gate[h].lease \in live'
               /\ key'[gate[h].server] = [gate |-> h, lease |-> gate[h].lease]
  PROVE  GateInv'
<1>1. Down \in GateStates /\ Down.pc = "down" /\ Down.lease = None
  BY DEF Down, GateStates
<1>2. /\ gate' = [gate EXCEPT ![g] = Down] /\ CloseAt(g) /\ lost' = lost \ {g}
  BY DEF Exit
<1> HIDE DEF Down
<1> QED BY <1>1, <1>2, GateMoves DEF Owning

(* A gate goes to another step, owning its server only if it did before,   *)
(* and touches neither leases nor keys.                                    *)
LEMMA ToInv ==
  ASSUME GateInv, NEW g \in Gates,
         NEW pc \in {"list", "giveBack", "giveUp", "serve", "closing", "closed", "released"}, To(g, pc),
         pc = "giveBack" => gate[g].pc = "txn",
         pc \in Owning => gate[g].pc \in Owning,
         CloseAt(g) \/ (conn' = conn /\ gate[g].pc # "serve"),
         UNCHANGED <<key, live, lost, calm>>
  PROVE  GateInv'
<1> DEFINE s == [pc |-> pc, list |-> gate[g].list,
                 server |-> gate[g].server, lease |-> gate[g].lease]
<1>1. s \in GateStates
  BY OneGate DEF GateStates, Claiming, Owning
<1>2. s.pc \in Owning /\ g \notin lost
        => /\ s.lease \in live /\ s.server \in Servers
           /\ key[s.server] = [gate |-> g, lease |-> s.lease]
  BY DEF GateInv, Held
<1>3. s.pc \in {"grant", "txn", "giveBack"} => s.list # {}
  BY DEF GateInv, Listed
<1>4. gate' = [gate EXCEPT ![g] = s]
  BY DEF To, Becomes
<1>5. s.pc # "txn" /\ s.lease = gate[g].lease
  OBVIOUS
<1> HIDE DEF s
<1>6. s.lease # None => \A h \in Gates : h # g => gate[h].lease # s.lease
  BY <1>5, OneGate
<1>7. /\ live' \subseteq Leases /\ key' \in [Servers -> KeyStates]
      /\ \A h \in Gates : h # g /\ gate[h].pc \in Owning /\ h \notin lost
           => /\ gate[h].lease \in live'
              /\ key'[gate[h].server] = [gate |-> h, lease |-> gate[h].lease]
  BY OneGate
<1> QED BY <1>1, <1>2, <1>3, <1>4, <1>5, <1>6, <1>7, GateMoves

(* Nobody else's key or lease is touched.                                  *)
LEMMA OthersHeld ==
  ASSUME GateInv, NEW g \in Gates, key' = key, live \subseteq live', live' \subseteq Leases
  PROVE  /\ key' \in [Servers -> KeyStates]
         /\ \A h \in Gates : h # g /\ gate[h].pc \in Owning /\ h \notin lost
              => /\ gate[h].lease \in live'
                 /\ key'[gate[h].server] = [gate |-> h, lease |-> gate[h].lease]
BY OneGate

LEMMA StartInv == ASSUME GateInv, NEW g \in Gates, Start(g) PROVE GateInv'
<1> DEFINE s == [pc |-> "list", list |-> {}, server |-> None, lease |-> None]
<1>1. s \in GateStates /\ s.pc \notin Owning /\ s.pc \notin {"grant", "txn", "giveBack"} /\ s.lease = None
  BY DEF GateStates, Claiming, Owning
<1>2. gate' = [gate EXCEPT ![g] = s] /\ gate[g].pc # "serve" /\ UNCHANGED <<key, live, lost, conn, calm>>
  BY DEF Start, Becomes
<1>3. live' \subseteq Leases /\ live \subseteq live'
  BY <1>2, OneGate
<1> HIDE DEF s
<1> QED BY <1>1, <1>2, <1>3, OthersHeld, GateMoves

LEMMA ListInv == ASSUME GateInv, NEW g \in Gates, List(g) PROVE GateInv'
<1>1. CASE Exit(g)
  BY <1>1, OneGate, ExitInv DEF List
<1>2. CASE /\ Free # {} /\ UNCHANGED <<lost, conn>>
           /\ Becomes(g, "grant", Free, None, None)
  <2> DEFINE s == [pc |-> "grant", list |-> Free, server |-> None, lease |-> None]
  <2>1. s \in GateStates /\ s.pc \notin Owning /\ s.pc # "txn" /\ s.list # {} /\ s.lease = None
    BY <1>2 DEF GateStates, Claiming, Owning, Free
  <2>2. gate' = [gate EXCEPT ![g] = s]
    BY <1>2 DEF Becomes
  <2>3. gate[g].pc # "serve" /\ UNCHANGED <<key, live, calm>>
    BY DEF List
  <2>4. live' \subseteq Leases /\ live \subseteq live'
    BY <2>3, OneGate
  <2> HIDE DEF s
  <2> QED BY <1>2, <2>1, <2>2, <2>3, <2>4, OthersHeld, GateMoves
<1> QED BY <1>1, <1>2 DEF List

LEMMA GrantInv == ASSUME GateInv, NEW g \in Gates, Grant(g) PROVE GateInv'
<1>1. CASE Exit(g) /\ UNCHANGED live
  BY <1>1, OneGate, ExitInv DEF Grant
<1>2. ASSUME NEW l \in Fresh, live' = live \cup {l}, UNCHANGED <<lost, conn>>,
             Becomes(g, "txn", gate[g].list, None, l)
      PROVE  GateInv'
  <2> DEFINE s == [pc |-> "txn", list |-> gate[g].list, server |-> None, lease |-> l]
  <2>1. l \in Leases /\ \A h \in Gates : gate[h].lease # l
    BY DEF Fresh
  <2>2. s \in GateStates /\ s.pc \notin Owning /\ s.lease = l /\ s.list = gate[g].list
    BY <2>1, OneGate DEF GateStates, Claiming, Owning
  <2>3. gate' = [gate EXCEPT ![g] = s]
    BY <1>2 DEF Becomes
  <2>4. gate[g].pc = "grant" /\ gate[g].list # {} /\ UNCHANGED <<key, calm>>
    BY DEF Grant, GateInv, Listed
  <2>5. live' \subseteq Leases /\ live \subseteq live'
    BY <1>2, <2>1, OneGate
  <2> HIDE DEF s
  <2>6. /\ s.pc = "txn" => s.lease \in Leases
        /\ s.pc \in {"grant", "txn", "giveBack"} => s.list # {}
        /\ s.lease # None => \A h \in Gates : h # g => gate[h].lease # s.lease
        /\ UNCHANGED <<lost, conn>> /\ gate[g].pc # "serve"
    BY <1>2, <2>1, <2>2, <2>4
  <2>7. /\ key' \in [Servers -> KeyStates]
        /\ \A h \in Gates : h # g /\ gate[h].pc \in Owning /\ h \notin lost
             => /\ gate[h].lease \in live'
                /\ key'[gate[h].server] = [gate |-> h, lease |-> gate[h].lease]
    BY <2>4, <2>5, OthersHeld
  <2> QED BY <2>2, <2>3, <2>4, <2>5, <2>6, <2>7, GateMoves
<1> QED BY <1>1, <1>2 DEF Grant

(* A claim finds no key, and so no gate that owns the server.              *)
LEMMA ClaimType ==
  ASSUME GateInv, NEW g \in Gates, gate[g].pc = "txn", key[Target(g)] = NoKey,
         gate[g].lease \in live, Put(g), live' = live
  PROVE  /\ Target(g) \in Servers
         /\ live' \subseteq Leases /\ key' \in [Servers -> KeyStates]
         /\ key'[Target(g)] = [gate |-> g, lease |-> gate[g].lease]
         /\ \A h \in Gates : h # g /\ gate[h].pc \in Owning /\ h \notin lost
              => /\ gate[h].lease \in live'
                 /\ key'[gate[h].server] = [gate |-> h, lease |-> gate[h].lease]
<1>1. gate[g].list \in SUBSET Servers /\ gate[g].list # {} /\ gate[g].lease \in Leases
  BY OneGate DEF GateInv, Listed, GateStates
<1>2. Target(g) \in Servers
  BY <1>1, FirstListed DEF Target
<1>3. /\ key' = [key EXCEPT ![Target(g)] = [gate |-> g, lease |-> gate[g].lease]]
      /\ key \in [Servers -> KeyStates] /\ live' \subseteq Leases
  BY OneGate DEF Put
<1> HIDE DEF Target
<1>4. /\ key' \in [Servers -> KeyStates]
      /\ key'[Target(g)] = [gate |-> g, lease |-> gate[g].lease]
      /\ \A s \in Servers : s # Target(g) => key'[s] = key[s]
  BY <1>1, <1>2, <1>3 DEF KeyStates
<1>5. ASSUME NEW h \in Gates, h # g, gate[h].pc \in Owning, h \notin lost
      PROVE  /\ gate[h].lease \in live'
             /\ key'[gate[h].server] = [gate |-> h, lease |-> gate[h].lease]
  <2>1. /\ gate[h].lease \in live /\ gate[h].server \in Servers
        /\ key[gate[h].server] = [gate |-> h, lease |-> gate[h].lease]
    BY <1>5 DEF GateInv, Held
  <2>2. key[gate[h].server] # NoKey
    BY <2>1 DEF NoKey
  <2> QED BY <1>4, <2>1, <2>2
<1> QED BY <1>2, <1>3, <1>4, <1>5

LEMMA TxnInv == ASSUME GateInv, NEW g \in Gates, Txn(g) PROVE GateInv'
<1>1. gate[g].pc = "txn" /\ UNCHANGED <<live, lost, conn, calm>>
  BY DEF Txn
<1>2. CASE To(g, "giveBack") /\ UNCHANGED key
  BY <1>1, <1>2, ToInv DEF Owning
<1>3. CASE To(g, "giveUp") /\ UNCHANGED key
  BY <1>1, <1>3, ToInv DEF Owning
<1>4. CASE key[Target(g)] = NoKey /\ gate[g].lease \in live /\ Put(g)
  <2> DEFINE Others == \A h \in Gates : h # g /\ gate[h].pc \in Owning /\ h \notin lost
                         => /\ gate[h].lease \in live'
                            /\ key'[gate[h].server] = [gate |-> h, lease |-> gate[h].lease]
  <2>1. /\ Target(g) \in Servers /\ live' \subseteq Leases /\ key' \in [Servers -> KeyStates]
        /\ key'[Target(g)] = [gate |-> g, lease |-> gate[g].lease] /\ Others
    BY <1>1, <1>4, ClaimType
  <2>2. CASE To(g, "giveUp")
    <3> DEFINE s == [pc |-> "giveUp", list |-> gate[g].list,
                     server |-> gate[g].server, lease |-> gate[g].lease]
    <3>1. /\ s \in GateStates /\ s.pc \notin Owning /\ s.lease = gate[g].lease
          /\ s.pc \notin {"grant", "txn", "giveBack"}
      BY OneGate DEF GateStates, Owning, Claiming
    <3>2. gate' = [gate EXCEPT ![g] = s]
      BY <2>2 DEF To, Becomes
    <3>3. s.lease # None => \A h \in Gates : h # g => gate[h].lease # s.lease
      BY <3>1, OneGate
    <3> HIDE DEF s
    <3> QED BY <1>1, <2>1, <3>1, <3>2, <3>3, GateMoves
  <2>3. CASE Becomes(g, "fetch", {}, Target(g), gate[g].lease)
    <3> DEFINE s == [pc |-> "fetch", list |-> {}, server |-> Target(g), lease |-> gate[g].lease]
    <3>1. /\ s \in GateStates /\ s.lease = gate[g].lease /\ s.server = Target(g)
          /\ s.pc \notin {"grant", "txn", "giveBack"}
      BY <2>1, OneGate DEF GateStates, Owning, Claiming
    <3>2. gate' = [gate EXCEPT ![g] = s]
      BY <2>3 DEF Becomes
    <3>3. s.lease # None => \A h \in Gates : h # g => gate[h].lease # s.lease
      BY <3>1, OneGate
    <3> HIDE DEF s
    <3>4. s.lease \in live' /\ s.server \in Servers /\ key'[s.server] = [gate |-> g, lease |-> s.lease]
      BY <1>1, <1>4, <2>1, <3>1
    <3> QED BY <1>1, <2>1, <3>1, <3>2, <3>3, <3>4, GateMoves
  <2> QED BY <1>1, <1>2, <1>4, <2>2, <2>3 DEF Txn
<1> QED BY <1>2, <1>3, <1>4 DEF Txn

LEMMA GiveBackInv == ASSUME GateInv, NEW g \in Gates, GiveBack(g) PROVE GateInv'
<1> DEFINE rest == gate[g].list \ {Target(g)}
           pc == IF rest = {} THEN "list" ELSE "grant"
           s == [pc |-> pc, list |-> rest, server |-> None, lease |-> None]
<1>1. /\ s \in GateStates /\ s.pc \notin Owning /\ s.lease = None /\ s.pc # "txn"
      /\ s.pc \in {"grant", "txn", "giveBack"} => s.list # {}
  BY OneGate DEF GateStates, Owning, Claiming
<1>2. /\ gate' = [gate EXCEPT ![g] = s] /\ gate[g].pc # "serve" /\ Revoke(g)
      /\ UNCHANGED <<lost, conn, calm>>
  BY DEF GiveBack, Becomes
<1> HIDE DEF s
<1> QED BY <1>1, <1>2, RevokeType, GateMoves

LEMMA ReleaseInv == ASSUME GateInv, NEW g \in Gates, Release(g) PROVE GateInv'
<1> DEFINE s == [pc |-> "released", list |-> gate[g].list,
                 server |-> gate[g].server, lease |-> gate[g].lease]
<1>1. /\ s \in GateStates /\ s.pc \notin Owning \cup {"grant", "txn", "giveBack"}
      /\ s.lease = gate[g].lease
  BY OneGate DEF GateStates, Owning, Claiming
<1>2. /\ gate' = [gate EXCEPT ![g] = s] /\ gate[g].pc # "serve" /\ Revoke(g)
      /\ UNCHANGED <<lost, conn, calm>>
  BY DEF Release, To, Becomes
<1>3. s.lease # None => \A h \in Gates : h # g => gate[h].lease # s.lease
  BY <1>1, OneGate
<1> HIDE DEF s
<1> QED BY <1>1, <1>2, <1>3, RevokeType, GateMoves

LEMMA ExpireInv == ASSUME GateInv, NEW l \in Leases, Expire(l) PROVE GateInv'
<1>1. /\ live' = live \ {l} /\ key' = KeysWithout(l) /\ UNCHANGED <<gate, conn, calm>>
      /\ lost' = lost \cup {g \in Gates : gate[g].lease = l /\ gate[g].pc \in Owning}
  BY DEF Expire
<1>2. key \in [Servers -> KeyStates] /\ gate \in [Gates -> GateStates] /\ conn \in [Clients -> ConnStates]
  BY DEF GateInv, GateTypeOK, KeyStates, GateStates, ConnStates
<1>3. key' \in [Servers -> KeyStates]
  BY <1>1, <1>2 DEF KeysWithout, KeyStates
<1>4. GateTypeOK'
  BY <1>1, <1>2, <1>3 DEF GateInv, GateTypeOK, KeyStates, GateStates, ConnStates
<1>5. Listed' /\ Distinct' /\ Admitted'
  BY <1>1 DEF GateInv, Listed, Distinct, Admitted, Open
<1>6. Held'
  BY <1>1, <1>2 DEF GateInv, Held, KeysWithout
<1> QED BY <1>4, <1>5, <1>6 DEF GateInv

(* A client's step changes its own connection only, and opens it only at   *)
(* a gate that serves its server, or that closes.                          *)
LEMMA ClientMoves ==
  ASSUME GateInv, NEW c \in Clients, NEW s \in ConnStates,
         conn' = [conn EXCEPT ![c] = s], UNCHANGED <<gate, key, live, lost, calm>>,
         s.pc # "idle" => s.gate \in Gates,
         s.pc = "open" /\ ~ s.late => gate[s.gate].pc = "serve" /\ gate[s.gate].server = Asks[c]
  PROVE  GateInv'
<1>1. /\ conn' \in [Clients -> ConnStates] /\ conn'[c] = s
      /\ \A d \in Clients : d # c => conn'[d] = conn[d]
  BY DEF GateInv, GateTypeOK, ConnStates
<1>2. GateTypeOK'
  BY <1>1 DEF GateInv, GateTypeOK, ConnStates
<1>3. Listed' /\ Held' /\ Distinct'
  BY DEF GateInv, Listed, Held, Distinct
<1>4. Admitted'
  BY <1>1 DEF GateInv, Admitted, Open
<1> QED BY <1>2, <1>3, <1>4 DEF GateInv

LEMMA ClientInv ==
  ASSUME GateInv, NEW c \in Clients, Resolve(c) \/ Connect(c) \/ Disconnect(c)
  PROVE  GateInv'
<1>1. Idle \in ConnStates /\ Idle.pc = "idle"
  BY DEF Idle, ConnStates
<1>2. conn[c] \in ConnStates /\ key \in [Servers -> KeyStates] /\ Asks[c] \in Servers
  BY DEF GateInv, GateTypeOK, ConnStates, KeyStates
<1>3. CASE Resolve(c)
  <2> DEFINE s == [pc |-> "routed", gate |-> key[Asks[c]].gate, late |-> FALSE]
  <2>1. key[Asks[c]].gate \in Gates
    BY <1>2, <1>3 DEF Resolve, KeyStates
  <2>2. s \in ConnStates /\ s.gate \in Gates /\ s.pc # "open"
    BY <2>1 DEF ConnStates
  <2>3. conn' = [conn EXCEPT ![c] = s] /\ UNCHANGED <<gate, key, live, lost, calm>>
    BY <1>3 DEF Resolve
  <2> HIDE DEF s
  <2> QED BY <2>2, <2>3, ClientMoves
<1>4. CASE Disconnect(c)
  BY <1>1, <1>4, ClientMoves DEF Disconnect
<1>5. CASE Connect(c)
  <2> DEFINE g == conn[c].gate
             s == [pc |-> "open", gate |-> g, late |-> (gate[g].pc = "closing")]
  <2>1. UNCHANGED <<gate, key, live, lost, calm>> /\ conn[c].pc = "routed" /\ g \in Gates
    BY <1>5 DEF Connect, GateInv, Admitted
  <2>2. CASE conn' = [conn EXCEPT ![c] = Idle]
    BY <1>1, <2>1, <2>2, ClientMoves
  <2>3. CASE /\ gate[g].pc \in {"serve", "closing"} /\ gate[g].server = Asks[c]
             /\ conn' = [conn EXCEPT ![c] = s]
    <3>1. s \in ConnStates /\ s.gate = g /\ (~ s.late => gate[g].pc = "serve")
      BY <2>1, <2>3 DEF ConnStates
    <3> HIDE DEF s
    <3> QED BY <2>1, <2>3, <3>1, ClientMoves
  <2> QED BY <1>5, <2>2, <2>3 DEF Connect
<1> QED BY <1>3, <1>4, <1>5

LEMMA GateStepInv == GateInv /\ [Next]_vars => GateInv'
<1> SUFFICES ASSUME GateInv, [Next]_vars PROVE GateInv'
  OBVIOUS
<1>1. CASE UNCHANGED vars
  BY <1>1 DEF vars, GateInv, GateTypeOK, Listed, Held, Distinct, Admitted, Open
<1>2. ASSUME NEW g \in Gates, Main(g) PROVE GateInv'
  <2>1. CASE GiveUp(g)
    BY <2>1, RevokeType, ExitInv DEF GiveUp
  <2>2. CASE Fetch(g)
    BY <2>2, ToInv DEF Fetch, Owning
  <2>3. CASE CloseListener(g)
    BY <2>3, ToInv DEF CloseListener, Owning
  <2>4. CASE Return(g)
    BY <2>4, OneGate, ExitInv DEF Return
  <2> QED BY <1>2, <2>1, <2>2, <2>3, <2>4, ListInv, GrantInv, TxnInv, GiveBackInv, ReleaseInv
          DEF Main, Acquire, Shutdown
<1>3. ASSUME NEW g \in Gates, CloseAll(g) PROVE GateInv'
  BY <1>3, ToInv DEF CloseAll, Owning
<1>4. ASSUME NEW g \in Gates, Die(g) PROVE GateInv'
  BY <1>4, OneGate, ExitInv DEF Die
<1>5. CASE Cease
  BY <1>5 DEF Cease, GateInv, GateTypeOK, Listed, Held, Distinct, Admitted, Open
<1> QED BY <1>1, <1>2, <1>3, <1>4, <1>5, StartInv, ExpireInv, ClientInv DEF Next
-----------------------------------------------------------------------------
(* Every gate, key, lease and connection stays what its type says; in      *)
(* particular Acquire always finds the first of its servers.               *)
THEOREM GateTypeCorrect == Spec => []GateTypeOK
<1>1. GateInv => GateTypeOK
  BY DEF GateInv
<1> QED BY GateInitInv, GateStepInv, <1>1, PTL DEF Spec

(* Two connections that CloseAll has not missed, to one server at two      *)
(* gates, would be at two owners of its key.                               *)
LEMMA OwnersExclude == GateInv => OneGatePerServer
<1> SUFFICES ASSUME GateInv, NEW c \in Clients, NEW d \in Clients,
                    Open(c), Open(d), Asks[c] = Asks[d],
                    ~ conn[c].late, conn[c].gate \notin lost,
                    ~ conn[d].late, conn[d].gate \notin lost
             PROVE  conn[c].gate = conn[d].gate
  BY DEF OneGatePerServer
<1> DEFINE g == conn[c].gate
           h == conn[d].gate
<1>1. /\ g \in Gates /\ gate[g].pc = "serve" /\ gate[g].server = Asks[c]
      /\ h \in Gates /\ gate[h].pc = "serve" /\ gate[h].server = Asks[c]
  BY DEF GateInv, Admitted, Open
<1>2. /\ key[Asks[c]] = [gate |-> g, lease |-> gate[g].lease]
      /\ key[Asks[c]] = [gate |-> h, lease |-> gate[h].lease]
  BY <1>1 DEF GateInv, Held, Owning
<1> QED BY <1>2

(* However gates race, fail, stop and start again, the clients of a server *)
(* are connected to one gate, unless a lease was lost or a handshake       *)
(* missed.                                                                 *)
THEOREM ServersExclusive == Spec => []OneGatePerServer
<1> QED BY GateInitInv, GateStepInv, OwnersExclude, PTL DEF Spec
=============================================================================
