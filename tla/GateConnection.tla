--------------------------- MODULE GateConnection ---------------------------
(***************************************************************************)
(* gate_server: the goroutines of one managed WebSocket connection.        *)
(*                                                                         *)
(* SendRequest enters a channel of its own under its session id, writes    *)
(* the request under writeMu, and waits for a result, its context or the   *)
(* close of the connection; the one reader hands responses to the waiting  *)
(* channels and starts a goroutine for each request; a failed write, the   *)
(* end of the reader and CloseAll close the connection, which happens once *)
(* while every other caller of Close waits for it.                         *)
(*                                                                         *)
(* The client is external: it answers the requests that have reached it,   *)
(* late and more than once as it likes, it may stop reading, and it may    *)
(* go.  What pendingMu guards is one action, for nothing blocks inside.    *)
(***************************************************************************)
CONSTANTS
  Calls,       \* calls of SendRequest, each with a channel of its own
  Handlers,    \* goroutines that answer a request of the client
  Sessions,    \* session ids
  MayUse,      \* the ids that each call may be given; callers reuse them as they like
  Deadlines,   \* the calls whose context can end
  Reader,      \* the goroutine of ServeHTTP
  Shutdown,    \* the goroutine of CloseAll
  None,
  Faults       \* write, stall

ASSUME ConnAssumption ==
  /\ MayUse \in [Calls -> SUBSET Sessions]
  /\ None \notin Calls \cup Handlers \cup Sessions
  /\ Calls \cap Handlers = {} /\ {Reader, Shutdown} \cap (Calls \cup Handlers) = {}
  /\ Reader # Shutdown

VARIABLES
  pc,          \* where each goroutine is
  session,     \* the session id of each call
  cancelled,   \* the calls whose context is done
  pending,     \* the channel, named by its call, that waits under a session id
  full,        \* the channels that hold a result; their capacity is one
  held,        \* the channel that dispatchResponse has taken out of pending
  owed,        \* the channels that Close has taken out and not sent to yet
  writer,      \* who holds writeMu
  once,        \* how far Close has come
  registered,  \* is the connection in the manager
  client,      \* here, stalled or gone
  sent         \* the calls whose request has reached the client

vars == <<pc, session, cancelled, pending, full, held, owed, writer, once, registered,
          client, sent>>

Writers    == Calls \cup Handlers
Goroutines == Writers \cup {Reader, Shutdown}

Closed     == once # "new"
SocketShut == once \notin {"new", "socket"}

ConnTypeOK ==
  /\ pc \in [Goroutines -> {"idle", "add", "lock", "write", "await", "remove",
                            "read", "send", "close", "done"}]
  /\ session \in [Calls -> Sessions \cup {None}]
  /\ pending \in [Sessions -> Calls \cup {None}]
  /\ held \in Calls \cup {None}
  /\ cancelled \subseteq Calls /\ full \subseteq Calls /\ owed \subseteq Calls /\ sent \subseteq Calls
  /\ writer \in Writers \cup {None}
  /\ once \in {"new", "socket", "swap", "send", "remove", "done"}
  /\ registered \in BOOLEAN
  /\ client \in {"here", "stalled", "gone"}

(* The handshake has succeeded; ServeHTTP has yet to register it.          *)
Init ==
  /\ pc = [p \in Goroutines |-> IF p = Reader THEN "add" ELSE "idle"]
  /\ session = [c \in Calls |-> None]
  /\ cancelled = {} /\ full = {} /\ owed = {} /\ sent = {}
  /\ pending = [s \in Sessions |-> None]
  /\ held = None /\ writer = None /\ once = "new"
  /\ registered = FALSE
  /\ client = "here"

Go(p, where) == pc' = [pc EXCEPT ![p] = where]

(* SendRequest returns through removePending, the others just return.      *)
Leave(p) == Go(p, IF p \in Calls THEN "remove" ELSE "done")

closeState == <<owed, once>>
callState  == <<session, cancelled>>
peerState  == <<client, sent>>

(* Manager.SendRequest finds the connection.                               *)
Begin(c, s) ==
  /\ pc[c] = "idle" /\ registered /\ s \in MayUse[c]
  /\ Go(c, "add")
  /\ session' = [session EXCEPT ![c] = s]
  /\ UNCHANGED <<cancelled, pending, full, held, writer, registered, closeState, peerState>>

AddPending(c) ==
  LET free == pending[session[c]] = None /\ ~ Closed
  IN /\ pc[c] = "add"
     /\ Go(c, IF free THEN "lock" ELSE "done")
     /\ pending' = IF free THEN [pending EXCEPT ![session[c]] = c] ELSE pending
     /\ UNCHANGED <<full, held, writer, registered, callState, closeState, peerState>>

(* writeJSON takes writeMu and looks at closed.                            *)
Lock(p) ==
  /\ pc[p] = "lock" /\ writer = None
  /\ IF Closed THEN Leave(p) /\ UNCHANGED writer ELSE Go(p, "write") /\ writer' = p
  /\ UNCHANGED <<pending, full, held, registered, callState, closeState, peerState>>

Written(p) == IF p \in Calls THEN Go(p, "await") ELSE Go(p, "done")

(* A write to a client that does not read blocks until the socket shuts.   *)
(* A failed write closes the connection while it holds writeMu.            *)
Write(p) ==
  /\ pc[p] = "write"
  /\ \/ /\ ~ SocketShut /\ client # "stalled"
        /\ Written(p)
        /\ writer' = None
        /\ sent' = IF p \in Calls THEN sent \cup {p} ELSE sent
     \/ /\ SocketShut \/ client = "gone" \/ "write" \in Faults
        /\ Go(p, "close")
        /\ UNCHANGED <<writer, sent>>
  /\ UNCHANGED <<pending, full, held, registered, client, callState, closeState>>

(* Mutant: the wait does not look at the context.                          *)
AwaitIgnoresContext(c) ==
  /\ pc[c] = "await"
  /\ \/ c \in full /\ full' = full \ {c}
     \/ Closed /\ UNCHANGED full
  /\ Leave(c)
  /\ UNCHANGED <<pending, held, writer, registered, callState, closeState, peerState>>

(* Of several that are ready, select takes any.                            *)
Await(c) ==
  /\ pc[c] = "await"
  /\ \/ c \in full /\ full' = full \ {c}
     \/ (c \in cancelled \/ Closed) /\ UNCHANGED full
  /\ Leave(c)
  /\ UNCHANGED <<pending, held, writer, registered, callState, closeState, peerState>>

(* Mutant: the entry is removed whoever put it there.                      *)
RemoveAnyones(c) ==
  /\ pc[c] = "remove"
  /\ pending' = [pending EXCEPT ![session[c]] = None]
  /\ Go(c, "done")
  /\ UNCHANGED <<full, held, writer, registered, callState, closeState, peerState>>

RemovePending(c) ==
  /\ pc[c] = "remove"
  /\ pending' = [pending EXCEPT ![session[c]] = IF @ = c THEN None ELSE @]
  /\ Go(c, "done")
  /\ UNCHANGED <<full, held, writer, registered, callState, closeState, peerState>>

Cancel(c) ==
  /\ c \in Deadlines \ cancelled
  /\ pc[c] \notin {"idle", "done"}
  /\ cancelled' = cancelled \cup {c}
  /\ UNCHANGED <<pc, session, pending, full, held, writer, registered, closeState, peerState>>

Register ==
  /\ pc[Reader] = "add"
  /\ registered' = TRUE
  /\ Go(Reader, "read")
  /\ UNCHANGED <<pending, full, held, writer, callState, closeState, peerState>>

Answerable == {session[c] : c \in sent}

(* Mutant: the entry stays in pending.                                     *)
ReadResponseKeeps(s) ==
  /\ pc[Reader] = "read" /\ ~ SocketShut /\ client # "gone"
  /\ s \in Answerable /\ pending[s] # None
  /\ held' = pending[s]
  /\ Go(Reader, "send")
  /\ UNCHANGED <<pending, full, writer, registered, callState, closeState, peerState>>

(* A response; one that no entry waits for is dropped.                     *)
ReadResponse(s) ==
  /\ pc[Reader] = "read" /\ ~ SocketShut /\ client # "gone"
  /\ s \in Answerable /\ pending[s] # None
  /\ held' = pending[s]
  /\ pending' = [pending EXCEPT ![s] = None]
  /\ Go(Reader, "send")
  /\ UNCHANGED <<full, writer, registered, callState, closeState, peerState>>

(* Mutant: the channel has no buffer, the send waits for a receiver.       *)
SendUnbuffered ==
  /\ pc[Reader] = "send" /\ pc[held] = "await"
  /\ full' = full \cup {held}
  /\ held' = None
  /\ Go(Reader, "read")
  /\ UNCHANGED <<pending, writer, registered, callState, closeState, peerState>>

Send ==
  /\ pc[Reader] = "send" /\ held \notin full
  /\ full' = full \cup {held}
  /\ held' = None
  /\ Go(Reader, "read")
  /\ UNCHANGED <<pending, writer, registered, callState, closeState, peerState>>

(* A request of the client; its goroutine ends in writeJSON.               *)
ReadRequest(h) ==
  /\ pc[Reader] = "read" /\ ~ SocketShut /\ client # "gone"
  /\ pc[h] = "idle"
  /\ Go(h, "lock")
  /\ UNCHANGED <<pending, full, held, writer, registered, callState, closeState, peerState>>

(* The loop ends, and with it ServeHTTP, whose deferred call is Close.     *)
ReadFails ==
  /\ pc[Reader] = "read" /\ (SocketShut \/ client = "gone")
  /\ Go(Reader, "close")
  /\ UNCHANGED <<pending, full, held, writer, registered, callState, closeState, peerState>>

(* CloseAll closes what is registered when it looks.                       *)
CloseAll ==
  /\ pc[Shutdown] = "idle"
  /\ Go(Shutdown, IF registered THEN "close" ELSE "done")
  /\ UNCHANGED <<pending, full, held, writer, registered, callState, closeState, peerState>>

(* closeOnce: the first to come closes, and everybody waits for the end.   *)
CloseStart ==
  /\ once = "new"
  /\ \E p \in Goroutines : pc[p] = "close"
  /\ once' = "socket"
  /\ UNCHANGED <<pc, pending, full, held, owed, writer, registered, callState, peerState>>

(* Mutant: the socket is closed under writeMu.                             *)
CloseSocketLocks ==
  /\ once = "socket" /\ writer = None
  /\ once' = "swap"
  /\ UNCHANGED <<pc, pending, full, held, owed, writer, registered, callState, peerState>>

CloseSocket ==
  /\ once = "socket"
  /\ once' = "swap"
  /\ UNCHANGED <<pc, pending, full, held, owed, writer, registered, callState, peerState>>

CloseSwap ==
  /\ once = "swap"
  /\ owed' = {c \in Calls : \E s \in Sessions : pending[s] = c}
  /\ pending' = [s \in Sessions |-> None]
  /\ once' = "send"
  /\ UNCHANGED <<pc, full, held, writer, registered, callState, peerState>>

CloseSend(c) ==
  /\ once = "send" /\ c \in owed /\ c \notin full
  /\ full' = full \cup {c}
  /\ owed' = owed \ {c}
  /\ UNCHANGED <<pc, pending, held, once, writer, registered, callState, peerState>>

(* onClose: the manager forgets the connection.                            *)
CloseRemove ==
  /\ once = "send" /\ owed = {}
  /\ registered' = FALSE
  /\ once' = "done"
  /\ UNCHANGED <<pc, pending, full, held, owed, writer, callState, peerState>>

CloseReturns(p) ==
  /\ pc[p] = "close" /\ once = "done"
  /\ Leave(p)
  /\ writer' = IF writer = p THEN None ELSE writer
  /\ UNCHANGED <<pending, full, held, registered, callState, closeState, peerState>>

ClientStalls ==
  /\ "stall" \in Faults /\ client = "here"
  /\ client' = "stalled"
  /\ UNCHANGED <<pc, pending, full, held, writer, registered, sent, callState, closeState>>

ClientGoes ==
  /\ client # "gone"
  /\ client' = "gone"
  /\ UNCHANGED <<pc, pending, full, held, writer, registered, sent, callState, closeState>>

SendRequest(c) == AddPending(c) \/ Lock(c) \/ Write(c) \/ Await(c) \/ RemovePending(c)
HandleRequest(h) == Lock(h) \/ Write(h)
Serve == Register \/ Send \/ ReadFails
Close == CloseStart \/ CloseSocket \/ CloseSwap \/ CloseRemove \/ \E c \in Calls : CloseSend(c)

Next ==
  \/ \E c \in Calls : SendRequest(c) \/ Cancel(c) \/ \E s \in Sessions : Begin(c, s)
  \/ \E h \in Handlers : HandleRequest(h) \/ ReadRequest(h)
  \/ \E s \in Sessions : ReadResponse(s)
  \/ \E p \in Goroutines : CloseReturns(p)
  \/ Serve \/ CloseAll \/ Close \/ ClientStalls \/ ClientGoes

Spec == Init /\ [][Next]_vars

(* Goroutines that can go on do.  Nobody has to call, to answer or to go.  *)
FairSpec ==
  /\ Spec
  /\ WF_vars(Serve) /\ WF_vars(Close)
  /\ \A c \in Calls : WF_vars(SendRequest(c))
  /\ \A h \in Handlers : WF_vars(HandleRequest(h))
  /\ \A p \in Goroutines : WF_vars(CloseReturns(p))
-----------------------------------------------------------------------------
(* Where the result of a call can be or come from.                         *)
Entered(c) == \E s \in Sessions : pending[s] = c
Ways(c) == {w \in {"pending", "held", "owed", "full"} :
              \/ w = "pending" /\ Entered(c)
              \/ w = "held"    /\ held = c
              \/ w = "owed"    /\ c \in owed
              \/ w = "full"    /\ c \in full}

(* A call that waits can still be answered: its channel is in pending, or  *)
(* whoever took it out will send, or the result is there; also when calls  *)
(* before it used the same session id, and whoever closes meanwhile.       *)
StillAnswered == \A c \in Calls : pc[c] \in {"lock", "write", "await"} => Ways(c) # {}

(* No channel gets a second result: whoever is about to send finds its     *)
(* buffer empty, so that neither the reader nor Close ever blocks, whether *)
(* the call is still waiting or has left.                                  *)
OneResult == \A c \in Calls : \A v, w \in Ways(c) : v = w

(* A call whose context is done returns, unless the client does not read   *)
(* and the write, or the wait for writeMu behind one, holds it up.         *)
CancelReturns ==
  \A c \in Calls : c \in cancelled ~> pc[c] = "done" \/ (client = "stalled" /\ ~ Closed)

(* Once the connection closes, everything ends: all calls return, also one *)
(* that blocks in a write or itself called Close with writeMu in its hand, *)
(* and the manager has forgotten the connection.                           *)
ClosedEnds ==
  Closed ~> ~ registered /\ \A p \in Goroutines : pc[p] \in {"idle", "done"}

(* When the client goes, the reader, wherever it is, finds out, and the    *)
(* connection is closed and forgotten.                                     *)
GoneUnregistered == client = "gone" ~> ~ registered /\ pc[Reader] = "done"
=============================================================================
