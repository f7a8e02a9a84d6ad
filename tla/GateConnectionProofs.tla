------------------------ MODULE GateConnectionProofs ------------------------
(***************************************************************************)
(* Proofs about GateConnection: for any number of calls, handlers and      *)
(* session ids, a waiting call can still be answered, and no channel gets  *)
(* a second result.                                                        *)
(*                                                                         *)
(* A result's way leads from pending, through the hands of the reader or   *)
(* of Close, to the channel.  The invariant says that a call that has not  *)
(* entered pending is on no such way, that one that waits is on one, that  *)
(* nobody is on two, and that an entry stands under its call's own id.     *)
(***************************************************************************)
EXTENDS GateConnection, TLAPS

Way(c) == Entered(c) \/ held = c \/ c \in owed \/ c \in full

Single(c) ==
  /\ Entered(c) => held # c /\ c \notin owed /\ c \notin full
  /\ held = c => c \notin owed /\ c \notin full
  /\ c \in owed => c \notin full

Entries  == \A s \in Sessions : pending[s] # None => session[pending[s]] = s
Singles  == \A c \in Calls : Single(c)
Outside  == \A c \in Calls : pc[c] \in {"idle", "add"} => ~ Way(c)
Waiting  == \A c \in Calls : pc[c] \in {"lock", "write", "await"} => Way(c)
Named    == \A c \in Calls : pc[c] # "idle" => session[c] \in Sessions
Sending  == pc[Reader] = "send" <=> held # None

ConnInv == ConnTypeOK /\ Entries /\ Singles /\ Outside /\ Waiting /\ Named /\ Sending

PcStates == {"idle", "add", "lock", "write", "await", "remove", "read", "send", "close", "done"}

(* The variables that a result's way goes through.                         *)
ways == <<pending, full, held, owed>>

LEMMA WaysKept ==
  ASSUME UNCHANGED ways
  PROVE  \A c \in Calls : (Way(c)' <=> Way(c)) /\ (Single(c)' <=> Single(c))
BY DEF ways, Way, Single, Entered

(* One goroutine goes on; if it is a call, it neither enters nor begins to *)
(* wait, and the reader takes nothing and hands nothing over.              *)
LEMMA GoInv ==
  ASSUME ConnInv, ConnTypeOK', UNCHANGED <<session, ways>>,
         NEW p \in Goroutines, NEW w, Go(p, w),
         p \in Calls => /\ pc[p] # "idle"
                        /\ w \notin {"idle", "add"}
                        /\ w \in {"lock", "write", "await"} => pc[p] \in {"lock", "write", "await"},
         p = Reader => pc[p] # "send" /\ w # "send"
  PROVE  ConnInv'
<1>1. pc' = [pc EXCEPT ![p] = w] /\ pc \in [Goroutines -> PcStates] /\ Reader \in Goroutines
      /\ Calls \subseteq Goroutines
  BY DEF Go, ConnInv, ConnTypeOK, PcStates, Goroutines, Writers
<1>2. pc'[p] = w /\ \A q \in Goroutines : q # p => pc'[q] = pc[q]
  BY <1>1
<1>3. \A c \in Calls : (Way(c)' <=> Way(c)) /\ (Single(c)' <=> Single(c))
  BY WaysKept
<1>4. Entries' /\ Singles'
  BY <1>3 DEF ConnInv, Entries, Singles, ways
<1>5. Outside' /\ Waiting' /\ Named'
  BY <1>1, <1>2, <1>3 DEF ConnInv, Outside, Waiting, Named
<1>6. Sending'
  BY <1>1, <1>2 DEF ConnInv, Sending, ways
<1> QED BY <1>4, <1>5, <1>6 DEF ConnInv

LEMMA StayInv ==
  ASSUME ConnInv, ConnTypeOK', UNCHANGED <<session, pc, ways>>
  PROVE  ConnInv'
BY WaysKept DEF ConnInv, Entries, Singles, Outside, Waiting, Named, Sending, ways

LEMMA TypeStep == ConnTypeOK /\ Sending /\ [Next]_vars => ConnTypeOK'
<1> SUFFICES ASSUME ConnTypeOK, Sending, [Next]_vars PROVE ConnTypeOK'
  OBVIOUS
<1> USE DEF ConnTypeOK, Go, Leave, Written, Goroutines, Writers, callState, closeState, peerState
<1>1. CASE UNCHANGED vars
  BY <1>1 DEF vars
<1>2. ASSUME NEW c \in Calls, SendRequest(c) PROVE ConnTypeOK'
  <2>1. CASE AddPending(c)
    <3>1. session[c] \in Sessions => [pending EXCEPT ![session[c]] = c] \in [Sessions -> Calls \cup {None}]
      OBVIOUS
    <3>2. session[c] \notin Sessions => [pending EXCEPT ![session[c]] = c] = pending
      OBVIOUS
    <3> QED BY <2>1, <3>1, <3>2 DEF AddPending
  <2>2. CASE Lock(c) BY <2>2 DEF Lock
  <2>3. CASE Write(c) BY <2>3 DEF Write
  <2>4. CASE Await(c) BY <2>4 DEF Await
  <2>5. CASE RemovePending(c)
    <3>1. pending' \in [Sessions -> Calls \cup {None}]
      BY <2>5 DEF RemovePending
    <3> QED BY <2>5, <3>1 DEF RemovePending
  <2> QED BY <1>2, <2>1, <2>2, <2>3, <2>4, <2>5 DEF SendRequest
<1>3. ASSUME NEW c \in Calls, Cancel(c) \/ \E s \in Sessions : Begin(c, s) PROVE ConnTypeOK'
  BY <1>3 DEF Cancel, Begin
<1>4. ASSUME NEW h \in Handlers, HandleRequest(h) \/ ReadRequest(h) PROVE ConnTypeOK'
  BY <1>4 DEF HandleRequest, Lock, Write, ReadRequest
<1>5. ASSUME NEW s \in Sessions, ReadResponse(s) PROVE ConnTypeOK'
  BY <1>5 DEF ReadResponse
<1>6. ASSUME NEW p \in Goroutines, CloseReturns(p) PROVE ConnTypeOK'
  BY <1>6 DEF CloseReturns
<1>7. CASE Serve \/ CloseAll
  <2>1. CASE Send
    <3>1. held \in Calls
      BY <2>1 DEF Send, Sending
    <3> QED BY <2>1, <3>1 DEF Send
  <2> QED BY <1>7, <2>1 DEF Serve, Register, ReadFails, CloseAll
<1>8. CASE Close
  BY <1>8 DEF Close, CloseStart, CloseSocket, CloseSwap, CloseSend, CloseRemove
<1>9. CASE ClientStalls \/ ClientGoes
  BY <1>9 DEF ClientStalls, ClientGoes
<1> QED BY <1>1, <1>2, <1>3, <1>4, <1>5, <1>6, <1>7, <1>8, <1>9 DEF Next

LEMMA BeginInv ==
  ASSUME ConnInv, ConnTypeOK', NEW c \in Calls, NEW s \in Sessions, Begin(c, s)
  PROVE  ConnInv'
<1>1. /\ pc[c] = "idle" /\ pc' = [pc EXCEPT ![c] = "add"] /\ UNCHANGED ways
      /\ session' = [session EXCEPT ![c] = s]
  BY DEF Begin, Go, ways, closeState
<1>2. /\ pc'[c] = "add" /\ \A q \in Goroutines : q # c => pc'[q] = pc[q]
      /\ \A d \in Calls : d # c => session'[d] = session[d]
  BY <1>1 DEF ConnInv, ConnTypeOK, Goroutines, Writers
<1>3. \A d \in Calls : (Way(d)' <=> Way(d)) /\ (Single(d)' <=> Single(d))
  BY <1>1, WaysKept
<1>4. ~ Way(c)
  BY <1>1 DEF ConnInv, Outside
<1>5. Entries'
  <2> SUFFICES ASSUME NEW t \in Sessions, pending'[t] # None PROVE session'[pending'[t]] = t
    BY DEF Entries
  <2>1. pending'[t] = pending[t] /\ pending[t] \in Calls
    BY <1>1 DEF ways, ConnInv, ConnTypeOK
  <2>2. pending[t] # c
    BY <1>4 DEF Way, Entered
  <2> QED BY <1>2, <2>1, <2>2 DEF ConnInv, Entries
<1>6. Singles' /\ Outside' /\ Waiting' /\ Named'
  <2>1. session'[c] = s
    BY <1>1 DEF ConnInv, ConnTypeOK
  <2>2. Calls \subseteq Goroutines
    BY DEF Goroutines, Writers
  <2> QED BY <1>2, <1>3, <1>4, <2>1, <2>2 DEF ConnInv, Singles, Outside, Waiting, Named
<1>7. Sending'
  BY <1>1, <1>2, ConnAssumption DEF ConnInv, Sending, ways, Goroutines
<1> QED BY <1>5, <1>6, <1>7 DEF ConnInv

LEMMA AddPendingInv ==
  ASSUME ConnInv, ConnTypeOK', NEW c \in Calls, AddPending(c)
  PROVE  ConnInv'
<1>1. pc[c] = "add" /\ UNCHANGED <<session, full, held, owed>>
  BY DEF AddPending, callState, closeState
<1>2. CASE ~ (pending[session[c]] = None /\ ~ Closed)
  BY <1>1, <1>2, GoInv, ConnAssumption DEF AddPending, ways, Goroutines, Writers
<1>3. CASE pending[session[c]] = None /\ ~ Closed
  <2> DEFINE s == session[c]
  <2>1. pc' = [pc EXCEPT ![c] = "lock"] /\ pending' = [pending EXCEPT ![s] = c] /\ pending[s] = None
    BY <1>3 DEF AddPending, Go
  <2>2. /\ pc'[c] = "lock" /\ \A q \in Goroutines : q # c => pc'[q] = pc[q]
    BY <2>1 DEF ConnInv, ConnTypeOK, Goroutines, Writers
  <2>3. ~ Way(c)
    BY <1>1 DEF ConnInv, Outside
  <2>4. s \in Sessions /\ c # None /\ Calls \subseteq Goroutines
    BY <1>1, ConnAssumption DEF ConnInv, Named, Goroutines, Writers
  <2>5. pending'[s] = c /\ \A t \in Sessions : t # s => pending'[t] = pending[t]
    BY <2>1, <2>4 DEF ConnInv, ConnTypeOK
  <2>6. Entered(c)' /\ \A d \in Calls : d # c => (Entered(d)' <=> Entered(d))
    BY <2>1, <2>4, <2>5, ConnAssumption DEF Entered
  <2>7. \A d \in Calls : d # c => (Way(d)' <=> Way(d)) /\ (Single(d)' <=> Single(d))
    BY <1>1, <2>6 DEF Way, Single
  <2>8. Way(c)' /\ Single(c)'
    BY <1>1, <2>3, <2>6 DEF Way, Single
  <2>9. Entries'
    BY <1>1, <2>5 DEF ConnInv, Entries
  <2>10. Singles' /\ Outside' /\ Waiting' /\ Named'
    BY <1>1, <2>2, <2>4, <2>7, <2>8 DEF ConnInv, Singles, Outside, Waiting, Named
  <2>11. Sending'
    BY <1>1, <2>2, ConnAssumption DEF ConnInv, Sending, Goroutines
  <2> QED BY <2>9, <2>10, <2>11 DEF ConnInv
<1> QED BY <1>2, <1>3

(* A channel moves from one station of its way to the next, or its result  *)
(* is taken by a call that stops waiting; the goroutine p goes on.         *)
LEMMA AwaitInv ==
  ASSUME ConnInv, ConnTypeOK', NEW c \in Calls, Await(c)
  PROVE  ConnInv'
<1>1. /\ pc[c] = "await" /\ pc' = [pc EXCEPT ![c] = "remove"]
      /\ UNCHANGED <<session, pending, held, owed>>
      /\ full' = full \/ (c \in full /\ full' = full \ {c})
  BY DEF Await, Leave, Go, callState, closeState
<1>2. pc'[c] = "remove" /\ (\A q \in Goroutines : q # c => pc'[q] = pc[q]) /\ Calls \subseteq Goroutines
  BY <1>1 DEF ConnInv, ConnTypeOK, Goroutines, Writers
<1>3. \A d \in Calls : (Entered(d)' <=> Entered(d)) /\ (d \in full' => d \in full)
  BY <1>1 DEF Entered
<1>4. \A d \in Calls : (Single(d) => Single(d)') /\ (d # c => (Way(d)' <=> Way(d)))
  BY <1>1, <1>3 DEF Single, Way
<1>5. Entries' /\ Singles'
  BY <1>1, <1>4 DEF ConnInv, Entries, Singles
<1>6. Outside' /\ Waiting' /\ Named'
  BY <1>1, <1>2, <1>4 DEF ConnInv, Outside, Waiting, Named
<1>7. Sending'
  BY <1>1, <1>2, ConnAssumption DEF ConnInv, Sending, Goroutines
<1> QED BY <1>5, <1>6, <1>7 DEF ConnInv

LEMMA RemoveInv ==
  ASSUME ConnInv, ConnTypeOK', NEW c \in Calls, RemovePending(c)
  PROVE  ConnInv'
<1> DEFINE s == session[c]
<1>1. /\ pc[c] = "remove" /\ pc' = [pc EXCEPT ![c] = "done"]
      /\ pending' = [pending EXCEPT ![s] = IF @ = c THEN None ELSE @]
      /\ UNCHANGED <<session, full, held, owed>>
  BY DEF RemovePending, Go, callState, closeState
<1>2. pc'[c] = "done" /\ (\A q \in Goroutines : q # c => pc'[q] = pc[q]) /\ Calls \subseteq Goroutines
  BY <1>1 DEF ConnInv, ConnTypeOK, Goroutines, Writers
<1>3. \A t \in Sessions : pending'[t] = pending[t] \/ (pending[t] = c /\ pending'[t] = None)
  BY <1>1 DEF ConnInv, ConnTypeOK
<1>4. \A d \in Calls : (Entered(d)' => Entered(d)) /\ (d # c => (Entered(d)' <=> Entered(d)))
  BY <1>3, ConnAssumption DEF Entered
<1>5. \A d \in Calls : (Single(d) => Single(d)') /\ (d # c => (Way(d)' <=> Way(d)))
  BY <1>1, <1>4 DEF Single, Way
<1>6. Entries' /\ Singles'
  BY <1>1, <1>3, <1>5 DEF ConnInv, Entries, Singles
<1>7. Outside' /\ Waiting' /\ Named'
  BY <1>1, <1>2, <1>5 DEF ConnInv, Outside, Waiting, Named
<1>8. Sending'
  BY <1>1, <1>2, ConnAssumption DEF ConnInv, Sending, Goroutines
<1> QED BY <1>6, <1>7, <1>8 DEF ConnInv

LEMMA ReadResponseInv ==
  ASSUME ConnInv, ConnTypeOK', NEW s \in Sessions, NEW c, c = pending[s], ReadResponse(s)
  PROVE  ConnInv'
<1>1. /\ pc[Reader] = "read" /\ pc' = [pc EXCEPT ![Reader] = "send"]
      /\ pending' = [pending EXCEPT ![s] = None] /\ held' = c /\ c # None
      /\ UNCHANGED <<session, full, owed>>
  BY DEF ReadResponse, Go, callState, closeState
<1>2. /\ pc'[Reader] = "send" /\ (\A q \in Goroutines : q # Reader => pc'[q] = pc[q])
      /\ Calls \subseteq Goroutines /\ Reader \notin Calls
  BY <1>1, ConnAssumption DEF ConnInv, ConnTypeOK, Goroutines, Writers
<1>3. pending'[s] = None /\ \A t \in Sessions : t # s => pending'[t] = pending[t]
  BY <1>1 DEF ConnInv, ConnTypeOK
<1>4. c \in Calls /\ Entered(c) /\ held = None
  BY <1>1 DEF ConnInv, ConnTypeOK, Entered, Sending
<1>5. \A t \in Sessions : pending[t] = c => t = s
  BY <1>1, <1>4 DEF ConnInv, Entries
<1>6. ~ Entered(c)' /\ \A d \in Calls : d # c => (Entered(d)' <=> Entered(d))
  BY <1>3, <1>4, <1>5, ConnAssumption DEF Entered
<1>7. \A d \in Calls : held # d /\ (d # c => held' # d)
  BY <1>1, <1>4, ConnAssumption
<1>8. Way(c) /\ Way(c)' /\ (Single(c) => Single(c)')
  BY <1>1, <1>4, <1>6 DEF Way, Single
<1>9. \A d \in Calls : d # c => (Way(d)' <=> Way(d)) /\ (Single(d) => Single(d)')
  BY <1>1, <1>6, <1>7 DEF Way, Single
<1>10. Entries'
  BY <1>1, <1>3 DEF ConnInv, Entries
<1>11. Singles' /\ Outside' /\ Waiting' /\ Named'
  BY <1>1, <1>2, <1>4, <1>8, <1>9 DEF ConnInv, Singles, Outside, Waiting, Named
<1>12. Sending'
  BY <1>1, <1>2 DEF Sending
<1> QED BY <1>10, <1>11, <1>12 DEF ConnInv

LEMMA SendInv ==
  ASSUME ConnInv, ConnTypeOK', NEW c, c = held, Send
  PROVE  ConnInv'
<1>1. /\ pc[Reader] = "send" /\ pc' = [pc EXCEPT ![Reader] = "read"]
      /\ full' = full \cup {c} /\ held' = None
      /\ UNCHANGED <<session, pending, owed>>
  BY DEF Send, Go, callState, closeState
<1>2. /\ pc'[Reader] = "read" /\ (\A q \in Goroutines : q # Reader => pc'[q] = pc[q])
      /\ Calls \subseteq Goroutines /\ Reader \notin Calls
  BY <1>1, ConnAssumption DEF ConnInv, ConnTypeOK, Goroutines, Writers
<1>3. c \in Calls /\ \A d \in Calls : held' # d
  BY <1>1, ConnAssumption DEF ConnInv, ConnTypeOK, Sending
<1>4. \A d \in Calls : Entered(d)' <=> Entered(d)
  BY <1>1 DEF Entered
<1>5. Way(c) /\ Way(c)' /\ (Single(c) => Single(c)')
  BY <1>1, <1>3, <1>4 DEF Way, Single
<1>6. \A d \in Calls : d # c => (Way(d)' <=> Way(d)) /\ (Single(d) => Single(d)')
  BY <1>1, <1>3, <1>4 DEF Way, Single
<1>7. Entries'
  BY <1>1 DEF ConnInv, Entries
<1>8. Singles' /\ Outside' /\ Waiting' /\ Named'
  BY <1>1, <1>2, <1>3, <1>5, <1>6 DEF ConnInv, Singles, Outside, Waiting, Named
<1>9. Sending'
  BY <1>1, <1>2 DEF Sending
<1> QED BY <1>7, <1>8, <1>9 DEF ConnInv

(* Close owes nobody before it takes the channels out of pending.          *)
OwesLater == once \in {"new", "socket", "swap"} => owed = {}

LEMMA OwesLaterStep == OwesLater /\ [Next]_vars => OwesLater'
<1> SUFFICES ASSUME OwesLater, [Next]_vars PROVE OwesLater'
  OBVIOUS
<1> USE DEF OwesLater
<1>1. CASE Close
  BY <1>1 DEF Close, CloseStart, CloseSocket, CloseSwap, CloseSend, CloseRemove
<1>2. CASE UNCHANGED closeState
  BY <1>2 DEF closeState
<1>3. Close \/ UNCHANGED closeState
  BY DEF vars, Next, SendRequest, AddPending, Lock, Write, Await, RemovePending, Cancel, Begin,
         HandleRequest, ReadRequest, ReadResponse, CloseReturns, Serve, Register, Send, ReadFails,
         CloseAll, ClientStalls, ClientGoes, closeState
<1> QED BY <1>1, <1>2, <1>3

LEMMA CloseSwapInv ==
  ASSUME ConnInv, ConnTypeOK', CloseSwap, owed = {}
  PROVE  ConnInv'
<1>1. /\ owed' = {c \in Calls : Entered(c)} /\ pending' = [s \in Sessions |-> None]
      /\ UNCHANGED <<pc, session, full, held>>
  BY DEF CloseSwap, Entered, callState
<1>2. \A c \in Calls : ~ Entered(c)' /\ (c \in owed' <=> Entered(c))
  BY <1>1, ConnAssumption DEF Entered
<1>3. \A c \in Calls : (Way(c)' <=> Way(c)) /\ (Single(c) => Single(c)')
  BY <1>1, <1>2 DEF Way, Single
<1>4. Entries' /\ Sending' /\ Named'
  BY <1>1 DEF ConnInv, Entries, Sending, Named
<1>5. Singles' /\ Outside' /\ Waiting'
  BY <1>1, <1>3 DEF ConnInv, Singles, Outside, Waiting
<1> QED BY <1>4, <1>5 DEF ConnInv

LEMMA CloseSendInv ==
  ASSUME ConnInv, ConnTypeOK', NEW c \in Calls, CloseSend(c)
  PROVE  ConnInv'
<1>1. /\ full' = full \cup {c} /\ owed' = owed \ {c} /\ c \in owed
      /\ UNCHANGED <<pc, session, pending, held>>
  BY DEF CloseSend, callState
<1>2. \A d \in Calls : Entered(d)' <=> Entered(d)
  BY <1>1 DEF Entered
<1>3. \A d \in Calls : (Way(d)' <=> Way(d)) /\ (Single(d) => Single(d)')
  BY <1>1, <1>2 DEF Way, Single
<1>4. Entries' /\ Sending' /\ Named'
  BY <1>1 DEF ConnInv, Entries, Sending, Named
<1>5. Singles' /\ Outside' /\ Waiting'
  BY <1>1, <1>3 DEF ConnInv, Singles, Outside, Waiting
<1> QED BY <1>4, <1>5 DEF ConnInv

LEMMA WriterInv ==
  ASSUME ConnInv, ConnTypeOK', NEW p \in Writers, Lock(p) \/ Write(p)
  PROVE  ConnInv'
<1>1. p \in Goroutines /\ p # Reader /\ (p \in Handlers => p \notin Calls)
  BY ConnAssumption DEF Writers, Goroutines
<1>2. UNCHANGED <<session, ways>> /\ (Lock(p) => pc[p] = "lock") /\ (Write(p) => pc[p] = "write")
  BY DEF Lock, Write, ways, callState, closeState
<1>3. PICK w \in {"write", "await", "remove", "close", "done"} : Go(p, w) /\ (p \in Calls => w # "done")
  BY DEF Lock, Write, Leave, Written
<1> QED BY <1>1, <1>2, <1>3, GoInv

LEMMA CloseReturnsInv ==
  ASSUME ConnInv, ConnTypeOK', NEW p \in Goroutines, CloseReturns(p)
  PROVE  ConnInv'
<1>1. UNCHANGED <<session, ways>> /\ pc[p] = "close"
  BY DEF CloseReturns, ways, callState, closeState
<1>2. PICK w \in {"remove", "done"} : Go(p, w)
  BY DEF CloseReturns, Leave
<1> QED BY <1>1, <1>2, GoInv

LEMMA ConnStep == ConnInv /\ OwesLater /\ [Next]_vars => ConnInv'
<1> SUFFICES ASSUME ConnInv, OwesLater, [Next]_vars PROVE ConnInv'
  OBVIOUS
<1>1. ConnTypeOK'
  BY TypeStep DEF ConnInv
<1>2. CASE UNCHANGED vars
  BY <1>1, <1>2, StayInv DEF vars, ways
<1>3. ASSUME NEW c \in Calls, SendRequest(c) PROVE ConnInv'
  BY <1>1, <1>3, AddPendingInv, WriterInv, AwaitInv, RemoveInv DEF SendRequest, Writers
<1>4. ASSUME NEW c \in Calls, Cancel(c) PROVE ConnInv'
  BY <1>1, <1>4, StayInv DEF Cancel, ways, closeState
<1>5. ASSUME NEW c \in Calls, NEW s \in Sessions, Begin(c, s) PROVE ConnInv'
  BY <1>1, <1>5, BeginInv
<1>6. ASSUME NEW h \in Handlers, HandleRequest(h) PROVE ConnInv'
  BY <1>1, <1>6, WriterInv DEF HandleRequest, Writers
<1>7. ASSUME NEW h \in Handlers, ReadRequest(h) PROVE ConnInv'
  <2>1. h \in Goroutines /\ h # Reader /\ h \notin Calls
    BY ConnAssumption DEF Goroutines, Writers
  <2>2. UNCHANGED <<session, ways>> /\ Go(h, "lock")
    BY <1>7 DEF ReadRequest, ways, callState, closeState
  <2> QED BY <1>1, <2>1, <2>2, GoInv
<1>8. ASSUME NEW s \in Sessions, ReadResponse(s) PROVE ConnInv'
  BY <1>1, <1>8, ReadResponseInv
<1>9. ASSUME NEW p \in Goroutines, CloseReturns(p) PROVE ConnInv'
  BY <1>1, <1>9, CloseReturnsInv
<1>10. CASE Register \/ ReadFails
  <2>1. PICK w \in {"read", "close"} : Go(Reader, w)
    BY <1>10 DEF Register, ReadFails
  <2>2. UNCHANGED <<session, ways>> /\ pc[Reader] # "send" /\ Reader \in Goroutines /\ Reader \notin Calls
    BY <1>10, ConnAssumption DEF Register, ReadFails, ways, callState, closeState, Goroutines
  <2> QED BY <1>1, <2>1, <2>2, GoInv
<1>11. CASE Send
  BY <1>1, <1>11, SendInv
<1>12. CASE CloseAll
  <2>1. PICK w \in {"close", "done"} : Go(Shutdown, w)
    BY <1>12 DEF CloseAll
  <2>2. UNCHANGED <<session, ways>> /\ Shutdown \in Goroutines /\ Shutdown \notin Calls /\ Shutdown # Reader
    BY <1>12, ConnAssumption DEF CloseAll, ways, callState, closeState, Goroutines
  <2> QED BY <1>1, <2>1, <2>2, GoInv
<1>13. CASE CloseStart \/ CloseSocket \/ CloseRemove
  BY <1>1, <1>13, StayInv DEF CloseStart, CloseSocket, CloseRemove, ways, callState
<1>14. CASE CloseSwap
  <2>1. owed = {}
    BY <1>14 DEF CloseSwap, OwesLater
  <2> QED BY <1>1, <1>14, <2>1, CloseSwapInv
<1>15. ASSUME NEW c \in Calls, CloseSend(c) PROVE ConnInv'
  BY <1>1, <1>15, CloseSendInv
<1>16. CASE ClientStalls \/ ClientGoes
  BY <1>1, <1>16, StayInv DEF ClientStalls, ClientGoes, ways, callState, closeState
<1> QED BY <1>2, <1>3, <1>4, <1>5, <1>6, <1>7, <1>8, <1>9, <1>10, <1>11, <1>12, <1>13, <1>14,
           <1>15, <1>16 DEF Next, Serve, Close

LEMMA ConnInit == Init => ConnInv /\ OwesLater
<1> SUFFICES ASSUME Init PROVE ConnInv /\ OwesLater
  OBVIOUS
<1>1. ConnTypeOK /\ Entries /\ Named /\ Sending /\ OwesLater
  BY ConnAssumption DEF Init, ConnTypeOK, Entries, Named, Sending, OwesLater, Goroutines, Writers
<1>2. \A c \in Calls : ~ Way(c) /\ Single(c)
  BY ConnAssumption DEF Init, Way, Single, Entered
<1>3. \A c \in Calls : pc[c] = "idle"
  BY ConnAssumption DEF Init, Goroutines, Writers
<1> QED BY <1>1, <1>2, <1>3 DEF ConnInv, Singles, Outside, Waiting

LEMMA ConnAlways == Spec => [](ConnInv /\ OwesLater)
BY ConnInit, ConnStep, OwesLaterStep, PTL DEF Spec

(* Every reachable state of a connection has the types ConnTypeOK states   *)
(* (the state of connection.go, manager.go and handler.go).                *)
THEOREM ConnTypeCorrect == Spec => []ConnTypeOK
<1>1. ConnInv => ConnTypeOK
  BY DEF ConnInv
<1> QED BY <1>1, ConnAlways, PTL

(* A call of SendRequest that waits can still be answered, for any number  *)
(* of calls, however they share session ids, and whoever closes.           *)
THEOREM WaitersAnswered == Spec => []StillAnswered
<1>1. ConnInv => StillAnswered
  BY DEF ConnInv, Waiting, StillAnswered, Way, Ways
<1> QED BY <1>1, ConnAlways, PTL

(* No channel of SendRequest gets a second result, so neither the reader   *)
(* nor Close blocks on one, for any number of calls and session ids.       *)
THEOREM ResultsSingle == Spec => []OneResult
<1>1. ASSUME ConnInv, NEW c \in Calls, NEW v \in Ways(c), NEW w \in Ways(c) PROVE v = w
  <2>1. Single(c)
    BY <1>1 DEF ConnInv, Singles
  <2> QED BY <2>1 DEF Single, Ways
<1>2. ConnInv => OneResult
  BY <1>1 DEF OneResult
<1> QED BY <1>2, ConnAlways, PTL
=============================================================================
