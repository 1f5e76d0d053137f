---------------------------- MODULE NotifyProofs -----------------------------
(***************************************************************************)
(* Proofs about Notify: the names and the descriptors of Unix-domain       *)
(* sockets go together for every set of programs and of paths, however     *)
(* many sockets there are and whenever their owners crash; no call unlinks *)
(* a name that is not its own; and what waits in a datagram socket is what *)
(* a client's call put together.  The first two leave out the paths where  *)
(* another program removed a name between its owner's close and unlink.    *)
(*                                                                         *)
(* The argument follows one socket through its life.  It is live from the  *)
(* bind to the unlink; all that time its owner's call says how far it has  *)
(* come, and its path names it unless the path was intruded on.            *)
(***************************************************************************)
EXTENDS Notify, NaturalsInduction, WellFoundedInduction, SequenceTheorems, TLAPS

Phases == {"none", "bound", "listening", "held", "closed", "crashed"}

Live(s) == phase[s] \in {"bound", "listening", "held", "closed"}

\* The calls a process can be in.
Calls ==
    {Idle} \cup [op : {"create"}, kind : Kind, path : Path]
      \cup [op : {"setup", "unlink"}, s : Socket]
      \cup [op : Kind, path : Path, on : Socket \cup {Nothing}]

Typed ==
    /\ dir \in [Path -> Socket \cup {Nothing, File}]
    /\ phase \in [Socket -> Phases]
    /\ sock \in [Socket -> [kind : Kind \cup {"none"}, path : Path \cup {Nothing},
                            owner : Owner \cup {Nothing}]]
    /\ queue \in [Socket -> Seq(Client \cup Messages)]
    /\ call \in [Owner \cup Client -> Calls]
    /\ crashes \in 0..MaxCrashes /\ intruded \subseteq Path

\* A live socket is somebody's and, unless its path was intruded on, the path names it.
LiveInv ==
    \A s \in Socket : Live(s) =>
        /\ sock[s] \in [kind : Kind, path : Path, owner : Owner]
        /\ sock[s].path \notin intruded => dir[sock[s].path] = s

\* A name is that of a live socket bound to it, or a crash left it.
NameInv ==
    \A p \in Path, s \in Socket : dir[p] = s =>
        (Live(s) /\ sock[s].path = p) \/ phase[s] = "crashed"

\* A create or destroy under way is its owner's only hold on the socket.
CallInv ==
    /\ \A o \in Owner :
         /\ call[o].op = "setup" =>
              phase[call[o].s] \in {"bound", "listening"} /\ sock[call[o].s].owner = o
         /\ call[o].op = "unlink" =>
              phase[call[o].s] = "closed" /\ sock[call[o].s].owner = o
    /\ \A s \in Socket :
         /\ phase[s] \in {"bound", "listening"} =>
              call[sock[s].owner].op = "setup" /\ call[sock[s].owner].s = s
         /\ phase[s] = "closed" =>
              call[sock[s].owner].op = "unlink" /\ call[sock[s].owner].s = s

\* A queue keeps to its limit, is empty while its socket is not open, and holds
\* what the socket is for.
QueueInv ==
    \A s \in Socket :
        /\ Len(queue[s]) <= QueueLimit
        /\ ~Open(s) => queue[s] = <<>>
        /\ sock[s].kind = "datagram" => queue[s] \in Seq(Messages)

\* A socket that is not live is nobody's.
DeadInv == \A s \in Socket : ~Live(s) => sock[s] = NoSocket

NotifyInv == Typed /\ LiveInv /\ NameInv /\ CallInv /\ QueueInv /\ DeadInv

-----------------------------------------------------------------------------
(* Facts about the data.                                                   *)

\* Socket numbers are neither Nothing nor File.
LEMMA SocketFacts ==
  /\ Socket \subseteq Nat /\ Nothing \notin Socket /\ File \notin Socket /\ File # Nothing
BY NotifyAssumption DEF Socket, Nothing, File

\* What a call holds, by its operation.
LEMMA CallFacts ==
  ASSUME NEW r \in Calls
  PROVE  /\ r.op \in {"idle", "create", "setup", "unlink"} \cup Kind
         /\ r.op = "create" => r.kind \in Kind /\ r.path \in Path
         /\ r.op \in {"setup", "unlink"} => r.s \in Socket
         /\ r.op \in Kind => r.path \in Path /\ r.on \in Socket \cup {Nothing}
BY DEF Calls, Idle, Kind

\* The calls that the actions make.
LEMMA NewCalls ==
  /\ Idle \in Calls /\ Idle.op = "idle"
  /\ \A k \in Kind, p \in Path :
       LET r == [op |-> "create", kind |-> k, path |-> p] IN r \in Calls /\ r.op = "create"
  /\ \A s \in Socket, o \in {"setup", "unlink"} :
       LET r == [op |-> o, s |-> s] IN r \in Calls /\ r.op = o /\ r.s = s
  /\ \A k \in Kind, p \in Path :
       LET r == [op |-> k, path |-> p, on |-> Nothing] IN r \in Calls /\ r.op = k
BY DEF Calls, Idle

\* A client that is made to wait, or woken, is in the same call.
LEMMA OnCalls ==
  ASSUME NEW r \in Calls, r.op \in Kind, NEW v \in Socket \cup {Nothing}
  PROVE  [r EXCEPT !.on = v] \in Calls /\ [r EXCEPT !.on = v].op \in Kind
<1>1. r \in [op : Kind, path : Path, on : Socket \cup {Nothing}]
  BY DEF Calls, Idle, Kind
<1> QED BY <1>1 DEF Calls

\* bind takes the lowest socket there is to be had.
LEMMA FreshLowest ==
  ASSUME Fresh # {}
  PROVE  LET s == CHOOSE f \in Fresh : \A g \in Fresh : f <= g IN s \in Fresh
<1>1. Fresh \subseteq Nat
  BY SocketFacts DEF Fresh
<1>2. \E f \in Fresh : \A g \in Fresh : ~(<<g, f>> \in OpToRel(<, Nat))
  BY <1>1, NatLessThanWellFounded, WFMin
<1>3. PICK f \in Fresh : \A g \in Fresh : ~(g < f)
  BY <1>1, <1>2 DEF OpToRel
<1>4. \A g \in Fresh : f <= g
  BY <1>1, <1>3
<1> QED BY <1>4

-----------------------------------------------------------------------------
(* The inductive invariant.                                                *)

LEMMA InitNotify == Init => NotifyInv
<1> SUFFICES ASSUME Init PROVE NotifyInv
  OBVIOUS
<1>1. Typed
  <2>1. /\ dir \in [Path -> Socket \cup {Nothing, File}] /\ phase \in [Socket -> Phases]
        /\ crashes \in 0..MaxCrashes /\ intruded \subseteq Path
    BY NotifyAssumption DEF Init, Phases
  <2>2. sock \in [Socket -> [kind : Kind \cup {"none"}, path : Path \cup {Nothing},
                             owner : Owner \cup {Nothing}]]
    BY DEF Init, NoSocket
  <2>3. queue \in [Socket -> Seq(Client \cup Messages)]
    <3>1. <<>> \in Seq(Client \cup Messages)
      BY EmptySeq
    <3> QED BY <3>1 DEF Init
  <2>4. call \in [Owner \cup Client -> Calls]
    BY NewCalls DEF Init
  <2> QED BY <2>1, <2>2, <2>3, <2>4 DEF Typed
<1>2. \A s \in Socket : ~Live(s) /\ ~Open(s)
  BY DEF Init, Live, Open
<1>3. LiveInv /\ DeadInv
  BY <1>2 DEF LiveInv, DeadInv, Init
<1>4. NameInv
  BY SocketFacts DEF NameInv, Init
<1>5. CallInv
  BY NewCalls DEF CallInv, Init
<1>6. QueueInv
  <2>1. <<>> \in Seq(Messages) /\ Len(<<>>) = 0
    BY EmptySeq
  <2> QED BY <2>1, NotifyAssumption DEF QueueInv, Init
<1> QED BY <1>1, <1>3, <1>4, <1>5, <1>6 DEF NotifyInv

\* A step inside a call that holds no socket leaves the sockets as they are.
LEMMA CallStep ==
  ASSUME NotifyInv, NEW x \in Owner \cup Client, NEW r \in Calls,
         call' = [call EXCEPT ![x] = r],
         call[x].op \notin {"setup", "unlink"}, r.op \notin {"setup", "unlink"},
         UNCHANGED <<dir, phase, sock, crashes, intruded>>,
         queue' \in [Socket -> Seq(Client \cup Messages)], QueueInv'
  PROVE  NotifyInv'
<1>1. /\ call' \in [Owner \cup Client -> Calls] /\ call'[x] = r
      /\ \A y \in Owner \cup Client : y # x => call'[y] = call[y]
  BY DEF NotifyInv, Typed
<1>2. Typed'
  BY <1>1 DEF NotifyInv, Typed
<1>3. LiveInv' /\ NameInv' /\ DeadInv'
  BY DEF NotifyInv, LiveInv, NameInv, DeadInv, Live
<1>4. \A s \in Socket : Live(s) => sock[s].owner \in Owner
  BY DEF NotifyInv, LiveInv
<1>5. \A s \in Socket : phase[s] \in {"bound", "listening", "closed"} => sock[s].owner \in Owner
  BY <1>4 DEF Live
<1>6. CallInv'
  BY <1>1, <1>5 DEF NotifyInv, CallInv
<1> QED BY <1>2, <1>3, <1>6 DEF NotifyInv

\* The calls that change no socket and no queue.
LEMMA QuietStep ==
  ASSUME NotifyInv, NEW x \in Owner \cup Client, NEW r \in Calls,
         call' = [call EXCEPT ![x] = r],
         call[x].op \notin {"setup", "unlink"}, r.op \notin {"setup", "unlink"},
         UNCHANGED <<dir, phase, sock, queue, crashes, intruded>>
  PROVE  NotifyInv'
<1>1. queue' \in [Socket -> Seq(Client \cup Messages)]
  BY DEF NotifyInv, Typed
<1>2. QueueInv'
  BY DEF NotifyInv, QueueInv, Open
<1> QED BY <1>1, <1>2, CallStep

LEMMA CreateNotify ==
  ASSUME NotifyInv, NEW o \in Owner, NEW k \in Kind, NEW p \in Path, Create(o, k, p)
  PROVE  NotifyInv'
BY NewCalls, QuietStep DEF Create

LEMMA BindFailsNotify ==
  ASSUME NotifyInv, NEW o \in Owner, BindFails(o)
  PROVE  NotifyInv'
BY NewCalls, QuietStep DEF BindFails, Returns

LEMMA SocketConnectNotify ==
  ASSUME NotifyInv, NEW c \in Client, NEW p \in Path, SocketConnect(c, p)
  PROVE  NotifyInv'
BY NewCalls, QuietStep DEF SocketConnect, Kind

LEMMA DatagramSendNotify ==
  ASSUME NotifyInv, NEW c \in Client, NEW p \in Path, DatagramSend(c, p)
  PROVE  NotifyInv'
BY NewCalls, QuietStep DEF DatagramSend, Kind

LEMMA RefusedNotify ==
  ASSUME NotifyInv, NEW c \in Client, Refused(c)
  PROVE  NotifyInv'
BY NewCalls, QuietStep DEF Refused, Returns, Looks, Kind

LEMMA WaitsNotify ==
  ASSUME NotifyInv, NEW c \in Client, Waits(c) \/ Wakes(c)
  PROVE  NotifyInv'
<1>1. call[c] \in Calls /\ call[c].op \in Kind
  BY DEF NotifyInv, Typed, Waits, Wakes, Looks
<1>2. PICK v \in Socket \cup {Nothing} : call' = [call EXCEPT ![c].on = v]
  BY DEF Waits, Wakes, Reaches
<1>3. PICK r : r = [call[c] EXCEPT !.on = v]
  OBVIOUS
<1>4. call' = [call EXCEPT ![c] = r]
  BY <1>2, <1>3
<1>5. r \in Calls /\ r.op \in Kind
  BY <1>1, <1>3, OnCalls
<1>6. r.op \notin {"setup", "unlink"} /\ call[c].op \notin {"setup", "unlink"}
  BY <1>1, <1>5 DEF Kind
<1>7. UNCHANGED <<dir, phase, sock, queue, crashes, intruded>>
  BY DEF Waits, Wakes
<1> QED BY <1>4, <1>5, <1>6, <1>7, QuietStep

LEMMA DeliveredNotify ==
  ASSUME NotifyInv, NEW c \in Client, Delivered(c)
  PROVE  NotifyInv'
<1>1. PICK s : s = dir[call[c].path]
  OBVIOUS
<1>2. PICK r : r = call[c]
  OBVIOUS
<1>3. /\ r \in Calls /\ r.op \in Kind /\ s \in Socket /\ Open(s) /\ sock[s].kind = r.op
      /\ ~Full(s)
  BY <1>1, <1>2 DEF NotifyInv, Typed, Delivered, Looks, Reaches
<1>4. PICK m \in Brings(c) : queue' = [queue EXCEPT ![s] = Append(queue[s], m)]
  BY <1>1 DEF Delivered
<1>13. m \in Client \cup Messages /\ (r.op = "datagram" => m \in Messages)
  BY <1>2, <1>3, <1>4 DEF Brings, Kind
<1>5. queue[s] \in Seq(Client \cup Messages) /\ QueueInv
  BY <1>3 DEF NotifyInv, Typed
<1>6. /\ Append(queue[s], m) \in Seq(Client \cup Messages)
      /\ Len(Append(queue[s], m)) = Len(queue[s]) + 1
      /\ Len(queue[s]) \in Nat
  BY <1>13, <1>5, AppendProperties, LenProperties
<1>7. sock[s].kind = "datagram" => Append(queue[s], m) \in Seq(Messages)
  BY <1>3, <1>13, <1>5, AppendProperties DEF QueueInv
<1>8. /\ queue' \in [Socket -> Seq(Client \cup Messages)]
      /\ queue'[s] = Append(queue[s], m)
      /\ \A t \in Socket : t # s => queue'[t] = queue[t]
  BY <1>3, <1>4, <1>6 DEF NotifyInv, Typed
<1>9. UNCHANGED <<dir, phase, sock, crashes, intruded>> /\ call' = [call EXCEPT ![c] = Idle]
  BY DEF Delivered, Returns
<1>10. Len(queue'[s]) <= QueueLimit
  BY <1>3, <1>6, <1>8, NotifyAssumption DEF Full
<1>11. QueueInv'
  BY <1>3, <1>5, <1>7, <1>8, <1>9, <1>10 DEF QueueInv, Open
<1>12. call[c].op \notin {"setup", "unlink"}
  BY <1>2, <1>3 DEF Kind
<1> QED BY <1>8, <1>9, <1>11, <1>12, NewCalls, CallStep

LEMMA TakeNotify ==
  ASSUME NotifyInv, NEW s \in Socket, Take(s)
  PROVE  NotifyInv'
<1>1. /\ queue[s] \in Seq(Client \cup Messages) /\ queue[s] # <<>> /\ Open(s)
      /\ queue' = [queue EXCEPT ![s] = Tail(queue[s])]
      /\ UNCHANGED <<dir, phase, sock, call, crashes, intruded>>
  BY DEF NotifyInv, Typed, Take, Open
<1>2. /\ Tail(queue[s]) \in Seq(Client \cup Messages)
      /\ Len(Tail(queue[s])) = Len(queue[s]) - 1 /\ Len(queue[s]) \in Nat
  BY <1>1, HeadTailProperties, LenProperties
<1>3. sock[s].kind = "datagram" => Tail(queue[s]) \in Seq(Messages)
  BY <1>1, HeadTailProperties DEF NotifyInv, QueueInv
<1>4. /\ queue' \in [Socket -> Seq(Client \cup Messages)] /\ queue'[s] = Tail(queue[s])
      /\ \A t \in Socket : t # s => queue'[t] = queue[t]
  BY <1>1, <1>2 DEF NotifyInv, Typed
<1>5. Len(queue'[s]) <= QueueLimit
  BY <1>2, <1>4, NotifyAssumption DEF NotifyInv, QueueInv
<1>6. QueueInv'
  BY <1>1, <1>3, <1>4, <1>5 DEF NotifyInv, QueueInv, Open
<1>7. Typed' /\ LiveInv' /\ NameInv' /\ CallInv' /\ DeadInv'
  BY <1>1, <1>4 DEF NotifyInv, Typed, LiveInv, NameInv, CallInv, DeadInv, Live
<1> QED BY <1>6, <1>7 DEF NotifyInv

\* What the owner of a socket in a call knows of it.
LEMMA InSetup ==
  ASSUME NotifyInv, NEW o \in Owner, call[o].op = "setup"
  PROVE  /\ call[o].s \in Socket /\ phase[call[o].s] \in {"bound", "listening"}
         /\ Live(call[o].s) /\ Open(call[o].s) /\ sock[call[o].s].owner = o
BY CallFacts DEF NotifyInv, Typed, CallInv, Live, Open

\* Sockets in calls have different owners.
LEMMA CallsApart ==
  ASSUME NotifyInv, NEW o \in Owner, NEW q \in Owner,
         call[o].op \in {"setup", "unlink"}, call[q].op \in {"setup", "unlink"},
         call[o].s = call[q].s
  PROVE  o = q
BY DEF NotifyInv, CallInv

LEMMA ListenNotify ==
  ASSUME NotifyInv, NEW o \in Owner, Listen(o)
  PROVE  NotifyInv'
<1>1. PICK s : s = call[o].s
  OBVIOUS
<1>2. /\ s \in Socket /\ phase[s] = "bound" /\ phase' = [phase EXCEPT ![s] = "listening"]
      /\ UNCHANGED <<dir, sock, queue, call, crashes, intruded>>
  BY <1>1, InSetup DEF Listen
<1>3. /\ phase' \in [Socket -> Phases] /\ phase'[s] = "listening"
      /\ \A t \in Socket : t # s => phase'[t] = phase[t]
  BY <1>2 DEF NotifyInv, Typed, Phases
<1>4. Typed'
  BY <1>2, <1>3 DEF NotifyInv, Typed
<1>5. \A t \in Socket : Live(t)' = Live(t) /\ Open(t)' = Open(t)
  BY <1>2, <1>3 DEF Live, Open
<1>6. LiveInv' /\ DeadInv' /\ QueueInv'
  BY <1>2, <1>5 DEF NotifyInv, LiveInv, DeadInv, QueueInv
<1>7. NameInv'
  BY <1>2, <1>3, <1>5 DEF NotifyInv, NameInv
<1>8. CallInv'
  BY <1>2, <1>3, CallFacts DEF NotifyInv, Typed, CallInv
<1> QED BY <1>4, <1>6, <1>7, <1>8 DEF NotifyInv

LEMMA CreatedNotify ==
  ASSUME NotifyInv, NEW o \in Owner, Created(o)
  PROVE  NotifyInv'
<1>1. PICK s : s = call[o].s
  OBVIOUS
<1>2. /\ s \in Socket /\ phase[s] \in {"bound", "listening"} /\ sock[s].owner = o
      /\ phase' = [phase EXCEPT ![s] = "held"] /\ call' = [call EXCEPT ![o] = Idle]
      /\ UNCHANGED <<dir, sock, queue, crashes, intruded>>
  BY <1>1, InSetup DEF Created, Returns
<1>3. /\ phase' \in [Socket -> Phases] /\ phase'[s] = "held"
      /\ \A t \in Socket : t # s => phase'[t] = phase[t]
  BY <1>2 DEF NotifyInv, Typed, Phases
<1>4. /\ call' \in [Owner \cup Client -> Calls] /\ call'[o] = Idle /\ Idle.op = "idle"
      /\ \A y \in Owner \cup Client : y # o => call'[y] = call[y]
  BY <1>2, NewCalls DEF NotifyInv, Typed
<1>5. Typed'
  BY <1>2, <1>3, <1>4 DEF NotifyInv, Typed
<1>6. \A t \in Socket : Live(t)' = Live(t) /\ Open(t)' = Open(t)
  BY <1>2, <1>3 DEF Live, Open
<1>7. LiveInv' /\ DeadInv' /\ QueueInv'
  BY <1>2, <1>6 DEF NotifyInv, LiveInv, DeadInv, QueueInv
<1>8. NameInv'
  BY <1>2, <1>3, <1>6 DEF NotifyInv, NameInv
<1>9. \A q \in Owner : q # o /\ call[q].op \in {"setup", "unlink"} =>
         call[q].s # s /\ call[q].s \in Socket
  BY <1>1, CallsApart, CallFacts DEF NotifyInv, Typed, Created
<1>10. \A t \in Socket : t # s /\ phase[t] \in {"bound", "listening", "closed"} =>
         sock[t].owner \in Owner /\ sock[t].owner # o
  BY <1>1 DEF NotifyInv, LiveInv, CallInv, Live
<1>11. CallInv'
  <2>1. \A q \in Owner :
         /\ call'[q].op = "setup" =>
              phase'[call'[q].s] \in {"bound", "listening"} /\ sock'[call'[q].s].owner = q
         /\ call'[q].op = "unlink" =>
              phase'[call'[q].s] = "closed" /\ sock'[call'[q].s].owner = q
    BY <1>2, <1>3, <1>4, <1>9 DEF NotifyInv, CallInv
  <2>2. \A t \in Socket :
         /\ phase'[t] \in {"bound", "listening"} =>
              call'[sock'[t].owner].op = "setup" /\ call'[sock'[t].owner].s = t
         /\ phase'[t] = "closed" =>
              call'[sock'[t].owner].op = "unlink" /\ call'[sock'[t].owner].s = t
    BY <1>2, <1>3, <1>4, <1>10 DEF NotifyInv, CallInv
  <2> QED BY <2>1, <2>2 DEF CallInv
<1> QED BY <1>5, <1>7, <1>8, <1>11 DEF NotifyInv

\* CreateFails and Destroy: the descriptor is closed and the unlink is due.
LEMMA CloseNotify ==
  ASSUME NotifyInv, NEW o \in Owner, NEW s \in Socket, Close(o, s),
         sock[s].owner = o, Open(s),
         call[o].op \in {"setup", "unlink"} => call[o].s = s
  PROVE  NotifyInv'
<1>1. PICK r : r = [op |-> "unlink", s |-> s]
  OBVIOUS
<1>2. r \in Calls /\ r.op = "unlink" /\ r.s = s
  BY <1>1, NewCalls
<1>3. /\ phase' = [phase EXCEPT ![s] = "closed"] /\ queue' = [queue EXCEPT ![s] = <<>>]
      /\ call' = [call EXCEPT ![o] = r] /\ UNCHANGED <<dir, sock, crashes, intruded>>
  BY <1>1 DEF Close
<1>4. /\ phase' \in [Socket -> Phases] /\ phase'[s] = "closed"
      /\ \A t \in Socket : t # s => phase'[t] = phase[t]
  BY <1>3 DEF NotifyInv, Typed, Phases
<1>5. /\ call' \in [Owner \cup Client -> Calls] /\ call'[o] = r
      /\ \A y \in Owner \cup Client : y # o => call'[y] = call[y]
  BY <1>2, <1>3 DEF NotifyInv, Typed
<1>6. /\ queue' \in [Socket -> Seq(Client \cup Messages)] /\ queue'[s] = <<>>
      /\ \A t \in Socket : t # s => queue'[t] = queue[t]
  <2>1. <<>> \in Seq(Client \cup Messages)
    BY EmptySeq
  <2> QED BY <1>3, <2>1 DEF NotifyInv, Typed
<1>7. Typed'
  BY <1>3, <1>4, <1>5, <1>6 DEF NotifyInv, Typed
<1>8. \A t \in Socket : Live(t)' = Live(t) /\ (t # s => Open(t)' = Open(t))
  BY <1>3, <1>4 DEF Live, Open
<1>9. LiveInv' /\ DeadInv'
  BY <1>3, <1>8 DEF NotifyInv, LiveInv, DeadInv
<1>10. NameInv'
  BY <1>3, <1>4, <1>8 DEF NotifyInv, NameInv, Open
<1>11. QueueInv'
  <2>1. <<>> \in Seq(Messages) /\ Len(<<>>) = 0 /\ 0 <= QueueLimit
    BY EmptySeq, NotifyAssumption
  <2> QED BY <1>3, <1>6, <1>8, <2>1 DEF NotifyInv, QueueInv
<1>12. \A q \in Owner : q # o /\ call[q].op \in {"setup", "unlink"} =>
         call[q].s # s /\ call[q].s \in Socket
  BY CallFacts DEF NotifyInv, Typed, CallInv
<1>13. \A t \in Socket : t # s /\ phase[t] \in {"bound", "listening", "closed"} =>
         sock[t].owner \in Owner /\ sock[t].owner # o
  BY DEF NotifyInv, LiveInv, CallInv, Live
<1>14. CallInv'
  <2>1. \A q \in Owner :
         /\ call'[q].op = "setup" =>
              phase'[call'[q].s] \in {"bound", "listening"} /\ sock'[call'[q].s].owner = q
         /\ call'[q].op = "unlink" =>
              phase'[call'[q].s] = "closed" /\ sock'[call'[q].s].owner = q
    BY <1>2, <1>3, <1>4, <1>5, <1>12 DEF NotifyInv, CallInv
  <2>2. \A t \in Socket :
         /\ phase'[t] \in {"bound", "listening"} =>
              call'[sock'[t].owner].op = "setup" /\ call'[sock'[t].owner].s = t
         /\ phase'[t] = "closed" =>
              call'[sock'[t].owner].op = "unlink" /\ call'[sock'[t].owner].s = t
    BY <1>2, <1>3, <1>4, <1>5, <1>13 DEF NotifyInv, CallInv
  <2> QED BY <2>1, <2>2 DEF CallInv
<1> QED BY <1>7, <1>9, <1>10, <1>11, <1>14 DEF NotifyInv

LEMMA CreateFailsNotify ==
  ASSUME NotifyInv, NEW o \in Owner, CreateFails(o)
  PROVE  NotifyInv'
BY InSetup, CloseNotify DEF CreateFails

LEMMA DestroyNotify ==
  ASSUME NotifyInv, NEW o \in Owner, NEW s \in Socket, Destroy(o, s)
  PROVE  NotifyInv'
BY NewCalls, CloseNotify DEF Destroy, Open

LEMMA BindNotify ==
  ASSUME NotifyInv, NEW o \in Owner, Bind(o)
  PROVE  NotifyInv'
<1>1. PICK s : s = CHOOSE f \in Fresh : \A g \in Fresh : f <= g
  OBVIOUS
<1>2. s \in Fresh
  BY <1>1, FreshLowest DEF Bind
<1>3. s \in Socket /\ phase[s] \in {"none", "crashed"} /\ \A p \in Path : dir[p] # s
  BY <1>2 DEF Fresh
<1>4. PICK k, p : k = call[o].kind /\ p = call[o].path
  OBVIOUS
<1>5. k \in Kind /\ p \in Path /\ call[o].op = "create" /\ dir[p] = Nothing
  BY <1>4, CallFacts DEF NotifyInv, Typed, Bind
<1>6. PICK d, r : d = [kind |-> k, path |-> p, owner |-> o] /\ r = [op |-> "setup", s |-> s]
  OBVIOUS
<1>7. /\ phase' = [phase EXCEPT ![s] = "bound"] /\ sock' = [sock EXCEPT ![s] = d]
      /\ dir' = [dir EXCEPT ![p] = s] /\ call' = [call EXCEPT ![o] = r]
      /\ UNCHANGED <<queue, crashes, intruded>>
  BY <1>1, <1>4, <1>6 DEF Bind
<1>8. /\ d \in [kind : Kind, path : Path, owner : Owner] /\ d.path = p /\ d.owner = o
      /\ d \in [kind : Kind \cup {"none"}, path : Path \cup {Nothing}, owner : Owner \cup {Nothing}]
  BY <1>5, <1>6
<1>9. r \in Calls /\ r.op = "setup" /\ r.s = s
  BY <1>3, <1>6, NewCalls
<1>10. /\ phase' \in [Socket -> Phases] /\ phase'[s] = "bound"
       /\ \A t \in Socket : t # s => phase'[t] = phase[t]
  BY <1>3, <1>7 DEF NotifyInv, Typed, Phases
<1>11. /\ sock' \in [Socket -> [kind : Kind \cup {"none"}, path : Path \cup {Nothing},
                                owner : Owner \cup {Nothing}]]
       /\ sock'[s] = d /\ \A t \in Socket : t # s => sock'[t] = sock[t]
  BY <1>3, <1>7, <1>8 DEF NotifyInv, Typed
<1>12. /\ dir' \in [Path -> Socket \cup {Nothing, File}] /\ dir'[p] = s
       /\ \A q \in Path : q # p => dir'[q] = dir[q]
  BY <1>3, <1>5, <1>7 DEF NotifyInv, Typed
<1>13. /\ call' \in [Owner \cup Client -> Calls] /\ call'[o] = r
       /\ \A y \in Owner \cup Client : y # o => call'[y] = call[y]
  BY <1>7, <1>9 DEF NotifyInv, Typed
<1>14. Typed'
  BY <1>7, <1>10, <1>11, <1>12, <1>13 DEF NotifyInv, Typed
<1>15. Live(s)' /\ \A t \in Socket : t # s => Live(t)' = Live(t) /\ Open(t)' = Open(t)
  BY <1>10 DEF Live, Open
<1>16. LiveInv'
  <2> SUFFICES ASSUME NEW t \in Socket, Live(t)'
               PROVE  /\ sock'[t] \in [kind : Kind, path : Path, owner : Owner]
                      /\ sock'[t].path \notin intruded' => dir'[sock'[t].path] = t
    BY DEF LiveInv
  <2>1. CASE t = s
    BY <1>8, <1>11, <1>12, <2>1
  <2>2. CASE t # s
    <3>1. /\ sock'[t] = sock[t] /\ sock[t] \in [kind : Kind, path : Path, owner : Owner]
          /\ sock[t].path \notin intruded => dir[sock[t].path] = t
      BY <1>11, <1>15, <2>2 DEF NotifyInv, LiveInv
    <3>2. sock[t].path \in Path /\ (sock[t].path \notin intruded => sock[t].path # p)
      BY <1>5, <3>1, SocketFacts
    <3> QED BY <1>7, <1>12, <3>1, <3>2
  <2> QED BY <2>1, <2>2
<1>17. NameInv'
  <2> SUFFICES ASSUME NEW q \in Path, NEW t \in Socket, dir'[q] = t
               PROVE  (Live(t)' /\ sock'[t].path = q) \/ phase'[t] = "crashed"
    BY DEF NameInv
  <2>1. CASE q = p
    BY <1>8, <1>11, <1>12, <1>15, <2>1
  <2>2. CASE q # p
    <3>1. dir[q] = t /\ t # s
      BY <1>3, <1>12, <2>2
    <3>2. (Live(t) /\ sock[t].path = q) \/ phase[t] = "crashed"
      BY <3>1 DEF NotifyInv, NameInv
    <3> QED BY <1>10, <1>11, <1>15, <3>1, <3>2
  <2> QED BY <2>1, <2>2
<1>18. DeadInv'
  BY <1>11, <1>15 DEF NotifyInv, DeadInv
<1>19. QueueInv'
  <2>1. <<>> \in Seq(Messages) /\ queue[s] = <<>>
    BY <1>3, EmptySeq DEF NotifyInv, QueueInv, Open
  <2> QED BY <1>7, <1>11, <1>15, <2>1 DEF NotifyInv, QueueInv
<1>20. \A q \in Owner : call[q].op \in {"setup", "unlink"} =>
         q # o /\ call[q].s # s /\ call[q].s \in Socket
  BY <1>3, <1>5, CallFacts DEF NotifyInv, Typed, CallInv
<1>21. \A t \in Socket : t # s /\ phase[t] \in {"bound", "listening", "closed"} =>
         sock[t].owner \in Owner /\ sock[t].owner # o
  BY <1>5 DEF NotifyInv, LiveInv, CallInv, Live
<1>22. CallInv'
  <2>1. \A q \in Owner :
         /\ call'[q].op = "setup" =>
              phase'[call'[q].s] \in {"bound", "listening"} /\ sock'[call'[q].s].owner = q
         /\ call'[q].op = "unlink" =>
              phase'[call'[q].s] = "closed" /\ sock'[call'[q].s].owner = q
    BY <1>8, <1>9, <1>10, <1>11, <1>13, <1>20 DEF NotifyInv, CallInv
  <2>2. \A t \in Socket :
         /\ phase'[t] \in {"bound", "listening"} =>
              call'[sock'[t].owner].op = "setup" /\ call'[sock'[t].owner].s = t
         /\ phase'[t] = "closed" =>
              call'[sock'[t].owner].op = "unlink" /\ call'[sock'[t].owner].s = t
    BY <1>8, <1>9, <1>10, <1>11, <1>13, <1>21 DEF NotifyInv, CallInv
  <2> QED BY <2>1, <2>2 DEF CallInv
<1> QED BY <1>14, <1>16, <1>17, <1>18, <1>19, <1>22 DEF NotifyInv

\* The path that is about to be unlinked names the caller's socket, if nobody
\* has intruded on it.
LEMMA UnlinkOwn ==
  ASSUME NotifyInv, NEW o \in Owner, call[o].op = "unlink"
  PROVE  /\ call[o].s \in Socket /\ phase[call[o].s] = "closed" /\ Live(call[o].s)
         /\ sock[call[o].s].path \in Path /\ sock[call[o].s].owner = o
         /\ sock[call[o].s].path \notin intruded => dir[sock[call[o].s].path] = call[o].s
<1>1. call[o].s \in Socket /\ phase[call[o].s] = "closed" /\ sock[call[o].s].owner = o
  BY CallFacts DEF NotifyInv, Typed, CallInv
<1>2. Live(call[o].s)
  BY <1>1 DEF Live
<1> QED BY <1>1, <1>2 DEF NotifyInv, LiveInv

LEMMA UnlinkNotify ==
  ASSUME NotifyInv, NEW o \in Owner, Unlink(o)
  PROVE  NotifyInv'
<1>1. PICK s, p : s = call[o].s /\ p = sock[s].path
  OBVIOUS
<1>2. /\ s \in Socket /\ phase[s] = "closed" /\ p \in Path /\ sock[s].owner = o
      /\ call[o].op = "unlink" /\ (p \notin intruded => dir[p] = s)
  BY <1>1, UnlinkOwn DEF Unlink
<1>3. /\ dir' = [dir EXCEPT ![p] = Nothing] /\ phase' = [phase EXCEPT ![s] = "none"]
      /\ sock' = [sock EXCEPT ![s] = NoSocket] /\ call' = [call EXCEPT ![o] = Idle]
      /\ UNCHANGED <<queue, crashes, intruded>>
  BY <1>1, <1>2 DEF Unlink, Returns
<1>4. /\ phase' \in [Socket -> Phases] /\ phase'[s] = "none"
      /\ \A t \in Socket : t # s => phase'[t] = phase[t]
  BY <1>2, <1>3 DEF NotifyInv, Typed, Phases
<1>5. /\ sock' \in [Socket -> [kind : Kind \cup {"none"}, path : Path \cup {Nothing},
                               owner : Owner \cup {Nothing}]]
      /\ sock'[s] = NoSocket /\ \A t \in Socket : t # s => sock'[t] = sock[t]
  BY <1>2, <1>3 DEF NotifyInv, Typed, NoSocket
<1>6. /\ dir' \in [Path -> Socket \cup {Nothing, File}] /\ dir'[p] = Nothing
      /\ \A q \in Path : q # p => dir'[q] = dir[q]
  BY <1>2, <1>3 DEF NotifyInv, Typed
<1>7. /\ call' \in [Owner \cup Client -> Calls] /\ call'[o] = Idle /\ Idle.op = "idle"
      /\ \A y \in Owner \cup Client : y # o => call'[y] = call[y]
  BY <1>3, NewCalls DEF NotifyInv, Typed
<1>8. Typed'
  BY <1>3, <1>4, <1>5, <1>6, <1>7 DEF NotifyInv, Typed
<1>9. /\ ~Live(s)' /\ ~Open(s) /\ ~Open(s)'
      /\ \A t \in Socket : t # s => Live(t)' = Live(t) /\ Open(t)' = Open(t)
  BY <1>2, <1>4 DEF Live, Open
<1>10. LiveInv'
  <2> SUFFICES ASSUME NEW t \in Socket, Live(t)'
               PROVE  /\ sock'[t] \in [kind : Kind, path : Path, owner : Owner]
                      /\ sock'[t].path \notin intruded' => dir'[sock'[t].path] = t
    BY DEF LiveInv
  <2>1. t # s /\ Live(t)
    BY <1>9
  <2>2. /\ sock'[t] = sock[t] /\ sock[t] \in [kind : Kind, path : Path, owner : Owner]
        /\ sock[t].path \notin intruded => dir[sock[t].path] = t
    BY <1>5, <2>1 DEF NotifyInv, LiveInv
  <2>3. sock[t].path \in Path /\ (sock[t].path \notin intruded => sock[t].path # p)
    BY <1>2, <2>1, <2>2
  <2> QED BY <1>3, <1>6, <2>2, <2>3
<1>11. NameInv'
  <2> SUFFICES ASSUME NEW q \in Path, NEW t \in Socket, dir'[q] = t
               PROVE  (Live(t)' /\ sock'[t].path = q) \/ phase'[t] = "crashed"
    BY DEF NameInv
  <2>1. q # p /\ dir[q] = t
    BY <1>6, SocketFacts
  <2>2. (Live(t) /\ sock[t].path = q) \/ phase[t] = "crashed"
    BY <2>1 DEF NotifyInv, NameInv
  <2>3. t # s
    BY <1>1, <1>2, <2>1, <2>2
  <2> QED BY <1>4, <1>5, <1>9, <2>2, <2>3
<1>12. DeadInv'
  BY <1>5, <1>9 DEF NotifyInv, DeadInv
<1>13. QueueInv'
  BY <1>3, <1>5, <1>9 DEF NotifyInv, QueueInv, NoSocket
<1>14. \A q \in Owner : q # o /\ call[q].op \in {"setup", "unlink"} =>
         call[q].s # s /\ call[q].s \in Socket
  BY <1>2, CallFacts DEF NotifyInv, Typed, CallInv
<1>15. \A t \in Socket : t # s /\ phase[t] \in {"bound", "listening", "closed"} =>
         sock[t].owner \in Owner /\ sock[t].owner # o
  BY <1>1, <1>2 DEF NotifyInv, LiveInv, CallInv, Live
<1>16. CallInv'
  <2>1. \A q \in Owner :
         /\ call'[q].op = "setup" =>
              phase'[call'[q].s] \in {"bound", "listening"} /\ sock'[call'[q].s].owner = q
         /\ call'[q].op = "unlink" =>
              phase'[call'[q].s] = "closed" /\ sock'[call'[q].s].owner = q
    BY <1>4, <1>5, <1>7, <1>14 DEF NotifyInv, CallInv
  <2>2. \A t \in Socket :
         /\ phase'[t] \in {"bound", "listening"} =>
              call'[sock'[t].owner].op = "setup" /\ call'[sock'[t].owner].s = t
         /\ phase'[t] = "closed" =>
              call'[sock'[t].owner].op = "unlink" /\ call'[sock'[t].owner].s = t
    BY <1>4, <1>5, <1>7, <1>15 DEF NotifyInv, CallInv
  <2> QED BY <2>1, <2>2 DEF CallInv
<1> QED BY <1>8, <1>10, <1>11, <1>12, <1>13, <1>16 DEF NotifyInv

LEMMA CrashNotify ==
  ASSUME NotifyInv, NEW o \in Owner, Crash(o)
  PROVE  NotifyInv'
<1>1. PICK mine : mine = {s \in Socket : /\ phase[s] \notin {"none", "crashed"}
                                         /\ sock[s].owner = o}
  OBVIOUS
<1>2. /\ crashes < MaxCrashes /\ crashes' = crashes + 1 /\ UNCHANGED <<dir, intruded>>
      /\ phase' = [s \in Socket |-> IF s \in mine THEN "crashed" ELSE phase[s]]
      /\ queue' = [s \in Socket |-> IF s \in mine THEN <<>> ELSE queue[s]]
      /\ sock' = [s \in Socket |-> IF s \in mine THEN NoSocket ELSE sock[s]]
      /\ call' = [call EXCEPT ![o] = Idle]
  BY <1>1 DEF Crash, Returns
<1>3. \A s \in Socket : s \in mine <=> Live(s) /\ sock[s].owner = o
  BY <1>1 DEF NotifyInv, Typed, Phases, Live
<1>4. /\ phase' \in [Socket -> Phases] /\ \A s \in mine : s \in Socket => phase'[s] = "crashed"
      /\ \A s \in Socket : s \notin mine => phase'[s] = phase[s]
  BY <1>2 DEF NotifyInv, Typed, Phases
<1>5. /\ sock' \in [Socket -> [kind : Kind \cup {"none"}, path : Path \cup {Nothing},
                               owner : Owner \cup {Nothing}]]
      /\ \A s \in mine : s \in Socket => sock'[s] = NoSocket
      /\ \A s \in Socket : s \notin mine => sock'[s] = sock[s]
  BY <1>2 DEF NotifyInv, Typed, NoSocket
<1>6. /\ queue' \in [Socket -> Seq(Client \cup Messages)]
      /\ \A s \in mine : s \in Socket => queue'[s] = <<>>
      /\ \A s \in Socket : s \notin mine => queue'[s] = queue[s]
  <2>1. <<>> \in Seq(Client \cup Messages)
    BY EmptySeq
  <2> QED BY <1>2, <2>1 DEF NotifyInv, Typed
<1>7. /\ call' \in [Owner \cup Client -> Calls] /\ call'[o] = Idle /\ Idle.op = "idle"
      /\ \A y \in Owner \cup Client : y # o => call'[y] = call[y]
  BY <1>2, NewCalls DEF NotifyInv, Typed
<1>8. Typed'
  <2>1. crashes' \in 0..MaxCrashes
    BY <1>2, NotifyAssumption DEF NotifyInv, Typed
  <2> QED BY <1>2, <1>4, <1>5, <1>6, <1>7, <2>1 DEF NotifyInv, Typed
<1>9. \A s \in Socket : /\ s \in mine => Live(s) /\ ~Live(s)' /\ ~Open(s)'
                        /\ s \notin mine => Live(s)' = Live(s) /\ Open(s)' = Open(s)
  BY <1>3, <1>4 DEF Live, Open
<1>10. LiveInv'
  BY <1>2, <1>5, <1>9 DEF NotifyInv, LiveInv
<1>11. NameInv'
  <2> SUFFICES ASSUME NEW q \in Path, NEW t \in Socket, dir'[q] = t
               PROVE  (Live(t)' /\ sock'[t].path = q) \/ phase'[t] = "crashed"
    BY DEF NameInv
  <2>1. (Live(t) /\ sock[t].path = q) \/ phase[t] = "crashed"
    BY <1>2 DEF NotifyInv, NameInv
  <2> QED BY <1>4, <1>5, <1>9, <2>1
<1>12. DeadInv'
  BY <1>5, <1>9 DEF NotifyInv, DeadInv
<1>13. QueueInv'
  <2>1. <<>> \in Seq(Messages) /\ Len(<<>>) = 0 /\ 0 <= QueueLimit
    BY EmptySeq, NotifyAssumption
  <2> QED BY <1>5, <1>6, <1>9, <2>1 DEF NotifyInv, QueueInv
<1>14. \A q \in Owner : q # o /\ call[q].op \in {"setup", "unlink"} =>
         call[q].s \notin mine /\ call[q].s \in Socket
  BY <1>3, CallFacts DEF NotifyInv, Typed, CallInv
<1>15. \A t \in Socket : t \notin mine /\ phase[t] \in {"bound", "listening", "closed"} =>
         sock[t].owner \in Owner /\ sock[t].owner # o
  BY <1>3 DEF NotifyInv, LiveInv, Live
<1>16. CallInv'
  <2>1. \A q \in Owner :
         /\ call'[q].op = "setup" =>
              phase'[call'[q].s] \in {"bound", "listening"} /\ sock'[call'[q].s].owner = q
         /\ call'[q].op = "unlink" =>
              phase'[call'[q].s] = "closed" /\ sock'[call'[q].s].owner = q
    BY <1>4, <1>5, <1>7, <1>14 DEF NotifyInv, CallInv
  <2>2. \A t \in Socket :
         /\ phase'[t] \in {"bound", "listening"} =>
              call'[sock'[t].owner].op = "setup" /\ call'[sock'[t].owner].s = t
         /\ phase'[t] = "closed" =>
              call'[sock'[t].owner].op = "unlink" /\ call'[sock'[t].owner].s = t
    BY <1>4, <1>5, <1>7, <1>15 DEF NotifyInv, CallInv
  <2> QED BY <2>1, <2>2 DEF CallInv
<1> QED BY <1>8, <1>10, <1>11, <1>12, <1>13, <1>16 DEF NotifyInv

LEMMA CleanUpNotify ==
  ASSUME NotifyInv, NEW p \in Path, CleanUp(p)
  PROVE  NotifyInv'
<1>1. /\ dir' \in [Path -> Socket \cup {Nothing, File}] /\ dir'[p] = Nothing
      /\ \A q \in Path : q # p => dir'[q] = dir[q]
      /\ UNCHANGED <<phase, sock, queue, call, crashes>>
      /\ intruded \subseteq intruded' /\ intruded' \subseteq intruded \cup {p}
  BY DEF CleanUp, NotifyInv, Typed
<1>2. Typed'
  BY <1>1 DEF NotifyInv, Typed
<1>3. \A s \in Socket : Live(s) /\ sock[s].path = p => p \in intruded'
  <2> SUFFICES ASSUME NEW s \in Socket, Live(s), sock[s].path = p, p \notin intruded
               PROVE  p \in intruded'
    BY <1>1
  <2>1. dir[p] = s
    BY DEF NotifyInv, LiveInv
  <2>2. phase[s] = "closed"
    BY <2>1 DEF CleanUp, Live, Open
  <2> QED BY <2>1, <2>2 DEF CleanUp
<1>4. LiveInv'
  BY <1>1, <1>3 DEF NotifyInv, LiveInv, Live
<1>5. NameInv'
  BY <1>1, SocketFacts DEF NotifyInv, NameInv, Live
<1>6. CallInv' /\ QueueInv' /\ DeadInv'
  BY <1>1 DEF NotifyInv, CallInv, QueueInv, DeadInv, Live, Open
<1> QED BY <1>2, <1>4, <1>5, <1>6 DEF NotifyInv

LEMMA StepNotify == NotifyInv /\ [Next]_vars => NotifyInv'
<1> SUFFICES ASSUME NotifyInv, [Next]_vars PROVE NotifyInv'
  OBVIOUS
<1>1. ASSUME NEW o \in Owner, OwnerStep(o) PROVE NotifyInv'
  BY <1>1, BindNotify, BindFailsNotify, ListenNotify, CreatedNotify, CreateFailsNotify,
     UnlinkNotify DEF OwnerStep
<1>2. ASSUME NEW o \in Owner, Crash(o) PROVE NotifyInv'
  BY <1>2, CrashNotify
<1>3. ASSUME NEW o \in Owner, NEW k \in Kind, NEW p \in Path, Create(o, k, p) PROVE NotifyInv'
  BY <1>3, CreateNotify
<1>4. ASSUME NEW o \in Owner, NEW s \in Socket, Destroy(o, s) PROVE NotifyInv'
  BY <1>4, DestroyNotify
<1>5. ASSUME NEW s \in Socket, Take(s) PROVE NotifyInv'
  BY <1>5, TakeNotify
<1>6. ASSUME NEW c \in Client, ClientStep(c) PROVE NotifyInv'
  BY <1>6, DeliveredNotify, RefusedNotify, WaitsNotify DEF ClientStep
<1>7. ASSUME NEW c \in Client, NEW p \in Path, SocketConnect(c, p) PROVE NotifyInv'
  BY <1>7, SocketConnectNotify
<1>8. ASSUME NEW c \in Client, NEW p \in Path, DatagramSend(c, p)
      PROVE  NotifyInv'
  BY <1>8, DatagramSendNotify
<1>9. ASSUME NEW p \in Path, CleanUp(p) PROVE NotifyInv'
  BY <1>9, CleanUpNotify
<1>10. CASE UNCHANGED vars
  BY <1>10 DEF vars, NotifyInv, Typed, LiveInv, NameInv, CallInv, QueueInv, DeadInv, Live, Open
<1> QED BY <1>1, <1>2, <1>3, <1>4, <1>5, <1>6, <1>7, <1>8, <1>9, <1>10 DEF Next

-----------------------------------------------------------------------------
(* The theorems.                                                           *)

\* The inductive invariant holds in every reachable state: from the bind to the
\* unlink of unix_socket.c a socket, its path and its owner's call agree.
THEOREM NotifyCorrect == Spec => []NotifyInv
BY InitNotify, StepNotify, PTL DEF Spec

\* unix_socket_bind, the rollbacks of create and destroy: whoever uses the path
\* of an open socket reaches it, no descriptor is without its owner, and a name
\* outlives its socket only when its owner crashed or is about to unlink it.
\* Names can only be lost where a program removed one before its owner could.
THEOREM NamesCorrect == Spec => []NamesMatchSockets
<1>1. NotifyInv => TypeOK
  <2> SUFFICES ASSUME NotifyInv PROVE TypeOK
    OBVIOUS
  <2>1. \A x \in Owner \cup Client : call[x].op \in {"idle", "create", "setup", "unlink"} \cup Kind
    BY CallFacts DEF NotifyInv, Typed
  <2>2. \A o \in Owner : call[o].op \in {"setup", "unlink"} =>
          phase[call[o].s] # "none" /\ sock[call[o].s].owner = o
    BY DEF NotifyInv, CallInv
  <2> QED BY <2>1, <2>2 DEF TypeOK, NotifyInv, Typed, QueueInv, Phases
<1>2. NotifyInv => NamesMatchSockets
  <2> SUFFICES ASSUME NotifyInv PROVE NamesMatchSockets
    OBVIOUS
  <2>1. ASSUME NEW s \in Socket, Open(s)
        PROVE  /\ sock[s].path \in intruded \/ dir[sock[s].path] = s
               /\ phase[s] = "held" <=> ~InCall(s, {"setup"})
               /\ ~InCall(s, {"unlink"})
    <3>1. Live(s) /\ phase[s] \in {"bound", "listening", "held"}
      BY <2>1 DEF Live, Open
    <3>2. (sock[s].path \in intruded \/ dir[sock[s].path] = s) /\ sock[s].owner \in Owner
      BY <3>1 DEF NotifyInv, LiveInv
    <3>3. phase[s] = "held" => ~InCall(s, {"setup"})
      BY DEF NotifyInv, CallInv, InCall
    <3>4. phase[s] # "held" => InCall(s, {"setup"})
      BY <3>1, <3>2 DEF NotifyInv, CallInv, InCall
    <3>5. ~InCall(s, {"unlink"})
      BY <3>1 DEF NotifyInv, CallInv, InCall
    <3> QED BY <3>2, <3>3, <3>4, <3>5
  <2>2. ASSUME NEW p \in Path, dir[p] \in Socket
        PROVE  Open(dir[p]) \/ phase[dir[p]] = "crashed" \/ InCall(dir[p], {"unlink"})
    <3>1. PICK s \in Socket : s = dir[p]
      BY <2>2
    <3>2. CASE Live(s) /\ phase[s] = "closed"
      <4>1. sock[s].owner \in Owner /\ call[sock[s].owner].op = "unlink" /\ call[sock[s].owner].s = s
        BY <3>2 DEF NotifyInv, LiveInv, CallInv
      <4> QED BY <3>1, <4>1 DEF InCall
    <3> QED BY <3>1, <3>2 DEF NotifyInv, NameInv, Live, Open
  <2> QED BY <1>1, <2>1, <2>2 DEF NamesMatchSockets
<1> QED BY <1>2, NotifyCorrect, PTL

\* unix_listener_destroy, unix_datagram_socket_destroy and the rollbacks of
\* create: the name that a call removes is the one of its own socket, on every
\* path where nobody removed a name between a close and its unlink.
THEOREM UnlinksItsOwn == Spec => UnlinksOnlyItsOwn
<1> DEFINE Own == \A o \in Owner, p \in Path \ intruded :
          call[o] # call'[o] /\ crashes' = crashes /\ dir[p] # Nothing
             /\ dir'[p] # dir[p]
          => call[o].op = "unlink" /\ dir[p] = call[o].s
<1>1. NotifyInv /\ [Next]_vars => [Own]_vars
  <2> SUFFICES ASSUME NotifyInv, [Next]_vars, NEW o \in Owner, NEW p \in Path \ intruded,
                      call[o] # call'[o], crashes' = crashes, dir[p] # Nothing, dir'[p] # dir[p]
               PROVE  call[o].op = "unlink" /\ dir[p] = call[o].s
    OBVIOUS
  <2>1. ASSUME NEW x \in Owner, Bind(x) PROVE FALSE
    <3>1. PICK s : dir' = [dir EXCEPT ![call[x].path] = s]
      BY <2>1 DEF Bind
    <3>2. dir[call[x].path] = Nothing /\ dir \in [Path -> Socket \cup {Nothing, File}]
      BY <2>1 DEF Bind, NotifyInv, Typed
    <3> QED BY <3>1, <3>2
  <2>2. ASSUME NEW x \in Owner, Unlink(x) PROVE call[o].op = "unlink" /\ dir[p] = call[o].s
    <3>1. call' = [call EXCEPT ![x] = Idle] /\ call \in [Owner \cup Client -> Calls]
      BY <2>2 DEF Unlink, Returns, NotifyInv, Typed
    <3>2. x = o
      BY <3>1
    <3>3. /\ call[o].op = "unlink" /\ dir' = [dir EXCEPT ![sock[call[o].s].path] = Nothing]
          /\ dir \in [Path -> Socket \cup {Nothing, File}]
      BY <2>2, <3>2 DEF Unlink, NotifyInv, Typed
    <3>4. p = sock[call[o].s].path
      BY <3>3
    <3> QED BY <3>3, <3>4, UnlinkOwn
  <2>3. dir' # dir /\ call' # call
    OBVIOUS
  <2>4. ASSUME NEW x \in Owner, OwnerStep(x) PROVE call[o].op = "unlink" /\ dir[p] = call[o].s
    BY <2>1, <2>2, <2>3, <2>4
       DEF OwnerStep, BindFails, Listen, Created, CreateFails, Close
  <2>5. \A x \in Owner : ~Crash(x)
    BY <2>3 DEF Crash
  <2>6. \A x \in Owner, k \in Kind, q \in Path : ~Create(x, k, q)
    BY <2>3 DEF Create
  <2>7. \A x \in Owner, s \in Socket : ~Destroy(x, s)
    BY <2>3 DEF Destroy, Close
  <2>8. \A s \in Socket : ~Take(s)
    BY <2>3 DEF Take
  <2>9. \A c \in Client : ~ClientStep(c)
    BY <2>3 DEF ClientStep, Delivered, Refused, Waits, Wakes
  <2>10. \A c \in Client, q \in Path : ~SocketConnect(c, q) /\ ~DatagramSend(c, q)
    BY <2>3 DEF SocketConnect, DatagramSend
  <2>11. \A q \in Path : ~CleanUp(q)
    BY <2>3 DEF CleanUp
  <2>12. Next
    BY <2>3 DEF vars
  <2> QED BY <2>4, <2>5, <2>6, <2>7, <2>8, <2>9, <2>10, <2>11, <2>12 DEF Next
<1> HIDE DEF Own
<1>2. Spec => [][Own]_vars
  BY <1>1, NotifyCorrect, PTL DEF Spec
<1> QED BY <1>2 DEF UnlinksOnlyItsOwn, Own

-----------------------------------------------------------------------------
(* What the parser makes of a message.  FoldLeft is a recursive function,  *)
(* defined by a CHOOSE over the equation it satisfies.  That the equation  *)
(* has a solution is shown by giving one, MeaningOn, which says of any set *)
(* of positions what the lines there mean; that every solution agrees with *)
(* it on the first k lines, by considering the least k where one does not. *)

\* The strings, with the literals of the code named: the provers do not know
\* that they are strings.
Word == STRING \cup {"READY", "STOPPING", "STATUS", "NULL", "1"}

LineRecord == [key : Word, value : Word]
Notification == [ready : BOOLEAN, stopping : BOOLEAN, status : Word]

StatusesIn(m, S) == {j \in S : m[j].key = "STATUS"}

\* What the lines of m at the positions S mean.
MeaningOn(m, S) ==
    [ready |-> \E j \in S : m[j] = [key |-> "READY", value |-> "1"],
     stopping |-> \E j \in S : m[j] = [key |-> "STOPPING", value |-> "1"],
     status |-> IF StatusesIn(m, S) = {} THEN "NULL" ELSE m[Max(StatusesIn(m, S))].value]

\* A set of positions that is not empty has a last one.
LEMMA LastPosition ==
  ASSUME NEW n \in Nat, NEW S \in SUBSET (1..n), S # {}
  PROVE  Max(S) \in S /\ \A y \in S : Max(S) >= y
<1> DEFINE back == {n - x : x \in S}
<1>1. back \subseteq Nat /\ back # {}
  <2>1. \A x \in S : x \in 1..n
    OBVIOUS
  <2>2. \A x \in S : n - x \in Nat
    BY <2>1
  <2>3. PICK z : z \in S
    OBVIOUS
  <2>4. n - z \in back
    BY <2>3
  <2> QED BY <2>2, <2>4
<1>2. \E b \in back : \A c \in back : ~(<<c, b>> \in OpToRel(<, Nat))
  <2> HIDE DEF back
  <2> QED BY <1>1, NatLessThanWellFounded, WFMin
<1>3. PICK b \in back : \A c \in back : ~(c < b)
  <2> HIDE DEF back
  <2> QED BY <1>1, <1>2 DEF OpToRel
<1>4. PICK x \in S : b = n - x
  OBVIOUS
<1>5. \A y \in S : x >= y
  <2> SUFFICES ASSUME NEW y \in S PROVE x >= y
    OBVIOUS
  <2>1. ~(n - y < b)
    BY <1>3
  <2> QED BY <1>4, <2>1
<1> QED BY <1>5 DEF Max

\* One line changes what its key says.
LEMMA ApplyLine ==
  ASSUME NEW v \in Notification, NEW l \in LineRecord
  PROVE  /\ apply_line(v, l) \in Notification
         /\ apply_line(v, l).ready <=> (v.ready \/ (l.key = "READY" /\ l.value = "1"))
         /\ apply_line(v, l).stopping <=> (v.stopping \/ (l.key = "STOPPING" /\ l.value = "1"))
         /\ apply_line(v, l).status = IF l.key = "STATUS" THEN l.value ELSE v.status
<1>1. CASE l.key = "READY" /\ l.value = "1"
  <2>1. apply_line(v, l) = [v EXCEPT !.ready = TRUE]
    BY <1>1 DEF apply_line
  <2> QED BY <1>1, <2>1 DEF Notification
<1>2. CASE l.key = "STOPPING" /\ l.value = "1"
  <2>1. apply_line(v, l) = [v EXCEPT !.stopping = TRUE]
    BY <1>2 DEF apply_line
  <2> QED BY <1>2, <2>1 DEF Notification
<1>3. CASE l.key = "STATUS"
  <2>1. apply_line(v, l) = [v EXCEPT !.status = l.value]
    BY <1>3 DEF apply_line
  <2> QED BY <1>3, <2>1 DEF Notification, LineRecord
<1>4. CASE /\ ~(l.key = "READY" /\ l.value = "1") /\ ~(l.key = "STOPPING" /\ l.value = "1")
           /\ l.key # "STATUS"
  <2>1. apply_line(v, l) = v
    BY <1>4 DEF apply_line
  <2> QED BY <1>4, <2>1
<1> QED BY <1>1, <1>2, <1>3, <1>4

\* The meaning of some lines is a notification; that of none says nothing.
LEMMA MeaningTyped ==
  ASSUME NEW m \in Seq(LineRecord), NEW S \in SUBSET (1..Len(m))
  PROVE  MeaningOn(m, S) \in Notification /\ MeaningOn(m, {}) = NoNotification
<1>1. \A j \in 1..Len(m) : m[j] \in LineRecord
  BY ElementOfSeq
<1>2. (IF StatusesIn(m, S) = {} THEN "NULL" ELSE m[Max(StatusesIn(m, S))].value) \in Word
  <2>1. CASE StatusesIn(m, S) # {}
    <3>1. StatusesIn(m, S) \in SUBSET (1..Len(m)) /\ Len(m) \in Nat
      BY LenProperties DEF StatusesIn
    <3>2. Max(StatusesIn(m, S)) \in StatusesIn(m, S)
      BY <2>1, <3>1, LastPosition
    <3>3. m[Max(StatusesIn(m, S))] \in LineRecord
      BY <1>1, <3>1, <3>2
    <3> QED BY <2>1, <3>3 DEF LineRecord
  <2>2. CASE StatusesIn(m, S) = {}
    BY <2>2 DEF Word
  <2> QED BY <2>1, <2>2
<1>3. MeaningOn(m, S) \in Notification
  BY <1>2 DEF MeaningOn, Notification
<1>4. MeaningOn(m, {}) = NoNotification
  BY DEF MeaningOn, NoNotification, StatusesIn
<1> QED BY <1>3, <1>4

\* The meaning of some lines is that of the lines but the last, with the last
\* applied to it.
LEMMA MeaningStep ==
  ASSUME NEW m \in Seq(LineRecord), NEW S \in SUBSET (1..Len(m)), S # {}
  PROVE  MeaningOn(m, S) = apply_line(MeaningOn(m, S \ {Max(S)}), m[Max(S)])
<1>1. PICK x, l : x = Max(S) /\ l = m[x]
  OBVIOUS
<1>2. PICK T : T = S \ {x}
  OBVIOUS
<1>3. Len(m) \in Nat /\ x \in S /\ \A y \in S : x >= y
  BY <1>1, LenProperties, LastPosition
<1>4. \A j \in 1..Len(m) : m[j] \in LineRecord
  BY ElementOfSeq
<1>5. l \in LineRecord /\ T \in SUBSET (1..Len(m)) /\ S = T \cup {x} /\ \A y \in S : y \in Nat
  <2>1. x \in 1..Len(m) /\ \A y \in S : y \in Nat
    BY <1>3
  <2>2. l \in LineRecord
    BY <1>1, <1>4, <2>1
  <2> QED BY <1>2, <1>3, <2>1, <2>2
<1>6. PICK old, new : old = MeaningOn(m, T) /\ new = MeaningOn(m, S)
  OBVIOUS
<1>7. old \in Notification /\ new \in Notification
  BY <1>5, <1>6, MeaningTyped
<1>8. \A k \in {"READY", "STOPPING"} :
        (l = [key |-> k, value |-> "1"]) <=> (l.key = k /\ l.value = "1")
  BY <1>5 DEF LineRecord
<1>9. new.ready <=> (old.ready \/ (l.key = "READY" /\ l.value = "1"))
  <2>1. new.ready <=> \E j \in S : m[j] = [key |-> "READY", value |-> "1"]
    BY <1>6 DEF MeaningOn
  <2>2. old.ready <=> \E j \in T : m[j] = [key |-> "READY", value |-> "1"]
    BY <1>6 DEF MeaningOn
  <2> QED BY <1>1, <1>5, <1>8, <2>1, <2>2
<1>10. new.stopping <=> (old.stopping \/ (l.key = "STOPPING" /\ l.value = "1"))
  <2>1. new.stopping <=> \E j \in S : m[j] = [key |-> "STOPPING", value |-> "1"]
    BY <1>6 DEF MeaningOn
  <2>2. old.stopping <=> \E j \in T : m[j] = [key |-> "STOPPING", value |-> "1"]
    BY <1>6 DEF MeaningOn
  <2> QED BY <1>1, <1>5, <1>8, <2>1, <2>2
<1>11. new.status = IF l.key = "STATUS" THEN l.value ELSE old.status
  <2>1. /\ new.status = IF StatusesIn(m, S) = {} THEN "NULL" ELSE m[Max(StatusesIn(m, S))].value
        /\ old.status = IF StatusesIn(m, T) = {} THEN "NULL" ELSE m[Max(StatusesIn(m, T))].value
    BY <1>6 DEF MeaningOn
  <2>2. CASE l.key = "STATUS"
    <3>1. x \in StatusesIn(m, S) /\ StatusesIn(m, S) \in SUBSET (1..Len(m))
      BY <1>1, <1>3, <2>2 DEF StatusesIn
    <3>2. Max(StatusesIn(m, S)) \in StatusesIn(m, S) /\ Max(StatusesIn(m, S)) >= x
      BY <1>3, <3>1, LastPosition
    <3>3. Max(StatusesIn(m, S)) \in S /\ Max(StatusesIn(m, S)) <= x
      BY <1>3, <3>2 DEF StatusesIn
    <3>4. Max(StatusesIn(m, S)) = x
      <4>1. PICK z : z = Max(StatusesIn(m, S))
        OBVIOUS
      <4>2. z \in Nat /\ x \in Nat /\ z >= x /\ z <= x
        BY <1>3, <1>5, <3>2, <3>3, <4>1
      <4>3. z = x
        BY <4>2
      <4> QED BY <4>1, <4>3
    <3> QED BY <1>1, <2>1, <2>2, <3>1, <3>4
  <2>3. CASE l.key # "STATUS"
    <3>1. StatusesIn(m, S) = StatusesIn(m, T)
      BY <1>1, <1>5, <2>3 DEF StatusesIn
    <3> QED BY <2>1, <2>3, <3>1
  <2> QED BY <2>2, <2>3
<1>12. PICK res : res = apply_line(old, l)
  OBVIOUS
<1>13. /\ res \in Notification
       /\ res.ready <=> (old.ready \/ (l.key = "READY" /\ l.value = "1"))
       /\ res.stopping <=> (old.stopping \/ (l.key = "STOPPING" /\ l.value = "1"))
       /\ res.status = IF l.key = "STATUS" THEN l.value ELSE old.status
  BY <1>5, <1>7, <1>12, ApplyLine
<1>14. (res.ready <=> new.ready) /\ (res.stopping <=> new.stopping) /\ res.status = new.status
  BY <1>9, <1>10, <1>11, <1>13
<1>15. res = new
  BY <1>7, <1>13, <1>14 DEF Notification
<1> QED BY <1>1, <1>2, <1>6, <1>12, <1>15

\* service_notification_parse of any message is what the message means.
LEMMA ParseMeaning ==
  ASSUME NEW m \in Seq(LineRecord)
  PROVE  service_notification_parse(m) = MeaningOn(m, 1..Len(m))
<1> DEFINE Solves(it) ==
             it = [s \in SUBSET (DOMAIN m) |->
                     IF s = {} THEN NoNotification
                     ELSE LET x == Max(s) IN apply_line(it[s \ {x}], m[x])]
           means == [s \in SUBSET (DOMAIN m) |-> MeaningOn(m, s)]
<1>1. DOMAIN m = 1..Len(m) /\ Len(m) \in Nat
  BY LenProperties
<1>2. Solves(means)
  <2>1. ASSUME NEW s \in SUBSET (DOMAIN m)
        PROVE  MeaningOn(m, s) =
                 IF s = {} THEN NoNotification
                 ELSE LET x == Max(s) IN apply_line(means[s \ {x}], m[x])
    <3>1. CASE s = {}
      BY <1>1, <3>1, MeaningTyped
    <3>2. CASE s # {}
      <4>1. means[s \ {Max(s)}] = MeaningOn(m, s \ {Max(s)})
        OBVIOUS
      <4> QED BY <1>1, <3>2, <4>1, MeaningStep
    <3> QED BY <3>1, <3>2
  <2> QED BY <2>1
<1>3. PICK it : Solves(it) /\ service_notification_parse(m) = it[DOMAIN m]
  <2>1. Solves(CHOOSE it : Solves(it))
    BY <1>2
  <2> QED BY <2>1 DEF service_notification_parse, FoldLeft, MapThenFoldSet
<1> DEFINE Wrong == {k \in 0..Len(m) : it[1..k] # MeaningOn(m, 1..k)}
<1>4. ASSUME NEW k \in Wrong, \A j \in Wrong : ~(j < k)
      PROVE  FALSE
  <2>1. k \in 0..Len(m) /\ 1..k \in SUBSET (DOMAIN m)
    BY <1>1
  <2>2. it[1..k] = IF 1..k = {} THEN NoNotification
                   ELSE LET x == Max(1..k) IN apply_line(it[(1..k) \ {x}], m[x])
    BY <1>3, <2>1
  <2>3. CASE k = 0
    <3>1. 1..k = {}
      BY <2>3
    <3> QED BY <1>1, <1>4, <2>2, <3>1, MeaningTyped
  <2>4. CASE k # 0
    <3>1. k \in 1..k /\ \A y \in 1..k : k >= y
      BY <2>1, <2>4
    <3>2. Max(1..k) = k
      <4>1. k \in Nat /\ 1..k \in SUBSET (1..k) /\ 1..k # {}
        BY <2>1, <3>1
      <4>2. Max(1..k) \in 1..k /\ \A y \in 1..k : Max(1..k) >= y
        BY <4>1, LastPosition
      <4> QED BY <3>1, <4>1, <4>2
    <3>3. (1..k) \ {k} = 1..(k - 1) /\ k - 1 \in 0..Len(m) /\ k - 1 < k
      BY <1>1, <2>1, <2>4
    <3>4. it[1..(k - 1)] = MeaningOn(m, 1..(k - 1))
      BY <1>4, <3>3
    <3>5. it[1..k] = apply_line(MeaningOn(m, 1..(k - 1)), m[k])
      BY <2>2, <3>1, <3>2, <3>3, <3>4
    <3>6. MeaningOn(m, 1..k) = apply_line(MeaningOn(m, 1..(k - 1)), m[k])
      BY <1>1, <2>1, <3>1, <3>2, <3>3, MeaningStep
    <3> QED BY <1>4, <3>5, <3>6
  <2> QED BY <2>3, <2>4
<1>5. Wrong = {}
  <2>1. Wrong \subseteq Nat
    BY <1>1
  <2> HIDE DEF Wrong
  <2>2. Wrong # {} => \E k \in Wrong : \A j \in Wrong : ~(<<j, k>> \in OpToRel(<, Nat))
    BY <2>1, NatLessThanWellFounded, WFMin
  <2>3. Wrong # {} => \E k \in Wrong : \A j \in Wrong : ~(j < k)
    BY <2>1, <2>2 DEF OpToRel
  <2> QED BY <1>4, <2>3
<1>6. Len(m) \notin Wrong /\ Len(m) \in 0..Len(m)
  BY <1>1, <1>5
<1> QED BY <1>1, <1>3, <1>6

\* Every message is a sequence of lines; ready, stopping and status are one
\* line, because a status with a newline is refused.
LEMMA MessageLines ==
  ASSUME NEW m \in Messages
  PROVE  /\ m.by \in {"ready", "stopping", "status", "raw"}
         /\ m.lines \in Seq(LineRecord)
         /\ m.by = "ready" => m.lines = Line("READY", "1")
         /\ m.by = "stopping" => m.lines = Line("STOPPING", "1")
         /\ m.by = "status" =>
              m.lines = Line("STATUS", Head(m.text).value) /\ Head(m.text).value \in Word
<1> DEFINE Rec == [key : STRING, value : STRING]
<1>1. \A k \in Word, v \in Word : Line(k, v) \in Seq(LineRecord)
  <2> SUFFICES ASSUME NEW k \in Word, NEW v \in Word PROVE Line(k, v) \in Seq(LineRecord)
    OBVIOUS
  <2>1. [key |-> k, value |-> v] \in LineRecord
    BY DEF LineRecord
  <2> QED BY <2>1 DEF Line
<1>2. CASE m.by = "ready" /\ m.lines = Line("READY", "1")
  BY <1>1, <1>2 DEF Word
<1>3. CASE m.by = "stopping" /\ m.lines = Line("STOPPING", "1")
  BY <1>1, <1>3 DEF Word
<1>4. ASSUME NEW t \in Text, Accepted(t), m = [by |-> "status", text |-> t, lines |-> StatusMessage(t)]
      PROVE  /\ m.by = "status" /\ m.lines \in Seq(LineRecord)
             /\ m.lines = Line("STATUS", Head(m.text).value) /\ Head(m.text).value \in Word
  <2>1. t \in Seq(Rec) /\ t # <<>> /\ Len(t) = 1
    BY <1>4, NotifyAssumption DEF Accepted
  <2>2. Head(t) \in Rec /\ Tail(t) = <<>>
    <3>1. Head(t) \in Rec /\ Tail(t) \in Seq(Rec) /\ Len(Tail(t)) = 0
      <4> HIDE DEF Rec
      <4> QED BY <2>1, HeadTailProperties
    <3> QED BY <3>1, EmptySeq
  <2>3. Head(t).value \in Word
    BY <2>2 DEF Word
  <2>4. Line("STATUS", Head(t).value) \in Seq(LineRecord)
    BY <1>1, <2>3 DEF Word
  <2>5. StatusMessage(t) = Line("STATUS", Head(t).value)
    BY <2>2, <2>4, ConcatEmptySeq DEF StatusMessage
  <2> QED BY <1>4, <2>3, <2>4, <2>5
<1>5. ASSUME NEW r \in Raw, m = [by |-> "raw", text |-> <<>>, lines |-> r]
      PROVE  m.by = "raw" /\ m.lines \in Seq(LineRecord)
  <2>1. r \in Seq(Rec)
    BY NotifyAssumption
  <2>2. Rec \subseteq LineRecord
    BY DEF LineRecord, Word
  <2>3. r \in Seq(LineRecord)
    <3> HIDE DEF Rec
    <3> QED BY <2>1, <2>2, SeqMonotonic
  <2> QED BY <1>5, <2>3
<1>6. \/ m.by = "ready" /\ m.lines = Line("READY", "1")
      \/ m.by = "stopping" /\ m.lines = Line("STOPPING", "1")
      \/ \E t \in Text : Accepted(t) /\ m = [by |-> "status", text |-> t, lines |-> StatusMessage(t)]
      \/ \E r \in Raw : m = [by |-> "raw", text |-> <<>>, lines |-> r]
  BY DEF Messages
<1> QED BY <1>2, <1>3, <1>4, <1>5, <1>6

\* A message of one line means what the line says.
LEMMA OneLine ==
  ASSUME NEW k \in Word, NEW v \in Word
  PROVE  service_notification_parse(Line(k, v)) =
           apply_line(NoNotification, [key |-> k, value |-> v])
<1>1. PICK m : m = Line(k, v)
  OBVIOUS
<1>2. m \in Seq(LineRecord) /\ Len(m) = 1 /\ m[1] = [key |-> k, value |-> v]
  <2>1. [key |-> k, value |-> v] \in LineRecord
    BY DEF LineRecord
  <2> QED BY <1>1, <2>1 DEF Line
<1>3. 1..1 = {1} /\ {1} \in SUBSET (1..Len(m)) /\ {1} # {}
  BY <1>2
<1>4. Max({1}) = 1
  BY <1>2, <1>3, LastPosition
<1>5. {1} \ {1} = {}
  OBVIOUS
<1>6. MeaningOn(m, {1}) = apply_line(MeaningOn(m, {}), m[1])
  BY <1>2, <1>3, <1>4, <1>5, MeaningStep
<1>7. MeaningOn(m, {}) = NoNotification
  BY <1>2, <1>3, MeaningTyped
<1>8. service_notification_parse(m) = MeaningOn(m, 1..Len(m))
  BY <1>2, ParseMeaning
<1> QED BY <1>1, <1>2, <1>3, <1>6, <1>7, <1>8

\* service_notification_parse computes what a message means, for any message.
THEOREM ParserCorrect ==
  \A m \in Seq([key : STRING, value : STRING]) : service_notification_parse(m) = Meaning(m)
<1> SUFFICES ASSUME NEW m \in Seq([key : STRING, value : STRING])
             PROVE  service_notification_parse(m) = Meaning(m)
  OBVIOUS
<1>1. PICK R : R = [key : STRING, value : STRING]
  OBVIOUS
<1>2. R \subseteq LineRecord /\ m \in Seq(R)
  BY <1>1 DEF LineRecord, Word
<1>3. m \in Seq(LineRecord)
  BY <1>2, SeqMonotonic
<1>4. Meaning(m) = MeaningOn(m, 1..Len(m))
  BY DEF Meaning, MeaningOn, StatusesIn
<1> QED BY <1>3, <1>4, ParseMeaning

\* service_notify.c: what the receiver parses is what the sender called, and no
\* status text makes a service ready or stopping (NotificationsFaithful).
THEOREM FaithfulNotifications == Spec => []NotificationsFaithful
<1>1. NotifyInv => NotificationsFaithful
  <2> SUFFICES ASSUME NotifyInv, NEW s \in Socket, NEW i \in 1..Len(queue[s]),
                      sock[s].kind = "datagram"
               PROVE  LET m == queue[s][i] IN
                      service_notification_parse(m.lines) =
                        CASE m.by = "ready" -> [NoNotification EXCEPT !.ready = TRUE]
                          [] m.by = "stopping" -> [NoNotification EXCEPT !.stopping = TRUE]
                          [] m.by = "status" ->
                                [NoNotification EXCEPT !.status = Head(m.text).value]
                          [] OTHER -> Meaning(m.lines)
    BY DEF NotificationsFaithful
  <2>1. PICK m : m = queue[s][i]
    OBVIOUS
  <2>2. m \in Messages
    <3>1. queue[s] \in Seq(Messages)
      BY DEF NotifyInv, QueueInv
    <3> QED BY <2>1, <3>1, ElementOfSeq
  <2>3. CASE m.by = "ready"
    <3>1. m.lines = Line("READY", "1")
      BY <2>2, <2>3, MessageLines
    <3>2. service_notification_parse(m.lines) =
            apply_line(NoNotification, [key |-> "READY", value |-> "1"])
      BY <3>1, OneLine DEF Word
    <3>3. apply_line(NoNotification, [key |-> "READY", value |-> "1"])
            = [NoNotification EXCEPT !.ready = TRUE]
      BY DEF apply_line
    <3> QED BY <2>1, <2>3, <3>2, <3>3
  <2>4. CASE m.by = "stopping"
    <3>1. m.lines = Line("STOPPING", "1")
      BY <2>2, <2>4, MessageLines
    <3>2. service_notification_parse(m.lines) =
            apply_line(NoNotification, [key |-> "STOPPING", value |-> "1"])
      BY <3>1, OneLine DEF Word
    <3>3. apply_line(NoNotification, [key |-> "STOPPING", value |-> "1"])
            = [NoNotification EXCEPT !.stopping = TRUE]
      BY DEF apply_line
    <3> QED BY <2>1, <2>4, <3>2, <3>3
  <2>5. CASE m.by = "status"
    <3>1. PICK v : v = Head(m.text).value
      OBVIOUS
    <3>2. m.lines = Line("STATUS", v) /\ v \in Word
      BY <2>2, <2>5, <3>1, MessageLines
    <3>3. service_notification_parse(m.lines) =
            apply_line(NoNotification, [key |-> "STATUS", value |-> v])
      BY <3>2, OneLine DEF Word
    <3>4. apply_line(NoNotification, [key |-> "STATUS", value |-> v])
            = [NoNotification EXCEPT !.status = v]
      BY DEF apply_line
    <3> QED BY <2>1, <2>5, <3>1, <3>3, <3>4
  <2>6. CASE m.by = "raw"
    <3>1. m.lines \in Seq(LineRecord)
      BY <2>2, MessageLines
    <3>2. service_notification_parse(m.lines) = MeaningOn(m.lines, 1..Len(m.lines))
      BY <3>1, ParseMeaning
    <3>3. Meaning(m.lines) = MeaningOn(m.lines, 1..Len(m.lines))
      BY DEF Meaning, MeaningOn, StatusesIn
    <3> QED BY <2>1, <2>6, <3>2, <3>3
  <2> QED BY <2>2, <2>3, <2>4, <2>5, <2>6, MessageLines
<1> QED BY <1>1, NotifyCorrect, PTL
==============================================================================
