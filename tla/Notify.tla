------------------------------- MODULE Notify -------------------------------
(***************************************************************************)
(* Unix-domain sockets (unix_socket.c) and the service notifications sent  *)
(* over them (service_notify.c).                                           *)
(*                                                                         *)
(* A socket has two halves with different lives: a descriptor, which the   *)
(* kernel closes when its process dies, and a name in the file system,     *)
(* which only an unlink removes.  Creating and destroying a socket touch   *)
(* them in separate calls, and every process sees the file system between  *)
(* them.  Owners create, read and destroy sockets and may crash at any     *)
(* point; clients connect to a name or send a notification to it.          *)
(*                                                                         *)
(* A message is the sequence of its lines; a line is a key and a value.    *)
(* Lines with no '=' and empty lines have the key "none": the parser       *)
(* ignores both.  Calls refused for their arguments alone (no path, a path *)
(* too long for an address) change nothing and are left out.               *)
(***************************************************************************)
EXTENDS Naturals, SequencesExt

CONSTANTS Owner, Client, Path,
          Text,          \* status texts, each the sequence of its lines
          Raw,           \* messages a program sends without service_notify.c
          MaxSocket,     \* bound: sockets that exist or are named at a time
          QueueLimit,    \* bound: datagrams or connections that may wait
          MaxCrashes     \* bound: owners that crash

ASSUME NotifyAssumption ==
    /\ MaxSocket \in Nat \ {0} /\ QueueLimit \in Nat \ {0} /\ MaxCrashes \in Nat
    /\ Text \cup Raw \subseteq Seq([key : STRING, value : STRING])
    /\ \A t \in Text : t # <<>>

Socket == 1..MaxSocket
Kind == {"stream", "datagram"}
Nothing == 0                \* a path that does not exist
File == MaxSocket + 1       \* a path that names no socket

VARIABLES
    dir,       \* what each path names: a socket, Nothing or a File
    phase,     \* the descriptor of each socket
    sock,      \* its type, path and owner
    queue,     \* what waits in it: datagrams or connections
    call,      \* the library call each process is in
    crashes,
    intruded   \* history: paths whose name a program removed before its owner could

vars == <<dir, phase, sock, queue, call, crashes, intruded>>

-----------------------------------------------------------------------------
(* The messages. *)

Line(k, v) == <<[key |-> k, value |-> v]>>

NoNotification == [ready |-> FALSE, stopping |-> FALSE, status |-> "NULL"]

apply_line(notification, line) ==
    CASE line.key = "READY" /\ line.value = "1" ->
            [notification EXCEPT !.ready = TRUE]
      [] line.key = "STOPPING" /\ line.value = "1" ->
            [notification EXCEPT !.stopping = TRUE]
      [] line.key = "STATUS" -> [notification EXCEPT !.status = line.value]
      [] OTHER -> notification

service_notification_parse(message) ==
    FoldLeft(apply_line, NoNotification, message)

(* Mutant: any status is sent. *)
AcceptedAny(t) == TRUE

(* A status is refused when it holds a newline. *)
Accepted(t) == Len(t) = 1

(* "STATUS=<text>\n": what follows a newline in the text becomes a line of *)
(* the message.                                                            *)
StatusMessage(t) == Line("STATUS", Head(t).value) \o Tail(t)

(* What the calls of a client put in a datagram, with the call it was. *)
Messages ==
    {[by |-> "ready", text |-> <<>>, lines |-> Line("READY", "1")],
     [by |-> "stopping", text |-> <<>>, lines |-> Line("STOPPING", "1")]}
      \cup {[by |-> "status", text |-> t, lines |-> StatusMessage(t)] :
                t \in {u \in Text : Accepted(u)}}
      \cup {[by |-> "raw", text |-> <<>>, lines |-> r] : r \in Raw}

-----------------------------------------------------------------------------
Idle == [op |-> "idle"]
NoSocket == [kind |-> "none", path |-> Nothing, owner |-> Nothing]

Open(s) == phase[s] \in {"bound", "listening", "held"}

(* The sockets a program may be handed by socket(): not open, not named,   *)
(* not about to be unlinked, and nobody's to wait for.                     *)
Fresh == {s \in Socket : /\ phase[s] \in {"none", "crashed"}
                         /\ \A p \in Path : dir[p] # s
                         /\ \A c \in Client : call[c].op \in Kind => call[c].on # s}

Init ==
    /\ dir \in [Path -> {Nothing, File}]
    /\ phase = [s \in Socket |-> "none"]
    /\ sock = [s \in Socket |-> NoSocket]
    /\ queue = [s \in Socket |-> <<>>]
    /\ call = [x \in Owner \cup Client |-> Idle]
    /\ crashes = 0 /\ intruded = {}

Returns(x) == call' = [call EXCEPT ![x] = Idle]

(* unix_listener_create and unix_datagram_socket_create, up to the bind. *)
Create(o, k, p) ==
    /\ call[o] = Idle
    /\ call' = [call EXCEPT ![o] = [op |-> "create", kind |-> k, path |-> p]]
    /\ UNCHANGED <<dir, phase, sock, queue, crashes, intruded>>

Bind(o) ==
    /\ call[o].op = "create" /\ dir[call[o].path] = Nothing /\ Fresh # {}
    /\ LET s == CHOOSE f \in Fresh : \A g \in Fresh : f <= g IN
       /\ phase' = [phase EXCEPT ![s] = "bound"]
       /\ sock' = [sock EXCEPT ![s] =
                      [kind |-> call[o].kind, path |-> call[o].path, owner |-> o]]
       /\ dir' = [dir EXCEPT ![call[o].path] = s]
       /\ call' = [call EXCEPT ![o] = [op |-> "setup", s |-> s]]
    /\ UNCHANGED <<queue, crashes, intruded>>

(* Mutant: undone in the same way as the steps after it. *)
BindFailsUnlinks(o) ==
    /\ call[o].op = "create" /\ dir[call[o].path] # Nothing
    /\ dir' = [dir EXCEPT ![call[o].path] = Nothing]
    /\ Returns(o)
    /\ UNCHANGED <<phase, sock, queue, crashes, intruded>>

(* There is no socket to be had, or the path names something: the          *)
(* descriptor is closed and the name stays.                                *)
BindFails(o) ==
    /\ call[o].op = "create"
    /\ dir[call[o].path] # Nothing \/ Fresh = {}
    /\ Returns(o)
    /\ UNCHANGED <<dir, phase, sock, queue, crashes, intruded>>

Listen(o) ==
    /\ call[o].op = "setup"
    /\ sock[call[o].s].kind = "stream" /\ phase[call[o].s] = "bound"
    /\ phase' = [phase EXCEPT ![call[o].s] = "listening"]
    /\ UNCHANGED <<dir, sock, queue, call, crashes, intruded>>

(* The path is copied and the handle allocated: create returns it. *)
Created(o) ==
    /\ call[o].op = "setup"
    /\ phase[call[o].s] =
          IF sock[call[o].s].kind = "stream" THEN "listening" ELSE "bound"
    /\ phase' = [phase EXCEPT ![call[o].s] = "held"]
    /\ Returns(o)
    /\ UNCHANGED <<dir, sock, queue, crashes, intruded>>

(* Mutant: the descriptor stays open, and nobody has it any more. *)
CloseNot(o, s) ==
    /\ phase' = [phase EXCEPT ![s] = "bound"]
    /\ call' = [call EXCEPT ![o] = [op |-> "unlink", s |-> s]]
    /\ UNCHANGED <<dir, sock, queue, crashes, intruded>>

(* close(fd): what waits in the socket is gone; the unlink comes next. *)
Close(o, s) ==
    /\ phase' = [phase EXCEPT ![s] = "closed"]
    /\ queue' = [queue EXCEPT ![s] = <<>>]
    /\ call' = [call EXCEPT ![o] = [op |-> "unlink", s |-> s]]
    /\ UNCHANGED <<dir, sock, crashes, intruded>>

(* Mutant: the descriptor is closed and the name forgotten. *)
CreateFailsNamed(o) ==
    /\ call[o].op = "setup"
    /\ phase' = [phase EXCEPT ![call[o].s] = "none"]
    /\ queue' = [queue EXCEPT ![call[o].s] = <<>>]
    /\ Returns(o)
    /\ UNCHANGED <<dir, sock, crashes, intruded>>

(* listen, strdup or malloc fails: what was made is unmade. *)
CreateFails(o) ==
    /\ call[o].op = "setup"
    /\ Close(o, call[o].s)

(* unix_listener_destroy, unix_datagram_socket_destroy. *)
Destroy(o, s) ==
    /\ call[o] = Idle /\ phase[s] = "held" /\ sock[s].owner = o
    /\ Close(o, s)

(* The unlink of both goes by the path, not by the socket. *)
Unlink(o) ==
    /\ call[o].op = "unlink"
    /\ dir' = [dir EXCEPT ![sock[call[o].s].path] = Nothing]
    /\ phase' = [phase EXCEPT ![call[o].s] =
                    IF @ = "closed" THEN "none" ELSE @]
    /\ sock' = [sock EXCEPT ![call[o].s] = NoSocket]
    /\ Returns(o)
    /\ UNCHANGED <<queue, crashes, intruded>>

-----------------------------------------------------------------------------
(* connect() and sendto() look the path up, and wait when what it names    *)
(* has no room.                                                            *)

Reaches(p, k) ==
    /\ dir[p] \in Socket /\ Open(dir[p]) /\ sock[dir[p]].kind = k
    /\ k = "stream" => phase[dir[p]] \in {"listening", "held"}

SocketConnect(c, p) ==
    /\ call[c] = Idle
    /\ call' = [call EXCEPT ![c] = [op |-> "stream", path |-> p, on |-> Nothing]]
    /\ UNCHANGED <<dir, phase, sock, queue, crashes, intruded>>

(* unix_datagram_socket_send, through service_notify.c or not.  Which      *)
(* message it sends is named when the message is delivered: nothing        *)
(* depends on it before.                                                   *)
DatagramSend(c, p) ==
    /\ call[c] = Idle
    /\ call' = [call EXCEPT ![c] = [op |-> "datagram", path |-> p, on |-> Nothing]]
    /\ UNCHANGED <<dir, phase, sock, queue, crashes, intruded>>

Looks(c) == call[c].op \in Kind /\ call[c].on = Nothing

Full(s) == Len(queue[s]) >= QueueLimit

(* What the call of a client brings: a connection or a datagram. *)
Brings(c) == IF call[c].op = "stream" THEN {c} ELSE Messages

Delivered(c) ==
    /\ Looks(c) /\ Reaches(call[c].path, call[c].op)
    /\ ~Full(dir[call[c].path])
    /\ \E m \in Brings(c) :
          queue' = [queue EXCEPT ![dir[call[c].path]] = Append(@, m)]
    /\ Returns(c)
    /\ UNCHANGED <<dir, phase, sock, crashes, intruded>>

Refused(c) ==
    /\ Looks(c) /\ ~Reaches(call[c].path, call[c].op)
    /\ Returns(c)
    /\ UNCHANGED <<dir, phase, sock, queue, crashes, intruded>>

(* The kernel keeps the caller on the socket it found, whatever becomes of *)
(* the path, and lets it look again when there is room or it was closed.   *)
Waits(c) ==
    /\ Looks(c) /\ Reaches(call[c].path, call[c].op) /\ Full(dir[call[c].path])
    /\ call' = [call EXCEPT ![c].on = dir[call[c].path]]
    /\ UNCHANGED <<dir, phase, sock, queue, crashes, intruded>>

Wakes(c) ==
    /\ call[c].op \in Kind /\ call[c].on # Nothing
    /\ ~Open(call[c].on) \/ ~Full(call[c].on)
    /\ call' = [call EXCEPT ![c].on = Nothing]
    /\ UNCHANGED <<dir, phase, sock, queue, crashes, intruded>>

(* unix_listener_accept; recv on a datagram socket. *)
Take(s) ==
    /\ phase[s] = "held" /\ call[sock[s].owner] = Idle /\ queue[s] # <<>>
    /\ queue' = [queue EXCEPT ![s] = Tail(@)]
    /\ UNCHANGED <<dir, phase, sock, call, crashes, intruded>>

-----------------------------------------------------------------------------
(* An owner crashes: the kernel closes its descriptors and its names stay. *)
Crash(o) ==
    LET mine == {s \in Socket : /\ phase[s] \notin {"none", "crashed"}
                                /\ sock[s].owner = o}
    IN  /\ crashes < MaxCrashes /\ mine # {}
        /\ crashes' = crashes + 1
        /\ phase' = [s \in Socket |-> IF s \in mine THEN "crashed" ELSE phase[s]]
        /\ queue' = [s \in Socket |-> IF s \in mine THEN <<>> ELSE queue[s]]
        /\ sock' = [s \in Socket |-> IF s \in mine THEN NoSocket ELSE sock[s]]
        /\ Returns(o)
        /\ UNCHANGED <<dir, intruded>>

(* A program removes a plain file, or a name that nobody listens to any    *)
(* more.  The library never does: create fails until somebody has.  What a *)
(* crash left and what an owner has closed and is about to unlink look the *)
(* same to it.                                                             *)
CleanUp(p) ==
    /\ dir[p] # Nothing /\ ~(dir[p] \in Socket /\ Open(dir[p]))
    /\ intruded' = IF dir[p] \in Socket /\ phase[dir[p]] = "closed"
                   THEN intruded \cup {p} ELSE intruded
    /\ dir' = [dir EXCEPT ![p] = Nothing]
    /\ UNCHANGED <<phase, sock, queue, call, crashes>>

-----------------------------------------------------------------------------
OwnerStep(o) ==
    Bind(o) \/ BindFails(o) \/ Listen(o) \/ Created(o) \/ CreateFails(o) \/ Unlink(o)

ClientStep(c) == Delivered(c) \/ Refused(c) \/ Waits(c) \/ Wakes(c)

Next ==
    \/ \E o \in Owner : OwnerStep(o) \/ Crash(o)
    \/ \E o \in Owner, k \in Kind, p \in Path : Create(o, k, p)
    \/ \E o \in Owner, s \in Socket : Destroy(o, s)
    \/ \E s \in Socket : Take(s)
    \/ \E c \in Client : ClientStep(c)
    \/ \E c \in Client, p \in Path : SocketConnect(c, p) \/ DatagramSend(c, p)
    \/ \E p \in Path : CleanUp(p)

(* A call goes on once it is made.  Nothing makes a program read its socket. *)
Fairness ==
    /\ \A o \in Owner : WF_vars(OwnerStep(o))
    /\ \A c \in Client : WF_vars(ClientStep(c))

Spec == Init /\ [][Next]_vars /\ Fairness

-----------------------------------------------------------------------------
(* Type correctness: no queue grows past its limit, and a call that is at  *)
(* work on a socket works on one of its own that still exists.             *)
TypeOK ==
    /\ dir \in [Path -> Socket \cup {Nothing, File}]
    /\ phase \in [Socket -> {"none", "bound", "listening", "held", "closed",
                             "crashed"}]
    /\ \A s \in Socket : Len(queue[s]) <= QueueLimit
    /\ \A x \in Owner \cup Client :
          call[x].op \in {"idle", "create", "setup", "unlink"} \cup Kind
    /\ \A o \in Owner : call[o].op \in {"setup", "unlink"} =>
          phase[call[o].s] # "none" /\ sock[call[o].s].owner = o
    /\ crashes \in 0..MaxCrashes /\ intruded \subseteq Path

(* Some owner is in one of the calls ops on the socket. *)
InCall(s, ops) == \E o \in Owner : call[o].op \in ops /\ call[o].s = s

(* Some program has the socket: as a handle, or in a create that goes on. *)
Held(s) == phase[s] = "held" \/ InCall(s, {"setup"})

(* Descriptor and name go together, whatever other creates, destroys and   *)
(* failed creates of the same path do meanwhile (unix_socket_bind, the     *)
(* rollbacks of create).  Every socket that is open belongs to a handle or *)
(* to a create that is still running, and has its name, so that whoever    *)
(* uses the path reaches it; and a name that outlives its socket is one a  *)
(* crash left or one that an unlink is about to remove.  On a path where   *)
(* another program removed a name between the close and the unlink of      *)
(* unix_listener_destroy, a live socket may lose its name.                 *)
NamesMatchSockets ==
    /\ TypeOK
    /\ \A s \in Socket : Open(s) =>
          /\ sock[s].path \in intruded \/ dir[sock[s].path] = s
          /\ phase[s] = "held" <=> ~InCall(s, {"setup"})
          /\ ~InCall(s, {"unlink"})
    /\ \A p \in Path : dir[p] \in Socket =>
          Open(dir[p]) \/ phase[dir[p]] = "crashed" \/ InCall(dir[p], {"unlink"})

(* What a message means: ready and stopping if some line says so with the  *)
(* value 1, and the last STATUS line is the one that counts.               *)
Meaning(m) ==
    LET says(k) == \E j \in 1..Len(m) : m[j] = [key |-> k, value |-> "1"]
        statuses == {j \in 1..Len(m) : m[j].key = "STATUS"}
    IN  [ready |-> says("READY"), stopping |-> says("STOPPING"),
         status |-> IF statuses = {} THEN "NULL" ELSE m[Max(statuses)].value]

(* What the receiver parses is what the sender called, so that no status   *)
(* text makes a service ready or stopping (service_notify_status); and of  *)
(* any other message it is what the message means (service_notification_parse). *)
NotificationsFaithful ==
    \A s \in Socket : \A i \in 1..Len(queue[s]) :
        LET m == queue[s][i] IN
        sock[s].kind = "datagram" =>
            service_notification_parse(m.lines) =
                CASE m.by = "ready" -> [NoNotification EXCEPT !.ready = TRUE]
                  [] m.by = "stopping" -> [NoNotification EXCEPT !.stopping = TRUE]
                  [] m.by = "status" ->
                        [NoNotification EXCEPT !.status = Head(m.text).value]
                  [] OTHER -> Meaning(m.lines)

(* A name that a step of a library call removes is the one of the caller's *)
(* own socket, whoever creates, fails to create and crashes on the path,   *)
(* as long as no other program removed the name between the close and the  *)
(* unlink of its owner: there the unlink goes by the path and takes the    *)
(* name of whoever bound it since.                                         *)
UnlinksOnlyItsOwn ==
    [][\A o \in Owner, p \in Path \ intruded :
          call[o] # call'[o] /\ crashes' = crashes /\ dir[p] # Nothing
             /\ dir'[p] # dir[p]
          => call[o].op = "unlink" /\ dir[p] = call[o].s]_vars

(* A connect or a send that never comes back finds a full socket again and *)
(* again that some program still has: it waits for its reader, or other    *)
(* senders are quicker each time.  None is left waiting for a socket that  *)
(* was destroyed, rolled back by a failed create or closed by a crash,     *)
(* whatever has become of the path.                                        *)
CallsReturn ==
    \A c \in Client :
        <>[](call[c].op \in Kind) =>
            []<>(\E s \in Socket : /\ call[c].op \in Kind /\ call[c].on = s
                                   /\ Full(s) /\ Held(s))

=============================================================================
