---------------------------- MODULE Descriptors -----------------------------
(***************************************************************************)
(* What a spawned program starts with: the descriptors of the host         *)
(* program (pipe.c and socket_pair.c), what process_config.c records, the  *)
(* fork, and what executor_child_exec makes of both before execve.         *)
(*                                                                         *)
(* A Pipe and a SocketPair are the same thing here: a pair of descriptors  *)
(* on the two ends of one kernel object.  The child works on its own copy  *)
(* of the table, so that its set-up is one step; what the other processes  *)
(* see of it is that it holds every descriptor of the host program from    *)
(* the fork to the execve.  Calls of the host program that fail change     *)
(* nothing, and are left out.  Of path, argv, env and the umask nothing    *)
(* is checked, and they are left out too.                                  *)
(***************************************************************************)
EXTENDS Integers, Sequences, FiniteSets

CONSTANTS MaxPair,        \* bound on the pairs the host program creates
          MaxChild,       \* bound on the children it spawns
          MaxFd,          \* the highest descriptor
          Targets,        \* the standard descriptors the client redirects
          Option,         \* the other settings the client makes
          MaxSettings,    \* bound on the settings of one ProcessConfig
          Requested,      \* the value of a limit it sets
          Environments,   \* where the host program may run
          None            \* no descriptor, no pair

Pair == 1 .. MaxPair
Child == 1 .. MaxChild
Fd == 0 .. MaxFd
Std == 0 .. 2              \* STDIN_FILENO, STDOUT_FILENO, STDERR_FILENO
Closed == -1               \* PIPE_CLOSED_FD, a redirection that is not set
Limits == {"memory", "cpu", "nofile"}

\* An entry of a descriptor table: its object (an end of a pair, or a standard
\* descriptor the host program started with), its close-on-exec flag and, as
\* history, whether the client means spawned programs to have it.
Descriptor == [obj : (Pair \X (1 .. 2)) \cup ({None} \X Std), cloexec : BOOLEAN, shared : BOOLEAN]

\* The two descriptors of a Pipe or SocketPair.
Ends == [1 .. 2 -> Fd \cup {Closed}]

\* An environment: which standard descriptors are open, the hard limit of the
\* resources, whether the platform limits memory, whether the program is root.
ASSUME DescriptorsAssumption ==
    /\ MaxFd \in Nat /\ MaxFd >= 2 /\ Requested \in Nat
    /\ MaxPair \in Nat /\ MaxChild \in Nat /\ MaxSettings \in Nat
    /\ None \notin Nat \cup Descriptor \cup Ends
    /\ Targets \subseteq Std
    /\ Option \subseteq Limits \cup {"cwd", "own_ids", "credentials"}
    /\ Environments \subseteq [std : SUBSET Std, hard : Nat, memory : BOOLEAN, root : BOOLEAN]

VARIABLES
    env,     \* the environment
    fds,     \* Fd -> its entry, or None
    ends,    \* Pair -> the descriptors of its ends; None before and after its life
    used,    \* how many pairs were created so far
    child    \* Child -> the spawned process

vars == <<env, fds, ends, used, child>>

Entry(obj, cloexec, shared) == [obj |-> obj, cloexec |-> cloexec, shared |-> shared]
NoConfig == [src |-> [t \in Std |-> Closed], opts |-> {}]
NoTable == [f \in Fd |-> None]
NoChild == [pc |-> "none", table |-> NoTable, config |-> NoConfig,
            given |-> {}]

Init ==
    /\ env \in Environments
    /\ fds = [f \in Fd |-> IF f \in env.std THEN Entry(<<None, f>>, FALSE, TRUE) ELSE None]
    /\ ends = [k \in Pair |-> None] /\ used = 0
    /\ child = [c \in Child |-> NoChild]

-----------------------------------------------------------------------------
(* pipe.c, socket_pair.c.                                                  *)

\* pipe and socketpair take the two lowest free descriptors.
Lowest(f, S) == f \in S /\ \A g \in S : f <= g

\* Mutant: close-on-exec is not set.
CreatePairInherited(k) ==
    /\ k = used + 1
    /\ LET free == {f \in Fd : fds[f] = None} IN
       \E a, b \in free :
         /\ Lowest(a, free) /\ Lowest(b, free \ {a})
         /\ fds' = [fds EXCEPT ![a] = Entry(<<k, 1>>, FALSE, FALSE),
                               ![b] = Entry(<<k, 2>>, FALSE, FALSE)]
         /\ ends' = [ends EXCEPT ![k] = <<a, b>>]
    /\ used' = k
    /\ UNCHANGED <<env, child>>

\* pipe_create, socket_pair_create: both ends close on exec.
CreatePair(k) ==
    /\ k = used + 1
    /\ LET free == {f \in Fd : fds[f] = None} IN
       \E a, b \in free :
         /\ Lowest(a, free) /\ Lowest(b, free \ {a})
         /\ fds' = [fds EXCEPT ![a] = Entry(<<k, 1>>, TRUE, FALSE),
                               ![b] = Entry(<<k, 2>>, TRUE, FALSE)]
         /\ ends' = [ends EXCEPT ![k] = <<a, b>>]
    /\ used' = k
    /\ UNCHANGED <<env, child>>

\* pipe_clear_cloexec_read and so on.
ClearCloexec(k, e) ==
    /\ ends[k] # None /\ ends[k][e] # Closed
    /\ fds' = [fds EXCEPT ![ends[k][e]] = Entry(<<k, e>>, FALSE, TRUE)]
    /\ UNCHANGED <<env, ends, used, child>>

\* Mutant: the closed end keeps its number, which may be another's by now.
CloseEndKeepsFd(k, e) ==
    /\ ends[k] # None
    /\ fds' = [f \in Fd |-> IF f = ends[k][e] THEN None ELSE fds[f]]
    /\ UNCHANGED <<env, ends, used, child>>

\* pipe_close_read and so on; an end that is closed stays closed.
CloseEnd(k, e) ==
    /\ ends[k] # None
    /\ fds' = [f \in Fd |-> IF f = ends[k][e] THEN None ELSE fds[f]]
    /\ ends' = [ends EXCEPT ![k][e] = Closed]
    /\ UNCHANGED <<env, used, child>>

\* pipe_destroy, socket_pair_destroy.
DestroyPair(k) ==
    /\ ends[k] # None
    /\ fds' = [f \in Fd |-> IF f \in {ends[k][1], ends[k][2]} THEN None ELSE fds[f]]
    /\ ends' = [ends EXCEPT ![k] = None]
    /\ UNCHANGED <<env, used, child>>

-----------------------------------------------------------------------------
(* process_config.c.                                                       *)

\* The ProcessConfigs a client can make with the setters: they record numbers
\* and flags, whatever the numbers refer to now or later, and nothing is ever
\* unset.  The ids it sets are those the host program has ("own_ids") or others
\* ("credentials").
Configs ==
    {cfg \in [src : [Std -> Fd \cup {Closed}], opts : SUBSET Option] :
        /\ \A t \in Std \ Targets : cfg.src[t] = Closed
        /\ ~({"own_ids", "credentials"} \subseteq cfg.opts)
        /\ Cardinality({t \in Std : cfg.src[t] # Closed}) + Cardinality(cfg.opts) <= MaxSettings}

-----------------------------------------------------------------------------
(* executor_spawn and executor_child_exec.                                 *)

\* fork: the child has a copy of the table.
Spawn(c) ==
    /\ child[c].pc = "none" /\ \A d \in 1 .. c - 1 : child[d].pc # "none"
    /\ \E cfg \in Configs :
         child' = [child EXCEPT ![c] = [NoChild EXCEPT !.pc = "forked", !.table = fds,
                                             !.config = cfg]]
    /\ UNCHANGED <<env, fds, ends, used>>

\* dup2: the copy does not close on exec; a descriptor copied to itself does
\* not change.
dup2(table, f, t) ==
    IF f = t THEN table ELSE [table EXCEPT ![t] = [table[f] EXCEPT !.cloexec = FALSE]]

Redirect(table, src, t) ==
    IF src[t] = Closed \/ table[src[t]] = None THEN table ELSE dup2(table, src[t], t)

\* The table before the redirection of descriptor t: stdin, stdout, stderr, in
\* this order.
Before(table, src, t) ==
    CASE t = 0 -> table
      [] t = 1 -> Redirect(table, src, 0)
      [] OTHER -> Redirect(Redirect(table, src, 0), src, 1)

Redirected(table, src) == Redirect(Before(table, src, 2), src, 2)

\* Mutant: a standard descriptor that was a source is closed too.
CloseSourcesStandard(table, src) ==
    [f \in Fd |-> IF \E t \in Std : src[t] = f THEN None ELSE table[f]]

\* The sources that are not standard descriptors are closed.
CloseSources(table, src) ==
    [f \in Fd |-> IF f \notin Std /\ \E t \in Std : src[t] = f THEN None ELSE table[f]]

\* execve closes what is marked.
Execve(table) ==
    [f \in Fd |-> IF table[f] # None /\ table[f].cloexec THEN None ELSE table[f]]

\* platform_apply_rlimit: the new soft and hard limit.
Effective(hard) == IF Requested > hard THEN hard ELSE Requested

\* The kernel raises a hard limit for a privileged process only.
Granted(limit) == limit <= env.hard \/ env.root

\* Mutant: the user changes before the group.
StepsUidFirst == <<126, 120, 121, 122, 123, 128, 129, 130, 125, 124, 127>>

\* The steps that may fail, in order, named by the exit code of the failure.
Steps == <<126, 120, 121, 122, 123, 128, 129, 130, 124, 125, 127>>

\* The child may still take other ids when it comes to the i-th step.
PrivilegedAt(opts, i) ==
    env.root /\ ~("credentials" \in opts /\ \E j \in 1 .. i - 1 : Steps[j] = 125)

\* The i-th step fails: dup2 of a descriptor that is not open, a memory limit
\* on a platform that has none, a limit that is not granted, setgid or setuid
\* to ids that are not its own without the privilege.
MustFail(c, i) ==
    LET opts == c.config.opts  src == c.config.src
        refused == ~Granted(Effective(env.hard))
    IN
    CASE Steps[i] \in {121, 122, 123} ->
           LET t == Steps[i] - 121 IN src[t] # Closed /\ Before(c.table, src, t)[src[t]] = None
      [] Steps[i] = 128 -> "memory" \in opts /\ (~env.memory \/ refused)
      [] Steps[i] = 129 -> "cpu" \in opts /\ refused
      [] Steps[i] = 130 -> "nofile" \in opts /\ refused
      [] Steps[i] \in {124, 125} -> "credentials" \in opts /\ ~PrivilegedAt(opts, i)
      [] OTHER -> FALSE

\* What a step is there for, if it is there for a setting.
Setting == [code \in {120, 128, 129, 130} |->
              CASE code = 120 -> "cwd" [] code = 128 -> "memory"
                [] code = 129 -> "cpu" [] code = 130 -> "nofile"]

\* setpgid and execve, and chdir, getrlimit and setrlimit when they are called,
\* may fail for reasons of their own.
MayFail(c, i) ==
    \/ Steps[i] \in {126, 127}
    \/ Steps[i] \in DOMAIN Setting /\ Setting[Steps[i]] \in c.config.opts

\* The i-th step may be the one that ends the child.
EndsAt(c, i) ==
    /\ MustFail(c, i) \/ MayFail(c, i)
    /\ \A j \in 1 .. i - 1 : ~MustFail(c, j)

\* No step is sure to fail.
Runnable(c) == \A i \in 1 .. Len(Steps) : ~MustFail(c, i)

\* The first failure ends the child; the kernel closes its descriptors.
ChildFails(c) ==
    /\ child[c].pc = "forked"
    /\ \E i \in 1 .. Len(Steps) : EndsAt(child[c], i)
    /\ child' = [child EXCEPT ![c] = [NoChild EXCEPT !.pc = "ended"]]
    /\ UNCHANGED <<env, fds, ends, used>>

\* The ends that the host program gives to the program c will run: by a
\* redirection, or by clearing close-on-exec.
GivenTo(c) ==
    {end \in Pair \X (1 .. 2) : \E f \in Fd :
        /\ c.table[f] # None /\ c.table[f].obj = end
        /\ c.table[f].shared \/ \E t \in Std : c.config.src[t] = f}

\* All steps succeed and the program runs.
ChildRuns(c) ==
    /\ child[c].pc = "forked"
    /\ Runnable(child[c])
    /\ LET src == child[c].config.src IN
       child' = [child EXCEPT ![c] = [NoChild EXCEPT !.pc = "running",
                   !.table = Execve(CloseSources(Redirected(child[c].table, src), src)),
                   !.given = GivenTo(child[c])]]
    /\ UNCHANGED <<env, fds, ends, used>>

\* The program ends, or the child is killed before it comes to run it.
ChildEnds(c) ==
    /\ child[c].pc \in {"forked", "running"}
    /\ child' = [child EXCEPT ![c] = [NoChild EXCEPT !.pc = "ended"]]
    /\ UNCHANGED <<env, fds, ends, used>>

Next ==
    \/ \E k \in Pair : \/ CreatePair(k) \/ DestroyPair(k)
                       \/ \E e \in 1 .. 2 : ClearCloexec(k, e) \/ CloseEnd(k, e)
    \/ \E c \in Child : Spawn(c) \/ ChildFails(c) \/ ChildRuns(c) \/ ChildEnds(c)

\* A child that was forked gets to its execve or fails.
Spec == Init /\ [][Next]_vars /\ \A c \in Child : WF_vars(ChildFails(c) \/ ChildRuns(c))

-----------------------------------------------------------------------------
(* Properties.                                                             *)

\* Type invariant of the host program's descriptors and its children.
TypeOK ==
    /\ env \in Environments
    /\ fds \in [Fd -> Descriptor \cup {None}]
    /\ ends \in [Pair -> Ends \cup {None}]
    /\ used \in 0 .. MaxPair
    /\ child \in [Child -> [pc : {"none", "forked", "running", "ended"},
                            table : [Fd -> Descriptor \cup {None}],
                            config : [src : [Std -> Fd \cup {Closed}], opts : SUBSET Option],
                            given : SUBSET (Pair \X (1 .. 2))]]

\* Every descriptor of the host program that is not a standard one it started
\* with is an open end of exactly one pair, and that end names it: none is
\* leaked, and none is closed in the name of a pair that no longer owns it,
\* though the kernel hands out the numbers again.
DescriptorsOwned ==
    /\ TypeOK
    /\ \A f \in Fd : fds[f] # None /\ fds[f].obj[1] \in Pair =>
         ends[fds[f].obj[1]] # None /\ ends[fds[f].obj[1]][fds[f].obj[2]] = f
    /\ \A k \in Pair, e \in 1 .. 2 : ends[k] # None /\ ends[k][e] # Closed =>
         fds[ends[k][e]] # None /\ fds[ends[k][e]].obj = <<k, e>>

\* A redirection whose source is a standard descriptor that the client
\* redirects too, and that dup2 has overwritten by then.
Clobbered(src, t) == src[t] \in Std /\ src[t] < t /\ src[src[t]] \notin {Closed, src[t]}

\* c comes to run its program in this step, from the descriptors it was forked
\* with and its ProcessConfig.
Starts(c) == child[c].pc = "forked" /\ child'[c].pc = "running"

\* What a program is started with, for every order and overlap of the
\* redirections.  A descriptor that is redirected is open, on the object that
\* its source referred to at the fork, or, where an earlier dup2 overwrote the
\* source, on the one that dup2 put there.  A standard descriptor that is not
\* redirected, or redirected to itself, stays what it was and keeps its
\* close-on-exec flag, so that execve may close it.  Beyond the standard
\* descriptors the program has only those whose flag the client cleared, and no
\* second copy of a redirection: closing the standard one closes the end.
RedirectionsExact ==
    [][\A c \in Child : Starts(c) =>
        LET src == child[c].config.src  start == child[c].table  table == child'[c].table IN
        /\ \A t \in Std :
             IF src[t] \in {Closed, t}
               THEN table[t] = IF start[t] # None /\ start[t].cloexec THEN None ELSE start[t]
               ELSE /\ table[t] # None
                    /\ table[t].obj = IF Clobbered(src, t) THEN table[src[t]].obj
                                                          ELSE start[src[t]].obj
        /\ \A f \in Fd \ Std : table[f] # None =>
             start[f].shared /\ \A t \in Std : src[t] # f]_vars

\* The set-up is honest.  Nothing but a source that was neither open at the fork
\* nor the target of an earlier redirection, a memory limit on a platform
\* without one, or other ids without the privilege makes it certain to fail: no
\* limit above the hard limit does, and no change of both ids; and none of
\* these is passed over.
\* A child that ends in the set-up ends with the exit code of a setting it has,
\* and with that of the ids only if it may not take them.
SetUpHonest ==
    \A c \in Child : child[c].pc = "forked" =>
        LET src == child[c].config.src  opts == child[c].config.opts IN
        /\ Runnable(child[c]) <=>
             /\ \A t \in Std : src[t] = Closed \/ child[c].table[src[t]] # None \/ Clobbered(src, t)
             /\ "memory" \in opts => env.memory
             /\ "credentials" \in opts => env.root
        /\ \A i \in 1 .. Len(Steps) : EndsAt(child[c], i) =>
             LET code == Steps[i] IN
             /\ code \in {121, 122, 123} => child[c].table[src[code - 121]] = None
             /\ code \in DOMAIN Setting => Setting[code] \in opts
             /\ code \in {124, 125} => "credentials" \in opts /\ ~env.root

\* Once the client has closed an end, the other end sees end-of-file as soon as
\* the programs it was given to have ended: no child that was forked for
\* something else keeps it open past its execve.
EndOfFileArrives ==
    \A k \in Pair, e \in 1 .. 2 :
        (k <= used /\ (ends[k] = None \/ ends[k][e] = Closed)) ~>
            \A c \in Child : \A f \in Fd :
                child[c].table[f] # None /\ child[c].table[f].obj = <<k, e>> =>
                    child[c].pc = "running" /\ <<k, e>> \in child[c].given
=============================================================================
