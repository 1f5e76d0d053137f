-------------------------- MODULE DescriptorsProofs --------------------------
(***************************************************************************)
(* Proofs about Descriptors: who owns the descriptors of the host program, *)
(* and what a spawned program starts with, for every number of pairs,      *)
(* children and descriptors and in every environment.                      *)
(*                                                                         *)
(* The child's set-up is a function of the table it was forked with and of *)
(* its ProcessConfig, so most of the work is in lemmas about dup2 and the  *)
(* three redirections in their order.  Of the history only two facts are   *)
(* needed: a pair that was not created yet has no ends, and a descriptor   *)
(* closes on exec exactly until the client clears the flag.                *)
(***************************************************************************)
EXTENDS Descriptors, TLAPS

Table == [Fd -> Descriptor \cup {None}]
Config == [src : [Std -> Fd \cup {Closed}], opts : SUBSET Option]

ChildRecord == [pc : {"none", "forked", "running", "ended"}, table : Table,
                config : Config, given : SUBSET (Pair \X (1 .. 2))]

\* Every entry of the table closes on exec or is meant for the programs the
\* client spawns.
Marked(table) ==
    \A f \in Fd : table[f] # None => (table[f].cloexec = ~table[f].shared)

\* The pairs are created in order.
PairsInOrder == \A k \in Pair : k > used => ends[k] = None

\* A program that runs holds no end of a pair but those it was given.
HoldsOnlyGiven ==
    \A c \in Child, f \in Fd :
        child[c].pc = "running" /\ child[c].table[f] # None /\ child[c].table[f].obj[1] \in Pair
          => child[c].table[f].obj \in child[c].given

DescInv ==
    /\ DescriptorsOwned
    /\ PairsInOrder
    /\ Marked(fds)
    /\ \A c \in Child : child[c].pc = "forked" => Marked(child[c].table)
    /\ HoldsOnlyGiven

-----------------------------------------------------------------------------
(* What dup2, the redirections and execve do to a table.                   *)

\* An entry that is open is not None, and the copy dup2 makes of it is an entry.
LEMMA EntryFacts ==
  /\ None \notin Descriptor
  /\ \A d \in Descriptor :
       /\ [d EXCEPT !.cloexec = FALSE] \in Descriptor
       /\ [d EXCEPT !.cloexec = FALSE].obj = d.obj
       /\ [d EXCEPT !.cloexec = FALSE].cloexec = FALSE
<1>1. None \notin Descriptor
  BY DescriptorsAssumption
<1> QED BY <1>1 DEF Descriptor

\* The object of an entry is an end of a pair, or no pair's.
LEMMA EndFacts ==
  ASSUME NEW d \in Descriptor
  PROVE  /\ d.obj[1] \in Pair <=> d.obj \in Pair \X (1 .. 2)
         /\ d.obj \in Pair \X (1 .. 2) =>
              d.obj = <<d.obj[1], d.obj[2]>> /\ d.obj[2] \in 1 .. 2
<1>1. d.obj \in Pair \X (1 .. 2) \/ d.obj \in {None} \X Std
  BY DEF Descriptor
<1>2. None \notin Pair
  BY DescriptorsAssumption DEF Pair
<1> QED BY <1>1, <1>2

\* The standard descriptors are descriptors, and a redirection that is not set
\* is none.
LEMMA StdFacts ==
  Std \subseteq Fd /\ Closed \notin Fd /\ Std = {0, 1, 2}
BY DescriptorsAssumption DEF Std, Fd, Closed

\* One redirection changes its target at most, and to an open copy of its
\* source.
LEMMA RedirectEffect ==
  ASSUME NEW table \in Table, NEW src \in [Std -> Fd \cup {Closed}], NEW t \in Std
  PROVE  /\ Redirect(table, src, t) \in Table
         /\ \A f \in Fd : f # t \/ src[t] \in {Closed, t} =>
              Redirect(table, src, t)[f] = table[f]
         /\ src[t] # Closed /\ src[t] # t /\ table[src[t]] # None =>
              /\ Redirect(table, src, t)[t] # None
              /\ Redirect(table, src, t)[t].obj = table[src[t]].obj
              /\ ~Redirect(table, src, t)[t].cloexec
         /\ src[t] # Closed /\ table[src[t]] = None => Redirect(table, src, t) = table
         /\ \A f \in Fd : table[f] # None => Redirect(table, src, t)[f] # None
<1>1. CASE src[t] = Closed \/ table[src[t]] = None
  <2>1. Redirect(table, src, t) = table
    BY <1>1 DEF Redirect
  <2> QED BY <1>1, <2>1
<1>2. CASE src[t] # Closed /\ table[src[t]] # None /\ src[t] = t
  <2>1. Redirect(table, src, t) = table
    BY <1>2 DEF Redirect, dup2
  <2> QED BY <1>2, <2>1
<1>3. CASE src[t] # Closed /\ table[src[t]] # None /\ src[t] # t
  <2> DEFINE d == table[src[t]]
  <2>1. d \in Descriptor /\ t \in Fd
    BY <1>3, StdFacts DEF Table
  <2>2. Redirect(table, src, t) = [table EXCEPT ![t] = [d EXCEPT !.cloexec = FALSE]]
    BY <1>3 DEF Redirect, dup2
  <2> HIDE DEF d
  <2>3. /\ [d EXCEPT !.cloexec = FALSE] \in Descriptor
        /\ [d EXCEPT !.cloexec = FALSE].obj = d.obj
        /\ [d EXCEPT !.cloexec = FALSE].cloexec = FALSE
        /\ [d EXCEPT !.cloexec = FALSE] # None
    BY <2>1, EntryFacts
  <2> DEFINE e == [d EXCEPT !.cloexec = FALSE]
  <2> HIDE DEF e
  <2>4. e \in Descriptor /\ e.obj = d.obj /\ e.cloexec = FALSE /\ e # None
    BY <2>3 DEF e
  <2>5. Redirect(table, src, t) = [table EXCEPT ![t] = e]
    BY <2>2 DEF e
  <2>6. /\ Redirect(table, src, t) \in Table /\ Redirect(table, src, t)[t] = e
        /\ \A f \in Fd : f # t => Redirect(table, src, t)[f] = table[f]
    BY <2>1, <2>4, <2>5 DEF Table
  <2> QED BY <1>3, <2>1, <2>4, <2>6 DEF d
<1> QED BY <1>1, <1>2, <1>3

\* Before the redirection of t its own entry and those of the later ones are as
\* they were at the fork; so is every entry that no earlier redirection
\* targets; and what was open still is.
LEMMA BeforeEffect ==
  ASSUME NEW table \in Table, NEW src \in [Std -> Fd \cup {Closed}], NEW t \in Std
  PROVE  /\ Before(table, src, t) \in Table
         /\ \A f \in Fd : f \notin Std \/ f >= t \/ src[f] \in {Closed, f} =>
              Before(table, src, t)[f] = table[f]
         /\ \A f \in Fd : table[f] # None => Before(table, src, t)[f] # None
<1>1. CASE t = 0
  BY <1>1 DEF Before
<1> DEFINE one == Redirect(table, src, 0)
<1>2. /\ one \in Table
      /\ \A f \in Fd : f # 0 \/ src[0] \in {Closed, 0} => one[f] = table[f]
      /\ \A f \in Fd : table[f] # None => one[f] # None
  BY RedirectEffect, StdFacts
<1>3. CASE t = 1
  <2>1. Before(table, src, t) = one
    BY <1>3 DEF Before
  <2> HIDE DEF one
  <2> QED BY <1>2, <1>3, <2>1, StdFacts DEF Fd
<1>4. CASE t = 2
  <2>1. Before(table, src, t) = Redirect(one, src, 1)
    BY <1>4 DEF Before
  <2> HIDE DEF one
  <2>2. /\ Redirect(one, src, 1) \in Table
        /\ \A f \in Fd : f # 1 \/ src[1] \in {Closed, 1} => Redirect(one, src, 1)[f] = one[f]
        /\ \A f \in Fd : one[f] # None => Redirect(one, src, 1)[f] # None
    <3>1. one \in Table /\ 1 \in Std
      BY <1>2, StdFacts
    <3> QED BY <3>1, RedirectEffect
  <2> HIDE DEF Table
  <2>3. ASSUME NEW f \in Fd, f \notin Std \/ f >= t \/ src[f] \in {Closed, f}
        PROVE  Redirect(one, src, 1)[f] = table[f]
    <3>1. f # 0 \/ src[0] \in {Closed, 0}
      BY <1>4, <2>3, StdFacts DEF Fd
    <3>2. f # 1 \/ src[1] \in {Closed, 1}
      BY <1>4, <2>3, StdFacts DEF Fd
    <3> QED BY <1>2, <2>2, <3>1, <3>2
  <2> QED BY <1>2, <2>1, <2>2, <2>3
<1> QED BY <1>1, <1>3, <1>4, StdFacts

\* After the three redirections: only the standard descriptors changed, each as
\* its own redirection left it, which is how the later ones found it.
LEMMA RedirectedEffect ==
  ASSUME NEW table \in Table, NEW src \in [Std -> Fd \cup {Closed}]
  PROVE  /\ Redirected(table, src) \in Table
         /\ \A f \in Fd \ Std : Redirected(table, src)[f] = table[f]
         /\ \A t \in Std :
              Redirected(table, src)[t] = Redirect(Before(table, src, t), src, t)[t]
         /\ \A s, t \in Std : s < t => Before(table, src, t)[s] = Redirected(table, src)[s]
<1> DEFINE b(t) == Before(table, src, t)
<1>1. /\ b(1) = Redirect(b(0), src, 0) /\ b(2) = Redirect(b(1), src, 1)
      /\ Redirected(table, src) = Redirect(b(2), src, 2)
  BY DEF Before, Redirected
<1>2. \A t \in Std : b(t) \in Table /\ \A f \in Fd \ Std : b(t)[f] = table[f]
  BY BeforeEffect
<1>3. /\ Redirect(b(2), src, 2) \in Table
      /\ \A f \in Fd : f # 2 => Redirect(b(2), src, 2)[f] = b(2)[f]
  <2> HIDE DEF b
  <2> QED BY <1>2, RedirectEffect, StdFacts
<1>4. \A f \in Fd : f # 1 => b(2)[f] = b(1)[f]
  <2> HIDE DEF b
  <2>1. b(1) \in Table
    BY <1>2, StdFacts
  <2>2. \A f \in Fd : f # 1 => Redirect(b(1), src, 1)[f] = b(1)[f]
    BY <2>1, RedirectEffect, StdFacts
  <2> QED BY <1>1, <2>2
<1> HIDE DEF b
<1>5. \A t \in Std : Redirected(table, src)[t] = Redirect(b(t), src, t)[t]
  <2>1. Redirected(table, src)[2] = Redirect(b(2), src, 2)[2]
    BY <1>1
  <2>2. Redirected(table, src)[1] = Redirect(b(1), src, 1)[1]
    BY <1>1, <1>3, StdFacts
  <2>3. Redirected(table, src)[0] = Redirect(b(0), src, 0)[0]
    BY <1>1, <1>3, <1>4, StdFacts
  <2> QED BY <2>1, <2>2, <2>3, StdFacts
<1>6. \A f \in Fd \ Std : Redirected(table, src)[f] = table[f]
  BY <1>1, <1>2, <1>3, StdFacts
<1>7. \A s, t \in Std : s < t => b(t)[s] = Redirected(table, src)[s]
  <2>1. b(1)[0] = b(2)[0]
    BY <1>4, StdFacts
  <2>2. b(2)[0] = Redirected(table, src)[0] /\ b(2)[1] = Redirected(table, src)[1]
    BY <1>1, <1>3, StdFacts
  <2>3. ASSUME NEW s \in Std, NEW t \in Std, s < t
        PROVE  (s = 0 /\ t = 1) \/ (s = 0 /\ t = 2) \/ (s = 1 /\ t = 2)
    BY <2>3, StdFacts
  <2> QED BY <2>1, <2>2, <2>3
<1> QED BY <1>1, <1>3, <1>5, <1>6, <1>7 DEF b

\* The table that execve leaves: what is open there was open after the
\* redirections, does not close on exec, and is not a source beyond the
\* standard descriptors.
LEMMA ExecEffect ==
  ASSUME NEW table \in Table, NEW src \in [Std -> Fd \cup {Closed}]
  PROVE  LET last == Execve(CloseSources(table, src)) IN
         /\ last \in Table
         /\ \A f \in Fd : last[f] # None =>
              /\ last[f] = table[f] /\ ~table[f].cloexec
              /\ f \in Std \/ \A t \in Std : src[t] # f
         /\ \A t \in Std : table[t] # None /\ ~table[t].cloexec => last[t] = table[t]
<1> DEFINE mid == CloseSources(table, src)
<1>1. /\ mid \in Table
      /\ \A f \in Fd : mid[f] = IF f \notin Std /\ \E t \in Std : src[t] = f
                                THEN None ELSE table[f]
  BY DEF CloseSources, Table
<1> HIDE DEF mid
<1>2. /\ Execve(mid) \in Table
      /\ \A f \in Fd : Execve(mid)[f] = IF mid[f] # None /\ mid[f].cloexec THEN None ELSE mid[f]
  BY <1>1 DEF Execve, Table
<1>3. \A f \in Fd : Execve(mid)[f] # None =>
              /\ Execve(mid)[f] = table[f] /\ ~table[f].cloexec
              /\ f \in Std \/ \A t \in Std : src[t] # f
  BY <1>1, <1>2
<1>4. \A t \in Std : table[t] # None /\ ~table[t].cloexec => Execve(mid)[t] = table[t]
  BY <1>1, <1>2, StdFacts
<1> QED BY <1>2, <1>3, <1>4 DEF mid

\* The order of the steps.
LEMMA StepFacts ==
  /\ Len(Steps) = 11
  /\ Steps[1] = 126 /\ Steps[2] = 120 /\ Steps[3] = 121 /\ Steps[4] = 122
  /\ Steps[5] = 123 /\ Steps[6] = 128 /\ Steps[7] = 129 /\ Steps[8] = 130
  /\ Steps[9] = 124 /\ Steps[10] = 125 /\ Steps[11] = 127
BY DEF Steps

\* A child that no step ends had every source open when its turn came.
LEMMA SourcesOpen ==
  ASSUME NEW c, c.table \in Table, c.config \in Config, Runnable(c), NEW t \in Std,
         c.config.src[t] # Closed
  PROVE  Before(c.table, c.config.src, t)[c.config.src[t]] # None
<1>1. CASE t = 0
  <2>1. ~MustFail(c, 3) /\ Steps[3] = 121 /\ 121 - 121 = 0
    BY StepFacts DEF Runnable
  <2> QED BY <1>1, <2>1 DEF MustFail
<1>2. CASE t = 1
  <2>1. ~MustFail(c, 4) /\ Steps[4] = 122 /\ 122 - 121 = 1
    BY StepFacts DEF Runnable
  <2> QED BY <1>2, <2>1 DEF MustFail
<1>3. CASE t = 2
  <2>1. ~MustFail(c, 5) /\ Steps[5] = 123 /\ 123 - 121 = 2
    BY StepFacts DEF Runnable
  <2> QED BY <1>3, <2>1 DEF MustFail
<1> QED BY <1>1, <1>2, <1>3, StdFacts

-----------------------------------------------------------------------------
(* What the set-up amounts to for one child.                               *)

\* The table the program of c starts with.
FinalTable(c) ==
    Execve(CloseSources(Redirected(c.table, c.config.src), c.config.src))

\* Every redirection reached its source, or what an earlier one put in its place,
\* and beyond the standard descriptors only unmarked ones that are no sources
\* are left.
LEMMA FinalTableExact ==
  ASSUME NEW c, c.table \in Table, c.config \in Config, Marked(c.table), Runnable(c)
  PROVE  LET src == c.config.src  start == c.table  table == FinalTable(c) IN
         /\ \A t \in Std :
              IF src[t] \in {Closed, t}
                THEN table[t] = IF start[t] # None /\ start[t].cloexec THEN None ELSE start[t]
                ELSE /\ table[t] # None
                     /\ table[t].obj = IF Clobbered(src, t) THEN table[src[t]].obj
                                                           ELSE start[src[t]].obj
         /\ \A f \in Fd \ Std : table[f] # None =>
              start[f].shared /\ \A t \in Std : src[t] # f
<1> DEFINE src == c.config.src
           start == c.table
           mid == Redirected(start, src)
           table == FinalTable(c)
<1>1. start \in Table /\ src \in [Std -> Fd \cup {Closed}]
  BY DEF Config
<1>2. /\ mid \in Table
      /\ \A f \in Fd \ Std : mid[f] = start[f]
      /\ \A t \in Std : mid[t] = Redirect(Before(start, src, t), src, t)[t]
      /\ \A s, t \in Std : s < t => Before(start, src, t)[s] = mid[s]
  <2> HIDE DEF start, src
  <2> QED BY <1>1, RedirectedEffect
<1>3. /\ \A f \in Fd : table[f] # None =>
           /\ table[f] = mid[f] /\ ~mid[f].cloexec
           /\ f \in Std \/ \A t \in Std : src[t] # f
      /\ \A t \in Std : mid[t] # None /\ ~mid[t].cloexec => table[t] = mid[t]
  <2>1. table = Execve(CloseSources(mid, src))
    BY DEF FinalTable
  <2> HIDE DEF mid, src, table
  <2> QED BY <1>1, <1>2, <2>1, ExecEffect
<1>4. \A t \in Std : src[t] # Closed => Before(start, src, t)[src[t]] # None
  BY SourcesOpen
<1>5. \A f \in Fd : start[f] # None => start[f].cloexec = ~start[f].shared
  BY DEF Marked
<1>6. ASSUME NEW t \in Std
      PROVE  IF src[t] \in {Closed, t}
               THEN table[t] = IF start[t] # None /\ start[t].cloexec THEN None ELSE start[t]
               ELSE /\ table[t] # None
                    /\ table[t].obj = IF Clobbered(src, t) THEN table[src[t]].obj
                                                          ELSE start[src[t]].obj
  <2> DEFINE b == Before(start, src, t)
  <2> HIDE DEF src, start, mid, table
  <2>1. /\ b \in Table
        /\ \A f \in Fd : f \notin Std \/ f >= t \/ src[f] \in {Closed, f} => b[f] = start[f]
    BY <1>1, BeforeEffect
  <2>2. mid[t] = Redirect(b, src, t)[t]
    BY <1>2
  <2> HIDE DEF b
  <2>3. t \in Fd /\ b[t] = start[t]
    BY <2>1, StdFacts
  <2>4. CASE src[t] \in {Closed, t}
    <3>1. mid[t] = start[t]
      BY <1>1, <2>1, <2>2, <2>3, <2>4, RedirectEffect
    <3> QED BY <1>3, <2>3, <2>4, <3>1
  <2>5. CASE src[t] # Closed /\ src[t] # t
    <3>1. src[t] \in Fd
      BY <1>1, <2>5
    <3>2. b[src[t]] # None
      BY <1>4, <2>5 DEF b
    <3>3. mid[t] # None /\ mid[t].obj = b[src[t]].obj /\ ~mid[t].cloexec
      BY <1>1, <2>1, <2>2, <2>5, <3>2, RedirectEffect
    <3>4. CASE ~Clobbered(src, t)
      <4>1. src[t] \notin Std \/ src[t] >= t \/ src[src[t]] \in {Closed, src[t]}
        BY <3>1, <3>4, StdFacts DEF Clobbered, Fd
      <4>2. b[src[t]] = start[src[t]]
        BY <2>1, <3>1, <4>1
      <4> QED BY <1>3, <2>5, <3>3, <3>4, <4>2
    <3>5. CASE Clobbered(src, t)
      <4>1. PICK s \in Std : s = src[t] /\ s < t /\ src[s] # Closed /\ src[s] # s
        BY <3>5 DEF Clobbered
      <4>2. b[s] = mid[s]
        BY <1>2, <4>1 DEF b
      <4>3. mid[s] # None /\ ~mid[s].cloexec
        <5>1. Before(start, src, s) \in Table /\ Before(start, src, s)[src[s]] # None
          BY <1>1, <1>4, <4>1, BeforeEffect
        <5>2. mid[s] = Redirect(Before(start, src, s), src, s)[s]
          BY <1>2
        <5> QED BY <1>1, <4>1, <5>1, <5>2, RedirectEffect
      <4>4. table[s] = mid[s] /\ table[t] = mid[t]
        BY <1>3, <3>3, <4>3
      <4> QED BY <2>5, <3>3, <3>5, <4>1, <4>2, <4>4
    <3> QED BY <3>4, <3>5
  <2> QED BY <2>4, <2>5
<1>7. \A f \in Fd \ Std : table[f] # None => start[f].shared /\ \A t \in Std : src[t] # f
  <2> SUFFICES ASSUME NEW f \in Fd \ Std, table[f] # None
               PROVE  start[f].shared /\ \A t \in Std : src[t] # f
    OBVIOUS
  <2> HIDE DEF src, start, mid, table
  <2>1. table[f] = start[f] /\ ~start[f].cloexec /\ \A t \in Std : src[t] # f
    BY <1>2, <1>3
  <2>2. start[f] \in Descriptor
    BY <1>1, <2>1 DEF Table
  <2>3. start[f].cloexec \in BOOLEAN /\ start[f].shared \in BOOLEAN
    BY <2>2 DEF Descriptor
  <2> QED BY <1>5, <2>1, <2>3
<1> QED BY <1>6, <1>7

\* What a redirection copies was given: the object of every entry is that of an
\* entry at the fork which is where it was, with its mark, or which is a source.
LEMMA RedirectOrigin ==
  ASSUME NEW start \in Table, NEW src \in [Std -> Fd \cup {Closed}],
         NEW table \in Table, NEW t \in Std,
         \A f \in Fd : table[f] # None => \E g \in Fd :
            /\ start[g] # None /\ start[g].obj = table[f].obj
            /\ (g = f /\ table[f] = start[f]) \/ \E u \in Std : src[u] = g
  PROVE  \A f \in Fd : Redirect(table, src, t)[f] # None => \E g \in Fd :
            /\ start[g] # None /\ start[g].obj = Redirect(table, src, t)[f].obj
            /\ (g = f /\ Redirect(table, src, t)[f] = start[f]) \/ \E u \in Std : src[u] = g
<1> DEFINE new == Redirect(table, src, t)
<1> SUFFICES ASSUME NEW f \in Fd, new[f] # None
             PROVE  \E g \in Fd :
                      /\ start[g] # None /\ start[g].obj = new[f].obj
                      /\ (g = f /\ new[f] = start[f]) \/ \E u \in Std : src[u] = g
  OBVIOUS
<1>0. /\ \A h \in Fd : h # t \/ src[t] \in {Closed, t} => new[h] = table[h]
      /\ src[t] # Closed /\ src[t] # t /\ table[src[t]] # None => new[t].obj = table[src[t]].obj
      /\ src[t] = Closed \/ table[src[t]] = None => new = table
  BY RedirectEffect DEF Redirect
<1> HIDE DEF new
<1>1. CASE new[f] = table[f]
  BY <1>1
<1>2. CASE new[f] # table[f]
  <2>1. f = t /\ src[t] # Closed /\ src[t] # t /\ table[src[t]] # None
    BY <1>0, <1>2
  <2>2. src[t] \in Fd /\ new[f].obj = table[src[t]].obj
    BY <1>0, <2>1
  <2>3. PICK g \in Fd : /\ start[g] # None /\ start[g].obj = table[src[t]].obj
                        /\ g = src[t] \/ \E u \in Std : src[u] = g
    BY <2>1, <2>2
  <2> QED BY <2>2, <2>3
<1> QED BY <1>1, <1>2

\* An end that the program holds was given to it.
LEMMA FinalTableGiven ==
  ASSUME NEW c, c.table \in Table, c.config \in Config, Marked(c.table),
         NEW f \in Fd, FinalTable(c)[f] # None, FinalTable(c)[f].obj[1] \in Pair
  PROVE  FinalTable(c)[f].obj \in GivenTo(c)
<1> DEFINE src == c.config.src
           start == c.table
           mid == Redirected(start, src)
           From(table) == \A h \in Fd : table[h] # None => \E g \in Fd :
              /\ start[g] # None /\ start[g].obj = table[h].obj
              /\ (g = h /\ table[h] = start[h]) \/ \E u \in Std : src[u] = g
<1>1. start \in Table /\ src \in [Std -> Fd \cup {Closed}]
  BY DEF Config
<1>2. \A t \in Std, table \in Table : From(table) => From(Redirect(table, src, t))
  <2> SUFFICES ASSUME NEW t \in Std, NEW table \in Table, From(table)
               PROVE  From(Redirect(table, src, t))
    OBVIOUS
  <2> HIDE DEF start, src
  <2> QED BY <1>1, RedirectOrigin
<1>3. From(start)
  OBVIOUS
<1>4. From(mid)
  <2> DEFINE one == Redirect(start, src, 0)
             two == Redirect(one, src, 1)
  <2>1. mid = Redirect(two, src, 2)
    BY DEF Redirected, Before
  <2> HIDE DEF start, src, From, mid
  <2>2. one \in Table /\ From(one)
    BY <1>1, <1>2, <1>3, RedirectEffect, StdFacts
  <2> HIDE DEF one
  <2>3. two \in Table /\ From(two)
    BY <1>1, <1>2, <2>2, RedirectEffect, StdFacts
  <2> HIDE DEF two
  <2> QED BY <1>2, <2>1, <2>3, StdFacts
<1>5. FinalTable(c)[f] = mid[f] /\ ~mid[f].cloexec
  <2>1. FinalTable(c) = Execve(CloseSources(mid, src)) /\ mid \in Table
    BY <1>1, RedirectedEffect DEF FinalTable
  <2> HIDE DEF mid, src
  <2> QED BY <1>1, <2>1, ExecEffect
<1>6. PICK g \in Fd : /\ start[g] # None /\ start[g].obj = mid[f].obj
                      /\ (g = f /\ mid[f] = start[f]) \/ \E u \in Std : src[u] = g
  BY <1>4, <1>5
<1>7. start[g].shared \/ \E u \in Std : src[u] = g
  <2>1. CASE g = f /\ mid[f] = start[f]
    <3>1. start[g] \in Descriptor
      BY <1>1, <1>6 DEF Table
    <3>2. start[g].cloexec \in BOOLEAN /\ start[g].shared \in BOOLEAN
      BY <3>1 DEF Descriptor
    <3>3. start[g].cloexec = ~start[g].shared
      BY <1>6 DEF Marked
    <3> QED BY <1>5, <2>1, <3>2, <3>3
  <2> QED BY <1>6, <2>1
<1>8. start[g].obj \in Pair \X (1 .. 2)
  <2>1. start[g] \in Descriptor
    BY <1>1, <1>6 DEF Table
  <2>2. start[g].obj[1] \in Pair
    BY <1>5, <1>6
  <2> QED BY <2>1, <2>2, EndFacts
<1>9. mid[f].obj \in GivenTo(c)
  BY <1>6, <1>7, <1>8 DEF GivenTo
<1> QED BY <1>5, <1>9

\* A child that was not spawned, or has ended.
LEMMA NoChildRecord == NoChild \in ChildRecord /\ NoChild.pc = "none"
<1>1. NoTable \in Table /\ NoConfig \in Config
  BY StdFacts DEF NoTable, NoConfig, Table, Config
<1> QED BY <1>1 DEF NoChild, ChildRecord

-----------------------------------------------------------------------------
(* The inductive invariant.                                                *)

LEMMA InitDesc == Init => DescInv
<1> SUFFICES ASSUME Init PROVE DescInv
  OBVIOUS
<1> DEFINE first(f) == IF f \in env.std THEN Entry(<<None, f>>, FALSE, TRUE) ELSE None
<1>1. fds = [f \in Fd |-> first(f)] /\ env.std \subseteq Std
  BY DescriptorsAssumption DEF Init
<1>2. \A f \in Fd : first(f) # None =>
         /\ first(f) \in Descriptor /\ first(f).obj[1] = None
         /\ first(f).cloexec = FALSE /\ first(f).shared = TRUE
  BY <1>1 DEF Entry, Descriptor
<1> HIDE DEF first
<1>3. None \notin Pair
  BY DescriptorsAssumption DEF Pair
<1>4. TypeOK
  <2>1. fds \in [Fd -> Descriptor \cup {None}]
    BY <1>1, <1>2
  <2>2. child \in [Child -> ChildRecord]
    BY NoChildRecord DEF Init
  <2>3. ends \in [Pair -> Ends \cup {None}] /\ used \in 0 .. MaxPair
    BY DescriptorsAssumption DEF Init
  <2> QED BY <2>1, <2>2, <2>3 DEF Init, TypeOK, ChildRecord, Table, Config
<1>5. DescriptorsOwned
  BY <1>1, <1>2, <1>3, <1>4 DEF DescriptorsOwned, Init
<1>6. PairsInOrder
  BY DEF Init, PairsInOrder
<1>7. Marked(fds)
  BY <1>1, <1>2 DEF Marked
<1>8. HoldsOnlyGiven /\ \A c \in Child : child[c].pc # "forked"
  BY DEF Init, HoldsOnlyGiven, NoChild
<1> QED BY <1>5, <1>6, <1>7, <1>8 DEF DescInv

\* The steps of the host program leave the children alone.
LEMMA ChildrenUntouched ==
  ASSUME DescInv, UNCHANGED <<env, child>>,
         (fds \in [Fd -> Descriptor \cup {None}])', (ends \in [Pair -> Ends \cup {None}])',
         (used \in 0 .. MaxPair)'
  PROVE  /\ TypeOK' /\ HoldsOnlyGiven'
         /\ (\A c \in Child : child[c].pc = "forked" => Marked(child[c].table))'
BY DEF DescInv, DescriptorsOwned, TypeOK, HoldsOnlyGiven, Marked

\* The steps of the children leave the host program alone.
LEMMA HostUntouched ==
  ASSUME DescInv, UNCHANGED <<env, fds, ends, used>>,
         (child \in [Child -> ChildRecord])'
  PROVE  DescriptorsOwned' /\ PairsInOrder' /\ Marked(fds)'
<1>1. TypeOK'
  BY DEF DescInv, DescriptorsOwned, TypeOK, ChildRecord, Table, Config
<1> QED BY <1>1 DEF DescInv, DescriptorsOwned, PairsInOrder, Marked

LEMMA CreatePairDesc ==
  ASSUME DescInv, NEW k \in Pair, CreatePair(k)
  PROVE  DescInv'
<1> DEFINE free == {f \in Fd : fds[f] = None}
<1>1. PICK a \in free, b \in free :
         /\ Lowest(a, free) /\ Lowest(b, free \ {a})
         /\ fds' = [fds EXCEPT ![a] = Entry(<<k, 1>>, TRUE, FALSE),
                               ![b] = Entry(<<k, 2>>, TRUE, FALSE)]
         /\ ends' = [ends EXCEPT ![k] = <<a, b>>]
  BY DEF CreatePair
<1>2. a # b /\ a \in Fd /\ b \in Fd /\ fds[a] = None /\ fds[b] = None
  BY <1>1 DEF Lowest
<1>3. TypeOK /\ k = used + 1 /\ used' = k /\ UNCHANGED <<env, child>>
  BY DEF CreatePair, DescInv, DescriptorsOwned
<1> DEFINE ea == Entry(<<k, 1>>, TRUE, FALSE)
           eb == Entry(<<k, 2>>, TRUE, FALSE)
<1>4. /\ ea \in Descriptor /\ ea.obj = <<k, 1>> /\ ea.cloexec = TRUE /\ ea.shared = FALSE
      /\ eb \in Descriptor /\ eb.obj = <<k, 2>> /\ eb.cloexec = TRUE /\ eb.shared = FALSE
  BY DEF Entry, Descriptor
<1>5. ea # None /\ eb # None
  BY <1>4, EntryFacts
<1> HIDE DEF ea, eb, free
<1>6. /\ fds' \in [Fd -> Descriptor \cup {None}] /\ fds'[a] = ea /\ fds'[b] = eb
      /\ \A f \in Fd : f # a /\ f # b => fds'[f] = fds[f]
  <2>1. fds' = [fds EXCEPT ![a] = ea, ![b] = eb]
    BY <1>1 DEF ea, eb
  <2> QED BY <1>2, <1>3, <1>4, <2>1 DEF TypeOK
<1>7. <<a, b>> \in Ends /\ <<a, b>>[1] = a /\ <<a, b>>[2] = b /\ <<a, b>> # None
  <2>1. <<a, b>> \in Ends
    BY <1>2 DEF Ends
  <2> QED BY <2>1, DescriptorsAssumption
<1>8. /\ ends' \in [Pair -> Ends \cup {None}] /\ ends'[k] = <<a, b>>
      /\ \A j \in Pair : j # k => ends'[j] = ends[j]
  BY <1>1, <1>3, <1>7 DEF TypeOK
<1>9. used' \in 0 .. MaxPair
  BY <1>3 DEF Pair
<1>10. ends[k] = None
  BY <1>3 DEF DescInv, PairsInOrder, TypeOK
<1>11. \A f \in Fd : fds'[f] # None /\ fds'[f].obj[1] \in Pair =>
         ends'[fds'[f].obj[1]] # None /\ ends'[fds'[f].obj[1]][fds'[f].obj[2]] = f
  <2> SUFFICES ASSUME NEW f \in Fd, fds'[f] # None, fds'[f].obj[1] \in Pair
               PROVE  ends'[fds'[f].obj[1]] # None /\ ends'[fds'[f].obj[1]][fds'[f].obj[2]] = f
    OBVIOUS
  <2>1. CASE f = a
    BY <1>4, <1>6, <1>7, <1>8, <2>1
  <2>2. CASE f = b
    BY <1>4, <1>6, <1>7, <1>8, <2>2
  <2>3. CASE f # a /\ f # b
    BY <1>6, <1>8, <1>10, <2>3 DEF DescInv, DescriptorsOwned
  <2> QED BY <2>1, <2>2, <2>3
<1>12. \A j \in Pair, e \in 1 .. 2 : ends'[j] # None /\ ends'[j][e] # Closed =>
         fds'[ends'[j][e]] # None /\ fds'[ends'[j][e]].obj = <<j, e>>
  <2> SUFFICES ASSUME NEW j \in Pair, NEW e \in 1 .. 2, ends'[j] # None, ends'[j][e] # Closed
               PROVE  fds'[ends'[j][e]] # None /\ fds'[ends'[j][e]].obj = <<j, e>>
    OBVIOUS
  <2>1. CASE j = k
    <3>1. e = 1 \/ e = 2
      OBVIOUS
    <3> QED BY <1>4, <1>5, <1>6, <1>7, <1>8, <2>1, <3>1
  <2>2. CASE j # k
    <3>1. /\ ends'[j] = ends[j] /\ fds[ends[j][e]] # None /\ fds[ends[j][e]].obj = <<j, e>>
          /\ ends[j][e] \in Fd
      BY <1>3, <1>8, <2>2 DEF DescInv, DescriptorsOwned, TypeOK, Ends
    <3> QED BY <1>2, <1>6, <3>1
  <2> QED BY <2>1, <2>2
<1>13. TypeOK' /\ HoldsOnlyGiven'
       /\ (\A c \in Child : child[c].pc = "forked" => Marked(child[c].table))'
  BY <1>3, <1>6, <1>8, <1>9, ChildrenUntouched
<1>14. Marked(fds)'
  BY <1>4, <1>6 DEF DescInv, Marked
<1>15. PairsInOrder'
  BY <1>3, <1>8 DEF DescInv, PairsInOrder, TypeOK, Pair
<1> QED BY <1>11, <1>12, <1>13, <1>14, <1>15 DEF DescInv, DescriptorsOwned

LEMMA ClearCloexecDesc ==
  ASSUME DescInv, NEW k \in Pair, NEW e \in 1 .. 2, ClearCloexec(k, e)
  PROVE  DescInv'
<1> DEFINE d == Entry(<<k, e>>, FALSE, TRUE)
<1>1. PICK g : g = ends[k][e]
  OBVIOUS
<1>2. g \in Fd /\ fds[g] # None /\ fds[g].obj = <<k, e>> /\ TypeOK
  BY <1>1 DEF ClearCloexec, DescInv, DescriptorsOwned, TypeOK, Ends
<1>3. d \in Descriptor /\ d.obj = <<k, e>> /\ d.cloexec = FALSE /\ d.shared = TRUE
  BY DEF Entry, Descriptor
<1>4. d # None
  BY <1>3, EntryFacts
<1>5. fds' = [fds EXCEPT ![g] = d] /\ UNCHANGED <<env, ends, used, child>>
  BY <1>1 DEF ClearCloexec
<1> HIDE DEF d
<1>6. /\ fds' \in [Fd -> Descriptor \cup {None}] /\ fds'[g] = d
      /\ \A f \in Fd : f # g => fds'[f] = fds[f]
  BY <1>2, <1>3, <1>5 DEF TypeOK
<1>7. /\ TypeOK' /\ HoldsOnlyGiven'
      /\ (\A c \in Child : child[c].pc = "forked" => Marked(child[c].table))'
  BY <1>2, <1>5, <1>6, ChildrenUntouched DEF TypeOK
<1>8. DescriptorsOwned'
  <2>1. \A f \in Fd : /\ fds'[f] = None <=> fds[f] = None
                      /\ fds[f] # None => fds'[f].obj = fds[f].obj
    BY <1>2, <1>3, <1>4, <1>6
  <2>2. \A j \in Pair, i \in 1 .. 2 : ends[j] # None /\ ends[j][i] # Closed => ends[j][i] \in Fd
    BY <1>2 DEF TypeOK, Ends
  <2>3. \A f \in Fd : fds'[f] # None /\ fds'[f].obj[1] \in Pair =>
           ends'[fds'[f].obj[1]] # None /\ ends'[fds'[f].obj[1]][fds'[f].obj[2]] = f
    BY <1>5, <2>1 DEF DescInv, DescriptorsOwned
  <2>4. \A j \in Pair, i \in 1 .. 2 : ends'[j] # None /\ ends'[j][i] # Closed =>
           fds'[ends'[j][i]] # None /\ fds'[ends'[j][i]].obj = <<j, i>>
    <3> SUFFICES ASSUME NEW j \in Pair, NEW i \in 1 .. 2, ends[j] # None, ends[j][i] # Closed
                 PROVE  fds'[ends[j][i]] # None /\ fds'[ends[j][i]].obj = <<j, i>>
      BY <1>5
    <3>1. fds[ends[j][i]] # None /\ fds[ends[j][i]].obj = <<j, i>>
      BY DEF DescInv, DescriptorsOwned
    <3> QED BY <2>1, <2>2, <3>1
  <2> QED BY <1>7, <2>3, <2>4 DEF DescriptorsOwned
<1>9. Marked(fds)'
  BY <1>3, <1>6 DEF DescInv, Marked
<1>10. PairsInOrder'
  BY <1>5 DEF DescInv, PairsInOrder
<1> QED BY <1>7, <1>8, <1>9, <1>10 DEF DescInv

\* Ends of pairs that are open are different descriptors.
LEMMA EndsDistinct ==
  ASSUME DescInv, NEW k \in Pair, NEW e \in 1 .. 2, NEW j \in Pair, NEW d \in 1 .. 2,
         ends[k] # None, ends[j] # None, ends[k][e] = ends[j][d], ends[k][e] # Closed
  PROVE  k = j /\ e = d
BY DEF DescInv, DescriptorsOwned

LEMMA CloseEndDesc ==
  ASSUME DescInv, NEW k \in Pair, NEW e \in 1 .. 2, CloseEnd(k, e)
  PROVE  DescInv'
<1>1. PICK g : g = ends[k][e]
  OBVIOUS
<1>2. TypeOK /\ ends[k] # None /\ ends[k] \in Ends /\ Closed \notin Fd
  BY StdFacts DEF CloseEnd, DescInv, DescriptorsOwned, TypeOK
<1>3. /\ fds' = [f \in Fd |-> IF f = g THEN None ELSE fds[f]]
      /\ UNCHANGED <<env, used, child>>
  BY <1>1 DEF CloseEnd
<1>4. /\ fds' \in [Fd -> Descriptor \cup {None}]
      /\ \A f \in Fd : fds'[f] = IF f = g THEN None ELSE fds[f]
  BY <1>2, <1>3 DEF TypeOK
<1>5. PICK new : new = [ends[k] EXCEPT ![e] = Closed]
  OBVIOUS
<1>6. new \in Ends /\ new[e] = Closed /\ \A d \in 1 .. 2 : d # e => new[d] = ends[k][d]
  BY <1>2, <1>5 DEF Ends
<1>7. new # None
  BY <1>6, DescriptorsAssumption
<1>8. /\ ends' \in [Pair -> Ends \cup {None}] /\ ends'[k] = new
      /\ \A j \in Pair : j # k => ends'[j] = ends[j]
  <2>1. ends' = [ends EXCEPT ![k] = new]
    BY <1>5 DEF CloseEnd
  <2> QED BY <1>2, <1>6, <2>1 DEF TypeOK
<1>9. /\ TypeOK' /\ HoldsOnlyGiven'
      /\ (\A c \in Child : child[c].pc = "forked" => Marked(child[c].table))'
  BY <1>2, <1>3, <1>4, <1>8, ChildrenUntouched DEF TypeOK
<1>10. \A f \in Fd : fds'[f] # None /\ fds'[f].obj[1] \in Pair =>
         ends'[fds'[f].obj[1]] # None /\ ends'[fds'[f].obj[1]][fds'[f].obj[2]] = f
  <2> SUFFICES ASSUME NEW f \in Fd, fds'[f] # None, fds'[f].obj[1] \in Pair
               PROVE  ends'[fds'[f].obj[1]] # None /\ ends'[fds'[f].obj[1]][fds'[f].obj[2]] = f
    OBVIOUS
  <2>1. f # g /\ fds'[f] = fds[f]
    BY <1>4
  <2>2. PICK j, d : j = fds[f].obj[1] /\ d = fds[f].obj[2]
    OBVIOUS
  <2>3. fds[f] \in Descriptor
    BY <1>2, <2>1 DEF TypeOK
  <2>4. j \in Pair /\ d \in 1 .. 2 /\ ends[j] # None /\ ends[j][d] = f
    BY <2>1, <2>2, <2>3, EndFacts DEF DescInv, DescriptorsOwned
  <2>5. ends'[j] # None /\ ends'[j][d] = f
    BY <1>1, <1>6, <1>7, <1>8, <2>1, <2>4
  <2> QED BY <2>1, <2>2, <2>5
<1>11. \A j \in Pair, d \in 1 .. 2 : ends'[j] # None /\ ends'[j][d] # Closed =>
         fds'[ends'[j][d]] # None /\ fds'[ends'[j][d]].obj = <<j, d>>
  <2> SUFFICES ASSUME NEW j \in Pair, NEW d \in 1 .. 2, ends'[j] # None, ends'[j][d] # Closed
               PROVE  fds'[ends'[j][d]] # None /\ fds'[ends'[j][d]].obj = <<j, d>>
    OBVIOUS
  <2>1. ends[j] # None /\ ends'[j][d] = ends[j][d] /\ ~(j = k /\ d = e)
    BY <1>2, <1>6, <1>8
  <2>2. ends[j][d] \in Fd /\ fds[ends[j][d]] # None /\ fds[ends[j][d]].obj = <<j, d>>
    BY <1>2, <2>1 DEF DescInv, DescriptorsOwned, TypeOK, Ends
  <2>3. ends[j][d] # g
    BY <1>1, <1>2, <2>1, <2>2, EndsDistinct
  <2> QED BY <1>4, <2>1, <2>2, <2>3
<1>12. Marked(fds)'
  BY <1>4 DEF DescInv, Marked
<1>13. PairsInOrder'
  BY <1>2, <1>3, <1>8 DEF DescInv, PairsInOrder
<1> QED BY <1>9, <1>10, <1>11, <1>12, <1>13 DEF DescInv, DescriptorsOwned

LEMMA DestroyPairDesc ==
  ASSUME DescInv, NEW k \in Pair, DestroyPair(k)
  PROVE  DescInv'
<1>1. PICK G : G = {ends[k][1], ends[k][2]}
  OBVIOUS
<1>2. TypeOK /\ ends[k] # None /\ ends[k] \in Ends /\ Closed \notin Fd
  BY StdFacts DEF DestroyPair, DescInv, DescriptorsOwned, TypeOK
<1>3. /\ fds' = [f \in Fd |-> IF f \in G THEN None ELSE fds[f]]
      /\ UNCHANGED <<env, used, child>>
  BY <1>1 DEF DestroyPair
<1>4. /\ fds' \in [Fd -> Descriptor \cup {None}]
      /\ \A f \in Fd : fds'[f] = IF f \in G THEN None ELSE fds[f]
  BY <1>2, <1>3 DEF TypeOK
<1>5. /\ ends' \in [Pair -> Ends \cup {None}] /\ ends'[k] = None
      /\ \A j \in Pair : j # k => ends'[j] = ends[j]
  BY <1>2 DEF DestroyPair, TypeOK
<1>6. /\ TypeOK' /\ HoldsOnlyGiven'
      /\ (\A c \in Child : child[c].pc = "forked" => Marked(child[c].table))'
  BY <1>2, <1>3, <1>4, <1>5, ChildrenUntouched DEF TypeOK
<1>7. \A f \in Fd : fds'[f] # None /\ fds'[f].obj[1] \in Pair =>
         ends'[fds'[f].obj[1]] # None /\ ends'[fds'[f].obj[1]][fds'[f].obj[2]] = f
  <2> SUFFICES ASSUME NEW f \in Fd, fds'[f] # None, fds'[f].obj[1] \in Pair
               PROVE  ends'[fds'[f].obj[1]] # None /\ ends'[fds'[f].obj[1]][fds'[f].obj[2]] = f
    OBVIOUS
  <2>1. f \notin G /\ fds'[f] = fds[f]
    BY <1>4
  <2>2. PICK j, d : j = fds[f].obj[1] /\ d = fds[f].obj[2]
    OBVIOUS
  <2>3. fds[f] \in Descriptor
    BY <1>2, <2>1 DEF TypeOK
  <2>4. j \in Pair /\ d \in 1 .. 2 /\ ends[j] # None /\ ends[j][d] = f
    BY <2>1, <2>2, <2>3, EndFacts DEF DescInv, DescriptorsOwned
  <2>5. j # k
    BY <1>1, <2>1, <2>4
  <2> QED BY <1>5, <2>1, <2>2, <2>4, <2>5
<1>8. \A j \in Pair, d \in 1 .. 2 : ends'[j] # None /\ ends'[j][d] # Closed =>
         fds'[ends'[j][d]] # None /\ fds'[ends'[j][d]].obj = <<j, d>>
  <2> SUFFICES ASSUME NEW j \in Pair, NEW d \in 1 .. 2, ends'[j] # None, ends'[j][d] # Closed
               PROVE  fds'[ends'[j][d]] # None /\ fds'[ends'[j][d]].obj = <<j, d>>
    OBVIOUS
  <2>1. ends[j] # None /\ ends'[j] = ends[j] /\ j # k
    BY <1>5
  <2>2. ends[j][d] \in Fd /\ fds[ends[j][d]] # None /\ fds[ends[j][d]].obj = <<j, d>>
    BY <1>2, <2>1 DEF DescInv, DescriptorsOwned, TypeOK, Ends
  <2>3. ends[j][d] \notin G
    BY <1>1, <1>2, <2>1, <2>2, EndsDistinct
  <2> QED BY <1>4, <2>1, <2>2, <2>3
<1>9. Marked(fds)'
  BY <1>4 DEF DescInv, Marked
<1>10. PairsInOrder'
  BY <1>3, <1>5 DEF DescInv, PairsInOrder
<1> QED BY <1>6, <1>7, <1>8, <1>9, <1>10 DEF DescInv, DescriptorsOwned

\* The children, as the type invariant has them.
LEMMA ChildrenTyped == TypeOK => child \in [Child -> ChildRecord]
BY DEF TypeOK, ChildRecord, Table, Config

LEMMA SpawnDesc ==
  ASSUME DescInv, NEW c \in Child, Spawn(c)
  PROVE  DescInv'
<1>1. PICK cfg \in Configs :
         child' = [child EXCEPT ![c] = [NoChild EXCEPT !.pc = "forked", !.table = fds,
                                             !.config = cfg]]
  BY DEF Spawn
<1>2. cfg \in Config /\ fds \in Table /\ TypeOK
  BY DEF Configs, Config, Table, DescInv, DescriptorsOwned, TypeOK
<1>3. PICK new : new = [NoChild EXCEPT !.pc = "forked", !.table = fds, !.config = cfg]
  OBVIOUS
<1>4. child' = [child EXCEPT ![c] = new]
  BY <1>1, <1>3
<1>5. /\ new \in ChildRecord
      /\ new.pc = "forked" /\ new.table = fds
  BY <1>2, <1>3, NoChildRecord DEF ChildRecord
<1>6. /\ child' \in [Child -> ChildRecord]
      /\ child'[c] = new /\ \A x \in Child : x # c => child'[x] = child[x]
  BY <1>2, <1>4, <1>5, ChildrenTyped
<1>7. DescriptorsOwned' /\ PairsInOrder' /\ Marked(fds)'
  BY <1>6, HostUntouched DEF Spawn
<1>8. Marked(fds)
  BY DEF DescInv
<1>9. (\A x \in Child : child[x].pc = "forked" => Marked(child[x].table))'
  BY <1>5, <1>6, <1>8 DEF DescInv, Marked
<1>10. HoldsOnlyGiven'
  BY <1>5, <1>6 DEF DescInv, HoldsOnlyGiven
<1> QED BY <1>7, <1>9, <1>10 DEF DescInv

\* ChildFails and ChildEnds: a child that ends holds nothing.
LEMMA EndedDesc ==
  ASSUME DescInv, NEW c \in Child, UNCHANGED <<env, fds, ends, used>>,
         child' = [child EXCEPT ![c] = [NoChild EXCEPT !.pc = "ended"]]
  PROVE  DescInv'
<1>1. PICK new : new = [NoChild EXCEPT !.pc = "ended"]
  OBVIOUS
<1>2. child' = [child EXCEPT ![c] = new]
  BY <1>1
<1>3. new \in ChildRecord /\ new.pc = "ended"
  BY <1>1, NoChildRecord DEF ChildRecord
<1>4. /\ child' \in [Child -> ChildRecord]
      /\ child'[c] = new /\ \A x \in Child : x # c => child'[x] = child[x]
  BY <1>2, <1>3, ChildrenTyped DEF DescInv, DescriptorsOwned
<1>5. DescriptorsOwned' /\ PairsInOrder' /\ Marked(fds)'
  BY <1>4, HostUntouched
<1>6. (\A x \in Child : child[x].pc = "forked" => Marked(child[x].table))'
  BY <1>3, <1>4 DEF DescInv, Marked
<1>7. HoldsOnlyGiven'
  BY <1>3, <1>4 DEF DescInv, HoldsOnlyGiven
<1> QED BY <1>5, <1>6, <1>7 DEF DescInv

LEMMA ChildRunsDesc ==
  ASSUME DescInv, NEW c \in Child, ChildRuns(c)
  PROVE  DescInv'
<1>1. PICK old : old = child[c]
  OBVIOUS
<1>2. old.table \in Table /\ old.config \in Config /\ TypeOK /\ old.pc = "forked"
  BY <1>1 DEF DescInv, DescriptorsOwned, TypeOK, Table, Config, ChildRuns
<1>3. Marked(old.table)
  BY <1>1, <1>2 DEF DescInv
<1>4. PICK last : last = FinalTable(old)
  OBVIOUS
<1>5. last \in Table
  <2>1. PICK src : src = old.config.src
    OBVIOUS
  <2>2. src \in [Std -> Fd \cup {Closed}]
    BY <1>2, <2>1 DEF Config
  <2>3. Redirected(old.table, src) \in Table
    BY <1>2, <2>2, RedirectedEffect
  <2> QED BY <1>4, <2>1, <2>2, <2>3, ExecEffect DEF FinalTable
<1>6. GivenTo(old) \subseteq Pair \X (1 .. 2)
  BY DEF GivenTo
<1>7. PICK new : new = [NoChild EXCEPT !.pc = "running", !.table = last, !.given = GivenTo(old)]
  OBVIOUS
<1>8. child' = [child EXCEPT ![c] = new]
  BY <1>1, <1>4, <1>7 DEF ChildRuns, FinalTable
<1>9. /\ new \in ChildRecord
       /\ new.pc = "running" /\ new.table = last /\ new.given = GivenTo(old)
  BY <1>5, <1>6, <1>7, NoChildRecord DEF ChildRecord
<1>10. /\ child' \in [Child -> ChildRecord]
       /\ child'[c] = new /\ \A x \in Child : x # c => child'[x] = child[x]
  BY <1>2, <1>8, <1>9, ChildrenTyped
<1>11. DescriptorsOwned' /\ PairsInOrder' /\ Marked(fds)'
  BY <1>10, HostUntouched DEF ChildRuns
<1>12. (\A x \in Child : child[x].pc = "forked" => Marked(child[x].table))'
  BY <1>9, <1>10 DEF DescInv, Marked
<1>13. \A f \in Fd : last[f] # None /\ last[f].obj[1] \in Pair => last[f].obj \in GivenTo(old)
  BY <1>2, <1>3, <1>4, FinalTableGiven
<1>14. HoldsOnlyGiven'
  BY <1>9, <1>10, <1>13 DEF DescInv, HoldsOnlyGiven
<1> QED BY <1>11, <1>12, <1>14 DEF DescInv

LEMMA StepDesc == DescInv /\ [Next]_vars => DescInv'
<1> SUFFICES ASSUME DescInv, [Next]_vars PROVE DescInv'
  OBVIOUS
<1>1. ASSUME NEW k \in Pair, CreatePair(k) PROVE DescInv'
  BY <1>1, CreatePairDesc
<1>2. ASSUME NEW k \in Pair, DestroyPair(k) PROVE DescInv'
  BY <1>2, DestroyPairDesc
<1>3. ASSUME NEW k \in Pair, NEW e \in 1 .. 2, ClearCloexec(k, e) PROVE DescInv'
  BY <1>3, ClearCloexecDesc
<1>4. ASSUME NEW k \in Pair, NEW e \in 1 .. 2, CloseEnd(k, e) PROVE DescInv'
  BY <1>4, CloseEndDesc
<1>5. ASSUME NEW c \in Child, Spawn(c) PROVE DescInv'
  BY <1>5, SpawnDesc
<1>6. ASSUME NEW c \in Child, ChildFails(c) \/ ChildEnds(c) PROVE DescInv'
  BY <1>6, EndedDesc DEF ChildFails, ChildEnds
<1>7. ASSUME NEW c \in Child, ChildRuns(c) PROVE DescInv'
  BY <1>7, ChildRunsDesc
<1>8. CASE UNCHANGED vars
  BY <1>8 DEF vars, DescInv, DescriptorsOwned, TypeOK, PairsInOrder, Marked, HoldsOnlyGiven
<1> QED BY <1>1, <1>2, <1>3, <1>4, <1>5, <1>6, <1>7, <1>8 DEF Next

-----------------------------------------------------------------------------
(* The theorems.                                                           *)

\* The inductive invariant holds in every reachable state: pipe.c and
\* socket_pair.c own what they think they own, and the copies that children
\* were forked with are marked as the originals were.
THEOREM DescriptorsCorrect == Spec => []DescInv
BY InitDesc, StepDesc, PTL DEF Spec

\* pipe.c and socket_pair.c: no descriptor is leaked, and none is closed in the
\* name of a pair that no longer owns it, whatever numbers the kernel reuses.
THEOREM NoneLeaked == Spec => []DescriptorsOwned
<1>1. DescInv => DescriptorsOwned
  BY DEF DescInv
<1> QED BY <1>1, DescriptorsCorrect, PTL

\* The safety that end-of-file rests on: from its execve on a program holds no
\* end of a pair that it was not given by a redirection or by a cleared flag.
THEOREM NothingInherited == Spec => []HoldsOnlyGiven
<1>1. DescInv => HoldsOnlyGiven
  BY DEF DescInv
<1> QED BY <1>1, DescriptorsCorrect, PTL

\* Only ChildRuns starts a program, with the table of FinalTable.
LEMMA StartsByRunning ==
  ASSUME DescInv, [Next]_vars, NEW c \in Child, Starts(c)
  PROVE  Runnable(child[c]) /\ child'[c].table = FinalTable(child[c])
<1>1. TypeOK /\ NoChild \in ChildRecord
  BY NoChildRecord DEF DescInv, DescriptorsOwned
<1>2. child \in [Child -> ChildRecord]
  BY <1>1, ChildrenTyped
<1>3. CASE child' = child
  BY <1>3 DEF Starts
<1>4. ASSUME NEW x \in Child, NEW new, child' = [child EXCEPT ![x] = new], new.pc # "running"
      PROVE  FALSE
  BY <1>2, <1>4 DEF Starts
<1>5. ASSUME NEW x \in Child, Spawn(x) PROVE FALSE
  <2>1. PICK cfg \in Configs :
         child' = [child EXCEPT ![x] = [NoChild EXCEPT !.pc = "forked", !.table = fds,
                                             !.config = cfg]]
    BY <1>5 DEF Spawn
  <2>2. [NoChild EXCEPT !.pc = "forked", !.table = fds, !.config = cfg].pc = "forked"
    BY <1>1 DEF ChildRecord
  <2> QED BY <1>4, <2>1, <2>2
<1>6. ASSUME NEW x \in Child, ChildFails(x) \/ ChildEnds(x) PROVE FALSE
  <2>1. [NoChild EXCEPT !.pc = "ended"].pc = "ended"
    BY <1>1 DEF ChildRecord
  <2> QED BY <1>4, <1>6, <2>1 DEF ChildFails, ChildEnds
<1>7. ASSUME NEW x \in Child, ChildRuns(x)
      PROVE  Runnable(child[c]) /\ child'[c].table = FinalTable(child[c])
  <2>1. PICK last, given : last = FinalTable(child[x]) /\ given = GivenTo(child[x])
    OBVIOUS
  <2>2. PICK new : new = [NoChild EXCEPT !.pc = "running", !.table = last, !.given = given]
    OBVIOUS
  <2>3. new.table = last
    BY <1>1, <2>2 DEF ChildRecord
  <2>4. child' = [child EXCEPT ![x] = new]
    BY <1>7, <2>1, <2>2 DEF ChildRuns, FinalTable
  <2>5. x = c
    BY <1>2, <2>4 DEF Starts
  <2> QED BY <1>2, <1>7, <2>1, <2>3, <2>4, <2>5 DEF ChildRuns
<1>8. CASE UNCHANGED vars
  BY <1>3, <1>8 DEF vars
<1>9. ASSUME NEW k \in Pair, CreatePair(k) \/ DestroyPair(k) PROVE FALSE
  BY <1>9 DEF CreatePair, DestroyPair, Starts
<1>10. ASSUME NEW k \in Pair, NEW e \in 1 .. 2, ClearCloexec(k, e) \/ CloseEnd(k, e) PROVE FALSE
  BY <1>10 DEF ClearCloexec, CloseEnd, Starts
<1> QED BY <1>5, <1>6, <1>7, <1>8, <1>9, <1>10 DEF Next

\* executor_child_exec: what a program is started with, for every order and
\* overlap of the redirections, an overwritten source and a descriptor that is
\* redirected to itself included (RedirectionsExact).
THEOREM StartsAsConfigured == Spec => RedirectionsExact
<1> DEFINE Exact(c) ==
        LET src == child[c].config.src  start == child[c].table  table == child'[c].table IN
        /\ \A t \in Std :
             IF src[t] \in {Closed, t}
               THEN table[t] = IF start[t] # None /\ start[t].cloexec THEN None ELSE start[t]
               ELSE /\ table[t] # None
                    /\ table[t].obj = IF Clobbered(src, t) THEN table[src[t]].obj
                                                          ELSE start[src[t]].obj
        /\ \A f \in Fd \ Std : table[f] # None =>
             start[f].shared /\ \A t \in Std : src[t] # f
<1>1. DescInv /\ [Next]_vars => [\A c \in Child : Starts(c) => Exact(c)]_vars
  <2> SUFFICES ASSUME DescInv, [Next]_vars, NEW c \in Child, Starts(c)
               PROVE  Exact(c)
    OBVIOUS
  <2>1. Runnable(child[c]) /\ child'[c].table = FinalTable(child[c])
    BY StartsByRunning
  <2>2. child[c].table \in Table /\ child[c].config \in Config /\ Marked(child[c].table)
    BY ChildrenTyped DEF DescInv, DescriptorsOwned, ChildRecord, Starts
  <2> QED BY <2>1, <2>2, FinalTableExact
<1> HIDE DEF Exact
<1>2. Spec => [][\A c \in Child : Starts(c) => Exact(c)]_vars
  BY <1>1, DescriptorsCorrect, PTL DEF Spec
<1> QED BY <1>2 DEF RedirectionsExact, Exact

-----------------------------------------------------------------------------
(* The failures of the set-up.                                             *)

\* platform_apply_rlimit clamps: what it asks for is never above the hard
\* limit, so that no privilege is needed.
LEMMA LimitsGranted ==
  ASSUME env \in Environments
  PROVE  Granted(Effective(env.hard))
<1>1. env.hard \in Nat /\ Requested \in Nat
  BY DescriptorsAssumption
<1> QED BY <1>1 DEF Effective, Granted

\* When every source is open at the fork or the target of an earlier
\* redirection, every source is open when its turn comes.
LEMMA SourcesOpened ==
  ASSUME NEW table \in Table, NEW src \in [Std -> Fd \cup {Closed}],
         \A t \in Std : src[t] = Closed \/ table[src[t]] # None \/ Clobbered(src, t)
  PROVE  \A t \in Std : src[t] # Closed => Before(table, src, t)[src[t]] # None
<1> DEFINE Opened(t) == src[t] # Closed => Before(table, src, t)[src[t]] # None
<1>1. ASSUME NEW t \in Std, \A s \in Std : s < t => Opened(s)
      PROVE  Opened(t)
  <2> SUFFICES ASSUME src[t] # Closed PROVE Before(table, src, t)[src[t]] # None
    OBVIOUS
  <2>1. src[t] \in Fd
    OBVIOUS
  <2>2. CASE table[src[t]] # None
    BY <2>1, <2>2, BeforeEffect
  <2>3. CASE Clobbered(src, t)
    <3>1. PICK s \in Std : s = src[t] /\ s < t /\ src[s] # Closed /\ src[s] # s
      BY <2>3 DEF Clobbered
    <3>2. Before(table, src, s) \in Table /\ Before(table, src, s)[src[s]] # None
      BY <1>1, <3>1, BeforeEffect
    <3>3. Redirect(Before(table, src, s), src, s)[s] # None
      BY <3>1, <3>2, RedirectEffect
    <3>4. Before(table, src, t)[s] = Redirect(Before(table, src, s), src, s)[s]
      BY <3>1, RedirectedEffect
    <3> QED BY <3>1, <3>3, <3>4
  <2> QED BY <2>2, <2>3
<1> HIDE DEF Opened
<1>2. Opened(0)
  BY <1>1, StdFacts
<1>3. Opened(1)
  BY <1>1, <1>2, StdFacts
<1>4. Opened(2)
  BY <1>1, <1>2, <1>3, StdFacts
<1> QED BY <1>2, <1>3, <1>4, StdFacts DEF Opened

\* What it means that a step must fail, step by step.
LEMMA FailureReasons ==
  ASSUME env \in Environments, NEW c, c.table \in Table, c.config \in Config,
         NEW i \in 1 .. Len(Steps), MustFail(c, i)
  PROVE  /\ Steps[i] \in {121, 122, 123, 128, 124, 125}
         /\ Steps[i] \in {121, 122, 123} =>
              \E t \in Std :
                /\ t = Steps[i] - 121 /\ c.config.src[t] # Closed
                /\ Before(c.table, c.config.src, t)[c.config.src[t]] = None
                /\ c.table[c.config.src[t]] = None
         /\ Steps[i] = 128 => "memory" \in c.config.opts /\ ~env.memory
         /\ Steps[i] \in {124, 125} => "credentials" \in c.config.opts /\ ~env.root
<1>1. i \in 1 .. 11 /\ Granted(Effective(env.hard))
  BY StepFacts, LimitsGranted
<1>2. ASSUME NEW t \in Std, Steps[i] = 121 + t, Steps[i] - 121 = t
      PROVE  /\ c.config.src[t] # Closed /\ c.table[c.config.src[t]] = None
             /\ Before(c.table, c.config.src, t)[c.config.src[t]] = None
  <2>1. PICK src : src = c.config.src
    OBVIOUS
  <2>2. Steps[i] \in {121, 122, 123}
    BY <1>2, StdFacts
  <2>3. src[t] # Closed /\ Before(c.table, src, t)[src[t]] = None
    BY <1>2, <2>1, <2>2 DEF MustFail
  <2>4. src \in [Std -> Fd \cup {Closed}]
    BY <2>1 DEF Config
  <2>5. src[t] \in Fd
    BY <2>3, <2>4
  <2>6. c.table[src[t]] = None
    BY <2>3, <2>4, <2>5, BeforeEffect
  <2> QED BY <2>1, <2>3, <2>6
<1>3. CASE i \in {1, 2, 7, 8, 11}
  BY <1>1, <1>3, StepFacts DEF MustFail
<1>4. CASE i \in {3, 4, 5}
  <2>1. i - 3 \in Std /\ Steps[i] = 121 + (i - 3) /\ Steps[i] - 121 = i - 3
    BY <1>4, StepFacts, StdFacts
  <2>2. /\ c.config.src[i - 3] # Closed /\ c.table[c.config.src[i - 3]] = None
        /\ Before(c.table, c.config.src, i - 3)[c.config.src[i - 3]] = None
    BY <1>2, <2>1
  <2> QED BY <1>4, <2>1, <2>2, StepFacts
<1>5. CASE i = 6
  BY <1>1, <1>5, StepFacts DEF MustFail
<1>6. CASE i \in {9, 10}
  <2>1. \A j \in 1 .. i - 1 : Steps[j] # 125
    BY <1>6, StepFacts
  <2> QED BY <1>6, <2>1, StepFacts DEF MustFail, PrivilegedAt
<1> QED BY <1>1, <1>3, <1>4, <1>5, <1>6

\* What a child needs to run its program, in terms of what the client set.
Settled(c) ==
    /\ \A t \in Std : \/ c.config.src[t] = Closed
                     \/ c.table[c.config.src[t]] # None
                     \/ Clobbered(c.config.src, t)
    /\ "memory" \in c.config.opts => env.memory
    /\ "credentials" \in c.config.opts => env.root

LEMMA RunnableSettled ==
  ASSUME env \in Environments, NEW c, c.table \in Table, c.config \in Config
  PROVE  Runnable(c) <=> Settled(c)
<1>1. PICK src : src = c.config.src
  OBVIOUS
<1>2. src \in [Std -> Fd \cup {Closed}]
  BY <1>1 DEF Config
<1>3. ASSUME Runnable(c) PROVE Settled(c)
  <2>1. ASSUME NEW t \in Std, src[t] # Closed, c.table[src[t]] = None
        PROVE  Clobbered(src, t)
    <3>1. Before(c.table, src, t)[src[t]] # None /\ src[t] \in Fd
      BY <1>1, <1>2, <1>3, <2>1, SourcesOpen
    <3>2. ~(src[t] \notin Std \/ src[t] >= t \/ src[src[t]] \in {Closed, src[t]})
      BY <1>2, <2>1, <3>1, BeforeEffect
    <3> QED BY <3>2, StdFacts DEF Clobbered
  <2>2. "memory" \in c.config.opts => env.memory
    <3>1. ~MustFail(c, 6) /\ Steps[6] = 128
      BY <1>3, StepFacts DEF Runnable
    <3> QED BY <3>1 DEF MustFail
  <2>3. "credentials" \in c.config.opts => env.root
    <3>1. ~MustFail(c, 9) /\ Steps[9] = 124
      BY <1>3, StepFacts DEF Runnable
    <3> QED BY <3>1 DEF MustFail, PrivilegedAt
  <2> QED BY <1>1, <2>1, <2>2, <2>3 DEF Settled
<1>4. ASSUME Settled(c), NEW i \in 1 .. Len(Steps), MustFail(c, i) PROVE FALSE
  <2>1. \A t \in Std : src[t] # Closed => Before(c.table, src, t)[src[t]] # None
    BY <1>1, <1>2, <1>4, SourcesOpened DEF Settled
  <2> QED BY <1>1, <1>4, <2>1, FailureReasons DEF Settled
<1> QED BY <1>3, <1>4 DEF Runnable

\* executor_child_exec and platform_apply_rlimit: which settings make the set-up
\* certain to fail, and which exit codes it can end with (SetUpHonest).
THEOREM HonestSetUp == Spec => []SetUpHonest
<1>1. DescInv => SetUpHonest
  <2> SUFFICES ASSUME DescInv, NEW c \in Child, child[c].pc = "forked"
               PROVE  /\ Runnable(child[c]) <=> Settled(child[c])
                      /\ \A i \in 1 .. Len(Steps) : EndsAt(child[c], i) =>
                           LET code == Steps[i]  src == child[c].config.src IN
                           /\ code \in {121, 122, 123} => child[c].table[src[code - 121]] = None
                           /\ code \in DOMAIN Setting => Setting[code] \in child[c].config.opts
                           /\ code \in {124, 125} =>
                                "credentials" \in child[c].config.opts /\ ~env.root
    BY DEF SetUpHonest, Settled
  <2>1. PICK p : p = child[c]
    OBVIOUS
  <2>2. p.table \in Table /\ p.config \in Config /\ env \in Environments
    BY <2>1, ChildrenTyped DEF DescInv, DescriptorsOwned, TypeOK, ChildRecord
  <2>3. Runnable(p) <=> Settled(p)
    BY <2>2, RunnableSettled
  <2>4. DOMAIN Setting = {120, 128, 129, 130} /\ Setting[128] = "memory"
    BY DEF Setting
  <2>5. ASSUME NEW i \in 1 .. Len(Steps), EndsAt(p, i)
        PROVE  /\ Steps[i] \in {121, 122, 123} => p.table[p.config.src[Steps[i] - 121]] = None
               /\ Steps[i] \in DOMAIN Setting => Setting[Steps[i]] \in p.config.opts
               /\ Steps[i] \in {124, 125} => "credentials" \in p.config.opts /\ ~env.root
    <3>1. CASE MustFail(p, i)
      BY <2>2, <2>4, <3>1, FailureReasons
    <3>2. CASE MayFail(p, i)
      BY <2>4, <3>2 DEF MayFail
    <3> QED BY <2>5, <3>1, <3>2 DEF EndsAt
  <2> QED BY <2>1, <2>3, <2>5
<1> QED BY <1>1, DescriptorsCorrect, PTL
==============================================================================
