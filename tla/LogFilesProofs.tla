---------------------------- MODULE LogFilesProofs ----------------------------
(***************************************************************************)
(* Proofs about LogFiles for any number of processes and any limits: what  *)
(* pruning spares.                                                         *)
(***************************************************************************)
EXTENDS LogFiles, FiniteSetTheorems, TLAPS

\* The logs that are newer than f, there or removed.
Newer(f) == {g \in Log : mtime[g] > mtime[f]}

\* No two changes have the same stamp, none is later than now, and a log has
\* the stamp of its creation for a name.
Stamped ==
  /\ \A f \in Log : mtime[f] # None => f <= now /\ mtime[f] <= now
  /\ \A f, g \in Log : mtime[f] # None /\ mtime[f] = mtime[g] => f = g

\* What a pruning process has listed or inspected has existed, and there is
\* one entry of each.
EntriesOnce ==
  \A p \in Proc :
    /\ \A f \in listed[p] : mtime[f] # None
    /\ \A e \in entries[p] : mtime[e.log] # None /\ e.log \notin listed[p]
    /\ \A d, e \in entries[p] : d.log = e.log => d = e

\* Where nothing has gone wrong, an entry tells the time of its log, or that
\* the log is gone.
EntriesTrue ==
  \A p \in Proc : \A e \in entries[p] :
    IF e.time = None THEN e.log \notin dir ELSE e.time = mtime[e.log]

LogInv ==
  /\ TypeOK
  /\ Stamped
  /\ EntriesOnce
  /\ trouble = 0 => EntriesTrue
  /\ NewestKept

-----------------------------------------------------------------------------
LEMMA LogFacts ==
  /\ None \notin Log /\ Log \subseteq Nat
  /\ \A f \in Log : Newer(f) \subseteq Log
  /\ IsFiniteSet(Log)
<1>1. MaxStamp \in Int /\ 1 \in Int
  BY LogAssumption
<1>2. IsFiniteSet(Log)
  BY <1>1, FS_Interval DEF Log
<1> QED BY <1>1, <1>2 DEF None, Log, Newer

LEMMA StampsAreNumbers == \A t \in Log \cup {None} : t \in Nat
  BY DEF Log, None

\* The parts of TypeOK that speak of one process.
LEMMA EntryType ==
  ASSUME TypeOK, NEW p \in Proc
  PROVE  /\ listed[p] \subseteq Log
         /\ \A e \in entries[p] : e.log \in Log /\ e.time \in Log \cup {None}
BY DEF TypeOK, Entry

\* A change of files makes no log older.
LEMMA NewerGrows ==
  ASSUME NEW f \in Log,
         mtime \in [Log -> Log \cup {None}], mtime' \in [Log -> Log \cup {None}],
         mtime'[f] = mtime[f],
         \A g \in Log : mtime'[g] >= mtime[g],
         Cardinality(Newer(f)) >= Keep
  PROVE  Cardinality({g \in Log : mtime'[g] > mtime'[f]}) >= Keep
<1> DEFINE N == {g \in Log : mtime'[g] > mtime'[f]}
<1>1. ASSUME NEW g \in Newer(f) PROVE g \in N
  <2>1. g \in Log /\ mtime[g] > mtime[f] /\ mtime'[g] >= mtime[g]
    BY DEF Newer
  <2>2. mtime[g] \in Nat /\ mtime'[g] \in Nat /\ mtime[f] \in Nat
    BY <2>1, StampsAreNumbers
  <2> QED BY <2>1, <2>2
<1>2. IsFiniteSet(N)
  BY LogFacts, FS_Subset
<1>3. /\ Cardinality(Newer(f)) <= Cardinality(N)
      /\ Cardinality(Newer(f)) \in Nat /\ Cardinality(N) \in Nat
  <2>1. IsFiniteSet(Newer(f))
    BY <1>1, <1>2, FS_Subset
  <2> QED BY <1>1, <1>2, <2>1, FS_Subset, FS_CardinalityType
<1> QED BY <1>3, LogAssumption

\* As many entries as logs at most.
LEMMA EntriesFinite ==
  ASSUME TypeOK, EntriesOnce, NEW p \in Proc
  PROVE  IsFiniteSet(entries[p])
<1> DEFINE log == [e \in entries[p] |-> e.log]
<1>1. log \in [entries[p] -> Log]
  BY EntryType
<1>2. ASSUME NEW c \in entries[p], NEW d \in entries[p], log[c] = log[d]
      PROVE  c = d
  BY <1>2 DEF EntriesOnce
<1> HIDE DEF log
<1>3. log \in Injection(entries[p], Log)
  BY <1>1, <1>2 DEF Injection, IsInjective
<1> QED BY <1>3, LogFacts, FS_Injection

\* The entry that pruning takes has Keep newer ones, if there are more than
\* Keep entries.
LEMMA OldestHasNewer ==
  ASSUME TypeOK, Stamped, EntriesOnce, EntriesTrue, NEW p \in Proc,
         Cardinality(entries[p]) > Keep,
         NEW e \in Oldest(entries[p]), e.time # None
  PROVE  Cardinality(Newer(e.log)) >= Keep
<1> DEFINE others == entries[p] \ {e}
           log == [d \in others |-> d.log]
<1>1. e \in entries[p] /\ e.log \in Log /\ e.time = mtime[e.log]
  BY EntryType DEF Oldest, EntriesTrue
<1>2. ASSUME NEW d \in others
      PROVE  d.log \in Newer(e.log)
  <2>1. d.log \in Log /\ d.time \in Nat /\ e.time \in Nat /\ e.time <= d.time
    <3>1. d \in entries[p] /\ e.time <= d.time
      BY DEF Oldest
    <3>2. d.log \in Log /\ d.time \in Log \cup {None} /\ e.time \in Log \cup {None}
      BY <1>1, <3>1, EntryType
    <3> QED BY <3>1, <3>2, StampsAreNumbers
  <2>2. d.time = mtime[d.log]
    BY <1>1, <2>1, EntryType, LogFacts DEF EntriesTrue, None
  <2>3. d.log # e.log
    BY <1>1 DEF EntriesOnce
  <2>4. mtime[d.log] # mtime[e.log]
    BY <1>1, <2>1, <2>3 DEF Stamped
  <2> QED BY <1>1, <2>1, <2>2, <2>4 DEF Newer
<1>3. log \in Injection(others, Newer(e.log))
  <2>1. log \in [others -> Newer(e.log)]
    BY <1>2
  <2>2. ASSUME NEW c \in others, NEW d \in others, log[c] = log[d]
        PROVE  c = d
    BY <2>2 DEF EntriesOnce
  <2> HIDE DEF log, others
  <2> QED BY <2>1, <2>2 DEF Injection, IsInjective
<1>4. IsFiniteSet(Newer(e.log))
  BY <1>1, LogFacts, FS_Subset
<1>5. /\ Cardinality(others) <= Cardinality(Newer(e.log))
      /\ IsFiniteSet(others)
  BY <1>3, <1>4, FS_Injection
<1>6. Cardinality(others) = Cardinality(entries[p]) - 1
  BY <1>1, EntriesFinite, FS_RemoveElement
<1>7. /\ Cardinality(others) \in Nat /\ Cardinality(Newer(e.log)) \in Nat
      /\ Cardinality(entries[p]) \in Nat /\ Keep \in Nat
  BY <1>4, <1>5, EntriesFinite, FS_CardinalityType, LogAssumption
<1> HIDE DEF others
<1> QED BY <1>5, <1>6, <1>7
-----------------------------------------------------------------------------
\* What a step has to show for NewestKept.
LEMMA KeptBy ==
  ASSUME NewestKept, trouble' = 0 => trouble = 0,
         mtime \in [Log -> Log \cup {None}], mtime' \in [Log -> Log \cup {None}],
         \A g \in Log : mtime'[g] >= mtime[g],
         trouble' = 0 =>
           \A f \in Log \ dir' :
             mtime'[f] # None =>
               /\ mtime'[f] = mtime[f]
               /\ f \notin dir \/ Cardinality(Newer(f)) >= Keep
  PROVE  NewestKept'
<1> SUFFICES ASSUME trouble' = 0, NEW f \in Log \ dir', mtime'[f] # None
             PROVE  Cardinality({g \in Log : mtime'[g] > mtime'[f]}) >= Keep
  BY DEF NewestKept
<1>1. mtime'[f] = mtime[f] /\ mtime[f] # None
  OBVIOUS
<1>2. Cardinality(Newer(f)) >= Keep
  BY <1>1 DEF NewestKept, Newer
<1> QED BY <1>1, <1>2, NewerGrows

\* The invariant, where a step changes none of the times.
LEMMA SameTimes ==
  ASSUME LogInv, UNCHANGED <<mtime, now>>, trouble' = 0 => trouble = 0,
         trouble' = 0 => \A f \in dir \ dir' : Cardinality(Newer(f)) >= Keep
  PROVE  Stamped' /\ NewestKept'
<1>1. Stamped'
  BY DEF LogInv, Stamped
<1>2. \A g \in Log : mtime'[g] >= mtime[g]
  BY StampsAreNumbers DEF LogInv, TypeOK
<1>3. NewestKept'
  BY <1>2, KeptBy DEF LogInv, TypeOK
<1> QED BY <1>1, <1>3

LEMMA InitLogInv == Init => LogInv
<1> SUFFICES ASSUME Init PROVE LogInv
  OBVIOUS
<1>1. PICK n \in 0..(Limit + 1) : /\ dir = 1..n /\ now = n
                                 /\ mtime = [f \in Log |-> IF f <= n THEN f ELSE None]
  BY DEF Init
<1>2. n \in Nat /\ n <= MaxStamp /\ MaxStamp \in Nat
  BY <1>1, LogAssumption
<1>3. TypeOK
  BY <1>1, <1>2 DEF Init, TypeOK, Log, None, Trouble
<1>4. Stamped
  BY <1>1, <1>2 DEF Stamped, Log, None
<1>5. EntriesOnce /\ EntriesTrue
  BY DEF Init, EntriesOnce, EntriesTrue
<1>6. NewestKept
  BY <1>1, <1>2 DEF NewestKept, Log, None
<1> QED BY <1>3, <1>4, <1>5, <1>6 DEF LogInv

-----------------------------------------------------------------------------
(* One lemma for each step.                                                *)

LEMMA ListKeeps ==
  ASSUME LogInv, NEW p \in Proc, List(p) \/ ListFails(p)
  PROVE  LogInv'
<1>1. UNCHANGED <<dir, mtime, now, own, entries>> /\ (trouble' = 0 => trouble = 0)
  BY DEF List, ListAbove, ListFails, Troubled, LogInv, TypeOK, Trouble
<1>2. entries[p] = {}
  BY DEF LogInv, TypeOK, List, ListAbove, ListFails
<1>3. TypeOK'
  BY <1>2 DEF List, ListAbove, ListFails, Troubled, Goto, LogInv, TypeOK, Trouble
<1>4. Stamped' /\ NewestKept'
  BY <1>1, SameTimes
<1>5. EntriesOnce'
  <2>1. listed' = listed \/ listed' = [listed EXCEPT ![p] = dir]
    BY DEF List, ListAbove, ListFails
  <2>2. \A f \in dir : mtime[f] # None
    BY DEF LogInv, TypeOK
  <2> QED BY <1>1, <1>2, <2>1, <2>2 DEF LogInv, TypeOK, EntriesOnce
<1>6. trouble' = 0 => EntriesTrue'
  BY <1>1 DEF LogInv, EntriesTrue
<1> QED BY <1>3, <1>4, <1>5, <1>6 DEF LogInv

LEMMA LookKeeps ==
  ASSUME LogInv, NEW p \in Proc, Look(p)
  PROVE  LogInv'
<1>1. PICK f \in Log, t \in Log \cup {None} :
        /\ f \in listed[p] /\ t \in {mtime[f], None}
        /\ f \notin dir => t = None
        /\ Troubled(IF f \in dir /\ t = None THEN 2 ELSE 0)
        /\ listed' = [listed EXCEPT ![p] = @ \ {f}]
        /\ entries' = [entries EXCEPT ![p] = @ \cup {[log |-> f, time |-> t]}]
        /\ Goto(p, IF listed[p] = {f} THEN "prune" ELSE "look")
  BY DEF Look, IsNext, LogInv, TypeOK
<1>2. UNCHANGED <<dir, mtime, now, own>>
  BY DEF Look
<1>3. trouble' = 0 => trouble = 0 /\ ~(f \in dir /\ t = None)
  BY <1>1 DEF Troubled, LogInv, TypeOK, Trouble
<1>4. TypeOK'
  <2>1. [log |-> f, time |-> t] \in Entry
    BY <1>1 DEF Entry
  <2>2. entries' \in [Proc -> SUBSET Entry] /\ listed' \in [Proc -> SUBSET Log]
    BY <1>1, <2>1 DEF LogInv, TypeOK
  <2>3. pc' \in [Proc -> {"idle", "look", "prune", "open", "running", "clean"}]
    BY <1>1 DEF Goto, LogInv, TypeOK
  <2>4. trouble' \in Trouble
    BY <1>1 DEF Troubled, LogInv, TypeOK, Trouble
  <2>5. ASSUME NEW q \in Proc
        PROVE  /\ listed'[q] # {} => pc'[q] \in {"look", "clean"}
               /\ entries'[q] # {} => pc'[q] \in {"look", "prune"}
    BY <1>1 DEF Goto, LogInv, TypeOK
  <2> QED BY <1>2, <2>2, <2>3, <2>4, <2>5 DEF LogInv, TypeOK
<1>5. Stamped' /\ NewestKept'
  BY <1>2, <1>3, SameTimes
<1>6. EntriesOnce'
  <2>1. ASSUME NEW q \in Proc
        PROVE  /\ \A g \in listed'[q] : mtime[g] # None
               /\ \A e \in entries'[q] : mtime[e.log] # None /\ e.log \notin listed'[q]
               /\ \A d, e \in entries'[q] : d.log = e.log => d = e
    BY <1>1 DEF LogInv, TypeOK, EntriesOnce
  <2> QED BY <1>2, <2>1 DEF EntriesOnce
<1>7. trouble' = 0 => EntriesTrue'
  <2> SUFFICES ASSUME trouble' = 0, NEW q \in Proc, NEW e \in entries'[q]
               PROVE  IF e.time = None THEN e.log \notin dir ELSE e.time = mtime[e.log]
    BY <1>2 DEF EntriesTrue
  <2>1. CASE e \in entries[q]
    BY <1>3, <2>1 DEF LogInv, EntriesTrue
  <2>2. CASE e \notin entries[q]
    <3>1. e = [log |-> f, time |-> t]
      BY <1>1, <2>2 DEF LogInv, TypeOK
    <3> QED BY <1>1, <1>3, <3>1
  <2> QED BY <2>1, <2>2
<1> QED BY <1>4, <1>5, <1>6, <1>7 DEF LogInv

LEMMA PruneKeeps ==
  ASSUME LogInv, NEW p \in Proc, Prune(p)
  PROVE  LogInv'
<1>1. PICK e \in Oldest(entries[p]) :
        /\ RemoveLog(e.log, 0)
        /\ entries' = [entries EXCEPT ![p] = @ \ {e}]
  BY DEF Prune
<1>2. /\ Cardinality(entries[p]) > Keep /\ pc[p] = "prune"
      /\ UNCHANGED <<mtime, now, pc, own, listed>>
  BY DEF Prune
<1>3. e \in entries[p] /\ e.log \in Log /\ mtime[e.log] # None
  BY EntryType DEF Oldest, LogInv, EntriesOnce
<1>4. /\ dir' \subseteq dir /\ dir \ dir' \subseteq {e.log}
      /\ trouble' \in Trouble
      /\ trouble' = 0 => trouble = 0
  BY <1>1 DEF RemoveLog, Troubled, LogInv, TypeOK, Trouble
<1>5. TypeOK'
  <2>1. entries' \in [Proc -> SUBSET Entry] /\ \A q \in Proc : entries'[q] \subseteq entries[q]
    BY <1>1 DEF LogInv, TypeOK
  <2> QED BY <1>2, <1>4, <2>1 DEF LogInv, TypeOK
<1>6. Stamped' /\ NewestKept'
  <2>1. ASSUME trouble' = 0, NEW f \in dir \ dir'
        PROVE  Cardinality(Newer(f)) >= Keep
    <3>1. f = e.log /\ f \in dir
      BY <1>4
    <3>2. EntriesTrue
      BY <1>4, <2>1 DEF LogInv
    <3>3. e.time # None
      BY <1>3, <3>1, <3>2 DEF EntriesTrue
    <3> QED BY <1>2, <3>1, <3>2, <3>3, OldestHasNewer DEF LogInv
  <2> QED BY <1>2, <1>4, <2>1, SameTimes
<1>7. \A q \in Proc : entries'[q] \subseteq entries[q]
  BY <1>1 DEF LogInv, TypeOK
<1>8. EntriesOnce'
  BY <1>2, <1>7 DEF LogInv, EntriesOnce
<1>9. trouble' = 0 => EntriesTrue'
  BY <1>2, <1>4, <1>7 DEF LogInv, EntriesTrue
<1> QED BY <1>5, <1>6, <1>8, <1>9 DEF LogInv

\* Steps that only forget entries and listings, and change no file.
LEMMA ForgettingKeeps ==
  ASSUME LogInv, UNCHANGED <<dir, mtime, now>>, trouble' = trouble,
         own' \in [Proc -> Log \cup {None}],
         pc' \in [Proc -> {"idle", "look", "prune", "open", "running", "clean"}],
         entries' \in [Proc -> SUBSET Entry],
         \A q \in Proc : /\ listed'[q] = listed[q] \/ listed'[q] = {}
                         /\ entries'[q] = entries[q] \/ entries'[q] = {}
                         /\ \/ pc'[q] = pc[q]
                            \/ listed'[q] = {} /\ entries'[q] = {},
         listed' \in [Proc -> SUBSET Log]
  PROVE  LogInv'
<1>1. TypeOK'
  BY DEF LogInv, TypeOK
<1>2. Stamped' /\ NewestKept'
  BY SameTimes
<1>3. EntriesOnce'
  BY DEF LogInv, EntriesOnce
<1>4. trouble' = 0 => EntriesTrue'
  BY DEF LogInv, EntriesTrue
<1> QED BY <1>1, <1>2, <1>3, <1>4 DEF LogInv

LEMMA QuietKeeps ==
  ASSUME LogInv, NEW p \in Proc, PruneDone(p) \/ OpenFails(p) \/ End(p)
  PROVE  LogInv'
<1>1. /\ UNCHANGED <<dir, mtime, now>> /\ trouble' = trouble
      /\ own' \in [Proc -> Log \cup {None}]
      /\ pc' \in [Proc -> {"idle", "look", "prune", "open", "running", "clean"}]
      /\ entries' \in [Proc -> SUBSET Entry]
      /\ listed' \in [Proc -> SUBSET Log]
  BY DEF PruneDone, OpenFails, End, Goto, LogInv, TypeOK
<1>2. \A q \in Proc : /\ listed'[q] = listed[q] \/ listed'[q] = {}
                      /\ entries'[q] = entries[q] \/ entries'[q] = {}
                      /\ \/ pc'[q] = pc[q]
                         \/ listed'[q] = {} /\ entries'[q] = {}
  BY DEF PruneDone, OpenFails, End, Goto, LogInv, TypeOK
<1> QED BY <1>1, <1>2, ForgettingKeeps

\* A file f is created or written, and gets the next stamp.
LEMMA StampKeeps ==
  ASSUME LogInv, NEW f \in Log, now' = now + 1, now < MaxStamp,
         mtime' = [mtime EXCEPT ![f] = now'],
         f <= now', f \in dir', dir \subseteq dir', dir' \subseteq dir \cup {f},
         UNCHANGED <<listed, entries>>, trouble' = 0 => trouble = 0,
         trouble' = 0 => \A q \in Proc : \A e \in entries[q] : e.log # f
  PROVE  Stamped' /\ EntriesOnce' /\ (trouble' = 0 => EntriesTrue') /\ NewestKept'
<1> USE DEF LogInv
<1>1. now \in Nat /\ MaxStamp \in Nat /\ now' \in Log /\ now' # None
  BY LogAssumption, StampsAreNumbers DEF TypeOK, Log, None
<1>2. mtime' \in [Log -> Log \cup {None}]
  BY <1>1 DEF TypeOK
<1>3. \A g \in Log : mtime[g] \in Nat /\ mtime'[g] \in Nat /\ mtime[g] <= now
  <2>1. ASSUME NEW g \in Log PROVE mtime[g] \in Nat /\ mtime'[g] \in Nat /\ mtime[g] <= now
    <3>1. mtime[g] \in Nat /\ mtime'[g] \in Nat
      BY <1>2, StampsAreNumbers DEF TypeOK
    <3> QED BY <1>1, <3>1 DEF Stamped, None
  <2> QED BY <2>1
<1>4. \A g \in Log : mtime'[g] = IF g = f THEN now' ELSE mtime[g]
  BY DEF TypeOK
<1>5. Stamped'
  <2>1. ASSUME NEW g \in Log, mtime'[g] # None PROVE g <= now' /\ mtime'[g] <= now'
    <3>1. g \in Nat /\ f \in Nat
      BY LogFacts
    <3> QED BY <1>1, <1>3, <1>4, <2>1, <3>1 DEF Stamped
  <2>2. ASSUME NEW g \in Log, NEW h \in Log, mtime'[g] # None, mtime'[g] = mtime'[h]
        PROVE  g = h
    BY <1>1, <1>3, <1>4, <2>2 DEF Stamped
  <2> QED BY <2>1, <2>2 DEF Stamped
<1>6. EntriesOnce'
  <2>1. ASSUME NEW g \in Log, mtime[g] # None PROVE mtime'[g] # None
    BY <1>1, <1>4, <2>1
  <2> QED BY <2>1, EntryType DEF EntriesOnce
<1>7. ASSUME trouble' = 0 PROVE EntriesTrue'
  <2> SUFFICES ASSUME NEW q \in Proc, NEW e \in entries[q]
               PROVE  IF e.time = None THEN e.log \notin dir' ELSE e.time = mtime'[e.log]
    BY DEF EntriesTrue
  <2>1. e.log # f /\ e.log \in Log
    BY <1>7, EntryType
  <2>2. IF e.time = None THEN e.log \notin dir ELSE e.time = mtime[e.log]
    BY <1>7 DEF EntriesTrue
  <2> QED BY <1>4, <2>1, <2>2
<1>8. NewestKept'
  <2>1. \A g \in Log : mtime'[g] >= mtime[g]
    BY <1>1, <1>3, <1>4
  <2>2. \A g \in Log \ dir' : mtime'[g] = mtime[g] /\ g \notin dir
    BY <1>4
  <2> QED BY <1>2, <2>1, <2>2, KeptBy DEF TypeOK
<1> QED BY <1>5, <1>6, <1>7, <1>8

LEMMA OpenKeeps ==
  ASSUME LogInv, NEW p \in Proc, Open(p)
  PROVE  LogInv'
<1> USE DEF LogInv
<1>1. /\ now < MaxStamp /\ now' = now + 1 /\ dir' = dir \cup {now'}
      /\ mtime' = [mtime EXCEPT ![now'] = now']
      /\ own' = [own EXCEPT ![p] = now'] /\ Goto(p, "running")
      /\ UNCHANGED <<listed, entries, trouble>> /\ pc[p] = "open"
  BY DEF Open
<1>2. now \in Nat /\ now' \in Log /\ MaxStamp \in Nat
  BY <1>1, LogAssumption, StampsAreNumbers DEF TypeOK, Log
<1>3. mtime[now'] = None
  BY <1>1, <1>2 DEF Stamped
<1>4. TypeOK'
  <2>1. dir' \subseteq {f \in Log : mtime'[f] # None}
    <3>1. now' # None
      BY <1>1, <1>2 DEF None
    <3> QED BY <1>1, <1>2, <3>1 DEF TypeOK
  <2> QED BY <1>1, <1>2, <2>1 DEF TypeOK, Goto
<1>5. \A q \in Proc : \A e \in entries[q] : e.log # now'
  BY <1>3 DEF EntriesOnce
<1>6. Stamped' /\ EntriesOnce' /\ (trouble' = 0 => EntriesTrue') /\ NewestKept'
  <2>1. PICK f \in Log : f = now'
    BY <1>2
  <2>2. /\ mtime' = [mtime EXCEPT ![f] = now'] /\ f <= now'
        /\ f \in dir' /\ dir \subseteq dir' /\ dir' \subseteq dir \cup {f}
        /\ \A q \in Proc : \A e \in entries[q] : e.log # f
    BY <1>1, <1>2, <1>5, <2>1
  <2> QED BY <1>1, <2>2, StampKeeps
<1> QED BY <1>4, <1>6

LEMMA WriteLineKeeps ==
  ASSUME LogInv, NEW p \in Proc, WriteLine(p)
  PROVE  LogInv'
<1> USE DEF LogInv
<1>1. /\ own[p] \in dir /\ now < MaxStamp /\ now' = now + 1
      /\ mtime' = [mtime EXCEPT ![own[p]] = now']
      /\ UNCHANGED <<dir, pc, own, listed, entries>>
      /\ Troubled(IF \E q \in Proc : pc[q] \in {"look", "prune"} THEN 1 ELSE 0)
  BY DEF WriteLine
<1>2. now \in Nat /\ now' \in Log /\ now' # None
  BY <1>1, LogAssumption, StampsAreNumbers DEF TypeOK, Log, None
<1>3. own[p] \in Log /\ mtime[own[p]] # None
  BY <1>1 DEF TypeOK
<1>4. own[p] <= now'
  <2>1. own[p] \in Nat /\ own[p] <= now
    BY <1>3, LogFacts DEF Stamped
  <2> QED BY <1>1, <1>2, <2>1
<1>5. /\ trouble' \in Trouble /\ (trouble' = 0 => trouble = 0)
      /\ trouble' = 0 => \A q \in Proc : pc[q] \notin {"look", "prune"}
  BY <1>1 DEF Troubled, TypeOK, Trouble
<1>6. TypeOK'
  <2>1. dir' \subseteq {f \in Log : mtime'[f] # None} /\ mtime' \in [Log -> Log \cup {None}]
    BY <1>1, <1>2, <1>3 DEF TypeOK
  <2> QED BY <1>1, <1>2, <1>5, <2>1 DEF TypeOK
<1>7. trouble' = 0 => \A q \in Proc : \A e \in entries[q] : e.log # own[p]
  BY <1>5 DEF TypeOK
<1>8. Stamped' /\ EntriesOnce' /\ (trouble' = 0 => EntriesTrue') /\ NewestKept'
  BY <1>1, <1>3, <1>4, <1>5, <1>7, StampKeeps
<1> QED BY <1>6, <1>8

LEMMA CleanKeeps ==
  ASSUME LogInv, NEW p \in Proc, CleanList(p) \/ Clean(p)
  PROVE  LogInv'
<1> USE DEF LogInv
<1>1. /\ UNCHANGED <<mtime, now, own, entries>>
      /\ dir' \subseteq dir
      /\ trouble' \in Trouble
      /\ trouble' = 0 => trouble = 0 /\ dir' = dir
  <2>1. CASE CleanList(p)
    BY <2>1 DEF CleanList, TypeOK
  <2>2. CASE Clean(p)
    <3>1. PICK f \in Log : (dir' = dir /\ trouble' = trouble) \/ RemoveLog(f, 1)
      BY <2>2 DEF Clean
    <3>2. UNCHANGED <<mtime, now, own, entries>>
      BY <2>2 DEF Clean
    <3>3. trouble \in {0, 1, 2}
      BY DEF TypeOK, Trouble
    <3> QED BY <3>1, <3>2, <3>3 DEF RemoveLog, Troubled, Trouble
  <2> QED BY <2>1, <2>2
<1>2. entries[p] = {}
  BY DEF TypeOK, CleanList, Clean
<1>3. /\ listed' \in [Proc -> SUBSET Log]
      /\ \A q \in Proc \ {p} : listed'[q] = listed[q] /\ pc'[q] = pc[q]
      /\ listed'[p] \subseteq listed[p] \cup dir
      /\ listed'[p] # {} => pc'[p] \in {"look", "clean"}
      /\ pc' \in [Proc -> {"idle", "look", "prune", "open", "running", "clean"}]
  BY DEF CleanList, Clean, Goto, TypeOK
<1>4. TypeOK'
  BY <1>1, <1>2, <1>3 DEF TypeOK
<1>5. Stamped' /\ NewestKept'
  BY <1>1, SameTimes
<1>6. EntriesOnce'
  <2>1. \A f \in listed'[p] : mtime[f] # None
    BY <1>3 DEF EntriesOnce, TypeOK
  <2> QED BY <1>1, <1>2, <1>3, <2>1 DEF EntriesOnce
<1>7. trouble' = 0 => EntriesTrue'
  BY <1>1 DEF EntriesTrue
<1> QED BY <1>4, <1>5, <1>6, <1>7

LEMMA StepLogInv == LogInv /\ [Next]_vars => LogInv'
<1> SUFFICES ASSUME LogInv, [Next]_vars PROVE LogInv'
  OBVIOUS
<1>1. ASSUME UNCHANGED vars PROVE LogInv'
  <2>1. Stamped' /\ NewestKept'
    BY <1>1, SameTimes DEF vars
  <2>2. TypeOK' /\ EntriesOnce' /\ (trouble' = 0 => EntriesTrue')
    BY <1>1 DEF vars, LogInv, TypeOK, EntriesOnce, EntriesTrue
  <2> QED BY <2>1, <2>2 DEF LogInv
<1> QED
  BY <1>1, ListKeeps, LookKeeps, PruneKeeps, QuietKeeps, OpenKeeps, WriteLineKeeps, CleanKeeps
     DEF Next

\* The inductive invariant of pruning: stamps never repeat, and a listing has
\* each log once, with the time it was looked at (log.go:184-217).
THEOREM LogInvariant == Spec => []LogInv
  BY InitLogInv, StepLogInv, PTL DEF Spec

\* The loops over a listing stop when all entries are done, and no process
\* has entries of a listing it is no longer working on (log.go:184-217,
\* clean_cache/command.go:53-73).
THEOREM LogTypes == Spec => []TypeOK
<1>1. LogInv => TypeOK
  BY DEF LogInv
<1> QED BY <1>1, LogInvariant, PTL

\* However many processes prune at once, and whatever the limits are, a log
\* that pruning has removed had Keep newer ones (log.go:185-216).
THEOREM NewestSpared == Spec => []NewestKept
<1>1. LogInv => NewestKept
  BY DEF LogInv
<1> QED BY <1>1, LogInvariant, PTL

-----------------------------------------------------------------------------
(* The directory is bounded.  Processes that prune are given ranks in the  *)
(* order in which they listed the directory.  The logs that were created   *)
(* since a process listed it belong to different processes, none of which  *)
(* is about to open another log or was already pruning at that time.       *)

Pruning == {p \in Proc : pc[p] \in {"look", "prune"}}

\* Processes that open no log before they list the directory, or list it
\* later than those of rank k.
Free(rank, k) ==
  {p \in Proc : /\ pc[p] # "open"
                /\ p \in Pruning => rank[p] > k}

Logs(p) == {e.log : e \in entries[p]}

\* What has been created since p listed the directory.
Fresh(p) == dir \ (listed[p] \cup Logs(p))

\* Those of rank 0 listed it while it was small.
Fits(rank) ==
  /\ Cardinality(dir) <= Limit + Cardinality(Free(rank, 0))
  /\ \A p \in Pruning :
       rank[p] > 0 => Cardinality(Fresh(p)) <= Cardinality(Free(rank, rank[p]))

BoundInv ==
  trouble < 2 => \E top \in Nat : \E rank \in [Proc -> 0..top] : Fits(rank)

LEMMA SetsFinite ==
  ASSUME TypeOK
  PROVE  /\ IsFiniteSet(dir) /\ Cardinality(dir) \in Nat
         /\ \A p : IsFiniteSet(Fresh(p)) /\ Cardinality(Fresh(p)) \in Nat
         /\ \A rank, k : IsFiniteSet(Free(rank, k)) /\ Cardinality(Free(rank, k)) \in Nat
<1>1. IsFiniteSet(dir)
  BY LogFacts, FS_Subset DEF TypeOK
<1>2. ASSUME NEW p PROVE IsFiniteSet(Fresh(p))
  BY <1>1, FS_Subset DEF Fresh
<1>3. ASSUME NEW rank, NEW k PROVE IsFiniteSet(Free(rank, k))
  BY LogAssumption, FS_Subset DEF Free
<1> QED BY <1>1, <1>2, <1>3, FS_CardinalityType

\* A step that creates no log and makes nobody busy.
LEMMA FitsOn ==
  ASSUME TypeOK, TypeOK', NEW top \in Nat, NEW rank \in [Proc -> 0..top], Fits(rank),
         dir' \subseteq dir,
         Pruning' \subseteq Pruning,
         \A p \in Pruning' : Fresh(p)' \subseteq Fresh(p),
         \A p \in Proc : pc'[p] = "open" => pc[p] = "open"
  PROVE  Fits(rank)'
<1>1. \A k \in Nat : Cardinality(Free(rank, k)) <= Cardinality(Free(rank, k)')
  <2> SUFFICES ASSUME NEW k \in Nat
               PROVE  Cardinality(Free(rank, k)) <= Cardinality(Free(rank, k)')
    OBVIOUS
  <2>1. Free(rank, k) \subseteq Free(rank, k)'
    <3>1. \A q \in Proc : q \in Pruning' => q \in Pruning
      OBVIOUS
    <3> QED BY <3>1 DEF Free
  <2>2. IsFiniteSet(Free(rank, k)')
    BY LogAssumption, FS_Subset DEF Free
  <2> QED BY <2>1, <2>2, FS_Subset
<1>2. \A k \in Nat : Cardinality(Free(rank, k)) \in Nat /\ Cardinality(Free(rank, k)') \in Nat
  <2> SUFFICES ASSUME NEW k \in Nat
               PROVE  Cardinality(Free(rank, k)) \in Nat /\ Cardinality(Free(rank, k)') \in Nat
    OBVIOUS
  <2>1. IsFiniteSet(Free(rank, k)) /\ IsFiniteSet(Free(rank, k)')
    BY LogAssumption, FS_Subset DEF Free
  <2> QED BY <2>1, FS_CardinalityType
<1>3. Cardinality(dir') <= Cardinality(dir) /\ Cardinality(dir') \in Nat /\ Cardinality(dir) \in Nat
  <2>1. IsFiniteSet(dir)
    BY SetsFinite
  <2> QED BY <2>1, FS_Subset, FS_CardinalityType
<1>4. Cardinality(dir') <= Limit + Cardinality(Free(rank, 0)')
  BY <1>1, <1>2, <1>3, LogAssumption DEF Fits
<1>5. ASSUME NEW p \in Pruning', rank[p] > 0
      PROVE  Cardinality(Fresh(p)') <= Cardinality(Free(rank, rank[p])')
  <2>1. p \in Proc /\ rank[p] \in Nat
    BY DEF Pruning
  <2>2. /\ Cardinality(Fresh(p)') <= Cardinality(Fresh(p))
        /\ Cardinality(Fresh(p)') \in Nat /\ Cardinality(Fresh(p)) \in Nat
    <3>1. IsFiniteSet(Fresh(p)) /\ Fresh(p)' \subseteq Fresh(p)
      BY SetsFinite
    <3> QED BY <3>1, FS_Subset, FS_CardinalityType
  <2>3. Cardinality(Fresh(p)) <= Cardinality(Free(rank, rank[p]))
    BY <1>5 DEF Fits
  <2> QED BY <1>1, <1>2, <2>1, <2>2, <2>3
<1> QED BY <1>4, <1>5 DEF Fits

LEMMA InitBoundInv == Init => BoundInv
<1> SUFFICES ASSUME Init PROVE BoundInv
  OBVIOUS
<1> DEFINE rank == [p \in Proc |-> 0]
<1>1. PICK n \in 0..(Limit + 1) : dir = 1..n
  BY DEF Init
<1>2. Cardinality(dir) <= Limit + 1 /\ Cardinality(dir) \in Nat
  <2>1. 1 \in Int /\ n \in Int /\ Limit \in Nat /\ 0 <= n /\ n <= Limit + 1
    BY <1>1, LogAssumption
  <2>2. Cardinality(1..n) = IF 1 > n THEN 0 ELSE n - 1 + 1
    BY <2>1, FS_Interval
  <2> QED BY <1>1, <2>1, <2>2
<1>3. Free(rank, 0) = Proc
  BY DEF Free, Init, Pruning
<1>4. Cardinality(Proc) \in Nat /\ Cardinality(Proc) >= 1
  BY LogAssumption, FS_CardinalityType, FS_EmptySet
<1>5. Cardinality(dir) <= Limit + Cardinality(Free(rank, 0))
  BY <1>2, <1>3, <1>4, LogAssumption
<1>6. Fits(rank)
  BY <1>5 DEF Fits, Pruning
<1>7. rank \in [Proc -> 0..0] /\ 0 \in Nat
  OBVIOUS
<1> QED BY <1>6, <1>7 DEF BoundInv

\* A process that lists the directory gets the highest rank; if it goes on to
\* open a log the directory is small, and all ranks are forgotten.
LEMMA ListBound ==
  ASSUME LogInv, BoundInv, NEW p \in Proc, List(p)
  PROVE  BoundInv'
<1> USE DEF LogInv
<1>1. /\ UNCHANGED <<dir, mtime, now, own, entries, trouble>> /\ pc[p] = "idle"
      /\ entries[p] = {}
  BY DEF List, ListAbove, TypeOK
<1> SUFFICES ASSUME trouble < 2
             PROVE  \E top \in Nat : \E rank \in [Proc -> 0..top] : Fits(rank)'
  BY <1>1 DEF BoundInv
<1>2. PICK top \in Nat : \E rank \in [Proc -> 0..top] : Fits(rank)
  BY DEF BoundInv
<1>3. PICK rank \in [Proc -> 0..top] : Fits(rank)
  BY <1>2
<1>4. CASE Goto(p, "look") /\ listed' = [listed EXCEPT ![p] = dir]
  <2> DEFINE rank2 == [rank EXCEPT ![p] = top + 1]
  <2>1. rank2 \in [Proc -> 0..(top + 1)] /\ top + 1 \in Nat
    OBVIOUS
  <2>2. \A q \in Proc : pc'[q] = IF q = p THEN "look" ELSE pc[q]
    BY <1>4 DEF Goto, TypeOK
  <2>3. \A k \in 0..top : Free(rank2, k)' = Free(rank, k)
    BY <1>1, <2>1, <2>2 DEF Free, Pruning
  <2>4. Cardinality(dir') <= Limit + Cardinality(Free(rank2, 0)')
    <3>1. Free(rank2, 0)' = Free(rank, 0)
      <4>1. 0 \in 0..top
        OBVIOUS
      <4> HIDE DEF rank2
      <4> QED BY <2>3, <4>1
    <3> QED BY <1>1, <1>3, <3>1 DEF Fits
  <2>5. ASSUME NEW q \in Pruning', rank2[q] > 0
        PROVE  Cardinality(Fresh(q)') <= Cardinality(Free(rank2, rank2[q])')
    <3>1. CASE q = p
      <4>1. Fresh(q)' = {}
        BY <1>1, <1>4, <3>1 DEF Fresh, TypeOK
      <4>2. IsFiniteSet(Free(rank2, rank2[q])')
        BY LogAssumption, FS_Subset DEF Free
      <4> QED BY <4>1, <4>2, FS_EmptySet, FS_CardinalityType
    <3>2. CASE q # p
      <4>1. q \in Pruning /\ rank2[q] = rank[q] /\ rank[q] \in 0..top
        BY <2>2, <3>2 DEF Pruning
      <4>2. Fresh(q)' = Fresh(q)
        BY <1>1, <1>4, <3>2, <4>1 DEF Fresh, Logs, Pruning, TypeOK
      <4> QED BY <1>3, <2>3, <2>5, <4>1, <4>2 DEF Fits
    <3> QED BY <3>1, <3>2
  <2>6. Fits(rank2)'
    BY <2>4, <2>5 DEF Fits
  <2> QED BY <2>1, <2>6
<1>5. CASE Goto(p, "open") /\ Cardinality(dir) <= Limit
  <2> DEFINE zero == [q \in Proc |-> 0]
  <2>1. zero \in [Proc -> 0..0] /\ 0 \in Nat
    OBVIOUS
  <2>2. IsFiniteSet(Free(zero, 0)')
    BY LogAssumption, FS_Subset DEF Free
  <2>3. Cardinality(Free(zero, 0)') \in Nat /\ Cardinality(dir) \in Nat
    BY <2>2, SetsFinite, FS_CardinalityType
  <2>4. Cardinality(dir') <= Limit + Cardinality(Free(zero, 0)')
    BY <1>1, <1>5, <2>3, LogAssumption
  <2>5. \A q \in Pruning' : zero[q] = 0
    BY DEF Pruning
  <2>6. Fits(zero)'
    BY <2>4, <2>5 DEF Fits
  <2> QED BY <2>1, <2>6
<1>6. Cardinality(dir) + Others <= Limit => Cardinality(dir) <= Limit
  BY SetsFinite, LogAssumption
<1> QED
  BY <1>4, <1>5, <1>6, SetsFinite, LogAssumption DEF List, ListAbove

\* A process that has pruned leaves Keep of those it listed and those that
\* are fresh to it; ranks up to its own are forgotten.
LEMMA PruneDoneBound ==
  ASSUME LogInv, BoundInv, NEW p \in Proc, PruneDone(p)
  PROVE  BoundInv'
<1> USE DEF LogInv
<1>1. /\ UNCHANGED <<dir, mtime, now, own, listed, trouble>> /\ pc[p] = "prune"
      /\ Cardinality(entries[p]) <= Keep
      /\ listed[p] = {}
      /\ entries' = [entries EXCEPT ![p] = {}]
      /\ \A q \in Proc : pc'[q] = IF q = p THEN "open" ELSE pc[q]
  BY DEF PruneDone, Goto, TypeOK
<1> SUFFICES ASSUME trouble < 2
             PROVE  \E top \in Nat : \E rank \in [Proc -> 0..top] : Fits(rank)'
  BY <1>1 DEF BoundInv
<1>2. PICK top \in Nat : \E rank \in [Proc -> 0..top] : Fits(rank)
  BY DEF BoundInv
<1>3. PICK rank \in [Proc -> 0..top] : Fits(rank)
  BY <1>2
<1>4. /\ rank[p] \in Nat /\ p \in Pruning
      /\ Limit \in Nat /\ Keep \in Nat /\ Keep <= Limit
  BY <1>1, LogAssumption DEF Pruning
<1> DEFINE rank2 == [q \in Proc |-> IF rank[q] <= rank[p] THEN 0 ELSE rank[q]]
<1>5. rank2 \in [Proc -> 0..top]
  OBVIOUS
<1>6. ASSUME NEW k \in 0..top, k = 0 \/ k > rank[p]
      PROVE  Free(rank2, k)' = Free(rank, IF k = 0 THEN rank[p] ELSE k)
  <2>1. ASSUME NEW q \in Proc
        PROVE  rank2[q] > k <=> rank[q] > (IF k = 0 THEN rank[p] ELSE k)
    <3>1. rank[q] \in Nat /\ rank[p] \in Nat
      OBVIOUS
    <3> QED BY <1>6, <3>1
  <2> HIDE DEF rank2
  <2>2. \A q \in Proc : q # p => (q \in Pruning' <=> q \in Pruning)
    BY <1>1 DEF Pruning
  <2>3. /\ p \notin Free(rank2, k)'
        /\ p \notin Free(rank, IF k = 0 THEN rank[p] ELSE k)
    <3>1. ~(rank[p] > (IF k = 0 THEN rank[p] ELSE k))
      BY <1>4, <1>6
    <3> QED BY <1>1, <1>4, <3>1 DEF Free
  <2>4. ASSUME NEW q \in Proc, q # p
        PROVE  q \in Free(rank2, k)' <=> q \in Free(rank, IF k = 0 THEN rank[p] ELSE k)
    BY <1>1, <2>1, <2>2, <2>4 DEF Free
  <2> QED BY <2>3, <2>4 DEF Free
<1>7. Cardinality(dir) <= Limit + Cardinality(Free(rank, rank[p]))
  <2>1. CASE rank[p] = 0
    BY <1>3, <2>1 DEF Fits
  <2>2. CASE rank[p] > 0
    <3>1. Cardinality(Fresh(p)) <= Cardinality(Free(rank, rank[p]))
      BY <1>3, <1>4, <2>2 DEF Fits
    <3>2. IsFiniteSet(Logs(p)) /\ Cardinality(Logs(p)) <= Cardinality(entries[p])
      <4> DEFINE log == [e \in entries[p] |-> e.log]
      <4>1. log \in [entries[p] -> Logs(p)]
        BY DEF Logs
      <4>2. \A f \in Logs(p) : \E e \in entries[p] : log[e] = f
        BY DEF Logs
      <4>3. IsFiniteSet(entries[p])
        BY EntriesFinite
      <4> HIDE DEF log
      <4>4. log \in Surjection(entries[p], Logs(p))
        BY <4>1, <4>2 DEF Surjection
      <4> QED BY <4>3, <4>4, FS_Surjection
    <3>3. dir \subseteq Fresh(p) \cup Logs(p)
      BY <1>1 DEF Fresh
    <3>4. IsFiniteSet(Fresh(p))
      BY SetsFinite
    <3>5. /\ IsFiniteSet(Fresh(p) \cup Logs(p))
          /\ Cardinality(Fresh(p) \cup Logs(p)) =
               Cardinality(Fresh(p)) + Cardinality(Logs(p)) - Cardinality(Fresh(p) \cap Logs(p))
          /\ IsFiniteSet(Fresh(p) \cap Logs(p))
      BY <3>2, <3>4, FS_Union, FS_Intersection
    <3>6. Cardinality(dir) <= Cardinality(Fresh(p) \cup Logs(p))
      BY <3>3, <3>5, FS_Subset
    <3>7. /\ Cardinality(Fresh(p)) \in Nat /\ Cardinality(Logs(p)) \in Nat
          /\ Cardinality(Fresh(p) \cap Logs(p)) \in Nat
          /\ Cardinality(Fresh(p) \cup Logs(p)) \in Nat
          /\ Cardinality(dir) \in Nat /\ Cardinality(entries[p]) \in Nat
          /\ Cardinality(Free(rank, rank[p])) \in Nat
      BY <3>2, <3>4, <3>5, SetsFinite, EntriesFinite, FS_CardinalityType
    <3> QED BY <1>1, <1>4, <3>1, <3>2, <3>5, <3>6, <3>7
  <2> QED BY <1>4, <2>1, <2>2
<1>8. Cardinality(dir') <= Limit + Cardinality(Free(rank2, 0)')
  <2>1. Free(rank2, 0)' = Free(rank, rank[p])
    BY <1>6
  <2> QED BY <1>1, <1>7, <2>1
<1>9. ASSUME NEW q \in Pruning', rank2[q] > 0
      PROVE  Cardinality(Fresh(q)') <= Cardinality(Free(rank2, rank2[q])')
  <2>1. q \in Pruning /\ q # p /\ q \in Proc
    BY <1>1 DEF Pruning
  <2>2. rank2[q] = rank[q] /\ rank[q] > rank[p] /\ rank[q] \in 0..top /\ rank[q] > 0
    BY <1>4, <1>9, <2>1
  <2>3. Fresh(q)' = Fresh(q)
    BY <1>1, <2>1 DEF Fresh, Logs, TypeOK
  <2>4. Free(rank2, rank[q])' = Free(rank, rank[q])
    BY <1>6, <2>2
  <2>5. Cardinality(Fresh(q)) <= Cardinality(Free(rank, rank[q]))
    BY <1>3, <2>1, <2>2 DEF Fits
  <2> QED BY <2>2, <2>3, <2>4, <2>5
<1>10. Fits(rank2)'
  BY <1>8, <1>9 DEF Fits
<1> QED BY <1>5, <1>10

\* A process that opens a log makes itself free, and the log is fresh to all.
LEMMA OpenBound ==
  ASSUME LogInv, LogInv', BoundInv, NEW p \in Proc, Open(p)
  PROVE  BoundInv'
<1> USE DEF LogInv
<1>1. /\ dir' = dir \cup {now'}
      /\ UNCHANGED <<listed, entries, trouble>> /\ pc[p] = "open"
      /\ \A q \in Proc : pc'[q] = IF q = p THEN "running" ELSE pc[q]
  BY DEF Open, Goto, TypeOK
<1> SUFFICES ASSUME trouble < 2
             PROVE  \E top \in Nat : \E rank \in [Proc -> 0..top] : Fits(rank)'
  BY <1>1 DEF BoundInv
<1>2. PICK top \in Nat : \E rank \in [Proc -> 0..top] : Fits(rank)
  BY DEF BoundInv
<1>3. PICK rank \in [Proc -> 0..top] : Fits(rank)
  BY <1>2
<1>4. ASSUME NEW k \in Nat
      PROVE  /\ Cardinality(Free(rank, k)') = Cardinality(Free(rank, k)) + 1
             /\ Cardinality(Free(rank, k)) \in Nat
  <2>1. Free(rank, k)' = Free(rank, k) \cup {p} /\ p \notin Free(rank, k)
    BY <1>1 DEF Free, Pruning
  <2> QED BY <2>1, SetsFinite, FS_AddElement
<1>5. ASSUME NEW S, NEW U, IsFiniteSet(S), U \subseteq S \cup {now'}
      PROVE  /\ Cardinality(U) <= Cardinality(S) + 1
             /\ Cardinality(U) \in Nat /\ Cardinality(S) \in Nat
  <2>1. /\ IsFiniteSet(S \cup {now'})
        /\ Cardinality(S \cup {now'}) = IF now' \in S THEN Cardinality(S) ELSE Cardinality(S) + 1
    BY <1>5, FS_AddElement
  <2>2. IsFiniteSet(U) /\ Cardinality(U) <= Cardinality(S \cup {now'})
    BY <1>5, <2>1, FS_Subset
  <2>3. Cardinality(U) \in Nat /\ Cardinality(S) \in Nat
    BY <1>5, <2>2, FS_CardinalityType
  <2> QED BY <2>1, <2>2, <2>3
<1>6. Cardinality(dir') <= Limit + Cardinality(Free(rank, 0)')
  <2>1. /\ Cardinality(dir') <= Cardinality(dir) + 1
        /\ Cardinality(dir') \in Nat /\ Cardinality(dir) \in Nat
    BY <1>1, <1>5, SetsFinite
  <2>2. Cardinality(dir) <= Limit + Cardinality(Free(rank, 0))
    BY <1>3 DEF Fits
  <2> QED BY <1>4, <2>1, <2>2, LogAssumption
<1>7. ASSUME NEW q \in Pruning', rank[q] > 0
      PROVE  Cardinality(Fresh(q)') <= Cardinality(Free(rank, rank[q])')
  <2>1. q \in Pruning /\ rank[q] \in Nat
    BY <1>1 DEF Pruning
  <2>2. Fresh(q)' \subseteq Fresh(q) \cup {now'}
    BY <1>1 DEF Fresh, Logs
  <2>3. /\ Cardinality(Fresh(q)') <= Cardinality(Fresh(q)) + 1
        /\ Cardinality(Fresh(q)') \in Nat /\ Cardinality(Fresh(q)) \in Nat
    BY <1>5, <2>2, SetsFinite
  <2>4. Cardinality(Fresh(q)) <= Cardinality(Free(rank, rank[q]))
    BY <1>3, <1>7, <2>1 DEF Fits
  <2> QED BY <1>4, <2>1, <2>3, <2>4
<1>8. Fits(rank)'
  BY <1>6, <1>7 DEF Fits
<1> QED BY <1>8

\* All other steps create no log and make nobody busy.
LEMMA OtherBound ==
  ASSUME LogInv, LogInv', BoundInv,
         trouble' < 2 => trouble < 2,
         dir' \subseteq dir,
         Pruning' \subseteq Pruning,
         trouble' < 2 => \A p \in Pruning' : Fresh(p)' \subseteq Fresh(p),
         \A p \in Proc : pc'[p] = "open" => pc[p] = "open"
  PROVE  BoundInv'
<1> SUFFICES ASSUME trouble' < 2
             PROVE  \E top \in Nat : \E rank \in [Proc -> 0..top] : Fits(rank)'
  BY DEF BoundInv
<1>1. PICK top \in Nat : \E rank \in [Proc -> 0..top] : Fits(rank)
  BY DEF BoundInv
<1>2. PICK rank \in [Proc -> 0..top] : Fits(rank)
  BY <1>1
<1>3. Fits(rank)'
  BY <1>2, FitsOn DEF LogInv
<1> QED BY <1>3

LEMMA StepBoundInv == LogInv /\ LogInv' /\ BoundInv /\ [Next]_vars => BoundInv'
<1> SUFFICES ASSUME LogInv, LogInv', BoundInv, [Next]_vars PROVE BoundInv'
  OBVIOUS
<1>0. trouble \in {0, 1, 2} /\ trouble' \in {0, 1, 2}
  BY DEF LogInv, TypeOK, Trouble
<1>1. ASSUME NEW p \in Proc, ListFails(p) PROVE BoundInv'
  <2>1. trouble' = 2
    BY <1>0, <1>1 DEF ListFails, Troubled
  <2> QED BY <2>1 DEF BoundInv
<1>2. ASSUME NEW p \in Proc, Look(p) PROVE BoundInv'
  <2>1. PICK f \in Log, t \in Log \cup {None} :
          /\ f \in listed[p]
          /\ Troubled(IF f \in dir /\ t = None THEN 2 ELSE 0)
          /\ listed' = [listed EXCEPT ![p] = @ \ {f}]
          /\ entries' = [entries EXCEPT ![p] = @ \cup {[log |-> f, time |-> t]}]
          /\ Goto(p, IF listed[p] = {f} THEN "prune" ELSE "look")
          /\ pc[p] = "look" /\ dir' = dir
    BY <1>2 DEF Look, IsNext, LogInv, TypeOK
  <2>2. trouble' < 2 => trouble < 2
    BY <1>0, <2>1 DEF Troubled
  <2>3. /\ Pruning' \subseteq Pruning
        /\ \A q \in Proc : pc'[q] = "open" => pc[q] = "open"
    BY <2>1 DEF Goto, Pruning, LogInv, TypeOK
  <2>4. ASSUME NEW q \in Pruning' PROVE Fresh(q)' \subseteq Fresh(q)
    <3>1. q \in Proc
      BY DEF Pruning
    <3>2. CASE q = p
      <4>1. /\ listed'[q] = listed[q] \ {f}
            /\ entries'[q] = entries[q] \cup {[log |-> f, time |-> t]}
        BY <2>1, <3>1, <3>2 DEF LogInv, TypeOK
      <4>2. Logs(q) \cup {f} \subseteq Logs(q)'
        <5>1. \E e \in entries'[q] : e.log = f
          <6>1. [log |-> f, time |-> t] \in entries'[q] /\ [log |-> f, time |-> t].log = f
            BY <4>1
          <6> QED BY <6>1
        <5> QED BY <4>1, <5>1 DEF Logs
      <4> QED BY <2>1, <4>1, <4>2 DEF Fresh
    <3>3. CASE q # p
      BY <2>1, <3>1, <3>3 DEF Fresh, Logs, LogInv, TypeOK
    <3> QED BY <3>2, <3>3
  <2> QED BY <2>1, <2>2, <2>3, <2>4, OtherBound
<1>3. ASSUME NEW p \in Proc, Prune(p) PROVE BoundInv'
  <2>1. PICK e \in Oldest(entries[p]) :
          /\ RemoveLog(e.log, 0)
          /\ entries' = [entries EXCEPT ![p] = @ \ {e}]
    BY <1>3 DEF Prune
  <2>2. UNCHANGED <<mtime, now, pc, own, listed>>
    BY <1>3 DEF Prune
  <2>3. /\ dir' \subseteq dir /\ (trouble' < 2 => trouble < 2 /\ e.log \notin dir')
    BY <1>0, <2>1 DEF RemoveLog, Troubled
  <2>4. /\ Pruning' \subseteq Pruning
        /\ \A q \in Proc : pc'[q] = "open" => pc[q] = "open"
    BY <2>2 DEF Pruning
  <2>5. ASSUME trouble' < 2, NEW q \in Pruning' PROVE Fresh(q)' \subseteq Fresh(q)
    <3>1. q \in Proc
      BY DEF Pruning
    <3>2. Logs(q) \subseteq Logs(q)' \cup {e.log}
      BY <2>1, <3>1 DEF Logs, LogInv, TypeOK
    <3> QED BY <2>2, <2>3, <2>5, <3>2 DEF Fresh
  <2> QED BY <2>3, <2>4, <2>5, OtherBound
<1>4. ASSUME NEW p \in Proc, OpenFails(p) \/ End(p) \/ WriteLine(p) PROVE BoundInv'
  <2>1. /\ dir' = dir
        /\ trouble' < 2 => trouble < 2
    BY <1>0, <1>4 DEF OpenFails, End, WriteLine, Troubled
  <2>2. /\ \A q \in Proc : pc'[q] = pc[q] \/ pc'[q] \in {"idle", "running"}
        /\ \A q \in Proc : pc'[q] # "idle" => listed'[q] = listed[q] /\ entries'[q] = entries[q]
    BY <1>4 DEF OpenFails, End, WriteLine, Goto, LogInv, TypeOK
  <2>3. /\ Pruning' \subseteq Pruning
        /\ \A q \in Proc : pc'[q] = "open" => pc[q] = "open"
        /\ \A q \in Pruning' : Fresh(q)' \subseteq Fresh(q)
    BY <2>1, <2>2 DEF Pruning, Fresh, Logs
  <2> QED BY <2>1, <2>3, OtherBound
<1>5. ASSUME NEW p \in Proc, CleanList(p) \/ Clean(p) PROVE BoundInv'
  <2>1. dir' \subseteq dir /\ entries' = entries
    BY <1>5 DEF CleanList, Clean, RemoveLog
  <2>2. trouble' < 2 => trouble < 2
    <3>1. CASE CleanList(p)
      BY <3>1 DEF CleanList
    <3>2. CASE Clean(p)
      <4>1. PICK f \in Log : trouble' = trouble \/ RemoveLog(f, 1)
        BY <3>2 DEF Clean
      <4> QED BY <1>0, <4>1 DEF RemoveLog, Troubled
    <3> QED BY <1>5, <3>1, <3>2
  <2>3. /\ \A q \in Proc : q # p => pc'[q] = pc[q] /\ listed'[q] = listed[q]
        /\ pc'[p] \in {"running", "clean"}
    BY <1>5 DEF CleanList, Clean, Goto, LogInv, TypeOK
  <2>4. /\ Pruning' \subseteq Pruning
        /\ \A q \in Proc : pc'[q] = "open" => pc[q] = "open"
        /\ \A q \in Pruning' : Fresh(q)' \subseteq Fresh(q)
    BY <2>1, <2>3 DEF Pruning, Fresh, Logs
  <2> QED BY <2>1, <2>2, <2>4, OtherBound
<1>6. ASSUME UNCHANGED vars PROVE BoundInv'
  <2>1. /\ dir' = dir /\ trouble' = trouble /\ Pruning' = Pruning /\ pc' = pc
        /\ \A q \in Pruning' : Fresh(q)' \subseteq Fresh(q)
    BY <1>6 DEF vars, Pruning, Fresh, Logs
  <2> QED BY <2>1, OtherBound
<1> QED
  BY <1>1, <1>2, <1>3, <1>4, <1>5, <1>6, ListBound, PruneDoneBound, OpenBound DEF Next

\* The directory never holds more than Limit logs and one for each process,
\* for any number of processes and any limits, whoever is killed where
\* (log.go:174-183).
THEOREM DirectoryIsBounded == Spec => []DirectoryBounded
<1>1. LogInv /\ BoundInv => DirectoryBounded
  <2> SUFFICES ASSUME TypeOK, BoundInv, trouble < 2
               PROVE  Cardinality(dir) <= Limit + Cardinality(Proc)
    BY DEF LogInv, DirectoryBounded
  <2>1. PICK top \in Nat : \E rank \in [Proc -> 0..top] : Fits(rank)
    BY DEF BoundInv
  <2>2. PICK rank \in [Proc -> 0..top] : Fits(rank)
    BY <2>1
  <2>3. Free(rank, 0) \subseteq Proc
    BY DEF Free
  <2>4. Cardinality(Free(rank, 0)) <= Cardinality(Proc)
    BY <2>3, LogAssumption, FS_Subset
  <2>5. /\ Cardinality(Proc) \in Nat /\ Cardinality(Free(rank, 0)) \in Nat
        /\ Cardinality(dir) \in Nat /\ Limit \in Nat
    BY LogAssumption, SetsFinite, FS_CardinalityType
  <2> QED BY <2>2, <2>4, <2>5 DEF Fits
<1> QED
  BY <1>1, InitBoundInv, StepBoundInv, LogInvariant, PTL DEF Spec
=============================================================================
