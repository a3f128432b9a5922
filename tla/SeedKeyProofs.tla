---------------------------- MODULE SeedKeyProofs ----------------------------
(***************************************************************************)
(* Theorems about SeedKey, for every set of processes and any number of    *)
(* seed files.                                                             *)
(***************************************************************************)
EXTENDS SeedKey, TLAPS

\* The invariant holds before a process has started.
LEMMA InitSeedInv == Init => SeedInv
<1> SUFFICES ASSUME Init PROVE SeedInv
  OBVIOUS
<1>1. TypeOK
  BY SeedAssumption DEF Init, TypeOK, Running, Seed
<1> QED
  BY <1>1 DEF Init, SeedInv, OpenedExists, SettledForTheLate, LateComersAgree

\* Return hands over one seed and moves on to the next.
LEMMA ReturnKeepsTypes ==
  ASSUME TypeOK, NEW p \in Proc, NEW b \in Bytes \cup {Empty},
         pc[p] \in Running, Return(p, b)
  PROVE  /\ pc' \in [Proc -> Running \cup {"unstarted", "dead", "ready"}]
         /\ next' \in [Proc -> 1..(Seeds + 1)]
         /\ \A q \in Proc : pc'[q] \notin {"dead", "ready"} => next'[q] \in Seed
         /\ \A q \in Proc : pc'[q] = "unstarted" => next'[q] = 1
         /\ got' \in [Proc -> [Seed -> Bytes \cup {Empty}]]
<1>1. next[p] \in Seed
  BY DEF TypeOK, Running
<1>2. next' \in [Proc -> 1..(Seeds + 1)]
  BY <1>1, SeedAssumption DEF Return, TypeOK, Seed
<1>3. \A q \in Proc : pc'[q] \notin {"dead", "ready"} => next'[q] \in Seed
  BY <1>1, SeedAssumption DEF Return, TypeOK, Seed, Running
<1>4. pc' \in [Proc -> Running \cup {"unstarted", "dead", "ready"}]
  BY DEF Return, TypeOK, Running
<1>5. got' \in [Proc -> [Seed -> Bytes \cup {Empty}]]
  BY <1>1 DEF Return, TypeOK
<1>6. \A q \in Proc : pc'[q] = "unstarted" => next'[q] = 1
  BY DEF Return, TypeOK, Running
<1> QED
  BY <1>2, <1>3, <1>4, <1>5, <1>6

\* Every step keeps the types.
LEMMA StepTypeOK == TypeOK /\ OpenedExists /\ [Next]_vars => TypeOK'
<1> SUFFICES ASSUME TypeOK, OpenedExists, [Next]_vars PROVE TypeOK'
  OBVIOUS
<1> USE SeedAssumption
<1>1. ASSUME NEW p \in Proc, Start(p) PROVE TypeOK'
  BY <1>1 DEF Start, TypeOK, Running
<1>2. ASSUME NEW p \in Proc, Stat(p) PROVE TypeOK'
  BY <1>2 DEF Stat, TypeOK, Running
<1>3. ASSUME NEW p \in Proc, Create(p) PROVE TypeOK'
  BY <1>3 DEF Create, TypeOK, Running
<1>4. ASSUME NEW p \in Proc, CreateFails(p) PROVE TypeOK'
  <2>1. pc[p] \in Running /\ Return(p, Empty)
    BY <1>4 DEF CreateFails, Running
  <2> QED
    BY <1>4, <2>1, ReturnKeepsTypes DEF CreateFails, TypeOK
<1>5. ASSUME NEW p \in Proc, Write(p) PROVE TypeOK'
  <2>1. [by |-> p, whole |-> TRUE] \in Bytes
    BY DEF Bytes
  <2>2. pc[p] \in Running /\ Return(p, [by |-> p, whole |-> TRUE])
    BY <1>5 DEF Write, Running
  <2>3. file' \in [Seed -> Bytes \cup {Absent, Empty}]
    BY <1>5, <2>1 DEF Write, TypeOK
  <2> QED
    BY <1>5, <2>1, <2>2, <2>3, ReturnKeepsTypes DEF Write, TypeOK
<1>6. ASSUME NEW p \in Proc, WriteFails(p) PROVE TypeOK'
  <2>1. [by |-> p, whole |-> FALSE] \in Bytes
    BY DEF Bytes
  <2>2. pc[p] \in Running /\ Return(p, Empty)
    BY <1>6 DEF WriteFails, Running
  <2>3. file' \in [Seed -> Bytes \cup {Absent, Empty}]
    BY <1>6, <2>1 DEF WriteFails, TypeOK
  <2> QED
    BY <1>6, <2>2, <2>3, ReturnKeepsTypes DEF WriteFails, TypeOK
<1>7. ASSUME NEW p \in Proc, Open(p) PROVE TypeOK'
  <2>1. file[next[p]] \in Bytes \cup {Empty}
    BY <1>7 DEF Open, OpenedExists, TypeOK
  <2>2. pc[p] \in Running /\ Return(p, file[next[p]])
    BY <1>7 DEF Open, Running
  <2> QED
    BY <1>7, <2>1, <2>2, ReturnKeepsTypes DEF Open, TypeOK
<1>8. ASSUME NEW p \in Proc, OpenFails(p) PROVE TypeOK'
  <2>1. pc[p] \in Running /\ Return(p, Empty)
    BY <1>8 DEF OpenFails, Running
  <2> QED
    BY <1>8, <2>1, ReturnKeepsTypes DEF OpenFails, TypeOK
<1>9. ASSUME NEW p \in Proc, Crash(p) PROVE TypeOK'
  BY <1>9 DEF Crash, TypeOK, Running
<1>10. CASE UNCHANGED vars
  BY <1>10 DEF vars, TypeOK
<1> QED
  BY <1>1, <1>2, <1>3, <1>4, <1>5, <1>6, <1>7, <1>8, <1>9, <1>10 DEF Next, Step

\* Files are only created, never removed; and a process that opens or writes
\* one has seen it, or has created it.
LEMMA StepOpenedExists == TypeOK /\ OpenedExists /\ [Next]_vars => OpenedExists'
<1> SUFFICES ASSUME TypeOK, OpenedExists, [Next]_vars,
                    NEW q \in Proc, pc'[q] \in {"write", "open"}
             PROVE  file'[next'[q]] # Absent
  BY DEF OpenedExists
<1> USE SeedAssumption DEF OpenedExists, TypeOK
<1>1. ASSUME NEW s \in Seed, file[s] # Absent PROVE file'[s] # Absent
  <2>1. ASSUME NEW p \in Proc, Create(p) \/ Write(p) \/ WriteFails(p)
        PROVE  file'[s] # Absent
    <3>1. [by |-> p, whole |-> TRUE] \in Bytes /\ [by |-> p, whole |-> FALSE] \in Bytes
      BY DEF Bytes
    <3> QED
      BY <1>1, <2>1, <3>1 DEF Create, Write, WriteFails
  <2> QED
    BY <1>1, <2>1
       DEF Next, Step, Start, Stat, CreateFails, Open, OpenFails, Crash, vars
<1>2. CASE pc'[q] = pc[q] /\ next'[q] = next[q]
  <2>1. next[q] \in Seed /\ file[next[q]] # Absent
    BY <1>2
  <2> QED
    BY <1>1, <1>2, <2>1
<1>3. ASSUME Stat(q) PROVE file'[next'[q]] # Absent
  BY <1>3 DEF Stat
<1>4. ASSUME Create(q) PROVE file'[next'[q]] # Absent
  <2>1. next[q] \in Seed
    BY <1>4 DEF Create
  <2> QED
    BY <1>4, <2>1 DEF Create
<1>5. \/ pc'[q] = pc[q] /\ next'[q] = next[q]
      \/ Stat(q)
      \/ Create(q)
  BY DEF Next, Step, Start, Stat, Create, CreateFails, Write, WriteFails, Open,
         OpenFails, Crash, Return, vars
<1> QED
  BY <1>2, <1>3, <1>4, <1>5

\* Settled is stable, and nobody writes a file while it holds.
LEMMA SettledStays ==
  TypeOK /\ Settled /\ [Next]_vars => Settled' /\ file' = file
<1> SUFFICES ASSUME TypeOK, Settled, [Next]_vars
             PROVE  Settled' /\ file' = file
  OBVIOUS
<1> USE SeedAssumption DEF TypeOK
<1>1. \A p \in Proc : pc[p] \notin {"create", "write"}
  BY DEF Settled, Creating
<1>2. file' = file
  BY <1>1 DEF Next, Step, Start, Stat, Create, CreateFails, Write, WriteFails, Open,
              OpenFails, Crash, vars
<1>3. ASSUME NEW p \in Proc PROVE pc'[p] \notin {"create", "write"}
  <2>1. ASSUME Stat(p) PROVE pc'[p] \notin {"create", "write"}
    <3>1. next[p] \in Seed
      BY <2>1 DEF Stat
    <3> QED
      BY <2>1, <3>1 DEF Stat, Settled
  <2> QED
    BY <1>1, <2>1 DEF Next, Step, Start, Stat, Create, CreateFails, Write, WriteFails,
                      Open, OpenFails, Crash, Return, vars
<1> QED
  BY <1>2, <1>3 DEF Settled, Creating

\* What late processes took stays what the files hold.
LEMMA StepLate ==
  /\ TypeOK /\ OpenedExists /\ SettledForTheLate /\ LateComersAgree
  /\ [Next]_vars
  => SettledForTheLate' /\ LateComersAgree'
<1> SUFFICES ASSUME TypeOK, OpenedExists, SettledForTheLate, LateComersAgree,
                    [Next]_vars
             PROVE  SettledForTheLate' /\ LateComersAgree'
  OBVIOUS
<1> USE SeedAssumption DEF TypeOK
<1>1. late' # {} => Settled
  BY DEF SettledForTheLate, Next, Step, Start, Stat, Create, CreateFails, Write,
         WriteFails, Open, OpenFails, Crash, vars
<1>2. SettledForTheLate'
  BY <1>1, SettledStays DEF SettledForTheLate
<1>3. ASSUME NEW p \in late', NEW s \in Seed, next'[p] > s
      PROVE  got'[p][s] = file'[s] \/ got'[p][s] = Empty
  <2>1. Settled /\ file' = file
    BY <1>1, <1>3, SettledStays
  <2>2. p \in Proc /\ pc[p] \notin {"create", "write"}
    <3>1. p \in Proc
      BY <1>3 DEF Next, Step, Start, Stat, Create, CreateFails, Write, WriteFails, Open,
                  OpenFails, Crash, vars
    <3>2. pc[p] \in {"create", "write"} => next[p] \in Seed
      BY <3>1
    <3> QED
      BY <2>1, <3>1, <3>2 DEF Settled, Creating
  <2>3. CASE p \notin late
    <3>1. Start(p)
      BY <2>3, <1>3 DEF Next, Step, Start, Stat, Create, CreateFails, Write, WriteFails,
                        Open, OpenFails, Crash, vars
    <3>2. next'[p] = 1
      BY <2>2, <3>1 DEF Start
    <3> QED
      BY <1>3, <3>2 DEF Seed
  <2>4. CASE p \in late /\ next'[p] = next[p] /\ got'[p] = got[p]
    BY <1>3, <2>1, <2>4 DEF LateComersAgree
  <2>5. CASE p \in late /\ (Open(p) \/ OpenFails(p))
    <3>1. next[p] \in Seed
      BY <2>2, <2>5 DEF Open, OpenFails
    <3>2. CASE s = next[p]
      BY <2>1, <2>2, <2>5, <3>1, <3>2 DEF Open, OpenFails, Return
    <3>3. CASE s # next[p]
      <4>1. next[p] > s /\ got'[p][s] = got[p][s]
        BY <1>3, <2>2, <2>5, <3>1, <3>3 DEF Open, OpenFails, Return, Seed
      <4> QED
        BY <2>1, <2>5, <4>1 DEF LateComersAgree
    <3> QED
      BY <3>2, <3>3
  <2>6. \/ p \notin late
        \/ next'[p] = next[p] /\ got'[p] = got[p]
        \/ Open(p) \/ OpenFails(p)
    BY <2>2 DEF Next, Step, Start, Stat, Create, CreateFails, Write, WriteFails,
                Open, OpenFails, Crash, Return, vars
  <2> QED
    BY <2>3, <2>4, <2>5, <2>6
<1> QED
  BY <1>2, <1>3 DEF LateComersAgree

\* SeedInv holds in every reachable state: the seed files and what the
\* processes took from them agree as getSeed leaves them (storage.go:369-403).
THEOREM SeedInvariant == Spec => []SeedInv
<1>1. SeedInv /\ [Next]_vars => SeedInv'
  BY StepTypeOK, StepOpenedExists, StepLate DEF SeedInv
<1> QED
  BY <1>1, InitSeedInv, PTL DEF Spec

\* Every variable keeps its type; in particular getSeed never returns what an
\* absent file holds (storage.go:393-402).
THEOREM SeedTypes == Spec => []TypeOK
<1>1. SeedInv => TypeOK
  BY DEF SeedInv
<1> QED
  BY <1>1, SeedInvariant, PTL

\* Once the creation race is over it stays over and the seeds never change,
\* for any number of processes (storage.go:376).
THEOREM SeedsSettle == Spec => SettledForever
<1>1. SeedInv /\ [Next]_vars => [Settled => Settled' /\ file' = file]_vars
  BY SettledStays DEF SeedInv
<1> QED
  BY <1>1, SeedInvariant, PTL DEF Spec, SettledForever

\* All processes that start after the race, and meet no error, have one key.
THEOREM OneKeyForLateComers == Spec => []LateComersAgree
<1>1. SeedInv => LateComersAgree
  BY DEF SeedInv
<1> QED
  BY <1>1, SeedInvariant, PTL
=============================================================================
