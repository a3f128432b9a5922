------------------------------- MODULE SeedKey -------------------------------
(***************************************************************************)
(* getEncryptionKey: the key of every cache file is made from seed files   *)
(* in the home directory, which the first process to look for one creates. *)
(* A process is one run of the CLI; sync.Once makes it derive the key once *)
(* and keep it.  Nothing orders the processes that start together.         *)
(***************************************************************************)
EXTENDS Naturals

CONSTANTS
  Proc,    \* runs of the CLI: each derives the key once
  Seeds,   \* how many seed files there are, read in order (2)
  Absent,  \* no file
  Empty    \* an empty file; and the seed of a process that got an error

\* What a seed file can hold: the random bytes of one process, all or cut.
Bytes == [by : Proc, whole : BOOLEAN]

ASSUME SeedAssumption ==
  /\ Seeds \in Nat \ {0}
  /\ Absent \notin Bytes
  /\ Empty \notin Bytes
  /\ Absent # Empty

VARIABLES
  file,  \* what each seed file holds
  pc,    \* where getSeed is, in each process
  next,  \* the seed file it is about
  got,   \* the seeds a process has, which make its key
  late   \* history: the processes that started when the files were settled

vars == <<file, pc, next, got, late>>

Seed == 1..Seeds
Running == {"stat", "create", "write", "open"}

\* The type invariant.
TypeOK ==
  /\ file \in [Seed -> Bytes \cup {Absent, Empty}]
  /\ pc \in [Proc -> Running \cup {"unstarted", "dead", "ready"}]
  /\ next \in [Proc -> 1..(Seeds + 1)]
  /\ \A p \in Proc : pc[p] \notin {"dead", "ready"} => next[p] \in Seed
  /\ \A p \in Proc : pc[p] = "unstarted" => next[p] = 1
  /\ got \in [Proc -> [Seed -> Bytes \cup {Empty}]]
  /\ late \subseteq Proc

-----------------------------------------------------------------------------
Init ==
  /\ file = [s \in Seed |-> Absent]
  /\ pc = [p \in Proc |-> "unstarted"]
  /\ next = [p \in Proc |-> 1]
  /\ got = [p \in Proc |-> [s \in Seed |-> Empty]]
  /\ late = {}

\* A process that has found s missing and has not written it yet.
Creating(p, s) == pc[p] \in {"create", "write"} /\ next[p] = s

\* All seed files exist, and nobody is about to write one.
Settled ==
  \A s \in Seed : file[s] # Absent /\ \A p \in Proc : ~Creating(p, s)

\* A process needs the key for the first time.
Start(p) ==
  /\ pc[p] = "unstarted"
  /\ pc' = [pc EXCEPT ![p] = "stat"]
  /\ late' = IF Settled THEN late \cup {p} ELSE late
  /\ UNCHANGED <<file, next, got>>

\* getSeed returns b; the next one is called, or the key is made.
Return(p, b) ==
  /\ got' = [got EXCEPT ![p][next[p]] = b]
  /\ next' = [next EXCEPT ![p] = @ + 1]
  /\ pc' = [pc EXCEPT ![p] = IF next[p] = Seeds THEN "ready" ELSE "stat"]

\* Slips: the file is not looked for first; an empty one is taken for missing.
StatSkipped(p) ==
  /\ pc[p] = "stat"
  /\ pc' = [pc EXCEPT ![p] = "open"]
  /\ UNCHANGED <<file, next, got, late>>

StatEmptyMissing(p) ==
  /\ pc[p] = "stat"
  /\ pc' = [pc EXCEPT ![p] = IF file[next[p]] \in {Absent, Empty} THEN "create" ELSE "open"]
  /\ UNCHANGED <<file, next, got, late>>

\* os.Stat
Stat(p) ==
  /\ pc[p] = "stat"
  /\ pc' = [pc EXCEPT ![p] = IF file[next[p]] = Absent THEN "create" ELSE "open"]
  /\ UNCHANGED <<file, next, got, late>>

\* os.Create truncates the file, whoever made it.
Create(p) ==
  /\ pc[p] = "create"
  /\ pc' = [pc EXCEPT ![p] = "write"]
  /\ file' = [file EXCEPT ![next[p]] = Empty]
  /\ UNCHANGED <<next, got, late>>

CreateFails(p) ==
  /\ pc[p] = "create"
  /\ Return(p, Empty)
  /\ UNCHANGED <<file, late>>

\* All seeds have one length: of several writers the last one's bytes stay.
Write(p) ==
  /\ pc[p] = "write"
  /\ file' = [file EXCEPT ![next[p]] = [by |-> p, whole |-> TRUE]]
  /\ Return(p, [by |-> p, whole |-> TRUE])
  /\ UNCHANGED late

\* No randomness, or a write that stores nothing or not all.
WriteFails(p) ==
  /\ pc[p] = "write"
  /\ \/ UNCHANGED file
     \/ file' = [file EXCEPT ![next[p]] = [by |-> p, whole |-> FALSE]]
  /\ Return(p, Empty)
  /\ UNCHANGED late

\* os.Open and io.ReadAll
Open(p) ==
  /\ pc[p] = "open"
  /\ Return(p, file[next[p]])
  /\ UNCHANGED <<file, late>>

\* A slip: a seed that cannot be read is made anew.
OpenFailsCreating(p) ==
  /\ pc[p] = "open"
  /\ pc' = [pc EXCEPT ![p] = "create"]
  /\ UNCHANGED <<file, next, got, late>>

OpenFails(p) ==
  /\ pc[p] = "open"
  /\ Return(p, Empty)
  /\ UNCHANGED <<file, late>>

Crash(p) ==
  /\ pc[p] \in Running
  /\ pc' = [pc EXCEPT ![p] = "dead"]
  /\ UNCHANGED <<file, next, got, late>>

Step(p) ==
  \/ Stat(p) \/ Create(p) \/ CreateFails(p) \/ Write(p) \/ WriteFails(p)
  \/ Open(p) \/ OpenFails(p)

Next == \E p \in Proc : Start(p) \/ Step(p) \/ Crash(p)

Spec == Init /\ [][Next]_vars

-----------------------------------------------------------------------------
\* What keeps the properties: a file that is being opened or written exists,
\* and once a process has started late, nobody creates a file any more.
OpenedExists ==
  \A p \in Proc : pc[p] \in {"write", "open"} => file[next[p]] # Absent

SettledForTheLate ==
  late # {} => Settled

\* However the first processes raced, once the files exist and nobody is
\* creating one, nobody ever will, and the seeds never change: what the cache
\* holds stays readable (storage.go:376).
SettledForever ==
  [][Settled => Settled' /\ file' = file]_vars

\* A process that starts after that derives its key from the files as they
\* are, but for seeds it failed to read: two such processes that met no error
\* have one key.  Only processes that raced to create the files can be left
\* with a key of their own (storage.go:277-289, 376-391).
LateComersAgree ==
  \A p \in late : \A s \in Seed :
    next[p] > s => got[p][s] = file[s] \/ got[p][s] = Empty

SeedInv == TypeOK /\ OpenedExists /\ SettledForTheLate /\ LateComersAgree
=============================================================================
