------------------------------ MODULE LogFiles ------------------------------
(***************************************************************************)
(* idaaslog: every process opens a log of its own in one directory, and    *)
(* prunes the directory first if it holds too many; clean-cache empties    *)
(* it.  Every change of a file has its own stamp, and a log is named after *)
(* the stamp of its creation.                                              *)
(***************************************************************************)
EXTENDS Naturals, FiniteSets

CONSTANTS
  Proc,      \* the processes; each runs again and again
  Limit,     \* entries above which the directory is pruned: 110
  Keep,      \* logs that pruning leaves: 100
  Others,    \* entries of the directory that are not logs
  MaxStamp   \* bound: changes of files

ASSUME LogAssumption ==
  /\ IsFiniteSet(Proc) /\ Proc # {}
  /\ Limit \in Nat /\ Keep \in 1..Limit /\ Others \in Nat
  /\ MaxStamp \in Nat /\ Limit < MaxStamp

Log == 1..MaxStamp
None == 0   \* no log, no time

VARIABLES
  dir,      \* the logs in the directory
  mtime,    \* the last change of each log, of the removed ones too
  now,      \* the last stamp given
  pc,       \* where each process is
  own,      \* its log
  listed,   \* of the entries it read, those it has not yet looked at
  entries,  \* those it has looked at, with the times it saw
  trouble   \* history: the worst that has happened so far

vars == <<dir, mtime, now, pc, own, listed, entries, trouble>>

\* 0: processes start, prune, log and die.
\* 1: also a log is written while someone prunes, and clean-cache runs.
\* 2: the directory cannot be read or a log in it be inspected or removed.
Trouble == 0..2

Troubled(k) == trouble' = IF trouble < k THEN k ELSE trouble

Entry == [log : Log, time : Log \cup {None}]

\* The type invariant: a loop over the entries is left when all are done.
TypeOK ==
  /\ dir \subseteq {f \in Log : mtime[f] # None}
  /\ mtime \in [Log -> Log \cup {None}]
  /\ now \in Log \cup {None}
  /\ pc \in [Proc -> {"idle", "look", "prune", "open", "running", "clean"}]
  /\ own \in [Proc -> Log \cup {None}]
  /\ listed \in [Proc -> SUBSET Log]
  /\ entries \in [Proc -> SUBSET Entry]
  /\ trouble \in Trouble
  /\ \A p \in Proc :
       /\ listed[p] # {} => pc[p] \in {"look", "clean"}
       /\ entries[p] # {} => pc[p] \in {"look", "prune"}

-----------------------------------------------------------------------------
\* The directory as runs one after the other leave it.
Init ==
  /\ \E n \in 0..(Limit + 1) :
       /\ dir = 1..n
       /\ now = n
       /\ mtime = [f \in Log |-> IF f <= n THEN f ELSE None]
  /\ pc = [p \in Proc |-> "idle"]
  /\ own = [p \in Proc |-> None]
  /\ listed = [p \in Proc |-> {}]
  /\ entries = [p \in Proc |-> {}]
  /\ trouble = 0

Goto(p, l) == pc' = [pc EXCEPT ![p] = l]

\* InitLog reads the directory, and prunes it if there are too many entries.
ListAbove(p, limit) ==
  /\ pc[p] = "idle"
  /\ IF Cardinality(dir) + Others > limit
       THEN Goto(p, "look") /\ listed' = [listed EXCEPT ![p] = dir]
       ELSE Goto(p, "open") /\ UNCHANGED listed
  /\ UNCHANGED <<dir, mtime, now, own, entries, trouble>>

\* A slip: the limit is what is allowed beyond the first.
ListLate(p) == ListAbove(p, Limit + 1)

List(p) == ListAbove(p, Limit)

\* The directory cannot be read: a log is opened all the same.
ListFails(p) ==
  /\ pc[p] = "idle"
  /\ Goto(p, "open")
  /\ Troubled(2)
  /\ UNCHANGED <<dir, mtime, now, own, listed, entries>>

\* The entries come sorted by name, and a name begins with the time.
IsNext(f, p) == f \in listed[p] /\ \A g \in listed[p] : f <= g

\* clearLogFiles inspects one entry after the other; one that is gone
\* meanwhile is kept in the list, with an error for a time.
Look(p) ==
  /\ pc[p] = "look"
  /\ \E f \in Log :
       /\ IsNext(f, p)
       /\ listed' = [listed EXCEPT ![p] = @ \ {f}]
       /\ \E t \in {mtime[f], None} :
            /\ f \notin dir => t = None
            /\ Troubled(IF f \in dir /\ t = None THEN 2 ELSE 0)
            /\ entries' = [entries EXCEPT ![p] = @ \cup {[log |-> f, time |-> t]}]
       /\ Goto(p, IF listed[p] = {f} THEN "prune" ELSE "look")
  /\ UNCHANGED <<dir, mtime, now, own>>

\* A slip: entries with an error are sorted to the end.
OldestErrorsLast(es) ==
  {e \in es : \A d \in es : d.time # None =>
                              e.time # None /\ e.time <= d.time}

\* Those that may come first in the sorted list: errors, else the oldest.
Oldest(es) ==
  {e \in es : \A d \in es : e.time <= d.time}

\* os.Remove, an error of which is ignored.
RemoveLog(f, k) ==
  \/ dir' = dir \ {f} /\ Troubled(IF f \in dir THEN k ELSE 0)
  \/ f \in dir /\ dir' = dir /\ Troubled(2)

Prune(p) ==
  /\ pc[p] = "prune"
  /\ Cardinality(entries[p]) > Keep
  /\ \E e \in Oldest(entries[p]) :
       /\ RemoveLog(e.log, 0)
       /\ entries' = [entries EXCEPT ![p] = @ \ {e}]
  /\ UNCHANGED <<mtime, now, pc, own, listed>>

PruneDone(p) ==
  /\ pc[p] = "prune"
  /\ Cardinality(entries[p]) <= Keep
  /\ Goto(p, "open")
  /\ entries' = [entries EXCEPT ![p] = {}]
  /\ UNCHANGED <<dir, mtime, now, own, listed, trouble>>

-----------------------------------------------------------------------------
\* openNewLogFile
Open(p) ==
  /\ pc[p] = "open"
  /\ now < MaxStamp
  /\ now' = now + 1
  /\ dir' = dir \cup {now'}
  /\ mtime' = [mtime EXCEPT ![now'] = now']
  /\ own' = [own EXCEPT ![p] = now']
  /\ Goto(p, "running")
  /\ UNCHANGED <<listed, entries, trouble>>

\* No home directory, or the log cannot be opened: the process runs without.
OpenFails(p) ==
  /\ pc[p] = "open"
  /\ Goto(p, "running")
  /\ UNCHANGED <<dir, mtime, now, own, listed, entries, trouble>>

\* A line is written to a log that is still in the directory.
WriteLine(p) ==
  /\ pc[p] \in {"running", "clean"}
  /\ own[p] \in dir
  /\ now < MaxStamp
  /\ now' = now + 1
  /\ mtime' = [mtime EXCEPT ![own[p]] = now']
  /\ Troubled(IF \E q \in Proc : pc[q] \in {"look", "prune"} THEN 1 ELSE 0)
  /\ UNCHANGED <<dir, pc, own, listed, entries>>

\* The process ends or is killed.
End(p) ==
  /\ pc[p] # "idle"
  /\ Goto(p, "idle")
  /\ own' = [own EXCEPT ![p] = None]
  /\ listed' = [listed EXCEPT ![p] = {}]
  /\ entries' = [entries EXCEPT ![p] = {}]
  /\ UNCHANGED <<dir, mtime, now, trouble>>

-----------------------------------------------------------------------------
(* clean-cache.  File names are sequences of their parts. *)

Name(f) == <<f>>
Path(f) == <<"log", f>>

\* logFile.Name() is the path that the log was opened with.
IsCurrentLog(p, filename) ==
  own[p] # None /\ filename = Path(own[p])

\* deleteFiles reads the directory; if it cannot, there is nothing to delete.
CleanList(p) ==
  /\ pc[p] = "running"
  /\ dir # {}
  /\ Goto(p, "clean")
  /\ listed' = [listed EXCEPT ![p] = dir]
  /\ UNCHANGED <<dir, mtime, now, own, entries, trouble>>

\* A slip: the loop is left at the first file.
CleanFirst(p) ==
  /\ pc[p] = "clean"
  /\ \E f \in Log :
       /\ IsNext(f, p)
       /\ IF IsCurrentLog(p, Name(f)) THEN UNCHANGED <<dir, trouble>>
                                      ELSE RemoveLog(f, 1)
       /\ listed' = [listed EXCEPT ![p] = @ \ {f}]
       /\ Goto(p, "running")
  /\ UNCHANGED <<mtime, now, own, entries>>

\* It passes the name of each entry to IsCurrentLog.
Clean(p) ==
  /\ pc[p] = "clean"
  /\ \E f \in Log :
       /\ IsNext(f, p)
       /\ IF IsCurrentLog(p, Name(f)) THEN UNCHANGED <<dir, trouble>>
                                      ELSE RemoveLog(f, 1)
       /\ listed' = [listed EXCEPT ![p] = @ \ {f}]
       /\ Goto(p, IF listed[p] = {f} THEN "running" ELSE "clean")
  /\ UNCHANGED <<mtime, now, own, entries>>

Next ==
  \E p \in Proc :
    \/ List(p) \/ ListFails(p) \/ Look(p) \/ Prune(p) \/ PruneDone(p)
    \/ Open(p) \/ OpenFails(p) \/ WriteLine(p) \/ End(p)
    \/ CleanList(p) \/ Clean(p)

Spec == Init /\ [][Next]_vars

-----------------------------------------------------------------------------
\* However many processes prune at the same time, from listings of different
\* age, together they spare the newest logs: one that is missing has had Keep
\* newer ones, as long as no log that a pruning process may have looked at is
\* written meanwhile (log.go:185-216).
NewestKept ==
  trouble = 0 =>
    \A f \in Log \ dir :
      mtime[f] # None => Cardinality({g \in Log : mtime[g] > mtime[f]}) >= Keep

\* The directory does not grow beyond the limit by more than one log for every
\* process, whoever is killed between listing, pruning and opening
\* (log.go:174-183).
DirectoryBounded ==
  trouble < 2 => Cardinality(dir) <= Limit + Cardinality(Proc)

\* clean-cache spares the log of the process that runs it
\* (clean_cache/command.go:34-36).
CurrentLogKept ==
  [][\A p \in Proc : Clean(p) /\ own[p] \in dir => own[p] \in dir']_vars
=============================================================================
