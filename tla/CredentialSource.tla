-------------------------- MODULE CredentialSource --------------------------
(***************************************************************************)
(* What utils.ReadCacheWithEncryptionCallback promises its callers,        *)
(* whatever the other processes do to the file in the meantime: a call     *)
(* ends with a content issued since the call began, or with an older one   *)
(* that is still valid when it is handed over, or with an error.  A call   *)
(* with ForceNew gets nothing but the former.  ReadThroughCache implements *)
(* this specification.                                                     *)
(***************************************************************************)
EXTENDS Integers

CONSTANTS
  Proc,          \* the callers
  Content,       \* what can be handed over: records with fields at and exp
  Margin,        \* time an old content must have left
  AllowExpired,  \* or need not
  Nothing        \* the empty string

VARIABLES clock, state, force, since, given

vars == <<clock, state, force, since, given>>

Init ==
  /\ clock = 0
  /\ state = [p \in Proc |-> "idle"]
  /\ force = [p \in Proc |-> FALSE]
  /\ since = [p \in Proc |-> 0]
  /\ given = [p \in Proc |-> Nothing]

Ask(p, f) ==
  /\ state[p] # "waiting"
  /\ state' = [state EXCEPT ![p] = "waiting"]
  /\ force' = [force EXCEPT ![p] = f]
  /\ since' = [since EXCEPT ![p] = clock]
  /\ given' = [given EXCEPT ![p] = Nothing]
  /\ UNCHANGED clock

IssuedForThisCall(p, c) == c.at >= since[p]

StillValid(c) == AllowExpired \/ c.exp - clock > Margin

\* A content is handed over: issued for this call, or older and still valid.
Give(p, c) ==
  /\ state[p] = "waiting"
  /\ state' = [state EXCEPT ![p] = "answered"]
  /\ given' = [given EXCEPT ![p] = c]
  /\ c.at <= clock
  /\ IssuedForThisCall(p, c) \/ (~force[p] /\ StillValid(c))
  /\ UNCHANGED <<clock, force, since>>

\* Success with an empty string: what a nil error from errors.Wrapf means.
\* Only a call without ForceNew can come to this.
GiveNothing(p) ==
  /\ state[p] = "waiting"
  /\ ~force[p]
  /\ state' = [state EXCEPT ![p] = "answered"]
  /\ UNCHANGED <<clock, force, since, given>>

\* An error, or the end of the process.
GiveUp(p, s) ==
  /\ state[p] = "waiting"
  /\ state' = [state EXCEPT ![p] = s]
  /\ UNCHANGED <<clock, force, since, given>>

Tick ==
  /\ clock' = clock + 1
  /\ UNCHANGED <<state, force, since, given>>

Next ==
  \/ \E p \in Proc :
       \/ \E f \in BOOLEAN : Ask(p, f)
       \/ \E c \in Content : Give(p, c)
       \/ GiveNothing(p)
       \/ \E s \in {"idle", "refused"} : GiveUp(p, s)
  \/ Tick

Spec == Init /\ [][Next]_vars
=============================================================================
