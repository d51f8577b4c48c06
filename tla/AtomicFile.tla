------------------------------ MODULE AtomicFile ------------------------------
(***************************************************************************)
(* What SnapshotStore promises of one artifact: a single value that a      *)
(* write replaces in one step, that a read takes in one step, and that     *)
(* falls back to an earlier value, if at all, only when the power is lost. *)
(***************************************************************************)
CONSTANTS Readers, Payloads

VARIABLES value,     \* the artifact: NoValue before the first write
          kept,      \* the values a power loss may leave
          held       \* [Readers -> what its open read has got, if any]

fileVars == <<value, kept, held>>

NoValue == "none"
Nothing == "nothing held"

FileInit ==
  /\ value \in Payloads \cup {NoValue}
  /\ kept = {value}
  /\ held = [r \in Readers |-> Nothing]

Put(p) ==
  /\ value' = p
  /\ kept' = kept \cup {p}
  /\ UNCHANGED held

\* A read that has seen the artifact gets a value of it.
Get(r) ==
  /\ held[r] = Nothing
  /\ value # NoValue
  /\ held' = [held EXCEPT ![r] = value]
  /\ UNCHANGED <<value, kept>>

Release(r) ==
  /\ held' = [held EXCEPT ![r] = Nothing]
  /\ UNCHANGED <<value, kept>>

\* The directory has reached the disk.
Keep ==
  /\ kept' = {value}
  /\ UNCHANGED <<value, held>>

LosePower ==
  /\ value' \in kept
  /\ kept' = {value'}
  /\ held' = [r \in Readers |-> Nothing]

FileNext ==
  \/ \E p \in Payloads : Put(p)
  \/ \E r \in Readers : Get(r) \/ Release(r)
  \/ Keep
  \/ LosePower

FileSpec == FileInit /\ [][FileNext]_fileVars
=============================================================================
