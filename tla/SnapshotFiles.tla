---------------------------- MODULE SnapshotFiles ----------------------------
(***************************************************************************)
(* One artifact of SnapshotStore below the level of Server: write_snapshot *)
(* fills a temporary file, syncs it and renames it over the final one,     *)
(* while other processes on the same volume read or write the artifact.    *)
(* Writes can fail, processes can be killed and the machine can lose power.*)
(*                                                                         *)
(* An open file keeps what it was opened on, so a reader copies the file.  *)
(* The rename is not synced: after a power loss the artifact is one of the *)
(* files it has been since its directory last reached the disk.            *)
(***************************************************************************)
EXTENDS Integers

CONSTANTS Writers, Readers,   \* processes
          Payloads,
          MaxFaults           \* bound on failed writes, kills and power losses

ASSUME FaultsAssumption == MaxFaults \in Nat
\* "none" stands for the absent artifact.
ASSUME PayloadsAssumption == "none" \notin Payloads

VARIABLES final,      \* the artifact
          settled,    \* what the artifact may be after a power loss
          writer,     \* [Writers -> WriterState]
          reader,     \* [Readers -> ReaderState]
          faults

vars == <<final, settled, writer, reader, faults>>

\* whole: the complete text has been written; synced: it is on the disk.
File == [payload : Payloads, whole : BOOLEAN, synced : BOOLEAN]
Absent == [payload |-> "none", whole |-> FALSE, synced |-> TRUE]
Content == File \cup {Absent}

WriterState == [pc : {"idle", "created", "written", "synced"}, temp : Content]
IdleWriter == [pc |-> "idle", temp |-> Absent]

ReaderState == [pc : {"idle", "checked", "opened", "failed"}, file : Content]
IdleReader == [pc |-> "idle", file |-> Absent]

\* Faulty variants: no fsync before the rename; the text goes to the final
\* file.
SkipSync(w) ==
  /\ writer' = [writer EXCEPT ![w].pc = "synced"]
  /\ UNCHANGED <<final, settled>>
CreateInPlace(w, p) ==
  /\ writer' = [writer EXCEPT ![w] =
       [pc |-> "created", temp |-> [payload |-> p, whole |-> FALSE, synced |-> FALSE]]]
  /\ final' = [payload |-> p, whole |-> FALSE, synced |-> FALSE]
  /\ UNCHANGED settled
-----------------------------------------------------------------------------
Init ==
  /\ final \in {Absent} \cup [payload : Payloads, whole : {TRUE}, synced : {TRUE}]
  /\ settled = {final}
  /\ writer = [w \in Writers |-> IdleWriter]
  /\ reader = [r \in Readers |-> IdleReader]
  /\ faults = 0

\* mkstemp: an empty file of a new name beside the final one.
Create(w, p) ==
  /\ writer' = [writer EXCEPT ![w] =
       [pc |-> "created", temp |-> [payload |-> p, whole |-> FALSE, synced |-> FALSE]]]
  /\ UNCHANGED <<final, settled>>

Fill(w) ==
  /\ writer' = [writer EXCEPT ![w] =
       [pc |-> "written", temp |-> [writer[w].temp EXCEPT !.whole = TRUE]]]
  /\ UNCHANGED <<final, settled>>

\* flush and fsync
Sync(w) ==
  /\ writer' = [writer EXCEPT ![w] =
       [pc |-> "synced", temp |-> [writer[w].temp EXCEPT !.synced = TRUE]]]
  /\ UNCHANGED <<final, settled>>

\* os.replace
Replace(w) ==
  /\ final' = writer[w].temp
  /\ settled' = settled \cup {writer[w].temp}
  /\ writer' = [writer EXCEPT ![w] = IdleWriter]

Write(w) ==
  /\ \/ writer[w].pc = "idle" /\ \E p \in Payloads : Create(w, p)
     \/ writer[w].pc = "created" /\ Fill(w)
     \/ writer[w].pc = "written" /\ Sync(w)
     \/ writer[w].pc = "synced" /\ Replace(w)
  /\ UNCHANGED <<reader, faults>>

Fault == faults < MaxFaults /\ faults' = faults + 1

\* A write that fails unlinks its temporary file; one that is killed, or
\* interrupted from the keyboard, leaves it behind under a name nobody reads.
WriteEnds(w) ==
  /\ Fault
  /\ writer[w].pc # "idle"
  /\ writer' = [writer EXCEPT ![w] = IdleWriter]
  /\ UNCHANGED <<final, settled, reader>>

\* The directory reaches the disk.
Settle ==
  /\ settled' = {final}
  /\ UNCHANGED <<final, writer, reader, faults>>

\* Text that was not synced may be lost with the power.
PowerLoss ==
  /\ Fault
  /\ \E file \in settled :
       final' = IF file.synced THEN file
                ELSE [file EXCEPT !.whole = FALSE, !.synced = TRUE]
  /\ settled' = {final'}
  /\ writer' = [w \in Writers |-> IdleWriter]
  /\ reader' = [r \in Readers |-> IdleReader]

\* is_file
CheckFile(r) ==
  /\ reader[r].pc = "idle"
  /\ final # Absent
  /\ reader' = [reader EXCEPT ![r].pc = "checked"]

\* read_text opens the file that is there now, and fails when there is none.
OpenFile(r) ==
  /\ reader[r].pc = "checked"
  /\ reader' = [reader EXCEPT ![r] =
                  [pc |-> IF final = Absent THEN "failed" ELSE "opened",
                   file |-> final]]

CloseFile(r) ==
  /\ reader[r].pc \in {"opened", "failed"}
  /\ reader' = [reader EXCEPT ![r] = IdleReader]

Read(r) ==
  /\ CheckFile(r) \/ OpenFile(r) \/ CloseFile(r)
  /\ UNCHANGED <<final, settled, writer, faults>>

Next ==
  \/ \E w \in Writers : Write(w) \/ WriteEnds(w)
  \/ \E r \in Readers : Read(r)
  \/ Settle
  \/ PowerLoss

Spec == Init /\ [][Next]_vars
-----------------------------------------------------------------------------
\* Types; a file is complete and on the disk before it can be renamed.
TypeOK ==
  /\ final \in Content
  /\ settled \in SUBSET Content
  /\ writer \in [Writers -> WriterState]
  /\ \A w \in Writers :
       /\ writer[w].pc # "idle" => writer[w].temp \in File
       /\ writer[w].pc \in {"written", "synced"} => writer[w].temp.whole
       /\ writer[w].pc = "synced" => writer[w].temp.synced
  /\ reader \in [Readers -> ReaderState]
  /\ faults \in 0..MaxFaults

\* Whatever fails, is killed or loses power, the artifact is absent or holds
\* one complete payload ("snapshot writes are atomic within the target
\* directory").
NeverTorn == final # Absent => final.whole

\* read_snapshot never finds the artifact gone after its own check, and never
\* reads a file that is not complete, however writers and readers interleave.
ReadersSeeWholeFiles ==
  \A r \in Readers :
    /\ reader[r].pc # "failed"
    /\ reader[r].pc = "opened" => reader[r].file.whole

\* The artifact of a file as its readers take it.
ValueOf(file) ==
  CASE file = Absent -> "none"
    [] file # Absent /\ file.whole -> file.payload
    [] OTHER -> "torn"

\* The files of several writers, readers and faults are together one atomic
\* value ("snapshot writes are atomic within the target directory"): a write
\* takes effect at its rename and not at all when it fails, a read is of one
\* moment, and only a power loss brings an earlier value back.
Abstract == INSTANCE AtomicFile WITH
  value <- ValueOf(final),
  kept  <- {IF file.synced THEN ValueOf(file) ELSE "torn" : file \in settled},
  held  <- [r \in Readers |-> IF reader[r].pc = "opened"
                              THEN ValueOf(reader[r].file) ELSE "nothing held"]
ImplementsAtomicFile == Abstract!FileSpec
=============================================================================
