------------------------- MODULE SnapshotFilesProofs -------------------------
(***************************************************************************)
(* The atomicity of write_snapshot for any number of writers and readers.  *)
(* NeverTorn is not inductive: a power loss can bring back any file the    *)
(* artifact has been (FilesComplete), and a reader that has checked for    *)
(* the artifact relies on nobody ever removing it (ReadersSafe).           *)
(***************************************************************************)
EXTENDS SnapshotFiles, TLAPS

\* A file that would survive a power loss as a complete payload.
Complete(file) == file \in File /\ file.whole = TRUE /\ file.synced = TRUE

\* What the artifact is, or may be after a power loss, is absent or complete.
FilesComplete ==
  /\ final \in settled
  /\ \A file \in settled : file = Absent \/ Complete(file)

\* A reader that has seen the artifact can still open it.
ReadersSafe ==
  \A r \in Readers :
    /\ reader[r].pc = "checked" => final # Absent
    /\ reader[r].pc = "opened" => Complete(reader[r].file)
    /\ reader[r].pc # "failed"

FilesInv == TypeOK /\ FilesComplete /\ ReadersSafe

\* A complete file is a file, and not the absent one.
LEMMA CompleteFacts ==
  ASSUME NEW file, Complete(file)
  PROVE  file \in Content /\ file # Absent
  BY DEF Complete, Content, Absent

\* A step of a writer replaces the artifact only by a complete file.
LEMMA WriterStep ==
  ASSUME FilesInv, NEW w \in Writers, Write(w) \/ WriteEnds(w)
  PROVE  FilesInv'
<1>t. /\ TypeOK /\ FilesComplete /\ ReadersSafe
      /\ writer \in [Writers -> WriterState] /\ writer[w] \in WriterState
  BY DEF FilesInv, TypeOK
<1>0. reader' = reader /\ faults' \in 0..MaxFaults
  BY <1>t, FaultsAssumption DEF Write, WriteEnds, Fault, TypeOK
\* A step that moves the writer on and leaves the artifact alone.
<1>k. ASSUME NEW next \in WriterState, UNCHANGED <<final, settled>>,
             writer' = [writer EXCEPT ![w] = next],
             next.pc # "idle" => next.temp \in File,
             next.pc \in {"written", "synced"} => next.temp.whole,
             next.pc = "synced" => next.temp.synced
      PROVE  FilesInv'
  <2>1. TypeOK'
    BY <1>k, <1>t, <1>0 DEF TypeOK
  <2>2. FilesComplete' /\ ReadersSafe'
    BY <1>k, <1>t, <1>0 DEF FilesComplete, ReadersSafe
  <2> QED
    BY <2>1, <2>2 DEF FilesInv
<1>1. ASSUME NEW p \in Payloads, Create(w, p) PROVE FilesInv'
  <2> DEFINE next == [pc |-> "created",
                      temp |-> [payload |-> p, whole |-> FALSE, synced |-> FALSE]]
  <2>1. next \in WriterState /\ next.temp \in File
    BY DEF WriterState, Content, File
  <2> QED
    BY <1>1, <2>1, <1>k DEF Create
<1>2. CASE writer[w].pc = "created" /\ Fill(w)
  <2> DEFINE next == [pc |-> "written", temp |-> [writer[w].temp EXCEPT !.whole = TRUE]]
  <2>1. writer[w].temp \in File
    BY <1>2, <1>t DEF TypeOK
  <2>2. next \in WriterState /\ next.temp \in File /\ next.temp.whole = TRUE
    BY <2>1 DEF WriterState, Content, File
  <2> QED
    BY <1>2, <2>2, <1>k DEF Fill
<1>3. CASE writer[w].pc = "written" /\ Sync(w)
  <2> DEFINE next == [pc |-> "synced", temp |-> [writer[w].temp EXCEPT !.synced = TRUE]]
  <2>1. writer[w].temp \in File /\ writer[w].temp.whole
    BY <1>3, <1>t DEF TypeOK
  <2>2. next \in WriterState /\ next.temp \in File /\ next.temp.whole
        /\ next.temp.synced = TRUE
    BY <2>1 DEF WriterState, Content, File
  <2> QED
    BY <1>3, <2>2, <1>k DEF Sync
<1>4. CASE writer[w].pc = "synced" /\ Replace(w)
  <2>1. Complete(writer[w].temp)
    BY <1>4, <1>t DEF TypeOK, Complete, File
  <2>2. final' = writer[w].temp /\ settled' = settled \cup {writer[w].temp}
        /\ writer' = [writer EXCEPT ![w] = IdleWriter]
    BY <1>4 DEF Replace
  <2>3. final' \in Content /\ final' # Absent
    BY <2>1, <2>2, CompleteFacts
  <2>4. IdleWriter \in WriterState /\ IdleWriter.pc = "idle"
    BY DEF IdleWriter, WriterState, Content
  <2>5. settled' \in SUBSET Content
    BY <2>2, <2>3, <1>t DEF TypeOK
  <2>6. /\ writer' \in [Writers -> WriterState]
        /\ \A v \in Writers : writer'[v] = IF v = w THEN IdleWriter ELSE writer[v]
    BY <2>2, <2>4, <1>t
  <2>7. TypeOK'
    BY <2>3, <2>4, <2>5, <2>6, <1>t, <1>0 DEF TypeOK
  <2>8. FilesComplete'
    BY <2>1, <2>2, <1>t DEF FilesComplete
  <2>9. ReadersSafe'
    BY <2>3, <1>t, <1>0 DEF ReadersSafe
  <2> QED
    BY <2>7, <2>8, <2>9 DEF FilesInv
<1>5. CASE WriteEnds(w)
  <2>1. IdleWriter \in WriterState /\ IdleWriter.pc = "idle"
    BY DEF IdleWriter, WriterState, Content
  <2> QED
    BY <1>5, <2>1, <1>k DEF WriteEnds
<1> QED
  BY <1>1, <1>2, <1>3, <1>4, <1>5 DEF Write

\* A step of a reader opens only what is there, and that is complete.
LEMMA ReaderStep ==
  ASSUME FilesInv, NEW r \in Readers, Read(r)
  PROVE  FilesInv'
<1>t. /\ TypeOK /\ FilesComplete /\ ReadersSafe
      /\ reader \in [Readers -> ReaderState] /\ reader[r] \in ReaderState
      /\ final \in Content
  BY DEF FilesInv, TypeOK
<1>0. UNCHANGED <<final, settled, writer, faults>>
  BY DEF Read
<1>k. ASSUME NEW next \in ReaderState, reader' = [reader EXCEPT ![r] = next],
             next.pc = "checked" => final # Absent,
             next.pc = "opened" => Complete(next.file),
             next.pc # "failed"
      PROVE  FilesInv'
  <2>1. TypeOK'
    BY <1>k, <1>t, <1>0 DEF TypeOK
  <2>2. ReadersSafe'
    BY <1>k, <1>t, <1>0 DEF ReadersSafe
  <2> QED
    BY <2>1, <2>2, <1>t, <1>0 DEF FilesInv, FilesComplete
<1>1. CASE CheckFile(r)
  <2> DEFINE next == [reader[r] EXCEPT !.pc = "checked"]
  <2>1. next \in ReaderState /\ next.pc = "checked"
    BY <1>t DEF ReaderState
  <2>2. reader' = [reader EXCEPT ![r] = next] /\ final # Absent
    BY <1>1 DEF CheckFile
  <2> QED
    BY <2>1, <2>2, <1>k
<1>2. CASE OpenFile(r)
  <2> DEFINE next == [pc |-> "opened", file |-> final]
  <2>1. final # Absent
    BY <1>2, <1>t DEF OpenFile, ReadersSafe
  <2>2. Complete(final)
    BY <2>1, <1>t DEF FilesComplete
  <2>3. next \in ReaderState
    BY <1>t DEF ReaderState
  <2>4. reader' = [reader EXCEPT ![r] = next]
    BY <1>2, <2>1 DEF OpenFile
  <2> QED
    BY <2>2, <2>3, <2>4, <1>k
<1>3. CASE CloseFile(r)
  <2>1. IdleReader \in ReaderState /\ IdleReader.pc = "idle"
    BY DEF IdleReader, ReaderState, Content
  <2> QED
    BY <1>3, <2>1, <1>k DEF CloseFile
<1> QED
  BY <1>1, <1>2, <1>3 DEF Read

\* After a power loss the artifact is one of the complete files it has been.
LEMMA PowerLossStep ==
  ASSUME FilesInv, PowerLoss
  PROVE  FilesInv'
<1>1. PICK file \in settled :
        final' = IF file.synced THEN file
                 ELSE [file EXCEPT !.whole = FALSE, !.synced = TRUE]
  BY DEF PowerLoss
<1>2. file \in Content /\ (file = Absent \/ Complete(file))
  BY DEF FilesInv, TypeOK, FilesComplete
<1>3. final' = file
  <2>1. CASE file = Absent
    BY <1>1, <2>1 DEF Absent
  <2>2. CASE Complete(file)
    BY <1>1, <2>2 DEF Complete, File
  <2> QED
    BY <1>2, <2>1, <2>2
<1>4. settled' = {file} /\ faults' \in 0..MaxFaults
  BY <1>3, FaultsAssumption DEF PowerLoss, Fault, FilesInv, TypeOK
<1>5. /\ writer' = [w \in Writers |-> IdleWriter] /\ IdleWriter \in WriterState
      /\ reader' = [r \in Readers |-> IdleReader] /\ IdleReader \in ReaderState
      /\ IdleWriter.pc = "idle" /\ IdleReader.pc = "idle"
  BY DEF PowerLoss, IdleWriter, IdleReader, WriterState, ReaderState, Content
<1>6. TypeOK'
  BY <1>2, <1>3, <1>4, <1>5 DEF TypeOK
<1> QED
  BY <1>2, <1>3, <1>4, <1>5, <1>6 DEF FilesInv, FilesComplete, ReadersSafe

\* The invariant holds in every state, whatever fails.
LEMMA FilesInvariant == Spec => []FilesInv
<1>1. Init => FilesInv
  <2> SUFFICES ASSUME Init PROVE FilesInv
    OBVIOUS
  <2>1. final = Absent \/ Complete(final)
    BY DEF Init, Complete, File
  <2>2. final \in Content
    BY <2>1, CompleteFacts DEF Content
  <2>3. /\ IdleWriter \in WriterState /\ IdleReader \in ReaderState
        /\ IdleWriter.pc = "idle" /\ IdleReader.pc = "idle"
    BY DEF IdleWriter, IdleReader, WriterState, ReaderState, Content
  <2> QED
    BY <2>1, <2>2, <2>3, FaultsAssumption
       DEF Init, FilesInv, TypeOK, FilesComplete, ReadersSafe
<1>2. FilesInv /\ [Next]_vars => FilesInv'
  <2> SUFFICES ASSUME FilesInv, [Next]_vars PROVE FilesInv'
    OBVIOUS
  <2>1. CASE Settle
    BY <2>1 DEF Settle, FilesInv, TypeOK, FilesComplete, ReadersSafe
  <2>2. CASE UNCHANGED vars
    BY <2>2 DEF vars, FilesInv, TypeOK, FilesComplete, ReadersSafe
  <2> QED
    BY <2>1, <2>2, WriterStep, ReaderStep, PowerLossStep DEF Next
<1> QED
  BY <1>1, <1>2, PTL DEF Spec

\* The artifact is never torn (SnapshotStore._write_atomic_text): the fsync
\* before the rename is what a power loss cannot undo.
THEOREM SnapshotsNeverTorn == Spec => []NeverTorn
<1>1. FilesInv => NeverTorn
  BY DEF FilesInv, FilesComplete, NeverTorn, Complete
<1> QED
  BY <1>1, FilesInvariant, PTL

\* A reader never finds the artifact gone after its check, nor a part of it
\* (SnapshotStore.read_snapshot).
THEOREM ReadsAreWhole == Spec => []ReadersSeeWholeFiles
<1>1. FilesInv => ReadersSeeWholeFiles
  BY DEF FilesInv, ReadersSafe, ReadersSeeWholeFiles, Complete
<1> QED
  BY <1>1, FilesInvariant, PTL
-----------------------------------------------------------------------------
(***************************************************************************)
(* The refinement of AtomicFile.                                           *)
(***************************************************************************)
\* The refinement mapping.
fileValue == ValueOf(final)
fileKept == {IF file.synced THEN ValueOf(file) ELSE "torn" : file \in settled}
fileHeld == [r \in Readers |-> IF reader[r].pc = "opened"
                               THEN ValueOf(reader[r].file) ELSE "nothing held"]
mapped == <<fileValue, fileKept, fileHeld>>

\* A complete file is taken for its payload, and an absent one for "none".
LEMMA ValueFacts ==
  /\ ValueOf(Absent) = "none" /\ Absent.synced = TRUE
  /\ \A file : Complete(file) => ValueOf(file) = file.payload /\ ValueOf(file) \in Payloads
  BY CompleteFacts DEF ValueOf, Absent, Complete, File

\* While no power is lost, what may be kept is what the files are taken for.
LEMMA KeptFacts ==
  ASSUME FilesComplete
  PROVE  fileKept = {ValueOf(file) : file \in settled}
  BY ValueFacts DEF FilesComplete, fileKept, Complete

\* A writer changes the value only by a rename, and then to its payload.
LEMMA WriteRefines ==
  ASSUME FilesInv, FilesInv', NEW w \in Writers, Write(w)
  PROVE  (\E p \in Payloads : Abstract!Put(p)) \/ UNCHANGED mapped
<1>1. CASE writer[w].pc = "synced" /\ Replace(w)
  <2> DEFINE file == writer[w].temp
  <2>1. Complete(file)
    BY <1>1 DEF FilesInv, TypeOK, Complete, File
  <2>2. fileValue' = file.payload /\ file.payload \in Payloads
    BY <1>1, <2>1, ValueFacts DEF Replace, fileValue
  <2>3. fileKept' = fileKept \cup {file.payload}
    <3>1. settled' = settled \cup {file} /\ ValueOf(file) = file.payload
      BY <1>1, <2>1, ValueFacts DEF Replace
    <3>2. fileKept' = {ValueOf(f) : f \in settled'}
      BY ValueFacts DEF FilesInv, FilesComplete, fileKept, Complete
    <3> QED
      BY <3>1, <3>2, KeptFacts DEF FilesInv
  <2>4. fileHeld' = fileHeld
    BY <1>1 DEF Write, fileHeld
  <2> QED
    BY <2>2, <2>3, <2>4 DEF Abstract!Put, fileValue, fileKept, fileHeld
<1>2. CASE UNCHANGED <<final, settled>>
  BY <1>2 DEF Write, mapped, fileValue, fileKept, fileHeld
<1> QED
  BY <1>1, <1>2 DEF Write, Create, Fill, Sync

\* A reader takes the value when it opens the file, and gives it back.
LEMMA ReadRefines ==
  ASSUME FilesInv, FilesInv', NEW r \in Readers, Read(r)
  PROVE  Abstract!Get(r) \/ Abstract!Release(r) \/ UNCHANGED mapped
<1>t. reader \in [Readers -> ReaderState] /\ final \in Content
  BY DEF FilesInv, TypeOK
<1>0. fileValue' = fileValue /\ fileKept' = fileKept
  BY DEF Read, fileValue, fileKept
<1>1. CASE CheckFile(r)
  BY <1>0, <1>1, <1>t DEF CheckFile, ReaderState, mapped, fileHeld
<1>2. CASE OpenFile(r)
  <2>1. final # Absent /\ Complete(final)
    BY <1>2 DEF OpenFile, FilesInv, ReadersSafe, FilesComplete
  <2>2. fileValue # "none"
    BY <2>1, ValueFacts, PayloadsAssumption DEF fileValue
  <2>3. reader' = [reader EXCEPT ![r] = [pc |-> "opened", file |-> final]]
    BY <1>2, <2>1 DEF OpenFile
  <2>4. fileHeld[r] = "nothing held" /\ fileHeld' = [fileHeld EXCEPT ![r] = fileValue]
    <3>1. fileHeld[r] = "nothing held"
      BY <1>2 DEF OpenFile, fileHeld
    <3>2. reader'[r].pc = "opened" /\ reader'[r].file = final
      BY <2>3, <1>t
    <3>3. \A q \in Readers \ {r} : reader'[q] = reader[q]
      BY <2>3, <1>t
    <3>4. \A q \in Readers : fileHeld'[q] = IF q = r THEN fileValue ELSE fileHeld[q]
      BY <3>2, <3>3 DEF fileHeld, fileValue
    <3> QED
      BY <3>1, <3>4 DEF fileHeld
  <2> QED
    BY <1>0, <2>2, <2>4
       DEF Abstract!Get, Abstract!Nothing, Abstract!NoValue, fileValue, fileKept, fileHeld
<1>3. CASE CloseFile(r)
  <2>1. fileHeld' = [fileHeld EXCEPT ![r] = "nothing held"]
    BY <1>3, <1>t DEF CloseFile, IdleReader, fileHeld
  <2> QED
    BY <1>0, <2>1 DEF Abstract!Release, Abstract!Nothing, fileValue, fileKept, fileHeld
<1> QED
  BY <1>1, <1>2, <1>3 DEF Read

\* A power loss brings back a value that was kept.
LEMMA PowerLossRefines ==
  ASSUME FilesInv, PowerLoss
  PROVE  Abstract!LosePower
<1>1. PICK file \in settled :
        final' = IF file.synced THEN file
                 ELSE [file EXCEPT !.whole = FALSE, !.synced = TRUE]
  BY DEF PowerLoss
<1>2. (file = Absent \/ Complete(file)) /\ file.synced = TRUE
  BY ValueFacts DEF FilesInv, FilesComplete, Complete
<1>3. final' = file /\ settled' = {file}
  BY <1>1, <1>2 DEF PowerLoss
<1>4. fileValue' \in fileKept /\ fileKept' = {fileValue'}
  BY <1>2, <1>3 DEF fileValue, fileKept
<1>5. fileHeld' = [r \in Readers |-> "nothing held"]
  BY DEF PowerLoss, IdleReader, fileHeld
<1> QED
  BY <1>4, <1>5 DEF Abstract!LosePower, Abstract!Nothing, fileValue, fileKept, fileHeld

\* The system calls of all writers and readers, with failed writes, kills and
\* power losses, are together one file that changes at once and is read as of
\* one moment (SnapshotStore.write_snapshot and read_snapshot).
THEOREM AtomicFileImplemented == Spec => ImplementsAtomicFile
<1>1. Init => Abstract!FileInit
  <2> SUFFICES ASSUME Init PROVE Abstract!FileInit
    OBVIOUS
  <2>1. (final = Absent \/ Complete(final)) /\ settled = {final}
    BY DEF Init, Complete, File
  <2>2. fileValue \in Payloads \cup {"none"} /\ fileKept = {fileValue}
    BY <2>1, ValueFacts DEF fileValue, fileKept, Complete
  <2>3. fileHeld = [r \in Readers |-> "nothing held"]
    BY DEF Init, IdleReader, fileHeld
  <2> QED
    BY <2>2, <2>3
       DEF Abstract!FileInit, Abstract!Nothing, Abstract!NoValue, fileValue, fileKept, fileHeld
<1>2. FilesInv /\ FilesInv' /\ [Next]_vars => [Abstract!FileNext]_mapped
  <2> SUFFICES ASSUME FilesInv, FilesInv', [Next]_vars
               PROVE  Abstract!FileNext \/ UNCHANGED mapped
    OBVIOUS
  <2>1. CASE Settle
    <3>1. fileKept' = {fileValue'} /\ fileValue' = fileValue /\ fileHeld' = fileHeld
      BY <2>1, ValueFacts
         DEF Settle, FilesInv, FilesComplete, Complete, fileKept, fileValue, fileHeld
    <3> QED
      BY <3>1 DEF Abstract!FileNext, Abstract!Keep, fileKept, fileValue, fileHeld
  <2>2. ASSUME NEW w \in Writers, WriteEnds(w) PROVE UNCHANGED mapped
    BY <2>2 DEF WriteEnds, mapped, fileKept, fileValue, fileHeld
  <2>3. CASE UNCHANGED vars
    BY <2>3 DEF vars, mapped, fileKept, fileValue, fileHeld
  <2> QED
    BY <2>1, <2>2, <2>3, WriteRefines, ReadRefines, PowerLossRefines
       DEF Next, Abstract!FileNext
<1>3. [Abstract!FileNext]_mapped => [Abstract!FileNext]_(Abstract!fileVars)
  BY DEF mapped, Abstract!fileVars, fileKept, fileValue, fileHeld
<1> QED
  BY <1>1, <1>2, <1>3, FilesInvariant, PTL DEF Spec, ImplementsAtomicFile, Abstract!FileSpec
=============================================================================
