------------------------- MODULE NoteExporterProofs --------------------------
(* Proofs about NoteExporter: what a run of the export tool promises, for any *)
(* notes, argument lists and filters, any number of runs and edits, whatever  *)
(* the author does meanwhile and wherever the process is killed.              *)
EXTENDS NoteExporter, WellFoundedInduction, TLAPS

-----------------------------------------------------------------------------
(* The inductive invariant                                                   *)

\* TypeOK, with the bound that an induction needs: no revision is newer than
\* the author's last edit.
Shape ==
  /\ TypeOK
  /\ rev \in [Notes -> 1..(edits + 1)] /\ page \in [Notes -> 0..(edits + 1)]
  /\ index = [usable |-> index.usable, intact |-> index.intact, listed |-> index.listed]

\* What the stage a run has reached says of its own variables.
Phase ==
  /\ pc # "idle" => exit = "none"
  /\ pc \in {"wrapper", "main"} => todo = {}
  /\ pc \notin {"idle", "config", "export"} => todo = {}
  /\ pc \in {"config", "export"} => ~options.indexOnly
  /\ pc \in {"collect", "describe"} => ~options.skipIndex
  /\ pc \in {"wrapper", "main", "config", "export", "collect"} => sections = NoCatalogue
  /\ todo \subseteq InScope(options)

\* The notes of the request are done, failed, or still to do.
Exported ==
  pc \in {"config", "export", "collect", "describe", "report"} /\ ~options.indexOnly =>
    \A n \in (present \cap InScope(options)) \ touched :
      n \in todo \/ n \in failures \/ (page[n] = rev[n] /\ n \notin torn)

\* What was collected, what was read of it, and what was written agree with
\* the disk but for the files the author touched.
Collected ==
  /\ pc \in {"describe", "report"} /\ ~options.skipIndex =>
       \A n \in Notes \ touched : n \in found <=> n \in present /\ page[n] # 0
  /\ pc \in {"describe", "report"} =>
       \A n \in DOMAIN sections \ touched : sections[n] = rev[n]
  /\ pc = "report" /\ ~options.skipIndex => DOMAIN sections = found
  /\ pc = "report" /\ ~options.skipIndex /\ IndexFile \notin touched =>
       index.usable /\ index.listed = sections

\* Until its first write, and its update of the index, a run leaves them alone.
Unwritten ==
  /\ pc \in {"wrapper", "main", "config"} =>
       \A n \in Notes \ touched : page[n] = before.page[n]
  /\ IndexFile \notin touched /\ pc # "idle" /\ (pc # "report" \/ options.skipIndex) =>
       index = before.index

Promises ==
  /\ SuccessMeansExported
  /\ SuccessMeansCatalogued
  /\ OutOfScopeUntouched
  /\ AbortWritesNothing
  /\ IndexAllOrNothing

ExporterInv == Shape /\ Phase /\ Exported /\ Collected /\ Unwritten /\ Promises

-----------------------------------------------------------------------------

\* The next note is one of those still to do.
LEMMA NextNote ==
  ASSUME TypeOK, todo # {}
  PROVE  Min(todo) \in todo
PROOF
  <1>1. todo \subseteq Nat
    BY ExporterAssumption DEF TypeOK
  <1> DEFINE Less == {ss \in Nat \X Nat : ss[1] < ss[2]}
  <1>2. Less = OpToRel(<, Nat)
    BY Zenon DEF OpToRel
  <1>3. IsWellFoundedOn(Less, Nat)
    BY <1>2, NatLessThanWellFounded, Zenon
  <1> HIDE DEF Less
  <1>4. PICK x \in todo : \A y \in todo : ~ (<<y, x>> \in Less)
    BY <1>1, <1>3, WFMin
  <1>5. \A y \in todo : <<y, x>> \in Less <=> y < x
    <2> TAKE y \in todo
    <2>1. x \in Nat /\ y \in Nat
      BY <1>1
    <2>2. <<y, x>> \in Less <=> <<y, x>> \in Nat \X Nat /\ <<y, x>>[1] < <<y, x>>[2]
      BY Zenon DEF Less
    <2> QED  BY <2>1, <2>2
  <1>6. \A y \in todo : x <= y
    <2> TAKE y \in todo
    <2>1. x \in Nat /\ y \in Nat
      BY <1>1
    <2>2. ~(y < x)
      BY <1>4, <1>5
    <2> QED  BY <2>1, <2>2
  <1> QED  BY <1>6 DEF Min

LEMMA ExporterStart == Init => ExporterInv
BY ExporterAssumption
   DEF Init, ExporterInv, Shape, TypeOK, Phase, Exported, Collected, Unwritten, Promises,
       SuccessMeansExported, SuccessMeansCatalogued, OutOfScopeUntouched, AbortWritesNothing,
       IndexAllOrNothing, FreshIndex, NoCatalogue, Stages, IndexFile, Exports, Indexes

-----------------------------------------------------------------------------
(* The steps of the author                                                   *)

LEMMA AuthorKeeps ==
  ASSUME ExporterInv,
         (\E n \in Notes : WriteNote(n) \/ RemoveNote(n)) \/ EditIndex
  PROVE  ExporterInv'
PROOF
  <1>0. MaxEdits \in Nat /\ 0 \notin Notes
    BY ExporterAssumption
  <1>1. CASE \E n \in Notes : WriteNote(n) \/ RemoveNote(n)
    <2> PICK n \in Notes : WriteNote(n) \/ RemoveNote(n)
      BY <1>1
    <2> USE DEF ExporterInv, WriteNote, RemoveNote, Author, runVars
    <2>0. rev' \in [Notes -> 1..(edits' + 1)] /\ page' \in [Notes -> 0..(edits' + 1)]
      BY <1>0 DEF Shape, TypeOK
    <2>1. Shape'
      BY <1>0, <2>0 DEF Shape, TypeOK, Stages, IndexFile
    <2>2. Phase'
      BY DEF Phase
    <2>3. Exported'
      BY DEF Exported, Shape, TypeOK
    <2>4. Collected'
      BY DEF Collected, Shape, TypeOK
    <2>5. Unwritten'
      BY DEF Unwritten, Shape, TypeOK
    <2>6. Promises'
      BY DEF Promises, SuccessMeansExported, SuccessMeansCatalogued, OutOfScopeUntouched,
             AbortWritesNothing, IndexAllOrNothing, Exports, Indexes, Shape, TypeOK
    <2> QED  BY <2>1, <2>2, <2>3, <2>4, <2>5, <2>6
  <1>2. CASE EditIndex
    <2> USE <1>2 DEF ExporterInv, EditIndex, Author, runVars
    <2>a. \/ index' = [usable |-> FALSE, intact |-> index.intact, listed |-> NoCatalogue]
          \/ index' = [usable |-> TRUE, intact |-> TRUE, listed |-> NoCatalogue]
      <3>1. CASE index' = [index EXCEPT !.usable = FALSE, !.listed = NoCatalogue]
        BY <3>1 DEF Shape
      <3>2. CASE index' = FreshIndex
        BY <3>2 DEF FreshIndex
      <3> QED  BY <3>1, <3>2
    <2>b. index'.usable \in BOOLEAN /\ index'.intact \in BOOLEAN
      <3>1. index.intact \in BOOLEAN
        BY DEF Shape, TypeOK
      <3>2. CASE index' = [usable |-> FALSE, intact |-> index.intact, listed |-> NoCatalogue]
        <4>1. index'.usable = FALSE /\ index'.intact = index.intact
          BY <3>2
        <4> QED  BY <3>1, <4>1, Zenon
      <3>3. CASE index' = [usable |-> TRUE, intact |-> TRUE, listed |-> NoCatalogue]
        <4>1. index'.usable = TRUE /\ index'.intact = TRUE
          BY <3>3
        <4> QED  BY <4>1, Zenon
      <3> QED  BY <2>a, <3>2, <3>3
    <2>c. rev' \in [Notes -> 1..(edits' + 1)] /\ page' \in [Notes -> 0..(edits' + 1)]
      BY <1>0 DEF Shape, TypeOK
    <2>1. Shape'
      BY <1>0, <2>a, <2>b, <2>c DEF Shape, TypeOK, Stages, IndexFile, NoCatalogue
    <2>2. Phase'
      BY DEF Phase
    <2>3. Exported'
      BY DEF Exported, Shape, TypeOK
    <2>4. Collected'
      BY DEF Collected, Shape, TypeOK
    <2>5. Unwritten'
      BY DEF Unwritten, Shape, TypeOK
    <2>6. Promises'
      BY DEF Promises, SuccessMeansExported, SuccessMeansCatalogued, OutOfScopeUntouched,
             AbortWritesNothing, IndexAllOrNothing, Exports, Indexes, Shape, TypeOK
    <2> QED  BY <2>1, <2>2, <2>3, <2>4, <2>5, <2>6
  <1> QED  BY <1>1, <1>2
-----------------------------------------------------------------------------
(* The steps of the tool, with the same parts for each                       *)

\* A new run: what the last one promised is no longer asked, and the pages and
\* the index are what they were when it started.
LEMMA StartKeeps ==
  ASSUME ExporterInv, \E argv \in Commands, stage \in {"wrapper", "main"} : Start(argv, stage)
  PROVE  ExporterInv'
PROOF
  <1>0. MaxEdits \in Nat /\ MaxRuns \in Nat /\ 0 \notin Notes
    BY ExporterAssumption
  <1> USE DEF ExporterInv, Start, Finish, Goto, diskVars, runVars
  <1>1. Shape'
    BY <1>0 DEF Shape, TypeOK, Stages, IndexFile, NoCatalogue
  <1>2. Phase'
    BY <1>0 DEF Phase, Shape, TypeOK, NoCatalogue
  <1>3. Exported'
    BY <1>0 DEF Exported, Phase, Shape, TypeOK
  <1>4. Collected'
    BY <1>0 DEF Collected, Phase, Shape, TypeOK, NoCatalogue
  <1>5. Unwritten'
    BY <1>0 DEF Unwritten, Phase, Shape, TypeOK
  <1>6. SuccessMeansExported'
    BY <1>0 DEF Promises, SuccessMeansExported, Exports, Exported, Phase, Shape, TypeOK
  <1>7. SuccessMeansCatalogued'
    BY <1>0 DEF Promises, SuccessMeansCatalogued, Indexes, Collected, Phase, Shape, TypeOK
  <1>8. OutOfScopeUntouched'
    BY <1>0 DEF Promises, OutOfScopeUntouched, Phase, Shape, TypeOK
  <1>9. AbortWritesNothing'
    BY <1>0 DEF Promises, AbortWritesNothing, Unwritten, Phase, Shape, TypeOK
  <1>10. IndexAllOrNothing'
    BY <1>0 DEF Promises, IndexAllOrNothing, Unwritten, Collected, Phase, Shape, TypeOK
  <1> QED  BY <1>1, <1>2, <1>3, <1>4, <1>5, <1>6, <1>7, <1>8, <1>9, <1>10 DEF Promises

\* The toolchain is installed, or the wrapper gives up before node runs.
LEMMA InstallKeeps ==
  ASSUME ExporterInv, InstallToolchain
  PROVE  ExporterInv'
PROOF
  <1>0. MaxEdits \in Nat /\ MaxRuns \in Nat /\ 0 \notin Notes
    BY ExporterAssumption
  <1> USE DEF ExporterInv, InstallToolchain, Finish, Goto, diskVars, runVars
  <1>1. Shape'
    BY <1>0 DEF Shape, TypeOK, Stages, IndexFile, NoCatalogue
  <1>2. Phase'
    BY <1>0 DEF Phase, Shape, TypeOK, NoCatalogue
  <1>3. Exported'
    BY <1>0 DEF Exported, Phase, Shape, TypeOK
  <1>4. Collected'
    BY <1>0 DEF Collected, Phase, Shape, TypeOK, NoCatalogue
  <1>5. Unwritten'
    BY <1>0 DEF Unwritten, Phase, Shape, TypeOK
  <1>6. SuccessMeansExported'
    BY <1>0 DEF Promises, SuccessMeansExported, Exports, Exported, Phase, Shape, TypeOK
  <1>7. SuccessMeansCatalogued'
    BY <1>0 DEF Promises, SuccessMeansCatalogued, Indexes, Collected, Phase, Shape, TypeOK
  <1>8. OutOfScopeUntouched'
    BY <1>0 DEF Promises, OutOfScopeUntouched, Phase, Shape, TypeOK
  <1>9. AbortWritesNothing'
    BY <1>0 DEF Promises, AbortWritesNothing, Unwritten, Phase, Shape, TypeOK
  <1>10. IndexAllOrNothing'
    BY <1>0 DEF Promises, IndexAllOrNothing, Unwritten, Collected, Phase, Shape, TypeOK
  <1> QED  BY <1>1, <1>2, <1>3, <1>4, <1>5, <1>6, <1>7, <1>8, <1>9, <1>10 DEF Promises

\* The wrapper finds a toolchain.
LEMMA RunNodeKeeps ==
  ASSUME ExporterInv, RunNode
  PROVE  ExporterInv'
PROOF
  <1>0. MaxEdits \in Nat /\ MaxRuns \in Nat /\ 0 \notin Notes
    BY ExporterAssumption
  <1> USE DEF ExporterInv, RunNode, Finish, Goto, diskVars, runVars
  <1>1. Shape'
    BY <1>0 DEF Shape, TypeOK, Stages, IndexFile, NoCatalogue
  <1>2. Phase'
    BY <1>0 DEF Phase, Shape, TypeOK, NoCatalogue
  <1>3. Exported'
    BY <1>0 DEF Exported, Phase, Shape, TypeOK
  <1>4. Collected'
    BY <1>0 DEF Collected, Phase, Shape, TypeOK, NoCatalogue
  <1>5. Unwritten'
    BY <1>0 DEF Unwritten, Phase, Shape, TypeOK
  <1>6. SuccessMeansExported'
    BY <1>0 DEF Promises, SuccessMeansExported, Exports, Exported, Phase, Shape, TypeOK
  <1>7. SuccessMeansCatalogued'
    BY <1>0 DEF Promises, SuccessMeansCatalogued, Indexes, Collected, Phase, Shape, TypeOK
  <1>8. OutOfScopeUntouched'
    BY <1>0 DEF Promises, OutOfScopeUntouched, Phase, Shape, TypeOK
  <1>9. AbortWritesNothing'
    BY <1>0 DEF Promises, AbortWritesNothing, Unwritten, Phase, Shape, TypeOK
  <1>10. IndexAllOrNothing'
    BY <1>0 DEF Promises, IndexAllOrNothing, Unwritten, Collected, Phase, Shape, TypeOK
  <1> QED  BY <1>1, <1>2, <1>3, <1>4, <1>5, <1>6, <1>7, <1>8, <1>9, <1>10 DEF Promises

\* The usage exits end a run that promises nothing; otherwise the notes of the
\* request are all still to do.
LEMMA MainKeeps ==
  ASSUME ExporterInv, Main
  PROVE  ExporterInv'
PROOF
  <1>0. MaxEdits \in Nat /\ MaxRuns \in Nat /\ 0 \notin Notes
    BY ExporterAssumption
  <1> USE DEF ExporterInv, Main, AfterExport, Finish, Goto, diskVars, runVars
  <1>1. Shape'
    BY <1>0 DEF Shape, TypeOK, Stages, IndexFile, NoCatalogue
  <1>2. Phase'
    BY <1>0 DEF Phase, Shape, TypeOK, NoCatalogue
  <1>3. Exported'
    BY <1>0 DEF Exported, Phase, Shape, TypeOK
  <1>4. Collected'
    BY <1>0 DEF Collected, Phase, Shape, TypeOK, NoCatalogue
  <1>5. Unwritten'
    BY <1>0 DEF Unwritten, Phase, Shape, TypeOK
  <1>6. SuccessMeansExported'
    BY <1>0 DEF Promises, SuccessMeansExported, Exports, Exported, Phase, Shape, TypeOK
  <1>7. SuccessMeansCatalogued'
    BY <1>0 DEF Promises, SuccessMeansCatalogued, Indexes, Collected, Phase, Shape, TypeOK
  <1>8. OutOfScopeUntouched'
    BY <1>0 DEF Promises, OutOfScopeUntouched, Phase, Shape, TypeOK
  <1>9. AbortWritesNothing'
    BY <1>0 DEF Promises, AbortWritesNothing, Unwritten, Phase, Shape, TypeOK
  <1>10. IndexAllOrNothing'
    BY <1>0 DEF Promises, IndexAllOrNothing, Unwritten, Collected, Phase, Shape, TypeOK
  <1> QED  BY <1>1, <1>2, <1>3, <1>4, <1>5, <1>6, <1>7, <1>8, <1>9, <1>10 DEF Promises

\* What stops a whole export stops it here, before the first page.
LEMMA LoadConfigKeeps ==
  ASSUME ExporterInv, LoadConfig
  PROVE  ExporterInv'
PROOF
  <1>0. MaxEdits \in Nat /\ MaxRuns \in Nat /\ 0 \notin Notes
    BY ExporterAssumption
  <1> USE DEF ExporterInv, LoadConfig, Finish, Goto, diskVars, runVars
  <1>1. Shape'
    BY <1>0 DEF Shape, TypeOK, Stages, IndexFile, NoCatalogue
  <1>2. Phase'
    BY <1>0 DEF Phase, Shape, TypeOK, NoCatalogue
  <1>3. Exported'
    BY <1>0 DEF Exported, Phase, Shape, TypeOK
  <1>4. Collected'
    BY <1>0 DEF Collected, Phase, Shape, TypeOK, NoCatalogue
  <1>5. Unwritten'
    BY <1>0 DEF Unwritten, Phase, Shape, TypeOK
  <1>6. SuccessMeansExported'
    BY <1>0 DEF Promises, SuccessMeansExported, Exports, Exported, Phase, Shape, TypeOK
  <1>7. SuccessMeansCatalogued'
    BY <1>0 DEF Promises, SuccessMeansCatalogued, Indexes, Collected, Phase, Shape, TypeOK
  <1>8. OutOfScopeUntouched'
    BY <1>0 DEF Promises, OutOfScopeUntouched, Phase, Shape, TypeOK
  <1>9. AbortWritesNothing'
    <2>1. /\ \A n \in Notes \ touched : page[n] = before.page[n]
          /\ IndexFile \notin touched => index = before.index
      BY DEF Unwritten
    <2> QED  BY <2>1 DEF AbortWritesNothing
  <1>10. IndexAllOrNothing'
    BY <1>0 DEF Promises, IndexAllOrNothing, Unwritten, Collected, Phase, Shape, TypeOK
  <1> QED  BY <1>1, <1>2, <1>3, <1>4, <1>5, <1>6, <1>7, <1>8, <1>9, <1>10 DEF Promises

\* Nothing is left to do: every note of the request is exported or failed.
LEMMA ExportDoneKeeps ==
  ASSUME ExporterInv, ExportDone
  PROVE  ExporterInv'
PROOF
  <1>0. MaxEdits \in Nat /\ MaxRuns \in Nat /\ 0 \notin Notes
    BY ExporterAssumption
  <1> USE DEF ExporterInv, ExportDone, AfterExport, Finish, Goto, diskVars, runVars
  <1>1. Shape'
    BY <1>0 DEF Shape, TypeOK, Stages, IndexFile, NoCatalogue
  <1>2. Phase'
    BY <1>0 DEF Phase, Shape, TypeOK, NoCatalogue
  <1>3. Exported'
    BY <1>0 DEF Exported, Phase, Shape, TypeOK
  <1>4. Collected'
    BY <1>0 DEF Collected, Phase, Shape, TypeOK, NoCatalogue
  <1>5. Unwritten'
    BY <1>0 DEF Unwritten, Phase, Shape, TypeOK
  <1>6. SuccessMeansExported'
    BY <1>0 DEF Promises, SuccessMeansExported, Exports, Exported, Phase, Shape, TypeOK
  <1>7. SuccessMeansCatalogued'
    BY <1>0 DEF Promises, SuccessMeansCatalogued, Indexes, Collected, Phase, Shape, TypeOK
  <1>8. OutOfScopeUntouched'
    BY <1>0 DEF Promises, OutOfScopeUntouched, Phase, Shape, TypeOK
  <1>9. AbortWritesNothing'
    BY <1>0 DEF Promises, AbortWritesNothing, Unwritten, Phase, Shape, TypeOK
  <1>10. IndexAllOrNothing'
    BY <1>0 DEF Promises, IndexAllOrNothing, Unwritten, Collected, Phase, Shape, TypeOK
  <1> QED  BY <1>1, <1>2, <1>3, <1>4, <1>5, <1>6, <1>7, <1>8, <1>9, <1>10 DEF Promises

\* The notes with a page are collected.
LEMMA CollectKeeps ==
  ASSUME ExporterInv, CollectNotes
  PROVE  ExporterInv'
PROOF
  <1>0. MaxEdits \in Nat /\ MaxRuns \in Nat /\ 0 \notin Notes
    BY ExporterAssumption
  <1> USE DEF ExporterInv, CollectNotes, Finish, Goto, diskVars, runVars
  <1>1. Shape'
    BY <1>0 DEF Shape, TypeOK, Stages, IndexFile, NoCatalogue, Phase
  <1>2. Phase'
    BY <1>0 DEF Phase, Shape, TypeOK, NoCatalogue
  <1>3. Exported'
    BY <1>0 DEF Exported, Phase, Shape, TypeOK
  <1>4. Collected'
    BY <1>0 DEF Collected, Phase, Shape, TypeOK, NoCatalogue
  <1>5. Unwritten'
    BY <1>0 DEF Unwritten, Phase, Shape, TypeOK
  <1>6. SuccessMeansExported'
    BY <1>0 DEF Promises, SuccessMeansExported, Exports, Exported, Phase, Shape, TypeOK
  <1>7. SuccessMeansCatalogued'
    BY <1>0 DEF Promises, SuccessMeansCatalogued, Indexes, Collected, Phase, Shape, TypeOK
  <1>8. OutOfScopeUntouched'
    BY <1>0 DEF Promises, OutOfScopeUntouched, Phase, Shape, TypeOK
  <1>9. AbortWritesNothing'
    BY <1>0 DEF Promises, AbortWritesNothing, Unwritten, Phase, Shape, TypeOK
  <1>10. IndexAllOrNothing'
    BY <1>0 DEF Promises, IndexAllOrNothing, Unwritten, Phase, Shape, TypeOK
  <1> QED  BY <1>1, <1>2, <1>3, <1>4, <1>5, <1>6, <1>7, <1>8, <1>9, <1>10 DEF Promises

\* One of them is read, or is gone and ends the run.
LEMMA DescribeKeeps ==
  ASSUME ExporterInv, DescribeNote
  PROVE  ExporterInv'
PROOF
  <1>0. MaxEdits \in Nat /\ MaxRuns \in Nat /\ 0 \notin Notes
    BY ExporterAssumption
  <1> USE DEF ExporterInv, DescribeNote, Finish, Goto, diskVars, runVars
  <1>1. Shape'
    BY <1>0 DEF Shape, TypeOK, Stages, IndexFile, NoCatalogue
  <1>2. Phase'
    BY <1>0 DEF Phase, Shape, TypeOK, NoCatalogue
  <1>3. Exported'
    BY <1>0 DEF Exported, Phase, Shape, TypeOK
  <1>4. Collected'
    BY <1>0 DEF Collected, Phase, Shape, TypeOK, NoCatalogue
  <1>5. Unwritten'
    BY <1>0 DEF Unwritten, Phase, Shape, TypeOK
  <1>6. SuccessMeansExported'
    BY <1>0 DEF Promises, SuccessMeansExported, Exports, Exported, Phase, Shape, TypeOK
  <1>7. SuccessMeansCatalogued'
    BY <1>0 DEF Promises, SuccessMeansCatalogued, Indexes, Collected, Phase, Shape, TypeOK
  <1>8. OutOfScopeUntouched'
    BY <1>0 DEF Promises, OutOfScopeUntouched, Phase, Shape, TypeOK
  <1>9. AbortWritesNothing'
    BY <1>0 DEF Promises, AbortWritesNothing, Unwritten, Phase, Shape, TypeOK
  <1>10. IndexAllOrNothing'
    BY <1>0 DEF Promises, IndexAllOrNothing, Unwritten, Collected, Phase, Shape, TypeOK
  <1> QED  BY <1>1, <1>2, <1>3, <1>4, <1>5, <1>6, <1>7, <1>8, <1>9, <1>10 DEF Promises

\* The index is written, or cannot be.
LEMMA UpdateKeeps ==
  ASSUME ExporterInv, UpdateIndex
  PROVE  ExporterInv'
PROOF
  <1>0. MaxEdits \in Nat /\ MaxRuns \in Nat /\ 0 \notin Notes
    BY ExporterAssumption
  <1> USE DEF ExporterInv, UpdateIndex, Finish, Goto, diskVars, runVars
  <1>1. Shape'
    BY <1>0 DEF Shape, TypeOK, Stages, IndexFile, NoCatalogue
  <1>2. Phase'
    BY <1>0 DEF Phase, Shape, TypeOK, NoCatalogue
  <1>3. Exported'
    BY <1>0 DEF Exported, Phase, Shape, TypeOK
  <1>4. Collected'
    BY <1>0 DEF Collected, Phase, Shape, TypeOK, NoCatalogue
  <1>5. Unwritten'
    BY <1>0 DEF Unwritten, Phase, Shape, TypeOK
  <1>6. SuccessMeansExported'
    BY <1>0 DEF Promises, SuccessMeansExported, Exports, Exported, Phase, Shape, TypeOK
  <1>7. SuccessMeansCatalogued'
    BY <1>0 DEF Promises, SuccessMeansCatalogued, Indexes, Collected, Phase, Shape, TypeOK
  <1>8. OutOfScopeUntouched'
    BY <1>0 DEF Promises, OutOfScopeUntouched, Phase, Shape, TypeOK
  <1>9. AbortWritesNothing'
    BY <1>0 DEF Promises, AbortWritesNothing, Unwritten, Phase, Shape, TypeOK
  <1>10. IndexAllOrNothing'
    BY <1>0 DEF Promises, IndexAllOrNothing, Unwritten, Collected, Phase, Shape, TypeOK
  <1> QED  BY <1>1, <1>2, <1>3, <1>4, <1>5, <1>6, <1>7, <1>8, <1>9, <1>10 DEF Promises

\* The exit code turns what the stages kept into the promise.
LEMMA ReportKeeps ==
  ASSUME ExporterInv, Report
  PROVE  ExporterInv'
PROOF
  <1>0. MaxEdits \in Nat /\ MaxRuns \in Nat /\ 0 \notin Notes
    BY ExporterAssumption
  <1> USE DEF ExporterInv, Report, Finish, Goto, diskVars, runVars
  <1>1. Shape'
    BY <1>0 DEF Shape, TypeOK, Stages, IndexFile, NoCatalogue
  <1>2. Phase'
    BY <1>0 DEF Phase, Shape, TypeOK, NoCatalogue
  <1>3. Exported'
    BY <1>0 DEF Exported, Phase, Shape, TypeOK
  <1>4. Collected'
    BY <1>0 DEF Collected, Phase, Shape, TypeOK, NoCatalogue
  <1>5. Unwritten'
    BY <1>0 DEF Unwritten, Phase, Shape, TypeOK
  <1>6. SuccessMeansExported'
    BY <1>0 DEF Promises, SuccessMeansExported, Exports, Exported, Phase, Shape, TypeOK
  <1>7. SuccessMeansCatalogued'
    BY <1>0 DEF Promises, SuccessMeansCatalogued, Indexes, Collected, Phase, Shape, TypeOK
  <1>8. OutOfScopeUntouched'
    BY <1>0 DEF Promises, OutOfScopeUntouched, Phase, Shape, TypeOK
  <1>9. AbortWritesNothing'
    BY <1>0 DEF Promises, AbortWritesNothing, Unwritten, Phase, Shape, TypeOK
  <1>10. IndexAllOrNothing'
    BY <1>0 DEF Promises, IndexAllOrNothing, Unwritten, Collected, Phase, Shape, TypeOK
  <1> QED  BY <1>1, <1>2, <1>3, <1>4, <1>5, <1>6, <1>7, <1>8, <1>9, <1>10 DEF Promises

\* One note is exported or fails; it is one of the request.
LEMMA ExportNoteKeeps ==
  ASSUME ExporterInv, ExportNote
  PROVE  ExporterInv'
PROOF
  <1>0. MaxEdits \in Nat /\ MaxRuns \in Nat /\ 0 \notin Notes
    BY ExporterAssumption
  <1> USE DEF ExporterInv, ExportNote, Finish, Goto, diskVars, runVars
  <1>1. Shape'
    BY <1>0, NextNote DEF Shape, TypeOK, Stages, IndexFile, NoCatalogue
  <1>2. Phase'
    BY <1>0, NextNote DEF Phase, Shape, TypeOK, NoCatalogue
  <1>3. Exported'
    BY <1>0, NextNote DEF Exported, Phase, Shape, TypeOK
  <1>4. Collected'
    BY <1>0, NextNote DEF Collected, Phase, Shape, TypeOK, NoCatalogue
  <1>5. Unwritten'
    BY <1>0, NextNote DEF Unwritten, Phase, Shape, TypeOK
  <1>6. SuccessMeansExported'
    BY <1>0, NextNote DEF Promises, SuccessMeansExported, Exports, Exported, Phase, Shape, TypeOK
  <1>7. SuccessMeansCatalogued'
    BY <1>0, NextNote DEF Promises, SuccessMeansCatalogued, Indexes, Collected, Phase, Shape, TypeOK
  <1>8. OutOfScopeUntouched'
    BY <1>0, NextNote DEF Promises, OutOfScopeUntouched, Phase, Shape, TypeOK
  <1>9. AbortWritesNothing'
    BY <1>0, NextNote DEF Promises, AbortWritesNothing, Unwritten, Phase, Shape, TypeOK
  <1>10. IndexAllOrNothing'
    BY <1>0, NextNote DEF Promises, IndexAllOrNothing, Unwritten, Collected, Phase, Shape, TypeOK
  <1> QED  BY <1>1, <1>2, <1>3, <1>4, <1>5, <1>6, <1>7, <1>8, <1>9, <1>10 DEF Promises

\* A killed run has no exit code to believe, and cuts at most a page of the
\* request or the index.
LEMMA CrashKeeps ==
  ASSUME ExporterInv, Crash
  PROVE  ExporterInv'
PROOF
  <1>0. MaxEdits \in Nat /\ MaxRuns \in Nat /\ 0 \notin Notes
    BY ExporterAssumption
  <1> USE DEF ExporterInv, Crash, Finish, Goto, diskVars, runVars
  <1>1. Shape'
    <2>1. /\ index' = [usable |-> index'.usable, intact |-> index'.intact, listed |-> index'.listed]
          /\ DOMAIN index'.listed \subseteq Notes
      BY <1>0 DEF Shape, TypeOK, NoCatalogue
    <2>2. index'.usable \in BOOLEAN /\ index'.intact \in BOOLEAN
      <3>1. index.usable \in BOOLEAN /\ index.intact \in BOOLEAN
        BY DEF Shape, TypeOK
      <3>2. \/ index' = index
            \/ index'.usable = FALSE /\ index'.intact = FALSE
            \/ index'.usable = TRUE /\ index'.intact = FALSE
        OBVIOUS
      <3> QED  BY <3>1, <3>2, Zenon
    <2>3. /\ page' \in [Notes -> 0..(edits' + 1)] /\ rev' \in [Notes -> 1..(edits' + 1)]
          /\ torn' \subseteq Notes
      BY <1>0, NextNote DEF Shape, TypeOK
    <2> QED  BY <1>0, <2>1, <2>2, <2>3 DEF Shape, TypeOK, Stages, IndexFile
  <1>2. Phase'
    BY <1>0, NextNote DEF Phase, Shape, TypeOK, NoCatalogue
  <1>3. Exported'
    BY <1>0, NextNote DEF Exported, Phase, Shape, TypeOK
  <1>4. Collected'
    BY <1>0, NextNote DEF Collected, Phase, Shape, TypeOK, NoCatalogue
  <1>5. Unwritten'
    BY <1>0, NextNote DEF Unwritten, Phase, Shape, TypeOK
  <1>6. SuccessMeansExported'
    BY <1>0, NextNote DEF Promises, SuccessMeansExported, Exports, Exported, Phase, Shape, TypeOK
  <1>7. SuccessMeansCatalogued'
    BY <1>0, NextNote DEF Promises, SuccessMeansCatalogued, Indexes, Collected, Phase, Shape, TypeOK
  <1>8. OutOfScopeUntouched'
    BY <1>0, NextNote DEF Promises, OutOfScopeUntouched, Phase, Shape, TypeOK
  <1>9. AbortWritesNothing'
    BY <1>0, NextNote DEF Promises, AbortWritesNothing, Unwritten, Phase, Shape, TypeOK
  <1>10. IndexAllOrNothing'
    BY <1>0, NextNote DEF Promises, IndexAllOrNothing, Unwritten, Collected, Phase, Shape, TypeOK
  <1> QED  BY <1>1, <1>2, <1>3, <1>4, <1>5, <1>6, <1>7, <1>8, <1>9, <1>10 DEF Promises

-----------------------------------------------------------------------------
(* The theorems                                                              *)

\* The inductive invariant holds in every reachable state.
THEOREM ExporterInvariant == Spec => []ExporterInv
PROOF
  <1>1. ExporterInv /\ [Next]_vars => ExporterInv'
    <2> SUFFICES ASSUME ExporterInv, [Next]_vars PROVE ExporterInv'
      OBVIOUS
    <2>1. CASE \E argv \in Commands, stage \in {"wrapper", "main"} : Start(argv, stage)
      BY <2>1, StartKeeps
    <2>2. CASE Tool
      BY <2>2, InstallKeeps, RunNodeKeeps, MainKeeps, LoadConfigKeeps, ExportNoteKeeps,
         ExportDoneKeeps, CollectKeeps, DescribeKeeps, UpdateKeeps, ReportKeeps DEF Tool
    <2>3. CASE Crash
      BY <2>3, CrashKeeps
    <2>4. CASE (\E n \in Notes : WriteNote(n) \/ RemoveNote(n)) \/ EditIndex
      BY <2>4, AuthorKeeps
    <2>5. CASE UNCHANGED vars
      BY <2>5 DEF vars, diskVars, runVars, ExporterInv, Shape, TypeOK, Phase, Exported,
                  Collected, Unwritten, Promises, SuccessMeansExported, SuccessMeansCatalogued,
                  OutOfScopeUntouched, AbortWritesNothing, IndexAllOrNothing, Exports, Indexes
    <2> QED  BY <2>1, <2>2, <2>3, <2>4, <2>5 DEF Next
  <1> QED  BY <1>1, ExporterStart, PTL DEF Spec

\* Every state of the tool, of the disk and of the index is well formed: main
\* and its stages put nothing else into the variables.
THEOREM ExporterTypeCorrect == Spec => []TypeOK
BY ExporterInvariant, PTL DEF ExporterInv, Shape

\* Exit code 0 is to be believed: after main's loop over the notes every note of
\* the request that the author left alone has a complete page of its last revision.
THEOREM ExporterSuccessMeansExported == Spec => []SuccessMeansExported
BY ExporterInvariant, PTL DEF ExporterInv, Promises

\* And the catalogue that updateIndexHtml wrote agrees with the disk.
THEOREM ExporterSuccessMeansCatalogued == Spec => []SuccessMeansCatalogued
BY ExporterInvariant, PTL DEF ExporterInv, Promises

\* --filter and --index-only are kept to, also by a run that is killed.
THEOREM ExporterOutOfScopeUntouched == Spec => []OutOfScopeUntouched
BY ExporterInvariant, PTL DEF ExporterInv, Promises

\* A run that gives up in loadCrossnote or assertGlobalCssCompiled has written nothing.
THEOREM ExporterAbortWritesNothing == Spec => []AbortWritesNothing
BY ExporterInvariant, PTL DEF ExporterInv, Promises

\* updateIndexHtml replaces the block with all that was collected or not at all,
\* unless the process is killed.
THEOREM ExporterIndexAllOrNothing == Spec => []IndexAllOrNothing
BY ExporterInvariant, PTL DEF ExporterInv, Promises
=============================================================================
