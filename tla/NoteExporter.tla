---------------------------- MODULE NoteExporter ----------------------------
(* tools/export-html.cjs and its wrapper export-html.sh: every Markdown note *)
(* is exported to a sibling page, then the catalogue inside index.html is    *)
(* rebuilt from the files on disk.                                           *)
(*                                                                           *)
(* The disk is shared with an author who edits, adds and removes notes while *)
(* the tool runs, and keeps its contents when the tool dies.  Contents are   *)
(* abstracted to revisions: rev[n] is the last revision the author wrote of  *)
(* note n, page[n] the revision its page was rendered from, and the          *)
(* catalogue holds, for each note it lists, the revision its title and       *)
(* description were read from.                                               *)
EXTENDS Naturals, FiniteSetsExt, SequencesExt

CONSTANTS Notes,        \* Markdown paths, numbered in the order of sort()
          Commands,     \* the argument lists the tool is called with
          Matching(_),  \* the notes whose path contains a --filter text
          NoFilter,     \* options.filter = null
          MaxEdits,     \* bound: how often the author acts
          MaxRuns       \* bound: how often the tool is started

ASSUME ExporterAssumption ==
  /\ Notes \subseteq Nat \ {0}
  /\ {MaxEdits, MaxRuns} \subseteq Nat

VARIABLES present,    \* the notes whose .md exists
          rev, page,  \* (page[n] = 0: there is no .html)
          torn,       \* pages whose write was cut short by a crash
          index,      \* index.html
          toolchain,  \* tools/node_modules
          pc, options, todo, failures, found, sections, exit, \* the process
          runs,       \* number of runs so far
          edits,      \* number of the author's actions so far
          touched,    \* files the author touched since the run started
          before      \* the pages and the index when the run started

diskVars == <<present, rev, page, torn, index, toolchain>>
runVars  == <<options, todo, failures, found, sections>>
vars     == <<diskVars, runVars, pc, exit, runs, edits, touched, before>>

IndexFile == 0        \* stands for index.html in `touched'

\* usable: the file exists and holds both markers in order; intact: the page
\* around the generated block is complete.
NoCatalogue == [n \in {} |-> 0]
FreshIndex  == [usable |-> TRUE, intact |-> TRUE, listed |-> NoCatalogue]

Stages == {"idle", "wrapper", "main", "config", "export", "collect",
           "describe", "report"}

NoOptions == [skipIndex |-> FALSE, indexOnly |-> FALSE, filter |-> NoFilter,
              help |-> FALSE, takesValue |-> FALSE, bad |-> FALSE]

Init ==
  /\ present = Notes
  /\ rev = [n \in Notes |-> 1]
  /\ page = [n \in Notes |-> 0]
  /\ torn = {}
  /\ index = FreshIndex
  /\ toolchain = "absent"
  /\ pc = "idle"
  /\ options = NoOptions
  /\ todo = {} /\ failures = {} /\ found = {} /\ sections = NoCatalogue
  /\ exit = "none"
  /\ runs = 0
  /\ edits = 0
  /\ touched = {}
  /\ before = [page |-> page, index |-> index]

-----------------------------------------------------------------------------
(* parseArgs: --filter swallows the argument after it, whatever it is, and   *)
(* is null when there is none; an unknown option throws.                     *)

Argument(acc, arg) ==
  IF acc.bad THEN acc
  ELSE IF acc.takesValue
       THEN [acc EXCEPT !.takesValue = FALSE, !.filter = arg]
  ELSE CASE arg = "--skip-index" -> [acc EXCEPT !.skipIndex = TRUE]
         [] arg = "--index-only" -> [acc EXCEPT !.indexOnly = TRUE]
         [] arg = "--filter" -> [acc EXCEPT !.takesValue = TRUE,
                                            !.filter = NoFilter]
         [] arg \in {"--help", "-h"} -> [acc EXCEPT !.help = TRUE]
         [] OTHER -> [acc EXCEPT !.bad = TRUE]

ParseArgs(argv) == FoldLeft(Argument, NoOptions, argv)

InScope(opts) == IF opts.filter = NoFilter THEN Notes ELSE Matching(opts.filter)

-----------------------------------------------------------------------------
(* The life of one run                                                       *)

\* The process ends with a code; the disk keeps what was written.
Finish(code) ==
  /\ pc' = "idle"
  /\ exit' = code
  /\ UNCHANGED <<options, todo, failures, found, sections, runs, edits, touched, before>>

Goto(stage) == pc' = stage /\ UNCHANGED <<exit, runs, edits, touched, before>>

\* The tool is called, through the wrapper or directly.
Start(argv, stage) ==
  /\ pc = "idle" /\ runs < MaxRuns
  /\ pc' = stage
  /\ options' = ParseArgs(argv)
  /\ todo' = {} /\ failures' = {} /\ found' = {} /\ sections' = NoCatalogue
  /\ exit' = "none"
  /\ runs' = runs + 1
  /\ touched' = {}
  /\ before' = [page |-> page, index |-> index]
  /\ UNCHANGED <<diskVars, edits>>

\* export-html.sh installs the toolchain only when the directory is missing;
\* `set -e' ends it when npm fails, which may leave part of the directory.
InstallToolchain ==
  /\ pc = "wrapper" /\ toolchain = "absent"
  /\ \/ toolchain' = "installed" /\ Goto("main")
        /\ UNCHANGED runVars
     \/ toolchain' \in {"absent", "partial"} /\ Finish("1")
  /\ UNCHANGED <<present, rev, page, torn, index>>

RunNode ==
  /\ pc = "wrapper" /\ toolchain # "absent"
  /\ Goto("main")
  /\ UNCHANGED <<diskVars, runVars>>

AfterExport == IF options.skipIndex THEN "report" ELSE "collect"

\* Mutant of Main: the filter is not applied.
MainUnfiltered ==
  /\ pc = "main" /\ ~options.bad /\ ~options.help
  /\ IF options.indexOnly
     THEN Goto(AfterExport) /\ UNCHANGED todo
     ELSE Goto("config") /\ todo' = present
  /\ UNCHANGED <<diskVars, options, failures, found, sections>>

\* main up to the export: the usage exits, or the list of notes to export.
Main ==
  /\ pc = "main"
  /\ \/ options.bad /\ Finish("2")
     \/ ~options.bad /\ options.help /\ Finish("0")
     \/ /\ ~options.bad /\ ~options.help
        /\ IF options.indexOnly
           THEN Goto(AfterExport) /\ UNCHANGED todo
           ELSE Goto("config") /\ todo' = present \cap InScope(options)
        /\ UNCHANGED <<options, failures, found, sections>>
  /\ UNCHANGED diskVars

\* require('crossnote'), the configuration and assertGlobalCssCompiled come
\* before any page is written; each may throw, which ends the run.  The style
\* sheet compiles or not (Less may fetch over the network).
LoadConfig ==
  /\ pc = "config"
  /\ \/ toolchain = "installed" /\ Goto("export") /\ UNCHANGED runVars
     \/ Finish("1")
  /\ UNCHANGED diskVars

\* Mutants of ExportNote: a failure is retried for ever; a failure ends the run.
ExportNoteRetrying ==
  /\ pc = "export" /\ todo # {}
  /\ \/ /\ Min(todo) \in present
        /\ page' = [page EXCEPT ![Min(todo)] = rev[Min(todo)]]
        /\ todo' = todo \ {Min(todo)}
        /\ UNCHANGED failures
     \/ failures' = failures \cup {Min(todo)} /\ UNCHANGED <<page, todo>>
  /\ UNCHANGED <<present, rev, torn, index, toolchain, options, found, sections,
                 pc, exit, runs, edits, touched, before>>

ExportNoteAborting ==
  /\ pc = "export" /\ todo # {}
  /\ \/ /\ Min(todo) \in present
        /\ page' = [page EXCEPT ![Min(todo)] = rev[Min(todo)]]
        /\ todo' = todo \ {Min(todo)}
        /\ UNCHANGED <<options, failures, found, sections, pc, exit, runs,
                       edits, touched, before>>
     \/ Finish("1") /\ UNCHANGED page
  /\ UNCHANGED <<present, rev, torn, index, toolchain>>

\* htmlExport reads the note and writes its page; when it throws the failure
\* is recorded and the loop goes on.  A note that is gone cannot be read.
ExportNote ==
  /\ pc = "export" /\ todo # {}
  /\ LET n == Min(todo)
     IN /\ todo' = todo \ {n}
        /\ \/ /\ n \in present
              /\ page' = [page EXCEPT ![n] = rev[n]]
              /\ torn' = torn \ {n}
              /\ UNCHANGED failures
           \/ failures' = failures \cup {n} /\ UNCHANGED <<page, torn>>
  /\ UNCHANGED <<present, rev, index, toolchain, options, found, sections, pc,
                 exit, runs, edits, touched, before>>

ExportDone ==
  /\ pc = "export" /\ todo = {}
  /\ Goto(AfterExport)
  /\ UNCHANGED <<diskVars, runVars>>

\* Mutant of CollectNotes: notes without a page are listed too.
CollectAllNotes ==
  /\ pc = "collect"
  /\ found' = present
  /\ Goto("describe")
  /\ UNCHANGED <<diskVars, options, todo, failures, sections>>

\* buildIndexSections: the notes whose sibling page exists ...
CollectNotes ==
  /\ pc = "collect"
  /\ found' = {n \in present : page[n] # 0}
  /\ Goto("describe")
  /\ UNCHANGED <<diskVars, options, todo, failures, sections>>

\* ... are read one by one for their title and description.  A note removed
\* after it was listed makes readFileSync throw, which ends the run.
DescribeNote ==
  /\ pc = "describe"
  /\ \E n \in found \ DOMAIN sections :
       \/ /\ n \in present
          /\ sections' = [m \in DOMAIN sections \cup {n} |->
                            IF m = n THEN rev[n] ELSE sections[m]]
          /\ UNCHANGED <<options, todo, failures, found, pc, exit, runs,
                         edits, touched, before>>
       \/ n \notin present /\ Finish("1")
  /\ UNCHANGED diskVars

\* updateIndexHtml: without the file or its markers it throws; otherwise the
\* block between the markers is replaced and the rest of the page is kept.
UpdateIndex ==
  /\ pc = "describe" /\ found = DOMAIN sections
  /\ \/ /\ index.usable
        /\ index' = [index EXCEPT !.listed = sections]
        /\ Goto("report")
        /\ UNCHANGED runVars
     \/ /\ ~index.usable
        /\ Finish("1")
        /\ UNCHANGED index
  /\ UNCHANGED <<present, rev, page, torn, toolchain>>

\* Mutant of Report: the failures are printed, the exit code is 0.
ReportSuccess == pc = "report" /\ Finish("0") /\ UNCHANGED diskVars

Report ==
  /\ pc = "report"
  /\ Finish(IF failures = {} THEN "0" ELSE "1")
  /\ UNCHANGED diskVars

\* The process is killed.  A file it was writing is left as it was, complete,
\* or cut short: the note's page, the index, the toolchain being installed.
Crash ==
  /\ pc # "idle"
  /\ \/ UNCHANGED diskVars
     \/ /\ pc = "export" /\ todo # {} /\ Min(todo) \in present
        /\ torn' = torn \cup {Min(todo)}
        /\ page' = [page EXCEPT ![Min(todo)] = rev[Min(todo)]]
        /\ UNCHANGED <<present, rev, index, toolchain>>
     \/ /\ pc = "describe" /\ found = DOMAIN sections /\ index.usable
        /\ \/ index' = [usable |-> FALSE, intact |-> FALSE, listed |-> NoCatalogue]
           \/ index' = [usable |-> TRUE, intact |-> FALSE, listed |-> sections]
        /\ UNCHANGED <<present, rev, page, torn, toolchain>>
     \/ /\ pc = "wrapper" /\ toolchain = "absent"
        /\ toolchain' = "partial"
        /\ UNCHANGED <<present, rev, page, torn, index>>
  /\ Finish("killed")

-----------------------------------------------------------------------------
(* The author                                                                *)

Author(file) ==
  /\ edits < MaxEdits
  /\ edits' = edits + 1
  /\ touched' = touched \cup {file}
  /\ UNCHANGED <<torn, toolchain, runVars, pc, exit, runs, before>>

WriteNote(n) ==
  /\ rev' = [rev EXCEPT ![n] = @ + 1]
  /\ present' = present \cup {n}
  /\ UNCHANGED <<page, index>>
  /\ Author(n)

\* The note goes, its page may stay behind.
RemoveNote(n) ==
  /\ n \in present
  /\ present' = present \ {n}
  /\ page' \in {page, [page EXCEPT ![n] = 0]}
  /\ UNCHANGED <<rev, index>>
  /\ Author(n)

\* The page around the block is edited, and a marker may be lost; or a good
\* copy of the file is restored.
EditIndex ==
  /\ index' \in {[index EXCEPT !.usable = FALSE, !.listed = NoCatalogue], FreshIndex}
  /\ UNCHANGED <<present, rev, page>>
  /\ Author(IndexFile)

Tool == \/ InstallToolchain \/ RunNode \/ Main \/ LoadConfig \/ ExportNote
        \/ ExportDone \/ CollectNotes \/ DescribeNote \/ UpdateIndex \/ Report

Next == \/ \E argv \in Commands, stage \in {"wrapper", "main"} : Start(argv, stage)
        \/ Tool
        \/ Crash
        \/ \E n \in Notes : WriteNote(n) \/ RemoveNote(n)
        \/ EditIndex

Spec == Init /\ [][Next]_vars

\* A started process keeps running: node and the shell make progress.
FairSpec == Spec /\ WF_vars(Tool)

-----------------------------------------------------------------------------
(* Properties                                                                *)

TypeOK ==
  /\ present \subseteq Notes
  /\ rev \in [Notes -> 1..(MaxEdits + 1)]
  /\ page \in [Notes -> 0..(MaxEdits + 1)]
  /\ torn \subseteq Notes
  /\ index.usable \in BOOLEAN /\ index.intact \in BOOLEAN
  /\ DOMAIN index.listed \subseteq Notes
  /\ toolchain \in {"absent", "partial", "installed"}
  /\ pc \in Stages
  /\ todo \cup failures \cup found \subseteq Notes
  /\ DOMAIN sections \subseteq found
  /\ exit \in {"none", "0", "1", "2", "killed"}
  /\ runs \in 0..MaxRuns
  /\ edits \in 0..MaxEdits
  /\ touched \subseteq Notes \cup {IndexFile}

Exports == ~options.indexOnly /\ ~options.help
Indexes == ~options.skipIndex /\ ~options.help

\* A run that exits 0 has exported every note it was asked to export: each
\* one the author left alone meanwhile has a complete page of its last
\* revision.  A failed, skipped or stale page is never reported as success.
SuccessMeansExported ==
  exit = "0" /\ Exports =>
    \A n \in (present \cap InScope(options)) \ touched :
      page[n] = rev[n] /\ n \notin torn

\* A run that exits 0 and was not told to skip the index leaves a catalogue
\* that agrees with the disk, for every file the author left alone: a note is
\* listed exactly when it and its page exist, under its last title.
SuccessMeansCatalogued ==
  exit = "0" /\ Indexes /\ IndexFile \notin touched =>
    /\ index.usable
    /\ \A n \in Notes \ touched :
         /\ n \in DOMAIN index.listed <=> n \in present /\ page[n] # 0
         /\ n \in DOMAIN index.listed => index.listed[n] = rev[n]

\* A run never touches the page of a note outside its --filter, nor any page
\* when it is called with --index-only, crashes included.
OutOfScopeUntouched ==
  \A n \in Notes \ touched :
    n \notin InScope(options) \/ options.indexOnly
      => page[n] = before.page[n]

\* The catalogue is all or nothing: unless the process is killed, a run that
\* ends with an error before the update, or that fails in it, leaves the index
\* as it was, and --skip-index leaves it alone in every case.
IndexAllOrNothing ==
  IndexFile \notin touched =>
    \/ index = before.index
    \/ ~options.skipIndex /\ exit = "killed"
    \/ ~options.skipIndex /\ index.listed = sections /\ DOMAIN sections = found

\* A run that gives up with notes still to export (toolchain or style sheet
\* unusable) has written nothing: one bad note does not stop the others, and
\* what stops them all is found before the first page.
AbortWritesNothing ==
  exit = "1" /\ todo # {} =>
    /\ \A n \in Notes \ touched : page[n] = before.page[n]
    /\ IndexFile \notin touched => index = before.index

\* The tool's usage text: --index-only rebuilds index.html "from the HTML
\* already on disk", so what the catalogue says of a note is what its page says.
IndexOnlyDescribesPages ==
  exit = "0" /\ options.indexOnly /\ Indexes /\ IndexFile \notin touched =>
    \A n \in DOMAIN index.listed \ touched : index.listed[n] = page[n]

\* A run always ends.
RunEnds == pc # "idle" ~> pc = "idle"
=============================================================================
