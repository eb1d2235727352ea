--------------------------- MODULE MCNoteExporter ---------------------------
(* Small instances of NoteExporter for TLC.                                  *)
EXTENDS NoteExporter

TwoNotes == {1, 2}

\* "a" is in the path of note 1 only; no path contains an option.
MCMatching(text) == IF text = "a" THEN {1} ELSE {}

MCCommands == {<<>>, <<"--skip-index">>, <<"--index-only">>,
               <<"--filter", "a">>, <<"--filter">>,
               <<"--filter", "--index-only">>, <<"-h">>, <<"--force">>}
=============================================================================
