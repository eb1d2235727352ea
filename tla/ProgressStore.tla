--------------------------- MODULE ProgressStore ----------------------------
(* The reader's progress in the web application: completed topics, bookmarks *)
(* and private notes, kept in localStorage and mirrored by React hooks in    *)
(* every open tab.                                                           *)
(*                                                                           *)
(* localStorage is shared by the tabs.  A write dispatches a custom event in *)
(* its own tab, synchronously, and the browser sends a storage event to the  *)
(* other tabs, later; on either event every hook reads its own key again.    *)
(* A handler computes the new value from what its hook holds, not from the   *)
(* store.  setItem may throw (quota), and the code swallows the exception.   *)
(*                                                                           *)
(* `lists' stands for the keys that hold a list of topics; of a tab's hooks  *)
(* for them those of its page count, whose handlers write (the sidebar only  *)
(* shows them).  Notes are written by the note box of a topic, 400 ms after   *)
(* the last keystroke.                                                       *)
(*                                                                           *)
(* A hook reads its key while it is rendered and listens once its effect has *)
(* run.  The effects of a render that a click asked for run with it; those   *)
(* of a document's first render, and of the note box, which is rendered when *)
(* the topic's text has loaded, run later, and an event may come in between.  *)
EXTENDS Naturals, FiniteSets

CONSTANTS Tabs, Topics,
          Lists,        \* "done" and "bookmarks"
          Texts,        \* what a reader types; Blank is a text that trims to ""
          Blank,
          Files,        \* progress files a reader imports
          MaxActions    \* bound: how often readers act

\* A file that was exported: some of the keys, with lists of topics and notes.
\* (One that is not JSON is reported, and changes nothing.)
ASSUME StoreAssumption ==
  /\ Blank \notin Texts
  /\ Topics # {}
  /\ "done" \in Lists
  /\ \A f \in Files : /\ f.lists \in [Lists -> SUBSET Topics]
                     /\ f.notes \in [Topics -> Texts \cup {Blank}]
  /\ MaxActions \in Nat

VARIABLES store,    \* localStorage: [lists, notes]
          view,     \* the lists the hooks of each tab's page hold
          box,      \* the note box of each tab: [state, topic, notes]
          timers,   \* the pending saves of each tab
          stale,    \* a storage event is on its way to the tab
          deaf,     \* tabs whose page is rendered and whose effects have not run
          missed,   \* what of each tab did not listen to an event: "lists", "note"
          dropped,  \* history: setItem has thrown
          typed,    \* history: the texts typed or imported for each topic
          actions   \* number of reader actions so far

vars == <<store, view, box, timers, stale, deaf, missed, dropped, typed, actions>>

Notes == [Topics -> Texts \cup {Blank}]

Empty == [lists |-> [l \in Lists |-> {}], notes |-> [x \in Topics |-> Blank]]

\* absent: the tab shows another page than a topic's.
BoxStates == {"absent", "loading", "mounted", "listening"}

Timers == [topic : Topics, text : Texts \cup {Blank}, base : Notes, current : BOOLEAN]

Init ==
  /\ store = Empty
  /\ view = [t \in Tabs |-> Empty.lists]
  /\ box = [t \in Tabs |-> [state |-> "absent", topic |-> CHOOSE x \in Topics : TRUE,
                           notes |-> Empty.notes]]
  /\ timers = [t \in Tabs |-> {}]
  /\ stale = [t \in Tabs |-> FALSE]
  /\ deaf = {}
  /\ missed = [t \in Tabs |-> {}]
  /\ dropped = FALSE
  /\ typed = [x \in Topics |-> {}]
  /\ actions = 0

-----------------------------------------------------------------------------
(* Reading and writing the store                                             *)

\* Mutant of ReadAgain: the note box does not listen.
ReadAgainLists(t, s, b) ==
  /\ view' = [view EXCEPT ![t] = IF t \in deaf THEN @ ELSE s.lists]
  /\ box' = [box EXCEPT ![t] = b]
  /\ missed' = [missed EXCEPT ![t] = IF t \in deaf THEN {"lists"} ELSE {}]

\* Every hook of the tab that listens has read the store s again; the page's do
\* not before its effects have run, nor does the note box while it is mounted only.
ReadAgain(t, s, b) ==
  /\ view' = [view EXCEPT ![t] = IF t \in deaf THEN @ ELSE s.lists]
  /\ box' = [box EXCEPT ![t] = IF b.state = "listening"
                                 THEN [b EXCEPT !.notes = s.notes] ELSE b]
  /\ missed' = [missed EXCEPT ![t] = (IF t \in deaf THEN {"lists"} ELSE {}) \cup
                                     (IF b.state = "mounted" THEN {"note"} ELSE {})]

\* dr when setItem succeeds: the store holds s, and the other tabs will hear of
\* it ...
Written(t, s) ==
  /\ store' = s
  /\ stale' = [u \in Tabs |-> stale[u] \/ u # t]
  /\ UNCHANGED dropped

\* ... the hooks of the tab at once.
Stored(t, s, b) == Written(t, s) /\ ReadAgain(t, s, b)

\* dr when setItem throws: nothing is stored and nobody is told.
Dropped(t, b) ==
  /\ dropped' = TRUE
  /\ box' = [box EXCEPT ![t] = b]
  /\ UNCHANGED <<store, stale>>

Act == actions < MaxActions /\ actions' = actions + 1

\* The hook's own state.
Shown(t, l, list) == view' = [view EXCEPT ![t][l] = list] /\ UNCHANGED missed

\* The setter of a list's hook: dr, then the hook's own state.
SetList(t, l, list) ==
  LET new == [store EXCEPT !.lists[l] = list]
  IN /\ Act
     /\ \/ t \notin deaf /\ Stored(t, new, box[t])
        \/ t \in deaf /\ Written(t, new) /\ Shown(t, l, list) /\ UNCHANGED box
        \/ Dropped(t, box[t]) /\ Shown(t, l, list)
     /\ UNCHANGED <<timers, deaf, typed>>

-----------------------------------------------------------------------------
(* Completed topics and bookmarks                                            *)

\* Topics are bookmarked on their own page only.
Toggle(t, l, x) ==
  LET list == view[t][l]
  IN /\ l = "done" \/ (box[t].state # "absent" /\ box[t].topic = x)
     /\ SetList(t, l, IF x \in list THEN list \ {x} ELSE list \cup {x})

\* "Mark this topic complete", at the end of its page.
MarkDone(t) ==
  /\ box[t].state \in {"mounted", "listening"}
  /\ box[t].topic \notin view[t]["done"]
  /\ SetList(t, "done", view[t]["done"] \cup {box[t].topic})

\* "Reset all completed topics? Notes and bookmarks are kept."
Reset(t) == box[t].state = "absent" /\ SetList(t, "done", {})

-----------------------------------------------------------------------------
(* Topics and their notes                                                    *)

\* The note box goes; its pending save stays.
Orphaned(t) == [timers EXCEPT ![t] = {[r EXCEPT !.current = FALSE] : r \in @}]

\* A topic is opened.  The visit is recorded under a key of its own, which
\* makes the hooks read again; the page's hook is a new one, and reads the
\* store, unless the tab was on another topic.
OpenTopic(t, x) ==
  LET opened == [box[t] EXCEPT !.state = "loading", !.topic = x]
  IN /\ Act
     /\ t \notin deaf
     /\ box[t].state = "absent" \/ x # box[t].topic
     /\ \/ Stored(t, store, opened)
        \/ /\ Dropped(t, opened)
           /\ view' = IF box[t].state = "absent"
                      THEN [view EXCEPT ![t] = store.lists] ELSE view
           /\ missed' = [missed EXCEPT ![t] = IF box[t].state = "absent" THEN {} ELSE @ \ {"note"}]
     /\ timers' = Orphaned(t)
     /\ UNCHANGED <<deaf, typed>>

\* Another page is opened; its hook is a new one.
LeaveTopic(t) ==
  /\ Act
  /\ t \notin deaf
  /\ box[t].state # "absent"
  /\ box' = [box EXCEPT ![t].state = "absent"]
  /\ view' = [view EXCEPT ![t] = store.lists]
  /\ missed' = [missed EXCEPT ![t] = {}]
  /\ timers' = Orphaned(t)
  /\ UNCHANGED <<store, stale, deaf, dropped, typed>>

\* The topic's text has loaded: the note box mounts and reads the notes ...
Load(t) ==
  /\ t \notin deaf
  /\ box[t].state = "loading"
  /\ box' = [box EXCEPT ![t].state = "mounted", ![t].notes = store.notes]
  /\ UNCHANGED <<store, view, timers, stale, deaf, missed, dropped, typed, actions>>

\* ... and after the paint its effect subscribes to the events.
Subscribe(t) ==
  /\ box[t].state = "mounted"
  /\ box' = [box EXCEPT ![t].state = "listening"]
  /\ UNCHANGED <<store, view, timers, stale, deaf, missed, dropped, typed, actions>>

\* A keystroke cancels the pending save of this note box and schedules the
\* next, which remembers the topic and the notes of this moment.
Type(t, text) ==
  /\ Act
  /\ box[t].state \in {"mounted", "listening"}
  /\ timers' = [timers EXCEPT ![t] = {r \in @ : ~r.current} \cup
                  {[topic |-> box[t].topic, text |-> text, base |-> box[t].notes,
                    current |-> TRUE]}]
  /\ typed' = [typed EXCEPT ![box[t].topic] = @ \cup {text}]
  /\ UNCHANGED <<store, view, box, stale, deaf, missed, dropped>>

\* Mutants of SaveNote: under the topic the tab shows now; only if the note box
\* is still there.
SaveNoteHere(t, r) ==
  /\ r \in timers[t]
  /\ timers' = [timers EXCEPT ![t] = @ \ {r}]
  /\ Stored(t, [store EXCEPT !.notes = [r.base EXCEPT ![box[t].topic] = r.text]], box[t])
  /\ UNCHANGED <<deaf, typed, actions>>

SaveNoteIfShown(t, r) ==
  /\ r \in timers[t] /\ r.current
  /\ timers' = [timers EXCEPT ![t] = @ \ {r}]
  /\ Stored(t, [store EXCEPT !.notes = [r.base EXCEPT ![r.topic] = r.text]], box[t])
  /\ UNCHANGED <<deaf, typed, actions>>

\* setNote, when the timer fires: all notes are written, those of the moment
\* of the keystroke with this one replaced (a blank note is deleted).
SaveNote(t, r) ==
  LET notes == [r.base EXCEPT ![r.topic] = r.text]
      own == IF r.current THEN [box[t] EXCEPT !.notes = notes] ELSE box[t]
  IN /\ r \in timers[t]
     /\ timers' = [timers EXCEPT ![t] = @ \ {r}]
     /\ \/ Stored(t, [store EXCEPT !.notes = notes], own)
        \/ Dropped(t, own) /\ UNCHANGED <<view, missed>>
     /\ UNCHANGED <<deaf, typed, actions>>

-----------------------------------------------------------------------------
(* Import, events, tabs                                                      *)

\* A file is written key by key, each write on its own; one that throws ends
\* nothing.
ImportFile(t, f) ==
  /\ Act
  /\ box[t].state = "absent"
  /\ \E keys \in SUBSET f.keys :
       /\ dropped' = (dropped \/ keys # f.keys)
       /\ store' = [lists |-> [l \in Lists |-> IF l \in keys THEN f.lists[l]
                                               ELSE store.lists[l]],
                    notes |-> IF "notes" \in keys THEN f.notes ELSE store.notes]
       /\ IF keys = {} THEN UNCHANGED <<view, box, stale, missed>>
          ELSE /\ ReadAgain(t, store', box[t])
               /\ stale' = [u \in Tabs |-> stale[u] \/ u # t]
       /\ typed' = IF "notes" \in keys
                   THEN [x \in Topics |-> typed[x] \cup {f.notes[x]}] ELSE typed
  /\ UNCHANGED <<timers, deaf>>

\* Mutant of StorageEvent: no listener.
StorageEventIgnored(t) ==
  /\ stale[t]
  /\ stale' = [stale EXCEPT ![t] = FALSE]
  /\ UNCHANGED <<store, view, box, deaf, missed, dropped, timers, typed, actions>>

\* The storage event reaches a tab: hooks that listen read their keys again.
StorageEvent(t) ==
  /\ stale[t]
  /\ stale' = [stale EXCEPT ![t] = FALSE]
  /\ ReadAgain(t, store, box[t])
  /\ UNCHANGED <<store, timers, deaf, dropped, typed, actions>>

\* A tab is closed and opened again, or reloaded: its pending saves are gone.  The
\* first render of the document reads the store ...
Reload(t) ==
  /\ Act
  /\ view' = [view EXCEPT ![t] = store.lists]
  /\ box' = [box EXCEPT ![t].state = IF @ = "absent" THEN "absent" ELSE "loading"]
  /\ timers' = [timers EXCEPT ![t] = {}]
  /\ stale' = [stale EXCEPT ![t] = FALSE]
  /\ deaf' = deaf \cup {t}
  /\ missed' = [missed EXCEPT ![t] = {}]
  /\ UNCHANGED <<store, dropped, typed>>

\* ... and later its effects run: the hooks listen, and a topic's visit is
\* recorded, which makes them read again.
Listen(t) ==
  /\ t \in deaf
  /\ deaf' = deaf \ {t}
  /\ \/ box[t].state = "absent" /\ UNCHANGED <<store, view, box, stale, missed, dropped>>
     \/ /\ box[t].state # "absent"
        /\ \/ /\ Written(t, store)
              /\ view' = [view EXCEPT ![t] = store.lists]
              /\ missed' = [missed EXCEPT ![t] = @ \ {"lists"}]
              /\ UNCHANGED box
           \/ Dropped(t, box[t]) /\ UNCHANGED <<view, missed>>
  /\ UNCHANGED <<timers, typed, actions>>

-----------------------------------------------------------------------------
Background(t) == \/ Listen(t) \/ Load(t) \/ Subscribe(t) \/ StorageEvent(t)
                 \/ \E r \in timers[t] : SaveNote(t, r)

Next ==
  \E t \in Tabs :
    \/ \E l \in Lists, x \in Topics : Toggle(t, l, x)
    \/ MarkDone(t) \/ Reset(t)
    \/ \E x \in Topics : OpenTopic(t, x)
    \/ LeaveTopic(t)
    \/ \E text \in Texts \cup {Blank} : Type(t, text)
    \/ \E f \in Files : ImportFile(t, f)
    \/ Reload(t)
    \/ Background(t)

Spec == Init /\ [][Next]_vars

\* The browser delivers events, fires timers and runs effects.  Readers need
\* not do anything.
FairSpec == Spec /\ \A t \in Tabs : WF_vars(Background(t))

-----------------------------------------------------------------------------
(* Properties                                                                *)

TypeOK ==
  /\ store \in [lists : [Lists -> SUBSET Topics], notes : Notes]
  /\ view \in [Tabs -> [Lists -> SUBSET Topics]]
  /\ box \in [Tabs -> [state : BoxStates, topic : Topics, notes : Notes]]
  /\ timers \in [Tabs -> SUBSET Timers]
  /\ \A t \in Tabs : \A r, q \in timers[t] : r.current /\ q.current => r = q
  /\ stale \in [Tabs -> BOOLEAN]
  /\ deaf \subseteq Tabs
  /\ missed \in [Tabs -> SUBSET {"lists", "note"}]
  /\ dropped \in BOOLEAN
  /\ typed \in [Topics -> SUBSET (Texts \cup {Blank})]
  /\ actions \in 0..MaxActions

\* As long as setItem has not failed, what the handlers of a tab compute from is
\* what is stored, unless an event is on its way to the tab, or reached it
\* between a render of its hooks and their effects.
HandlersSeeStore ==
  ~dropped => \A t \in Tabs :
    /\ view[t] = store.lists \/ stale[t] \/ "lists" \in missed[t]
    /\ box[t].state = "listening" =>
         box[t].notes = store.notes \/ stale[t] \/ "note" \in missed[t]

\* A note is stored under the topic it was typed for, although the save comes
\* later, when the tab may show another topic.
NotesStayWithTheirTopic ==
  \A x \in Topics : store.notes[x] \in typed[x] \cup {Blank}

\* While no event is on its way or was missed by a first render, and setItem has
\* not failed, nothing but a reset or an import changes the completion of more
\* than one topic: no tab writes back an old list.
OneTopicAtATime ==
  [][LET before == store.lists["done"]
         after  == store'.lists["done"]
     IN ~dropped /\ (\A t \in Tabs : ~stale[t] /\ "lists" \notin missed[t]) =>
          \/ Cardinality((before \ after) \cup (after \ before)) <= 1
          \/ after = {}
          \/ \E f \in Files : "done" \in f.keys /\ after = f.lists["done"]]_vars

\* A save that is pending is made, unless the tab is closed.
SavesAreMade == \A t \in Tabs : timers[t] # {} ~> timers[t] = {}

\* "Saved locally in this browser", says the note box: a stored note changes
\* only when a save of that very topic is made (no files are imported here).
SavedNotesStay ==
  [][\A x \in Topics : store'.notes[x] # store.notes[x] =>
        \E t \in Tabs : \E r \in timers[t] \ timers'[t] : r.topic = x]_vars
=============================================================================
