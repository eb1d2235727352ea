------------------------- MODULE ProgressStoreProofs -------------------------
(* What ProgressStore keeps, for any number of tabs, topics, lists, texts and  *)
(* imported files.                                                            *)
EXTENDS ProgressStore, FiniteSetTheorems, TLAPS

StoreType == [lists : [Lists -> SUBSET Topics], notes : Notes]
BoxType == [state : BoxStates, topic : Topics, notes : Notes]
Misses == [Tabs -> SUBSET {"lists", "note"}]

-----------------------------------------------------------------------------
(* The inductive invariant.                                                   *)

\* A tab computes from what is stored, or will hear that it does not, or was
\* told when it did not listen.  The note box counts from its mount on, not only
\* once it listens.
TabSees(t) ==
  /\ view[t] = store.lists \/ stale[t] \/ "lists" \in missed[t]
  /\ box[t].state \in {"mounted", "listening"} =>
       box[t].notes = store.notes \/ stale[t] \/ "note" \in missed[t]

TabsSee == ~dropped => \A t \in Tabs : TabSees(t)

\* Notes every text of which was typed or imported for its topic.
Owned(notes, texts) == \A x \in Topics : notes[x] \in texts[x] \cup {Blank}

\* So are the notes in the store, those a note box shows, and those that a
\* pending save will write.
NotesOwned ==
  /\ Owned(store.notes, typed)
  /\ \A t \in Tabs : /\ Owned(box[t].notes, typed)
                     /\ \A r \in timers[t] : /\ Owned(r.base, typed)
                                             /\ r.text \in typed[r.topic]

StoreInv == TypeOK /\ TabsSee /\ NotesOwned

-----------------------------------------------------------------------------
(* What the steps are made of.                                                *)

LEMMA ReadAgainTypes ==
  ASSUME TypeOK, NEW t \in Tabs, NEW s \in StoreType, NEW b \in BoxType, ReadAgain(t, s, b)
  PROVE  /\ view' \in [Tabs -> [Lists -> SUBSET Topics]]
         /\ box' \in [Tabs -> BoxType]
         /\ missed' \in Misses
         /\ view'[t] = s.lists \/ "lists" \in missed'[t]
         /\ box'[t] \in BoxType /\ box'[t].state = b.state /\ box'[t].topic = b.topic
         /\ box'[t].notes \in {b.notes, s.notes}
         /\ b.state = "listening" => box'[t].notes = s.notes
         /\ b.state = "mounted" => "note" \in missed'[t]
         /\ \A u \in Tabs \ {t} : /\ view'[u] = view[u] /\ box'[u] = box[u]
                                  /\ missed'[u] = missed[u]
PROOF
  <1> DEFINE c == IF b.state = "listening" THEN [b EXCEPT !.notes = s.notes] ELSE b
             v == IF t \in deaf THEN view[t] ELSE s.lists
             m == (IF t \in deaf THEN {"lists"} ELSE {}) \cup (IF b.state = "mounted" THEN {"note"} ELSE {})
  <1>1. c \in BoxType /\ c.state = b.state /\ c.topic = b.topic /\ c.notes \in {b.notes, s.notes}
        /\ (b.state = "listening" => c.notes = s.notes)
    BY DEF BoxType, StoreType
  <1>2. v \in [Lists -> SUBSET Topics] /\ (v = s.lists \/ "lists" \in m)
        /\ m \subseteq {"lists", "note"} /\ (b.state = "mounted" => "note" \in m)
    BY DEF StoreType, TypeOK
  <1>3. box' = [box EXCEPT ![t] = c] /\ view' = [view EXCEPT ![t] = v] /\ missed' = [missed EXCEPT ![t] = m]
    BY DEF ReadAgain
  <1> HIDE DEF c, v, m
  <1>4. box \in [Tabs -> BoxType] /\ missed \in Misses /\ view \in [Tabs -> [Lists -> SUBSET Topics]]
    BY DEF TypeOK, BoxType, Misses
  <1>5. view' \in [Tabs -> [Lists -> SUBSET Topics]] /\ view'[t] = v /\ \A u \in Tabs \ {t} : view'[u] = view[u]
    BY <1>2, <1>3, <1>4
  <1>6. box' \in [Tabs -> BoxType] /\ box'[t] = c /\ \A u \in Tabs \ {t} : box'[u] = box[u]
    BY <1>1, <1>3, <1>4
  <1>7. missed' \in Misses /\ missed'[t] = m /\ \A u \in Tabs \ {t} : missed'[u] = missed[u]
    BY <1>2, <1>3, <1>4 DEF Misses
  <1> QED  BY <1>1, <1>2, <1>5, <1>6, <1>7

\* After a write every tab sees the store or will hear of it.
LEMMA StoredSees ==
  ASSUME TypeOK, NEW t \in Tabs, NEW s \in StoreType, NEW b \in BoxType, Stored(t, s, b)
  PROVE  /\ store' \in StoreType
         /\ view' \in [Tabs -> [Lists -> SUBSET Topics]]
         /\ box' \in [Tabs -> BoxType]
         /\ missed' \in Misses
         /\ stale' \in [Tabs -> BOOLEAN]
         /\ dropped' \in BOOLEAN
         /\ TabsSee'
PROOF
  <1>1. store' = s /\ ReadAgain(t, s, b) /\ stale' = [u \in Tabs |-> stale[u] \/ u # t] /\ dropped' = dropped
    BY DEF Stored, Written
  <1>2. stale' \in [Tabs -> BOOLEAN] /\ dropped' \in BOOLEAN /\ \A u \in Tabs \ {t} : stale'[u]
    BY <1>1 DEF TypeOK
  <1>3. /\ view'[t] = s.lists \/ "lists" \in missed'[t]
        /\ box'[t].state = b.state
        /\ b.state = "listening" => box'[t].notes = s.notes
        /\ b.state = "mounted" => "note" \in missed'[t]
    BY <1>1, ReadAgainTypes
  <1>4. \A u \in Tabs : TabSees(u)'
    BY <1>1, <1>2, <1>3 DEF TabSees
  <1>5. TabsSee'
    BY <1>4 DEF TabsSee
  <1> QED  BY <1>1, <1>2, <1>5, ReadAgainTypes

\* Texts that are typed later take nothing away.
LEMMA OwnedStays ==
  ASSUME NEW notes, NEW old, NEW new, Owned(notes, old), \A x \in Topics : old[x] \subseteq new[x]
  PROVE  Owned(notes, new)
BY DEF Owned

\* One note is replaced by a text typed for it.
LEMMA OwnedWith ==
  ASSUME NEW notes \in Notes, NEW texts, Owned(notes, texts), NEW x \in Topics, NEW text \in texts[x]
  PROVE  Owned([notes EXCEPT ![x] = text], texts)
BY DEF Owned, Notes

-----------------------------------------------------------------------------
(* The steps.                                                                 *)

LEMMA StoreInitially ==
  ASSUME Init
  PROVE  StoreInv
PROOF
  <1>1. (CHOOSE x \in Topics : TRUE) \in Topics
    BY StoreAssumption
  <1>2. Empty \in StoreType /\ Empty.lists \in [Lists -> SUBSET Topics] /\ Empty.notes \in Notes
        /\ \A x \in Topics : Empty.notes[x] = Blank
    BY DEF Empty, StoreType, Notes
  <1> DEFINE any == CHOOSE x \in Topics : TRUE
             start == [state |-> "absent", topic |-> any, notes |-> Empty.notes]
  <1>6. start \in BoxType
    <2> HIDE DEF any
    <2> QED  BY <1>1, <1>2 DEF BoxType, BoxStates, any
  <1>7. box = [t \in Tabs |-> start] /\ view = [t \in Tabs |-> Empty.lists]
    BY DEF Init
  <1>3. TypeOK
    <2> HIDE DEF any, start
    <2>1. actions \in 0 .. MaxActions
      BY StoreAssumption DEF Init
    <2>2. store \in StoreType /\ box \in [Tabs -> BoxType]
          /\ view \in [Tabs -> [Lists -> SUBSET Topics]]
      BY <1>2, <1>6, <1>7, ZenonT(30) DEF Init
    <2> QED  BY <2>1, <2>2 DEF Init, TypeOK, StoreType, BoxType, Misses
  <1>4. TabsSee
    BY DEF Init, TabsSee, TabSees
  <1>5. NotesOwned
    BY <1>2 DEF Init, NotesOwned, Owned
  <1> QED  BY <1>3, <1>4, <1>5 DEF StoreInv

LEMMA ActCounts ==
  ASSUME TypeOK, Act
  PROVE  actions' \in 0 .. MaxActions
PROOF
  <1>1. actions \in 0 .. MaxActions
    BY DEF TypeOK
  <1> QED  BY <1>1, StoreAssumption DEF Act

LEMMA SetListKeeps ==
  ASSUME StoreInv, NEW t \in Tabs, NEW l \in Lists, NEW list \in SUBSET Topics, SetList(t, l, list)
  PROVE  StoreInv'
PROOF
  <1>1. TypeOK /\ NotesOwned /\ TabsSee /\ UNCHANGED <<timers, deaf, typed>> /\ actions' \in 0 .. MaxActions
    BY ActCounts DEF StoreInv, SetList
  <1>2. box[t] \in BoxType /\ store \in StoreType
    BY <1>1 DEF TypeOK, BoxType, StoreType
  <1> DEFINE s == [store EXCEPT !.lists[l] = list]
  <1>3. s \in StoreType /\ s.notes = store.notes
    BY <1>2 DEF StoreType
  <1>4. CASE Stored(t, s, box[t])
    <2> HIDE DEF s
    <2>1. TypeOK' /\ TabsSee'
      BY <1>1, <1>2, <1>3, <1>4, StoredSees DEF TypeOK, StoreType, BoxType, Misses
    <2>2. store'.notes = store.notes /\ \A u \in Tabs : box'[u].notes \in {box[u].notes, store.notes}
      BY <1>1, <1>2, <1>3, <1>4, ReadAgainTypes DEF Stored, Written
    <2> QED  BY <1>1, <2>1, <2>2 DEF StoreInv, NotesOwned
  <1>5. CASE Written(t, s) /\ Shown(t, l, list) /\ UNCHANGED box
    <2>1. store' = s /\ dropped' = dropped /\ stale' \in [Tabs -> BOOLEAN] /\ (\A u \in Tabs \ {t} : stale'[u])
          /\ (stale[t] => stale'[t])
      BY <1>1, <1>5 DEF Written, TypeOK
    <2>2. view' \in [Tabs -> [Lists -> SUBSET Topics]] /\ missed' = missed
          /\ view'[t] = [view[t] EXCEPT ![l] = list]
      BY <1>1, <1>5, ZenonT(30) DEF Shown, TypeOK
    <2>3. TypeOK'
      <3> HIDE DEF s
      <3> QED  BY <1>1, <1>3, <1>5, <2>1, <2>2 DEF TypeOK, StoreType
    <2>4. view[t] = store.lists => view'[t] = store'.lists
      BY <1>2, <2>1, <2>2 DEF StoreType
    <2>5. TabsSee'
      <3> HIDE DEF s
      <3> QED  BY <1>1, <1>3, <1>5, <2>1, <2>2, <2>4 DEF TabsSee, TabSees
    <2>6. NotesOwned'
      <3> HIDE DEF s
      <3> QED  BY <1>1, <1>3, <1>5, <2>1 DEF NotesOwned
    <2> QED  BY <2>3, <2>5, <2>6 DEF StoreInv
  <1>6. CASE Dropped(t, box[t]) /\ Shown(t, l, list)
    <2>1. box' = box /\ store' = store /\ stale' = stale /\ dropped' = TRUE
      BY <1>1, <1>6 DEF Dropped, TypeOK
    <2>2. view' \in [Tabs -> [Lists -> SUBSET Topics]] /\ missed' = missed
      BY <1>1, <1>6, ZenonT(30) DEF Shown, TypeOK
    <2>3. TypeOK'
      BY <1>1, <2>1, <2>2 DEF TypeOK
    <2>4. TabsSee' /\ NotesOwned'
      BY <1>1, <2>1 DEF TabsSee, NotesOwned
    <2> QED  BY <2>3, <2>4 DEF StoreInv
  <1> QED  BY <1>4, <1>5, <1>6 DEF SetList

LEMMA ListActionsKeep ==
  ASSUME StoreInv, NEW t \in Tabs,
         \/ \E l \in Lists, x \in Topics : Toggle(t, l, x)
         \/ MarkDone(t) \/ Reset(t)
  PROVE  StoreInv'
PROOF
  <1>1. /\ view[t] \in [Lists -> SUBSET Topics] /\ box[t].topic \in Topics
        /\ "done" \in Lists /\ {} \in SUBSET Topics
    BY StoreAssumption DEF StoreInv, TypeOK
  <1>2. ASSUME NEW l \in Lists, NEW x \in Topics, Toggle(t, l, x) PROVE StoreInv'
    <2> DEFINE list == IF x \in view[t][l] THEN view[t][l] \ {x} ELSE view[t][l] \cup {x}
    <2>1. list \in SUBSET Topics /\ SetList(t, l, list)
      BY <1>1, <1>2 DEF Toggle
    <2> QED  BY <2>1, SetListKeeps
  <1>3. CASE MarkDone(t)
    <2>1. view[t]["done"] \cup {box[t].topic} \in SUBSET Topics
      BY <1>1
    <2> QED  BY <1>1, <1>3, <2>1, SetListKeeps DEF MarkDone
  <1>4. CASE Reset(t)
    BY <1>1, <1>4, SetListKeeps DEF Reset
  <1> QED  BY <1>2, <1>3, <1>4

LEMMA OrphanedTypes ==
  ASSUME TypeOK, NotesOwned, NEW t \in Tabs, timers' = Orphaned(t)
  PROVE  /\ timers' \in [Tabs -> SUBSET Timers]
         /\ \A u \in Tabs : /\ \A r, q \in timers'[u] : r.current /\ q.current => r = q
                            /\ \A r \in timers'[u] : /\ Owned(r.base, typed)
                                                    /\ r.text \in typed[r.topic]
PROOF
  <1>4. timers \in [Tabs -> SUBSET Timers] /\ DOMAIN timers' = Tabs /\ timers' = [u \in Tabs |-> timers'[u]]
    BY DEF TypeOK, Orphaned
  <1> SUFFICES ASSUME NEW u \in Tabs
               PROVE  /\ timers'[u] \subseteq Timers
                      /\ \A r, q \in timers'[u] : r.current /\ q.current => r = q
                      /\ \A r \in timers'[u] : Owned(r.base, typed) /\ r.text \in typed[r.topic]
    BY <1>4
  <1>1. \A r \in timers[u] : r \in Timers /\ Owned(r.base, typed) /\ r.text \in typed[r.topic]
    BY DEF TypeOK, NotesOwned
  <1>2. CASE u = t
    <2>1. timers'[u] = {[r EXCEPT !.current = FALSE] : r \in timers[t]}
      BY <1>2, <1>4 DEF Orphaned
    <2>2. ASSUME NEW q \in timers'[u]
          PROVE  q \in Timers /\ ~q.current /\ Owned(q.base, typed) /\ q.text \in typed[q.topic]
      <3>1. PICK r \in timers[t] : q = [r EXCEPT !.current = FALSE]
        BY <2>1
      <3>2. r \in Timers /\ Owned(r.base, typed) /\ r.text \in typed[r.topic]
        BY <1>1, <1>2
      <3>3. q \in Timers /\ ~q.current /\ q.base = r.base /\ q.text = r.text /\ q.topic = r.topic
        BY <3>1, <3>2 DEF Timers
      <3> QED  BY <3>2, <3>3
    <2> QED  BY <2>2
  <1>3. CASE u # t
    <2>1. timers'[u] = timers[u]
      BY <1>3, <1>4 DEF Orphaned
    <2> QED  BY <1>1, <2>1 DEF TypeOK
  <1> QED  BY <1>2, <1>3

LEMMA OpenTopicKeeps ==
  ASSUME StoreInv, NEW t \in Tabs, NEW x \in Topics, OpenTopic(t, x)
  PROVE  StoreInv'
PROOF
  <1> DEFINE opened == [box[t] EXCEPT !.state = "loading", !.topic = x]
  <1>1. TypeOK /\ NotesOwned /\ TabsSee /\ UNCHANGED <<deaf, typed>> /\ actions' \in 0 .. MaxActions
    BY ActCounts DEF StoreInv, OpenTopic
  <1>2. opened \in BoxType /\ opened.notes = box[t].notes /\ opened.state = "loading" /\ store \in StoreType
    BY <1>1 DEF TypeOK, BoxType, StoreType, BoxStates
  <1>3. /\ timers' \in [Tabs -> SUBSET Timers]
        /\ \A u \in Tabs : /\ \A r, q \in timers'[u] : r.current /\ q.current => r = q
                           /\ \A r \in timers'[u] : /\ Owned(r.base, typed)
                                                   /\ r.text \in typed[r.topic]
    BY <1>1, OrphanedTypes DEF OpenTopic
  <1>4. CASE Stored(t, store, opened)
    <2> HIDE DEF opened
    <2>1. TypeOK' /\ TabsSee'
      BY <1>1, <1>2, <1>3, <1>4, StoredSees DEF TypeOK, StoreType, BoxType, Misses
    <2>2. store' = store /\ \A u \in Tabs : box'[u].notes \in {box[u].notes, store.notes}
      BY <1>1, <1>2, <1>4, ReadAgainTypes, SMTT(20) DEF Stored, Written
    <2> QED  BY <1>1, <1>3, <2>1, <2>2 DEF StoreInv, NotesOwned
  <1>5. CASE /\ Dropped(t, opened)
             /\ view' = IF box[t].state = "absent"
                        THEN [view EXCEPT ![t] = store.lists] ELSE view
             /\ missed' = [missed EXCEPT ![t] = IF box[t].state = "absent" THEN {} ELSE @ \ {"note"}]
    <2> HIDE DEF opened
    <2>1. box' = [box EXCEPT ![t] = opened] /\ store' = store /\ stale' = stale /\ dropped' = TRUE
      BY <1>5 DEF Dropped
    <2>2. view' \in [Tabs -> [Lists -> SUBSET Topics]] /\ missed' \in Misses
      BY <1>1, <1>5 DEF TypeOK, Misses
    <2>3. box' \in [Tabs -> BoxType] /\ \A u \in Tabs : box'[u].notes = box[u].notes
      BY <1>1, <1>2, <2>1 DEF TypeOK, BoxType
    <2>4. TypeOK'
      BY <1>1, <1>3, <2>1, <2>2, <2>3 DEF TypeOK, BoxType, Misses
    <2>5. TabsSee' /\ NotesOwned'
      BY <1>1, <1>3, <2>1, <2>3 DEF TabsSee, NotesOwned
    <2> QED  BY <2>4, <2>5 DEF StoreInv
  <1> QED  BY <1>4, <1>5 DEF OpenTopic

LEMMA PendingSave ==
  ASSUME TypeOK, NotesOwned, NEW t \in Tabs, NEW r \in timers[t]
  PROVE  /\ r \in Timers /\ r.base \in Notes /\ r.topic \in Topics
         /\ Owned(r.base, typed) /\ r.text \in typed[r.topic]
PROOF
  <1>1. r \in Timers
    BY DEF TypeOK
  <1>2. r.base \in Notes /\ r.topic \in Topics
    BY <1>1 DEF Timers
  <1>3. Owned(r.base, typed) /\ r.text \in typed[r.topic]
    BY DEF NotesOwned
  <1> QED  BY <1>1, <1>2, <1>3

LEMMA BoxLeaves ==
  ASSUME TypeOK, NEW t \in Tabs, box' = [box EXCEPT ![t].state = "absent"]
  PROVE  /\ box' \in [Tabs -> BoxType] /\ \A u \in Tabs : box'[u].notes = box[u].notes
         /\ box'[t].state = "absent" /\ \A u \in Tabs \ {t} : box'[u] = box[u]
PROOF
  <1> DEFINE b == [box[t] EXCEPT !.state = "absent"]
  <1>1. box \in [Tabs -> BoxType]
    BY DEF TypeOK, BoxType
  <1>2. b \in BoxType /\ b.state = "absent" /\ b.notes = box[t].notes
    BY <1>1 DEF BoxType, BoxStates
  <1>3. box' = [box EXCEPT ![t] = b]
    OBVIOUS
  <1> HIDE DEF b
  <1> QED  BY <1>1, <1>2, <1>3

\* A page whose hooks have just read the store.
LEMMA ViewReads ==
  ASSUME TypeOK, NEW t \in Tabs, view' = [view EXCEPT ![t] = store.lists], missed' = [missed EXCEPT ![t] = {}]
  PROVE  /\ view' \in [Tabs -> [Lists -> SUBSET Topics]] /\ view'[t] = store.lists
         /\ missed' \in Misses
         /\ \A u \in Tabs \ {t} : view'[u] = view[u] /\ missed'[u] = missed[u]
BY DEF TypeOK, Misses

LEMMA LeaveTopicKeeps ==
  ASSUME StoreInv, NEW t \in Tabs, LeaveTopic(t)
  PROVE  StoreInv'
PROOF
  <1>1. TypeOK /\ NotesOwned /\ TabsSee /\ actions' \in 0 .. MaxActions
        /\ UNCHANGED <<store, stale, deaf, dropped, typed>>
    BY ActCounts DEF StoreInv, LeaveTopic
  <1>2. /\ timers' \in [Tabs -> SUBSET Timers]
        /\ \A u \in Tabs : /\ \A r, q \in timers'[u] : r.current /\ q.current => r = q
                           /\ \A r \in timers'[u] : /\ Owned(r.base, typed)
                                                   /\ r.text \in typed[r.topic]
    BY <1>1, OrphanedTypes DEF LeaveTopic
  <1>3. /\ view' \in [Tabs -> [Lists -> SUBSET Topics]] /\ view'[t] = store.lists /\ missed' \in Misses
        /\ \A u \in Tabs \ {t} : view'[u] = view[u] /\ missed'[u] = missed[u]
    BY <1>1, ViewReads DEF LeaveTopic
  <1>4. /\ box' \in [Tabs -> BoxType] /\ \A u \in Tabs : box'[u].notes = box[u].notes
        /\ box'[t].state = "absent" /\ \A u \in Tabs \ {t} : box'[u] = box[u]
    <2>1. box' = [box EXCEPT ![t].state = "absent"]
      BY DEF LeaveTopic
    <2> QED  BY <1>1, <2>1, BoxLeaves
  <1>5. TypeOK'
    BY <1>1, <1>2, <1>3, <1>4 DEF TypeOK, BoxType, Misses
  <1>6. TabsSee'
    BY <1>1, <1>3, <1>4 DEF TabsSee, TabSees
  <1>7. NotesOwned'
    BY <1>1, <1>2, <1>4 DEF NotesOwned
  <1> QED  BY <1>5, <1>6, <1>7 DEF StoreInv

LEMMA LoadKeeps ==
  ASSUME StoreInv, NEW t \in Tabs, Load(t)
  PROVE  StoreInv'
PROOF
  <1>1. TypeOK /\ NotesOwned /\ TabsSee
        /\ UNCHANGED <<store, view, timers, stale, deaf, missed, dropped, typed, actions>>
    BY DEF StoreInv, Load
  <1>2. /\ box' \in [Tabs -> BoxType] /\ box'[t].notes = store.notes
        /\ \A u \in Tabs \ {t} : box'[u] = box[u]
    BY <1>1, ZenonT(30) DEF Load, TypeOK, BoxType, BoxStates
  <1>3. TypeOK'
    BY <1>1, <1>2 DEF TypeOK, BoxType
  <1>4. TabsSee'
    BY <1>1, <1>2 DEF TabsSee, TabSees
  <1>5. NotesOwned'
    BY <1>1, <1>2 DEF NotesOwned
  <1> QED  BY <1>3, <1>4, <1>5 DEF StoreInv

LEMMA SubscribeKeeps ==
  ASSUME StoreInv, NEW t \in Tabs, Subscribe(t)
  PROVE  StoreInv'
PROOF
  <1>1. TypeOK /\ NotesOwned /\ TabsSee /\ box[t].state = "mounted"
        /\ UNCHANGED <<store, view, timers, stale, deaf, missed, dropped, typed, actions>>
    BY DEF StoreInv, Subscribe
  <1>2. /\ box' \in [Tabs -> BoxType] /\ box'[t].notes = box[t].notes
        /\ \A u \in Tabs \ {t} : box'[u] = box[u]
    BY <1>1 DEF Subscribe, TypeOK, BoxType, BoxStates
  <1>3. TypeOK'
    BY <1>1, <1>2 DEF TypeOK, BoxType
  <1>4. TabsSee'
    BY <1>1, <1>2 DEF TabsSee, TabSees
  <1>5. NotesOwned'
    BY <1>1, <1>2 DEF NotesOwned
  <1> QED  BY <1>3, <1>4, <1>5 DEF StoreInv

LEMMA TypeKeeps ==
  ASSUME StoreInv, NEW t \in Tabs, NEW text \in Texts \cup {Blank}, Type(t, text)
  PROVE  StoreInv'
PROOF
  <1> DEFINE r == [topic |-> box[t].topic, text |-> text, base |-> box[t].notes, current |-> TRUE]
  <1>1. TypeOK /\ NotesOwned /\ TabsSee /\ actions' \in 0 .. MaxActions
        /\ UNCHANGED <<store, view, box, stale, deaf, missed, dropped>>
    BY ActCounts DEF StoreInv, Type
  <1>2. r \in Timers /\ r.current /\ r.topic = box[t].topic /\ r.text = text /\ r.base = box[t].notes
    BY <1>1 DEF TypeOK, Timers
  <1>3. typed' \in [Topics -> SUBSET (Texts \cup {Blank})] /\ text \in typed'[box[t].topic]
        /\ \A x \in Topics : typed[x] \subseteq typed'[x]
    BY <1>1 DEF Type, TypeOK
  <1>4. /\ \A u \in Tabs \ {t} : timers'[u] = timers[u]
        /\ \A q \in timers'[t] : (q \in timers[t] /\ ~q.current) \/ q = r
    <2> HIDE DEF r
    <2>1. timers' = [timers EXCEPT ![t] = {q \in @ : ~q.current} \cup {r}]
      BY DEF Type, r
    <2>2. timers \in [Tabs -> SUBSET Timers]
      BY <1>1 DEF TypeOK
    <2> QED  BY <2>1, <2>2
  <1>5. ASSUME NEW u \in Tabs
        PROVE  /\ timers'[u] \subseteq Timers
               /\ \A p, q \in timers'[u] : p.current /\ q.current => p = q
    <2> HIDE DEF r
    <2> QED  BY <1>1, <1>2, <1>4 DEF TypeOK
  <1>6. TypeOK'
    <2>1. timers' \in [Tabs -> SUBSET Timers]
      BY <1>1, <1>5 DEF Type, TypeOK
    <2> QED  BY <1>1, <1>3, <1>5, <2>1 DEF TypeOK
  <1>7. TabsSee'
    BY <1>1 DEF TabsSee, TabSees
  <1>8. NotesOwned'
    <2>1. Owned(store'.notes, typed') /\ \A u \in Tabs : Owned(box'[u].notes, typed')
      BY <1>1, <1>3, OwnedStays DEF NotesOwned
    <2>2. ASSUME NEW u \in Tabs, NEW q \in timers'[u]
          PROVE  Owned(q.base, typed') /\ q.text \in typed'[q.topic]
      <3>1. CASE q \in timers[u]
        <4>1. Owned(q.base, typed) /\ q.text \in typed[q.topic] /\ q.topic \in Topics
          BY <1>1, <3>1, PendingSave
        <4> QED  BY <1>3, <4>1, OwnedStays
      <3>2. CASE u = t /\ q = r
        <4> HIDE DEF r
        <4> QED  BY <1>1, <1>2, <1>3, <2>1, <3>2
      <3> HIDE DEF r
      <3> QED  BY <1>4, <3>1, <3>2
    <2> QED  BY <2>1, <2>2 DEF NotesOwned
  <1> QED  BY <1>6, <1>7, <1>8 DEF StoreInv

LEMMA SaveNoteKeeps ==
  ASSUME StoreInv, NEW t \in Tabs, NEW r \in timers[t], SaveNote(t, r)
  PROVE  StoreInv'
PROOF
  <1> DEFINE notes == [r.base EXCEPT ![r.topic] = r.text]
             own == IF r.current THEN [box[t] EXCEPT !.notes = notes] ELSE box[t]
             s == [store EXCEPT !.notes = notes]
  <1>1. TypeOK /\ NotesOwned /\ TabsSee /\ UNCHANGED <<deaf, typed, actions>>
    BY DEF StoreInv, SaveNote
  <1>2. r \in Timers /\ Owned(r.base, typed) /\ r.text \in typed[r.topic] /\ r.base \in Notes /\ r.topic \in Topics
    BY <1>1, PendingSave
  <1>3. notes \in Notes /\ Owned(notes, typed)
    <2>1. notes \in Notes
      BY <1>2 DEF Timers, Notes
    <2> QED  BY <1>2, <2>1, OwnedWith
  <1>4. /\ own \in BoxType /\ Owned(own.notes, typed)
        /\ s \in StoreType /\ s.notes = notes /\ s.lists = store.lists
    <2> HIDE DEF notes
    <2>1. box[t] \in BoxType /\ Owned(box[t].notes, typed) /\ store \in StoreType
      BY <1>1 DEF TypeOK, NotesOwned, BoxType, StoreType
    <2> QED  BY <1>3, <2>1 DEF BoxType, StoreType
  <1>5. timers' = [timers EXCEPT ![t] = @ \ {r}]
    BY DEF SaveNote
  <1>6. timers' \in [Tabs -> SUBSET Timers] /\ \A u \in Tabs : timers'[u] \subseteq timers[u]
    BY <1>1, <1>5 DEF TypeOK
  <1>7. Stored(t, s, own) \/ (Dropped(t, own) /\ UNCHANGED <<view, missed>>)
    BY DEF SaveNote
  <1> HIDE DEF notes, own, s
  <1>8. CASE Stored(t, s, own)
    <2>1. TypeOK' /\ TabsSee'
      BY <1>1, <1>4, <1>6, <1>8, StoredSees DEF TypeOK, StoreType, BoxType, Misses
    <2>2. store'.notes = notes
      BY <1>4, <1>8 DEF Stored, Written
    <2>3. ASSUME NEW u \in Tabs PROVE Owned(box'[u].notes, typed)
      <3>1. box'[u].notes \in {box[u].notes, own.notes, notes}
        BY <1>1, <1>4, <1>8, ReadAgainTypes DEF Stored, Written
      <3> QED  BY <1>1, <1>3, <1>4, <3>1 DEF NotesOwned
    <2> QED  BY <1>1, <1>3, <1>6, <2>1, <2>2, <2>3 DEF StoreInv, NotesOwned
  <1>9. CASE Dropped(t, own) /\ UNCHANGED <<view, missed>>
    <2>1. box' = [box EXCEPT ![t] = own] /\ store' = store /\ stale' = stale /\ dropped' = TRUE
      BY <1>9 DEF Dropped
    <2>2. box' \in [Tabs -> BoxType] /\ \A u \in Tabs : Owned(box'[u].notes, typed)
      BY <1>1, <1>4, <2>1 DEF TypeOK, BoxType, NotesOwned
    <2>3. TypeOK'
      BY <1>1, <1>6, <1>9, <2>1, <2>2 DEF TypeOK, BoxType
    <2>4. TabsSee' /\ NotesOwned'
      BY <1>1, <1>6, <2>1, <2>2 DEF TabsSee, NotesOwned
    <2> QED  BY <2>3, <2>4 DEF StoreInv
  <1> QED  BY <1>7, <1>8, <1>9

LEMMA ImportKeeps ==
  ASSUME StoreInv, NEW t \in Tabs, NEW f \in Files, ImportFile(t, f)
  PROVE  StoreInv'
PROOF
  <1>1. TypeOK /\ NotesOwned /\ TabsSee /\ actions' \in 0 .. MaxActions
        /\ UNCHANGED <<timers, deaf>> /\ box[t].state = "absent"
    BY ActCounts DEF StoreInv, ImportFile
  <1>2. PICK keys \in SUBSET f.keys :
           /\ dropped' = (dropped \/ keys # f.keys)
           /\ store' = [lists |-> [l \in Lists |-> IF l \in keys THEN f.lists[l]
                                                   ELSE store.lists[l]],
                        notes |-> IF "notes" \in keys THEN f.notes ELSE store.notes]
           /\ IF keys = {} THEN UNCHANGED <<view, box, stale, missed>>
              ELSE /\ ReadAgain(t, store', box[t])
                   /\ stale' = [u \in Tabs |-> stale[u] \/ u # t]
           /\ typed' = IF "notes" \in keys
                       THEN [x \in Topics |-> typed[x] \cup {f.notes[x]}] ELSE typed
    BY DEF ImportFile
  <1>3. f.lists \in [Lists -> SUBSET Topics] /\ f.notes \in Notes
    BY StoreAssumption DEF Notes
  <1>4. store \in StoreType /\ store' \in StoreType /\ dropped' \in BOOLEAN
    BY <1>1, <1>2, <1>3 DEF TypeOK, StoreType
  <1>5. typed' \in [Topics -> SUBSET (Texts \cup {Blank})] /\ \A x \in Topics : typed[x] \subseteq typed'[x]
    BY <1>1, <1>2, <1>3, ZenonT(30) DEF TypeOK, Notes
  <1>6. Owned(store'.notes, typed')
    <2>1. CASE "notes" \in keys
      BY <1>2, <2>1 DEF Owned
    <2>2. CASE "notes" \notin keys
      BY <1>1, <1>2, <2>2 DEF NotesOwned
    <2> QED  BY <2>1, <2>2
  <1>7. \A u \in Tabs : /\ Owned(box[u].notes, typed')
                       /\ \A r \in timers'[u] : Owned(r.base, typed') /\ r.text \in typed'[r.topic]
    <2> TAKE u \in Tabs
    <2>1. Owned(box[u].notes, typed')
      BY <1>1, <1>5, OwnedStays DEF NotesOwned
    <2>2. ASSUME NEW r \in timers'[u] PROVE Owned(r.base, typed') /\ r.text \in typed'[r.topic]
      <3>1. r \in timers[u]
        BY <1>1
      <3>2. r \in Timers /\ Owned(r.base, typed) /\ r.text \in typed[r.topic] /\ r.topic \in Topics
        BY <1>1, <3>1, PendingSave
      <3> QED  BY <1>5, <3>2, OwnedStays
    <2> QED  BY <2>1, <2>2
  <1>8. CASE keys = {}
    <2>1. store' = store
      BY <1>2, <1>4, <1>8 DEF StoreType
    <2>2. UNCHANGED <<view, box, stale, missed>> /\ (~dropped' => ~dropped)
      BY <1>2, <1>8
    <2>3. TypeOK'
      BY <1>1, <1>4, <1>5, <2>1, <2>2 DEF TypeOK
    <2>4. TabsSee'
      BY <1>1, <2>1, <2>2 DEF TabsSee, TabSees, TypeOK
    <2>5. NotesOwned'
      BY <1>6, <1>7, <2>2 DEF NotesOwned
    <2> QED  BY <2>3, <2>4, <2>5 DEF StoreInv
  <1>9. CASE keys # {}
    <2>1. ReadAgain(t, store', box[t]) /\ stale' = [u \in Tabs |-> stale[u] \/ u # t] /\ box[t] \in BoxType
      BY <1>1, <1>2, <1>9 DEF TypeOK, BoxType
    <2>2. /\ view' \in [Tabs -> [Lists -> SUBSET Topics]]
          /\ box' \in [Tabs -> BoxType]
          /\ missed' \in Misses
          /\ view'[t] = store'.lists \/ "lists" \in missed'[t]
          /\ box'[t].state = "absent"
          /\ \A u \in Tabs : box'[u].notes \in {box[u].notes, store'.notes}
      BY <1>1, <1>4, <2>1, ReadAgainTypes, ZenonT(30)
    <2>3. stale' \in [Tabs -> BOOLEAN] /\ \A u \in Tabs \ {t} : stale'[u]
      BY <1>1, <2>1 DEF TypeOK
    <2>4. TypeOK'
      BY <1>1, <1>4, <1>5, <2>2, <2>3 DEF TypeOK, StoreType, BoxType, Misses
    <2>5. \A u \in Tabs : TabSees(u)'
      BY <2>2, <2>3 DEF TabSees
    <2>6. NotesOwned'
      BY <1>6, <1>7, <2>2 DEF NotesOwned
    <2> QED  BY <2>4, <2>5, <2>6 DEF StoreInv, TabsSee
  <1> QED  BY <1>8, <1>9

LEMMA StorageEventKeeps ==
  ASSUME StoreInv, NEW t \in Tabs, StorageEvent(t)
  PROVE  StoreInv'
PROOF
  <1>1. TypeOK /\ NotesOwned /\ TabsSee /\ ReadAgain(t, store, box[t])
        /\ stale' = [stale EXCEPT ![t] = FALSE]
        /\ UNCHANGED <<store, timers, deaf, dropped, typed, actions>>
    BY DEF StoreInv, StorageEvent
  <1>2. store \in StoreType /\ box[t] \in BoxType
    BY <1>1 DEF TypeOK, StoreType, BoxType
  <1>3. /\ view' \in [Tabs -> [Lists -> SUBSET Topics]]
        /\ box' \in [Tabs -> BoxType]
        /\ missed' \in Misses
        /\ view'[t] = store.lists \/ "lists" \in missed'[t]
        /\ box'[t].state = box[t].state
        /\ box[t].state = "listening" => box'[t].notes = store.notes
        /\ box[t].state = "mounted" => "note" \in missed'[t]
        /\ \A u \in Tabs : box'[u].notes \in {box[u].notes, store.notes}
        /\ \A u \in Tabs \ {t} : /\ view'[u] = view[u] /\ box'[u] = box[u]
                                 /\ missed'[u] = missed[u]
    BY <1>1, <1>2, ReadAgainTypes
  <1>4. TypeOK'
    BY <1>1, <1>3 DEF TypeOK, BoxType, Misses
  <1>5. TabsSee'
    BY <1>1, <1>3 DEF TabsSee, TabSees
  <1>6. NotesOwned'
    BY <1>1, <1>3 DEF NotesOwned
  <1> QED  BY <1>4, <1>5, <1>6 DEF StoreInv

LEMMA ReloadKeeps ==
  ASSUME StoreInv, NEW t \in Tabs, Reload(t)
  PROVE  StoreInv'
PROOF
  <1>1. TypeOK /\ NotesOwned /\ TabsSee /\ actions' \in 0 .. MaxActions
        /\ UNCHANGED <<store, dropped, typed>> /\ deaf' = deaf \cup {t}
        /\ timers' = [timers EXCEPT ![t] = {}] /\ stale' = [stale EXCEPT ![t] = FALSE]
    BY ActCounts DEF StoreInv, Reload
  <1>2. /\ view' \in [Tabs -> [Lists -> SUBSET Topics]] /\ view'[t] = store.lists /\ missed' \in Misses
        /\ \A u \in Tabs \ {t} : view'[u] = view[u] /\ missed'[u] = missed[u]
    BY <1>1, ViewReads DEF Reload
  <1>3. /\ box' \in [Tabs -> BoxType] /\ \A u \in Tabs : box'[u].notes = box[u].notes
        /\ box'[t].state \in {"absent", "loading"} /\ \A u \in Tabs \ {t} : box'[u] = box[u]
    <2> DEFINE b == [box[t] EXCEPT !.state = IF @ = "absent" THEN "absent" ELSE "loading"]
    <2>1. box \in [Tabs -> BoxType]
      BY <1>1 DEF TypeOK, BoxType
    <2>2. b \in BoxType /\ b.state \in {"absent", "loading"} /\ b.notes = box[t].notes
      BY <2>1 DEF BoxType, BoxStates
    <2>3. box' = [box EXCEPT ![t] = b]
      BY DEF Reload
    <2> HIDE DEF b
    <2> QED  BY <2>1, <2>2, <2>3
  <1>4. timers' \in [Tabs -> SUBSET Timers] /\ \A u \in Tabs : timers'[u] \subseteq timers[u]
    BY <1>1 DEF TypeOK
  <1>5. TypeOK'
    BY <1>1, <1>2, <1>3, <1>4 DEF TypeOK, BoxType, Misses
  <1>6. TabsSee'
    <2>1. \A u \in Tabs \ {t} : stale'[u] = stale[u]
      BY <1>1 DEF TypeOK
    <2> QED  BY <1>1, <1>2, <1>3, <2>1 DEF TabsSee, TabSees
  <1>7. NotesOwned'
    BY <1>1, <1>3, <1>4 DEF NotesOwned
  <1> QED  BY <1>5, <1>6, <1>7 DEF StoreInv

LEMMA ListenKeeps ==
  ASSUME StoreInv, NEW t \in Tabs, Listen(t)
  PROVE  StoreInv'
PROOF
  <1>1. TypeOK /\ NotesOwned /\ TabsSee /\ deaf' = deaf \ {t} /\ UNCHANGED <<timers, typed, actions>>
    BY DEF StoreInv, Listen
  <1>2. CASE UNCHANGED <<store, view, box, stale, missed, dropped>>
    BY <1>1, <1>2 DEF StoreInv, TypeOK, TabsSee, TabSees, NotesOwned
  <1>3. CASE /\ Written(t, store) /\ UNCHANGED box
             /\ view' = [view EXCEPT ![t] = store.lists]
             /\ missed' = [missed EXCEPT ![t] = @ \ {"lists"}]
    <2>1. store' = store /\ stale' \in [Tabs -> BOOLEAN] /\ dropped' = dropped
          /\ (\A u \in Tabs \ {t} : stale'[u]) /\ stale'[t] = stale[t]
      BY <1>1, <1>3 DEF Written, TypeOK
    <2>2. /\ view' \in [Tabs -> [Lists -> SUBSET Topics]] /\ view'[t] = store.lists
          /\ missed' \in Misses /\ ("note" \in missed[t] => "note" \in missed'[t])
      BY <1>1, <1>3 DEF TypeOK, Misses
    <2>3. TypeOK'
      BY <1>1, <1>3, <2>1, <2>2 DEF TypeOK, Misses
    <2>4. TabsSee'
      BY <1>1, <1>3, <2>1, <2>2 DEF TabsSee, TabSees
    <2>5. NotesOwned'
      BY <1>1, <1>3, <2>1 DEF NotesOwned
    <2> QED  BY <2>3, <2>4, <2>5 DEF StoreInv
  <1>4. CASE Dropped(t, box[t]) /\ UNCHANGED <<view, missed>>
    <2>1. box' = box /\ store' = store /\ stale' = stale /\ dropped' = TRUE
      BY <1>1, <1>4 DEF Dropped, TypeOK
    <2> QED  BY <1>1, <1>4, <2>1 DEF StoreInv, TypeOK, TabsSee, NotesOwned
  <1> QED  BY <1>2, <1>3, <1>4 DEF Listen

-----------------------------------------------------------------------------
(* The theorems.                                                              *)

LEMMA StoreInductive == StoreInv /\ [Next]_vars => StoreInv'
PROOF
  <1> SUFFICES ASSUME StoreInv, [Next]_vars PROVE StoreInv'
    OBVIOUS
  <1>1. CASE Next
    <2>1. PICK t \in Tabs :
            \/ \E l \in Lists, x \in Topics : Toggle(t, l, x)
            \/ MarkDone(t) \/ Reset(t)
            \/ \E x \in Topics : OpenTopic(t, x)
            \/ LeaveTopic(t)
            \/ \E text \in Texts \cup {Blank} : Type(t, text)
            \/ \E f \in Files : ImportFile(t, f)
            \/ Reload(t)
            \/ Background(t)
      BY <1>1 DEF Next
    <2>2. CASE Background(t)
      BY <2>2, ListenKeeps, LoadKeeps, SubscribeKeeps, StorageEventKeeps, SaveNoteKeeps DEF Background
    <2> QED  BY <2>1, <2>2, ListActionsKeep, OpenTopicKeeps, LeaveTopicKeeps, TypeKeeps, ImportKeeps, ReloadKeeps
  <1>2. CASE UNCHANGED vars
    BY <1>2 DEF vars, StoreInv, TypeOK, TabsSee, TabSees, NotesOwned
  <1> QED  BY <1>1, <1>2

\* What the variables hold, and that a tab has at most one save of the note box
\* it shows pending.
THEOREM StoreTypes == Spec => []TypeOK
PROOF
  <1>1. Init => StoreInv
    BY StoreInitially
  <1>2. StoreInv => TypeOK
    BY DEF StoreInv
  <1> QED  BY <1>1, <1>2, StoreInductive, PTL DEF Spec

\* As long as setItem has not failed, what the handlers of any tab compute from
\* is what is stored, unless an event is on its way to the tab, or reached it
\* between a render of its hooks and their effects.
THEOREM HandlersAlwaysSeeStore == Spec => []HandlersSeeStore
PROOF
  <1>1. Init => StoreInv
    BY StoreInitially
  <1>2. StoreInv => HandlersSeeStore
    BY DEF StoreInv, TabsSee, TabSees, HandlersSeeStore
  <1> QED  BY <1>1, <1>2, StoreInductive, PTL DEF Spec

\* No save, however late, and no import stores a note under a topic it was not
\* typed or imported for.
THEOREM NotesAlwaysStay == Spec => []NotesStayWithTheirTopic
PROOF
  <1>1. Init => StoreInv
    BY StoreInitially
  <1>2. StoreInv => NotesStayWithTheirTopic
    BY DEF StoreInv, NotesOwned, Owned, NotesStayWithTheirTopic
  <1> QED  BY <1>1, <1>2, StoreInductive, PTL DEF Spec

-----------------------------------------------------------------------------
(* Lists change by one topic at a time.                                       *)

Before == store.lists["done"]
AfterStep == store'.lists["done"]
Differ == (Before \ AfterStep) \cup (AfterStep \ Before)

\* At most one topic changed, or a reset, or an import.
OneTopic ==
  \/ Cardinality(Differ) <= 1
  \/ AfterStep = {}
  \/ \E f \in Files : "done" \in f.keys /\ AfterStep = f.lists["done"]

LEMMA AtMostOneDiffers ==
  ASSUME NEW x, Differ \subseteq {x}
  PROVE  Cardinality(Differ) <= 1
PROOF
  <1>1. Differ = {} \/ Differ = {x}
    OBVIOUS
  <1>2. Cardinality({}) = 0 /\ Cardinality({x}) = 1
    BY FS_EmptySet, FS_Singleton
  <1> QED  BY <1>1, <1>2

\* The setter of a list's hook.
LEMMA SetListDiffers ==
  ASSUME TypeOK, NEW t \in Tabs, NEW l \in Lists, NEW list, SetList(t, l, list)
  PROVE  \/ AfterStep = Before
         \/ l = "done" /\ AfterStep = list
PROOF
  <1>1. "done" \in Lists /\ store \in StoreType
    BY StoreAssumption DEF TypeOK, StoreType
  <1>2. CASE Written(t, [store EXCEPT !.lists[l] = list])
    BY <1>1, <1>2 DEF Written, StoreType, AfterStep, Before
  <1>3. CASE Dropped(t, box[t])
    BY <1>3 DEF Dropped, AfterStep, Before
  <1> QED  BY <1>2, <1>3 DEF SetList, Stored

LEMMA NothingDiffers ==
  ASSUME AfterStep = Before
  PROVE  OneTopic
PROOF
  <1>1. Differ \subseteq {"any"}
    BY DEF Differ
  <1> QED  BY <1>1, AtMostOneDiffers DEF OneTopic

LEMMA ListActionsDiffer ==
  ASSUME TypeOK, NEW t \in Tabs, view[t] = store.lists,
         \/ \E l \in Lists, x \in Topics : Toggle(t, l, x)
         \/ MarkDone(t) \/ Reset(t)
  PROVE  OneTopic
PROOF
  <1>1. "done" \in Lists /\ view[t]["done"] = Before
    BY StoreAssumption DEF Before
  <1>2. ASSUME NEW l \in Lists, NEW x \in Topics, Toggle(t, l, x) PROVE OneTopic
    <2> DEFINE list == IF x \in view[t][l] THEN view[t][l] \ {x} ELSE view[t][l] \cup {x}
    <2>1. SetList(t, l, list)
      BY <1>2 DEF Toggle
    <2>2. CASE l = "done" /\ AfterStep = list
      <3>1. Differ \subseteq {x}
        BY <1>1, <2>2 DEF Differ
      <3> QED  BY <3>1, AtMostOneDiffers DEF OneTopic
    <2> QED  BY <2>1, <2>2, SetListDiffers, NothingDiffers
  <1>3. CASE MarkDone(t)
    <2> DEFINE x == box[t].topic
    <2>1. SetList(t, "done", Before \cup {x})
      BY <1>1, <1>3 DEF MarkDone
    <2>2. CASE AfterStep = Before \cup {x}
      <3>1. Differ \subseteq {x}
        BY <2>2 DEF Differ
      <3> QED  BY <3>1, AtMostOneDiffers DEF OneTopic
    <2> QED  BY <1>1, <2>1, <2>2, SetListDiffers, NothingDiffers
  <1>4. CASE Reset(t)
    <2>1. AfterStep = Before \/ AfterStep = {}
      BY <1>1, <1>4, SetListDiffers DEF Reset
    <2> QED  BY <2>1, NothingDiffers DEF OneTopic
  <1> QED  BY <1>2, <1>3, <1>4

LEMMA ImportDiffers ==
  ASSUME NEW t \in Tabs, NEW f \in Files, ImportFile(t, f)
  PROVE  OneTopic
PROOF
  <1>1. PICK keys \in SUBSET f.keys :
           store' = [lists |-> [l \in Lists |-> IF l \in keys THEN f.lists[l]
                                                   ELSE store.lists[l]],
                     notes |-> IF "notes" \in keys THEN f.notes ELSE store.notes]
    BY DEF ImportFile
  <1>2. AfterStep = IF "done" \in keys THEN f.lists["done"] ELSE Before
    BY <1>1, StoreAssumption DEF AfterStep, Before
  <1> QED  BY <1>2, NothingDiffers DEF OneTopic

\* While no event is on its way or was missed by a first render, and setItem has
\* not failed, nothing but a reset or an import changes the completion of more
\* than one topic.
THEOREM AlwaysOneTopicAtATime == Spec => OneTopicAtATime
PROOF
  <1>1. Init => StoreInv
    BY StoreInitially
  <1> DEFINE Quiet == ~dropped /\ \A t \in Tabs : ~stale[t] /\ "lists" \notin missed[t]
             Step == [Quiet => OneTopic]_vars
  <1>2. StoreInv /\ [Next]_vars => Step
    <2> SUFFICES ASSUME StoreInv, Next, Quiet PROVE OneTopic
      OBVIOUS
    <2>1. TypeOK /\ \A t \in Tabs : view[t] = store.lists
      BY DEF StoreInv, TabsSee, TabSees
    <2>2. PICK t \in Tabs :
            \/ \E l \in Lists, x \in Topics : Toggle(t, l, x)
            \/ MarkDone(t) \/ Reset(t)
            \/ \E x \in Topics : OpenTopic(t, x)
            \/ LeaveTopic(t)
            \/ \E text \in Texts \cup {Blank} : Type(t, text)
            \/ \E f \in Files : ImportFile(t, f)
            \/ Reload(t)
            \/ Background(t)
      BY DEF Next
    <2>3. CASE \/ \E x \in Topics : OpenTopic(t, x)
               \/ LeaveTopic(t)
               \/ \E text \in Texts \cup {Blank} : Type(t, text)
               \/ Reload(t)
      <3>1. store' = store
        BY <2>3 DEF OpenTopic, LeaveTopic, Type, Reload, Stored, Written, Dropped
      <3> QED  BY <3>1, NothingDiffers DEF AfterStep, Before
    <2>4. CASE Background(t)
      <3>1. CASE Listen(t) \/ Load(t) \/ Subscribe(t) \/ StorageEvent(t)
        BY <3>1, NothingDiffers DEF Listen, Written, Dropped, Load, Subscribe, StorageEvent, AfterStep, Before
      <3>2. ASSUME NEW r \in timers[t], SaveNote(t, r) PROVE OneTopic
        <4>1. store \in StoreType
          BY <2>1 DEF TypeOK, StoreType
        <4>2. store'.lists = store.lists
          BY <3>2, <4>1 DEF SaveNote, Stored, Written, Dropped, StoreType
        <4> QED  BY <4>2, NothingDiffers DEF AfterStep, Before
      <3> QED  BY <2>4, <3>1, <3>2 DEF Background
    <2> QED  BY <2>1, <2>2, <2>3, <2>4, ListActionsDiffer, ImportDiffers
  <1>3. Step => [LET before == store.lists["done"]
                     after  == store'.lists["done"]
                 IN ~dropped /\ (\A t \in Tabs : ~stale[t] /\ "lists" \notin missed[t]) =>
                      \/ Cardinality((before \ after) \cup (after \ before)) <= 1
                      \/ after = {}
                      \/ \E f \in Files : "done" \in f.keys /\ after = f.lists["done"]]_vars
    BY DEF OneTopic, Differ, Before, AfterStep
  <1> QED  BY <1>1, <1>2, <1>3, StoreInductive, PTL DEF Spec, OneTopicAtATime
=============================================================================
