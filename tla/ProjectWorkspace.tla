-------------------------- MODULE ProjectWorkspace --------------------------
(***************************************************************************)
(* The projects of a browser: the keys of localStorage that                *)
(* LocalProjectStorage keeps (an index, one item per project, and the      *)
(* single slot of older releases), and the tabs that work on them: App.tsx *)
(* with its debounced save, and the parts of the store that load, replace  *)
(* and reset a project.                                                    *)
(*                                                                         *)
(* localStorage is synchronous, so what the code awaits here are resolved  *)
(* promises: a handler of a tab runs to its end before another event of    *)
(* that tab.  It is one step, and what may happen within it is a setItem   *)
(* that is refused (quota) or the death of the tab, between any two        *)
(* writes.  Handlers of different tabs are taken to be atomic, too.        *)
(***************************************************************************)
EXTENDS Naturals, Sequences, FiniteSets, SequencesExt

CONSTANTS
    Tabs,
    Projects,   \* project ids
    Demo,       \* the id of the demo project, which is the same for everybody
    None,       \* null, an absent key
    Corrupt,    \* an item that parseProject() rejects, an unreadable index
    MaxEdits    \* bound on revisions

ASSUME DemoAssumption == Demo \in Projects
ASSUME EditsAssumption == MaxEdits \in Nat

VARIABLES
    disk,     \* localStorage
    app,      \* per tab: what App and the store hold
    edits,    \* the newest revision
    fresh,    \* ids that createBlankProject() has not handed out
    kept,     \* history: projects that were saved and not deleted
    gone      \* history: deleted projects that no other tab showed

vars == <<disk, app, edits, fresh, kept, gone>>

-----------------------------------------------------------------------------
(* localStorage                                                            *)

\* A project as stored: its schema and which revision of the user's work it
\* holds.  Revision 0 is a pristine demo or blank project.
Schemas == {"current", "legacy", "unknown"}
Content == [schema : Schemas, rev : 0 .. MaxEdits]
Pristine == [schema |-> "current", rev |-> 0]

StoredIndex == [ids : Seq(Projects), active : Projects \cup {None}]
EmptyIndex == [ids |-> <<>>, active |-> None]

ASSUME NoneAssumption == None \notin Projects \cup Content \cup {Corrupt}
ASSUME CorruptAssumption == Corrupt \notin Content
ASSUME IndexAssumption == {None, Corrupt} \cap StoredIndex = {}

\* filter((id) => id !== p) of a sequence of ids.
Without(ids, p) ==
    LET rest[n \in 0 .. Len(ids)] ==
            IF n = 0 THEN <<>>
            ELSE IF ids[n] = p THEN rest[n - 1]
            ELSE Append(rest[n - 1], ids[n])
    IN rest[Len(ids)]

\* The index of a disk on which readIndex() has succeeded.
IndexOf(d) == IF d.index \in {None, Corrupt} THEN EmptyIndex ELSE d.index

\* What can become of a handler that writes: it succeeds, it throws, or the
\* tab dies on the way.
Ok(d) == [disk |-> d, end |-> "ok"]
Thrown(d) == [disk |-> d, end |-> "thrown"]
Dead(d) == [disk |-> d, end |-> "dead"]

\* One setItem(): the new disk, or the old one with an exception, or nothing
\* more happens.
Put(before, after) == {Ok(after), Thrown(before), Dead(before)}

\* An operation after one with these outcomes.
Then(outcomes, Op(_)) ==
    UNION {IF o.end = "ok" THEN Op(o.disk) ELSE {o} : o \in outcomes}

WithItem(d, p, c) == [d EXCEPT !.items[p] = c]
WithIndex(d, i) == [d EXCEPT !.index = i]

\* Mutant of ReadIndex: the old slot is emptied before its project is stored.
ReadIndexMovingFirst(d) ==
    IF d.index = Corrupt THEN {Thrown(d)}
    ELSE IF d.index # None \/ d.legacy = None THEN {Ok(d)}
    ELSE LET p == d.legacy.project
             e == [d EXCEPT !.legacy = None]
             WriteIndex(f) == Put(f, WithIndex(f, [ids |-> <<p>>, active |-> p]))
         IN Then(Put(e, WithItem(e, p, d.legacy.content)), WriteIndex)

\* readIndex(), with the migration of the single slot of older releases.
ReadIndex(d) ==
    IF d.index = Corrupt THEN {Thrown(d)}
    ELSE IF d.index # None \/ d.legacy = None THEN {Ok(d)}
    ELSE LET p == d.legacy.project
             WriteIndex(e) ==
                 Put(e, WithIndex(e, [ids |-> <<p>>, active |-> p]))
             Forget(e) == {Ok([e EXCEPT !.legacy = None]), Dead(e)}
         IN Then(Then(Put(d, WithItem(d, p, d.legacy.content)), WriteIndex), Forget)

\* save(): the item first, then the index with the project in front.
Save(d, p, c, activate) ==
    LET WriteItem(e) == Put(e, WithItem(e, p, c))
        WriteIndex(e) ==
            LET i == IndexOf(e)
                active == IF ~activate /\ i.active # None THEN i.active ELSE p
                others == Without(i.ids, p)
            IN Put(e, WithIndex(e, [ids |-> <<p>> \o others, active |-> active]))
    IN Then(Then(ReadIndex(d), WriteItem), WriteIndex)

\* Mutant of Clear: the active project is not replaced.
ClearKeepingActive(d, p) ==
    LET Listed(e) ==
            LET i == IndexOf(e)
            IN Put(e, WithIndex(WithItem(e, p, None),
                       [i EXCEPT !.ids = Without(i.ids, p)]))
    IN Then(ReadIndex(d), Listed)

\* clear(projectId): the item first; the first of the others becomes active.
Clear(d, p) ==
    LET Drop(e) == {Ok(WithItem(e, p, None)), Dead(e)}
        WriteIndex(e) ==
            LET i == IndexOf(e)
                others == Without(i.ids, p)
                next == IF others = <<>> THEN None ELSE Head(others)
            IN Put(e, WithIndex(e, [ids |-> others,
                                    active |-> IF i.active = p THEN next ELSE i.active]))
        Listed(e) == IF Contains(IndexOf(e).ids, p)
                     THEN Then(Drop(e), WriteIndex)
                     ELSE {Ok(e)}
    IN Then(ReadIndex(d), Listed)

\* load() on a disk on which readIndex() has succeeded: a stored project,
\* None, or Corrupt when it throws.
Loaded(d, p) ==
    IF p # None /\ Contains(IndexOf(d).ids, p) THEN d.items[p] ELSE None

\* activate(): writes the index only when the project can be loaded.
Activate(d, p) ==
    LET Switch(e) ==
            IF Loaded(e, p) = None THEN {Ok(e)}
            ELSE IF Loaded(e, p) = Corrupt THEN {Thrown(e)}
            ELSE Put(e, WithIndex(e, [IndexOf(e) EXCEPT !.active = p]))
    IN Then(ReadIndex(d), Switch)
-----------------------------------------------------------------------------
(* A tab                                                                   *)

Closed == [open |-> FALSE, project |-> Demo, content |-> Pristine,
           recovery |-> FALSE, paused |-> FALSE, timer |-> FALSE,
           required |-> FALSE]

\* The effect of App.tsx that arms the save, run after every change of what
\* it depends on.
Armed(tab) == [tab EXCEPT !.timer = ~tab.recovery /\ ~tab.paused]

Showing(tab, p, c, recovery) ==
    [tab EXCEPT !.project = p, !.content = c, !.recovery = recovery]

\* Mutant of Hydrated: the stand-in takes the id of the project it stands for.
HydratedInPlace(tab, p, stored) ==
    IF stored \in {None, Corrupt} \/ p = None
    THEN Showing(tab, Demo, Pristine, stored = Corrupt)
    ELSE Showing(tab, p, IF stored.schema = "unknown" THEN Pristine
                         ELSE [stored EXCEPT !.schema = "current"], FALSE)

\* hydrate(): a project it cannot migrate, like one that could not be read,
\* leaves the demo on the screen, in recovery.
Hydrated(tab, p, stored) ==
    CASE stored = Corrupt -> Showing(tab, Demo, Pristine, TRUE)
      [] stored = None -> Showing(tab, Demo, Pristine, FALSE)
      [] OTHER ->
            IF stored.schema = "unknown" THEN Showing(tab, Demo, Pristine, TRUE)
            ELSE Showing(tab, p, [stored EXCEPT !.schema = "current"], FALSE)

\* The new value of app when tab t goes on as "next", unless it died.
Continue(t, o, next) ==
    app' = [app EXCEPT ![t] = IF o.end = "dead" THEN Closed ELSE next]

Unchanged(t, o) == Continue(t, o, app[t])

\* What a completed save of p means for the histories.
Saved(p) == kept' = kept \cup {p}

Usable(t) == app[t].open /\ ~app[t].required
-----------------------------------------------------------------------------
(* The page is opened: projectStorage.load() and hydrate().                *)
Open(t) ==
    /\ ~app[t].open
    /\ \E o \in ReadIndex(disk) :
          LET p == IndexOf(o.disk).active
              stored == IF o.end = "thrown" THEN Corrupt ELSE Loaded(o.disk, p)
          IN /\ disk' = o.disk
             /\ Continue(t, o, Armed(Hydrated([Closed EXCEPT !.open = TRUE], p, stored)))
    /\ UNCHANGED <<edits, fresh, kept, gone>>

\* An edit of the graph, the name or the settings.
Edit(t) ==
    /\ Usable(t)
    /\ edits < MaxEdits
    /\ edits' = edits + 1
    /\ app' = [app EXCEPT ![t] = Armed([app[t] EXCEPT !.content.rev = edits + 1])]
    /\ UNCHANGED <<disk, fresh, kept, gone>>

\* Mutants of Persist: a pause is ignored; a failure is swallowed.
PersistAlways(d, tab) == Save(d, tab.project, tab.content, TRUE)

PersistSwallowing(d, tab) ==
    {IF o.end = "thrown" THEN Ok(o.disk) ELSE o : o \in PersistAlways(d, tab)}

\* persistProject(toProject()) in a tab that shows the project it saves.
Persist(d, tab) ==
    IF tab.paused THEN {Ok(d)} ELSE Save(d, tab.project, tab.content, TRUE)

KeptAfter(t, o) ==
    IF o.end = "ok" /\ ~app[t].paused THEN Saved(app[t].project) ELSE UNCHANGED kept

\* The save that was armed 500 ms ago, and Ctrl+S.
AutoSave(t) ==
    /\ app[t].open /\ app[t].timer
    /\ \E o \in Persist(disk, app[t]) :
          /\ disk' = o.disk
          /\ Continue(t, o, [app[t] EXCEPT !.timer = FALSE])
          /\ KeptAfter(t, o)
    /\ UNCHANGED <<edits, fresh, gone>>

SaveKey(t) ==
    /\ app[t].open
    /\ \E o \in Persist(disk, app[t]) :
          /\ disk' = o.disk
          /\ Unchanged(t, o)
          /\ KeptAfter(t, o)
    /\ UNCHANGED <<edits, fresh, gone>>

\* pagehide and beforeunload: a last save, whose failure is swallowed.
Close(t) ==
    /\ app[t].open
    /\ \E o \in IF app[t].recovery \/ app[t].paused THEN {Dead(disk)}
                ELSE Save(disk, app[t].project, app[t].content, TRUE) :
          /\ disk' = o.disk
          /\ KeptAfter(t, o)
    /\ app' = [app EXCEPT ![t] = Closed]
    /\ UNCHANGED <<edits, fresh, gone>>

\* switchProject()
Switch(t, p) ==
    /\ Usable(t) /\ ~app[t].paused
    /\ p # app[t].project
    /\ \E s \in Persist(disk, app[t]) :
          IF s.end # "ok"
          THEN /\ disk' = s.disk
               /\ Unchanged(t, s)
               /\ UNCHANGED kept
          ELSE \E o \in Activate(s.disk, p) :
                  LET stored == Loaded(o.disk, p)
                  IN /\ disk' = o.disk
                     /\ Saved(app[t].project)
                     /\ IF o.end = "ok" /\ stored # None
                        THEN Continue(t, o, Armed(Hydrated(app[t], p, stored)))
                        ELSE Unchanged(t, o)
    /\ UNCHANGED <<edits, fresh, gone>>

\* renameStoredProject() of the project that is shown, and of another one.
RenameCurrent(t) ==
    /\ Usable(t)
    /\ edits < MaxEdits
    /\ edits' = edits + 1
    /\ LET renamed == Armed([app[t] EXCEPT !.content.rev = edits + 1])
       IN \E o \in Persist(disk, renamed) :
             /\ disk' = o.disk
             /\ Continue(t, o, renamed)
             /\ KeptAfter(t, o)
    /\ UNCHANGED <<fresh, gone>>

RenameOther(t, p) ==
    /\ Usable(t)
    /\ p # app[t].project
    /\ edits < MaxEdits
    /\ \E r \in ReadIndex(disk) :
          IF r.end = "ok" /\ Loaded(r.disk, p) \notin {None, Corrupt}
          THEN \E o \in Save(r.disk, p, [Loaded(r.disk, p) EXCEPT !.rev = edits + 1], FALSE) :
                  /\ disk' = o.disk
                  /\ Unchanged(t, o)
                  /\ edits' = edits + 1
                  /\ IF o.end = "ok" THEN Saved(p) ELSE UNCHANGED kept
          ELSE /\ disk' = r.disk
               /\ Unchanged(t, r)
               /\ UNCHANGED <<edits, kept>>
    /\ UNCHANGED <<fresh, gone>>

\* Project p is on the disk d, in an item or in the slot of an older release.
Stored(d, p) ==
    d.items[p] # None \/ (d.index = None /\ d.legacy # None /\ d.legacy.project = p)

\* What the histories make of a deletion by t that removed p from the disk.
Deleted(t, p) ==
    IF Stored(disk, p) /\ ~Stored(disk', p)
    THEN /\ kept' = kept \ {p}
         /\ gone' = IF p = Demo \/ \E u \in Tabs \ {t} : app[u].open /\ app[u].project = p
                    THEN gone
                    ELSE gone \cup {p}
    ELSE UNCHANGED <<kept, gone>>

\* deleteProject() of the project that is shown.  Storage is paused first, and
\* stays so when an exception ends the handler, or no project is left.
DeleteCurrent(t) ==
    LET p == app[t].project
        paused == [app[t] EXCEPT !.paused = TRUE, !.timer = FALSE]
    IN /\ Usable(t)
       /\ \E o \in Clear(disk, p) :
             LET next == IndexOf(o.disk).active
                 stored == Loaded(o.disk, next)
             IN /\ disk' = o.disk
                /\ Continue(t, o,
                      IF o.end # "ok" \/ stored = Corrupt THEN paused
                      ELSE IF stored = None
                      THEN [Hydrated(paused, Demo, None) EXCEPT !.required = TRUE]
                      ELSE Armed(Hydrated([paused EXCEPT !.paused = FALSE], next, stored)))
       /\ Deleted(t, p)
       /\ UNCHANGED <<edits, fresh>>

\* deleteProject() of another one.
DeleteOther(t, p) ==
    /\ Usable(t)
    /\ p # app[t].project
    /\ \E o \in Clear(disk, p) :
          /\ disk' = o.disk
          /\ Unchanged(t, o)
    /\ Deleted(t, p)
    /\ UNCHANGED <<edits, fresh>>

\* The dialog for a new project: persistCurrentProject(), createNewProject(),
\* completeProjectFlow(), which saves the new one and resumes storage.
NewProject(t, p) ==
    /\ app[t].open
    /\ p \in fresh
    /\ \E s \in Persist(disk, app[t]) :
          IF s.end # "ok"
          THEN /\ disk' = s.disk
               /\ Unchanged(t, s)
               /\ UNCHANGED <<fresh, kept>>
          ELSE \E o \in Save(s.disk, p, Pristine, TRUE) :
                  /\ disk' = o.disk
                  /\ Continue(t, o,
                        Armed([Showing(app[t], p, Pristine, FALSE)
                               EXCEPT !.paused = FALSE, !.required = FALSE]))
                  /\ fresh' = fresh \ {p}
                  /\ kept' = kept \cup (IF app[t].paused THEN {} ELSE {app[t].project})
                                  \cup (IF o.end = "ok" THEN {p} ELSE {})
    /\ UNCHANGED <<edits, gone>>

\* resetToDemo(): offered by the recovery banner.
Reset(t) ==
    /\ Usable(t)
    /\ app' = [app EXCEPT ![t] = Armed(Showing(app[t], Demo, Pristine, FALSE))]
    /\ UNCHANGED <<disk, edits, fresh, kept, gone>>
-----------------------------------------------------------------------------
\* Storage as some release left it: no project, the single slot of an old
\* release, or projects of which some may be unreadable.
Items == Content \cup {None, Corrupt}

Empty == [index |-> None, legacy |-> None, items |-> [p \in Projects |-> None]]

InitialItems == {[schema |-> s, rev |-> 0] : s \in Schemas} \cup {Corrupt}

Init ==
    /\ \/ disk = Empty
       \/ disk = WithIndex(Empty, Corrupt)
       \/ \E p \in Projects, s \in Schemas :
             disk = [Empty EXCEPT !.legacy =
                        [project |-> p, content |-> [schema |-> s, rev |-> 0]]]
       \/ \E n \in 1 .. Cardinality(Projects) : \E ids \in [1 .. n -> Projects] :
             /\ \A j, k \in 1 .. n : ids[j] = ids[k] => j = k
             /\ \E active \in Range(ids), items \in [Range(ids) -> InitialItems] :
                   disk = [index |-> [ids |-> ids, active |-> active],
                           legacy |-> None,
                           items |-> [p \in Projects |->
                                        IF p \in Range(ids) THEN items[p] ELSE None]]
    /\ app = [t \in Tabs |-> Closed]
    /\ edits = 0
    /\ fresh = {p \in Projects \ {Demo} :
                  disk.items[p] = None /\ (disk.legacy # None => disk.legacy.project # p)}
    /\ kept = {p \in Projects : \/ disk.items[p] # None
                                \/ disk.legacy # None /\ disk.legacy.project = p}
    /\ gone = {}

Next ==
    \E t \in Tabs :
        \/ Open(t) \/ Edit(t) \/ AutoSave(t) \/ SaveKey(t) \/ Close(t)
        \/ RenameCurrent(t) \/ DeleteCurrent(t) \/ Reset(t)
        \/ \E p \in Projects :
              Switch(t, p) \/ RenameOther(t, p) \/ DeleteOther(t, p) \/ NewProject(t, p)

Spec == Init /\ [][Next]_vars
-----------------------------------------------------------------------------
TypeOK ==
    /\ disk.index \in {None, Corrupt} \/ disk.index \in StoredIndex
    /\ disk.items \in [Projects -> Items]
    /\ disk.legacy = None \/ disk.legacy \in [project : Projects, content : Content]
    /\ app \in [Tabs -> [open : BOOLEAN, project : Projects, content : Content,
                         recovery : BOOLEAN, paused : BOOLEAN, timer : BOOLEAN,
                         required : BOOLEAN]]
    /\ edits \in 0 .. MaxEdits
    /\ fresh \subseteq Projects /\ kept \subseteq Projects /\ gone \subseteq Projects

\* A project that was saved can be found until it is deleted, whatever write
\* is refused, whichever tab dies on the way, and while the slot of an older
\* release is moved into the index (projectStorage.ts).
Findable(d, p) ==
    \/ Contains(IndexOf(d).ids, p) /\ d.items[p] # None
    \/ d.index = None /\ d.legacy # None /\ d.legacy.project = p

SavedIsFindable == disk.index = Corrupt \/ \A p \in kept : Findable(disk, p)

\* The index names every project once, and the active one among them.
IndexIsSound ==
    LET i == IndexOf(disk)
    IN /\ \A j, k \in 1 .. Len(i.ids) : i.ids[j] = i.ids[k] => j = k
       /\ i.active # None => Contains(i.ids, i.active)

\* A deleted project does not come back, when no other tab had it open: neither
\* by the armed save, nor by the one on leaving, nor by a late rename.
DeletedStaysDeleted == \A p \in gone : disk.items[p] = None

\* A tab does not leave a project for another one before its work is stored
\* (switchProject(), beforeCreate in NewProjectDialog).
LeavingSaves ==
    [][\A t \in Tabs, p \in Projects :
         /\ Switch(t, p) \/ NewProject(t, p)
         /\ app'[t] # app[t] /\ app'[t].open /\ ~app[t].paused
         => disk'.items[app[t].project] = app[t].content]_vars

\* The demo that stands in for a project that cannot be read never takes its
\* place in storage, unless that project is the demo itself.
Unreadable(i) == i = Corrupt \/ (i # None /\ i.schema = "unknown")

StandInReplacesNothing ==
    [][\A p \in Projects \ {Demo} :
         Unreadable(disk.items[p])
            => disk'.items[p] = None \/ Unreadable(disk'.items[p])]_vars

\* What the recovery banner promises, "Original data was not overwritten; reset
\* to the demo or create a new project", still holds of the project that could
\* not be read when a new one has been created.
NewProjectKeepsOriginal ==
    [][\A t \in Tabs, p, q \in Projects :
         /\ NewProject(t, p) /\ app'[t].project = p
         /\ app[t].recovery /\ Unreadable(disk.items[q])
         => Unreadable(disk'.items[q])]_vars
=============================================================================
