------------------------------ MODULE Migration ------------------------------
(***************************************************************************)
(* The frontmatter migration of migration.py: `vault migrate --dry-run`    *)
(* writes a report for review, `vault migrate --apply` rewrites the files  *)
(* one by one after it copied the originals, and undoes what it wrote if a *)
(* file fails; `vault restore` puts the originals back. Editors change the *)
(* vault between any two steps, a file operation may fail, and the command *)
(* may be stopped anywhere.                                                *)
(*                                                                         *)
(*   vault    the content of each file, None where there is none           *)
(*   report   the reviewed reports: the content each file had (the report  *)
(*            keeps its hash; the hash of the result follows from it)      *)
(*   dir      data/migrations/<id>/: originals/ and manifest.json          *)
(*   cmd      the memory of the one command that runs: changed are the     *)
(*            files its own look at the vault found to change, listed in   *)
(*            the report or not, sources those it found before it rewrites *)
(*   outcome  how the last command on a migration ended                    *)
(*                                                                         *)
(* A content is a text and the migration that gave it its id: None is a    *)
(* file still without frontmatter. edited is a history variable: the files *)
(* that editors changed since the migration was first applied.             *)
(***************************************************************************)
EXTENDS Naturals, FiniteSets

CONSTANTS Files,      \* Markdown files of the vault
          Texts,      \* what a file may say
          Malformed,  \* the texts no migration can render
          Ids,        \* migrations
          None,
          MaxEdits,   \* bound on changes by editors
          MaxFaults   \* bound on failing file operations and crashes

ASSUME MigrationAssumption ==
    /\ Malformed \subseteq Texts
    /\ None \notin Ids /\ None \notin [text : Texts, id : Ids \union {None}]
    /\ MaxEdits \in Nat /\ MaxFaults \in Nat

VARIABLES vault, report, dir, cmd, outcome, edits, faults, edited

vars == <<vault, report, dir, cmd, outcome, edits, faults, edited>>

Contents == [text : Texts, id : Ids \union {None}]

NoCmd == [pc |-> "off", id |-> None, todo |-> {}, changed |-> {}, sources |-> {},
          written |-> {}, file |-> None, got |-> None]

NoDir == [made |-> FALSE, originals |-> [f \in Files |-> None], manifest |-> FALSE]

Init ==
    /\ vault \in [Files -> {c \in Contents : c.id = None} \union {None}]
    /\ report = [m \in Ids |-> None]
    /\ dir = [m \in Ids |-> NoDir]
    /\ cmd = NoCmd
    /\ outcome = [m \in Ids |-> "none"]
    /\ edits = 0 /\ faults = 0
    /\ edited = [m \in Ids |-> {}]

-----------------------------------------------------------------------------
(* Helpers *)

Renderable(c) == c # None /\ c.text \notin Malformed

\* _transform: a file that has an id already is left as it is.
Migrated(c, m) == IF c.id = None THEN [c EXCEPT !.id = m] ELSE c

\* _transform finds something to change.
NeedsId(c) == c # None /\ c.id = None

\* The files of a report, and those that it says the migration changes.
Listed(m) == {f \in Files : report[m][f] # None}
Changed(m) == {f \in Files : NeedsId(report[m][f])}

At(p) == cmd.pc = p

Begin(p, m, todo) == cmd' = [NoCmd EXCEPT !.pc = p, !.id = m, !.todo = todo]

GoOn(p, todo) == cmd' = [cmd EXCEPT !.pc = p, !.todo = todo]

\* The loop takes the next file, and goes to p after the last one.
Took(f, p, todo) ==
    cmd' = IF cmd.todo = {f} THEN [cmd EXCEPT !.pc = p, !.todo = todo]
                             ELSE [cmd EXCEPT !.todo = @ \ {f}]

End(o) == cmd' = NoCmd /\ outcome' = [outcome EXCEPT ![cmd.id] = o]

-----------------------------------------------------------------------------
(* plan_migration *)

Plan(m) ==
    /\ At("off") /\ report[m] = None
    /\ \A f \in Files : vault[f] # None => Renderable(vault[f])
    /\ \E f \in Files : vault[f] # None
    /\ report' = [report EXCEPT ![m] = vault]
    /\ UNCHANGED <<vault, dir, cmd, outcome, edits, faults, edited>>

-----------------------------------------------------------------------------
(* apply_migration *)

Apply(m) ==
    /\ At("off") /\ report[m] # None
    /\ Begin("check", m, Files)
    /\ edited' = IF dir[m].made THEN edited ELSE [edited EXCEPT ![m] = {}]
    /\ UNCHANGED <<vault, report, dir, outcome, edits, faults>>

\* _replan_from_report reads every file again: a malformed one, or one that
\* is gone or differs from the report, is refused. A file the report does not
\* list is refused by none of the comparisons, but is among the files to
\* change from here on if it has no id.
CheckFile(f) ==
    /\ At("check") /\ f \in cmd.todo
    /\ IF /\ vault[f] # None => Renderable(vault[f])
          /\ f \in Listed(cmd.id) => vault[f] = report[cmd.id][f]
       THEN /\ cmd' = [cmd EXCEPT !.pc = IF cmd.todo = {f} THEN "open" ELSE "check",
                                  !.todo = @ \ {f},
                                  !.changed = IF NeedsId(vault[f]) THEN @ \union {f} ELSE @]
            /\ UNCHANGED outcome
       ELSE End("refused")
    /\ UNCHANGED <<vault, report, dir, edits, faults, edited>>

\* Mutant: the snapshot is taken after the files were rewritten.
OpenWithoutCopies ==
    /\ At("open")
    /\ IF dir[cmd.id].made
       THEN End("refused") /\ UNCHANGED dir
       ELSE /\ dir' = [dir EXCEPT ![cmd.id].made = TRUE]
            /\ GoOn("manifest", {})
            /\ UNCHANGED outcome
    /\ UNCHANGED <<vault, report, edits, faults, edited>>

OpenSnapshot ==
    /\ At("open")
    /\ IF dir[cmd.id].made
       THEN End("refused") /\ UNCHANGED dir
       ELSE /\ dir' = [dir EXCEPT ![cmd.id].made = TRUE]
            /\ GoOn(IF cmd.changed = {} THEN "manifest" ELSE "copy", cmd.changed)
            /\ UNCHANGED outcome
    /\ UNCHANGED <<vault, report, edits, faults, edited>>

\* A file that is gone by now ends the command with an error.
CopyOriginal(f) ==
    /\ At("copy") /\ f \in cmd.todo
    /\ IF vault[f] = None
       THEN End("error") /\ UNCHANGED dir
       ELSE /\ dir' = [dir EXCEPT ![cmd.id].originals[f] = vault[f]]
            /\ Took(f, "manifest", {}) /\ UNCHANGED outcome
    /\ UNCHANGED <<vault, report, edits, faults, edited>>

\* The manifest is the reviewed report: it names no other files.
WriteManifest ==
    /\ At("manifest")
    /\ dir' = [dir EXCEPT ![cmd.id].manifest = TRUE]
    /\ GoOn("discover", {}) /\ UNCHANGED outcome
    /\ UNCHANGED <<vault, report, edits, faults, edited>>

\* The except clause: the files written so far are put back.
Undo == IF cmd.written = {} THEN End("undone")
        ELSE GoOn("undo", cmd.written) /\ UNCHANGED outcome

\* discover_sources, once more, before the write loop.
Discover ==
    /\ At("discover")
    /\ IF cmd.changed = {} THEN End("applied")
       ELSE /\ cmd' = [cmd EXCEPT !.pc = "read", !.todo = cmd.changed,
                                  !.sources = {f \in Files : vault[f] # None}]
            /\ UNCHANGED outcome
    /\ UNCHANGED <<vault, report, dir, edits, faults, edited>>

\* Mutant: a file that the report does not list is migrated with the others.
ReadListedOrNot(f) ==
    /\ At("read") /\ f \in cmd.todo
    /\ IF f \in cmd.sources /\ Renderable(vault[f])
       THEN /\ cmd' = [cmd EXCEPT !.pc = "write", !.file = f,
                                  !.got = Migrated(vault[f], cmd.id)]
            /\ UNCHANGED outcome
       ELSE Undo
    /\ UNCHANGED <<vault, report, dir, edits, faults, edited>>

\* sources[...] and proposed_ids[...] raise a KeyError for a file that was not
\* there or is not in the report. _transform reads the file once more; nothing
\* compares it with the report.
ReadSource(f) ==
    /\ At("read") /\ f \in cmd.todo
    /\ IF f \in cmd.sources \intersect Listed(cmd.id) /\ Renderable(vault[f])
       THEN /\ cmd' = [cmd EXCEPT !.pc = "write", !.file = f,
                                  !.got = Migrated(vault[f], cmd.id)]
            /\ UNCHANGED outcome
       ELSE Undo
    /\ UNCHANGED <<vault, report, dir, edits, faults, edited>>

WriteSource ==
    /\ At("write")
    /\ vault' = [vault EXCEPT ![cmd.file] = cmd.got]
    /\ IF cmd.todo = {cmd.file} THEN End("applied")
       ELSE /\ cmd' = [cmd EXCEPT !.pc = "read", !.todo = @ \ {cmd.file},
                                  !.written = @ \union {cmd.file}]
            /\ UNCHANGED outcome
    /\ UNCHANGED <<report, dir, edits, faults, edited>>

\* Mutant: the last of the written files is forgotten.
UndoAllButOne(f) ==
    /\ At("undo") /\ f \in cmd.todo
    /\ IF cmd.todo = {f} THEN UNCHANGED vault
       ELSE vault' = [vault EXCEPT ![f] = dir[cmd.id].originals[f]]
    /\ IF cmd.todo = {f} THEN End("undone") ELSE Took(f, "off", {}) /\ UNCHANGED outcome
    /\ UNCHANGED <<report, dir, edits, faults, edited>>

UndoFile(f) ==
    /\ At("undo") /\ f \in cmd.todo
    /\ vault' = [vault EXCEPT ![f] = dir[cmd.id].originals[f]]
    /\ IF cmd.todo = {f} THEN End("undone") ELSE Took(f, "off", {}) /\ UNCHANGED outcome
    /\ UNCHANGED <<report, dir, edits, faults, edited>>

-----------------------------------------------------------------------------
(* restore_migration *)

Restore(m) ==
    /\ At("off") /\ dir[m].manifest
    /\ Changed(m) # {}
    /\ Begin("compare", m, Changed(m))
    /\ UNCHANGED <<vault, report, dir, outcome, edits, faults, edited>>

\* A file that is not what the report says the migration made of it refuses
\* the whole restore.
CompareFile(f) ==
    /\ At("compare") /\ f \in cmd.todo
    /\ IF vault[f] = Migrated(report[cmd.id][f], cmd.id)
       THEN Took(f, "restore", Changed(cmd.id)) /\ UNCHANGED outcome
       ELSE cmd' = NoCmd /\ UNCHANGED outcome
    /\ UNCHANGED <<vault, report, dir, edits, faults, edited>>

RestoreFile(f) ==
    /\ At("restore") /\ f \in cmd.todo
    /\ vault' = [vault EXCEPT ![f] = dir[cmd.id].originals[f]]
    /\ IF cmd.todo = {f} THEN End("restored") ELSE Took(f, "off", {}) /\ UNCHANGED outcome
    /\ UNCHANGED <<report, dir, edits, faults, edited>>

-----------------------------------------------------------------------------
(* Faults and editors *)

\* A failing file operation: in the write loop it starts the undo, anywhere
\* else (the undo included) it ends the command.
Fault ==
    /\ cmd.pc # "off"
    /\ faults < MaxFaults /\ faults' = faults + 1
    /\ IF cmd.pc \in {"discover", "read", "write"} THEN Undo
       ELSE IF cmd.pc \in {"undo", "restore"} THEN End("torn")
       ELSE IF cmd.pc = "compare" THEN cmd' = NoCmd /\ UNCHANGED outcome
       ELSE End("error")
    /\ UNCHANGED <<vault, report, dir, edits, edited>>

\* The command is killed; every file stays as it is.
Crash ==
    /\ cmd.pc # "off"
    /\ faults < MaxFaults /\ faults' = faults + 1
    /\ IF cmd.pc = "compare" THEN cmd' = NoCmd /\ UNCHANGED outcome
       ELSE End(IF cmd.pc \in {"read", "write", "undo", "restore"} THEN "torn" ELSE "error")
    /\ UNCHANGED <<vault, report, dir, edits, edited>>

Edit(f, c) ==
    /\ edits < MaxEdits /\ edits' = edits + 1
    /\ c # vault[f] /\ vault' = [vault EXCEPT ![f] = c]
    /\ edited' = [m \in Ids |-> edited[m] \union {f}]
    /\ UNCHANGED <<report, dir, cmd, outcome, faults>>

Next ==
    \/ \E m \in Ids : Plan(m) \/ Apply(m) \/ Restore(m)
    \/ \E f \in Files : CheckFile(f) \/ CopyOriginal(f) \/ ReadSource(f) \/ UndoFile(f)
    \/ \E f \in Files : CompareFile(f) \/ RestoreFile(f)
    \/ OpenSnapshot \/ WriteManifest \/ Discover \/ WriteSource
    \/ Fault \/ Crash
    \/ \E f \in Files : \E c \in {[text |-> t, id |-> i] : t \in Texts,
                                   i \in {None} \union {m \in Ids : report[m] # None}}
                              \union {None} : Edit(f, c)

Spec == Init /\ [][Next]_vars

-----------------------------------------------------------------------------
(* Properties *)

\* Types of the vault, the reports and the snapshots; a command only ever
\* writes files that the reviewed report says the migration changes, though
\* its loop runs over what it found in the vault itself.
MigrationTypeOK ==
    /\ vault \in [Files -> Contents \union {None}]
    /\ \A m \in Ids : /\ report[m] # None => report[m] \in [Files -> Contents \union {None}]
                      /\ dir[m].originals \in [Files -> Contents \union {None}]
    /\ cmd.todo \subseteq Files
    /\ cmd.pc # "off" => cmd.written \subseteq Changed(cmd.id)
    /\ cmd.pc = "write" => cmd.file \in Changed(cmd.id)

\* Before a file is rewritten, and whatever fails or is killed afterwards, the
\* originals of all the files in the write loop are in the migration's
\* directory, and the manifest is. Originals of files that nobody edits
\* meanwhile are the reviewed bytes.
SnapshotBeforeChange ==
    cmd.pc \in {"discover", "read", "write", "undo"} =>
        /\ dir[cmd.id].manifest
        /\ \A f \in cmd.changed : dir[cmd.id].originals[f] # None
        /\ \A f \in Changed(cmd.id) :
              /\ f \in cmd.changed
              /\ f \notin edited[cmd.id] => dir[cmd.id].originals[f] = report[cmd.id][f]

\* A command that was not killed, and whose undo did not fail, has done all or
\* nothing: the files nobody edited meanwhile are as reviewed, all before the
\* migration or all after it. It succeeds only if the files it found to change
\* are those of the report: with a new one it undoes everything.
AllOrNothing ==
    [][\A o \in {"applied", "undone", "restored"} :
         /\ cmd.pc \in {"discover", "read", "write", "undo", "restore"}
         /\ cmd'.pc = "off" /\ outcome'[cmd.id] = o
         => /\ o = "applied" => cmd.changed = Changed(cmd.id)
            /\ \A f \in Changed(cmd.id) \ edited[cmd.id] :
                  vault'[f] = IF o = "applied" THEN Migrated(report[cmd.id][f], cmd.id)
                                               ELSE report[cmd.id][f]]_vars
=============================================================================
