--------------------------- MODULE MigrationProofs ---------------------------
(***************************************************************************)
(* Proofs about Migration for every set of files, texts and migrations and *)
(* every number of edits and faults. MigrationInv is the inductive         *)
(* invariant: each phase of a command knows which files nobody edited are  *)
(* still as reviewed and which are already migrated, and a directory with  *)
(* a manifest holds the originals of all the files the migration changes.  *)
(* The files that a command found to change are, among those of the        *)
(* report, the ones the report names; there may be new ones besides.       *)
(***************************************************************************)
EXTENDS Migration, TLAPS

Phases == {"off", "check", "open", "copy", "manifest", "discover", "read", "write", "undo",
           "compare", "restore"}

Outcomes == {"none", "refused", "error", "applied", "undone", "restored", "torn"}

Dirs == [made : BOOLEAN, originals : [Files -> Contents \union {None}], manifest : BOOLEAN]

Commands == [pc : Phases, id : Ids \union {None}, todo : SUBSET Files, changed : SUBSET Files,
             sources : SUBSET Files, written : SUBSET Files,
             file : Files \union {None}, got : Contents \union {None}]

\* The types of the state.
Types ==
    /\ vault \in [Files -> Contents \union {None}]
    /\ report \in [Ids -> [Files -> Contents \union {None}] \union {None}]
    /\ dir \in [Ids -> Dirs]
    /\ cmd \in Commands
    /\ outcome \in [Ids -> Outcomes]
    /\ edited \in [Ids -> SUBSET Files]
    /\ edits \in Nat /\ faults \in Nat

\* The files of S that nobody edited are as migration m was reviewed.
Reviewed(m, S) == \A f \in S : f \notin edited[m] => vault[f] = report[m][f]

\* The files of S that nobody edited are as migration m leaves them.
Rewritten(m, S) == \A f \in S : f \notin edited[m] => vault[f] = Migrated(report[m][f], m)

\* The originals of S are in the directory of m, the reviewed bytes of those
\* that nobody edited.
Snapshot(m, S) ==
    \A f \in S : /\ dir[m].originals[f] # None
                 /\ f \notin edited[m] => dir[m].originals[f] = report[m][f]

\* Every file of S has an original in the directory of m.
Copied(m, S) == \A f \in S : dir[m].originals[f] # None

\* A directory belongs to a reviewed migration, and its manifest is written
\* after its originals.
DirInv ==
    \A m \in Ids :
        /\ dir[m].made => report[m] # None
        /\ dir[m].manifest => dir[m].made /\ Snapshot(m, Changed(m))

\* A command found the files of its report to change that the report names,
\* those still to be looked at aside, and any new ones.
Found(S) == cmd.changed \intersect Listed(cmd.id) = Changed(cmd.id) \ S

\* What a command may rely on in each of its phases.
CmdInv ==
    /\ cmd.pc # "off" => /\ cmd.id \in Ids /\ report[cmd.id] # None
                         /\ cmd.written \subseteq Changed(cmd.id)
    /\ cmd.pc \in {"check", "open", "copy", "manifest", "discover"} => cmd.written = {}
    /\ cmd.pc = "check" => Found(cmd.todo)
    /\ cmd.pc \in {"open", "copy", "manifest", "discover", "read", "write", "undo"} => Found({})
    /\ cmd.pc = "check" /\ ~dir[cmd.id].made => Reviewed(cmd.id, Listed(cmd.id) \ cmd.todo)
    /\ cmd.pc = "open" /\ ~dir[cmd.id].made => Reviewed(cmd.id, Listed(cmd.id))
    /\ cmd.pc \in {"copy", "manifest", "discover"} =>
           /\ dir[cmd.id].made
           /\ cmd.todo \subseteq cmd.changed
           /\ Reviewed(cmd.id, Changed(cmd.id))
           /\ Snapshot(cmd.id, Changed(cmd.id) \ cmd.todo)
           /\ Copied(cmd.id, cmd.changed \ cmd.todo)
    /\ cmd.pc \in {"manifest", "discover"} => cmd.todo = {}
    /\ cmd.pc \in {"discover", "read", "write", "undo", "compare", "restore"} => dir[cmd.id].manifest
    /\ cmd.pc \in {"read", "write", "undo"} => Copied(cmd.id, cmd.changed)
    /\ cmd.pc \in {"read", "write"} =>
           /\ cmd.todo \subseteq cmd.changed
           /\ cmd.written = cmd.changed \ cmd.todo
           /\ Reviewed(cmd.id, Changed(cmd.id) \ cmd.written)
           /\ Rewritten(cmd.id, cmd.written)
    /\ cmd.pc = "write" =>
           /\ cmd.file \in cmd.todo /\ cmd.file \in Changed(cmd.id) /\ cmd.got \in Contents
           /\ cmd.file \notin edited[cmd.id] => cmd.got = Migrated(report[cmd.id][cmd.file], cmd.id)
    /\ cmd.pc \in {"undo", "compare", "restore"} => cmd.todo \subseteq Changed(cmd.id)
    /\ cmd.pc \in {"undo", "restore"} => Reviewed(cmd.id, Changed(cmd.id) \ cmd.todo)

MigrationInv == Types /\ DirInv /\ CmdInv

-----------------------------------------------------------------------------
(* Every step preserves MigrationInv *)

\* Giving a file its id yields a file.
LEMMA MigratedIsContent ==
    ASSUME NEW c \in Contents, NEW m \in Ids
    PROVE  Migrated(c, m) \in Contents
  BY DEF Migrated, Contents

\* What the ways to go on do to the memory of the command.
LEMMA GoOnFacts ==
    ASSUME cmd \in Commands, NEW p \in Phases, NEW T \in SUBSET Files, GoOn(p, T)
    PROVE  /\ cmd' \in Commands /\ cmd'.pc = p /\ cmd'.todo = T
           /\ cmd'.id = cmd.id /\ cmd'.written = cmd.written /\ cmd'.changed = cmd.changed
  BY DEF GoOn, Commands

LEMMA TookFacts ==
    ASSUME cmd \in Commands, NEW f \in Files, NEW p \in Phases, NEW T \in SUBSET Files, Took(f, p, T)
    PROVE  /\ cmd' \in Commands /\ cmd'.id = cmd.id /\ cmd'.written = cmd.written
           /\ cmd'.changed = cmd.changed
           /\ cmd.todo = {f} => cmd'.pc = p /\ cmd'.todo = T
           /\ cmd.todo # {f} => cmd'.pc = cmd.pc /\ cmd'.todo = cmd.todo \ {f}
  BY DEF Took, Commands

\* A command that ends relies on nothing any more.
LEMMA NoCmdFacts ==
    ASSUME cmd' = NoCmd
    PROVE  cmd' \in Commands /\ CmdInv'
<1>1. NoCmd \in Commands /\ NoCmd.pc = "off"
  BY DEF NoCmd, Commands, Phases
<1>2. QED BY <1>1 DEF CmdInv

LEMMA EndStep ==
    ASSUME MigrationInv, cmd.id \in Ids, NEW o \in Outcomes, End(o), DirInv',
           vault' \in [Files -> Contents \union {None}], dir' \in [Ids -> Dirs],
           UNCHANGED <<report, edits, edited>>, faults' \in Nat
    PROVE  MigrationInv'
<1>1. cmd' \in Commands /\ CmdInv'
  BY NoCmdFacts DEF End
<1>2. outcome' \in [Ids -> Outcomes]
  BY DEF End, MigrationInv, Types
<1>3. QED BY <1>1, <1>2 DEF MigrationInv, Types

\* What DirInv speaks of is left alone.
LEMMA SameDirs ==
    ASSUME DirInv, UNCHANGED <<report, dir, edited>>
    PROVE  DirInv'
  BY DEF DirInv, Snapshot, Listed, Changed, NeedsId

\* A file of the migration is put back from its directory.
LEMMA PutBack ==
    ASSUME MigrationInv, cmd.pc \in {"undo", "restore"}, NEW f \in cmd.todo,
           vault' = [vault EXCEPT ![f] = dir[cmd.id].originals[f]],
           UNCHANGED <<report, dir, edited>>
    PROVE  /\ vault' \in [Files -> Contents \union {None}]
           /\ \A q \in Changed(cmd.id) \ (cmd.todo \ {f}) :
                 q \notin edited[cmd.id] => vault'[q] = report[cmd.id][q]
<1>1. /\ cmd.id \in Ids /\ f \in Files /\ f \in Changed(cmd.id)
      /\ Snapshot(cmd.id, Changed(cmd.id)) /\ Reviewed(cmd.id, Changed(cmd.id) \ cmd.todo)
  BY DEF MigrationInv, Types, Commands, CmdInv, DirInv
<1>2. dir[cmd.id].originals[f] \in Contents \union {None}
  BY <1>1 DEF MigrationInv, Types, Dirs
<1>3. /\ vault' \in [Files -> Contents \union {None}] /\ vault'[f] = dir[cmd.id].originals[f]
      /\ \A q \in Files \ {f} : vault'[q] = vault[q]
  BY <1>1, <1>2 DEF MigrationInv, Types
<1>4. ASSUME NEW q \in Changed(cmd.id), q \notin cmd.todo \ {f}, q \notin edited[cmd.id]
      PROVE  vault'[q] = report[cmd.id][q]
  BY <1>1, <1>3, <1>4 DEF Snapshot, Reviewed, Changed, Listed, NeedsId
<1>5. QED BY <1>3, <1>4

\* A file is put back and the command goes on with the next one, or ends.
LEMMA PutBackStep ==
    ASSUME MigrationInv, cmd.pc \in {"undo", "restore"}, NEW f \in cmd.todo,
           vault' = [vault EXCEPT ![f] = dir[cmd.id].originals[f]],
           UNCHANGED <<report, dir, edits, faults, edited>>,
           \E o \in Outcomes :
               IF cmd.todo = {f} THEN End(o) ELSE Took(f, "off", {}) /\ UNCHANGED outcome
    PROVE  MigrationInv'
<1>1. /\ vault' \in [Files -> Contents \union {None}]
      /\ \A q \in Changed(cmd.id) \ (cmd.todo \ {f}) :
            q \notin edited[cmd.id] => vault'[q] = report[cmd.id][q]
  BY PutBack
<1>2. Types /\ DirInv /\ CmdInv /\ cmd \in Commands /\ f \in Files /\ cmd.id \in Ids
  BY DEF MigrationInv, Types, Commands, CmdInv
<1>3. DirInv'
  BY <1>2, SameDirs
<1>4. CASE \E o \in Outcomes : End(o)
  BY <1>1, <1>2, <1>3, <1>4, EndStep DEF Types
<1>5. CASE Took(f, "off", {}) /\ UNCHANGED outcome /\ cmd.todo # {f}
  <2>1. /\ cmd' \in Commands /\ cmd'.id = cmd.id /\ cmd'.written = cmd.written
        /\ cmd'.changed = cmd.changed /\ cmd'.pc = cmd.pc /\ cmd'.todo = cmd.todo \ {f}
    BY <1>2, <1>5, TookFacts DEF Phases
  <2>2. Types'
    BY <1>1, <1>2, <1>5, <2>1 DEF Types
  <2>3. CmdInv'
    BY <1>1, <1>2, <2>1 DEF CmdInv, Found, Copied, Reviewed, Changed, Listed
  <2>4. QED BY <1>3, <2>2, <2>3 DEF MigrationInv
<1>6. QED BY <1>4, <1>5

\* A failure in the write loop: what was written is to be put back, and the
\* rest is as reviewed.
LEMMA UndoStep ==
    ASSUME MigrationInv, cmd.pc \in {"discover", "read", "write"}, Undo, faults' \in Nat,
           UNCHANGED <<vault, report, dir, edits, edited>>
    PROVE  MigrationInv'
<1>1. /\ Types /\ DirInv /\ CmdInv /\ cmd \in Commands /\ cmd.id \in Ids /\ report[cmd.id] # None
      /\ dir[cmd.id].manifest /\ cmd.written \subseteq Changed(cmd.id) /\ Found({})
      /\ Copied(cmd.id, cmd.changed) /\ Reviewed(cmd.id, Changed(cmd.id) \ cmd.written)
  BY DEF MigrationInv, Types, CmdInv, Copied, Reviewed
<1>2. DirInv'
  BY <1>1, SameDirs
<1>3. CASE End("undone")
  BY <1>1, <1>2, <1>3, EndStep DEF Types, Outcomes
<1>4. CASE ~End("undone")
  <2>1. GoOn("undo", cmd.written) /\ UNCHANGED outcome
    BY <1>4 DEF Undo
  <2>2. /\ cmd' \in Commands /\ cmd'.pc = "undo" /\ cmd'.id = cmd.id
        /\ cmd'.todo = cmd.written /\ cmd'.written = cmd.written /\ cmd'.changed = cmd.changed
    <3>1. cmd.written \subseteq Files
      BY <1>1 DEF Commands
    <3>2. QED BY <1>1, <2>1, <3>1, GoOnFacts DEF Phases
  <2>3. Types'
    BY <1>1, <2>1, <2>2 DEF Types
  <2>4. CmdInv'
    BY <1>1, <2>2 DEF CmdInv, Found, Copied, Reviewed, Changed, Listed
  <2>5. QED BY <1>2, <2>3, <2>4 DEF MigrationInv
<1>5. QED BY <1>3, <1>4

\* The steps of apply_migration.
LEMMA ApplyStep ==
    ASSUME MigrationInv,
           \/ \E f \in Files : CheckFile(f) \/ CopyOriginal(f) \/ ReadSource(f) \/ UndoFile(f)
           \/ OpenSnapshot \/ WriteManifest \/ Discover \/ WriteSource
    PROVE  MigrationInv'
<1> USE DEF At
<1> DEFINE m == cmd.id
<1>t. Types /\ DirInv /\ CmdInv /\ cmd \in Commands
  BY DEF MigrationInv, Types
<1>1. ASSUME NEW f \in Files, CheckFile(f)
      PROVE  MigrationInv'
  <2>1. m \in Ids /\ report[m] # None /\ UNCHANGED <<vault, report, dir, edits, faults, edited>>
    BY <1>t, <1>1 DEF CheckFile, CmdInv
  <2>2. DirInv'
    BY <1>t, <2>1, SameDirs
  <2>3. CASE End("refused")
    BY <2>1, <2>2, <2>3, EndStep, <1>t DEF Types, Outcomes
  <2>4. CASE ~End("refused")
    <3> DEFINE p == IF cmd.todo = {f} THEN "open" ELSE "check"
               found == IF NeedsId(vault[f]) THEN cmd.changed \union {f} ELSE cmd.changed
    <3>1. /\ cmd.pc = "check" /\ f \in cmd.todo
          /\ cmd' = [cmd EXCEPT !.pc = p, !.todo = @ \ {f}, !.changed = found]
          /\ UNCHANGED outcome
          /\ f \in Listed(m) => vault[f] = report[m][f]
      BY <1>t, <1>1, <2>4 DEF CheckFile
    <3>2. /\ cmd' \in Commands /\ cmd'.id = m /\ cmd'.written = cmd.written /\ cmd'.pc = p
          /\ cmd'.todo = cmd.todo \ {f} /\ cmd'.changed = found
      BY <1>t, <3>1 DEF Commands, Phases
    <3>3. Types'
      BY <1>t, <2>1, <3>1, <3>2 DEF Types
    <3>4. ~dir[m].made => Reviewed(m, Listed(m) \ (cmd.todo \ {f}))
      BY <1>t, <3>1 DEF CmdInv, Reviewed
    <3>5. found \intersect Listed(m) = Changed(m) \ (cmd.todo \ {f})
      <4>1. cmd.changed \intersect Listed(m) = Changed(m) \ cmd.todo
        BY <1>t, <3>1 DEF CmdInv, Found
      <4>2. f \in Changed(m) <=> f \in Listed(m) /\ NeedsId(vault[f])
        BY <3>1 DEF Changed, Listed, NeedsId
      <4>3. QED BY <3>1, <4>1, <4>2
    <3>6. cmd.written = {} /\ (p = "open" => cmd.todo \ {f} = {})
      BY <1>t, <3>1 DEF CmdInv
    <3> HIDE DEF found
    <3>7. CmdInv'
      BY <2>1, <3>2, <3>4, <3>5, <3>6 DEF CmdInv, Found, Reviewed, Listed, Changed
    <3>8. QED BY <2>2, <3>3, <3>7 DEF MigrationInv
  <2>5. QED BY <2>3, <2>4
<1>2. CASE OpenSnapshot
  <2>1. m \in Ids /\ report[m] # None /\ UNCHANGED <<vault, report, edits, faults, edited>>
    BY <1>t, <1>2 DEF OpenSnapshot, CmdInv
  <2>2. CASE dir[m].made
    <3>1. End("refused") /\ UNCHANGED dir
      BY <1>t, <1>2, <2>2 DEF OpenSnapshot
    <3>2. QED BY <2>1, <3>1, SameDirs, EndStep, <1>t DEF Types, Outcomes
  <2>3. CASE ~dir[m].made
    <3> DEFINE p == IF cmd.changed = {} THEN "manifest" ELSE "copy"
    <3>1. /\ dir' = [dir EXCEPT ![m].made = TRUE]
          /\ GoOn(p, cmd.changed) /\ UNCHANGED outcome
      BY <1>t, <1>2, <2>3 DEF OpenSnapshot
    <3>2. /\ dir' \in [Ids -> Dirs] /\ dir'[m].made
          /\ \A n \in Ids : /\ dir'[n].originals = dir[n].originals
                            /\ dir'[n].manifest = dir[n].manifest
                            /\ n # m => dir'[n] = dir[n]
      <4> DEFINE new == [dir[m] EXCEPT !.made = TRUE]
      <4>1. dir \in [Ids -> Dirs] /\ dir[m] \in Dirs
        BY <1>t, <2>1 DEF Types
      <4>2. new \in Dirs /\ new.made /\ new.originals = dir[m].originals
            /\ new.manifest = dir[m].manifest
        BY <4>1 DEF Dirs
      <4>3. dir' = [dir EXCEPT ![m] = new]
        BY <3>1
      <4> HIDE DEF new
      <4>4. QED BY <2>1, <4>1, <4>2, <4>3
    <3>3. Changed(m) \subseteq Listed(m) /\ cmd.changed \subseteq Files
      BY <1>t DEF Changed, Listed, NeedsId, Commands
    <3>4. /\ cmd' \in Commands /\ cmd'.pc = p /\ cmd'.todo = cmd.changed
          /\ cmd'.id = m /\ cmd'.written = cmd.written /\ cmd'.changed = cmd.changed
      BY <1>t, <3>1, <3>3, GoOnFacts DEF Types, Phases
    <3>5. Types'
      BY <1>t, <2>1, <3>1, <3>2, <3>4 DEF Types
    <3>6. DirInv'
      BY <1>t, <2>1, <2>3, <3>2 DEF DirInv, Snapshot, Changed, Listed, NeedsId
    <3>7. Reviewed(m, Changed(m))
      BY <1>t, <1>2, <2>3, <3>3 DEF OpenSnapshot, CmdInv, Reviewed
    <3>8. cmd.written = {} /\ Found({})
      BY <1>t, <1>2 DEF OpenSnapshot, CmdInv
    <3>9. CmdInv'
      <4>1. PICK n \in Ids : n = m
        BY <2>1
      <4>2. Reviewed(n, Changed(n))' /\ Found({})'
        BY <2>1, <3>4, <3>7, <3>8, <4>1 DEF Found, Reviewed, Changed, Listed
      <4>3. /\ cmd'.id = n /\ cmd'.written = {} /\ cmd'.todo = cmd'.changed
            /\ cmd'.pc = "copy" \/ (cmd'.pc = "manifest" /\ cmd'.todo = {})
        BY <3>4, <3>8, <4>1
      <4>4. Changed(n)' \ cmd'.todo = {}
        BY <2>1, <3>3, <3>8, <4>1, <4>2, <4>3 DEF Found, Changed, Listed, NeedsId
      <4>5. Snapshot(n, Changed(n) \ cmd.todo)' /\ Copied(n, cmd.changed \ cmd.todo)'
        BY <4>3, <4>4 DEF Snapshot, Copied
      <4>6. report'[n] # None /\ dir'[n].made
        BY <2>1, <3>2, <4>1
      <4>7. QED BY <4>2, <4>3, <4>5, <4>6 DEF CmdInv
    <3>10. QED BY <3>5, <3>6, <3>9 DEF MigrationInv
  <2>4. QED BY <2>2, <2>3
<1>3. ASSUME NEW f \in Files, CopyOriginal(f)
      PROVE  MigrationInv'
  <2>1. m \in Ids /\ report[m] # None /\ UNCHANGED <<vault, report, edits, faults, edited>>
    BY <1>t, <1>3 DEF CopyOriginal, CmdInv
  <2>2. CASE vault[f] = None
    <3>1. End("error") /\ UNCHANGED dir
      BY <1>t, <1>3, <2>2 DEF CopyOriginal
    <3>2. QED BY <2>1, <3>1, SameDirs, EndStep, <1>t DEF Types, Outcomes
  <2>3. CASE vault[f] # None
    <3>1. /\ dir' = [dir EXCEPT ![m].originals[f] = vault[f]] /\ f \in cmd.todo /\ cmd.pc = "copy"
          /\ Took(f, "manifest", {}) /\ UNCHANGED outcome
      BY <1>t, <1>3, <2>3 DEF CopyOriginal
    <3>2. /\ dir' \in [Ids -> Dirs] /\ dir'[m].originals[f] = vault[f]
          /\ \A q \in Files \ {f} : dir'[m].originals[q] = dir[m].originals[q]
          /\ \A n \in Ids : /\ dir'[n].made = dir[n].made
                            /\ dir'[n].manifest = dir[n].manifest
                            /\ n # m => dir'[n] = dir[n]
      <4>1. /\ dir \in [Ids -> Dirs] /\ dir[m] \in Dirs /\ f \in Files
            /\ vault[f] \in Contents \union {None}
        BY <1>t, <2>1, <3>1 DEF Types, Commands
      <4> DEFINE kept == [dir[m].originals EXCEPT ![f] = vault[f]]
                 new == [dir[m] EXCEPT !.originals = kept]
      <4>2. /\ kept \in [Files -> Contents \union {None}] /\ kept[f] = vault[f]
            /\ \A q \in Files \ {f} : kept[q] = dir[m].originals[q]
        BY <4>1 DEF Dirs
      <4>3. dir' = [dir EXCEPT ![m] = new]
        BY <3>1
      <4> HIDE DEF kept
      <4>4. /\ new \in Dirs /\ new.originals = kept /\ new.made = dir[m].made
            /\ new.manifest = dir[m].manifest
        BY <4>1, <4>2 DEF Dirs
      <4> HIDE DEF new
      <4>5. /\ dir' \in [Ids -> Dirs] /\ dir'[m] = new
            /\ \A n \in Ids \ {m} : dir'[n] = dir[n]
        BY <2>1, <4>1, <4>3, <4>4
      <4>6. QED BY <4>2, <4>4, <4>5
    <3>3. /\ cmd' \in Commands /\ cmd'.id = m /\ cmd'.written = cmd.written
          /\ cmd'.changed = cmd.changed
          /\ cmd.todo = {f} => cmd'.pc = "manifest" /\ cmd'.todo = {}
          /\ cmd.todo # {f} => cmd'.pc = cmd.pc /\ cmd'.todo = cmd.todo \ {f}
      BY <1>t, <3>1, TookFacts DEF Types, Phases
    <3>4. Types'
      BY <1>t, <2>1, <3>1, <3>2, <3>3 DEF Types
    <3>5. /\ cmd.todo \subseteq cmd.changed /\ cmd.written = {} /\ dir[m].made /\ Found({})
          /\ Reviewed(m, Changed(m)) /\ Snapshot(m, Changed(m) \ cmd.todo)
          /\ Copied(m, cmd.changed \ cmd.todo)
      BY <1>t, <3>1 DEF CmdInv
    <3>6. f \in Changed(m) => (f \notin edited[m] => vault[f] = report[m][f])
      BY <3>5 DEF Reviewed
    <3>7. DirInv'
      <4>1. ASSUME NEW n \in Ids
            PROVE  /\ dir'[n].made => report'[n] # None
                   /\ dir'[n].manifest => dir'[n].made /\ Snapshot(n, Changed(n))'
        <5>1. CASE n # m
          BY <1>t, <2>1, <3>2, <5>1 DEF DirInv, Snapshot, Changed, Listed, NeedsId
        <5>2. CASE n = m
          BY <1>t, <2>1, <2>3, <3>2, <3>6, <5>2 DEF DirInv, Snapshot, Changed, Listed, NeedsId
        <5>3. QED BY <5>1, <5>2
      <4>2. QED BY <4>1 DEF DirInv
    <3>8. /\ \A q \in Changed(m) \ (cmd.todo \ {f}) :
                /\ dir'[m].originals[q] # None
                /\ q \notin edited[m] => dir'[m].originals[q] = report[m][q]
          /\ \A q \in cmd.changed \ (cmd.todo \ {f}) : dir'[m].originals[q] # None
      <4>1. \A q \in Changed(m) \union cmd.changed : q \in Files
        BY <1>t DEF Changed, Commands
      <4>2. \A q \in Files : q # f => dir'[m].originals[q] = dir[m].originals[q]
        BY <3>2
      <4>3. QED BY <2>3, <3>2, <3>5, <3>6, <4>1, <4>2 DEF Snapshot, Copied
    <3>9. CmdInv'
      <4>1. PICK n \in Ids : n = m
        BY <2>1
      <4>2. Changed(n)' = Changed(n) /\ Listed(n)' = Listed(n)
        BY <2>1 DEF Changed, Listed
      <4>3. Reviewed(n, Changed(n))' /\ Found({})'
        BY <2>1, <3>3, <3>5, <4>1, <4>2 DEF Reviewed, Found
      <4>4. /\ cmd'.id = n /\ cmd'.written = {} /\ cmd'.pc \in {"copy", "manifest"}
            /\ cmd'.todo = cmd.todo \ {f} /\ (cmd'.pc = "manifest" => cmd'.todo = {})
            /\ cmd'.changed = cmd.changed
        BY <3>1, <3>3, <3>5, <4>1
      <4>5. report'[n] # None /\ dir'[n].made /\ cmd'.todo \subseteq cmd'.changed
        BY <2>1, <3>2, <3>5, <4>1, <4>4
      <4>6. \A q \in Changed(n) \ cmd'.todo :
                /\ dir'[n].originals[q] # None
                /\ q \notin edited'[n] => dir'[n].originals[q] = report'[n][q]
        BY <2>1, <3>8, <4>1, <4>4
      <4>7. \A q \in cmd'.changed \ cmd'.todo : dir'[n].originals[q] # None
        BY <3>8, <4>1, <4>4
      <4>8. Snapshot(n, Changed(n) \ cmd.todo)' /\ Copied(n, cmd.changed \ cmd.todo)'
        BY <4>2, <4>6, <4>7 DEF Snapshot, Copied
      <4>9. QED BY <4>3, <4>4, <4>5, <4>8 DEF CmdInv
    <3>10. QED BY <3>4, <3>7, <3>9 DEF MigrationInv
  <2>4. QED BY <2>2, <2>3
<1>4. CASE WriteManifest
  <2>1. /\ m \in Ids /\ report[m] # None /\ cmd.todo = {} /\ dir[m].made /\ cmd.written = {}
        /\ Reviewed(m, Changed(m)) /\ Snapshot(m, Changed(m))
        /\ Copied(m, cmd.changed) /\ Found({})
        /\ UNCHANGED <<vault, report, edits, faults, edited>>
    BY <1>t, <1>4 DEF WriteManifest, CmdInv, Snapshot, Copied
  <2>2. /\ dir' \in [Ids -> Dirs] /\ dir'[m].manifest
        /\ \A n \in Ids : /\ dir'[n].originals = dir[n].originals
                          /\ dir'[n].made = dir[n].made
                          /\ n # m => dir'[n] = dir[n]
    <3> DEFINE new == [dir[m] EXCEPT !.manifest = TRUE]
    <3>1. dir \in [Ids -> Dirs] /\ dir[m] \in Dirs
      BY <1>t, <2>1 DEF Types
    <3>2. new \in Dirs /\ new.manifest /\ new.originals = dir[m].originals
          /\ new.made = dir[m].made
      BY <3>1 DEF Dirs
    <3>3. dir' = [dir EXCEPT ![m] = new]
      BY <1>4 DEF WriteManifest
    <3> HIDE DEF new
    <3>4. QED BY <2>1, <3>1, <3>2, <3>3
  <2>3. DirInv'
    BY <1>t, <2>1, <2>2 DEF DirInv, Snapshot, Changed, Listed, NeedsId
  <2>4. /\ cmd' \in Commands /\ cmd'.pc = "discover" /\ cmd'.todo = {} /\ cmd'.id = m
        /\ cmd'.written = {} /\ cmd'.changed = cmd.changed /\ UNCHANGED outcome
    BY <1>t, <1>4, <2>1, GoOnFacts DEF WriteManifest, Phases
  <2>5. Types'
    BY <1>t, <2>1, <2>2, <2>4 DEF Types
  <2>6. CmdInv'
    BY <2>1, <2>2, <2>4 DEF CmdInv, Found, Copied, Snapshot, Reviewed, Changed, Listed
  <2>7. QED BY <2>3, <2>5, <2>6 DEF MigrationInv
<1>d. CASE Discover
  <2>1. /\ m \in Ids /\ report[m] # None /\ dir[m].manifest /\ cmd.written = {}
        /\ Reviewed(m, Changed(m)) /\ Copied(m, cmd.changed) /\ Found({})
        /\ UNCHANGED <<vault, report, dir, edits, faults, edited>>
    BY <1>t, <1>d DEF Discover, CmdInv, Copied
  <2>2. DirInv'
    BY <1>t, <2>1, SameDirs
  <2>3. CASE End("applied")
    BY <2>1, <2>2, <2>3, EndStep, <1>t DEF Types, Outcomes
  <2>4. CASE ~End("applied")
    <3> DEFINE there == {f \in Files : vault[f] # None}
    <3>1. /\ cmd' = [cmd EXCEPT !.pc = "read", !.todo = cmd.changed, !.sources = there]
          /\ UNCHANGED outcome
      BY <1>d, <2>4 DEF Discover
    <3>2. there \in SUBSET Files
      OBVIOUS
    <3> HIDE DEF there
    <3>3. /\ cmd' \in Commands /\ cmd'.pc = "read" /\ cmd'.todo = cmd.changed /\ cmd'.id = m
          /\ cmd'.written = {} /\ cmd'.changed = cmd.changed
      BY <1>t, <2>1, <3>1, <3>2 DEF Commands, Phases
    <3>4. Types'
      BY <1>t, <2>1, <3>1, <3>3 DEF Types
    <3>5. CmdInv'
      BY <2>1, <3>3 DEF CmdInv, Found, Copied, Reviewed, Rewritten, Changed, Listed
    <3>6. QED BY <2>2, <3>4, <3>5 DEF MigrationInv
  <2>5. QED BY <2>3, <2>4
<1>5. ASSUME NEW f \in Files, ReadSource(f)
      PROVE  MigrationInv'
  <2>1. /\ m \in Ids /\ report[m] # None /\ cmd.pc = "read" /\ f \in cmd.todo
        /\ UNCHANGED <<vault, report, dir, edits, faults, edited>>
    BY <1>t, <1>5 DEF ReadSource, CmdInv
  <2>2. CASE f \in cmd.sources \intersect Listed(m) /\ Renderable(vault[f])
    <3>1. /\ UNCHANGED outcome
          /\ cmd' = [cmd EXCEPT !.pc = "write", !.file = f, !.got = Migrated(vault[f], m)]
      BY <1>5, <2>2 DEF ReadSource
    <3>2. Migrated(vault[f], m) \in Contents
      BY <1>t, <2>1, <2>2, MigratedIsContent DEF Renderable, Types
    <3>3. /\ cmd' \in Commands /\ cmd'.pc = "write" /\ cmd'.file = f /\ cmd'.got = Migrated(vault[f], m)
          /\ cmd'.id = m /\ cmd'.written = cmd.written /\ cmd'.todo = cmd.todo
          /\ cmd'.changed = cmd.changed
      BY <3>1, <3>2, <1>t DEF Commands, Phases
    <3>4. Types' /\ DirInv'
      BY <1>t, <2>1, <3>1, <3>3, SameDirs DEF Types
    <3>5. /\ dir[m].manifest /\ cmd.todo \subseteq cmd.changed /\ cmd.written = cmd.changed \ cmd.todo
          /\ cmd.written \subseteq Changed(m) /\ Found({}) /\ Copied(m, cmd.changed)
          /\ Reviewed(m, Changed(m) \ cmd.written) /\ Rewritten(m, cmd.written)
      BY <1>t, <2>1 DEF CmdInv
    <3>6. f \in Changed(m) \ cmd.written
      BY <2>1, <2>2, <3>5 DEF Found
    <3>7. f \notin edited[m] => Migrated(vault[f], m) = Migrated(report[m][f], m)
      BY <3>5, <3>6 DEF Reviewed
    <3>8. CmdInv'
      BY <2>1, <3>2, <3>3, <3>5, <3>6, <3>7
         DEF CmdInv, Found, Copied, Reviewed, Rewritten, Changed, Listed
    <3>9. QED BY <3>4, <3>8 DEF MigrationInv
  <2>3. CASE ~(f \in cmd.sources \intersect Listed(m) /\ Renderable(vault[f]))
    <3>1. Undo
      BY <1>5, <2>3 DEF ReadSource
    <3>2. QED BY <1>t, <2>1, <3>1, UndoStep DEF Types
  <2>4. QED BY <2>2, <2>3
<1>6. CASE WriteSource
  <2> DEFINE f == cmd.file
  <2>1. /\ m \in Ids /\ report[m] # None /\ cmd.pc = "write" /\ cmd.got \in Contents
        /\ f \in cmd.todo /\ f \in Changed(m)
        /\ f \notin edited[m] => cmd.got = Migrated(report[m][f], m)
        /\ dir[m].manifest /\ Found({}) /\ Copied(m, cmd.changed)
        /\ cmd.todo \subseteq cmd.changed /\ cmd.written = cmd.changed \ cmd.todo
        /\ cmd.written \subseteq Changed(m)
        /\ Reviewed(m, Changed(m) \ cmd.written) /\ Rewritten(m, cmd.written)
        /\ UNCHANGED <<report, dir, edits, faults, edited>>
    BY <1>t, <1>6 DEF WriteSource, CmdInv
  <2>2. f \in Files
    BY <2>1 DEF Changed
  <2>3. /\ vault' \in [Files -> Contents \union {None}] /\ vault'[f] = cmd.got
        /\ \A q \in Files \ {f} : vault'[q] = vault[q]
    BY <1>t, <1>6, <2>1, <2>2 DEF WriteSource, Types
  <2>4. DirInv'
    BY <1>t, <2>1, SameDirs
  <2>5. CASE End("applied")
    BY <2>1, <2>3, <2>4, <2>5, EndStep, <1>t DEF Types, Outcomes
  <2>6. CASE ~End("applied")
    <3>1. /\ cmd' = [cmd EXCEPT !.pc = "read", !.todo = @ \ {f}, !.written = @ \union {f}]
          /\ UNCHANGED outcome
      BY <1>t, <1>6, <2>6 DEF WriteSource
    <3>2. /\ cmd' \in Commands /\ cmd'.pc = "read" /\ cmd'.id = m /\ cmd'.changed = cmd.changed
          /\ cmd'.todo = cmd.todo \ {f} /\ cmd'.written = cmd.written \union {f}
      BY <2>2, <3>1, <1>t DEF Commands, Phases
    <3>3. Types'
      BY <1>t, <2>1, <2>3, <3>1, <3>2 DEF Types
    <3>4. /\ \A q \in Changed(m) \ (cmd.written \union {f}) :
                q \notin edited[m] => vault'[q] = report[m][q]
          /\ \A q \in cmd.written \union {f} :
                q \notin edited[m] => vault'[q] = Migrated(report[m][q], m)
      <4>1. \A q \in Changed(m) : q # f => vault'[q] = vault[q]
        BY <2>3 DEF Changed
      <4>2. QED BY <2>1, <2>3, <4>1 DEF Reviewed, Rewritten
    <3>5. cmd.written \union {f} = cmd.changed \ (cmd.todo \ {f})
      BY <2>1
    <3>6. CmdInv'
      BY <2>1, <3>2, <3>4, <3>5 DEF CmdInv, Found, Copied, Reviewed, Rewritten, Changed, Listed
    <3>7. QED BY <2>4, <3>3, <3>6 DEF MigrationInv
  <2>7. QED BY <2>5, <2>6
<1>7. ASSUME NEW f \in Files, UndoFile(f)
      PROVE  MigrationInv'
  <2>1. /\ cmd.pc = "undo" /\ f \in cmd.todo /\ UNCHANGED <<report, dir, edits, faults, edited>>
        /\ vault' = [vault EXCEPT ![f] = dir[cmd.id].originals[f]]
        /\ IF cmd.todo = {f} THEN End("undone") ELSE Took(f, "off", {}) /\ UNCHANGED outcome
    BY <1>t, <1>7 DEF UndoFile
  <2>2. QED BY <2>1, PutBackStep DEF Outcomes
<1>8. QED BY <1>1, <1>2, <1>3, <1>4, <1>d, <1>5, <1>6, <1>7

\* Every step: the commands begin, run, fail or are killed, and editors change
\* the vault next to them.
LEMMA MigrationStep ==
    ASSUME MigrationInv, [Next]_vars
    PROVE  MigrationInv'
<1> USE DEF At
<1>t. Types /\ DirInv /\ CmdInv /\ cmd \in Commands
  BY DEF MigrationInv, Types
<1>1. ASSUME NEW m \in Ids, Plan(m)
      PROVE  MigrationInv'
  <2>1. Types'
    BY <1>t, <1>1 DEF Plan, Types
  <2>2. DirInv'
    BY <1>t, <1>1 DEF Plan, Types, DirInv, Snapshot, Listed, Changed, NeedsId
  <2>3. CmdInv'
    BY <1>t, <1>1 DEF Plan, CmdInv
  <2>4. QED BY <2>1, <2>2, <2>3 DEF MigrationInv
<1>2. ASSUME NEW m \in Ids, Apply(m)
      PROVE  MigrationInv'
  <2>1. Types'
    BY <1>t, <1>2 DEF Apply, Begin, NoCmd, Types, Commands, Phases
  <2>2. DirInv'
    BY <1>t, <1>2 DEF Apply, Types, DirInv, Snapshot, Listed, Changed, NeedsId
  <2>3. CmdInv'
    BY <1>t, <1>2 DEF Apply, Begin, NoCmd, CmdInv, Found, Reviewed, Listed, Changed
  <2>4. QED BY <2>1, <2>2, <2>3 DEF MigrationInv
<1>3. ASSUME NEW m \in Ids, Restore(m)
      PROVE  MigrationInv'
  <2>1. Types'
    BY <1>t, <1>3 DEF Restore, Begin, NoCmd, Types, Commands, Phases, Changed, Listed, NeedsId
  <2>2. DirInv'
    BY <1>t, <1>3, SameDirs DEF Restore
  <2>3. CmdInv'
    BY <1>t, <1>3 DEF Restore, Begin, NoCmd, CmdInv, DirInv, Changed, Listed, NeedsId
  <2>4. QED BY <2>1, <2>2, <2>3 DEF MigrationInv
<1>4. CASE \/ \E f \in Files : CheckFile(f) \/ CopyOriginal(f) \/ ReadSource(f) \/ UndoFile(f)
           \/ OpenSnapshot \/ WriteManifest \/ Discover \/ WriteSource
  BY <1>4, ApplyStep
<1>5. ASSUME NEW f \in Files, CompareFile(f)
      PROVE  MigrationInv'
  <2>1. /\ cmd.pc = "compare" /\ f \in cmd.todo /\ cmd.id \in Ids /\ report[cmd.id] # None
        /\ dir[cmd.id].manifest /\ cmd.todo \subseteq Changed(cmd.id)
        /\ cmd.written \subseteq Changed(cmd.id)
        /\ UNCHANGED <<vault, report, dir, outcome, edits, faults, edited>>
    BY <1>t, <1>5 DEF CompareFile, CmdInv
  <2>2. DirInv'
    BY <1>t, <2>1, SameDirs
  <2>3. CASE cmd' = NoCmd
    BY <1>t, <2>1, <2>2, <2>3, NoCmdFacts DEF MigrationInv, Types
  <2>4. CASE cmd' # NoCmd
    <3>1. Took(f, "restore", Changed(cmd.id)) /\ Changed(cmd.id) \subseteq Files
      BY <1>5, <2>4 DEF CompareFile, Changed, Listed, NeedsId
    <3>2. /\ cmd' \in Commands /\ cmd'.id = cmd.id /\ cmd'.written = cmd.written
          /\ cmd.todo = {f} => cmd'.pc = "restore" /\ cmd'.todo = Changed(cmd.id)
          /\ cmd.todo # {f} => cmd'.pc = "compare" /\ cmd'.todo = cmd.todo \ {f}
      BY <1>t, <2>1, <3>1, TookFacts DEF Phases
    <3>3. Types'
      BY <1>t, <2>1, <3>2 DEF Types
    <3>4. CmdInv'
      BY <2>1, <3>2 DEF CmdInv, Reviewed, Changed, Listed, NeedsId
    <3>5. QED BY <2>2, <3>3, <3>4 DEF MigrationInv
  <2>5. QED BY <2>3, <2>4
<1>6. ASSUME NEW f \in Files, RestoreFile(f)
      PROVE  MigrationInv'
  <2>1. /\ cmd.pc = "restore" /\ f \in cmd.todo /\ UNCHANGED <<report, dir, edits, faults, edited>>
        /\ vault' = [vault EXCEPT ![f] = dir[cmd.id].originals[f]]
        /\ IF cmd.todo = {f} THEN End("restored") ELSE Took(f, "off", {}) /\ UNCHANGED outcome
    BY <1>6 DEF RestoreFile
  <2>2. QED BY <2>1, PutBackStep DEF Outcomes
<1>7. CASE Fault \/ Crash
  <2>1. /\ cmd.pc # "off" /\ cmd.id \in Ids /\ faults' \in Nat
        /\ UNCHANGED <<vault, report, dir, edits, edited>>
    BY <1>t, <1>7 DEF Fault, Crash, CmdInv, Types
  <2>2. DirInv'
    BY <1>t, <2>1, SameDirs
  <2>3. CASE cmd.pc \in {"discover", "read", "write"} /\ Undo
    BY <2>1, <2>3, UndoStep
  <2>4. CASE cmd' = NoCmd /\ UNCHANGED outcome
    BY <1>t, <2>1, <2>2, <2>4, NoCmdFacts DEF MigrationInv, Types
  <2>5. CASE End("torn") \/ End("error")
    BY <1>t, <2>1, <2>2, <2>5, EndStep DEF Types, Outcomes
  <2>6. QED BY <1>7, <2>3, <2>4, <2>5 DEF Fault, Crash
<1>8. ASSUME NEW f \in Files, NEW c \in Contents \union {None}, Edit(f, c)
      PROVE  MigrationInv'
  <2>1. Types'
    BY <1>t, <1>8 DEF Edit, Types
  <2>2. DirInv'
    BY <1>t, <1>8 DEF Edit, Types, DirInv, Snapshot, Listed, Changed, NeedsId
  <2>3. CmdInv'
    BY <1>t, <1>8 DEF Edit, Types, CmdInv, Found, Copied, Snapshot, Reviewed, Rewritten,
       Listed, Changed
  <2>4. QED BY <2>1, <2>2, <2>3 DEF MigrationInv
<1>9. CASE UNCHANGED vars
  <2>1. UNCHANGED <<vault, report, dir, cmd, outcome, edits, faults, edited>>
    BY <1>9 DEF vars
  <2>2. Types'
    BY <1>t, <2>1 DEF Types
  <2>3. DirInv'
    BY <1>t, <2>1, SameDirs
  <2>4. CmdInv'
    BY <1>t, <2>1 DEF CmdInv, Found, Copied, Snapshot, Reviewed, Rewritten, Listed, Changed
  <2>5. QED BY <2>2, <2>3, <2>4 DEF MigrationInv
<1>10. ASSUME NEW f \in Files,
              NEW c \in {[text |-> t, id |-> i] : t \in Texts,
                             i \in {None} \union {m \in Ids : report[m] # None}} \union {None}
       PROVE  c \in Contents \union {None}
  BY DEF Contents
<1>11. QED BY <1>1, <1>2, <1>3, <1>4, <1>5, <1>6, <1>7, <1>8, <1>9, <1>10 DEF Next

-----------------------------------------------------------------------------
(* The theorems *)

\* MigrationInv holds in every reachable state.
THEOREM MigrationInvariant == Spec => []MigrationInv
<1>1. Init => MigrationInv
  <2> SUFFICES ASSUME Init PROVE MigrationInv
    OBVIOUS
  <2>1. NoCmd \in Commands /\ NoCmd.pc = "off"
    BY DEF NoCmd, Commands, Phases
  <2>2. NoDir \in Dirs /\ ~NoDir.made /\ ~NoDir.manifest
    BY DEF NoDir, Dirs
  <2>3. Types
    BY <2>1, <2>2 DEF Init, Types, Outcomes
  <2>4. DirInv /\ CmdInv
    BY <2>1, <2>2 DEF Init, DirInv, CmdInv
  <2>5. QED BY <2>3, <2>4 DEF MigrationInv
<1>2. MigrationInv /\ [Next]_vars => MigrationInv'
  BY MigrationStep
<1>3. QED BY <1>1, <1>2, PTL DEF Spec

\* The types of the vault, the reports and the directories hold, and a command
\* writes only files that its report changes, although its loop runs over
\* whatever files without an id it found in the vault.
THEOREM MigrationTypesHold == Spec => []MigrationTypeOK
<1>1. MigrationInv => MigrationTypeOK
  BY DEF MigrationInv, Types, Commands, Dirs, CmdInv, MigrationTypeOK
<1>2. QED BY <1>1, MigrationInvariant, PTL

\* No file is rewritten before the originals of all the files that the command
\* found to change, those of the report among them, are in its directory.
THEOREM SnapshotPrecedesChange == Spec => []SnapshotBeforeChange
<1>1. MigrationInv => SnapshotBeforeChange
  <2> SUFFICES ASSUME MigrationInv, cmd.pc \in {"discover", "read", "write", "undo"}
               PROVE  /\ dir[cmd.id].manifest
                      /\ \A f \in cmd.changed : dir[cmd.id].originals[f] # None
                      /\ \A f \in Changed(cmd.id) :
                            /\ f \in cmd.changed
                            /\ f \notin edited[cmd.id] =>
                                  dir[cmd.id].originals[f] = report[cmd.id][f]
    BY DEF SnapshotBeforeChange
  <2>1. /\ cmd.id \in Ids /\ dir[cmd.id].manifest /\ Found({})
        /\ Copied(cmd.id, cmd.changed)
    BY DEF MigrationInv, CmdInv, Copied
  <2>2. Snapshot(cmd.id, Changed(cmd.id))
    BY <2>1 DEF MigrationInv, DirInv
  <2>3. QED BY <2>1, <2>2 DEF Snapshot, Copied, Found
<1>2. QED BY <1>1, MigrationInvariant, PTL

\* A command that is not killed, and whose undo does not fail, leaves the files
\* that nobody edited all migrated or all as they were reviewed; all migrated
\* only if it found no file to change but those of its report.
THEOREM MigrationIsAllOrNothing == Spec => AllOrNothing
<1> DEFINE Whole ==
             \A o \in {"applied", "undone", "restored"} :
                /\ cmd.pc \in {"discover", "read", "write", "undo", "restore"}
                /\ cmd'.pc = "off" /\ outcome'[cmd.id] = o
                => /\ o = "applied" => cmd.changed = Changed(cmd.id)
                   /\ \A f \in Changed(cmd.id) \ edited[cmd.id] :
                         vault'[f] = IF o = "applied" THEN Migrated(report[cmd.id][f], cmd.id)
                                                      ELSE report[cmd.id][f]
<1>1. ASSUME MigrationInv, [Next]_vars
      PROVE  [Whole]_vars
  <2> DEFINE Result(o) == /\ o = "applied" => cmd.changed = Changed(cmd.id)
                          /\ \A f \in Changed(cmd.id) \ edited[cmd.id] :
                                vault'[f] = IF o = "applied"
                                            THEN Migrated(report[cmd.id][f], cmd.id)
                                            ELSE report[cmd.id][f]
  <2> SUFFICES ASSUME NEW o \in {"applied", "undone", "restored"}, Next,
                      cmd.pc \in {"discover", "read", "write", "undo", "restore"},
                      cmd'.pc = "off", outcome'[cmd.id] = o
               PROVE  Result(o)
    BY <1>1
  <2> USE DEF At
  <2>t. /\ Types /\ CmdInv /\ cmd \in Commands /\ cmd.id \in Ids
        /\ outcome \in [Ids -> Outcomes]
    BY <1>1 DEF MigrationInv, Types, CmdInv
  <2>e. \A x \in Outcomes : End(x) => o = x
    BY <2>t DEF End
  <2>1. \/ \E g \in Files : ReadSource(g) \/ UndoFile(g) \/ RestoreFile(g)
        \/ Discover \/ WriteSource \/ Fault \/ Crash
    <3>1. ASSUME NEW g, NEW c, Edit(g, c)
          PROVE  FALSE
      BY <3>1 DEF Edit
    <3>2. ASSUME NEW m \in Ids, Plan(m) \/ Apply(m) \/ Restore(m)
          PROVE  FALSE
      BY <3>2 DEF Plan, Apply, Restore
    <3>3. ASSUME NEW g \in Files, CheckFile(g) \/ CopyOriginal(g) \/ CompareFile(g)
          PROVE  FALSE
      BY <3>3 DEF CheckFile, CopyOriginal, CompareFile
    <3>4. ~OpenSnapshot /\ ~WriteManifest
      BY DEF OpenSnapshot, WriteManifest
    <3>5. QED BY <3>1, <3>2, <3>3, <3>4 DEF Next
  <2>u. ASSUME Undo, UNCHANGED vault, cmd.pc \in {"discover", "read", "write"}
        PROVE  Result(o)
    <3>1. cmd.written = {} /\ End("undone")
      BY <2>u, <2>t DEF Undo, GoOn, Commands
    <3>2. Reviewed(cmd.id, Changed(cmd.id))
      BY <2>u, <2>t, <3>1 DEF CmdInv, Reviewed
    <3>3. o = "undone"
      BY <3>1, <2>e DEF Outcomes
    <3>4. QED BY <2>u, <3>2, <3>3 DEF Reviewed
  <2>2. ASSUME NEW g \in Files, ReadSource(g)
        PROVE  Result(o)
    <3>1. Undo /\ UNCHANGED vault /\ cmd.pc = "read"
      BY <2>2, <2>t DEF ReadSource, Commands
    <3>2. QED BY <3>1, <2>u
  <2>3. CASE Discover
    <3>1. cmd.changed = {} /\ End("applied") /\ cmd.pc = "discover"
      BY <2>3, <2>t DEF Discover, Commands
    <3>2. Changed(cmd.id) = {}
      BY <3>1, <2>t DEF CmdInv, Found
    <3>3. QED BY <3>1, <3>2
  <2>4. CASE WriteSource
    <3>1. /\ End("applied") /\ cmd.todo = {cmd.file} /\ cmd.pc = "write"
          /\ vault' = [vault EXCEPT ![cmd.file] = cmd.got]
      BY <2>4, <2>t DEF WriteSource, Commands
    <3>2. /\ cmd.written = cmd.changed \ {cmd.file} /\ cmd.written \subseteq Changed(cmd.id)
          /\ cmd.file \in Changed(cmd.id) /\ cmd.file \in cmd.changed /\ Found({})
          /\ Rewritten(cmd.id, cmd.written)
          /\ cmd.file \notin edited[cmd.id] =>
                cmd.got = Migrated(report[cmd.id][cmd.file], cmd.id)
      BY <3>1, <2>t DEF CmdInv
    <3>3. cmd.changed = Changed(cmd.id) /\ o = "applied"
      BY <3>1, <3>2, <2>e DEF Found, Outcomes
    <3>4. ASSUME NEW f \in Changed(cmd.id), f \notin edited[cmd.id]
          PROVE  vault'[f] = Migrated(report[cmd.id][f], cmd.id)
      <4>1. f \in Files /\ DOMAIN vault = Files
        BY <2>t DEF Types, Changed
      <4>2. CASE f = cmd.file
        BY <3>1, <3>2, <3>4, <4>1, <4>2
      <4>3. CASE f # cmd.file
        BY <3>1, <3>2, <3>3, <3>4, <4>1, <4>3 DEF Rewritten
      <4>4. QED BY <4>2, <4>3
    <3>5. QED BY <3>3, <3>4
  <2>5. ASSUME NEW g \in Files, UndoFile(g) \/ RestoreFile(g)
        PROVE  Result(o)
    <3>1. /\ cmd.pc \in {"undo", "restore"} /\ g \in cmd.todo
          /\ vault' = [vault EXCEPT ![g] = dir[cmd.id].originals[g]]
          /\ UNCHANGED <<report, dir, edited>>
      BY <2>5 DEF UndoFile, RestoreFile
    <3>2. cmd.todo = {g} /\ (End("undone") \/ End("restored"))
      BY <2>5, <2>t, <3>1 DEF UndoFile, RestoreFile, Took, Commands
    <3>3. \A q \in Changed(cmd.id) \ (cmd.todo \ {g}) :
              q \notin edited[cmd.id] => vault'[q] = report[cmd.id][q]
      BY <1>1, <3>1, PutBack
    <3>4. o \in {"undone", "restored"}
      BY <3>2, <2>e DEF Outcomes
    <3>5. QED BY <3>2, <3>3, <3>4
  <2>6. CASE Fault
    <3>1. CASE cmd.pc \in {"discover", "read", "write"}
      BY <2>6, <2>u, <3>1 DEF Fault
    <3>2. CASE cmd.pc \in {"undo", "restore"}
      <4>1. End("torn")
        BY <2>6, <3>2 DEF Fault
      <4>2. QED BY <4>1, <2>e DEF Outcomes
    <3>3. QED BY <3>1, <3>2
  <2>7. CASE Crash
    <3>1. End("torn") \/ End("error")
      BY <2>7 DEF Crash
    <3>2. QED BY <3>1, <2>e DEF Outcomes
  <2>8. QED BY <2>1, <2>2, <2>3, <2>4, <2>5, <2>6, <2>7
<1>2. QED BY <1>1, MigrationInvariant, PTL DEF Spec, AllOrNothing
=============================================================================
