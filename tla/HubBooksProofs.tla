--------------------------- MODULE HubBooksProofs ---------------------------
(***************************************************************************)
(* The five parts of HubBooks, for every value of their constants: each    *)
(* has its inductive invariant, of which the types and the safety          *)
(* properties follow, and the composition has them all.                    *)
(***************************************************************************)
EXTENDS HubBooks, SharedFacts

-----------------------------------------------------------------------------
(* The set-up of the config files (Setup).                                 *)

SetupSpec == SetupInit /\ [][SetupNext]_setup

\* What a file may hold.
ContentsOf(f) ==
  [there : BOOLEAN, shaped : BOOLEAN, ours : OursIn(f), others : SUBSET Items]

\* The edit a run is at: the file is one it still has to do, and what will be
\* written is of the kind the file may hold.
EditOK ==
  /\ run = [at |-> run.at, todo |-> run.todo, url |-> run.url, file |-> run.file, new |-> run.new]
  /\ run.at \in {"idle", "files", "backup", "write"}
  /\ run.todo \subseteq Files
  /\ \A f \in run.todo : config[f].there
  /\ run.url \in Urls \cup {"none"}
  /\ run.at \in {"backup", "write"} =>
       /\ run.file \in run.todo
       /\ run.new \in ContentsOf(run.file) /\ run.new.there
       /\ run.file \in JsonFiles => run.new.others \subseteq Entries

FilesOK ==
  /\ config = [f \in Files |-> config[f]] /\ backups = [f \in Files |-> backups[f]]
  /\ owned = [f \in Files |-> owned[f]]
  /\ \A f \in Files :
       /\ config[f] \in ContentsOf(f)
       /\ ~config[f].there => config[f] = Missing
       /\ f \in JsonFiles => config[f].others \subseteq Entries
       /\ backups[f] \subseteq Items /\ owned[f] \subseteq Items

\* Between the backup and the write the backups hold all there is of the
\* owner's: what is written over then is not lost.
BackedUp == run.at = "write" => owned[run.file] \subseteq backups[run.file]

SetupInv == FilesOK /\ EditOK /\ OthersAreKept /\ BackedUp

\* No entry of the hub, or one, is what every file may hold.
LEMMA OursFacts ==
  ASSUME NEW f \in Files
  PROVE  /\ <<>> \in OursIn(f)
         /\ \A u \in Urls : <<u>> \in OursIn(f)
<1> DEFINE n == IF f \in JsonFiles \cup TomlFiles THEN 1 ELSE 2
<1>1. n \in Nat /\ 0 \in 0..n /\ 1 \in 0..n OBVIOUS
<1>2. <<>> \in [1..0 -> Urls] OBVIOUS
<1>3. \A u \in Urls : <<u>> \in [1..1 -> Urls] OBVIOUS
<1>4. OursIn(f) = UNION {[1..m -> Urls] : m \in 0..n}
  BY DEF OursIn, BoundedSeq, SeqOf
<1> HIDE DEF n
<1> QED BY <1>1, <1>2, <1>3, <1>4

\* It holds before the first run.
LEMMA SetupStarts == SetupInit => SetupInv
<1> SUFFICES ASSUME SetupInit PROVE SetupInv OBVIOUS
<1>0. \A f \in Files : <<>> \in OursIn(f) BY OursFacts
<1>1. FilesOK
  <2> DEFINE empty == [there |-> TRUE, shaped |-> TRUE, ours |-> <<>>, others |-> {}]
  <2>1. \A f \in Files : config[f] = Missing \/ config[f] = empty
    <3>1. ASSUME NEW r \in [there : {TRUE}, shaped : {TRUE}, ours : {<<>>}, others : {{}}]
          PROVE  r = empty
      OBVIOUS
    <3> HIDE DEF empty
    <3> QED BY <3>1 DEF SetupInit
  <2>2. config = [f \in Files |-> config[f]] BY DEF SetupInit
  <2>3. \A f \in Files : config[f] \in ContentsOf(f) /\ config[f].others = {}
    <3>1. \A f \in Files : Missing \in ContentsOf(f) /\ empty \in ContentsOf(f)
      BY <1>0 DEF ContentsOf, Missing
    <3> QED BY <3>1, <2>1 DEF Missing
  <2>4. \A f \in Files : ~config[f].there => config[f] = Missing BY <2>1 DEF Missing
  <2> QED BY <2>2, <2>3, <2>4 DEF SetupInit, FilesOK
<1>2. EditOK BY DEF SetupInit, EditOK, NoRun
<1>3. OthersAreKept BY DEF SetupInit, OthersAreKept
<1>4. BackedUp BY DEF SetupInit, BackedUp, NoRun
<1> QED BY <1>1, <1>2, <1>3, <1>4 DEF SetupInv

\* The owner of a file.
LEMMA OwnerSound ==
  ASSUME SetupInv, NEW f \in Files,
         \/ \E i \in Items : OwnerWrites(f, i) \/ OwnerRemoves(f, i)
         \/ \E shaped \in BOOLEAN, ours \in OursIn(f) : OwnerEdits(f, shaped, ours)
  PROVE  SetupInv'
<1>1. CASE \E i \in Items : OwnerWrites(f, i)
  <2> PICK i \in Items : OwnerWrites(f, i) BY <1>1
  <2>1. FilesOK' BY DEF SetupInv, FilesOK, OwnerWrites, ContentsOf, Missing, Items
  <2>2. EditOK' BY DEF SetupInv, FilesOK, EditOK, OwnerWrites, ContentsOf
  <2>3. OthersAreKept' BY DEF SetupInv, FilesOK, EditOK, OthersAreKept, BackedUp, OwnerWrites, ContentsOf
  <2>4. BackedUp' BY DEF SetupInv, FilesOK, EditOK, BackedUp, OwnerWrites
  <2> QED BY <2>1, <2>2, <2>3, <2>4 DEF SetupInv
<1>2. CASE \E i \in Items : OwnerRemoves(f, i)
  <2> PICK i \in Items : OwnerRemoves(f, i) BY <1>2
  <2> DEFINE edited == [config[f] EXCEPT !.others = @ \ {i}]
  <2>0. /\ config[f] \in ContentsOf(f) /\ config[f].there
        /\ f \in JsonFiles => config[f].others \subseteq Entries
    BY DEF SetupInv, FilesOK, OwnerRemoves, Missing
  <2>5. /\ edited \in ContentsOf(f) /\ edited.there
        /\ f \in JsonFiles => edited.others \subseteq Entries
    BY <2>0 DEF ContentsOf
  <2>6. config' = [config EXCEPT ![f] = edited] BY DEF OwnerRemoves
  <2> HIDE DEF edited
  <2>1. FilesOK' BY <2>5, <2>6 DEF SetupInv, FilesOK, OwnerRemoves
  <2>2. EditOK' BY DEF SetupInv, FilesOK, EditOK, OwnerRemoves, ContentsOf
  <2>3. OthersAreKept' BY DEF SetupInv, FilesOK, EditOK, OthersAreKept, OwnerRemoves, ContentsOf
  <2>4. BackedUp' BY DEF SetupInv, FilesOK, EditOK, BackedUp, OwnerRemoves
  <2> QED BY <2>1, <2>2, <2>3, <2>4 DEF SetupInv
<1>3. CASE \E shaped \in BOOLEAN, ours \in OursIn(f) : OwnerEdits(f, shaped, ours)
  <2> PICK shaped \in BOOLEAN, ours \in OursIn(f) : OwnerEdits(f, shaped, ours) BY <1>3
  <2> DEFINE edited == [config[f] EXCEPT !.shaped = shaped, !.ours = ours]
  <2>0. /\ config[f] \in ContentsOf(f) /\ config[f].there
        /\ f \in JsonFiles => config[f].others \subseteq Entries
    BY DEF SetupInv, FilesOK, OwnerEdits
  <2>5. /\ edited \in ContentsOf(f) /\ edited.there
        /\ f \in JsonFiles => edited.others \subseteq Entries
    BY <2>0 DEF ContentsOf
  <2>6. config' = [config EXCEPT ![f] = edited] BY <2>0 DEF OwnerEdits, ContentsOf
  <2> HIDE DEF edited
  <2>1. FilesOK' BY <2>5, <2>6 DEF SetupInv, FilesOK, OwnerEdits
  <2>2. EditOK' BY DEF SetupInv, FilesOK, EditOK, OwnerEdits, ContentsOf
  <2>7. \A g \in Files : config'[g].others = config[g].others
    BY <2>0 DEF SetupInv, FilesOK, OwnerEdits, ContentsOf
  <2>3. OthersAreKept' BY <2>7 DEF SetupInv, OthersAreKept, OwnerEdits
  <2>4. BackedUp' BY DEF SetupInv, FilesOK, EditOK, BackedUp, OwnerEdits
  <2> QED BY <2>1, <2>2, <2>3, <2>4 DEF SetupInv
<1> QED BY <1>1, <1>2, <1>3

\* A run, until it writes.
LEMMA EditSound ==
  ASSUME SetupInv, NEW f \in Files, NEW swept \in SUBSET Items, Rewrites(f, swept)
  PROVE  SetupInv'
<1>0. Wanted \in OursIn(f) BY OursFacts DEF SetupInv, EditOK, Wanted
<1>1. FilesOK' BY DEF SetupInv, FilesOK, Rewrites
<1>2. EditOK'
  <2>1. config[f] \in ContentsOf(f) /\ config[f].there
    BY DEF SetupInv, FilesOK, EditOK, Rewrites
  <2>2. /\ run'.new = [config[f] EXCEPT !.ours = Wanted, !.others = @ \ swept]
        /\ run'.file = f /\ run'.at = "backup" /\ run'.todo = run.todo /\ run'.url = run.url
        /\ run' = [at |-> run'.at, todo |-> run'.todo, url |-> run'.url, file |-> run'.file,
                   new |-> run'.new]
    BY DEF SetupInv, EditOK, Rewrites
  <2>3. run'.new \in ContentsOf(f) /\ run'.new.there /\ run'.new.others \subseteq config[f].others
    BY <1>0, <2>1, <2>2 DEF ContentsOf
  <2> QED BY <2>2, <2>3 DEF SetupInv, FilesOK, EditOK, Rewrites
<1>3. OthersAreKept' BY DEF SetupInv, OthersAreKept, Rewrites
<1>4. BackedUp' BY DEF SetupInv, EditOK, BackedUp, Rewrites
<1> QED BY <1>1, <1>2, <1>3, <1>4 DEF SetupInv

\* A run, from its beginning to its end or its interruption.
LEMMA RunSound ==
  ASSUME SetupInv,
         \/ \E only, installed \in SUBSET Files, force \in BOOLEAN, url \in Urls \cup {"none"} :
              Begin(only, installed, force, url)
         \/ \E f \in Files : LeavesAlone(f)
         \/ Backup \/ WriteFile \/ End \/ Interrupted
         \/ \E shaped \in BOOLEAN, rest \in SUBSET Items : TornWrite(shaped, rest)
  PROVE  SetupInv'
<1>1. CASE \E only, installed \in SUBSET Files, force \in BOOLEAN, url \in Urls \cup {"none"} :
            Begin(only, installed, force, url)
  <2> PICK only \in SUBSET Files, installed \in SUBSET Files, force \in BOOLEAN,
           url \in Urls \cup {"none"} : Begin(only, installed, force, url)
    BY <1>1
  <2>1. run'.todo \subseteq Files /\ \A f \in run'.todo : config[f].there
    BY DEF Begin, NoRun, Existing, ConfigOnly
  <2>2. EditOK' BY <2>1 DEF EditOK, Begin, NoRun
  <2> QED BY <2>2 DEF SetupInv, FilesOK, OthersAreKept, BackedUp, Begin, NoRun
<1>2. CASE \E f \in Files : LeavesAlone(f)
  <2>1. EditOK' BY <1>2 DEF SetupInv, EditOK, LeavesAlone, PassOver
  <2> QED BY <1>2, <2>1 DEF SetupInv, EditOK, FilesOK, OthersAreKept, BackedUp, LeavesAlone, PassOver
<1>3. CASE Backup
  <2>1. run.file \in Files /\ config[run.file] \in ContentsOf(run.file)
    BY <1>3 DEF SetupInv, FilesOK, EditOK, Backup
  <2>2. FilesOK' BY <1>3, <2>1 DEF SetupInv, FilesOK, Backup, ContentsOf
  <2>3. EditOK' BY <1>3 DEF SetupInv, EditOK, Backup
  <2>4. OthersAreKept' BY <1>3, <2>1 DEF SetupInv, FilesOK, OthersAreKept, Backup
  <2>5. BackedUp' BY <1>3, <2>1 DEF SetupInv, FilesOK, EditOK, OthersAreKept, BackedUp, Backup
  <2> QED BY <2>2, <2>3, <2>4, <2>5 DEF SetupInv
<1>4. CASE WriteFile
  <2>1. run.file \in Files BY <1>4 DEF SetupInv, EditOK, WriteFile
  <2>2. FilesOK' BY <1>4, <2>1 DEF SetupInv, FilesOK, EditOK, WriteFile
  <2>3. EditOK' BY <1>4, <2>1 DEF SetupInv, FilesOK, EditOK, WriteFile
  <2>4. OthersAreKept' BY <1>4, <2>1 DEF SetupInv, FilesOK, OthersAreKept, BackedUp, WriteFile
  <2>5. BackedUp' BY <1>4 DEF SetupInv, EditOK, BackedUp, WriteFile
  <2> QED BY <2>2, <2>3, <2>4, <2>5 DEF SetupInv
<1>5. CASE End \/ Interrupted
  <2>1. EditOK' BY <1>5 DEF EditOK, NoRun, End, Interrupted
  <2> QED BY <1>5, <2>1 DEF SetupInv, FilesOK, OthersAreKept, BackedUp, NoRun, End, Interrupted
<1>6. CASE \E shaped \in BOOLEAN, rest \in SUBSET Items : TornWrite(shaped, rest)
  <2> PICK shaped \in BOOLEAN, rest \in SUBSET Items : TornWrite(shaped, rest) BY <1>6
  <2>1. run.file \in Files BY DEF SetupInv, EditOK, TornWrite
  <2> DEFINE torn == [run.new EXCEPT !.shaped = shaped, !.others = rest, !.ours = <<>>]
  <2>2. torn \in ContentsOf(run.file) /\ torn.there
    BY <2>1, OursFacts DEF SetupInv, EditOK, TornWrite, ContentsOf
  <2>3. run.file \in JsonFiles => torn.others \subseteq Entries
    BY <2>1 DEF SetupInv, EditOK, TornWrite, ContentsOf
  <2>4. config' = [config EXCEPT ![run.file] = torn] BY DEF TornWrite
  <2> HIDE DEF torn
  <2>5. FilesOK' BY <2>1, <2>2, <2>3, <2>4 DEF SetupInv, FilesOK, TornWrite
  <2>6. EditOK' BY DEF EditOK, NoRun, TornWrite
  <2>7. OthersAreKept'
    BY <2>1, <2>4 DEF SetupInv, FilesOK, OthersAreKept, BackedUp, TornWrite
  <2>8. BackedUp' BY DEF BackedUp, NoRun, TornWrite
  <2> QED BY <2>5, <2>6, <2>7, <2>8 DEF SetupInv
<1> QED BY <1>1, <1>2, <1>3, <1>4, <1>5, <1>6

\* Every step keeps it: the owners', the edits' and the rest of a run.
LEMMA SetupSteps == SetupInv /\ [SetupNext]_setup => SetupInv'
<1> SUFFICES ASSUME SetupInv, [SetupNext]_setup PROVE SetupInv' OBVIOUS
<1>1. CASE UNCHANGED setup
  BY <1>1 DEF setup, SetupInv, FilesOK, EditOK, OthersAreKept, BackedUp
<1>2. CASE \E f \in Files : \/ \E i \in Items : OwnerWrites(f, i) \/ OwnerRemoves(f, i)
                            \/ \E shaped \in BOOLEAN, ours \in OursIn(f) :
                                 OwnerEdits(f, shaped, ours)
  BY <1>2, OwnerSound
<1>3. CASE \E f \in Files, swept \in SUBSET Items :
             \/ MergeJsonServer(f, swept) \/ MergeTomlSection(f, swept)
             \/ MergeYamlArrayServer(f, swept) \/ MergeDshPatch(f, swept)
  <2>1. \E f \in Files, swept \in SUBSET Items : Rewrites(f, swept)
    BY <1>3 DEF MergeJsonServer, MergeTomlSection, MergeYamlArrayServer, MergeDshPatch, Rebuilds
  <2> QED BY <2>1, EditSound
<1>4. CASE \E only \in {{}} \cup {{f} : f \in Files}, installed \in SUBSET Files,
             force \in BOOLEAN, url \in Urls \cup {"none"} : Begin(only, installed, force, url)
  BY <1>4, RunSound
<1>5. CASE \/ \E f \in Files : LeavesAlone(f)
           \/ Backup \/ WriteFile \/ End \/ Interrupted
           \/ \E shaped \in BOOLEAN, rest \in SUBSET Items : TornWrite(shaped, rest)
  BY <1>5, RunSound
<1> QED BY <1>1, <1>2, <1>3, <1>4, <1>5 DEF SetupNext

\* The config files and the backups fit the edit that a run of
\* src/src/setup.ts is at, whoever else writes the files, whenever it stops.
THEOREM SetupIsSound == SetupSpec => []SetupInv
<1> QED BY SetupStarts, SetupSteps, PTL DEF SetupSpec

\* What the owner of a config wrote is in it or in a backup, at every step of
\* runSetup and after every interruption: BackedUp is what makes the write safe.
THEOREM SetupKeepsOthers == SetupSpec => []OthersAreKept
<1>1. SetupInv => OthersAreKept BY DEF SetupInv
<1> QED BY <1>1, SetupIsSound, PTL

\* The invariant includes the types.
LEMMA SetupTypes == SetupInv => SetupTypeOK
  BY DEF SetupInv, FilesOK, EditOK, SetupTypeOK, ContentsOf

-----------------------------------------------------------------------------
(* The token table (Tokens).                                               *)

TokensSpec == TokensInit /\ [][TokensNext]_tokens

\* Every token of the rows was made up before the n-th write of the file.
MadeBy(rows, n) == \A r \in rows : r.token[2] <= n

TableUpTo(rows, n) == IsTable(rows) /\ MadeBy(rows, n)

TokensInv ==
  /\ mtime \in 0..MaxWrites /\ looked \in 0..mtime /\ overlooked \in 0..mtime
  /\ hubAt \in {"down", "loaded", "up"}
  /\ tokenFile.valid \in BOOLEAN /\ TableUpTo(tokenFile.rows, mtime)
  /\ temporary.valid \in BOOLEAN /\ TableUpTo(temporary.rows, mtime + 1)
  /\ TableUpTo(table, mtime + 1)
  /\ editing \in [Writers -> [at : {"idle", "write", "rename"}, rows : SUBSET Row]]
  /\ \A w \in Writers : TableUpTo(editing[w].rows, mtime + 1)

\* Some of the rows of a table are a table.
LEMMA FewerRows ==
  ASSUME NEW rows, NEW n \in Nat, TableUpTo(rows, n), NEW some \in SUBSET rows,
         NEW k \in Nat, n <= k
  PROVE  TableUpTo(some, k)
<1>1. \A r \in rows : r.token[2] \in Nat BY DEF TableUpTo, IsTable, Row
<1> QED BY <1>1 DEF TableUpTo, IsTable, MadeBy

\* A token that is made up is in no table yet, so that the row may be added.
LEMMA NewToken ==
  ASSUME NEW rows, NEW n \in Nat, TableUpTo(rows, n), n < MaxWrites,
         NEW w \in Writers, NEW m \in Members, \A r \in rows : r.peer # m
  PROVE  TableUpTo(rows \cup {[peer |-> m, token |-> <<w, n + 1>>]}, n + 1)
<1> DEFINE new == [peer |-> m, token |-> <<w, n + 1>>]
<1>1. MaxWrites \in Nat BY TokensAssumption
<1>2. new \in Row BY <1>1 DEF Row
<1>3. \A r \in rows : r \in Row /\ r.token[2] \in Nat /\ r.token[2] <= n
  BY DEF TableUpTo, IsTable, MadeBy, Row
<1>4. new.token[2] = n + 1 /\ new.peer = m OBVIOUS
<1> HIDE DEF new
<1>5. \A r \in rows : r.token # new.token /\ r.peer # new.peer BY <1>3, <1>4
<1>6. IsTable(rows \cup {new}) BY <1>2, <1>5 DEF TableUpTo, IsTable
<1>7. MadeBy(rows \cup {new}, n + 1) BY <1>3, <1>4 DEF MadeBy
<1> QED BY <1>6, <1>7 DEF TableUpTo, new

\* It holds before the hub has started.
LEMMA TokensStart == TokensInit => TokensInv
<1> SUFFICES ASSUME TokensInit PROVE TokensInv OBVIOUS
<1>1. \A n \in Nat : TableUpTo({}, n) BY DEF TableUpTo, IsTable, MadeBy
<1>2. MaxWrites \in Nat BY TokensAssumption
<1> QED BY <1>1, <1>2 DEF TokensInit, TokensInv, Content, Nothing, Idle

\* Every step keeps it, in whatever order the writers share the temporary file.
LEMMA TokensStep == TokensInv /\ [TokensNext]_tokens => TokensInv'
<1> SUFFICES ASSUME TokensInv, [TokensNext]_tokens PROVE TokensInv' OBVIOUS
<1>1. /\ MaxWrites \in Nat /\ mtime \in Nat /\ mtime <= MaxWrites
      /\ TableUpTo(tokenFile.rows, mtime) /\ TableUpTo(temporary.rows, mtime + 1)
      /\ TableUpTo(table, mtime + 1)
      /\ \A w \in Writers : TableUpTo(editing[w].rows, mtime + 1)
  BY TokensAssumption DEF TokensInv
<1>2. TableUpTo(tokenFile.rows, mtime + 1) BY <1>1, FewerRows
<1>3. ASSUME HubStart \/ FirstLook \/ PollFile \/ HubStop PROVE TokensInv'
  <2>1. /\ UNCHANGED <<tokenFile, mtime, temporary, editing>>
        /\ table' \in {table, tokenFile.rows}
        /\ hubAt' \in {"down", "loaded", "up"}
        /\ looked' \in {looked, mtime} /\ overlooked' \in {overlooked, mtime, 0}
    BY <1>3 DEF HubStart, FirstLook, PollFile, HubStop, Reload, TokensInv
  <2>2. TableUpTo(table', mtime + 1) BY <1>1, <1>2, <2>1
  <2>3. looked' \in 0..mtime /\ overlooked' \in 0..mtime BY <1>1, <2>1 DEF TokensInv
  <2> QED BY <2>1, <2>2, <2>3 DEF TokensInv
<1>4. ASSUME NEW w \in Writers, NEW at \in {"idle", "write", "rename"}, NEW rows,
             TableUpTo(rows, mtime + 1), Step(w, at, rows)
      PROVE  /\ editing' \in [Writers -> [at : {"idle", "write", "rename"}, rows : SUBSET Row]]
             /\ \A v \in Writers : TableUpTo(editing'[v].rows, mtime + 1)
  <2>1. rows \in SUBSET Row BY <1>4 DEF TableUpTo, IsTable
  <2>2. [at |-> at, rows |-> rows] \in [at : {"idle", "write", "rename"}, rows : SUBSET Row]
    BY <2>1
  <2>3. editing \in [Writers -> [at : {"idle", "write", "rename"}, rows : SUBSET Row]]
    BY DEF TokensInv
  <2>4. editing' = [editing EXCEPT ![w] = [at |-> at, rows |-> rows]] BY <1>4 DEF Step
  <2>5. editing'[w].rows = rows /\ \A v \in Writers \ {w} : editing'[v] = editing[v]
    BY <2>3, <2>4
  <2>6. \A v \in Writers : TableUpTo(editing'[v].rows, mtime + 1) BY <1>1, <1>4, <2>5
  <2> QED BY <2>2, <2>3, <2>4, <2>6
<1>5. ASSUME NEW w \in Writers, NEW rows, TableUpTo(rows, mtime + 1),
             Step(w, "write", rows),
             UNCHANGED <<tokenFile, mtime, temporary, table, looked, hubAt, overlooked>>
      PROVE  TokensInv'
  <2>1. "write" \in {"idle", "write", "rename"} OBVIOUS
  <2>2. /\ editing' \in [Writers -> [at : {"idle", "write", "rename"}, rows : SUBSET Row]]
        /\ \A v \in Writers : TableUpTo(editing'[v].rows, mtime + 1)
    BY <1>4, <1>5, <2>1
  <2> QED BY <1>5, <2>2 DEF TokensInv
<1>6. ASSUME NEW w \in Writers, NEW m \in Members, AddToken(w, m) PROVE TokensInv'
  <2> DEFINE rows == tokenFile.rows \cup {[peer |-> m, token |-> <<w, mtime + 1>>]}
  <2>1. /\ mtime < MaxWrites /\ \A r \in tokenFile.rows : r.peer # m
        /\ Step(w, "write", rows)
        /\ UNCHANGED <<tokenFile, mtime, temporary, table, looked, hubAt, overlooked>>
    BY <1>6 DEF AddToken, Reads
  <2>2. TableUpTo(rows, mtime + 1) BY <1>1, <2>1, NewToken
  <2> HIDE DEF rows
  <2> QED BY <1>5, <2>1, <2>2
<1>7. ASSUME NEW w \in Writers, NEW m \in Members, RemoveToken(w, m) PROVE TokensInv'
  <2> DEFINE rows == {r \in tokenFile.rows : r.peer # m}
  <2>1. /\ Step(w, "write", rows)
        /\ UNCHANGED <<tokenFile, mtime, temporary, table, looked, hubAt, overlooked>>
    BY <1>7 DEF RemoveToken
  <2>2. rows \in SUBSET tokenFile.rows OBVIOUS
  <2> HIDE DEF rows
  <2>3. TableUpTo(rows, mtime + 1) BY <1>1, <2>2, FewerRows
  <2> QED BY <1>5, <2>1, <2>3
<1>8. ASSUME NEW w \in Writers, WriteTemporary(w) PROVE TokensInv'
  <2>1. "rename" \in {"idle", "write", "rename"} OBVIOUS
  <2>2. /\ temporary' = Content(TRUE, editing[w].rows)
        /\ Step(w, "rename", editing[w].rows)
        /\ UNCHANGED <<tokenFile, mtime, table, looked, hubAt, overlooked>>
    BY <1>8 DEF WriteTemporary
  <2>3. /\ editing' \in [Writers -> [at : {"idle", "write", "rename"}, rows : SUBSET Row]]
        /\ \A v \in Writers : TableUpTo(editing'[v].rows, mtime + 1)
    BY <1>1, <1>4, <2>1, <2>2
  <2>4. temporary'.valid \in BOOLEAN /\ TableUpTo(temporary'.rows, mtime + 1)
    BY <1>1, <2>2 DEF Content
  <2> QED BY <2>2, <2>3, <2>4 DEF TokensInv
<1>9. ASSUME NEW rows, TableUpTo(rows, mtime + 1) PROVE TableUpTo(rows, (mtime + 1) + 1)
  <2>1. rows \in SUBSET rows /\ mtime + 1 \in Nat /\ (mtime + 1) + 1 \in Nat
        /\ mtime + 1 <= (mtime + 1) + 1
    BY <1>1
  <2> QED BY <1>9, <2>1, FewerRows
<1>10. ASSUME mtime' = mtime + 1, mtime < MaxWrites, UNCHANGED <<looked, overlooked>>
       PROVE  /\ mtime' \in 0..MaxWrites /\ looked' \in 0..mtime' /\ overlooked' \in 0..mtime'
  BY <1>1, <1>10 DEF TokensInv
<1>11. ASSUME NEW w \in Writers, RenameTemporary(w) PROVE TokensInv'
  <2>1. TableUpTo({}, mtime + 1) BY DEF TableUpTo, IsTable, MadeBy
  <2>2. "idle" \in {"idle", "write", "rename"} OBVIOUS
  <2>3. Step(w, "idle", {}) /\ UNCHANGED <<looked, hubAt, overlooked>>
    BY <1>11 DEF RenameTemporary
  <2>4. /\ editing' \in [Writers -> [at : {"idle", "write", "rename"}, rows : SUBSET Row]]
        /\ \A v \in Writers : TableUpTo(editing'[v].rows, mtime + 1)
    BY <1>4, <2>1, <2>2, <2>3
  <2>5. CASE UNCHANGED <<tokenFile, mtime, temporary, table>>
    BY <2>3, <2>4, <2>5 DEF TokensInv
  <2>6. CASE /\ ~(temporary = Nothing \/ mtime = MaxWrites)
             /\ tokenFile' = temporary /\ mtime' = mtime + 1 /\ temporary' = Nothing
             /\ table' = IF w = Admin /\ temporary.rows # {} THEN temporary.rows ELSE table
    <3>1. mtime < MaxWrites BY <1>1, <2>6
    <3>2. mtime' \in 0..MaxWrites /\ looked' \in 0..mtime' /\ overlooked' \in 0..mtime'
      BY <1>10, <2>3, <2>6, <3>1
    <3>3. TableUpTo(tokenFile'.rows, mtime') /\ tokenFile'.valid \in BOOLEAN
      BY <1>1, <2>6 DEF TokensInv
    <3>4. temporary'.valid \in BOOLEAN /\ TableUpTo(temporary'.rows, mtime' + 1)
      <4>1. temporary'.rows = {} /\ temporary'.valid = FALSE BY <2>6 DEF Nothing, Content
      <4> QED BY <4>1 DEF TableUpTo, IsTable, MadeBy
    <3>5. TableUpTo(table', mtime' + 1) BY <1>1, <1>9, <2>6
    <3>6. \A v \in Writers : TableUpTo(editing'[v].rows, mtime' + 1) BY <1>9, <2>4, <2>6
    <3>7. hubAt' \in {"down", "loaded", "up"} BY <2>3 DEF TokensInv
    <3> QED BY <2>4, <3>2, <3>3, <3>4, <3>5, <3>6, <3>7 DEF TokensInv
  <2> QED BY <1>11, <2>5, <2>6 DEF RenameTemporary
<1>12. ASSUME NEW valid \in BOOLEAN, NEW rows \in SUBSET tokenFile.rows, HandEdit(valid, rows)
       PROVE  TokensInv'
  <2>1. /\ mtime < MaxWrites /\ mtime' = mtime + 1 /\ tokenFile' = Content(valid, rows)
        /\ UNCHANGED <<temporary, editing, table, looked, hubAt, overlooked>>
    BY <1>12 DEF HandEdit
  <2>2. mtime' \in 0..MaxWrites /\ looked' \in 0..mtime' /\ overlooked' \in 0..mtime'
    BY <1>10, <2>1
  <2>3. TableUpTo(tokenFile'.rows, mtime') /\ tokenFile'.valid \in BOOLEAN
    <3>1. tokenFile'.rows = rows /\ tokenFile'.valid = valid BY <2>1 DEF Content
    <3>2. TableUpTo(rows, mtime + 1) BY <1>1, FewerRows
    <3> QED BY <2>1, <3>1, <3>2
  <2>4. TableUpTo(temporary.rows, mtime' + 1) /\ TableUpTo(table, mtime' + 1)
        /\ \A w \in Writers : TableUpTo(editing[w].rows, mtime' + 1)
    BY <1>1, <1>9, <2>1
  <2> QED BY <2>1, <2>2, <2>3, <2>4 DEF TokensInv
<1>13. CASE UNCHANGED tokens BY <1>13 DEF TokensInv, tokens
<1> QED BY <1>3, <1>6, <1>7, <1>8, <1>11, <1>12, <1>13 DEF TokensNext

\* The invariant includes the types.
LEMMA TokensTypes == TokensInv => TokensTypeOK
  BY DEF TokensInv, TokensTypeOK, TableUpTo

\* The token file, the temporary file, what is being edited and the table of the
\* hub each have one token per peer and one peer per token (src/src/auth.ts).
THEOREM TokensAreSound == TokensSpec => []TokensInv
<1> QED BY TokensStart, TokensStep, PTL DEF TokensSpec

-----------------------------------------------------------------------------
(* The terminals (Terminals).                                              *)

TerminalSpec == TerminalInit /\ [][TerminalNext]_terminals

TypingStates == {"detect", "submit", "agent_wait", "type", "enter", "settle", "read"}
RunStates    == TypingStates \cup {"queued", "exec"}
CallStates   == TypingStates \cup {"press", "match"}

TypistRecord ==
  [op : {"none", "prompt", "wait", "keys", "read", "send"},
   at : {"idle"} \cup RunStates \cup CallStates, pane : RunnerPeers \cup {None},
   wait : BOOLEAN, seen : {"none", "same", "changed"}, stable : {0, 1}]

\* Where each run and each call may be, and which pane it is then at.
TypingOK ==
  /\ typing \in [Typists -> TypistRecord]
  /\ \A c \in Typists :
       /\ (Pane(c) = None) = At(c, "idle")
       /\ typing[c].at \in CallStates => Pane(c) \in HerdrPeers
       /\ At(c, "detect") => typing[c].op \in {"prompt", "wait", "keys"}
  /\ \A r \in Runs : ~At(r, "idle") => typing[r].op = "prompt" /\ typing[r].at \in RunStates
  /\ \A c \in Calls : ~At(c, "idle") => typing[c].at \in CallStates

\* A peer's queue holds its runs that have not ended; they have no result yet,
\* and only the first of them is under way.
QueuesOK ==
  /\ runnerQueue \in [RunnerPeers -> Seq(Runs)]
  /\ result \in [Runs -> {"none", "done", "failed"}]
  /\ task \in [Runs -> {"open", "cut_off", "closed"}]
  /\ \A p \in RunnerPeers :
       /\ IsInjective(runnerQueue[p])
       /\ ToSet(runnerQueue[p]) = {r \in Runs : Pane(r) = p}
  /\ \A r \in Runs :
       /\ ~At(r, "idle") => result[r] = "none"
       /\ ~At(r, "idle") /\ ~At(r, "queued") => runnerQueue[Pane(r)][1] = r

\* A set of runs no two of which can still succeed.
OneAtMost(mixed) ==
  \A r, s \in mixed : result[r] # "failed" /\ result[s] # "failed" => r = s

\* What stands in a line is of runs that have failed, and of the run that is
\* about to press Enter there.
LinesOK ==
  /\ working \subseteq HerdrPeers
  /\ line \in [HerdrPeers -> SUBSET Typists]
  /\ submitted \subseteq SUBSET Runs
  /\ \A p \in HerdrPeers : \A r \in line[p] \cap Runs :
       result[r] = "failed" \/ (Pane(r) = p /\ At(r, "enter"))
  /\ \A mixed \in submitted : OneAtMost(mixed)

TerminalInv == TypingOK /\ QueuesOK /\ LinesOK

-----------------------------------------------------------------------------

\* A run that waits behind the others of its peer.
LEMMA QueueAppend ==
  ASSUME NEW X, NEW s \in Seq(X), NEW x \in X, IsInjective(s), x \notin ToSet(s)
  PROVE  /\ Append(s, x) \in Seq(X) /\ IsInjective(Append(s, x))
         /\ ToSet(Append(s, x)) = ToSet(s) \cup {x}
         /\ \A y \in ToSet(s) : s[1] = y => Append(s, x)[1] = y
<1> DEFINE t == Append(s, x)
<1>1. /\ t \in Seq(X) /\ Len(t) = Len(s) + 1 /\ Len(s) \in Nat
      /\ \A i \in 1..Len(s) : t[i] = s[i]
      /\ t[Len(s) + 1] = x
  BY AppendProperties, LenProperties
<1>2. DOMAIN t = 1..(Len(s) + 1) /\ DOMAIN s = 1..Len(s) BY <1>1, LenProperties
<1> HIDE DEF t
<1>3. IsInjective(t) BY <1>1, <1>2 DEF IsInjective, ToSet
<1>4. ToSet(t) = ToSet(s) \cup {x}
  <2>1. \A y \in ToSet(t) : y \in ToSet(s) \cup {x} BY <1>1, <1>2 DEF ToSet
  <2>2. \A y \in ToSet(s) : y \in ToSet(t)
    <3> SUFFICES ASSUME NEW i \in 1..Len(s) PROVE s[i] \in ToSet(t) BY <1>2 DEF ToSet
    <3>1. i \in DOMAIN t /\ t[i] = s[i] BY <1>1, <1>2
    <3> QED BY <3>1 DEF ToSet
  <2>3. x \in ToSet(t)
    <3>1. Len(s) + 1 \in DOMAIN t BY <1>1, <1>2
    <3> QED BY <1>1, <3>1 DEF ToSet
  <2> QED BY <2>1, <2>2, <2>3
<1>5. \A y \in ToSet(s) : t[1] = s[1]
  <2> SUFFICES ASSUME NEW i \in 1..Len(s) PROVE t[1] = s[1] BY <1>2 DEF ToSet
  <2> QED BY <1>1
<1> QED BY <1>1, <1>3, <1>4, <1>5 DEF t

\* The first run leaves the queue of its peer.
LEMMA QueueTail ==
  ASSUME NEW X, NEW s \in Seq(X), IsInjective(s), s # <<>>
  PROVE  /\ Tail(s) \in Seq(X) /\ IsInjective(Tail(s))
         /\ ToSet(Tail(s)) = ToSet(s) \ {s[1]}
<1> DEFINE t == Tail(s)
<1>1. /\ Len(s) \in Nat /\ Len(s) # 0 /\ t \in Seq(X) /\ Len(t) = Len(s) - 1
      /\ \A i \in 1..Len(t) : t[i] = s[i + 1]
  BY HeadTailProperties, EmptySeq, LenProperties
<1>2. DOMAIN t = 1..(Len(s) - 1) /\ DOMAIN s = 1..Len(s) BY <1>1, LenProperties
<1> HIDE DEF t
<1>3. IsInjective(t)
  <2> SUFFICES ASSUME NEW i \in 1..(Len(s) - 1), NEW j \in 1..(Len(s) - 1), t[i] = t[j]
               PROVE  i = j
    BY <1>2 DEF IsInjective
  <2>1. s[i + 1] = s[j + 1] /\ i + 1 \in DOMAIN s /\ j + 1 \in DOMAIN s BY <1>1, <1>2
  <2> QED BY <2>1, <1>1 DEF IsInjective
<1>4. ASSUME NEW y \in ToSet(t) PROVE y \in ToSet(s) \ {s[1]}
  <2> PICK i \in 1..(Len(s) - 1) : y = t[i] BY <1>2 DEF ToSet
  <2>1. y = s[i + 1] /\ i + 1 \in DOMAIN s /\ 1 \in DOMAIN s /\ i + 1 # 1 BY <1>1, <1>2
  <2>2. y # s[1] BY <2>1 DEF IsInjective
  <2> QED BY <2>1, <2>2 DEF ToSet
<1>5. ASSUME NEW y \in ToSet(s) \ {s[1]} PROVE y \in ToSet(t)
  <2> PICK i \in 1..Len(s) : y = s[i] BY <1>2 DEF ToSet
  <2>1. i - 1 \in DOMAIN t /\ t[i - 1] = y BY <1>1, <1>2
  <2> QED BY <2>1 DEF ToSet
<1> QED BY <1>1, <1>3, <1>4, <1>5 DEF t

\* It holds while nobody types.
LEMMA TerminalStarts == TerminalInit => TerminalInv
<1> SUFFICES ASSUME TerminalInit PROVE TerminalInv OBVIOUS
<1>0. NotTyping \in TypistRecord
  BY DEF NotTyping, TypistRecord
<1>1. TypingOK BY <1>0 DEF TypingOK, TerminalInit, Pane, At, NotTyping, CallStates, TypingStates, Typists
<1>2. QueuesOK
  <2>1. <<>> \in Seq(Runs) /\ IsInjective(<<>>) /\ ToSet(<<>>) = {} BY DEF IsInjective, ToSet
  <2>2. \A p \in RunnerPeers : {r \in Runs : Pane(r) = p} = {}
    BY TerminalAssumption DEF TerminalInit, Pane, NotTyping, Typists, RunnerPeers
  <2> QED BY <2>1, <2>2 DEF QueuesOK, TerminalInit, At, NotTyping, Typists
<1>3. LinesOK BY DEF LinesOK, TerminalInit
<1> QED BY <1>1, <1>2, <1>3 DEF TerminalInv

-----------------------------------------------------------------------------
(* How a run or a call goes on.                                            *)

\* Where the rest of the runs and calls are: nothing is changed for them.
OthersStay(c) ==
  /\ \A d \in Typists \ {c} : typing'[d] = typing[d]
  /\ \A r \in Runs \ {c} : result'[r] = result[r]
  /\ c \in Runs => result[c] = "none" /\ Pane(c)' \in {Pane(c), None}

Ways(c) == (TypingStates \ {"detect"}) \cup (IF c \in Calls THEN {"press"} ELSE {})

\* A run or a call that is under way takes one step more, or ends.
GoesOn(c) ==
  \/ \E at \in Ways(c) : Pane(c) \in HerdrPeers /\ Continue(c, at)
  \/ c \in Runs /\ \E status \in {"done", "failed"} : EndRun(c, status)
  \/ c \in Calls /\ EndCall(c)

\* Those who type are runs or calls, never both, and None is no pane.
LEMMA RunsAndCalls ==
  /\ \A c \in Typists : c \in Runs \/ c \in Calls
  /\ \A c \in Runs : c \in Typists /\ c \notin Calls
  /\ \A c \in Calls : c \in Typists /\ c \notin Runs
  /\ None \notin RunnerPeers /\ HerdrPeers \subseteq RunnerPeers
  BY TerminalAssumption DEF Typists, RunnerPeers

\* It goes on to its next step.
LEMMA ContinueSound ==
  ASSUME TypingOK, QueuesOK, NEW c \in Typists, ~At(c, "idle"), ~At(c, "queued"),
         Pane(c) \in HerdrPeers,
         NEW at \in Ways(c), Continue(c, at)
  PROVE  TypingOK' /\ QueuesOK' /\ OthersStay(c)
<1>1. typing' = [typing EXCEPT ![c].at = at] /\ UNCHANGED <<runnerQueue, result, task>>
  BY DEF Continue, GoTo
<1>2. /\ \A d \in Typists : Pane(d)' = Pane(d) /\ typing'[d].op = typing[d].op
      /\ \A d \in Typists \ {c} : typing'[d] = typing[d]
      /\ typing'[c].at = at
  BY <1>1 DEF TypingOK, Pane
<1>3. TypingOK'
  <2>1. typing' \in [Typists -> TypistRecord]
    BY <1>1 DEF TypingOK, RunStates, CallStates, Ways, TypistRecord
  <2>2. at # "idle" /\ at \in CallStates /\ (c \in Runs => at \in RunStates)
    BY RunsAndCalls DEF CallStates, RunStates, TypingStates, Ways
  <2>3. \A d \in Typists :
          /\ (Pane(d) = None)' = At(d, "idle")'
          /\ typing'[d].at \in CallStates => Pane(d)' \in HerdrPeers
          /\ At(d, "detect")' => typing'[d].op \in {"prompt", "wait", "keys"}
    BY <1>2, <2>2, RunsAndCalls DEF TypingOK, At, Ways, TypingStates
  <2>4. \A r \in Runs : ~At(r, "idle")' => typing'[r].op = "prompt" /\ typing'[r].at \in RunStates
    BY <1>2, <2>2, RunsAndCalls DEF TypingOK, At
  <2>5. \A d \in Calls : ~At(d, "idle")' => typing'[d].at \in CallStates
    BY <1>2, <2>2, RunsAndCalls DEF TypingOK, At
  <2> QED BY <2>1, <2>3, <2>4, <2>5 DEF TypingOK
<1>4. QueuesOK'
  <2>1. \A p \in RunnerPeers : {r \in Runs : Pane(r)' = p} = {r \in Runs : Pane(r) = p}
    BY <1>2, RunsAndCalls
  <2>2. ASSUME NEW r \in Runs, ~At(r, "idle")'
        PROVE  /\ result'[r] = "none"
               /\ ~At(r, "queued")' => runnerQueue'[Pane(r)'][1] = r
    BY <2>2, <1>1, <1>2, RunsAndCalls DEF QueuesOK, At
  <2>3. ASSUME NEW p \in RunnerPeers
        PROVE  /\ IsInjective(runnerQueue'[p])
               /\ ToSet(runnerQueue'[p]) = {r \in Runs : Pane(r)' = p}
    BY <1>1, <2>1 DEF QueuesOK
  <2>4. /\ runnerQueue' \in [RunnerPeers -> Seq(Runs)]
        /\ result' \in [Runs -> {"none", "done", "failed"}]
        /\ task' \in [Runs -> {"open", "cut_off", "closed"}]
    BY <1>1 DEF QueuesOK
  <2> QED BY <2>2, <2>3, <2>4 DEF QueuesOK
<1>5. OthersStay(c) BY <1>1, <1>2 DEF OthersStay, QueuesOK
<1> QED BY <1>3, <1>4, <1>5

\* A call ends.
LEMMA EndCallSound ==
  ASSUME TypingOK, QueuesOK, NEW c \in Calls, EndCall(c)
  PROVE  TypingOK' /\ QueuesOK' /\ OthersStay(c)
<1>1. /\ \A d \in Typists \ {c} : typing'[d] = typing[d]
      /\ typing'[c] = NotTyping /\ UNCHANGED <<runnerQueue, result, task>>
  BY RunsAndCalls DEF EndCall, TypingOK
<1>2. TypingOK'
  BY <1>1, RunsAndCalls
  DEF EndCall, TypingOK, Pane, At, NotTyping, CallStates, TypingStates, TypistRecord
<1>3. QueuesOK'
  <2>1. \A r \in Runs : typing'[r] = typing[r] BY <1>1, RunsAndCalls
  <2> QED BY <1>1, <2>1 DEF QueuesOK, Pane, At
<1>4. OthersStay(c) BY <1>1, RunsAndCalls DEF OthersStay
<1> QED BY <1>2, <1>3, <1>4

\* A run ends: it has its result, its row is not open, and the next of its peer is
\* at the head of the queue.
LEMMA EndRunSound ==
  ASSUME TypingOK, QueuesOK, NEW r \in Runs, ~At(r, "idle"), ~At(r, "queued"),
         NEW status \in {"done", "failed"}, EndRun(r, status)
  PROVE  TypingOK' /\ QueuesOK' /\ OthersStay(r)
<1> DEFINE p == Pane(r)
<1>1. /\ \A d \in Typists \ {r} : typing'[d] = typing[d]
      /\ typing'[r] = NotTyping
      /\ result' = [result EXCEPT ![r] = status]
      /\ task' = [task EXCEPT ![r] = IF @ = "open" THEN "closed" ELSE @]
      /\ runnerQueue' = [runnerQueue EXCEPT ![p] = Tail(@)]
  BY RunsAndCalls DEF EndRun, TypingOK
<1>2. p \in RunnerPeers BY RunsAndCalls DEF TypingOK, Pane, TypistRecord
<1>3. TypingOK'
  BY <1>1, RunsAndCalls
  DEF EndRun, TypingOK, Pane, At, NotTyping, CallStates, RunStates, TypingStates, TypistRecord
<1>4. /\ IsInjective(runnerQueue[p]) /\ runnerQueue[p] \in Seq(Runs)
      /\ r \in ToSet(runnerQueue[p]) /\ runnerQueue[p][1] = r
  BY <1>2 DEF QueuesOK
<1>5. /\ Tail(runnerQueue[p]) \in Seq(Runs) /\ IsInjective(Tail(runnerQueue[p]))
      /\ ToSet(Tail(runnerQueue[p])) = ToSet(runnerQueue[p]) \ {r}
  <2>1. runnerQueue[p] # <<>> BY <1>4 DEF ToSet
  <2> QED BY <1>4, <2>1, QueueTail
<1>6. NotTyping.pane = None /\ NotTyping.at = "idle" BY DEF NotTyping
<1> HIDE DEF p
<1>7. QueuesOK'
  <2>1. runnerQueue' \in [RunnerPeers -> Seq(Runs)] BY <1>1, <1>2, <1>5 DEF QueuesOK
  <2>2. result' \in [Runs -> {"none", "done", "failed"}] BY <1>1 DEF QueuesOK
  <2>3. task' \in [Runs -> {"open", "cut_off", "closed"}] BY <1>1 DEF QueuesOK
  <2>4. ASSUME NEW q \in RunnerPeers
        PROVE  /\ IsInjective(runnerQueue'[q])
               /\ ToSet(runnerQueue'[q]) = {s \in Runs : Pane(s)' = q}
    <3>1. {s \in Runs : Pane(s)' = q} = {s \in Runs : Pane(s) = q} \ {r}
      BY <1>1, <1>6, RunsAndCalls DEF Pane
    <3>2. CASE q = p BY <3>1, <3>2, <1>1, <1>2, <1>5 DEF QueuesOK
    <3>3. CASE q # p
      <4>1. {s \in Runs : Pane(s) = q} \ {r} = {s \in Runs : Pane(s) = q} BY <3>3 DEF p
      <4> QED BY <3>1, <3>3, <4>1, <1>1, <1>2 DEF QueuesOK
    <3> QED BY <3>2, <3>3
  <2>5. ASSUME NEW s \in Runs, ~At(s, "idle")'
        PROVE  /\ result'[s] = "none"
               /\ ~At(s, "queued")' => runnerQueue'[Pane(s)'][1] = s
    <3>1. s # r BY <2>5, <1>1, <1>6 DEF At
    <3>2. typing'[s] = typing[s] /\ ~At(s, "idle") BY <3>1, <2>5, <1>1, RunsAndCalls DEF At
    <3>3. result'[s] = "none" BY <3>1, <3>2, <1>1 DEF QueuesOK
    <3>4. ASSUME ~At(s, "queued")' PROVE runnerQueue'[Pane(s)'][1] = s
      <4>1. runnerQueue[Pane(s)][1] = s /\ Pane(s)' = Pane(s) /\ Pane(s) \in RunnerPeers
        BY <3>2, <3>4, RunsAndCalls DEF QueuesOK, At, Pane, TypingOK, TypistRecord
      <4>2. Pane(s) # p BY <4>1, <3>1, <1>4
      <4> QED BY <4>1, <4>2, <1>1, <1>2 DEF QueuesOK
    <3> QED BY <3>3, <3>4
  <2> QED BY <2>1, <2>2, <2>3, <2>4, <2>5 DEF QueuesOK
<1>8. OthersStay(r) BY <1>1, <1>6 DEF OthersStay, QueuesOK, Pane
<1> QED BY <1>3, <1>7, <1>8

\* Whatever a run or a call that is under way does next.
LEMMA GoesOnSound ==
  ASSUME TypingOK, QueuesOK, NEW c \in Typists, ~At(c, "idle"), ~At(c, "queued"), GoesOn(c)
  PROVE  TypingOK' /\ QueuesOK' /\ OthersStay(c)
<1>1. CASE \E at \in Ways(c) : Pane(c) \in HerdrPeers /\ Continue(c, at)
  BY <1>1, ContinueSound
<1>2. CASE c \in Runs /\ \E status \in {"done", "failed"} : EndRun(c, status)
  BY <1>2, EndRunSound
<1>3. CASE c \in Calls /\ EndCall(c)
  BY <1>3, EndCallSound
<1> QED BY <1>1, <1>2, <1>3 DEF GoesOn

-----------------------------------------------------------------------------
(* The lines.                                                              *)

\* A step of one run or call that leaves the line alone: unless it pressed Enter
\* without an effect, it was not at it.
LEMMA LinesKept ==
  ASSUME TerminalInv, NEW c \in Typists, OthersStay(c),
         c \in Runs => ~At(c, "enter") \/ result'[c] = "failed",
         UNCHANGED <<line, submitted, working>>
  PROVE  LinesOK'
<1>1. \A r \in Runs : result[r] = "failed" => result'[r] = "failed"
  BY DEF OthersStay
<1>2. \A mixed \in submitted : OneAtMost(mixed)'
  <2> SUFFICES ASSUME NEW mixed \in submitted, NEW r \in mixed, NEW s \in mixed,
                      result'[r] # "failed", result'[s] # "failed"
               PROVE  r = s
    BY DEF OneAtMost
  <2> QED BY <1>1 DEF TerminalInv, LinesOK, OneAtMost
<1>3. ASSUME NEW p \in HerdrPeers, NEW r \in line[p] \cap Runs
      PROVE  result'[r] = "failed" \/ (Pane(r)' = p /\ At(r, "enter")')
  <2>1. CASE r = c BY <2>1, <1>1 DEF TerminalInv, LinesOK
  <2>2. CASE r # c BY <2>2, <1>1, RunsAndCalls DEF TerminalInv, LinesOK, OthersStay, Pane, At
  <2> QED BY <2>1, <2>2
<1> QED BY <1>2, <1>3 DEF TerminalInv, LinesOK

\* In a line there is one run at most that has not failed, and a run that is to
\* submit the line itself is not in it.
LEMMA LineOfOne ==
  ASSUME TerminalInv, NEW p \in HerdrPeers
  PROVE  /\ OneAtMost(line[p] \cap Runs)
         /\ \A c \in Typists : At(c, "submit") /\ Pane(c) = p =>
              OneAtMost((line[p] \cup {c}) \cap Runs)
<1>1. ASSUME NEW r \in Runs, NEW s \in Runs, Pane(r) = p, Pane(s) = p,
             typing[r].at \in {"enter", "submit"}, typing[s].at \in {"enter", "submit"}
      PROVE  r = s
  BY <1>1, RunsAndCalls DEF TerminalInv, QueuesOK, At
<1>2. \A r \in line[p] \cap Runs : result[r] # "failed" => Pane(r) = p /\ typing[r].at = "enter"
  BY DEF TerminalInv, LinesOK, At
<1>3. OneAtMost(line[p] \cap Runs) BY <1>1, <1>2 DEF OneAtMost
<1>4. ASSUME NEW c \in Typists, At(c, "submit"), Pane(c) = p
      PROVE  OneAtMost((line[p] \cup {c}) \cap Runs)
  BY <1>1, <1>2, <1>4 DEF OneAtMost, At
<1> QED BY <1>3, <1>4

\* A step of one run or call that submits a line: what it submits has one run
\* that may still succeed at most, and the line is empty then.
LEMMA LinesSubmitted ==
  ASSUME TerminalInv, NEW c \in Typists, OthersStay(c), Pane(c) \in HerdrPeers,
         NEW typists \in SUBSET Typists, OneAtMost(typists \cap Runs),
         SubmitText(Pane(c), typists)
  PROVE  LinesOK'
<1> DEFINE p == Pane(c)
<1>0. /\ submitted' \subseteq submitted \cup {typists \cap Runs}
      /\ working' = IF typists = {} THEN working ELSE working \cup {p}
      /\ line' = [line EXCEPT ![p] = {}]
  BY DEF SubmitText
<1>1. \A r \in Runs : result[r] = "failed" => result'[r] = "failed"
  BY DEF OthersStay
<1>2. ASSUME NEW mixed \in submitted' PROVE OneAtMost(mixed)'
  <2>1. OneAtMost(mixed) /\ mixed \subseteq Runs BY <1>0 DEF TerminalInv, LinesOK
  <2> SUFFICES ASSUME NEW r \in mixed, NEW s \in mixed,
                      result'[r] # "failed", result'[s] # "failed"
               PROVE  r = s
    BY DEF OneAtMost
  <2> QED BY <1>1, <2>1 DEF OneAtMost
<1>3. ASSUME NEW q \in HerdrPeers, NEW r \in line'[q] \cap Runs
      PROVE  result'[r] = "failed" \/ (Pane(r)' = q /\ At(r, "enter")')
  <2>1. q # p /\ r \in line[q] BY <1>0 DEF TerminalInv, LinesOK
  <2>2. CASE r = c BY <2>1, <2>2, <1>1 DEF TerminalInv, LinesOK
  <2>3. CASE r # c
    BY <2>1, <2>3, <1>1, RunsAndCalls DEF TerminalInv, LinesOK, OthersStay, Pane, At
  <2> QED BY <2>2, <2>3
<1>4. /\ working' \subseteq HerdrPeers /\ line' \in [HerdrPeers -> SUBSET Typists]
      /\ submitted' \subseteq SUBSET Runs
  BY <1>0 DEF TerminalInv, LinesOK
<1> HIDE DEF p
<1> QED BY <1>2, <1>3, <1>4 DEF LinesOK

\* A run or a call types into a line: a run that has not failed presses Enter next.
LEMMA LinesTyped ==
  ASSUME TerminalInv, NEW c \in Typists, OthersStay(c), Pane(c) \in HerdrPeers,
         line' = [line EXCEPT ![Pane(c)] = @ \cup {c}], UNCHANGED <<working, submitted>>,
         At(c, "type"),
         c \in Runs => result'[c] = "failed" \/ (Pane(c)' = Pane(c) /\ At(c, "enter")')
  PROVE  LinesOK'
<1>1. \A r \in Runs : result[r] = "failed" => result'[r] = "failed"
  BY DEF OthersStay
<1>2. ASSUME NEW mixed \in submitted PROVE OneAtMost(mixed)'
  <2> SUFFICES ASSUME NEW r \in mixed, NEW s \in mixed,
                      result'[r] # "failed", result'[s] # "failed"
               PROVE  r = s
    BY DEF OneAtMost
  <2> QED BY <1>1 DEF TerminalInv, LinesOK, OneAtMost
<1>3. ASSUME NEW q \in HerdrPeers, NEW r \in line'[q] \cap Runs
      PROVE  result'[r] = "failed" \/ (Pane(r)' = q /\ At(r, "enter")')
  <2>1. r \in line[q] \/ (r = c /\ q = Pane(c)) BY DEF TerminalInv, LinesOK
  <2>2. CASE r = c BY <2>1, <2>2, <1>1 DEF TerminalInv, LinesOK, At
  <2>3. CASE r # c
    BY <2>1, <2>3, <1>1, RunsAndCalls DEF TerminalInv, LinesOK, OthersStay, Pane, At
  <2> QED BY <2>2, <2>3
<1>4. line' \in [HerdrPeers -> SUBSET Typists] BY DEF TerminalInv, LinesOK
<1> QED BY <1>2, <1>3, <1>4 DEF TerminalInv, LinesOK

-----------------------------------------------------------------------------
(* The steps.                                                              *)

\* What ends a prompt, and a failure, are such ways to go on.
LEMMA Endings ==
  ASSUME TerminalInv, NEW c \in Typists, ~At(c, "idle")
  PROVE  /\ Prompted(c) /\ Pane(c) \in HerdrPeers => GoesOn(c)
         /\ Fails(c) => GoesOn(c) /\ (c \in Runs => result'[c] = "failed")
<1>1. "read" \in Ways(c) BY DEF Ways, TypingStates
<1>2. ASSUME Prompted(c), Pane(c) \in HerdrPeers PROVE GoesOn(c)
  BY <1>1, <1>2, RunsAndCalls DEF Prompted, GoesOn
<1>3. ASSUME Fails(c) PROVE GoesOn(c) /\ (c \in Runs => result'[c] = "failed")
  <2>1. CASE c \in Runs BY <1>3, <2>1 DEF Fails, GoesOn, EndRun, TerminalInv, QueuesOK
  <2>2. CASE c \notin Runs BY <1>3, <2>2, RunsAndCalls DEF Fails, GoesOn
  <2> QED BY <2>1, <2>2
<1> QED BY <1>2, <1>3

\* A step that leaves the lines alone.
LEMMA QuietStep ==
  ASSUME TerminalInv, NEW c \in Typists, ~At(c, "idle"), ~At(c, "queued"), GoesOn(c),
         c \in Runs => ~At(c, "enter") \/ result'[c] = "failed",
         UNCHANGED <<line, submitted, working>>
  PROVE  TerminalInv'
<1>1. TypingOK' /\ QueuesOK' /\ OthersStay(c) BY GoesOnSound DEF TerminalInv
<1>2. LinesOK' BY <1>1, LinesKept
<1> QED BY <1>1, <1>2 DEF TerminalInv

\* A step that goes on and submits a line.
LEMMA SubmittingStep ==
  ASSUME TerminalInv, NEW c \in Typists, ~At(c, "idle"), ~At(c, "queued"), GoesOn(c),
         Pane(c) \in HerdrPeers, NEW typists \in SUBSET Typists, OneAtMost(typists \cap Runs),
         SubmitText(Pane(c), typists)
  PROVE  TerminalInv'
<1>1. TypingOK' /\ QueuesOK' /\ OthersStay(c) BY GoesOnSound DEF TerminalInv
<1>2. LinesOK' BY <1>1, LinesSubmitted
<1> QED BY <1>1, <1>2 DEF TerminalInv

\* Every step of those who type, of a run or of a call.
LEMMA TypistSound ==
  ASSUME TerminalInv, NEW c \in Typists, TypistSteps(c)
  PROVE  TerminalInv'
<1>0. \A at \in CallStates : At(c, at) => ~At(c, "idle") /\ ~At(c, "queued") /\ Pane(c) \in HerdrPeers
  BY DEF TerminalInv, TypingOK, At, CallStates, TypingStates
<1>1. TypingStates \subseteq CallStates /\ "press" \in CallStates /\ "match" \in CallStates
  BY DEF CallStates
<1>2. CASE \E channel \in {"agent", "pane"} : Detect(c, channel)
  <2> PICK channel \in {"agent", "pane"} : Detect(c, channel) BY <1>2
  <2>0. At(c, "detect") /\ "detect" \in CallStates BY <1>1 DEF Detect, TypingStates
  <2>1. typing[c].op \in {"prompt", "wait", "keys"} /\ (c \in Runs => typing[c].op = "prompt")
    BY <2>0 DEF TerminalInv, TypingOK, At
  <2> DEFINE at == CASE typing[c].op = "keys" -> "press"
                     [] typing[c].op = "wait"   /\ channel = "agent" -> "agent_wait"
                     [] typing[c].op = "wait"   /\ channel = "pane"  -> "settle"
                     [] typing[c].op = "prompt" /\ channel = "agent" -> "submit"
                     [] typing[c].op = "prompt" /\ channel = "pane"  -> "type"
  <2>2. /\ typing[c].op = "keys" => at = "press"
        /\ typing[c].op # "keys" => at \in {"agent_wait", "settle", "submit", "type"}
    <3>1. CASE typing[c].op = "keys" BY <3>1
    <3>2. CASE typing[c].op = "wait" /\ channel = "agent" BY <3>2
    <3>3. CASE typing[c].op = "wait" /\ channel = "pane" BY <3>3
    <3>4. CASE typing[c].op = "prompt" /\ channel = "agent" BY <3>4
    <3>5. CASE typing[c].op = "prompt" /\ channel = "pane" BY <3>5
    <3> QED BY <2>1, <3>1, <3>2, <3>3, <3>4, <3>5
  <2>3. at \in Ways(c) BY <2>1, <2>2, RunsAndCalls DEF Ways, TypingStates
  <2>4. Continue(c, at) /\ UNCHANGED <<line, submitted, working>> BY DEF Detect, Continue
  <2> HIDE DEF at
  <2>5. GoesOn(c) BY <1>0, <2>0, <2>3, <2>4 DEF GoesOn
  <2>6. ~At(c, "enter") BY <2>0 DEF At
  <2> QED BY <1>0, <2>0, <2>4, <2>5, <2>6, QuietStep
<1>3. CASE Submit(c)
  <2>0. At(c, "submit") /\ "submit" \in CallStates /\ ~At(c, "enter")
    BY <1>1, <1>3 DEF Submit, TypingStates, At
  <2>1. ~At(c, "idle") /\ ~At(c, "queued") /\ Pane(c) \in HerdrPeers BY <1>0, <2>0
  <2>2. "agent_wait" \in Ways(c) BY DEF Ways, TypingStates
  <2> DEFINE typists == line[Pane(c)] \cup {c}
  <2>3. typists \in SUBSET Typists /\ OneAtMost(typists \cap Runs)
    BY <2>0, <2>1, LineOfOne DEF TerminalInv, LinesOK
  <2>4. CASE /\ SubmitText(Pane(c), typists)
             /\ IF typing[c].wait THEN Continue(c, "agent_wait") ELSE Prompted(c)
    <3>1. GoesOn(c) BY <2>1, <2>2, <2>4, Endings DEF GoesOn
    <3> QED BY <2>1, <2>3, <2>4, <3>1, SubmittingStep
  <2>5. CASE SubmitText(Pane(c), typists) /\ Fails(c)
    <3>1. GoesOn(c) BY <2>1, <2>5, Endings
    <3> QED BY <2>1, <2>3, <2>5, <3>1, SubmittingStep
  <2>6. CASE UNCHANGED <<working, line, submitted>> /\ Fails(c)
    <3>1. GoesOn(c) BY <2>1, <2>6, Endings
    <3> QED BY <2>0, <2>1, <2>6, <3>1, QuietStep
  <2> QED BY <1>3, <2>4, <2>5, <2>6 DEF Submit, Requested
<1>4. CASE Enter(c)
  <2>0. At(c, "enter") /\ "enter" \in CallStates BY <1>1, <1>4 DEF Enter, TypingStates
  <2>1. ~At(c, "idle") /\ ~At(c, "queued") /\ Pane(c) \in HerdrPeers BY <1>0, <2>0
  <2>2. "settle" \in Ways(c) BY DEF Ways, TypingStates
  <2> DEFINE typists == line[Pane(c)]
  <2>3. typists \in SUBSET Typists /\ OneAtMost(typists \cap Runs)
    BY <2>1, LineOfOne DEF TerminalInv, LinesOK
  <2>4. CASE /\ SubmitText(Pane(c), typists)
             /\ IF typing[c].wait THEN Continue(c, "settle") ELSE Prompted(c)
    <3>1. GoesOn(c) BY <2>1, <2>2, <2>4, Endings DEF GoesOn
    <3> QED BY <2>1, <2>3, <2>4, <3>1, SubmittingStep
  <2>5. CASE SubmitText(Pane(c), typists) /\ Fails(c)
    <3>1. GoesOn(c) BY <2>1, <2>5, Endings
    <3> QED BY <2>1, <2>3, <2>5, <3>1, SubmittingStep
  <2>6. CASE UNCHANGED <<working, line, submitted>> /\ Fails(c)
    <3>1. GoesOn(c) /\ (c \in Runs => result'[c] = "failed") BY <2>1, <2>6, Endings
    <3> QED BY <2>1, <2>6, <3>1, QuietStep
  <2> QED BY <1>4, <2>4, <2>5, <2>6 DEF Enter, Requested
<1>5. CASE Type(c)
  <2>0. At(c, "type") /\ "type" \in CallStates /\ ~At(c, "enter")
    BY <1>1, <1>5 DEF Type, TypingStates, At
  <2>1. ~At(c, "idle") /\ ~At(c, "queued") /\ Pane(c) \in HerdrPeers BY <1>0, <2>0
  <2>2. "enter" \in Ways(c) BY DEF Ways, TypingStates
  <2>3. c \in Runs => typing[c].op # "send" BY <2>1 DEF TerminalInv, TypingOK
  <2> DEFINE effect == line' = [line EXCEPT ![Pane(c)] = @ \cup {c}] /\ UNCHANGED <<working, submitted>>
  <2>4. CASE /\ effect
             /\ IF typing[c].op = "send" THEN EndCall(c) ELSE Continue(c, "enter")
    <3>1. GoesOn(c) BY <2>1, <2>2, <2>3, <2>4, RunsAndCalls DEF GoesOn
    <3>2. TypingOK' /\ QueuesOK' /\ OthersStay(c) BY <2>1, <3>1, GoesOnSound DEF TerminalInv
    <3>3. c \in Runs => Pane(c)' = Pane(c) /\ At(c, "enter")'
      BY <2>3, <2>4 DEF Continue, GoTo, TerminalInv, TypingOK, Pane, At, TypistRecord
    <3>4. LinesOK' BY <2>0, <2>1, <2>4, <3>2, <3>3, LinesTyped
    <3> QED BY <3>2, <3>4 DEF TerminalInv
  <2>5. CASE effect /\ Fails(c)
    <3>1. GoesOn(c) /\ (c \in Runs => result'[c] = "failed") BY <2>1, <2>5, Endings
    <3>2. TypingOK' /\ QueuesOK' /\ OthersStay(c) BY <2>1, <3>1, GoesOnSound DEF TerminalInv
    <3>4. LinesOK' BY <2>0, <2>1, <2>5, <3>1, <3>2, LinesTyped
    <3> QED BY <3>2, <3>4 DEF TerminalInv
  <2>6. CASE UNCHANGED <<working, line, submitted>> /\ Fails(c)
    <3>1. GoesOn(c) BY <2>1, <2>6, Endings
    <3> QED BY <2>0, <2>1, <2>6, <3>1, QuietStep
  <2> QED BY <1>5, <2>4, <2>5, <2>6 DEF Type, Requested
<1>6. CASE Press(c)
  <2>0. At(c, "press") /\ ~At(c, "enter") BY <1>6 DEF Press, At
  <2>1. ~At(c, "idle") /\ ~At(c, "queued") /\ Pane(c) \in HerdrPeers BY <1>0, <1>1, <2>0
  <2>2. c \in Calls
    BY <2>0, <2>1, RunsAndCalls DEF TerminalInv, TypingOK, At, RunStates, TypingStates
  <2>3. GoesOn(c)
    BY <1>6, <2>1, <2>2, Endings DEF Press, Requested, GoesOn
  <2>4. line[Pane(c)] \in SUBSET Typists /\ OneAtMost(line[Pane(c)] \cap Runs)
    BY <2>1, LineOfOne DEF TerminalInv, LinesOK
  <2>5. CASE SubmitText(Pane(c), line[Pane(c)]) BY <2>1, <2>3, <2>4, <2>5, SubmittingStep
  <2>6. CASE UNCHANGED <<working, line, submitted>> BY <2>0, <2>1, <2>3, <2>6, QuietStep
  <2>7. CASE line' = [line EXCEPT ![Pane(c)] = {}] /\ UNCHANGED <<working, submitted>>
    <3>1. {} \in SUBSET Typists /\ OneAtMost({} \cap Runs) BY DEF OneAtMost
    <3>2. {mixed \in {{} \cap Runs} : Cardinality(mixed) > 1} = {}
      <4>1. {} \cap Runs = {} /\ Cardinality({}) = 0 BY FS_EmptySet
      <4> QED BY <4>1
    <3>3. SubmitText(Pane(c), {}) BY <2>7, <3>2 DEF SubmitText
    <3> QED BY <2>1, <2>3, <3>1, <3>3, SubmittingStep
  <2> QED BY <1>6, <2>5, <2>6, <2>7 DEF Press, Requested
<1>7. CASE AgentSettled(c) \/ AgentWaitFails(c) \/ OutOfTime(c) \/ Matched(c) \/ Read(c) \/ ReadFails(c)
  <2>0. \E at \in {"agent_wait", "settle", "match", "read"} : At(c, at)
    BY <1>7 DEF AgentSettled, AgentWaitFails, OutOfTime, Matched, Read, ReadFails
  <2>1. ~At(c, "idle") /\ ~At(c, "queued") /\ ~At(c, "enter") /\ Pane(c) \in HerdrPeers
    BY <2>0, <1>0, <1>1 DEF At, TypingStates
  <2>2. CASE AgentSettled(c) \/ OutOfTime(c)
    <3>1. GoesOn(c) BY <2>1, <2>2, Endings DEF AgentSettled, OutOfTime
    <3> QED BY <2>1, <2>2, <3>1, QuietStep DEF AgentSettled, OutOfTime
  <2>3. CASE AgentWaitFails(c) \/ ReadFails(c)
    <3>1. GoesOn(c) BY <2>1, <2>3, Endings DEF AgentWaitFails, ReadFails
    <3> QED BY <2>1, <2>3, <3>1, QuietStep DEF AgentWaitFails, ReadFails
  <2>4. CASE Matched(c)
    <3>1. c \in Calls
      BY <2>1, <2>4, RunsAndCalls DEF Matched, TerminalInv, TypingOK, At, RunStates, TypingStates
    <3>2. GoesOn(c) BY <2>4, <3>1 DEF Matched, GoesOn
    <3> QED BY <2>1, <2>4, <3>2, QuietStep DEF Matched
  <2>5. CASE Read(c)
    <3>1. GoesOn(c) BY <2>5, RunsAndCalls DEF Read, GoesOn
    <3> QED BY <2>1, <2>5, <3>1, QuietStep DEF Read
  <2> QED BY <1>7, <2>2, <2>3, <2>4, <2>5
<1> QED BY <1>2, <1>3, <1>4, <1>5, <1>6, <1>7 DEF TypistSteps

\* A step of something else: nobody moves.
LEMMA NobodyMoves ==
  ASSUME TerminalInv, UNCHANGED <<line, submitted, result, runnerQueue>>,
         working' \subseteq HerdrPeers, task' \in [Runs -> {"open", "cut_off", "closed"}],
         \A r \in Runs : Pane(r)' = Pane(r) /\ typing'[r].at = typing[r].at
  PROVE  QueuesOK' /\ LinesOK'
<1>1. QueuesOK'
  <2>1. ASSUME NEW p \in RunnerPeers
        PROVE  /\ IsInjective(runnerQueue'[p])
               /\ ToSet(runnerQueue'[p]) = {r \in Runs : Pane(r)' = p}
    <3>1. {r \in Runs : Pane(r)' = p} = {r \in Runs : Pane(r) = p} OBVIOUS
    <3> QED BY <3>1 DEF TerminalInv, QueuesOK
  <2>2. ASSUME NEW r \in Runs, ~At(r, "idle")'
        PROVE  /\ result'[r] = "none"
               /\ ~At(r, "queued")' => runnerQueue'[Pane(r)'][1] = r
    BY <2>2 DEF TerminalInv, QueuesOK, At
  <2>3. /\ runnerQueue' \in [RunnerPeers -> Seq(Runs)]
        /\ result' \in [Runs -> {"none", "done", "failed"}]
    BY DEF TerminalInv, QueuesOK
  <2> QED BY <2>1, <2>2, <2>3 DEF QueuesOK
<1>2. LinesOK'
  <2>1. ASSUME NEW p \in HerdrPeers, NEW r \in line[p] \cap Runs
        PROVE  result'[r] = "failed" \/ (Pane(r)' = p /\ At(r, "enter")')
    BY DEF TerminalInv, LinesOK, At
  <2>2. ASSUME NEW mixed \in submitted PROVE OneAtMost(mixed)'
    BY DEF TerminalInv, LinesOK, OneAtMost
  <2> QED BY <2>1, <2>2 DEF TerminalInv, LinesOK
<1> QED BY <1>1, <1>2

\* The first run of a queue begins.
LEMMA StartSound ==
  ASSUME TerminalInv, NEW r \in Runs, Start(r)
  PROVE  TerminalInv'
<1> DEFINE at == IF Pane(r) \in CliPeers THEN "exec" ELSE "detect"
<1>1. /\ At(r, "queued") /\ Head(runnerQueue[Pane(r)]) = r
      /\ typing' = [typing EXCEPT ![r].at = at]
      /\ UNCHANGED <<runnerQueue, result, task, working, line, submitted>>
  BY DEF Start, GoTo
<1>2. /\ at \in {"exec", "detect"} /\ at # "idle" /\ at # "queued"
      /\ at = "detect" => Pane(r) \in HerdrPeers
      /\ Pane(r) \in RunnerPeers
  <2>1. Pane(r) \in RunnerPeers \cup {None} /\ Pane(r) # None
    BY <1>1, RunsAndCalls DEF TerminalInv, TypingOK, At, Pane, TypistRecord
  <2>2. CASE Pane(r) \in CliPeers BY <2>1, <2>2
  <2>3. CASE Pane(r) \notin CliPeers BY <2>1, <2>3 DEF RunnerPeers
  <2> QED BY <2>2, <2>3
<1> HIDE DEF at
<1>3. /\ \A d \in Typists : Pane(d)' = Pane(d) /\ typing'[d].op = typing[d].op
      /\ \A d \in Typists \ {r} : typing'[d] = typing[d]
      /\ typing'[r].at = at
  BY <1>1, RunsAndCalls DEF TerminalInv, TypingOK, Pane
<1>4. TypingOK'
  <2>1. typing' \in [Typists -> TypistRecord]
    BY <1>1, <1>2, RunsAndCalls DEF TerminalInv, TypingOK, RunStates, TypingStates, TypistRecord
  <2>2. \A d \in Typists :
          /\ (Pane(d) = None)' = At(d, "idle")'
          /\ typing'[d].at \in CallStates => Pane(d)' \in HerdrPeers
          /\ At(d, "detect")' => typing'[d].op \in {"prompt", "wait", "keys"}
    BY <1>1, <1>2, <1>3, RunsAndCalls
    DEF TerminalInv, TypingOK, At, CallStates, TypingStates
  <2>3. \A d \in Runs : ~At(d, "idle")' => typing'[d].op = "prompt" /\ typing'[d].at \in RunStates
    BY <1>1, <1>2, <1>3, RunsAndCalls DEF TerminalInv, TypingOK, At, RunStates, TypingStates
  <2>4. \A d \in Calls : ~At(d, "idle")' => typing'[d].at \in CallStates
    BY <1>3, RunsAndCalls DEF TerminalInv, TypingOK, At
  <2> QED BY <2>1, <2>2, <2>3, <2>4 DEF TypingOK
<1>5. QueuesOK'
  <2>1. ASSUME NEW p \in RunnerPeers
        PROVE  /\ IsInjective(runnerQueue'[p])
               /\ ToSet(runnerQueue'[p]) = {s \in Runs : Pane(s)' = p}
    <3>1. {s \in Runs : Pane(s)' = p} = {s \in Runs : Pane(s) = p} BY <1>3, RunsAndCalls
    <3> QED BY <1>1, <3>1 DEF TerminalInv, QueuesOK
  <2>2. ASSUME NEW s \in Runs, ~At(s, "idle")'
        PROVE  /\ result'[s] = "none"
               /\ ~At(s, "queued")' => runnerQueue'[Pane(s)'][1] = s
    <3>1. CASE s = r
      <4>1. runnerQueue[Pane(r)][1] = r BY <1>1
      <4> QED BY <1>1, <1>3, <3>1, <4>1, RunsAndCalls DEF TerminalInv, QueuesOK, At
    <3>2. CASE s # r BY <1>1, <1>3, <2>2, <3>2, RunsAndCalls DEF TerminalInv, QueuesOK, At
    <3> QED BY <3>1, <3>2
  <2>3. /\ runnerQueue' \in [RunnerPeers -> Seq(Runs)]
        /\ result' \in [Runs -> {"none", "done", "failed"}]
        /\ task' \in [Runs -> {"open", "cut_off", "closed"}]
    BY <1>1 DEF TerminalInv, QueuesOK
  <2> QED BY <2>1, <2>2, <2>3 DEF QueuesOK
<1>6. OthersStay(r) BY <1>1, <1>3, RunsAndCalls DEF OthersStay, TerminalInv, QueuesOK, At
<1>7. LinesOK' BY <1>1, <1>6, RunsAndCalls, LinesKept DEF At
<1> QED BY <1>4, <1>5, <1>7 DEF TerminalInv

\* A task starts a run, which waits in the queue of its peer.
LEMMA TaskQueuedSound ==
  ASSUME TerminalInv, NEW r \in Runs, NEW p \in RunnerPeers, TaskQueued(r, p)
  PROVE  TerminalInv'
<1> DEFINE new == [NotTyping EXCEPT !.op = "prompt", !.at = "queued", !.pane = p, !.wait = TRUE]
<1>1. /\ At(r, "idle") /\ result[r] = "none"
      /\ typing' = [typing EXCEPT ![r] = new]
      /\ runnerQueue' = [runnerQueue EXCEPT ![p] = Append(@, r)]
      /\ UNCHANGED <<result, task, working, line, submitted>>
  BY DEF TaskQueued
<1>2. /\ new \in TypistRecord
      /\ new.op = "prompt" /\ new.at = "queued" /\ new.pane = p
  BY DEF NotTyping, RunStates, TypistRecord
<1> HIDE DEF new
<1>3. /\ \A d \in Typists \ {r} : typing'[d] = typing[d]
      /\ typing'[r] = new
  BY <1>1, RunsAndCalls DEF TerminalInv, TypingOK
<1>4. TypingOK'
  <2>1. typing' \in [Typists -> TypistRecord]
    BY <1>1, <1>2, RunsAndCalls DEF TerminalInv, TypingOK, RunStates
  <2>2. \A d \in Typists :
          /\ (Pane(d) = None)' = At(d, "idle")'
          /\ typing'[d].at \in CallStates => Pane(d)' \in HerdrPeers
          /\ At(d, "detect")' => typing'[d].op \in {"prompt", "wait", "keys"}
    BY <1>2, <1>3, RunsAndCalls
    DEF TerminalInv, TypingOK, At, Pane, CallStates, TypingStates
  <2>3. \A d \in Runs : ~At(d, "idle")' => typing'[d].op = "prompt" /\ typing'[d].at \in RunStates
    BY <1>2, <1>3, RunsAndCalls DEF TerminalInv, TypingOK, At, RunStates
  <2>4. \A d \in Calls : ~At(d, "idle")' => typing'[d].at \in CallStates
    BY <1>3, RunsAndCalls DEF TerminalInv, TypingOK, At
  <2> QED BY <2>1, <2>2, <2>3, <2>4 DEF TypingOK
<1>5. Pane(r) = None BY <1>1, RunsAndCalls DEF TerminalInv, TypingOK
<1>6. /\ runnerQueue[p] \in Seq(Runs) /\ IsInjective(runnerQueue[p])
      /\ r \notin ToSet(runnerQueue[p])
  BY <1>5, RunsAndCalls DEF TerminalInv, QueuesOK
<1>7. /\ runnerQueue'[p] \in Seq(Runs) /\ IsInjective(runnerQueue'[p])
      /\ ToSet(runnerQueue'[p]) = ToSet(runnerQueue[p]) \cup {r}
      /\ \A s \in ToSet(runnerQueue[p]) : runnerQueue[p][1] = s => runnerQueue'[p][1] = s
  BY <1>1, <1>6, QueueAppend DEF TerminalInv, QueuesOK
<1>8. QueuesOK'
  <2>1. ASSUME NEW q \in RunnerPeers
        PROVE  /\ IsInjective(runnerQueue'[q])
               /\ ToSet(runnerQueue'[q]) = {s \in Runs : Pane(s)' = q}
    <3>1. \A s \in Runs \ {r} : Pane(s)' = Pane(s) BY <1>3, RunsAndCalls DEF Pane
    <3>2. Pane(r)' = p BY <1>2, <1>3 DEF Pane
    <3>3. CASE q = p
      <4>1. {s \in Runs : Pane(s)' = q} = {s \in Runs : Pane(s) = q} \cup {r}
        BY <3>1, <3>2, <3>3
      <4> QED BY <1>7, <3>3, <4>1 DEF TerminalInv, QueuesOK
    <3>4. CASE q # p
      <4>1. {s \in Runs : Pane(s)' = q} = {s \in Runs : Pane(s) = q}
        BY <3>1, <3>2, <3>4, <1>5, RunsAndCalls
      <4> QED BY <1>1, <3>4, <4>1 DEF TerminalInv, QueuesOK
    <3> QED BY <3>3, <3>4
  <2>2. ASSUME NEW s \in Runs, ~At(s, "idle")'
        PROVE  /\ result'[s] = "none"
               /\ ~At(s, "queued")' => runnerQueue'[Pane(s)'][1] = s
    <3>1. CASE s = r BY <1>1, <1>2, <1>3, <3>1 DEF At
    <3>2. CASE s # r
      <4>1. typing'[s] = typing[s] BY <1>3, <3>2, RunsAndCalls
      <4>2. /\ ~At(s, "idle") /\ result'[s] = "none" /\ Pane(s)' = Pane(s)
            /\ At(s, "queued")' = At(s, "queued")
        BY <1>1, <2>2, <4>1 DEF TerminalInv, QueuesOK, At, Pane
      <4>3. ASSUME ~At(s, "queued")' PROVE runnerQueue'[Pane(s)][1] = s
        <5>1. runnerQueue[Pane(s)][1] = s /\ Pane(s) \in RunnerPeers
          BY <4>2, <4>3, RunsAndCalls DEF TerminalInv, QueuesOK, TypingOK, Pane, TypistRecord
        <5>2. CASE Pane(s) = p
          <6>1. s \in ToSet(runnerQueue[p]) BY <5>2 DEF TerminalInv, QueuesOK
          <6> QED BY <1>7, <5>1, <5>2, <6>1
        <5>3. CASE Pane(s) # p BY <1>1, <5>1, <5>3 DEF TerminalInv, QueuesOK
        <5> QED BY <5>2, <5>3
      <4> QED BY <4>2, <4>3
    <3> QED BY <3>1, <3>2
  <2>3. /\ runnerQueue' \in [RunnerPeers -> Seq(Runs)]
        /\ result' \in [Runs -> {"none", "done", "failed"}]
        /\ task' \in [Runs -> {"open", "cut_off", "closed"}]
    BY <1>1, <1>7 DEF TerminalInv, QueuesOK
  <2> QED BY <2>1, <2>2, <2>3 DEF QueuesOK
<1>9. LinesOK'
  <2>1. ASSUME NEW q \in HerdrPeers, NEW s \in line[q] \cap Runs
        PROVE  result'[s] = "failed" \/ (Pane(s)' = q /\ At(s, "enter")')
    BY <1>1, <1>3, RunsAndCalls DEF TerminalInv, LinesOK, At, Pane
  <2>2. ASSUME NEW mixed \in submitted PROVE OneAtMost(mixed)'
    BY <1>1 DEF TerminalInv, LinesOK, OneAtMost
  <2> QED BY <1>1, <2>1, <2>2 DEF TerminalInv, LinesOK
<1> QED BY <1>4, <1>8, <1>9 DEF TerminalInv

\* A call of a tool begins.
LEMMA BeginCallSound ==
  ASSUME TerminalInv, NEW c \in Calls, NEW p \in HerdrPeers,
         NEW op \in {"prompt", "wait", "keys", "read", "send"}, NEW at \in CallStates,
         at = "detect" => op \in {"prompt", "wait", "keys"},
         NEW wait \in BOOLEAN, BeginCall(c, op, at, p, wait)
  PROVE  TerminalInv'
<1> DEFINE new == [NotTyping EXCEPT !.op = op, !.at = at, !.pane = p, !.wait = wait]
<1>1. /\ typing' = [typing EXCEPT ![c] = new]
      /\ UNCHANGED <<runnerQueue, result, task, working, line, submitted>>
  BY DEF BeginCall
<1>2. /\ new \in TypistRecord
      /\ new.op = op /\ new.at = at /\ new.pane = p
  BY DEF NotTyping, RunnerPeers, TypistRecord
<1> HIDE DEF new
<1>3. /\ \A d \in Typists \ {c} : typing'[d] = typing[d]
      /\ typing'[c] = new
  BY <1>1, RunsAndCalls DEF TerminalInv, TypingOK
<1>4. at # "idle" /\ p \in RunnerPeers /\ p # None
  BY RunsAndCalls DEF CallStates, TypingStates
<1>5. TypingOK'
  <2>1. typing' \in [Typists -> TypistRecord]
    BY <1>1, <1>2, <1>4, RunsAndCalls DEF TerminalInv, TypingOK
  <2> QED BY <2>1, <1>2, <1>3, <1>4, RunsAndCalls DEF TerminalInv, TypingOK, At, Pane
<1>6. \A r \in Runs : typing'[r] = typing[r] BY <1>3, RunsAndCalls
<1>7. QueuesOK' /\ LinesOK'
  <2>1. working' \subseteq HerdrPeers /\ task' \in [Runs -> {"open", "cut_off", "closed"}]
    BY <1>1 DEF TerminalInv, QueuesOK, LinesOK
  <2>2. \A r \in Runs : Pane(r)' = Pane(r) /\ typing'[r].at = typing[r].at
    BY <1>6 DEF Pane
  <2> QED BY <1>1, <2>1, <2>2, NobodyMoves
<1> QED BY <1>5, <1>7 DEF TerminalInv

\* The agent in a pane works or rests, and the polls of a pane see it.
LEMMA PaneSound ==
  ASSUME TerminalInv, UNCHANGED <<runnerQueue, result, task, line, submitted>>,
         working' \subseteq HerdrPeers,
         \A c \in Typists : \E seen \in {"none", "same", "changed"}, stable \in {0, 1} :
           typing'[c] = [typing[c] EXCEPT !.seen = seen, !.stable = stable],
         typing' = [c \in Typists |-> typing'[c]]
  PROVE  TerminalInv'
<1>1. ASSUME NEW c \in Typists
      PROVE  /\ typing'[c].op = typing[c].op /\ typing'[c].at = typing[c].at
             /\ typing'[c].pane = typing[c].pane
             /\ typing'[c] \in TypistRecord
  <2> DEFINE rec == TypistRecord
  <2>1. typing[c] \in rec BY DEF TerminalInv, TypingOK
  <2>2. PICK seen \in {"none", "same", "changed"}, stable \in {0, 1} :
          typing'[c] = [typing[c] EXCEPT !.seen = seen, !.stable = stable]
    OBVIOUS
  <2> QED BY <2>1, <2>2 DEF TypistRecord
<1>2. TypingOK'
  <2>1. typing' \in [Typists -> TypistRecord]
    BY <1>1
  <2>2. ASSUME NEW c \in Typists
        PROVE  /\ (Pane(c) = None)' = At(c, "idle")'
               /\ typing'[c].at \in CallStates => Pane(c)' \in HerdrPeers
               /\ At(c, "detect")' => typing'[c].op \in {"prompt", "wait", "keys"}
    <3>1. /\ (typing[c].pane = None) = (typing[c].at = "idle")
          /\ typing[c].at \in CallStates => typing[c].pane \in HerdrPeers
          /\ typing[c].at = "detect" => typing[c].op \in {"prompt", "wait", "keys"}
      BY DEF TerminalInv, TypingOK, Pane, At
    <3> QED BY <1>1, <3>1 DEF Pane, At
  <2>3. \A r \in Runs : ~At(r, "idle")' => typing'[r].op = "prompt" /\ typing'[r].at \in RunStates
    BY <1>1, RunsAndCalls DEF TerminalInv, TypingOK, At
  <2>4. \A d \in Calls : ~At(d, "idle")' => typing'[d].at \in CallStates
    BY <1>1, RunsAndCalls DEF TerminalInv, TypingOK, At
  <2> QED BY <2>1, <2>2, <2>3, <2>4 DEF TypingOK
<1>3. QueuesOK' /\ LinesOK'
  <2>1. task' \in [Runs -> {"open", "cut_off", "closed"}] BY DEF TerminalInv, QueuesOK
  <2>2. \A r \in Runs : Pane(r)' = Pane(r) /\ typing'[r].at = typing[r].at
    BY <1>1, RunsAndCalls DEF Pane
  <2> QED BY <2>1, <2>2, NobodyMoves
<1> QED BY <1>2, <1>3 DEF TerminalInv

\* Every step keeps it.
LEMMA TerminalStepSound == TerminalInv /\ [TerminalNext]_terminals => TerminalInv'
<1> SUFFICES ASSUME TerminalInv, [TerminalNext]_terminals PROVE TerminalInv' OBVIOUS
<1>1. CASE UNCHANGED terminals
  BY <1>1 DEF terminals, TerminalInv, TypingOK, QueuesOK, LinesOK, OneAtMost, Pane, At
<1>2. ASSUME NEW c \in Typists, TypistSteps(c) PROVE TerminalInv' BY <1>2, TypistSound
<1>3. ASSUME NEW r \in Runs, Start(r) PROVE TerminalInv' BY <1>3, StartSound
<1>4. ASSUME NEW r \in Runs, Exec(r) PROVE TerminalInv'
  <2>1. ~At(r, "idle") /\ ~At(r, "queued") /\ ~At(r, "enter") BY <1>4 DEF Exec, At
  <2>2. GoesOn(r) BY <1>4 DEF Exec, GoesOn
  <2> QED BY <1>4, <2>1, <2>2, RunsAndCalls, QuietStep DEF Exec
<1>5. ASSUME NEW r \in Runs, TaskCloses(r) \/ CutOff(r) \/ Restored(r) PROVE TerminalInv'
  <2>1. /\ UNCHANGED <<runnerQueue, typing, result, working, line, submitted>>
        /\ task' \in [Runs -> {"open", "cut_off", "closed"}] /\ working' \subseteq HerdrPeers
    BY <1>5 DEF TaskCloses, CutOff, Restored, TerminalInv, QueuesOK, LinesOK
  <2>2. QueuesOK' /\ LinesOK' BY <2>1, NobodyMoves DEF Pane
  <2>3. TypingOK' BY <2>1 DEF TerminalInv, TypingOK, Pane, At
  <2> QED BY <2>2, <2>3 DEF TerminalInv
<1>6. ASSUME NEW r \in Runs, NEW p \in RunnerPeers, TaskQueued(r, p) PROVE TerminalInv'
  BY <1>6, TaskQueuedSound
<1>7. ASSUME NEW c \in Calls, NEW p \in HerdrPeers, CallBegins(c, p) PROVE TerminalInv'
  <2>1. /\ \A at \in {"detect", "read", "type", "press", "match"} : at \in CallStates
        /\ TRUE \in BOOLEAN /\ FALSE \in BOOLEAN
    BY DEF CallStates, TypingStates
  <2>2. ASSUME NEW op \in {"prompt", "wait", "keys", "read", "send"},
               NEW at \in {"detect", "read", "type", "press", "match"},
               at = "detect" => op \in {"prompt", "wait", "keys"},
               NEW wait \in BOOLEAN, BeginCall(c, op, at, p, wait)
        PROVE  TerminalInv'
    BY <2>1, <2>2, BeginCallSound
  <2>3. ASSUME NEW wait \in BOOLEAN, AgentPrompt(c, p, wait) PROVE TerminalInv'
    BY <2>2, <2>3 DEF AgentPrompt
  <2>4. ASSUME NEW wait \in BOOLEAN, PaneSend(c, p, wait) PROVE TerminalInv'
    BY <2>2, <2>4 DEF PaneSend
  <2>5. CASE AgentWait(c, p) BY <2>2, <2>5 DEF AgentWait
  <2>6. CASE AgentKeys(c, p) BY <2>2, <2>6 DEF AgentKeys
  <2>7. CASE AgentRead(c, p) BY <2>2, <2>7 DEF AgentRead
  <2>8. CASE PaneKeys(c, p) BY <2>2, <2>8 DEF PaneKeys
  <2>9. CASE PaneWait(c, p) BY <2>2, <2>9 DEF PaneWait
  <2> QED BY <1>7, <2>3, <2>4, <2>5, <2>6, <2>7, <2>8, <2>9 DEF CallBegins
<1>8. ASSUME NEW c \in Typists, Poll(c) PROVE TerminalInv'
  <2>0. At(c, "settle") /\ UNCHANGED <<working, line, submitted>> BY <1>8 DEF Poll
  <2>1. ~At(c, "idle") /\ ~At(c, "queued") /\ ~At(c, "enter") /\ Pane(c) \in HerdrPeers
    BY <2>0 DEF TerminalInv, TypingOK, At, CallStates, TypingStates
  <2>2. CASE Prompted(c) BY <2>0, <2>1, <2>2, Endings, QuietStep
  <2>3. CASE /\ ~(typing[c].seen = "same" /\ typing[c].stable + 1 = StableTarget)
             /\ typing' = [typing EXCEPT ![c].stable = IF typing[c].seen = "same" THEN @ + 1 ELSE 0,
                                         ![c].seen = "same"]
             /\ UNCHANGED <<runnerQueue, result, task>>
    <3> DEFINE more == IF typing[c].seen = "same" THEN typing[c].stable + 1 ELSE 0
    <3>0. typing \in [Typists -> TypistRecord]
      BY DEF TerminalInv, TypingOK
    <3>1. more \in {0, 1}
      <4>1. typing[c].stable \in {0, 1} BY <3>0 DEF TypistRecord
      <4> QED BY <2>3, <4>1 DEF StableTarget
    <3>2. /\ typing'[c] = [typing[c] EXCEPT !.seen = "same", !.stable = more]
          /\ \A d \in Typists \ {c} :
               typing'[d] = [typing[d] EXCEPT !.seen = typing[d].seen, !.stable = typing[d].stable]
          /\ typing' = [d \in Typists |-> typing'[d]]
      BY <2>3, <3>0 DEF TypistRecord
    <3> HIDE DEF more
    <3>3. \A d \in Typists : \E seen \in {"none", "same", "changed"}, stable \in {0, 1} :
            typing'[d] = [typing[d] EXCEPT !.seen = seen, !.stable = stable]
      <4> TAKE d \in Typists
      <4>1. CASE d = c BY <3>1, <3>2, <4>1
      <4>2. CASE d # c
        <5>1. typing[d].seen \in {"none", "same", "changed"} /\ typing[d].stable \in {0, 1} BY <3>0 DEF TypistRecord
        <5> QED BY <3>2, <4>2, <5>1
      <4> QED BY <4>1, <4>2
    <3> QED BY <2>0, <2>3, <3>2, <3>3, PaneSound DEF TerminalInv, LinesOK
  <2> QED BY <1>8, <2>2, <2>3 DEF Poll
<1>9. ASSUME NEW p \in HerdrPeers, Output(p) PROVE TerminalInv'
  <2>1. \A d \in Typists : \E seen \in {"none", "same", "changed"}, stable \in {0, 1} :
          typing'[d] = [typing[d] EXCEPT !.seen = seen, !.stable = stable]
    <3> TAKE d \in Typists
    <3>1. /\ typing[d].seen \in {"none", "same", "changed"} /\ typing[d].stable \in {0, 1}
          /\ typing[d] = [typing[d] EXCEPT !.seen = typing[d].seen, !.stable = typing[d].stable]
          /\ [typing[d] EXCEPT !.seen = "changed"]
               = [typing[d] EXCEPT !.seen = "changed", !.stable = typing[d].stable]
      BY DEF TerminalInv, TypingOK, TypistRecord
    <3>2. typing'[d] = typing[d] \/ typing'[d] = [typing[d] EXCEPT !.seen = "changed"]
      BY <1>9 DEF Output
    <3> QED BY <3>1, <3>2
  <2>2. typing' = [d \in Typists |-> typing'[d]] BY <1>9 DEF Output
  <2> QED BY <1>9, <2>1, <2>2, PaneSound DEF Output, TerminalInv, LinesOK
<1>10. ASSUME NEW p \in HerdrPeers, Settles(p) PROVE TerminalInv'
  <2>1. task' \in [Runs -> {"open", "cut_off", "closed"}] /\ working' \subseteq HerdrPeers
    BY <1>10 DEF Settles, TerminalInv, QueuesOK, LinesOK
  <2>2. QueuesOK' /\ LinesOK' BY <1>10, <2>1, NobodyMoves DEF Settles, Pane
  <2>3. TypingOK' BY <1>10 DEF Settles, TerminalInv, TypingOK, Pane, At
  <2> QED BY <2>2, <2>3 DEF TerminalInv
<1> QED
  BY <1>1, <1>2, <1>3, <1>4, <1>5, <1>6, <1>7, <1>8, <1>9, <1>10, RunsAndCalls
  DEF TerminalNext, RunSteps

\* Runs, calls, queues and lines fit together: what stands unsubmitted in a line
\* of a pane is of runs that have failed and of the one about to press Enter.
THEOREM TerminalsAreSound == TerminalSpec => []TerminalInv
<1> QED BY TerminalStarts, TerminalStepSound, PTL DEF TerminalSpec

\* The invariant includes the types.
LEMMA TerminalTypes == TerminalInv => TerminalTypeOK
<1> SUFFICES ASSUME TerminalInv PROVE TerminalTypeOK OBVIOUS
<1>1. ASSUME NEW c \in Typists
      PROVE  /\ typing[c].at \in {"idle", "queued", "exec", "detect", "submit", "agent_wait", "type",
                                  "enter", "press", "settle", "match", "read"}
             /\ typing[c].seen \in {"none", "same", "changed"}
             /\ typing[c].stable \in 0..(StableTarget - 1)
             /\ (typing[c].pane = None) = (typing[c].at = "idle")
  <2>1. typing[c].at \in {"idle"} \cup RunStates \cup CallStates BY DEF TerminalInv, TypingOK, TypistRecord
  <2>2. typing[c].seen \in {"none", "same", "changed"} /\ typing[c].stable \in {0, 1}
    BY DEF TerminalInv, TypingOK, TypistRecord
  <2>3. (typing[c].pane = None) = (typing[c].at = "idle") BY DEF TerminalInv, TypingOK, Pane, At
  <2> QED BY <2>1, <2>2, <2>3 DEF RunStates, CallStates, TypingStates, StableTarget
<1> QED BY <1>1 DEF TerminalInv, QueuesOK, LinesOK, TerminalTypeOK

\* A set no two of which can still succeed has one that did at most.
LEMMA OneHasAtMostOne == TerminalInv => InputsApart
<1> SUFFICES ASSUME TerminalInv, NEW mixed \in submitted
             PROVE  Cardinality({r \in mixed : result[r] # "failed"}) <= 1
  BY DEF InputsApart
<1> DEFINE T == {r \in mixed : result[r] # "failed"}
<1>1. \A r, s \in T : r = s BY DEF TerminalInv, LinesOK, OneAtMost
<1> HIDE DEF T
<1>2. CASE T = {} BY <1>2, FS_EmptySet DEF T
<1>3. CASE T # {}
  <2> PICK r \in T : TRUE BY <1>3
  <2>1. T = {r} BY <1>1
  <2>2. Cardinality(T) = 1 BY <2>1, FS_Singleton
  <2> QED BY <2>2 DEF T
<1> QED BY <1>2, <1>3

\* However runs and calls share a pane, no two runs that succeeded were submitted
\* in one line: the queue of a peer admits one run at a time, and a run that could
\* not press Enter fails (src/src/index.ts, src/src/runner.ts).
THEOREM RunsDoNotMix == TerminalSpec => []InputsApart
<1> QED BY TerminalsAreSound, OneHasAtMostOne, PTL

-----------------------------------------------------------------------------
(* The record of one task (TaskRecords).                                   *)

RecordSpec == RecordInit /\ [][RecordNext]_records

AckRecord   == [system : BOOLEAN, applied : BOOLEAN]
AssigneeRow == [peer : Peers, status : Statuses]

\* The rows of the timeline that the hub wrote when it ended rows of the task.
SystemRows(acks) == {i \in DOMAIN acks : acks[i] = SystemRow}
ShowsDrop(acks)  == \E i \in DOMAIN acks : acks[i] = DropRow

\* A peer has one row.
OneRowEach(rows) == \A i, j \in DOMAIN rows : rows[i].peer = rows[j].peer => i = j

RowsOK ==
  /\ record = [rows |-> record.rows, status |-> record.status, acks |-> record.acks]
  /\ record.rows \in Seq(AssigneeRow) /\ record.rows # <<>>
  /\ OneRowEach(record.rows)
  /\ record.status \in Statuses
  /\ IsOver <=> StillOpen = {}

\* A row the hub wrote at an end stands for a row of the task that it ended, so
\* that there is room for more in the timeline.
TimelineOK ==
  /\ record.acks \in Seq(AckRecord) /\ Len(record.acks) <= MaxAcks
  /\ Cardinality(SystemRows(record.acks)) + Cardinality(StillOpen) <= Cardinality(Peers)
  /\ dropped => ShowsDrop(record.acks)

PresenceOK ==
  /\ presence \in [Peers -> {"registered", "parked", "gone"}]
  /\ copies \subseteq Known
  /\ announced \in Statuses /\ dropped \in BOOLEAN

RecordInv == RowsOK /\ TimelineOK /\ PresenceOK

-----------------------------------------------------------------------------
(* The timeline.                                                           *)

\* The rows of the hub are two, and those of peers are others.
LEMMA AckFacts ==
  /\ SystemRow \in AckRecord /\ DropRow \in AckRecord /\ SystemRow # DropRow
  /\ \A applied \in BOOLEAN : AckRow(FALSE, applied) \in AckRecord
                              /\ AckRow(FALSE, applied) # SystemRow
                              /\ AckRow(FALSE, applied) # DropRow
  /\ \A row \in AckRecord : row.system => row = SystemRow \/ row = DropRow
  /\ SystemRow.system /\ DropRow.system
  BY DEF AckRecord, SystemRow, DropRow, AckRow

\* The victim is in the timeline, and one of the hub's only when all of them are.
LEMMA VictimFacts ==
  ASSUME NEW acks \in Seq(AckRecord), acks # <<>>
  PROVE  /\ Victim(acks) \in DOMAIN acks
         /\ (\E i \in DOMAIN acks : ~acks[i].system) => ~acks[Victim(acks)].system
<1> DEFINE idle   == {i \in DOMAIN acks : ~acks[i].system /\ ~acks[i].applied}
           spoken == {i \in DOMAIN acks : ~acks[i].system}
           oldest(S) == CHOOSE i \in S : \A j \in S : i <= j
<1>1. DOMAIN acks = 1..Len(acks) /\ Len(acks) \in Nat /\ Len(acks) > 0
  BY EmptySeq, LenProperties
<1>2. ASSUME NEW S, S \subseteq DOMAIN acks, S # {} PROVE oldest(S) \in S
  <2>1. \E i \in S : \A j \in S : i <= j BY <1>1, <1>2, LeastNumber
  <2> QED BY <2>1
<1>3. idle \subseteq spoken /\ spoken \subseteq DOMAIN acks OBVIOUS
<1>4. Victim(acks) = IF idle # {} THEN oldest(idle) ELSE IF spoken # {} THEN oldest(spoken) ELSE 1
  BY DEF Victim
<1>5. 1 \in DOMAIN acks BY <1>1
<1>6. \A i \in spoken : ~acks[i].system OBVIOUS
<1>7. (\E i \in DOMAIN acks : ~acks[i].system) => spoken # {} OBVIOUS
<1> HIDE DEF idle, spoken, oldest
<1> QED BY <1>2, <1>3, <1>4, <1>5, <1>6, <1>7

\* A row more in the timeline.
LEMMA AppendFacts ==
  ASSUME NEW acks \in Seq(AckRecord), NEW row \in AckRecord
  PROVE  LET all == Append(acks, row) IN
         /\ all \in Seq(AckRecord) /\ Len(all) = Len(acks) + 1
         /\ IsFiniteSet(SystemRows(acks)) /\ IsFiniteSet(SystemRows(all))
         /\ Cardinality(SystemRows(all)) =
              Cardinality(SystemRows(acks)) + (IF row = SystemRow THEN 1 ELSE 0)
         /\ ShowsDrop(acks) \/ row = DropRow => ShowsDrop(all)
<1> DEFINE all == Append(acks, row)
           N == Len(acks)
<1>1. /\ all \in Seq(AckRecord) /\ Len(all) = N + 1 /\ N \in Nat
      /\ \A i \in 1..N : all[i] = acks[i]
      /\ all[N + 1] = row
  BY AppendProperties, LenProperties
<1>2. DOMAIN all = 1..(N + 1) /\ DOMAIN acks = 1..N BY <1>1, LenProperties
<1> HIDE DEF all, N
<1>3. SystemRows(all) = IF row = SystemRow THEN SystemRows(acks) \cup {N + 1} ELSE SystemRows(acks)
  BY <1>1, <1>2 DEF SystemRows
<1>4. IsFiniteSet(SystemRows(acks)) /\ N + 1 \notin SystemRows(acks)
  <2>1. IsFiniteSet(1..N)
    <3>1. 1 \in Int /\ N \in Int BY <1>1
    <3> QED BY <3>1, FS_Interval
  <2>2. SystemRows(acks) \in SUBSET (1..N) BY <1>2 DEF SystemRows
  <2> QED BY <1>1, <2>1, <2>2, FS_Subset
<1>5. /\ IsFiniteSet(SystemRows(acks) \cup {N + 1})
      /\ Cardinality(SystemRows(acks) \cup {N + 1}) = Cardinality(SystemRows(acks)) + 1
  BY <1>4, FS_AddElement
<1>6. Cardinality(SystemRows(acks)) \in Nat BY <1>4, FS_CardinalityType
<1>7. ShowsDrop(acks) \/ row = DropRow => ShowsDrop(all)
  <2>1. ASSUME NEW i \in DOMAIN acks, acks[i] = DropRow PROVE ShowsDrop(all)
    <3>1. i \in DOMAIN all /\ all[i] = DropRow BY <1>1, <1>2, <2>1
    <3> QED BY <3>1 DEF ShowsDrop
  <2>2. ASSUME row = DropRow PROVE ShowsDrop(all)
    <3>1. N + 1 \in DOMAIN all /\ all[N + 1] = DropRow BY <1>1, <1>2, <2>2
    <3> QED BY <3>1 DEF ShowsDrop
  <2> QED BY <2>1, <2>2 DEF ShowsDrop
<1> QED BY <1>1, <1>3, <1>4, <1>5, <1>6, <1>7 DEF all, N

\* pushAckEvent keeps the bound, loses none of the rows of the hub but for room,
\* and a drop that was shown is shown after it, while the hub's other rows are
\* fewer than the timeline has room for.
LEMMA PushFacts ==
  ASSUME NEW acks \in Seq(AckRecord), Len(acks) <= MaxAcks, NEW row \in AckRecord
  PROVE  /\ Push(acks, row) \in Seq(AckRecord) /\ Len(Push(acks, row)) <= MaxAcks
         /\ IsFiniteSet(SystemRows(Push(acks, row)))
         /\ Cardinality(SystemRows(Push(acks, row))) <=
              Cardinality(SystemRows(acks)) + (IF row = SystemRow THEN 1 ELSE 0)
         /\ /\ ShowsDrop(acks) \/ row = DropRow
            /\ Cardinality(SystemRows(acks)) + (IF row = SystemRow THEN 1 ELSE 0) < MaxAcks
            => ShowsDrop(Push(acks, row))
<1> DEFINE all == Append(acks, row)
           v == Victim(all)
           k == Cardinality(SystemRows(acks)) + (IF row = SystemRow THEN 1 ELSE 0)
<1>0. MaxAcks \in Nat /\ Len(acks) \in Nat BY RecordAssumption, LenProperties
<1>1. /\ all \in Seq(AckRecord) /\ Len(all) = Len(acks) + 1
      /\ IsFiniteSet(SystemRows(all)) /\ Cardinality(SystemRows(all)) = k
      /\ ShowsDrop(acks) \/ row = DropRow => ShowsDrop(all)
  BY AppendFacts
<1>2. Push(acks, row) = IF Len(all) > MaxAcks THEN RemoveAt(all, v) ELSE all
  BY DEF Push
<1>3. k \in Nat BY <1>1, FS_CardinalityType
<1> HIDE DEF all, k
<1>4. CASE ~(Len(all) > MaxAcks) BY <1>0, <1>1, <1>2, <1>3, <1>4 DEF k
<1>5. CASE Len(all) > MaxAcks
  <2>0. /\ Len(all) = MaxAcks + 1 /\ DOMAIN all = 1..(MaxAcks + 1) /\ all # <<>>
    BY <1>0, <1>1, <1>5, LenProperties, EmptySeq
  <2>1. v \in 1..(MaxAcks + 1) /\ ((\E i \in DOMAIN all : ~all[i].system) => ~all[v].system)
    BY <1>1, <2>0, VictimFacts
  <2> DEFINE rest == RemoveAt(all, v)
  <2> HIDE DEF v
  <2>2. /\ rest \in Seq(AckRecord) /\ Len(rest) = MaxAcks
        /\ \A j \in 1..MaxAcks : rest[j] = IF j < v THEN all[j] ELSE all[j + 1]
    <3>1. v \in 1..Len(all) /\ Len(all) - 1 = MaxAcks BY <1>0, <2>0, <2>1
    <3> QED BY <1>1, <3>1, RemoveAtFacts
  <2>3. DOMAIN rest = 1..MaxAcks BY <2>2, LenProperties
  <2> HIDE DEF rest, v
  <2>4. /\ IsFiniteSet(SystemRows(rest))
        /\ Cardinality(SystemRows(rest)) <= Cardinality(SystemRows(all))
    <3> DEFINE from == [j \in SystemRows(rest) |-> IF j < v THEN j ELSE j + 1]
    <3>1. \A j \in SystemRows(rest) :
            j \in 1..MaxAcks /\ from[j] \in 1..(MaxAcks + 1) /\ all[from[j]] = SystemRow
      BY <1>0, <2>1, <2>2, <2>3 DEF SystemRows
    <3>2. from \in [SystemRows(rest) -> SystemRows(all)]
      BY <2>0, <3>1 DEF SystemRows
    <3>3. \A i, j \in SystemRows(rest) : from[i] = from[j] => i = j
      BY <1>0, <2>1, <3>1
    <3> HIDE DEF from
    <3>4. from \in Injection(SystemRows(rest), SystemRows(all))
      BY <3>2, <3>3 DEF Injection, IsInjective
    <3> QED BY <1>1, <3>4, FS_Injection
  <2>5. ASSUME ShowsDrop(all), k < MaxAcks PROVE ShowsDrop(rest)
    <3>1. ASSUME NEW i \in DOMAIN all, i # v, all[i] = DropRow PROVE ShowsDrop(rest)
      <4> DEFINE j == IF i < v THEN i ELSE i - 1
      <4>1. j \in DOMAIN rest /\ rest[j] = DropRow
        BY <1>0, <2>0, <2>1, <2>2, <2>3, <3>1
      <4> QED BY <4>1 DEF ShowsDrop
    <3>2. PICK d \in DOMAIN all : all[d] = DropRow BY <2>5 DEF ShowsDrop
    <3>3. CASE \E i \in DOMAIN all : ~all[i].system
      <4>1. d # v BY <2>1, <3>2, <3>3, AckFacts
      <4> QED BY <3>1, <3>2, <4>1
    <3>4. CASE \A i \in DOMAIN all : all[i].system
      <4>1. SUFFICES ASSUME \A i \in DOMAIN all : i # v => all[i] # DropRow PROVE FALSE
        BY <3>1
      <4>2. \A i \in DOMAIN all : i # v => all[i] = SystemRow
        BY <1>1, <2>0, <3>4, <4>1, AckFacts
      <4> DEFINE D == 1..(MaxAcks + 1)
      <4>4. IsFiniteSet(D) /\ Cardinality(D) = MaxAcks + 1 BY <1>0, FS_Interval
      <4>7. v \in D /\ D = DOMAIN all BY <2>0, <2>1
      <4> HIDE DEF D
      <4>3. D \ {v} \in SUBSET SystemRows(all) BY <4>2, <4>7 DEF SystemRows
      <4>5. Cardinality(D \ {v}) = MaxAcks
        <5>1. Cardinality(D \ {v}) = Cardinality(D) - 1 BY <4>4, <4>7, FS_RemoveElement
        <5> QED BY <1>0, <4>4, <5>1
      <4>6. MaxAcks <= Cardinality(SystemRows(all)) BY <1>1, <4>3, <4>5, FS_Subset
      <4> QED BY <1>0, <1>1, <1>3, <2>5, <4>6
    <3> QED BY <3>3, <3>4
  <2>6. Push(acks, row) = rest BY <1>2, <1>5 DEF rest
  <2> QED BY <1>0, <1>1, <2>2, <2>4, <2>5, <2>6 DEF k
<1> QED BY <1>4, <1>5

\* The same for a row that is written n times, as a cancel does for each row it
\* reached.
PushStep(pushed, acks, row, i) == IF i = 0 THEN acks ELSE Push(pushed[i - 1], row)
PushedUpTo(acks, row, n) ==
  CHOOSE pushed : pushed = [i \in 0..n |-> PushStep(pushed, acks, row, i)]

\* It is a function indeed, and PushTimes is its last value.
LEMMA PushedUpToDefined ==
  ASSUME NEW acks, NEW row, NEW N \in Nat
  PROVE  LET A == PushedUpTo(acks, row, N) IN
         /\ PushTimes(acks, row, N) = A[N]
         /\ \A n \in 0..N : A[n] = PushStep(A, acks, row, n)
<1> DEFINE G == {n \in 0..N : \E g : g = [i \in 0..n |-> PushStep(g, acks, row, i)]}
<1>1. 0 \in G
  <2>1. [i \in 0..0 |-> acks] = [i \in 0..0 |-> PushStep([j \in 0..0 |-> acks], acks, row, i)]
    BY DEF PushStep
  <2> QED BY <2>1
<1>2. ASSUME NEW n \in 0..N, n \in G, n < N
      PROVE  n + 1 \in G
  <2>1. PICK g : g = [i \in 0..n |-> PushStep(g, acks, row, i)] BY <1>2
  <2> DEFINE h == [i \in 0..(n + 1) |-> IF i <= n THEN g[i] ELSE PushStep(g, acks, row, n + 1)]
  <2>2. ASSUME NEW i \in 0..(n + 1)
        PROVE  h[i] = PushStep(h, acks, row, i)
    <3>1. CASE i = 0 BY <2>1, <3>1 DEF PushStep
    <3>2. CASE i # 0
      <4>1. h[i - 1] = g[i - 1] /\ h[i] = PushStep(g, acks, row, i) BY <2>1, <3>2
      <4> HIDE DEF h
      <4> QED BY <3>2, <4>1 DEF PushStep
    <3> QED BY <3>1, <3>2
  <2>3. h = [i \in 0..(n + 1) |-> PushStep(h, acks, row, i)] BY <2>2
  <2> HIDE DEF h
  <2> QED BY <1>2, <2>3
<1>3. 0..N \subseteq G
  <2> HIDE DEF G
  <2> QED BY <1>1, <1>2, InductionUpTo
<1>4. \E g : g = [i \in 0..N |-> PushStep(g, acks, row, i)] BY <1>3
<1>5. PushedUpTo(acks, row, N)
        = [i \in 0..N |-> PushStep(PushedUpTo(acks, row, N), acks, row, i)]
  BY <1>4, Zenon DEF PushedUpTo
<1>6. PushTimes(acks, row, N) = PushedUpTo(acks, row, N)[N]
  BY DEF PushTimes, PushedUpTo, PushStep
<1> QED BY <1>5, <1>6, Zenon

\* Rows of peers, however many, keep the bound and the evidence.
LEMMA PushTimesFacts ==
  ASSUME NEW acks \in Seq(AckRecord), Len(acks) <= MaxAcks,
         NEW row \in AckRecord, row # SystemRow, NEW N \in Nat,
         Cardinality(SystemRows(acks)) < MaxAcks
  PROVE  LET after == PushTimes(acks, row, N) IN
         /\ after \in Seq(AckRecord) /\ Len(after) <= MaxAcks
         /\ Cardinality(SystemRows(after)) <= Cardinality(SystemRows(acks))
         /\ ShowsDrop(acks) => ShowsDrop(after)
<1> DEFINE A == PushedUpTo(acks, row, N)
           Good(s) == /\ s \in Seq(AckRecord) /\ Len(s) <= MaxAcks
                      /\ IsFiniteSet(SystemRows(s))
                      /\ Cardinality(SystemRows(s)) <= Cardinality(SystemRows(acks))
                      /\ ShowsDrop(acks) => ShowsDrop(s)
           J == {n \in 0..N : Good(A[n])}
<1>1. /\ PushTimes(acks, row, N) = A[N]
      /\ \A n \in 0..N : A[n] = PushStep(A, acks, row, n)
  BY PushedUpToDefined
<1>2. IsFiniteSet(SystemRows(acks)) /\ Cardinality(SystemRows(acks)) \in Nat
  BY AppendFacts, FS_CardinalityType
<1> HIDE DEF A
<1>3. 0 \in J
  <2>1. A[0] = acks BY <1>1 DEF PushStep
  <2> QED BY <1>2, <2>1
<1>4. ASSUME NEW n \in 0..N, n \in J, n < N PROVE n + 1 \in J
  <2>1. A[n + 1] = Push(A[n], row) BY <1>1, <1>4 DEF PushStep
  <2> DEFINE s == A[n]
  <2>2. Good(s) BY <1>4
  <2>3. Cardinality(SystemRows(s)) \in Nat BY <2>2, FS_CardinalityType
  <2>4. Good(Push(s, row))
    <3> HIDE DEF s
    <3>1. MaxAcks \in Nat BY RecordAssumption
    <3>2. Cardinality(SystemRows(s)) + (IF row = SystemRow THEN 1 ELSE 0) = Cardinality(SystemRows(s))
      BY <2>3
    <3>3. /\ Push(s, row) \in Seq(AckRecord) /\ Len(Push(s, row)) <= MaxAcks
          /\ IsFiniteSet(SystemRows(Push(s, row)))
          /\ Cardinality(SystemRows(Push(s, row))) <= Cardinality(SystemRows(s))
          /\ ShowsDrop(s) /\ Cardinality(SystemRows(s)) < MaxAcks => ShowsDrop(Push(s, row))
      BY <2>2, <3>2, PushFacts
    <3>4. Cardinality(SystemRows(Push(s, row))) \in Nat BY <3>3, FS_CardinalityType
    <3> QED BY <1>2, <2>2, <2>3, <3>1, <3>3, <3>4
  <2> HIDE DEF s, Good
  <2>5. Good(A[n + 1]) BY <2>1, <2>4 DEF s
  <2> QED BY <1>4, <2>5
<1>5. N \in J
  <2> HIDE DEF J
  <2>1. 0..N \subseteq J BY <1>3, <1>4, InductionUpTo
  <2> QED BY <2>1
<1> QED BY <1>1, <1>5

-----------------------------------------------------------------------------
(* The rows.                                                               *)

\* What follows from the type of the rows alone.
LEMMA OpenFinite ==
  ASSUME NEW rows \in Seq(AssigneeRow)
  PROVE  /\ Len(rows) \in Nat /\ DOMAIN rows = 1..Len(rows)
         /\ \A i \in DOMAIN rows : rows[i] \in AssigneeRow
         /\ IsFiniteSet(OpenRows(rows)) /\ Cardinality(OpenRows(rows)) \in Nat
         /\ rows # <<>> <=> DOMAIN rows # {}
         /\ \A i \in DOMAIN rows : rows[i].status \in Statuses
<1> DEFINE N == Len(rows)
<1>1. N \in Nat /\ DOMAIN rows = 1..N /\ \A i \in DOMAIN rows : rows[i] \in AssigneeRow
  BY LenProperties
<1>2. IsFiniteSet(1..N)
  <2>1. 1 \in Int /\ N \in Int BY <1>1
  <2> QED BY <2>1, FS_Interval
<1>3. IsFiniteSet(OpenRows(rows))
  <2>1. OpenRows(rows) \in SUBSET (1..N) BY <1>1 DEF OpenRows
  <2> QED BY <1>2, <2>1, FS_Subset
<1>4. rows # <<>> <=> DOMAIN rows # {}
  <2>1. (rows = <<>>) <=> (N = 0) BY EmptySeq
  <2>2. (DOMAIN rows = {}) <=> (N = 0)
    <3>1. N = 0 => 1..N = {} OBVIOUS
    <3>2. N # 0 => 1 \in 1..N BY <1>1
    <3> HIDE DEF N
    <3> QED BY <1>1, <3>1, <3>2
  <2> QED BY <2>1, <2>2
<1> QED BY <1>1, <1>3, <1>4, FS_CardinalityType DEF AssigneeRow

\* Rows of the same peers, which open none that were over.
Follow(rows, after) ==
  /\ DOMAIN after = DOMAIN rows
  /\ \A i \in DOMAIN rows : /\ after[i] \in AssigneeRow /\ after[i].peer = rows[i].peer
                            /\ i \notin OpenRows(rows) => after[i] = rows[i]

\* Such rows have the peers they had; fewer are open, and the status of the task
\* is over with the last of them.
LEMMA FollowFacts ==
  ASSUME NEW rows \in Seq(AssigneeRow), OneRowEach(rows), rows # <<>>,
         NEW N, NEW after \in [1..N -> AssigneeRow], Follow(rows, after)
  PROVE  /\ after \in Seq(AssigneeRow) /\ OneRowEach(after) /\ after # <<>>
         /\ OpenRows(after) \subseteq OpenRows(rows)
         /\ Cardinality(OpenRows(after)) <= Cardinality(OpenRows(rows))
         /\ OpenRows(after) # OpenRows(rows) =>
              Cardinality(OpenRows(after)) + 1 <= Cardinality(OpenRows(rows))
         /\ AggregateTaskStatus(after) \in Statuses
         /\ AggregateTaskStatus(after) \in Terminal <=> OpenRows(after) = {}
<1>1. DOMAIN rows = 1..Len(rows) /\ Len(rows) \in Nat /\ DOMAIN rows # {} BY OpenFinite
<1>2. DOMAIN after = 1..Len(rows) BY <1>1 DEF Follow
<1>3. after \in Seq(AssigneeRow)
  <2>1. after \in [1..Len(rows) -> AssigneeRow] BY <1>2
  <2> QED BY <1>1, <2>1
<1>4. OneRowEach(after) BY DEF OneRowEach, Follow
<1>5. after # <<>> BY <1>1, <1>2, <1>3, OpenFinite
<1>6. OpenRows(after) \subseteq OpenRows(rows) BY DEF Follow, OpenRows
<1>7. /\ IsFiniteSet(OpenRows(rows)) /\ Cardinality(OpenRows(rows)) \in Nat
      /\ IsFiniteSet(OpenRows(after)) /\ Cardinality(OpenRows(after)) \in Nat
  BY <1>3, OpenFinite
<1>8. /\ Cardinality(OpenRows(after)) <= Cardinality(OpenRows(rows))
      /\ Cardinality(OpenRows(after)) = Cardinality(OpenRows(rows)) => OpenRows(after) = OpenRows(rows)
  BY <1>6, <1>7, FS_Subset
<1>9. DOMAIN after # {} /\ \A i \in DOMAIN after : after[i].status \in Statuses
  BY <1>3, <1>5, OpenFinite
<1>10. OpenRows(after) # OpenRows(rows) =>
         Cardinality(OpenRows(after)) + 1 <= Cardinality(OpenRows(rows))
  <2>1. ASSUME NEW m \in Nat, NEW n \in Nat, m <= n, m # n PROVE m + 1 <= n BY <2>1
  <2> QED BY <1>7, <1>8, <2>1
<1>11. /\ AggregateTaskStatus(after) \in Statuses
       /\ AggregateTaskStatus(after) \in Terminal <=> OpenRows(after) = {}
  BY <1>9, AggregateIsRight
<1> QED BY <1>3, <1>4, <1>5, <1>6, <1>8, <1>10, <1>11

\* Ending some of the open rows.
LEMMA MarkedFacts ==
  ASSUME NEW rows \in Seq(AssigneeRow), NEW I \in SUBSET OpenRows(rows), NEW status \in Terminal
  PROVE  /\ Marked(rows, I, status) \in [1..Len(rows) -> AssigneeRow]
         /\ Follow(rows, Marked(rows, I, status))
         /\ OpenRows(Marked(rows, I, status)) = OpenRows(rows) \ I
<1> DEFINE after == Marked(rows, I, status)
<1>1. /\ DOMAIN rows = 1..Len(rows) /\ \A i \in DOMAIN rows : rows[i] \in AssigneeRow
  BY OpenFinite
<1>2. status \in Statuses /\ status \notin Open BY DEF Statuses, Terminal, Open
<1>3. /\ DOMAIN after = DOMAIN rows
      /\ \A i \in DOMAIN rows : /\ i \in I => /\ after[i] \in AssigneeRow
                                             /\ after[i].peer = rows[i].peer
                                             /\ after[i].status = status
                                /\ i \notin I => after[i] = rows[i]
      /\ after = [i \in DOMAIN rows |-> after[i]]
  BY <1>1, <1>2 DEF Marked, AssigneeRow
<1> HIDE DEF after
<1>4. after \in [1..Len(rows) -> AssigneeRow] BY <1>1, <1>3
<1>5. Follow(rows, after) BY <1>1, <1>3 DEF Follow, OpenRows
<1>6. OpenRows(after) = OpenRows(rows) \ I BY <1>2, <1>3 DEF OpenRows
<1> QED BY <1>4, <1>5, <1>6 DEF after

\* Two rows of one peer, and no others.
Twins(rows, i, j) == i \in DOMAIN rows /\ j \in DOMAIN rows /\ i < j /\ rows[i].peer = rows[j].peer
OnePair(rows) ==
  \A i, j, k, l \in DOMAIN rows : Twins(rows, i, j) /\ Twins(rows, k, l) => i = k /\ j = l

\* foldDuplicateAssignees leaves each peer one row, and closes no work of either.
LEMMA FoldedFacts ==
  ASSUME NEW rows \in Seq(AssigneeRow), rows # <<>>, OnePair(rows)
  PROVE  LET after == Folded(rows) IN
         /\ after \in Seq(AssigneeRow) /\ OneRowEach(after) /\ after # <<>>
         /\ Cardinality(OpenRows(after)) <= Cardinality(OpenRows(rows))
         /\ OpenRows(rows) = {} => OpenRows(after) = {}
         /\ \A k \in OpenRows(rows) : \E l \in OpenRows(after) : after[l].peer = rows[k].peer
<1> DEFINE twice(i, j) == i < j /\ rows[i].peer = rows[j].peer
<1>0. /\ Len(rows) \in Nat /\ DOMAIN rows = 1..Len(rows) /\ DOMAIN rows # {}
      /\ \A i \in DOMAIN rows : rows[i] \in AssigneeRow
      /\ IsFiniteSet(OpenRows(rows))
  BY OpenFinite
<1>1. CASE ~\E i, j \in DOMAIN rows : twice(i, j)
  <2>1. Folded(rows) = rows BY <1>1 DEF Folded
  <2>2. OneRowEach(rows) BY <1>0, <1>1 DEF OneRowEach
  <2>3. Cardinality(OpenRows(rows)) <= Cardinality(OpenRows(rows)) BY OpenFinite
  <2> QED BY <2>1, <2>2, <2>3
<1>2. CASE \E i, j \in DOMAIN rows : twice(i, j)
  <2> DEFINE i == CHOOSE i \in DOMAIN rows : \E j \in DOMAIN rows : twice(i, j)
             j == CHOOSE j \in DOMAIN rows : twice(i, j)
             kept == IF {i, j} \cap OpenRows(rows) = {i} THEN i ELSE j
             marked == Marked(rows, {i}, rows[kept].status)
             after == RemoveAt(marked, j)
  <2>1. i \in DOMAIN rows /\ \E k \in DOMAIN rows : twice(i, k) BY <1>2
  <2> HIDE DEF i
  <2>2. j \in DOMAIN rows /\ i < j /\ rows[i].peer = rows[j].peer BY <2>1
  <2> HIDE DEF j
  <2>3. \A k, l \in DOMAIN rows : k < l /\ rows[k].peer = rows[l].peer => k = i /\ l = j
    BY <2>1, <2>2 DEF OnePair, Twins
  <2>4. Folded(rows) = after BY <1>2 DEF Folded, i, j
  <2>5. /\ kept \in {i, j}
        /\ i \in OpenRows(rows) \/ j \in OpenRows(rows) <=> kept \in OpenRows(rows)
    <3>1. CASE {i, j} \cap OpenRows(rows) = {i} BY <3>1, <2>2
    <3>2. CASE {i, j} \cap OpenRows(rows) # {i} BY <3>2, <2>2
    <3> QED BY <3>1, <3>2
  <2> HIDE DEF kept
  <2>6. kept \in DOMAIN rows /\ rows[kept].status \in Statuses BY <2>1, <2>2, <2>5, OpenFinite
  <2>7. /\ marked \in [1..Len(rows) -> AssigneeRow]
        /\ \A k \in DOMAIN rows : /\ marked[k].peer = rows[k].peer
                                  /\ k # i => marked[k] = rows[k]
        /\ marked[i].status = rows[kept].status
    <3>1. marked = [k \in DOMAIN rows |->
                      IF k \in {i} THEN [rows[k] EXCEPT !.status = rows[kept].status] ELSE rows[k]]
      BY DEF Marked
    <3> HIDE DEF marked
    <3> QED BY <1>0, <2>1, <2>6, <3>1 DEF AssigneeRow
  <2> HIDE DEF marked
  <2>8. marked \in Seq(AssigneeRow) /\ Len(marked) = Len(rows)
    <3>1. marked \in Seq(AssigneeRow) BY <1>0, <2>7
    <3> QED BY <1>0, <2>7, <3>1, LenProperties
  <2>9. /\ after \in Seq(AssigneeRow) /\ Len(after) = Len(rows) - 1
        /\ \A k \in 1..(Len(rows) - 1) : after[k] = IF k < j THEN marked[k] ELSE marked[k + 1]
    <3>1. j \in 1..Len(marked) BY <1>0, <2>2, <2>8
    <3> QED BY <2>8, <3>1, RemoveAtFacts
  <2>10. /\ DOMAIN after = 1..(Len(rows) - 1) /\ after # <<>>
         /\ IsFiniteSet(OpenRows(after))
    <3>1. Len(rows) > 1 BY <1>0, <2>1, <2>2
    <3>2. DOMAIN after = 1..(Len(rows) - 1) BY <2>9, LenProperties
    <3> HIDE DEF after
    <3> QED BY <1>0, <2>9, <3>1, <3>2, OpenFinite, EmptySeq
  <2> HIDE DEF after
  <2> DEFINE src(k) == IF k < j THEN k ELSE k + 1
  <2>11. \A k \in DOMAIN after : /\ src(k) \in DOMAIN rows /\ src(k) # j
                                /\ after[k] = marked[src(k)]
                                /\ after[k].peer = rows[src(k)].peer
    BY <1>0, <2>2, <2>7, <2>9, <2>10
  <2>12. \A k, l \in DOMAIN after : src(k) = src(l) => k = l
    BY <1>0, <2>2, <2>10
  <2>13. \A k \in DOMAIN rows \ {j} : \E l \in DOMAIN after : src(l) = k
    <3> TAKE k \in DOMAIN rows \ {j}
    <3> DEFINE l == IF k < j THEN k ELSE k - 1
    <3>1. l \in DOMAIN after /\ src(l) = k BY <1>0, <2>2, <2>10
    <3> QED BY <3>1
  <2> HIDE DEF src
  <2>14. OneRowEach(after)
    <3> SUFFICES ASSUME NEW k \in DOMAIN after, NEW l \in DOMAIN after, after[k].peer = after[l].peer
                 PROVE  k = l
      BY DEF OneRowEach
    <3>1. /\ src(k) \in DOMAIN rows /\ src(l) \in DOMAIN rows /\ src(k) # j /\ src(l) # j
          /\ rows[src(k)].peer = rows[src(l)].peer
      BY <2>11
    <3>2. src(k) = src(l) BY <1>0, <2>3, <3>1
    <3> QED BY <2>12, <3>2
  <2>15. \A k \in DOMAIN after : k \in OpenRows(after) <=>
           (IF src(k) = i THEN kept \in OpenRows(rows) ELSE src(k) \in OpenRows(rows))
    BY <2>6, <2>7, <2>11 DEF OpenRows
  <2>16. Cardinality(OpenRows(after)) <= Cardinality(OpenRows(rows))
    <3> DEFINE from == [k \in OpenRows(after) |-> IF src(k) = i THEN kept ELSE src(k)]
    <3>1. OpenRows(after) \subseteq DOMAIN after BY DEF OpenRows
    <3>2. from \in [OpenRows(after) -> OpenRows(rows)] BY <2>15, <3>1
    <3>3. \A k, l \in OpenRows(after) : from[k] = from[l] => k = l
      BY <2>2, <2>5, <2>11, <2>12, <3>1
    <3> HIDE DEF from
    <3>4. from \in Injection(OpenRows(after), OpenRows(rows)) BY <3>2, <3>3 DEF Injection, IsInjective
    <3> QED BY <1>0, <3>4, FS_Injection
  <2>17. OpenRows(rows) = {} => OpenRows(after) = {} BY <2>15 DEF OpenRows
  <2>18. ASSUME NEW k \in OpenRows(rows)
         PROVE  \E l \in OpenRows(after) : after[l].peer = rows[k].peer
    <3>1. k \in DOMAIN rows BY DEF OpenRows
    <3>2. CASE k \in {i, j}
      <4>1. PICK l \in DOMAIN after : src(l) = i BY <2>1, <2>2, <2>13, <1>0
      <4>2. l \in OpenRows(after) BY <2>5, <2>15, <3>2, <4>1
      <4> QED BY <2>2, <2>11, <3>2, <4>1, <4>2
    <3>3. CASE k \notin {i, j}
      <4>1. PICK l \in DOMAIN after : src(l) = k BY <2>13, <3>1, <3>3
      <4>2. l \in OpenRows(after) BY <2>15, <3>3, <4>1
      <4> QED BY <2>11, <4>1, <4>2
    <3> QED BY <3>2, <3>3
  <2> QED BY <2>4, <2>9, <2>10, <2>14, <2>16, <2>17, <2>18
<1> QED BY <1>1, <1>2

-----------------------------------------------------------------------------
(* A step at a time.                                                       *)

\* It holds for a task that has just been sent.
LEMMA RecordStarts == RecordInit => RecordInv
<1> SUFFICES ASSUME RecordInit PROVE RecordInv OBVIOUS
<1>1. PICK members \in (SUBSET Peers) \ {{}} : \E order \in SetToSeqs(members) :
        /\ record = [rows |-> [i \in DOMAIN order |->
                                 [peer |-> order[i], status |-> "pending"]],
                     status |-> "pending", acks |-> <<>>]
        /\ copies = members \cap Known
  BY DEF RecordInit
<1>2. PICK order \in SetToSeqs(members) :
        /\ record = [rows |-> [i \in DOMAIN order |->
                                 [peer |-> order[i], status |-> "pending"]],
                     status |-> "pending", acks |-> <<>>]
        /\ copies = members \cap Known
  BY <1>1
<1> DEFINE N == Cardinality(members)
           rows == record.rows
<1>3. members \subseteq Peers /\ members # {} /\ IsFiniteSet(Peers) BY RecordAssumption
<1>4. /\ IsFiniteSet(members) /\ N \in Nat /\ N # 0
      /\ Cardinality(Peers) \in Nat
  BY <1>3, FS_Subset, FS_CardinalityType, FS_EmptySet
<1>5. /\ order \in [1..N -> members]
      /\ \A i, j \in 1..N : i # j => order[i] # order[j]
  BY DEF SetToSeqs
<1>6. /\ rows = [i \in 1..N |-> [peer |-> order[i], status |-> "pending"]]
      /\ record.status = "pending" /\ record.acks = <<>>
      /\ record = [rows |-> record.rows, status |-> record.status, acks |-> record.acks]
  BY <1>2, <1>5
<1> HIDE DEF N, rows
<1>7. /\ rows \in Seq(AssigneeRow) /\ DOMAIN rows = 1..N
      /\ \A i \in 1..N : rows[i].peer = order[i] /\ rows[i].status = "pending"
  <2>1. \A i \in 1..N : [peer |-> order[i], status |-> "pending"] \in AssigneeRow
    BY <1>3, <1>5 DEF AssigneeRow, Statuses, Open
  <2>2. rows \in [1..N -> AssigneeRow] BY <1>6, <2>1
  <2> QED BY <1>4, <1>6, <2>2
<1>8. rows # <<>>
  <2>1. 1 \in 1..N BY <1>4
  <2> QED BY <1>7, <2>1, OpenFinite
<1>9. OpenRows(rows) = 1..N BY <1>7 DEF OpenRows, Open
<1>10. Cardinality(1..N) = N
  <2>1. 1 \in Int /\ N \in Int BY <1>4
  <2> QED BY <1>4, <2>1, FS_Interval
<1>11. N <= Cardinality(Peers) BY <1>3, FS_Subset DEF N
<1>12. SystemRows(<<>>) = {} /\ <<>> \in Seq(AckRecord) /\ Len(<<>>) = 0
  BY EmptySeq DEF SystemRows
<1>13. Cardinality({}) = 0 BY FS_EmptySet
<1>14. RowsOK
  <2>1. OneRowEach(rows) BY <1>5, <1>7 DEF OneRowEach
  <2>2. OpenRows(rows) # {} BY <1>4, <1>9
  <2>3. record.status \in Statuses /\ ~IsOver BY <1>6 DEF IsOver, Statuses, Open, Terminal
  <2> QED BY <1>6, <1>7, <1>8, <2>1, <2>2, <2>3 DEF RowsOK, StillOpen, rows
<1>15. TimelineOK
  <2>1. MaxAcks \in Nat BY RecordAssumption
  <2>2. ~dropped BY DEF RecordInit
  <2>3. Cardinality(SystemRows(record.acks)) + Cardinality(StillOpen) = N
    <3>1. Cardinality(SystemRows(record.acks)) = 0 BY <1>6, <1>12, <1>13
    <3>2. Cardinality(StillOpen) = N BY <1>9, <1>10 DEF StillOpen, rows
    <3> QED BY <1>4, <3>1, <3>2
  <2> QED BY <1>6, <1>11, <1>12, <2>1, <2>2, <2>3 DEF TimelineOK
<1>16. PresenceOK BY <1>2 DEF PresenceOK, RecordInit, Statuses, Open
<1> QED BY <1>14, <1>15, <1>16 DEF RecordInv

\* The parts of the invariant, as the steps below use them.
LEMMA InvFacts ==
  ASSUME RecordInv
  PROVE  /\ Cardinality(Peers) \in Nat /\ MaxAcks \in Nat /\ Cardinality(Peers) < MaxAcks
         /\ record.rows \in Seq(AssigneeRow) /\ record.rows # <<>> /\ OneRowEach(record.rows)
         /\ record.acks \in Seq(AckRecord) /\ Len(record.acks) <= MaxAcks
         /\ record.status \in Statuses /\ (IsOver <=> OpenRows(record.rows) = {})
         /\ StillOpen = OpenRows(record.rows) /\ StillOpen \subseteq DOMAIN record.rows
         /\ Cardinality(StillOpen) \in Nat /\ IsFiniteSet(StillOpen)
         /\ Cardinality(SystemRows(record.acks)) \in Nat
         /\ Cardinality(SystemRows(record.acks)) + Cardinality(StillOpen) <= Cardinality(Peers)
         /\ dropped => ShowsDrop(record.acks)
<1>1. Cardinality(Peers) \in Nat /\ MaxAcks \in Nat /\ Cardinality(Peers) < MaxAcks
  BY RecordAssumption, FS_CardinalityType
<1>2. /\ record.rows \in Seq(AssigneeRow) /\ record.rows # <<>> /\ OneRowEach(record.rows)
      /\ record.status \in Statuses /\ (IsOver <=> StillOpen = {})
  BY DEF RecordInv, RowsOK
<1>3. /\ record.acks \in Seq(AckRecord) /\ Len(record.acks) <= MaxAcks
      /\ Cardinality(SystemRows(record.acks)) + Cardinality(StillOpen) <= Cardinality(Peers)
      /\ dropped => ShowsDrop(record.acks)
  BY DEF RecordInv, TimelineOK
<1>4. StillOpen = OpenRows(record.rows) /\ StillOpen \subseteq DOMAIN record.rows
  BY DEF StillOpen, OpenRows
<1>5. Cardinality(StillOpen) \in Nat /\ IsFiniteSet(StillOpen) BY <1>2, <1>4, OpenFinite
<1>6. IsFiniteSet(SystemRows(record.acks))
  <2>1. SystemRow \in AckRecord BY AckFacts
  <2> QED BY <1>3, <2>1, AppendFacts
<1>7. Cardinality(SystemRows(record.acks)) \in Nat BY <1>6, FS_CardinalityType
<1> QED BY <1>1, <1>2, <1>3, <1>4, <1>5, <1>7

\* The record after a step that wrote rows and a timeline.
LEMMA Written ==
  ASSUME RecordInv, NEW rows, NEW status \in Statuses, NEW acks,
         rows \in Seq(AssigneeRow), rows # <<>>, OneRowEach(rows),
         status \in Terminal <=> OpenRows(rows) = {},
         acks \in Seq(AckRecord), Len(acks) <= MaxAcks,
         Cardinality(SystemRows(acks)) + Cardinality(OpenRows(rows)) <= Cardinality(Peers),
         dropped' => ShowsDrop(acks),
         record' = [rows |-> rows, status |-> status, acks |-> acks]
  PROVE  RowsOK' /\ TimelineOK'
<1>1. record'.rows = rows /\ record'.status = status /\ record'.acks = acks OBVIOUS
<1>2. RowsOK' BY <1>1 DEF RowsOK, IsOver, StillOpen
<1>3. TimelineOK' BY <1>1 DEF TimelineOK, StillOpen
<1> QED BY <1>2, <1>3

\* One more row in the timeline; when the hub ended rows, they are fewer now.
LEMMA OneMore ==
  ASSUME RecordInv, NEW row \in AckRecord, NEW rows \in [1..Len(record.rows) -> AssigneeRow],
         Follow(record.rows, rows),
         row = SystemRow => OpenRows(rows) # OpenRows(record.rows)
  PROVE  LET acks == Push(record.acks, row) IN
         /\ acks \in Seq(AckRecord) /\ Len(acks) <= MaxAcks
         /\ Cardinality(SystemRows(acks)) + Cardinality(OpenRows(rows)) <= Cardinality(Peers)
         /\ dropped \/ row = DropRow => ShowsDrop(acks)
<1> DEFINE acks == Push(record.acks, row)
           a == Cardinality(SystemRows(record.acks))
           b == Cardinality(SystemRows(acks))
           o == Cardinality(OpenRows(record.rows))
           u == Cardinality(OpenRows(rows))
           P == Cardinality(Peers)
           e == IF row = SystemRow THEN 1 ELSE 0
<1>1. /\ P \in Nat /\ MaxAcks \in Nat /\ P < MaxAcks /\ a \in Nat /\ o \in Nat /\ a + o <= P
      /\ dropped => ShowsDrop(record.acks)
      /\ record.acks \in Seq(AckRecord) /\ Len(record.acks) <= MaxAcks
      /\ record.rows \in Seq(AssigneeRow) /\ record.rows # <<>> /\ OneRowEach(record.rows)
  BY InvFacts
<1>2. /\ acks \in Seq(AckRecord) /\ Len(acks) <= MaxAcks
      /\ IsFiniteSet(SystemRows(acks))
      /\ b <= a + e
      /\ (ShowsDrop(record.acks) \/ row = DropRow) /\ a + e < MaxAcks => ShowsDrop(acks)
  BY <1>1, PushFacts
<1>3. b \in Nat BY <1>2, FS_CardinalityType
<1>4. rows \in Seq(AssigneeRow) /\ u <= o /\ (row = SystemRow => u + 1 <= o)
  BY <1>1, FollowFacts
<1>5. u \in Nat BY <1>4, OpenFinite
<1>6. e \in {0, 1} /\ (e = 1 => row = SystemRow) OBVIOUS
<1> HIDE DEF acks, a, b, o, u, P, e
<1>7. u + e <= o BY <1>1, <1>4, <1>5, <1>6
<1>8. a + e <= P BY <1>1, <1>5, <1>6, <1>7
<1>9. b + u <= P BY <1>1, <1>2, <1>3, <1>5, <1>6, <1>7
<1> QED BY <1>1, <1>2, <1>6, <1>8, <1>9 DEF acks, b, u, P

\* A step that leaves the record as it is.
LEMMA RecordSame ==
  ASSUME RecordInv, record' = record, dropped' = dropped
  PROVE  RowsOK' /\ TimelineOK'
  BY DEF RecordInv, RowsOK, TimelineOK, IsOver, StillOpen

\* Becomes, with one more row in the timeline.
LEMMA BecomesSound ==
  ASSUME RecordInv, NEW row \in AckRecord, NEW rows \in [1..Len(record.rows) -> AssigneeRow],
         Follow(record.rows, rows),
         row = SystemRow => OpenRows(rows) # OpenRows(record.rows),
         NEW status \in Statuses, status \in Terminal <=> OpenRows(rows) = {},
         Becomes(rows, status, Push(record.acks, row)), dropped' = dropped
  PROVE  RowsOK' /\ TimelineOK' /\ announced' \in Statuses
<1> DEFINE acks == Push(record.acks, row)
<1>1. /\ acks \in Seq(AckRecord) /\ Len(acks) <= MaxAcks
      /\ Cardinality(SystemRows(acks)) + Cardinality(OpenRows(rows)) <= Cardinality(Peers)
      /\ dropped => ShowsDrop(acks)
  BY OneMore
<1>2. record.rows \in Seq(AssigneeRow) /\ record.rows # <<>> /\ OneRowEach(record.rows)
  BY InvFacts
<1>3. rows \in Seq(AssigneeRow) /\ OneRowEach(rows) /\ rows # <<>> BY <1>2, FollowFacts
<1>4. record' = [rows |-> rows, status |-> status, acks |-> acks] /\ announced' = status
  BY DEF Becomes
<1> HIDE DEF acks
<1>5. dropped' => ShowsDrop(acks) BY <1>1
<1>6. RowsOK' /\ TimelineOK' BY <1>1, <1>3, <1>4, <1>5, Written
<1> QED BY <1>4, <1>6

\* The status of a task whose rows went on from those it had.
LEMMA StatusOf ==
  ASSUME RecordInv, NEW rows \in [1..Len(record.rows) -> AssigneeRow], Follow(record.rows, rows)
  PROVE  /\ AggregateTaskStatus(rows) \in Statuses
         /\ AggregateTaskStatus(rows) \in Terminal <=> OpenRows(rows) = {}
<1>1. record.rows \in Seq(AssigneeRow) /\ record.rows # <<>> /\ OneRowEach(record.rows)
  BY InvFacts
<1> QED BY <1>1, FollowFacts

\* The rows of a peer fail with its copy of the message.
LEMMA CopyIsLostSound ==
  ASSUME RecordInv, NEW p \in Peers, CopyIsLost(p), dropped' = dropped
  PROVE  RowsOK' /\ TimelineOK' /\ announced' \in Statuses
<1> DEFINE mine == RowsWith(p) \cap StillOpen
           rows == Marked(record.rows, mine, "failed")
<1>1. CASE UNCHANGED <<record, announced>>
  <2>1. announced \in Statuses BY DEF RecordInv, PresenceOK
  <2> QED BY <1>1, <2>1, RecordSame
<1>2. CASE /\ mine # {}
           /\ Becomes(rows, AggregateTaskStatus(rows), Push(record.acks, SystemRow))
  <2>1. /\ record.rows \in Seq(AssigneeRow)
        /\ mine \in SUBSET OpenRows(record.rows)
    BY InvFacts
  <2>2. "failed" \in Terminal BY DEF Terminal
  <2> HIDE DEF mine
  <2>3. /\ rows \in [1..Len(record.rows) -> AssigneeRow]
        /\ Follow(record.rows, rows)
        /\ OpenRows(rows) = OpenRows(record.rows) \ mine
    BY <2>1, <2>2, MarkedFacts
  <2> HIDE DEF rows
  <2>4. OpenRows(rows) # OpenRows(record.rows) BY <1>2, <2>1, <2>3
  <2>5. SystemRow \in AckRecord BY AckFacts
  <2>6. /\ AggregateTaskStatus(rows) \in Statuses
        /\ AggregateTaskStatus(rows) \in Terminal <=> OpenRows(rows) = {}
    BY <2>3, StatusOf
  <2> QED BY <1>2, <2>3, <2>4, <2>5, <2>6, BecomesSound
<1> QED BY <1>1, <1>2 DEF CopyIsLost

\* An ack, of a peer or of its runner.
LEMMA AckedSound ==
  ASSUME RecordInv, NEW p \in Peers, NEW ack \in Acks, Acked(p, ack)
  PROVE  RecordInv'
<1> DEFINE mine == RowsWith(p) \cap StillOpen
           rows == [i \in DOMAIN record.rows |->
                      IF i \in mine
                      THEN [record.rows[i] EXCEPT !.status = NextTaskStatus(@, ack)]
                      ELSE record.rows[i]]
           row  == AckRow(FALSE, mine # {})
<1>1. /\ Becomes(rows, AggregateTaskStatus(rows), Push(record.acks, row))
      /\ UNCHANGED <<presence, copies, dropped>>
  BY DEF Acked
<1>2. row \in AckRecord /\ row # SystemRow BY AckFacts
<1>3. /\ record.rows \in Seq(AssigneeRow)
      /\ mine \subseteq OpenRows(record.rows)
  BY InvFacts
<1>4. /\ DOMAIN record.rows = 1..Len(record.rows)
      /\ \A i \in DOMAIN record.rows : record.rows[i] \in AssigneeRow
  BY <1>3, OpenFinite
<1> HIDE DEF mine, row
<1>5. ASSUME NEW i \in DOMAIN record.rows
      PROVE  /\ rows[i] \in AssigneeRow /\ rows[i].peer = record.rows[i].peer
             /\ i \notin OpenRows(record.rows) => rows[i] = record.rows[i]
  <2>1. CASE i \in mine
    <3>1. record.rows[i].status \in Open BY <1>3, <2>1 DEF OpenRows
    <3>2. NextTaskStatus(record.rows[i].status, ack) \in Statuses BY <3>1, OpenOrTerminal
    <3>3. rows[i] = [record.rows[i] EXCEPT !.status = NextTaskStatus(record.rows[i].status, ack)]
      BY <2>1
    <3> QED BY <1>3, <1>4, <2>1, <3>2, <3>3 DEF AssigneeRow
  <2>2. CASE i \notin mine BY <1>4, <2>2
  <2> QED BY <2>1, <2>2
<1>6. rows \in [1..Len(record.rows) -> AssigneeRow] /\ Follow(record.rows, rows)
  <2>1. DOMAIN rows = DOMAIN record.rows /\ rows = [i \in DOMAIN record.rows |-> rows[i]] OBVIOUS
  <2> HIDE DEF rows
  <2> QED BY <1>4, <1>5, <2>1 DEF Follow
<1> HIDE DEF rows
<1>7. /\ AggregateTaskStatus(rows) \in Statuses
      /\ AggregateTaskStatus(rows) \in Terminal <=> OpenRows(rows) = {}
  BY <1>6, StatusOf
<1>8. RowsOK' /\ TimelineOK' /\ announced' \in Statuses
  BY <1>1, <1>2, <1>6, <1>7, BecomesSound
<1>9. PresenceOK' BY <1>1, <1>8 DEF RecordInv, PresenceOK, Known
<1> QED BY <1>8, <1>9 DEF RecordInv

\* A cancel of the sender, whole or stopped at a peer that is gone.
LEMMA CancelSound ==
  ASSUME RecordInv, CancelAsSender
  PROVE  RecordInv'
<1>3. /\ Cardinality(Peers) \in Nat /\ MaxAcks \in Nat /\ Cardinality(Peers) < MaxAcks
      /\ record.rows \in Seq(AssigneeRow) /\ record.rows # <<>> /\ OneRowEach(record.rows)
      /\ record.acks \in Seq(AckRecord) /\ Len(record.acks) <= MaxAcks
      /\ record.status \in Statuses
      /\ StillOpen = OpenRows(record.rows) /\ StillOpen \subseteq DOMAIN record.rows
      /\ Cardinality(StillOpen) \in Nat /\ IsFiniteSet(StillOpen)
      /\ Cardinality(SystemRows(record.acks)) \in Nat
      /\ Cardinality(SystemRows(record.acks)) + Cardinality(StillOpen) <= Cardinality(Peers)
      /\ dropped => ShowsDrop(record.acks)
  BY InvFacts
<1> DEFINE gone    == {i \in StillOpen : record.rows[i].peer \notin Known}
           reached == {i \in StillOpen : \A j \in gone : i < j}
           rows    == Marked(record.rows, reached, "canceled")
           row     == AckRow(FALSE, TRUE)
           acks    == PushTimes(record.acks, row, Cardinality(reached))
<1>1. /\ ~IsOver
      /\ IF gone = {}
         THEN Becomes(rows, AggregateTaskStatus(rows), acks)
         ELSE /\ record' = [record EXCEPT !.rows = rows, !.acks = acks]
              /\ UNCHANGED announced
      /\ UNCHANGED <<presence, copies, dropped>>
  BY DEF CancelAsSender
<1>2. row \in AckRecord /\ row # SystemRow BY AckFacts
<1>4. reached \in SUBSET OpenRows(record.rows) BY <1>3
<1>5. gone \subseteq OpenRows(record.rows) /\ gone \cap reached = {}
  <2>1. \A i \in gone : i \in Nat BY <1>3, OpenFinite
  <2>2. \A i \in gone : ~(i < i) BY <2>1
  <2> QED BY <1>3, <2>2
<1>6. Cardinality(reached) \in Nat BY <1>3, <1>4, FS_Subset, FS_CardinalityType
<1>7. "canceled" \in Terminal BY DEF Terminal
<1> HIDE DEF reached, gone, row
<1>8. /\ rows \in [1..Len(record.rows) -> AssigneeRow]
      /\ Follow(record.rows, rows)
      /\ OpenRows(rows) = OpenRows(record.rows) \ reached
  BY <1>3, <1>4, <1>7, MarkedFacts
<1>9. Cardinality(SystemRows(record.acks)) < MaxAcks BY <1>3
<1>10. /\ acks \in Seq(AckRecord) /\ Len(acks) <= MaxAcks
       /\ Cardinality(SystemRows(acks)) <= Cardinality(SystemRows(record.acks))
       /\ ShowsDrop(record.acks) => ShowsDrop(acks)
  BY <1>2, <1>3, <1>6, <1>9, PushTimesFacts
<1> HIDE DEF rows, acks
<1>11. /\ rows \in Seq(AssigneeRow) /\ OneRowEach(rows) /\ rows # <<>>
       /\ Cardinality(OpenRows(rows)) <= Cardinality(OpenRows(record.rows))
       /\ AggregateTaskStatus(rows) \in Statuses
       /\ AggregateTaskStatus(rows) \in Terminal <=> OpenRows(rows) = {}
  BY <1>3, <1>8, FollowFacts
<1>12. Cardinality(SystemRows(acks)) + Cardinality(OpenRows(rows)) <= Cardinality(Peers)
  <2>1. Cardinality(OpenRows(rows)) \in Nat BY <1>11, OpenFinite
  <2>2. Cardinality(SystemRows(acks)) \in Nat
    <3>1. IsFiniteSet(SystemRows(acks)) BY <1>2, <1>10, AppendFacts
    <3> QED BY <3>1, FS_CardinalityType
  <2> QED BY <1>3, <1>10, <1>11, <2>1, <2>2
<1>13. dropped' => ShowsDrop(acks) BY <1>1, <1>3, <1>10
<1>14. \E status \in Statuses :
         /\ status \in Terminal <=> OpenRows(rows) = {}
         /\ record' = [rows |-> rows, status |-> status, acks |-> acks]
         /\ announced' \in Statuses
  <2>1. CASE gone = {}
    <3>1. /\ record' = [rows |-> rows, status |-> AggregateTaskStatus(rows), acks |-> acks]
          /\ announced' = AggregateTaskStatus(rows)
      BY <1>1, <2>1 DEF Becomes
    <3> QED BY <1>11, <3>1
  <2>2. CASE gone # {}
    <3>1. record = [rows |-> record.rows, status |-> record.status, acks |-> record.acks]
      BY DEF RecordInv, RowsOK
    <3>2. record' = [rows |-> rows, status |-> record.status, acks |-> acks] /\ announced' = announced
      BY <1>1, <2>2, <3>1
    <3>3. OpenRows(rows) # {} /\ record.status \notin Terminal BY <1>1, <1>5, <1>8, <2>2 DEF IsOver
    <3>4. announced \in Statuses BY DEF RecordInv, PresenceOK
    <3> QED BY <1>3, <3>2, <3>3, <3>4
  <2> QED BY <2>1, <2>2
<1>15. RowsOK' /\ TimelineOK' BY <1>10, <1>11, <1>12, <1>13, <1>14, Written
<1>16. PresenceOK' BY <1>1, <1>14 DEF RecordInv, PresenceOK, Known
<1> QED BY <1>15, <1>16 DEF RecordInv

\* The deadline.
LEMMA TimesOutSound ==
  ASSUME RecordInv, TimesOut
  PROVE  RecordInv'
<1>1. /\ record.rows \in Seq(AssigneeRow)
      /\ StillOpen = OpenRows(record.rows) /\ StillOpen \in SUBSET OpenRows(record.rows)
      /\ IsOver <=> OpenRows(record.rows) = {}
  BY InvFacts
<1> DEFINE rows == Marked(record.rows, StillOpen, "timeout")
<1>2. "timeout" \in Terminal /\ "timeout" \in Statuses BY DEF Terminal, Statuses
<1>3. /\ rows \in [1..Len(record.rows) -> AssigneeRow]
      /\ Follow(record.rows, rows)
      /\ OpenRows(rows) = {}
  <2>1. /\ rows \in [1..Len(record.rows) -> AssigneeRow]
        /\ Follow(record.rows, rows)
        /\ OpenRows(rows) = OpenRows(record.rows) \ StillOpen
    BY <1>1, <1>2, MarkedFacts
  <2> QED BY <1>1, <2>1
<1>4. /\ OpenRows(record.rows) # {}
      /\ Becomes(rows, "timeout", Push(record.acks, SystemRow))
      /\ UNCHANGED <<presence, copies, dropped>>
  BY <1>1 DEF TimesOut
<1> HIDE DEF rows
<1>5. SystemRow \in AckRecord BY AckFacts
<1>6. RowsOK' /\ TimelineOK' /\ announced' \in Statuses
  BY <1>2, <1>3, <1>4, <1>5, BecomesSound
<1>7. PresenceOK' BY <1>4, <1>6 DEF RecordInv, PresenceOK, Known
<1> QED BY <1>6, <1>7 DEF RecordInv

\* What happens to a copy in a mailbox.
LEMMA TakeDropEvictSound ==
  ASSUME RecordInv, NEW p \in Peers, Take(p) \/ Drop(p) \/ Evict(p)
  PROVE  RecordInv'
<1>1. CASE Take(p)
  <2>1. record' = record /\ dropped' = dropped BY <1>1 DEF Take
  <2>2. RowsOK' /\ TimelineOK' BY <2>1, RecordSame
  <2>3. PresenceOK' BY <1>1 DEF RecordInv, PresenceOK, Known, Take
  <2> QED BY <2>2, <2>3 DEF RecordInv
<1>2. CASE Drop(p)
  <2> DEFINE acks == Push(record.acks, DropRow)
  <2>1. DropRow \in AckRecord /\ DropRow # SystemRow BY AckFacts
  <2>2. /\ record.rows \in Seq(AssigneeRow) /\ record.rows # <<>> /\ OneRowEach(record.rows)
        /\ record.status \in Statuses /\ (IsOver <=> OpenRows(record.rows) = {})
    BY InvFacts
  <2>3. /\ record.rows \in [1..Len(record.rows) -> AssigneeRow]
        /\ Follow(record.rows, record.rows)
    <3>1. /\ DOMAIN record.rows = 1..Len(record.rows)
          /\ \A i \in DOMAIN record.rows : record.rows[i] \in AssigneeRow
      BY <2>2, OpenFinite
    <3>2. record.rows \in [1..Len(record.rows) -> AssigneeRow] BY <2>2
    <3> QED BY <3>1, <3>2 DEF Follow
  <2>4. /\ acks \in Seq(AckRecord) /\ Len(acks) <= MaxAcks
        /\ Cardinality(SystemRows(acks)) + Cardinality(OpenRows(record.rows)) <= Cardinality(Peers)
        /\ ShowsDrop(acks)
    BY <2>1, <2>3, OneMore
  <2>5. record' = [rows |-> record.rows, status |-> record.status, acks |-> acks]
    <3>1. record = [rows |-> record.rows, status |-> record.status, acks |-> record.acks]
      BY DEF RecordInv, RowsOK
    <3>2. record' = [record EXCEPT !.acks = acks] BY <1>2 DEF Drop
    <3> HIDE DEF acks
    <3> QED BY <3>1, <3>2
  <2> HIDE DEF acks
  <2>6. RowsOK' /\ TimelineOK' BY <2>2, <2>4, <2>5, Written DEF IsOver
  <2>7. PresenceOK' BY <1>2 DEF RecordInv, PresenceOK, Known, Drop
  <2> QED BY <2>6, <2>7 DEF RecordInv
<1>3. CASE Evict(p)
  <2>1. CopyIsLost(p) /\ dropped' = dropped BY <1>3 DEF Evict
  <2>2. RowsOK' /\ TimelineOK' /\ announced' \in Statuses BY <2>1, CopyIsLostSound
  <2>3. PresenceOK' BY <1>3, <2>2 DEF RecordInv, PresenceOK, Known, Evict
  <2> QED BY <2>2, <2>3 DEF RecordInv
<1> QED BY <1>1, <1>2, <1>3

\* Peers come, park and leave.
LEMMA PeerSound ==
  ASSUME RecordInv, NEW p \in Peers, Join(p) \/ Park(p) \/ Leave(p)
  PROVE  RecordInv'
<1>1. ASSUME Join(p) \/ Park(p) PROVE RecordInv'
  <2>1. record' = record /\ dropped' = dropped BY <1>1 DEF Join, Park
  <2>2. RowsOK' /\ TimelineOK' BY <2>1, RecordSame
  <2>3. PresenceOK' BY <1>1 DEF RecordInv, PresenceOK, Known, Join, Park
  <2> QED BY <2>2, <2>3 DEF RecordInv
<1>2. ASSUME Leave(p) PROVE RecordInv'
  <2>1. dropped' = dropped BY <1>2 DEF Leave
  <2>2. RowsOK' /\ TimelineOK' /\ announced' \in Statuses
    <3>1. CASE p \in copies
      <4>1. CopyIsLost(p) BY <1>2, <3>1 DEF Leave
      <4> QED BY <2>1, <4>1, CopyIsLostSound
    <3>2. CASE p \notin copies
      <4>1. record' = record /\ announced' = announced BY <1>2, <3>2 DEF Leave
      <4>2. announced \in Statuses BY DEF RecordInv, PresenceOK
      <4> QED BY <2>1, <4>1, <4>2, RecordSame
    <3> QED BY <3>1, <3>2
  <2>3. PresenceOK' BY <1>2, <2>2 DEF RecordInv, PresenceOK, Known, Leave
  <2> QED BY <2>2, <2>3 DEF RecordInv
<1> QED BY <1>1, <1>2

-----------------------------------------------------------------------------
(* A rename.                                                               *)

Named(rows, p, q) ==
  [i \in DOMAIN rows |-> [rows[i] EXCEPT !.peer = IF @ = p THEN q ELSE @]]

\* The rows of one peer become another's: two peers have the same rows between
\* them then, and nobody else has two.
LEMMA NamedFacts ==
  ASSUME NEW rows \in Seq(AssigneeRow), rows # <<>>, OneRowEach(rows),
         NEW p \in Peers, NEW q \in Peers, p # q
  PROVE  LET named == Named(rows, p, q) IN
         /\ named \in Seq(AssigneeRow) /\ named # <<>> /\ OnePair(named)
         /\ DOMAIN named = DOMAIN rows
         /\ OpenRows(named) = OpenRows(rows)
         /\ \A i \in DOMAIN rows :
              named[i].peer = IF rows[i].peer = p THEN q ELSE rows[i].peer
<1> DEFINE named == Named(rows, p, q)
<1>1. /\ DOMAIN rows = 1..Len(rows) /\ Len(rows) \in Nat /\ DOMAIN rows # {}
      /\ \A i \in DOMAIN rows : rows[i] \in AssigneeRow
  BY OpenFinite
<1>2. /\ DOMAIN named = DOMAIN rows
      /\ \A i \in DOMAIN rows :
           /\ named[i] \in AssigneeRow
           /\ named[i].peer = IF rows[i].peer = p THEN q ELSE rows[i].peer
           /\ named[i].status = rows[i].status
      /\ named = [i \in DOMAIN rows |-> named[i]]
  BY <1>1 DEF AssigneeRow, Named
<1> HIDE DEF named
<1>3. named \in Seq(AssigneeRow)
  <2>1. named \in [1..Len(rows) -> AssigneeRow] BY <1>1, <1>2
  <2> QED BY <1>1, <2>1
<1>4. named # <<>> BY <1>1, <1>2, <1>3, OpenFinite
<1>5. OpenRows(named) = OpenRows(rows) BY <1>2 DEF OpenRows
<1>6. OnePair(named)
  <2> SUFFICES ASSUME NEW i \in DOMAIN rows, NEW j \in DOMAIN rows,
                      NEW k \in DOMAIN rows, NEW l \in DOMAIN rows,
                      Twins(named, i, j), Twins(named, k, l)
               PROVE  i = k /\ j = l
    BY <1>2 DEF OnePair
  <2>1. \A a, b \in DOMAIN rows : Twins(named, a, b) =>
          /\ a < b
          /\ \/ rows[a].peer = p /\ rows[b].peer = q
             \/ rows[a].peer = q /\ rows[b].peer = p
    <3> SUFFICES ASSUME NEW a \in DOMAIN rows, NEW b \in DOMAIN rows, Twins(named, a, b)
                 PROVE  /\ a < b
                        /\ \/ rows[a].peer = p /\ rows[b].peer = q
                           \/ rows[a].peer = q /\ rows[b].peer = p
      OBVIOUS
    <3>1. a < b /\ named[a].peer = named[b].peer BY DEF Twins
    <3>2. a # b BY <1>1, <3>1
    <3>3. rows[a].peer # rows[b].peer BY <3>2 DEF OneRowEach
    <3> QED BY <1>2, <3>1, <3>3
  <2>2. \A a, b \in DOMAIN rows : rows[a].peer = rows[b].peer => a = b BY DEF OneRowEach
  <2>3. \A a, b \in DOMAIN rows : ~(a < b /\ b < a) BY <1>1
  <2> QED BY <2>1, <2>2, <2>3
<1> QED BY <1>2, <1>3, <1>4, <1>5, <1>6 DEF named

\* What a rename does, and what it does to the rows.
LEMMA RenameFacts ==
  ASSUME RecordInv, NEW p \in Peers, NEW q \in Peers, Rename(p, q)
  PROVE  \E rows \in Seq(AssigneeRow), status \in Statuses :
           /\ record' = [rows |-> rows, status |-> status, acks |-> record.acks]
           /\ rows # <<>> /\ OneRowEach(rows)
           /\ Cardinality(OpenRows(rows)) <= Cardinality(OpenRows(record.rows))
           /\ status \in Terminal <=> OpenRows(rows) = {}
           /\ OpenRows(record.rows) = {} => OpenRows(rows) = {}
           /\ \A i \in OpenRows(record.rows) : \E j \in OpenRows(rows) :
                rows[j].peer = IF record.rows[i].peer = p THEN q ELSE record.rows[i].peer
<1>1. /\ record.rows \in Seq(AssigneeRow) /\ record.rows # <<>> /\ OneRowEach(record.rows)
      /\ record.status \in Statuses /\ (IsOver <=> OpenRows(record.rows) = {})
      /\ OpenRows(record.rows) \subseteq DOMAIN record.rows
  BY InvFacts DEF OpenRows
<1> DEFINE named  == Named(record.rows, p, q)
           rows   == Folded(named)
           status == IF rows = named THEN record.status ELSE AggregateTaskStatus(rows)
<1>2. /\ presence[p] = "registered" /\ presence[q] = "gone"
      /\ record' = [record EXCEPT !.rows = rows, !.status = status]
  BY DEF Rename, Named
<1>3. p # q BY <1>2
<1>4. /\ named \in Seq(AssigneeRow) /\ named # <<>> /\ OnePair(named)
      /\ DOMAIN named = DOMAIN record.rows
      /\ OpenRows(named) = OpenRows(record.rows)
      /\ \A i \in DOMAIN record.rows :
           named[i].peer = IF record.rows[i].peer = p THEN q ELSE record.rows[i].peer
  BY <1>1, <1>3, NamedFacts
<1> HIDE DEF named
<1>5. /\ rows \in Seq(AssigneeRow) /\ OneRowEach(rows) /\ rows # <<>>
      /\ Cardinality(OpenRows(rows)) <= Cardinality(OpenRows(named))
      /\ OpenRows(named) = {} => OpenRows(rows) = {}
      /\ \A k \in OpenRows(named) : \E l \in OpenRows(rows) : rows[l].peer = named[k].peer
  BY <1>4, FoldedFacts
<1> HIDE DEF rows
<1>6. status \in Statuses /\ (status \in Terminal <=> OpenRows(rows) = {})
  <2>1. CASE rows = named BY <1>1, <1>4, <2>1 DEF IsOver
  <2>2. CASE rows # named
    <3>1. DOMAIN rows # {} /\ \A i \in DOMAIN rows : rows[i].status \in Statuses
      BY <1>5, OpenFinite
    <3>2. /\ AggregateTaskStatus(rows) \in Statuses
          /\ AggregateTaskStatus(rows) \in Terminal <=> OpenRows(rows) = {}
      BY <3>1, AggregateIsRight
    <3> QED BY <2>2, <3>2
  <2> QED BY <2>1, <2>2
<1> HIDE DEF status
<1>7. record' = [rows |-> rows, status |-> status, acks |-> record.acks]
  <2>1. record = [rows |-> record.rows, status |-> record.status, acks |-> record.acks]
    BY DEF RecordInv, RowsOK
  <2> QED BY <1>2, <2>1
<1>8. ASSUME NEW i \in OpenRows(record.rows)
      PROVE  \E j \in OpenRows(rows) :
               rows[j].peer = IF record.rows[i].peer = p THEN q ELSE record.rows[i].peer
  BY <1>1, <1>4, <1>5
<1> QED BY <1>4, <1>5, <1>6, <1>7, <1>8

\* A rename keeps the invariant.
LEMMA RenameSound ==
  ASSUME RecordInv, NEW p \in Peers, NEW q \in Peers, Rename(p, q)
  PROVE  RecordInv'
<1>1. PICK rows \in Seq(AssigneeRow), status \in Statuses :
        /\ record' = [rows |-> rows, status |-> status, acks |-> record.acks]
        /\ rows # <<>> /\ OneRowEach(rows)
        /\ Cardinality(OpenRows(rows)) <= Cardinality(OpenRows(record.rows))
        /\ status \in Terminal <=> OpenRows(rows) = {}
  BY RenameFacts
<1>2. /\ Cardinality(Peers) \in Nat
      /\ record.acks \in Seq(AckRecord) /\ Len(record.acks) <= MaxAcks
      /\ StillOpen = OpenRows(record.rows)
      /\ Cardinality(StillOpen) \in Nat
      /\ Cardinality(SystemRows(record.acks)) \in Nat
      /\ Cardinality(SystemRows(record.acks)) + Cardinality(StillOpen) <= Cardinality(Peers)
      /\ dropped => ShowsDrop(record.acks)
  BY InvFacts
<1>3. Cardinality(OpenRows(rows)) \in Nat BY OpenFinite
<1>4. Cardinality(SystemRows(record.acks)) + Cardinality(OpenRows(rows)) <= Cardinality(Peers)
  BY <1>1, <1>2, <1>3
<1>5. dropped' => ShowsDrop(record.acks) BY <1>2 DEF Rename
<1>6. RowsOK' /\ TimelineOK' BY <1>1, <1>2, <1>4, <1>5, Written
<1>7. PresenceOK' BY DEF RecordInv, PresenceOK, Known, Rename
<1> QED BY <1>6, <1>7 DEF RecordInv

-----------------------------------------------------------------------------

\* Every step keeps it.
LEMMA RecordStepSound == RecordInv /\ [RecordNext]_records => RecordInv'
<1> SUFFICES ASSUME RecordInv, [RecordNext]_records PROVE RecordInv' OBVIOUS
<1>1. ASSUME NEW p \in Peers, NEW ack \in AckStatuses, Ack(p, ack) PROVE RecordInv'
  <2>1. ack \in Acks BY RecordAssumption, OpenOrTerminal
  <2> QED BY <1>1, <2>1, AckedSound DEF Ack
<1>2. ASSUME NEW p \in Peers, NEW ack \in {"done", "failed"}, RunnerEnds(p, ack)
      PROVE  RecordInv'
  <2>1. ack \in Acks BY DEF Acks, ClientAcks
  <2> QED BY <1>2, <2>1, AckedSound DEF RunnerEnds
<1>3. ASSUME NEW p \in Peers, CancelAsAssignee(p) PROVE RecordInv'
  <2>1. "canceled" \in Acks BY DEF Acks
  <2> QED BY <1>3, <2>1, AckedSound DEF CancelAsAssignee, Ack
<1>4. CASE CancelAsSender BY <1>4, CancelSound
<1>5. CASE TimesOut BY <1>5, TimesOutSound
<1>6. ASSUME NEW p \in Peers, Take(p) \/ Drop(p) \/ Evict(p) PROVE RecordInv'
  BY <1>6, TakeDropEvictSound
<1>7. ASSUME NEW p \in Peers, Join(p) \/ Park(p) \/ Leave(p) PROVE RecordInv'
  BY <1>7, PeerSound
<1>8. ASSUME NEW p \in Peers, NEW q \in Peers, Rename(p, q) PROVE RecordInv'
  BY <1>8, RenameSound
<1>9. CASE UNCHANGED records
  <2>1. RowsOK' /\ TimelineOK' BY <1>9, RecordSame DEF records
  <2>2. PresenceOK' BY <1>9 DEF RecordInv, PresenceOK, Known, records
  <2> QED BY <2>1, <2>2 DEF RecordInv
<1> QED BY <1>1, <1>2, <1>3, <1>4, <1>5, <1>6, <1>7, <1>8, <1>9 DEF RecordNext

\* The invariant includes the types.
LEMMA RecordTypes == RecordInv => RecordTypeOK
<1> SUFFICES ASSUME RecordInv PROVE RecordTypeOK OBVIOUS
<1>1. /\ record.rows \in Seq(AssigneeRow) /\ OneRowEach(record.rows)
      /\ record.status \in Statuses
      /\ record.acks \in Seq(AckRecord) /\ Len(record.acks) <= MaxAcks /\ MaxAcks \in Nat
  BY InvFacts
<1>2. \A i \in DOMAIN record.rows : record.rows[i] \in AssigneeRow BY <1>1, OpenFinite
<1>3. record.acks \in BoundedSeq(AckRecord, MaxAcks)
  <2>1. /\ Len(record.acks) \in 0..MaxAcks
        /\ record.acks \in [1..Len(record.acks) -> AckRecord]
    BY <1>1, LenProperties
  <2> QED BY <2>1 DEF BoundedSeq, SeqOf
<1> QED BY <1>1, <1>2, <1>3 DEF RecordTypeOK, RecordInv, PresenceOK, AssigneeRow, OneRowEach, AckRecord

\* The rows, the status and the timeline of a task fit together, and the timeline
\* has room for what the hub itself ends.
THEOREM RecordsAreSound == RecordSpec => []RecordInv
<1> QED BY RecordStarts, RecordStepSound, PTL DEF RecordSpec

\* A delivery of the task that was dropped can be read in its timeline for good:
\* trimAcks takes a row of the hub only when there are no others, and of those that
\* end rows there are fewer than the timeline holds.
THEOREM LossesAreShown == RecordSpec => []WhatWasLostIsShown
<1>1. RecordInv => WhatWasLostIsShown BY InvFacts DEF WhatWasLostIsShown, ShowsDrop
<1> QED BY <1>1, RecordsAreSound, PTL

\* A rename onto the id of another assignee closes no work that is open under
\* either id and opens no task that is over (foldDuplicateAssignees).
THEOREM RenamesAreFair == RecordSpec => RenameNeitherEndsNorReopens
<1> DEFINE Fair ==
      \A p, q \in Peers : Rename(p, q) =>
        /\ \A i \in StillOpen :
             LET owner == record.rows[i].peer IN
             \E j \in StillOpen' : record'.rows[j].peer = IF owner = p THEN q ELSE owner
        /\ IsOver => IsOver'
<1>1. RecordInv => Fair
  <2> SUFFICES ASSUME RecordInv, NEW p \in Peers, NEW q \in Peers, Rename(p, q)
               PROVE  /\ \A i \in StillOpen :
                           LET owner == record.rows[i].peer IN
                           \E j \in StillOpen' :
                             record'.rows[j].peer = IF owner = p THEN q ELSE owner
                      /\ IsOver => IsOver'
    OBVIOUS
  <2>1. PICK rows \in Seq(AssigneeRow), status \in Statuses :
          /\ record' = [rows |-> rows, status |-> status, acks |-> record.acks]
          /\ status \in Terminal <=> OpenRows(rows) = {}
          /\ OpenRows(record.rows) = {} => OpenRows(rows) = {}
          /\ \A i \in OpenRows(record.rows) : \E j \in OpenRows(rows) :
               rows[j].peer = IF record.rows[i].peer = p THEN q ELSE record.rows[i].peer
    BY RenameFacts
  <2>2. StillOpen = OpenRows(record.rows) /\ (IsOver <=> StillOpen = {}) BY InvFacts
  <2>3. StillOpen' = OpenRows(rows) /\ record'.rows = rows BY <2>1 DEF StillOpen
  <2>4. IsOver' <=> status \in Terminal BY <2>1 DEF IsOver
  <2> QED BY <2>1, <2>2, <2>3, <2>4
<1> QED BY <1>1, RecordsAreSound, PTL DEF RenameNeitherEndsNorReopens

-----------------------------------------------------------------------------
(* The directory of peers (Directory).                                     *)

\* The directory alone.
DirectorySpec == DirectoryInit /\ [][DirectoryNext]_directory

ProfileRecord ==
  [alias : Aliases \cup {Unset}, card : Cards \cup {Unset}, registeredAt : 0..MaxNow]

\* What a map of profiles is.
IsBook(f) == f \in [DOMAIN f -> ProfileRecord] /\ DOMAIN f \subseteq Ids

\* Together the types and what is seen of the live are inductive.
DirectoryInv == DirectoryTypeOK /\ AnnouncedIsSeen

\* profiles.delete.
LEMMA WithoutFacts ==
  ASSUME NEW f, IsBook(f), NEW gone
  PROVE  /\ IsBook(Without(f, gone)) /\ DOMAIN Without(f, gone) = DOMAIN f \ gone
         /\ \A q \in DOMAIN f \ gone : Without(f, gone)[q] = f[q]
BY DEF IsBook, Without

\* What evictOverflowProfiles drops: none of those it is to keep, only while there are
\* too many, and no profile that is younger than another that it leaves.
LEMMA EvictedFacts ==
  ASSUME NEW f, IsBook(f), NEW kept
  PROVE  /\ IsBook(Evicted(f, kept)) /\ DOMAIN Evicted(f, kept) \subseteq DOMAIN f
         /\ \A p \in DOMAIN Evicted(f, kept) : Evicted(f, kept)[p] = f[p]
         /\ \A p \in DOMAIN f \ DOMAIN Evicted(f, kept) :
              /\ p \notin kept /\ Cardinality(DOMAIN f) > MaxProfiles
              /\ \A q \in DOMAIN Evicted(f, kept) \ kept :
                   f[p].registeredAt <= f[q].registeredAt
<1> DEFINE mayGo    == DOMAIN f \ kept
           over     == Cardinality(DOMAIN f) - MaxProfiles
           Older(p) == {q \in mayGo : f[q].registeredAt < f[p].registeredAt}
           gone     == {p \in mayGo : over > Cardinality(Older(p))}
<1>1. Evicted(f, kept) = Without(f, gone)
  BY DEF Evicted
<1>2. IsFiniteSet(DOMAIN f) /\ Cardinality(DOMAIN f) \in Nat /\ MaxProfiles \in Nat
  BY DirectoryAssumption, FS_Subset, FS_CardinalityType DEF IsBook
<1>3. \A p : IsFiniteSet(Older(p)) /\ Cardinality(Older(p)) \in Nat
  BY <1>2, FS_Subset, FS_CardinalityType
<1>4. \A p \in DOMAIN f : f[p].registeredAt \in Int
  BY DirectoryAssumption DEF IsBook, ProfileRecord
<1>5. ASSUME NEW p \in gone, NEW q \in mayGo \ gone
      PROVE  f[p].registeredAt <= f[q].registeredAt
  <2> SUFFICES ASSUME f[q].registeredAt < f[p].registeredAt PROVE FALSE
    BY <1>4, <1>5
  <2>1. Older(q) \subseteq Older(p)
    BY <1>4, <1>5
  <2>2. Cardinality(Older(q)) <= Cardinality(Older(p))
    BY <1>3, <2>1, FS_Subset
  <2>3. over > Cardinality(Older(p)) /\ ~(over > Cardinality(Older(q)))
    BY <1>5
  <2> HIDE DEF over, Older
  <2>4. over \in Int
    BY <1>2 DEF over
  <2> QED BY <1>3, <2>2, <2>3, <2>4
<1>6. ASSUME NEW p \in gone PROVE Cardinality(DOMAIN f) > MaxProfiles
  <2>1. over > Cardinality(Older(p)) /\ Cardinality(Older(p)) \in Nat
    BY <1>3, <1>6
  <2> HIDE DEF Older
  <2> QED BY <1>2, <2>1
<1>7. gone \subseteq mayGo /\ mayGo = DOMAIN f \ kept
  OBVIOUS
<1> HIDE DEF gone, mayGo
<1>8. /\ IsBook(Evicted(f, kept)) /\ DOMAIN Evicted(f, kept) = DOMAIN f \ gone
      /\ \A q \in DOMAIN f \ gone : Evicted(f, kept)[q] = f[q]
  BY <1>1, WithoutFacts
<1> QED BY <1>5, <1>6, <1>7, <1>8

LEMMA DirectoryStarts == DirectoryInit => DirectoryInv
<1> SUFFICES ASSUME DirectoryInit PROVE DirectoryInv OBVIOUS
<1>1. live = {} /\ parked = {} /\ now = 0 /\ Profiled = {} /\ said = [p \in Ids |-> Unset]
  BY DEF DirectoryInit, Profiled
<1>2. profiles \in [Profiled -> ProfileRecord]
  BY <1>1 DEF DirectoryInit
<1> QED BY <1>1, <1>2, DirectoryAssumption DEF DirectoryInv, DirectoryTypeOK, AnnouncedIsSeen, ProfileRecord

\* A map of profiles that keeps those of the live peers, with their cards, will do.
LEMMA BookKeeps ==
  ASSUME live' \subseteq Ids, parked' \subseteq Ids, live' \cap parked' = {},
         now' \in 0..MaxNow, said' \in [Ids -> Cards \cup {Unset}],
         IsBook(profiles'), live' \subseteq DOMAIN profiles',
         \A p \in live' : said'[p] # Unset => profiles'[p].card = said'[p]
  PROVE  DirectoryInv'
<1>1. AnnouncedIsSeen'
  BY DEF AnnouncedIsSeen, Offered, Profiled
<1> QED BY <1>1 DEF DirectoryInv, DirectoryTypeOK, IsBook, Profiled, ProfileRecord

\* What is known of a directory that is as it should be.
LEMMA DirectoryFacts ==
  ASSUME DirectoryInv
  PROVE  /\ live \subseteq Ids /\ parked \subseteq Ids /\ live \cap parked = {}
         /\ now \in 0..MaxNow /\ said \in [Ids -> Cards \cup {Unset}]
         /\ IsBook(profiles) /\ live \subseteq DOMAIN profiles
         /\ \A p \in live : said[p] # Unset => profiles[p].card = said[p]
BY DEF DirectoryInv, DirectoryTypeOK, AnnouncedIsSeen, IsBook, Profiled, ProfileRecord

\* The profile of a peer is there, or is made of the time.
LEMMA ProfileOfFacts ==
  ASSUME DirectoryInv, NEW p \in Ids, Ticks(p)
  PROVE  ProfileOf(p) \in ProfileRecord /\ now' \in 0..MaxNow
<1>1. MaxNow \in Nat /\ now \in 0..MaxNow /\ IsBook(profiles)
  BY DirectoryAssumption, DirectoryFacts
<1>2. CASE p \in Profiled
  BY <1>1, <1>2 DEF ProfileOf, Ticks, IsBook, Profiled
<1>3. CASE p \notin Profiled
  <2>1. now < MaxNow /\ now' = now + 1 BY <1>3 DEF Ticks
  <2>2. now \in 0..MaxNow /\ now' \in 0..MaxNow BY <1>1, <2>1
  <2> QED BY <1>3, <2>2 DEF ProfileOf, Profile, ProfileRecord
<1> QED BY <1>2, <1>3

\* One profile is set and the map is cut: those of the live keep theirs.
LEMMA SetAndCut ==
  ASSUME DirectoryInv, NEW p \in Ids, NEW profile \in ProfileRecord, NEW kept,
         p \in kept
  PROVE  LET f == Evicted(With(profiles, p, profile), kept)
         IN /\ IsBook(f) /\ p \in DOMAIN f /\ f[p] = profile
            /\ \A q \in (DOMAIN profiles \cap kept) \ {p} : q \in DOMAIN f /\ f[q] = profiles[q]
<1> DEFINE g == With(profiles, p, profile)
<1>0. IsBook(profiles)
  BY DirectoryFacts
<1>1. /\ IsBook(g) /\ DOMAIN g = DOMAIN profiles \cup {p} /\ g[p] = profile
      /\ \A q \in DOMAIN profiles \ {p} : g[q] = profiles[q]
  BY <1>0 DEF IsBook, With
<1> HIDE DEF g
<1>2. /\ IsBook(Evicted(g, kept))
      /\ \A q \in DOMAIN Evicted(g, kept) : Evicted(g, kept)[q] = g[q]
      /\ \A q \in DOMAIN g \cap kept : q \in DOMAIN Evicted(g, kept)
  BY <1>1, EvictedFacts
<1> QED BY <1>1, <1>2 DEF g

LEMMA RegisterKeeps ==
  ASSUME DirectoryInv, NEW p \in Ids, NEW b \in BOOLEAN, Register(p, b)
  PROVE  DirectoryInv'
<1>1. /\ Ticks(p) /\ live' = live \cup {p} /\ parked' = parked \ {p}
      /\ profiles' = Evicted(With(profiles, p, ProfileOf(p)), live')
      /\ said' = [said EXCEPT ![p] = Unset]
  BY DEF Register
<1>2. ProfileOf(p) \in ProfileRecord /\ now' \in 0..MaxNow
  BY <1>1, ProfileOfFacts
<1>3. /\ IsBook(profiles') /\ p \in DOMAIN profiles'
      /\ \A q \in live \ {p} : q \in DOMAIN profiles' /\ profiles'[q] = profiles[q]
  BY <1>1, <1>2, SetAndCut, DirectoryFacts
<1>4. /\ said' \in [Ids -> Cards \cup {Unset}] /\ said'[p] = Unset
      /\ \A q \in Ids \ {p} : said'[q] = said[q]
  BY <1>1, DirectoryFacts
<1>5. live' \subseteq Ids /\ parked' \subseteq Ids /\ live' \cap parked' = {}
  BY <1>1, DirectoryFacts
<1>6. \A q \in live' : said'[q] # Unset => profiles'[q].card = said'[q]
  BY <1>1, <1>3, <1>4, DirectoryFacts
<1> QED BY <1>1, <1>2, <1>3, <1>4, <1>5, <1>6, BookKeeps

LEMMA AnnounceKeeps ==
  ASSUME DirectoryInv, NEW p \in Ids, NEW card \in Cards, Announce(p, card)
  PROVE  DirectoryInv'
<1> DEFINE profile == [ProfileOf(p) EXCEPT !.card = card]
<1>1. /\ p \in live /\ card \in Cards /\ Ticks(p) /\ UNCHANGED <<live, parked>>
      /\ profiles' = Evicted(With(profiles, p, profile), live)
      /\ said' = [said EXCEPT ![p] = card]
  BY DEF Announce
<1>2. ProfileOf(p) \in ProfileRecord /\ now' \in 0..MaxNow
  BY <1>1, ProfileOfFacts
<1>3. profile \in ProfileRecord /\ profile.card = card
  BY <1>1, <1>2 DEF ProfileRecord
<1> HIDE DEF profile
<1>4. /\ IsBook(profiles') /\ p \in DOMAIN profiles' /\ profiles'[p] = profile
      /\ \A q \in live \ {p} : q \in DOMAIN profiles' /\ profiles'[q] = profiles[q]
  BY <1>1, <1>3, SetAndCut, DirectoryFacts
<1>5. /\ said' \in [Ids -> Cards \cup {Unset}] /\ said'[p] = card
      /\ \A q \in Ids \ {p} : said'[q] = said[q]
  BY <1>1, DirectoryFacts
<1>6. \A q \in live' : said'[q] # Unset => profiles'[q].card = said'[q]
  BY <1>1, <1>3, <1>4, <1>5, DirectoryFacts
<1>7. live' \subseteq DOMAIN profiles'
  BY <1>1, <1>4
<1> QED BY <1>1, <1>2, <1>4, <1>5, <1>6, <1>7, DirectoryFacts, BookKeeps

LEMMA SetAliasKeeps ==
  ASSUME DirectoryInv, NEW p \in Ids, NEW alias \in Aliases \cup {Unset}, SetAlias(p, alias)
  PROVE  DirectoryInv' /\ Profiled' = Profiled
<1>1. p \in live /\ p \in Profiled /\ UNCHANGED <<live, parked, now, said>>
  BY DirectoryFacts DEF SetAlias, Profiled
<1>2. profiles' = [profiles EXCEPT ![p].alias = alias]
  BY <1>1 DEF SetAlias
<1>3. DOMAIN profiles' = DOMAIN profiles /\ IsBook(profiles')
      /\ \A q \in DOMAIN profiles : profiles'[q].card = profiles[q].card
  <2>1. profiles \in [DOMAIN profiles -> ProfileRecord] /\ DOMAIN profiles \subseteq Ids
        /\ p \in DOMAIN profiles
    BY <1>1, DirectoryFacts DEF IsBook, Profiled
  <2>2. DOMAIN profiles' = DOMAIN profiles
    BY <1>2
  <2>3. ASSUME NEW q \in DOMAIN profiles
        PROVE  profiles'[q] \in ProfileRecord /\ profiles'[q].card = profiles[q].card
    BY <1>2, <2>1 DEF ProfileRecord
  <2>4. profiles' \in [DOMAIN profiles -> ProfileRecord]
    BY <1>2, <2>1, <2>3
  <2> QED BY <2>1, <2>2, <2>3, <2>4 DEF IsBook
<1> QED BY <1>1, <1>3, DirectoryFacts, BookKeeps DEF Profiled

LEMMA RenamePeerKeeps ==
  ASSUME DirectoryInv, NEW old \in Ids, NEW new \in Ids, renamePeer(old, new)
  PROVE  DirectoryInv' /\ Profiled' = (Profiled \ {old}) \cup {new}
<1>1. /\ old # new /\ old \in live /\ new \notin live /\ UNCHANGED now
      /\ live' = (live \ {old}) \cup {new} /\ parked' = parked \ {old, new}
      /\ profiles' = With(Without(profiles, {old}), new, Merged(old, new))
      /\ said' = [said EXCEPT ![new] = said[old], ![old] = Unset]
  BY DEF renamePeer
<1>2. old \in DOMAIN profiles /\ profiles[old] \in ProfileRecord
      /\ (new \in Profiled => profiles[new] \in ProfileRecord)
  BY <1>1, DirectoryFacts DEF IsBook, Profiled
<1>3. /\ Merged(old, new) \in ProfileRecord
      /\ profiles[old].card # Unset => Merged(old, new).card = profiles[old].card
  <2> DEFINE stale == IF new \in Profiled THEN profiles[new]
                      ELSE Profile(Unset, Unset, profiles[old].registeredAt)
  <2>1. stale \in ProfileRecord
    BY <1>2 DEF Profile, ProfileRecord
  <2> HIDE DEF stale
  <2>2. Merged(old, new) =
          [alias        |-> IF profiles[old].alias # Unset THEN profiles[old].alias ELSE stale.alias,
           card         |-> IF profiles[old].card # Unset THEN profiles[old].card ELSE stale.card,
           registeredAt |-> IF stale.registeredAt < profiles[old].registeredAt
                            THEN stale.registeredAt ELSE profiles[old].registeredAt]
    BY DEF Merged, stale
  <2> QED BY <1>2, <2>1, <2>2 DEF ProfileRecord
<1>4. /\ IsBook(profiles') /\ DOMAIN profiles' = (DOMAIN profiles \ {old}) \cup {new}
      /\ profiles'[new] = Merged(old, new)
      /\ \A q \in DOMAIN profiles \ {old, new} : profiles'[q] = profiles[q]
  <2> DEFINE g == Without(profiles, {old})
  <2>1. /\ IsBook(g) /\ DOMAIN g = DOMAIN profiles \ {old}
        /\ \A q \in DOMAIN profiles \ {old} : g[q] = profiles[q]
    BY WithoutFacts, DirectoryFacts
  <2>2. profiles' = With(g, new, Merged(old, new))
    BY <1>1
  <2> HIDE DEF g
  <2>3. /\ IsBook(With(g, new, Merged(old, new)))
        /\ DOMAIN With(g, new, Merged(old, new)) = DOMAIN g \cup {new}
        /\ With(g, new, Merged(old, new))[new] = Merged(old, new)
        /\ \A q \in DOMAIN g \ {new} : With(g, new, Merged(old, new))[q] = g[q]
    BY <1>3, <2>1 DEF IsBook, With
  <2> QED BY <2>1, <2>2, <2>3
<1>5. /\ said' \in [Ids -> Cards \cup {Unset}] /\ said'[new] = said[old]
      /\ \A q \in Ids \ {old, new} : said'[q] = said[q]
  BY <1>1, DirectoryFacts
<1>6. live' \subseteq Ids /\ parked' \subseteq Ids /\ live' \cap parked' = {}
      /\ live' \subseteq DOMAIN profiles'
  BY <1>1, <1>4, DirectoryFacts
<1>7. \A q \in live' : said'[q] # Unset => profiles'[q].card = said'[q]
  BY <1>1, <1>2, <1>3, <1>4, <1>5, DirectoryFacts
<1>8. DirectoryInv'
  BY <1>1, <1>4, <1>5, <1>6, <1>7, DirectoryFacts, BookKeeps
<1> QED BY <1>4, <1>8 DEF Profiled

\* A peer that leaves, is parked or expires, and a step of others: no profile changes.
LEMMA LeavingKeeps ==
  ASSUME DirectoryInv,
         \/ \E p \in Ids : Expire(p) \/ \E b \in BOOLEAN : Unregister(p, b)
         \/ UNCHANGED directory
  PROVE  DirectoryInv' /\ UNCHANGED profiles
<1>1. UNCHANGED <<profiles, now>>
  BY DEF Expire, Unregister, directory
<1>2. /\ live' \subseteq live /\ parked' \subseteq Ids /\ live' \cap parked' = {}
  BY DirectoryFacts DEF Expire, Unregister, directory
<1>3. /\ said' \in [Ids -> Cards \cup {Unset}]
      /\ \A q \in Ids : said'[q] \in {said[q], Unset}
  BY DirectoryFacts DEF Expire, Unregister, directory
<1> QED BY <1>1, <1>2, <1>3, DirectoryFacts, BookKeeps

\* Every step keeps it.
LEMMA DirectoryStays == DirectoryInv /\ [DirectoryNext]_directory => DirectoryInv'
<1> SUFFICES ASSUME DirectoryInv, [DirectoryNext]_directory PROVE DirectoryInv' OBVIOUS
<1>1. ASSUME NEW p \in Ids, NEW b \in BOOLEAN, Register(p, b) PROVE DirectoryInv'
  BY <1>1, RegisterKeeps
<1>2. ASSUME NEW p \in Ids, NEW c \in Cards, Announce(p, c) PROVE DirectoryInv'
  BY <1>2, AnnounceKeeps
<1>3. ASSUME NEW p \in Ids, NEW a \in Aliases \cup {Unset}, SetAlias(p, a) PROVE DirectoryInv'
  BY <1>3, SetAliasKeeps
<1>4. ASSUME NEW p \in Ids, NEW q \in Ids, renamePeer(p, q) PROVE DirectoryInv'
  BY <1>4, RenamePeerKeeps
<1> QED BY <1>1, <1>2, <1>3, <1>4, LeavingKeeps, Zenon DEF DirectoryNext

\* What a registered peer announced is what others see of it, whatever it renames itself
\* to and however many profiles are evicted (register, announce and renamePeer).
THEOREM CardsAreSeen == DirectorySpec => []AnnouncedIsSeen
<1>1. DirectoryInv => AnnouncedIsSeen BY DEF DirectoryInv
<1> QED BY <1>1, DirectoryStarts, DirectoryStays, PTL DEF DirectorySpec

\* The map was cut when a peer that is live was set in it: who is gone is one of the
\* oldest of those that are not live.
LEMMA CutForgetsOldest ==
  ASSUME DirectoryInv, NEW x \in Ids, NEW profile \in ProfileRecord, NEW kept, x \in kept,
         NEW f, f = Evicted(With(profiles, x, profile), kept),
         NEW p \in DOMAIN profiles \ DOMAIN f
  PROVE  /\ p \notin kept /\ Cardinality(DOMAIN profiles) >= MaxProfiles
         /\ \A q \in (DOMAIN profiles \cap DOMAIN f) \ kept :
              profiles[p].registeredAt <= profiles[q].registeredAt
<1> DEFINE g == With(profiles, x, profile)
<1>0. IsBook(profiles)
  BY DirectoryFacts
<1>1. /\ IsBook(g) /\ DOMAIN g = DOMAIN profiles \cup {x}
      /\ \A q \in DOMAIN profiles \ {x} : g[q] = profiles[q]
  BY <1>0 DEF IsBook, With
<1>2. f = Evicted(g, kept)
  OBVIOUS
<1> HIDE DEF g
<1>3. /\ p \notin kept /\ Cardinality(DOMAIN g) > MaxProfiles
      /\ \A q \in DOMAIN f \ kept : g[p].registeredAt <= g[q].registeredAt
  BY <1>1, <1>2, EvictedFacts
<1>4. Cardinality(DOMAIN profiles) >= MaxProfiles
  <2>1. IsFiniteSet(DOMAIN profiles)
    BY DirectoryAssumption, DirectoryFacts, FS_Subset DEF IsBook
  <2>2. /\ Cardinality(DOMAIN g) \in {Cardinality(DOMAIN profiles), Cardinality(DOMAIN profiles) + 1}
        /\ Cardinality(DOMAIN profiles) \in Nat
    <3> DEFINE D == DOMAIN profiles
    <3>1. DOMAIN g = D \cup {x} /\ IsFiniteSet(D) BY <1>1, <2>1
    <3> HIDE DEF D
    <3>2. Cardinality(D \cup {x}) \in {Cardinality(D), Cardinality(D) + 1}
      BY <3>1, FS_AddElement, Zenon
    <3>3. Cardinality(D) \in Nat
      BY <3>1, FS_CardinalityType
    <3> QED BY <3>1, <3>2, <3>3 DEF D
  <2>3. MaxProfiles \in Nat
    BY DirectoryAssumption
  <2> QED BY <1>3, <2>2, <2>3
<1> QED BY <1>1, <1>3, <1>4

\* A profile goes only in a rename of its peer, or when there are too many, and then it
\* is one of the oldest of the peers that are not live (evictOverflowProfiles).
THEOREM OldestGoFirst == DirectorySpec => OldestAreForgotten
<1> DEFINE Fair ==
      \A p \in Profiled \ Profiled' :
        \/ \E q \in Ids : renamePeer(p, q)
        \/ /\ p \notin live' /\ Cardinality(Profiled) >= MaxProfiles
           /\ \A q \in (Profiled \cap Profiled') \ live' :
                profiles[p].registeredAt <= profiles[q].registeredAt
<1>1. ASSUME DirectoryInv, [DirectoryNext]_directory PROVE Fair
  <2>1. ASSUME NEW x \in Ids, NEW b \in BOOLEAN, Register(x, b) PROVE Fair
    <3>1. /\ Ticks(x) /\ x \in live'
          /\ profiles' = Evicted(With(profiles, x, ProfileOf(x)), live')
      BY <2>1 DEF Register
    <3>2. ProfileOf(x) \in ProfileRecord BY <1>1, <3>1, ProfileOfFacts
    <3> QED BY <1>1, <3>1, <3>2, CutForgetsOldest DEF Profiled
  <2>2. ASSUME NEW x \in Ids, NEW c \in Cards, Announce(x, c) PROVE Fair
    <3> DEFINE profile == [ProfileOf(x) EXCEPT !.card = c]
    <3>1. /\ Ticks(x) /\ x \in live /\ live' = live /\ c \in Cards
          /\ profiles' = Evicted(With(profiles, x, profile), live)
      BY <2>2 DEF Announce
    <3>2. ProfileOf(x) \in ProfileRecord BY <1>1, <3>1, ProfileOfFacts
    <3>3. profile \in ProfileRecord BY <3>1, <3>2 DEF ProfileRecord
    <3> HIDE DEF profile
    <3> QED BY <1>1, <3>1, <3>3, CutForgetsOldest DEF Profiled
  <2>3. ASSUME NEW x \in Ids, NEW a \in Aliases \cup {Unset}, SetAlias(x, a) PROVE Fair
    BY <1>1, <2>3, SetAliasKeeps
  <2>4. ASSUME NEW x \in Ids, NEW q \in Ids, renamePeer(x, q) PROVE Fair
    BY <1>1, <2>4, RenamePeerKeeps
  <2>5. ASSUME \/ \E p \in Ids : Expire(p) \/ \E b \in BOOLEAN : Unregister(p, b)
               \/ UNCHANGED directory
        PROVE  Fair
    BY <1>1, <2>5, LeavingKeeps DEF Profiled
  <2> HIDE DEF Fair
  <2> QED BY <1>1, <2>1, <2>2, <2>3, <2>4, <2>5, Zenon DEF DirectoryNext
<1> QED BY <1>1, DirectoryStarts, DirectoryStays, PTL DEF DirectorySpec, OldestAreForgotten

-----------------------------------------------------------------------------
(* The five together.                                                      *)

\* What each part keeps, the others leave alone: the five invariants hold in
\* every state of the hub's books.
THEOREM BooksAreSound ==
  Spec => [](TerminalInv /\ RecordInv /\ TokensInv /\ SetupInv /\ DirectoryInv)
<1> DEFINE Kept == TerminalInv /\ RecordInv /\ TokensInv /\ SetupInv /\ DirectoryInv
<1>1. Init => Kept
  BY TerminalStarts, RecordStarts, TokensStart, SetupStarts, DirectoryStarts DEF Init
<1>2. Kept /\ [Next]_<<part, terminals, records, tokens, setup, directory>> => Kept'
  <2> SUFFICES ASSUME Kept, [Next]_<<part, terminals, records, tokens, setup, directory>>
               PROVE  Kept'
    OBVIOUS
  <2>1. /\ [TerminalNext]_terminals /\ [RecordNext]_records
        /\ [TokensNext]_tokens /\ [SetupNext]_setup /\ [DirectoryNext]_directory
    BY DEF Next
  <2> QED BY <2>1, TerminalStepSound, RecordStepSound, TokensStep, SetupSteps, DirectoryStays
<1> QED BY <1>1, <1>2, PTL DEF Spec

\* The terminals, the record, the token table, the configs and the directory keep their
\* types.
THEOREM BooksTypeOK == Spec => []TypeOK
<1>1. TerminalInv /\ RecordInv /\ TokensInv /\ SetupInv /\ DirectoryInv => TypeOK
  BY TerminalTypes, RecordTypes, TokensTypes, SetupTypes DEF DirectoryInv, TypeOK
<1> QED BY <1>1, BooksAreSound, PTL

=============================================================================
