-------------------------- MODULE SheetFilesProofs --------------------------
(* What readers of a sheet's files can rely on, for every template, filter    *)
(* and set of indexes, after any steps of any clients; then, of the core's own *)
(* upserts and deletes, that they are such steps, and that what they store     *)
(* reads as what was handed in.                                                *)
EXTENDS SheetFiles, Upserts, PruningProofs

-----------------------------------------------------------------------------
(* What is listed                                                           *)

LEMMA IsSequenceIsSeq == ASSUME NEW s, IsSequence(s) PROVE IsSeq(s)
BY Zenon DEF IsSequence, IsSeq

LEMMA PathsMakeTree ==
  ASSUME NEW fs, \A f \in DOMAIN fs : IsPath(f)
  PROVE  Tree(fs)
<1> SUFFICES ASSUME NEW f \in DOMAIN fs
             PROVE  /\ IsSeq(f) /\ f # <<>>
                    /\ \A i \in 1 .. Len(f) - 1 : f[i] = <<f[i][1], "">>
                    /\ f[Len(f)] = <<f[Len(f)][1], f[Len(f)][2]>>
  BY Zenon DEF Tree
<1>1. /\ f \in Seq(Range(f)) /\ f # <<>>
      /\ \A i \in DOMAIN f : f[i] = <<f[i][1], f[i][2]>> /\ (i < Len(f) => f[i][2] = "")
  BY Zenon DEF IsPath, IsSequence
<1>2. Len(f) \in Nat \ {0} /\ DOMAIN f = 1 .. Len(f)
  BY <1>1, LenProperties, EmptySeq
<1>3. IsSeq(f)
  BY <1>1, Zenon DEF IsSeq
<1>4. ASSUME NEW i \in 1 .. Len(f) - 1 PROVE f[i] = <<f[i][1], "">>
  <2>1. i \in DOMAIN f /\ i < Len(f)
    BY <1>2
  <2>2. f[i] = <<f[i][1], f[i][2]>> /\ f[i][2] = ""
    BY <1>1, <2>1, Zenon
  <2> QED BY <2>2, Zenon
<1>5. f[Len(f)] = <<f[Len(f)][1], f[Len(f)][2]>>
  <2>1. Len(f) \in DOMAIN f
    BY <1>2
  <2> QED BY <1>1, <2>1, Zenon
<1> QED BY <1>1, <1>3, <1>4, <1>5, Zenon

\* A record is listed if it has a file, and its text is that file's.
LEMMA TextsAre ==
  ASSUME NEW fs, Tree(fs), NEW ext
  PROVE  /\ \A f \in DOMAIN fs : IsRecordFile(f, ext) =>
               /\ StemsOf(f) \in DOMAIN RecordTexts(fs, ext) /\ FileOf(StemsOf(f), ext) = f
         /\ \A r \in DOMAIN RecordTexts(fs, ext) :
               /\ RecordTexts(fs, ext)[r] = fs[FileOf(r, ext)]
               /\ FileOf(r, ext) \in DOMAIN fs /\ IsRecordFile(FileOf(r, ext), ext)
               /\ r = StemsOf(FileOf(r, ext))
<1> DEFINE D == {StemsOf(f) : f \in {g \in DOMAIN fs : IsRecordFile(g, ext)}}
<1>1. RecordTexts(fs, ext) = [r \in D |-> fs[FileOf(r, ext)]]
  BY Zenon DEF RecordTexts
<1>2. ASSUME NEW r \in D
      PROVE  /\ FileOf(r, ext) \in DOMAIN fs /\ IsRecordFile(FileOf(r, ext), ext)
             /\ r = StemsOf(FileOf(r, ext))
  <2>1. PICK f \in DOMAIN fs : IsRecordFile(f, ext) /\ r = StemsOf(f)
    OBVIOUS
  <2>2. FileOf(r, ext) = f
    BY <2>1, StemsAreOfAFile
  <2> QED BY <2>1, <2>2
<1>3. ASSUME NEW f \in DOMAIN fs, IsRecordFile(f, ext)
      PROVE  StemsOf(f) \in D /\ FileOf(StemsOf(f), ext) = f
  BY <1>3, StemsAreOfAFile
<1> HIDE DEF D
<1>4. DOMAIN RecordTexts(fs, ext) = D /\ \A r \in D : RecordTexts(fs, ext)[r] = fs[FileOf(r, ext)]
  BY <1>1
<1> QED BY <1>2, <1>3, <1>4

-----------------------------------------------------------------------------
(* Indexes                                                                  *)

LEMMA WholeIs ==
  ASSUME NEW tag, NEW f, ~Failed(Whole(tag, f))
  PROVE  Whole(tag, f) = <<tag, f>> /\ \A k \in DOMAIN f : ~Failed(f[k])
<1>1. CASE \E k \in DOMAIN f : Failed(f[k])
  <2> DEFINE c == CHOOSE k \in DOMAIN f : Failed(f[k])
  <2>1. Failed(f[c])
    BY <1>1, Zenon
  <2>2. Whole(tag, f) = f[c]
    BY <1>1, Zenon DEF Whole
  <2> QED BY <2>1, <2>2, Zenon
<1>2. CASE ~\E k \in DOMAIN f : Failed(f[k])
  BY <1>2, Zenon DEF Whole
<1> QED BY <1>1, <1>2

\* The records of a sheet in TOML, as ListAll reads them
RecordsOf(fs, ext) ==
  [r \in DOMAIN RecordTexts(fs, ext) |-> ParseToml(RecordTexts(fs, ext)[r])]

\* The indexes are built, all of them, if none of them fails.
LEMMA BuiltIs ==
  ASSUME NEW sh, sh.format.kind = "toml", NEW fs, NEW defs, IsSequence(defs),
         ~Failed(EnsureIndexesBuilt(sh, fs, defs))
  PROVE  LET records == RecordsOf(fs, ExtensionOf(sh.format))
         IN  \A i \in DOMAIN defs :
                /\ ~Failed(BuildIndex(defs[i], records))
                /\ EnsureIndexesBuilt(sh, fs, defs)[2][i] = BuildIndex(defs[i], records)
<1> DEFINE ext == ExtensionOf(sh.format)
           records == RecordsOf(fs, ext)
           all == ListAll(sh, fs, FALSE)
           items == [i \in DOMAIN defs |-> BuildIndex(defs[i], all[2])]
           built == EnsureIndexesBuilt(sh, fs, defs)
           n == Len(defs)
<1>1. all = Whole("records", records)
  <2>1. \A text : ParseWith(text, sh.format, FALSE) = ParseToml(text)
    BY DEF ParseWith
  <2>2. all = Whole("records", [r \in DOMAIN RecordTexts(fs, ext) |->
                                   ParseWith(RecordTexts(fs, ext)[r], sh.format, FALSE)])
    BY Zenon DEF ListAll
  <2>3. records = [r \in DOMAIN RecordTexts(fs, ext) |->
                      ParseWith(RecordTexts(fs, ext)[r], sh.format, FALSE)]
    BY <2>1, Zenon DEF RecordsOf
  <2> QED BY <2>2, <2>3, Zenon
<1>2. built = IF Failed(all) THEN all ELSE Batch(items)
  BY Zenon DEF EnsureIndexesBuilt, Then
<1> HIDE DEF records, all, built
<1>3. ~Failed(all) /\ built = Batch(items)
  BY <1>2, Zenon DEF built
<1>4. all[2] = records
  BY <1>1, <1>3, WholeIs
<1>5. n \in Nat /\ DOMAIN defs = 1 .. n
  BY LenProperties, Zenon DEF IsSequence
<1> DEFINE U == {items[i] : i \in 1 .. n}
<1>6. items \in Seq(U) /\ Len(items) = n
  <2>1. DOMAIN items = 1 .. n /\ items = [i \in DOMAIN items |-> items[i]]
    BY <1>5
  <2>2. \A i \in 1 .. n : items[i] \in U
    OBVIOUS
  <2> HIDE DEF items, U
  <2> QED BY <1>5, <2>1, <2>2, MakesSequence
<1>7. \A i \in DOMAIN defs : items[i] = BuildIndex(defs[i], records)
  BY <1>4
<1> HIDE DEF items, U
<1>8. (\A i \in 1 .. n : ~Failed(items[i])) /\ Batch(items) = <<"batch", items>>
  <2>1. ~Failed(Batch(items))
    BY <1>3 DEF built
  <2> QED BY <1>6, <2>1, BatchIs
<1>9. built[2] = items
  BY <1>3, <1>8
<1> QED BY <1>5, <1>7, <1>8, <1>9 DEF built, records

\* Under a key an index has the records with that key.
LEMMA MultiIs ==
  ASSUME NEW def, NEW records, NEW key, key # Absent
  PROVE  /\ key \in DOMAIN BuildMulti(def, records)
              <=> \E r \in DOMAIN records : KeyFor(def, records[r]) = key
         /\ key \in DOMAIN BuildMulti(def, records) =>
              BuildMulti(def, records)[key] = {r \in DOMAIN records : KeyFor(def, records[r]) = key}
<1> DEFINE keyed == Keyed(def, records)
           D == {KeyFor(def, records[r]) : r \in keyed}
           having(k) == {r \in keyed : KeyFor(def, records[r]) = k}
<1>1. BuildMulti(def, records) = [k \in D |-> having(k)]
  BY Zenon DEF BuildMulti
<1>2. key \in D <=> \E r \in DOMAIN records : KeyFor(def, records[r]) = key
  BY DEF Keyed
<1>3. having(key) = {r \in DOMAIN records : KeyFor(def, records[r]) = key}
  BY DEF Keyed
<1> HIDE DEF D, having
<1>4. DOMAIN BuildMulti(def, records) = D /\ \A k \in D : BuildMulti(def, records)[k] = having(k)
  BY <1>1
<1> QED BY <1>2, <1>3, <1>4

LEMMA UniqueIs ==
  ASSUME NEW def, NEW records, NEW key, key # Absent, ~Failed(BuildUnique(def, records))
  PROVE  LET index == BuildUnique(def, records)[2]
         IN  /\ key \in DOMAIN index <=> \E r \in DOMAIN records : KeyFor(def, records[r]) = key
             /\ key \in DOMAIN index =>
                  {index[key]} = {r \in DOMAIN records : KeyFor(def, records[r]) = key}
<1> DEFINE multi == BuildMulti(def, records)
           index == [k \in DOMAIN multi |-> CHOOSE r \in multi[k] : TRUE]
           having == {r \in DOMAIN records : KeyFor(def, records[r]) = key}
<1>1. /\ \A k \in DOMAIN multi : \A r, s \in multi[k] : r = s
      /\ BuildUnique(def, records) = <<"index", index>>
  <2>1. Failed(Error("index_unique_conflict"))
    BY DEF Failed, Error
  <2> QED BY <2>1, Zenon DEF BuildUnique
<1>2. /\ key \in DOMAIN multi <=> \E r \in DOMAIN records : KeyFor(def, records[r]) = key
      /\ key \in DOMAIN multi => multi[key] = having
  BY MultiIs
<1>3. BuildUnique(def, records)[2] = index
  BY <1>1
<1>4. DOMAIN index = DOMAIN multi
  OBVIOUS
<1>5. ASSUME key \in DOMAIN multi PROVE {index[key]} = having
  <2>1. index[key] = CHOOSE r \in multi[key] : TRUE
    BY <1>5
  <2>2. having # {} /\ multi[key] = having
    BY <1>2, <1>5
  <2>3. index[key] \in having
    BY <2>1, <2>2
  <2>4. \A r, s \in having : r = s
    BY <1>1, <1>5, <2>2, Zenon
  <2> HIDE DEF having, index
  <2> QED BY <2>3, <2>4
<1> HIDE DEF index, multi
<1> QED BY <1>2, <1>3, <1>4, <1>5

\* A key that the check lets pass is no other record's: in the indexes that it
\* builds, the one of a name's last definition has the keys of all records.
LEMMA FreeKey ==
  ASSUME NEW defs, AreIndexes(defs), NEW j \in DOMAIN defs,
         defs[j].unique, IndexNamed(defs, defs[j].unique, defs[j].name) = j,
         NEW sh, sh.format.kind = "toml", NEW fs, NEW record, NEW path,
         ~Failed(CheckUniqueConflicts(sh, fs, defs, record, path)),
         KeyFor(defs[j], record) # Absent,
         NEW r \in DOMAIN RecordTexts(fs, ExtensionOf(sh.format)),
         KeyFor(defs[j], ParseToml(RecordTexts(fs, ExtensionOf(sh.format))[r])) = KeyFor(defs[j], record)
  PROVE  r = path
<1> DEFINE def == defs[j]
           key == KeyFor(def, record)
           records == RecordsOf(fs, ExtensionOf(sh.format))
           built == EnsureIndexesBuilt(sh, fs, defs)
           taken(index, k) == k # Absent /\ k \in DOMAIN index /\ index[k] # path
           conflict == \E i \in DOMAIN defs :
                          /\ defs[i].unique
                          /\ taken(built[2][IndexNamed(defs, TRUE, defs[i].name)][2], KeyFor(defs[i], record))
<1>1. defs \in Seq(Range(defs)) /\ DOMAIN defs = 1 .. Len(defs) /\ IsSequence(defs)
  BY LenProperties, Zenon DEF AreIndexes, IsSequence
<1>2. def \in Range(defs) /\ def.unique = TRUE
  <2>1. def \in Range(defs)
    BY <1>1, RangeEquality
  <2> QED BY <2>1, Zenon DEF AreIndexes
<1>3. IndexNamed(defs, TRUE, def.name) = j
  BY <1>2, Zenon
<1>4. CheckUniqueConflicts(sh, fs, defs, record, path) =
        IF Failed(built) THEN built ELSE IF conflict THEN Error("index_unique_conflict") ELSE <<"free">>
  <2>1. \E d \in Range(defs) : d.unique
    BY <1>2, Zenon
  <2> QED BY <2>1, Zenon DEF CheckUniqueConflicts, Then
<1>5. Failed(Error("index_unique_conflict"))
  BY DEF Failed, Error
<1> HIDE DEF conflict, built
<1>6. ~Failed(built) /\ ~conflict
  BY <1>4, <1>5, Zenon
<1>7. ~Failed(BuildIndex(def, records)) /\ built[2][j] = BuildIndex(def, records)
  BY <1>1, <1>6, BuiltIs, Zenon DEF built
<1>8. BuildIndex(def, records) = BuildUnique(def, records)
  BY <1>2, Zenon DEF BuildIndex
<1> DEFINE index == built[2][j][2]
<1>9. ~taken(index, key)
  <2> HIDE DEF taken, index
  <2>1. ~taken(built[2][IndexNamed(defs, TRUE, defs[j].name)][2], KeyFor(defs[j], record))
    BY <1>6, Zenon DEF conflict
  <2> QED BY <1>3, <2>1, Zenon DEF index
<1>10. r \in DOMAIN records /\ KeyFor(def, records[r]) = key
  BY DEF RecordsOf
<1>11. key \in DOMAIN index /\ {index[key]} = {q \in DOMAIN records : KeyFor(def, records[q]) = key}
  <2> HIDE DEF key, records, def
  <2>1. index = BuildUnique(def, records)[2] /\ ~Failed(BuildUnique(def, records)) /\ key # Absent
    BY <1>7, <1>8 DEF key, def
  <2>2. /\ key \in DOMAIN BuildUnique(def, records)[2]
        /\ {BuildUnique(def, records)[2][key]} = {q \in DOMAIN records : KeyFor(def, records[q]) = key}
    BY <1>10, <2>1, UniqueIs
  <2> HIDE DEF index
  <2> QED BY <2>1, <2>2
<1> HIDE DEF key, records, index, def
<1>12. r = index[key]
  BY <1>10, <1>11
<1> QED BY <1>9, <1>11, <1>12 DEF key, def

-----------------------------------------------------------------------------
(* What holds all along                                                     *)

TypeOK ==
  /\ IsOpened(source, opened)
  /\ DOMAIN author = DOMAIN files
  /\ \A f \in DOMAIN files : IsPath(f)

\* A record that a client vouches for can be read and lies where it belongs.
Placed(f) ==
  /\ f = FileOf(StemsOf(f), Ext)
  /\ IsRecord(ParseToml(files[f]))
  /\ Render(Sheet.template, ParseToml(files[f])) = <<"path", StemsOf(f)>>

AllPlaced == IsToml => \A f \in DOMAIN files : author[f] \in Clients => Placed(f)

KeyAt(def, f) == KeyFor(def, ParseToml(files[f]))

KeysApart ==
  IsToml => \A def \in Current : def.unique =>
    \A f, g \in DOMAIN files :
       author[f] = "rust" /\ author[g] = "rust" /\ KeyAt(def, f) # Absent /\ KeyAt(def, f) = KeyAt(def, g)
          => f = g

InOrder == TypeOK /\ AllPlaced

Inv == InOrder /\ KeysApart

LEMMA InitInv == Init => Inv
<1> SUFFICES ASSUME Init PROVE Inv
  OBVIOUS
<1>1. DOMAIN files = {} /\ DOMAIN author = {}
  BY DEF Init
<1> QED BY <1>1 DEF Init, Inv, InOrder, TypeOK, AllPlaced, KeysApart

LEMMA PathIsRecordFile ==
  ASSUME NEW f, IsPath(f), NEW ext, f = FileOf(StemsOf(f), ext)
  PROVE  IsRecordFile(f, ext)
<1>1. IsSeq(f) /\ f # <<>>
  BY Zenon DEF IsPath, IsSequence, IsSeq
<1>2. IsSeq(StemsOf(f)) /\ Len(StemsOf(f)) # 0
  BY <1>1, StemsAreSeq
<1>3. IsRecordFile(FileOf(StemsOf(f), ext), ext)
  BY <1>2, FileIs
<1> QED BY <1>3, Zenon

\* A file that is kept keeps what holds of it.
LEMMA KeptIsPlaced ==
  ASSUME opened' = opened, NEW f, Kept(f), Placed(f)
  PROVE  Placed(f)'
BY Zenon DEF Kept, Placed, Ext, Sheet

LEMMA TypeStep == TypeOK /\ [Next]_vars => TypeOK'
<1> SUFFICES ASSUME TypeOK, [Next]_vars PROVE TypeOK'
  OBVIOUS
<1> USE DEF TypeOK
<1>1. ASSUME DOMAIN author' = DOMAIN files', NEW who \in Clients, NEW f \in DOMAIN files', Write(who, f)
      PROVE  TypeOK'
  <2>1. /\ source' = source /\ opened' = opened
        /\ IsPath(f) /\ \A g \in DOMAIN files' \ {f} : g \in DOMAIN files
    BY <1>1, Zenon DEF Write, Kept
  <2>2. \A g \in DOMAIN files' : IsPath(g)
    BY <2>1
  <2> QED BY <1>1, <2>1, <2>2, Zenon
<1>2. CASE DOMAIN author' = DOMAIN files' /\ Delete
  BY <1>2, Zenon DEF Delete, Kept
<1>3. CASE DOMAIN author' = DOMAIN files' /\ WritePast
  BY <1>3, Zenon DEF WritePast, Kept
<1>4. CASE DOMAIN author' = DOMAIN files' /\ Redefine
  BY <1>4, Zenon DEF Redefine
<1>5. CASE UNCHANGED vars
  BY <1>5, Zenon DEF vars
<1> QED BY <1>1, <1>2, <1>3, <1>4, <1>5, Zenon DEF Next

LEMMA PlacedStep == TypeOK /\ AllPlaced /\ [Next]_vars => AllPlaced'
<1> SUFFICES ASSUME TypeOK, AllPlaced, [Next]_vars, IsToml', NEW f \in DOMAIN files', author'[f] \in Clients
             PROVE  Placed(f)'
  BY DEF AllPlaced
<1>0. ASSUME opened' = opened, Kept(f) PROVE Placed(f)'
  <2>1. IsToml /\ f \in DOMAIN files /\ author[f] \in Clients
    BY <1>0, Zenon DEF Kept, IsToml, Sheet
  <2> QED BY <1>0, <2>1, KeptIsPlaced, Zenon DEF AllPlaced
<1>1. ASSUME NEW who \in Clients, NEW g \in DOMAIN files', Write(who, g)
      PROVE  Placed(f)'
  <2>1. opened' = opened
    BY <1>1, Zenon DEF Write
  <2>2. CASE f = g
    <3>1. IsToml
      BY <2>1, Zenon DEF IsToml, Sheet
    <3>2. /\ f = FileOf(StemsOf(f), Ext)
          /\ IsRecord(ParseToml(files'[f]))
          /\ Render(Sheet.template, ParseToml(files'[f])) = <<"path", StemsOf(f)>>
      BY <1>1, <2>2, <3>1, Zenon DEF Write
    <3> QED BY <2>1, <3>2, Zenon DEF Placed, Ext, Sheet
  <2>3. CASE f # g
    <3>1. Kept(f)
      BY <1>1, <2>3 DEF Write
    <3> QED BY <1>0, <2>1, <3>1
  <2> QED BY <2>2, <2>3
<1>2. CASE Delete
  BY <1>0, <1>2, Zenon DEF Delete
<1>3. CASE WritePast
  <2>1. "raw" \notin Clients
    BY DEF Clients
  <2>2. Kept(f) /\ opened' = opened
    BY <1>3, <2>1, Zenon DEF WritePast
  <2> QED BY <1>0, <2>2
<1>4. CASE Redefine
  BY <1>4, Zenon DEF Redefine
<1>5. CASE UNCHANGED vars
  <2>1. opened' = opened /\ files' = files /\ author' = author
    BY <1>5, Zenon DEF vars
  <2> QED BY <1>0, <2>1, Zenon DEF Kept
<1> QED BY <1>1, <1>2, <1>3, <1>4, <1>5, Zenon DEF Next

\* The one step that needs the check: a client of the core's writes a key.
LEMMA WrittenKeyIsFree ==
  ASSUME AreIndexes(Indexes), TypeOK, AllPlaced, IsToml,
         NEW f \in DOMAIN files', Write("rust", f),
         NEW def \in Current, def.unique,
         NEW g \in DOMAIN files, author[g] = "rust",
         KeyFor(def, ParseToml(files'[f])) # Absent,
         KeyAt(def, g) = KeyFor(def, ParseToml(files'[f]))
  PROVE  g = f
<1> DEFINE path == StemsOf(f)
<1>1. /\ f = FileOf(path, Ext)
      /\ ~Failed(CheckUniqueConflicts(Sheet, files, Indexes, ParseToml(files'[f]), path))
  BY Zenon DEF Write
<1>2. Placed(g) /\ Tree(files)
  <2>1. "rust" \in Clients
    BY DEF Clients
  <2> QED BY <2>1, PathsMakeTree, Zenon DEF AllPlaced, TypeOK
<1>3. StemsOf(g) \in DOMAIN RecordTexts(files, Ext) /\ RecordTexts(files, Ext)[StemsOf(g)] = files[g]
  <2>1. g = FileOf(StemsOf(g), Ext) /\ IsPath(g)
    BY <1>2, Zenon DEF Placed, TypeOK
  <2>2. IsRecordFile(g, Ext)
    BY <2>1, PathIsRecordFile, Zenon
  <2>3. StemsOf(g) \in DOMAIN RecordTexts(files, Ext)
    BY <1>2, <2>2, TextsAre
  <2>4. RecordTexts(files, Ext)[StemsOf(g)] = files[FileOf(StemsOf(g), Ext)]
    BY <1>2, <2>3, TextsAre
  <2> QED BY <2>1, <2>3, <2>4, Zenon
<1>4. PICK j \in DOMAIN Indexes : def = Indexes[j] /\ IndexNamed(Indexes, Indexes[j].unique, Indexes[j].name) = j
  BY Zenon DEF Current
<1>5. Sheet.format.kind = "toml"
  BY Zenon DEF IsToml, Sheet
<1>6. KeyFor(Indexes[j], ParseToml(RecordTexts(files, Ext)[StemsOf(g)])) = KeyFor(Indexes[j], ParseToml(files'[f]))
  BY <1>3, <1>4, Zenon DEF KeyAt
<1> DEFINE record == ParseToml(files'[f])
<1> HIDE DEF path, record
<1>7. StemsOf(g) = path
  <2>1. ~Failed(CheckUniqueConflicts(Sheet, files, Indexes, record, path))
    BY <1>1 DEF record
  <2>2. StemsOf(g) \in DOMAIN RecordTexts(files, ExtensionOf(Sheet.format))
    BY <1>3 DEF Ext
  <2>3. /\ KeyFor(Indexes[j], record) # Absent
        /\ KeyFor(Indexes[j], ParseToml(RecordTexts(files, ExtensionOf(Sheet.format))[StemsOf(g)])) = KeyFor(Indexes[j], record)
    BY <1>4, <1>6, Zenon DEF Ext, record
  <2>4. Indexes[j].unique /\ IndexNamed(Indexes, Indexes[j].unique, Indexes[j].name) = j
    BY <1>4, Zenon
  <2> QED BY <1>5, <2>1, <2>2, <2>3, <2>4, FreeKey
<1> QED BY <1>1, <1>2, <1>7, Zenon DEF Placed

LEMMA KeysStep ==
  ASSUME AreIndexes(Indexes), TypeOK, AllPlaced, KeysApart, [Next]_vars
  PROVE  KeysApart'
<1> SUFFICES ASSUME IsToml', NEW def \in Current, def.unique,
                    NEW f \in DOMAIN files', NEW g \in DOMAIN files',
                    author'[f] = "rust", author'[g] = "rust",
                    KeyAt(def, f)' # Absent, KeyAt(def, f)' = KeyAt(def, g)'
             PROVE  f = g
  BY DEF KeysApart, Current
<1>0. ASSUME opened' = opened, Kept(f), Kept(g) PROVE f = g
  <2>1. IsToml
    BY <1>0, Zenon DEF IsToml, Sheet
  <2>2. /\ f \in DOMAIN files /\ author[f] = "rust" /\ KeyAt(def, f)' = KeyAt(def, f)
        /\ g \in DOMAIN files /\ author[g] = "rust" /\ KeyAt(def, g)' = KeyAt(def, g)
    BY <1>0, Zenon DEF Kept, KeyAt
  <2>3. KeyAt(def, f) # Absent /\ KeyAt(def, f) = KeyAt(def, g)
    BY <2>2, Zenon
  <2> HIDE DEF KeyAt
  <2> QED BY <2>1, <2>2, <2>3, Zenon DEF KeysApart
<1>1. ASSUME NEW who \in Clients, NEW h \in DOMAIN files', Write(who, h)
      PROVE  f = g
  <2>1. opened' = opened /\ IsToml
    BY <1>1, Zenon DEF Write, IsToml, Sheet
  <2>2. author'[h] = who /\ \A k \in DOMAIN files' : k # h => Kept(k)
    BY <1>1 DEF Write
  <2>3. ASSUME NEW k \in DOMAIN files', k # h, author'[k] = "rust", author'[h] = "rust",
               KeyAt(def, k)' = KeyAt(def, h)', KeyAt(def, h)' # Absent
        PROVE  FALSE
    <3>1. k \in DOMAIN files /\ author[k] = "rust" /\ files'[k] = files[k]
      BY <2>2, <2>3, Zenon DEF Kept
    <3>2. Write("rust", h)
      BY <1>1, <2>2, <2>3, Zenon
    <3>3. KeyFor(def, ParseToml(files'[h])) # Absent /\ KeyAt(def, k) = KeyFor(def, ParseToml(files'[h]))
      BY <2>3, <3>1, Zenon DEF KeyAt
    <3>4. k = h
      BY <2>1, <3>1, <3>2, <3>3, WrittenKeyIsFree
    <3> QED BY <2>3, <3>4
  <2>4. CASE f # h /\ g # h
    BY <1>0, <2>1, <2>2, <2>4
  <2>5. CASE f = h /\ g # h
    BY <2>3, <2>5, Zenon
  <2>6. CASE f # h /\ g = h
    BY <2>3, <2>6, Zenon
  <2> QED BY <2>4, <2>5, <2>6
<1>2. CASE Delete
  BY <1>0, <1>2, Zenon DEF Delete
<1>3. CASE WritePast
  <2>1. "raw" # "rust"
    OBVIOUS
  <2>2. Kept(f) /\ Kept(g) /\ opened' = opened
    BY <1>3, <2>1, Zenon DEF WritePast
  <2> QED BY <1>0, <2>2
<1>4. CASE Redefine
  <2>1. "rust" \in Clients
    BY DEF Clients
  <2> QED BY <1>4, <2>1, Zenon DEF Redefine
<1>5. CASE UNCHANGED vars
  <2>1. opened' = opened /\ files' = files /\ author' = author
    BY <1>5, Zenon DEF vars
  <2> QED BY <1>0, <2>1, Zenon DEF Kept
<1> QED BY <1>1, <1>2, <1>3, <1>4, <1>5, Zenon DEF Next

\* What clients write keeps the files in order, whatever others write past the
\* sheet and however it is redefined: each record that a client vouches for can be
\* read, and lies where the template puts what is read. (prepare_upsert.)
THEOREM RecordsStayInPlace == Spec => []InOrder
<1>1. Init => InOrder
  BY InitInv DEF Inv
<1>2. InOrder /\ [Next]_vars => InOrder'
  BY TypeStep, PlacedStep DEF InOrder
<1> QED BY <1>1, <1>2, PTL DEF Spec

\* Of these records no two that clients of the core wrote share the key of a
\* unique index. (check_unique_conflicts before the candidate is staged.)
THEOREM KeysStayApart ==
  ASSUME AreIndexes(Indexes)
  PROVE  Spec => []Inv
<1>1. Init => Inv
  BY InitInv
<1>2. Inv /\ [Next]_vars => Inv'
  BY TypeStep, PlacedStep, KeysStep DEF Inv, InOrder
<1> QED BY <1>1, <1>2, PTL DEF Spec

-----------------------------------------------------------------------------
(* Keys and lookups                                                         *)

LEMMA ListedIs ==
  ASSUME TypeOK, IsToml, NEW r \in Listed
  PROVE  /\ FileOf(r, Ext) \in DOMAIN files /\ r = StemsOf(FileOf(r, Ext))
         /\ Stored(r) = ParseToml(files[FileOf(r, Ext)])
         /\ Author(r) = author[FileOf(r, Ext)]
         /\ RecordsOf(files, Ext)[r] = Stored(r)
<1>1. Tree(files)
  BY PathsMakeTree, Zenon DEF TypeOK
<1>2. r \in DOMAIN RecordTexts(files, Ext)
  BY Zenon DEF Listed
<1>3. FileOf(r, Ext) \in DOMAIN files /\ r = StemsOf(FileOf(r, Ext))
  BY <1>1, <1>2, TextsAre
<1>4. RecordTexts(files, Ext)[r] = files[FileOf(r, Ext)]
  BY <1>1, <1>2, TextsAre
<1>5. \A text : Parse(text, Sheet.format) = ParseToml(text)
  BY DEF Parse, ParseWith, IsToml, Sheet
<1>6. Stored(r) = ParseToml(files[FileOf(r, Ext)])
  BY <1>5, Zenon DEF Stored, FileAt, Ext
<1>7. Author(r) = author[FileOf(r, Ext)]
  BY Zenon DEF Author, FileAt, Ext
<1>8. RecordsOf(files, Ext)[r] = Stored(r)
  BY <1>2, <1>4, <1>6 DEF RecordsOf
<1> QED BY <1>3, <1>6, <1>7, <1>8, Zenon

LEMMA LookupIs ==
  ASSUME AreIndexes(Indexes), TypeOK, IsToml, NEW def \in Current,
         NEW key, key # Absent, NEW r \in Listed, KeyFor(def, Stored(r)) = key,
         ~Failed(FindByIndex(Sheet, files, Indexes, def.unique, def.name, key))
  PROVE  FindByIndex(Sheet, files, Indexes, def.unique, def.name, key) = <<"paths", Having(def, key)>>
<1> DEFINE found == FindByIndex(Sheet, files, Indexes, def.unique, def.name, key)
           built == EnsureIndexesBuilt(Sheet, files, Indexes)
           records == RecordsOf(files, Ext)
           having == {q \in DOMAIN records : KeyFor(def, records[q]) = key}
           paths(index) == IF key \notin DOMAIN index THEN {}
                           ELSE IF def.unique THEN {index[key]} ELSE index[key]
<1>1. PICK j \in DOMAIN Indexes : def = Indexes[j] /\ IndexNamed(Indexes, def.unique, def.name) = j
  BY Zenon DEF Current
<1>2. Indexes \in Seq(Range(Indexes)) /\ DOMAIN Indexes = 1 .. Len(Indexes) /\ IsSequence(Indexes)
  BY LenProperties, Zenon DEF AreIndexes, IsSequence
<1>3. j # 0 /\ def.unique \in BOOLEAN
  <2>1. j # 0
    BY <1>2
  <2>2. Indexes[j] \in Range(Indexes)
    BY <1>2, RangeEquality
  <2> QED BY <1>1, <2>1, <2>2, Zenon DEF AreIndexes
<1>4. having = Having(def, key)
  <2>1. DOMAIN records = Listed
    BY DEF RecordsOf, Listed
  <2>2. \A q \in Listed : records[q] = Stored(q)
    BY ListedIs
  <2> HIDE DEF records
  <2> QED BY <2>1, <2>2 DEF Having
<1>5. r \in having
  BY <1>4 DEF Having
<1>6. found = IF Failed(built) THEN built ELSE <<"paths", paths(built[2][j][2])>>
  <2>1. found = IF Failed(built) THEN built
                ELSE IF IndexNamed(Indexes, def.unique, def.name) = 0 THEN Error("index_not_defined")
                ELSE <<"paths", paths(built[2][IndexNamed(Indexes, def.unique, def.name)][2])>>
    BY Zenon DEF FindByIndex, Then
  <2> HIDE DEF found, built, paths
  <2> QED BY <1>1, <1>3, <2>1, Zenon
<1> HIDE DEF found, built, paths
<1>7. ~Failed(built)
  BY <1>6, Zenon DEF found
<1>8. ~Failed(BuildIndex(def, records)) /\ built[2][j] = BuildIndex(def, records)
  <2>1. Sheet.format.kind = "toml"
    BY Zenon DEF IsToml, Sheet
  <2> QED BY <1>1, <1>2, <1>7, <2>1, BuiltIs, Zenon DEF built, Ext
<1> DEFINE index == BuildIndex(def, records)[2]
<1>9. key \in DOMAIN index /\ paths(index) = having
  <2>1. \E q \in DOMAIN records : KeyFor(def, records[q]) = key
    BY <1>5
  <2>2. CASE def.unique
    <3>1. BuildIndex(def, records) = BuildUnique(def, records)
      BY <2>2, Zenon DEF BuildIndex
    <3>2. /\ key \in DOMAIN BuildUnique(def, records)[2]
          /\ {BuildUnique(def, records)[2][key]} = {q \in DOMAIN records : KeyFor(def, records[q]) = key}
      <4>1. ~Failed(BuildUnique(def, records))
        BY <1>8, <3>1, Zenon
      <4> HIDE DEF records
      <4> QED BY <2>1, <4>1, UniqueIs
    <3> QED BY <2>2, <3>1, <3>2, Zenon DEF paths
  <2>3. CASE ~def.unique
    <3>1. index = BuildMulti(def, records)
      <4>1. BuildIndex(def, records) = <<"index", BuildMulti(def, records)>>
        BY <2>3, Zenon DEF BuildIndex
      <4> QED BY <4>1
    <3>2. /\ key \in DOMAIN BuildMulti(def, records)
          /\ BuildMulti(def, records)[key] = {q \in DOMAIN records : KeyFor(def, records[q]) = key}
      <4> HIDE DEF records
      <4> QED BY <2>1, MultiIs
    <3> QED BY <2>3, <3>1, <3>2, Zenon DEF paths
  <2> QED BY <2>2, <2>3
<1> QED BY <1>4, <1>6, <1>7, <1>8, <1>9, Zenon DEF found

LEMMA OrderKeepsKeys ==
  ASSUME AreIndexes(Indexes), Inv
  PROVE  UniqueKeysHold
<1> SUFFICES ASSUME IsToml, NEW def \in Current, NEW r0 \in Listed,
                    NEW key, key = KeyFor(def, Stored(r0)), key # Absent
             PROVE  /\ def.unique => \A r, q \in Having(def, key) :
                          Author(r) = "rust" /\ Author(q) = "rust" => r = q
                    /\ ~Failed(FindByIndex(Sheet, files, Indexes, def.unique, def.name, key)) =>
                          FindByIndex(Sheet, files, Indexes, def.unique, def.name, key)
                            = <<"paths", Having(def, key)>>
  BY Zenon DEF UniqueKeysHold
<1>1. ASSUME def.unique, NEW r \in Having(def, key), NEW q \in Having(def, key),
             Author(r) = "rust", Author(q) = "rust"
      PROVE  r = q
  <2> DEFINE f == FileOf(r, Ext)
             g == FileOf(q, Ext)
  <2>1. r \in Listed /\ q \in Listed /\ KeyFor(def, Stored(r)) = key /\ KeyFor(def, Stored(q)) = key
    BY DEF Having
  <2>2. /\ f \in DOMAIN files /\ r = StemsOf(f) /\ Stored(r) = ParseToml(files[f]) /\ author[f] = "rust"
        /\ g \in DOMAIN files /\ q = StemsOf(g) /\ Stored(q) = ParseToml(files[g]) /\ author[g] = "rust"
    BY <1>1, <2>1, ListedIs DEF Inv, InOrder
  <2> HIDE DEF f, g
  <2>3. KeyAt(def, f) = key /\ KeyAt(def, g) = key
    BY <2>1, <2>2, Zenon DEF KeyAt
  <2>4. f = g
    BY <1>1, <2>2, <2>3, Zenon DEF Inv, KeysApart
  <2> QED BY <2>2, <2>4, Zenon
<1>2. ASSUME ~Failed(FindByIndex(Sheet, files, Indexes, def.unique, def.name, key))
      PROVE  FindByIndex(Sheet, files, Indexes, def.unique, def.name, key) = <<"paths", Having(def, key)>>
  BY <1>2, LookupIs DEF Inv, InOrder
<1> QED BY <1>1, <1>2, Zenon

\* No two records that the core's clients wrote share the key of a unique index,
\* and an index that can be built finds all that has a key, and nothing else.
THEOREM KeysAreUnique ==
  ASSUME AreIndexes(Indexes)
  PROVE  Spec => []UniqueKeysHold
<1>1. Spec => []Inv
  BY KeysStayApart
<1>2. Inv => UniqueKeysHold
  BY OrderKeepsKeys
<1> QED BY <1>1, <1>2, PTL

-----------------------------------------------------------------------------
(* Queries                                                                  *)

\* The template of a sheet that is defined is as the parser makes it.
LEMMA TemplateIs ==
  ASSUME TypeOK, ~Failed(opened)
  PROVE  Compiled(Sheet.template)
<1>2. /\ source \in Seq(Range(source))
      /\ \A t \in Range(source) : IsToken(t)
      /\ Compile(source) = <<"template", Sheet.template>>
  BY Zenon DEF TypeOK, IsOpened, IsSequence, Sheet
<1>3. ASSUME NEW t, IsToken(t) PROVE Token(t)
  <2>1. t[1] = "lit" => IsSeq(t[2])
    BY <1>3, Zenon DEF IsToken, IsSequence, IsSeq
  <2>2. t[1] = "bucket" => IsSeq(t[2]) /\ t[2] # <<>>
    BY <1>3, Zenon DEF IsToken, IsSequence, IsSeq
  <2>3. /\ t[1] \in {"/", "lit", "field", "bucket", "expr", "broken"}
        /\ t[1] \in {"/", "broken"} => t = <<t[1]>>
    BY <1>3, Zenon DEF IsToken
  <2>4. (t[1] = "/" => t = <<"/">>) /\ (t[1] = "broken" => t = <<"broken">>)
    BY <2>3
  <2> QED BY <2>1, <2>2, <2>3, <2>4, Zenon DEF Token
<1>4. \A t \in Range(source) : Token(t)
  BY <1>2, <1>3, Zenon
<1> DEFINE T == Range(source)
           template == Sheet.template
<1> HIDE DEF T, template
<1>5. source \in Seq(T) /\ (\A t \in T : Token(t)) /\ Compile(source) = <<"template", template>>
  BY <1>2, <1>4, Zenon DEF T, template
<1>7. Compiled(template)
  BY <1>5, CompiledIsParsed
<1> QED BY <1>7 DEF template

LEMMA RecordIsValue ==
  ASSUME NEW v, IsRecord(v)
  PROVE  Value(v)
<1> SUFFICES ASSUME NEW k, Field(v, k)[1] = "string" PROVE IsSeq(Field(v, k)[2])
  BY Zenon DEF Value
<1>1. Absent[1] # "string"
  BY DEF Absent
<1>2. k \in DOMAIN v[2] /\ Field(v, k) = v[2][k]
  BY <1>1, Zenon DEF Field
<1> QED BY <1>2, IsSequenceIsSeq, Zenon DEF IsRecord

LEMMA FilterIsValue ==
  ASSUME NEW filter, IsFilter(filter)
  PROVE  Value(PruneRecord(filter))
<1> DEFINE known == {k \in DOMAIN filter[2] :
                       /\ filter[2][k][1] = "equals"
                       /\ filter[2][k][2][1] \in {"string", "integer", "float", "boolean", "datetime"}}
<1> SUFFICES ASSUME NEW k, Field(PruneRecord(filter), k)[1] = "string"
             PROVE  IsSeq(Field(PruneRecord(filter), k)[2])
  BY Zenon DEF Value
<1>1. PruneRecord(filter) = <<"table", [j \in known |-> filter[2][j][2]]>>
  BY Zenon DEF PruneRecord, Table
<1>2. known \subseteq {j \in DOMAIN filter[2] : filter[2][j][1] = "equals"}
  OBVIOUS
<1> HIDE DEF known
<1>3. Field(PruneRecord(filter), k) = IF k \in known THEN filter[2][k][2] ELSE Absent
  BY <1>1 DEF Field, IsTable
<1>4. Absent[1] # "string"
  BY DEF Absent
<1>5. k \in known /\ Field(PruneRecord(filter), k) = filter[2][k][2]
  BY <1>3, <1>4, Zenon
<1>6. IsSequence(filter[2][k][2][2])
  BY <1>2, <1>5 DEF IsFilter
<1> QED BY <1>5, <1>6, IsSequenceIsSeq, Zenon

\* A filter that says anything of a record says that it holds or not.
LEMMA VerdictIs ==
  ASSUME NEW filter, NEW v, IsTable(v), ~Failed(Matches(filter, v)), Matches(filter, v)[2]
  PROVE  Matches(filter, v) = <<"holds", TRUE>>
<1>1. Matches(filter, v) \in {<<"holds", TRUE>>, <<"holds", FALSE>>, Error("config_invalid")}
  BY Zenon DEF Matches
<1>2. <<"holds", FALSE>>[2] = FALSE /\ Failed(Error("config_invalid"))
  BY DEF Failed, Error
<1> QED BY <1>1, <1>2, Zenon

\* A listed record that a client vouches for is placed.
LEMMA ManagedIsPlaced ==
  ASSUME InOrder, IsToml, AllManaged, NEW r \in Listed
  PROVE  /\ FileOf(r, Ext) \in DOMAIN files /\ r = StemsOf(FileOf(r, Ext))
         /\ Stored(r) = ParseToml(files[FileOf(r, Ext)])
         /\ IsRecord(Stored(r)) /\ IsTable(Stored(r)) /\ ~Failed(Stored(r))
         /\ Render(Sheet.template, Stored(r)) = <<"path", r>>
<1> DEFINE f == FileOf(r, Ext)
<1>1. /\ f \in DOMAIN files /\ r = StemsOf(f)
      /\ Stored(r) = ParseToml(files[f]) /\ Author(r) = author[f]
  BY ListedIs DEF InOrder
<1>2. author[f] \in Clients
  BY <1>1, Zenon DEF AllManaged, Managed
<1> HIDE DEF f
<1>3. Placed(f)
  BY <1>1, <1>2, Zenon DEF InOrder, AllPlaced
<1>4. IsRecord(Stored(r)) /\ Render(Sheet.template, Stored(r)) = <<"path", StemsOf(f)>>
  BY <1>1, <1>3, Zenon DEF Placed
<1>5. IsTable(Stored(r))
  BY <1>4, Zenon DEF IsRecord
<1>6. ~Failed(Stored(r))
  BY <1>5 DEF IsTable, Failed
<1> QED BY <1>1, <1>4, <1>5, <1>6, Zenon DEF f

\* What matches is among the candidates.
LEMMA MatchIsCandidate ==
  ASSUME InOrder, IsToml, AllManaged, NoneBeneath, NEW filter, NEW r \in Listed,
         ~Failed(Matches(filter, Stored(r))), Matches(filter, Stored(r))[2]
  PROVE  /\ CandidatePaths(files, Sheet.template, PruneRecord(filter), Ext)[1] = "paths"
         /\ r \in CandidatePaths(files, Sheet.template, PruneRecord(filter), Ext)[2]
<1> DEFINE v == Stored(r)
           q == PruneRecord(filter)
           template == Sheet.template
<1>1. /\ FileOf(r, Ext) \in DOMAIN files /\ IsRecord(v) /\ IsTable(v)
      /\ Render(template, v) = <<"path", r>>
  BY ManagedIsPlaced
<1>2. Compiled(template) /\ Tree(files)
  BY TemplateIs, PathsMakeTree DEF InOrder, TypeOK, IsToml
<1>3. Matches(filter, v) = <<"holds", TRUE>>
  BY <1>1, VerdictIs
<1> HIDE DEF v, q, template
<1>4. Agrees(q, v) /\ Value(v)
  BY <1>1, <1>3, MatchingAgrees, RecordIsValue DEF q
<1>5. ASSUME NEW g \in DOMAIN files, IsRecordFile(g, Ext) PROVE ~IsStrictPrefix(StemsOf(g), r)
  <2>1. StemsOf(g) \in Listed
    BY <1>2, <1>5, TextsAre DEF Listed
  <2> QED BY <2>1, Zenon DEF NoneBeneath
<1>6. /\ CandidatePaths(files, template, q, Ext)[1] = "paths"
      /\ r \in CandidatePaths(files, template, q, Ext)[2]
  BY <1>1, <1>2, <1>4, <1>5, WalkHidesNothing
<1> QED BY <1>6 DEF q, template

LEMMA OrderFindsAll ==
  ASSUME \A filter \in Queries : IsFilter(filter), InOrder
  PROVE  QueryFindsAll
<1> DEFINE verdict(filter) == [r \in Listed |-> Matches(filter, Stored(r))]
           matching(filter) == {r \in Listed : verdict(filter)[r][2]}
           found(filter) == QueryRecords(files, Sheet.template, filter, Ext)
           planned(filter) == CandidatePaths(files, Sheet.template, PruneRecord(filter), Ext)
<1> SUFFICES ASSUME IsToml, AllManaged, NoneBeneath, NEW filter \in Queries,
                    \A r \in Listed : ~Failed(verdict(filter)[r])
             PROVE  \/ /\ found(filter) = <<"paths", matching(filter)>>
                       /\ matching(filter) \subseteq planned(filter)[2]
                    \/ matching(filter) = {} /\ Failed(planned(filter)) /\ found(filter) = planned(filter)
  BY Zenon DEF QueryFindsAll
<1> DEFINE C == planned(filter)
           M == {r \in Listed : Matches(filter, Stored(r))[2]}
           judge(r) == Judge(filter, files[FileOf(r, Ext)])
           judged == Whole("judged", [r \in C[2] |-> judge(r)])
<1>1. \A r \in Listed : ~Failed(Matches(filter, Stored(r)))
  OBVIOUS
<1>2. matching(filter) = M
  OBVIOUS
<1>3. found(filter) = IF Failed(C) THEN C
                      ELSE IF Failed(judged) THEN judged ELSE <<"paths", {r \in C[2] : judged[2][r][2]}>>
  BY Zenon DEF QueryRecords, Then
<1>4. \A r \in M : C[1] = "paths" /\ r \in C[2]
  BY <1>1, MatchIsCandidate
<1>5. Tree(files) /\ Compiled(Sheet.template)
  BY TemplateIs, PathsMakeTree DEF InOrder, TypeOK, IsToml
<1>6. IsFilter(filter)
  OBVIOUS
<1>7. CASE Failed(C)
  <2> HIDE DEF C, judged, found
  <2>1. M = {}
    <3> HIDE DEF M
    <3>1. \A r \in M : C[1] = "paths"
      BY <1>4
    <3> QED BY <1>7, <3>1 DEF Failed
  <2> HIDE DEF M, matching
  <2> QED BY <1>2, <1>3, <1>7, <2>1, Zenon DEF C
<1>8. CASE ~Failed(C)
  <2>1. C[1] = "paths"
    <3> DEFINE plan == PlanQuery(Sheet.template, PruneRecord(filter))
    <3>1. C = IF Failed(plan) THEN plan ELSE <<"paths", Walk(files, plan[2], Ext)>>
      BY Zenon DEF CandidatePaths, Then
    <3> HIDE DEF plan, C
    <3>2. C = <<"paths", Walk(files, plan[2], Ext)>>
      BY <1>8, <3>1, Zenon
    <3> QED BY <3>2
  <2>2. ASSUME NEW r \in C[2] PROVE r \in Listed
    <3> DEFINE q == PruneRecord(filter)
               template == Sheet.template
               ext == Ext
    <3>1. Value(q)
      BY <1>6, FilterIsValue
    <3>2. CandidatePaths(files, template, q, ext)[1] = "paths" /\ r \in CandidatePaths(files, template, q, ext)[2]
      BY <2>1, <2>2
    <3>3. Compiled(template)
      BY <1>5
    <3> HIDE DEF q, template, ext
    <3>4. FileOf(r, ext) \in DOMAIN files /\ IsRecordFile(FileOf(r, ext), ext) /\ r = StemsOf(FileOf(r, ext))
      BY <1>5, <3>1, <3>2, <3>3, CandidatesAreRecords
    <3>5. StemsOf(FileOf(r, ext)) \in DOMAIN RecordTexts(files, ext)
      BY <1>5, <3>4, TextsAre
    <3> QED BY <3>4, <3>5, Zenon DEF Listed, ext
  <2>3. ASSUME NEW r \in C[2] PROVE judge(r) = Matches(filter, Stored(r)) /\ ~Failed(judge(r))
    <3>1. Stored(r) = ParseToml(files[FileOf(r, Ext)]) /\ ~Failed(Stored(r))
      BY <2>2, <2>3, ManagedIsPlaced
    <3>2. judge(r) = Matches(filter, Stored(r))
      BY <3>1, Zenon DEF Judge, Then
    <3> QED BY <1>1, <2>2, <2>3, <3>2
  <2> HIDE DEF C, judge
  <2>4. judged = <<"judged", [r \in C[2] |-> judge(r)]>>
    <3> DEFINE f == [r \in C[2] |-> judge(r)]
    <3>1. DOMAIN f = C[2] /\ \A r \in DOMAIN f : ~Failed(f[r])
      BY <2>3
    <3> HIDE DEF f
    <3> QED BY <3>1, Zenon DEF Whole, f
  <2>5. judged[2] = [r \in C[2] |-> judge(r)] /\ ~Failed(judged)
    BY <2>4 DEF Failed
  <2> HIDE DEF judged
  <2>6. {r \in C[2] : judged[2][r][2]} = M
    <3>1. \A r \in C[2] : judged[2][r] = Matches(filter, Stored(r)) /\ r \in Listed
      BY <2>2, <2>3, <2>5
    <3>2. \A r \in M : r \in C[2]
      BY <1>4
    <3> QED BY <3>1, <3>2
  <2>7. M \subseteq C[2]
    BY <1>4
  <2> HIDE DEF M, found, matching
  <2>8. found(filter) = <<"paths", M>>
    BY <1>3, <1>8, <2>5, <2>6, Zenon
  <2> QED BY <1>2, <2>7, <2>8, Zenon DEF C
<1> QED BY <1>7, <1>8

\* A query finds exactly the records that match, for every template: neither
\* its plan nor its walk leaves one out, none of the files it reads is missing,
\* and it fails only where nothing matches.
THEOREM QueriesFindAll ==
  ASSUME \A filter \in Queries : IsFilter(filter)
  PROVE  Spec => []QueryFindsAll
<1>1. Spec => []InOrder
  BY RecordsStayInPlace
<1>2. InOrder => QueryFindsAll
  BY OrderFindsAll
<1> QED BY <1>1, <1>2, PTL

-----------------------------------------------------------------------------
(* Folds                                                                    *)

\* The steps of a fold: from what is made and an item to what is made next
Steps(g, S, T) == g \in [S \X T -> S]

\* What a fold of g over s has made after each item
Folds(g, a, s, h) ==
  h[0] = a /\ \A i \in 1 .. Len(s) : h[i] = g[<<h[i - 1], s[i]>>]

Fold(S, g, a, s) == (CHOOSE h \in [0 .. Len(s) -> S] : Folds(g, a, s, h))[Len(s)]

\* The function that FoldLeft iterates
Iterating(f, S, T, g, a, s) ==
  /\ f \in [SUBSET (1 .. Len(s)) -> S]
  /\ \A u \in SUBSET (1 .. Len(s)) :
        IF u = {} THEN f[u] = a
        ELSE /\ f[u \ {Max(u)}] \in S /\ s[Max(u)] \in T
             /\ f[u] = g[<<f[u \ {Max(u)}], s[Max(u)]>>]

LEMMA IterateExists ==
  ASSUME NEW S, NEW T, NEW g, Steps(g, S, T), NEW a \in S, NEW s \in Seq(T)
  PROVE  \E f : Iterating(f, S, T, g, a, s)
<1> DEFINE n == Len(s)
<1>1. n \in Nat /\ \A i \in 1 .. n : s[i] \in T
  BY LenProperties, ElementOfSeq
<1>2. PICK f : Iterate(f, n, S, g, a, s)
  BY FoldExists DEF Steps
<1>3. f \in [SUBSET (1 .. n) -> S]
  BY <1>2 DEF Iterate
<1>4. ASSUME NEW u \in SUBSET (1 .. n), u # {}
      PROVE  f[u \ {Max(u)}] \in S /\ s[Max(u)] \in T
  <2>1. Max(u) \in u
    <3>1. u \in SUBSET (0 .. n)
      OBVIOUS
    <3> QED BY <1>1, <1>4, <3>1, MaxIsIn, Zenon
  <2>2. Max(u) \in 1 .. n /\ u \ {Max(u)} \in SUBSET (1 .. n)
    BY <2>1
  <2> QED BY <1>1, <1>3, <2>2
<1> HIDE DEF n
<1>5. \A u \in SUBSET (1 .. n) : f[u] = IF u = {} THEN a ELSE g[<<f[u \ {Max(u)}], s[Max(u)]>>]
  BY <1>2 DEF Iterate, n
<1>6. \A u \in SUBSET (1 .. n) :
        IF u = {} THEN f[u] = a
        ELSE /\ f[u \ {Max(u)}] \in S /\ s[Max(u)] \in T
             /\ f[u] = g[<<f[u \ {Max(u)}], s[Max(u)]>>]
  BY <1>4, <1>5
<1>7. Iterating(f, S, T, g, a, s)
  BY <1>3, <1>6, Zenon DEF Iterating, n
<1> QED BY <1>7, Zenon

LEMMA FoldsAgree ==
  ASSUME NEW g, NEW a, NEW T, NEW s \in Seq(T), NEW h, NEW k, Folds(g, a, s, h), Folds(g, a, s, k)
  PROVE  \A i \in 0 .. Len(s) : h[i] = k[i]
<1> DEFINE n == Len(s)
           Same == {i \in 0 .. n : h[i] = k[i]}
<1>1. n \in Nat
  BY LenProperties
<1>2. 0 \in Same
  BY <1>1 DEF Folds
<1>3. ASSUME NEW i \in 0 .. n - 1, i \in Same PROVE i + 1 \in Same
  <2>1. i + 1 \in 1 .. n /\ (i + 1) - 1 = i /\ i + 1 \in 0 .. n
    BY <1>1
  <2>2. h[i + 1] = g[<<h[i], s[i + 1]>>] /\ k[i + 1] = g[<<k[i], s[i + 1]>>]
    BY <2>1 DEF Folds
  <2> QED BY <1>3, <2>1, <2>2
<1> HIDE DEF Same
<1>4. 0 .. n \subseteq Same
  BY <1>1, <1>2, <1>3, Induction
<1> QED BY <1>4 DEF Same

\* What a fold has made all along, in the end the fold
Making(S, g, a, s, h) ==
  h \in [0 .. Len(s) -> S] /\ Folds(g, a, s, h) /\ Fold(S, g, a, s) = h[Len(s)]

LEMMA FoldSteps ==
  ASSUME NEW S, NEW T, NEW g, Steps(g, S, T), NEW a \in S, NEW s \in Seq(T)
  PROVE  \E h : Making(S, g, a, s, h)
<1> DEFINE n == Len(s)
<1>1. n \in Nat
  BY LenProperties
<1>2. PICK f : Iterating(f, S, T, g, a, s)
  BY IterateExists
<1>20. f \in [SUBSET (1 .. n) -> S]
  BY <1>2 DEF Iterating
<1>21. \A u \in SUBSET (1 .. n) :
          IF u = {} THEN f[u] = a
          ELSE /\ f[u \ {Max(u)}] \in S /\ s[Max(u)] \in T
               /\ f[u] = g[<<f[u \ {Max(u)}], s[Max(u)]>>]
  BY <1>2, Zenon DEF Iterating
<1> DEFINE h == [i \in 0 .. n |-> f[1 .. i]]
<1>3. h \in [0 .. n -> S]
  <2>1. \A i \in 0 .. n : 1 .. i \in SUBSET (1 .. n)
    BY <1>1
  <2> QED BY <1>20, <2>1
<1>4. f[1 .. 0] = a
  <2>1. 1 .. 0 = {} /\ {} \in SUBSET (1 .. n)
    OBVIOUS
  <2> QED BY <1>21, <2>1
<1>5. ASSUME NEW i \in 1 .. n PROVE f[1 .. i] = g[<<f[1 .. i - 1], s[i]>>]
  <2>1. Max(1 .. i) = i /\ (1 .. i) \ {i} = 1 .. i - 1 /\ 1 .. i # {} /\ 1 .. i \in SUBSET (1 .. n)
    BY <1>1, Beginnings, SMTT(30)
  <2> QED BY <1>21, <2>1
<1>6. h[0] = a /\ \A i \in 1 .. n : h[i] = g[<<h[i - 1], s[i]>>]
  BY <1>1, <1>4, <1>5
<1> HIDE DEF h
<1>7. Folds(g, a, s, h)
  BY <1>6 DEF Folds
<1> HIDE DEF n
<1>8. \E k \in [0 .. Len(s) -> S] : Folds(g, a, s, k)
  BY <1>3, <1>7 DEF n
<1> DEFINE c == CHOOSE k \in [0 .. Len(s) -> S] : Folds(g, a, s, k)
<1>9. c \in [0 .. Len(s) -> S] /\ Folds(g, a, s, c)
  BY <1>8, Zenon
<1>10. Fold(S, g, a, s) = c[Len(s)]
  BY Zenon DEF Fold
<1>11. Making(S, g, a, s, c)
  BY <1>9, <1>10, Zenon DEF Making
<1> QED BY <1>11, Zenon

\* A fold item by item
LEMMA FoldAppends ==
  ASSUME NEW S, NEW T, NEW g, Steps(g, S, T), NEW a \in S
  PROVE  /\ Fold(S, g, a, <<>>) = a
         /\ \A s \in Seq(T) : Fold(S, g, a, s) \in S
         /\ \A s \in Seq(T), x \in T : Fold(S, g, a, Append(s, x)) = g[<<Fold(S, g, a, s), x>>]
<1>1. Fold(S, g, a, <<>>) = a
  <2>1. <<>> \in Seq(T) /\ Len(<<>>) = 0
    BY EmptySeq
  <2>2. PICK h : Making(S, g, a, <<>>, h)
    BY <2>1, FoldSteps
  <2> QED BY <2>1, <2>2 DEF Folds, Making
<1>2. ASSUME NEW s \in Seq(T) PROVE Fold(S, g, a, s) \in S
  <2>1. PICK h : Making(S, g, a, s, h)
    BY FoldSteps
  <2>2. Len(s) \in 0 .. Len(s)
    BY LenProperties
  <2> QED BY <2>1, <2>2 DEF Making
<1>3. ASSUME NEW s \in Seq(T), NEW x \in T
      PROVE  Fold(S, g, a, Append(s, x)) = g[<<Fold(S, g, a, s), x>>]
  <2> DEFINE n == Len(s)
             r == Append(s, x)
  <2>1. /\ r \in Seq(T) /\ n \in Nat /\ Len(r) = n + 1 /\ r[n + 1] = x
        /\ \A i \in 1 .. n : r[i] = s[i]
    BY AppendProperties, LenProperties
  <2>2. PICK h : Making(S, g, a, s, h)
    BY FoldSteps
  <2> HIDE DEF r
  <2>3. PICK k : Making(S, g, a, r, k)
    BY <2>1, FoldSteps
  <2> HIDE DEF n
  <2>4. Folds(g, a, s, k)
    <3>1. k[0] = a /\ \A i \in 1 .. n + 1 : k[i] = g[<<k[i - 1], r[i]>>]
      BY <2>1, <2>3 DEF Folds, Making
    <3>2. \A i \in 1 .. n : k[i] = g[<<k[i - 1], s[i]>>]
      BY <2>1, <3>1
    <3> QED BY <3>1, <3>2 DEF Folds, n
  <2>5. h[n] = k[n]
    <3>1. n \in 0 .. Len(s)
      BY <2>1 DEF n
    <3> QED BY <2>2, <2>4, <3>1, FoldsAgree DEF Making
  <2>6. k[n + 1] = g[<<k[n], x>>]
    <3>1. n + 1 \in 1 .. Len(r) /\ (n + 1) - 1 = n
      BY <2>1
    <3> QED BY <2>1, <2>3, <3>1 DEF Folds, Making
  <2> QED BY <2>1, <2>2, <2>3, <2>5, <2>6 DEF r, n, Making
<1> QED BY <1>1, <1>2, <1>3

\* A fold over one sequence after another
LEMMA FoldConcat ==
  ASSUME NEW S, NEW T, NEW g, Steps(g, S, T), NEW a \in S, NEW s \in Seq(T), NEW t \in Seq(T)
  PROVE  Fold(S, g, a, s \o t) = Fold(S, g, Fold(S, g, a, s), t)
<1> DEFINE n == Len(t)
           b == Fold(S, g, a, s)
           p(i) == SubSeq(t, 1, i)
           Good == {i \in 0 .. n : Fold(S, g, a, s \o p(i)) = Fold(S, g, b, p(i))}
<1>1. n \in Nat /\ b \in S /\ \A i \in 1 .. n : t[i] \in T
  BY LenProperties, ElementOfSeq, FoldAppends
<1>2. \A i \in 0 .. n : p(i) \in Seq(T)
  BY SubSeqProperties, SMTT(30)
<1>3. 0 \in Good
  <2>1. p(0) = <<>>
    BY <1>1, SubSeqProperties
  <2>2. s \o <<>> = s
    BY ConcatEmptySeq
  <2>3. Fold(S, g, b, <<>>) = b
    <3> HIDE DEF b
    <3> QED BY <1>1, FoldAppends
  <2> HIDE DEF b, p
  <2>4. s \o p(0) = s /\ Fold(S, g, b, p(0)) = b
    BY <2>1, <2>2, <2>3
  <2>5. Fold(S, g, a, s \o p(0)) = Fold(S, g, b, p(0))
    BY <2>4, Zenon DEF b
  <2> QED BY <1>1, <2>5
<1>4. ASSUME NEW i \in 0 .. n - 1, i \in Good PROVE i + 1 \in Good
  <2>1. i + 1 \in 1 .. n /\ i \in 0 .. n /\ i + 1 \in 0 .. n
    BY <1>1
  <2>2. p(i + 1) = Append(p(i), t[i + 1])
    BY <1>1, <2>1, SubSeqProperties, AppendProperties, SMTT(30)
  <2>3. s \o p(i + 1) = Append(s \o p(i), t[i + 1])
    BY <1>1, <1>2, <2>1, <2>2, AppendIsConcat, ConcatAssociative, SMTT(30)
  <2> HIDE DEF p, b
  <2>4. s \o p(i) \in Seq(T) /\ p(i) \in Seq(T) /\ t[i + 1] \in T
    BY <1>1, <1>2, <2>1, ConcatProperties
  <2>5. Fold(S, g, a, Append(s \o p(i), t[i + 1])) = g[<<Fold(S, g, a, s \o p(i)), t[i + 1]>>]
    <3> DEFINE r == s \o p(i)
    <3>1. r \in Seq(T)
      BY <2>4
    <3> HIDE DEF r
    <3>2. Fold(S, g, a, Append(r, t[i + 1])) = g[<<Fold(S, g, a, r), t[i + 1]>>]
      BY <2>4, <3>1, FoldAppends
    <3> QED BY <3>2 DEF r
  <2>6. Fold(S, g, b, Append(p(i), t[i + 1])) = g[<<Fold(S, g, b, p(i)), t[i + 1]>>]
    BY <1>1, <2>4, FoldAppends
  <2>7. Fold(S, g, a, s \o p(i)) = Fold(S, g, b, p(i))
    BY <1>4
  <2>8. Fold(S, g, a, s \o p(i + 1)) = Fold(S, g, b, p(i + 1))
    BY <2>2, <2>3, <2>5, <2>6, <2>7, Zenon
  <2> QED BY <2>1, <2>8
<1>5. n \in Good
  <2> HIDE DEF Good
  <2>1. 0 .. n \subseteq Good
    BY <1>1, <1>3, <1>4, Induction
  <2> QED BY <1>1, <2>1
<1>6. p(n) = t
  BY <1>1, SubSeqFull
<1> QED BY <1>5, <1>6

\* What FoldLeft iterates is the fold.
Iterated(iter, S, g, a, s) ==
  /\ iter[1 .. 0] = a
  /\ \A i \in 1 .. Len(s) : iter[1 .. i - 1] \in S => iter[1 .. i] = g[<<iter[1 .. i - 1], s[i]>>]

LEMMA IterationIs ==
  ASSUME NEW S, NEW T, NEW g, Steps(g, S, T), NEW a \in S, NEW s \in Seq(T),
         NEW iter, Iterated(iter, S, g, a, s)
  PROVE  iter[1 .. Len(s)] = Fold(S, g, a, s)
<1> DEFINE n == Len(s)
<1>1. n \in Nat
  BY LenProperties
<1>2. PICK h : Making(S, g, a, s, h)
  BY FoldSteps
<1>3. /\ h \in [0 .. n -> S] /\ Fold(S, g, a, s) = h[n] /\ h[0] = a
      /\ \A i \in 1 .. n : h[i] = g[<<h[i - 1], s[i]>>]
  BY <1>2 DEF Making, Folds
<1> HIDE DEF n
<1> DEFINE Same == {i \in 0 .. n : iter[1 .. i] = h[i]}
<1>4. 0 \in Same
  BY <1>1, <1>3 DEF Iterated
<1>5. ASSUME NEW i \in 0 .. n - 1, i \in Same PROVE i + 1 \in Same
  <2>1. i + 1 \in 1 .. n /\ (i + 1) - 1 = i /\ i + 1 \in 0 .. n /\ i \in 0 .. n
    BY <1>1
  <2>2. iter[1 .. i] = h[i] /\ h[i] \in S
    BY <1>3, <1>5, <2>1
  <2>3. iter[1 .. i + 1] = g[<<iter[1 .. i], s[i + 1]>>]
    BY <2>1, <2>2 DEF n, Iterated
  <2>4. h[i + 1] = g[<<h[i], s[i + 1]>>]
    BY <1>3, <2>1
  <2>5. iter[1 .. i + 1] = h[i + 1]
    BY <2>2, <2>3, <2>4, Zenon
  <2> QED BY <2>1, <2>5
<1> HIDE DEF Same
<1>6. 0 .. n \subseteq Same
  BY <1>1, <1>4, <1>5, Induction
<1> QED BY <1>1, <1>3, <1>6 DEF Same, n

LEMMA UnlinesIsFold ==
  ASSUME NEW C, NEW S, S = Seq(C), NewLine \in C, NEW ls \in Seq(S), ls # <<>>,
         NEW g, g = [p \in S \X S |-> p[1] \o <<NewLine>> \o p[2]]
  PROVE  Steps(g, S, S) /\ Unlines(ls) = Fold(S, g, Head(ls), Tail(ls))
<1> DEFINE a == Head(ls)
           s == Tail(ls)
           n == Len(s)
           Step(f) == [u \in SUBSET (1 .. n) |->
                         IF u = {} THEN a ELSE f[u \ {Max(u)}] \o <<NewLine>> \o s[Max(u)]]
<1>1. a \in S /\ s \in Seq(S)
  BY HeadTailProperties
<1>2. n \in Nat /\ DOMAIN s = 1 .. n
  BY <1>1, LenProperties
<1>3. \A x, y \in S : x \o <<NewLine>> \o y \in S /\ g[<<x, y>>] = x \o <<NewLine>> \o y
  <2>1. \A x, y \in Seq(C) : x \o <<NewLine>> \o y \in Seq(C)
    OBVIOUS
  <2>2. \A p \in S \X S : g[p] = p[1] \o <<NewLine>> \o p[2]
    BY Zenon
  <2>3. \A x, y \in S : <<x, y>> \in S \X S /\ <<x, y>>[1] = x /\ <<x, y>>[2] = y
    OBVIOUS
  <2>4. \A x, y \in S : g[<<x, y>>] = x \o <<NewLine>> \o y
    BY <2>2, <2>3, Zenon
  <2>5. \A x, y \in S : x \o <<NewLine>> \o y \in S
    BY <2>1, Zenon
  <2> QED BY <2>4, <2>5, Zenon
<1>4. Steps(g, S, S)
  BY <1>3 DEF Steps
<1>5. Unlines(ls) = FoldLeft(LAMBDA x, l : x \o <<NewLine>> \o l, a, s)
  BY Zenon DEF Unlines
<1> HIDE DEF a, s
<1>6. \E f : f = Step(f)
  <2> HIDE DEF Step
  <2>1. PICK f : Iterating(f, S, S, g, a, s)
    BY <1>1, <1>4, IterateExists
  <2>2. \A u \in SUBSET (1 .. n) : f[u] = IF u = {} THEN a ELSE f[u \ {Max(u)}] \o <<NewLine>> \o s[Max(u)]
    BY <1>3, <2>1 DEF Iterating
  <2>3. f = [u \in SUBSET (1 .. n) |-> f[u]]
    BY <2>1 DEF Iterating
  <2>4. f = Step(f)
    BY <2>2, <2>3 DEF Step
  <2> QED BY <2>4
<1> DEFINE iter == CHOOSE f : f = Step(f)
<1>7. iter = Step(iter)
  <2> HIDE DEF Step
  <2> QED BY <1>6
<1>8. Unlines(ls) = iter[1 .. n]
  BY <1>2, <1>5 DEF FoldLeft, MapThenFoldSet
<1> HIDE DEF iter
<1>9. iter[1 .. 0] = a
  BY <1>7
<1>10. ASSUME NEW i \in 1 .. n, iter[1 .. i - 1] \in S
       PROVE  iter[1 .. i] = g[<<iter[1 .. i - 1], s[i]>>]
  <2>1. Max(1 .. i) = i /\ (1 .. i) \ {i} = 1 .. i - 1 /\ 1 .. i # {} /\ 1 .. i \in SUBSET (1 .. n)
    BY <1>2, Beginnings, SMTT(30)
  <2>2. iter[1 .. i] = iter[1 .. i - 1] \o <<NewLine>> \o s[i]
    BY <1>7, <2>1
  <2>3. s[i] \in S
    BY <1>1, ElementOfSeq
  <2> QED BY <1>3, <1>10, <2>2, <2>3
<1> HIDE DEF Step
<1>11. iter[1 .. n] = Fold(S, g, a, s)
  <2>1. Iterated(iter, S, g, a, s)
    BY <1>9, <1>10 DEF Iterated
  <2> QED BY <1>1, <1>4, <2>1, IterationIs
<1> QED BY <1>4, <1>8, <1>11 DEF a, s

-----------------------------------------------------------------------------
(* Lines                                                                    *)

\* The lines of a string with one more symbol
AddedSymbol(ls, c) ==
  IF c = NewLine THEN Append(ls, Blank) ELSE Append(Front(ls), Append(Last(ls), c))

LEMMA SymbolIsAdded ==
  ASSUME NEW C, NEW ls \in Seq(Seq(C)), ls # <<>>, NEW c \in C \cup {NewLine}
  PROVE  AddedSymbol(ls, c) \in Seq(Seq(C)) /\ AddedSymbol(ls, c) # <<>>
<1>1. Len(ls) \in Nat /\ Len(ls) # 0
  BY LenProperties, EmptySeq
<1>2. Last(ls) \in Seq(C) /\ Front(ls) \in Seq(Seq(C))
  BY <1>1 DEF Last, Front
<1>3. Blank \in Seq(C) /\ (c # NewLine => Append(Last(ls), c) \in Seq(C))
  BY <1>2 DEF Blank
<1>4. \A s \in Seq(Seq(C)), x \in Seq(C) : Append(s, x) \in Seq(Seq(C)) /\ Append(s, x) # <<>>
  <2> DEFINE Q == Seq(C)
  <2> HIDE DEF Q
  <2>1. ASSUME NEW s \in Seq(Q), NEW x \in Q PROVE Append(s, x) \in Seq(Q) /\ Append(s, x) # <<>>
    BY AppendProperties
  <2> QED BY <2>1 DEF Q
<1> QED BY <1>2, <1>3, <1>4 DEF AddedSymbol

LEMMA LinesIsFold ==
  ASSUME NEW S, NEW T, <<Blank>> \in S, \A x \in S, y \in T : AddedSymbol(x, y) \in S, NEW s \in Seq(T),
         NEW g, g = [p \in S \X T |-> AddedSymbol(p[1], p[2])]
  PROVE  Steps(g, S, T) /\ Lines(s) = Fold(S, g, <<Blank>>, s)
<1> DEFINE a == <<Blank>>
           n == Len(s)
           Step(f) == [u \in SUBSET (1 .. n) |->
                         IF u = {} THEN a ELSE AddedSymbol(f[u \ {Max(u)}], s[Max(u)])]
<1>1. a \in S /\ s \in Seq(T)
  OBVIOUS
<1> HIDE DEF a
<1>2. n \in Nat /\ DOMAIN s = 1 .. n
  BY <1>1, LenProperties
<1>3. \A x \in S, y \in T : AddedSymbol(x, y) \in S /\ g[<<x, y>>] = AddedSymbol(x, y)
  OBVIOUS
<1>4. Steps(g, S, T)
  BY <1>3 DEF Steps
<1>5. \E f : f = Step(f)
  <2> HIDE DEF Step
  <2>1. PICK f : Iterating(f, S, T, g, a, s)
    BY <1>1, <1>4, IterateExists
  <2>2. \A u \in SUBSET (1 .. n) : f[u] = IF u = {} THEN a ELSE AddedSymbol(f[u \ {Max(u)}], s[Max(u)])
    BY <1>3, <2>1 DEF Iterating
  <2>3. f = [u \in SUBSET (1 .. n) |-> f[u]]
    BY <2>1 DEF Iterating
  <2>4. f = Step(f)
    BY <2>2, <2>3 DEF Step
  <2> QED BY <2>4
<1> DEFINE iter == CHOOSE f : f = Step(f)
<1>6. iter = Step(iter)
  <2> HIDE DEF Step
  <2> QED BY <1>5
<1>7. Lines(s) = iter[1 .. n]
  BY <1>2 DEF Lines, AddedSymbol, a, FoldLeft, MapThenFoldSet
<1> HIDE DEF iter
<1>8. iter[1 .. 0] = a
  BY <1>6
<1>9. ASSUME NEW i \in 1 .. n, iter[1 .. i - 1] \in S
      PROVE  iter[1 .. i] = g[<<iter[1 .. i - 1], s[i]>>]
  <2>1. Max(1 .. i) = i /\ (1 .. i) \ {i} = 1 .. i - 1 /\ 1 .. i # {} /\ 1 .. i \in SUBSET (1 .. n)
    BY <1>2, Beginnings, SMTT(30)
  <2>2. iter[1 .. i] = AddedSymbol(iter[1 .. i - 1], s[i])
    BY <1>6, <2>1
  <2>3. s[i] \in T
    BY <1>1, ElementOfSeq
  <2> QED BY <1>3, <1>9, <2>2, <2>3
<1> HIDE DEF Step
<1>10. iter[1 .. n] = Fold(S, g, a, s)
  <2>1. Iterated(iter, S, g, a, s)
    BY <1>8, <1>9 DEF Iterated
  <2> QED BY <1>1, <1>4, <2>1, IterationIs
<1> QED BY <1>1, <1>4, <1>7, <1>10 DEF a

\* Lines make one string, joined by the newlines between them.
LEMMA UnlinesOf ==
  ASSUME NEW C, NewLine \in C
  PROVE  /\ \A x \in Seq(C) : Unlines(<<x>>) = x
         /\ \A ls \in Seq(Seq(C)), x \in Seq(C) :
               ls # <<>> => /\ Unlines(ls) \in Seq(C)
                            /\ Unlines(Append(ls, x)) = Unlines(ls) \o <<NewLine>> \o x
<1> DEFINE S == Seq(C)
           g == [p \in S \X S |-> p[1] \o <<NewLine>> \o p[2]]
<1> HIDE DEF S, g
<1>1. ASSUME NEW ls \in Seq(S), ls # <<>>
      PROVE  Steps(g, S, S) /\ Unlines(ls) = Fold(S, g, Head(ls), Tail(ls))
  BY <1>1, UnlinesIsFold DEF S, g
<1>2. ASSUME NEW x \in S PROVE Unlines(<<x>>) = x
  <2>1. <<x>> \in Seq(S) /\ <<x>> # <<>> /\ Head(<<x>>) = x /\ Tail(<<x>>) = <<>>
    OBVIOUS
  <2>2. Steps(g, S, S) /\ Unlines(<<x>>) = Fold(S, g, x, <<>>)
    BY <1>1, <2>1
  <2> QED BY <2>2, FoldAppends
<1>3. ASSUME NEW ls \in Seq(S), ls # <<>>, NEW x \in S
      PROVE  Unlines(ls) \in S /\ Unlines(Append(ls, x)) = Unlines(ls) \o <<NewLine>> \o x
  <2> DEFINE h == Head(ls)
             t == Tail(ls)
             u == Fold(S, g, h, t)
             r == Append(ls, x)
  <2>1. h \in S /\ t \in Seq(S)
    BY <1>3, HeadTailProperties
  <2>2. r \in Seq(S) /\ r # <<>>
    BY AppendProperties
  <2>3. Head(r) = h /\ Tail(r) = Append(t, x)
    BY <1>3, HeadTailAppend
  <2>4. Steps(g, S, S) /\ Unlines(ls) = u
    BY <1>1, <1>3
  <2> HIDE DEF h, t, r
  <2>5. u \in S /\ Fold(S, g, h, Append(t, x)) = g[<<u, x>>]
    BY <2>1, <2>4, FoldAppends
  <2>6. Unlines(r) = Fold(S, g, h, Append(t, x))
    BY <1>1, <2>2, <2>3
  <2> HIDE DEF u
  <2>7. g[<<u, x>>] = u \o <<NewLine>> \o x
    BY <2>5 DEF g
  <2> QED BY <2>4, <2>5, <2>6, <2>7 DEF r
<1> QED BY <1>2, <1>3 DEF S

\* A string comes back from its lines.
LEMMA LinesAndBack ==
  ASSUME NEW C, NEW s \in Seq(C \cup {NewLine})
  PROVE  Lines(s) \in Seq(Seq(C)) /\ Lines(s) # <<>> /\ Unlines(Lines(s)) = s
<1> DEFINE T == C \cup {NewLine}
           S == Seq(Seq(C)) \ {<<>>}
           g == [p \in S \X T |-> AddedSymbol(p[1], p[2])]
           n == Len(s)
           ls(i) == Fold(S, g, <<Blank>>, SubSeq(s, 1, i))
           Good == {i \in 0 .. n : ls(i) \in S /\ Unlines(ls(i)) = SubSeq(s, 1, i)}
<1>1. n \in Nat /\ \A i \in 1 .. n : s[i] \in T
  BY LenProperties, ElementOfSeq
<1>2. \A i \in 0 .. n : SubSeq(s, 1, i) \in Seq(T)
  BY SubSeqProperties, SMTT(30)
<1>3. Steps(g, S, T) /\ <<Blank>> \in S /\ Lines(s) = Fold(S, g, <<Blank>>, s)
  <2>1. \A x \in S, y \in T : AddedSymbol(x, y) \in S
    BY SymbolIsAdded
  <2>2. <<Blank>> \in S
    BY DEF Blank
  <2> HIDE DEF S, T
  <2>3. s \in Seq(T)
    BY DEF T
  <2> QED BY <2>1, <2>2, <2>3, LinesIsFold
<1>4. \A x \in S, c \in T : g[<<x, c>>] = AddedSymbol(x, c)
  OBVIOUS
<1>5. \A x \in S : x \in Seq(Seq(T)) /\ x # <<>>
  <2>1. \A x \in Seq(C) : x \in Seq(T)
    BY SeqMonotonic
  <2>2. Seq(C) \subseteq Seq(T)
    BY <2>1
  <2> QED BY <2>2, SeqMonotonic
<1> HIDE DEF S, g
<1>6. 0 \in Good
  <2>1. SubSeq(s, 1, 0) = <<>>
    BY SubSeqEmpty
  <2>2. ls(0) = <<Blank>>
    <3>1. Fold(S, g, <<Blank>>, <<>>) = <<Blank>>
      BY <1>3, FoldAppends
    <3> QED BY <2>1, <3>1
  <2>3. Blank \in Seq(T) /\ Blank = <<>> /\ NewLine \in T
    BY DEF Blank
  <2> HIDE DEF T, ls
  <2>4. Unlines(<<Blank>>) = <<>>
    BY <2>3, UnlinesOf
  <2>5. ls(0) \in S /\ Unlines(ls(0)) = SubSeq(s, 1, 0)
    BY <1>3, <2>1, <2>2, <2>4, Zenon
  <2>6. 0 \in 0 .. n
    BY <1>1
  <2> HIDE DEF ls
  <2> QED BY <2>5, <2>6
<1>7. ASSUME NEW i \in 0 .. n - 1, i \in Good PROVE i + 1 \in Good
  <2> DEFINE c == s[i + 1]
             p == SubSeq(s, 1, i)
             x == ls(i)
             y == Append(Last(x), c)
  <2>1. i + 1 \in 1 .. n /\ i \in 0 .. n /\ i + 1 \in 0 .. n
    BY <1>1
  <2>2. SubSeq(s, 1, i + 1) = Append(p, c)
    BY <1>1, <2>1, SubSeqProperties, AppendProperties, SMTT(30)
  <2>3. c \in T /\ p \in Seq(T) /\ x \in S /\ Unlines(x) = p
    BY <1>1, <1>2, <1>7, <2>1
  <2> HIDE DEF c, p, T
  <2>4. ls(i + 1) = AddedSymbol(x, c)
    <3>1. Fold(S, g, <<Blank>>, Append(p, c)) = g[<<Fold(S, g, <<Blank>>, p), c>>]
      BY <1>3, <2>3, FoldAppends
    <3> QED BY <1>4, <2>2, <2>3, <3>1 DEF p
  <2>5. AddedSymbol(x, c) \in S
    BY <2>3, SymbolIsAdded DEF S, T
  <2> HIDE DEF ls, x
  <2>6. x \in Seq(Seq(T)) /\ x # <<>> /\ NewLine \in T
    BY <1>5, <2>3 DEF T
  <2>7. CASE c = NewLine
    <3>1. AddedSymbol(x, c) = Append(x, Blank)
      BY <2>7 DEF AddedSymbol
    <3>2. Blank \in Seq(T) /\ Blank = <<>>
      BY DEF Blank
    <3>3. Unlines(Append(x, Blank)) = p \o <<NewLine>> \o Blank
      BY <2>3, <2>6, <3>2, UnlinesOf
    <3>4. p \o <<NewLine>> \o Blank = Append(p, NewLine)
      BY <2>3, <2>6, <3>2
    <3> QED BY <2>1, <2>2, <2>4, <2>5, <2>7, <3>1, <3>3, <3>4
  <2>8. CASE c # NewLine
    <3> DEFINE front == Front(x)
               last == Last(x)
    <3>1. AddedSymbol(x, c) = Append(front, y)
      BY <2>8 DEF AddedSymbol
    <3>2. Len(x) \in Nat \ {0}
      BY <2>6, EmptySeq
    <3>3. front \in Seq(Seq(T)) /\ last \in Seq(T)
      BY <2>6, <3>2 DEF Front, Last
    <3>4. x = Append(front, last)
      BY <2>6, <3>2, AppendProperties, SubSeqProperties DEF Front, Last
    <3>5. y \in Seq(T)
      BY <2>3, <3>3
    <3> HIDE DEF front, last, y
    <3>6. CASE front = <<>>
      <4>1. x = <<last>> /\ Append(front, y) = <<y>>
        BY <3>4, <3>6
      <4>2. Unlines(<<last>>) = last /\ Unlines(<<y>>) = y
        BY <2>6, <3>3, <3>5, UnlinesOf
      <4>3. y = Append(p, c)
        BY <2>3, <4>1, <4>2 DEF y, last
      <4> QED BY <2>1, <2>2, <2>4, <2>5, <3>1, <4>1, <4>2, <4>3
    <3>7. CASE front # <<>>
      <4> DEFINE u == Unlines(front)
      <4>1. /\ u \in Seq(T) /\ Unlines(Append(front, last)) = u \o <<NewLine>> \o last
            /\ Unlines(Append(front, y)) = u \o <<NewLine>> \o y
        BY <2>6, <3>3, <3>5, <3>7, UnlinesOf
      <4> HIDE DEF u
      <4>2. u \o <<NewLine>> \o y = Append(u \o <<NewLine>> \o last, c)
        <5>1. y = Append(last, c)
          BY DEF y, last
        <5>2. \A q, r \in Seq(T), z \in T : q \o Append(r, z) = Append(q \o r, z)
          OBVIOUS
        <5>3. u \o <<NewLine>> \in Seq(T)
          BY <2>6, <4>1
        <5>4. (u \o <<NewLine>>) \o Append(last, c) = Append((u \o <<NewLine>>) \o last, c)
          BY <2>3, <3>3, <5>2, <5>3
        <5> QED BY <5>1, <5>4, Zenon
      <4>3. Unlines(Append(front, y)) = Append(p, c)
        BY <2>3, <3>4, <4>1, <4>2
      <4> QED BY <2>1, <2>2, <2>4, <2>5, <3>1, <4>3
    <3> QED BY <3>6, <3>7
  <2> QED BY <2>7, <2>8
<1>8. n \in Good
  <2> HIDE DEF Good
  <2>1. 0 .. n \subseteq Good
    BY <1>1, <1>6, <1>7, Induction
  <2> QED BY <1>1, <2>1
<1>9. SubSeq(s, 1, n) = s
  BY SubSeqFull
<1>10. Lines(s) = ls(n)
  BY <1>3, <1>9
<1> QED BY <1>8, <1>9, <1>10 DEF S

-----------------------------------------------------------------------------
(* Entries                                                                  *)

AddedKey(f, ks, k) == IF k \in DOMAIN f THEN Append(ks, k) ELSE ks

AddedEntry(v, ls, k) == ls \o EntryLines(k, v[2][k])

LEMMA SortedIsFold ==
  ASSUME NEW f, NEW S, NEW T, <<>> \in S, \A x \in S, y \in T : AddedKey(f, x, y) \in S, KeyOrder \in Seq(T),
         NEW g, g = [p \in S \X T |-> AddedKey(f, p[1], p[2])]
  PROVE  Steps(g, S, T) /\ Sorted(f) = Fold(S, g, <<>>, KeyOrder)
<1> DEFINE a == <<>>
           n == Len(KeyOrder)
           Step(e) == [u \in SUBSET (1 .. n) |->
                         IF u = {} THEN a ELSE AddedKey(f, e[u \ {Max(u)}], KeyOrder[Max(u)])]
<1>1. a \in S /\ KeyOrder \in Seq(T)
  OBVIOUS
<1> HIDE DEF a
<1>2. n \in Nat /\ DOMAIN KeyOrder = 1 .. n
  BY <1>1, LenProperties
<1>3. \A x \in S, y \in T : AddedKey(f, x, y) \in S /\ g[<<x, y>>] = AddedKey(f, x, y)
  OBVIOUS
<1>4. Steps(g, S, T)
  BY <1>3 DEF Steps
<1>5. \E e : e = Step(e)
  <2> HIDE DEF Step
  <2>1. PICK e : Iterating(e, S, T, g, a, KeyOrder)
    BY <1>1, <1>4, IterateExists
  <2>2. \A u \in SUBSET (1 .. n) : e[u] = IF u = {} THEN a ELSE AddedKey(f, e[u \ {Max(u)}], KeyOrder[Max(u)])
    BY <1>3, <2>1 DEF Iterating
  <2>3. e = [u \in SUBSET (1 .. n) |-> e[u]]
    BY <2>1 DEF Iterating
  <2>4. e = Step(e)
    BY <2>2, <2>3 DEF Step
  <2> QED BY <2>4
<1> DEFINE iter == CHOOSE e : e = Step(e)
<1>6. iter = Step(iter)
  <2> HIDE DEF Step
  <2> QED BY <1>5
<1>7. Sorted(f) = iter[1 .. n]
  BY <1>2 DEF Sorted, AddedKey, a, FoldLeft, MapThenFoldSet
<1> HIDE DEF iter
<1>8. iter[1 .. 0] = a
  BY <1>6
<1>9. ASSUME NEW i \in 1 .. n, iter[1 .. i - 1] \in S
      PROVE  iter[1 .. i] = g[<<iter[1 .. i - 1], KeyOrder[i]>>]
  <2>1. Max(1 .. i) = i /\ (1 .. i) \ {i} = 1 .. i - 1 /\ 1 .. i # {} /\ 1 .. i \in SUBSET (1 .. n)
    BY <1>2, Beginnings, SMTT(30)
  <2>2. iter[1 .. i] = AddedKey(f, iter[1 .. i - 1], KeyOrder[i])
    BY <1>6, <2>1
  <2>3. KeyOrder[i] \in T
    BY <1>1, ElementOfSeq
  <2> QED BY <1>3, <1>9, <2>2, <2>3
<1> HIDE DEF Step
<1>10. iter[1 .. n] = Fold(S, g, a, KeyOrder)
  <2>1. Iterated(iter, S, g, a, KeyOrder)
    BY <1>8, <1>9 DEF Iterated
  <2> QED BY <1>1, <1>4, <2>1, IterationIs
<1> QED BY <1>4, <1>7, <1>10 DEF a

LEMMA TextIsFold ==
  ASSUME NEW v, IsTable(v), NEW S, NEW T, <<>> \in S, \A x \in S, y \in T : AddedEntry(v, x, y) \in S,
         Sorted(v[2]) \in Seq(T), NEW g, g = [p \in S \X T |-> AddedEntry(v, p[1], p[2])]
  PROVE  Steps(g, S, T) /\ SerializeToml(v) = <<"text", Fold(S, g, <<>>, Sorted(v[2]))>>
<1> DEFINE a == <<>>
           s == Sorted(v[2])
           n == Len(s)
           Step(f) == [u \in SUBSET (1 .. n) |->
                         IF u = {} THEN a ELSE AddedEntry(v, f[u \ {Max(u)}], s[Max(u)])]
<1>1. a \in S /\ s \in Seq(T)
  OBVIOUS
<1> DEFINE all == FoldLeft(LAMBDA ls, k : ls \o EntryLines(k, v[2][k]), a, s)
<1>0. SerializeToml(v) = <<"text", all>>
  BY Zenon DEF SerializeToml
<1> HIDE DEF a, s
<1>2. n \in Nat /\ DOMAIN s = 1 .. n
  BY <1>1, LenProperties
<1>3. \A x \in S, y \in T : AddedEntry(v, x, y) \in S /\ g[<<x, y>>] = AddedEntry(v, x, y)
  OBVIOUS
<1>4. Steps(g, S, T)
  BY <1>3 DEF Steps
<1>5. \E f : f = Step(f)
  <2> HIDE DEF Step
  <2>1. PICK f : Iterating(f, S, T, g, a, s)
    BY <1>1, <1>4, IterateExists
  <2>2. \A u \in SUBSET (1 .. n) : f[u] = IF u = {} THEN a ELSE AddedEntry(v, f[u \ {Max(u)}], s[Max(u)])
    BY <1>3, <2>1 DEF Iterating
  <2>3. f = [u \in SUBSET (1 .. n) |-> f[u]]
    BY <2>1 DEF Iterating
  <2>4. f = Step(f)
    BY <2>2, <2>3 DEF Step
  <2> QED BY <2>4
<1> DEFINE iter == CHOOSE f : f = Step(f)
<1>6. iter = Step(iter)
  <2> HIDE DEF Step
  <2> QED BY <1>5
<1>7. all = iter[1 .. n]
  BY <1>2 DEF AddedEntry, FoldLeft, MapThenFoldSet
<1> HIDE DEF iter
<1>8. iter[1 .. 0] = a
  BY <1>6
<1>9. ASSUME NEW i \in 1 .. n, iter[1 .. i - 1] \in S
      PROVE  iter[1 .. i] = g[<<iter[1 .. i - 1], s[i]>>]
  <2>1. Max(1 .. i) = i /\ (1 .. i) \ {i} = 1 .. i - 1 /\ 1 .. i # {} /\ 1 .. i \in SUBSET (1 .. n)
    BY <1>2, Beginnings, SMTT(30)
  <2>2. iter[1 .. i] = AddedEntry(v, iter[1 .. i - 1], s[i])
    BY <1>6, <2>1
  <2>3. s[i] \in T
    BY <1>1, ElementOfSeq
  <2> QED BY <1>3, <1>9, <2>2, <2>3
<1> HIDE DEF Step
<1>10. iter[1 .. n] = Fold(S, g, a, s)
  <2>1. Iterated(iter, S, g, a, s)
    BY <1>8, <1>9 DEF Iterated
  <2> QED BY <1>1, <1>4, <2>1, IterationIs
<1> HIDE DEF all
<1> QED BY <1>0, <1>4, <1>7, <1>10, Zenon DEF a, s

\* What is made of a text that ends with no string open
Made(table) == Progress("", <<>>, table, TRUE)

LEMMA ParsedIsFold ==
  ASSUME NEW S, NEW T, Made(NoFields) \in S, \A x \in S, y \in T : ParseLine(x, y) \in S,
         NEW s \in Seq(T), NEW g, g = [p \in S \X T |-> ParseLine(p[1], p[2])]
  PROVE  Steps(g, S, T) /\ ParseToml(s) = Parsed(Fold(S, g, Made(NoFields), s))
<1> DEFINE a == Made(NoFields)
           n == Len(s)
           Step(f) == [u \in SUBSET (1 .. n) |->
                         IF u = {} THEN a ELSE ParseLine(f[u \ {Max(u)}], s[Max(u)])]
<1>1. a \in S /\ s \in Seq(T)
  OBVIOUS
<1> DEFINE all == FoldLeft(ParseLine, a, s)
<1>0. ParseToml(s) = Parsed(all)
  BY Zenon DEF ParseToml, Made
<1> HIDE DEF a
<1>2. n \in Nat /\ DOMAIN s = 1 .. n
  BY <1>1, LenProperties
<1>3. \A x \in S, y \in T : ParseLine(x, y) \in S /\ g[<<x, y>>] = ParseLine(x, y)
  OBVIOUS
<1>4. Steps(g, S, T)
  BY <1>3 DEF Steps
<1>5. \E f : f = Step(f)
  <2> HIDE DEF Step
  <2>1. PICK f : Iterating(f, S, T, g, a, s)
    BY <1>1, <1>4, IterateExists
  <2>2. \A u \in SUBSET (1 .. n) : f[u] = IF u = {} THEN a ELSE ParseLine(f[u \ {Max(u)}], s[Max(u)])
    BY <1>3, <2>1 DEF Iterating
  <2>3. f = [u \in SUBSET (1 .. n) |-> f[u]]
    BY <2>1 DEF Iterating
  <2>4. f = Step(f)
    BY <2>2, <2>3 DEF Step
  <2> QED BY <2>4
<1> DEFINE iter == CHOOSE f : f = Step(f)
<1>6. iter = Step(iter)
  <2> HIDE DEF Step
  <2> QED BY <1>5
<1>7. all = iter[1 .. n]
  BY <1>2 DEF FoldLeft, MapThenFoldSet
<1> HIDE DEF iter
<1>8. iter[1 .. 0] = a
  BY <1>6
<1>9. ASSUME NEW i \in 1 .. n, iter[1 .. i - 1] \in S
      PROVE  iter[1 .. i] = g[<<iter[1 .. i - 1], s[i]>>]
  <2>1. Max(1 .. i) = i /\ (1 .. i) \ {i} = 1 .. i - 1 /\ 1 .. i # {} /\ 1 .. i \in SUBSET (1 .. n)
    BY <1>2, Beginnings, SMTT(30)
  <2>2. iter[1 .. i] = ParseLine(iter[1 .. i - 1], s[i])
    BY <1>6, <2>1
  <2>3. s[i] \in T
    BY <1>1, ElementOfSeq
  <2> QED BY <1>3, <1>9, <2>2, <2>3
<1> HIDE DEF Step
<1>10. iter[1 .. n] = Fold(S, g, a, s)
  <2>1. Iterated(iter, S, g, a, s)
    BY <1>8, <1>9 DEF Iterated
  <2> QED BY <1>1, <1>4, <2>1, IterationIs
<1> HIDE DEF all
<1> QED BY <1>0, <1>4, <1>7, <1>10, Zenon DEF a

-----------------------------------------------------------------------------
(* What a text makes                                                        *)

\* Keys and values that are all the lines of T can make
MakeAll(K, V, T) ==
  /\ "" \in K
  /\ \A l \in T : l[2] \in K /\ l[3] \in V
  /\ \A s \in Seq(T), l \in T : Text(Unlines(Append(s, l[2]))) \in V

TablesOf(K, V) == UNION {[D -> V] : D \in SUBSET K}

AllProgress(K, V, T) == [key : K, string : Seq(T), table : TablesOf(K, V), ok : BOOLEAN]

LEMMA PutStays ==
  ASSUME NEW K, NEW V, NEW f \in TablesOf(K, V), NEW k \in K, NEW x \in V
  PROVE  Put(f, k, x) \in TablesOf(K, V)
<1>1. PICK D \in SUBSET K : f \in [D -> V]
  BY DEF TablesOf
<1>2. Put(f, k, x) \in [D \cup {k} -> V]
  BY <1>1 DEF Put
<1>3. D \cup {k} \in SUBSET K
  OBVIOUS
<1> QED BY <1>2, <1>3 DEF TablesOf

LEMMA NothingMade == ASSUME NEW K, NEW V, NEW T, MakeAll(K, V, T) PROVE Made(NoFields) \in AllProgress(K, V, T)
<1>1. NoFields \in [{} -> V]
  <2>1. NoFields = [i \in {} |-> NoFields[i]]
    BY DEF NoFields
  <2> QED BY <2>1
<1>2. NoFields \in TablesOf(K, V)
  BY <1>1, {} \in SUBSET K DEF TablesOf
<1>3. "" \in K /\ <<>> \in Seq(T) /\ TRUE \in BOOLEAN
  BY EmptySeq DEF MakeAll
<1> DEFINE F == TablesOf(K, V)
           n == NoFields
<1> HIDE DEF F, n
<1>4. Progress("", <<>>, n, TRUE) \in [key : K, string : Seq(T), table : F, ok : BOOLEAN]
  BY <1>2, <1>3 DEF Progress, F, n
<1> QED BY <1>4 DEF Made, AllProgress, F, n

LEMMA LinesMake ==
  ASSUME NEW K, NEW V, NEW T, MakeAll(K, V, T), NEW p \in AllProgress(K, V, T), NEW l \in T
  PROVE  ParseLine(p, l) \in AllProgress(K, V, T)
<1> DEFINE F == TablesOf(K, V)
           S == AllProgress(K, V, T)
<1>1. p.key \in K /\ p.string \in Seq(T) /\ p.table \in F /\ p.ok \in BOOLEAN
  BY DEF AllProgress
<1>2. l[2] \in K /\ l[3] \in V /\ Text(Unlines(Append(p.string, l[2]))) \in V /\ "" \in K
  BY <1>1 DEF MakeAll
<1>3. Put(p.table, p.key, Text(Unlines(Append(p.string, l[2])))) \in F /\ Put(p.table, l[2], l[3]) \in F
  BY <1>1, <1>2, PutStays
<1>4. Append(p.string, l) \in Seq(T) /\ <<>> \in Seq(T)
  BY <1>1, AppendProperties, EmptySeq
<1>5. ASSUME NEW k \in K, NEW s \in Seq(T), NEW t \in F, NEW ok \in BOOLEAN PROVE Progress(k, s, t, ok) \in S
  <2> HIDE DEF F
  <2>1. Progress(k, s, t, ok) \in [key : K, string : Seq(T), table : F, ok : BOOLEAN]
    BY DEF Progress
  <2> QED BY <2>1 DEF AllProgress, F
<1> HIDE DEF F, S
<1>6. p \in S
  BY DEF S
<1>7. TRUE \in BOOLEAN /\ FALSE \in BOOLEAN
  OBVIOUS
<1>14. (IsOpen(l) => ~IsEntry(l) /\ ~IsBlank(l)) /\ (IsEntry(l) => ~IsBlank(l))
  BY DEF IsOpen, IsEntry, IsBlank
<1>8. CASE p.key # "" /\ IsClose(l)
  <2>1. ParseLine(p, l) = Progress("", <<>>, Put(p.table, p.key, Text(Unlines(Append(p.string, l[2])))), p.ok)
    BY <1>8, Zenon DEF ParseLine
  <2> QED BY <1>1, <1>2, <1>3, <1>4, <1>5, <2>1 DEF S
<1>9. CASE p.key # "" /\ ~IsClose(l)
  <2>1. ParseLine(p, l) = Progress(p.key, Append(p.string, l), p.table, p.ok)
    BY <1>9, Zenon DEF ParseLine
  <2> QED BY <1>1, <1>4, <1>5, <2>1 DEF S
<1>10. CASE p.key = "" /\ IsOpen(l)
  <2>1. ParseLine(p, l) = Progress(l[2], <<>>, p.table, p.ok)
    BY <1>10, <1>14, Zenon DEF ParseLine
  <2> QED BY <1>1, <1>2, <1>4, <1>5, <2>1 DEF S
<1>11. CASE p.key = "" /\ ~IsOpen(l) /\ IsEntry(l)
  <2>1. ParseLine(p, l) = Progress("", <<>>, Put(p.table, l[2], l[3]), p.ok)
    BY <1>11, <1>14, Zenon DEF ParseLine
  <2> QED BY <1>1, <1>2, <1>3, <1>4, <1>5, <2>1 DEF S
<1>12. CASE p.key = "" /\ ~IsOpen(l) /\ ~IsEntry(l) /\ IsBlank(l)
  <2>1. ParseLine(p, l) = p
    BY <1>12, Zenon DEF ParseLine
  <2> QED BY <1>6, <2>1 DEF S
<1>13. CASE p.key = "" /\ ~IsOpen(l) /\ ~IsEntry(l) /\ ~IsBlank(l)
  <2>1. ParseLine(p, l) = Progress("", <<>>, p.table, FALSE)
    BY <1>13, Zenon DEF ParseLine
  <2> QED BY <1>1, <1>2, <1>4, <1>5, <1>7, <2>1 DEF S
<1> QED BY <1>8, <1>9, <1>10, <1>11, <1>12, <1>13

-----------------------------------------------------------------------------
(* Keys in their order                                                      *)

LEMMA AppendedRange ==
  ASSUME NEW A, NEW s \in Seq(A), NEW x \in A
  PROVE  Range(Append(s, x)) = Range(s) \cup {x}
<1> DEFINE n == Len(s)
           r == Append(s, x)
<1>1. /\ n \in Nat /\ DOMAIN s = 1 .. n /\ DOMAIN r = 1 .. n + 1 /\ r[n + 1] = x
      /\ \A i \in 1 .. n : r[i] = s[i]
  BY AppendProperties, LenProperties
<1> HIDE DEF n, r
<1>2. \A i \in 1 .. n + 1 : i \in 1 .. n \/ i = n + 1
  BY <1>1
<1>3. n + 1 \in 1 .. n + 1 /\ 1 .. n \subseteq 1 .. n + 1
  BY <1>1
<1> QED BY <1>1, <1>2, <1>3 DEF Range, r

\* A table's keys are all there, and no others.
LEMMA SortedIs ==
  ASSUME NEW f, KeyOrder \in Seq(Range(KeyOrder)), DOMAIN f \subseteq Range(KeyOrder)
  PROVE  Sorted(f) \in Seq(DOMAIN f) /\ Range(Sorted(f)) = DOMAIN f
<1> DEFINE T == Range(KeyOrder)
           D == DOMAIN f
           S == Seq(D)
           g == [p \in S \X T |-> AddedKey(f, p[1], p[2])]
           n == Len(KeyOrder)
           ks(i) == Fold(S, g, <<>>, SubSeq(KeyOrder, 1, i))
           Good == {i \in 0 .. n : \A j \in 1 .. i : KeyOrder[j] \in D => KeyOrder[j] \in Range(ks(i))}
<1>1. n \in Nat /\ \A i \in 1 .. n : KeyOrder[i] \in T
  BY LenProperties, ElementOfSeq
<1>2. \A i \in 0 .. n : SubSeq(KeyOrder, 1, i) \in Seq(T)
  BY SubSeqProperties, SMTT(30)
<1>3. Steps(g, S, T) /\ <<>> \in S /\ Sorted(f) = Fold(S, g, <<>>, KeyOrder)
  <2>1. \A x \in S, y \in T : AddedKey(f, x, y) \in S
    BY AppendProperties DEF AddedKey
  <2>2. <<>> \in S
    BY EmptySeq
  <2> HIDE DEF S, T
  <2>3. KeyOrder \in Seq(T)
    BY DEF T
  <2> QED BY <2>1, <2>2, <2>3, SortedIsFold
<1>4. \A x \in S, k \in T : g[<<x, k>>] = AddedKey(f, x, k)
  OBVIOUS
<1> HIDE DEF g
<1>5. \A i \in 0 .. n : ks(i) \in S
  <2> HIDE DEF S, T
  <2> QED BY <1>2, <1>3, FoldAppends
<1>6. 0 \in Good
  BY <1>1
<1>7. ASSUME NEW i \in 0 .. n - 1, i \in Good PROVE i + 1 \in Good
  <2> DEFINE k == KeyOrder[i + 1]
             p == SubSeq(KeyOrder, 1, i)
  <2>1. i + 1 \in 1 .. n /\ i \in 0 .. n /\ i + 1 \in 0 .. n
    BY <1>1
  <2>2. SubSeq(KeyOrder, 1, i + 1) = Append(p, k)
    BY <1>1, <2>1, SubSeqProperties, AppendProperties, SMTT(30)
  <2>3. k \in T /\ p \in Seq(T) /\ ks(i) \in S
    BY <1>1, <1>2, <1>5, <2>1
  <2>4. ks(i + 1) = AddedKey(f, ks(i), k)
    <3> HIDE DEF k, p, S, T
    <3>1. Fold(S, g, <<>>, Append(p, k)) = g[<<Fold(S, g, <<>>, p), k>>]
      BY <1>3, <2>3, FoldAppends
    <3> QED BY <1>4, <2>2, <2>3, <3>1 DEF p
  <2>5. \A j \in 1 .. i : KeyOrder[j] \in D => KeyOrder[j] \in Range(ks(i))
    BY <1>7
  <2> DEFINE x == ks(i)
             y == ks(i + 1)
  <2> HIDE DEF x, y, D, ks
  <2>6. x \in Seq(D) /\ y = AddedKey(f, x, k)
    BY <2>3, <2>4 DEF x, y
  <2>7. Range(x) \subseteq Range(y) /\ (k \in D => k \in Range(y))
    <3> HIDE DEF k
    <3>1. CASE k \in D
      <4>1. Range(Append(x, k)) = Range(x) \cup {k}
        BY <2>6, <3>1, AppendedRange
      <4> QED BY <2>6, <3>1, <4>1 DEF AddedKey, D
    <3>2. CASE k \notin D
      BY <2>6, <3>2 DEF AddedKey, D
    <3> QED BY <3>1, <3>2
  <2>9. \A j \in 1 .. i + 1 : KeyOrder[j] \in D => KeyOrder[j] \in Range(y)
    <3>1. \A j \in 1 .. i + 1 : j \in 1 .. i \/ j = i + 1
      BY <1>1
    <3> QED BY <2>5, <2>7, <3>1 DEF x
  <2> QED BY <2>1, <2>9 DEF y
<1>8. n \in Good
  <2> HIDE DEF Good
  <2>1. 0 .. n \subseteq Good
    BY <1>1, <1>6, <1>7, Induction
  <2> QED BY <1>1, <2>1
<1>9. SubSeq(KeyOrder, 1, n) = KeyOrder
  BY SubSeqFull
<1>10. Sorted(f) = ks(n)
  BY <1>3, <1>9
<1>11. Sorted(f) \in Seq(D)
  BY <1>1, <1>5, <1>10
<1>12. Range(Sorted(f)) \subseteq D
  BY <1>11, ElementOfSeq, LenProperties DEF Range
<1>13. D \subseteq Range(Sorted(f))
  <2>1. ASSUME NEW k \in D PROVE k \in Range(Sorted(f))
    <3>1. PICK j \in DOMAIN KeyOrder : k = KeyOrder[j]
      BY DEF Range
    <3>2. j \in 1 .. n
      BY <3>1, LenProperties
    <3> QED BY <1>8, <1>10, <3>1, <3>2
  <2> QED BY <2>1
<1> QED BY <1>11, <1>12, <1>13

-----------------------------------------------------------------------------
(* Entries one by one                                                       *)

\* What is made where a string of that key is open
Within(k, s, table) == Progress(k, s, table, TRUE)

LEMMA MadeIs ==
  ASSUME NEW t
  PROVE  Made(t).key = "" /\ Made(t).table = t /\ Made(t).ok = TRUE
BY DEF Made, Progress

LEMMA EntryLine == \A t, k, x : ParseLine(Made(t), <<"=", k, x>>) = Made(Put(t, k, x))
<1> TAKE t, k, x
<1> DEFINE l == <<"=", k, x>>
           p == Made(t)
<1>1. IsEntry(l) /\ ~IsOpen(l) /\ l[2] = k /\ l[3] = x
  BY DEF IsEntry, IsOpen, Blank
<1>2. p.key = "" /\ p.table = t /\ p.ok = TRUE
  BY MadeIs
<1> HIDE DEF l, p
<1>4. ~IsBlank(l)
  BY <1>1 DEF IsEntry, IsBlank
<1>3. ParseLine(p, l) = Progress("", <<>>, Put(p.table, l[2], l[3]), p.ok)
  BY <1>1, <1>2, <1>4, Zenon DEF ParseLine
<1> QED BY <1>1, <1>2, <1>3 DEF l, p, Made

LEMMA OpenLine == \A t, k : ParseLine(Made(t), <<"open", k>>) = Within(k, <<>>, t)
<1> TAKE t, k
<1> DEFINE l == <<"open", k>>
           p == Made(t)
<1>1. IsOpen(l) /\ ~IsEntry(l) /\ l[2] = k
  BY DEF IsEntry, IsOpen, Blank
<1>2. p.key = "" /\ p.table = t /\ p.ok = TRUE
  BY MadeIs
<1> HIDE DEF l, p
<1>4. ~IsBlank(l)
  BY <1>1 DEF IsOpen, IsBlank
<1>3. ParseLine(p, l) = Progress(l[2], <<>>, p.table, p.ok)
  BY <1>1, <1>2, <1>4, Zenon DEF ParseLine
<1> QED BY <1>1, <1>2, <1>3 DEF l, p, Within

LEMMA InnerLine ==
  ASSUME NEW t, NEW k, IsKey(k), NEW s, NEW l, ~IsClose(l)
  PROVE  ParseLine(Within(k, s, t), l) = Within(k, Append(s, l), t)
<1> DEFINE p == Within(k, s, t)
<1>1. p.key = k /\ p.string = s /\ p.table = t /\ p.ok = TRUE
  BY DEF Within, Progress
<1> HIDE DEF p
<1>2. ParseLine(p, l) = Progress(p.key, Append(p.string, l), p.table, p.ok)
  BY <1>1, Zenon DEF ParseLine, IsKey
<1> QED BY <1>1, <1>2 DEF p, Within

LEMMA CloseLine ==
  ASSUME NEW t, NEW k, IsKey(k), NEW s, NEW x
  PROVE  ParseLine(Within(k, s, t), <<"close", x>>) = Made(Put(t, k, Text(Unlines(Append(s, x)))))
<1> DEFINE p == Within(k, s, t)
           l == <<"close", x>>
<1>1. p.key = k /\ p.string = s /\ p.table = t /\ p.ok = TRUE
  BY DEF Within, Progress
<1>2. IsClose(l) /\ l[2] = x
  BY DEF IsClose, Blank
<1> HIDE DEF p, l
<1>3. ParseLine(p, l) = Progress("", <<>>, Put(p.table, p.key, Text(Unlines(Append(p.string, l[2])))), p.ok)
  BY <1>1, <1>2, Zenon DEF ParseLine, IsKey
<1> QED BY <1>1, <1>2, <1>3 DEF p, l, Made

\* g reads lines of T.
Parses(g, K, V, T) ==
  MakeAll(K, V, T) /\ g = [p \in AllProgress(K, V, T) \X T |-> ParseLine(p[1], p[2])]

LEMMA ParsesLines ==
  ASSUME NEW g, NEW K, NEW V, NEW T, Parses(g, K, V, T)
  PROVE  /\ Steps(g, AllProgress(K, V, T), T)
         /\ \A p \in AllProgress(K, V, T), l \in T : g[<<p, l>>] = ParseLine(p, l)
         /\ \A t \in TablesOf(K, V) : Made(t) \in AllProgress(K, V, T)
         /\ \A k \in K, s \in Seq(T), t \in TablesOf(K, V) : Within(k, s, t) \in AllProgress(K, V, T)
<1> DEFINE S == AllProgress(K, V, T)
           F == TablesOf(K, V)
<1>1. \A p \in S, l \in T : ParseLine(p, l) \in S
  BY LinesMake DEF Parses
<1>2. g = [p \in S \X T |-> ParseLine(p[1], p[2])] /\ "" \in K /\ <<>> \in Seq(T)
  BY EmptySeq DEF Parses, MakeAll
<1>3. ASSUME NEW k \in K, NEW s \in Seq(T), NEW t \in F PROVE Within(k, s, t) \in S
  <2> HIDE DEF F
  <2>1. Progress(k, s, t, TRUE) \in [key : K, string : Seq(T), table : F, ok : BOOLEAN]
    BY DEF Progress
  <2> QED BY <2>1 DEF AllProgress, F, Within
<1>4. ASSUME NEW t \in F PROVE Made(t) \in S
  <2> HIDE DEF S, F
  <2> QED BY <1>2, <1>3 DEF Within, Made
<1> HIDE DEF S
<1>5. Steps(g, S, T) /\ \A p \in S, l \in T : g[<<p, l>>] = ParseLine(p, l)
  BY <1>1, <1>2 DEF Steps
<1> QED BY <1>3, <1>4, <1>5 DEF S

\* T has the lines that an entry may take.
HasLines(T, k, x, C) ==
  /\ <<"=", k, x>> \in T /\ <<"open", k>> \in T
  /\ \A l \in Seq(C) : l \in T /\ <<"close", l>> \in T

\* The lines of an entry put its value in the table.
LEMMA EntryMakes ==
  ASSUME NEW g, NEW K, NEW V, NEW T, Parses(g, K, V, T), NEW t \in TablesOf(K, V),
         NEW k \in K, IsKey(k), NEW x \in V, NEW C, OfSymbols(x, C), HasLines(T, k, x, C)
  PROVE  /\ EntryLines(k, x) \in Seq(T)
         /\ Put(t, k, x) \in TablesOf(K, V)
         /\ Fold(AllProgress(K, V, T), g, Made(t), EntryLines(k, x)) = Made(Put(t, k, x))
<1> DEFINE S == AllProgress(K, V, T)
           a == Made(t)
<1>1. Steps(g, S, T) /\ a \in S /\ \A p \in S, l \in T : g[<<p, l>>] = ParseLine(p, l)
  BY ParsesLines
<1>2. ASSUME NEW p \in S, NEW l \in T PROVE Fold(S, g, p, <<l>>) = ParseLine(p, l)
  <2> HIDE DEF S
  <2>1. <<>> \in Seq(T) /\ Append(<<>>, l) = <<l>>
    BY EmptySeq
  <2>2. Fold(S, g, p, <<>>) = p
    BY <1>1, FoldAppends
  <2> DEFINE e == <<>>
  <2>3. Append(e, l) = <<l>> /\ Fold(S, g, p, e) = p
    BY <2>1, <2>2
  <2>4. e \in Seq(T)
    BY <2>1
  <2> HIDE DEF e
  <2>5. Steps(g, S, T) /\ g[<<p, l>>] = ParseLine(p, l)
    BY <1>1
  <2>6. Fold(S, g, p, Append(e, l)) = g[<<Fold(S, g, p, e), l>>]
    BY <2>4, <2>5, FoldAppends
  <2> QED BY <2>3, <2>5, <2>6
<1>3. Put(t, k, x) \in TablesOf(K, V)
  BY PutStays
<1>4. CASE ~IsMultiline(x)
  <2>1. EntryLines(k, x) = << <<"=", k, x>> >>
    BY <1>4, Zenon DEF EntryLines
  <2> DEFINE l == <<"=", k, x>>
  <2>3. l \in T
    BY DEF HasLines
  <2> HIDE DEF S, a, l
  <2>4. Fold(S, g, a, <<l>>) = ParseLine(a, l) /\ <<l>> \in Seq(T)
    BY <1>1, <1>2, <2>3
  <2>5. ParseLine(a, l) = Made(Put(t, k, x))
    BY EntryLine DEF a, l
  <2> QED BY <1>3, <2>1, <2>4, <2>5 DEF S, a, l
<1>5. CASE IsMultiline(x)
  <2>1. PICK s \in Seq(C \cup {NewLine}) : x = Text(s)
    BY <1>5 DEF IsMultiline, OfSymbols
  <2> DEFINE ls == Lines(s)
             f == Front(ls)
             e == Last(ls)
             n == Len(f)
  <2>2. ls \in Seq(Seq(C)) /\ ls # <<>> /\ Unlines(ls) = s
    BY LinesAndBack
  <2> HIDE DEF ls
  <2>3. f \in Seq(Seq(C)) /\ e \in Seq(C) /\ Append(f, e) = ls
    <3>1. Len(ls) \in Nat \ {0}
      BY <2>2, EmptySeq
    <3>2. f \in Seq(Seq(C)) /\ e \in Seq(C)
      BY <2>2, <3>1 DEF Front, Last
    <3>3. ls = Append(f, e)
      BY <2>2, <3>1, AppendProperties, SubSeqProperties DEF Front, Last
    <3> QED BY <3>2, <3>3
  <2>4. EntryLines(k, x) = (<< <<"open", k>> >> \o f) \o << <<"close", e>> >>
    <3>1. x[2] = s
      BY <2>1 DEF Text
    <3> QED BY <1>5, <3>1, Zenon DEF EntryLines, ls
  <2> HIDE DEF f, e
  <2>5. f \in Seq(T) /\ << <<"open", k>> >> \in Seq(T) /\ << <<"close", e>> >> \in Seq(T)
    <3>1. Seq(C) \subseteq T /\ <<"open", k>> \in T /\ <<"close", e>> \in T
      BY <2>3 DEF HasLines
    <3>2. f \in Seq(T)
      BY <2>3, <3>1, SeqMonotonic
    <3>3. \A l \in T : <<l>> \in Seq(T)
      OBVIOUS
    <3> QED BY <3>1, <3>2, <3>3
  <2>6. Within(k, <<>>, t) \in S
    BY ParsesLines, EmptySeq
  <2>7. Fold(S, g, a, << <<"open", k>> >>) = Within(k, <<>>, t)
    <3>1. Fold(S, g, a, << <<"open", k>> >>) = ParseLine(a, <<"open", k>>)
      <4> DEFINE l == <<"open", k>>
      <4>1. l \in T
        BY DEF HasLines
      <4> HIDE DEF S, a, l
      <4>2. Fold(S, g, a, <<l>>) = ParseLine(a, l)
        BY <1>1, <1>2, <4>1
      <4> QED BY <4>2 DEF l
    <3> QED BY <3>1, OpenLine
  <2> DEFINE w == Within(k, <<>>, t)
             Good == {i \in 0 .. n : Fold(S, g, w, SubSeq(f, 1, i)) = Within(k, SubSeq(f, 1, i), t)}
  <2>8. n \in Nat /\ \A i \in 1 .. n : f[i] \in Seq(C) /\ f[i] \in T
    BY <2>3, LenProperties, ElementOfSeq DEF HasLines
  <2>9. \A i \in 0 .. n : SubSeq(f, 1, i) \in Seq(T)
    BY <2>5, SubSeqProperties, SMTT(30)
  <2>10. 0 \in Good
    <3>1. SubSeq(f, 1, 0) = <<>>
      BY SubSeqEmpty
    <3>2. Fold(S, g, w, <<>>) = w
      <4> HIDE DEF S, w
      <4>1. w \in S
        BY <2>6 DEF w
      <4> QED BY <1>1, <4>1, FoldAppends
    <3>3. Fold(S, g, w, SubSeq(f, 1, 0)) = Within(k, SubSeq(f, 1, 0), t)
      BY <3>1, <3>2
    <3>4. 0 \in 0 .. n
      BY <2>8
    <3> HIDE DEF w, n, S
    <3> QED BY <3>3, <3>4
  <2>11. ASSUME NEW i \in 0 .. n - 1, i \in Good PROVE i + 1 \in Good
    <3> DEFINE r == SubSeq(f, 1, i)
               l == f[i + 1]
    <3>1. i + 1 \in 1 .. n /\ i + 1 \in 0 .. n /\ i \in 0 .. n
      BY <2>8
    <3>2. SubSeq(f, 1, i + 1) = Append(r, l)
      BY <2>5, <2>8, <3>1, SubSeqProperties, AppendProperties, SMTT(30)
    <3>3. r \in Seq(T) /\ l \in T /\ l \in Seq(C)
      BY <2>8, <2>9, <3>1
    <3>4. Within(k, r, t) \in S
      BY <3>3, ParsesLines
    <3>5. ~IsClose(l)
      <4>1. l # <<>> => Len(l) \in Nat \ {0}
        BY <3>3, EmptySeq, LenProperties
      <4>2. l # <<>> => l[1] \in C
        BY <3>3, <4>1, ElementOfSeq
      <4> QED BY <4>2 DEF IsClose, Blank, OfSymbols
    <3>6. Fold(S, g, w, r) = Within(k, r, t)
      BY <2>11
    <3> HIDE DEF S, w, r, l
    <3>7. Fold(S, g, w, Append(r, l)) = g[<<Fold(S, g, w, r), l>>]
      <4>1. w \in S
        BY <2>6 DEF w
      <4> QED BY <1>1, <3>3, <4>1, FoldAppends
    <3>8. Fold(S, g, w, Append(r, l)) = ParseLine(Within(k, r, t), l)
      BY <1>1, <3>3, <3>4, <3>6, <3>7
    <3>9. Fold(S, g, w, Append(r, l)) = Within(k, Append(r, l), t)
      BY <3>5, <3>8, InnerLine
    <3>10. Fold(S, g, w, SubSeq(f, 1, i + 1)) = Within(k, SubSeq(f, 1, i + 1), t)
      BY <3>2, <3>9
    <3> QED BY <3>1, <3>10
  <2>12. n \in Good
    <3> HIDE DEF Good
    <3>1. 0 .. n \subseteq Good
      BY <2>8, <2>10, <2>11, Induction
    <3> QED BY <2>8, <3>1
  <2>13. SubSeq(f, 1, n) = f
    BY <2>5, SubSeqFull
  <2>14. Fold(S, g, w, f) = Within(k, f, t)
    BY <2>12, <2>13
  <2>15. Within(k, f, t) \in S
    BY <2>5, ParsesLines
  <2> DEFINE o == << <<"open", k>> >>
             z == << <<"close", e>> >>
  <2>16. Fold(S, g, Within(k, f, t), z) = ParseLine(Within(k, f, t), <<"close", e>>)
    <3> DEFINE l == <<"close", e>>
    <3>1. l \in T
      BY <2>3 DEF HasLines
    <3> HIDE DEF S, l
    <3>2. Fold(S, g, Within(k, f, t), <<l>>) = ParseLine(Within(k, f, t), l)
      BY <1>2, <2>15, <3>1
    <3> QED BY <3>2 DEF l
  <2>17. ParseLine(Within(k, f, t), <<"close", e>>) = Made(Put(t, k, Text(Unlines(Append(f, e)))))
    BY CloseLine
  <2> DEFINE p == Within(k, f, t)
  <2>18. Fold(S, g, a, (o \o f) \o z) = Fold(S, g, p, z)
    <3>1. o \in Seq(T) /\ z \in Seq(T) /\ f \in Seq(T)
      BY <2>5
    <3>2. Fold(S, g, a, o) = w /\ Fold(S, g, w, f) = p
      BY <2>7, <2>14
    <3> HIDE DEF S, o, z, p, w, a
    <3>3. Fold(S, g, a, o \o f) = Fold(S, g, Fold(S, g, a, o), f)
      BY <1>1, <3>1, FoldConcat
    <3> DEFINE r == o \o f
    <3>4. r \in Seq(T)
      BY <3>1, ConcatProperties
    <3> HIDE DEF r
    <3>5. Fold(S, g, a, r \o z) = Fold(S, g, Fold(S, g, a, r), z)
      BY <1>1, <3>1, <3>4, FoldConcat
    <3> QED BY <3>2, <3>3, <3>5 DEF r
  <2>19. Text(Unlines(Append(f, e))) = x
    BY <2>1, <2>2, <2>3
  <2>20. (o \o f) \o z \in Seq(T)
    BY <2>5
  <2> QED BY <1>3, <2>4, <2>16, <2>17, <2>18, <2>19, <2>20
<1> QED BY <1>4, <1>5

-----------------------------------------------------------------------------
(* Tables                                                                   *)

LEMMA AllIsMade == ASSUME NEW T PROVE \E K, V : MakeAll(K, V, T)
<1> DEFINE K == {""} \cup {l[2] : l \in T}
           M == UNION {{Text(Unlines(Append(s, l[2]))) : s \in Seq(T)} : l \in T}
           V == {l[3] : l \in T} \cup M
<1>1. "" \in K
  OBVIOUS
<1>2. \A l \in T : l[2] \in K
  OBVIOUS
<1>3. \A l \in T : l[3] \in V
  OBVIOUS
<1>4. ASSUME NEW s \in Seq(T), NEW l \in T PROVE Text(Unlines(Append(s, l[2]))) \in M
  <2> DEFINE m == {Text(Unlines(Append(r, l[2]))) : r \in Seq(T)}
  <2>1. Text(Unlines(Append(s, l[2]))) \in m
    OBVIOUS
  <2>2. m \in {{Text(Unlines(Append(r, j[2]))) : r \in Seq(T)} : j \in T}
    OBVIOUS
  <2> HIDE DEF m
  <2> QED BY <2>1, <2>2
<1> HIDE DEF M
<1>5. \A s \in Seq(T), l \in T : Text(Unlines(Append(s, l[2]))) \in V
  BY <1>4
<1> HIDE DEF K, V
<1>6. MakeAll(K, V, T)
  BY <1>1, <1>2, <1>3, <1>5 DEF MakeAll
<1> QED BY <1>6

\* The lines there may be of the entries of f
LinesOf(f, C) ==
  {<<"=", k, f[k]>> : k \in DOMAIN f} \cup {<<"open", k>> : k \in DOMAIN f}
    \cup Seq(C) \cup {<<"close", l>> : l \in Seq(C)}

LEMMA LinesAreThere == ASSUME NEW f, NEW C, NEW k \in DOMAIN f PROVE HasLines(LinesOf(f, C), k, f[k], C)
<1> DEFINE T == LinesOf(f, C)
           Q == Seq(C)
<1>1. <<"=", k, f[k]>> \in {<<"=", j, f[j]>> : j \in DOMAIN f} /\ <<"open", k>> \in {<<"open", j>> : j \in DOMAIN f}
  OBVIOUS
<1>2. <<"=", k, f[k]>> \in T
  BY <1>1, Zenon DEF LinesOf
<1>3. <<"open", k>> \in T
  BY <1>1, Zenon DEF LinesOf
<1> HIDE DEF Q
<1>4. ASSUME NEW l \in Q PROVE l \in T /\ <<"close", l>> \in T
  <2>1. <<"close", l>> \in {<<"close", j>> : j \in Q}
    OBVIOUS
  <2> QED BY <2>1, Zenon DEF LinesOf, Q
<1> QED BY <1>2, <1>3, <1>4 DEF HasLines, Q

\* The entries of f with those keys
Entries(f, D) == [k \in D |-> f[k]]

LEMMA NoEntries == \A f : Entries(f, {}) = NoFields
BY DEF Entries, NoFields

LEMMA OneMoreEntry == \A f, D, k : Put(Entries(f, D), k, f[k]) = Entries(f, D \cup {k})
BY DEF Entries, Put

\* The canonical text of a record reads as that record: every field with its
\* value, strings of several lines too, and no others. (serialize and parse of
\* canonical.rs: no line of a string is taken for the line of another field.)
THEOREM TomlReadsBack ==
  ASSUME KeyOrder \in Seq(Range(KeyOrder)), NEW f, NEW C, IsTableOf(f, C)
  PROVE  SerializeToml(Table(f))[1] = "text" /\ ParseToml(SerializeToml(Table(f))[2]) = Table(f)
<1> DEFINE D == DOMAIN f
           T == LinesOf(f, C)
           v == Table(f)
           keys == Sorted(f)
           n == Len(keys)
<1>1. PICK K, V : MakeAll(K, V, T)
  BY AllIsMade
<1> DEFINE S == AllProgress(K, V, T)
           F == TablesOf(K, V)
           g == [p \in S \X T |-> ParseLine(p[1], p[2])]
           h == [p \in Seq(T) \X D |-> AddedEntry(v, p[1], p[2])]
<1>2. \A k \in D : IsKey(k) /\ k \in K /\ f[k] \in V /\ OfSymbols(f[k], C) /\ HasLines(T, k, f[k], C)
  <2> SUFFICES ASSUME NEW k \in D PROVE IsKey(k) /\ k \in K /\ f[k] \in V /\ OfSymbols(f[k], C) /\ HasLines(T, k, f[k], C)
    OBVIOUS
  <2>1. HasLines(T, k, f[k], C)
    BY LinesAreThere
  <2> DEFINE l == <<"=", k, f[k]>>
  <2> HIDE DEF T
  <2>2. l \in T /\ l[2] = k /\ l[3] = f[k]
    BY <2>1 DEF HasLines
  <2> HIDE DEF l
  <2>3. l[2] \in K /\ l[3] \in V
    BY <1>1, <2>2 DEF MakeAll
  <2> QED BY <2>1, <2>2, <2>3 DEF IsTableOf
<1>3. NoFields \in F
  <2>1. Made(NoFields) \in S
    BY <1>1, NothingMade
  <2>2. Made(NoFields).table \in F
    BY <2>1 DEF AllProgress
  <2> QED BY <2>2, MadeIs
<1> HIDE DEF T
<1>4. Parses(g, K, V, T)
  BY <1>1 DEF Parses
<1> HIDE DEF g
<1>5. /\ Steps(g, S, T)
      /\ \A t \in F : Made(t) \in S
  BY <1>4, ParsesLines
<1>6. ASSUME NEW t \in F, NEW k \in D
      PROVE  /\ EntryLines(k, f[k]) \in Seq(T) /\ Put(t, k, f[k]) \in F
             /\ Fold(S, g, Made(t), EntryLines(k, f[k])) = Made(Put(t, k, f[k]))
  BY <1>2, <1>4, EntryMakes
<1>7. keys \in Seq(D) /\ Range(keys) = D
  <2>1. DOMAIN f \subseteq Range(KeyOrder)
    BY DEF IsTableOf, IsKey
  <2> QED BY <2>1, SortedIs
<1>8. IsTable(v) /\ v[2] = f
  BY DEF IsTable, Table
<1> HIDE DEF F, D, S, keys, v
<1>9. \A x \in Seq(T), k \in D : AddedEntry(v, x, k) = x \o EntryLines(k, f[k]) /\ AddedEntry(v, x, k) \in Seq(T)
  BY <1>3, <1>6, <1>8, ConcatProperties DEF AddedEntry
<1>10. \A x \in Seq(T), k \in D : h[<<x, k>>] = x \o EntryLines(k, f[k])
  BY <1>9
<1>11. <<>> \in Seq(T)
  BY EmptySeq
<1>12. Steps(h, Seq(T), D) /\ SerializeToml(v) = <<"text", Fold(Seq(T), h, <<>>, keys)>>
  <2> DEFINE Q == Seq(T)
  <2>1. <<>> \in Q /\ \A x \in Q, k \in D : AddedEntry(v, x, k) \in Q
    BY <1>9, <1>11
  <2> HIDE DEF Q
  <2>2. Sorted(v[2]) \in Seq(D)
    BY <1>7, <1>8 DEF keys
  <2>3. Steps(h, Q, D) /\ SerializeToml(v) = <<"text", Fold(Q, h, <<>>, Sorted(v[2]))>>
    <3>1. h = [p \in Q \X D |-> AddedEntry(v, p[1], p[2])]
      BY DEF Q
    <3> HIDE DEF h
    <3> QED BY <1>8, <2>1, <2>2, <3>1, TextIsFold
  <2> QED BY <1>8, <2>3 DEF Q, keys
<1> HIDE DEF h
<1> DEFINE Q == Seq(T)
           a == Made(NoFields)
           ks(i) == SubSeq(keys, 1, i)
           text(i) == Fold(Q, h, <<>>, ks(i))
           part(i) == Entries(f, Range(ks(i)))
           Good == {i \in 0 .. n : text(i) \in Q /\ part(i) \in F /\ Fold(S, g, a, text(i)) = Made(part(i))}
<1>13. n \in Nat /\ (\A i \in 1 .. n : keys[i] \in D) /\ <<>> \in Q /\ Steps(h, Q, D)
  BY <1>7, <1>11, <1>12, LenProperties, ElementOfSeq
<1>14. \A i \in 0 .. n : ks(i) \in Seq(D)
  BY <1>7, SubSeqProperties, SMTT(30)
<1> HIDE DEF Q
<1>15. 0 \in Good
  <2>1. ks(0) = <<>>
    BY SubSeqEmpty
  <2>2. text(0) = <<>>
    <3>1. Fold(Q, h, <<>>, <<>>) = <<>>
      BY <1>13, FoldAppends
    <3> QED BY <2>1, <3>1
  <2>3. part(0) = NoFields
    <3>1. Range(<<>>) = {}
      BY DEF Range
    <3> QED BY <2>1, <3>1, NoEntries
  <2>4. a \in S
    BY <1>3, <1>5
  <2> HIDE DEF a, text, part
  <2>5. Fold(S, g, a, <<>>) = a
    BY <1>5, <2>4, FoldAppends
  <2>6. Fold(S, g, a, text(0)) = Made(part(0))
    BY <2>2, <2>3, <2>5 DEF a
  <2>7. text(0) \in Q /\ part(0) \in F /\ 0 \in 0 .. n
    BY <1>3, <1>13, <2>2, <2>3
  <2> QED BY <2>6, <2>7
<1>16. ASSUME NEW i \in 0 .. n - 1, i \in Good PROVE i + 1 \in Good
  <2> DEFINE k == keys[i + 1]
             r == ks(i)
             e == EntryLines(k, f[k])
             s == text(i)
             t == part(i)
  <2>1. i + 1 \in 1 .. n /\ i \in 0 .. n /\ i + 1 \in 0 .. n
    BY <1>13
  <2>2. ks(i + 1) = Append(r, k)
    BY <1>7, <1>13, <2>1, SubSeqProperties, AppendProperties, SMTT(30)
  <2>3. k \in D /\ r \in Seq(D)
    BY <1>13, <1>14, <2>1
  <2>4. s \in Q /\ t \in F /\ Fold(S, g, a, s) = Made(t)
    BY <1>16
  <2>5. t = Entries(f, Range(r))
    OBVIOUS
  <2>6. s = Fold(Q, h, <<>>, r)
    OBVIOUS
  <2>7. text(i + 1) = Fold(Q, h, <<>>, Append(r, k)) /\ part(i + 1) = Entries(f, Range(Append(r, k)))
    BY <2>2
  <2> HIDE DEF ks, text, part, k, r, s, t
  <2>8. e \in Q /\ Put(t, k, f[k]) \in F /\ Fold(S, g, Made(t), e) = Made(Put(t, k, f[k]))
    BY <1>6, <2>3, <2>4 DEF Q
  <2>9. Fold(Q, h, <<>>, Append(r, k)) = s \o e
    <3>1. Fold(Q, h, <<>>, Append(r, k)) = h[<<Fold(Q, h, <<>>, r), k>>]
      BY <1>13, <2>3, FoldAppends
    <3>2. h[<<s, k>>] = s \o e
      BY <1>10, <2>3, <2>4 DEF Q
    <3> QED BY <2>6, <3>1, <3>2
  <2>10. part(i + 1) = Put(t, k, f[k])
    <3>1. Range(Append(r, k)) = Range(r) \cup {k}
      BY <2>3, AppendedRange
    <3> QED BY <2>5, <2>7, <3>1, OneMoreEntry
  <2> HIDE DEF e
  <2>11. s \o e \in Q
    BY <2>4, <2>8, ConcatProperties DEF Q
  <2>12. a \in S
    BY <1>3, <1>5
  <2> HIDE DEF a
  <2>13. Fold(S, g, a, s \o e) = Fold(S, g, Fold(S, g, a, s), e)
    BY <1>5, <2>4, <2>8, <2>12, FoldConcat DEF Q
  <2>14. Fold(S, g, a, text(i + 1)) = Made(part(i + 1))
    BY <2>4, <2>7, <2>8, <2>9, <2>10, <2>13
  <2>15. text(i + 1) \in Q /\ part(i + 1) \in F
    BY <2>7, <2>8, <2>9, <2>10, <2>11
  <2> QED BY <2>1, <2>14, <2>15
<1>17. n \in Good
  <2> HIDE DEF Good
  <2>1. 0 .. n \subseteq Good
    BY <1>13, <1>15, <1>16, Induction
  <2> QED BY <1>13, <2>1
<1>18. ks(n) = keys
  BY <1>7, SubSeqFull
<1>19. part(n) = f
  <2>1. f = [k \in D |-> f[k]]
    BY DEF IsTableOf, D
  <2>2. Range(ks(n)) = D
    BY <1>7, <1>18
  <2> HIDE DEF ks
  <2>3. part(n) = [k \in D |-> f[k]]
    BY <2>2, Zenon DEF Entries
  <2> QED BY <2>1, <2>3
<1> DEFINE x == text(n)
<1>20. SerializeToml(v) = <<"text", x>>
  BY <1>12, <1>18 DEF Q
<1>21. x \in Seq(T) /\ Fold(S, g, a, x) = Made(f)
  BY <1>17, <1>19 DEF Q
<1> HIDE DEF x
<1>22. ParseToml(x) = Parsed(Fold(S, g, a, x))
  <2>1. a \in S
    BY <1>3, <1>5
  <2>2. \A p \in S, l \in T : ParseLine(p, l) \in S
    BY <1>1, LinesMake DEF S
  <2>3. g = [p \in S \X T |-> ParseLine(p[1], p[2])]
    BY DEF g
  <2> QED BY <1>21, <2>1, <2>2, <2>3, ParsedIsFold
<1>23. Parsed(Made(f)) = Table(f)
  <2>1. Made(f).key = "" /\ Made(f).table = f /\ Made(f).ok = TRUE
    BY MadeIs
  <2> DEFINE m == Made(f)
  <2> HIDE DEF m
  <2>2. m.key = "" /\ m.table = f /\ m.ok = TRUE
    BY <2>1 DEF m
  <2> QED BY <2>2, Zenon DEF Parsed, m
<1> QED BY <1>20, <1>21, <1>22, <1>23 DEF v

-----------------------------------------------------------------------------
(* Orders                                                                   *)

\* A rule puts the items of T in an order, in which several may share a place.
Orders(rule, T) ==
  /\ \A x, y \in T : After(rule, x, y) => ~After(rule, y, x)
  /\ \A x, y, z \in T : ~After(rule, x, y) /\ ~After(rule, y, z) => ~After(rule, x, z)

\* p tells where in `before` each item of `after` was.
Places(rule, before, after, p) ==
  /\ p \in [1 .. Len(after) -> 1 .. Len(before)]
  /\ \A i, j \in 1 .. Len(after) : p[i] = p[j] => i = j
  /\ \A i \in 1 .. Len(after) : after[i] = before[p[i]]
  /\ \A i, j \in 1 .. Len(after) :
        i < j => ~After(rule, after[i], after[j]) /\ (After(rule, after[j], after[i]) \/ p[i] < p[j])

\* v lies behind the m-th item.
Inserted(x, m, v, y) ==
  /\ Len(y) = Len(x) + 1
  /\ \A i \in 1 .. m : y[i] = x[i]
  /\ y[m + 1] = v
  /\ \A i \in m + 1 .. Len(x) : y[i + 1] = x[i]

\* All items behind the m-th one are after v, and that one is not.
Behind(rule, x, m, v) ==
  /\ m # 0 => ~After(rule, x[m], v)
  /\ \A i \in m + 1 .. Len(x) : After(rule, x[i], v)

LEMMA InsertAtIs == \A s, i, e : InsertAt(s, i, e) = SubSeq(s, 1, i - 1) \o <<e>> \o SubSeq(s, i, Len(s))
BY DEF InsertAt

LEMMA InsertItemIs ==
  ASSUME NEW T, NEW rule, NEW x \in Seq(T), NEW v \in T
  PROVE  /\ InsertItem(rule, x, v) \in Seq(T)
         /\ \E m \in 0 .. Len(x) : Behind(rule, x, m, v) /\ Inserted(x, m, v, InsertItem(rule, x, v))
<1> DEFINE n == Len(x)
           I == {i \in 1 .. n : ~After(rule, x[i], v)}
           m == SelectLastInSeq(x, LAMBDA w : ~After(rule, w, v))
           y == InsertItem(rule, x, v)
           a == SubSeq(x, 1, m)
           b == SubSeq(x, m + 1, n)
<1>1. n \in Nat /\ \A i \in 1 .. n : x[i] \in T
  BY LenProperties, ElementOfSeq
<1>2. m = IF I # {} THEN Max(I) ELSE 0
  BY DEF SelectLastInSeq
<1>3. y = InsertAt(x, m + 1, v)
  BY Zenon DEF InsertItem
<1> HIDE DEF m, y
<1>4. m \in 0 .. n /\ Behind(rule, x, m, v)
  <2>1. CASE I = {}
    <3>1. m = 0 /\ \A i \in 1 .. n : After(rule, x[i], v)
      BY <1>2, <2>1
    <3> QED BY <1>1, <3>1 DEF Behind
  <2>2. CASE I # {}
    <3>1. I \in SUBSET (0 .. n)
      OBVIOUS
    <3>2. \A i \in I : i \in 1 .. n /\ ~After(rule, x[i], v)
      OBVIOUS
    <3>3. \A i \in 1 .. n : i \notin I => After(rule, x[i], v)
      OBVIOUS
    <3> HIDE DEF I
    <3>4. m \in I /\ \A i \in I : i <= m
      BY <1>1, <1>2, <2>2, <3>1, MaxIsIn, Zenon
    <3>5. m \in 1 .. n /\ ~After(rule, x[m], v)
      BY <3>2, <3>4
    <3>6. \A i \in m + 1 .. n : i \in 1 .. n /\ i \notin I
      BY <1>1, <3>4, <3>5
    <3> QED BY <1>1, <3>3, <3>5, <3>6 DEF Behind
  <2> QED BY <2>1, <2>2
<1>5. /\ a \in Seq(T) /\ Len(a) = m /\ \A i \in 1 .. m : a[i] = x[i]
  BY <1>1, <1>4, SubSeqProperties, SMTT(30)
<1>6. /\ b \in Seq(T) /\ Len(b) = n - m /\ \A i \in 1 .. n - m : b[i] = x[m + i]
  BY <1>1, <1>4, SubSeqProperties, SMTT(30)
<1>7. y = a \o <<v>> \o b
  <2>1. (m + 1) - 1 = m
    BY <1>1, <1>4
  <2>2. InsertAt(x, m + 1, v) = SubSeq(x, 1, (m + 1) - 1) \o <<v>> \o SubSeq(x, m + 1, n)
    <3>1. Len(x) = n
      OBVIOUS
    <3> HIDE DEF n
    <3> QED BY <3>1, InsertAtIs, Zenon
  <2> QED BY <1>3, <2>1, <2>2
<1> DEFINE c == a \o <<v>>
<1> HIDE DEF a, b
<1>8. c \in Seq(T) /\ Len(c) = m + 1 /\ c[m + 1] = v /\ \A i \in 1 .. m : c[i] = x[i]
  <2>1. c = Append(a, v)
    BY <1>5, AppendIsConcat
  <2> QED BY <1>5, <2>1, AppendProperties
<1> HIDE DEF c
<1>9. /\ y \in Seq(T) /\ Len(y) = n + 1
      /\ \A i \in 1 .. n + 1 : y[i] = IF i <= m + 1 THEN c[i] ELSE b[i - (m + 1)]
  <2>1. y = c \o b
    BY <1>7 DEF c
  <2>2. Len(c) + Len(b) = n + 1
    BY <1>1, <1>4, <1>6, <1>8
  <2> QED BY <1>6, <1>8, <2>1, <2>2, ConcatProperties
<1>10. Inserted(x, m, v, y)
  <2>1. \A i \in 1 .. m : i \in 1 .. n + 1 /\ i <= m + 1
    BY <1>1, <1>4
  <2>2. m + 1 \in 1 .. n + 1 /\ m + 1 <= m + 1
    BY <1>1, <1>4
  <2>3. ASSUME NEW i \in m + 1 .. n PROVE y[i + 1] = x[i]
    <3>1. i + 1 \in 1 .. n + 1 /\ ~(i + 1 <= m + 1) /\ i + 1 - (m + 1) = i - m /\ i - m \in 1 .. n - m /\ m + (i - m) = i
      BY <1>1, <1>4
    <3>2. y[i + 1] = b[i - m]
      BY <1>1, <1>4, <1>9, <3>1
    <3> QED BY <1>6, <3>1, <3>2
  <2> QED BY <1>8, <1>9, <2>1, <2>2, <2>3 DEF Inserted
<1> QED BY <1>4, <1>9, <1>10 DEF y

LEMMA InsertPlaces ==
  ASSUME NEW T, NEW rule, Orders(rule, T), NEW s \in Seq(T), NEW x \in Seq(T), NEW v \in T,
         Len(x) = Len(s), NEW p, Places(rule, s, x, p),
         NEW m \in 0 .. Len(x), NEW y, Behind(rule, x, m, v), Inserted(x, m, v, y)
  PROVE  \E q : Places(rule, Append(s, v), y, q)
<1> DEFINE n == Len(s)
           t == Append(s, v)
           q == [i \in 1 .. n + 1 |-> IF i <= m THEN p[i] ELSE IF i = m + 1 THEN n + 1 ELSE p[i - 1]]
<1>1. n \in Nat /\ m \in 0 .. n /\ Len(x) = n /\ Len(y) = n + 1 /\ Len(t) = n + 1
  BY LenProperties, AppendProperties DEF Inserted
<1>2. \A i \in 1 .. n : x[i] \in T /\ p[i] \in 1 .. n /\ x[i] = s[p[i]]
  BY <1>1, ElementOfSeq DEF Places
<1>3. t[n + 1] = v /\ \A i \in 1 .. n : t[i] = s[i]
  BY AppendProperties
<1> HIDE DEF n, t
\* Where the items that were there are now
<1> DEFINE old(i) == IF i <= m THEN i ELSE i - 1
<1>4. \A i \in 1 .. n + 1 : i # m + 1 => old(i) \in 1 .. n /\ y[i] = x[old(i)] /\ q[i] = p[old(i)] /\ q[i] \in 1 .. n
  <2> SUFFICES ASSUME NEW i \in 1 .. n + 1, i # m + 1
               PROVE  old(i) \in 1 .. n /\ y[i] = x[old(i)] /\ q[i] = p[old(i)] /\ q[i] \in 1 .. n
    OBVIOUS
  <2>1. CASE i <= m
    <3>1. i \in 1 .. m /\ i \in 1 .. n /\ old(i) = i
      BY <1>1, <2>1
    <3>2. y[i] = x[i]
      BY <3>1 DEF Inserted
    <3>3. q[i] = p[i]
      BY <2>1
    <3> QED BY <1>2, <3>1, <3>2, <3>3
  <2>2. CASE ~(i <= m)
    <3>1. i - 1 \in m + 1 .. n /\ i - 1 \in 1 .. n /\ old(i) = i - 1 /\ i - 1 + 1 = i
      BY <1>1, <2>2
    <3>2. y[i - 1 + 1] = x[i - 1]
      BY <1>1, <3>1 DEF Inserted
    <3>3. q[i] = p[i - 1]
      BY <2>2
    <3> QED BY <1>2, <3>1, <3>2, <3>3
  <2> QED BY <2>1, <2>2
<1>5. m + 1 \in 1 .. n + 1 /\ y[m + 1] = v /\ q[m + 1] = n + 1
  BY <1>1 DEF Inserted
<1>6. DOMAIN q = 1 .. n + 1 /\ q = [i \in 1 .. n + 1 |-> q[i]]
  OBVIOUS
<1> HIDE DEF q
<1>7. q \in [1 .. n + 1 -> 1 .. n + 1]
  <2>1. \A i \in 1 .. n + 1 : q[i] \in 1 .. n + 1
    BY <1>1, <1>4, <1>5
  <2> QED BY <1>6, <2>1
<1>8. \A i, j \in 1 .. n + 1 : i # m + 1 /\ j # m + 1 => (old(i) = old(j) => i = j) /\ (i < j => old(i) < old(j))
  BY <1>1
<1> HIDE DEF old
<1>9. \A i, j \in 1 .. n + 1 : q[i] = q[j] => i = j
  <2> SUFFICES ASSUME NEW i \in 1 .. n + 1, NEW j \in 1 .. n + 1, q[i] = q[j] PROVE i = j
    OBVIOUS
  <2>1. CASE i # m + 1 /\ j # m + 1
    <3>1. p[old(i)] = p[old(j)] /\ old(i) \in 1 .. n /\ old(j) \in 1 .. n
      BY <1>4, <2>1
    <3>2. old(i) = old(j)
      BY <1>1, <3>1 DEF Places
    <3> QED BY <1>8, <2>1, <3>2
  <2>2. CASE i = m + 1 \/ j = m + 1
    <3>1. n + 1 \notin 1 .. n
      BY <1>1
    <3> QED BY <1>4, <1>5, <2>2, <3>1
  <2> QED BY <2>1, <2>2
<1>10. \A i \in 1 .. n + 1 : y[i] = t[q[i]]
  <2> SUFFICES ASSUME NEW i \in 1 .. n + 1 PROVE y[i] = t[q[i]]
    OBVIOUS
  <2>1. CASE i # m + 1
    BY <1>2, <1>3, <1>4, <2>1
  <2>2. CASE i = m + 1
    BY <1>3, <1>5, <2>2
  <2> QED BY <2>1, <2>2
<1>11. ASSUME NEW i \in 1 .. n + 1, NEW j \in 1 .. n + 1, i < j
       PROVE  ~After(rule, y[i], y[j]) /\ (After(rule, y[j], y[i]) \/ q[i] < q[j])
  <2>1. CASE i # m + 1 /\ j # m + 1
    <3>1. old(i) \in 1 .. n /\ old(j) \in 1 .. n /\ old(i) < old(j)
      BY <1>4, <1>8, <1>11, <2>1
    <3>2. /\ ~After(rule, x[old(i)], x[old(j)])
          /\ After(rule, x[old(j)], x[old(i)]) \/ p[old(i)] < p[old(j)]
      BY <1>1, <3>1 DEF Places
    <3> QED BY <1>4, <2>1, <3>2
  <2>2. CASE j = m + 1
    <3>1. i \in 1 .. m /\ m \in 1 .. n /\ i # m + 1 /\ m # 0
      BY <1>1, <1>11, <2>2
    <3>2. y[i] = x[i] /\ q[i] < q[j] /\ i \in 1 .. n
      <4>1. y[i] = x[i]
        BY <3>1 DEF Inserted
      <4>2. q[i] \in 1 .. n
        BY <1>4, <3>1
      <4> QED BY <1>1, <1>5, <2>2, <3>1, <4>1, <4>2
    <3>3. ~After(rule, x[m], v)
      BY <3>1 DEF Behind
    <3>4. CASE i = m
      BY <1>5, <2>2, <3>2, <3>3, <3>4
    <3>5. CASE i # m
      <4>1. i < m
        BY <3>1, <3>5
      <4>2. ~After(rule, x[i], x[m])
        BY <1>1, <3>1, <3>2, <4>1 DEF Places
      <4>3. ~After(rule, x[i], v)
        BY <1>2, <3>1, <3>2, <3>3, <4>2 DEF Orders
      <4> QED BY <1>5, <2>2, <3>2, <4>3
    <3> QED BY <3>4, <3>5
  <2>3. CASE i = m + 1
    <3>1. j - 1 \in m + 1 .. n /\ j - 1 \in 1 .. n /\ j - 1 + 1 = j
      BY <1>1, <1>11, <2>3
    <3>2. y[j - 1 + 1] = x[j - 1]
      BY <1>1, <3>1 DEF Inserted
    <3>3. After(rule, x[j - 1], v)
      BY <1>1, <3>1 DEF Behind
    <3>4. ~After(rule, v, x[j - 1])
      BY <1>2, <3>1, <3>3 DEF Orders
    <3> QED BY <1>5, <2>3, <3>1, <3>2, <3>3, <3>4
  <2> QED BY <2>1, <2>2, <2>3
<1> QED BY <1>1, <1>7, <1>9, <1>10, <1>11 DEF Places, t

\* The items of an array one by one
SortedItems(rule, items) == FoldLeft(LAMBDA s, v : InsertItem(rule, s, v), <<>>, items)

\* All that insertions of items of T make is in S.
Inserts(rule, S, T) == <<>> \in S /\ \A x \in S, y \in T : InsertItem(rule, x, y) \in S

Insertions(rule, S, T) == [p \in S \X T |-> InsertItem(rule, p[1], p[2])]

LEMMA SortingIsFold ==
  ASSUME NEW S, NEW T, NEW rule, Inserts(rule, S, T), NEW s \in Seq(T), NEW g, g = Insertions(rule, S, T)
  PROVE  Steps(g, S, T) /\ SortedItems(rule, s) = Fold(S, g, <<>>, s)
<1> DEFINE a == <<>>
           n == Len(s)
           Step(f) == [u \in SUBSET (1 .. n) |->
                         IF u = {} THEN a ELSE InsertItem(rule, f[u \ {Max(u)}], s[Max(u)])]
<1>1. a \in S /\ s \in Seq(T)
  BY DEF Inserts
<1> DEFINE all == FoldLeft(LAMBDA x, y : InsertItem(rule, x, y), a, s)
<1>0. SortedItems(rule, s) = all
  BY Zenon DEF SortedItems
<1> HIDE DEF a
<1>2. n \in Nat /\ DOMAIN s = 1 .. n
  BY <1>1, LenProperties
<1>3. \A x \in S, y \in T : InsertItem(rule, x, y) \in S /\ g[<<x, y>>] = InsertItem(rule, x, y)
  BY DEF Inserts, Insertions
<1>4. Steps(g, S, T)
  BY <1>3 DEF Steps, Insertions
<1>5. \E f : f = Step(f)
  <2> HIDE DEF Step
  <2>1. PICK f : Iterating(f, S, T, g, a, s)
    BY <1>1, <1>4, IterateExists
  <2>2. \A u \in SUBSET (1 .. n) : f[u] = IF u = {} THEN a ELSE InsertItem(rule, f[u \ {Max(u)}], s[Max(u)])
    BY <1>3, <2>1 DEF Iterating
  <2>3. f = [u \in SUBSET (1 .. n) |-> f[u]]
    BY <2>1 DEF Iterating
  <2>4. f = Step(f)
    BY <2>2, <2>3 DEF Step
  <2> QED BY <2>4
<1> DEFINE iter == CHOOSE f : f = Step(f)
<1>6. iter = Step(iter)
  <2> HIDE DEF Step
  <2> QED BY <1>5
<1>7. all = iter[1 .. n]
  BY <1>2 DEF FoldLeft, MapThenFoldSet
<1> HIDE DEF iter
<1>8. iter[1 .. 0] = a
  BY <1>6
<1>9. ASSUME NEW i \in 1 .. n, iter[1 .. i - 1] \in S
      PROVE  iter[1 .. i] = g[<<iter[1 .. i - 1], s[i]>>]
  <2>1. Max(1 .. i) = i /\ (1 .. i) \ {i} = 1 .. i - 1 /\ 1 .. i # {} /\ 1 .. i \in SUBSET (1 .. n)
    BY <1>2, Beginnings, SMTT(30)
  <2>2. iter[1 .. i] = InsertItem(rule, iter[1 .. i - 1], s[i])
    BY <1>6, <2>1
  <2>3. s[i] \in T
    BY <1>1, ElementOfSeq
  <2> QED BY <1>3, <1>9, <2>2, <2>3
<1> HIDE DEF Step
<1>10. iter[1 .. n] = Fold(S, g, a, s)
  <2>1. Iterated(iter, S, g, a, s)
    BY <1>8, <1>9 DEF Iterated
  <2> QED BY <1>1, <1>4, <2>1, IterationIs
<1> HIDE DEF all
<1> QED BY <1>0, <1>4, <1>7, <1>10, Zenon DEF a

\* As many items as there were, each of which has its place
Sorts(rule, before, after) == Len(after) = Len(before) /\ \E p : Places(rule, before, after, p)

LEMMA ItemsAreSorted ==
  ASSUME NEW T, NEW rule, Orders(rule, T), NEW items \in Seq(T)
  PROVE  SortedItems(rule, items) \in Seq(T) /\ Sorts(rule, items, SortedItems(rule, items))
<1> DEFINE S == Seq(T)
           n == Len(items)
           g == Insertions(rule, S, T)
           b(i) == SubSeq(items, 1, i)
           x(i) == Fold(S, g, <<>>, b(i))
           Good == {i \in 0 .. n : Sorts(rule, b(i), x(i))}
<1>1. n \in Nat /\ \A i \in 1 .. n : items[i] \in T
  BY LenProperties, ElementOfSeq
<1>2. Inserts(rule, S, T)
  BY EmptySeq, InsertItemIs DEF Inserts
<1>3. \A y \in S, v \in T : g[<<y, v>>] = InsertItem(rule, y, v)
  BY DEF Insertions
<1>4. <<>> \in S /\ Steps(g, S, T) /\ SortedItems(rule, items) = Fold(S, g, <<>>, items)
  <2> HIDE DEF S
  <2> QED BY <1>2, SortingIsFold DEF Inserts
<1> HIDE DEF g
<1>5. \A i \in 0 .. n : b(i) \in Seq(T) /\ Len(b(i)) = i
  BY <1>1, SubSeqProperties, SMTT(30)
<1>6. \A i \in 0 .. n : x(i) \in S
  <2> HIDE DEF S, b
  <2> QED BY <1>2, <1>4, <1>5, FoldAppends
<1>7. 0 \in Good
  <2>1. b(0) = <<>>
    BY SubSeqEmpty
  <2>2. x(0) = <<>>
    <3> HIDE DEF S, b
    <3>1. Fold(S, g, <<>>, <<>>) = <<>>
      BY <1>2, <1>4, FoldAppends
    <3> QED BY <2>1, <3>1
  <2>3. Sorts(rule, <<>>, <<>>)
    <3>1. Places(rule, <<>>, <<>>, <<>>)
      BY DEF Places
    <3> QED BY <3>1 DEF Sorts
  <2> HIDE DEF x, b
  <2> QED BY <1>1, <2>1, <2>2, <2>3
<1>8. ASSUME NEW i \in 0 .. n - 1, i \in Good PROVE i + 1 \in Good
  <2> DEFINE v == items[i + 1]
             s == b(i)
             y == x(i)
  <2>1. i + 1 \in 1 .. n /\ i \in 0 .. n /\ i + 1 \in 0 .. n
    BY <1>1
  <2>2. b(i + 1) = Append(s, v)
    BY <1>1, <2>1, SubSeqProperties, AppendProperties, SMTT(30)
  <2>3. v \in T /\ s \in Seq(T) /\ y \in Seq(T) /\ Sorts(rule, s, y)
    BY <1>1, <1>5, <1>6, <1>8, <2>1
  <2>4. y = Fold(S, g, <<>>, s) /\ x(i + 1) = Fold(S, g, <<>>, Append(s, v))
    BY <2>2
  <2> HIDE DEF v, s, y, b, x
  <2>5. x(i + 1) = InsertItem(rule, y, v)
    <3> HIDE DEF S
    <3>1. Fold(S, g, <<>>, Append(s, v)) = g[<<Fold(S, g, <<>>, s), v>>]
      BY <1>2, <1>4, <2>3, FoldAppends
    <3>2. y \in S
      BY <2>3 DEF S
    <3> QED BY <1>3, <2>3, <2>4, <3>1, <3>2
  <2> DEFINE z == InsertItem(rule, y, v)
  <2> HIDE DEF z
  <2>6. PICK m \in 0 .. Len(y) : Behind(rule, y, m, v) /\ Inserted(y, m, v, z)
    BY <2>3, InsertItemIs DEF z
  <2>7. PICK p : Places(rule, s, y, p)
    BY <2>3 DEF Sorts
  <2>8. Len(y) = Len(s)
    BY <2>3 DEF Sorts
  <2>9. \E q : Places(rule, Append(s, v), z, q)
    BY <2>3, <2>6, <2>7, <2>8, InsertPlaces
  <2>10. Len(z) = Len(Append(s, v))
    BY <2>3, <2>6, <2>8, AppendProperties DEF Inserted
  <2>11. Sorts(rule, b(i + 1), x(i + 1))
    BY <2>2, <2>5, <2>9, <2>10 DEF Sorts, z
  <2> QED BY <2>1, <2>11
<1>9. n \in Good
  <2> HIDE DEF Good
  <2>1. 0 .. n \subseteq Good
    BY <1>1, <1>7, <1>8, Induction
  <2> QED BY <1>1, <2>1
<1>10. b(n) = items
  BY SubSeqFull
<1> HIDE DEF b
<1>11. SortedItems(rule, items) = x(n) /\ x(n) \in S
  BY <1>1, <1>4, <1>6, <1>10
<1> HIDE DEF x
<1> QED BY <1>9, <1>10, <1>11

\* The sort of an array that does not throw keeps each item, puts none before
\* one that comes after it, and leaves those that are alike in their order, if
\* the rule orders the items at all. (sort_array in sheet.rs; the rule of "all"
\* and FALSE leaves the items as they are.)
THEOREM ArraysAreSorted ==
  ASSUME NEW T, NEW rule, Orders(rule, T), NEW items \in Seq(T),
         rule # <<"all", FALSE>>, ~Failed(SortArray(rule, items))
  PROVE  IsArray(SortArray(rule, items)) /\ SortedAs(rule, items, SortArray(rule, items)[2])
<1> DEFINE y == SortedItems(rule, items)
           x == SortArray(rule, items)
<1>1. x = Error("config_invalid") \/ x = <<"array", y>>
  <2>1. CASE rule[1] # "all" /\ Throws(rule, items)
    BY <2>1, Zenon DEF SortArray
  <2>2. CASE ~(rule[1] # "all" /\ Throws(rule, items))
    BY <2>2, Zenon DEF SortArray, SortedItems
  <2> QED BY <2>1, <2>2
<1> HIDE DEF x, y
<1>2. x # Error("config_invalid")
  <2>1. Failed(Error("config_invalid"))
    BY DEF Failed, Error
  <2> QED BY <2>1 DEF x
<1>3. IsArray(x) /\ x[2] = y
  BY <1>1, <1>2 DEF IsArray
<1>4. y \in Seq(T) /\ Sorts(rule, items, y)
  BY ItemsAreSorted DEF y
<1>5. PICK p : Places(rule, items, y, p)
  BY <1>4 DEF Sorts
<1>6. Len(y) = Len(items) /\ DOMAIN y = 1 .. Len(y) /\ DOMAIN items = 1 .. Len(items)
  BY <1>4, LenProperties DEF Sorts
<1>7. SortedAs(rule, items, y)
  BY <1>5, <1>6, Zenon DEF SortedAs, Places
<1> QED BY <1>3, <1>7 DEF x

\* What is in order stays as it is.
LEMMA SortedStays ==
  ASSUME NEW T, NEW rule, NEW y \in Seq(T), \A i, j \in 1 .. Len(y) : i < j => ~After(rule, y[i], y[j])
  PROVE  SortedItems(rule, y) = y
<1> DEFINE S == Seq(T)
           n == Len(y)
           g == Insertions(rule, S, T)
           b(i) == SubSeq(y, 1, i)
           x(i) == Fold(S, g, <<>>, b(i))
           Good == {i \in 0 .. n : x(i) = b(i)}
<1>1. n \in Nat /\ \A i \in 1 .. n : y[i] \in T
  BY LenProperties, ElementOfSeq
<1>2. Inserts(rule, S, T)
  BY EmptySeq, InsertItemIs DEF Inserts
<1>3. \A s \in S, v \in T : g[<<s, v>>] = InsertItem(rule, s, v)
  BY DEF Insertions
<1>4. <<>> \in S /\ Steps(g, S, T) /\ SortedItems(rule, y) = Fold(S, g, <<>>, y)
  <2> HIDE DEF S
  <2> QED BY <1>2, SortingIsFold DEF Inserts
<1> HIDE DEF g
<1>5. \A i \in 0 .. n : b(i) \in Seq(T) /\ Len(b(i)) = i /\ \A j \in 1 .. i : b(i)[j] = y[j]
  BY <1>1, SubSeqProperties, SMTT(30)
<1>6. 0 \in Good
  <2>1. b(0) = <<>>
    BY SubSeqEmpty
  <2>2. x(0) = <<>>
    <3> HIDE DEF S, b
    <3>1. Fold(S, g, <<>>, <<>>) = <<>>
      BY <1>4, FoldAppends
    <3> QED BY <2>1, <3>1
  <2> HIDE DEF x, b
  <2> QED BY <1>1, <2>1, <2>2
<1>7. ASSUME NEW i \in 0 .. n - 1, i \in Good PROVE i + 1 \in Good
  <2> DEFINE v == y[i + 1]
             s == b(i)
             z == InsertItem(rule, s, v)
  <2>1. i + 1 \in 1 .. n /\ i \in 0 .. n /\ i + 1 \in 0 .. n
    BY <1>1
  <2>2. b(i + 1) = Append(s, v)
    BY <1>1, <2>1, SubSeqProperties, AppendProperties, SMTT(30)
  <2>3. v \in T /\ s \in Seq(T) /\ Len(s) = i /\ \A j \in 1 .. i : s[j] = y[j]
    BY <1>1, <1>5, <2>1
  <2>4. Fold(S, g, <<>>, s) = s /\ x(i + 1) = Fold(S, g, <<>>, Append(s, v))
    BY <1>7, <2>2
  <2>5. ASSUME NEW j \in 1 .. i PROVE ~After(rule, s[j], v)
    <3>1. j \in 1 .. n /\ j < i + 1
      BY <1>1, <2>1
    <3>2. ~After(rule, y[j], y[i + 1])
      BY <2>1, <3>1
    <3>3. s[j] = y[j]
      BY <2>3
    <3> QED BY <3>2, <3>3
  <2> HIDE DEF v, s, b, x
  <2>6. x(i + 1) = z
    <3> HIDE DEF S
    <3>1. Fold(S, g, <<>>, Append(s, v)) = g[<<Fold(S, g, <<>>, s), v>>]
      BY <1>4, <2>3, FoldAppends
    <3>2. s \in S
      BY <2>3 DEF S
    <3> QED BY <1>3, <2>3, <2>4, <3>1, <3>2
  <2> HIDE DEF z
  <2>7. z \in Seq(T)
    BY <2>3, InsertItemIs DEF z
  <2>8. PICK m \in 0 .. Len(s) : Behind(rule, s, m, v) /\ Inserted(s, m, v, z)
    BY <2>3, InsertItemIs DEF z
  <2>9. m = i
    <3>1. \A j \in m + 1 .. i : After(rule, s[j], v)
      BY <2>3, <2>8 DEF Behind
    <3>2. ~(m + 1 <= i)
      BY <1>1, <2>1, <2>3, <2>5, <2>8, <3>1
    <3> QED BY <1>1, <2>1, <2>3, <2>8, <3>2
  <2>10. Len(z) = i + 1 /\ z[i + 1] = v /\ \A j \in 1 .. i : z[j] = s[j]
    BY <2>3, <2>8, <2>9 DEF Inserted
  <2>11. z = Append(s, v)
    <3> DEFINE a == Append(s, v)
    <3>1. a \in Seq(T) /\ Len(a) = i + 1 /\ a[i + 1] = v /\ \A j \in 1 .. i : a[j] = s[j]
      BY <2>3, AppendProperties
    <3> HIDE DEF a
    <3>2. \A j \in 1 .. i + 1 : j \in 1 .. i \/ j = i + 1
      BY <2>1
    <3>3. \A j \in 1 .. Len(z) : z[j] = a[j]
      BY <2>10, <3>1, <3>2
    <3>4. z = a
      BY <2>7, <2>10, <3>1, <3>3, SeqEqual
    <3> QED BY <3>4 DEF a
  <2> QED BY <2>1, <2>2, <2>6, <2>11
<1>8. n \in Good
  <2> HIDE DEF Good
  <2>1. 0 .. n \subseteq Good
    BY <1>1, <1>6, <1>7, Induction
  <2> QED BY <1>1, <2>1
<1>9. b(n) = y
  BY SubSeqFull
<1> HIDE DEF b
<1> QED BY <1>4, <1>8, <1>9

\* What a rule has sorted it leaves as it is.
LEMMA SortsOnce ==
  ASSUME NEW T, NEW rule, Orders(rule, T), NEW items \in Seq(T), ~Failed(SortArray(rule, items))
  PROVE  LET x == SortArray(rule, items)
         IN  IsArray(x) /\ SortArray(rule, x[2]) = x
<1> DEFINE y == SortedItems(rule, items)
           x == SortArray(rule, items)
<1>1. CASE rule = <<"all", FALSE>>
  <2>1. x = <<"array", items>>
    BY <1>1, Zenon DEF SortArray
  <2> HIDE DEF x
  <2>2. IsArray(x) /\ x[2] = items
    BY <2>1 DEF IsArray
  <2> QED BY <2>2 DEF x
<1>2. CASE rule # <<"all", FALSE>>
  <2>1. ~(rule[1] # "all" /\ Throws(rule, items))
    <3>1. Failed(Error("config_invalid"))
      BY DEF Failed, Error
    <3>2. ASSUME rule[1] # "all" /\ Throws(rule, items) PROVE x = Error("config_invalid")
      BY <1>2, <3>2, Zenon DEF SortArray
    <3> HIDE DEF x
    <3>3. ~Failed(x)
      BY DEF x
    <3> QED BY <3>1, <3>2, <3>3
  <2>2. x = <<"array", y>>
    BY <1>2, <2>1, Zenon DEF SortArray, SortedItems
  <2> HIDE DEF x
  <2>3. IsArray(x) /\ x[2] = y
    BY <2>2 DEF IsArray
  <2>4. y \in Seq(T) /\ Sorts(rule, items, y)
    BY ItemsAreSorted
  <2> HIDE DEF y
  <2>5. Len(y) = Len(items) /\ \A i, j \in 1 .. Len(y) : i < j => ~After(rule, y[i], y[j])
    BY <2>4 DEF Sorts, Places
  <2>6. SortedItems(rule, y) = y
    BY <2>4, <2>5, SortedStays
  <2>7. ~(rule[1] # "all" /\ Throws(rule, y))
    BY <2>1, <2>5, Zenon DEF Throws
  <2>8. SortArray(rule, y) = <<"array", SortedItems(rule, y)>>
    BY <1>2, <2>7, Zenon DEF SortArray, SortedItems
  <2> QED BY <2>2, <2>3, <2>6, <2>8 DEF x
<1> QED BY <1>1, <1>2

-----------------------------------------------------------------------------
(* What the rules compare                                                   *)

\* s goes on behind all of t, or the two first differ at i, where s is greater.
Beats(s, t, i) ==
  /\ i \in 1 .. Len(s)
  /\ \A j \in 1 .. i - 1 : j <= Len(t) /\ s[j] = t[j]
  /\ i = Len(t) + 1 \/ (i <= Len(t) /\ s[i] > t[i])

LEMMA SameBeginnings ==
  ASSUME NEW s \in Seq(Int), NEW t \in Seq(Int), NEW n \in Nat, n <= Len(s), n <= Len(t)
  PROVE  SubSeq(s, 1, n) = SubSeq(t, 1, n) <=> \A j \in 1 .. n : s[j] = t[j]
<1> DEFINE a == SubSeq(s, 1, n)
           b == SubSeq(t, 1, n)
<1>1. \A i \in 1 .. n : s[i] \in Int /\ t[i] \in Int
  BY LenProperties, ElementOfSeq
<1>2. a \in Seq(Int) /\ Len(a) = n /\ \A i \in 1 .. n : a[i] = s[i]
  BY <1>1, SubSeqProperties, SMTT(30)
<1>3. b \in Seq(Int) /\ Len(b) = n /\ \A i \in 1 .. n : b[i] = t[i]
  BY <1>1, SubSeqProperties, SMTT(30)
<1>4. a = b <=> Len(a) = Len(b) /\ \A i \in 1 .. Len(a) : a[i] = b[i]
  BY <1>2, <1>3, SeqEqual
<1> HIDE DEF a, b
<1>5. a = b <=> \A j \in 1 .. n : s[j] = t[j]
  BY <1>2, <1>3, <1>4
<1> QED BY <1>5 DEF a, b

LEMMA AfterBeats ==
  ASSUME NEW s \in Seq(Int), NEW t \in Seq(Int)
  PROVE  LexicallyAfter(s, t) <=> \E i : Beats(s, t, i)
<1> DEFINE m == Len(s)
           n == Len(t)
<1>1. m \in Nat /\ n \in Nat /\ DOMAIN s = 1 .. m /\ DOMAIN t = 1 .. n
  BY LenProperties
<1>2. IsStrictPrefix(t, s) <=> n < m /\ \A j \in 1 .. n : s[j] = t[j]
  <2>1. SubSeq(t, 1, n) = t
    BY SubSeqFull
  <2>2. IsStrictPrefix(t, s) <=> n <= m /\ SubSeq(t, 1, n) = SubSeq(s, 1, n) /\ t # s
    BY <1>1 DEF IsStrictPrefix, IsPrefix
  <2>3. n <= m => (SubSeq(s, 1, n) = SubSeq(t, 1, n) <=> \A j \in 1 .. n : s[j] = t[j])
    <3> SUFFICES ASSUME n <= m PROVE SubSeq(s, 1, n) = SubSeq(t, 1, n) <=> \A j \in 1 .. n : s[j] = t[j]
      OBVIOUS
    <3> HIDE DEF m, n
    <3>1. n \in Nat /\ n <= Len(s) /\ n <= Len(t)
      BY <1>1 DEF m, n
    <3> QED BY <3>1, SameBeginnings
  <2>4. n = m => (s = t <=> \A j \in 1 .. n : s[j] = t[j])
    <3>1. SubSeq(s, 1, m) = s
      BY SubSeqFull
    <3> QED BY <2>1, <2>3, <3>1, <1>1
  <2>5. n = m /\ SubSeq(t, 1, n) = SubSeq(s, 1, n) => t = s
    BY <2>1, SubSeqFull
  <2>6. n < m => t # s
    OBVIOUS
  <2> HIDE DEF m, n
  <2> QED BY <1>1, <2>2, <2>3, <2>5, <2>6
<1>3. \A i \in DOMAIN s \cap DOMAIN t :
        SubSeq(s, 1, i - 1) = SubSeq(t, 1, i - 1) <=> \A j \in 1 .. i - 1 : s[j] = t[j]
  <2> SUFFICES ASSUME NEW i \in DOMAIN s \cap DOMAIN t
               PROVE  SubSeq(s, 1, i - 1) = SubSeq(t, 1, i - 1) <=> \A j \in 1 .. i - 1 : s[j] = t[j]
    OBVIOUS
  <2> DEFINE k == i - 1
  <2>1. k \in Nat /\ k <= Len(s) /\ k <= Len(t)
    BY <1>1
  <2> HIDE DEF k
  <2>2. SubSeq(s, 1, k) = SubSeq(t, 1, k) <=> \A j \in 1 .. k : s[j] = t[j]
    BY <2>1, SameBeginnings
  <2> QED BY <2>2 DEF k
<1>4. ASSUME LexicallyAfter(s, t) PROVE \E i : Beats(s, t, i)
  <2>1. CASE IsStrictPrefix(t, s)
    <3>1. n + 1 \in 1 .. m /\ \A j \in 1 .. n : s[j] = t[j] /\ j <= n
      BY <1>1, <1>2, <2>1
    <3>2. 1 .. (n + 1) - 1 = 1 .. n
      BY <1>1
    <3>3. Beats(s, t, n + 1)
      BY <3>1, <3>2 DEF Beats
    <3> QED BY <3>3
  <2>2. CASE ~IsStrictPrefix(t, s)
    <3>1. PICK i \in DOMAIN s \cap DOMAIN t : SubSeq(s, 1, i - 1) = SubSeq(t, 1, i - 1) /\ s[i] > t[i]
      BY <1>4, <2>2 DEF LexicallyAfter
    <3>2. \A j \in 1 .. i - 1 : s[j] = t[j] /\ j <= n
      BY <1>1, <1>3, <3>1
    <3>3. Beats(s, t, i)
      BY <1>1, <3>1, <3>2 DEF Beats
    <3> QED BY <3>3
  <2> QED BY <2>1, <2>2
<1>5. ASSUME NEW i, Beats(s, t, i) PROVE LexicallyAfter(s, t)
  <2>1. i \in 1 .. m /\ \A j \in 1 .. i - 1 : j <= n /\ s[j] = t[j]
    BY <1>5 DEF Beats
  <2>2. CASE i = n + 1
    <3>1. n < m /\ \A j \in 1 .. n : s[j] = t[j]
      BY <1>1, <2>1, <2>2
    <3> QED BY <1>2, <3>1 DEF LexicallyAfter
  <2>3. CASE i <= n /\ s[i] > t[i]
    <3>1. i \in DOMAIN s \cap DOMAIN t
      BY <1>1, <2>1, <2>3
    <3>2. SubSeq(s, 1, i - 1) = SubSeq(t, 1, i - 1)
      BY <1>3, <2>1, <3>1
    <3> QED BY <2>3, <3>1, <3>2 DEF LexicallyAfter
  <2> QED BY <1>5, <2>2, <2>3 DEF Beats
<1> QED BY <1>4, <1>5

LEMMA LexicallyOrders ==
  /\ \A s, t \in Seq(Int) : LexicallyAfter(s, t) => ~LexicallyAfter(t, s)
  /\ \A s, t, u \in Seq(Int) : ~LexicallyAfter(s, t) /\ ~LexicallyAfter(t, u) => ~LexicallyAfter(s, u)
<1>1. ASSUME NEW s \in Seq(Int), NEW t \in Seq(Int), NEW i, Beats(s, t, i), NEW k, Beats(t, s, k) PROVE FALSE
  <2>1. Len(s) \in Nat /\ Len(t) \in Nat /\ i \in 1 .. Len(s) /\ k \in 1 .. Len(t)
    BY <1>1, LenProperties DEF Beats
  <2>2. s[i] \in Int /\ t[k] \in Int
    BY <2>1, ElementOfSeq
  <2>3. CASE i < k
    <3>1. i \in 1 .. k - 1
      BY <2>1, <2>3
    <3>2. i <= Len(t) /\ s[i] = t[i]
      BY <1>1, <2>1, <3>1 DEF Beats
    <3> QED BY <1>1, <2>1, <2>2, <3>2 DEF Beats
  <2>4. CASE k < i
    <3>1. k \in 1 .. i - 1
      BY <2>1, <2>4
    <3>2. k <= Len(s) /\ s[k] = t[k]
      BY <1>1, <2>1, <3>1 DEF Beats
    <3> QED BY <1>1, <2>1, <2>2, <3>2 DEF Beats
  <2>5. CASE k = i
    BY <1>1, <2>1, <2>2, <2>5 DEF Beats
  <2> QED BY <2>1, <2>3, <2>4, <2>5
<1>2. ASSUME NEW s \in Seq(Int), NEW t \in Seq(Int), NEW u \in Seq(Int), NEW i, Beats(s, u, i)
      PROVE  \E k : Beats(s, t, k) \/ Beats(t, u, k)
  <2>1. Len(s) \in Nat /\ Len(t) \in Nat /\ Len(u) \in Nat /\ i \in 1 .. Len(s)
    BY <1>2, LenProperties DEF Beats
  <2>2. /\ \A j \in 1 .. Len(s) : s[j] \in Int
        /\ \A j \in 1 .. Len(t) : t[j] \in Int
        /\ \A j \in 1 .. Len(u) : u[j] \in Int
    BY ElementOfSeq
  <2>3. \A j \in 1 .. i - 1 : j <= Len(u) /\ s[j] = u[j]
    BY <1>2 DEF Beats
  <2> DEFINE Apart == {j \in 1 .. i - 1 : j > Len(t) \/ s[j] # t[j]}
  <2>4. CASE Apart = {}
    <3>1. ASSUME NEW j \in 1 .. i - 1 PROVE j <= Len(t) /\ s[j] = t[j]
      <4>1. j \notin Apart
        BY <2>4
      <4>2. ~(j > Len(t)) /\ s[j] = t[j]
        BY <4>1
      <4> QED BY <2>1, <4>2
    <3>2. i <= Len(t) + 1
      <4>1. CASE i = 1
        BY <2>1, <4>1
      <4>2. CASE i # 1
        <5>1. i - 1 \in 1 .. i - 1
          BY <2>1, <4>2
        <5>2. i - 1 <= Len(t)
          BY <3>1, <5>1
        <5> QED BY <2>1, <5>2
      <4> QED BY <4>1, <4>2
    <3>3. CASE i = Len(t) + 1 \/ (i <= Len(t) /\ s[i] > t[i])
      <4>1. Beats(s, t, i)
        BY <2>1, <3>1, <3>3 DEF Beats
      <4> QED BY <4>1
    <3>4. CASE i <= Len(t) /\ ~(s[i] > t[i])
      <4>1. i \in 1 .. Len(t) /\ \A j \in 1 .. i - 1 : j <= Len(u) /\ t[j] = u[j]
        BY <2>1, <2>3, <3>1, <3>4
      <4>2. i = Len(u) + 1 \/ (i <= Len(u) /\ s[i] > u[i])
        BY <1>2 DEF Beats
      <4>3. i <= Len(u) /\ s[i] > u[i] => t[i] > u[i]
        BY <2>1, <2>2, <3>4
      <4>4. Beats(t, u, i)
        BY <4>1, <4>2, <4>3 DEF Beats
      <4> QED BY <4>4
    <3>5. i = Len(t) + 1 \/ i <= Len(t)
      BY <2>1, <3>2
    <3> QED BY <3>3, <3>4, <3>5, Zenon
  <2>5. CASE Apart # {}
    <3>1. Apart \in SUBSET Nat
      BY <2>1
    <3> DEFINE k == Min(Apart)
    <3>2. \A j \in Apart : j \in 1 .. i - 1 /\ (j > Len(t) \/ s[j] # t[j])
      OBVIOUS
    <3>3. \A j \in 1 .. i - 1 : j \notin Apart => j <= Len(t) /\ s[j] = t[j]
      BY <2>1
    <3> HIDE DEF Apart
    <3>4. k \in Apart
      BY <2>5, <3>1, MinIsIn
    <3>5. \A j \in Apart : k <= j
      BY <2>5, <3>1, MinIsIn
    <3> HIDE DEF k
    <3>6. k \in 1 .. i - 1 /\ k \in 1 .. Len(s) /\ (k > Len(t) \/ s[k] # t[k])
      BY <2>1, <3>2, <3>4
    <3>7. \A j \in 1 .. k - 1 : j \in 1 .. i - 1 /\ j \notin Apart
      BY <2>1, <3>5, <3>6, <3>1
    <3>8. \A j \in 1 .. k - 1 : j <= Len(t) /\ s[j] = t[j]
      BY <3>3, <3>7
    <3>9. k <= Len(t) + 1
      <4>1. CASE k = 1
        BY <2>1, <4>1
      <4>2. CASE k # 1
        <5>1. k - 1 \in 1 .. k - 1
          BY <2>1, <3>6, <4>2
        <5>2. k - 1 <= Len(t)
          BY <3>8, <5>1
        <5> QED BY <2>1, <3>6, <5>2
      <4> QED BY <4>1, <4>2
    <3>10. CASE k = Len(t) + 1 \/ (k <= Len(t) /\ s[k] > t[k])
      <4>1. Beats(s, t, k)
        BY <3>6, <3>8, <3>10 DEF Beats
      <4> QED BY <4>1
    <3>11. CASE k <= Len(t) /\ ~(s[k] > t[k])
      <4>1. k \in 1 .. Len(t) /\ s[k] # t[k]
        BY <2>1, <3>6, <3>11
      <4>2. t[k] > s[k]
        BY <2>2, <3>6, <3>11, <4>1
      <4>3. k <= Len(u) /\ s[k] = u[k]
        BY <2>3, <3>6
      <4>4. \A j \in 1 .. k - 1 : j <= Len(u) /\ t[j] = u[j]
        BY <2>3, <3>7, <3>8
      <4>5. Beats(t, u, k)
        BY <4>1, <4>2, <4>3, <4>4 DEF Beats
      <4> QED BY <4>5
    <3> QED BY <2>1, <3>6, <3>9, <3>10, <3>11
  <2> QED BY <2>4, <2>5
<1> QED BY <1>1, <1>2, AfterBeats

\* What JavaScript compares: all numbers, or all strings of symbols that have
\* code units, or nothing
Compares(T) ==
  \/ \A x \in T : IsNumeric(x) /\ JsNumber(x) \in Int
  \/ \A x \in T : ~IsNumeric(x) /\ x[1] = "string" /\ x[2] \in Seq(DOMAIN CodeUnit)
  \/ \A x \in T : ~IsNumeric(x) /\ x[1] # "string"

CodesOf(x) == [i \in DOMAIN x[2] |-> CodeUnit[x[2][i]]]

LEMMA CodesAre ==
  ASSUME CodeUnit \in [DOMAIN CodeUnit -> Int], NEW x, x[2] \in Seq(DOMAIN CodeUnit)
  PROVE  CodesOf(x) \in Seq(Int)
<1> DEFINE s == x[2]
           u == [i \in DOMAIN s |-> CodeUnit[s[i]]]
           n == Len(s)
<1>1. n \in Nat /\ DOMAIN s = 1 .. n /\ \A i \in 1 .. n : s[i] \in DOMAIN CodeUnit
  BY LenProperties, ElementOfSeq
<1> HIDE DEF s, n
<1>2. DOMAIN u = 1 .. n /\ u = [i \in DOMAIN u |-> u[i]] /\ \A i \in 1 .. n : u[i] \in Int
  BY <1>1
<1> HIDE DEF u
<1>3. u \in Seq(Int)
  BY <1>1, <1>2, MakesSequence
<1> QED BY <1>3, Zenon DEF CodesOf, u, s

LEMMA GreaterIs ==
  ASSUME NEW v, NEW w
  PROVE  /\ IsNumeric(v) /\ IsNumeric(w) => (JsGreater(v, w) <=> JsNumber(v) > JsNumber(w))
         /\ ~IsNumeric(v) /\ v[1] = "string" /\ w[1] = "string" => (JsGreater(v, w) <=> LexicallyAfter(CodesOf(v), CodesOf(w)))
         /\ ~IsNumeric(v) /\ v[1] # "string" => ~JsGreater(v, w)
<1>0. IsNumeric(v) => v[1] # "string"
  BY DEF IsNumeric
<1>1. CASE IsNumeric(v) /\ IsNumeric(w)
  BY <1>0, <1>1, Zenon DEF JsGreater
<1>2. CASE ~IsNumeric(v) /\ v[1] = "string" /\ w[1] = "string"
  BY <1>2, Zenon DEF JsGreater, CodesOf
<1>3. CASE ~IsNumeric(v) /\ v[1] # "string"
  BY <1>3, Zenon DEF JsGreater
<1> QED BY <1>1, <1>2, <1>3

LEMMA GreaterOrders ==
  ASSUME CodeUnit \in [DOMAIN CodeUnit -> Int], NEW T, Compares(T)
  PROVE  /\ \A x, y \in T : JsGreater(x, y) => ~JsGreater(y, x)
         /\ \A x, y, z \in T : ~JsGreater(x, y) /\ ~JsGreater(y, z) => ~JsGreater(x, z)
<1>1. CASE \A x \in T : IsNumeric(x) /\ JsNumber(x) \in Int
  <2>1. \A x, y \in T : JsGreater(x, y) <=> JsNumber(x) > JsNumber(y)
    BY <1>1, GreaterIs
  <2> QED BY <1>1, <2>1
<1>2. CASE \A x \in T : ~IsNumeric(x) /\ x[1] = "string" /\ x[2] \in Seq(DOMAIN CodeUnit)
  <2>1. \A x, y \in T : JsGreater(x, y) <=> LexicallyAfter(CodesOf(x), CodesOf(y))
    BY <1>2, GreaterIs
  <2>2. \A x \in T : CodesOf(x) \in Seq(Int)
    BY <1>2, CodesAre
  <2> QED BY <2>1, <2>2, LexicallyOrders
<1>3. CASE \A x \in T : ~IsNumeric(x) /\ x[1] # "string"
  <2>1. \A x, y \in T : ~JsGreater(x, y)
    BY <1>3, GreaterIs
  <2> QED BY <2>1
<1> QED BY <1>1, <1>2, <1>3 DEF Compares

\* Each directive compares what the items have under its key.
Directed(directives, T) ==
  /\ IsSequence(directives)
  /\ \A d \in Range(directives) : Compares({Field(x, d[1]) : x \in T})

\* What the d-th directive finds greater, in its direction
Ahead(directives, i, v, w) ==
  IF directives[i][2] = 1 THEN JsGreater(Field(v, directives[i][1]), Field(w, directives[i][1]))
  ELSE JsGreater(Field(w, directives[i][1]), Field(v, directives[i][1]))

\* v is ahead by the i-th directive, the first by which they are apart.
AheadAt(directives, i, v, w) ==
  /\ i \in 1 .. Len(directives) /\ Ahead(directives, i, v, w)
  /\ \A j \in 1 .. i - 1 : ~Ahead(directives, j, v, w) /\ ~Ahead(directives, j, w, v)

LEMMA AheadOrders ==
  ASSUME CodeUnit \in [DOMAIN CodeUnit -> Int], NEW directives, NEW T, Directed(directives, T),
         NEW i \in 1 .. Len(directives)
  PROVE  /\ \A x, y \in T : Ahead(directives, i, x, y) => ~Ahead(directives, i, y, x)
         /\ \A x, y, z \in T : ~Ahead(directives, i, x, y) /\ ~Ahead(directives, i, y, z) => ~Ahead(directives, i, x, z)
<1> DEFINE d == directives[i]
           U == {Field(x, d[1]) : x \in T}
           G(x, y) == JsGreater(Field(x, d[1]), Field(y, d[1]))
<1>1. d \in Range(directives)
  <2>1. DOMAIN directives = 1 .. Len(directives)
    BY LenProperties DEF Directed, IsSequence
  <2> QED BY <2>1 DEF Range
<1>2. Compares(U)
  BY <1>1 DEF Directed
<1>3. \A x \in T : Field(x, d[1]) \in U
  OBVIOUS
<1>4. \A x, y : Ahead(directives, i, x, y) = IF d[2] = 1 THEN G(x, y) ELSE G(y, x)
  BY Zenon DEF Ahead
<1> HIDE DEF U
<1>5. /\ \A x, y \in T : G(x, y) => ~G(y, x)
      /\ \A x, y, z \in T : ~G(x, y) /\ ~G(y, z) => ~G(x, z)
  BY <1>2, <1>3, GreaterOrders
<1> HIDE DEF G, d
<1> QED BY <1>4, <1>5

LEMMA DirectedAt ==
  ASSUME CodeUnit \in [DOMAIN CodeUnit -> Int], NEW directives, NEW T, Directed(directives, T), NEW v \in T, NEW w \in T
  PROVE  DirectedAfter(directives, v, w) <=> \E i : AheadAt(directives, i, v, w)
<1> DEFINE n == Len(directives)
           G(i, x, y) == JsGreater(Field(x, directives[i][1]), Field(y, directives[i][1]))
           A(i, x, y) == Ahead(directives, i, x, y)
           I == {i \in 1 .. n : G(i, v, w) \/ G(i, w, v)}
           k == IF I # {} THEN Min(I) ELSE 0
<1>1. n \in Nat
  BY LenProperties DEF Directed, IsSequence
<1>2. DirectedAfter(directives, v, w) <=> k # 0 /\ A(k, v, w)
  <2> DEFINE greater(d, x, y) == JsGreater(Field(x, d[1]), Field(y, d[1]))
             m == SelectInSeq(directives, LAMBDA d : greater(d, v, w) \/ greater(d, w, v))
  <2>1. m = k
    BY DEF SelectInSeq
  <2>2. DirectedAfter(directives, v, w) <=>
           m # 0 /\ (IF directives[m][2] = 1 THEN greater(directives[m], v, w) ELSE greater(directives[m], w, v))
    BY Zenon DEF DirectedAfter
  <2> HIDE DEF m, k
  <2> QED BY <2>1, <2>2, Zenon DEF Ahead
<1>3. \A i : (G(i, v, w) \/ G(i, w, v)) <=> (A(i, v, w) \/ A(i, w, v))
  BY DEF Ahead
<1>4. \A i \in 1 .. n : ~(A(i, v, w) /\ A(i, w, v))
  BY AheadOrders
<1> HIDE DEF G
<1>5. I \in SUBSET Nat
  BY <1>1
<1>6. \A i \in I : i \in 1 .. n /\ (A(i, v, w) \/ A(i, w, v))
  BY <1>3
<1>7. \A i \in 1 .. n : i \notin I => ~A(i, v, w) /\ ~A(i, w, v)
  BY <1>3
<1> HIDE DEF I
<1>8. ASSUME k # 0, A(k, v, w) PROVE AheadAt(directives, k, v, w)
  <2>1. I # {} /\ k = Min(I)
    BY <1>8
  <2> HIDE DEF k
  <2>2. k \in I /\ \A i \in I : k <= i
    BY <1>5, <2>1, MinIsIn
  <2>3. k \in 1 .. n
    BY <1>6, <2>2
  <2>4. \A j \in 1 .. k - 1 : j \in 1 .. n /\ j \notin I
    BY <1>1, <1>5, <2>2, <2>3
  <2> QED BY <1>7, <1>8, <2>3, <2>4 DEF AheadAt
<1>9. ASSUME NEW i, AheadAt(directives, i, v, w) PROVE k # 0 /\ A(k, v, w)
  <2>1. i \in 1 .. n /\ A(i, v, w) /\ \A j \in 1 .. i - 1 : ~A(j, v, w) /\ ~A(j, w, v)
    BY <1>9 DEF AheadAt
  <2>2. i \in I
    BY <1>7, <2>1
  <2>3. k = Min(I)
    BY <2>2
  <2> HIDE DEF k
  <2>4. k \in I /\ k <= i
    BY <1>5, <2>2, <2>3, MinIsIn
  <2>5. k \in 1 .. n /\ ~(k \in 1 .. i - 1)
    BY <1>6, <2>1, <2>4
  <2>6. k = i
    BY <1>1, <2>1, <2>4, <2>5
  <2> QED BY <1>1, <2>1, <2>6
<1> QED BY <1>2, <1>8, <1>9

LEMMA DirectedOrders ==
  ASSUME CodeUnit \in [DOMAIN CodeUnit -> Int], NEW directives, NEW T, Directed(directives, T)
  PROVE  /\ \A x, y \in T : DirectedAfter(directives, x, y) => ~DirectedAfter(directives, y, x)
         /\ \A x, y, z \in T : ~DirectedAfter(directives, x, y) /\ ~DirectedAfter(directives, y, z)
                               => ~DirectedAfter(directives, x, z)
<1> DEFINE n == Len(directives)
           A(i, x, y) == Ahead(directives, i, x, y)
<1>1. n \in Nat
  BY LenProperties DEF Directed, IsSequence
<1>2. /\ \A i \in 1 .. n : \A x, y \in T : A(i, x, y) => ~A(i, y, x)
      /\ \A i \in 1 .. n : \A x, y, z \in T : A(i, x, z) => A(i, x, y) \/ A(i, y, z)
  BY AheadOrders
<1>3. \A i, x, y : AheadAt(directives, i, x, y) <=>
        i \in 1 .. n /\ A(i, x, y) /\ \A j \in 1 .. i - 1 : ~A(j, x, y) /\ ~A(j, y, x)
  BY DEF AheadAt
<1> HIDE DEF A, n
<1>4. ASSUME NEW x \in T, NEW y \in T, NEW i, AheadAt(directives, i, x, y), NEW k, AheadAt(directives, k, y, x)
      PROVE  FALSE
  <2>1. i \in 1 .. n /\ k \in 1 .. n /\ A(i, x, y) /\ A(k, y, x)
    BY <1>3, <1>4
  <2>2. k \notin 1 .. i - 1 /\ i \notin 1 .. k - 1
    BY <1>3, <1>4
  <2>3. i = k
    BY <1>1, <2>1, <2>2
  <2> QED BY <1>2, <2>1, <2>3
<1>5. ASSUME NEW x \in T, NEW y \in T, NEW z \in T, NEW i, AheadAt(directives, i, x, z)
      PROVE  \E k : AheadAt(directives, k, x, y) \/ AheadAt(directives, k, y, z)
  <2>1. i \in 1 .. n /\ A(i, x, z) /\ \A j \in 1 .. i - 1 : ~A(j, x, z) /\ ~A(j, z, x)
    BY <1>3, <1>5
  <2> DEFINE Differ(j) == A(j, x, y) \/ A(j, y, x) \/ A(j, y, z) \/ A(j, z, y)
             Apart == {j \in 1 .. i : Differ(j)}
             k == Min(Apart)
  <2>2. Apart \in SUBSET Nat /\ i \in Apart
    BY <1>1, <1>2, <2>1
  <2>3. \A j \in Apart : j \in 1 .. i /\ Differ(j)
    OBVIOUS
  <2>4. \A j \in 1 .. i : j \notin Apart => ~Differ(j)
    OBVIOUS
  <2> HIDE DEF Apart
  <2>5. k \in Apart /\ \A j \in Apart : k <= j
    BY <2>2, MinIsIn
  <2> HIDE DEF k
  <2>6. k \in 1 .. i /\ k \in 1 .. n /\ Differ(k)
    BY <1>1, <2>1, <2>3, <2>5
  <2>7. \A j \in 1 .. k - 1 : j \in 1 .. i /\ j \notin Apart
    BY <1>1, <2>1, <2>2, <2>5, <2>6
  <2>8. \A j \in 1 .. k - 1 : ~Differ(j)
    BY <2>4, <2>7
  <2>9. A(k, x, y) => AheadAt(directives, k, x, y)
    BY <1>3, <2>6, <2>8
  <2>10. A(k, y, z) => AheadAt(directives, k, y, z)
    BY <1>3, <2>6, <2>8
  <2>11. A(k, x, y) \/ A(k, y, z)
    <3> SUFFICES ASSUME ~A(k, x, y), ~A(k, y, z) PROVE FALSE
      OBVIOUS
    <3>1. ~A(k, x, z)
      BY <1>2, <2>6
    <3>2. k \in 1 .. i - 1
      BY <1>1, <2>1, <2>6, <3>1
    <3>3. ~A(k, z, x)
      BY <2>1, <3>2
    <3> QED BY <1>2, <2>6, <3>3
  <2> QED BY <2>9, <2>10, <2>11
<1>6. \A x, y \in T : DirectedAfter(directives, x, y) <=> \E i : AheadAt(directives, i, x, y)
  BY DirectedAt
<1> QED BY <1>4, <1>5, <1>6

-----------------------------------------------------------------------------
(* Keys of collation                                                        *)

AddedWeight(key, c) == IF c \in DOMAIN Weight THEN Append(key, Weight[c]) ELSE key

LEMMA KeyIsFold ==
  ASSUME NEW S, NEW T, <<>> \in S, \A x \in S, y \in T : AddedWeight(x, y) \in S,
         NEW v, KeyText(v) \in Seq(T)
  PROVE  CollationKey(v) \in S
<1> DEFINE a == <<>>
           s == KeyText(v)
           n == Len(s)
           g == [p \in S \X T |-> AddedWeight(p[1], p[2])]
           Step(e) == [u \in SUBSET (1 .. n) |->
                         IF u = {} THEN a ELSE AddedWeight(e[u \ {Max(u)}], s[Max(u)])]
<1>1. a \in S /\ s \in Seq(T)
  OBVIOUS
<1>7. CollationKey(v) = (CHOOSE e : e = Step(e))[1 .. n]
  <2>1. DOMAIN s = 1 .. n
    BY LenProperties
  <2> QED BY <2>1 DEF CollationKey, AddedWeight, FoldLeft, MapThenFoldSet
<1> HIDE DEF a, s
<1>2. n \in Nat
  BY <1>1, LenProperties
<1>3. \A x \in S, y \in T : AddedWeight(x, y) \in S /\ g[<<x, y>>] = AddedWeight(x, y)
  OBVIOUS
<1>4. Steps(g, S, T)
  BY <1>3 DEF Steps
<1> HIDE DEF g
<1>5. \E e : e = Step(e)
  <2> HIDE DEF Step
  <2>1. PICK e : Iterating(e, S, T, g, a, s)
    BY <1>1, <1>4, IterateExists
  <2>2. \A u \in SUBSET (1 .. n) : e[u] = IF u = {} THEN a ELSE AddedWeight(e[u \ {Max(u)}], s[Max(u)])
    BY <1>3, <2>1 DEF Iterating
  <2>3. e = [u \in SUBSET (1 .. n) |-> e[u]]
    BY <2>1 DEF Iterating
  <2>4. e = Step(e)
    BY <2>2, <2>3 DEF Step
  <2> QED BY <2>4
<1> DEFINE iter == CHOOSE e : e = Step(e)
<1>6. iter = Step(iter)
  <2> HIDE DEF Step
  <2> QED BY <1>5
<1> HIDE DEF iter
<1>8. iter[1 .. 0] = a
  BY <1>6
<1>9. ASSUME NEW i \in 1 .. n, iter[1 .. i - 1] \in S
      PROVE  iter[1 .. i] = g[<<iter[1 .. i - 1], s[i]>>]
  <2>1. Max(1 .. i) = i /\ (1 .. i) \ {i} = 1 .. i - 1 /\ 1 .. i # {} /\ 1 .. i \in SUBSET (1 .. n)
    BY <1>2, Beginnings, SMTT(30)
  <2>2. iter[1 .. i] = AddedWeight(iter[1 .. i - 1], s[i])
    BY <1>6, <2>1
  <2>3. s[i] \in T
    BY <1>1, ElementOfSeq
  <2> QED BY <1>3, <1>9, <2>2, <2>3
<1>10. iter[1 .. n] = Fold(S, g, a, s)
  <2>1. Iterated(iter, S, g, a, s)
    BY <1>8, <1>9 DEF Iterated
  <2> QED BY <1>1, <1>4, <2>1, IterationIs
<1>11. Fold(S, g, a, s) \in S
  BY <1>1, <1>4, FoldAppends
<1>12. CollationKey(v) = iter[1 .. n]
  BY <1>7, Zenon DEF iter
<1> QED BY <1>10, <1>11, <1>12

LEMMA KeyIs ==
  ASSUME Weight \in [DOMAIN Weight -> Int], NEW C, NEW v, KeyText(v) \in Seq(C)
  PROVE  CollationKey(v) \in Seq(Int)
<1> DEFINE S == Seq(Int)
<1>1. \A x \in S, y \in C : AddedWeight(x, y) \in S
  BY AppendProperties DEF AddedWeight
<1>2. <<>> \in S
  BY EmptySeq
<1> HIDE DEF S
<1>3. CollationKey(v) \in S
  BY <1>1, <1>2, KeyIsFold
<1> QED BY <1>3 DEF S

\* Items that the rule can compare with each other
Comparable(rule, T) ==
  CASE rule[1] = "all" -> \E C : \A x \in T : KeyText(x) \in Seq(C)
    [] rule[1] = "by"  -> Directed(rule[2], T)
    [] rule[1] = "raw" -> \A x \in T : IsNumeric(x) /\ JsNumber(x) \in Int
    [] OTHER -> FALSE

LEMMA RulesOrder ==
  ASSUME Weight \in [DOMAIN Weight -> Int], CodeUnit \in [DOMAIN CodeUnit -> Int],
         NEW rule, NEW T, Comparable(rule, T)
  PROVE  Orders(rule, T)
<1>1. CASE rule[1] = "all"
  <2>1. PICK C : \A x \in T : KeyText(x) \in Seq(C)
    BY <1>1, Zenon DEF Comparable
  <2>2. \A x \in T : CollationKey(x) \in Seq(Int)
    BY <2>1, KeyIs
  <2>3. \A x, y \in T : After(rule, x, y) <=> LexicallyAfter(CollationKey(x), CollationKey(y))
    BY <1>1, Zenon DEF After, LocaleAfter
  <2> QED BY <2>2, <2>3, LexicallyOrders DEF Orders
<1>2. CASE rule[1] = "by"
  <2>1. Directed(rule[2], T)
    <3>1. "by" # "all"
      OBVIOUS
    <3> QED BY <1>2, <3>1, Zenon DEF Comparable
  <2>2. \A x, y \in T : After(rule, x, y) <=> DirectedAfter(rule[2], x, y)
    <3>1. "by" # "all"
      OBVIOUS
    <3> QED BY <1>2, <3>1, Zenon DEF After
  <2> QED BY <2>1, <2>2, DirectedOrders DEF Orders
<1>3. CASE rule[1] = "raw"
  <2>0. "raw" # "all" /\ "raw" # "by"
    OBVIOUS
  <2>1. \A x \in T : IsNumeric(x) /\ JsNumber(x) \in Int
    BY <1>3, <2>0, Zenon DEF Comparable
  <2>2. \A x, y \in T : After(rule, x, y) <=> NumericAfter(x, y)
    BY <1>3, <2>0, Zenon DEF After
  <2>3. \A x, y \in T : After(rule, x, y) <=> JsNumber(x) > JsNumber(y)
    BY <2>1, <2>2 DEF NumericAfter
  <2> QED BY <2>1, <2>3 DEF Orders
<1>4. rule[1] \in {"all", "by", "raw"}
  BY Zenon DEF Comparable
<1> QED BY <1>1, <1>2, <1>3, <1>4

-----------------------------------------------------------------------------
(* Upserts                                                                  *)

\* An upsert that is not refused has passed each check.
LEMMA PreparedIs ==
  ASSUME NEW v, NEW defs, NEW previous, NEW allow, ~Failed(Prepared(v, defs, previous, allow))
  PROVE  LET record == NormalizeRecord(v)
             path   == Render(Sheet.template, record)
         IN  /\ ~Failed(opened) /\ ~Failed(record) /\ ~Failed(path)
             /\ ~Failed(CheckUniqueConflicts(Sheet, files, defs, record, path[2]))
             /\ Prepared(v, defs, previous, allow)[2] =
                   [path |-> Exact(path[2]), previous |-> Exact(previous),
                    text |-> Serialize(record, Sheet.format)[2]]
<1> DEFINE record == NormalizeRecord(v)
           path == Render(Sheet.template, record)
           free == CheckUniqueConflicts(Sheet, files, defs, record, path[2])
           text == Serialize(record, Sheet.format)
           candidate == [path |-> Exact(path[2]), previous |-> Exact(previous), text |-> text[2]]
           prepared == Prepared(v, defs, previous, allow)
<1>1. ~Failed(opened) /\ prepared = PrepareUpsert(v, defs, previous, allow)
  <2>1. CASE Failed(opened)
    <3>1. prepared = opened
      BY <2>1, Zenon DEF Prepared, Then
    <3> QED BY <2>1, <3>1, Zenon
  <2>2. CASE ~Failed(opened) /\ Failed(v)
    <3>1. prepared = v
      BY <2>2, Zenon DEF Prepared, Then
    <3> QED BY <2>2, <3>1, Zenon
  <2>3. CASE ~Failed(opened) /\ ~Failed(v)
    BY <2>3, Zenon DEF Prepared, Then
  <2> QED BY <2>1, <2>2, <2>3
<1> HIDE DEF candidate
<1>2. prepared = IF Failed(record) THEN record
                 ELSE IF Failed(path) THEN path
                 ELSE IF Failed(free) THEN free
                 ELSE IF Failed(text) THEN text ELSE <<"candidate", candidate>>
  <2>1. CASE (BodyMissing(v) /\ ~allow) \/ ~Valid(Sheet, v)
    <3>1. prepared = Error("validation_failed")
      BY <1>1, <2>1, Zenon DEF PrepareUpsert
    <3>2. Failed(Error("validation_failed"))
      BY DEF Failed, Error
    <3> QED BY <3>1, <3>2, Zenon
  <2>2. CASE ~((BodyMissing(v) /\ ~allow) \/ ~Valid(Sheet, v))
    BY <1>1, <2>2, Zenon DEF PrepareUpsert, Then, candidate
  <2> QED BY <2>1, <2>2
<1> HIDE DEF record, path, free, text, prepared
<1>3. ~Failed(prepared)
  BY DEF prepared
<1>4. ~Failed(record) /\ ~Failed(path) /\ ~Failed(free) /\ prepared = <<"candidate", candidate>>
  BY <1>2, <1>3, Zenon
<1> QED BY <1>1, <1>4 DEF record, path, free, text, candidate, prepared

\* Arrays are put in order, everything else is left as it is.
\* g is what the sheet's rules make of f.
Normalized(f, g) ==
  /\ DOMAIN g = DOMAIN f
  /\ \A k \in DOMAIN f :
        /\ ~Failed(g[k])
        /\ g[k] = IF k \in DOMAIN Sheet.sorts /\ IsArray(f[k]) THEN SortArray(Sheet.sorts[k], f[k][2]) ELSE f[k]

LEMMA NormalizedIs ==
  ASSUME NEW f, NEW C, IsTableOf(f, C), ~Failed(NormalizeRecord(Table(f)))
  PROVE  \E g : IsTableOf(g, C) /\ NormalizeRecord(Table(f)) = Table(g) /\ Normalized(f, g)
<1> DEFINE v == Table(f)
           sorts(k) == k \in DOMAIN Sheet.sorts /\ IsArray(f[k])
           g == [k \in DOMAIN f |-> IF sorts(k) THEN SortArray(Sheet.sorts[k], f[k][2]) ELSE f[k]]
<1>1. IsTable(v) /\ v[2] = f
  BY DEF IsTable, Table
<1>2. NormalizeRecord(v) = Whole("table", g)
  <2> HIDE DEF v
  <2>1. NormalizeRecord(v) = Whole("table", [k \in DOMAIN v[2] |->
            IF k \in DOMAIN Sheet.sorts /\ IsArray(v[2][k]) THEN SortArray(Sheet.sorts[k], v[2][k][2]) ELSE v[2][k]])
    BY <1>1, Zenon DEF NormalizeRecord, TableOf
  <2> QED BY <1>1, <2>1, Zenon
<1> HIDE DEF g, v
<1>3. NormalizeRecord(v) = Table(g) /\ \A k \in DOMAIN g : ~Failed(g[k])
  BY <1>2, WholeIs DEF Table, v
<1>4. DOMAIN g = DOMAIN f /\ g = [k \in DOMAIN f |-> g[k]]
  BY DEF g
<1>5. ASSUME NEW k \in DOMAIN f PROVE OfSymbols(g[k], C)
  <2>1. OfSymbols(f[k], C)
    BY DEF IsTableOf
  <2>2. CASE ~sorts(k)
    <3>1. g[k] = f[k]
      BY <2>2, Zenon DEF g
    <3> QED BY <2>1, <3>1
  <2>3. CASE sorts(k)
    <3> DEFINE rule == Sheet.sorts[k]
               items == f[k][2]
               x == SortArray(rule, items)
               y == FoldLeft(LAMBDA s, w : InsertItem(rule, s, w), <<>>, items)
    <3>1. g[k] = x
      BY <2>3, Zenon DEF g
    <3>2. x = <<"array", items>> \/ x = Error("config_invalid") \/ x = <<"array", y>>
      <4>1. CASE rule = <<"all", FALSE>>
        <5> HIDE DEF rule, items, y
        <5>1. rule[1] = "all"
          BY <4>1
        <5> QED BY <4>1, <5>1, Zenon DEF SortArray
      <4>2. CASE rule # <<"all", FALSE>> /\ rule[1] # "all" /\ Throws(rule, items)
        BY <4>2, Zenon DEF SortArray
      <4>3. CASE rule # <<"all", FALSE>> /\ ~(rule[1] # "all" /\ Throws(rule, items))
        BY <4>3, Zenon DEF SortArray
      <4> QED BY <4>1, <4>2, <4>3
    <3> HIDE DEF x, y, items
    <3>3. ~Failed(x)
      BY <1>3, <1>4, <3>1
    <3>4. x # Error("config_invalid")
      BY <3>3 DEF Failed, Error
    <3>5. x[1] = "array"
      BY <3>2, <3>4
    <3> QED BY <2>1, <3>1, <3>5 DEF OfSymbols
  <2> QED BY <2>2, <2>3
<1>6. IsTableOf(g, C)
  <2>1. g = Entries(g, DOMAIN g)
    BY <1>4 DEF Entries
  <2> QED BY <1>4, <1>5, <2>1 DEF IsTableOf
<1>7. Normalized(f, g)
  <2>1. \A k \in DOMAIN f :
           g[k] = IF k \in DOMAIN Sheet.sorts /\ IsArray(f[k]) THEN SortArray(Sheet.sorts[k], f[k][2]) ELSE f[k]
    BY Zenon DEF g
  <2> QED BY <1>3, <1>4, <2>1, Zenon DEF Normalized
<1> QED BY <1>3, <1>6, <1>7 DEF v

\* Its strings are sequences.
LEMMA TableIsRecord ==
  ASSUME NEW f, NEW C, IsTableOf(f, C)
  PROVE  IsRecord(Table(f)) /\ Value(Table(f))
<1> DEFINE v == Table(f)
<1>1. IsTable(v) /\ v[2] = f
  BY DEF IsTable, Table
<1>2. ASSUME NEW k \in DOMAIN f, f[k][1] = "string" PROVE IsSequence(f[k][2])
  <2>1. PICK s \in Seq(C \cup {NewLine}) : f[k] = Text(s)
    BY <1>2 DEF IsTableOf, OfSymbols
  <2>2. f[k][2] = s
    BY <2>1 DEF Text
  <2>3. s \in Seq(Range(s))
    <3> DEFINE U == C \cup {NewLine}
    <3> HIDE DEF U
    <3>1. s \in Seq(U)
      BY DEF U
    <3>2. Len(s) \in Nat /\ DOMAIN s = 1 .. Len(s) /\ s = [i \in DOMAIN s |-> s[i]]
      BY <3>1, LenProperties
    <3>3. \A i \in 1 .. Len(s) : s[i] \in Range(s)
      BY <3>2 DEF Range
    <3> QED BY <3>2, <3>3, MakesSequence
  <2>4. IsSequence(s)
    BY <2>3 DEF IsSequence
  <2> QED BY <2>2, <2>4
<1> HIDE DEF v
<1>3. IsRecord(v)
  BY <1>1, <1>2 DEF IsRecord
<1> QED BY <1>3, RecordIsValue DEF v

LEMMA PairIs == \A x, a, b : x = <<a, b>> => x = <<x[1], x[2]>> /\ x[1] = a /\ x[2] = b
OBVIOUS

\* A candidate's file, as the tree has it
LEMMA CandidateFile ==
  ASSUME NEW r, IsSeq(r), Len(r) # 0
  PROVE  /\ StemsOf(Exact(r)) = r
         /\ FileTree!RecordFile(<<>>, Exact(r)) = FileOf(r, Ext)
         /\ IsPath(FileOf(r, Ext))
<1> DEFINE n == Len(r)
           e == Exact(r)
           f == FileOf(r, Ext)
<1>1. PICK S : r \in Seq(S)
  BY DEF IsSeq
<1>2. n \in Nat \ {0} /\ DOMAIN r = 1 .. n /\ r = [i \in 1 .. n |-> r[i]]
  BY <1>1, LenProperties
<1> HIDE DEF n
<1>3. DOMAIN e = 1 .. n /\ e = [i \in DOMAIN e |-> e[i]] /\ \A i \in 1 .. n : e[i] = <<r[i], "">>
  BY <1>2 DEF Exact
<1>30. ASSUME NEW i \in 1 .. n PROVE e[i] = <<r[i], "">> /\ e[i][1] = r[i]
  <2>1. e[i] = <<r[i], "">>
    BY <1>3
  <2> HIDE DEF e
  <2> QED BY <2>1, PairIs, Zenon
<1> DEFINE P == {e[i] : i \in 1 .. n}
<1>4. e \in Seq(P) /\ Len(e) = n
  <2>1. \A i \in 1 .. n : e[i] \in P
    OBVIOUS
  <2> HIDE DEF e, P
  <2> QED BY <1>2, <1>3, <2>1, MakesSequence
<1>5. StemsOf(e) = r
  <2>1. StemsOf(e) = [i \in 1 .. n |-> e[i][1]]
    BY <1>3 DEF StemsOf
  <2> HIDE DEF e
  <2>2. \A i \in 1 .. n : e[i][1] = r[i]
    BY <1>30, Zenon
  <2> QED BY <1>2, <2>1, <2>2
<1> HIDE DEF e, P
<1>6. FileTree!RecordFile(<<>>, e) = f
  <2> DEFINE Q == P \cup {<<r[n], Ext>>}
             x == SubSeq(e, 1, n - 1)
             l == <<r[n], Ext>>
  <2>1. x \in Seq(Q) /\ l \in Q
    <3>1. x \in Seq(P)
      BY <1>2, <1>4, SubSeqProperties
    <3> QED BY <3>1, SeqMonotonic
  <2>2. Last(r) = r[n] /\ FileTree!Last(e)[1] = r[n]
    <3>1. Last(r) = r[n]
      BY Zenon DEF Last, n
    <3>2. FileTree!Last(e) = e[n]
      BY <1>4, Zenon DEF FileTree!Last
    <3>3. n \in 1 .. n
      BY <1>2
    <3>4. e[n][1] = r[n]
      BY <1>30, <3>3
    <3> QED BY <3>1, <3>2, <3>4, Zenon
  <2> HIDE DEF x, l, Q
  <2>3. FileTree!RecordFile(<<>>, e) = <<>> \o x \o <<l>>
    BY <1>4, <2>2, Zenon DEF FileTree!RecordFile, FileTree!Front, x, l
  <2>4. f = Append(x, l)
    BY <1>4, <2>2 DEF FileOf, Front, x, l, e
  <2>5. <<>> \o x = x /\ x \o <<l>> = Append(x, l)
    BY <2>1, ConcatEmptySeq, AppendIsConcat
  <2> QED BY <2>3, <2>4, <2>5
<1>7. /\ Len(f) = n /\ IsSeq(f)
      /\ \A i \in 1 .. n - 1 : f[i] = <<r[i], "">>
      /\ f[n] = <<r[n], Ext>>
  BY <1>2, FileIs DEF n
<1> HIDE DEF f
<1>8. IsPath(f)
  <2>1. PICK T : f \in Seq(T)
    BY <1>7 DEF IsSeq
  <2>2. DOMAIN f = 1 .. n /\ f = [i \in DOMAIN f |-> f[i]] /\ f # <<>>
    BY <1>2, <1>7, <2>1, LenProperties
  <2>3. \A i \in 1 .. n : f[i] \in Range(f)
    BY <2>2 DEF Range
  <2>4. f \in Seq(Range(f))
    BY <1>2, <2>2, <2>3, MakesSequence
  <2>5. ASSUME NEW i \in DOMAIN f PROVE f[i] = <<f[i][1], f[i][2]>> /\ (i < Len(f) => f[i][2] = "")
    <3>1. CASE i \in 1 .. n - 1
      <4>1. f[i] = <<r[i], "">>
        BY <1>7, <3>1
      <4> QED BY <4>1, PairIs, Zenon
    <3>2. CASE i = n
      <4>1. f[i] = <<r[n], Ext>>
        BY <1>7, <3>2, Zenon
      <4>2. Len(f) = n /\ n \in Nat
        BY <1>2, <1>7, Zenon
      <4>3. ~(i < Len(f))
        BY <3>2, <4>2
      <4> QED BY <4>1, <4>3, PairIs, Zenon
    <3>3. i \in 1 .. n - 1 \/ i = n
      BY <1>2, <2>2
    <3> QED BY <3>1, <3>2, <3>3
  <2> QED BY <2>2, <2>4, <2>5 DEF IsPath, IsSequence
<1> QED BY <1>5, <1>6, <1>8 DEF e, f

\* What is taken away from a tree leaves the other files as they are.
LEMMA WithoutKeeps ==
  ASSUME NEW tree, NEW path
  PROVE  /\ DOMAIN FileTree!Without(tree, path) \subseteq DOMAIN tree
         /\ \A f \in DOMAIN FileTree!Without(tree, path) : FileTree!Without(tree, path)[f] = tree[f]
BY DEF FileTree!Without, FileTree!Restrict

LEMMA StagedIs ==
  ASSUME NEW tree, NEW candidate
  PROVE  LET f == FileTree!RecordFile(<<>>, candidate.path)
             after == FileTree!StageUpsert(tree, <<>>, candidate)
         IN  /\ f \in DOMAIN after /\ after[f] = candidate.text
             /\ \A g \in DOMAIN after \ {f} : g \in DOMAIN tree /\ after[g] = tree[g]
<1> DEFINE f == FileTree!RecordFile(<<>>, candidate.path)
           after == FileTree!StageUpsert(tree, <<>>, candidate)
           moved == candidate.previous \notin {FileTree!NoPath, candidate.path}
           rest == IF moved THEN FileTree!Without(tree, FileTree!RecordFile(<<>>, candidate.previous)) ELSE tree
<1>1. after = FileTree!Put(rest, f, candidate.text)
  BY Zenon DEF FileTree!StageUpsert
<1>2. DOMAIN rest \subseteq DOMAIN tree /\ \A g \in DOMAIN rest : rest[g] = tree[g]
  BY WithoutKeeps
<1> HIDE DEF rest, f, after
<1>3. DOMAIN after = DOMAIN rest \cup {f} /\ \A g \in DOMAIN rest \cup {f} : after[g] = IF g = f THEN candidate.text ELSE rest[g]
  BY <1>1 DEF FileTree!Put
<1> QED BY <1>2, <1>3 DEF f, after

\* The text of a TOML record that is staged reads as the record.
LEMMA TextReads ==
  ASSUME KeyOrder \in Seq(Range(KeyOrder)), NEW f, NEW C, IsTableOf(f, C), Sheet.format.kind = "toml"
  PROVE  ParseToml(Serialize(Table(f), Sheet.format)[2]) = Table(f)
<1>1. Serialize(Table(f), Sheet.format) = SerializeToml(Table(f))
  BY DEF Serialize
<1> QED BY <1>1, TomlReadsBack

\* What an upsert that is not refused does to the files
Upserted(who, defs, v, prepared) ==
  LET record == NormalizeRecord(v)
      path   == Render(Sheet.template, record)
      r      == path[2]
      file   == FileOf(r, Ext)
  IN  /\ ~Failed(opened)
      /\ IsRecord(record)
      /\ path = <<"path", r>>
      /\ ~Failed(CheckUniqueConflicts(Sheet, files, defs, record, r))
      /\ StemsOf(prepared[2].path) = r /\ StemsOf(file) = r /\ FileAt(r, Sheet) = file /\ IsPath(file)
      /\ file \in DOMAIN files' /\ author'[file] = who
      /\ DOMAIN author' = DOMAIN files' /\ \A g \in DOMAIN files' \ {file} : Kept(g)
      /\ IsToml => ParseToml(files'[file]) = record

LEMMA UpsertIs ==
  ASSUME KeyOrder \in Seq(Range(KeyOrder)), TypeOK,
         NEW f, NEW C, IsTableOf(f, C), NEW who, NEW defs, NEW previous, NEW allow,
         StageUpsert(who, Prepared(Table(f), defs, previous, allow))
  PROVE  Upserted(who, defs, Table(f), Prepared(Table(f), defs, previous, allow))
<1> DEFINE v == Table(f)
           prepared == Prepared(v, defs, previous, allow)
           candidate == prepared[2]
           record == NormalizeRecord(v)
           template == Sheet.template
           path == Render(template, record)
           r == path[2]
           file == FileOf(r, Ext)
           after == FileTree!StageUpsert(files, <<>>, candidate)
<1>1. /\ ~Failed(prepared) /\ files' = after
      /\ author' = [g \in DOMAIN after |-> IF g \in {FileAt(StemsOf(candidate.path), Sheet)} THEN who ELSE author[g]]
  BY Zenon DEF StageUpsert, Store
<1>2. /\ ~Failed(opened) /\ ~Failed(record) /\ ~Failed(path)
      /\ ~Failed(CheckUniqueConflicts(Sheet, files, defs, record, r))
      /\ candidate = [path |-> Exact(r), previous |-> Exact(previous), text |-> Serialize(record, Sheet.format)[2]]
  BY <1>1, PreparedIs, Zenon
<1>3. candidate.path = Exact(r) /\ candidate.text = Serialize(record, Sheet.format)[2]
  <2> HIDE DEF candidate, record, r
  <2> QED BY <1>2
<1>4. PICK g : IsTableOf(g, C) /\ record = Table(g)
  BY <1>2, NormalizedIs, Zenon
<1>5. IsRecord(record) /\ Value(record)
  <2> HIDE DEF record
  <2> QED BY <1>4, TableIsRecord
<1>6. Compiled(template)
  BY <1>2, TemplateIs
<1>7. path = <<"path", r>> /\ IsSeq(r) /\ Len(r) # 0
  <2> HIDE DEF record, template
  <2>1. PICK q : path = <<"path", q>>
    BY <1>2, <1>5, <1>6, RenderedTexts, Zenon
  <2>2. r = q
    BY <2>1
  <2> HIDE DEF path, r
  <2>3. PathOf(Texts(template, record), r) /\ Len(Texts(template, record)) = Len(template)
    BY <1>5, <1>6, <2>1, <2>2, RecordPath DEF path
  <2>4. Len(template) \in Nat \ {0}
    BY <1>6, ParsedIs
  <2>5. IsSeq(r) /\ Len(template) <= Len(r)
    BY <2>3 DEF PathOf
  <2>6. Len(r) # 0
    <3>1. Len(r) \in Nat
      BY <2>5, LenProperties DEF IsSeq
    <3> QED BY <2>4, <2>5, <3>1
  <2> QED BY <2>1, <2>2, <2>5, <2>6
<1> HIDE DEF prepared, candidate, record, template, path, r, after
<1>8. /\ StemsOf(candidate.path) = r /\ FileTree!RecordFile(<<>>, candidate.path) = file /\ IsPath(file)
  BY <1>3, <1>7, CandidateFile
<1>9. FileAt(r, Sheet) = file
  BY Zenon DEF FileAt, Ext
<1>10. /\ file \in DOMAIN files' /\ files'[file] = candidate.text
       /\ \A g1 \in DOMAIN files' \ {file} : g1 \in DOMAIN files /\ files'[g1] = files[g1]
  BY <1>1, <1>8, StagedIs DEF after
<1>11. author' = [g1 \in DOMAIN files' |-> IF g1 = file THEN who ELSE author[g1]]
  BY <1>1, <1>8, <1>9
<1>12. StemsOf(file) = r
  BY <1>7, FileIs
<1> HIDE DEF file
<1>13. author'[file] = who /\ DOMAIN author' = DOMAIN files' /\ \A g1 \in DOMAIN files' \ {file} : Kept(g1)
  BY <1>10, <1>11 DEF Kept
<1>14. ASSUME IsToml PROVE ParseToml(files'[file]) = record
  <2>1. Sheet.format.kind = "toml"
    BY <1>14 DEF IsToml
  <2> QED BY <1>3, <1>4, <1>10, <2>1, TextReads
<1>15. candidate = prepared[2]
  BY DEF candidate
<1>16. /\ StemsOf(prepared[2].path) = r /\ StemsOf(file) = r /\ FileAt(r, Sheet) = file /\ IsPath(file)
       /\ path = <<"path", r>>
  BY <1>7, <1>8, <1>9, <1>12, <1>15
<1>17. /\ record = NormalizeRecord(v) /\ path = Render(Sheet.template, record)
       /\ r = path[2] /\ file = FileOf(r, Ext)
  BY DEF record, path, template, r, file
<1> HIDE DEF v
<1>18. Upserted(who, defs, v, prepared)
  BY <1>2, <1>5, <1>10, <1>13, <1>14, <1>16, <1>17, Zenon DEF Upserted
<1> QED BY <1>18 DEF v, prepared

\* An upsert that is not refused does nothing to the files but what SheetFiles
\* lets a client do, whoever it is of and wherever the record was before: what
\* it writes is readable and lies where the template puts it, and its keys are
\* free if they were checked. (prepare_upsert and stage_upsert in sheet.rs.)
THEOREM UpsertsAreWrites ==
  ASSUME KeyOrder \in Seq(Range(KeyOrder)), TypeOK,
         NEW f, NEW C, IsTableOf(f, C), NEW who \in Clients, NEW defs, who = "rust" => defs = Indexes,
         NEW previous, NEW allow,
         StageUpsert(who, Prepared(Table(f), defs, previous, allow)), UNCHANGED <<source, opened>>
  PROVE  Next
<1> DEFINE v == Table(f)
           prepared == Prepared(v, defs, previous, allow)
           record == NormalizeRecord(v)
           path == Render(Sheet.template, record)
           r == path[2]
           file == FileOf(r, Ext)
<1>1. Upserted(who, defs, v, prepared)
  BY UpsertIs
<1> HIDE DEF v, prepared
<1>2. /\ ~Failed(opened) /\ IsRecord(record) /\ path = <<"path", r>>
      /\ ~Failed(CheckUniqueConflicts(Sheet, files, defs, record, r))
      /\ StemsOf(file) = r /\ IsPath(file) /\ file \in DOMAIN files' /\ author'[file] = who
      /\ DOMAIN author' = DOMAIN files' /\ \A g \in DOMAIN files' \ {file} : Kept(g)
      /\ IsToml => ParseToml(files'[file]) = record
  BY <1>1, Zenon DEF Upserted
<1> HIDE DEF record, path, r
<1>3. ASSUME IsToml
      PROVE  /\ file = FileOf(StemsOf(file), Ext) /\ ParseToml(files'[file]) = record
             /\ Render(Sheet.template, record) = <<"path", StemsOf(file)>>
             /\ who = "rust" => ~Failed(CheckUniqueConflicts(Sheet, files, Indexes, record, StemsOf(file)))
  BY <1>2, <1>3 DEF path
<1> HIDE DEF file
<1>4. Write(who, file)
  BY <1>2, <1>3, Zenon DEF Write
<1> QED BY <1>2, <1>4, Zenon DEF Next

\* Each array of f that is sorted has items that its rule can compare.
Sortable(f) ==
  \A k \in DOMAIN f \cap DOMAIN Sheet.sorts :
     IsArray(f[k]) => LET items == f[k][2]
                      IN  /\ f[k] = <<"array", items>> /\ IsSequence(items)
                          /\ Comparable(Sheet.sorts[k], Range(items))

LEMMA FieldsAreKept ==
  ASSUME Weight \in [DOMAIN Weight -> Int], CodeUnit \in [DOMAIN CodeUnit -> Int],
         NEW f, NEW g, Normalized(f, g), Sortable(f)
  PROVE  \A k \in DOMAIN f : KeptField(k, f[k], g[k])
<1> SUFFICES ASSUME NEW k \in DOMAIN f PROVE KeptField(k, f[k], g[k])
  OBVIOUS
<1> DEFINE sorted == k \in DOMAIN Sheet.sorts /\ IsArray(f[k])
           rule == Sheet.sorts[k]
           items == f[k][2]
           x == f[k]
           y == g[k]
<1>1. ~Failed(y) /\ y = IF sorted THEN SortArray(rule, items) ELSE x
  BY Zenon DEF Normalized
<1>2. sorted => x = <<"array", items>> /\ IsSequence(items) /\ Comparable(rule, Range(items))
  BY Zenon DEF Sortable
<1>3. KeptField(k, x, y) <=> IF sorted /\ rule # <<"all", FALSE>> THEN IsArray(y) /\ SortedAs(rule, items, y[2]) ELSE y = x
  BY Zenon DEF KeptField
<1> HIDE DEF x, y, items, rule
<1>5. CASE ~sorted
  BY <1>1, <1>3, <1>5, Zenon DEF x, y
<1>6. CASE sorted /\ rule # <<"all", FALSE>>
  <2>1. Orders(rule, Range(items)) /\ items \in Seq(Range(items))
    BY <1>2, <1>6, RulesOrder DEF IsSequence
  <2>2. y = SortArray(rule, items) /\ ~Failed(SortArray(rule, items))
    BY <1>1, <1>6
  <2>3. IsArray(SortArray(rule, items)) /\ SortedAs(rule, items, SortArray(rule, items)[2])
    BY <1>6, <2>1, <2>2, ArraysAreSorted
  <2> QED BY <1>3, <1>6, <2>2, <2>3, Zenon DEF x, y
<1>7. CASE sorted /\ rule = <<"all", FALSE>>
  <2>1. y = <<"array", items>>
    <3>1. SortArray(rule, items) = <<"array", items>>
      BY <1>7, Zenon DEF SortArray
    <3> QED BY <1>1, <1>7, <3>1
  <2>2. x = <<"array", items>>
    BY <1>2, <1>7
  <2> QED BY <1>3, <1>7, <2>1, <2>2, Zenon DEF x, y
<1> QED BY <1>5, <1>6, <1>7

\* What an upsert has written is the record's file, by its client, and reads as
\* the record that was handed in: the same fields, each as it was but for the
\* arrays that have a rule, and those sorted by it and stably. (prepare_upsert
\* normalizes and serializes, stage_upsert stores, parse reads it back.)
THEOREM UpsertsReadBack ==
  ASSUME KeyOrder \in Seq(Range(KeyOrder)),
         Weight \in [DOMAIN Weight -> Int], CodeUnit \in [DOMAIN CodeUnit -> Int],
         TypeOK, IsToml, NEW f, NEW C, IsTableOf(f, C), Sortable(f),
         NEW who, NEW defs, NEW previous, NEW allow,
         StageUpsert(who, Prepared(Table(f), defs, previous, allow)), UNCHANGED opened,
         NEW r, r = StemsOf(Prepared(Table(f), defs, previous, allow)[2].path)
  PROVE  LET read == Stored(r)'
         IN  /\ Author(r)' = who
             /\ IsTable(read) /\ DOMAIN read[2] = DOMAIN f
             /\ \A k \in DOMAIN f : KeptField(k, f[k], read[2][k])
<1> DEFINE v == Table(f)
           prepared == Prepared(v, defs, previous, allow)
           record == NormalizeRecord(v)
           path == Render(Sheet.template, record)
           q == path[2]
           file == FileOf(q, Ext)
           read == Stored(r)'
<1>1. Upserted(who, defs, v, prepared)
  BY UpsertIs
<1>2. /\ IsRecord(record) /\ StemsOf(prepared[2].path) = q /\ FileAt(q, Sheet) = file
      /\ author'[file] = who /\ ParseToml(files'[file]) = record
  BY <1>1, Zenon DEF Upserted
<1>0. r = q
  BY <1>2
<1>3. ~Failed(record)
  <2> HIDE DEF record
  <2>1. record[1] = "table"
    BY <1>2 DEF IsRecord, IsTable
  <2> QED BY <2>1 DEF Failed
<1>4. PICK g : IsTableOf(g, C) /\ record = Table(g) /\ Normalized(f, g)
  BY <1>3, NormalizedIs, Zenon
<1> HIDE DEF record, path, q, file, prepared, v
<1>5. Sheet' = Sheet
  BY DEF Sheet
<1>6. FileAt(r, Sheet)' = file
  BY <1>0, <1>2, <1>5 DEF FileAt
<1>7. Author(r)' = who
  BY <1>2, <1>6 DEF Author
<1>8. read = record
  <2>1. Sheet.format.kind = "toml"
    BY DEF IsToml
  <2>2. read = Parse(files'[file], Sheet.format)
    BY <1>5, <1>6 DEF Stored
  <2> HIDE DEF read
  <2>3. read = ParseToml(files'[file])
    BY <2>1, <2>2, Zenon DEF Parse, ParseWith
  <2> QED BY <1>2, <2>3
<1> HIDE DEF read
<1>9. IsTable(read) /\ read[2] = g
  BY <1>4, <1>8 DEF IsTable, Table
<1>10. \A k \in DOMAIN f : KeptField(k, f[k], g[k])
  BY <1>4, FieldsAreKept
<1>11. DOMAIN g = DOMAIN f
  BY <1>4 DEF Normalized
<1>12. IsTable(read) /\ DOMAIN read[2] = DOMAIN f /\ \A k \in DOMAIN f : KeptField(k, f[k], read[2][k])
  BY <1>9, <1>10, <1>11
<1> QED BY <1>7, <1>12, Zenon DEF read

LEMMA NormalizesOnce ==
  ASSUME Weight \in [DOMAIN Weight -> Int], CodeUnit \in [DOMAIN CodeUnit -> Int],
         NEW f, NEW C, IsTableOf(f, C), Sortable(f), ~Failed(NormalizeRecord(Table(f)))
  PROVE  NormalizeRecord(NormalizeRecord(Table(f))) = NormalizeRecord(Table(f))
<1>1. PICK g : IsTableOf(g, C) /\ NormalizeRecord(Table(f)) = Table(g) /\ Normalized(f, g)
  BY NormalizedIs, Zenon
<1> DEFINE v == Table(g)
           sorts(k) == k \in DOMAIN Sheet.sorts /\ IsArray(g[k])
           h == [k \in DOMAIN g |-> IF sorts(k) THEN SortArray(Sheet.sorts[k], g[k][2]) ELSE g[k]]
<1>2. IsTable(v) /\ v[2] = g
  BY DEF IsTable, Table
<1>3. NormalizeRecord(v) = Whole("table", h)
  <2> HIDE DEF v
  <2>1. NormalizeRecord(v) = Whole("table", [k \in DOMAIN v[2] |->
            IF k \in DOMAIN Sheet.sorts /\ IsArray(v[2][k]) THEN SortArray(Sheet.sorts[k], v[2][k][2]) ELSE v[2][k]])
    BY <1>2, Zenon DEF NormalizeRecord, TableOf
  <2> QED BY <1>2, <2>1, Zenon
<1> HIDE DEF v
<1>4. ASSUME NEW k \in DOMAIN g PROVE h[k] = g[k] /\ ~Failed(g[k])
  <2> DEFINE rule == Sheet.sorts[k]
             items == f[k][2]
             sorted == k \in DOMAIN Sheet.sorts /\ IsArray(f[k])
  <2>1. k \in DOMAIN f /\ ~Failed(g[k]) /\ g[k] = IF sorted THEN SortArray(rule, items) ELSE f[k]
    BY <1>1, Zenon DEF Normalized
  <2>2. h[k] = IF sorts(k) THEN SortArray(rule, g[k][2]) ELSE g[k]
    OBVIOUS
  <2>3. sorted => IsSequence(items) /\ Comparable(rule, Range(items))
    BY <2>1, Zenon DEF Sortable
  <2> HIDE DEF rule, items, h
  <2>4. CASE sorted
    <3>1. Orders(rule, Range(items)) /\ items \in Seq(Range(items))
      BY <2>3, <2>4, RulesOrder DEF IsSequence
    <3>2. g[k] = SortArray(rule, items)
      BY <2>1, <2>4
    <3>3. SortArray(rule, g[k][2]) = g[k]
      BY <2>1, <3>1, <3>2, SortsOnce
    <3> QED BY <2>1, <2>2, <3>3
  <2>5. CASE ~sorted
    <3>1. ~sorts(k)
      BY <2>1, <2>5
    <3> QED BY <2>1, <2>2, <3>1
  <2> QED BY <2>4, <2>5
<1>5. h = g
  <2>1. h = [k \in DOMAIN g |-> h[k]]
    OBVIOUS
  <2>2. g = [k \in DOMAIN g |-> g[k]]
    BY <1>1 DEF IsTableOf
  <2> HIDE DEF h
  <2> QED BY <1>4, <2>1, <2>2
<1> HIDE DEF h
<1>6. Whole("table", g) = Table(g)
  BY <1>4, Zenon DEF Whole, Table
<1> QED BY <1>1, <1>3, <1>5, <1>6 DEF v

\* To write a record again as it was written moves it nowhere and changes
\* nothing of its text, in every format. (normalize_record is done after one
\* time; prepare_upsert renders the path of what it has normalized.)
THEOREM RewritesChangeNothing ==
  ASSUME Weight \in [DOMAIN Weight -> Int], CodeUnit \in [DOMAIN CodeUnit -> Int],
         NEW f, NEW C, IsTableOf(f, C), Sortable(f),
         NEW defs, NEW previous, NEW allow, ~Failed(Prepared(Table(f), defs, previous, allow)),
         NEW laterDefs, NEW laterPrevious, NEW laterAllow,
         ~Failed(Prepared(NormalizeRecord(Table(f)), laterDefs, laterPrevious, laterAllow))
  PROVE  LET first == Prepared(Table(f), defs, previous, allow)[2]
             again == Prepared(NormalizeRecord(Table(f)), laterDefs, laterPrevious, laterAllow)[2]
         IN  again.path = first.path /\ again.text = first.text
<1> DEFINE v == Table(f)
           record == NormalizeRecord(v)
           path == Render(Sheet.template, record)
           text == Serialize(record, Sheet.format)[2]
           first == Prepared(v, defs, previous, allow)[2]
           again == Prepared(record, laterDefs, laterPrevious, laterAllow)[2]
<1>1. ~Failed(record) /\ first = [path |-> Exact(path[2]), previous |-> Exact(previous), text |-> text]
  BY PreparedIs, Zenon
<1>2. NormalizeRecord(record) = record
  BY <1>1, NormalizesOnce
<1>3. again = [path |-> Exact(Render(Sheet.template, NormalizeRecord(record))[2]), previous |-> Exact(laterPrevious),
               text |-> Serialize(NormalizeRecord(record), Sheet.format)[2]]
  BY PreparedIs, Zenon
<1> HIDE DEF first, again, record, v
<1>4. again = [path |-> Exact(path[2]), previous |-> Exact(laterPrevious), text |-> text]
  BY <1>2, <1>3
<1> HIDE DEF path, text
<1>5. again.path = first.path /\ again.text = first.text
  BY <1>1, <1>4
<1> QED BY <1>5 DEF first, again, record, v

\* So does a deletion: it may take a directory along, but adds and changes no
\* file. (delete_at_path in sheet.rs.)
THEOREM DeletionsAreDeletes ==
  ASSUME TypeOK, NEW r, DeleteAtPath(r), UNCHANGED <<source, opened>>
  PROVE  Next
<1> DEFINE file == FileTree!RecordFile(<<>>, Exact(r))
           dir == FileTree!RecordDir(<<>>, Exact(r))
           first == FileTree!Without(files, file)
           after == FileTree!Without(first, dir)
<1>1. files' = FileTree!DeleteAtPath(files, <<>>, Exact(r))
  BY Zenon DEF DeleteAtPath, Store
<1>2. FileTree!DeleteAtPath(files, <<>>, Exact(r)) = after
  BY Zenon DEF FileTree!DeleteAtPath
<1>3. author' = [g \in DOMAIN files' |-> IF g \in {} THEN "" ELSE author[g]]
  BY <1>1, Zenon DEF DeleteAtPath, Store
<1>4. DOMAIN after \subseteq DOMAIN files /\ \A g \in DOMAIN after : after[g] = files[g]
  <2>1. DOMAIN first \subseteq DOMAIN files /\ \A g \in DOMAIN first : first[g] = files[g]
    BY WithoutKeeps
  <2> HIDE DEF first
  <2>2. DOMAIN after \subseteq DOMAIN first /\ \A g \in DOMAIN after : after[g] = first[g]
    BY WithoutKeeps
  <2> HIDE DEF after
  <2> QED BY <2>1, <2>2
<1> HIDE DEF after
<1>5. DOMAIN author' = DOMAIN files' /\ \A g \in DOMAIN files' : Kept(g)
  BY <1>1, <1>2, <1>3, <1>4 DEF Kept
<1> QED BY <1>5, Zenon DEF Delete, Next
=============================================================================
