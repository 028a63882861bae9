----------------------------- MODULE CoreIndexes -----------------------------
(* The records that a sheet of the core lists, and its secondary indexes over  *)
(* them (record.rs, sheet.rs, index.rs).                                       *)
(*                                                                             *)
(* Files are at paths below the sheet's base; of the sheet only its format     *)
(* matters here.                                                               *)
EXTENDS Pruning, Codec

CONSTANT KeyText(_)         \* what a script's String(value) prints

----------------------------------------------------------------------------
(* Reading all of a sheet *)

FileAt(stems, sheet) == FileOf(stems, ExtensionOf(sheet.format))

\* Every blob at any depth whose name has the extension counts as a record.
RecordTexts(files, ext) ==
    [r \in {StemsOf(f) : f \in {g \in DOMAIN files : IsRecordFile(g, ext)}} |-> files[FileOf(r, ext)]]

ListAll(sheet, files, withBody) ==
    LET texts == RecordTexts(files, ExtensionOf(sheet.format))
    IN  Whole("records", [r \in DOMAIN texts |->
            ParseWith(texts[r], sheet.format, withBody)])

----------------------------------------------------------------------------
(* Indexes. A definition is [name, unique, field]; the script takes the field. *)

KeyFor(def, record) ==
    LET v == Field(record, def.field) IN IF v = Absent THEN Absent ELSE <<"key", KeyText(v)>>

Keyed(def, records) == {r \in DOMAIN records : KeyFor(def, records[r]) # Absent}

BuildMulti(def, records) ==
    [key \in {KeyFor(def, records[r]) : r \in Keyed(def, records)} |->
        {r \in Keyed(def, records) : KeyFor(def, records[r]) = key}]

BuildUnique(def, records) ==
    LET multi == BuildMulti(def, records)
    IN  IF \E key \in DOMAIN multi : \E r, s \in multi[key] : r # s THEN Error("index_unique_conflict")
        ELSE <<"index", [key \in DOMAIN multi |-> CHOOSE r \in multi[key] : TRUE]>>

BuildIndex(def, records) ==
    IF def.unique THEN BuildUnique(def, records) ELSE <<"index", BuildMulti(def, records)>>

\* All of them are built, of records without bodies, as soon as one is needed.
\* That they are kept while the tree's hash is the same makes no difference.
EnsureIndexesBuilt(sheet, files, defs) ==
    Then(ListAll(sheet, files, FALSE), LAMBDA records :
        Batch([i \in DOMAIN defs |-> BuildIndex(defs[i], records[2])]))

\* Of the definitions of a kind that share a name the last one's index is kept.
IndexNamed(defs, unique, name) ==
    SelectLastInSeq(defs, LAMBDA d : d.unique = unique /\ d.name = name)

\* The paths of the records with a key
FindByIndex(sheet, files, defs, unique, name, key) ==
    LET i == IndexNamed(defs, unique, name)
        paths(index) == IF key \notin DOMAIN index THEN {}
                        ELSE IF unique THEN {index[key]} ELSE index[key]
    IN  Then(EnsureIndexesBuilt(sheet, files, defs), LAMBDA built :
            IF i = 0 THEN Error("index_not_defined") ELSE <<"paths", paths(built[2][i][2])>>)

\* A mistake: the check is left to the next build of the index.
CheckUniqueConflicts_Late(sheet, files, defs, record, path) == <<"free">>

\* The key may be nobody's but that of the record at the path; the key of each
\* definition is looked up in the index that is kept under its name.
CheckUniqueConflicts(sheet, files, defs, record, path) ==
    LET taken(index, key) == key # Absent /\ key \in DOMAIN index /\ index[key] # path
    IN  IF ~\E d \in Range(defs) : d.unique THEN <<"free">>
        ELSE Then(EnsureIndexesBuilt(sheet, files, defs), LAMBDA built :
                IF \E i \in DOMAIN defs :
                      /\ defs[i].unique
                      /\ taken(built[2][IndexNamed(defs, TRUE, defs[i].name)][2], KeyFor(defs[i], record))
                THEN Error("index_unique_conflict") ELSE <<"free">>)
=============================================================================
